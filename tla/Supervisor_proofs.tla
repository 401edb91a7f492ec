-------------------------- MODULE Supervisor_proofs --------------------------
(***************************************************************************)
(* Proofs about Supervisor: for any number of workers, processes and       *)
(* descriptors and any faults, its variables keep their types, a worker    *)
(* index has one process at most, and a descriptor that is mapped to a     *)
(* living worker is that worker's own.                                     *)
(*                                                                         *)
(* The argument rests on what an entry of m_mapWorker says of its process: *)
(* there is one exactly while the process has not been waited for          *)
(* (Matched), its two descriptors differ (TwoFds), and so do the indexes   *)
(* of two entries (IndexUnique).  Hence RestartWorker always finds a       *)
(* process number, that of the worker it buries, and two descriptors, the  *)
(* ones it has just closed, and what it overwrites belongs to no worker    *)
(* that lives.                                                             *)
(***************************************************************************)
EXTENDS Supervisor, WellFoundedInduction, TLAPS

\* m_mapWorker has an entry for every process that is not waited for yet.
Matched ==
    \A p \in Pid :
        /\ Known(p) <=> proc[p] # NoProcess
        /\ proc[p].state = "none" => proc[p] = NoProcess
        /\ worker[p].index = proc[p].index

\* A worker has two descriptors.
TwoFds ==
    \A p \in Pid : Known(p) =>
        /\ worker[p].control \in Fd
        /\ worker[p].data \in Fd
        /\ worker[p].control # worker[p].data

\* Two entries have different indexes.
IndexUnique ==
    \A p, q \in Pid : Known(p) /\ p # q => worker[q].index # worker[p].index

WorkersOK == Matched /\ TwoFds /\ IndexUnique

IInv == TypeOK /\ WorkersOK /\ MappedIsOwn

-----------------------------------------------------------------------------
(* Entries and their types.                                                *)

LEMMA ProcessTyped ==
    /\ NoProcess \in Process
    /\ \A i \in 0 .. WorkerNum : Started(i) \in Process
BY WorkerNumAssumption DEF NoProcess, Started, Process

LEMMA WorkerTyped ==
    /\ NoWorker \in WorkerAttr
    /\ \A i \in 0 .. WorkerNum, c, d \in Fd : NewWorker(i, c, d) \in WorkerAttr
BY WorkerNumAssumption, FdAssumption DEF NoWorker, NewWorker, WorkerAttr, Fd

LEMMA SockTyped ==
    /\ Free \in Sock /\ Conn \in Sock
    /\ \A p \in Pid : End(p) \in Sock
BY PidAssumption DEF Free, Conn, End, Sock, Pid

-----------------------------------------------------------------------------
(* Numbers of descriptors and processes.                                   *)

\* A set of numbers that is not empty has a lowest one.
LEMMA LowestIsIn ==
    ASSUME NEW S \in SUBSET Nat, S # {}
    PROVE  Lowest(S) \in S
<1> DEFINE Less == {ss \in Nat \X Nat : ss[1] < ss[2]}
<1>1. IsWellFoundedOn(Less, Nat)
  BY NatLessThanWellFounded DEF OpToRel
<1> HIDE DEF Less
<1>2. PICK f \in S : \A g \in S : ~ (<<g, f>> \in Less)
  BY <1>1, WFMin
<1>3. ASSUME NEW g \in S PROVE f <= g
  <2>1. CASE g < f
    <3>1. <<g, f>> \in Less
      BY <2>1 DEF Less
    <3> QED BY <3>1, <1>2
  <2> QED BY <2>1
<1> QED
  BY <1>3 DEF Lowest

\* RestartWorker finds two free descriptors: at least those it has closed.
LEMMA TwoFreeFds ==
    ASSUME IInv, NEW p \in Pid, Known(p)
    PROVE  LET c == Lowest(FreeFds(ClosedOf(p)))
               d == Lowest(FreeFds(ClosedOf(p)) \ {c})
           IN /\ c \in FreeFds(ClosedOf(p))
              /\ d \in FreeFds(ClosedOf(p))
              /\ c # d
<1> DEFINE S == FreeFds(ClosedOf(p))
           c == Lowest(S)
           d == Lowest(S \ {c})
<1>1. S \in SUBSET Nat
  BY FdAssumption DEF FreeFds, Fd
<1>2. FdsOf(p) \subseteq S
  BY DEF FreeFds, ClosedOf, Free, FdsOf, IInv, WorkersOK, TwoFds
<1>3. worker[p].control \in S /\ worker[p].data \in S /\ worker[p].control # worker[p].data
  BY <1>2 DEF FdsOf, IInv, WorkersOK, TwoFds
<1> HIDE DEF S
<1>4. c \in S
  BY <1>1, <1>3, LowestIsIn
<1> HIDE DEF c
<1>5. S \ {c} \in SUBSET Nat /\ S \ {c} # {}
  <2>1. worker[p].control \in S \ {c} \/ worker[p].data \in S \ {c}
    BY <1>3
  <2> QED
    BY <1>1, <2>1
<1>6. d \in S \ {c}
  BY <1>5, LowestIsIn
<1> QED
  BY <1>4, <1>6 DEF S, c, d

\* RestartWorker finds a process number: at least that of the dead worker.
LEMMA FreePid ==
    ASSUME IInv, NEW p \in Pid
    PROVE  LET gone == [proc EXCEPT ![p] = NoProcess]
               q == Lowest({r \in Pid : gone[r] = NoProcess})
           IN q \in Pid /\ gone[q] = NoProcess
<1> DEFINE gone == [proc EXCEPT ![p] = NoProcess]
           S == {r \in Pid : gone[r] = NoProcess}
<1>1. S \in SUBSET Nat
  BY PidAssumption DEF Pid
<1>2. p \in S
  BY DEF IInv, TypeOK
<1> HIDE DEF S
<1>3. Lowest(S) \in S
  BY <1>1, <1>2, LowestIsIn
<1> QED
  BY <1>3 DEF S

-----------------------------------------------------------------------------
(* RestartWorker.                                                          *)

\* The entries of the dead worker are gone from m_mapWorkerFdPid.
LEMMA UnmappedIsGone ==
    ASSUME IInv, NEW p \in Pid, NEW f \in Fd
    PROVE  /\ Unmapped(p)[f] \in 0 .. MaxPid
           /\ Unmapped(p)[f] # p
           /\ Unmapped(p)[f] # 0 => Unmapped(p)[f] = fdPid[f] /\ f \notin FdsOf(p)
<1>1. fdPid[f] \in 0 .. MaxPid
  BY DEF IInv, TypeOK
<1>2. fdPid[f] = p => f \in FdsOf(p)
  BY DEF IInv, MappedIsOwn
<1> QED
  BY <1>1, <1>2, PidAssumption DEF Unmapped, Pid

\* What fork() leaves when it fails is as good as what was before.
LEMMA RestartFails ==
    ASSUME IInv, NEW p \in Pid, Known(p),
           proc' = [proc EXCEPT ![p] = NoProcess],
           worker' = [worker EXCEPT ![p] = NoWorker],
           fdPid' = Unmapped(p),
           sock' = ClosedOf(p)
    PROVE  /\ proc' \in [Pid -> Process] /\ worker' \in [Pid -> WorkerAttr]
           /\ fdPid' \in [Fd -> 0 .. MaxPid] /\ sock' \in [Fd -> Sock]
           /\ WorkersOK' /\ MappedIsOwn'
<1>1. proc' \in [Pid -> Process]
  BY ProcessTyped DEF IInv, TypeOK
<1>2. worker' \in [Pid -> WorkerAttr]
  BY WorkerTyped DEF IInv, TypeOK
<1>3. fdPid' \in [Fd -> 0 .. MaxPid]
  BY UnmappedIsGone DEF Unmapped
<1>4. sock' \in [Fd -> Sock]
  BY SockTyped DEF IInv, TypeOK, ClosedOf
<1>5. \A q \in Pid : q # p => worker'[q] = worker[q] /\ proc'[q] = proc[q]
  BY DEF IInv, TypeOK
<1>6. worker'[p] = NoWorker /\ proc'[p] = NoProcess
  BY DEF IInv, TypeOK
<1>7. Matched'
  BY <1>5, <1>6 DEF IInv, WorkersOK, Matched, Known, NoWorker, NoProcess
<1>8. TwoFds'
  BY <1>5, <1>6 DEF IInv, WorkersOK, TwoFds, Known, NoWorker
<1>9. IndexUnique'
  BY <1>5, <1>6 DEF IInv, WorkersOK, IndexUnique, Known, NoWorker
<1>10. MappedIsOwn'
  <2>1. SUFFICES ASSUME NEW f \in Fd, NEW q \in Pid, Unmapped(p)[f] = q
                 PROVE  /\ Known(q)' /\ f \in FdsOf(q)'
                        /\ Lives(q)' /\ (f = worker'[q].data \/ "answer" \notin Faults)
                             => sock'[f] = End(q)
    BY DEF MappedIsOwn
  <2>2. q # p /\ q # 0 /\ fdPid[f] = q /\ f \notin FdsOf(p)
    BY <2>1, UnmappedIsGone, PidAssumption DEF Pid
  <2>3. sock'[f] = sock[f]
    BY <2>2 DEF ClosedOf
  <2> QED
    BY <1>5, <2>2, <2>3 DEF IInv, MappedIsOwn, Known, FdsOf, Lives
<1> QED
  BY <1>1, <1>2, <1>3, <1>4, <1>7, <1>8, <1>9, <1>10 DEF WorkersOK

\* A new worker takes over the index of the dead one and nothing else.
LEMMA RestartForks ==
    ASSUME IInv, NEW p \in Pid, Known(p),
           NEW q \in Pid, [proc EXCEPT ![p] = NoProcess][q] = NoProcess,
           NEW c \in FreeFds(ClosedOf(p)), NEW d \in FreeFds(ClosedOf(p)), c # d,
           proc' = [[proc EXCEPT ![p] = NoProcess] EXCEPT ![q] = Started(worker[p].index)],
           worker' = [[worker EXCEPT ![p] = NoWorker] EXCEPT
                         ![q] = NewWorker(worker[p].index, c, d)],
           fdPid' = Insert(Insert(Unmapped(p), c, q), d, q),
           sock' = [ClosedOf(p) EXCEPT ![c] = End(q), ![d] = End(q)]
    PROVE  /\ proc' \in [Pid -> Process] /\ worker' \in [Pid -> WorkerAttr]
           /\ fdPid' \in [Fd -> 0 .. MaxPid] /\ sock' \in [Fd -> Sock]
           /\ WorkersOK' /\ MappedIsOwn'
<1>1. c \in Fd /\ d \in Fd
  BY DEF FreeFds
<1>2. worker[p].index \in 0 .. WorkerNum /\ worker[p].index # 0
  BY DEF IInv, TypeOK, WorkerAttr, Known
<1>3. proc' \in [Pid -> Process]
  BY <1>2, ProcessTyped DEF IInv, TypeOK
<1>4. worker' \in [Pid -> WorkerAttr]
  BY <1>1, <1>2, WorkerTyped DEF IInv, TypeOK
<1>5. Unmapped(p) \in [Fd -> 0 .. MaxPid]
  BY UnmappedIsGone DEF Unmapped
<1>6. q \in 0 .. MaxPid
  BY PidAssumption DEF Pid
<1>7. fdPid' \in [Fd -> 0 .. MaxPid]
  BY <1>1, <1>5, <1>6 DEF Insert
<1>8. ClosedOf(p) \in [Fd -> Sock]
  BY SockTyped DEF IInv, TypeOK, ClosedOf
<1>9. sock' \in [Fd -> Sock]
  BY <1>1, <1>8, SockTyped
<1>10. \A r \in Pid : r # p /\ r # q => worker'[r] = worker[r] /\ proc'[r] = proc[r]
  BY DEF IInv, TypeOK
<1>11. worker'[q] = NewWorker(worker[p].index, c, d) /\ proc'[q] = Started(worker[p].index)
  BY DEF IInv, TypeOK
<1>12. q # p => worker'[p] = NoWorker /\ proc'[p] = NoProcess /\ ~Known(q)
  BY DEF IInv, TypeOK, WorkersOK, Matched
<1>13. /\ worker'[q].index = worker[p].index /\ proc'[q].index = worker[p].index
       /\ worker'[q].control = c /\ worker'[q].data = d
       /\ proc'[q].state = "run" /\ proc'[q] # NoProcess
  BY <1>11 DEF NewWorker, Started, NoProcess
<1>14. q # p => worker'[p].index = 0 /\ proc'[p].index = 0
  BY <1>12 DEF NoWorker, NoProcess
<1>15. WorkersOK'
  <2>1. Matched'
    <3>1. SUFFICES ASSUME NEW r \in Pid
                   PROVE  /\ worker'[r].index # 0 <=> proc'[r] # NoProcess
                          /\ proc'[r].state = "none" => proc'[r] = NoProcess
                          /\ worker'[r].index = proc'[r].index
      BY DEF Matched, Known
    <3>2. CASE r = q
      BY <1>2, <1>13, <3>2
    <3>3. CASE r = p /\ r # q
      BY <1>12, <1>14, <3>3
    <3>4. CASE r # p /\ r # q
      BY <1>10, <3>4 DEF IInv, WorkersOK, Matched, Known
    <3> QED BY <3>2, <3>3, <3>4
  <2>2. TwoFds'
    <3>1. SUFFICES ASSUME NEW r \in Pid, worker'[r].index # 0
                   PROVE  /\ worker'[r].control \in Fd /\ worker'[r].data \in Fd
                          /\ worker'[r].control # worker'[r].data
      BY DEF TwoFds, Known
    <3>2. CASE r = q
      BY <1>1, <1>13, <3>2
    <3>3. CASE r # q
      BY <1>10, <1>14, <3>1, <3>3 DEF IInv, WorkersOK, TwoFds, Known
    <3> QED BY <3>2, <3>3
  <2>3. IndexUnique'
    <3>1. SUFFICES ASSUME NEW r \in Pid, NEW t \in Pid, worker'[r].index # 0, r # t
                   PROVE  worker'[t].index # worker'[r].index
      BY DEF IndexUnique, Known
    <3>2. \A s \in Pid : s # p /\ s # q /\ worker[s].index # 0 => worker[s].index # worker[p].index
      BY DEF IInv, WorkersOK, IndexUnique, Known
    <3>3. ASSUME NEW s \in Pid, s # q
          PROVE  worker'[s].index # worker[p].index
      <4>1. CASE s = p
        BY <1>2, <1>14, <3>3, <4>1
      <4>2. CASE s # p
        <5>1. worker'[s] = worker[s]
          BY <1>10, <3>3, <4>2
        <5> QED BY <1>2, <3>2, <3>3, <4>2, <5>1
      <4> QED BY <4>1, <4>2
    <3>4. CASE r # q /\ t # q
      <4>1. r # p /\ worker'[r] = worker[r]
        BY <1>10, <1>14, <3>1, <3>4
      <4>2. CASE t = p
        BY <1>14, <3>1, <3>4, <4>2
      <4>3. CASE t # p
        <5>1. worker'[t] = worker[t]
          BY <1>10, <3>4, <4>3
        <5> QED BY <3>1, <4>1, <5>1 DEF IInv, WorkersOK, IndexUnique, Known
      <4> QED BY <4>2, <4>3
    <3>5. CASE r = q
      BY <1>13, <3>1, <3>3, <3>5
    <3>6. CASE t = q
      BY <1>13, <3>1, <3>3, <3>6
    <3> QED BY <3>4, <3>5, <3>6
  <2> QED BY <2>1, <2>2, <2>3 DEF WorkersOK
<1>16. MappedIsOwn'
  <2>1. SUFFICES ASSUME NEW f \in Fd, NEW r \in Pid, fdPid'[f] = r
                 PROVE  /\ Known(r)' /\ f \in FdsOf(r)'
                        /\ Lives(r)' /\ (f = worker'[r].data \/ "answer" \notin Faults)
                             => sock'[f] = End(r)
    BY DEF MappedIsOwn
  <2>2. \/ f \in {c, d} /\ r = q /\ Unmapped(p)[f] = 0
        \/ r # 0 /\ Unmapped(p)[f] = r
    BY <2>1, <1>1, <1>5, PidAssumption DEF Insert, Pid
  <2>3. CASE f \in {c, d} /\ r = q
    BY <1>1, <1>2, <1>8, <1>11, <2>3 DEF Known, FdsOf, NewWorker
  <2>4. CASE r # 0 /\ Unmapped(p)[f] = r
    <3>1. r # p /\ fdPid[f] = r /\ f \notin FdsOf(p) /\ Known(r)
      BY <2>4, UnmappedIsGone DEF IInv, MappedIsOwn
    <3>2. r # q
      BY <3>1, <1>12
    <3>3. worker'[r] = worker[r] /\ proc'[r] = proc[r]
      BY <1>10, <3>1, <3>2
    <3>4. sock[f] = End(r) => f \notin {c, d}
      BY <3>1, PidAssumption DEF FreeFds, ClosedOf, End, Pid
    <3>5. sock[f] = End(r) => sock'[f] = End(r)
      BY <1>1, <1>8, <3>1, <3>4 DEF ClosedOf
    <3> QED
      BY <3>1, <3>3, <3>5 DEF IInv, MappedIsOwn, Known, FdsOf, Lives
  <2> QED
    BY <2>2, <2>3, <2>4
<1> QED
  BY <1>3, <1>4, <1>7, <1>9, <1>15, <1>16

\* Either way the invariant holds of what RestartWorker leaves.
LEMMA RestartKeeps ==
    ASSUME IInv, NEW p \in Pid, Known(p), RestartWorker(p, NoProcess)
    PROVE  /\ proc' \in [Pid -> Process] /\ worker' \in [Pid -> WorkerAttr]
           /\ copies' \in [Pid -> SUBSET Pid]
           /\ fdPid' \in [Fd -> 0 .. MaxPid] /\ sock' \in [Fd -> Sock]
           /\ WorkersOK' /\ MappedIsOwn'
<1> DEFINE c == Lowest(FreeFds(ClosedOf(p)))
           d == Lowest(FreeFds(ClosedOf(p)) \ {c})
           q == Lowest({r \in Pid : [proc EXCEPT ![p] = NoProcess][r] = NoProcess})
<1>1. /\ c \in FreeFds(ClosedOf(p)) /\ d \in FreeFds(ClosedOf(p)) /\ c # d
  BY TwoFreeFds
<1>2. q \in Pid /\ [proc EXCEPT ![p] = NoProcess][q] = NoProcess
  BY FreePid
<1>3. \/ /\ proc' = [[proc EXCEPT ![p] = NoProcess] EXCEPT ![q] = Started(worker[p].index)]
         /\ worker' = [[worker EXCEPT ![p] = NoWorker] EXCEPT
                          ![q] = NewWorker(worker[p].index, c, d)]
         /\ fdPid' = Insert(Insert(Unmapped(p), c, q), d, q)
         /\ sock' = [ClosedOf(p) EXCEPT ![c] = End(q), ![d] = End(q)]
      \/ /\ proc' = [proc EXCEPT ![p] = NoProcess]
         /\ worker' = [worker EXCEPT ![p] = NoWorker]
         /\ fdPid' = Unmapped(p)
         /\ sock' = ClosedOf(p)
  BY DEF RestartWorker
<1>4. copies' \in [Pid -> SUBSET Pid]
  <2>1. copies \in [Pid -> SUBSET Pid]
    BY DEF IInv, TypeOK
  <2>2. \/ copies' = [r \in Pid |-> IF r = q THEN Inherited(p) ELSE copies[r] \ {q}]
        \/ copies' = copies
    BY DEF RestartWorker
  <2>3. Inherited(p) \subseteq Pid
    BY DEF Inherited
  <2> HIDE DEF q
  <2> QED
    BY <2>1, <2>2, <2>3
<1> HIDE DEF c, d, q
<1> QED
  BY <1>1, <1>2, <1>3, <1>4, RestartForks, RestartFails

-----------------------------------------------------------------------------
(* The other steps.                                                        *)

\* A process that lives changes its state.
LEMMA BecomeKeeps ==
    ASSUME IInv, NEW p \in Pid, NEW s \in {"run", "hung", "zombie"}, Lives(p),
           Become(p, s), UNCHANGED <<worker, fdPid, sock>>
    PROVE  /\ proc' \in [Pid -> Process] /\ copies' \in [Pid -> SUBSET Pid]
           /\ WorkersOK' /\ MappedIsOwn'
<1>1. proc' \in [Pid -> Process]
  BY DEF IInv, TypeOK, Become, Process
<1>2. \A q \in Pid : q # p => proc'[q] = proc[q]
  BY DEF IInv, TypeOK, Become
<1>3. proc'[p].state = s /\ proc'[p].index = proc[p].index
  BY DEF IInv, TypeOK, Become, Process
<1>4. Known(p)
  BY DEF IInv, WorkersOK, Matched, Lives, NoProcess
<1>5. Matched'
  <2>1. proc'[p] # NoProcess
    BY <1>3 DEF NoProcess
  <2> QED
    BY <1>2, <1>3, <1>4, <2>1 DEF IInv, WorkersOK, Matched, Known
<1>6. TwoFds' /\ IndexUnique'
  BY DEF IInv, WorkersOK, TwoFds, IndexUnique, Known
<1>7. \A q \in Pid : Lives(q)' => Lives(q)
  BY <1>2 DEF Lives
<1>8. MappedIsOwn'
  BY <1>7 DEF IInv, MappedIsOwn, Known, FdsOf
<1>9. copies' \in [Pid -> SUBSET Pid]
  BY DEF IInv, TypeOK, Become
<1> QED
  BY <1>1, <1>5, <1>6, <1>8, <1>9 DEF WorkersOK

\* The load of an entry changes.
LEMMA LoadKeeps ==
    ASSUME IInv, NEW q, NEW b \in BOOLEAN,
           worker' = [worker EXCEPT ![q].idle = b], UNCHANGED <<proc, fdPid, sock>>
    PROVE  worker' \in [Pid -> WorkerAttr] /\ WorkersOK' /\ MappedIsOwn'
<1>1. worker' \in [Pid -> WorkerAttr]
  BY DEF IInv, TypeOK, WorkerAttr
<1>2. \A p \in Pid : /\ worker'[p].index = worker[p].index
                     /\ worker'[p].control = worker[p].control
                     /\ worker'[p].data = worker[p].data
  BY DEF IInv, TypeOK, WorkerAttr
<1>3. Matched' /\ TwoFds' /\ IndexUnique'
  BY <1>2 DEF IInv, WorkersOK, Matched, TwoFds, IndexUnique, Known
<1>4. MappedIsOwn'
  BY <1>2 DEF IInv, MappedIsOwn, Known, FdsOf, Lives
<1> QED
  BY <1>1, <1>3, <1>4 DEF WorkersOK

\* A descriptor changes that is no living worker's own, or the control
\* descriptor of one after an answer.
LEMMA SockKeeps ==
    ASSUME IInv, NEW f \in Fd, NEW x \in Sock,
           sock' = [sock EXCEPT ![f] = x], UNCHANGED <<proc, worker, fdPid>>,
           \A q \in Pid : Lives(q) /\ fdPid[f] = q /\ sock[f] = End(q)
                => f # worker[q].data /\ "answer" \in Faults
    PROVE  sock' \in [Fd -> Sock] /\ WorkersOK' /\ MappedIsOwn'
<1>1. sock' \in [Fd -> Sock]
  BY DEF IInv, TypeOK
<1>2. WorkersOK'
  BY DEF IInv, WorkersOK, Matched, TwoFds, IndexUnique, Known
<1>3. \A g \in Fd : g # f => sock'[g] = sock[g]
  BY DEF IInv, TypeOK
<1>4. MappedIsOwn'
  BY <1>3 DEF IInv, MappedIsOwn, Known, FdsOf, Lives
<1> QED
  BY <1>1, <1>2, <1>4

\* The processes that are known are killed.
LEMMA KillKeeps ==
    ASSUME IInv, CheckWorkerLoadNullRestartWorkers
    PROVE  /\ proc' \in [Pid -> Process] /\ copies' \in [Pid -> SUBSET Pid]
           /\ WorkersOK' /\ MappedIsOwn'
<1>1. \A p \in Pid : proc'[p] \in {proc[p], [proc[p] EXCEPT !.state = "zombie"]}
  BY DEF CheckWorkerLoadNullRestartWorkers
<1>2. \A p \in Pid : [proc[p] EXCEPT !.state = "zombie"] \in Process
  BY DEF IInv, TypeOK, Process
<1>3. proc' \in [Pid -> Process]
  BY <1>2 DEF IInv, TypeOK, CheckWorkerLoadNullRestartWorkers
<1>4. \A p \in Pid : /\ Lives(p)' => Lives(p)
                     /\ proc'[p].index = proc[p].index
                     /\ proc'[p] = proc[p] \/ (proc'[p].state = "zombie" /\ Known(p))
  BY DEF IInv, TypeOK, Process, Lives, CheckWorkerLoadNullRestartWorkers
<1>5. Matched'
  <2>1. \A p \in Pid : proc'[p].state = "zombie" => proc'[p] # NoProcess
    BY DEF NoProcess
  <2> QED
    BY <1>4, <2>1 DEF IInv, WorkersOK, Matched, Known, CheckWorkerLoadNullRestartWorkers
<1>6. TwoFds' /\ IndexUnique'
  BY DEF IInv, WorkersOK, TwoFds, IndexUnique, Known, CheckWorkerLoadNullRestartWorkers
<1>7. MappedIsOwn'
  BY <1>4 DEF IInv, MappedIsOwn, Known, FdsOf, CheckWorkerLoadNullRestartWorkers
<1>8. copies' \in [Pid -> SUBSET Pid]
  BY DEF IInv, TypeOK, CheckWorkerLoadNullRestartWorkers
<1> QED
  BY <1>3, <1>5, <1>6, <1>7, <1>8 DEF WorkersOK

-----------------------------------------------------------------------------
(* The invariant.                                                          *)

LEMMA InitInv == Init => IInv
<1> SUFFICES ASSUME Init PROVE IInv
  OBVIOUS
<1>1. \A p \in Pid : p <= WorkerNum =>
        /\ p \in 0 .. WorkerNum /\ p # 0
        /\ 2 * p - 1 \in Fd /\ 2 * p \in Fd
  BY WorkerNumAssumption, PidAssumption, FdAssumption DEF Pid, Fd
<1>2. \A f \in Fd : f <= 2 * WorkerNum =>
        /\ (f + 1) \div 2 \in Pid /\ (f + 1) \div 2 <= WorkerNum
        /\ f \in {2 * ((f + 1) \div 2) - 1, 2 * ((f + 1) \div 2)}
  BY WorkerNumAssumption, PidAssumption, FdAssumption DEF Pid, Fd
<1>3. TypeOK
  <2>1. proc \in [Pid -> Process]
    BY <1>1, ProcessTyped DEF Init
  <2>2. worker \in [Pid -> WorkerAttr]
    BY <1>1, WorkerTyped DEF Init
  <2>3. fdPid \in [Fd -> 0 .. MaxPid]
    BY <1>2, PidAssumption DEF Init, Pid
  <2>4. sock \in [Fd -> Sock]
    BY <1>2, SockTyped DEF Init
  <2>5. signalled \subseteq Pid /\ task \in Task
    BY WaitAssumption DEF Init, NoTask, Task
  <2>6. copies \in [Pid -> SUBSET Pid]
    <3>1. \A p \in Pid : p <= WorkerNum => 1 .. (p - 1) \subseteq Pid
      BY WorkerNumAssumption, PidAssumption DEF Pid
    <3> QED
      BY <3>1 DEF Init
  <2> QED
    BY <2>1, <2>2, <2>3, <2>4, <2>5, <2>6 DEF TypeOK
<1>4. \A p \in Pid :
        \/ p <= WorkerNum /\ proc[p] = Started(p) /\ worker[p] = NewWorker(p, 2 * p - 1, 2 * p)
        \/ ~(p <= WorkerNum) /\ proc[p] = NoProcess /\ worker[p] = NoWorker
  BY DEF Init
<1>5. ASSUME NEW p \in Pid, p <= WorkerNum
      PROVE  /\ proc[p] # NoProcess /\ proc[p].state = "run" /\ proc[p].index = p
             /\ worker[p].index = p /\ p # 0
             /\ worker[p].control = 2 * p - 1 /\ worker[p].data = 2 * p
  <2>1. proc[p] = Started(p) /\ worker[p] = NewWorker(p, 2 * p - 1, 2 * p) /\ p # 0
    BY <1>1, <1>4, <1>5
  <2> QED
    BY <2>1 DEF Started, NewWorker, NoProcess
<1>6. ASSUME NEW p \in Pid, ~(p <= WorkerNum)
      PROVE  proc[p] = NoProcess /\ proc[p].index = 0 /\ worker[p].index = 0
  BY <1>4, <1>6 DEF NoProcess, NoWorker
<1>7. WorkersOK
  <2>1. Matched
    BY <1>5, <1>6 DEF Matched, Known
  <2>2. TwoFds
    <3>1. \A p \in Pid : 2 * p - 1 # 2 * p
      BY DEF Pid
    <3> QED
      BY <1>1, <1>5, <1>6, <3>1 DEF TwoFds, Known
  <2>3. IndexUnique
    BY <1>5, <1>6 DEF IndexUnique, Known
  <2> QED
    BY <2>1, <2>2, <2>3 DEF WorkersOK
<1>8. MappedIsOwn
  <2>1. SUFFICES ASSUME NEW f \in Fd, NEW p \in Pid, fdPid[f] = p
                 PROVE  Known(p) /\ f \in FdsOf(p) /\ sock[f] = End(p)
    BY DEF MappedIsOwn
  <2>2. f <= 2 * WorkerNum /\ p = (f + 1) \div 2
    BY <2>1 DEF Init, Pid
  <2>3. worker[p] = NewWorker(p, 2 * p - 1, 2 * p) /\ p # 0
    BY <1>1, <1>2, <1>4, <2>2
  <2>4. sock[f] = End(p)
    BY <2>2 DEF Init
  <2> QED
    BY <1>2, <2>2, <2>3, <2>4 DEF Known, FdsOf, NewWorker
<1> QED
  BY <1>3, <1>7, <1>8 DEF IInv

LEMMA StepInv == IInv /\ [Next]_vars => IInv'
<1> SUFFICES ASSUME IInv, [Next]_vars PROVE IInv'
  OBVIOUS
<1> USE DEF Running
<1>1. ASSUME NEW p \in Pid, Crash(p) PROVE IInv'
  BY <1>1, BecomeKeeps DEF Crash, IInv, TypeOK
<1>2. ASSUME NEW p \in Pid, Hang(p) PROVE IInv'
  BY <1>2, BecomeKeeps DEF Hang, IInv, TypeOK, Lives
<1>3. ASSUME NEW p \in Pid, Recover(p) PROVE IInv'
  BY <1>3, BecomeKeeps DEF Recover, IInv, TypeOK, Lives
<1>4. ASSUME NEW p \in Pid, LoseManager(p) PROVE IInv'
  BY <1>4, BecomeKeeps DEF LoseManager, IInv, TypeOK, Lives
<1>5. ASSUME NEW p \in Pid, Report(p) PROVE IInv'
  BY <1>5, LoadKeeps DEF Report, IInv, TypeOK
<1>6. ASSUME NEW p \in Pid, OtherMessage(p) PROVE IInv'
  <2> DEFINE f == worker[p].control
  <2>1. /\ Known(p) /\ f \in Fd /\ f # worker[p].data /\ sock[f] = End(p)
    BY <1>6 DEF OtherMessage, Heard, IInv, WorkersOK, TwoFds
  <2>2. \A q \in Pid : sock[f] = End(q) => q = p
    BY <2>1 DEF End
  <2> HIDE DEF f
  <2>3. sock' \in [Fd -> Sock] /\ WorkersOK' /\ MappedIsOwn'
    BY <1>6, <2>1, <2>2, SockKeeps, SockTyped DEF OtherMessage, f
  <2> QED
    BY <1>6, <2>3 DEF OtherMessage, IInv, TypeOK
<1>7. ASSUME NEW p \in Pid, ChildTerminated(p) PROVE IInv'
  BY <1>7, RestartKeeps DEF ChildTerminated, IInv, TypeOK
<1>8. ASSUME NEW p \in Pid, CheckWorker(p) PROVE IInv'
  <2>1. CASE Become(p, "zombie") /\ UNCHANGED signalled
    BY <1>8, <2>1, BecomeKeeps DEF CheckWorker, Overdue, IInv, TypeOK
  <2>2. CASE signalled' = signalled \cup {p} /\ UNCHANGED <<proc, copies>>
    BY <1>8, <2>2 DEF CheckWorker, IInv, TypeOK, WorkersOK, Matched, TwoFds, IndexUnique,
                      MappedIsOwn, Known, FdsOf, Lives
  <2> QED
    BY <1>8, <2>1, <2>2 DEF CheckWorker
<1>9. ASSUME NEW p \in Pid, FdTransfer(p) PROVE IInv'
  BY <1>9, LoadKeeps DEF FdTransfer, IInv, TypeOK
<1>10. ASSUME NEW f \in Fd, ReadEof(f) PROVE IInv'
  <2>1. \A q \in Pid : Lives(q) => sock[f] # End(q)
    BY <1>10 DEF ReadEof, End
  <2>2. sock' \in [Fd -> Sock] /\ WorkersOK' /\ MappedIsOwn'
    BY <1>10, <2>1, SockKeeps, SockTyped DEF ReadEof
  <2> QED
    BY <1>10, <2>2 DEF ReadEof, IInv, TypeOK
<1>11. ASSUME NEW f \in Fd, CloseConn(f) PROVE IInv'
  <2>1. \A q \in Pid : sock[f] # End(q)
    BY <1>11 DEF CloseConn, Conn, End
  <2>2. sock' \in [Fd -> Sock] /\ WorkersOK' /\ MappedIsOwn'
    BY <1>11, <2>1, SockKeeps, SockTyped DEF CloseConn
  <2> QED
    BY <1>11, <2>2 DEF CloseConn, IInv, TypeOK
<1>12. ASSUME OpenConn PROVE IInv'
  <2> DEFINE f == Lowest(FreeFds(sock))
  <2>1. f \in FreeFds(sock)
    <3>1. FreeFds(sock) \in SUBSET Nat /\ FreeFds(sock) # {}
      BY <1>12 DEF OpenConn, FreeFds, Fd
    <3> QED
      BY <3>1, LowestIsIn
  <2>2. sock' = [sock EXCEPT ![f] = Conn]
    BY <1>12 DEF OpenConn
  <2> HIDE DEF f
  <2>3. f \in Fd /\ \A q \in Pid : sock[f] # End(q)
    BY <2>1 DEF FreeFds, End
  <2>4. sock' \in [Fd -> Sock] /\ WorkersOK' /\ MappedIsOwn'
    BY <1>12, <2>2, <2>3, SockKeeps, SockTyped DEF OpenConn
  <2> QED
    BY <1>12, <2>4 DEF OpenConn, IInv, TypeOK
<1>13. CASE UNCHANGED <<proc, copies, worker, fdPid, sock, signalled>> /\ task' \in Task
  BY <1>13 DEF IInv, TypeOK, WorkersOK, Matched, TwoFds, IndexUnique, MappedIsOwn,
               Known, FdsOf, Lives
<1>14. ASSUME NEW cmd \in {"stop", "restart"}, AddWaitToExitTaskEvent(cmd) PROVE IInv'
  BY <1>13, <1>14, WaitAssumption DEF AddWaitToExitTaskEvent, Task
<1>15. ASSUME CheckWorkerLoadNullExit PROVE IInv'
  BY <1>13, <1>15, WaitAssumption DEF CheckWorkerLoadNullExit, Task, Exited
<1>16. ASSUME CheckWorkerLoadNullRestartWorkers PROVE IInv'
  BY <1>16, KillKeeps, WaitAssumption
     DEF CheckWorkerLoadNullRestartWorkers, IInv, TypeOK, NoTask, Task
<1>17. ASSUME WaitOrGiveUp PROVE IInv'
  <2>1. task' \in Task
    BY <1>17, WaitAssumption DEF WaitOrGiveUp, IInv, TypeOK, Task, NoTask
  <2> QED
    BY <1>13, <1>17, <2>1 DEF WaitOrGiveUp
<1>18. ASSUME UNCHANGED vars PROVE IInv'
  BY <1>13, <1>18 DEF vars, IInv, TypeOK
<1> QED
  BY <1>1, <1>2, <1>3, <1>4, <1>5, <1>6, <1>7, <1>8, <1>9, <1>10, <1>11, <1>12, <1>14,
     <1>15, <1>16, <1>17, <1>18 DEF Next, WaitToExit

\* No two entries have one index and every process has its own entry, so an
\* index has one process.
LEMMA OneProcess == IInv => OneProcessPerIndex
<1> SUFFICES ASSUME IInv, NEW p \in Pid, Lives(p)
             PROVE  /\ worker[p].index = proc[p].index
                    /\ \A q \in Pid \ {p} : worker[q].index # worker[p].index
  BY DEF OneProcessPerIndex
<1>1. Known(p)
  BY DEF IInv, WorkersOK, Matched, Lives, NoProcess
<1> QED
  BY <1>1 DEF IInv, WorkersOK, Matched, IndexUnique

THEOREM Invariance == Spec => []IInv
BY InitInv, StepInv, PTL DEF Spec

\* The maps and processes of the Manager keep their types, and RestartWorker
\* never asks for a process or a descriptor that is not there.
THEOREM SupervisorTyped == Spec => []TypeOK
<1>1. IInv => TypeOK
  BY DEF IInv
<1> QED
  BY <1>1, Invariance, PTL

\* A worker index never has two processes, and none runs without its entry.
THEOREM IndexHasOneProcess == Spec => []OneProcessPerIndex
BY OneProcess, Invariance, PTL

\* A descriptor in m_mapWorkerFdPid is one of a known worker, and that worker's
\* own end while it lives.
THEOREM MappedFdIsOwn == Spec => []MappedIsOwn
<1>1. IInv => MappedIsOwn
  BY DEF IInv
<1> QED
  BY <1>1, Invariance, PTL
=============================================================================
