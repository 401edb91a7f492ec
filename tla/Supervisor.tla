----------------------------- MODULE Supervisor -----------------------------
(***************************************************************************)
(* The Manager process and its workers (OssManager.cpp).                   *)
(*                                                                         *)
(* A worker is a forked process; two socket pairs connect it, one carries  *)
(* its load reports, the other the descriptors handed to it.  The Manager  *)
(* knows it by three maps: m_mapWorker by process, m_mapWorkerFdPid and    *)
(* m_mapFdAttr by descriptor.  The death of a worker is seen twice, as the *)
(* end of the streams and as SIGCHLD, in either order, and a descriptor    *)
(* that was closed for the first is a free number before the second.       *)
(*                                                                         *)
(* A worker that does not report is sent SIGINT, which libev delivers to   *)
(* it in its event loop: one that hangs does not get there.                *)
(*                                                                         *)
(* fork() copies every descriptor of the Manager, and the child closes its *)
(* own pairs' ends only: a worker holds the Manager's ends of those that   *)
(* were there before it, and while it lives they see no end of stream.     *)
(*                                                                         *)
(* Sequences need no model here: every watcher is stopped with its         *)
(* descriptor.  A callback of the Manager is one step.                     *)
(***************************************************************************)
EXTENDS Naturals

CONSTANTS
    WorkerNum,  \* m_uiWorkerNum
    MaxPid,     \* process identifiers the kernel has for workers (a bound)
    MaxFd,      \* descriptors the Manager may be given (a bound)
    WaitMax,    \* checks of a stop or restart request, 6 in the code
    Faults      \* what may happen: subset of FaultKinds

\* A worker crashes; it hangs; fork() fails; the Manager's clock jumps or it
\* is stopped for a while; a worker answers what its Manager forwarded.  The
\* node has other connections; its workers have load; it is asked to stop.
FaultKinds == {"crash", "hang", "fork", "stall", "answer", "conn", "load", "request"}

ASSUME WorkerNumAssumption == WorkerNum \in Nat \ {0}
ASSUME PidAssumption == MaxPid \in Nat /\ MaxPid >= WorkerNum
ASSUME FdAssumption == MaxFd \in Nat /\ MaxFd >= 2 * WorkerNum
ASSUME WaitAssumption == WaitMax \in Nat \ {0}
ASSUME SupervisorFaultAssumption == Faults \subseteq FaultKinds

VARIABLES
    proc,       \* the processes
    copies,     \* copies[p]: the workers whose data end at the Manager p has too
    worker,     \* m_mapWorker
    fdPid,      \* m_mapWorkerFdPid, 0 for no entry
    sock,       \* what each descriptor of the Manager is; in m_mapFdAttr unless free
    signalled,  \* the hanging processes SIGINT waits for
    task        \* the stop or restart request being waited for

vars == <<proc, copies, worker, fdPid, sock, signalled, task>>

Index == 1 .. WorkerNum
Pid == 1 .. MaxPid
Fd == 1 .. MaxFd

Process == [state : {"none", "run", "hung", "zombie"}, index : 0 .. WorkerNum]
NoProcess == [state |-> "none", index |-> 0]
Started(i) == [state |-> "run", index |-> i]

\* tagWorkerAttr; index 0: no entry.  idle: iLoad = iConnect.
WorkerAttr == [index : 0 .. WorkerNum, control : 0 .. MaxFd, data : 0 .. MaxFd,
               idle : BOOLEAN]
NoWorker == [index |-> 0, control |-> 0, data |-> 0, idle |-> FALSE]
NewWorker(i, c, d) == [index |-> i, control |-> c, data |-> d, idle |-> TRUE]

\* The Manager's end of a socket pair, any other connection, or closed.
Sock == [is : {"free", "conn", "end"}, pid : 0 .. MaxPid]
Free == [is |-> "free", pid |-> 0]
Conn == [is |-> "conn", pid |-> 0]
End(p) == [is |-> "end", pid |-> p]

Task == [cmd : {"none", "stop", "restart", "exited"}, count : 0 .. WaitMax]
NoTask == [cmd |-> "none", count |-> 0]
Exited == [cmd |-> "exited", count |-> 0]

Lives(p) == proc[p].state \in {"run", "hung"}
Known(p) == worker[p].index # 0
FdsOf(p) == {worker[p].control, worker[p].data}
Running == task.cmd # "exited"

\* CreateWorker.
Init ==
    /\ proc = [p \in Pid |-> IF p <= WorkerNum THEN Started(p) ELSE NoProcess]
    /\ copies = [p \in Pid |-> IF p <= WorkerNum THEN 1 .. (p - 1) ELSE {}]
    /\ worker = [p \in Pid |->
            IF p <= WorkerNum THEN NewWorker(p, 2 * p - 1, 2 * p) ELSE NoWorker]
    /\ fdPid = [f \in Fd |-> IF f <= 2 * WorkerNum THEN (f + 1) \div 2 ELSE 0]
    /\ sock = [f \in Fd |-> IF f <= 2 * WorkerNum THEN End((f + 1) \div 2) ELSE Free]
    /\ signalled = {}
    /\ task = NoTask

-----------------------------------------------------------------------------
(* The worker processes.                                                   *)

Become(p, s) ==
    /\ proc' = [proc EXCEPT ![p].state = s]
    /\ copies' = IF s = "zombie" THEN [copies EXCEPT ![p] = {}] ELSE copies

Crash(p) ==
    /\ "crash" \in Faults
    /\ Lives(p)
    /\ Become(p, "zombie")
    /\ UNCHANGED <<worker, fdPid, sock, signalled, task>>

Hang(p) ==
    /\ "hang" \in Faults
    /\ proc[p].state = "run"
    /\ Become(p, "hung")
    /\ UNCHANGED <<worker, fdPid, sock, signalled, task>>

\* A worker that hung comes back to its event loop: with SIGINT waiting there,
\* it exits (OssWorker::Terminated).
Recover(p) ==
    /\ proc[p].state = "hung"
    /\ Become(p, IF p \in signalled THEN "zombie" ELSE "run")
    /\ UNCHANGED <<worker, fdPid, sock, signalled, task>>

Heard(p) == Known(p) /\ sock[worker[p].control] = End(p)

\* CheckParent of the worker, and SetWorkerLoad of the Manager for the worker
\* it has mapped the control descriptor to.
Report(p) ==
    /\ Running
    /\ proc[p].state = "run"
    /\ Heard(p)
    /\ \E idle \in BOOLEAN :
        /\ idle \/ "load" \in Faults
        /\ worker' = [worker EXCEPT ![fdPid[worker[p].control]].idle = idle]
    /\ UNCHANGED <<proc, copies, fdPid, sock, signalled, task>>

DataOpen(p) == Known(p) /\ sock[worker[p].data] = End(p)

\* A worker that was forked later has the Manager's end of p's data descriptor.
Copied(p) == \E q \in Pid : Lives(q) /\ p \in copies[q]

\* FdTransfer of the worker: its data descriptor has been closed, by all who
\* had it, and it exits; or CheckParent finds no Manager.  The control
\* descriptor alone it does not miss.
LoseManager(p) ==
    /\ proc[p].state = "run"
    /\ ~Running \/ ~(DataOpen(p) \/ Copied(p))
    /\ Become(p, "zombie")
    /\ UNCHANGED <<worker, fdPid, sock, signalled, task>>

\* A worker answers a request the Manager forwarded to it.  For anything but
\* a report DisposeDataFromWorker ends without a return value: the control
\* descriptor is kept or closed.
OtherMessage(p) ==
    /\ "answer" \in Faults
    /\ Running
    /\ proc[p].state = "run"
    /\ Heard(p)
    /\ sock' = [sock EXCEPT ![worker[p].control] = Free]
    /\ UNCHANGED <<proc, copies, worker, fdPid, signalled, task>>

-----------------------------------------------------------------------------
(* A worker ends.                                                          *)

\* The end of a stream of a dead worker is read: DestroyConnect.
ReadEof(f) ==
    /\ Running
    /\ sock[f].is = "end"
    /\ ~Lives(sock[f].pid)
    /\ sock' = [sock EXCEPT ![f] = Free]
    /\ UNCHANGED <<proc, copies, worker, fdPid, signalled, task>>

FreeFds(s) == {f \in Fd : s[f].is = "free"}

\* socketpair() gives the lowest numbers; the child's ends, which the Manager
\* closes again, are not counted.  fork() is taken to do the same.
Lowest(S) == CHOOSE f \in S : \A g \in S : f <= g

\* Error: the entries of m_mapWorkerFdPid stay.
UnmappedNone(p) == fdPid

Unmapped(p) == [f \in Fd |-> IF f \in FdsOf(p) THEN 0 ELSE fdPid[f]]

\* Whatever the descriptors of p are by now is closed.
ClosedOf(p) == [f \in Fd |-> IF f \in FdsOf(p) THEN Free ELSE sock[f]]

\* std::map::insert keeps the entry that is there.
Insert(map, f, q) == [map EXCEPT ![f] = IF @ = 0 THEN q ELSE @]

\* What a worker forked in RestartWorker(p) has of the others.
Inherited(p) == {q \in Pid \ {p} : Known(q) /\ ClosedOf(p)[worker[q].data] = End(q)}

\* RestartWorker(p), with what process p is then: its entries go, and fork()
\* makes a new worker, or fails and the index has none any more.
RestartWorker(p, then) ==
    LET gone == [proc EXCEPT ![p] = then]
        left == [worker EXCEPT ![p] = NoWorker]
        c == Lowest(FreeFds(ClosedOf(p)))
        d == Lowest(FreeFds(ClosedOf(p)) \ {c})
        q == Lowest({r \in Pid : gone[r] = NoProcess})
    IN
    \/ /\ proc' = [gone EXCEPT ![q] = Started(worker[p].index)]
       /\ copies' = [r \in Pid |-> IF r = q THEN Inherited(p) ELSE copies[r] \ {q}]
       /\ worker' = [left EXCEPT ![q] = NewWorker(worker[p].index, c, d)]
       /\ fdPid' = Insert(Insert(Unmapped(p), c, q), d, q)
       /\ sock' = [ClosedOf(p) EXCEPT ![c] = End(q), ![d] = End(q)]
    \/ /\ "fork" \in Faults
       /\ proc' = gone
       /\ UNCHANGED copies
       /\ worker' = left
       /\ fdPid' = Unmapped(p)
       /\ sock' = ClosedOf(p)

\* ChildTerminated: SIGCHLD is handled and waitpid() returns p.
ChildTerminated(p) ==
    /\ Running
    /\ proc[p].state = "zombie"
    /\ Known(p)
    /\ RestartWorker(p, NoProcess)
    /\ signalled' = signalled \ {p}
    /\ UNCHANGED task

\* dBeatTime of p is older than m_iWorkerBeat: p sends nothing, or the Manager
\* was stopped, or its clock set, and runs its timers before it reads.
Overdue(p) ==
    /\ Running
    /\ Known(p)
    /\ Lives(p)
    /\ p \notin signalled
    /\ proc[p].state = "hung" \/ ~Heard(p) \/ "stall" \in Faults

\* Error: the worker is replaced with the signal, not after its death.
CheckWorkerRestarts(p) ==
    /\ Overdue(p)
    /\ \E q \in Pid : proc[q] = NoProcess
    /\ RestartWorker(p, proc[p])
    /\ signalled' = signalled \cup {p}
    /\ UNCHANGED task

\* Error: a worker whose control descriptor is closed is passed over.
CheckWorkerHeard(p) ==
    /\ Overdue(p)
    /\ Heard(p)
    /\ IF proc[p].state = "run" THEN Become(p, "zombie") /\ UNCHANGED signalled
       ELSE signalled' = signalled \cup {p} /\ UNCHANGED <<proc, copies>>
    /\ UNCHANGED <<worker, fdPid, sock, task>>

\* CheckWorker sends SIGINT; the worker exits when its event loop runs.
CheckWorker(p) ==
    /\ Overdue(p)
    /\ IF proc[p].state = "run" THEN Become(p, "zombie") /\ UNCHANGED signalled
       ELSE signalled' = signalled \cup {p} /\ UNCHANGED <<proc, copies>>
    /\ UNCHANGED <<worker, fdPid, sock, task>>

-----------------------------------------------------------------------------
(* Connections of the Manager.                                             *)

\* AcceptServerConn, or AutoSend to the Center.
OpenConn ==
    /\ "conn" \in Faults
    /\ Running
    /\ FreeFds(sock) # {}
    /\ sock' = [sock EXCEPT ![Lowest(FreeFds(sock))] = Conn]
    /\ UNCHANGED <<proc, copies, worker, fdPid, signalled, task>>

\* Closed by its peer, its idle timer, or once it has been handed to a worker.
\* While its number is still mapped to a worker its messages are ignored, or
\* close it, as OtherMessage says.
CloseConn(f) ==
    /\ Running
    /\ sock[f] = Conn
    /\ sock' = [sock EXCEPT ![f] = Free]
    /\ UNCHANGED <<proc, copies, worker, fdPid, signalled, task>>

\* FdTransfer: a client's connection is sent to the data descriptor of a
\* worker; AddWorkerLoad when that succeeds, which it does as well when the
\* number is another connection's or another worker's by now.  The Manager's
\* copy is closed.
FdTransfer(p) ==
    /\ "load" \in Faults
    /\ Running
    /\ Known(p)
    /\ worker[p].idle
    /\ LET s == sock[worker[p].data] IN s = Conn \/ (s.is = "end" /\ Lives(s.pid))
    /\ worker' = [worker EXCEPT ![p].idle = FALSE]
    /\ UNCHANGED <<proc, copies, fdPid, sock, signalled, task>>

-----------------------------------------------------------------------------
(* Stop and restart.                                                       *)

\* AddWaitToExitTaskEvent; while one is waited for others are ignored.
AddWaitToExitTaskEvent(cmd) ==
    /\ "request" \in Faults
    /\ Running
    /\ task.count = 0
    /\ task' = [cmd |-> cmd, count |-> 1]
    /\ UNCHANGED <<proc, copies, worker, fdPid, sock, signalled>>

LoadNull == \A p \in Pid : Known(p) => worker[p].idle

\* CheckWorkerLoadNullExit: the answer is sent and the node exits.
CheckWorkerLoadNullExit ==
    /\ task.cmd = "stop"
    /\ LoadNull
    /\ task' = Exited
    /\ UNCHANGED <<proc, copies, worker, fdPid, sock, signalled>>

\* CheckWorkerLoadNullRestartWorkers: SIGKILL to all, and the answer.
CheckWorkerLoadNullRestartWorkers ==
    /\ task.cmd = "restart"
    /\ LoadNull
    /\ proc' = [p \in Pid |-> IF Known(p) /\ Lives(p)
                              THEN [proc[p] EXCEPT !.state = "zombie"] ELSE proc[p]]
    /\ copies' = [p \in Pid |-> IF Known(p) /\ Lives(p) THEN {} ELSE copies[p]]
    /\ task' = NoTask
    /\ UNCHANGED <<worker, fdPid, sock, signalled>>

\* Error: the checks are not counted.
WaitForEver ==
    /\ task.cmd \in {"stop", "restart"}
    /\ ~LoadNull
    /\ UNCHANGED vars

\* Error: one check more than WaitMax.
WaitOnce ==
    /\ task.cmd \in {"stop", "restart"}
    /\ ~LoadNull
    /\ task' = IF task.count <= WaitMax THEN [task EXCEPT !.count = @ + 1] ELSE NoTask
    /\ UNCHANGED <<proc, copies, worker, fdPid, sock, signalled>>

\* Either of them when a worker has load: check again, or answer FAILED.
WaitOrGiveUp ==
    /\ task.cmd \in {"stop", "restart"}
    /\ ~LoadNull
    /\ task' = IF task.count < WaitMax THEN [task EXCEPT !.count = @ + 1] ELSE NoTask
    /\ UNCHANGED <<proc, copies, worker, fdPid, sock, signalled>>

WaitToExit ==
    CheckWorkerLoadNullExit \/ CheckWorkerLoadNullRestartWorkers \/ WaitOrGiveUp

Next ==
    \/ \E p \in Pid :
        \/ Crash(p) \/ Hang(p) \/ Recover(p)
        \/ LoseManager(p) \/ Report(p) \/ OtherMessage(p)
        \/ ChildTerminated(p) \/ CheckWorker(p) \/ FdTransfer(p)
    \/ \E f \in Fd : ReadEof(f) \/ CloseConn(f)
    \/ OpenConn
    \/ \E cmd \in {"stop", "restart"} : AddWaitToExitTaskEvent(cmd)
    \/ WaitToExit

Spec == Init /\ [][Next]_vars

\* The Manager's event loop, its timers, and those of the workers that do not
\* hang; a worker that stays silent is overdue at some time.
Fairness ==
    /\ \A p \in Pid :
        /\ WF_vars(LoseManager(p))
        /\ WF_vars(ChildTerminated(p))
        /\ WF_vars(~Heard(p) /\ CheckWorker(p))
    /\ WF_vars(WaitToExit)

FairSpec == Spec /\ Fairness
-----------------------------------------------------------------------------
(* Properties.                                                             *)

\* Every variable has its type.
TypeOK ==
    /\ proc \in [Pid -> Process]
    /\ copies \in [Pid -> SUBSET Pid]
    /\ worker \in [Pid -> WorkerAttr]
    /\ fdPid \in [Fd -> 0 .. MaxPid]
    /\ sock \in [Fd -> Sock]
    /\ signalled \subseteq Pid
    /\ task \in Task

\* A worker index never has two processes, and no worker runs that the Manager
\* has forgotten: RestartWorker waits for the death CheckWorker asked for.
OneProcessPerIndex ==
    \A p \in Pid : Lives(p) =>
        /\ worker[p].index = proc[p].index
        /\ \A q \in Pid \ {p} : worker[q].index # worker[p].index

\* m_mapWorkerFdPid has only descriptors of the workers in m_mapWorker, and one
\* that is mapped to a living worker is its own: a foreign connection is taken
\* for a worker only when that is dead, or was closed by OtherMessage.  (One
\* that is not mapped to it may be the number of a dead worker, and be closed
\* with that one's.)
MappedIsOwn ==
    \A f \in Fd, p \in Pid : fdPid[f] = p =>
        /\ Known(p) /\ f \in FdsOf(p)
        /\ Lives(p) /\ (f = worker[p].data \/ "answer" \notin Faults) => sock[f] = End(p)

\* The worker with this index runs and the Manager hears it.
Served(i) ==
    \E p \in Pid :
        /\ worker[p].index = i
        /\ proc[p].state = "run"
        /\ \A f \in FdsOf(p) : sock[f] = End(p)

Hung(i) == \E p \in Pid : proc[p].index = i /\ proc[p].state = "hung"

\* fork() failed, and nobody tries again.
Lost(i) == "fork" \in Faults /\ \A p \in Pid : worker[p].index # i

\* Its worker's data descriptor has been closed, which it cannot see while a
\* worker that was forked in between lives: it reports, and is left alone.
Deaf(i) ==
    \E p \in Pid :
        /\ worker[p].index = i
        /\ proc[p].state = "run"
        /\ ~DataOpen(p) /\ Copied(p)

\* Every index has a worker again and again, however often they die, are
\* killed, or lose a descriptor to each other: unless it hangs or is lost, or
\* is kept from seeing that it lost its descriptor.
EveryIndexServed ==
    \A i \in Index : []<>(Served(i) \/ Hung(i) \/ Lost(i) \/ Deaf(i) \/ ~Running)

\* A request to stop or restart that was taken is answered: again and again
\* it is not the one being waited for.
RequestAnswered == \A cmd \in {"stop", "restart"} : []<>(task.cmd # cmd)
=============================================================================
