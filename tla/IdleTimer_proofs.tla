--------------------------- MODULE IdleTimer_proofs ---------------------------
(***************************************************************************)
(* Proofs about IdleTimer: for any descriptors, any number of connections  *)
(* and any timeouts, its variables keep their types, a timer closes its    *)
(* own connection only, only inner and silent HTTP connections lose their  *)
(* timers, and no connection with a timer idles past its bound.            *)
(*                                                                         *)
(* A timer and its connection hold each other: the timer made for a        *)
(* sequence keeps the descriptor that sequence was opened with (Linked),   *)
(* so a descriptor that has its sequence is the connection it was made     *)
(* for.  For the bound, what matters is how long a connection has been     *)
(* idle and how long its timer still runs: together they stay below the    *)
(* bound (Watched), because time moves from one to the other.              *)
(***************************************************************************)
EXTENDS IdleTimer, TLAPS

\* What a connection of this kind may idle for.
Bounds(http) == IF http THEN Keep \cup {IoTimeoutT} ELSE {IoTimeoutT}

\* Its idle time and what is left of its timer are within the bound.
Watched(a, t) ==
    /\ t.state = "armed" => \E n \in Bounds(a.http) : a.idle + t.left <= n
    /\ t.state = "step" =>
        /\ t.left <= StepT
        /\ a.idle + t.left <= IoTimeoutT + (IF a.ready THEN 0 ELSE StepT)

\* The descriptor f, open with attributes a, has t for a timer.
Linked(f, a, t) == t.fd = f /\ t.state # "none"

\* Only HTTP connections have a dKeepAlive, one of those asked for; they are
\* ready from the start and never wait for the answer to a beat.
HttpOnly(a, t) ==
    /\ a.http => a.ready /\ t.state # "step" /\ a.keep \in Keep \cup {0}
    /\ ~a.http => a.keep = 0

Good(f, a, t) == Linked(f, a, t) /\ HttpOnly(a, t) /\ Watched(a, t)

\* Sequences that were not given out yet have no timer, and no connection.
Unused ==
    /\ \A s \in Seqs : s > nextSeq => timer[s].state = "none"
    /\ \A f \in Fd : fdAttr[f].seq <= nextSeq

IInv ==
    /\ TypeOK
    /\ Unused
    /\ \A f \in Fd : Open(f) => Good(f, fdAttr[f], timer[fdAttr[f].seq])

-----------------------------------------------------------------------------
(* One connection and its timer.                                           *)

LEMMA ClosedTyped == Closed \in Attr
BY SeqAssumption, MaxIdleAssumption DEF Closed, Attr

LEMMA OpenSeq ==
    ASSUME IInv, NEW f \in Fd, Open(f)
    PROVE  fdAttr[f] \in Attr /\ fdAttr[f].seq \in Seqs /\ fdAttr[f].seq <= nextSeq
<1>1. fdAttr[f] \in Attr
  BY DEF IInv, TypeOK
<1>2. fdAttr[f].seq \in 0 .. MaxSeq /\ fdAttr[f].seq # 0
  BY <1>1 DEF Attr, Open
<1>3. fdAttr[f].seq \in Seqs
  BY <1>2, SeqAssumption DEF Seqs
<1> QED
  BY <1>1, <1>3 DEF IInv, Unused

\* A step that changes a descriptor and a timer made for it keeps the
\* invariant when it holds of the two afterwards.
LEMMA Change ==
    ASSUME IInv,
           NEW f \in Fd, NEW a \in Attr, fdAttr' = [fdAttr EXCEPT ![f] = a],
           NEW s \in Seqs, NEW t \in Timer(Fd), timer' = [timer EXCEPT ![s] = t],
           nextSeq' = nextSeq, mute' \subseteq Seqs,
           timer[s].fd = f, timer[s].state # "none",
           a.seq \in {0, fdAttr[f].seq},
           a.seq # 0 => Good(f, a, IF a.seq = s THEN t ELSE timer[a.seq])
    PROVE  IInv'
<1>1. TypeOK'
  BY DEF IInv, TypeOK
<1>2. \A r \in Seqs : r # s => timer'[r] = timer[r]
  BY DEF IInv, TypeOK
<1>3. timer'[s] = t /\ fdAttr'[f] = a
  BY DEF IInv, TypeOK
<1>4. \A g \in Fd : g # f => fdAttr'[g] = fdAttr[g]
  BY DEF IInv, TypeOK
<1>5. s <= nextSeq
  BY SeqAssumption DEF IInv, TypeOK, Unused, Seqs
<1>6. Unused'
  <2>1. \A r \in Seqs : r > nextSeq' => timer'[r].state = "none"
    BY <1>2, <1>5, SeqAssumption DEF IInv, TypeOK, Unused, Seqs
  <2>2. \A g \in Fd : fdAttr'[g].seq <= nextSeq'
    BY <1>3, <1>4 DEF IInv, TypeOK, Unused
  <2> QED
    BY <2>1, <2>2 DEF Unused
<1>7. ASSUME NEW g \in Fd, Open(g)'
      PROVE  Good(g, fdAttr[g], timer[fdAttr[g].seq])'
  <2>1. CASE g = f
    <3>1. a.seq # 0 /\ a.seq = fdAttr[f].seq /\ Open(f)
      BY <1>3, <1>7, <2>1 DEF Open
    <3>2. timer'[a.seq] = IF a.seq = s THEN t ELSE timer[a.seq]
      BY <1>2, <1>3, <3>1, OpenSeq
    <3> QED
      BY <1>3, <2>1, <3>1, <3>2 DEF Good, Linked, HttpOnly, Watched
  <2>2. CASE g # f
    <3>1. fdAttr'[g] = fdAttr[g] /\ Open(g)
      BY <1>4, <1>7, <2>2 DEF Open
    <3>2. Good(g, fdAttr[g], timer[fdAttr[g].seq])
      BY <3>1 DEF IInv
    <3>3. fdAttr[g].seq \in Seqs /\ fdAttr[g].seq # s
      BY <2>2, <3>1, <3>2, OpenSeq DEF Good, Linked
    <3>4. timer'[fdAttr[g].seq] = timer[fdAttr[g].seq]
      BY <1>2, <3>3
    <3> QED
      BY <3>1, <3>2, <3>4 DEF Good, Linked, HttpOnly, Watched
  <2> QED BY <2>1, <2>2
<1> QED
  BY <1>1, <1>6, <1>7 DEF IInv

\* The same for a step that changes the connection only.
LEMMA ChangeConn ==
    ASSUME IInv,
           NEW f \in Fd, Open(f), NEW a \in Attr, fdAttr' = [fdAttr EXCEPT ![f] = a],
           timer' = timer, nextSeq' = nextSeq, mute' \subseteq Seqs,
           a.seq \in {0, fdAttr[f].seq},
           a.seq # 0 => Good(f, a, timer[fdAttr[f].seq])
    PROVE  IInv'
<1> DEFINE s == fdAttr[f].seq
<1>1. s \in Seqs
  BY OpenSeq
<1>2. timer[s] \in Timer(Fd) /\ timer' = [timer EXCEPT ![s] = timer[s]]
  BY <1>1 DEF IInv, TypeOK
<1>3. timer[s].fd = f /\ timer[s].state # "none"
  BY DEF IInv, Good, Linked
<1>4. a.seq # 0 => Good(f, a, IF a.seq = s THEN timer[s] ELSE timer[a.seq])
  OBVIOUS
<1> HIDE DEF s
<1> QED
  BY <1>1, <1>2, <1>3, <1>4, Change DEF s

LEMMA RegisterKeeps ==
    ASSUME IInv, NEW f \in Fd, NEW http \in BOOLEAN, NEW ready \in BOOLEAN, NEW k \in Nat,
           http => ready /\ k \in Keep \cup {0}, ~http => k = 0,
           Register(f, http, ready, k)
    PROVE  IInv'
<1> DEFINE n == nextSeq + 1
           a == [seq |-> n, http |-> http, ready |-> ready, inner |-> FALSE,
                 keep |-> k, idle |-> 0]
<1>1. n \in Seqs /\ n \in 0 .. MaxSeq /\ n # 0 /\ nextSeq' = n /\ nextSeq \in Nat
  BY SeqAssumption DEF Register, IInv, TypeOK, Seqs
<1>2. a \in Attr
  BY <1>1, MaxIdleAssumption DEF Attr
<1>3. Armed(f, First) \in Timer(Fd)
  BY TimeAssumption DEF Armed, Timer, TimerState
<1>4. fdAttr' = [fdAttr EXCEPT ![f] = a] /\ timer' = [timer EXCEPT ![n] = Armed(f, First)]
  BY <1>1 DEF Register
<1>5. TypeOK'
  BY <1>1, <1>2, <1>3, <1>4 DEF IInv, TypeOK, Register
<1>6. Unused'
  <2>1. \A s \in Seqs : s > n => timer'[s].state = "none"
    BY <1>1, <1>4, SeqAssumption DEF IInv, TypeOK, Unused, Seqs
  <2>2. \A g \in Fd : fdAttr'[g].seq <= n
    <3>1. \A g \in Fd : fdAttr[g].seq \in 0 .. MaxSeq /\ fdAttr[g].seq <= nextSeq
      BY DEF IInv, TypeOK, Unused, Attr
    <3>2. \A g \in Fd : g # f => fdAttr'[g] = fdAttr[g]
      BY <1>4 DEF IInv, TypeOK
    <3>3. fdAttr'[f].seq = n
      BY <1>4 DEF IInv, TypeOK
    <3> QED
      BY <1>1, <3>1, <3>2, <3>3, SeqAssumption
  <2> QED
    BY <1>1, <2>1, <2>2 DEF Unused
<1>7. ASSUME NEW g \in Fd, Open(g)'
      PROVE  Good(g, fdAttr[g], timer[fdAttr[g].seq])'
  <2>1. CASE g = f
    <3>1. fdAttr'[g] = a /\ timer'[n] = Armed(f, First)
      BY <1>1, <1>4, <2>1 DEF IInv, TypeOK
    <3>2. Good(f, a, Armed(f, First))
      BY TimeAssumption DEF Good, Linked, HttpOnly, Watched, Armed, Bounds
    <3>3. a.seq = n
      OBVIOUS
    <3> HIDE DEF a
    <3> QED
      BY <2>1, <3>1, <3>2, <3>3 DEF Good, Linked, HttpOnly, Watched
  <2>2. CASE g # f
    <3>1. fdAttr'[g] = fdAttr[g] /\ Open(g)
      BY <1>4, <1>7, <2>2 DEF Open, IInv, TypeOK
    <3>2. Good(g, fdAttr[g], timer[fdAttr[g].seq])
      BY <3>1 DEF IInv
    <3>3. fdAttr[g].seq \in Seqs /\ fdAttr[g].seq # n
      BY <1>1, <3>1, OpenSeq DEF Seqs
    <3>4. timer'[fdAttr[g].seq] = timer[fdAttr[g].seq]
      BY <1>4, <3>3 DEF IInv, TypeOK
    <3> QED
      BY <3>1, <3>2, <3>4 DEF Good, Linked, HttpOnly, Watched
  <2> QED BY <2>1, <2>2
<1> QED
  BY <1>5, <1>6, <1>7 DEF IInv

LEMMA TickKeeps ==
    ASSUME IInv, Tick
    PROVE  IInv'
<1>1. ASSUME NEW f \in Fd
      PROVE  /\ fdAttr'[f] \in Attr /\ fdAttr'[f].seq = fdAttr[f].seq
             /\ fdAttr'[f].http = fdAttr[f].http /\ fdAttr'[f].ready = fdAttr[f].ready
             /\ fdAttr'[f].keep = fdAttr[f].keep
             /\ fdAttr'[f].idle \in Nat /\ fdAttr[f].idle \in Nat
             /\ fdAttr'[f].idle <= fdAttr[f].idle + 1
  <2>1. fdAttr'[f] = Older(fdAttr[f]) /\ fdAttr[f] \in Attr
    BY DEF Tick, IInv, TypeOK
  <2> QED
    BY <2>1, MaxIdleAssumption DEF Older, Attr
<1>2. ASSUME NEW s \in Seqs
      PROVE  /\ timer'[s] \in Timer(Fd)
             /\ timer'[s].state = timer[s].state /\ timer'[s].fd = timer[s].fd
             /\ timer'[s].left \in Nat /\ timer[s].left \in Nat
             /\ timer'[s].left <= timer[s].left
             /\ timer[s].state \in {"armed", "step"} => timer'[s].left + 1 = timer[s].left
  <2>1. timer[s] \in Timer(Fd)
    BY DEF IInv, TypeOK
  <2>2. timer'[s] = [timer[s] EXCEPT !.left = IF @ = 0 THEN 0 ELSE @ - 1]
    BY DEF Tick
  <2>3. timer[s].state \in {"armed", "step"} => timer[s].left # 0
    BY DEF Tick, Due
  <2> QED
    BY <2>1, <2>2, <2>3 DEF Timer
<1>3. TypeOK'
  BY <1>1, <1>2 DEF IInv, TypeOK, Tick
<1>4. Unused'
  BY <1>1, <1>2 DEF IInv, Unused, Tick
<1>5. ASSUME NEW f \in Fd, Open(f)'
      PROVE  Good(f, fdAttr[f], timer[fdAttr[f].seq])'
  <2> DEFINE s == fdAttr[f].seq
  <2>1. Open(f) /\ s \in Seqs /\ fdAttr'[f].seq = s
    BY <1>1, <1>5, OpenSeq DEF Open
  <2>2. Good(f, fdAttr[f], timer[s])
    BY <2>1 DEF IInv
  <2> HIDE DEF s
  <2>3. Linked(f, fdAttr'[f], timer'[s]) /\ HttpOnly(fdAttr'[f], timer'[s])
    BY <1>1, <1>2, <2>1, <2>2 DEF Good, Linked, HttpOnly
  <2>4. Watched(fdAttr'[f], timer'[s])
    <3>1. CASE timer'[s].state = "armed"
      <4>1. PICK n \in Bounds(fdAttr[f].http) : fdAttr[f].idle + timer[s].left <= n
        BY <1>2, <2>1, <2>2, <3>1 DEF Good, Watched
      <4>2. n \in Nat
        BY TimeAssumption, KeepAssumption DEF Bounds
      <4>3. fdAttr'[f].idle + timer'[s].left <= n
        BY <1>1, <1>2, <2>1, <3>1, <4>1, <4>2
      <4> QED
        BY <1>1, <3>1, <4>1, <4>3 DEF Watched
    <3>2. CASE timer'[s].state = "step"
      <4>1. /\ timer[s].left <= StepT
            /\ fdAttr[f].idle + timer[s].left
                 <= IoTimeoutT + (IF fdAttr[f].ready THEN 0 ELSE StepT)
        BY <1>2, <2>1, <2>2, <3>2 DEF Good, Watched
      <4> QED
        BY <1>1, <1>2, <2>1, <3>2, <4>1, TimeAssumption DEF Watched
    <3> QED
      BY <3>1, <3>2 DEF Watched
  <2> QED
    BY <2>1, <2>3, <2>4 DEF Good
<1> QED
  BY <1>3, <1>4, <1>5 DEF IInv

-----------------------------------------------------------------------------
(* The timer runs out.                                                     *)

\* What IoTimeout finds: the timer of its connection is within the bound.
LEMMA MineIsGood ==
    ASSUME IInv, NEW s \in Seqs, Mine(s)
    PROVE  LET f == timer[s].fd IN
           f \in Fd /\ Open(f) /\ fdAttr[f] \in Attr /\ fdAttr[f].seq = s
           /\ Good(f, fdAttr[f], timer[s])
<1>1. timer[s].fd \in Fd
  BY DEF IInv, TypeOK, Timer
<1>2. s # 0
  BY SeqAssumption DEF Seqs
<1> QED
  BY <1>1, <1>2 DEF Mine, Open, IInv, TypeOK

LEMMA IoTimeoutGood ==
    ASSUME IInv, NEW s \in Seqs, NEW checkBeat \in BOOLEAN,
           timer[s].state = (IF checkBeat THEN "armed" ELSE "step"),
           timer[s].left = 0,
           IoTimeout(s, checkBeat), UNCHANGED <<nextSeq, mute>>
    PROVE  IInv'
<1> DEFINE f == timer[s].fd
           a == fdAttr[f]
           limit == IF checkBeat /\ a.keep = 0 THEN IoTimeoutT ELSE a.keep
           freed == [timer[s] EXCEPT !.state = "freed", !.left = 0]
<1>1. f \in Fd /\ timer[s] \in Timer(Fd) /\ a \in Attr /\ mute' \subseteq Seqs
  BY DEF IInv, TypeOK, Timer
<1>2. freed \in Timer(Fd) /\ freed.fd = f /\ freed.state = "freed"
  BY <1>1 DEF Timer, TimerState
<1>3. FreeTimer(s) <=> timer' = [timer EXCEPT ![s] = freed]
  BY DEF FreeTimer, IInv, TypeOK, Timer
<1>4. timer[s].state # "none"
  OBVIOUS
<1>5. CASE ~Mine(s)
  <2>1. fdAttr' = [fdAttr EXCEPT ![f] = a] /\ timer' = [timer EXCEPT ![s] = freed]
    BY <1>1, <1>3, <1>5 DEF IoTimeout, IInv, TypeOK
  <2>2. a.seq # s
    BY <1>5 DEF Mine
  <2>3. a.seq # 0 => Good(f, a, timer[a.seq])
    BY <1>1 DEF IInv, Open
  <2> HIDE DEF freed, a, f
  <2> QED
    BY <1>1, <1>2, <1>4, <2>1, <2>2, <2>3, Change DEF f, a
<1>6. CASE Mine(s)
  <2>1. a.seq = s /\ s # 0 /\ Good(f, a, timer[s])
    BY <1>6, MineIsGood DEF Open
  <2>2. \/ /\ a.idle < limit
           /\ ArmTimer(s, limit - a.idle) /\ fdAttr' = fdAttr
        \/ checkBeat /\ a.keep = 0 /\ a.idle >= limit /\ SendBeat(s, f)
        \/ GiveUp(s, f)
    BY <1>1, <1>6, TimeAssumption DEF IoTimeout, Attr
  <2>3. CASE a.idle < limit /\ ArmTimer(s, limit - a.idle) /\ fdAttr' = fdAttr
    <3> DEFINE t == [timer[s] EXCEPT !.state = "armed", !.left = limit - a.idle]
    <3>1. a.idle \in Nat /\ a.keep \in Nat /\ limit \in Nat /\ IoTimeoutT \in Nat
      BY <1>1, TimeAssumption, MaxIdleAssumption DEF Attr
    <3>2. t \in Timer(Fd) /\ t.fd = f /\ t.state = "armed" /\ t.left = limit - a.idle
      <4>1. limit - a.idle \in Nat
        BY <2>3, <3>1
      <4> HIDE DEF limit, a
      <4> QED
        BY <1>1, <4>1 DEF Timer, TimerState
    <3>3. timer' = [timer EXCEPT ![s] = t]
      BY <2>3 DEF ArmTimer, IInv, TypeOK, Timer
    <3>4. limit \in Bounds(a.http)
      BY <2>1, <2>3, <3>1 DEF Good, HttpOnly, Bounds
    <3>5. a.idle + t.left <= limit
      BY <3>1, <3>2
    <3>6. Good(f, a, t)
      BY <2>1, <3>2, <3>4, <3>5 DEF Good, Linked, HttpOnly, Watched
    <3>7. fdAttr' = [fdAttr EXCEPT ![f] = a]
      BY <2>3 DEF IInv, TypeOK
    <3> HIDE DEF t, a, f
    <3> QED
      BY <1>1, <1>4, <2>1, <3>2, <3>3, <3>6, <3>7, Change DEF f, a
  <2>4. CASE FreeTimer(s) /\ fdAttr' = fdAttr
    <3>1. ~a.http \/ a.http
      OBVIOUS
    <3>2. Good(f, a, freed)
      BY <1>2, <2>1 DEF Good, Linked, HttpOnly, Watched
    <3>3. fdAttr' = [fdAttr EXCEPT ![f] = a]
      BY <2>4 DEF IInv, TypeOK
    <3> HIDE DEF freed, a, f
    <3> QED
      BY <1>1, <1>2, <1>3, <1>4, <2>1, <2>4, <3>2, <3>3, Change DEF f, a
  <2>5. CASE FreeTimer(s) /\ fdAttr' = [fdAttr EXCEPT ![f] = Closed]
    <3>1. Closed.seq = 0
      BY DEF Closed
    <3> HIDE DEF freed, a, f
    <3> QED
      BY ZenonT(40), <1>1, <1>2, <1>3, <1>4, <2>1, <2>5, <3>1, ClosedTyped, Change DEF f, a
  <2>6. CASE checkBeat /\ a.keep = 0 /\ a.idle >= limit /\ SendBeat(s, f)
    <3>1. \/ FreeTimer(s) /\ fdAttr' = fdAttr
          \/ FreeTimer(s) /\ fdAttr' = [fdAttr EXCEPT ![f] = Closed]
          \/ /\ ~a.http
             /\ timer' = [timer EXCEPT ![s].state = "step", ![s].left = StepT]
             /\ fdAttr' = [fdAttr EXCEPT ![f].idle = IF a.ready THEN 0 ELSE @]
      BY <2>6, Zenon DEF SendBeat
    <3>2. CASE /\ ~a.http
               /\ timer' = [timer EXCEPT ![s].state = "step", ![s].left = StepT]
               /\ fdAttr' = [fdAttr EXCEPT ![f].idle = IF a.ready THEN 0 ELSE @]
      <4> DEFINE t == [timer[s] EXCEPT !.state = "step", !.left = StepT]
                 b == [a EXCEPT !.idle = IF a.ready THEN 0 ELSE @]
      <4>1. t \in Timer(Fd) /\ t.fd = f /\ t.state = "step" /\ t.left = StepT
        BY <1>1, TimeAssumption DEF Timer, TimerState
      <4>2. b \in Attr /\ b.seq = s /\ ~b.http /\ b.keep = 0 /\ b.ready = a.ready
            /\ b.idle = IF a.ready THEN 0 ELSE a.idle
        BY <1>1, <2>1, <2>6, <3>2, MaxIdleAssumption DEF Attr
      <4>3. fdAttr' = [fdAttr EXCEPT ![f] = b] /\ timer' = [timer EXCEPT ![s] = t]
        BY <1>1, <3>2 DEF IInv, TypeOK, Timer, Attr
      <4>4. a.idle <= IoTimeoutT /\ a.idle \in Nat
        <5>1. \E n \in Bounds(a.http) : a.idle + timer[s].left <= n
          BY <2>1, <2>6 DEF Good, Watched
        <5> QED
          BY <1>1, <3>2, <5>1, TimeAssumption, MaxIdleAssumption DEF Bounds, Attr
      <4>5. Good(f, b, t)
        BY <4>1, <4>2, <4>4, TimeAssumption DEF Good, Linked, HttpOnly, Watched
      <4> HIDE DEF t, b, a, f
      <4> QED
        BY <1>1, <1>4, <2>1, <4>1, <4>2, <4>3, <4>5, Change DEF f, a
    <3> QED BY <2>4, <2>5, <3>1, <3>2
  <2>7. CASE GiveUp(s, f)
    BY <2>4, <2>5, <2>7 DEF GiveUp, IInv, TypeOK
  <2> QED
    BY <2>2, <2>3, <2>6, <2>7
<1> QED BY <1>5, <1>6

-----------------------------------------------------------------------------
(* The invariant.                                                          *)

LEMMA InitInv == Init => IInv
<1> SUFFICES ASSUME Init PROVE IInv
  OBVIOUS
<1> DEFINE fd == CHOOSE f \in Fd : TRUE
           t == [state |-> "none", fd |-> fd, left |-> 0]
<1>1. fd \in Fd
  BY DescriptorAssumption
<1>2. timer = [s \in Seqs |-> t]
  BY DEF Init
<1> HIDE DEF fd
<1>3. t \in Timer(Fd) /\ t.state = "none"
  BY <1>1 DEF Timer, TimerState
<1> HIDE DEF t
<1>4. TypeOK
  <2>1. timer \in [Seqs -> Timer(Fd)]
    BY <1>2, <1>3
  <2>2. fdAttr \in [Fd -> Attr]
    BY ClosedTyped DEF Init
  <2>3. nextSeq \in 0 .. MaxSeq /\ mute \subseteq Seqs
    BY SeqAssumption DEF Init
  <2> QED
    BY <2>1, <2>2, <2>3 DEF TypeOK
<1>5. \A f \in Fd : fdAttr[f].seq = 0
  BY DEF Init, Closed
<1>6. Unused
  <2>1. nextSeq = 0
    BY DEF Init
  <2>2. \A s \in Seqs : timer[s].state = "none"
    BY <1>2, <1>3
  <2> QED
    BY <1>5, <2>1, <2>2 DEF Unused
<1> QED
  BY <1>4, <1>5, <1>6 DEF IInv, Open

\* Attributes that differ from good ones in what a message changes are good.
LEMMA ActiveGood ==
    ASSUME IInv, NEW f \in Fd, Open(f), NEW a \in Attr,
           a.seq = fdAttr[f].seq, a.http = fdAttr[f].http, a.idle = 0,
           fdAttr[f].ready => a.ready,
           a.http => a.keep \in Keep \cup {0}, ~a.http => a.keep = fdAttr[f].keep
    PROVE  Good(f, a, timer[fdAttr[f].seq])
<1> DEFINE t == timer[fdAttr[f].seq]
<1>1. Good(f, fdAttr[f], t) /\ t \in Timer(Fd)
  BY OpenSeq DEF IInv, TypeOK
<1>2. t.left \in Nat /\ fdAttr[f].idle \in Nat
  BY <1>1, OpenSeq, MaxIdleAssumption DEF Timer, Attr
<1> HIDE DEF t
<1>3. Linked(f, a, t) /\ HttpOnly(a, t)
  BY <1>1 DEF Good, Linked, HttpOnly
<1>4. Watched(a, t)
  <2>1. CASE t.state = "armed"
    <3>1. PICK n \in Bounds(fdAttr[f].http) : fdAttr[f].idle + t.left <= n
      BY <1>1, <2>1 DEF Good, Watched
    <3>2. n \in Nat
      BY TimeAssumption, KeepAssumption DEF Bounds
    <3>3. a.idle + t.left <= n
      BY <1>2, <3>1, <3>2
    <3> QED
      BY <2>1, <3>1, <3>3 DEF Watched
  <2>2. CASE t.state = "step"
    <3>1. t.left <= StepT
      BY <1>1, <2>2 DEF Good, Watched
    <3> QED
      BY <1>2, <2>2, <3>1, TimeAssumption DEF Watched
  <2> QED BY <2>1, <2>2 DEF Watched
<1> QED
  BY <1>3, <1>4 DEF Good, t

\* RestartTimer and Answer give an active connection a whole idle timeout.
LEMMA RestartGood ==
    ASSUME IInv, NEW f \in Fd, Open(f), NEW a \in Attr,
           a.seq = fdAttr[f].seq, a.http = fdAttr[f].http, a.idle = 0,
           a.ready = fdAttr[f].ready,
           a.http => a.keep \in Keep \cup {0}, ~a.http => a.keep = fdAttr[f].keep,
           NEW t \in Timer(Fd), t.fd = f,
           \/ t.state = "freed"
           \/ t.state = "armed" /\ t.left = IoTimeoutT
    PROVE  Good(f, a, t)
<1>1. Good(f, fdAttr[f], timer[fdAttr[f].seq])
  BY DEF IInv
<1>2. Linked(f, a, t) /\ HttpOnly(a, t)
  BY <1>1 DEF Good, Linked, HttpOnly
<1>3. Watched(a, t)
  BY TimeAssumption DEF Watched, Bounds
<1> QED
  BY <1>2, <1>3 DEF Good

LEMMA HttpMessageKeeps ==
    ASSUME IInv, NEW f \in Fd, NEW k \in Keep, NEW header \in BOOLEAN,
           HttpMessage(f, k, header)
    PROVE  IInv'
<1> DEFINE s == fdAttr[f].seq
           a == [fdAttr[f] EXCEPT !.keep = k, !.idle = 0]
<1>1. Open(f) /\ s \in Seqs /\ fdAttr[f] \in Attr /\ fdAttr[f].http /\ mute' \subseteq Seqs
  BY OpenSeq DEF HttpMessage, IInv, TypeOK
<1>2. /\ a \in Attr /\ a.seq = s /\ a.http = fdAttr[f].http /\ a.idle = 0 /\ a.keep = k
      /\ a.ready = fdAttr[f].ready
  <2>1. k \in Nat /\ 0 \in 0 .. MaxIdle
    BY KeepAssumption, MaxIdleAssumption
  <2>2. a \in Attr
    BY <1>1, <2>1 DEF Attr
  <2> QED
    BY <1>1, <2>2 DEF Attr
<1>3. fdAttr' = [fdAttr EXCEPT ![f] = a]
  BY <1>1 DEF HttpMessage, IInv, TypeOK
<1>4. nextSeq' = nextSeq
  BY DEF HttpMessage
<1>5. timer[s] \in Timer(Fd) /\ Good(f, fdAttr[f], timer[s])
  BY <1>1 DEF IInv, TypeOK
<1>6. CASE ~header
  <2>1. timer' = timer
    BY <1>6 DEF HttpMessage
  <2>2. Good(f, a, timer[s])
    BY <1>1, <1>2, ActiveGood
  <2> HIDE DEF a
  <2> QED
    BY <1>1, <1>2, <1>3, <1>4, <2>1, <2>2, ChangeConn
<1>7. CASE header
  <2> DEFINE t == [timer[s] EXCEPT !.left = IF timer[s].state = "freed" THEN 0 ELSE IoTimeoutT]
  <2>1. timer' = [timer EXCEPT ![s] = t]
    BY <1>1, <1>7 DEF HttpMessage, RestartTimer, IInv, TypeOK, Timer
  <2>2. timer[s].fd = f /\ timer[s].state \in {"armed", "freed"}
    BY <1>1, <1>5 DEF Good, Linked, HttpOnly, Timer, TimerState
  <2>3. /\ t \in Timer(Fd) /\ t.fd = f
        /\ t.state = "freed" \/ (t.state = "armed" /\ t.left = IoTimeoutT)
    BY <1>5, <2>2, TimeAssumption DEF Timer
  <2> HIDE DEF t, a
  <2>4. Good(f, a, t)
    BY <1>1, <1>2, <2>3, RestartGood
  <2>5. timer[s].state # "none"
    BY <2>2
  <2>6. a.seq \in {0, fdAttr[f].seq}
    BY <1>2
  <2>7. Good(f, a, IF a.seq = s THEN t ELSE timer[a.seq])
    BY <1>2, <2>4
  <2>8. t \in Timer(Fd) /\ timer[s].fd = f
    BY <2>2, <2>3
  <2> HIDE DEF s
  <2> QED
    BY <1>1, <1>2, <1>3, <1>4, <2>1, <2>5, <2>6, <2>7, <2>8, Change
<1> QED BY <1>6, <1>7

LEMMA AnswerKeeps ==
    ASSUME IInv, NEW s \in Seqs, Answer(s)
    PROVE  IInv'
<1> DEFINE f == timer[s].fd
           a == [fdAttr[f] EXCEPT !.idle = 0]
           t == [timer[s] EXCEPT !.state = "armed", !.left = IoTimeoutT]
<1>1. f \in Fd /\ Open(f) /\ fdAttr[f] \in Attr /\ fdAttr[f].seq = s /\ Good(f, fdAttr[f], timer[s])
  BY MineIsGood DEF Answer
<1>2. /\ a \in Attr /\ a.seq = s /\ a.http = fdAttr[f].http /\ a.idle = 0
      /\ a.keep = fdAttr[f].keep /\ a.ready = fdAttr[f].ready
  BY <1>1, MaxIdleAssumption DEF Attr
<1>3. fdAttr' = [fdAttr EXCEPT ![f] = a] /\ timer' = [timer EXCEPT ![s] = t]
  BY <1>1 DEF Answer, ArmTimer, IInv, TypeOK, Timer
<1>4. t \in Timer(Fd) /\ t.fd = f /\ t.state = "armed" /\ t.left = IoTimeoutT
  BY TimeAssumption DEF IInv, TypeOK, Timer, TimerState
<1>5. nextSeq' = nextSeq /\ mute' \subseteq Seqs /\ timer[s].state # "none"
  BY DEF Answer, IInv, TypeOK
<1>6. a.http => a.keep \in Keep \cup {0}
  BY <1>1, <1>2 DEF Good, HttpOnly
<1> HIDE DEF a, t, f
<1>7. Good(f, a, t)
  BY <1>1, <1>2, <1>4, <1>6, RestartGood
<1> QED
  BY <1>1, <1>2, <1>3, <1>4, <1>5, <1>7, Change DEF f

LEMMA StepInv == IInv /\ [Next]_vars => IInv'
<1> SUFFICES ASSUME IInv, [Next]_vars PROVE IInv'
  OBVIOUS
<1>1. ASSUME NEW f \in Fd, NEW http \in BOOLEAN, Accept(f, http) PROVE IInv'
  BY <1>1, RegisterKeeps DEF Accept
<1>2. ASSUME NEW f \in Fd, ConnectWorker(f) PROVE IInv'
  BY <1>2, RegisterKeeps DEF ConnectWorker
<1>3. ASSUME NEW f \in Fd, NEW k \in Keep, ConnectHttp(f, k) PROVE IInv'
  BY <1>3, RegisterKeeps, KeepAssumption DEF ConnectHttp
<1>4. ASSUME NEW f \in Fd, NEW done \in BOOLEAN, AddInnerFd(f, done) PROVE IInv'
  <2> DEFINE r == fdAttr[f].ready \/ done
             a == [fdAttr[f] EXCEPT !.ready = r, !.inner = TRUE, !.idle = 0]
  <2>1. Open(f) /\ fdAttr[f] \in Attr /\ ~fdAttr[f].http
    BY <1>4 DEF AddInnerFd, IInv, TypeOK
  <2>2. fdAttr' = [fdAttr EXCEPT ![f] = a]
    BY <1>4 DEF AddInnerFd, IInv, TypeOK
  <2>3. r \in BOOLEAN /\ (fdAttr[f].ready => r) /\ 0 \in 0 .. MaxIdle
    BY MaxIdleAssumption
  <2> HIDE DEF r
  <2>4. a \in Attr
    BY <2>1, <2>3 DEF Attr
  <2>5. /\ a.seq = fdAttr[f].seq /\ a.http = fdAttr[f].http /\ a.idle = 0
        /\ a.keep = fdAttr[f].keep /\ (fdAttr[f].ready => a.ready)
    BY <2>1, <2>3 DEF Attr
  <2>6. timer' = timer /\ nextSeq' = nextSeq /\ mute' \subseteq Seqs
    BY <1>4 DEF AddInnerFd, IInv, TypeOK
  <2> HIDE DEF a
  <2>7. Good(f, a, timer[fdAttr[f].seq])
    BY <2>1, <2>4, <2>5, ActiveGood
  <2> QED
    BY <2>1, <2>2, <2>4, <2>5, <2>6, <2>7, ChangeConn
<1>5. ASSUME NEW f \in Fd, Traffic(f) PROVE IInv'
  <2> DEFINE a == [fdAttr[f] EXCEPT !.idle = 0]
  <2>1. Open(f) /\ fdAttr[f] \in Attr
    BY <1>5 DEF Traffic, IInv, TypeOK
  <2>2. fdAttr' = [fdAttr EXCEPT ![f] = a]
    BY <1>5 DEF Traffic, IInv, TypeOK
  <2>3. a \in Attr
    BY <2>1, MaxIdleAssumption DEF Attr
  <2>4. /\ a.seq = fdAttr[f].seq /\ a.http = fdAttr[f].http /\ a.idle = 0
        /\ a.keep = fdAttr[f].keep /\ a.ready = fdAttr[f].ready
    BY <2>1 DEF Attr
  <2>5. timer' = timer /\ nextSeq' = nextSeq /\ mute' \subseteq Seqs
    BY <1>5 DEF Traffic, IInv, TypeOK
  <2>6. a.http => a.keep \in Keep \cup {0}
    BY <2>1, <2>4 DEF IInv, Good, HttpOnly
  <2> HIDE DEF a
  <2>7. Good(f, a, timer[fdAttr[f].seq])
    BY <2>1, <2>3, <2>4, <2>6, ActiveGood
  <2> QED
    BY <2>1, <2>2, <2>3, <2>4, <2>5, <2>7, ChangeConn
<1>6. ASSUME NEW f \in Fd, NEW k \in Keep, NEW header \in BOOLEAN, HttpMessage(f, k, header)
      PROVE  IInv'
  BY <1>6, HttpMessageKeeps
<1>7. ASSUME NEW f \in Fd, Close(f) PROVE IInv'
  <2>1. Closed.seq = 0
    BY DEF Closed
  <2> QED
    BY <1>7, <2>1, ClosedTyped, ChangeConn DEF Close, IInv, TypeOK
<1>8. ASSUME NEW f \in Fd, GoMute(f) PROVE IInv'
  <2>1. fdAttr[f].seq \in Seqs
    BY <1>8, OpenSeq DEF GoMute
  <2>2. mute' \subseteq Seqs /\ UNCHANGED <<fdAttr, timer, nextSeq>>
    BY <1>8, <2>1 DEF GoMute, IInv, TypeOK
  <2> QED
    BY <2>2 DEF IInv, TypeOK, Unused, Open, Good, Linked, HttpOnly, Watched
<1>9. ASSUME NEW s \in Seqs, Expire(s) PROVE IInv'
  BY <1>9, IoTimeoutGood DEF Expire
<1>10. ASSUME NEW s \in Seqs, Answer(s) PROVE IInv'
  BY <1>10, AnswerKeeps
<1>11. ASSUME NEW s \in Seqs, BeatTimeout(s) PROVE IInv'
  BY <1>11, IoTimeoutGood DEF BeatTimeout
<1>12. ASSUME Tick PROVE IInv'
  BY <1>12, TickKeeps
<1>13. ASSUME UNCHANGED vars PROVE IInv'
  BY <1>13 DEF vars, IInv, TypeOK, Unused, Open, Good, Linked, HttpOnly, Watched
<1> QED
  BY <1>1, <1>2, <1>3, <1>4, <1>5, <1>6, <1>7, <1>8, <1>9, <1>10, <1>11, <1>12, <1>13
     DEF Next

-----------------------------------------------------------------------------
(* What a step may do.                                                     *)

\* The connection of a timer that runs out is closed for its own reasons, and
\* loses the timer only when it is an inner or a silent HTTP connection.
LEMMA IoTimeoutRightly ==
    ASSUME IInv, NEW s \in Seqs, NEW checkBeat \in BOOLEAN,
           timer[s].state = (IF checkBeat THEN "armed" ELSE "step"),
           timer[s].left = 0,
           IoTimeout(s, checkBeat)
    PROVE  ClosedRightly /\ ForgottenRightly
<1> DEFINE f == timer[s].fd
           a == fdAttr[f]
           limit == IF checkBeat /\ a.keep = 0 THEN IoTimeoutT ELSE a.keep
<1>1. f \in Fd /\ a \in Attr /\ a.idle \in Nat /\ a.keep \in Nat
  BY MaxIdleAssumption DEF IInv, TypeOK, Timer, Attr
<1>2. Due(s)
  BY DEF Due
<1>3. \A g \in Fd : g # f => fdAttr'[g] = fdAttr[g]
  <2>1. \/ fdAttr' = fdAttr
        \/ \E x : fdAttr' = [fdAttr EXCEPT ![f] = x]
    BY DEF IoTimeout, SendBeat, GiveUp
  <2> QED
    BY <2>1 DEF IInv, TypeOK
<1>4. \A r \in Seqs : r # s => timer'[r] = timer[r]
  BY DEF IoTimeout, SendBeat, GiveUp, FreeTimer, ArmTimer, IInv, TypeOK
<1>5. \A g \in Fd : Open(g) /\ fdAttr[g].seq = s => g = f
  BY DEF IInv, Good, Linked
<1>6. CASE ~Mine(s)
  <2>1. fdAttr' = fdAttr /\ a.seq # s
    BY <1>6 DEF IoTimeout, Mine
  <2>2. \A g \in Fd : Open(g) => fdAttr[g].seq \in Seqs /\ fdAttr[g].seq # s
    BY <1>5, <2>1, OpenSeq
  <2> QED
    BY <1>4, <2>1, <2>2 DEF ClosedRightly, ForgottenRightly, Live
<1>7. CASE Mine(s)
  <2>1. a.seq = s /\ Open(f) /\ Good(f, a, timer[s])
    BY <1>7, MineIsGood
  <2>2. ~checkBeat => a.keep = 0 /\ ~a.http
    BY <2>1 DEF Good, HttpOnly
  <2>3. \/ /\ fdAttr' = fdAttr
           /\ timer'[s].state = "armed" \/ timer'[s].state = "step"
        \/ a.idle >= limit /\ (~checkBeat \/ a.keep # 0) /\ GiveUp(s, f)
        \/ a.idle >= limit /\ checkBeat /\ a.keep = 0 /\ SendBeat(s, f)
    <3>1. ArmTimer(s, limit - a.idle) => timer'[s].state = "armed"
      BY DEF ArmTimer, IInv, TypeOK, Timer
    <3>2. limit \in Nat
      BY <1>1, TimeAssumption
    <3> QED
      BY <1>1, <1>7, <3>1, <3>2 DEF IoTimeout
  <2>4. CASE fdAttr' = fdAttr /\ (timer'[s].state = "armed" \/ timer'[s].state = "step")
    <3>1. \A g \in Fd : Open(g) /\ Live(fdAttr[g].seq) => Live(fdAttr[g].seq)'
      BY <1>4, <2>4, OpenSeq DEF Live
    <3> QED
      BY <2>4, <3>1 DEF ClosedRightly, ForgottenRightly
  <2>5. \A g \in Fd \ {f} : Open(g) =>
          fdAttr'[g] = fdAttr[g] /\ timer'[fdAttr[g].seq] = timer[fdAttr[g].seq]
    BY <1>3, <1>4, <1>5, OpenSeq
  <2>6. CASE a.idle >= limit /\ (~checkBeat \/ a.keep # 0) /\ GiveUp(s, f)
    <3>1. \/ timer[a.seq].state = "step" /\ Due(a.seq)
          \/ a.keep > 0 /\ a.idle >= a.keep
      BY <1>1, <1>2, <2>1, <2>6
    <3>2. ClosedRightly
      BY <2>5, <3>1 DEF ClosedRightly
    <3>3. a.inner \/ fdAttr'[f].seq # a.seq
      <4>1. fdAttr'[f] = IF a.inner THEN a ELSE Closed
        BY <1>1, <2>6 DEF GiveUp, IInv, TypeOK
      <4>2. Closed.seq = 0 /\ a.seq # 0
        BY <2>1 DEF Closed, Open
      <4> HIDE DEF a
      <4> QED BY <4>1, <4>2
    <3>4. ForgottenRightly
      BY <2>5, <3>3 DEF ForgottenRightly, Live
    <3> QED BY <3>2, <3>4
  <2>7. CASE a.idle >= limit /\ checkBeat /\ a.keep = 0 /\ SendBeat(s, f)
    <3>1. a.idle >= IoTimeoutT
      BY <2>7
    <3>2. \/ a.http /\ fdAttr' = fdAttr
          \/ /\ ~a.http /\ timer'[s].state = "step"
             /\ fdAttr' = [fdAttr EXCEPT ![f].idle = IF a.ready THEN 0 ELSE @]
          \/ ~a.http /\ a.ready /\ fdAttr' = [fdAttr EXCEPT ![f] = Closed]
      <4>1. timer' = [timer EXCEPT ![s].state = "step", ![s].left = StepT]
              => timer'[s].state = "step"
        BY DEF IInv, TypeOK, Timer
      <4> QED
        BY <2>7, <4>1, Zenon DEF SendBeat
    <3>3. CASE a.http /\ fdAttr' = fdAttr
      BY <2>5, <2>7, <3>1, <3>3 DEF ClosedRightly, ForgottenRightly, Live
    <3>4. CASE /\ ~a.http /\ timer'[s].state = "step"
               /\ fdAttr' = [fdAttr EXCEPT ![f].idle = IF a.ready THEN 0 ELSE @]
      <4>1. fdAttr'[f].seq = a.seq
        BY <1>1, <3>4 DEF IInv, TypeOK, Attr
      <4> QED
        BY <2>1, <2>5, <3>4, <4>1 DEF ClosedRightly, ForgottenRightly, Live
    <3>5. CASE ~a.http /\ a.ready /\ fdAttr' = [fdAttr EXCEPT ![f] = Closed]
      <4>1. fdAttr'[f].seq # a.seq
        BY <1>1, <2>1, <3>5 DEF IInv, TypeOK, Closed, Open
      <4> QED
        BY <1>2, <2>1, <2>5, <2>7, <3>1, <3>5, <4>1
           DEF ClosedRightly, ForgottenRightly, Live
    <3> QED BY <3>2, <3>3, <3>4, <3>5
  <2> QED BY <2>3, <2>4, <2>6, <2>7
<1> QED BY <1>6, <1>7

\* The other steps close nothing but by Close, and free no timer.
LEMMA OthersRightly ==
    ASSUME IInv,
           \A f \in Fd : Open(f) => fdAttr'[f].seq = fdAttr[f].seq \/ Close(f),
           \A s \in Seqs : timer[s].state \in {"armed", "step"} =>
                                timer'[s].state \in {"armed", "step"}
    PROVE  ClosedRightly /\ ForgottenRightly
<1>1. \A f \in Fd : Open(f) => fdAttr[f].seq \in Seqs
  BY OpenSeq
<1> QED
  BY <1>1 DEF ClosedRightly, ForgottenRightly, Live

LEMMA RegisterRightly ==
    ASSUME IInv, NEW f \in Fd, NEW http, NEW ready, NEW k, Register(f, http, ready, k)
    PROVE  ClosedRightly /\ ForgottenRightly
<1>1. \A g \in Fd : Open(g) => fdAttr'[g].seq = fdAttr[g].seq
  BY DEF Register, IInv, TypeOK
<1>2. \A s \in Seqs : s # nextSeq' => timer'[s] = timer[s]
  BY DEF Register, IInv, TypeOK
<1>3. nextSeq' \in Seqs => timer'[nextSeq'].state = "armed"
  BY DEF Register, Armed, IInv, TypeOK
<1> QED
  BY <1>1, <1>2, <1>3, OthersRightly

LEMMA StepRightly == IInv /\ Next => ClosedRightly /\ ForgottenRightly
<1> SUFFICES ASSUME IInv, Next PROVE ClosedRightly /\ ForgottenRightly
  OBVIOUS
<1> USE DEF ClosedRightly
<1>1. ASSUME NEW f \in Fd, NEW http \in BOOLEAN, Accept(f, http)
      PROVE  ClosedRightly /\ ForgottenRightly
  BY <1>1, RegisterRightly DEF Accept
<1>2. ASSUME NEW f \in Fd, ConnectWorker(f) PROVE ClosedRightly /\ ForgottenRightly
  BY <1>2, RegisterRightly DEF ConnectWorker
<1>3. ASSUME NEW f \in Fd, NEW k \in Keep, ConnectHttp(f, k)
      PROVE  ClosedRightly /\ ForgottenRightly
  BY <1>3, RegisterRightly DEF ConnectHttp
<1>4. ASSUME NEW f \in Fd, NEW done \in BOOLEAN, AddInnerFd(f, done)
      PROVE  ClosedRightly /\ ForgottenRightly
  BY <1>4, OthersRightly DEF AddInnerFd, IInv, TypeOK, Attr
<1>5. ASSUME NEW f \in Fd, Traffic(f) PROVE ClosedRightly /\ ForgottenRightly
  BY <1>5, OthersRightly DEF Traffic, IInv, TypeOK, Attr
<1>6. ASSUME NEW f \in Fd, NEW k \in Keep, NEW header \in BOOLEAN, HttpMessage(f, k, header)
      PROVE  ClosedRightly /\ ForgottenRightly
  <2>1. \A g \in Fd : fdAttr'[g].seq = fdAttr[g].seq
    BY <1>6 DEF HttpMessage, IInv, TypeOK, Attr
  <2>2. \A s \in Seqs : timer'[s].state = timer[s].state
    BY <1>6 DEF HttpMessage, RestartTimer, IInv, TypeOK, Timer
  <2> QED
    BY <2>1, <2>2, OthersRightly
<1>7. ASSUME NEW f \in Fd, Close(f) PROVE ClosedRightly /\ ForgottenRightly
  BY <1>7, OthersRightly DEF Close, IInv, TypeOK
<1>8. ASSUME NEW f \in Fd, GoMute(f) PROVE ClosedRightly /\ ForgottenRightly
  BY <1>8, OthersRightly DEF GoMute
<1>9. ASSUME NEW s \in Seqs, Expire(s) PROVE ClosedRightly /\ ForgottenRightly
  BY <1>9, IoTimeoutRightly DEF Expire
<1>10. ASSUME NEW s \in Seqs, Answer(s) PROVE ClosedRightly /\ ForgottenRightly
  <2>1. \A g \in Fd : fdAttr'[g].seq = fdAttr[g].seq
    BY <1>10 DEF Answer, IInv, TypeOK, Attr
  <2>2. \A r \in Seqs : timer'[r].state \in {timer[r].state, "armed"}
    BY <1>10 DEF Answer, ArmTimer, IInv, TypeOK, Timer
  <2> QED
    BY <2>1, <2>2, OthersRightly
<1>11. ASSUME NEW s \in Seqs, BeatTimeout(s) PROVE ClosedRightly /\ ForgottenRightly
  BY <1>11, IoTimeoutRightly DEF BeatTimeout
<1>12. ASSUME Tick PROVE ClosedRightly /\ ForgottenRightly
  <2>1. \A g \in Fd : fdAttr'[g].seq = fdAttr[g].seq
    BY <1>12 DEF Tick, Older, IInv, TypeOK, Attr
  <2>2. \A s \in Seqs : timer'[s].state = timer[s].state
    BY <1>12 DEF Tick, IInv, TypeOK, Timer
  <2> QED
    BY <2>1, <2>2, OthersRightly
<1> QED
  BY <1>1, <1>2, <1>3, <1>4, <1>5, <1>6, <1>7, <1>8, <1>9, <1>10, <1>11, <1>12 DEF Next

-----------------------------------------------------------------------------
(* The theorems.                                                           *)

LEMMA Bounded == IInv => IdleBound
<1> SUFFICES ASSUME IInv, NEW f \in Fd, Open(f), Live(fdAttr[f].seq)
             PROVE  \E n \in Bounds(fdAttr[f].http) :
                        fdAttr[f].idle <= n + (IF fdAttr[f].ready THEN 0 ELSE StepT)
  BY DEF IdleBound, Bounds
<1> DEFINE a == fdAttr[f]
           t == timer[fdAttr[f].seq]
<1>1. Good(f, a, t) /\ a \in Attr /\ t \in Timer(Fd)
  BY OpenSeq DEF IInv, TypeOK
<1>2. a.idle \in Nat /\ t.left \in Nat
  BY <1>1, MaxIdleAssumption DEF Attr, Timer
<1>3. t.state = "armed" \/ t.state = "step"
  BY DEF Live
<1> HIDE DEF a, t
<1>4. CASE t.state = "armed"
  <2>1. PICK n \in Bounds(a.http) : a.idle + t.left <= n
    BY <1>1, <1>4 DEF Good, Watched
  <2>2. n \in Nat
    BY TimeAssumption, KeepAssumption DEF Bounds
  <2>3. a.idle <= n + (IF a.ready THEN 0 ELSE StepT)
    BY <1>2, <2>1, <2>2, TimeAssumption
  <2> QED
    BY <2>3 DEF a
<1>5. CASE t.state = "step"
  <2>1. IoTimeoutT \in Bounds(a.http)
    BY DEF Bounds
  <2>2. a.idle + t.left <= IoTimeoutT + (IF a.ready THEN 0 ELSE StepT)
    BY <1>1, <1>5 DEF Good, Watched
  <2>3. a.idle <= IoTimeoutT + (IF a.ready THEN 0 ELSE StepT)
    BY <1>2, <2>2, TimeAssumption
  <2> QED
    BY <2>1, <2>3 DEF a
<1> QED BY <1>3, <1>4, <1>5

THEOREM Invariance == Spec => []IInv
BY InitInv, StepInv, PTL DEF Spec

\* The tables of connections and timers keep their types.
THEOREM IdleTimerTyped == Spec => []TypeOK
<1>1. IInv => TypeOK
  BY DEF IInv
<1> QED
  BY <1>1, Invariance, PTL

\* No connection that has a timer is idle for longer than the bound of its
\* kind, whatever the timeouts are and whatever HTTP headers ask for.
THEOREM IdleIsBounded == Spec => []IdleBound
BY Bounded, Invariance, PTL

\* A timer that outlived its connection never closes the connection that has
\* its descriptor by then.
THEOREM ClosesItsOwn == Spec => ClosesOnlyItsOwn
<1>1. IInv /\ [Next]_vars => [ClosedRightly]_vars
  BY StepRightly
<1> QED
  BY <1>1, Invariance, PTL DEF Spec, ClosesOnlyItsOwn

\* Only inner and silent HTTP connections stay open without a timer.
THEOREM FewAreForgotten == Spec => OnlyTheseAreForgotten
<1>1. IInv /\ [Next]_vars => [ForgottenRightly]_vars
  BY StepRightly
<1> QED
  BY <1>1, Invariance, PTL DEF Spec, OnlyTheseAreForgotten
=============================================================================
