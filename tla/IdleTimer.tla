------------------------------ MODULE IdleTimer ------------------------------
(***************************************************************************)
(* The idle timer of a worker's connections and the heart beat             *)
(* (OssWorker::AddIoTimeout, IoTimeout, StepTimeout, DestroyConnect,       *)
(* StepIoTimeout).                                                         *)
(*                                                                         *)
(* Every connection gets one ev_timer whose data names its descriptor and  *)
(* sequence.  The timer belongs to the loop while it is armed and to a     *)
(* StepIoTimeout while a heart beat is unanswered; whoever finds it of no  *)
(* more use frees it.  DestroyConnect neither stops nor frees it, so it    *)
(* outlives its connection and finds the descriptor closed, or open again  *)
(* for another connection.                                                 *)
(*                                                                         *)
(* Time is counted in ticks and waits for a timer that is due: the event   *)
(* loop runs its expired timers before it sleeps again.                    *)
(***************************************************************************)
EXTENDS Naturals

CONSTANTS
    Fd,         \* the descriptor numbers the process may be given
    MaxSeq,     \* connections opened (a bound)
    First,      \* the first idle timeout, 1.5 s or 2.5 s
    IoTimeoutT, \* m_dIoTimeout
    StepT,      \* m_dStepTimeout
    Keep,       \* the values of dKeepAlive an HTTP header may ask for
    MaxIdle     \* ticks of inactivity are counted so far (a bound)

Largest(a, b) == IF a > b THEN a ELSE b

ASSUME DescriptorAssumption == Fd # {}
ASSUME SeqAssumption == MaxSeq \in Nat
ASSUME TimeAssumption ==
    /\ First \in Nat /\ IoTimeoutT \in Nat /\ StepT \in Nat
    /\ 0 < First /\ First <= IoTimeoutT
    /\ 0 < StepT /\ StepT < IoTimeoutT
ASSUME KeepAssumption == Keep \subseteq Nat
ASSUME MaxIdleAssumption ==
    /\ MaxIdle \in Nat
    /\ MaxIdle > IoTimeoutT + StepT
    /\ \A k \in Keep : MaxIdle > k

VARIABLES
    fdAttr,     \* m_mapFdAttr: the attributes of each open descriptor
    timer,      \* the timer made for each connection sequence
    nextSeq,    \* connections opened so far
    mute        \* the connections on which nothing is read or written any more

vars == <<fdAttr, timer, nextSeq, mute>>

Seqs == 1 .. MaxSeq

\* seq 0: the descriptor is closed.  idle: ticks since dActiveTime.
Attr == [seq : 0 .. MaxSeq, http : BOOLEAN, ready : BOOLEAN, inner : BOOLEAN,
         keep : Nat, idle : 0 .. MaxIdle]
Closed == [seq |-> 0, http |-> FALSE, ready |-> FALSE, inner |-> FALSE,
           keep |-> 0, idle |-> 0]

\* left: ticks until the timer is due or, with a step, until the step is.
TimerState == {"none", "armed", "step", "freed"}
Timer(fd) == [state : TimerState, fd : fd, left : Nat]
Armed(f, n) == [state |-> "armed", fd |-> f, left |-> n]

Open(f) == fdAttr[f].seq # 0

Init ==
    /\ fdAttr = [f \in Fd |-> Closed]
    /\ timer = [s \in Seqs |-> [state |-> "none", fd |-> CHOOSE f \in Fd : TRUE, left |-> 0]]
    /\ nextSeq = 0
    /\ mute = {}

-----------------------------------------------------------------------------
(* Opening, traffic, closing.                                              *)

\* A connection is registered for a free descriptor, and AddIoTimeout makes
\* its timer.
Register(f, http, ready, k) ==
    /\ ~Open(f)
    /\ nextSeq < MaxSeq
    /\ nextSeq' = nextSeq + 1
    /\ fdAttr' = [fdAttr EXCEPT ![f] = [seq |-> nextSeq', http |-> http,
            ready |-> ready, inner |-> FALSE, keep |-> k, idle |-> 0]]
    /\ timer' = [timer EXCEPT ![nextSeq'] = Armed(f, First)]
    /\ UNCHANGED mute

\* FdTransfer: of a worker or a client, or of an HTTP client.
Accept(f, http) == Register(f, http, TRUE, 0)

\* AutoSend to a worker; the handshake is not done.
ConnectWorker(f) == Register(f, FALSE, FALSE, 0)

\* AutoSend of an HTTP request.
ConnectHttp(f, k) == k > 0 /\ Register(f, TRUE, TRUE, k)

\* The first write event of a connection to a worker makes it an inner one, and
\* so do the messages of the handshake, which make it ready.
AddInnerFd(f, done) ==
    /\ Open(f)
    /\ fdAttr[f].seq \notin mute
    /\ ~fdAttr[f].http
    /\ ~fdAttr[f].inner \/ ~fdAttr[f].ready
    /\ fdAttr' = [fdAttr EXCEPT ![f].ready = @ \/ done, ![f].inner = TRUE, ![f].idle = 0]
    /\ UNCHANGED <<timer, nextSeq, mute>>

\* A message is read or written: dActiveTime is now.
Traffic(f) ==
    /\ Open(f)
    /\ fdAttr[f].seq \notin mute
    /\ fdAttr' = [fdAttr EXCEPT ![f].idle = 0]
    /\ UNCHANGED <<timer, nextSeq, mute>>

\* AddIoTimeout for a connection that has a timer: whatever time is asked
\* for, the timer is started with m_dIoTimeout.  pTimeWatcher is not cleared
\* when the timer is freed; what starting it does then is undefined, and the
\* one outcome kept here is that nothing is started.
RestartTimer(s) ==
    timer' = [timer EXCEPT ![s].left = IF timer[s].state = "freed" THEN 0 ELSE IoTimeoutT]

\* An HTTP message sets dKeepAlive; one with a Connection or Keep-Alive
\* header calls AddIoTimeout.
HttpMessage(f, k, header) ==
    /\ Open(f)
    /\ fdAttr[f].seq \notin mute
    /\ fdAttr[f].http
    /\ header \/ k > 0
    /\ fdAttr' = [fdAttr EXCEPT ![f].keep = k, ![f].idle = 0]
    /\ IF header THEN RestartTimer(fdAttr[f].seq) ELSE UNCHANGED timer
    /\ UNCHANGED <<nextSeq, mute>>

\* DestroyConnect(f) for another reason than its timer.
Close(f) ==
    /\ Open(f)
    /\ fdAttr' = [fdAttr EXCEPT ![f] = Closed]
    /\ UNCHANGED <<timer, nextSeq, mute>>

\* The other host is gone, and this one has nothing to send to it.
GoMute(f) ==
    /\ Open(f)
    /\ fdAttr[f].seq \notin mute
    /\ mute' = mute \cup {fdAttr[f].seq}
    /\ UNCHANGED <<fdAttr, timer, nextSeq>>

-----------------------------------------------------------------------------
(* The timer.                                                              *)

FreeTimer(s) == timer' = [timer EXCEPT ![s].state = "freed", ![s].left = 0]
ArmTimer(s, n) == timer' = [timer EXCEPT ![s].state = "armed", ![s].left = n]

\* Error: the descriptor is enough to know the connection.
SameFd(s) == fdAttr[timer[s].fd].seq # 0

\* The descriptor is still the connection the timer was made for.
Mine(s) == fdAttr[timer[s].fd].seq = s

\* Error: the beat's step is made and the timer freed as well.
SendBeatAndFree(s, f) ==
    /\ timer' = [timer EXCEPT ![s].state = "freed", ![s].left = StepT]
    /\ fdAttr' = [fdAttr EXCEPT ![f].idle = IF fdAttr[f].ready THEN 0 ELSE @]

\* Error: nothing is done when the beat cannot be registered in time.
SendBeatLate(s, f) ==
    /\ timer' = [timer EXCEPT ![s].state = "armed", ![s].left = StepT]
    /\ fdAttr' = fdAttr

\* A StepIoTimeout takes the timer and sends a beat, which is written, or
\* waits in pWaitForSendBuff before the handshake is done.  When writing fails
\* SendTo destroys the connection, and the step and the timer go.  They go as
\* well when HttpCodec cannot encode the beat, but the connection stays.
SendBeat(s, f) ==
    IF fdAttr[f].http
    THEN FreeTimer(s) /\ fdAttr' = fdAttr
    ELSE \/ /\ timer' = [timer EXCEPT ![s].state = "step", ![s].left = StepT]
            /\ fdAttr' = [fdAttr EXCEPT ![f].idle = IF fdAttr[f].ready THEN 0 ELSE @]
         \/ /\ fdAttr[f].ready
            /\ FreeTimer(s)
            /\ fdAttr' = [fdAttr EXCEPT ![f] = Closed]

\* Error: only the timer is freed.
GiveUpNone(s, f) == FreeTimer(s) /\ fdAttr' = fdAttr

\* The connection is idle for too long: unless it is an inner one it is
\* closed; the timer goes.
GiveUp(s, f) ==
    /\ FreeTimer(s)
    /\ fdAttr' = [fdAttr EXCEPT ![f] = IF fdAttr[f].inner THEN fdAttr[f] ELSE Closed]

\* Error: the timer of a connection that is closed is set again.
IoTimeoutKeeps(s, checkBeat) ==
    LET f == timer[s].fd
        a == fdAttr[f]
        limit == IF checkBeat /\ a.keep = 0 THEN IoTimeoutT ELSE a.keep
    IN
    IF ~Mine(s) THEN ArmTimer(s, IoTimeoutT) /\ fdAttr' = fdAttr
    ELSE IF a.idle < limit THEN ArmTimer(s, limit - a.idle) /\ fdAttr' = fdAttr
    ELSE IF checkBeat /\ a.keep = 0 THEN SendBeat(s, f)
    ELSE GiveUp(s, f)

\* Error: only a timer that is due to the tick is acted on.
IoTimeoutExact(s, checkBeat) ==
    LET f == timer[s].fd
        a == fdAttr[f]
        limit == IF checkBeat /\ a.keep = 0 THEN IoTimeoutT ELSE a.keep
    IN
    IF ~Mine(s) THEN FreeTimer(s) /\ fdAttr' = fdAttr
    ELSE IF a.idle # limit THEN ArmTimer(s, limit - a.idle) /\ fdAttr' = fdAttr
    ELSE IF checkBeat /\ a.keep = 0 THEN SendBeat(s, f)
    ELSE GiveUp(s, f)

\* IoTimeout(watcher, bCheckBeat).
IoTimeout(s, checkBeat) ==
    LET f == timer[s].fd
        a == fdAttr[f]
        limit == IF checkBeat /\ a.keep = 0 THEN IoTimeoutT ELSE a.keep
    IN
    IF ~Mine(s) THEN FreeTimer(s) /\ fdAttr' = fdAttr
    ELSE IF a.idle < limit THEN ArmTimer(s, limit - a.idle) /\ fdAttr' = fdAttr
    ELSE IF checkBeat /\ a.keep = 0 THEN SendBeat(s, f)
    ELSE GiveUp(s, f)

\* The timer is due (IoTimeoutCallback).
Expire(s) ==
    /\ timer[s].state = "armed"
    /\ timer[s].left = 0
    /\ IoTimeout(s, TRUE)
    /\ UNCHANGED <<nextSeq, mute>>

\* StepIoTimeout::Callback: the beat is answered.  Reading the answer made
\* the connection active.
Answer(s) ==
    /\ timer[s].state = "step"
    /\ Mine(s)
    /\ fdAttr[timer[s].fd].ready
    /\ s \notin mute
    /\ fdAttr' = [fdAttr EXCEPT ![timer[s].fd].idle = 0]
    /\ ArmTimer(s, IoTimeoutT)
    /\ UNCHANGED <<nextSeq, mute>>

\* StepIoTimeout::Timeout, by StepTimeout.
BeatTimeout(s) ==
    /\ timer[s].state = "step"
    /\ timer[s].left = 0
    /\ IoTimeout(s, FALSE)
    /\ UNCHANGED <<nextSeq, mute>>

Due(s) == timer[s].state \in {"armed", "step"} /\ timer[s].left = 0

Older(a) == [a EXCEPT !.idle = IF a.seq = 0 \/ @ = MaxIdle THEN @ ELSE @ + 1]

Tick ==
    /\ \A s \in Seqs : ~Due(s)
    /\ timer' = [s \in Seqs |-> [timer[s] EXCEPT !.left = IF @ = 0 THEN 0 ELSE @ - 1]]
    /\ fdAttr' = [f \in Fd |-> Older(fdAttr[f])]
    /\ UNCHANGED <<nextSeq, mute>>

Next ==
    \/ \E f \in Fd, http \in BOOLEAN : Accept(f, http)
    \/ \E f \in Fd : ConnectWorker(f)
    \/ \E f \in Fd, k \in Keep : ConnectHttp(f, k)
    \/ \E f \in Fd, done \in BOOLEAN : AddInnerFd(f, done)
    \/ \E f \in Fd : Traffic(f)
    \/ \E f \in Fd, k \in Keep, header \in BOOLEAN : HttpMessage(f, k, header)
    \/ \E f \in Fd : Close(f)
    \/ \E f \in Fd : GoMute(f)
    \/ \E s \in Seqs : Expire(s)
    \/ \E s \in Seqs : Answer(s)
    \/ \E s \in Seqs : BeatTimeout(s)
    \/ Tick

Spec == Init /\ [][Next]_vars

\* Time passes and the event loop runs the timers that are due.
Fairness ==
    /\ WF_vars(Tick)
    /\ \A s \in Seqs : WF_vars(Expire(s)) /\ WF_vars(BeatTimeout(s))

FairSpec == Spec /\ Fairness
-----------------------------------------------------------------------------
(* Properties.                                                             *)

\* Every variable has its type.
TypeOK ==
    /\ fdAttr \in [Fd -> Attr]
    /\ timer \in [Seqs -> Timer(Fd)]
    /\ nextSeq \in 0 .. MaxSeq
    /\ mute \subseteq Seqs

\* Somebody will look at the connection of sequence s again.
Live(s) == timer[s].state \in {"armed", "step"}

ClosedRightly ==
    \A f \in Fd : Open(f) /\ fdAttr'[f].seq # fdAttr[f].seq =>
        LET a == fdAttr[f] IN
        \/ Close(f)
        \/ timer[a.seq].state = "step" /\ Due(a.seq)
        \/ a.keep > 0 /\ a.idle >= a.keep
        \/ a.keep = 0 /\ a.ready /\ ~a.http /\ a.idle >= IoTimeoutT /\ Due(a.seq)

\* A connection is closed by its own timer only: after a beat that was not
\* answered in time, or when dKeepAlive is over since it was last active; a
\* timer that outlived its connection never closes the one which has its
\* descriptor now (the comment at OssWorker.cpp:827).
ClosesOnlyItsOwn == [][ClosedRightly]_vars

\* A connection somebody looks after is not idle for longer than the idle
\* timeout; a beat that waits for the handshake adds its own timeout.  An HTTP
\* connection is not idle for longer than the longest of its dKeepAlives
\* either: a message without a header lowers dKeepAlive, not the timer.
IdleBound ==
    \A f \in Fd : Open(f) /\ Live(fdAttr[f].seq) =>
        \E n \in IF fdAttr[f].http THEN Keep \cup {IoTimeoutT} ELSE {IoTimeoutT} :
            fdAttr[f].idle <= n + (IF fdAttr[f].ready THEN 0 ELSE StepT)

ForgottenRightly ==
    \A f \in Fd :
        LET a == fdAttr[f] IN
        Open(f) /\ Live(a.seq) /\ fdAttr'[f].seq = a.seq /\ ~Live(a.seq)' =>
            a.inner \/ (a.http /\ a.keep = 0 /\ a.idle >= IoTimeoutT)

\* An open connection loses its timer for good in two cases only: it is an
\* inner one, or an HTTP one without dKeepAlive that was silent until its beat.
OnlyTheseAreForgotten == [][ForgottenRightly]_vars

\* The timer of a connection that is closed is freed, however it is held.
OrphansFreed ==
    \A s \in Seqs : Live(s) /\ ~Mine(s) ~> timer[s].state = "freed"

\* A half-open connection is noticed: when its other host is gone and nothing
\* is sent to it, it is closed, unless it is one of those nobody looks after.
MuteIsClosed ==
    \A f \in Fd, s \in Seqs :
        /\ fdAttr[f].seq = s /\ s \in mute
        /\ Live(s)
        ~> \/ fdAttr[f].seq # s
           \/ fdAttr[f].inner
           \/ fdAttr[f].http /\ fdAttr[f].keep = 0
=============================================================================
