----------------------------- MODULE WorkerLink -----------------------------
(***************************************************************************)
(* The connection one OssWorker opens to another one, possibly of another  *)
(* node, and what travels on it (OssWorker.cpp, OssManager.cpp,            *)
(* StepConnectWorker, StepTellWorker, CmdConnectWorker, CmdToldWorker).    *)
(*                                                                         *)
(* SendTo(identify) uses the connection mapped to the identity or makes    *)
(* AutoSend open one.  The peer's listening socket belongs to its Manager: *)
(* the initiator asks the Manager for a worker index (REQ_CONNECT), the    *)
(* Manager answers and passes the descriptor to that worker, the initiator *)
(* tells the worker who it is (REQ_TELL), the worker answers with its own  *)
(* identity (RSP_TELL).  What is sent before that waits in                 *)
(* pWaitForSendBuff and is flushed when the answer arrives.                *)
(*                                                                         *)
(* A connection c is an (fd, ulSeq) pair and is used once.  The kernel     *)
(* takes every byte of a write: partial writes, the heart beats of an idle *)
(* connection and connections of a worker to itself are not modelled here. *)
(***************************************************************************)
EXTENDS Naturals, Sequences, FiniteSets, Selection

CONSTANTS
    Worker,     \* the worker processes, each named by its identify
    Conn,       \* the connections that may be opened (a bound)
    None,       \* no worker, no connection
    Route,      \* the pairs <<w, p>> such that w has messages for p
    MaxMsg,     \* messages a worker sends (a bound)
    MaxResend,  \* resends of a handshake step after a timeout, 3 in the code
    DataCmd,    \* the cmd of an application message
    Faults      \* what the environment does: subset of FaultKinds

FaultKinds == {"refuse", "close", "reset", "restart", "timeout"}

ASSUME WorkerAssumption == None \notin Worker /\ None \notin Conn
ASSUME RouteAssumption ==
    /\ Route \subseteq Worker \X Worker
    /\ \A r \in Route : r[1] # r[2]
ASSUME BoundAssumption == MaxMsg \in Nat /\ MaxResend \in Nat
ASSUME CmdAssumption == DataCmd \in Nat /\ DataCmd > 10
ASSUME FaultAssumption == Faults \subseteq FaultKinds

REQ_CONNECT == 7        \* CMD_REQ_CONNECT_TO_WORKER
RSP_CONNECT == 8        \* CMD_RSP_CONNECT_TO_WORKER
REQ_TELL    == 9        \* CMD_REQ_TELL_WORKER
RSP_TELL    == 10       \* CMD_RSP_TELL_WORKER
SYS_ERROR   == 1000     \* CMD_RSP_SYS_ERROR

Msg == [cmd : Nat, id : Nat]
Control(cmd) == [cmd |-> cmd, id |-> 0]
IsData(m) == m.cmd = DataCmd
DataMsg == {m \in Msg : IsData(m)}

VARIABLES
    opener,     \* opener[c]: the worker that opened c
    target,     \* target[c]: the worker c was opened to
    carrier,    \* carrier[c]: who holds the accepted end of c
    fdAttr,     \* m_mapFdAttr of each worker: the attributes of its ends
    msgShell,   \* m_mapMsgShell of each worker: identity to connection
    step,       \* the handshake step of c registered at its opener
    tries,      \* m_iTimeoutNum of that step
    wire,       \* wire[w][c]: bytes on their way to worker w's end of c
    nextId,     \* nextId[w]: messages w has given to SendTo
    got         \* got[w][c]: application messages dispatched at w, in order

connVars == <<opener, target, carrier>>
stepVars == <<step, tries>>
vars == <<opener, target, carrier, fdAttr, msgShell, step, tries, wire, nextId, got>>

Carrier == {"unused", "connecting", "manager", "passed", "worker", "dead"}
StepKind == {"none", "connect", "tell"}
Attr == [open : BOOLEAN, status : 0 .. 255, identify : Worker \cup {None}, wait : Seq(Msg)]

\* No entry in m_mapFdAttr, and the entries of an accepted and of an opened fd.
Closed == [open |-> FALSE, status |-> 255, identify |-> None, wait |-> <<>>]
Accepted == [Closed EXCEPT !.open = TRUE]
\* Error: AutoSend forgets to leave the status of the constructor.
OpenedReady(p, m) == [open |-> TRUE, status |-> 255, identify |-> p, wait |-> <<m>>]

Opened(p, m) == [open |-> TRUE, status |-> 0, identify |-> p, wait |-> <<m>>]

Init ==
    /\ opener = [c \in Conn |-> None]
    /\ target = [c \in Conn |-> None]
    /\ carrier = [c \in Conn |-> "unused"]
    /\ fdAttr = [w \in Worker |-> [c \in Conn |-> Closed]]
    /\ msgShell = [w \in Worker |-> [p \in Worker |-> None]]
    /\ step = [c \in Conn |-> "none"]
    /\ tries = [c \in Conn |-> 0]
    /\ wire = [w \in Worker |-> [c \in Conn |-> <<>>]]
    /\ nextId = [w \in Worker |-> 0]
    /\ got = [w \in Worker |-> [c \in Conn |-> <<>>]]

-----------------------------------------------------------------------------
(* The two ends of a connection, and what a worker writes on its end.      *)

Peer(w, c) == IF w = opener[c] THEN target[c] ELSE opener[c]

\* Somebody at w's end of c still reads what arrives there.
Reads(w, c) ==
    /\ carrier[c] # "dead"
    /\ fdAttr[w][c].open \/ (w = target[c] /\ carrier[c] \in {"manager", "passed"})

\* Error: the handshake counts as over once the Manager has answered.
HeldTooBriefly(k, m) == k.status < RSP_CONNECT /\ m.cmd > RSP_TELL

\* SendTo(shell, msg): before the handshake is over a handshake message is
\* written and becomes the status, anything else waits.
Held(k, m) == k.status < RSP_TELL /\ m.cmd > RSP_TELL

AfterSend(k, m) ==
    IF Held(k, m) THEN [k EXCEPT !.wait = Append(@, m)]
    ELSE IF k.status < RSP_TELL THEN [k EXCEPT !.status = m.cmd % 256]
    ELSE k

\* Error: a message that waits is written as well.
WrittenAnyway(k, m) == <<m>>

Written(k, m) == IF Held(k, m) THEN <<>> ELSE <<m>>

\* Error: the status is not cut to a byte.
AfterRecvWide(k, m) == IF k.status = RSP_TELL THEN k ELSE [k EXCEPT !.status = m.cmd]

\* A message received before RSP_TELL leaves its cmd, cut to a byte, as the status.
AfterRecv(k, m) == IF k.status = RSP_TELL THEN k ELSE [k EXCEPT !.status = m.cmd % 256]

\* The wires once w has taken its first message from c (if took), destroyed
\* its ends of the connections in dropped, and written out on c.
Wires(w, c, took, dropped, out) ==
    [v \in Worker |-> [d \in Conn |->
        IF v = w /\ d \in dropped THEN <<>>
        ELSE IF v = w /\ d = c /\ took THEN Tail(wire[v][d])
        ELSE IF v = Peer(w, c) /\ d = c /\ Reads(v, d) THEN wire[v][d] \o out
        ELSE wire[v][d]]]

-----------------------------------------------------------------------------
(* The identity map.                                                       *)

\* Error: the mapping outlives the connection.
KeepMsgShell(shells, p) == shells

DelMsgShell(shells, p) == [q \in Worker |-> IF q = p THEN None ELSE shells[q]]

\* The connection AddMsgShell(p, c) destroys at w: the one p is mapped to.
Replaced(w, p, c) == {d \in Conn : msgShell[w][p] = d /\ d # c}

\* AddMsgShell(p, c) at w, where c has the attributes k.  Destroying the old
\* connection erases the entry of its identity; when that is the very entry
\* being replaced, the new value is written to an erased map node.
AddMsgShell(w, p, c, k) ==
    /\ fdAttr' = [fdAttr EXCEPT ![w] = [d \in Conn |->
                      IF d = c THEN [k EXCEPT !.identify = p]
                      ELSE IF d \in Replaced(w, p, c) THEN Closed
                      ELSE fdAttr[w][d]]]
    /\ msgShell' = [msgShell EXCEPT ![w] =
                      IF Replaced(w, p, c) = {} THEN [@ EXCEPT ![p] = c]
                      ELSE IF fdAttr[w][msgShell[w][p]].identify = p THEN DelMsgShell(@, p)
                      ELSE [DelMsgShell(@, fdAttr[w][msgShell[w][p]].identify) EXCEPT ![p] = c]]

\* DestroyConnect: the entry goes, and the mapping of its identity with it,
\* whatever connection that identity is mapped to.
DestroyConnect(w, c) ==
    /\ fdAttr' = [fdAttr EXCEPT ![w][c] = Closed]
    /\ msgShell' = [msgShell EXCEPT ![w] = DelMsgShell(@, fdAttr[w][c].identify)]
    /\ wire' = [wire EXCEPT ![w][c] = <<>>]

-----------------------------------------------------------------------------
(* Sending.                                                                *)

NextMsg(w) == [cmd |-> DataCmd, id |-> nextId[w] + 1]

\* SendTo(shell, msg) on an open connection of w.
SendOn(w, c) ==
    /\ nextId[w] < MaxMsg
    /\ nextId' = [nextId EXCEPT ![w] = @ + 1]
    /\ LET k == fdAttr[w][c]
       IN  /\ fdAttr' = [fdAttr EXCEPT ![w][c] = AfterSend(k, NextMsg(w))]
           /\ wire' = Wires(w, c, FALSE, {}, Written(k, NextMsg(w)))
    /\ UNCHANGED <<connVars, stepVars, msgShell, got>>

\* SendTo(identify, msg), the identity being mapped.
SendMapped(w, p) ==
    /\ <<w, p>> \in Route
    /\ msgShell[w][p] # None
    /\ SendOn(w, msgShell[w][p])

\* SendTo(shell, msg) by a Cmd or a Step that answers on the connection a
\* message came from.
Reply(w, c) ==
    /\ fdAttr[w][c].open
    /\ got[w][c] # <<>>
    /\ SendOn(w, c)

\* SendTo(identify, msg), the identity not being mapped: AutoSend.
AutoSend(w, p, c) ==
    /\ <<w, p>> \in Route
    /\ msgShell[w][p] = None
    /\ carrier[c] = "unused"
    /\ nextId[w] < MaxMsg
    /\ nextId' = [nextId EXCEPT ![w] = @ + 1]
    /\ opener' = [opener EXCEPT ![c] = w]
    /\ target' = [target EXCEPT ![c] = p]
    /\ carrier' = [carrier EXCEPT ![c] = "connecting"]
    /\ AddMsgShell(w, p, c, Opened(p, NextMsg(w)))
    /\ UNCHANGED <<stepVars, wire, got>>

-----------------------------------------------------------------------------
(* The initiator's handshake.                                              *)

\* Error: the first write event sends the request but no step waits for the answer.
IoWriteNoStep(c) ==
    LET w == opener[c]  k == fdAttr[w][c]  m == Control(REQ_CONNECT) IN
    /\ carrier[c] = "connecting"
    /\ k.open
    /\ carrier' = [carrier EXCEPT ![c] = "manager"]
    /\ fdAttr' = [fdAttr EXCEPT ![w][c] = AfterSend(k, m)]
    /\ wire' = [wire EXCEPT ![target[c]][c] = Append(@, m)]
    /\ UNCHANGED <<opener, target, stepVars, msgShell, nextId, got>>

\* The first write event after connect(): CmdConnectWorker::Start.
IoWrite(c) ==
    LET w == opener[c]  k == fdAttr[w][c]  m == Control(REQ_CONNECT) IN
    /\ carrier[c] = "connecting"
    /\ k.open
    /\ carrier' = [carrier EXCEPT ![c] = "manager"]
    /\ step' = [step EXCEPT ![c] = "connect"]
    /\ tries' = [tries EXCEPT ![c] = 0]
    /\ fdAttr' = [fdAttr EXCEPT ![w][c] = AfterSend(k, m)]
    /\ wire' = [wire EXCEPT ![target[c]][c] = Append(@, m)]
    /\ UNCHANGED <<opener, target, msgShell, nextId, got>>

\* connect() fails, or never completes and the idle timer closes the fd.
ConnectFails(c) ==
    /\ "refuse" \in Faults
    /\ carrier[c] = "connecting"
    /\ fdAttr[opener[c]][c].open
    /\ carrier' = [carrier EXCEPT ![c] = "dead"]
    /\ DestroyConnect(opener[c], c)
    /\ UNCHANGED <<opener, target, stepVars, nextId, got>>

\* StepConnectWorker::Timeout and StepTellWorker::Timeout: resend, or give up
\* and leave the connection as it is.
StepTimeout(c) ==
    LET w == opener[c]
        k == fdAttr[w][c]
        m == Control(IF step[c] = "connect" THEN REQ_CONNECT ELSE REQ_TELL)
    IN
    /\ "timeout" \in Faults
    /\ step[c] # "none"
    /\ \/ /\ tries[c] < MaxResend
          /\ tries' = [tries EXCEPT ![c] = @ + 1]
          /\ step' = step
          /\ IF k.open
             THEN /\ fdAttr' = [fdAttr EXCEPT ![w][c] = AfterSend(k, m)]
                  /\ wire' = Wires(w, c, FALSE, {}, Written(k, m))
             ELSE UNCHANGED <<fdAttr, wire>>
       \/ /\ tries[c] = MaxResend
          /\ step' = [step EXCEPT ![c] = "none"]
          /\ tries' = [tries EXCEPT ![c] = 0]
          /\ UNCHANGED <<fdAttr, wire>>
    /\ UNCHANGED <<connVars, msgShell, nextId, got>>

-----------------------------------------------------------------------------
(* The Manager of the target's node.                                       *)

\* RecvDataAndDispose and DisposeDataAndTransferFd: the first message is
\* answered before the descriptor is passed, whether or not passing it works,
\* and what was read behind it goes with the Manager's own entry.
ManagerTransfer(c) ==
    /\ carrier[c] = "manager"
    /\ \E n \in 1 .. Len(wire[target[c]][c]), passed \in BOOLEAN :
        /\ passed \/ "close" \in Faults
        /\ carrier' = [carrier EXCEPT ![c] = IF passed THEN "passed" ELSE "dead"]
        /\ wire' = [w \in Worker |-> [wire[w] EXCEPT ![c] =
                IF w = target[c]
                THEN IF passed THEN SubSeq(@, n + 1, Len(@)) ELSE <<>>
                ELSE IF w = opener[c] /\ fdAttr[w][c].open
                THEN Append(@, Control(RSP_CONNECT))
                ELSE @]]
    /\ UNCHANGED <<opener, target, fdAttr, msgShell, stepVars, nextId, got>>

\* The Manager closes the connection without an answer: no such worker index,
\* end of file, idle timeout.
ManagerClose(c) ==
    /\ carrier[c] = "manager"
    /\ "close" \in Faults \/ ~fdAttr[opener[c]][c].open
    /\ carrier' = [carrier EXCEPT ![c] = "dead"]
    /\ wire' = [wire EXCEPT ![target[c]][c] = <<>>]
    /\ UNCHANGED <<opener, target, fdAttr, msgShell, stepVars, nextId, got>>

-----------------------------------------------------------------------------
(* A worker's read events.                                                 *)

\* The worker receives the descriptor its Manager passed.
FdTransfer(c) ==
    /\ carrier[c] = "passed"
    /\ carrier' = [carrier EXCEPT ![c] = "worker"]
    /\ fdAttr' = [fdAttr EXCEPT ![target[c]][c] = Accepted]
    /\ UNCHANGED <<opener, target, msgShell, stepVars, wire, nextId, got>>

Arrives(w, c, cmd) ==
    /\ fdAttr[w][c].open
    /\ wire[w][c] # <<>>
    /\ Head(wire[w][c]).cmd = cmd

Heard(w, c) == AfterRecv(fdAttr[w][c], Head(wire[w][c]))

\* StepConnectWorker::Callback, or no callback for the sequence any more.
RecvRspConnect(w, c) ==
    LET k == Heard(w, c)  m == Control(REQ_TELL) IN
    /\ Arrives(w, c, RSP_CONNECT)
    /\ IF step[c] = "connect"
       THEN /\ step' = [step EXCEPT ![c] = "tell"]
            /\ tries' = [tries EXCEPT ![c] = 0]
            /\ fdAttr' = [fdAttr EXCEPT ![w][c] = AfterSend(k, m)]
            /\ wire' = Wires(w, c, TRUE, {}, Written(k, m))
       ELSE /\ fdAttr' = [fdAttr EXCEPT ![w][c] = k]
            /\ wire' = Wires(w, c, TRUE, {}, <<>>)
            /\ UNCHANGED stepVars
    /\ UNCHANGED <<connVars, msgShell, nextId, got>>

\* A second REQ_CONNECT, which the Manager did not read, has no handler.
RecvReqConnect(w, c) ==
    /\ Arrives(w, c, REQ_CONNECT)
    /\ fdAttr' = [fdAttr EXCEPT ![w][c] = Heard(w, c)]
    /\ wire' = Wires(w, c, TRUE, {}, <<Control(SYS_ERROR)>>)
    /\ UNCHANGED <<connVars, msgShell, stepVars, nextId, got>>

\* The answer to it belongs to a step that is gone.
RecvSysError(w, c) ==
    /\ Arrives(w, c, SYS_ERROR)
    /\ fdAttr' = [fdAttr EXCEPT ![w][c] = Heard(w, c)]
    /\ wire' = Wires(w, c, TRUE, {}, <<>>)
    /\ UNCHANGED <<connVars, msgShell, stepVars, nextId, got>>

\* Error: the worker answers and does not note who told it.
RecvReqTellForgets(w, c) ==
    LET k == Heard(w, c)  m == Control(RSP_TELL) IN
    /\ Arrives(w, c, REQ_TELL)
    /\ fdAttr' = [fdAttr EXCEPT ![w][c] = AfterSend(k, m)]
    /\ wire' = Wires(w, c, TRUE, {}, Written(k, m))
    /\ UNCHANGED <<connVars, stepVars, msgShell, nextId, got>>

\* CmdToldWorker::AnyMessage.
RecvReqTell(w, c) ==
    LET p == Peer(w, c)  k == Heard(w, c)  m == Control(RSP_TELL) IN
    /\ Arrives(w, c, REQ_TELL)
    /\ AddMsgShell(w, p, c, AfterSend(k, m))
    /\ wire' = Wires(w, c, TRUE, Replaced(w, p, c), Written(k, m))
    /\ UNCHANGED <<connVars, stepVars, nextId, got>>

\* Error: the callback maps the identity and does not flush.
RecvRspTellNoFlush(w, c) ==
    LET p == Peer(w, c)  k == Heard(w, c) IN
    /\ Arrives(w, c, RSP_TELL)
    /\ step' = [step EXCEPT ![c] = "none"]
    /\ tries' = [tries EXCEPT ![c] = 0]
    /\ AddMsgShell(w, p, c, k)
    /\ wire' = Wires(w, c, TRUE, Replaced(w, p, c), <<>>)
    /\ UNCHANGED <<connVars, nextId, got>>

\* StepTellWorker::Callback, which flushes pWaitForSendBuff, or no callback
\* for the sequence any more.
RecvRspTell(w, c) ==
    LET p == Peer(w, c)  k == Heard(w, c) IN
    /\ Arrives(w, c, RSP_TELL)
    /\ IF step[c] = "tell"
       THEN /\ step' = [step EXCEPT ![c] = "none"]
            /\ tries' = [tries EXCEPT ![c] = 0]
            /\ AddMsgShell(w, p, c, [k EXCEPT !.wait = <<>>])
            /\ wire' = Wires(w, c, TRUE, Replaced(w, p, c), k.wait)
       ELSE /\ fdAttr' = [fdAttr EXCEPT ![w][c] = k]
            /\ wire' = Wires(w, c, TRUE, {}, <<>>)
            /\ UNCHANGED <<msgShell, stepVars>>
    /\ UNCHANGED <<connVars, nextId, got>>

\* An application message is dispatched.
RecvData(w, c) ==
    /\ Arrives(w, c, DataCmd)
    /\ fdAttr' = [fdAttr EXCEPT ![w][c] = Heard(w, c)]
    /\ wire' = Wires(w, c, TRUE, {}, <<>>)
    /\ got' = [got EXCEPT ![w][c] = Append(@, Head(wire[w][c]).id)]
    /\ UNCHANGED <<connVars, msgShell, stepVars, nextId>>

\* End of file or a read error, once everything that arrived has been read.
RecvEof(w, c) ==
    /\ fdAttr[w][c].open
    /\ carrier[c] # "connecting"
    /\ wire[w][c] = <<>>
    /\ ~Reads(Peer(w, c), c)
    /\ DestroyConnect(w, c)
    /\ UNCHANGED <<connVars, stepVars, nextId, got>>

-----------------------------------------------------------------------------
(* Failures.                                                               *)

\* The network resets a connection: what is on its way is lost.
Reset(c) ==
    /\ "reset" \in Faults
    /\ carrier[c] \in {"manager", "passed", "worker"}
    /\ carrier' = [carrier EXCEPT ![c] = "dead"]
    /\ wire' = [w \in Worker |-> [wire[w] EXCEPT ![c] = <<>>]]
    /\ UNCHANGED <<opener, target, fdAttr, msgShell, stepVars, nextId, got>>

\* Worker w dies and its Manager forks a new one with the same identity: its
\* descriptors are closed, the ones still on their way to it included.
RestartWorker(w) ==
    /\ "restart" \in Faults
    /\ \E c \in Conn : fdAttr[w][c].open \/ (target[c] = w /\ carrier[c] = "passed")
    /\ fdAttr' = [fdAttr EXCEPT ![w] = [c \in Conn |-> Closed]]
    /\ msgShell' = [msgShell EXCEPT ![w] = [p \in Worker |-> None]]
    /\ carrier' = [c \in Conn |->
            IF target[c] = w /\ carrier[c] = "passed" THEN "dead" ELSE carrier[c]]
    /\ step' = [c \in Conn |-> IF opener[c] = w THEN "none" ELSE step[c]]
    /\ tries' = [c \in Conn |-> IF opener[c] = w THEN 0 ELSE tries[c]]
    /\ wire' = [wire EXCEPT ![w] = [c \in Conn |->
            IF target[c] = w /\ carrier[c] = "manager" THEN @[c] ELSE <<>>]]
    /\ UNCHANGED <<opener, target, nextId, got>>

-----------------------------------------------------------------------------

Read(w, c) ==
    \/ RecvRspConnect(w, c)
    \/ RecvReqConnect(w, c)
    \/ RecvSysError(w, c)
    \/ RecvReqTell(w, c)
    \/ RecvRspTell(w, c)
    \/ RecvData(w, c)
    \/ RecvEof(w, c)

Next ==
    \/ \E w \in Worker, p \in Worker : SendMapped(w, p)
    \/ \E w \in Worker, p \in Worker, c \in Conn : AutoSend(w, p, c)
    \/ \E w \in Worker, c \in Conn : Reply(w, c)
    \/ \E c \in Conn : IoWrite(c)
    \/ \E c \in Conn : ConnectFails(c)
    \/ \E c \in Conn : StepTimeout(c)
    \/ \E c \in Conn : ManagerTransfer(c)
    \/ \E c \in Conn : ManagerClose(c)
    \/ \E c \in Conn : FdTransfer(c)
    \/ \E w \in Worker, c \in Conn : Read(w, c)
    \/ \E c \in Conn : Reset(c)
    \/ \E w \in Worker : RestartWorker(w)

Spec == Init /\ [][Next]_vars

\* The event loops run and the kernel delivers: a write event, a passed
\* descriptor, a readable socket and an expired timer are served at last.
\* Sending, refusals, resets and restarts are not fair.
Fairness ==
    /\ \A c \in Conn :
        /\ WF_vars(IoWrite(c))
        /\ WF_vars(StepTimeout(c))
        /\ WF_vars(ManagerTransfer(c))
        /\ WF_vars(ManagerClose(c))
        /\ WF_vars(FdTransfer(c))
    /\ \A w \in Worker, c \in Conn : WF_vars(Read(w, c))

FairSpec == Spec /\ Fairness

-----------------------------------------------------------------------------
(* Properties.                                                             *)

\* Every variable has its type.
TypeOK ==
    /\ opener \in [Conn -> Worker \cup {None}]
    /\ target \in [Conn -> Worker \cup {None}]
    /\ carrier \in [Conn -> Carrier]
    /\ fdAttr \in [Worker -> [Conn -> Attr]]
    /\ msgShell \in [Worker -> [Worker -> Conn \cup {None}]]
    /\ step \in [Conn -> StepKind]
    /\ tries \in [Conn -> 0 .. MaxResend]
    /\ wire \in [Worker -> [Conn -> Seq(Msg)]]
    /\ nextId \in [Worker -> 0 .. MaxMsg]
    /\ got \in [Worker -> [Conn -> Seq(Nat)]]

\* SendTo(identify) follows m_mapMsgShell without looking at whom it reaches:
\* an identity is mapped only to an open connection of this worker which
\* carries that identity and whose other end is that very worker, however
\* connections replaced each other, failed or were reopened.
ShellLive ==
    \A w \in Worker, p \in Worker :
        msgShell[w][p] # None =>
            LET c == msgShell[w][p] IN
            /\ fdAttr[w][c].open
            /\ fdAttr[w][c].identify = p
            /\ {opener[c], target[c]} = {w, p}

InWire(w, c, id) == Cardinality({i \in 1 .. Len(wire[w][c]) :
                        IsData(wire[w][c][i]) /\ wire[w][c][i].id = id})
InWait(w, c, id) == Cardinality({i \in 1 .. Len(fdAttr[w][c].wait) :
                        fdAttr[w][c].wait[i].id = id})
InGot(w, c, id) == Cardinality({i \in 1 .. Len(got[w][c]) : got[w][c][i] = id})

\* Copies of the message id of w on c: waiting, under way, dispatched.
Copies(w, c, id) ==
    InWait(w, c, id) + InWire(Peer(w, c), c, id) + InGot(Peer(w, c), c, id)

\* A message SendTo accepted exists once: the flush, the resends of the
\* handshake and the replacement of a connection never copy it, neither on
\* its connection nor onto another one.
AtMostOnce ==
    \A w \in Worker, id \in 1 .. MaxMsg :
        LET on == {c \in Conn : w \in {opener[c], target[c]}} IN
        /\ \A c \in on : Copies(w, c, id) <= 1
        /\ \A c, d \in on : c # d => Copies(w, c, id) = 0 \/ Copies(w, d, id) = 0

\* ucConnectStatus = CMD_RSP_TELL_WORKER means "the peer answered, the
\* connection is ready" (Attribution.hpp:90-100): an initiator in that status has a
\* peer that knows it, unless that peer's end is gone.
ReadyMeansTold ==
    \A c \in Conn :
        /\ carrier[c] # "unused"
        /\ fdAttr[opener[c]][c].open
        /\ fdAttr[opener[c]][c].status = RSP_TELL
        /\ Reads(target[c], c)
        => fdAttr[target[c]][c].identify = opener[c]

\* What waits for the handshake is sent as soon as the connection is ready
\* (Attribution.hpp:103 on pWaitForSendBuff): nothing waits on a connection
\* in status CMD_RSP_TELL_WORKER.
WaitFlushed ==
    \A w \in Worker, c \in Conn :
        fdAttr[w][c].status = RSP_TELL => fdAttr[w][c].wait = <<>>

\* A worker dispatches messages of a peer only on a connection on which that
\* peer told it who it is, so a Cmd can always address the sender.
ToldBeforeData ==
    \A c \in Conn :
        /\ carrier[c] = "worker"
        /\ fdAttr[target[c]][c].open
        /\ got[target[c]][c] # <<>>
        => fdAttr[target[c]][c].identify = opener[c]

-----------------------------------------------------------------------------
(* The queue each direction of a connection is, and its refinement.        *)

IsEnd(w, c) == carrier[c] # "unused" /\ w \in {opener[c], target[c]}

\* w's end of c is closed and will not be opened.
Ended(w, c) ==
    /\ ~fdAttr[w][c].open
    /\ w = opener[c] \/ carrier[c] \in {"worker", "dead"}

Ids(s) == [i \in 1 .. Len(s) |-> s[i].id]

Pending(w, c) ==
    IF IsEnd(w, c)
    THEN Ids(Chosen(wire[w][c], DataMsg)) \o Ids(fdAttr[Peer(w, c)][c].wait)
    ELSE <<>>

Link == INSTANCE OrderedLink WITH
    Message <- 1 .. MaxMsg,
    pending <- [w \in Worker |-> [c \in Conn |-> Pending(w, c)]],
    cut <- [w \in Worker |-> [c \in Conn |->
                IsEnd(w, c) /\ (Ended(w, c) \/ carrier[c] = "dead")]],
    shut <- [w \in Worker |-> [c \in Conn |-> IsEnd(w, c) /\ Ended(Peer(w, c), c)]]

\* Each direction of a connection is a queue that loses nothing in its middle.
Ordered == Link!Spec

\* What SendTo accepted does not stay behind for ever: it is dispatched, or
\* an end of its connection stops.
EventuallyServed ==
    \A w \in Worker, c \in Conn : Pending(w, c) # <<>> ~> Pending(w, c) = <<>>
=============================================================================
