---------------------------- MODULE MessageStream ----------------------------
(***************************************************************************)
(* The bytes of one direction of a TCP connection: from SendTo of a worker,*)
(* through pWaitForSendBuff, pSendBuff, the write event and the kernel, to *)
(* pRecvBuff and the decoding loop of the process that reads them          *)
(* (OssWorker.cpp, OssManager.cpp, ProtoCodec.cpp, CBuffer).               *)
(*                                                                         *)
(* send() takes what fits into the kernel's buffers; the rest stays in     *)
(* pSendBuff and only the write event of libev brings it out.  Bytes have  *)
(* no borders: one read may end anywhere in a message or hold several.     *)
(*                                                                         *)
(* A message is a head and Body[m] units behind it; a unit <<m, i>> is the *)
(* head for i = 0.  The two requests of the handshake are one message,     *)
(* Hello; WorkerLink has its protocol.                                     *)
(***************************************************************************)
EXTENDS Integers, Sequences, Selection

CONSTANTS
    Message,    \* what is given to SendTo, each once
    Hello,      \* the handshake of the end that connected
    Body,       \* units of the body of each message, 0 for a heart beat
    Room,       \* units the kernel holds between the two processes
    Receiver    \* who decodes: "worker" or "manager"

ASSUME HelloAssumption == Hello \notin Message
ASSUME BodyAssumption == Body \in [Message \cup {Hello} -> Nat]
\* The first request fits into the buffers of a new socket.
ASSUME RoomAssumption == Room \in Nat /\ Room > Body[Hello]
ASSUME ReceiverAssumption == Receiver \in {"worker", "manager"}

VARIABLES
    stage,      \* of the sending end: its ucConnectStatus, in four steps
    sent,       \* the messages given to SendTo
    waitBuff,   \* pWaitForSendBuff of the sending end
    sendBuff,   \* pSendBuff of the sending end
    watched,    \* EV_WRITE is set in the watcher of the sending end
    sendOpen,   \* the sending end is in m_mapFdAttr
    wire,       \* in the kernels
    recvOpen,   \* the receiving end is in m_mapFdAttr
    recvBuff,   \* pRecvBuff of the receiving end
    ahead,      \* how far m_read_idx of it is beyond m_write_idx
    body,       \* size of oInMsgBody in its decoding loop
    disposed    \* what Dispose has been given, in order

sendVars == <<stage, sent, waitBuff, sendBuff, watched, sendOpen>>
recvVars == <<recvOpen, recvBuff, ahead, body, disposed>>
vars == <<stage, sent, waitBuff, sendBuff, watched, sendOpen, wire,
          recvOpen, recvBuff, ahead, body, disposed>>

AnyMessage == Message \cup {Hello}
Unit == {u \in AnyMessage \X Nat : u[2] <= Body[u[1]]}
Units(m) == [i \in 1 .. Body[m] + 1 |-> <<m, i - 1>>]

\* "none" until AutoSend; an accepted connection is ready at once (255).
Stage == {"none", "connecting", "greeting", "ready"}

Init ==
    /\ stage \in {"none", "ready"}
    /\ sent = {}
    /\ waitBuff = <<>>
    /\ sendBuff = <<>>
    /\ watched = FALSE
    /\ sendOpen = TRUE
    /\ wire = <<>>
    /\ recvOpen = TRUE
    /\ recvBuff = <<>>
    /\ ahead = 0
    /\ body = 0
    /\ disposed = <<>>

-----------------------------------------------------------------------------
(* Writing.                                                                *)

Least(a, b) == IF a < b THEN a ELSE b
Drop(s, n) == SubSeq(s, n + 1, Len(s))

\* Error: the socket is given everything, whatever it has room for.
AllFits(buf) == Len(buf)

\* What send() takes of buf.
Fits(buf) == Least(Len(buf), Room - Len(wire))

\* WriteFD(buf) succeeds; what a closed peer is sent is lost.
WriteFD(buf) ==
    /\ sendBuff' = IF recvOpen THEN Drop(buf, Fits(buf)) ELSE <<>>
    /\ wire' = IF recvOpen THEN wire \o SubSeq(buf, 1, Fits(buf)) ELSE wire

\* Error: the write event stays when everything has been written.
KeepIoWriteEvent(rest) == watched \/ rest # <<>>

\* AddIoWriteEvent when something is left, or the socket was full (EAGAIN);
\* RemoveIoWriteEvent otherwise.
IoWriteEvent(rest) == rest # <<>>

DestroySender ==
    /\ sendOpen' = FALSE
    /\ waitBuff' = <<>>
    /\ sendBuff' = <<>>
    /\ watched' = FALSE

\* Write buf and set the event, or fail on a connection the peer has closed.
Flush(buf, wait) ==
    \/ /\ WriteFD(buf)
       /\ watched' = IoWriteEvent(sendBuff')
       /\ waitBuff' = wait
       /\ sendOpen' = sendOpen
    \/ /\ ~recvOpen
       /\ DestroySender
       /\ UNCHANGED wire

\* SendTo(identify, m) opens the connection: m waits, the write event will
\* tell that connect() is done.
AutoSend(m) ==
    /\ sendOpen
    /\ stage = "none"
    /\ m \notin sent
    /\ stage' = "connecting"
    /\ sent' = sent \cup {m}
    /\ waitBuff' = Units(m)
    /\ watched' = TRUE
    /\ UNCHANGED <<sendBuff, sendOpen, wire, recvVars>>

\* Error: once the handshake has begun messages are written at once.
SendToEarly(m) ==
    /\ sendOpen
    /\ stage \in {"connecting", "greeting", "ready"}
    /\ m \notin sent
    /\ sent' = sent \cup {m}
    /\ IF stage = "connecting"
       THEN /\ waitBuff' = waitBuff \o Units(m)
            /\ UNCHANGED <<sendBuff, watched, sendOpen, wire>>
       ELSE Flush(sendBuff \o Units(m), waitBuff)
    /\ UNCHANGED <<stage, recvVars>>

\* SendTo(shell, m).
SendTo(m) ==
    /\ sendOpen
    /\ stage \in {"connecting", "greeting", "ready"}
    /\ m \notin sent
    /\ sent' = sent \cup {m}
    /\ IF stage = "ready"
       THEN Flush(sendBuff \o Units(m), waitBuff)
       ELSE /\ waitBuff' = waitBuff \o Units(m)
            /\ UNCHANGED <<sendBuff, watched, sendOpen, wire>>
    /\ UNCHANGED <<stage, recvVars>>

\* The answer RecvDataAndDispose itself writes (oOutMsgHead, of a request
\* without a handler): the write event is left as it is, an error is logged.
Reply(m) ==
    /\ sendOpen
    /\ stage = "ready"
    /\ m \notin sent
    /\ sent' = sent \cup {m}
    /\ WriteFD(sendBuff \o Units(m))
    /\ UNCHANGED <<stage, waitBuff, watched, sendOpen, recvVars>>

\* IoWrite with an empty pSendBuff: the first one after connect() starts the
\* handshake, and removes the event after it.
FirstIoWrite ==
    /\ sendOpen
    /\ stage = "connecting"
    /\ watched
    /\ stage' = "greeting"
    /\ watched' = FALSE
    /\ wire' = IF recvOpen THEN Units(Hello) ELSE wire
    /\ UNCHANGED <<sent, waitBuff, sendBuff, sendOpen, recvVars>>

\* IoWrite: the socket has room.
IoWrite ==
    /\ sendOpen
    /\ watched
    /\ sendBuff # <<>>
    /\ Len(wire) < Room
    /\ Flush(sendBuff, waitBuff)
    /\ UNCHANGED <<stage, sent, recvVars>>

\* Error: only what is in pSendBuff is written.
ReadyKeepsWait ==
    /\ sendOpen
    /\ stage = "greeting"
    /\ disposed # <<>>
    /\ stage' = "ready"
    /\ Flush(sendBuff, waitBuff)
    /\ UNCHANGED <<sent, recvVars>>

\* StepTellWorker::Callback: the handshake is answered, SendTo(shell) moves
\* pWaitForSendBuff behind pSendBuff and writes.
Ready ==
    /\ sendOpen
    /\ stage = "greeting"
    /\ disposed # <<>>
    /\ stage' = "ready"
    /\ Flush(sendBuff \o waitBuff, <<>>)
    /\ UNCHANGED <<sent, recvVars>>

-----------------------------------------------------------------------------
(* Reading.                                                                *)

\* A whole message is in front of pRecvBuff.
HasMessage ==
    /\ ahead = 0
    /\ recvBuff # <<>>
    /\ recvBuff[1][2] = 0
    /\ Body[recvBuff[1][1]] < Len(recvBuff)

\* ReadFD takes what has arrived; a new oInMsgBody is made for its loop.
ReadFD ==
    /\ recvOpen
    /\ wire # <<>>
    /\ ~HasMessage
    /\ \E n \in 1 .. Len(wire) :
        /\ recvBuff' = recvBuff \o SubSeq(wire, 1, n)
        /\ wire' = Drop(wire, n)
    /\ body' = 0
    /\ UNCHANGED <<sendVars, recvOpen, ahead, disposed>>

\* Error: the worker's loop does not clear oInMsgBody.
ParsedStale(m) == IF Body[m] = 0 THEN body ELSE Body[m]

\* The size of oInMsgBody once m has been parsed: a worker clears it for
\* every message, a Manager parses nothing into it when m has no body.
Parsed(m) == IF Receiver = "manager" /\ Body[m] = 0 THEN body ELSE Body[m]

\* One round of the loop: Dispose, and SkipBytes past head and oInMsgBody.
\* A byte that is no head where a head is expected ends the model.
Decode ==
    /\ recvOpen
    /\ HasMessage
    /\ LET m == recvBuff[1][1]  n == Parsed(m) + 1 IN
       /\ disposed' = Append(disposed, m)
       /\ body' = Parsed(m)
       /\ recvBuff' = Drop(recvBuff, Least(n, Len(recvBuff)))
       /\ ahead' = n - Least(n, Len(recvBuff))
    /\ UNCHANGED <<sendVars, wire, recvOpen>>

-----------------------------------------------------------------------------
(* The ends of the connection.                                             *)

\* DestroyConnect at the sending end: idle, replaced, or told to.
CloseSender ==
    /\ sendOpen
    /\ DestroySender
    /\ UNCHANGED <<stage, sent, wire, recvVars>>

\* DestroyConnect at the receiving end; what it has not read is lost.
CloseReceiver ==
    /\ recvOpen
    /\ recvOpen' = FALSE
    /\ recvBuff' = <<>>
    /\ wire' = <<>>
    /\ UNCHANGED <<sendVars, ahead, body, disposed>>

\* End of file, when all that arrived has been read and decoded.
ReadEof ==
    /\ ~sendOpen
    /\ wire = <<>>
    /\ ~HasMessage
    /\ CloseReceiver

SeeReset ==
    /\ ~recvOpen
    /\ CloseSender

Write == FirstIoWrite \/ IoWrite \/ Ready

Next ==
    \/ \E m \in Message : AutoSend(m) \/ SendTo(m) \/ Reply(m)
    \/ Write
    \/ ReadFD
    \/ Decode
    \/ CloseSender
    \/ CloseReceiver

Spec == Init /\ [][Next]_vars

\* The event loops serve their ready sockets.  Sending and closing are not
\* fair, noticing that the peer has closed is.
Fairness ==
    /\ WF_vars(Write)
    /\ WF_vars(ReadFD)
    /\ WF_vars(Decode)
    /\ WF_vars(ReadEof)
    /\ WF_vars(SeeReset)

FairSpec == Spec /\ Fairness

-----------------------------------------------------------------------------
(* Properties.                                                             *)

\* Every variable has its type, and the kernel holds what it has room for.
TypeOK ==
    /\ stage \in Stage
    /\ sent \subseteq Message
    /\ waitBuff \in Seq(Unit)
    /\ sendBuff \in Seq(Unit)
    /\ watched \in BOOLEAN
    /\ sendOpen \in BOOLEAN
    /\ wire \in Seq(Unit)
    /\ Len(wire) <= Room
    /\ recvOpen \in BOOLEAN
    /\ recvBuff \in Seq(Unit)
    /\ ahead \in Nat
    /\ body \in Nat
    /\ disposed \in Seq(AnyMessage)

\* pSendBuff holds bytes nobody will write, or the write event wakes the
\* worker for ever with nothing to write.
Unserved ==
    /\ stage # "connecting"
    /\ watched # (sendBuff # <<>>)

\* However writes were cut short, the write event is set exactly while
\* pSendBuff holds something (the comments at OssWorker.cpp:2301-2307); the
\* one step that ends this is the direct answer of the reading loop.
ServedByEvents == [][Unserved' => Unserved \/ \E m \in Message : Reply(m)]_vars

\* Head and body of every message are taken from the stream exactly: the
\* loop never looks for a head inside a message or behind what has arrived.
Framed ==
    /\ ahead = 0
    /\ recvBuff # <<>> => recvBuff[1][2] = 0

\* The messages whose last unit is in s, in order.
EndUnits == {<<m, Body[m]>> : m \in Message}
Ids(s) == [i \in 1 .. Len(s) |-> s[i][1]]
Ends(s) == Ids(Chosen(s, EndUnits))
Pending == Ends(((recvBuff \o wire) \o sendBuff) \o waitBuff)

Link == INSTANCE OrderedLink WITH
    Worker <- {Receiver},
    Conn <- {Hello},
    pending <- [w \in {Receiver} |-> [c \in {Hello} |-> Pending]],
    got <- [w \in {Receiver} |-> [c \in {Hello} |-> Chosen(disposed, Message)]],
    cut <- [w \in {Receiver} |-> [c \in {Hello} |-> ~recvOpen]],
    shut <- [w \in {Receiver} |-> [c \in {Hello} |-> ~sendOpen]]

\* Buffers, write events and partial reads together are the queue that
\* WorkerLink takes a connection for.
Ordered == Link!Spec

\* What SendTo accepted is disposed of, or an end of the connection closes,
\* or a direct answer has left bytes that no write event serves.
EventuallyDisposed ==
    Pending # <<>> ~> (Pending = <<>> \/ Unserved)
=============================================================================
