-------------------------- MODULE WorkerLink_proofs --------------------------
(***************************************************************************)
(* Proofs about WorkerLink: its types; that SendTo(identify) never follows *)
(* m_mapMsgShell to a closed or a foreign connection; that a connection    *)
(* that is ready has a peer that was told (ReadyMeansTold) when no command *)
(* is taken for the answer; and, when no step times out, that what waits   *)
(* leaves with the answer (WaitFlushed) and data is dispatched behind it   *)
(* (ToldBeforeData).                                                       *)
(*                                                                         *)
(* Every action works on one connection and does no more to another than   *)
(* close its ends (Kept).  The second half of the module argues about what *)
(* is known of one connection, its view: a step of the system is a change  *)
(* of every view (StepEvolves), and each kind of change keeps what is      *)
(* claimed of a view.                                                      *)
(***************************************************************************)
EXTENDS WorkerLink, SequenceTheorems, TLAPS

-----------------------------------------------------------------------------
(* What the operators on the attributes of a connection return.            *)

LEMMA ControlType ==
    \A cmd \in Nat : Control(cmd) \in Msg
BY DEF Control, Msg

LEMMA CmdsAreNat ==
    /\ REQ_CONNECT \in Nat /\ RSP_CONNECT \in Nat /\ REQ_TELL \in Nat
    /\ RSP_TELL \in Nat /\ SYS_ERROR \in Nat
BY DEF REQ_CONNECT, RSP_CONNECT, REQ_TELL, RSP_TELL, SYS_ERROR

LEMMA ControlMsgs ==
    /\ Control(REQ_CONNECT) \in Msg /\ Control(RSP_CONNECT) \in Msg
    /\ Control(REQ_TELL) \in Msg /\ Control(RSP_TELL) \in Msg
    /\ Control(SYS_ERROR) \in Msg
BY ControlType, CmdsAreNat

LEMMA NoMsgs == <<>> \in Seq(Msg)
OBVIOUS

LEMMA ByteType == \A n \in Nat : n % 256 \in 0 .. 255
OBVIOUS

\* SendTo keeps the connection open and its identity.
LEMMA AfterSendType ==
    ASSUME NEW k \in Attr, NEW m \in Msg
    PROVE  /\ AfterSend(k, m) \in Attr
           /\ AfterSend(k, m).open = k.open
           /\ AfterSend(k, m).identify = k.identify
<1>1. m.cmd % 256 \in 0 .. 255
  BY ByteType DEF Msg
<1>2. Append(k.wait, m) \in Seq(Msg)
  BY DEF Attr
<1>3. CASE Held(k, m)
  BY <1>2, <1>3 DEF AfterSend, Attr
<1>4. CASE ~Held(k, m) /\ k.status < RSP_TELL
  BY <1>1, <1>4 DEF AfterSend, Attr
<1>5. CASE ~Held(k, m) /\ ~(k.status < RSP_TELL)
  BY <1>5 DEF AfterSend, Attr
<1>6. QED
  BY <1>3, <1>4, <1>5

LEMMA WrittenType ==
    ASSUME NEW k \in Attr, NEW m \in Msg
    PROVE  Written(k, m) \in Seq(Msg)
BY DEF Written

\* Receiving keeps the connection open, its identity and what waits on it.
LEMMA AfterRecvType ==
    ASSUME NEW k \in Attr, NEW m \in Msg
    PROVE  /\ AfterRecv(k, m) \in Attr
           /\ AfterRecv(k, m).open = k.open
           /\ AfterRecv(k, m).identify = k.identify
<1>1. m.cmd % 256 \in 0 .. 255
  BY ByteType DEF Msg
<1>2. QED
  BY <1>1 DEF AfterRecv, Attr

LEMMA ConstAttrs ==
    /\ Closed \in Attr
    /\ Accepted \in Attr
    /\ ~Closed.open /\ Accepted.open
    /\ Closed.identify = None /\ Accepted.identify = None
<1>1. <<>> \in Seq(Msg)
  OBVIOUS
<1>2. Closed \in Attr /\ ~Closed.open /\ Closed.identify = None
  BY <1>1 DEF Closed, Attr
<1>3. Accepted \in Attr /\ Accepted.open /\ Accepted.identify = Closed.identify
  BY <1>2 DEF Accepted, Attr
<1>4. QED
  BY <1>2, <1>3

LEMMA OpenedType ==
    ASSUME NEW p \in Worker, NEW m \in Msg
    PROVE  Opened(p, m) \in Attr /\ Opened(p, m).open /\ Opened(p, m).identify = p
BY DEF Opened, Attr

-----------------------------------------------------------------------------
(* Types of the updates the actions share.                                 *)

LEMMA HeadType ==
    ASSUME TypeOK, NEW w \in Worker, NEW c \in Conn, wire[w][c] # <<>>
    PROVE  Head(wire[w][c]) \in Msg /\ Tail(wire[w][c]) \in Seq(Msg)
BY DEF TypeOK

LEMMA HeardType ==
    ASSUME TypeOK, NEW w \in Worker, NEW c \in Conn, NEW cmd, Arrives(w, c, cmd)
    PROVE  /\ Heard(w, c) \in Attr
           /\ Heard(w, c).open
           /\ Heard(w, c).identify = fdAttr[w][c].identify
           /\ wire[w][c] # <<>>
<1>1. fdAttr[w][c] \in Attr /\ fdAttr[w][c].open /\ wire[w][c] # <<>>
  BY DEF TypeOK, Arrives
<1>2. Head(wire[w][c]) \in Msg
  BY <1>1, HeadType
<1>3. QED
  BY <1>1, <1>2, AfterRecvType DEF Heard

LEMMA WiresType ==
    ASSUME TypeOK, NEW w \in Worker, NEW c \in Conn, NEW took \in BOOLEAN,
           took => wire[w][c] # <<>>, NEW dropped, NEW out \in Seq(Msg)
    PROVE  Wires(w, c, took, dropped, out) \in [Worker -> [Conn -> Seq(Msg)]]
<1>1. ASSUME NEW v \in Worker, NEW d \in Conn
      PROVE  (IF v = w /\ d \in dropped THEN <<>>
              ELSE IF v = w /\ d = c /\ took THEN Tail(wire[v][d])
              ELSE IF v = Peer(w, c) /\ d = c /\ Reads(v, d) THEN wire[v][d] \o out
              ELSE wire[v][d]) \in Seq(Msg)
  <2>1. wire[v][d] \in Seq(Msg)
    BY DEF TypeOK
  <2>2. wire[v][d] \o out \in Seq(Msg)
    BY <2>1, ConcatProperties
  <2>3. ASSUME v = w, d = c, took PROVE Tail(wire[v][d]) \in Seq(Msg)
    BY <2>3, HeadType
  <2>4. QED
    BY <2>1, <2>2, <2>3
<1>2. QED
  BY <1>1 DEF Wires

LEMMA DestroyType ==
    ASSUME TypeOK, NEW w \in Worker, NEW c \in Conn, DestroyConnect(w, c)
    PROVE  /\ fdAttr' \in [Worker -> [Conn -> Attr]]
           /\ msgShell' \in [Worker -> [Worker -> Conn \cup {None}]]
           /\ wire' \in [Worker -> [Conn -> Seq(Msg)]]
<1>1. fdAttr' \in [Worker -> [Conn -> Attr]]
  BY ConstAttrs DEF DestroyConnect, TypeOK
<1>2. DelMsgShell(msgShell[w], fdAttr[w][c].identify) \in [Worker -> Conn \cup {None}]
  BY DEF DelMsgShell, TypeOK
<1>3. msgShell' \in [Worker -> [Worker -> Conn \cup {None}]]
  BY <1>2 DEF DestroyConnect, TypeOK
<1>4. <<>> \in Seq(Msg)
  OBVIOUS
<1>5. wire' \in [Worker -> [Conn -> Seq(Msg)]]
  BY <1>4 DEF DestroyConnect, TypeOK
<1>6. QED
  BY <1>1, <1>3, <1>5

LEMMA AddMsgShellType ==
    ASSUME TypeOK, NEW w \in Worker, NEW p \in Worker, NEW c \in Conn, NEW k \in Attr,
           AddMsgShell(w, p, c, k)
    PROVE  /\ fdAttr' \in [Worker -> [Conn -> Attr]]
           /\ msgShell' \in [Worker -> [Worker -> Conn \cup {None}]]
<1>1. [k EXCEPT !.identify = p] \in Attr
  BY DEF Attr
<1>2. [d \in Conn |-> IF d = c THEN [k EXCEPT !.identify = p]
                      ELSE IF d \in Replaced(w, p, c) THEN Closed
                      ELSE fdAttr[w][d]] \in [Conn -> Attr]
  BY <1>1, ConstAttrs DEF TypeOK
<1>3. fdAttr' \in [Worker -> [Conn -> Attr]]
  BY <1>2 DEF AddMsgShell, TypeOK
<1>4. \A q : DelMsgShell(msgShell[w], q) \in [Worker -> Conn \cup {None}]
  BY DEF DelMsgShell, TypeOK
<1>5. msgShell' \in [Worker -> [Worker -> Conn \cup {None}]]
  BY <1>4 DEF AddMsgShell, TypeOK
<1>6. QED
  BY <1>3, <1>5

-----------------------------------------------------------------------------
(* Type correctness.                                                       *)

LEMMA NextMsgType ==
    ASSUME TypeOK, NEW w \in Worker
    PROVE  NextMsg(w) \in Msg
BY CmdAssumption, BoundAssumption DEF NextMsg, Msg, TypeOK

LEMMA SendOnType ==
    ASSUME TypeOK, NEW w \in Worker, NEW c \in Conn, SendOn(w, c)
    PROVE  TypeOK'
<1>1. NextMsg(w) \in Msg
  BY NextMsgType
<1>2. fdAttr[w][c] \in Attr
  BY DEF TypeOK
<1>3. AfterSend(fdAttr[w][c], NextMsg(w)) \in Attr
  BY <1>1, <1>2, AfterSendType
<1>4. Written(fdAttr[w][c], NextMsg(w)) \in Seq(Msg)
  BY <1>1, <1>2, WrittenType
<1>5. wire' \in [Worker -> [Conn -> Seq(Msg)]]
  BY <1>4, WiresType DEF SendOn
<1>6. fdAttr' \in [Worker -> [Conn -> Attr]]
  BY <1>3 DEF SendOn, TypeOK
<1>7. nextId' \in [Worker -> 0 .. MaxMsg]
  BY BoundAssumption DEF SendOn, TypeOK
<1>8. QED
  BY <1>5, <1>6, <1>7 DEF SendOn, TypeOK, connVars, stepVars

LEMMA AutoSendType ==
    ASSUME TypeOK, NEW w \in Worker, NEW p \in Worker, NEW c \in Conn, AutoSend(w, p, c)
    PROVE  TypeOK'
<1>1. NextMsg(w) \in Msg
  BY NextMsgType
<1>2. Opened(p, NextMsg(w)) \in Attr
  BY <1>1, OpenedType
<1>3. /\ fdAttr' \in [Worker -> [Conn -> Attr]]
      /\ msgShell' \in [Worker -> [Worker -> Conn \cup {None}]]
  BY <1>2, AddMsgShellType DEF AutoSend
<1>4. nextId' \in [Worker -> 0 .. MaxMsg]
  BY BoundAssumption DEF AutoSend, TypeOK
<1>5. opener' \in [Conn -> Worker \cup {None}] /\ target' \in [Conn -> Worker \cup {None}]
  BY DEF AutoSend, TypeOK
<1>6. carrier' \in [Conn -> Carrier]
  BY DEF AutoSend, TypeOK, Carrier
<1>7. QED
  BY <1>3, <1>4, <1>5, <1>6 DEF AutoSend, TypeOK, stepVars

\* Both ends of a connection in use are workers, and different ones.
EndsOK ==
    \A c \in Conn : carrier[c] # "unused" =>
        opener[c] \in Worker /\ target[c] \in Worker /\ opener[c] # target[c]

LEMMA IoWriteType ==
    ASSUME TypeOK, EndsOK, NEW c \in Conn, IoWrite(c)
    PROVE  TypeOK'
<1> DEFINE w == opener[c]
<1>1. w \in Worker /\ target[c] \in Worker
  BY DEF IoWrite, EndsOK
<1>2. fdAttr[w][c] \in Attr
  BY <1>1 DEF TypeOK
<1>3. AfterSend(fdAttr[w][c], Control(REQ_CONNECT)) \in Attr
  BY <1>2, ControlMsgs, AfterSendType
<1>4. fdAttr' \in [Worker -> [Conn -> Attr]]
  BY <1>1, <1>3 DEF IoWrite, TypeOK
<1>5. wire' \in [Worker -> [Conn -> Seq(Msg)]]
  <2>1. Append(wire[target[c]][c], Control(REQ_CONNECT)) \in Seq(Msg)
    BY <1>1, ControlMsgs DEF TypeOK
  <2>2. QED
    BY <1>1, <2>1 DEF IoWrite, TypeOK
<1>6. carrier' \in [Conn -> Carrier]
  BY DEF IoWrite, TypeOK, Carrier
<1>7. step' \in [Conn -> StepKind] /\ tries' \in [Conn -> 0 .. MaxResend]
  BY BoundAssumption DEF IoWrite, TypeOK, StepKind
<1>8. QED
  BY <1>4, <1>5, <1>6, <1>7 DEF IoWrite, TypeOK

LEMMA ConnectFailsType ==
    ASSUME TypeOK, EndsOK, NEW c \in Conn, ConnectFails(c)
    PROVE  TypeOK'
<1>1. opener[c] \in Worker
  BY DEF ConnectFails, EndsOK
<1>2. /\ fdAttr' \in [Worker -> [Conn -> Attr]]
      /\ msgShell' \in [Worker -> [Worker -> Conn \cup {None}]]
      /\ wire' \in [Worker -> [Conn -> Seq(Msg)]]
  BY <1>1, DestroyType DEF ConnectFails
<1>3. carrier' \in [Conn -> Carrier]
  BY DEF ConnectFails, TypeOK, Carrier
<1>4. QED
  BY <1>2, <1>3 DEF ConnectFails, TypeOK, stepVars

\* A handshake step is registered only at the opener of a used connection.
StepUsed == \A c \in Conn : step[c] # "none" => carrier[c] # "unused"

LEMMA StepTimeoutType ==
    ASSUME TypeOK, EndsOK, StepUsed, NEW c \in Conn, StepTimeout(c)
    PROVE  TypeOK'
<1> DEFINE w == opener[c]
           m == Control(IF step[c] = "connect" THEN REQ_CONNECT ELSE REQ_TELL)
<1>1. w \in Worker /\ m \in Msg
  BY ControlMsgs DEF StepTimeout, EndsOK, StepUsed
<1>2. fdAttr[w][c] \in Attr
  BY <1>1 DEF TypeOK
<1>3. AfterSend(fdAttr[w][c], m) \in Attr /\ Written(fdAttr[w][c], m) \in Seq(Msg)
  BY <1>1, <1>2, AfterSendType, WrittenType
<1>4. fdAttr' \in [Worker -> [Conn -> Attr]]
  <2>1. [fdAttr EXCEPT ![w][c] = AfterSend(fdAttr[w][c], m)] \in [Worker -> [Conn -> Attr]]
    BY <1>1, <1>3 DEF TypeOK
  <2>2. QED
    BY <2>1 DEF StepTimeout, TypeOK
<1>5. wire' \in [Worker -> [Conn -> Seq(Msg)]]
  <2>1. Wires(w, c, FALSE, {}, Written(fdAttr[w][c], m)) \in [Worker -> [Conn -> Seq(Msg)]]
    BY <1>1, <1>3, WiresType
  <2>2. QED
    BY <2>1 DEF StepTimeout, TypeOK
<1>6. step' \in [Conn -> StepKind]
  BY DEF StepTimeout, TypeOK, StepKind
<1>7. tries' \in [Conn -> 0 .. MaxResend]
  <2>1. tries[c] \in 0 .. MaxResend
    BY DEF TypeOK
  <2>2. CASE tries[c] < MaxResend /\ tries' = [tries EXCEPT ![c] = @ + 1]
    <3>1. tries[c] + 1 \in 0 .. MaxResend
      BY <2>1, <2>2, BoundAssumption
    <3>2. QED
      BY <2>2, <3>1 DEF TypeOK
  <2>3. CASE tries' = [tries EXCEPT ![c] = 0]
    BY <2>3, BoundAssumption DEF TypeOK
  <2>4. QED
    BY <2>2, <2>3 DEF StepTimeout
<1>8. QED
  BY <1>4, <1>5, <1>6, <1>7 DEF StepTimeout, TypeOK, connVars

LEMMA ManagerTransferType ==
    ASSUME TypeOK, EndsOK, NEW c \in Conn, ManagerTransfer(c)
    PROVE  TypeOK'
<1>1. opener[c] \in Worker /\ target[c] \in Worker
  BY DEF ManagerTransfer, EndsOK
<1>2. PICK n \in 1 .. Len(wire[target[c]][c]), passed \in BOOLEAN :
        /\ carrier' = [carrier EXCEPT ![c] = IF passed THEN "passed" ELSE "dead"]
        /\ wire' = [w \in Worker |-> [wire[w] EXCEPT ![c] =
                IF w = target[c]
                THEN IF passed THEN SubSeq(@, n + 1, Len(@)) ELSE <<>>
                ELSE IF w = opener[c] /\ fdAttr[w][c].open
                THEN Append(@, Control(RSP_CONNECT))
                ELSE @]]
  BY DEF ManagerTransfer
<1>3. carrier' \in [Conn -> Carrier]
  BY <1>2 DEF TypeOK, Carrier
<1>4. ASSUME NEW w \in Worker
      PROVE  (IF w = target[c]
              THEN IF passed THEN SubSeq(wire[w][c], n + 1, Len(wire[w][c])) ELSE <<>>
              ELSE IF w = opener[c] /\ fdAttr[w][c].open
              THEN Append(wire[w][c], Control(RSP_CONNECT))
              ELSE wire[w][c]) \in Seq(Msg)
  <2>1. wire[w][c] \in Seq(Msg)
    BY DEF TypeOK
  <2>2. ASSUME w = target[c]
        PROVE  SubSeq(wire[w][c], n + 1, Len(wire[w][c])) \in Seq(Msg)
    BY <2>1, <2>2, SubSeqProperties
  <2>3. Append(wire[w][c], Control(RSP_CONNECT)) \in Seq(Msg)
    BY <2>1, ControlMsgs
  <2>4. <<>> \in Seq(Msg)
    OBVIOUS
  <2>5. QED
    BY <2>1, <2>2, <2>3, <2>4
<1>5. wire' \in [Worker -> [Conn -> Seq(Msg)]]
  BY <1>2, <1>4 DEF TypeOK
<1>6. QED
  BY <1>3, <1>5 DEF ManagerTransfer, TypeOK, stepVars

LEMMA ManagerCloseType ==
    ASSUME TypeOK, EndsOK, NEW c \in Conn, ManagerClose(c)
    PROVE  TypeOK'
<1>1. target[c] \in Worker
  BY DEF ManagerClose, EndsOK
<1>2. carrier' \in [Conn -> Carrier]
  BY DEF ManagerClose, TypeOK, Carrier
<1>3. <<>> \in Seq(Msg)
  OBVIOUS
<1>4. wire' \in [Worker -> [Conn -> Seq(Msg)]]
  BY <1>1, <1>3 DEF ManagerClose, TypeOK
<1>5. QED
  BY <1>2, <1>4 DEF ManagerClose, TypeOK, stepVars

LEMMA FdTransferType ==
    ASSUME TypeOK, EndsOK, NEW c \in Conn, FdTransfer(c)
    PROVE  TypeOK'
<1>1. target[c] \in Worker
  BY DEF FdTransfer, EndsOK
<1>2. carrier' \in [Conn -> Carrier]
  BY DEF FdTransfer, TypeOK, Carrier
<1>3. fdAttr' \in [Worker -> [Conn -> Attr]]
  BY <1>1, ConstAttrs DEF FdTransfer, TypeOK
<1>4. QED
  BY <1>2, <1>3 DEF FdTransfer, TypeOK, stepVars

LEMMA RecvRspConnectType ==
    ASSUME TypeOK, NEW w \in Worker, NEW c \in Conn, RecvRspConnect(w, c)
    PROVE  TypeOK'
<1> DEFINE k == Heard(w, c)  m == Control(REQ_TELL)
<1>1. k \in Attr /\ wire[w][c] # <<>> /\ m \in Msg
  BY HeardType, ControlMsgs DEF RecvRspConnect
<1>2. AfterSend(k, m) \in Attr /\ Written(k, m) \in Seq(Msg)
  BY <1>1, AfterSendType, WrittenType
<1>3. fdAttr' \in [Worker -> [Conn -> Attr]]
  <2>1. \A x \in Attr : [fdAttr EXCEPT ![w][c] = x] \in [Worker -> [Conn -> Attr]]
    BY DEF TypeOK
  <2>2. QED
    BY <1>1, <1>2, <2>1 DEF RecvRspConnect
<1>4. wire' \in [Worker -> [Conn -> Seq(Msg)]]
  <2>1. /\ Wires(w, c, TRUE, {}, Written(k, m)) \in [Worker -> [Conn -> Seq(Msg)]]
        /\ Wires(w, c, TRUE, {}, <<>>) \in [Worker -> [Conn -> Seq(Msg)]]
    BY <1>1, <1>2, NoMsgs, WiresType
  <2>2. QED
    BY <2>1 DEF RecvRspConnect
<1>5. step' \in [Conn -> StepKind] /\ tries' \in [Conn -> 0 .. MaxResend]
  <2>1. CASE step[c] = "connect"
    <3>1. step' = [step EXCEPT ![c] = "tell"] /\ tries' = [tries EXCEPT ![c] = 0]
      BY <2>1 DEF RecvRspConnect
    <3>2. QED
      BY <3>1, BoundAssumption DEF TypeOK, StepKind
  <2>2. CASE step[c] # "connect"
    BY <2>2 DEF RecvRspConnect, TypeOK, stepVars
  <2>3. QED
    BY <2>1, <2>2
<1>6. QED
  BY <1>3, <1>4, <1>5 DEF RecvRspConnect, TypeOK, connVars

LEMMA RecvOthersType ==
    ASSUME TypeOK, NEW w \in Worker, NEW c \in Conn,
           RecvReqConnect(w, c) \/ RecvSysError(w, c) \/ RecvData(w, c)
    PROVE  TypeOK'
<1>1. Heard(w, c) \in Attr /\ wire[w][c] # <<>>
  BY HeardType DEF RecvReqConnect, RecvSysError, RecvData
<1>2. fdAttr' \in [Worker -> [Conn -> Attr]]
  <2>1. [fdAttr EXCEPT ![w][c] = Heard(w, c)] \in [Worker -> [Conn -> Attr]]
    BY <1>1 DEF TypeOK
  <2>2. QED
    BY <2>1 DEF RecvReqConnect, RecvSysError, RecvData
<1>3. wire' \in [Worker -> [Conn -> Seq(Msg)]]
  <2>1. <<Control(SYS_ERROR)>> \in Seq(Msg)
    BY ControlMsgs
  <2>2. /\ Wires(w, c, TRUE, {}, <<Control(SYS_ERROR)>>) \in [Worker -> [Conn -> Seq(Msg)]]
        /\ Wires(w, c, TRUE, {}, <<>>) \in [Worker -> [Conn -> Seq(Msg)]]
    BY <1>1, <2>1, NoMsgs, WiresType
  <2>3. QED
    BY <2>2 DEF RecvReqConnect, RecvSysError, RecvData
<1>4. got' \in [Worker -> [Conn -> Seq(Nat)]]
  <2>1. Head(wire[w][c]).id \in Nat
    BY <1>1, HeadType DEF Msg
  <2>2. Append(got[w][c], Head(wire[w][c]).id) \in Seq(Nat)
    BY <2>1 DEF TypeOK
  <2>3. [got EXCEPT ![w][c] = Append(@, Head(wire[w][c]).id)] \in [Worker -> [Conn -> Seq(Nat)]]
    BY <2>2 DEF TypeOK
  <2>4. CASE RecvData(w, c)
    BY <2>3, <2>4 DEF RecvData
  <2>5. CASE RecvReqConnect(w, c) \/ RecvSysError(w, c)
    BY <2>5 DEF RecvReqConnect, RecvSysError, TypeOK
  <2>6. QED
    BY <2>4, <2>5
<1>5. QED
  BY <1>2, <1>3, <1>4
  DEF RecvReqConnect, RecvSysError, RecvData, TypeOK, connVars, stepVars

\* The end of a used connection is at its opener or at its target.
OpenIsEnd ==
    \A w \in Worker, c \in Conn :
        fdAttr[w][c].open => carrier[c] # "unused" /\ w \in {opener[c], target[c]}

LEMMA PeerType ==
    ASSUME EndsOK, OpenIsEnd, NEW w \in Worker, NEW c \in Conn, fdAttr[w][c].open
    PROVE  /\ Peer(w, c) \in Worker
           /\ Peer(w, c) # w
           /\ {opener[c], target[c]} = {w, Peer(w, c)}
BY DEF EndsOK, OpenIsEnd, Peer

LEMMA RecvReqTellType ==
    ASSUME TypeOK, EndsOK, OpenIsEnd, NEW w \in Worker, NEW c \in Conn, RecvReqTell(w, c)
    PROVE  TypeOK'
<1> DEFINE k == Heard(w, c)  m == Control(RSP_TELL)  p == Peer(w, c)
<1>1. k \in Attr /\ wire[w][c] # <<>> /\ m \in Msg
  BY HeardType, ControlMsgs DEF RecvReqTell
<1>2. p \in Worker
  BY PeerType DEF RecvReqTell, Arrives
<1>3. AfterSend(k, m) \in Attr /\ Written(k, m) \in Seq(Msg)
  BY <1>1, AfterSendType, WrittenType
<1>4. /\ fdAttr' \in [Worker -> [Conn -> Attr]]
      /\ msgShell' \in [Worker -> [Worker -> Conn \cup {None}]]
  BY <1>2, <1>3, AddMsgShellType DEF RecvReqTell
<1>5. wire' \in [Worker -> [Conn -> Seq(Msg)]]
  BY <1>1, <1>3, WiresType DEF RecvReqTell
<1>6. QED
  BY <1>4, <1>5 DEF RecvReqTell, TypeOK, connVars, stepVars

LEMMA RecvRspTellType ==
    ASSUME TypeOK, EndsOK, OpenIsEnd, NEW w \in Worker, NEW c \in Conn, RecvRspTell(w, c)
    PROVE  TypeOK'
<1> DEFINE k == Heard(w, c)  p == Peer(w, c)
<1>1. k \in Attr /\ wire[w][c] # <<>>
  BY HeardType DEF RecvRspTell
<1>2. p \in Worker
  BY PeerType DEF RecvRspTell, Arrives
<1> DEFINE f == [k EXCEPT !.wait = <<>>]
<1>3. f \in Attr /\ k.wait \in Seq(Msg)
  <2>1. k \in Attr
    BY <1>1
  <2> HIDE DEF k
  <2>2. QED
    BY <2>1, NoMsgs DEF Attr
<1>4. CASE step[c] = "tell"
  <2>1. /\ fdAttr' \in [Worker -> [Conn -> Attr]]
        /\ msgShell' \in [Worker -> [Worker -> Conn \cup {None}]]
    <3>1. AddMsgShell(w, p, c, f)
      BY <1>4 DEF RecvRspTell
    <3> HIDE DEF f
    <3>2. QED
      BY <1>2, <1>3, <3>1, AddMsgShellType
  <2>2. wire' \in [Worker -> [Conn -> Seq(Msg)]]
    <3>1. wire' = Wires(w, c, TRUE, Replaced(w, p, c), k.wait)
      BY <1>4 DEF RecvRspTell
    <3> HIDE DEF k
    <3>2. QED
      BY <1>1, <1>3, <3>1, WiresType
  <2>3. step' \in [Conn -> StepKind] /\ tries' \in [Conn -> 0 .. MaxResend]
    <3>1. step' = [step EXCEPT ![c] = "none"] /\ tries' = [tries EXCEPT ![c] = 0]
      BY <1>4 DEF RecvRspTell
    <3>2. QED
      BY <3>1, BoundAssumption DEF TypeOK, StepKind
  <2>4. QED
    BY <2>1, <2>2, <2>3 DEF RecvRspTell, TypeOK, connVars
<1>5. CASE step[c] # "tell"
  <2>1. fdAttr' \in [Worker -> [Conn -> Attr]]
    <3>1. fdAttr' = [fdAttr EXCEPT ![w][c] = k]
      BY <1>5 DEF RecvRspTell
    <3> HIDE DEF k
    <3>2. QED
      BY <1>1, <3>1 DEF TypeOK
  <2>2. wire' \in [Worker -> [Conn -> Seq(Msg)]]
    <3>1. wire' = Wires(w, c, TRUE, {}, <<>>)
      BY <1>5 DEF RecvRspTell
    <3>2. QED
      BY <1>1, <3>1, NoMsgs, WiresType
  <2>3. QED
    BY <1>5, <2>1, <2>2 DEF RecvRspTell, TypeOK, connVars, stepVars
<1>6. QED
  BY <1>4, <1>5

LEMMA RecvEofType ==
    ASSUME TypeOK, NEW w \in Worker, NEW c \in Conn, RecvEof(w, c)
    PROVE  TypeOK'
BY DestroyType DEF RecvEof, TypeOK, connVars, stepVars

LEMMA ResetType ==
    ASSUME TypeOK, NEW c \in Conn, Reset(c)
    PROVE  TypeOK'
<1>1. carrier' \in [Conn -> Carrier]
  BY DEF Reset, TypeOK, Carrier
<1>2. <<>> \in Seq(Msg)
  OBVIOUS
<1>3. wire' \in [Worker -> [Conn -> Seq(Msg)]]
  BY <1>2 DEF Reset, TypeOK
<1>4. QED
  BY <1>1, <1>3 DEF Reset, TypeOK, stepVars

LEMMA RestartWorkerType ==
    ASSUME TypeOK, NEW w \in Worker, RestartWorker(w)
    PROVE  TypeOK'
<1>1. fdAttr' \in [Worker -> [Conn -> Attr]]
  BY ConstAttrs DEF RestartWorker, TypeOK
<1>2. msgShell' \in [Worker -> [Worker -> Conn \cup {None}]]
  BY DEF RestartWorker, TypeOK
<1>3. carrier' \in [Conn -> Carrier]
  BY DEF RestartWorker, TypeOK, Carrier
<1>4. step' \in [Conn -> StepKind] /\ tries' \in [Conn -> 0 .. MaxResend]
  BY BoundAssumption DEF RestartWorker, TypeOK, StepKind
<1>5. wire' \in [Worker -> [Conn -> Seq(Msg)]]
  <2>1. <<>> \in Seq(Msg)
    OBVIOUS
  <2>2. [c \in Conn |-> IF target[c] = w /\ carrier[c] = "manager" THEN wire[w][c] ELSE <<>>]
          \in [Conn -> Seq(Msg)]
    BY <2>1 DEF TypeOK
  <2>3. QED
    BY <2>2 DEF RestartWorker, TypeOK
<1>6. QED
  BY <1>1, <1>2, <1>3, <1>4, <1>5 DEF RestartWorker, TypeOK

-----------------------------------------------------------------------------
(* The identity map.                                                       *)

\* What an end calls its peer is its peer.
IdentifyIsPeer ==
    \A w \in Worker, c \in Conn :
        fdAttr[w][c].open /\ fdAttr[w][c].identify # None =>
            fdAttr[w][c].identify = Peer(w, c)

\* A connection reaches the target's worker once, when it is passed to it.
NotYetAccepted ==
    \A c \in Conn : carrier[c] \in {"connecting", "manager", "passed"} =>
        ~fdAttr[target[c]][c].open

\* The inductive invariant.  ShellLive alone is not inductive: that
\* replacing or destroying one connection leaves the other identities alone
\* needs what an identity is, and that no end is opened a second time.
Shape ==
    /\ EndsOK
    /\ OpenIsEnd
    /\ StepUsed
    /\ IdentifyIsPeer
    /\ NotYetAccepted
    /\ ShellLive

IInv == TypeOK /\ Shape

LEMMA InitInv == Init => IInv
<1> SUFFICES ASSUME Init PROVE IInv
  OBVIOUS
<1>1. <<>> \in Seq(Msg) /\ <<>> \in Seq(Nat)
  OBVIOUS
<1>2. TypeOK
  <2>1. fdAttr \in [Worker -> [Conn -> Attr]]
    BY ConstAttrs DEF Init
  <2>2. step \in [Conn -> StepKind] /\ carrier \in [Conn -> Carrier]
    BY DEF Init, StepKind, Carrier
  <2>3. wire \in [Worker -> [Conn -> Seq(Msg)]] /\ got \in [Worker -> [Conn -> Seq(Nat)]]
    BY <1>1 DEF Init
  <2>4. tries \in [Conn -> 0 .. MaxResend] /\ nextId \in [Worker -> 0 .. MaxMsg]
    BY BoundAssumption DEF Init
  <2>5. QED
    BY <2>1, <2>2, <2>3, <2>4 DEF Init, TypeOK
<1>3. Shape
  <2>1. \A w \in Worker, c \in Conn : ~fdAttr[w][c].open
    BY ConstAttrs DEF Init
  <2>2. \A c \in Conn : carrier[c] = "unused" /\ step[c] = "none"
    BY DEF Init
  <2>3. \A w \in Worker, p \in Worker : msgShell[w][p] = None
    BY DEF Init
  <2>4. EndsOK /\ OpenIsEnd /\ StepUsed /\ IdentifyIsPeer /\ NotYetAccepted
    BY <2>1, <2>2 DEF EndsOK, OpenIsEnd, StepUsed, IdentifyIsPeer, NotYetAccepted
  <2>5. ShellLive
    BY <2>3 DEF ShellLive
  <2>6. QED
    BY <2>4, <2>5 DEF Shape
<1>4. QED
  BY <1>2, <1>3 DEF IInv

\* A step that leaves which ends are open, their identities and the map alone.
Quiet ==
    /\ opener' = opener /\ target' = target /\ msgShell' = msgShell
    /\ \A w \in Worker, c \in Conn :
          /\ fdAttr'[w][c].open = fdAttr[w][c].open
          /\ fdAttr'[w][c].identify = fdAttr[w][c].identify
    /\ \A c \in Conn :
          /\ carrier'[c] = "unused" <=> carrier[c] = "unused"
          /\ carrier'[c] \in {"connecting", "manager", "passed"} =>
                carrier[c] \in {"connecting", "manager", "passed"}
          /\ step'[c] # "none" => step[c] # "none" \/ carrier[c] # "unused"

LEMMA QuietShape ==
    ASSUME IInv, Quiet
    PROVE  Shape'
<1>1. EndsOK' /\ StepUsed'
  BY DEF IInv, Shape, Quiet, EndsOK, StepUsed
<1>2. OpenIsEnd'
  BY DEF IInv, Shape, Quiet, OpenIsEnd
<1>3. IdentifyIsPeer'
  BY DEF IInv, Shape, Quiet, IdentifyIsPeer, Peer
<1>4. NotYetAccepted'
  <2> SUFFICES ASSUME NEW c \in Conn, carrier'[c] \in {"connecting", "manager", "passed"}
               PROVE  ~fdAttr'[target'[c]][c].open
    BY DEF NotYetAccepted
  <2>1. carrier[c] \in {"connecting", "manager", "passed"}
    BY DEF Quiet
  <2>2. target[c] \in Worker
    BY <2>1 DEF IInv, Shape, EndsOK
  <2>3. QED
    BY <2>1, <2>2 DEF IInv, Shape, Quiet, NotYetAccepted
<1>5. ShellLive'
  <2> SUFFICES ASSUME NEW w \in Worker, NEW p \in Worker, msgShell'[w][p] # None
               PROVE  LET c == msgShell'[w][p] IN
                      /\ fdAttr'[w][c].open
                      /\ fdAttr'[w][c].identify = p
                      /\ {opener'[c], target'[c]} = {w, p}
    BY DEF ShellLive
  <2>1. msgShell[w][p] \in Conn /\ msgShell'[w][p] = msgShell[w][p]
    BY DEF IInv, TypeOK, Quiet
  <2>2. LET c == msgShell[w][p] IN
        fdAttr[w][c].open /\ fdAttr[w][c].identify = p /\ {opener[c], target[c]} = {w, p}
    BY <2>1 DEF IInv, Shape, ShellLive
  <2>3. QED
    BY <2>1, <2>2 DEF Quiet
<1>6. QED
  BY <1>1, <1>2, <1>3, <1>4, <1>5 DEF Shape

\* Replacing the attributes of one end by ones with the same open and identify.
LEMMA SameEnd ==
    ASSUME TypeOK, NEW w \in Worker, NEW c \in Conn, NEW k \in Attr,
           k.open = fdAttr[w][c].open, k.identify = fdAttr[w][c].identify,
           fdAttr' = [fdAttr EXCEPT ![w][c] = k]
    PROVE  \A v \in Worker, d \in Conn :
              /\ fdAttr'[v][d].open = fdAttr[v][d].open
              /\ fdAttr'[v][d].identify = fdAttr[v][d].identify
BY DEF TypeOK

LEMMA SendOnQuiet ==
    ASSUME IInv, NEW w \in Worker, NEW c \in Conn, SendOn(w, c)
    PROVE  Quiet
<1> DEFINE k == AfterSend(fdAttr[w][c], NextMsg(w))
<1>1. TypeOK
  BY DEF IInv
<1>2. fdAttr[w][c] \in Attr /\ NextMsg(w) \in Msg
  BY <1>1, NextMsgType DEF TypeOK
<1>3. k \in Attr /\ k.open = fdAttr[w][c].open /\ k.identify = fdAttr[w][c].identify
  BY <1>2, AfterSendType
<1>4. fdAttr' = [fdAttr EXCEPT ![w][c] = k]
  BY DEF SendOn
<1> HIDE DEF k
<1>5. QED
  BY <1>1, <1>3, <1>4, SameEnd DEF SendOn, Quiet, connVars, stepVars

LEMMA IoWriteQuiet ==
    ASSUME IInv, NEW c \in Conn, IoWrite(c)
    PROVE  Quiet
<1> DEFINE w == opener[c]
           k == AfterSend(fdAttr[w][c], Control(REQ_CONNECT))
<1>1. TypeOK /\ w \in Worker
  BY DEF IInv, Shape, EndsOK, IoWrite
<1>2. fdAttr[w][c] \in Attr
  BY <1>1 DEF TypeOK
<1>3. k \in Attr /\ k.open = fdAttr[w][c].open /\ k.identify = fdAttr[w][c].identify
  BY <1>2, ControlMsgs, AfterSendType
<1>4. fdAttr' = [fdAttr EXCEPT ![w][c] = k]
  BY DEF IoWrite
<1>5. \A v \in Worker, d \in Conn :
        /\ fdAttr'[v][d].open = fdAttr[v][d].open
        /\ fdAttr'[v][d].identify = fdAttr[v][d].identify
  <2> HIDE DEF k, w
  <2>1. QED
    BY <1>1, <1>3, <1>4, SameEnd
<1>6. QED
  BY <1>1, <1>5 DEF IoWrite, Quiet, TypeOK

LEMMA StepTimeoutQuiet ==
    ASSUME IInv, NEW c \in Conn, StepTimeout(c)
    PROVE  Quiet
<1> DEFINE w == opener[c]
           m == Control(IF step[c] = "connect" THEN REQ_CONNECT ELSE REQ_TELL)
           k == AfterSend(fdAttr[w][c], m)
<1>1. TypeOK /\ w \in Worker
  BY DEF IInv, Shape, EndsOK, StepUsed, StepTimeout
<1>2. fdAttr[w][c] \in Attr /\ m \in Msg
  BY <1>1, ControlMsgs DEF TypeOK
<1>3. k \in Attr /\ k.open = fdAttr[w][c].open /\ k.identify = fdAttr[w][c].identify
  BY <1>2, AfterSendType
<1>4. fdAttr' = [fdAttr EXCEPT ![w][c] = k] \/ fdAttr' = fdAttr
  BY DEF StepTimeout
<1>5. \A v \in Worker, d \in Conn :
        /\ fdAttr'[v][d].open = fdAttr[v][d].open
        /\ fdAttr'[v][d].identify = fdAttr[v][d].identify
  <2> HIDE DEF k, w
  <2>1. QED
    BY <1>1, <1>3, <1>4, SameEnd
<1>6. \A d \in Conn : step'[d] # "none" => step[d] # "none"
  BY <1>1 DEF StepTimeout, TypeOK
<1>7. QED
  BY <1>5, <1>6 DEF StepTimeout, Quiet, connVars

LEMMA ManagerQuiet ==
    ASSUME IInv, NEW c \in Conn, ManagerTransfer(c) \/ ManagerClose(c) \/ Reset(c)
    PROVE  Quiet
<1>1. TypeOK
  BY DEF IInv
<1>2. carrier[c] \in {"manager", "passed", "worker"}
  BY DEF ManagerTransfer, ManagerClose, Reset
<1>3. \/ carrier' = [carrier EXCEPT ![c] = "dead"]
      \/ /\ carrier' = [carrier EXCEPT ![c] = "passed"]
         /\ carrier[c] = "manager"
  BY DEF ManagerTransfer, ManagerClose, Reset
<1>4. /\ opener' = opener /\ target' = target /\ msgShell' = msgShell
      /\ fdAttr' = fdAttr /\ step' = step
  BY DEF ManagerTransfer, ManagerClose, Reset, stepVars
<1>5. QED
  BY <1>1, <1>2, <1>3, <1>4 DEF Quiet, TypeOK

\* What a worker receives without closing an end or mapping an identity.
QuietRead(w, c) ==
    \/ RecvRspConnect(w, c)
    \/ RecvReqConnect(w, c)
    \/ RecvSysError(w, c)
    \/ RecvData(w, c)
    \/ RecvRspTell(w, c) /\ step[c] # "tell"

LEMMA QuietReadQuiet ==
    ASSUME IInv, NEW w \in Worker, NEW c \in Conn, QuietRead(w, c)
    PROVE  Quiet
<1> DEFINE h == Heard(w, c)
           k == AfterSend(h, Control(REQ_TELL))
<1>1. TypeOK /\ fdAttr[w][c].open
  BY DEF IInv, QuietRead, RecvRspConnect, RecvReqConnect, RecvSysError, RecvData,
         RecvRspTell, Arrives
<1>2. h \in Attr /\ h.open = fdAttr[w][c].open /\ h.identify = fdAttr[w][c].identify
  <2>1. PICK cmd : Arrives(w, c, cmd)
    BY DEF QuietRead, RecvRspConnect, RecvReqConnect, RecvSysError, RecvData, RecvRspTell
  <2>2. wire[w][c] # <<>> /\ fdAttr[w][c] \in Attr
    BY <1>1, <2>1 DEF Arrives, TypeOK
  <2>3. Head(wire[w][c]) \in Msg
    BY <1>1, <2>2, HeadType
  <2>4. QED
    BY <2>2, <2>3, AfterRecvType DEF Heard
<1>3. k \in Attr /\ k.open = h.open /\ k.identify = h.identify
  <2> HIDE DEF h
  <2>1. QED
    BY <1>2, ControlMsgs, AfterSendType
<1>4. fdAttr' = [fdAttr EXCEPT ![w][c] = k] \/ fdAttr' = [fdAttr EXCEPT ![w][c] = h]
  BY DEF QuietRead, RecvRspConnect, RecvReqConnect, RecvSysError, RecvData, RecvRspTell
<1>5. \A v \in Worker, d \in Conn :
        /\ fdAttr'[v][d].open = fdAttr[v][d].open
        /\ fdAttr'[v][d].identify = fdAttr[v][d].identify
  <2> HIDE DEF h, k
  <2>1. CASE fdAttr' = [fdAttr EXCEPT ![w][c] = h]
    BY <1>1, <1>2, <2>1, SameEnd
  <2>2. CASE fdAttr' = [fdAttr EXCEPT ![w][c] = k]
    <3>1. k.open = fdAttr[w][c].open /\ k.identify = fdAttr[w][c].identify /\ k \in Attr
      BY <1>2, <1>3
    <3>2. QED
      BY <1>1, <2>2, <3>1, SameEnd
  <2>3. QED
    BY <1>4, <2>1, <2>2
<1>6. \A d \in Conn : step'[d] # "none" => step[d] # "none" \/ carrier[d] # "unused"
  <2>1. carrier[c] # "unused"
    BY <1>1 DEF IInv, Shape, OpenIsEnd
  <2>2. step' = [step EXCEPT ![c] = "tell"] \/ step' = step
    BY DEF QuietRead, RecvRspConnect, RecvReqConnect, RecvSysError, RecvData,
           RecvRspTell, stepVars
  <2>3. QED
    BY <1>1, <2>1, <2>2 DEF TypeOK
<1>7. /\ opener' = opener /\ target' = target /\ msgShell' = msgShell
      /\ carrier' = carrier
  BY DEF QuietRead, RecvRspConnect, RecvReqConnect, RecvSysError, RecvData,
         RecvRspTell, connVars
<1>8. QED
  BY <1>5, <1>6, <1>7 DEF Quiet

\* Destroying one end, nothing else being opened or mapped.
LEMMA DestroyShape ==
    ASSUME IInv, NEW w \in Worker, NEW c \in Conn, DestroyConnect(w, c),
           fdAttr[w][c].open,
           opener' = opener, target' = target, step' = step,
           carrier' = carrier \/ carrier' = [carrier EXCEPT ![c] = "dead"]
    PROVE  Shape'
<1>1. /\ TypeOK
      /\ EndsOK /\ OpenIsEnd /\ StepUsed /\ IdentifyIsPeer /\ NotYetAccepted /\ ShellLive
  BY DEF IInv, Shape
<1>2. carrier[c] # "unused"
  BY <1>1 DEF OpenIsEnd
<1>3. \A d \in Conn :
        /\ carrier'[d] = "unused" <=> carrier[d] = "unused"
        /\ carrier'[d] \in {"connecting", "manager", "passed"} => carrier'[d] = carrier[d]
  BY <1>1, <1>2 DEF TypeOK
<1>4. \A v \in Worker, d \in Conn :
        fdAttr'[v][d] = IF v = w /\ d = c THEN Closed ELSE fdAttr[v][d]
  BY <1>1 DEF DestroyConnect, TypeOK
<1>5. EndsOK' /\ StepUsed'
  BY <1>1, <1>3 DEF EndsOK, StepUsed
<1>6. OpenIsEnd' /\ IdentifyIsPeer'
  BY <1>1, <1>3, <1>4, ConstAttrs DEF OpenIsEnd, IdentifyIsPeer, Peer
<1>7. NotYetAccepted'
  <2> SUFFICES ASSUME NEW d \in Conn, carrier'[d] \in {"connecting", "manager", "passed"}
               PROVE  ~fdAttr'[target[d]][d].open
    BY DEF NotYetAccepted
  <2>1. carrier[d] \in {"connecting", "manager", "passed"} /\ target[d] \in Worker
    BY <1>1, <1>3 DEF EndsOK
  <2>2. QED
    BY <1>1, <1>4, <2>1, ConstAttrs DEF NotYetAccepted
<1>8. ShellLive'
  <2> SUFFICES ASSUME NEW v \in Worker, NEW p \in Worker, msgShell'[v][p] # None
               PROVE  LET d == msgShell'[v][p] IN
                      /\ fdAttr'[v][d].open
                      /\ fdAttr'[v][d].identify = p
                      /\ {opener'[d], target'[d]} = {v, p}
    BY DEF ShellLive
  <2>1. msgShell'[v][p] = msgShell[v][p] /\ (v = w => p # fdAttr[w][c].identify)
    BY <1>1 DEF DestroyConnect, DelMsgShell, TypeOK
  <2>2. msgShell[v][p] \in Conn
    BY <1>1, <2>1 DEF TypeOK
  <2>3. /\ fdAttr[v][msgShell[v][p]].open
        /\ fdAttr[v][msgShell[v][p]].identify = p
        /\ {opener[msgShell[v][p]], target[msgShell[v][p]]} = {v, p}
    BY <1>1, <2>1 DEF ShellLive
  <2>4. ~(v = w /\ msgShell[v][p] = c)
    BY <2>1, <2>3
  <2>5. QED
    BY <1>4, <2>1, <2>2, <2>3, <2>4
<1>9. QED
  BY <1>5, <1>6, <1>7, <1>8 DEF Shape

\* AddMsgShell for an end that is open once the step is done, whether AutoSend
\* has just opened it (fresh) or the handshake of an open one ends.
LEMMA AddMsgShellShape ==
    ASSUME IInv, NEW w \in Worker, NEW p \in Worker, NEW c \in Conn, NEW k \in Attr,
           NEW fresh \in BOOLEAN,
           AddMsgShell(w, p, c, k), k.open, w # p,
           \A d \in Conn \ {c} : opener'[d] = opener[d] /\ target'[d] = target[d]
                                   /\ carrier'[d] = carrier[d] /\ step'[d] = step[d],
           {opener'[c], target'[c]} = {w, p},
           carrier'[c] # "unused",
           step'[c] \in StepKind,
           fresh => /\ carrier[c] = "unused"
                    /\ carrier'[c] = "connecting"
                    /\ opener'[c] = w
                    /\ target'[c] = p,
           ~fresh => /\ fdAttr[w][c].open
                     /\ opener'[c] = opener[c]
                     /\ target'[c] = target[c]
                     /\ carrier'[c] = carrier[c]
    PROVE  Shape'
<1>1. /\ TypeOK
      /\ EndsOK /\ OpenIsEnd /\ StepUsed /\ IdentifyIsPeer /\ NotYetAccepted /\ ShellLive
  BY DEF IInv, Shape
<1> DEFINE e == [k EXCEPT !.identify = p]
<1>2. e.open /\ e.identify = p
  BY DEF Attr
<1>3. \A v \in Worker, d \in Conn :
        fdAttr'[v][d] = IF v = w /\ d = c THEN e
                        ELSE IF v = w /\ d \in Replaced(w, p, c) THEN Closed
                        ELSE fdAttr[v][d]
  BY <1>1 DEF AddMsgShell, TypeOK
<1> HIDE DEF e
<1>4. EndsOK'
  BY <1>1 DEF EndsOK
<1>5. StepUsed'
  BY <1>1 DEF StepUsed
<1>6. OpenIsEnd'
  BY <1>1, <1>3, ConstAttrs DEF OpenIsEnd
<1>7. p \in Worker /\ None \notin Worker /\ None \notin Conn
  BY WorkerAssumption
<1>8. IdentifyIsPeer'
  <2> SUFFICES ASSUME NEW v \in Worker, NEW d \in Conn, fdAttr'[v][d].open,
                      fdAttr'[v][d].identify # None
               PROVE  fdAttr'[v][d].identify = Peer(v, d)'
    BY DEF IdentifyIsPeer
  <2>1. CASE d # c
    BY <1>1, <1>3, <2>1, ConstAttrs DEF IdentifyIsPeer, Peer
  <2>2. CASE d = c /\ v = w
    BY <1>2, <1>3, <2>2 DEF Peer
  <2>3. CASE d = c /\ v # w
    BY <1>1, <1>3, <2>3 DEF IdentifyIsPeer, OpenIsEnd, Peer
  <2>4. QED
    BY <2>1, <2>2, <2>3
<1>9. NotYetAccepted'
  <2> SUFFICES ASSUME NEW d \in Conn, carrier'[d] \in {"connecting", "manager", "passed"}
               PROVE  ~fdAttr'[target'[d]][d].open
    BY DEF NotYetAccepted
  <2>1. CASE d # c
    <3>1. target[d] \in Worker /\ target'[d] = target[d] /\ ~fdAttr[target[d]][d].open
      BY <1>1, <2>1 DEF EndsOK, NotYetAccepted
    <3>2. QED
      BY <1>3, <2>1, <3>1, ConstAttrs
  <2>2. CASE d = c /\ fresh
    BY <1>1, <1>3, <2>2 DEF OpenIsEnd
  <2>3. CASE d = c /\ ~fresh
    <3>1. target[d] \in Worker /\ target'[d] = target[d] /\ ~fdAttr[target[d]][d].open
      BY <1>1, <2>3 DEF EndsOK, NotYetAccepted
    <3>2. target[d] # w
      BY <2>3, <3>1
    <3>3. QED
      BY <1>3, <3>1, <3>2
  <2>4. QED
    BY <2>1, <2>2, <2>3
<1>10. ShellLive'
  <2> SUFFICES ASSUME NEW v \in Worker, NEW q \in Worker, msgShell'[v][q] # None
               PROVE  LET d == msgShell'[v][q] IN
                      /\ fdAttr'[v][d].open
                      /\ fdAttr'[v][d].identify = q
                      /\ {opener'[d], target'[d]} = {v, q}
    BY DEF ShellLive
  <2>1. Replaced(w, p, c) # {} => fdAttr[w][msgShell[w][p]].identify = p
    BY <1>1, <1>7 DEF ShellLive, Replaced
  <2>2. msgShell' = [msgShell EXCEPT ![w] =
            IF Replaced(w, p, c) = {} THEN [@ EXCEPT ![p] = c] ELSE DelMsgShell(@, p)]
    BY <2>1 DEF AddMsgShell
  <2>3. CASE v = w /\ q = p
    <3>1. msgShell'[v][q] = c
      BY <1>1, <2>2, <2>3 DEF DelMsgShell, TypeOK
    <3>2. QED
      BY <1>2, <1>3, <2>3, <3>1
  <2>4. CASE ~(v = w /\ q = p)
    <3>1. msgShell'[v][q] = msgShell[v][q]
      BY <1>1, <2>2, <2>4 DEF DelMsgShell, TypeOK
    <3> DEFINE d == msgShell[v][q]
    <3>2. d \in Conn
      BY <1>1, <3>1 DEF TypeOK
    <3>3. /\ fdAttr[v][d].open
          /\ fdAttr[v][d].identify = q
          /\ {opener[d], target[d]} = {v, q}
      BY <1>1, <3>1 DEF ShellLive
    <3>4. d = c => ~fresh
      BY <1>1, <3>2, <3>3 DEF OpenIsEnd
    <3>5. ~(v = w /\ d = c)
      <4> SUFFICES ASSUME v = w, d = c PROVE FALSE
        OBVIOUS
      <4>1. {w, q} = {w, p}
        BY <3>3, <3>4
      <4>2. QED
        BY <4>1, <2>4
    <3>6. ~(v = w /\ d \in Replaced(w, p, c))
      BY <2>1, <2>4, <3>3 DEF Replaced
    <3>7. fdAttr'[v][d] = fdAttr[v][d]
      BY <1>3, <3>2, <3>5, <3>6
    <3>8. opener'[d] = opener[d] /\ target'[d] = target[d]
      BY <3>2, <3>4
    <3>9. QED
      BY <3>1, <3>3, <3>7, <3>8
  <2>5. QED
    BY <2>3, <2>4
<1>11. QED
  BY <1>4, <1>5, <1>6, <1>8, <1>9, <1>10 DEF Shape

LEMMA AutoSendShape ==
    ASSUME IInv, NEW w \in Worker, NEW p \in Worker, NEW c \in Conn, AutoSend(w, p, c)
    PROVE  Shape'
<1> DEFINE k == Opened(p, NextMsg(w))
<1>1. TypeOK /\ StepUsed
  BY DEF IInv, Shape
<1>2. k \in Attr /\ k.open
  BY <1>1, NextMsgType, OpenedType
<1>3. w # p
  BY RouteAssumption DEF AutoSend
<1>4. AddMsgShell(w, p, c, k) /\ carrier[c] = "unused"
  BY DEF AutoSend
<1>5. /\ opener'[c] = w /\ target'[c] = p /\ carrier'[c] = "connecting"
      /\ \A d \in Conn \ {c} : opener'[d] = opener[d] /\ target'[d] = target[d]
                                 /\ carrier'[d] = carrier[d] /\ step'[d] = step[d]
      /\ step'[c] \in StepKind
  BY <1>1 DEF AutoSend, TypeOK, stepVars
<1> HIDE DEF k
<1>6. QED
  BY <1>2, <1>3, <1>4, <1>5, AddMsgShellShape

LEMMA TellShape ==
    ASSUME IInv, NEW w \in Worker, NEW c \in Conn,
           RecvReqTell(w, c) \/ (RecvRspTell(w, c) /\ step[c] = "tell")
    PROVE  Shape'
<1> DEFINE p == Peer(w, c)
           h == Heard(w, c)
           k == IF RecvReqTell(w, c) THEN AfterSend(h, Control(RSP_TELL))
                ELSE [h EXCEPT !.wait = <<>>]
<1>1. TypeOK /\ EndsOK /\ OpenIsEnd /\ StepUsed
  BY DEF IInv, Shape
<1>2. PICK cmd : Arrives(w, c, cmd)
  BY DEF RecvReqTell, RecvRspTell
<1>3. fdAttr[w][c].open /\ carrier[c] # "unused"
  BY <1>1, <1>2 DEF Arrives, OpenIsEnd
<1>4. p \in Worker /\ p # w /\ {opener[c], target[c]} = {w, p}
  BY <1>1, <1>3, PeerType
<1>5. h \in Attr /\ h.open
  BY <1>1, <1>2, HeardType
<1>6. k \in Attr /\ k.open
  <2> HIDE DEF h
  <2>1. AfterSend(h, Control(RSP_TELL)) \in Attr /\ AfterSend(h, Control(RSP_TELL)).open
    BY <1>5, ControlMsgs, AfterSendType
  <2>2. [h EXCEPT !.wait = <<>>] \in Attr /\ [h EXCEPT !.wait = <<>>].open
    BY <1>5, NoMsgs DEF Attr
  <2>3. QED
    BY <2>1, <2>2
<1>7. AddMsgShell(w, p, c, k)
  BY DEF RecvReqTell, RecvRspTell
<1>8. opener' = opener /\ target' = target /\ carrier' = carrier
  BY DEF RecvReqTell, RecvRspTell, connVars
<1>9. step' = step \/ step' = [step EXCEPT ![c] = "none"]
  BY DEF RecvReqTell, RecvRspTell, stepVars
<1>10. /\ \A d \in Conn \ {c} : step'[d] = step[d]
       /\ step'[c] \in StepKind
  BY <1>1, <1>9 DEF TypeOK, StepKind
<1> HIDE DEF k, h, p
<1>11. QED
  BY <1>3, <1>4, <1>6, <1>7, <1>8, <1>10, AddMsgShellShape

LEMMA CloseShape ==
    ASSUME IInv, NEW w \in Worker, NEW c \in Conn,
           RecvEof(w, c) \/ (ConnectFails(c) /\ w = opener[c])
    PROVE  Shape'
BY DestroyShape DEF RecvEof, ConnectFails, connVars, stepVars

LEMMA FdTransferShape ==
    ASSUME IInv, NEW c \in Conn, FdTransfer(c)
    PROVE  Shape'
<1>1. /\ TypeOK
      /\ EndsOK /\ OpenIsEnd /\ StepUsed /\ IdentifyIsPeer /\ NotYetAccepted /\ ShellLive
  BY DEF IInv, Shape
<1> DEFINE w == target[c]
<1>2. w \in Worker /\ carrier[c] = "passed" /\ ~fdAttr[w][c].open
  BY <1>1 DEF FdTransfer, EndsOK, NotYetAccepted
<1>3. \A v \in Worker, d \in Conn :
        fdAttr'[v][d] = IF v = w /\ d = c THEN Accepted ELSE fdAttr[v][d]
  BY <1>1 DEF FdTransfer, TypeOK
<1>4. /\ opener' = opener /\ target' = target /\ step' = step /\ msgShell' = msgShell
      /\ \A d \in Conn : carrier'[d] = IF d = c THEN "worker" ELSE carrier[d]
  BY <1>1 DEF FdTransfer, TypeOK, stepVars
<1>5. EndsOK' /\ StepUsed' /\ OpenIsEnd'
  BY <1>1, <1>2, <1>3, <1>4 DEF EndsOK, StepUsed, OpenIsEnd
<1>6. IdentifyIsPeer'
  BY <1>1, <1>2, <1>3, <1>4, ConstAttrs DEF IdentifyIsPeer, Peer
<1>7. NotYetAccepted'
  BY <1>1, <1>3, <1>4 DEF NotYetAccepted, EndsOK
<1>8. ShellLive'
  <2> SUFFICES ASSUME NEW v \in Worker, NEW p \in Worker, msgShell'[v][p] # None
               PROVE  LET d == msgShell'[v][p] IN
                      /\ fdAttr'[v][d].open
                      /\ fdAttr'[v][d].identify = p
                      /\ {opener'[d], target'[d]} = {v, p}
    BY DEF ShellLive
  <2> DEFINE d == msgShell[v][p]
  <2>1. msgShell'[v][p] = d /\ d \in Conn
    BY <1>1, <1>4 DEF TypeOK
  <2>2. /\ fdAttr[v][d].open
        /\ fdAttr[v][d].identify = p
        /\ {opener[d], target[d]} = {v, p}
    BY <1>1, <2>1 DEF ShellLive
  <2>3. fdAttr'[v][d] = fdAttr[v][d]
    BY <1>2, <1>3, <2>1, <2>2
  <2>4. QED
    BY <1>4, <2>1, <2>2, <2>3
<1>9. QED
  BY <1>5, <1>6, <1>7, <1>8 DEF Shape

LEMMA RestartShape ==
    ASSUME IInv, NEW w \in Worker, RestartWorker(w)
    PROVE  Shape'
<1>1. /\ TypeOK
      /\ EndsOK /\ OpenIsEnd /\ StepUsed /\ IdentifyIsPeer /\ NotYetAccepted /\ ShellLive
  BY DEF IInv, Shape
<1>2. \A v \in Worker, d \in Conn :
        fdAttr'[v][d] = IF v = w THEN Closed ELSE fdAttr[v][d]
  BY <1>1 DEF RestartWorker, TypeOK
<1>3. /\ opener' = opener /\ target' = target
      /\ \A d \in Conn : /\ carrier'[d] \in {carrier[d], "dead"}
                         /\ carrier'[d] # carrier[d] => carrier[d] = "passed"
                         /\ step'[d] # "none" => step[d] # "none"
  BY <1>1 DEF RestartWorker, TypeOK
<1>4. \A v \in Worker, p \in Worker :
        msgShell'[v][p] = IF v = w THEN None ELSE msgShell[v][p]
  BY <1>1 DEF RestartWorker, TypeOK
<1>5. EndsOK' /\ StepUsed' /\ OpenIsEnd'
  BY <1>1, <1>2, <1>3, ConstAttrs DEF EndsOK, StepUsed, OpenIsEnd
<1>6. IdentifyIsPeer' /\ NotYetAccepted'
  BY <1>1, <1>2, <1>3, ConstAttrs DEF IdentifyIsPeer, NotYetAccepted, EndsOK, Peer
<1>7. ShellLive'
  <2> SUFFICES ASSUME NEW v \in Worker, NEW p \in Worker, msgShell'[v][p] # None
               PROVE  LET d == msgShell'[v][p] IN
                      /\ fdAttr'[v][d].open
                      /\ fdAttr'[v][d].identify = p
                      /\ {opener'[d], target'[d]} = {v, p}
    BY DEF ShellLive
  <2> DEFINE d == msgShell[v][p]
  <2>1. msgShell'[v][p] = d /\ d \in Conn
    BY <1>1, <1>4 DEF TypeOK
  <2>2. /\ fdAttr[v][d].open
        /\ fdAttr[v][d].identify = p
        /\ {opener[d], target[d]} = {v, p}
    BY <1>1, <2>1 DEF ShellLive
  <2>3. fdAttr'[v][d] = fdAttr[v][d]
    BY <1>2, <1>4, <2>1
  <2>4. QED
    BY <1>3, <2>1, <2>2, <2>3
<1>8. QED
  BY <1>5, <1>6, <1>7 DEF Shape

LEMMA NextInv == IInv /\ [Next]_vars => IInv'
<1> SUFFICES ASSUME IInv, [Next]_vars PROVE IInv'
  OBVIOUS
<1>1. TypeOK /\ EndsOK /\ OpenIsEnd /\ StepUsed
  BY DEF IInv, Shape
<1>2. ASSUME NEW w \in Worker, NEW p \in Worker, SendMapped(w, p)
      PROVE  IInv'
  <2>1. msgShell[w][p] \in Conn
    BY <1>1, <1>2 DEF SendMapped, TypeOK
  <2>2. SendOn(w, msgShell[w][p])
    BY <1>2 DEF SendMapped
  <2>3. QED
    BY <1>1, <2>1, <2>2, SendOnType, SendOnQuiet, QuietShape DEF IInv
<1>3. ASSUME NEW w \in Worker, NEW p \in Worker, NEW c \in Conn, AutoSend(w, p, c)
      PROVE  IInv'
  BY <1>1, <1>3, AutoSendType, AutoSendShape DEF IInv
<1>4. ASSUME NEW w \in Worker, NEW c \in Conn, Reply(w, c)
      PROVE  IInv'
  BY <1>1, <1>4, SendOnType, SendOnQuiet, QuietShape DEF IInv, Reply
<1>5. ASSUME NEW c \in Conn, IoWrite(c)
      PROVE  IInv'
  BY <1>1, <1>5, IoWriteType, IoWriteQuiet, QuietShape DEF IInv
<1>6. ASSUME NEW c \in Conn, ConnectFails(c)
      PROVE  IInv'
  <2>1. opener[c] \in Worker
    BY <1>1, <1>6 DEF ConnectFails, EndsOK
  <2>2. QED
    BY <1>1, <1>6, <2>1, ConnectFailsType, CloseShape DEF IInv
<1>7. ASSUME NEW c \in Conn, StepTimeout(c)
      PROVE  IInv'
  BY <1>1, <1>7, StepTimeoutType, StepTimeoutQuiet, QuietShape DEF IInv
<1>8. ASSUME NEW c \in Conn, ManagerTransfer(c) \/ ManagerClose(c) \/ Reset(c)
      PROVE  IInv'
  BY <1>1, <1>8, ManagerTransferType, ManagerCloseType, ResetType, ManagerQuiet, QuietShape
  DEF IInv
<1>9. ASSUME NEW c \in Conn, FdTransfer(c)
      PROVE  IInv'
  BY <1>1, <1>9, FdTransferType, FdTransferShape DEF IInv
<1>10. ASSUME NEW w \in Worker, NEW c \in Conn, Read(w, c)
       PROVE  IInv'
  <2>1. CASE QuietRead(w, c)
    <3>1. TypeOK'
      BY <1>1, <2>1, RecvRspConnectType, RecvOthersType, RecvRspTellType DEF QuietRead
    <3>2. QED
      BY <2>1, <3>1, QuietReadQuiet, QuietShape DEF IInv
  <2>2. CASE RecvReqTell(w, c) \/ (RecvRspTell(w, c) /\ step[c] = "tell")
    BY <1>1, <2>2, RecvReqTellType, RecvRspTellType, TellShape DEF IInv
  <2>3. CASE RecvEof(w, c)
    BY <1>1, <2>3, RecvEofType, CloseShape DEF IInv
  <2>4. QED
    BY <1>10, <2>1, <2>2, <2>3 DEF Read, QuietRead
<1>11. ASSUME NEW w \in Worker, RestartWorker(w)
       PROVE  IInv'
  BY <1>1, <1>11, RestartWorkerType, RestartShape DEF IInv
<1>12. CASE UNCHANGED vars
  <2>1. TypeOK'
    BY <1>1, <1>12 DEF TypeOK, vars
  <2>2. Quiet
    BY <1>12 DEF Quiet, vars
  <2>3. QED
    BY <2>1, <2>2, QuietShape DEF IInv
<1>13. QED
  BY <1>2, <1>3, <1>4, <1>5, <1>6, <1>7, <1>8, <1>9, <1>10, <1>11, <1>12 DEF Next

-----------------------------------------------------------------------------
(* Theorems.                                                               *)

\* The inductive invariant holds in every behaviour of any number of workers
\* and connections, whatever fails.
THEOREM Invariant == Spec => []IInv
BY InitInv, NextInv, PTL DEF Spec

\* OssWorker's tables, the handshake steps and what is under way keep their
\* types, whatever fails.
THEOREM TypeCorrect == Spec => []TypeOK
<1>1. IInv => TypeOK
  BY DEF IInv
<1>2. QED
  BY <1>1, Invariant, PTL

\* SendTo(identify) never follows m_mapMsgShell (OssWorker.cpp AddMsgShell,
\* DelMsgShell, DestroyConnect) to a closed connection or to another worker.
THEOREM MappedIsLive == Spec => []ShellLive
<1>1. IInv => ShellLive
  BY DEF IInv, Shape
<1>2. QED
  BY <1>1, Invariant, PTL

-----------------------------------------------------------------------------
(* A connection by itself.                                                 *)

\* What is known of a connection in use: its opener's end is the near one.
View == [carrier : Carrier, step : StepKind, near : Attr, far : Attr,
         toNear : Seq(Msg), toFar : Seq(Msg), got : Seq(Nat)]

Seen(c) ==
    [carrier |-> carrier[c], step |-> step[c],
     near |-> fdAttr[opener[c]][c], far |-> fdAttr[target[c]][c],
     toNear |-> wire[opener[c]][c], toFar |-> wire[target[c]][c],
     got |-> got[target[c]][c]]

NearReads(x) == x.carrier # "dead" /\ x.near.open
FarReads(x) == x.carrier # "dead" /\ (x.far.open \/ x.carrier \in {"manager", "passed"})

ToNear(x, out) == IF NearReads(x) THEN x.toNear \o out ELSE x.toNear
ToFar(x, out) == IF FarReads(x) THEN x.toFar \o out ELSE x.toFar

\* The commands in a sequence of messages.
Cmds(s) == {s[i].cmd : i \in 1 .. Len(s)}

\* Nothing has happened to an unused connection.
Untouched(c) ==
    /\ step[c] = "none"
    /\ \A w \in Worker :
        fdAttr[w][c] = Closed /\ wire[w][c] = <<>> /\ got[w][c] = <<>>

\* A connection that was opened.
InUse(c) == carrier[c] # "unused"

\* What holds whatever happens: who sends which commands.
Placed(x) ==
    /\ ~x.near.open => x.near = Closed
    /\ ~x.far.open => x.far = Closed
    /\ x.carrier \in {"connecting", "manager", "passed"} => ~x.far.open /\ x.got = <<>>
    /\ x.carrier = "dead" => x.toFar = <<>>
    /\ x.carrier = "connecting" =>
        /\ x.toNear = <<>> /\ x.toFar = <<>> /\ x.step = "none"
        /\ x.near.open => x.near.status = 0
    /\ Cmds(x.toNear) \subseteq {RSP_CONNECT, SYS_ERROR, RSP_TELL, DataCmd}
    /\ Cmds(x.toFar) \subseteq {REQ_CONNECT, REQ_TELL, DataCmd}
    /\ Cmds(x.near.wait) \subseteq {DataCmd}

\* The far end knows who opened the connection.
Knows(o, x) == FarReads(x) => x.far.identify = o

\* An answer to REQ_TELL comes from a far end that knows.
Told(o, x) ==
    RSP_TELL \in Cmds(x.toNear) \/ (x.near.open /\ x.near.status = RSP_TELL) => Knows(o, x)

\* Without timeouts the handshake is the sequence of its four messages.
Prompt(o, x) ==
    /\ x.carrier # "manager" => REQ_CONNECT \notin Cmds(x.toFar)
    /\ \A i \in 2 .. Len(x.toFar) : x.toFar[i].cmd # REQ_CONNECT
    /\ SYS_ERROR \in Cmds(x.toNear) => SYS_ERROR = DataCmd
    /\ x.far.open =>
        /\ x.far.wait = <<>>
        /\ \/ x.far.identify = None /\ x.far.status = 255
           \/ x.far.identify = o /\ x.far.status = RSP_TELL
    /\ x.near.open => x.near.status <= RSP_TELL
    /\ \/ DataCmd \in Cmds(x.toFar) \/ DataCmd \in Cmds(x.toNear)
       \/ RSP_TELL \in Cmds(x.toNear) \/ x.got # <<>>
       \/ x.near.open /\ x.near.status = RSP_TELL
       => Knows(o, x)
    /\ x.near.open /\ x.near.status # RSP_TELL =>
        /\ \A i \in 1 .. Len(x.toNear) : x.toNear[i].cmd = DataCmd =>
              \E j \in 1 .. i - 1 : x.toNear[j].cmd = RSP_TELL
        /\ x.far.open /\ x.far.identify = o /\ x.carrier # "dead" =>
              RSP_TELL \in Cmds(x.toNear)
        /\ REQ_TELL \in Cmds(x.toFar) \/ RSP_TELL \in Cmds(x.toNear) => x.step = "tell"
    /\ x.near.open /\ x.near.status = RSP_TELL => x.near.wait = <<>>

\* When no application command has the low byte of RSP_TELL, an answered
\* connection has a far end that knows; when nothing times out, all of Prompt.
Good(o, x) ==
    /\ Placed(x)
    /\ DataCmd % 256 # RSP_TELL => Told(o, x)
    /\ "timeout" \notin Faults => Prompt(o, x)

ViewInv == \A c \in Conn : IF InUse(c) THEN Good(opener[c], Seen(c)) ELSE Untouched(c)

-----------------------------------------------------------------------------
(* What a step may do to a view.                                           *)

Opens(y) ==
    /\ y.carrier = "connecting" /\ y.step = "none"
    /\ y.near.open /\ y.near.status = 0
    /\ \E m \in Msg : m.cmd = DataCmd /\ y.near.wait = <<m>>
    /\ y.far = Closed
    /\ y.toNear = <<>> /\ y.toFar = <<>> /\ y.got = <<>>

\* Ends close, and what was under way is lost.
Less(x, y) ==
    /\ y.carrier \in {x.carrier, "dead"}
    /\ y.near \in {x.near, Closed} /\ y.far \in {x.far, Closed}
    /\ y.step = x.step \/ (y.step = "none" /\ y.near = Closed)
    /\ y.toNear = x.toNear \/ (y.toNear = <<>> /\ (y.near = Closed \/ y.carrier = "dead"))
    /\ y.toFar = x.toFar \/ (y.toFar = <<>> /\ (y.far = Closed \/ y.carrier = "dead"))
    /\ y.near # x.near => y.toNear = <<>>
    /\ y.far # x.far => y.toFar = <<>>
    /\ y.carrier # x.carrier =>
        y.toFar = <<>> /\ (x.carrier = "worker" => y.toNear = <<>>)
    /\ y.got = x.got

GivesUp(x, y) == "timeout" \in Faults /\ y = [x EXCEPT !.step = "none"]

Starts(x, y) ==
    /\ x.carrier = "connecting" /\ x.near.open
    /\ y = [x EXCEPT !.carrier = "manager", !.step = "connect",
                     !.near = AfterSend(x.near, Control(REQ_CONNECT)),
                     !.toFar = Append(x.toFar, Control(REQ_CONNECT))]

NearSends(m, x, y) ==
    /\ x.near.open
    /\ \/ m.cmd = DataCmd
       \/ "timeout" \in Faults /\ x.step # "none" /\ m.cmd \in {REQ_CONNECT, REQ_TELL}
    /\ y = [x EXCEPT !.near = AfterSend(x.near, m), !.toFar = ToFar(x, Written(x.near, m))]

FarSends(m, x, y) ==
    /\ x.far.open
    /\ m.cmd = DataCmd
    /\ x.got # <<>> \/ x.far.identify # None
    /\ y = [x EXCEPT !.far = AfterSend(x.far, m), !.toNear = ToNear(x, Written(x.far, m))]

Transfers(x, y) ==
    /\ x.carrier = "manager"
    /\ \E n \in 1 .. Len(x.toFar), passed \in BOOLEAN :
        y = [x EXCEPT !.carrier = IF passed THEN "passed" ELSE "dead",
                      !.toFar = IF passed THEN SubSeq(x.toFar, n + 1, Len(x.toFar)) ELSE <<>>,
                      !.toNear = IF x.near.open THEN Append(x.toNear, Control(RSP_CONNECT))
                                 ELSE x.toNear]

Accepts(x, y) ==
    /\ x.carrier = "passed"
    /\ y = [x EXCEPT !.carrier = "worker", !.far = Accepted]

NearHears(t, x, y) ==
    /\ x.near.open
    /\ x.toNear # <<>>
    /\ LET m == Head(x.toNear)  h == AfterRecv(x.near, m) IN
       \/ /\ m.cmd = RSP_CONNECT
          /\ y = [x EXCEPT !.step = "tell", !.near = AfterSend(h, Control(REQ_TELL)),
                           !.toNear = Tail(x.toNear),
                           !.toFar = ToFar(x, Written(h, Control(REQ_TELL)))]
       \/ /\ m.cmd = RSP_TELL /\ x.step = "tell"
          /\ y = [x EXCEPT !.step = "none", !.near = [h EXCEPT !.wait = <<>>, !.identify = t],
                           !.toNear = Tail(x.toNear), !.toFar = ToFar(x, h.wait)]
       \/ /\ m.cmd # RSP_TELL \/ x.step # "tell"
          /\ y = [x EXCEPT !.near = h, !.toNear = Tail(x.toNear)]

FarHears(o, x, y) ==
    /\ x.far.open
    /\ x.toFar # <<>>
    /\ LET m == Head(x.toFar)  h == AfterRecv(x.far, m) IN
       \/ /\ m.cmd = REQ_TELL
          /\ y = [x EXCEPT !.far = [AfterSend(h, Control(RSP_TELL)) EXCEPT !.identify = o],
                           !.toFar = Tail(x.toFar),
                           !.toNear = ToNear(x, Written(h, Control(RSP_TELL)))]
       \/ /\ m.cmd = REQ_CONNECT
          /\ y = [x EXCEPT !.far = h, !.toFar = Tail(x.toFar),
                           !.toNear = ToNear(x, <<Control(SYS_ERROR)>>)]
       \/ /\ m.cmd = DataCmd
          /\ \E g \in {x.got, Append(x.got, m.id)} :
                y = [x EXCEPT !.far = h, !.toFar = Tail(x.toFar), !.got = g]

\* A message that may be taken and not dispatched.
Silent(m) == m.cmd # DataCmd \/ DataCmd = SYS_ERROR

\* What happens when no message is accepted or dispatched.
Moved(o, t, x, y) ==
    \/ Less(x, y) \/ GivesUp(x, y) \/ Starts(x, y)
    \/ \E m \in {Control(REQ_CONNECT), Control(REQ_TELL)} : NearSends(m, x, y)
    \/ Transfers(x, y) \/ Accepts(x, y)
    \/ NearHears(t, x, y) /\ Silent(Head(x.toNear))
    \/ FarHears(o, x, y) /\ Silent(Head(x.toFar)) /\ y.got = x.got

Change(o, t, x, y) ==
    \/ Moved(o, t, x, y)
    \/ \E m \in Msg : NearSends(m, x, y) \/ FarSends(m, x, y)
    \/ NearHears(t, x, y) \/ FarHears(o, x, y)

-----------------------------------------------------------------------------
(* Commands of sequences.                                                  *)

LEMMA CmdsJoined ==
    ASSUME NEW s \in Seq(Msg), NEW u \in Seq(Msg)
    PROVE  s \o u \in Seq(Msg) /\ Cmds(s \o u) = Cmds(s) \cup Cmds(u)
<1>1. /\ s \o u \in Seq(Msg) /\ Len(s \o u) = Len(s) + Len(u)
      /\ Len(s) \in Nat /\ Len(u) \in Nat
      /\ \A i \in 1 .. Len(s) + Len(u) :
            (s \o u)[i] = IF i <= Len(s) THEN s[i] ELSE u[i - Len(s)]
  BY ConcatProperties, LenProperties
<1>2. ASSUME NEW k \in Cmds(s \o u) PROVE k \in Cmds(s) \cup Cmds(u)
  <2>1. PICK i \in 1 .. Len(s) + Len(u) : k = (s \o u)[i].cmd
    BY <1>1 DEF Cmds
  <2>2. CASE i <= Len(s)
    BY <1>1, <2>1, <2>2 DEF Cmds
  <2>3. CASE i > Len(s)
    <3>1. i - Len(s) \in 1 .. Len(u) /\ k = u[i - Len(s)].cmd
      BY <1>1, <2>1, <2>3
    <3>2. QED BY <3>1 DEF Cmds
  <2>4. QED BY <1>1, <2>2, <2>3
<1>3. ASSUME NEW k \in Cmds(s) PROVE k \in Cmds(s \o u)
  <2>1. PICK i \in 1 .. Len(s) : k = s[i].cmd
    BY DEF Cmds
  <2>2. i \in 1 .. Len(s \o u) /\ (s \o u)[i] = s[i]
    BY <1>1
  <2>3. QED BY <2>1, <2>2 DEF Cmds
<1>4. ASSUME NEW k \in Cmds(u) PROVE k \in Cmds(s \o u)
  <2>1. PICK i \in 1 .. Len(u) : k = u[i].cmd
    BY DEF Cmds
  <2>2. i + Len(s) \in 1 .. Len(s \o u) /\ (s \o u)[i + Len(s)] = u[i]
    BY <1>1
  <2>3. QED BY <2>1, <2>2 DEF Cmds
<1>5. QED BY <1>1, <1>2, <1>3, <1>4

LEMMA CmdsShort ==
    /\ Cmds(<<>>) = {}
    /\ \A m \in Msg : <<m>> \in Seq(Msg) /\ Cmds(<<m>>) = {m.cmd}
BY DEF Cmds

LEMMA CmdsAppended ==
    ASSUME NEW s \in Seq(Msg), NEW m \in Msg
    PROVE  Append(s, m) \in Seq(Msg) /\ Cmds(Append(s, m)) = Cmds(s) \cup {m.cmd}
<1>1. Append(s, m) = s \o <<m>>
  OBVIOUS
<1>2. <<m>> \in Seq(Msg) /\ Cmds(<<m>>) = {m.cmd}
  BY CmdsShort
<1>3. QED BY <1>1, <1>2, CmdsJoined

LEMMA CmdsOfTail ==
    ASSUME NEW s \in Seq(Msg), s # <<>>
    PROVE  /\ Head(s) \in Msg /\ Head(s) = s[1]
           /\ Tail(s) \in Seq(Msg)
           /\ Len(Tail(s)) = Len(s) - 1 /\ Len(s) \in Nat \ {0}
           /\ \A i \in 1 .. Len(Tail(s)) : Tail(s)[i] = s[i + 1]
           /\ Cmds(s) = {Head(s).cmd} \cup Cmds(Tail(s))
<1>1. /\ Head(s) \in Msg /\ Tail(s) \in Seq(Msg) /\ Len(Tail(s)) = Len(s) - 1
      /\ \A i \in 1 .. Len(Tail(s)) : Tail(s)[i] = s[i + 1]
  BY HeadTailProperties
<1>2. Head(s) = s[1] /\ Len(s) \in Nat \ {0}
  BY EmptySeq
<1>3. ASSUME NEW k \in Cmds(s) PROVE k \in {Head(s).cmd} \cup Cmds(Tail(s))
  <2>1. PICK i \in 1 .. Len(s) : k = s[i].cmd
    BY DEF Cmds
  <2>2. CASE i = 1
    BY <1>2, <2>1, <2>2
  <2>3. CASE i # 1
    <3>1. i - 1 \in 1 .. Len(Tail(s)) /\ Tail(s)[i - 1] = s[i]
      BY <1>1, <1>2, <2>3
    <3>2. QED BY <2>1, <3>1 DEF Cmds
  <2>4. QED BY <2>2, <2>3
<1>4. ASSUME NEW k \in Cmds(Tail(s)) PROVE k \in Cmds(s)
  <2>1. PICK i \in 1 .. Len(Tail(s)) : k = Tail(s)[i].cmd
    BY DEF Cmds
  <2>2. i + 1 \in 1 .. Len(s) /\ k = s[i + 1].cmd
    BY <1>1, <1>2, <2>1
  <2>3. QED BY <2>2 DEF Cmds
<1>5. Head(s).cmd \in Cmds(s)
  <2>1. 1 \in 1 .. Len(s)
    BY <1>2
  <2>2. QED BY <1>2, <2>1 DEF Cmds
<1>6. QED BY <1>1, <1>2, <1>3, <1>4, <1>5

LEMMA CmdsOfRest ==
    ASSUME NEW s \in Seq(Msg), NEW n \in 1 .. Len(s)
    PROVE  LET r == SubSeq(s, n + 1, Len(s)) IN
           /\ r \in Seq(Msg) /\ Cmds(r) \subseteq Cmds(s)
           /\ Len(r) \in Nat
           /\ \A i \in 1 .. Len(r) : \E j \in 2 .. Len(s) : r[i] = s[j]
<1> DEFINE r == SubSeq(s, n + 1, Len(s))
<1>1. Len(s) \in Nat /\ \A i \in n + 1 .. Len(s) : s[i] \in Msg
  BY LenProperties, ElementOfSeq
<1>2. /\ r \in Seq(Msg)
      /\ Len(r) = IF n + 1 <= Len(s) THEN Len(s) - (n + 1) + 1 ELSE 0
      /\ \A i \in 1 .. Len(s) - (n + 1) + 1 : r[i] = s[(n + 1) + i - 1]
  BY <1>1, SubSeqProperties
<1> HIDE DEF r
<1>3. \A i \in 1 .. Len(r) : n + i \in 2 .. Len(s) /\ r[i] = s[n + i]
  BY <1>1, <1>2
<1>4. Cmds(r) \subseteq Cmds(s)
  BY <1>1, <1>3 DEF Cmds
<1>5. QED BY <1>1, <1>2, <1>3, <1>4 DEF r

-----------------------------------------------------------------------------
(* Each kind of change keeps what is claimed of a view.                    *)

\* The commands of the handshake and of the application are different.
LEMMA CmdsDiffer ==
    /\ DataCmd \in Nat /\ DataCmd > RSP_TELL
    /\ DataCmd \notin {REQ_CONNECT, RSP_CONNECT, REQ_TELL, RSP_TELL}
    /\ REQ_CONNECT = 7 /\ RSP_CONNECT = 8 /\ REQ_TELL = 9 /\ RSP_TELL = 10
    /\ SYS_ERROR = 1000
BY CmdAssumption DEF REQ_CONNECT, RSP_CONNECT, REQ_TELL, RSP_TELL, SYS_ERROR

LEMMA ClosedIs ==
    /\ ~Closed.open /\ Closed.identify = None /\ Closed.wait = <<>>
    /\ Closed.status = 255
BY DEF Closed

LEMMA OpensGood ==
    ASSUME NEW o \in Worker, NEW y \in View, Opens(y)
    PROVE  Good(o, y)
<1>1. PICK m \in Msg : m.cmd = DataCmd /\ y.near.wait = <<m>>
  BY DEF Opens
<1>2. /\ y.carrier = "connecting" /\ y.step = "none"
      /\ y.near.open /\ y.near.status = 0
      /\ y.far = Closed
      /\ y.toNear = <<>> /\ y.toFar = <<>> /\ y.got = <<>>
  BY DEF Opens
<1>3. Cmds(y.near.wait) = {DataCmd} /\ Cmds(y.toNear) = {} /\ Cmds(y.toFar) = {}
  BY <1>1, <1>2, CmdsShort
<1>4. Placed(y)
  BY <1>2, <1>3, ClosedIs DEF Placed
<1>5. Told(o, y)
  BY <1>2, <1>3, CmdsDiffer DEF Told
<1>6. Prompt(o, y)
  <2>1. Len(y.toNear) = 0 /\ Len(y.toFar) = 0
    BY <1>2
  <2>2. QED
    BY <1>2, <1>3, <2>1, ClosedIs, CmdsDiffer DEF Prompt
<1>7. QED
  BY <1>4, <1>5, <1>6 DEF Good

\* A far end that is told stays so until it is gone.
LEMMA LessKnows ==
    ASSUME NEW o \in Worker, NEW x \in View, NEW y \in View,
           Placed(x), Less(x, y), Knows(o, x)
    PROVE  Knows(o, y)
<1> SUFFICES ASSUME FarReads(y) PROVE y.far.identify = o
  BY DEF Knows
<1>1. y.carrier = x.carrier /\ y.carrier # "dead"
  BY DEF Less, FarReads
<1>2. CASE y.far = x.far
  BY <1>1, <1>2 DEF Knows, FarReads
<1>3. CASE y.far = Closed
  <2>1. x.carrier \in {"manager", "passed"}
    BY <1>1, <1>3, ClosedIs DEF FarReads
  <2>2. y.far = x.far
    BY <1>3, <2>1 DEF Placed
  <2>3. QED
    BY <1>2, <2>2
<1>4. QED
  BY <1>2, <1>3 DEF Less

LEMMA LessGood ==
    ASSUME NEW o \in Worker, NEW x \in View, NEW y \in View, Good(o, x), Less(x, y)
    PROVE  Good(o, y)
<1>1. /\ Placed(x)
      /\ y.carrier \in {x.carrier, "dead"}
      /\ y.near \in {x.near, Closed} /\ y.far \in {x.far, Closed}
      /\ y.toNear \in {x.toNear, <<>>} /\ y.toFar \in {x.toFar, <<>>}
      /\ y.got = x.got
      /\ y.step = x.step \/ (y.step = "none" /\ y.near = Closed)
  BY DEF Less, Good
<1>2. /\ Cmds(y.toNear) \subseteq Cmds(x.toNear)
      /\ Cmds(y.toFar) \subseteq Cmds(x.toFar)
      /\ Cmds(y.near.wait) \subseteq Cmds(x.near.wait)
  BY <1>1, CmdsShort, ClosedIs
<1>3. Placed(y)
  <2>1. y.carrier # x.carrier => y.toFar = <<>>
    BY DEF Less
  <2>2. QED
    BY <1>1, <1>2, <2>1, ClosedIs DEF Placed
<1>4. Knows(o, x) => Knows(o, y)
  BY <1>1, LessKnows
<1>5. Told(o, x) => Told(o, y)
  BY <1>1, <1>2, <1>4, ClosedIs DEF Told
<1>6. ASSUME Prompt(o, x) PROVE Prompt(o, y)
  <2>1. /\ y.carrier # "manager" => REQ_CONNECT \notin Cmds(y.toFar)
        /\ \A i \in 2 .. Len(y.toFar) : y.toFar[i].cmd # REQ_CONNECT
        /\ SYS_ERROR \in Cmds(y.toNear) => SYS_ERROR = DataCmd
    <3>1. y.carrier # x.carrier => y.toFar = <<>>
      BY DEF Less
    <3>2. QED
      BY <1>1, <1>2, <1>6, <3>1, CmdsShort DEF Prompt
  <2>2. y.far.open =>
        /\ y.far.wait = <<>>
        /\ \/ y.far.identify = None /\ y.far.status = 255
           \/ y.far.identify = o /\ y.far.status = RSP_TELL
    BY <1>1, <1>6, ClosedIs DEF Prompt
  <2>3. /\ y.near.open => y.near.status <= RSP_TELL
        /\ y.near.open /\ y.near.status = RSP_TELL => y.near.wait = <<>>
    BY <1>1, <1>6, ClosedIs DEF Prompt
  <2>4. \/ DataCmd \in Cmds(y.toFar) \/ DataCmd \in Cmds(y.toNear)
        \/ RSP_TELL \in Cmds(y.toNear) \/ y.got # <<>>
        \/ y.near.open /\ y.near.status = RSP_TELL
        => Knows(o, y)
    BY <1>1, <1>2, <1>4, <1>6, ClosedIs DEF Prompt
  <2>5. ASSUME y.near.open, y.near.status # RSP_TELL
        PROVE  /\ \A i \in 1 .. Len(y.toNear) : y.toNear[i].cmd = DataCmd =>
                     \E j \in 1 .. i - 1 : y.toNear[j].cmd = RSP_TELL
               /\ y.far.open /\ y.far.identify = o /\ y.carrier # "dead" =>
                     RSP_TELL \in Cmds(y.toNear)
               /\ REQ_TELL \in Cmds(y.toFar) \/ RSP_TELL \in Cmds(y.toNear) => y.step = "tell"
    <3>1. y.near = x.near /\ y.step = x.step
      BY <1>1, <2>5, ClosedIs
    <3>2. y.toNear = x.toNear \/ (y.toNear = <<>> /\ y.carrier = "dead")
      BY <3>1, <2>5, ClosedIs DEF Less
    <3>3. \A i \in 1 .. Len(x.toNear) : x.toNear[i].cmd = DataCmd =>
                     \E j \in 1 .. i - 1 : x.toNear[j].cmd = RSP_TELL
      BY <1>6, <2>5, <3>1 DEF Prompt
    <3>4. /\ x.far.open /\ x.far.identify = o /\ x.carrier # "dead" =>
                     RSP_TELL \in Cmds(x.toNear)
          /\ REQ_TELL \in Cmds(x.toFar) \/ RSP_TELL \in Cmds(x.toNear) => x.step = "tell"
      BY <1>6, <2>5, <3>1 DEF Prompt
    <3>5. \A i \in 1 .. Len(y.toNear) : y.toNear[i].cmd = DataCmd =>
                     \E j \in 1 .. i - 1 : y.toNear[j].cmd = RSP_TELL
      BY <3>2, <3>3
    <3>6. QED
      BY <1>1, <1>2, <3>1, <3>2, <3>4, <3>5, ClosedIs
  <2>6. QED
    BY <2>1, <2>2, <2>3, <2>4, <2>5 DEF Prompt
<1>7. QED
  BY <1>3, <1>5, <1>6 DEF Good

LEMMA GivesUpGood ==
    ASSUME NEW o \in Worker, NEW x \in View, NEW y \in View, Good(o, x), GivesUp(x, y)
    PROVE  Good(o, y)
<1>1. /\ y.carrier = x.carrier /\ y.near = x.near /\ y.far = x.far
      /\ y.toNear = x.toNear /\ y.toFar = x.toFar /\ y.step = "none"
      /\ y.got = x.got
  BY DEF GivesUp, View
<1>2. Placed(y)
  BY <1>1 DEF Good, Placed
<1>3. Told(o, x) => Told(o, y)
  BY <1>1 DEF Told, Knows, FarReads
<1>4. QED
  BY <1>2, <1>3 DEF Good, GivesUp

\* The first write finds an attribute whose handshake has not begun.
LEMMA StartsGood ==
    ASSUME NEW o \in Worker, NEW x \in View, NEW y \in View, Good(o, x), Starts(x, y)
    PROVE  Good(o, y)
<1> DEFINE m == Control(REQ_CONNECT)
<1>1. /\ x.near \in Attr /\ x.near.open /\ x.near.status = 0
      /\ x.far = Closed /\ x.got = <<>>
      /\ x.carrier = "connecting" /\ x.toNear = <<>> /\ x.toFar = <<>>
      /\ Cmds(x.near.wait) \subseteq {DataCmd}
  BY DEF Starts, Good, Placed, View
<1>2. m \in Msg /\ m.cmd = 7
  BY ControlMsgs, CmdsDiffer DEF Control
<1>3. AfterSend(x.near, m) = [x.near EXCEPT !.status = 7]
  <2>1. ~Held(x.near, m) /\ x.near.status < RSP_TELL
    BY <1>1, <1>2, CmdsDiffer DEF Held
  <2>2. m.cmd % 256 = 7
    BY <1>2
  <2>3. QED
    BY <2>1, <2>2 DEF AfterSend
<1>4. /\ y.carrier = "manager" /\ y.step = "connect" /\ y.far = Closed
      /\ y.toNear = <<>> /\ y.toFar = Append(<<>>, m) /\ y.got = x.got
      /\ y.near = [x.near EXCEPT !.status = 7]
  BY <1>1, <1>3 DEF Starts, View
<1>5. y.near.open /\ y.near.status = 7 /\ y.near.wait = x.near.wait
  BY <1>1, <1>4 DEF Attr
<1>6. /\ y.toFar = <<m>>
      /\ Cmds(y.toFar) = {REQ_CONNECT} /\ Cmds(y.toNear) = {} /\ Len(y.toFar) = 1
  BY <1>2, <1>4, CmdsShort, CmdsDiffer
<1>7. Placed(y)
  BY <1>1, <1>4, <1>5, <1>6, ClosedIs DEF Placed
<1>8. Told(o, y)
  BY <1>5, <1>6, CmdsDiffer DEF Told
<1>9. ASSUME Prompt(o, x) PROVE Prompt(o, y)
  <2>1. Len(y.toNear) = 0
    BY <1>4
  <2>2. QED
    BY <1>1, <1>4, <1>5, <1>6, <2>1, ClosedIs, CmdsDiffer DEF Prompt
<1>10. QED
  BY <1>7, <1>8, <1>9 DEF Good

\* What SendTo does to an attribute: the message waits, or becomes the status
\* of the handshake, or leaves the attribute alone.
LEMMA SendIs ==
    ASSUME NEW k \in Attr, NEW m \in Msg
    PROVE  LET a == AfterSend(k, m)  u == Written(k, m) IN
           /\ a.open = k.open /\ a.identify = k.identify
           /\ \/ /\ k.status < RSP_TELL /\ m.cmd > RSP_TELL
                 /\ a.status = k.status /\ a.wait = Append(k.wait, m) /\ u = <<>>
              \/ /\ k.status < RSP_TELL /\ m.cmd <= RSP_TELL
                 /\ a.status = m.cmd /\ a.wait = k.wait /\ u = <<m>>
              \/ /\ k.status >= RSP_TELL
                 /\ a = k /\ u = <<m>>
<1>1. RSP_TELL = 10 /\ k.status \in 0 .. 255 /\ m.cmd \in Nat
  BY CmdsDiffer DEF Attr, Msg
<1>2. CASE Held(k, m)
  BY <1>1, <1>2 DEF AfterSend, Written, Held, Attr
<1>3. CASE ~Held(k, m) /\ k.status < RSP_TELL
  <2>1. m.cmd % 256 = m.cmd /\ m.cmd <= RSP_TELL
    BY <1>1, <1>3 DEF Held
  <2>2. QED
    BY <1>1, <1>3, <2>1 DEF AfterSend, Written, Attr
<1>4. CASE ~Held(k, m) /\ ~(k.status < RSP_TELL)
  BY <1>1, <1>4 DEF AfterSend, Written
<1>5. QED
  BY <1>2, <1>3, <1>4

\* What is written arrives behind what is under way, or nowhere.
LEMMA WrittenCmds ==
    ASSUME NEW x \in View, NEW u \in Seq(Msg)
    PROVE  /\ ToFar(x, u) \in {x.toFar, x.toFar \o u}
           /\ ToNear(x, u) \in {x.toNear, x.toNear \o u}
           /\ x.carrier = "dead" => ToFar(x, u) = x.toFar
           /\ Cmds(x.toFar) \subseteq Cmds(ToFar(x, u))
           /\ Cmds(ToFar(x, u)) \subseteq Cmds(x.toFar) \cup Cmds(u)
           /\ Cmds(x.toNear) \subseteq Cmds(ToNear(x, u))
           /\ Cmds(ToNear(x, u)) \subseteq Cmds(x.toNear) \cup Cmds(u)
<1>1. x.toFar \in Seq(Msg) /\ x.toNear \in Seq(Msg)
  BY DEF View
<1>2. /\ Cmds(x.toFar \o u) = Cmds(x.toFar) \cup Cmds(u)
      /\ Cmds(x.toNear \o u) = Cmds(x.toNear) \cup Cmds(u)
  BY <1>1, CmdsJoined
<1>3. ToFar(x, u) \in {x.toFar, x.toFar \o u} /\ ToNear(x, u) \in {x.toNear, x.toNear \o u}
  BY DEF ToFar, ToNear
<1>4. x.carrier = "dead" => ToFar(x, u) = x.toFar
  BY DEF ToFar, FarReads
<1>5. QED
  BY <1>2, <1>3, <1>4

\* No REQ_CONNECT appears behind the first message when none is written.
LEMMA FirstRequest ==
    ASSUME NEW s \in Seq(Msg), NEW u \in Seq(Msg), REQ_CONNECT \notin Cmds(u),
           \A i \in 2 .. Len(s) : s[i].cmd # REQ_CONNECT
    PROVE  \A i \in 2 .. Len(s \o u) : (s \o u)[i].cmd # REQ_CONNECT
<1>1. /\ Len(s \o u) = Len(s) + Len(u) /\ Len(s) \in Nat /\ Len(u) \in Nat
      /\ \A i \in 1 .. Len(s) + Len(u) :
            (s \o u)[i] = IF i <= Len(s) THEN s[i] ELSE u[i - Len(s)]
  BY ConcatProperties, LenProperties
<1>2. TAKE i \in 2 .. Len(s \o u)
<1>3. CASE i <= Len(s)
  BY <1>1, <1>2, <1>3
<1>4. CASE i > Len(s)
  <2>1. i - Len(s) \in 1 .. Len(u) /\ (s \o u)[i] = u[i - Len(s)]
    BY <1>1, <1>2, <1>4
  <2>2. u[i - Len(s)].cmd \in Cmds(u)
    BY <2>1 DEF Cmds
  <2>3. QED
    BY <2>1, <2>2
<1>5. QED
  BY <1>1, <1>2, <1>3, <1>4

\* The answer stays ahead of data when data is written behind it.
LEMMA AnswerFirst ==
    ASSUME NEW s \in Seq(Msg), NEW u \in Seq(Msg),
           \A i \in 1 .. Len(s) : s[i].cmd = DataCmd =>
                \E j \in 1 .. i - 1 : s[j].cmd = RSP_TELL,
           DataCmd \in Cmds(u) => RSP_TELL \in Cmds(s)
    PROVE  \A i \in 1 .. Len(s \o u) : (s \o u)[i].cmd = DataCmd =>
                \E j \in 1 .. i - 1 : (s \o u)[j].cmd = RSP_TELL
<1>1. /\ Len(s \o u) = Len(s) + Len(u) /\ Len(s) \in Nat /\ Len(u) \in Nat
      /\ \A i \in 1 .. Len(s) + Len(u) :
            (s \o u)[i] = IF i <= Len(s) THEN s[i] ELSE u[i - Len(s)]
  BY ConcatProperties, LenProperties
<1> SUFFICES ASSUME NEW i \in 1 .. Len(s \o u), (s \o u)[i].cmd = DataCmd
             PROVE  \E j \in 1 .. i - 1 : (s \o u)[j].cmd = RSP_TELL
  OBVIOUS
<1>2. CASE i <= Len(s)
  <2>1. PICK j \in 1 .. i - 1 : s[j].cmd = RSP_TELL
    BY <1>1, <1>2
  <2>2. (s \o u)[j] = s[j]
    BY <1>1, <1>2
  <2>3. QED
    BY <2>1, <2>2
<1>3. CASE i > Len(s)
  <2>1. i - Len(s) \in 1 .. Len(u) /\ (s \o u)[i] = u[i - Len(s)]
    BY <1>1, <1>3
  <2>2. DataCmd \in Cmds(u)
    BY <2>1 DEF Cmds
  <2>3. PICK j \in 1 .. Len(s) : s[j].cmd = RSP_TELL
    BY <2>2 DEF Cmds
  <2>4. (s \o u)[j] = s[j] /\ j \in 1 .. i - 1
    BY <1>1, <1>3
  <2>5. QED
    BY <2>3, <2>4
<1>4. QED
  BY <1>1, <1>2, <1>3

LEMMA NearSendsGood ==
    ASSUME NEW o \in Worker, NEW x \in View, NEW y \in View, NEW m \in Msg,
           Good(o, x), NearSends(m, x, y)
    PROVE  Good(o, y)
<1> DEFINE u == Written(x.near, m)
<1>1. /\ x.near \in Attr /\ x.toFar \in Seq(Msg) /\ x.near.wait \in Seq(Msg)
      /\ x.near.status \in 0 .. 255
  BY DEF View, Attr
<1>2. /\ y.carrier = x.carrier /\ y.step = x.step /\ y.far = x.far
      /\ y.toNear = x.toNear /\ y.got = x.got
      /\ y.near = AfterSend(x.near, m) /\ y.toFar = ToFar(x, u)
      /\ x.near.open
  BY DEF NearSends, View
<1>3. /\ y.near.open
      /\ \/ /\ x.near.status < RSP_TELL /\ m.cmd > RSP_TELL
            /\ y.near.status = x.near.status /\ y.near.wait = Append(x.near.wait, m) /\ u = <<>>
         \/ /\ x.near.status < RSP_TELL /\ m.cmd <= RSP_TELL
            /\ y.near.status = m.cmd /\ y.near.wait = x.near.wait /\ u = <<m>>
         \/ /\ x.near.status >= RSP_TELL
            /\ y.near = x.near /\ u = <<m>>
  BY <1>1, <1>2, SendIs
<1>4. m.cmd \in {DataCmd, REQ_CONNECT, REQ_TELL}
  BY DEF NearSends
<1>5. u \in Seq(Msg) /\ Cmds(u) \subseteq {m.cmd}
  <2>1. Cmds(<<>>) = {} /\ <<m>> \in Seq(Msg) /\ Cmds(<<m>>) = {m.cmd}
    BY CmdsShort
  <2>2. u \in Seq(Msg) /\ (u = <<>> \/ u = <<m>>)
    BY <1>3, <2>1, NoMsgs
  <2>3. QED
    BY <2>1, <2>2
<1> HIDE DEF u
<1>6. /\ y.toFar \in {x.toFar, x.toFar \o u}
      /\ x.carrier = "dead" => y.toFar = x.toFar
      /\ Cmds(y.toFar) \subseteq Cmds(x.toFar) \cup {m.cmd}
      /\ Cmds(y.toFar) \subseteq Cmds(x.toFar) \cup Cmds(u)
  BY <1>2, <1>5, WrittenCmds
<1>7. Placed(y)
  <2>1. Cmds(y.near.wait) \subseteq {DataCmd}
    <3>1. Cmds(Append(x.near.wait, m)) = Cmds(x.near.wait) \cup {m.cmd}
      BY <1>1, CmdsAppended
    <3>2. m.cmd > RSP_TELL => m.cmd = DataCmd
      BY <1>4, CmdsDiffer
    <3>3. Cmds(x.near.wait) \subseteq {DataCmd}
      BY DEF Good, Placed
    <3>4. QED
      BY <1>3, <3>1, <3>2, <3>3
  <2>2. x.carrier = "connecting" =>
            y.toFar = <<>> /\ (x.step = "none" /\ x.near.status = 0)
    <3>1. x.carrier = "connecting" =>
            x.far.open = FALSE /\ x.toFar = <<>> /\ x.step = "none" /\ x.near.status = 0
      BY <1>2 DEF Good, Placed, View, Attr
    <3>2. ToFar(x, u) = x.toFar \/ x.carrier # "connecting" \/ x.far.open
      BY DEF ToFar, FarReads
    <3>3. QED
      BY <1>2, <3>1, <3>2
  <2>3. x.carrier = "connecting" => y.near.status = 0
    <3>1. x.carrier = "connecting" => m.cmd = DataCmd
      BY <2>2 DEF NearSends
    <3>2. QED
      BY <1>3, <2>2, <3>1, CmdsDiffer
  <2>4. QED
    BY <1>2, <1>3, <1>4, <1>6, <2>1, <2>2, <2>3 DEF Good, Placed
<1>8. Knows(o, y) <=> Knows(o, x)
  BY <1>2 DEF Knows, FarReads
<1>9. y.near.status = RSP_TELL => x.near.status = RSP_TELL
  BY <1>1, <1>3, <1>4, CmdsDiffer
<1>10. Told(o, x) => Told(o, y)
  BY <1>2, <1>8, <1>9 DEF Told
<1>11. ASSUME "timeout" \notin Faults PROVE Prompt(o, y)
  <2>1. Prompt(o, x) /\ m.cmd = DataCmd
    BY <1>11 DEF Good, NearSends
  <2>2. /\ \/ y.near.status = x.near.status /\ x.near.status < RSP_TELL /\ u = <<>>
           \/ y.near = x.near /\ x.near.status = RSP_TELL
    <3>1. x.near.status <= RSP_TELL
      BY <1>2, <2>1 DEF Prompt
    <3>2. x.near.status \in 0 .. 255
      BY <1>1
    <3>3. RSP_TELL = 10 /\ DataCmd \in Nat /\ DataCmd > RSP_TELL
      BY CmdsDiffer
    <3>4. x.near.status >= RSP_TELL => x.near.status = RSP_TELL
      BY <3>1, <3>2, <3>3
    <3>5. ~(m.cmd <= RSP_TELL)
      BY <2>1, <3>3
    <3>6. QED
      BY <1>3, <3>4, <3>5, Zenon
  <2>3. /\ y.carrier # "manager" => REQ_CONNECT \notin Cmds(y.toFar)
        /\ \A i \in 2 .. Len(y.toFar) : y.toFar[i].cmd # REQ_CONNECT
    <3>1. REQ_CONNECT \notin Cmds(u)
      BY <1>5, <2>1, CmdsDiffer
    <3>2. /\ x.carrier # "manager" => REQ_CONNECT \notin Cmds(x.toFar)
          /\ \A i \in 2 .. Len(x.toFar) : x.toFar[i].cmd # REQ_CONNECT
      BY <2>1 DEF Prompt
    <3>3. \A i \in 2 .. Len(x.toFar \o u) : (x.toFar \o u)[i].cmd # REQ_CONNECT
      BY <1>1, <1>5, <3>1, <3>2, FirstRequest
    <3>4. CASE y.toFar = x.toFar
      BY <1>2, <3>2, <3>4
    <3>5. CASE y.toFar = x.toFar \o u
      BY <1>2, <1>6, <3>1, <3>2, <3>3, <3>5
    <3>6. QED
      BY <1>6, <3>4, <3>5
  <2>4. Knows(o, x) \/ DataCmd \notin Cmds(y.toFar)
    <3>1. DataCmd \in Cmds(x.toFar) \/ (x.near.open /\ x.near.status = RSP_TELL) => Knows(o, x)
      BY <2>1 DEF Prompt
    <3>2. u = <<>> => Cmds(u) = {}
      BY CmdsShort
    <3>3. QED
      BY <1>2, <1>6, <2>2, <3>1, <3>2
  <2>5. y.near.status # RSP_TELL => Cmds(y.toFar) \subseteq Cmds(x.toFar)
    BY <1>6, <2>2, CmdsShort
  <2>6. y.near.status <= RSP_TELL /\ (y.near.status = RSP_TELL => y.near.wait = <<>>)
    BY <1>2, <2>1, <2>2, CmdsDiffer DEF Prompt
  <2>7. /\ y.near.status # RSP_TELL =>
            /\ \A i \in 1 .. Len(y.toNear) : y.toNear[i].cmd = DataCmd =>
                  \E j \in 1 .. i - 1 : y.toNear[j].cmd = RSP_TELL
            /\ y.far.open /\ y.far.identify = o /\ y.carrier # "dead" =>
                  RSP_TELL \in Cmds(y.toNear)
            /\ REQ_TELL \in Cmds(y.toFar) \/ RSP_TELL \in Cmds(y.toNear) => y.step = "tell"
    <3>1. y.near.status # RSP_TELL => x.near.status # RSP_TELL
      BY <2>2
    <3>2. QED
      BY <1>2, <2>1, <2>5, <3>1 DEF Prompt
  <2>8. /\ SYS_ERROR \in Cmds(y.toNear) => SYS_ERROR = DataCmd
        /\ y.far.open =>
            /\ y.far.wait = <<>>
            /\ \/ y.far.identify = None /\ y.far.status = 255
               \/ y.far.identify = o /\ y.far.status = RSP_TELL
    BY <1>2, <2>1 DEF Prompt
  <2>9. \/ DataCmd \in Cmds(y.toFar) \/ DataCmd \in Cmds(y.toNear)
        \/ RSP_TELL \in Cmds(y.toNear) \/ y.got # <<>>
        \/ y.near.open /\ y.near.status = RSP_TELL
        => Knows(o, x)
    BY <1>2, <1>9, <2>1, <2>4 DEF Prompt
  <2>10. QED
    BY <1>8, <2>3, <2>6, <2>7, <2>8, <2>9 DEF Prompt
<1>12. QED
  BY <1>7, <1>10, <1>11 DEF Good

LEMMA FarSendsGood ==
    ASSUME NEW o \in Worker, NEW x \in View, NEW y \in View, NEW m \in Msg,
           Good(o, x), FarSends(m, x, y)
    PROVE  Good(o, y)
<1> DEFINE u == Written(x.far, m)
<1>1. x.far \in Attr /\ x.toNear \in Seq(Msg)
  BY DEF View
<1>2. /\ y.carrier = x.carrier /\ y.step = x.step /\ y.near = x.near
      /\ y.toFar = x.toFar /\ y.got = x.got
      /\ y.far = AfterSend(x.far, m) /\ y.toNear = ToNear(x, u)
      /\ x.far.open /\ m.cmd = DataCmd
  BY DEF FarSends, View
<1>3. y.far.open = x.far.open /\ y.far.identify = x.far.identify
  BY <1>1, <1>2, SendIs
<1>4. u \in Seq(Msg) /\ Cmds(u) \subseteq {DataCmd}
  <2>1. Cmds(<<>>) = {} /\ <<m>> \in Seq(Msg) /\ Cmds(<<m>>) = {m.cmd}
    BY CmdsShort
  <2>2. u \in Seq(Msg) /\ (u = <<>> \/ u = <<m>>)
    BY <2>1, NoMsgs DEF Written
  <2>3. QED
    BY <1>2, <2>1, <2>2
<1> HIDE DEF u
<1>5. /\ y.toNear \in {x.toNear, x.toNear \o u}
      /\ Cmds(y.toNear) \subseteq Cmds(x.toNear) \cup {DataCmd}
      /\ Cmds(x.toNear) \subseteq Cmds(y.toNear)
  BY <1>2, <1>4, WrittenCmds
<1>6. Placed(y)
  BY <1>2, <1>3, <1>5 DEF Good, Placed
<1>7. Knows(o, y) <=> Knows(o, x)
  BY <1>2, <1>3 DEF Knows, FarReads
<1>8. Told(o, x) => Told(o, y)
  BY <1>2, <1>5, <1>7, CmdsDiffer DEF Told
<1>9. ASSUME "timeout" \notin Faults PROVE Prompt(o, y)
  <2>1. Prompt(o, x)
    BY <1>9 DEF Good
  <2>2. /\ x.far.wait = <<>>
        /\ \/ x.far.identify = None /\ x.far.status = 255
           \/ x.far.identify = o /\ x.far.status = RSP_TELL
    BY <1>2, <2>1 DEF Prompt
  <2>3. y.far = x.far
    <3>1. ~(x.far.status < RSP_TELL)
      BY <2>2, CmdsDiffer
    <3>2. QED
      BY <1>2, <3>1 DEF AfterSend, Held
  <2>4. y.toNear = x.toNear \/ (x.near.open /\ x.carrier # "dead")
    BY <1>2 DEF ToNear, NearReads
  <2>5. x.carrier # "dead" => x.far.identify = o
    <3>1. x.got # <<>> => Knows(o, x)
      BY <2>1 DEF Prompt
    <3>2. QED
      BY <1>2, <2>2, <3>1 DEF FarSends, Knows, FarReads
  <2>6. DataCmd \in Cmds(y.toNear) => DataCmd \in Cmds(x.toNear) \/ Knows(o, x)
    BY <2>4, <2>5 DEF Knows
  <2>7. ASSUME y.near.open, y.near.status # RSP_TELL
        PROVE  \A i \in 1 .. Len(y.toNear) : y.toNear[i].cmd = DataCmd =>
                  \E j \in 1 .. i - 1 : y.toNear[j].cmd = RSP_TELL
    <3>1. /\ \A i \in 1 .. Len(x.toNear) : x.toNear[i].cmd = DataCmd =>
                  \E j \in 1 .. i - 1 : x.toNear[j].cmd = RSP_TELL
          /\ x.far.open /\ x.far.identify = o /\ x.carrier # "dead" =>
                  RSP_TELL \in Cmds(x.toNear)
      BY <1>2, <2>1, <2>7 DEF Prompt
    <3>2. CASE y.toNear = x.toNear
      BY <3>1, <3>2
    <3>3. CASE y.toNear = x.toNear \o u /\ x.carrier # "dead"
      <4>1. RSP_TELL \in Cmds(x.toNear)
        BY <1>2, <2>5, <3>1, <3>3
      <4>2. \A i \in 1 .. Len(x.toNear \o u) : (x.toNear \o u)[i].cmd = DataCmd =>
                  \E j \in 1 .. i - 1 : (x.toNear \o u)[j].cmd = RSP_TELL
        BY <1>1, <1>4, <3>1, <4>1, AnswerFirst
      <4>3. QED
        BY <3>3, <4>2
    <3>4. QED
      BY <1>5, <2>4, <3>2, <3>3
  <2>8. ASSUME y.near.open, y.near.status # RSP_TELL
        PROVE  /\ y.far.open /\ y.far.identify = o /\ y.carrier # "dead" =>
                  RSP_TELL \in Cmds(y.toNear)
               /\ REQ_TELL \in Cmds(y.toFar) \/ RSP_TELL \in Cmds(y.toNear) => y.step = "tell"
    <3>1. RSP_TELL \in Cmds(y.toNear) => RSP_TELL \in Cmds(x.toNear)
      BY <1>5, CmdsDiffer
    <3>2. /\ x.far.open /\ x.far.identify = o /\ x.carrier # "dead" =>
                  RSP_TELL \in Cmds(x.toNear)
          /\ REQ_TELL \in Cmds(x.toFar) \/ RSP_TELL \in Cmds(x.toNear) => x.step = "tell"
      BY <1>2, <2>1, <2>8 DEF Prompt
    <3>3. QED
      BY <1>2, <1>5, <2>3, <3>1, <3>2
  <2>9. /\ y.carrier # "manager" => REQ_CONNECT \notin Cmds(y.toFar)
        /\ \A i \in 2 .. Len(y.toFar) : y.toFar[i].cmd # REQ_CONNECT
        /\ SYS_ERROR \in Cmds(y.toNear) => SYS_ERROR = DataCmd
        /\ y.near.open => y.near.status <= RSP_TELL
        /\ y.near.open /\ y.near.status = RSP_TELL => y.near.wait = <<>>
    BY <1>2, <1>5, <2>1 DEF Prompt
  <2>10. \/ DataCmd \in Cmds(y.toFar) \/ DataCmd \in Cmds(y.toNear)
         \/ RSP_TELL \in Cmds(y.toNear) \/ y.got # <<>>
         \/ y.near.open /\ y.near.status = RSP_TELL
         => Knows(o, y)
    <3>1. \/ DataCmd \in Cmds(x.toFar) \/ DataCmd \in Cmds(x.toNear)
          \/ RSP_TELL \in Cmds(x.toNear) \/ x.got # <<>>
          \/ x.near.open /\ x.near.status = RSP_TELL
          => Knows(o, x)
      BY <2>1 DEF Prompt
    <3>2. RSP_TELL \in Cmds(y.toNear) => RSP_TELL \in Cmds(x.toNear)
      BY <1>5, CmdsDiffer
    <3>3. QED
      BY <1>2, <1>7, <2>6, <3>1, <3>2
  <2>11. QED
    BY <2>2, <2>3, <2>7, <2>8, <2>9, <2>10 DEF Prompt
<1>10. QED
  BY <1>6, <1>8, <1>9 DEF Good

LEMMA TransfersGood ==
    ASSUME NEW o \in Worker, NEW x \in View, NEW y \in View, Good(o, x), Transfers(x, y)
    PROVE  Good(o, y)
<1>1. PICK n \in 1 .. Len(x.toFar), passed \in BOOLEAN :
        y = [x EXCEPT !.carrier = IF passed THEN "passed" ELSE "dead",
                      !.toFar = IF passed THEN SubSeq(x.toFar, n + 1, Len(x.toFar)) ELSE <<>>,
                      !.toNear = IF x.near.open THEN Append(x.toNear, Control(RSP_CONNECT))
                                 ELSE x.toNear]
  BY DEF Transfers
<1> DEFINE r == SubSeq(x.toFar, n + 1, Len(x.toFar))
           u == <<Control(RSP_CONNECT)>>
<1>2. /\ x.toFar \in Seq(Msg) /\ x.toNear \in Seq(Msg) /\ x.carrier = "manager"
      /\ x.far = Closed /\ x.got = <<>>
  BY DEF Transfers, View, Good, Placed
<1>3. /\ y.carrier = IF passed THEN "passed" ELSE "dead"
      /\ y.step = x.step /\ y.near = x.near /\ y.far = x.far /\ y.got = x.got
      /\ y.toFar = IF passed THEN r ELSE <<>>
      /\ y.toNear = x.toNear \/ y.toNear = Append(x.toNear, Control(RSP_CONNECT))
  BY <1>1 DEF View
<1>4. /\ Cmds(r) \subseteq Cmds(x.toFar)
      /\ Len(r) \in Nat
      /\ \A i \in 1 .. Len(r) : \E j \in 2 .. Len(x.toFar) : r[i] = x.toFar[j]
  BY <1>2, CmdsOfRest
<1> HIDE DEF r
<1>5. /\ u \in Seq(Msg) /\ Cmds(u) = {RSP_CONNECT}
      /\ y.toNear = x.toNear \/ y.toNear = x.toNear \o u
  <2>1. Control(RSP_CONNECT) \in Msg /\ Control(RSP_CONNECT).cmd = RSP_CONNECT
    BY ControlMsgs DEF Control
  <2>2. Append(x.toNear, Control(RSP_CONNECT)) = x.toNear \o u
    BY <1>2, <2>1
  <2>3. QED
    BY <1>3, <2>1, <2>2, CmdsShort
<1> HIDE DEF u
<1>6. Cmds(x.toNear \o u) = Cmds(x.toNear) \cup {RSP_CONNECT}
  BY <1>2, <1>5, CmdsJoined
<1>7. /\ Cmds(y.toNear) \subseteq Cmds(x.toNear) \cup {RSP_CONNECT}
      /\ Cmds(x.toNear) \subseteq Cmds(y.toNear)
      /\ Cmds(y.toFar) \subseteq Cmds(x.toFar)
  <2>1. Cmds(y.toFar) \subseteq Cmds(x.toFar)
    BY <1>3, <1>4, CmdsShort
  <2>2. QED
    BY <1>5, <1>6, <2>1
<1>8. Placed(y)
  BY <1>2, <1>3, <1>7, ClosedIs DEF Good, Placed
<1>9. Knows(o, x) => Knows(o, y)
  BY <1>2, <1>3 DEF Knows, FarReads
<1>10. Told(o, x) => Told(o, y)
  BY <1>3, <1>7, <1>9, CmdsDiffer DEF Told
<1>11. ASSUME "timeout" \notin Faults PROVE Prompt(o, y)
  <2>1. Prompt(o, x)
    BY <1>11 DEF Good
  <2>2. \A i \in 1 .. Len(r) : r[i].cmd # REQ_CONNECT
    <3>1. \A j \in 2 .. Len(x.toFar) : x.toFar[j].cmd # REQ_CONNECT
      BY <2>1 DEF Prompt
    <3>2. QED
      BY <1>4, <3>1
  <2>3. /\ REQ_CONNECT \notin Cmds(y.toFar)
        /\ \A i \in 2 .. Len(y.toFar) : y.toFar[i].cmd # REQ_CONNECT
    <3>1. CASE passed
      <4>1. y.toFar = r
        BY <1>3, <3>1
      <4>2. \A i \in 2 .. Len(r) : i \in 1 .. Len(r)
        BY <1>4
      <4>3. QED
        BY <2>2, <4>1, <4>2 DEF Cmds
    <3>2. CASE ~passed
      <4>1. y.toFar = <<>> /\ Cmds(<<>>) = {} /\ Len(<<>>) = 0
        BY <1>3, <3>2, CmdsShort
      <4>2. QED
        BY <4>1
    <3>3. QED
      BY <3>1, <3>2
  <2>4. ASSUME y.near.open, y.near.status # RSP_TELL
        PROVE  /\ \A i \in 1 .. Len(y.toNear) : y.toNear[i].cmd = DataCmd =>
                     \E j \in 1 .. i - 1 : y.toNear[j].cmd = RSP_TELL
               /\ REQ_TELL \in Cmds(y.toFar) \/ RSP_TELL \in Cmds(y.toNear) => y.step = "tell"
    <3>1. /\ \A i \in 1 .. Len(x.toNear) : x.toNear[i].cmd = DataCmd =>
                     \E j \in 1 .. i - 1 : x.toNear[j].cmd = RSP_TELL
          /\ REQ_TELL \in Cmds(x.toFar) \/ RSP_TELL \in Cmds(x.toNear) => x.step = "tell"
      BY <1>3, <2>1, <2>4 DEF Prompt
    <3>2. DataCmd \notin Cmds(u)
      BY <1>5, CmdsDiffer
    <3>3. \A i \in 1 .. Len(x.toNear \o u) : (x.toNear \o u)[i].cmd = DataCmd =>
                     \E j \in 1 .. i - 1 : (x.toNear \o u)[j].cmd = RSP_TELL
      BY <1>2, <1>5, <3>1, <3>2, AnswerFirst
    <3>4. \A i \in 1 .. Len(y.toNear) : y.toNear[i].cmd = DataCmd =>
                     \E j \in 1 .. i - 1 : y.toNear[j].cmd = RSP_TELL
      <4>1. CASE y.toNear = x.toNear
        BY <3>1, <4>1
      <4>2. CASE y.toNear = x.toNear \o u
        BY <3>3, <4>2
      <4>3. QED
        BY <1>5, <4>1, <4>2
    <3>5. RSP_TELL \in Cmds(y.toNear) => RSP_TELL \in Cmds(x.toNear)
      BY <1>7, CmdsDiffer
    <3>6. QED
      BY <1>3, <1>7, <3>1, <3>4, <3>5
  <2>5. /\ SYS_ERROR \in Cmds(y.toNear) => SYS_ERROR = DataCmd
        /\ ~y.far.open
        /\ y.near.open => y.near.status <= RSP_TELL
        /\ y.near.open /\ y.near.status = RSP_TELL => y.near.wait = <<>>
    BY <1>2, <1>3, <1>7, <2>1, ClosedIs, CmdsDiffer DEF Prompt
  <2>6. \/ DataCmd \in Cmds(y.toFar) \/ DataCmd \in Cmds(y.toNear)
        \/ RSP_TELL \in Cmds(y.toNear) \/ y.got # <<>>
        \/ y.near.open /\ y.near.status = RSP_TELL
        => Knows(o, y)
    <3>1. \/ DataCmd \in Cmds(x.toFar) \/ DataCmd \in Cmds(x.toNear)
          \/ RSP_TELL \in Cmds(x.toNear) \/ x.got # <<>>
          \/ x.near.open /\ x.near.status = RSP_TELL
          => Knows(o, x)
      BY <2>1 DEF Prompt
    <3>2. /\ RSP_TELL \in Cmds(y.toNear) => RSP_TELL \in Cmds(x.toNear)
          /\ DataCmd \in Cmds(y.toNear) => DataCmd \in Cmds(x.toNear)
      BY <1>7, CmdsDiffer
    <3>3. QED
      BY <1>3, <1>7, <1>9, <3>1, <3>2
  <2>7. QED
    BY <2>3, <2>4, <2>5, <2>6 DEF Prompt
<1>12. QED
  BY <1>8, <1>10, <1>11 DEF Good

LEMMA AcceptsGood ==
    ASSUME NEW o \in Worker, NEW x \in View, NEW y \in View, Good(o, x), Accepts(x, y)
    PROVE  Good(o, y)
<1>1. /\ x.carrier = "passed" /\ x.far = Closed /\ x.got = <<>>
      /\ Placed(x)
  BY DEF Accepts, Good, Placed
<1>2. /\ y.carrier = "worker" /\ y.far = Accepted
      /\ y.step = x.step /\ y.near = x.near /\ y.got = x.got
      /\ y.toNear = x.toNear /\ y.toFar = x.toFar
  BY DEF Accepts, View
<1>3. /\ Accepted.open /\ Accepted.identify = None /\ Accepted.status = 255
      /\ Accepted.wait = <<>>
  BY DEF Accepted, Closed
<1>4. ~Knows(o, x)
  BY <1>1, ClosedIs, WorkerAssumption DEF Knows, FarReads
<1>5. Placed(y)
  BY <1>1, <1>2, <1>3 DEF Placed
<1>6. Told(o, x) => Told(o, y)
  BY <1>2, <1>4 DEF Told
<1>7. ASSUME Prompt(o, x) PROVE Prompt(o, y)
  <2>1. \A i \in 1 .. Len(y.toNear) : y.toNear[i].cmd # DataCmd
    BY <1>2, <1>4, <1>7 DEF Prompt, Cmds
  <2>2. o # None
    BY WorkerAssumption
  <2>3. QED
    BY <1>1, <1>2, <1>3, <1>4, <1>7, <2>1, <2>2 DEF Prompt
<1>8. QED
  BY <1>5, <1>6, <1>7 DEF Good

\* What a received message does to an attribute.
LEMMA RecvIs ==
    ASSUME NEW k \in Attr, NEW m \in Msg
    PROVE  LET h == AfterRecv(k, m) IN
           /\ h \in Attr /\ h.open = k.open /\ h.identify = k.identify /\ h.wait = k.wait
           /\ k.status = RSP_TELL => h = k
           /\ k.status # RSP_TELL => h.status = m.cmd % 256
<1>1. AfterRecv(k, m) \in Attr
  BY AfterRecvType
<1>2. QED
  BY <1>1 DEF AfterRecv, Attr

\* Taking anything but the answer leaves the answer ahead of data.
LEMMA AnswerStays ==
    ASSUME NEW s \in Seq(Msg), s # <<>>, Head(s).cmd # RSP_TELL,
           \A i \in 1 .. Len(s) : s[i].cmd = DataCmd =>
                \E j \in 1 .. i - 1 : s[j].cmd = RSP_TELL
    PROVE  /\ Head(s).cmd # DataCmd
           /\ \A i \in 1 .. Len(Tail(s)) : Tail(s)[i].cmd = DataCmd =>
                \E j \in 1 .. i - 1 : Tail(s)[j].cmd = RSP_TELL
<1>1. /\ Head(s) = s[1] /\ Len(Tail(s)) = Len(s) - 1 /\ Len(s) \in Nat \ {0}
      /\ \A i \in 1 .. Len(Tail(s)) : Tail(s)[i] = s[i + 1]
  BY CmdsOfTail
<1>2. Head(s).cmd # DataCmd
  <2>1. 1 \in 1 .. Len(s) /\ ~ \E j \in 1 .. 1 - 1 : s[j].cmd = RSP_TELL
    BY <1>1
  <2>2. QED
    BY <1>1, <2>1
<1>3. ASSUME NEW i \in 1 .. Len(Tail(s)), Tail(s)[i].cmd = DataCmd
      PROVE  \E j \in 1 .. i - 1 : Tail(s)[j].cmd = RSP_TELL
  <2>1. i + 1 \in 1 .. Len(s) /\ s[i + 1].cmd = DataCmd
    BY <1>1, <1>3
  <2>2. PICK j \in 1 .. (i + 1) - 1 : s[j].cmd = RSP_TELL
    BY <2>1
  <2>3. j # 1
    BY <1>1, <2>2
  <2>4. j - 1 \in 1 .. i - 1 /\ j - 1 \in 1 .. Len(Tail(s)) /\ (j - 1) + 1 = j
    BY <1>1, <2>2, <2>3
  <2>5. Tail(s)[j - 1] = s[j]
    BY <1>1, <2>4
  <2>6. QED
    BY <2>2, <2>4, <2>5
<1>4. QED
  BY <1>2, <1>3

\* The near end has taken the first message.
NearTook(o, x, y) ==
    LET m == Head(x.toNear)  h == AfterRecv(x.near, m) IN
    /\ m \in Msg /\ m.cmd \in {RSP_CONNECT, SYS_ERROR, RSP_TELL, DataCmd}
    /\ x.near \in Attr /\ x.near.open /\ x.carrier # "connecting"
    /\ x.toFar \in Seq(Msg) /\ x.near.wait \in Seq(Msg)
    /\ h \in Attr /\ h.open /\ h.wait = x.near.wait
    /\ x.near.status = RSP_TELL => h = x.near
    /\ x.near.status # RSP_TELL => h.status = m.cmd % 256
    /\ x.toNear \in Seq(Msg) /\ x.toNear # <<>>
    /\ y.toNear = Tail(x.toNear)
    /\ Cmds(x.toNear) = {m.cmd} \cup Cmds(y.toNear)
    /\ y.carrier = x.carrier /\ y.far = x.far /\ y.got = x.got
    /\ Knows(o, y) <=> Knows(o, x)

LEMMA NearHeard ==
    ASSUME NEW o \in Worker, NEW t \in Worker, NEW x \in View, NEW y \in View,
           Good(o, x), NearHears(t, x, y)
    PROVE  NearTook(o, x, y)
<1> DEFINE m == Head(x.toNear)  h == AfterRecv(x.near, m)
<1>1. /\ x.near \in Attr /\ x.near.wait \in Seq(Msg)
      /\ x.toNear \in Seq(Msg) /\ x.toFar \in Seq(Msg)
  BY DEF View, Attr
<1>2. x.near.open /\ x.toNear # <<>>
  BY DEF NearHears
<1>3. m \in Msg /\ Cmds(x.toNear) = {m.cmd} \cup Cmds(Tail(x.toNear))
  BY <1>1, <1>2, CmdsOfTail
<1>4. m.cmd \in {RSP_CONNECT, SYS_ERROR, RSP_TELL, DataCmd} /\ x.carrier # "connecting"
  BY <1>2, <1>3 DEF Good, Placed
<1>5. /\ h \in Attr /\ h.open /\ h.wait = x.near.wait
      /\ x.near.status = RSP_TELL => h = x.near
      /\ x.near.status # RSP_TELL => h.status = m.cmd % 256
  BY <1>1, <1>2, <1>3, RecvIs
<1>6. /\ y.toNear = Tail(x.toNear)
      /\ y.carrier = x.carrier /\ y.far = x.far /\ y.got = x.got
  BY DEF NearHears, View
<1>7. Knows(o, y) <=> Knows(o, x)
  BY <1>6 DEF Knows, FarReads
<1>8. QED
  BY <1>1, <1>2, <1>3, <1>4, <1>5, <1>6, <1>7 DEF NearTook

LEMMA NearAsksGood ==
    ASSUME NEW o \in Worker, NEW t \in Worker, NEW x \in View, NEW y \in View,
           Good(o, x), NearHears(t, x, y), Head(x.toNear).cmd = RSP_CONNECT,
           y.step = "tell",
           LET h == AfterRecv(x.near, Head(x.toNear))  m == Control(REQ_TELL) IN
           /\ y.near = AfterSend(h, m)
           /\ y.toFar = ToFar(x, Written(h, m))
    PROVE  Good(o, y)
<1> DEFINE h == AfterRecv(x.near, Head(x.toNear))
           m == Control(REQ_TELL)
           u == <<m>>
<1>0. NearTook(o, x, y)
  BY NearHeard
<1>1. /\ x.near \in Attr /\ x.near.open /\ x.carrier # "connecting"
      /\ x.toFar \in Seq(Msg)
      /\ h \in Attr /\ h.open /\ h.wait = x.near.wait
      /\ x.near.status = RSP_TELL => h = x.near
      /\ x.near.status # RSP_TELL => h.status = Head(x.toNear).cmd % 256
      /\ x.toNear \in Seq(Msg) /\ x.toNear # <<>>
      /\ y.toNear = Tail(x.toNear)
      /\ Cmds(x.toNear) = {Head(x.toNear).cmd} \cup Cmds(y.toNear)
      /\ y.carrier = x.carrier /\ y.far = x.far /\ y.got = x.got
      /\ Knows(o, y) <=> Knows(o, x)
  BY <1>0 DEF NearTook
<1>2. m \in Msg /\ m.cmd = REQ_TELL
  BY ControlMsgs DEF Control
<1>3. h.status = 8 \/ (h.status = 10 /\ x.near.status = RSP_TELL)
  <2>1. RSP_CONNECT % 256 = 8 /\ RSP_TELL = 10
    BY CmdsDiffer
  <2>2. /\ x.near.status = RSP_TELL => h = x.near
        /\ x.near.status # RSP_TELL => h.status = RSP_CONNECT % 256
    BY <1>1
  <2>3. QED
    BY <2>1, <2>2
<1>4. /\ y.near.open /\ y.near.wait = x.near.wait
      /\ Written(h, m) = u
      /\ \/ y.near.status = 9 /\ x.near.status # RSP_TELL
         \/ y.near.status = 10 /\ x.near.status = RSP_TELL
  <2>1. ~Held(h, m) /\ m.cmd % 256 = 9 /\ RSP_TELL = 10
    BY <1>2, CmdsDiffer DEF Held
  <2>2. Written(h, m) = u
    BY <2>1 DEF Written
  <2>3. CASE h.status = 8
    <3>1. y.near = [h EXCEPT !.status = 9]
      BY <2>1, <2>3 DEF AfterSend
    <3>2. x.near.status # RSP_TELL
      BY <1>1, <2>1, <2>3
    <3>3. QED
      BY <1>1, <2>2, <3>1, <3>2 DEF Attr
  <2>4. CASE h.status = 10 /\ x.near.status = RSP_TELL
    <3>1. y.near = h
      BY <2>1, <2>4 DEF AfterSend
    <3>2. QED
      BY <1>1, <2>2, <2>4, <3>1
  <2>5. QED
    BY <1>3, <2>3, <2>4
<1>5. u \in Seq(Msg) /\ Cmds(u) = {REQ_TELL}
  BY <1>2, CmdsShort
<1> HIDE DEF u, m, h
<1>6. /\ y.toFar \in {x.toFar, x.toFar \o u}
      /\ x.carrier = "dead" => y.toFar = x.toFar
      /\ Cmds(y.toFar) \subseteq Cmds(x.toFar) \cup {REQ_TELL}
  <2>1. y.toFar = ToFar(x, u)
    BY <1>4 DEF h, m
  <2>2. QED
    BY <1>5, <2>1, WrittenCmds
<1>7. Placed(y)
  BY <1>1, <1>4, <1>6 DEF Good, Placed
<1>8. Told(o, x) => Told(o, y)
  BY <1>1, <1>4, CmdsDiffer DEF Told
<1>9. ASSUME "timeout" \notin Faults PROVE Prompt(o, y)
  <2>1. Prompt(o, x)
    BY <1>9 DEF Good
  <2>2. /\ y.carrier # "manager" => REQ_CONNECT \notin Cmds(y.toFar)
        /\ \A i \in 2 .. Len(y.toFar) : y.toFar[i].cmd # REQ_CONNECT
    <3>1. REQ_CONNECT \notin Cmds(u) /\ REQ_CONNECT # REQ_TELL
      BY <1>5, CmdsDiffer
    <3>2. /\ x.carrier # "manager" => REQ_CONNECT \notin Cmds(x.toFar)
          /\ \A i \in 2 .. Len(x.toFar) : x.toFar[i].cmd # REQ_CONNECT
      BY <2>1 DEF Prompt
    <3>3. \A i \in 2 .. Len(x.toFar \o u) : (x.toFar \o u)[i].cmd # REQ_CONNECT
      BY <1>1, <1>5, <3>1, <3>2, FirstRequest
    <3>4. CASE y.toFar = x.toFar
      BY <1>1, <3>2, <3>4
    <3>5. CASE y.toFar = x.toFar \o u
      BY <1>1, <1>6, <3>1, <3>2, <3>3, <3>5
    <3>6. QED
      BY <1>6, <3>4, <3>5
  <2>3. ASSUME y.near.status # RSP_TELL
        PROVE  /\ \A i \in 1 .. Len(y.toNear) : y.toNear[i].cmd = DataCmd =>
                     \E j \in 1 .. i - 1 : y.toNear[j].cmd = RSP_TELL
               /\ y.far.open /\ y.far.identify = o /\ y.carrier # "dead" =>
                     RSP_TELL \in Cmds(y.toNear)
    <3>1. x.near.status # RSP_TELL /\ Head(x.toNear).cmd # RSP_TELL /\ RSP_CONNECT # RSP_TELL
      BY <1>4, <2>3, CmdsDiffer
    <3>2. /\ \A i \in 1 .. Len(x.toNear) : x.toNear[i].cmd = DataCmd =>
                     \E j \in 1 .. i - 1 : x.toNear[j].cmd = RSP_TELL
          /\ x.far.open /\ x.far.identify = o /\ x.carrier # "dead" =>
                     RSP_TELL \in Cmds(x.toNear)
      BY <1>1, <2>1, <3>1 DEF Prompt
    <3>3. \A i \in 1 .. Len(y.toNear) : y.toNear[i].cmd = DataCmd =>
                     \E j \in 1 .. i - 1 : y.toNear[j].cmd = RSP_TELL
      BY <1>1, <3>1, <3>2, AnswerStays
    <3>4. QED
      BY <1>1, <3>1, <3>2, <3>3
  <2>4. /\ SYS_ERROR \in Cmds(y.toNear) => SYS_ERROR = DataCmd
        /\ y.far.open =>
            /\ y.far.wait = <<>>
            /\ \/ y.far.identify = None /\ y.far.status = 255
               \/ y.far.identify = o /\ y.far.status = RSP_TELL
        /\ y.near.status = RSP_TELL => y.near.wait = <<>>
    BY <1>1, <1>4, <2>1, CmdsDiffer DEF Prompt
  <2>5. y.near.status <= RSP_TELL
    BY <1>4, CmdsDiffer
  <2>6. \/ DataCmd \in Cmds(y.toFar) \/ DataCmd \in Cmds(y.toNear)
        \/ RSP_TELL \in Cmds(y.toNear) \/ y.got # <<>>
        \/ y.near.open /\ y.near.status = RSP_TELL
        => Knows(o, y)
    <3>1. \/ DataCmd \in Cmds(x.toFar) \/ DataCmd \in Cmds(x.toNear)
          \/ RSP_TELL \in Cmds(x.toNear) \/ x.got # <<>>
          \/ x.near.open /\ x.near.status = RSP_TELL
          => Knows(o, x)
      BY <2>1 DEF Prompt
    <3>2. DataCmd \in Cmds(y.toFar) => DataCmd \in Cmds(x.toFar)
      BY <1>6, CmdsDiffer
    <3>3. y.near.status = RSP_TELL => x.near.status = RSP_TELL
      BY <1>4, CmdsDiffer
    <3>4. QED
      BY <1>1, <3>1, <3>2, <3>3
  <2>7. QED
    BY <2>2, <2>3, <2>4, <2>5, <2>6 DEF Prompt
<1>10. QED
  BY <1>7, <1>8, <1>9 DEF Good

LEMMA NearIsToldGood ==
    ASSUME NEW o \in Worker, NEW t \in Worker, NEW x \in View, NEW y \in View,
           Good(o, x), NearHears(t, x, y), Head(x.toNear).cmd = RSP_TELL,
           LET h == AfterRecv(x.near, Head(x.toNear)) IN
           /\ y.near = [h EXCEPT !.wait = <<>>, !.identify = t]
           /\ y.toFar = ToFar(x, h.wait)
    PROVE  Good(o, y)
<1> DEFINE h == AfterRecv(x.near, Head(x.toNear))
           u == x.near.wait
<1>0. NearTook(o, x, y)
  BY NearHeard
<1>1. /\ x.near \in Attr /\ x.near.open /\ x.carrier # "connecting"
      /\ x.toFar \in Seq(Msg) /\ u \in Seq(Msg)
      /\ h \in Attr /\ h.open /\ h.wait = x.near.wait
      /\ x.near.status = RSP_TELL => h = x.near
      /\ x.near.status # RSP_TELL => h.status = Head(x.toNear).cmd % 256
      /\ y.toNear = Tail(x.toNear)
      /\ Cmds(x.toNear) = {RSP_TELL} \cup Cmds(y.toNear)
      /\ y.carrier = x.carrier /\ y.far = x.far /\ y.got = x.got
      /\ Knows(o, y) <=> Knows(o, x)
  BY <1>0 DEF NearTook
<1>2. h.status = RSP_TELL
  <2>1. RSP_TELL % 256 = RSP_TELL
    BY CmdsDiffer
  <2>2. QED
    BY <1>1, <2>1
<1>3. y.near.open /\ y.near.status = RSP_TELL /\ y.near.wait = <<>>
  BY <1>1, <1>2 DEF Attr
<1>4. Cmds(u) \subseteq {DataCmd}
  BY DEF Good, Placed
<1>5. /\ y.toFar \in {x.toFar, x.toFar \o u}
      /\ x.carrier = "dead" => y.toFar = x.toFar
      /\ Cmds(y.toFar) \subseteq Cmds(x.toFar) \cup {DataCmd}
  <2>1. y.toFar = ToFar(x, u)
    BY <1>1
  <2>2. QED
    BY ZenonT(40), <1>1, <1>4, <2>1, WrittenCmds
<1> HIDE DEF u, h
<1>6. Placed(y)
  BY <1>1, <1>3, <1>5, CmdsShort DEF Good, Placed
<1>7. Told(o, x) => Told(o, y)
  BY <1>1 DEF Told
<1>8. ASSUME "timeout" \notin Faults PROVE Prompt(o, y)
  <2>1. Prompt(o, x)
    BY <1>8 DEF Good
  <2>2. Knows(o, y)
    BY <1>1, <2>1 DEF Prompt
  <2>3. /\ y.carrier # "manager" => REQ_CONNECT \notin Cmds(y.toFar)
        /\ \A i \in 2 .. Len(y.toFar) : y.toFar[i].cmd # REQ_CONNECT
    <3>1. REQ_CONNECT \notin Cmds(u) /\ REQ_CONNECT # DataCmd
      BY <1>4, CmdsDiffer
    <3>2. /\ x.carrier # "manager" => REQ_CONNECT \notin Cmds(x.toFar)
          /\ \A i \in 2 .. Len(x.toFar) : x.toFar[i].cmd # REQ_CONNECT
      BY <2>1 DEF Prompt
    <3>3. \A i \in 2 .. Len(x.toFar \o u) : (x.toFar \o u)[i].cmd # REQ_CONNECT
      BY <1>1, <3>1, <3>2, FirstRequest
    <3>4. CASE y.toFar = x.toFar
      BY <1>1, <3>2, <3>4
    <3>5. CASE y.toFar = x.toFar \o u
      BY <1>1, <1>5, <3>1, <3>2, <3>3, <3>5
    <3>6. QED
      BY <1>5, <3>4, <3>5
  <2>4. /\ SYS_ERROR \in Cmds(y.toNear) => SYS_ERROR = DataCmd
        /\ y.far.open =>
            /\ y.far.wait = <<>>
            /\ \/ y.far.identify = None /\ y.far.status = 255
               \/ y.far.identify = o /\ y.far.status = RSP_TELL
    BY <1>1, <2>1 DEF Prompt
  <2>5. y.near.status <= RSP_TELL
    BY <1>3, CmdsDiffer
  <2>6. QED
    BY <1>3, <2>2, <2>3, <2>4, <2>5 DEF Prompt
<1>9. QED
  BY <1>6, <1>7, <1>8 DEF Good

LEMMA NearIgnoresGood ==
    ASSUME NEW o \in Worker, NEW t \in Worker, NEW x \in View, NEW y \in View,
           Good(o, x), NearHears(t, x, y),
           Head(x.toNear).cmd # RSP_TELL \/ x.step # "tell",
           y = [x EXCEPT !.near = AfterRecv(x.near, Head(x.toNear)),
                         !.toNear = Tail(x.toNear)]
    PROVE  Good(o, y)
<1> DEFINE m == Head(x.toNear)
<1>0. NearTook(o, x, y)
  BY NearHeard
<1>1. /\ m \in Msg /\ m.cmd \in {RSP_CONNECT, SYS_ERROR, RSP_TELL, DataCmd}
      /\ x.near \in Attr /\ x.near.open /\ x.carrier # "connecting"
      /\ AfterRecv(x.near, m).open /\ AfterRecv(x.near, m).wait = x.near.wait
      /\ x.near.status = RSP_TELL => AfterRecv(x.near, m) = x.near
      /\ x.near.status # RSP_TELL => AfterRecv(x.near, m).status = m.cmd % 256
      /\ x.toNear \in Seq(Msg) /\ x.toNear # <<>>
      /\ y.toNear = Tail(x.toNear)
      /\ Cmds(x.toNear) = {m.cmd} \cup Cmds(y.toNear)
      /\ y.carrier = x.carrier /\ y.far = x.far /\ y.got = x.got
      /\ Knows(o, y) <=> Knows(o, x)
  BY <1>0 DEF NearTook
<1>2. /\ y.near.open /\ y.near.wait = x.near.wait
      /\ x.near.status = RSP_TELL => y.near = x.near
      /\ x.near.status # RSP_TELL => y.near.status = m.cmd % 256
      /\ y.toFar = x.toFar /\ y.step = x.step
  BY <1>1 DEF View
<1> HIDE DEF m
<1>3. Placed(y)
  BY <1>1, <1>2 DEF Good, Placed
<1>4. ASSUME Told(o, x), DataCmd % 256 # RSP_TELL PROVE Told(o, y)
  <2>1. y.near.status = RSP_TELL =>
            RSP_TELL \in Cmds(x.toNear) \/ x.near.status = RSP_TELL
    <3>1. RSP_CONNECT % 256 # RSP_TELL /\ SYS_ERROR % 256 # RSP_TELL
      BY CmdsDiffer
    <3>2. QED
      BY <1>1, <1>2, <1>4, <3>1
  <2>2. QED
    BY <1>1, <1>4, <2>1 DEF Told
<1>5. ASSUME "timeout" \notin Faults PROVE Prompt(o, y)
  <2>1. Prompt(o, x)
    BY <1>5 DEF Good
  <2>2. ASSUME x.near.status # RSP_TELL
        PROVE  /\ m.cmd = RSP_CONNECT
               /\ \A i \in 1 .. Len(y.toNear) : y.toNear[i].cmd = DataCmd =>
                     \E j \in 1 .. i - 1 : y.toNear[j].cmd = RSP_TELL
               /\ y.far.open /\ y.far.identify = o /\ y.carrier # "dead" =>
                     RSP_TELL \in Cmds(y.toNear)
               /\ REQ_TELL \in Cmds(y.toFar) \/ RSP_TELL \in Cmds(y.toNear) => y.step = "tell"
    <3>1. /\ \A i \in 1 .. Len(x.toNear) : x.toNear[i].cmd = DataCmd =>
                     \E j \in 1 .. i - 1 : x.toNear[j].cmd = RSP_TELL
          /\ x.far.open /\ x.far.identify = o /\ x.carrier # "dead" =>
                     RSP_TELL \in Cmds(x.toNear)
          /\ REQ_TELL \in Cmds(x.toFar) \/ RSP_TELL \in Cmds(x.toNear) => x.step = "tell"
          /\ SYS_ERROR \in Cmds(x.toNear) => SYS_ERROR = DataCmd
      BY <1>1, <2>1, <2>2 DEF Prompt
    <3>2. m.cmd # RSP_TELL
      BY <1>1, <3>1 DEF m
    <3>3. /\ m.cmd # DataCmd
          /\ \A i \in 1 .. Len(y.toNear) : y.toNear[i].cmd = DataCmd =>
                \E j \in 1 .. i - 1 : y.toNear[j].cmd = RSP_TELL
      <4>1. /\ Head(x.toNear).cmd # DataCmd
            /\ \A i \in 1 .. Len(Tail(x.toNear)) : Tail(x.toNear)[i].cmd = DataCmd =>
                \E j \in 1 .. i - 1 : Tail(x.toNear)[j].cmd = RSP_TELL
        BY <1>1, <3>1, <3>2, AnswerStays DEF m
      <4>2. QED
        BY <1>1, <4>1 DEF m
    <3>4. m.cmd = RSP_CONNECT
      BY <1>1, <3>1, <3>2, <3>3
    <3>5. QED
      BY <1>1, <1>2, <3>1, <3>2, <3>3, <3>4
  <2>3. \/ y.near = x.near /\ x.near.status = RSP_TELL
        \/ y.near.status = 8 /\ x.near.status # RSP_TELL
    <3>1. RSP_CONNECT % 256 = 8
      BY CmdsDiffer
    <3>2. QED
      BY <1>2, <2>2, <3>1
  <2>4. y.near.status # RSP_TELL =>
               /\ \A i \in 1 .. Len(y.toNear) : y.toNear[i].cmd = DataCmd =>
                     \E j \in 1 .. i - 1 : y.toNear[j].cmd = RSP_TELL
               /\ y.far.open /\ y.far.identify = o /\ y.carrier # "dead" =>
                     RSP_TELL \in Cmds(y.toNear)
               /\ REQ_TELL \in Cmds(y.toFar) \/ RSP_TELL \in Cmds(y.toNear) => y.step = "tell"
    BY <2>2, <2>3
  <2>5. /\ y.carrier # "manager" => REQ_CONNECT \notin Cmds(y.toFar)
        /\ \A i \in 2 .. Len(y.toFar) : y.toFar[i].cmd # REQ_CONNECT
        /\ SYS_ERROR \in Cmds(y.toNear) => SYS_ERROR = DataCmd
        /\ y.far.open =>
            /\ y.far.wait = <<>>
            /\ \/ y.far.identify = None /\ y.far.status = 255
               \/ y.far.identify = o /\ y.far.status = RSP_TELL
    BY <1>1, <1>2, <2>1 DEF Prompt
  <2>6. y.near.status <= RSP_TELL /\ (y.near.status = RSP_TELL => y.near.wait = <<>>)
    <3>1. x.near.status = RSP_TELL => x.near.wait = <<>>
      BY <1>1, <2>1 DEF Prompt
    <3>2. QED
      BY <2>3, <3>1, CmdsDiffer
  <2>7. \/ DataCmd \in Cmds(y.toFar) \/ DataCmd \in Cmds(y.toNear)
        \/ RSP_TELL \in Cmds(y.toNear) \/ y.got # <<>>
        \/ y.near.open /\ y.near.status = RSP_TELL
        => Knows(o, y)
    <3>1. \/ DataCmd \in Cmds(x.toFar) \/ DataCmd \in Cmds(x.toNear)
          \/ RSP_TELL \in Cmds(x.toNear) \/ x.got # <<>>
          \/ x.near.open /\ x.near.status = RSP_TELL
          => Knows(o, x)
      BY <2>1 DEF Prompt
    <3>2. y.near.status = RSP_TELL => x.near.status = RSP_TELL
      BY <2>3, CmdsDiffer
    <3>3. QED
      BY <1>1, <1>2, <3>1, <3>2
  <2>8. QED
    BY <2>4, <2>5, <2>6, <2>7 DEF Prompt
<1>6. QED
  BY <1>3, <1>4, <1>5 DEF Good

LEMMA NearHearsGood ==
    ASSUME NEW o \in Worker, NEW t \in Worker, NEW x \in View, NEW y \in View,
           Good(o, x), NearHears(t, x, y)
    PROVE  Good(o, y)
<1> DEFINE m == Head(x.toNear)  h == AfterRecv(x.near, m)
<1>1. CASE /\ m.cmd = RSP_CONNECT
           /\ y = [x EXCEPT !.step = "tell", !.near = AfterSend(h, Control(REQ_TELL)),
                            !.toNear = Tail(x.toNear),
                            !.toFar = ToFar(x, Written(h, Control(REQ_TELL)))]
  <2>1. /\ y.step = "tell" /\ y.near = AfterSend(h, Control(REQ_TELL))
        /\ y.toFar = ToFar(x, Written(h, Control(REQ_TELL)))
    BY <1>1 DEF View
  <2>2. QED
    BY <1>1, <2>1, NearAsksGood
<1>2. CASE /\ m.cmd = RSP_TELL
           /\ y = [x EXCEPT !.step = "none", !.near = [h EXCEPT !.wait = <<>>, !.identify = t],
                            !.toNear = Tail(x.toNear), !.toFar = ToFar(x, h.wait)]
  <2>1. /\ y.near = [h EXCEPT !.wait = <<>>, !.identify = t]
        /\ y.toFar = ToFar(x, h.wait)
    BY <1>2 DEF View
  <2>2. QED
    BY <1>2, <2>1, NearIsToldGood
<1>3. CASE /\ m.cmd # RSP_TELL \/ x.step # "tell"
           /\ y = [x EXCEPT !.near = h, !.toNear = Tail(x.toNear)]
  BY <1>3, NearIgnoresGood
<1>4. QED
  BY <1>1, <1>2, <1>3 DEF NearHears

\* The far end has taken the first message.
FarTook(x, y) ==
    LET m == Head(x.toFar)  h == AfterRecv(x.far, m) IN
    /\ m \in Msg /\ m.cmd \in {REQ_CONNECT, REQ_TELL, DataCmd}
    /\ x.far \in Attr /\ x.far.open /\ x.carrier # "dead"
    /\ x.carrier \notin {"connecting", "manager", "passed"}
    /\ h \in Attr /\ h.open /\ h.wait = x.far.wait /\ h.identify = x.far.identify
    /\ x.far.status = RSP_TELL => h = x.far
    /\ x.far.status # RSP_TELL => h.status = m.cmd % 256
    /\ x.toNear \in Seq(Msg)
    /\ y.toFar = Tail(x.toFar)
    /\ Cmds(x.toFar) = {m.cmd} \cup Cmds(y.toFar)
    /\ Len(x.toFar) \in Nat /\ Len(y.toFar) = Len(x.toFar) - 1
    /\ \A i \in 1 .. Len(y.toFar) : y.toFar[i] = x.toFar[i + 1]
    /\ y.carrier = x.carrier /\ y.near = x.near /\ y.step = x.step

LEMMA FarHeard ==
    ASSUME NEW o \in Worker, NEW x \in View, NEW y \in View, Good(o, x), FarHears(o, x, y)
    PROVE  FarTook(x, y)
<1> DEFINE m == Head(x.toFar)  h == AfterRecv(x.far, m)
<1>1. x.far \in Attr /\ x.toNear \in Seq(Msg) /\ x.toFar \in Seq(Msg)
  BY DEF View
<1>2. x.far.open /\ x.toFar # <<>>
  BY DEF FarHears
<1>3. /\ m \in Msg /\ Cmds(x.toFar) = {m.cmd} \cup Cmds(Tail(x.toFar))
      /\ Len(x.toFar) \in Nat /\ Len(Tail(x.toFar)) = Len(x.toFar) - 1
      /\ \A i \in 1 .. Len(Tail(x.toFar)) : Tail(x.toFar)[i] = x.toFar[i + 1]
  BY <1>1, <1>2, CmdsOfTail
<1>4. /\ m.cmd \in {REQ_CONNECT, REQ_TELL, DataCmd} /\ x.carrier # "dead"
      /\ x.carrier \notin {"connecting", "manager", "passed"}
  BY <1>2, <1>3 DEF Good, Placed
<1>5. /\ h \in Attr /\ h.open /\ h.wait = x.far.wait /\ h.identify = x.far.identify
      /\ x.far.status = RSP_TELL => h = x.far
      /\ x.far.status # RSP_TELL => h.status = m.cmd % 256
  BY <1>1, <1>2, <1>3, RecvIs
<1>6. y.toFar = Tail(x.toFar)
  BY DEF FarHears, View
<1>7. y.carrier = x.carrier /\ y.near = x.near /\ y.step = x.step
  BY DEF FarHears, View
<1>8. QED
  BY <1>1, <1>2, <1>3, <1>4, <1>5, <1>6, <1>7 DEF FarTook

\* No request is behind the first message that is left.
LEMMA FarTookFirst ==
    ASSUME NEW o \in Worker, NEW x \in View, NEW y \in View, FarTook(x, y), Prompt(o, x)
    PROVE  /\ y.carrier # "manager" => REQ_CONNECT \notin Cmds(y.toFar)
           /\ \A i \in 2 .. Len(y.toFar) : y.toFar[i].cmd # REQ_CONNECT
           /\ Head(x.toFar).cmd # REQ_CONNECT
<1>1. /\ x.carrier # "manager" /\ y.carrier = x.carrier
      /\ Cmds(x.toFar) = {Head(x.toFar).cmd} \cup Cmds(y.toFar)
      /\ Len(y.toFar) = Len(x.toFar) - 1 /\ Len(x.toFar) \in Nat
  BY DEF FarTook
<1>2. REQ_CONNECT \notin Cmds(x.toFar)
  BY <1>1 DEF Prompt
<1>3. REQ_CONNECT \notin Cmds(y.toFar)
  BY <1>1, <1>2
<1>4. \A i \in 2 .. Len(y.toFar) : i \in 1 .. Len(y.toFar)
  BY <1>1
<1>5. \A i \in 2 .. Len(y.toFar) : y.toFar[i].cmd # REQ_CONNECT
  BY <1>3, <1>4 DEF Cmds
<1>6. QED
  BY <1>1, <1>2, <1>3, <1>5

\* CmdToldWorker: the far end knows from now on, and answers.
LEMMA FarIsToldGood ==
    ASSUME NEW o \in Worker, NEW x \in View, NEW y \in View, Good(o, x), FarTook(x, y),
           Head(x.toFar).cmd = REQ_TELL, y.got = x.got,
           LET h == AfterRecv(x.far, Head(x.toFar))  m == Control(RSP_TELL) IN
           /\ y.far = [AfterSend(h, m) EXCEPT !.identify = o]
           /\ y.toNear = ToNear(x, Written(h, m))
    PROVE  Good(o, y)
<1> DEFINE h == AfterRecv(x.far, Head(x.toFar))
           m == Control(RSP_TELL)
           u == <<m>>
<1>1. /\ x.far \in Attr /\ x.far.open /\ x.carrier # "dead"
      /\ x.carrier \notin {"connecting", "manager", "passed"}
      /\ h \in Attr /\ h.open /\ h.wait = x.far.wait
      /\ x.far.status = RSP_TELL => h = x.far
      /\ x.far.status # RSP_TELL => h.status = REQ_TELL % 256
      /\ x.toNear \in Seq(Msg)
      /\ Cmds(x.toFar) = {REQ_TELL} \cup Cmds(y.toFar)
      /\ y.carrier = x.carrier /\ y.near = x.near /\ y.step = x.step
  BY DEF FarTook
<1>2. m \in Msg /\ m.cmd = RSP_TELL
  BY ControlMsgs DEF Control
<1>3. ~Held(h, m) /\ Written(h, m) = u
  BY <1>2, CmdsDiffer DEF Held, Written
<1>4. /\ AfterSend(h, m) \in Attr /\ AfterSend(h, m).open /\ AfterSend(h, m).wait = x.far.wait
      /\ AfterSend(h, m).status = RSP_TELL
  <2>1. AfterSend(h, m) \in Attr /\ AfterSend(h, m).open
    BY <1>1, <1>2, AfterSendType
  <2>2. h.status = 9 \/ h.status = 10
    <3>1. REQ_TELL % 256 = 9 /\ RSP_TELL = 10
      BY CmdsDiffer
    <3>2. QED
      BY <1>1, <3>1
  <2>3. m.cmd % 256 = 10 /\ RSP_TELL = 10
    BY <1>2, CmdsDiffer
  <2>4. CASE h.status = 9
    <3>1. AfterSend(h, m) = [h EXCEPT !.status = 10]
      BY <1>3, <2>3, <2>4 DEF AfterSend
    <3>2. QED
      BY <1>1, <2>1, <2>3, <3>1 DEF Attr
  <2>5. CASE h.status = 10
    <3>1. AfterSend(h, m) = h
      BY <1>3, <2>3, <2>5 DEF AfterSend
    <3>2. QED
      BY <1>1, <2>1, <2>3, <2>5, <3>1
  <2>6. QED
    BY <2>2, <2>4, <2>5
<1>5. y.far.open /\ y.far.wait = x.far.wait /\ y.far.status = RSP_TELL /\ y.far.identify = o
  BY <1>4 DEF Attr
<1>6. u \in Seq(Msg) /\ Cmds(u) = {RSP_TELL}
  BY <1>2, CmdsShort
<1> HIDE DEF u, m, h
<1>7. y.toNear = ToNear(x, u)
  BY <1>3 DEF h, m
<1>8. /\ y.toNear \in {x.toNear, x.toNear \o u}
      /\ Cmds(y.toNear) \subseteq Cmds(x.toNear) \cup {RSP_TELL}
      /\ x.near.open => y.toNear = x.toNear \o u
      /\ x.near.open => RSP_TELL \in Cmds(y.toNear)
  <2>1. Cmds(x.toNear \o u) = Cmds(x.toNear) \cup {RSP_TELL}
    BY <1>1, <1>6, CmdsJoined
  <2>2. x.near.open => y.toNear = x.toNear \o u
    BY <1>1, <1>7 DEF ToNear, NearReads
  <2>3. y.toNear \in {x.toNear, x.toNear \o u}
    BY <1>7 DEF ToNear
  <2>4. QED
    BY <2>1, <2>2, <2>3
<1>9. Knows(o, y)
  BY <1>5 DEF Knows
<1>10. Placed(y)
  BY <1>1, <1>5, <1>8 DEF Good, Placed
<1>11. Told(o, y)
  BY <1>9 DEF Told
<1>12. ASSUME "timeout" \notin Faults PROVE Prompt(o, y)
  <2>1. Prompt(o, x)
    BY <1>12 DEF Good
  <2>2. /\ y.carrier # "manager" => REQ_CONNECT \notin Cmds(y.toFar)
        /\ \A i \in 2 .. Len(y.toFar) : y.toFar[i].cmd # REQ_CONNECT
    BY <2>1, FarTookFirst
  <2>3. ASSUME y.near.open, y.near.status # RSP_TELL
        PROVE  /\ \A i \in 1 .. Len(y.toNear) : y.toNear[i].cmd = DataCmd =>
                     \E j \in 1 .. i - 1 : y.toNear[j].cmd = RSP_TELL
               /\ RSP_TELL \in Cmds(y.toNear)
               /\ y.step = "tell"
    <3>1. /\ \A i \in 1 .. Len(x.toNear) : x.toNear[i].cmd = DataCmd =>
                     \E j \in 1 .. i - 1 : x.toNear[j].cmd = RSP_TELL
          /\ REQ_TELL \in Cmds(x.toFar) => x.step = "tell"
      BY <1>1, <2>1, <2>3 DEF Prompt
    <3>2. DataCmd \notin Cmds(u)
      BY <1>6, CmdsDiffer
    <3>3. \A i \in 1 .. Len(x.toNear \o u) : (x.toNear \o u)[i].cmd = DataCmd =>
                     \E j \in 1 .. i - 1 : (x.toNear \o u)[j].cmd = RSP_TELL
      BY <1>1, <1>6, <3>1, <3>2, AnswerFirst
    <3>4. y.toNear = x.toNear \o u
      BY <1>1, <1>8, <2>3
    <3>5. RSP_TELL \in Cmds(y.toNear) /\ y.step = "tell"
      BY <1>1, <1>8, <2>3, <3>1
    <3>6. QED
      BY <3>3, <3>4, <3>5
  <2>4. /\ SYS_ERROR \in Cmds(y.toNear) => SYS_ERROR = DataCmd
        /\ y.far.wait = <<>>
        /\ y.near.open => y.near.status <= RSP_TELL
        /\ y.near.open /\ y.near.status = RSP_TELL => y.near.wait = <<>>
    <3>1. SYS_ERROR \in Cmds(y.toNear) => SYS_ERROR \in Cmds(x.toNear)
      BY <1>8, CmdsDiffer
    <3>2. QED
      BY <1>1, <1>5, <2>1, <3>1 DEF Prompt
  <2>5. QED
    BY <1>5, <1>9, <2>2, <2>3, <2>4 DEF Prompt
<1>13. QED
  BY <1>10, <1>11, <1>12 DEF Good

\* A second REQ_CONNECT is answered with an error.
LEMMA FarIsAskedGood ==
    ASSUME NEW o \in Worker, NEW x \in View, NEW y \in View, Good(o, x), FarTook(x, y),
           Head(x.toFar).cmd = REQ_CONNECT, y.got = x.got,
           y.far = AfterRecv(x.far, Head(x.toFar)),
           y.toNear = ToNear(x, <<Control(SYS_ERROR)>>)
    PROVE  Good(o, y)
<1>1. /\ x.far.open /\ y.far.open /\ y.far.identify = x.far.identify
      /\ x.carrier \notin {"connecting", "manager", "passed"}
      /\ Cmds(y.toFar) \subseteq Cmds(x.toFar)
      /\ x.carrier # "dead" /\ y.carrier = x.carrier
      /\ y.near = x.near /\ y.step = x.step
  BY DEF FarTook
<1>2. Cmds(y.toNear) \subseteq Cmds(x.toNear) \cup {SYS_ERROR}
  <2>1. <<Control(SYS_ERROR)>> \in Seq(Msg) /\ Cmds(<<Control(SYS_ERROR)>>) = {SYS_ERROR}
    BY ControlMsgs, CmdsShort DEF Control
  <2>2. QED
    BY <2>1, WrittenCmds
<1>3. Placed(y)
  BY <1>1, <1>2 DEF Good, Placed
<1>4. Knows(o, y) <=> Knows(o, x)
  BY <1>1 DEF Knows, FarReads
<1>5. Told(o, x) => Told(o, y)
  BY <1>1, <1>2, <1>4, CmdsDiffer DEF Told
<1>6. ASSUME "timeout" \notin Faults PROVE FALSE
  BY <1>6, FarTookFirst DEF Good
<1>7. QED
  BY <1>3, <1>5, <1>6 DEF Good

LEMMA FarGetsGood ==
    ASSUME NEW o \in Worker, NEW x \in View, NEW y \in View, Good(o, x), FarTook(x, y),
           Head(x.toFar).cmd = DataCmd,
           y.far = AfterRecv(x.far, Head(x.toFar)),
           y.toNear = x.toNear
    PROVE  Good(o, y)
<1>1. /\ x.far.open /\ y.far.open /\ y.far.identify = x.far.identify
      /\ x.far.status = RSP_TELL => y.far = x.far
      /\ x.carrier \notin {"connecting", "manager", "passed"}
      /\ Cmds(x.toFar) = {DataCmd} \cup Cmds(y.toFar)
      /\ x.carrier # "dead" /\ y.carrier = x.carrier
      /\ y.near = x.near /\ y.step = x.step
  BY DEF FarTook
<1>2. Placed(y)
  BY <1>1 DEF Good, Placed
<1>3. Knows(o, y) <=> Knows(o, x)
  BY <1>1 DEF Knows, FarReads
<1>4. Told(o, x) => Told(o, y)
  BY <1>1, <1>3 DEF Told
<1>5. ASSUME "timeout" \notin Faults PROVE Prompt(o, y)
  <2>1. Prompt(o, x)
    BY <1>5 DEF Good
  <2>2. Knows(o, x)
    BY <1>1, <2>1 DEF Prompt
  <2>3. x.far.identify = o /\ x.far.status = RSP_TELL
    <3>1. x.far.identify = o
      BY <1>1, <2>2 DEF Knows, FarReads
    <3>2. o # None
      BY WorkerAssumption
    <3>3. QED
      BY <1>1, <2>1, <3>1, <3>2 DEF Prompt
  <2>4. y.far = x.far
    BY <1>1, <2>3
  <2>5. /\ y.carrier # "manager" => REQ_CONNECT \notin Cmds(y.toFar)
        /\ \A i \in 2 .. Len(y.toFar) : y.toFar[i].cmd # REQ_CONNECT
    BY <2>1, FarTookFirst
  <2>6. Cmds(y.toFar) \subseteq Cmds(x.toFar)
    BY <1>1
  <2>7. QED
    BY <1>1, <1>3, <2>1, <2>2, <2>4, <2>5, <2>6 DEF Prompt
<1>6. QED
  BY <1>2, <1>4, <1>5 DEF Good

LEMMA FarHearsGood ==
    ASSUME NEW o \in Worker, NEW x \in View, NEW y \in View, Good(o, x), FarHears(o, x, y)
    PROVE  Good(o, y)
<1> DEFINE m == Head(x.toFar)  h == AfterRecv(x.far, m)
<1>0. FarTook(x, y)
  BY FarHeard
<1>1. CASE /\ m.cmd = REQ_TELL
           /\ y = [x EXCEPT !.far = [AfterSend(h, Control(RSP_TELL)) EXCEPT !.identify = o],
                            !.toFar = Tail(x.toFar),
                            !.toNear = ToNear(x, Written(h, Control(RSP_TELL)))]
  <2>1. /\ y.far = [AfterSend(h, Control(RSP_TELL)) EXCEPT !.identify = o]
        /\ y.toNear = ToNear(x, Written(h, Control(RSP_TELL)))
        /\ y.got = x.got
    BY <1>1 DEF View
  <2>2. QED
    BY <1>0, <1>1, <2>1, FarIsToldGood
<1>2. CASE /\ m.cmd = REQ_CONNECT
           /\ y = [x EXCEPT !.far = h, !.toFar = Tail(x.toFar),
                            !.toNear = ToNear(x, <<Control(SYS_ERROR)>>)]
  <2>1. /\ y.far = h
        /\ y.toNear = ToNear(x, <<Control(SYS_ERROR)>>)
        /\ y.got = x.got
    BY <1>2 DEF View
  <2>2. QED
    BY <1>0, <1>2, <2>1, FarIsAskedGood
<1>3. CASE /\ m.cmd = DataCmd
           /\ \E g \in {x.got, Append(x.got, m.id)} :
                y = [x EXCEPT !.far = h, !.toFar = Tail(x.toFar), !.got = g]
  <2>1. y.far = h /\ y.toNear = x.toNear
    BY <1>3 DEF View
  <2>2. QED
    BY <1>0, <1>3, <2>1, FarGetsGood
<1>4. QED
  BY <1>1, <1>2, <1>3 DEF FarHears

\* A connection keeps what is claimed of it, whatever happens to it.
LEMMA ChangeGood ==
    ASSUME NEW o \in Worker, NEW t \in Worker, NEW x \in View, NEW y \in View,
           Good(o, x), Change(o, t, x, y)
    PROVE  Good(o, y)
<1>1. CASE Moved(o, t, x, y)
  BY <1>1, LessGood, GivesUpGood, StartsGood, NearSendsGood, TransfersGood, AcceptsGood,
     NearHearsGood, FarHearsGood, ControlMsgs DEF Moved
<1>2. CASE ~Moved(o, t, x, y)
  BY <1>2, NearSendsGood, FarSendsGood, NearHearsGood, FarHearsGood DEF Change
<1>3. QED
  BY <1>1, <1>2

-----------------------------------------------------------------------------
(* Every step changes every view in one of these ways.                     *)

LEMMA SeenType ==
    ASSUME IInv, IInv', NEW c \in Conn
    PROVE  /\ InUse(c) => /\ Seen(c) \in View
                          /\ opener[c] \in Worker /\ target[c] \in Worker
                          /\ opener[c] # target[c]
           /\ InUse(c)' => /\ Seen(c)' \in View
                           /\ opener'[c] \in Worker /\ target'[c] \in Worker
                           /\ opener'[c] # target'[c]
<1>1. TypeOK /\ EndsOK /\ TypeOK' /\ EndsOK'
  BY DEF IInv, Shape
<1>2. InUse(c) => opener[c] \in Worker /\ target[c] \in Worker /\ opener[c] # target[c]
  BY <1>1 DEF EndsOK, InUse
<1>3. InUse(c)' => opener'[c] \in Worker /\ target'[c] \in Worker /\ opener'[c] # target'[c]
  BY <1>1 DEF EndsOK, InUse
<1>4. InUse(c) => Seen(c) \in View
  BY <1>1, <1>2 DEF Seen, View, TypeOK
<1>5. InUse(c)' => Seen(c)' \in View
  BY <1>1, <1>3 DEF Seen, View, TypeOK
<1>6. QED
  BY <1>2, <1>3, <1>4, <1>5

\* A connection that stays unused, or stays the one it is.
Stays(c) ==
    \/ ~InUse(c) /\ ~InUse(c)' /\ Untouched(c)'
    \/ InUse(c) /\ InUse(c)' /\ opener'[c] = opener[c] /\ target'[c] = target[c]

\* What becomes of a connection when no message is accepted or dispatched.
Drifts(c) ==
    /\ Stays(c)
    /\ InUse(c) => Moved(opener[c], target[c], Seen(c), Seen(c)')

\* What becomes of a connection.
Evolves(c) ==
    \/ ~InUse(c) /\ InUse(c)' /\ Opens(Seen(c)')
    \/ /\ Stays(c)
       /\ InUse(c) => Change(opener[c], target[c], Seen(c), Seen(c)')

LEMMA DriftsEvolves ==
    ASSUME NEW c \in Conn, Drifts(c)
    PROVE  Evolves(c)
BY DEF Drifts, Evolves, Change

LEMMA EvolvesGood ==
    ASSUME IInv, IInv', ViewInv, \A c \in Conn : Evolves(c)
    PROVE  ViewInv'
<1> SUFFICES ASSUME NEW c \in Conn
             PROVE  IF InUse(c)' THEN Good(opener'[c], Seen(c)') ELSE Untouched(c)'
  BY DEF ViewInv
<1>1. CASE ~InUse(c) /\ ~InUse(c)' /\ Untouched(c)'
  BY <1>1
<1>2. CASE ~InUse(c) /\ InUse(c)' /\ Opens(Seen(c)')
  BY <1>2, SeenType, OpensGood
<1>3. CASE /\ InUse(c) /\ InUse(c)' /\ opener'[c] = opener[c]
           /\ Change(opener[c], target[c], Seen(c), Seen(c)')
  <2>1. Good(opener[c], Seen(c))
    BY <1>3 DEF ViewInv
  <2>2. /\ Seen(c) \in View /\ Seen(c)' \in View
        /\ opener[c] \in Worker /\ target[c] \in Worker
    BY <1>3, SeenType
  <2>3. QED
    BY <1>3, <2>1, <2>2, ChangeGood
<1>4. QED
  BY <1>1, <1>2, <1>3 DEF Evolves, Stays

\* A step that is about another connection, or ends this one.
Kept(c) ==
    /\ opener'[c] = opener[c] /\ target'[c] = target[c]
    /\ carrier'[c] \in {carrier[c], "dead"}
    /\ carrier[c] = "unused" => carrier'[c] = "unused"
    /\ step'[c] = step[c] \/ (step'[c] = "none" /\ fdAttr'[opener[c]][c] = Closed)
    /\ \A v \in Worker :
        /\ fdAttr'[v][c] \in {fdAttr[v][c], Closed}
        /\ got'[v][c] = got[v][c]
        /\ \/ wire'[v][c] = wire[v][c]
           \/ wire'[v][c] = <<>> /\ (fdAttr'[v][c] = Closed \/ carrier'[c] = "dead")
        /\ fdAttr'[v][c] # fdAttr[v][c] => wire'[v][c] = <<>>
    /\ carrier'[c] # carrier[c] =>
        /\ wire'[target[c]][c] = <<>>
        /\ carrier[c] = "worker" => wire'[opener[c]][c] = <<>>

LEMMA KeptDrifts ==
    ASSUME IInv, IInv', ViewInv, NEW c \in Conn, Kept(c)
    PROVE  Drifts(c)
<1>1. CASE ~InUse(c)
  <2>1. Untouched(c) /\ carrier[c] = "unused"
    BY <1>1 DEF ViewInv, InUse
  <2>2. step'[c] = "none" /\ carrier'[c] = "unused"
    BY <2>1 DEF Kept, Untouched
  <2>3. \A v \in Worker : fdAttr'[v][c] = Closed /\ wire'[v][c] = <<>> /\ got'[v][c] = <<>>
    BY <2>1 DEF Kept, Untouched
  <2>4. QED
    BY <1>1, <2>2, <2>3 DEF Drifts, Stays, Untouched, InUse
<1>2. CASE InUse(c)
  <2>1. opener[c] \in Worker /\ target[c] \in Worker
    BY <1>2, SeenType
  <2>2. InUse(c)' /\ opener'[c] = opener[c] /\ target'[c] = target[c]
    BY <1>2 DEF Kept, InUse
  <2>3. Less(Seen(c), Seen(c)')
    BY <2>1 DEF Kept, Less, Seen
  <2>4. QED
    BY <1>2, <2>2, <2>3 DEF Drifts, Stays, Moved
<1>3. QED
  BY <1>1, <1>2

\* End w of c takes its first message (if took), gets the attributes a, and
\* writes; it may have destroyed other connections of w.
Writes(w, c, took, dropped, a, out) ==
    /\ opener' = opener /\ target' = target /\ carrier' = carrier
    /\ wire' = Wires(w, c, took, dropped, out)
    /\ \A v \in Worker, d \in Conn :
        fdAttr'[v][d] = IF v = w /\ d = c THEN a
                        ELSE IF v = w /\ d \in dropped THEN Closed ELSE fdAttr[v][d]
    /\ \A d \in Conn \ {c} :
        step'[d] = step[d] /\ \A v \in Worker : got'[v][d] = got[v][d]

\* What that makes of the view of c.
Wrote(w, c, took, a, out) ==
    LET x == Seen(c)  y == Seen(c)' IN
    /\ InUse(c)'
    /\ y.carrier = x.carrier /\ y.step = step'[c] /\ y.got = got'[target[c]][c]
    /\ w = opener[c] => /\ y.near = a /\ y.far = x.far
                        /\ y.toNear = IF took THEN Tail(x.toNear) ELSE x.toNear
                        /\ y.toFar = ToFar(x, out)
    /\ w = target[c] => /\ y.far = a /\ y.near = x.near
                        /\ y.toFar = IF took THEN Tail(x.toFar) ELSE x.toFar
                        /\ y.toNear = ToNear(x, out)

LEMMA WritesSeen ==
    ASSUME IInv, NEW c \in Conn, InUse(c), NEW w \in {opener[c], target[c]},
           NEW took \in BOOLEAN, NEW dropped, c \notin dropped, NEW a, NEW out,
           Writes(w, c, took, dropped, a, out)
    PROVE  Wrote(w, c, took, a, out)
<1>0. /\ opener' = opener /\ target' = target /\ carrier' = carrier
      /\ wire' = Wires(w, c, took, dropped, out)
      /\ \A v \in Worker : fdAttr'[v][c] = IF v = w THEN a ELSE fdAttr[v][c]
  BY DEF Writes
<1> DEFINE o == opener[c]  t == target[c]
<1>1. o \in Worker /\ t \in Worker /\ o # t
  BY DEF IInv, Shape, EndsOK, InUse
<1>2. \A v \in Worker : wire'[v][c] =
          IF v = w THEN IF took THEN Tail(wire[v][c]) ELSE wire[v][c]
          ELSE IF v = Peer(w, c) /\ Reads(v, c) THEN wire[v][c] \o out ELSE wire[v][c]
  <2>1. Peer(w, c) # w
    BY <1>1 DEF Peer
  <2>2. QED
    BY <1>0, <2>1 DEF Wires
<1>3. /\ Reads(t, c) <=> FarReads(Seen(c))
      /\ Reads(o, c) <=> NearReads(Seen(c))
  BY <1>1 DEF Reads, FarReads, NearReads, Seen
<1>4. InUse(c)' /\ Seen(c)'.carrier = Seen(c).carrier /\ Seen(c)'.step = step'[c]
      /\ Seen(c)'.got = got'[t][c]
  BY <1>0 DEF InUse, Seen
<1>5. CASE w = o
  <2>1. Peer(w, c) = t
    BY <1>5 DEF Peer
  <2>2. /\ wire'[o][c] = IF took THEN Tail(wire[o][c]) ELSE wire[o][c]
        /\ wire'[t][c] = ToFar(Seen(c), out)
    BY <1>1, <1>2, <1>3, <1>5, <2>1 DEF ToFar, Seen
  <2>3. fdAttr'[o][c] = a /\ fdAttr'[t][c] = fdAttr[t][c]
    BY <1>0, <1>1, <1>5
  <2>4. QED
    BY <1>0, <1>1, <1>4, <1>5, <2>2, <2>3 DEF Seen, Wrote
<1>6. CASE w = t
  <2>1. Peer(w, c) = o
    BY <1>1, <1>6 DEF Peer
  <2>2. /\ wire'[t][c] = IF took THEN Tail(wire[t][c]) ELSE wire[t][c]
        /\ wire'[o][c] = ToNear(Seen(c), out)
    BY <1>1, <1>2, <1>3, <1>6, <2>1 DEF ToNear, Seen
  <2>3. fdAttr'[t][c] = a /\ fdAttr'[o][c] = fdAttr[o][c]
    BY <1>0, <1>1, <1>6
  <2>4. QED
    BY <1>0, <1>1, <1>4, <1>6, <2>2, <2>3 DEF Seen, Wrote
<1>7. QED
  BY <1>5, <1>6

LEMMA WritesKept ==
    ASSUME NEW w \in Worker, NEW c \in Conn, NEW d \in Conn \ {c},
           NEW took, NEW dropped, NEW a, NEW out, Writes(w, c, took, dropped, a, out)
    PROVE  Kept(d)
<1>1. \A v \in Worker :
        /\ wire'[v][d] = IF v = w /\ d \in dropped THEN <<>> ELSE wire[v][d]
        /\ fdAttr'[v][d] = IF v = w /\ d \in dropped THEN Closed ELSE fdAttr[v][d]
  BY DEF Writes, Wires
<1>2. QED
  BY <1>1 DEF Kept, Writes

\* A connection a step is not about.
Still(d) ==
    /\ opener'[d] = opener[d] /\ target'[d] = target[d]
    /\ carrier'[d] = carrier[d] /\ step'[d] = step[d]
    /\ \A v \in Worker :
        fdAttr'[v][d] = fdAttr[v][d] /\ got'[v][d] = got[v][d] /\ wire'[v][d] = wire[v][d]

LEMMA StillKept ==
    ASSUME NEW d \in Conn, Still(d)
    PROVE  Kept(d)
BY DEF Still, Kept

-----------------------------------------------------------------------------
(* The actions.                                                            *)

\* An end that is open sends an application message.
LEMMA SendOnEvolves ==
    ASSUME IInv, IInv', ViewInv, NEW w \in Worker, NEW c \in Conn, SendOn(w, c),
           fdAttr[w][c].open,
           w = target[c] => got[w][c] # <<>> \/ fdAttr[w][c].identify # None
    PROVE  \A d \in Conn : Evolves(d)
<1> DEFINE k == fdAttr[w][c]  m == NextMsg(w)  x == Seen(c)  y == Seen(c)'
<1>1. TypeOK /\ OpenIsEnd
  BY DEF IInv, Shape
<1>2. InUse(c) /\ w \in {opener[c], target[c]}
  BY <1>1 DEF OpenIsEnd, InUse
<1>3. m \in Msg /\ m.cmd = DataCmd /\ k \in Attr
  BY <1>1, NextMsgType DEF NextMsg, TypeOK
<1>5. /\ opener' = opener /\ target' = target /\ carrier' = carrier
      /\ step' = step /\ got' = got
      /\ wire' = Wires(w, c, FALSE, {}, Written(k, m))
      /\ fdAttr' = [fdAttr EXCEPT ![w][c] = AfterSend(k, m)]
  BY DEF SendOn, connVars, stepVars
<1>6. Writes(w, c, FALSE, {}, AfterSend(k, m), Written(k, m))
  BY <1>1, <1>5 DEF Writes, TypeOK
<1>7. /\ InUse(c)'
      /\ y.carrier = x.carrier /\ y.step = x.step /\ y.got = x.got
      /\ w = opener[c] => /\ y.near = AfterSend(k, m) /\ y.far = x.far
                          /\ y.toNear = x.toNear /\ y.toFar = ToFar(x, Written(k, m))
      /\ w = target[c] => /\ y.far = AfterSend(k, m) /\ y.near = x.near
                          /\ y.toFar = x.toFar /\ y.toNear = ToNear(x, Written(k, m))
  <2>1. x.step = step[c] /\ x.got = got[target[c]][c]
    BY DEF Seen
  <2>2. Wrote(w, c, FALSE, AfterSend(k, m), Written(k, m))
    <3> HIDE DEF k, m
    <3>1. QED
      BY <1>2, <1>6, WritesSeen
  <2>3. QED
    BY <1>5, <2>1, <2>2 DEF Wrote
<1>8. x \in View /\ y \in View
  BY <1>2, <1>7, SeenType
<1>9. Evolves(c)
  <2>1. CASE w = opener[c]
    <3>1. x.near = k
      BY <2>1 DEF Seen
    <3> HIDE DEF x, y, k, m
    <3>2. y = [x EXCEPT !.near = AfterSend(x.near, m), !.toFar = ToFar(x, Written(x.near, m))]
      BY <1>7, <1>8, <2>1, <3>1 DEF View
    <3>3. NearSends(m, x, y)
      BY <1>3, <3>1, <3>2 DEF NearSends, k
    <3>4. QED
      BY <1>2, <1>3, <1>5, <1>7, <3>3 DEF Evolves, Stays, Change, x, y
  <2>2. CASE w = target[c]
    <3>1. x.far = k /\ x.got = got[w][c]
      BY <2>2 DEF Seen
    <3> HIDE DEF x, y, k, m
    <3>2. y = [x EXCEPT !.far = AfterSend(x.far, m), !.toNear = ToNear(x, Written(x.far, m))]
      BY <1>7, <1>8, <2>2, <3>1 DEF View
    <3>3. FarSends(m, x, y)
      BY <1>3, <2>2, <3>1, <3>2 DEF FarSends, k
    <3>4. QED
      BY <1>2, <1>3, <1>5, <1>7, <3>3 DEF Evolves, Stays, Change, x, y
  <2>3. QED
    BY <1>2, <2>1, <2>2
<1>10. ASSUME NEW d \in Conn \ {c} PROVE Evolves(d)
  <2> HIDE DEF k, m
  <2>1. Kept(d)
    BY <1>6, WritesKept
  <2>2. QED
    BY <2>1, KeptDrifts, DriftsEvolves
<1>11. QED
  BY <1>9, <1>10

LEMMA AutoSendEvolves ==
    ASSUME IInv, IInv', ViewInv, NEW w \in Worker, NEW p \in Worker, NEW c \in Conn,
           AutoSend(w, p, c)
    PROVE  \A d \in Conn : Evolves(d)
<1> DEFINE m == NextMsg(w)
           k == [Opened(p, m) EXCEPT !.identify = p]
<1>1. TypeOK /\ w # p
  BY RouteAssumption DEF IInv, AutoSend
<1>2. m \in Msg /\ m.cmd = DataCmd
  BY <1>1, NextMsgType DEF NextMsg
<1>3. k.open /\ k.status = 0 /\ k.wait = <<m>>
  BY DEF Opened
<1>4. /\ \A v \in Worker, d \in Conn :
            fdAttr'[v][d] = IF v = w /\ d = c THEN k
                            ELSE IF v = w /\ d \in Replaced(w, p, c) THEN Closed
                            ELSE fdAttr[v][d]
      /\ carrier[c] = "unused" /\ wire' = wire /\ got' = got /\ step' = step
  BY <1>1 DEF AutoSend, AddMsgShell, TypeOK, stepVars
<1> HIDE DEF k, m
<1>5. /\ opener'[c] = w /\ target'[c] = p /\ carrier'[c] = "connecting"
      /\ \A d \in Conn \ {c} : opener'[d] = opener[d] /\ target'[d] = target[d]
                                 /\ carrier'[d] = carrier[d]
  BY <1>1 DEF AutoSend, TypeOK
<1>6. Untouched(c)
  BY <1>4 DEF ViewInv, InUse
<1>7. /\ fdAttr'[w][c] = k /\ fdAttr'[p][c] = Closed
      /\ wire'[w][c] = <<>> /\ wire'[p][c] = <<>> /\ got'[p][c] = <<>> /\ step'[c] = "none"
  BY <1>1, <1>4, <1>6 DEF Untouched
<1>8. Opens(Seen(c)')
  BY <1>2, <1>3, <1>5, <1>7 DEF Opens, Seen
<1>9. Evolves(c)
  BY <1>4, <1>5, <1>8 DEF Evolves, Stays, InUse
<1>10. ASSUME NEW d \in Conn \ {c} PROVE Evolves(d)
  <2>1. msgShell[w][p] = None
    BY DEF AutoSend
  <2>2. Replaced(w, p, c) = {}
    BY <2>1, WorkerAssumption DEF Replaced
  <2>3. Still(d)
    BY <1>4, <1>5, <2>2 DEF Still
  <2>4. QED
    BY <2>3, StillKept, KeptDrifts, DriftsEvolves
<1>11. QED
  BY <1>9, <1>10

LEMMA IoWriteDrifts ==
    ASSUME IInv, IInv', ViewInv, NEW c \in Conn, IoWrite(c)
    PROVE  \A d \in Conn : Drifts(d)
<1> DEFINE o == opener[c]  t == target[c]  m == Control(REQ_CONNECT)
           x == Seen(c)  y == Seen(c)'
<1>1. TypeOK
  BY DEF IInv
<1>2. /\ carrier[c] = "connecting" /\ fdAttr[o][c].open
      /\ opener' = opener /\ target' = target /\ got' = got
      /\ carrier' = [carrier EXCEPT ![c] = "manager"]
      /\ step' = [step EXCEPT ![c] = "connect"]
      /\ fdAttr' = [fdAttr EXCEPT ![o][c] = AfterSend(fdAttr[o][c], m)]
      /\ wire' = [wire EXCEPT ![t][c] = Append(wire[t][c], m)]
  BY DEF IoWrite
<1>3. InUse(c) /\ InUse(c)' /\ o \in Worker /\ t \in Worker /\ o # t
  <2>1. InUse(c) /\ InUse(c)'
    BY <1>1, <1>2 DEF InUse, TypeOK
  <2>2. QED
    BY <2>1, SeenType
<1>4. x \in View /\ y \in View
  BY <1>3, SeenType
<1>5. /\ y.carrier = "manager" /\ y.step = "connect" /\ y.got = x.got
      /\ y.near = AfterSend(x.near, m) /\ y.far = x.far
      /\ y.toFar = Append(x.toFar, m) /\ y.toNear = x.toNear
      /\ x.carrier = "connecting" /\ x.near.open
  BY <1>1, <1>2, <1>3 DEF Seen, TypeOK
<1>6. Drifts(c)
  <2> HIDE DEF x, y, m
  <2>1. y = [x EXCEPT !.carrier = "manager", !.step = "connect",
                      !.near = AfterSend(x.near, m), !.toFar = Append(x.toFar, m)]
    BY <1>4, <1>5 DEF View
  <2>2. Starts(x, y)
    BY <1>5, <2>1 DEF Starts, m
  <2>3. QED
    BY <1>2, <1>3, <2>2 DEF Drifts, Stays, Moved, x, y
<1>7. ASSUME NEW d \in Conn \ {c} PROVE Drifts(d)
  <2>1. Still(d)
    BY <1>1, <1>2, <1>3 DEF Still, TypeOK
  <2>2. QED
    BY <2>1, StillKept, KeptDrifts
<1>8. QED
  BY <1>6, <1>7

LEMMA ConnectFailsDrifts ==
    ASSUME IInv, IInv', ViewInv, NEW c \in Conn, ConnectFails(c)
    PROVE  \A d \in Conn : Drifts(d)
<1> DEFINE o == opener[c]  t == target[c]
<1>1. TypeOK
  BY DEF IInv
<1>2. /\ carrier[c] = "connecting"
      /\ opener' = opener /\ target' = target /\ got' = got /\ step' = step
      /\ carrier' = [carrier EXCEPT ![c] = "dead"]
      /\ fdAttr' = [fdAttr EXCEPT ![o][c] = Closed]
      /\ wire' = [wire EXCEPT ![o][c] = <<>>]
  BY DEF ConnectFails, DestroyConnect, stepVars
<1>3. InUse(c) /\ o \in Worker /\ t \in Worker /\ o # t
  <2>1. InUse(c)
    BY <1>2 DEF InUse
  <2>2. QED
    BY <2>1, SeenType
<1>4. wire[t][c] = <<>>
  <2>1. Placed(Seen(c))
    BY <1>3 DEF ViewInv, Good
  <2>2. QED
    BY <1>2, <2>1 DEF Placed, Seen
<1>5. Kept(c)
  BY <1>1, <1>2, <1>3, <1>4 DEF Kept, TypeOK
<1>6. ASSUME NEW d \in Conn \ {c} PROVE Kept(d)
  <2>1. Still(d)
    BY <1>1, <1>2, <1>3 DEF Still, TypeOK
  <2>2. QED
    BY <2>1, StillKept
<1>7. QED
  BY <1>5, <1>6, KeptDrifts

LEMMA StepTimeoutDrifts ==
    ASSUME IInv, IInv', ViewInv, NEW c \in Conn, StepTimeout(c)
    PROVE  \A d \in Conn : Drifts(d)
<1> DEFINE o == opener[c]  k == fdAttr[o][c]
           m == Control(IF step[c] = "connect" THEN REQ_CONNECT ELSE REQ_TELL)
           x == Seen(c)  y == Seen(c)'
<1>1. TypeOK /\ StepUsed
  BY DEF IInv, Shape
<1>2. /\ "timeout" \in Faults /\ step[c] # "none"
      /\ opener' = opener /\ target' = target /\ carrier' = carrier /\ got' = got
  BY DEF StepTimeout, connVars
<1>3. InUse(c) /\ InUse(c)' /\ o \in Worker /\ target[c] \in Worker /\ o # target[c]
  <2>1. InUse(c) /\ InUse(c)'
    BY <1>1, <1>2 DEF InUse, StepUsed
  <2>2. QED
    BY <2>1, SeenType
<1>4. x \in View /\ y \in View
  BY <1>3, SeenType
<1>5. CASE /\ step' = step /\ fdAttr' = fdAttr /\ wire' = wire
  <2>1. \A d \in Conn : Still(d)
    BY <1>2, <1>5 DEF Still
  <2>2. QED
    BY <2>1, StillKept, KeptDrifts
<1>6. CASE /\ step' = step /\ k.open
           /\ fdAttr' = [fdAttr EXCEPT ![o][c] = AfterSend(k, m)]
           /\ wire' = Wires(o, c, FALSE, {}, Written(k, m))
  <2>1. Writes(o, c, FALSE, {}, AfterSend(k, m), Written(k, m))
    BY <1>1, <1>2, <1>3, <1>6 DEF Writes, TypeOK
  <2>2. /\ m \in Msg /\ m.cmd \in {REQ_CONNECT, REQ_TELL}
        /\ m \in {Control(REQ_CONNECT), Control(REQ_TELL)}
    BY ControlMsgs DEF Control
  <2> HIDE DEF m, k, o
  <2>3. Wrote(o, c, FALSE, AfterSend(k, m), Written(k, m))
    BY <1>3, <2>1, WritesSeen DEF o
  <2>4. /\ y.carrier = x.carrier /\ y.step = x.step /\ y.got = x.got
        /\ y.near = AfterSend(x.near, m) /\ y.far = x.far
        /\ y.toNear = x.toNear /\ y.toFar = ToFar(x, Written(x.near, m))
        /\ x.near.open /\ x.step # "none"
    <3>1. x.step = step[c] /\ x.got = got[target[c]][c] /\ x.near = k
      BY DEF Seen, k, o
    <3>2. QED
      BY <1>2, <1>6, <2>3, <3>1 DEF Wrote, o
  <2>5. Drifts(c)
    <3> HIDE DEF x, y
    <3>1. y = [x EXCEPT !.near = AfterSend(x.near, m), !.toFar = ToFar(x, Written(x.near, m))]
      BY <1>4, <2>4 DEF View
    <3>2. NearSends(m, x, y)
      BY <1>2, <2>2, <2>4, <3>1 DEF NearSends
    <3>3. Moved(o, target[c], x, y)
      BY <2>2, <3>2 DEF Moved
    <3>4. QED
      BY <1>2, <1>3, <3>3 DEF Drifts, Stays, x, y, o
  <2>6. ASSUME NEW d \in Conn \ {c} PROVE Drifts(d)
    <3>1. Kept(d)
      BY <1>3, <2>1, WritesKept
    <3>2. QED
      BY <3>1, KeptDrifts
  <2>7. QED
    BY <2>5, <2>6
<1>7. CASE step' = [step EXCEPT ![c] = "none"] /\ fdAttr' = fdAttr /\ wire' = wire
  <2>1. /\ y.carrier = x.carrier /\ y.step = "none" /\ y.got = x.got
        /\ y.near = x.near /\ y.far = x.far
        /\ y.toNear = x.toNear /\ y.toFar = x.toFar
    BY <1>1, <1>2, <1>7 DEF Seen, TypeOK
  <2>2. Drifts(c)
    <3> HIDE DEF x, y
    <3>1. y = [x EXCEPT !.step = "none"]
      BY <1>4, <2>1 DEF View
    <3>2. QED
      BY <1>2, <1>3, <3>1 DEF Drifts, Stays, Moved, GivesUp, x, y
  <2>3. ASSUME NEW d \in Conn \ {c} PROVE Drifts(d)
    <3>1. Still(d)
      BY <1>1, <1>2, <1>7 DEF Still, TypeOK
    <3>2. QED
      BY <3>1, StillKept, KeptDrifts
  <2>4. QED
    BY <2>2, <2>3
<1>8. QED
  BY <1>5, <1>6, <1>7 DEF StepTimeout

LEMMA ManagerTransferDrifts ==
    ASSUME IInv, IInv', ViewInv, NEW c \in Conn, ManagerTransfer(c)
    PROVE  \A d \in Conn : Drifts(d)
<1> DEFINE o == opener[c]  t == target[c]  x == Seen(c)  y == Seen(c)'
<1>1. TypeOK
  BY DEF IInv
<1>2. /\ carrier[c] = "manager"
      /\ opener' = opener /\ target' = target /\ got' = got /\ step' = step
      /\ fdAttr' = fdAttr
  BY DEF ManagerTransfer, stepVars
<1>3. PICK n \in 1 .. Len(wire[t][c]), passed \in BOOLEAN :
        /\ carrier' = [carrier EXCEPT ![c] = IF passed THEN "passed" ELSE "dead"]
        /\ wire' = [w \in Worker |-> [wire[w] EXCEPT ![c] =
                IF w = t
                THEN IF passed THEN SubSeq(@, n + 1, Len(@)) ELSE <<>>
                ELSE IF w = o /\ fdAttr[w][c].open
                THEN Append(@, Control(RSP_CONNECT))
                ELSE @]]
  BY DEF ManagerTransfer
<1>4. InUse(c) /\ InUse(c)' /\ o \in Worker /\ t \in Worker /\ o # t
  <2>1. InUse(c) /\ InUse(c)'
    BY <1>1, <1>2, <1>3 DEF InUse, TypeOK
  <2>2. QED
    BY <2>1, SeenType
<1>5. x \in View /\ y \in View
  BY <1>4, SeenType
<1>6. /\ wire'[t][c] = IF passed THEN SubSeq(wire[t][c], n + 1, Len(wire[t][c])) ELSE <<>>
      /\ wire'[o][c] = IF fdAttr[o][c].open THEN Append(wire[o][c], Control(RSP_CONNECT))
                       ELSE wire[o][c]
      /\ \A v \in Worker, d \in Conn \ {c} : wire'[v][d] = wire[v][d]
  BY <1>1, <1>3, <1>4 DEF TypeOK
<1>7. /\ x.toFar = wire[t][c] /\ x.carrier = "manager"
      /\ y.carrier = IF passed THEN "passed" ELSE "dead"
      /\ y.step = x.step /\ y.near = x.near /\ y.far = x.far /\ y.got = x.got
      /\ y.toFar = IF passed THEN SubSeq(x.toFar, n + 1, Len(x.toFar)) ELSE <<>>
      /\ y.toNear = IF x.near.open THEN Append(x.toNear, Control(RSP_CONNECT)) ELSE x.toNear
  BY <1>1, <1>2, <1>3, <1>6 DEF Seen, TypeOK
<1>8. Drifts(c)
  <2> HIDE DEF x, y, t
  <2>1. y = [x EXCEPT !.carrier = IF passed THEN "passed" ELSE "dead",
                      !.toFar = IF passed THEN SubSeq(x.toFar, n + 1, Len(x.toFar)) ELSE <<>>,
                      !.toNear = IF x.near.open THEN Append(x.toNear, Control(RSP_CONNECT))
                                 ELSE x.toNear]
    BY <1>5, <1>7 DEF View
  <2>2. Transfers(x, y)
    BY <1>7, <2>1 DEF Transfers
  <2>3. QED
    BY <1>2, <1>4, <2>2 DEF Drifts, Stays, Moved, x, y, t
<1>9. ASSUME NEW d \in Conn \ {c} PROVE Drifts(d)
  <2>1. Still(d)
    BY <1>1, <1>2, <1>3, <1>6 DEF Still, TypeOK
  <2>2. QED
    BY <2>1, StillKept, KeptDrifts
<1>10. QED
  BY <1>8, <1>9

LEMMA FdTransferDrifts ==
    ASSUME IInv, IInv', ViewInv, NEW c \in Conn, FdTransfer(c)
    PROVE  \A d \in Conn : Drifts(d)
<1> DEFINE o == opener[c]  t == target[c]  x == Seen(c)  y == Seen(c)'
<1>1. TypeOK
  BY DEF IInv
<1>2. /\ carrier[c] = "passed"
      /\ opener' = opener /\ target' = target /\ got' = got /\ step' = step
      /\ wire' = wire
      /\ carrier' = [carrier EXCEPT ![c] = "worker"]
      /\ fdAttr' = [fdAttr EXCEPT ![t][c] = Accepted]
  BY DEF FdTransfer, stepVars
<1>3. InUse(c) /\ InUse(c)' /\ o \in Worker /\ t \in Worker /\ o # t
  <2>1. InUse(c) /\ InUse(c)'
    BY <1>1, <1>2 DEF InUse, TypeOK
  <2>2. QED
    BY <2>1, SeenType
<1>4. x \in View /\ y \in View
  BY <1>3, SeenType
<1>5. /\ x.carrier = "passed" /\ y.carrier = "worker" /\ y.far = Accepted
      /\ y.step = x.step /\ y.near = x.near /\ y.got = x.got
      /\ y.toFar = x.toFar /\ y.toNear = x.toNear
  BY <1>1, <1>2, <1>3 DEF Seen, TypeOK
<1>6. Drifts(c)
  <2> HIDE DEF x, y
  <2>1. y = [x EXCEPT !.carrier = "worker", !.far = Accepted]
    BY <1>4, <1>5 DEF View
  <2>2. QED
    BY <1>2, <1>3, <1>5, <2>1 DEF Drifts, Stays, Moved, Accepts, x, y
<1>7. ASSUME NEW d \in Conn \ {c} PROVE Drifts(d)
  <2>1. Still(d)
    BY <1>1, <1>2, <1>3 DEF Still, TypeOK
  <2>2. QED
    BY <2>1, StillKept, KeptDrifts
<1>8. QED
  BY <1>6, <1>7

LEMMA EndsDrift ==
    ASSUME IInv, IInv', ViewInv, NEW c \in Conn, ManagerClose(c) \/ Reset(c)
    PROVE  \A d \in Conn : Drifts(d)
<1>1. TypeOK
  BY DEF IInv
<1>2. /\ carrier[c] \in {"manager", "passed", "worker"}
      /\ opener' = opener /\ target' = target /\ got' = got /\ step' = step
      /\ fdAttr' = fdAttr
      /\ carrier' = [carrier EXCEPT ![c] = "dead"]
      /\ \/ wire' = [wire EXCEPT ![target[c]][c] = <<>>] /\ carrier[c] = "manager"
         \/ wire' = [w \in Worker |-> [wire[w] EXCEPT ![c] = <<>>]]
  BY DEF ManagerClose, Reset, stepVars
<1>3. target[c] \in Worker /\ opener[c] \in Worker
  <2>1. InUse(c)
    BY <1>2 DEF InUse
  <2>2. QED
    BY <2>1, SeenType
<1>4. /\ \A v \in Worker : wire'[v][c] \in {wire[v][c], <<>>}
      /\ wire'[target[c]][c] = <<>>
      /\ carrier[c] = "worker" => wire'[opener[c]][c] = <<>>
      /\ \A v \in Worker, d \in Conn \ {c} : wire'[v][d] = wire[v][d]
  <2>1. wire \in [Worker -> [Conn -> Seq(Msg)]]
    BY <1>1 DEF TypeOK
  <2>2. CASE wire' = [wire EXCEPT ![target[c]][c] = <<>>] /\ carrier[c] = "manager"
    BY <1>3, <2>1, <2>2
  <2>3. CASE wire' = [w \in Worker |-> [wire[w] EXCEPT ![c] = <<>>]]
    BY <1>3, <2>1, <2>3
  <2>4. QED
    BY <1>2, <2>2, <2>3
<1>5. Kept(c)
  BY <1>1, <1>2, <1>4 DEF Kept, TypeOK
<1>6. ASSUME NEW d \in Conn \ {c} PROVE Kept(d)
  <2>1. Still(d)
    BY <1>1, <1>2, <1>4 DEF Still, TypeOK
  <2>2. QED
    BY <2>1, StillKept
<1>7. QED
  BY <1>5, <1>6, KeptDrifts

LEMMA RecvEofDrifts ==
    ASSUME IInv, IInv', ViewInv, NEW w \in Worker, NEW c \in Conn, RecvEof(w, c)
    PROVE  \A d \in Conn : Drifts(d)
<1>1. TypeOK
  BY DEF IInv
<1>2. /\ opener' = opener /\ target' = target /\ carrier' = carrier
      /\ got' = got /\ step' = step
      /\ fdAttr' = [fdAttr EXCEPT ![w][c] = Closed]
      /\ wire' = [wire EXCEPT ![w][c] = <<>>]
  BY DEF RecvEof, DestroyConnect, connVars, stepVars
<1>3. Kept(c)
  BY <1>1, <1>2 DEF Kept, TypeOK
<1>4. ASSUME NEW d \in Conn \ {c} PROVE Kept(d)
  <2>1. Still(d)
    BY <1>1, <1>2 DEF Still, TypeOK
  <2>2. QED
    BY <2>1, StillKept
<1>5. QED
  BY <1>3, <1>4, KeptDrifts

LEMMA RestartWorkerDrifts ==
    ASSUME IInv, IInv', ViewInv, NEW w \in Worker, RestartWorker(w)
    PROVE  \A d \in Conn : Drifts(d)
<1>1. TypeOK
  BY DEF IInv
<1>2. ASSUME NEW d \in Conn PROVE Kept(d)
  <2>1. /\ opener'[d] = opener[d] /\ target'[d] = target[d]
        /\ carrier'[d] = IF target[d] = w /\ carrier[d] = "passed" THEN "dead" ELSE carrier[d]
        /\ step'[d] = IF opener[d] = w THEN "none" ELSE step[d]
    BY <1>1 DEF RestartWorker, TypeOK
  <2>2. \A v \in Worker :
        /\ got'[v][d] = got[v][d]
        /\ fdAttr'[v][d] = IF v = w THEN Closed ELSE fdAttr[v][d]
        /\ wire'[v][d] = IF v = w THEN IF target[d] = w /\ carrier[d] = "manager"
                                       THEN wire[v][d] ELSE <<>>
                         ELSE wire[v][d]
    BY <1>1 DEF RestartWorker, TypeOK
  <2>3. ASSUME carrier[d] = "manager", target[d] = w PROVE fdAttr[w][d] = Closed
    <3>1. Placed(Seen(d))
      BY <2>3 DEF ViewInv, Good, InUse
    <3>2. QED
      BY <2>3, <3>1 DEF Placed, Seen
  <2>4. QED
    BY <2>1, <2>2, <2>3 DEF Kept
<1>3. QED
  BY <1>2, KeptDrifts

-----------------------------------------------------------------------------
(* Reading.                                                                *)

LEMMA NothingWritten ==
    ASSUME NEW x \in View
    PROVE  ToFar(x, <<>>) = x.toFar /\ ToNear(x, <<>>) = x.toNear
<1>1. x.toFar \in Seq(Msg) /\ x.toNear \in Seq(Msg)
  BY DEF View
<1>2. \A s \in Seq(Msg) : s \o <<>> = s
  BY ConcatEmptySeq
<1>3. QED
  BY <1>1, <1>2 DEF ToFar, ToNear

\* A message arrives at one of the ends, and only what the other one sends.
LEMMA ArrivesAt ==
    ASSUME IInv, IInv', ViewInv, NEW w \in Worker, NEW c \in Conn, NEW cmd,
           Arrives(w, c, cmd)
    PROVE  LET x == Seen(c) IN
           /\ InUse(c) /\ w \in {opener[c], target[c]} /\ x \in View
           /\ w = opener[c] =>
                /\ x.near.open /\ x.toNear # <<>> /\ Head(x.toNear).cmd = cmd
                /\ cmd \in {RSP_CONNECT, SYS_ERROR, RSP_TELL, DataCmd}
                /\ x.near = fdAttr[w][c] /\ Head(x.toNear) = Head(wire[w][c])
                /\ Heard(w, c) = AfterRecv(x.near, Head(x.toNear))
                /\ Peer(w, c) = target[c]
           /\ w = target[c] =>
                /\ x.far.open /\ x.toFar # <<>> /\ Head(x.toFar).cmd = cmd
                /\ cmd \in {REQ_CONNECT, REQ_TELL, DataCmd}
                /\ x.far = fdAttr[w][c] /\ Head(x.toFar) = Head(wire[w][c])
                /\ Heard(w, c) = AfterRecv(x.far, Head(x.toFar))
                /\ Peer(w, c) = opener[c]
<1> DEFINE x == Seen(c)
<1>1. fdAttr[w][c].open /\ wire[w][c] # <<>> /\ Head(wire[w][c]).cmd = cmd
  BY DEF Arrives
<1>2. InUse(c) /\ w \in {opener[c], target[c]}
  BY <1>1 DEF IInv, Shape, OpenIsEnd, InUse
<1>3. x \in View /\ opener[c] # target[c]
  BY <1>2, SeenType
<1>4. Placed(x)
  BY <1>2 DEF ViewInv, Good
<1>5. x.toNear \in Seq(Msg) /\ x.toFar \in Seq(Msg)
  BY <1>3 DEF View
<1>6. CASE w = opener[c]
  <2>1. x.near = fdAttr[w][c] /\ x.toNear = wire[w][c]
    BY <1>6 DEF Seen
  <2>2. cmd \in Cmds(x.toNear)
    BY <1>1, <1>5, <2>1, CmdsOfTail
  <2>3. QED
    BY <1>1, <1>2, <1>3, <1>4, <1>6, <2>1, <2>2 DEF Placed, Heard, Peer
<1>7. CASE w = target[c]
  <2>1. x.far = fdAttr[w][c] /\ x.toFar = wire[w][c]
    BY <1>7 DEF Seen
  <2>2. cmd \in Cmds(x.toFar)
    BY <1>1, <1>5, <2>1, CmdsOfTail
  <2>3. QED
    BY <1>1, <1>2, <1>3, <1>4, <1>7, <2>1, <2>2 DEF Placed, Heard, Peer
<1>8. QED
  BY <1>2, <1>6, <1>7

\* It is enough to say what reading makes of the view of c.
LEMMA HearsEvolves ==
    ASSUME IInv, IInv', ViewInv, NEW w \in Worker, NEW c \in Conn, InUse(c),
           w \in {opener[c], target[c]},
           NEW dropped, NEW a, NEW out, Writes(w, c, TRUE, dropped, a, out),
           w = opener[c] => NearHears(target[c], Seen(c), Seen(c)'),
           w = target[c] => FarHears(opener[c], Seen(c), Seen(c)')
    PROVE  /\ \A d \in Conn : Evolves(d)
           /\ Silent(Head(wire[w][c])) /\ got' = got => \A d \in Conn : Drifts(d)
<1>1. opener' = opener /\ target' = target /\ carrier' = carrier
  BY DEF Writes
<1>2. InUse(c)' /\ Stays(c)
  BY <1>1 DEF InUse, Stays
<1>3. Change(opener[c], target[c], Seen(c), Seen(c)')
  BY DEF Change
<1>4. Evolves(c)
  BY <1>2, <1>3 DEF Evolves
<1>5. ASSUME Silent(Head(wire[w][c])), got' = got PROVE Drifts(c)
  <2>1. /\ w = opener[c] => Head(Seen(c).toNear) = Head(wire[w][c])
        /\ w = target[c] => Head(Seen(c).toFar) = Head(wire[w][c])
        /\ Seen(c)'.got = Seen(c).got
    BY <1>1, <1>5 DEF Seen
  <2>2. Moved(opener[c], target[c], Seen(c), Seen(c)')
    BY <1>5, <2>1 DEF Moved
  <2>3. QED
    BY <1>2, <2>2 DEF Drifts
<1>6. ASSUME NEW d \in Conn \ {c} PROVE Drifts(d)
  <2>1. Kept(d)
    BY WritesKept
  <2>2. QED
    BY <2>1, KeptDrifts
<1>7. \A d \in Conn \ {c} : Evolves(d)
  BY <1>6, DriftsEvolves
<1>8. QED
  BY <1>4, <1>5, <1>6, <1>7

\* The same for the messages of the handshake.
LEMMA HearsDrifts ==
    ASSUME IInv, IInv', ViewInv, NEW w \in Worker, NEW c \in Conn, InUse(c),
           w \in {opener[c], target[c]}, got' = got,
           NEW cmd \in {REQ_CONNECT, RSP_CONNECT, REQ_TELL, RSP_TELL}, Arrives(w, c, cmd),
           NEW dropped, NEW a, NEW out, Writes(w, c, TRUE, dropped, a, out),
           w = opener[c] => NearHears(target[c], Seen(c), Seen(c)'),
           w = target[c] => FarHears(opener[c], Seen(c), Seen(c)')
    PROVE  \A d \in Conn : Drifts(d)
<1>1. Silent(Head(wire[w][c]))
  BY CmdsDiffer DEF Silent, Arrives
<1>2. QED
  BY <1>1, HearsEvolves

LEMMA RecvRspConnectDrifts ==
    ASSUME IInv, IInv', ViewInv, NEW w \in Worker, NEW c \in Conn, RecvRspConnect(w, c)
    PROVE  \A d \in Conn : Drifts(d)
<1> DEFINE k == Heard(w, c)  m == Control(REQ_TELL)  x == Seen(c)  y == Seen(c)'
<1>1. TypeOK /\ Arrives(w, c, RSP_CONNECT)
  BY DEF IInv, RecvRspConnect
<1>2. /\ InUse(c) /\ x \in View
      /\ w = opener[c]
      /\ x.near.open /\ x.toNear # <<>> /\ Head(x.toNear).cmd = RSP_CONNECT
      /\ k = AfterRecv(x.near, Head(x.toNear))
  <2>1. /\ InUse(c) /\ w \in {opener[c], target[c]} /\ x \in View
        /\ w = opener[c] =>
                /\ x.near.open /\ x.toNear # <<>> /\ Head(x.toNear).cmd = RSP_CONNECT
                /\ k = AfterRecv(x.near, Head(x.toNear))
        /\ w = target[c] => RSP_CONNECT \in {REQ_CONNECT, REQ_TELL, DataCmd}
    BY <1>1, ArrivesAt
  <2>2. RSP_CONNECT \notin {REQ_CONNECT, REQ_TELL, DataCmd}
    BY CmdsDiffer
  <2>3. QED
    BY <2>1, <2>2
<1>3. /\ opener' = opener /\ target' = target /\ carrier' = carrier /\ got' = got
  BY DEF RecvRspConnect, connVars
<1>4. x.step = step[c] /\ x.got = got[target[c]][c] /\ opener[c] # target[c]
  <2>1. opener[c] # target[c]
    BY <1>2, SeenType
  <2>2. QED
    BY <2>1 DEF Seen
<1>5. CASE step[c] = "connect"
  <2>1. Writes(w, c, TRUE, {}, AfterSend(k, m), Written(k, m)) /\ step'[c] = "tell"
    BY SMTT(30), <1>1, <1>3, <1>5 DEF RecvRspConnect, Writes, TypeOK
  <2> HIDE DEF k, m
  <2>2. Wrote(w, c, TRUE, AfterSend(k, m), Written(k, m))
    BY <1>2, <2>1, WritesSeen
  <2>3. /\ InUse(c)'
        /\ y.carrier = x.carrier /\ y.step = "tell" /\ y.got = x.got
        /\ y.near = AfterSend(k, m) /\ y.far = x.far
        /\ y.toNear = Tail(x.toNear) /\ y.toFar = ToFar(x, Written(k, m))
    BY <1>2, <1>3, <1>4, <2>1, <2>2 DEF Wrote
  <2>4. y \in View
    BY <2>3, SeenType
  <2>5. NearHears(target[c], x, y)
    <3> HIDE DEF x, y
    <3>1. y = [x EXCEPT !.step = "tell", !.near = AfterSend(k, m),
                        !.toNear = Tail(x.toNear), !.toFar = ToFar(x, Written(k, m))]
      BY <1>2, <2>3, <2>4 DEF View
    <3>2. QED
      BY <1>2, <3>1 DEF NearHears, m
  <2>6. QED
    BY <1>1, <1>3, <1>2, <1>4, <2>1, <2>5, HearsDrifts
<1>6. CASE step[c] # "connect"
  <2>1. Writes(w, c, TRUE, {}, k, <<>>) /\ step' = step
    BY <1>1, <1>3, <1>6 DEF RecvRspConnect, Writes, TypeOK, stepVars
  <2> HIDE DEF k, m
  <2>2. Wrote(w, c, TRUE, k, <<>>)
    BY <1>2, <2>1, WritesSeen
  <2>3. /\ InUse(c)'
        /\ y.carrier = x.carrier /\ y.step = x.step /\ y.got = x.got
        /\ y.near = k /\ y.far = x.far
        /\ y.toNear = Tail(x.toNear) /\ y.toFar = x.toFar
    BY <1>2, <1>3, <1>4, <2>1, <2>2, NothingWritten DEF Wrote
  <2>4. y \in View
    BY <2>3, SeenType
  <2>5. NearHears(target[c], x, y)
    <3> HIDE DEF x, y
    <3>1. y = [x EXCEPT !.near = k, !.toNear = Tail(x.toNear)]
      BY <1>2, <2>3, <2>4 DEF View
    <3>2. RSP_CONNECT # RSP_TELL
      BY CmdsDiffer
    <3>3. QED
      BY <1>2, <3>1, <3>2 DEF NearHears
  <2>6. QED
    BY <1>1, <1>3, <1>2, <1>4, <2>1, <2>5, HearsDrifts
<1>7. QED
  BY <1>5, <1>6

LEMMA RecvReqConnectDrifts ==
    ASSUME IInv, IInv', ViewInv, NEW w \in Worker, NEW c \in Conn, RecvReqConnect(w, c)
    PROVE  \A d \in Conn : Drifts(d)
<1> DEFINE k == Heard(w, c)  u == <<Control(SYS_ERROR)>>  x == Seen(c)  y == Seen(c)'
<1>1. TypeOK /\ Arrives(w, c, REQ_CONNECT)
  BY DEF IInv, RecvReqConnect
<1>2. /\ InUse(c) /\ x \in View
      /\ w = target[c]
      /\ x.far.open /\ x.toFar # <<>> /\ Head(x.toFar).cmd = REQ_CONNECT
      /\ k = AfterRecv(x.far, Head(x.toFar))
  <2>1. /\ InUse(c) /\ w \in {opener[c], target[c]} /\ x \in View
        /\ w = target[c] =>
                /\ x.far.open /\ x.toFar # <<>> /\ Head(x.toFar).cmd = REQ_CONNECT
                /\ k = AfterRecv(x.far, Head(x.toFar))
        /\ w = opener[c] => REQ_CONNECT \in {RSP_CONNECT, SYS_ERROR, RSP_TELL, DataCmd}
    BY <1>1, ArrivesAt
  <2>2. REQ_CONNECT \notin {RSP_CONNECT, SYS_ERROR, RSP_TELL, DataCmd}
    BY CmdsDiffer
  <2>3. QED
    BY <2>1, <2>2
<1>3. /\ opener' = opener /\ target' = target /\ carrier' = carrier /\ got' = got
      /\ step' = step
  BY DEF RecvReqConnect, connVars, stepVars
<1>4. x.step = step[c] /\ x.got = got[target[c]][c] /\ opener[c] # target[c]
  <2>1. opener[c] # target[c]
    BY <1>2, SeenType
  <2>2. QED
    BY <2>1 DEF Seen
<1>5. Writes(w, c, TRUE, {}, k, u)
  BY <1>1, <1>3 DEF RecvReqConnect, Writes, TypeOK
<1> HIDE DEF k, u
<1>6. Wrote(w, c, TRUE, k, u)
  BY <1>2, <1>5, WritesSeen
<1>7. /\ InUse(c)'
      /\ y.carrier = x.carrier /\ y.step = x.step /\ y.got = x.got
      /\ y.far = k /\ y.near = x.near
      /\ y.toFar = Tail(x.toFar) /\ y.toNear = ToNear(x, u)
  BY <1>2, <1>3, <1>4, <1>6 DEF Wrote
<1>8. y \in View
  BY <1>7, SeenType
<1>9. FarHears(opener[c], x, y)
  <2> HIDE DEF x, y
  <2>1. y = [x EXCEPT !.far = k, !.toFar = Tail(x.toFar), !.toNear = ToNear(x, u)]
    BY <1>2, <1>7, <1>8 DEF View
  <2>2. QED
    BY <1>2, <2>1 DEF FarHears, u
<1>10. QED
  BY <1>1, <1>3, <1>2, <1>4, <1>5, <1>9, HearsDrifts

\* A message that leaves only its cmd, and possibly is dispatched.
LEMMA RecvQuietEvolves ==
    ASSUME IInv, IInv', ViewInv, NEW w \in Worker, NEW c \in Conn,
           RecvSysError(w, c) \/ RecvData(w, c)
    PROVE  /\ \A d \in Conn : Evolves(d)
           /\ RecvSysError(w, c) => \A d \in Conn : Drifts(d)
<1> DEFINE k == Heard(w, c)  x == Seen(c)  y == Seen(c)'  e == Head(wire[w][c])
<1>1. TypeOK
  BY DEF IInv
<1>2. PICK cmd \in {SYS_ERROR, DataCmd} : Arrives(w, c, cmd)
  BY DEF RecvSysError, RecvData
<1>3. /\ InUse(c) /\ w \in {opener[c], target[c]} /\ x \in View
      /\ w = opener[c] =>
                /\ x.near.open /\ x.toNear # <<>> /\ Head(x.toNear).cmd = cmd
                /\ k = AfterRecv(x.near, Head(x.toNear))
      /\ w = target[c] =>
                /\ x.far.open /\ x.toFar # <<>> /\ Head(x.toFar).cmd = cmd
                /\ cmd \in {REQ_CONNECT, REQ_TELL, DataCmd}
                /\ Head(x.toFar) = e
                /\ k = AfterRecv(x.far, Head(x.toFar))
  BY <1>2, ArrivesAt
<1>4. /\ opener' = opener /\ target' = target /\ carrier' = carrier /\ step' = step
      /\ wire' = Wires(w, c, TRUE, {}, <<>>)
      /\ fdAttr' = [fdAttr EXCEPT ![w][c] = k]
      /\ got' = got \/ got' = [got EXCEPT ![w][c] = Append(got[w][c], e.id)]
  BY DEF RecvSysError, RecvData, connVars, stepVars
<1>5. opener[c] # target[c] /\ opener[c] \in Worker /\ target[c] \in Worker
  BY <1>3, SeenType
<1>6. x.step = step[c] /\ x.got = got[target[c]][c]
  BY DEF Seen
<1> HIDE DEF k, e
<1>7. Writes(w, c, TRUE, {}, k, <<>>)
  <2>1. \A v \in Worker, d \in Conn \ {c} : got'[v][d] = got[v][d]
    <3>1. CASE got' = got
      BY <3>1
    <3>2. CASE got' = [got EXCEPT ![w][c] = Append(got[w][c], e.id)]
      BY <1>1, <3>2 DEF TypeOK
    <3>3. QED
      BY <1>4, <3>1, <3>2
  <2>2. \A v \in Worker, d \in Conn :
            fdAttr'[v][d] = IF v = w /\ d = c THEN k ELSE fdAttr[v][d]
    BY <1>1, <1>4 DEF TypeOK
  <2>3. QED
    BY <1>4, <2>1, <2>2 DEF Writes
<1>8. Wrote(w, c, TRUE, k, <<>>)
  BY <1>3, <1>7, WritesSeen
<1>9. InUse(c)' /\ y.carrier = x.carrier /\ y.step = x.step /\ y \in View
  <2>1. InUse(c)' /\ y.carrier = x.carrier /\ y.step = x.step
    BY <1>4, <1>6, <1>8 DEF Wrote
  <2>2. QED
    BY <2>1, SeenType
<1>10. /\ w = opener[c] => y.got = x.got
       /\ w = target[c] => y.got \in {x.got, Append(x.got, e.id)}
  <2>1. y.got = got'[target[c]][c]
    BY <1>8 DEF Wrote
  <2>2. CASE got' = got
    BY <1>6, <2>1, <2>2
  <2>3. CASE got' = [got EXCEPT ![w][c] = Append(got[w][c], e.id)]
    BY <1>1, <1>5, <1>6, <2>1, <2>3 DEF TypeOK
  <2>4. QED
    BY <1>4, <2>2, <2>3
<1>11. SYS_ERROR \notin {REQ_CONNECT, REQ_TELL, RSP_TELL} /\ DataCmd # RSP_TELL
  BY CmdsDiffer
<1> DEFINE Done == /\ \A d \in Conn : Evolves(d)
                   /\ Silent(e) /\ got' = got => \A d \in Conn : Drifts(d)
<1>12. ASSUME w = opener[c] PROVE Done
  <2>1. /\ y.near = k /\ y.far = x.far
        /\ y.toNear = Tail(x.toNear) /\ y.toFar = x.toFar
    BY <1>3, <1>8, <1>12, NothingWritten DEF Wrote
  <2>2. NearHears(target[c], x, y)
    <3> HIDE DEF x, y
    <3>1. y = [x EXCEPT !.near = k, !.toNear = Tail(x.toNear)]
      BY <1>3, <1>9, <1>10, <1>12, <2>1 DEF View
    <3>2. cmd # RSP_TELL
      BY <1>11
    <3>3. QED
      BY <1>3, <1>12, <3>1, <3>2 DEF NearHears
  <2>3. QED
    BY <1>3, <1>5, <1>7, <1>12, <2>2, HearsEvolves DEF e
<1>13. ASSUME w = target[c] PROVE Done
  <2>1. /\ y.far = k /\ y.near = x.near
        /\ y.toFar = Tail(x.toFar) /\ y.toNear = x.toNear
    BY <1>3, <1>8, <1>13, NothingWritten DEF Wrote
  <2>2. FarHears(opener[c], x, y)
    <3> HIDE DEF x, y
    <3>1. PICK g \in {x.got, Append(x.got, e.id)} : y.got = g
      BY <1>10, <1>13
    <3>2. y = [x EXCEPT !.far = k, !.toFar = Tail(x.toFar), !.got = g]
      BY <1>3, <1>9, <1>13, <2>1, <3>1 DEF View
    <3>3. cmd = DataCmd
      BY <1>3, <1>11, <1>13
    <3>4. QED
      BY <1>3, <1>13, <3>1, <3>2, <3>3 DEF FarHears
  <2>3. QED
    BY <1>3, <1>5, <1>7, <1>13, <2>2, HearsEvolves DEF e
<1>14. RecvSysError(w, c) => Silent(e) /\ got' = got
  BY CmdsDiffer DEF RecvSysError, Arrives, Silent, e
<1>15. QED
  BY <1>3, <1>12, <1>13, <1>14

\* AddMsgShell at an end of c changes the attributes as Writes says.
LEMMA MapWrites ==
    ASSUME TypeOK, NEW w \in Worker, NEW p \in Worker, NEW c \in Conn, NEW k, NEW out,
           AddMsgShell(w, p, c, k),
           opener' = opener, target' = target, carrier' = carrier, got' = got,
           \A d \in Conn \ {c} : step'[d] = step[d],
           wire' = Wires(w, c, TRUE, Replaced(w, p, c), out)
    PROVE  Writes(w, c, TRUE, Replaced(w, p, c), [k EXCEPT !.identify = p], out)
BY DEF AddMsgShell, Writes, TypeOK

LEMMA RecvReqTellDrifts ==
    ASSUME IInv, IInv', ViewInv, NEW w \in Worker, NEW c \in Conn, RecvReqTell(w, c)
    PROVE  \A d \in Conn : Drifts(d)
<1> DEFINE k == Heard(w, c)  m == Control(RSP_TELL)  x == Seen(c)  y == Seen(c)'
           o == opener[c]  a == AfterSend(k, m)  b == [a EXCEPT !.identify = o]
<1>1. TypeOK /\ Arrives(w, c, REQ_TELL)
  BY DEF IInv, RecvReqTell
<1>2. /\ InUse(c) /\ x \in View
      /\ w = target[c] /\ Peer(w, c) = o
      /\ x.far.open /\ x.toFar # <<>> /\ Head(x.toFar).cmd = REQ_TELL
      /\ k = AfterRecv(x.far, Head(x.toFar))
  <2>1. /\ InUse(c) /\ w \in {opener[c], target[c]} /\ x \in View
        /\ w = target[c] =>
                /\ x.far.open /\ x.toFar # <<>> /\ Head(x.toFar).cmd = REQ_TELL
                /\ k = AfterRecv(x.far, Head(x.toFar)) /\ Peer(w, c) = opener[c]
        /\ w = opener[c] => REQ_TELL \in {RSP_CONNECT, SYS_ERROR, RSP_TELL, DataCmd}
    BY <1>1, ArrivesAt
  <2>2. REQ_TELL \notin {RSP_CONNECT, SYS_ERROR, RSP_TELL, DataCmd}
    BY CmdsDiffer
  <2>3. QED
    BY <2>1, <2>2
<1>3. /\ opener' = opener /\ target' = target /\ carrier' = carrier /\ got' = got
      /\ step' = step
      /\ AddMsgShell(w, o, c, a)
      /\ wire' = Wires(w, c, TRUE, Replaced(w, o, c), Written(k, m))
  BY <1>2 DEF RecvReqTell, connVars, stepVars
<1>4. o \in Worker /\ opener[c] # target[c]
  BY <1>2, SeenType
<1>5. x.step = step[c] /\ x.got = got[target[c]][c]
  BY DEF Seen
<1> HIDE DEF k, m, a
<1>6. Writes(w, c, TRUE, Replaced(w, o, c), b, Written(k, m))
  <2> HIDE DEF o
  <2>1. QED
    BY <1>1, <1>3, <1>4, MapWrites
<1>7. Wrote(w, c, TRUE, b, Written(k, m))
  <2>1. c \notin Replaced(w, o, c)
    BY DEF Replaced
  <2> HIDE DEF b, o
  <2>2. QED
    BY <1>2, <1>6, <2>1, WritesSeen
<1> HIDE DEF b
<1>8. /\ InUse(c)'
      /\ y.carrier = x.carrier /\ y.step = x.step /\ y.got = x.got
      /\ y.far = b /\ y.near = x.near
      /\ y.toFar = Tail(x.toFar) /\ y.toNear = ToNear(x, Written(k, m))
  BY <1>2, <1>3, <1>4, <1>5, <1>7 DEF Wrote
<1>9. y \in View
  BY <1>8, SeenType
<1>10. FarHears(opener[c], x, y)
  <2> HIDE DEF x, y
  <2>1. y = [x EXCEPT !.far = b, !.toFar = Tail(x.toFar), !.toNear = ToNear(x, Written(k, m))]
    BY <1>2, <1>8, <1>9 DEF View
  <2>2. QED
    BY <1>2, <2>1 DEF FarHears, a, b, m, o
<1>11. QED
  BY <1>1, <1>3, <1>2, <1>4, <1>6, <1>10, HearsDrifts

LEMMA RecvRspTellDrifts ==
    ASSUME IInv, IInv', ViewInv, NEW w \in Worker, NEW c \in Conn, RecvRspTell(w, c)
    PROVE  \A d \in Conn : Drifts(d)
<1> DEFINE k == Heard(w, c)  x == Seen(c)  y == Seen(c)'
           t == target[c]  a == [k EXCEPT !.wait = <<>>]  b == [a EXCEPT !.identify = t]
<1>1. TypeOK /\ Arrives(w, c, RSP_TELL)
  BY DEF IInv, RecvRspTell
<1>2. /\ InUse(c) /\ x \in View
      /\ w = opener[c] /\ Peer(w, c) = t
      /\ x.near.open /\ x.toNear # <<>> /\ Head(x.toNear).cmd = RSP_TELL
      /\ k = AfterRecv(x.near, Head(x.toNear))
  <2>1. /\ InUse(c) /\ w \in {opener[c], target[c]} /\ x \in View
        /\ w = opener[c] =>
                /\ x.near.open /\ x.toNear # <<>> /\ Head(x.toNear).cmd = RSP_TELL
                /\ k = AfterRecv(x.near, Head(x.toNear)) /\ Peer(w, c) = target[c]
        /\ w = target[c] => RSP_TELL \in {REQ_CONNECT, REQ_TELL, DataCmd}
    BY <1>1, ArrivesAt
  <2>2. RSP_TELL \notin {REQ_CONNECT, REQ_TELL, DataCmd}
    BY CmdsDiffer
  <2>3. QED
    BY <2>1, <2>2
<1>3. /\ opener' = opener /\ target' = target /\ carrier' = carrier /\ got' = got
  BY DEF RecvRspTell, connVars
<1>4. t \in Worker /\ opener[c] # target[c]
  BY <1>2, SeenType
<1>5. x.step = step[c] /\ x.got = got[target[c]][c]
  BY DEF Seen
<1>6. CASE step[c] = "tell"
  <2>1. /\ step' = [step EXCEPT ![c] = "none"]
        /\ AddMsgShell(w, t, c, a)
        /\ wire' = Wires(w, c, TRUE, Replaced(w, t, c), k.wait)
    BY <1>2, <1>6 DEF RecvRspTell
  <2>2. step'[c] = "none" /\ \A d \in Conn \ {c} : step'[d] = step[d]
    BY <1>1, <2>1 DEF TypeOK
  <2> HIDE DEF k, a
  <2>3. Writes(w, c, TRUE, Replaced(w, t, c), b, k.wait)
    <3> HIDE DEF t
    <3>1. QED
      BY <1>1, <1>3, <1>4, <2>1, <2>2, MapWrites
  <2>4. Wrote(w, c, TRUE, b, k.wait)
    <3>1. c \notin Replaced(w, t, c)
      BY DEF Replaced
    <3> HIDE DEF b, t
    <3>2. QED
      BY <1>2, <2>3, <3>1, WritesSeen
  <2> HIDE DEF b
  <2>5. /\ InUse(c)'
        /\ y.carrier = x.carrier /\ y.step = "none" /\ y.got = x.got
        /\ y.near = b /\ y.far = x.far
        /\ y.toNear = Tail(x.toNear) /\ y.toFar = ToFar(x, k.wait)
    BY <1>2, <1>3, <1>4, <1>5, <2>2, <2>4 DEF Wrote
  <2>6. y \in View
    BY <2>5, SeenType
  <2>7. b = [k EXCEPT !.wait = <<>>, !.identify = t]
    BY DEF a, b
  <2>8. NearHears(target[c], x, y)
    <3> HIDE DEF x, y
    <3>1. y = [x EXCEPT !.step = "none", !.near = [k EXCEPT !.wait = <<>>, !.identify = t],
                        !.toNear = Tail(x.toNear), !.toFar = ToFar(x, k.wait)]
      BY <1>2, <2>5, <2>6, <2>7 DEF View
    <3>2. x.step = "tell"
      BY <1>5, <1>6
    <3>3. QED
      BY <1>2, <3>1, <3>2 DEF NearHears, t
  <2>9. QED
    BY <1>1, <1>3, <1>2, <1>4, <2>3, <2>8, HearsDrifts
<1>7. CASE step[c] # "tell"
  <2>1. Writes(w, c, TRUE, {}, k, <<>>) /\ step' = step
    BY <1>1, <1>3, <1>7 DEF RecvRspTell, Writes, TypeOK, stepVars
  <2> HIDE DEF k
  <2>2. Wrote(w, c, TRUE, k, <<>>)
    BY <1>2, <2>1, WritesSeen
  <2>3. /\ InUse(c)'
        /\ y.carrier = x.carrier /\ y.step = x.step /\ y.got = x.got
        /\ y.near = k /\ y.far = x.far
        /\ y.toNear = Tail(x.toNear) /\ y.toFar = x.toFar
    BY <1>2, <1>3, <1>4, <1>5, <2>1, <2>2, NothingWritten DEF Wrote
  <2>4. y \in View
    BY <2>3, SeenType
  <2>5. NearHears(target[c], x, y)
    <3> HIDE DEF x, y
    <3>1. y = [x EXCEPT !.near = k, !.toNear = Tail(x.toNear)]
      BY <1>2, <2>3, <2>4 DEF View
    <3>2. x.step # "tell"
      BY <1>5, <1>7
    <3>3. QED
      BY <1>2, <3>1, <3>2 DEF NearHears
  <2>6. QED
    BY <1>1, <1>3, <1>2, <1>4, <2>1, <2>5, HearsDrifts
<1>8. QED
  BY <1>6, <1>7

-----------------------------------------------------------------------------
(* The invariant of the views.                                             *)

\* A step of any other process than the sending and the dispatching one.
Moving ==
    \/ \E c \in Conn : \/ IoWrite(c) \/ ConnectFails(c) \/ StepTimeout(c)
                      \/ ManagerTransfer(c) \/ ManagerClose(c) \/ FdTransfer(c) \/ Reset(c)
    \/ \E w \in Worker : RestartWorker(w)
    \/ \E w \in Worker, c \in Conn :
        \/ RecvRspConnect(w, c) \/ RecvReqConnect(w, c) \/ RecvSysError(w, c)
        \/ RecvReqTell(w, c) \/ RecvRspTell(w, c) \/ RecvEof(w, c)
    \/ UNCHANGED vars

LEMMA MovingDrifts ==
    ASSUME IInv, IInv', ViewInv, Moving
    PROVE  \A d \in Conn : Drifts(d)
<1>1. ASSUME NEW w \in Worker, NEW c \in Conn,
             \/ RecvRspConnect(w, c) \/ RecvReqConnect(w, c) \/ RecvSysError(w, c)
             \/ RecvReqTell(w, c) \/ RecvRspTell(w, c) \/ RecvEof(w, c)
      PROVE  \A d \in Conn : Drifts(d)
  BY <1>1, RecvRspConnectDrifts, RecvReqConnectDrifts, RecvQuietEvolves,
     RecvReqTellDrifts, RecvRspTellDrifts, RecvEofDrifts
<1>2. ASSUME NEW c \in Conn,
             \/ IoWrite(c) \/ ConnectFails(c) \/ StepTimeout(c) \/ ManagerTransfer(c)
             \/ ManagerClose(c) \/ FdTransfer(c) \/ Reset(c)
      PROVE  \A d \in Conn : Drifts(d)
  BY <1>2, IoWriteDrifts, ConnectFailsDrifts, StepTimeoutDrifts,
     ManagerTransferDrifts, FdTransferDrifts, EndsDrift
<1>3. CASE UNCHANGED vars
  <2>1. \A d \in Conn : Still(d)
    BY <1>3 DEF vars, Still
  <2>2. QED
    BY <2>1, StillKept, KeptDrifts
<1>4. QED
  BY <1>1, <1>2, <1>3, RestartWorkerDrifts DEF Moving

\* A mapped connection is one SendOn may use.
LEMMA MappedSends ==
    ASSUME IInv, NEW w \in Worker, NEW p \in Worker, SendMapped(w, p)
    PROVE  \E c \in Conn : /\ SendOn(w, c) /\ fdAttr[w][c].open
                           /\ fdAttr[w][c].identify # None
<1> DEFINE c == msgShell[w][p]
<1>1. c # None /\ SendOn(w, c)
  BY DEF SendMapped
<1>2. c \in Conn
  BY <1>1 DEF IInv, TypeOK
<1>3. fdAttr[w][c].open /\ fdAttr[w][c].identify # None
  BY <1>1, WorkerAssumption DEF IInv, Shape, ShellLive
<1> HIDE DEF c
<1>4. QED
  BY <1>1, <1>2, <1>3

LEMMA StepIs ==
    ASSUME IInv, [Next]_vars
    PROVE  \/ Moving
           \/ \E w \in Worker, c \in Conn :
                /\ SendOn(w, c) /\ fdAttr[w][c].open
                /\ got[w][c] # <<>> \/ fdAttr[w][c].identify # None
           \/ \E w \in Worker, p \in Worker, c \in Conn : AutoSend(w, p, c)
           \/ \E w \in Worker, c \in Conn : RecvData(w, c)
<1>1. ASSUME NEW w \in Worker, NEW c \in Conn, Read(w, c)
      PROVE  Moving \/ RecvData(w, c)
  BY <1>1 DEF Read, Moving
<1>2. QED
  BY <1>1, MappedSends DEF Next, Reply, Moving

LEMMA StepEvolves ==
    ASSUME IInv, IInv', ViewInv, [Next]_vars
    PROVE  \A d \in Conn : Evolves(d)
BY StepIs, MovingDrifts, DriftsEvolves, SendOnEvolves, AutoSendEvolves, RecvQuietEvolves

LEMMA ViewInit == Init => ViewInv
<1> SUFFICES ASSUME Init PROVE ViewInv
  OBVIOUS
<1>1. \A c \in Conn : ~InUse(c) /\ Untouched(c)
  BY DEF Init, InUse, Untouched
<1>2. QED
  BY <1>1 DEF ViewInv

\* The views keep what is claimed of them in every behaviour.
LEMMA Views == Spec => [](IInv /\ ViewInv)
<1>1. Init => IInv /\ ViewInv
  BY InitInv, ViewInit
<1>2. IInv /\ ViewInv /\ [Next]_vars => (IInv /\ ViewInv)'
  <2> SUFFICES ASSUME IInv, ViewInv, [Next]_vars PROVE IInv' /\ ViewInv'
    OBVIOUS
  <2>1. IInv'
    BY NextInv
  <2>2. \A d \in Conn : Evolves(d)
    BY <2>1, StepEvolves
  <2>3. QED
    BY <2>1, <2>2, EvolvesGood
<1>3. QED
  BY <1>1, <1>2, PTL DEF Spec

\* An end that is not open has no attributes left: no entry in m_mapFdAttr.
AllShut == \A w \in Worker, c \in Conn : ~fdAttr[w][c].open => fdAttr[w][c] = Closed

LEMMA OneEndShut ==
    ASSUME TypeOK, AllShut, NEW w \in Worker, NEW c \in Conn, NEW a,
           a.open \/ a = Closed, fdAttr' = [fdAttr EXCEPT ![w][c] = a]
    PROVE  AllShut'
<1>1. \A v \in Worker, d \in Conn :
        fdAttr'[v][d] = IF v = w /\ d = c THEN a ELSE fdAttr[v][d]
  BY DEF TypeOK
<1>2. QED
  BY <1>1 DEF AllShut

LEMMA MappedShut ==
    ASSUME TypeOK, AllShut, NEW w \in Worker, NEW p \in Worker, NEW c \in Conn, NEW k \in Attr,
           k.open, AddMsgShell(w, p, c, k)
    PROVE  AllShut'
<1> DEFINE e == [k EXCEPT !.identify = p]
<1>1. e.open
  BY DEF Attr
<1>2. \A v \in Worker, d \in Conn :
        fdAttr'[v][d] = IF v = w /\ d = c THEN e
                        ELSE IF v = w /\ d \in Replaced(w, p, c) THEN Closed
                        ELSE fdAttr[v][d]
  BY DEF AddMsgShell, TypeOK
<1> HIDE DEF e
<1>3. QED
  BY <1>1, <1>2 DEF AllShut

LEMMA HeardShut ==
    ASSUME IInv, AllShut, NEW w \in Worker, NEW c \in Conn, Read(w, c)
    PROVE  AllShut'
<1> DEFINE k == Heard(w, c)
<1>1. TypeOK /\ EndsOK /\ OpenIsEnd
  BY DEF IInv, Shape
<1>2. CASE RecvEof(w, c)
  BY <1>1, <1>2, OneEndShut DEF RecvEof, DestroyConnect
<1>3. CASE ~RecvEof(w, c)
  <2>1. PICK cmd : Arrives(w, c, cmd)
    BY <1>3 DEF Read, RecvRspConnect, RecvReqConnect, RecvSysError, RecvReqTell,
                RecvRspTell, RecvData
  <2>2. k \in Attr /\ k.open /\ fdAttr[w][c].open
    BY <1>1, <2>1, HeardType DEF Arrives
  <2>3. Peer(w, c) \in Worker
    BY <1>1, <2>2, PeerType
  <2>4. \A m \in Msg : AfterSend(k, m) \in Attr /\ AfterSend(k, m).open
    BY <2>2, AfterSendType
  <2>5. [k EXCEPT !.wait = <<>>] \in Attr /\ [k EXCEPT !.wait = <<>>].open
    BY <2>2, NoMsgs DEF Attr
  <2> HIDE DEF k
  <2>6. CASE fdAttr' = [fdAttr EXCEPT ![w][c] = k]
    BY <1>1, <2>2, <2>6, OneEndShut
  <2>7. CASE \E m \in Msg : fdAttr' = [fdAttr EXCEPT ![w][c] = AfterSend(k, m)]
    BY <1>1, <2>4, <2>7, OneEndShut
  <2>8. CASE \E m \in Msg : AddMsgShell(w, Peer(w, c), c, AfterSend(k, m))
    BY <1>1, <2>3, <2>4, <2>8, MappedShut
  <2>9. CASE AddMsgShell(w, Peer(w, c), c, [k EXCEPT !.wait = <<>>])
    BY <1>1, <2>3, <2>5, <2>9, MappedShut
  <2>10. \/ fdAttr' = [fdAttr EXCEPT ![w][c] = k]
         \/ \E m \in Msg : fdAttr' = [fdAttr EXCEPT ![w][c] = AfterSend(k, m)]
         \/ \E m \in Msg : AddMsgShell(w, Peer(w, c), c, AfterSend(k, m))
         \/ AddMsgShell(w, Peer(w, c), c, [k EXCEPT !.wait = <<>>])
    <3>1. CASE RecvRspConnect(w, c)
      BY <3>1, ControlMsgs DEF RecvRspConnect, k
    <3>2. CASE RecvReqConnect(w, c) \/ RecvSysError(w, c) \/ RecvData(w, c)
      BY <3>2 DEF RecvReqConnect, RecvSysError, RecvData, k
    <3>3. CASE RecvReqTell(w, c)
      BY <3>3, ControlMsgs DEF RecvReqTell, k
    <3>4. CASE RecvRspTell(w, c)
      BY <3>4 DEF RecvRspTell, k
    <3>5. QED
      BY <1>3, <3>1, <3>2, <3>3, <3>4 DEF Read
  <2>11. QED
    BY <2>6, <2>7, <2>8, <2>9, <2>10
<1>4. QED
  BY <1>2, <1>3

LEMMA NextShut == IInv /\ ViewInv /\ AllShut /\ [Next]_vars => AllShut'
<1> SUFFICES ASSUME IInv, ViewInv, AllShut, [Next]_vars PROVE AllShut'
  OBVIOUS
<1>1. TypeOK /\ EndsOK /\ StepUsed
  BY DEF IInv, Shape
<1>2. ASSUME NEW w \in Worker, NEW c \in Conn, SendOn(w, c), fdAttr[w][c].open PROVE AllShut'
  <2>1. AfterSend(fdAttr[w][c], NextMsg(w)).open
    BY <1>1, <1>2, NextMsgType, AfterSendType DEF TypeOK
  <2>2. QED
    BY <1>1, <1>2, <2>1, OneEndShut DEF SendOn
<1>3. ASSUME NEW w \in Worker, NEW p \in Worker, SendMapped(w, p) PROVE AllShut'
  <2> DEFINE c == msgShell[w][p]
  <2>1. c # None /\ SendOn(w, c)
    BY <1>3 DEF SendMapped
  <2>2. c \in Conn
    BY <1>1, <2>1 DEF TypeOK
  <2>3. fdAttr[w][c].open
    BY <2>1 DEF IInv, Shape, ShellLive
  <2> HIDE DEF c
  <2>4. QED
    BY <1>2, <2>1, <2>2, <2>3
<1>4. ASSUME NEW w \in Worker, NEW p \in Worker, NEW c \in Conn, AutoSend(w, p, c)
      PROVE  AllShut'
  <2>1. Opened(p, NextMsg(w)) \in Attr /\ Opened(p, NextMsg(w)).open
    BY <1>1, NextMsgType, OpenedType
  <2>2. AddMsgShell(w, p, c, Opened(p, NextMsg(w)))
    BY <1>4 DEF AutoSend
  <2>3. QED
    BY <1>1, <2>1, <2>2, MappedShut
<1>5. ASSUME NEW c \in Conn, IoWrite(c) \/ StepTimeout(c) PROVE AllShut'
  <2> DEFINE o == opener[c]
  <2>1. o \in Worker
    BY <1>1, <1>5 DEF IoWrite, StepTimeout, EndsOK, StepUsed
  <2>2. \A m \in Msg : fdAttr[o][c].open => AfterSend(fdAttr[o][c], m).open
    BY <1>1, <2>1, AfterSendType DEF TypeOK
  <2>3. \/ fdAttr' = fdAttr
        \/ /\ fdAttr[o][c].open
           /\ \E m \in Msg : fdAttr' = [fdAttr EXCEPT ![o][c] = AfterSend(fdAttr[o][c], m)]
    <3>1. CASE IoWrite(c)
      BY <3>1, ControlMsgs DEF IoWrite
    <3>2. CASE StepTimeout(c)
      BY <3>2, ControlMsgs DEF StepTimeout
    <3>3. QED
      BY <1>5, <3>1, <3>2
  <2>4. CASE fdAttr' = fdAttr
    BY <2>4 DEF AllShut
  <2>5. QED
    BY <1>1, <2>1, <2>2, <2>3, <2>4, OneEndShut
<1>6. ASSUME NEW c \in Conn, ConnectFails(c) PROVE AllShut'
  BY <1>1, <1>6, OneEndShut DEF ConnectFails, DestroyConnect, EndsOK
<1>7. ASSUME NEW c \in Conn, FdTransfer(c) PROVE AllShut'
  BY <1>1, <1>7, ConstAttrs, OneEndShut DEF FdTransfer, EndsOK
<1>8. ASSUME NEW w \in Worker, RestartWorker(w) PROVE AllShut'
  BY <1>1, <1>8 DEF RestartWorker, TypeOK, AllShut
<1>9. CASE fdAttr' = fdAttr
  BY <1>9 DEF AllShut
<1>10. QED
  BY <1>2, <1>3, <1>4, <1>5, <1>6, <1>7, <1>8, <1>9, HeardShut
  DEF Next, Reply, ManagerTransfer, ManagerClose, Reset, vars

LEMMA Shut == Spec => []AllShut
<1>1. Init => AllShut
  BY DEF Init, AllShut
<1>2. QED
  BY <1>1, NextShut, Views, PTL DEF Spec

-----------------------------------------------------------------------------
(* Theorems.                                                               *)

\* When no application command has the low byte of CMD_RSP_TELL_WORKER, the
\* status that means "the peer answered, the connection is ready"
\* (Attribution.hpp:90-100) tells the truth, whatever fails: the peer knows the
\* initiator unless its end is gone.  OssWorker.cpp:373 would take such a
\* command for the answer; the repository defines none.
THEOREM ReadyWasTold ==
    ASSUME DataCmd % 256 # RSP_TELL
    PROVE  Spec => []ReadyMeansTold
<1>1. IInv /\ ViewInv => ReadyMeansTold
  <2> SUFFICES ASSUME IInv, ViewInv, NEW c \in Conn,
                      carrier[c] # "unused", fdAttr[opener[c]][c].open,
                      fdAttr[opener[c]][c].status = RSP_TELL, Reads(target[c], c)
               PROVE  fdAttr[target[c]][c].identify = opener[c]
    BY DEF ReadyMeansTold
  <2>1. Told(opener[c], Seen(c))
    BY DEF ViewInv, InUse, Good
  <2>2. FarReads(Seen(c))
    BY DEF FarReads, Reads, Seen
  <2>3. QED
    BY <2>1, <2>2 DEF Told, Knows, Seen
<1>2. QED
  BY <1>1, Views, PTL

\* When no handshake step times out, nothing stays in pWaitForSendBuff of a
\* ready connection (Attribution.hpp:103): the answer flushes it.
THEOREM FlushedWhenReady ==
    ASSUME "timeout" \notin Faults
    PROVE  Spec => []WaitFlushed
<1>1. IInv /\ ViewInv /\ AllShut => WaitFlushed
  <2> SUFFICES ASSUME IInv, ViewInv, AllShut, NEW w \in Worker, NEW c \in Conn,
                      fdAttr[w][c].status = RSP_TELL
               PROVE  fdAttr[w][c].wait = <<>>
    BY DEF WaitFlushed
  <2>1. CASE ~fdAttr[w][c].open
    BY <2>1, ClosedIs DEF AllShut
  <2>2. CASE fdAttr[w][c].open
    <3>1. InUse(c) /\ w \in {opener[c], target[c]}
      BY <2>2 DEF IInv, Shape, OpenIsEnd, InUse
    <3>2. Prompt(opener[c], Seen(c))
      BY <3>1 DEF ViewInv, Good
    <3>3. QED
      BY <2>2, <3>1, <3>2 DEF Prompt, Seen
  <2>3. QED
    BY <2>1, <2>2
<1>2. QED
  BY <1>1, Views, Shut, PTL

\* When no handshake step times out, a worker dispatches application messages
\* only on a connection whose opener told it who it is.
THEOREM ToldWhenServed ==
    ASSUME "timeout" \notin Faults
    PROVE  Spec => []ToldBeforeData
<1>1. IInv /\ ViewInv => ToldBeforeData
  <2> SUFFICES ASSUME IInv, ViewInv, NEW c \in Conn, carrier[c] = "worker",
                      fdAttr[target[c]][c].open, got[target[c]][c] # <<>>
               PROVE  fdAttr[target[c]][c].identify = opener[c]
    BY DEF ToldBeforeData
  <2>1. Prompt(opener[c], Seen(c))
    BY DEF ViewInv, InUse, Good
  <2>2. Knows(opener[c], Seen(c))
    BY <2>1 DEF Prompt, Seen
  <2>3. QED
    BY <2>2 DEF Knows, FarReads, Seen
<1>2. QED
  BY <1>1, Views, PTL
=============================================================================
