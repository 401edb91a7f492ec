---------------------------- MODULE NodeRegistry ----------------------------
(***************************************************************************)
(* The registry of nodes the Center keeps (Center/src), the connection     *)
(* each node's Manager keeps to the Center, and the routes the nodes learn *)
(* from it (OssManager.cpp, StepNodeNotice.cpp).                           *)
(*                                                                         *)
(* A Manager connects to the Center's one worker by the handshake of       *)
(* WorkerLink, tells it "ip:port" and registers; later it reports every    *)
(* NODE_BEAT seconds on the same connection.  The Center gives the node an *)
(* id, records it in the database, sends it the registered nodes of the    *)
(* types it needs, and announces it to the registered nodes that need it.  *)
(* When a connection is destroyed, the node whose identity it carries      *)
(* leaves the registry and the nodes that need it are told.                *)
(*                                                                         *)
(* Identities are node keys ("ip:port"), so an entry of the Center's       *)
(* m_mapMsgShell is named by a node.  SendTo to a node that is registered  *)
(* and not mapped opens a connection to a worker index parsed out of the   *)
(* address, which the node's Manager does not have: it closes it.          *)
(*                                                                         *)
(* Not modelled: write errors while notices are sent (they erase from the  *)
(* map being iterated), a map node that is reused between its erasure and  *)
(* the assignment in AddMsgShell, rows that go offline by their age.       *)
(***************************************************************************)
EXTENDS Naturals, Sequences, FiniteSets

CONSTANTS
    Node,       \* the nodes, each named by its key
    Conn,       \* the connections that may be opened (a bound)
    None,       \* no node, no connection
    Needs,      \* Needs[n]: the nodes of the types n needs (tb_nodetype)
    MaxQueue,   \* messages under way to a node when a worker restarts (a bound)
    Faults      \* what the environment does: subset of FaultKinds

FaultKinds == {"idle", "db", "worker", "center"}

ASSUME NodeAssumption == None \notin Node /\ None \notin Conn
ASSUME NeedsAssumption ==
    /\ Needs \in [Node -> SUBSET Node]
    /\ \A n \in Node : n \notin Needs[n]
ASSUME QueueAssumption == MaxQueue \in Nat
ASSUME RegistryFaultAssumption == Faults \subseteq FaultKinds

VARIABLES
    nodeInfo,   \* m_mapNodeInfo: nodeInfo[n] is n's node_id, 0 if n has no entry
    shell,      \* m_mapMsgShell of the Center's worker
    identify,   \* identify[c]: strIdentify of the Center's end of c
    stage,      \* stage[c]: the Center's end of c
    row,        \* row[n]: n's row of tb_nodeload_status
    toCenter,   \* toCenter[c]: requests on their way to the Center
    toNode,     \* toNode[c]: messages on their way to the node
    owner,      \* owner[c]: the node whose Manager opened c
    center,     \* center[n]: m_mapCenterMsgShell of n's Manager
    nodeId,     \* nodeId[n]: m_uiNodeId of n's Manager
    routes      \* routes[n]: the nodes a worker of n has identifies of

centerVars == <<nodeInfo, shell, identify, stage, row, toCenter, toNode>>
vars == <<nodeInfo, shell, identify, stage, row, toCenter, toNode, owner, center, nodeId, routes>>

Stage == {"unused", "connecting", "manager", "open", "auto", "dead"}
Request == {"connect", "tell", "register", "report"}

Connected == [kind |-> "connect"]
Registered(id) == [kind |-> "id", id |-> id]
Reg(nodes) == [kind |-> "reg", nodes |-> nodes]
Exit(n) == [kind |-> "exit", nodes |-> {n}]
Message ==
    {Connected} \cup [kind : {"id"}, id : Nat]
    \cup [kind : {"reg", "exit"}, nodes : SUBSET Node]

Init ==
    /\ nodeInfo = [n \in Node |-> 0]
    /\ shell = [n \in Node |-> None]
    /\ identify = [c \in Conn |-> None]
    /\ stage = [c \in Conn |-> "unused"]
    /\ row = [n \in Node |-> [id |-> 0, online |-> FALSE]]
    /\ toCenter = [c \in Conn |-> <<>>]
    /\ toNode = [c \in Conn |-> <<>>]
    /\ owner = [c \in Conn |-> None]
    /\ center = [n \in Node |-> None]
    /\ nodeId = [n \in Node |-> 0]
    /\ routes = [n \in Node |-> {}]

-----------------------------------------------------------------------------
(* The Center's handlers call each other; each is a function of the state  *)
(* of the Center, a record of its variables.                               *)

Center ==
    [nodeInfo |-> nodeInfo, shell |-> shell, identify |-> identify, stage |-> stage,
     row |-> row, toCenter |-> toCenter, toNode |-> toNode]

Becomes(t) ==
    \E s \in {t} :
        /\ nodeInfo' = s.nodeInfo
        /\ shell' = s.shell
        /\ identify' = s.identify
        /\ stage' = s.stage
        /\ row' = s.row
        /\ toCenter' = s.toCenter
        /\ toNode' = s.toNode

\* The connections AutoSend would open: none for a node when socket() fails.
AutoConns ==
    {f \in [Node -> {c \in Conn : stage[c] = "unused"} \cup {None}] :
        \A m, n \in Node : m # n /\ f[m] = f[n] => f[m] = None}

\* Whether a statement sent to the database succeeds.
DbResults == IF "db" \in Faults THEN BOOLEAN ELSE {TRUE}

\* The node reads what is sent to it on c.
Listens(c) == owner[c] # None /\ center[owner[c]] = c

\* SendTo(node key, m) to every node of dests: on the mapped connection, or
\* AutoSend, whose connection is mapped and never becomes ready.
SendToNodes(s, dests, m, auto) ==
    LET mapped == {n \in dests : s.shell[n] # None}
        opened == {n \in dests \ mapped : auto[n] # None /\ s.stage[auto[n]] = "unused"}
        Opens(n, c) == n \in opened /\ auto[n] = c
    IN [s EXCEPT
          !.shell = [n \in Node |-> IF n \in opened THEN auto[n] ELSE @[n]],
          !.identify = [c \in Conn |->
              IF \E n \in Node : Opens(n, c) THEN CHOOSE n \in Node : Opens(n, c) ELSE @[c]],
          !.stage = [c \in Conn |-> IF \E n \in Node : Opens(n, c) THEN "auto" ELSE @[c]],
          !.toNode = [c \in Conn |->
              IF s.stage[c] = "open" /\ Listens(c) /\ \E n \in mapped : s.shell[n] = c
              THEN Append(@[c], m) ELSE @[c]]]

Needers(s, n) == {m \in Node : s.nodeInfo[m] # 0 /\ n \in Needs[m]}
Needed(s, n) == {m \in Needs[n] : s.nodeInfo[m] # 0}

\* SetNodeDataOfflineToDBByNodeId: every row with that id.
Offline(rows, id) ==
    [n \in Node |-> IF rows[n].id = id THEN [rows[n] EXCEPT !.online = FALSE] ELSE rows[n]]

\* Error: nobody is told that the node left.
DelNodeQuietly(s, n, recorded, auto) ==
    IF n = None \/ s.nodeInfo[n] = 0 THEN s
    ELSE [s EXCEPT !.nodeInfo[n] = 0,
                   !.row = IF recorded THEN Offline(@, s.nodeInfo[n]) ELSE @]

\* CmdNodeDisconnect::DelNode: when the row cannot be written nobody is told.
DelNode(s, n, recorded, auto) ==
    IF n = None \/ s.nodeInfo[n] = 0 THEN s
    ELSE LET t == [s EXCEPT !.nodeInfo[n] = 0]
         IN IF ~recorded THEN t
            ELSE SendToNodes([t EXCEPT !.row = Offline(@, s.nodeInfo[n])],
                             Needers(t, n), Exit(n), auto)

\* DestroyConnect: DelMsgShell erases the mapping of the identity c carries,
\* whatever it is mapped to, and MsgShellNotice runs CmdNodeDisconnect.
DestroyConnect(s, c, recorded, auto) ==
    LET n == s.identify[c]
        t == [s EXCEPT !.stage[c] = "dead", !.identify[c] = None, !.toCenter[c] = <<>>]
    IN IF n = None THEN t
       ELSE DelNode([t EXCEPT !.shell[n] = None], n, recorded, auto)

\* AddMsgShell(n, c): a connection n was mapped to is destroyed, which erases
\* the entry that is then assigned through the erased iterator.
AddMsgShell(s, n, c, recorded, auto) ==
    IF s.shell[n] \in {None, c}
    THEN [s EXCEPT !.shell[n] = c, !.identify[c] = n]
    ELSE [DestroyConnect(s, s.shell[n], recorded, auto) EXCEPT !.identify[c] = n]

\* SendTo(shell, m) to the connection c a request came from.
Answer(s, c, ms) == IF Listens(c) THEN [s EXCEPT !.toNode[c] = @ \o ms] ELSE s

\* Error: --tmpID for ++tmpID.
getPreviousNodeID(s) == (CHOOSE i \in {0} \cup {s.nodeInfo[n] : n \in Node} :
                             \A n \in Node : s.nodeInfo[n] <= i) - 1

\* Error: the id is the number of registered nodes and one.
getCountedNodeID(s) == 1 + Cardinality({n \in Node : s.nodeInfo[n] # 0})

getNewNodeID(s) == 1 + CHOOSE i \in {0} \cup {s.nodeInfo[n] : n \in Node} :
                           \A n \in Node : s.nodeInfo[n] <= i

\* Error: the other services are not told of the node.
regNodeAlone(s, n, c, auto) ==
    LET id == IF s.nodeInfo[n] # 0 THEN s.nodeInfo[n] ELSE getNewNodeID(s)
        t == [s EXCEPT
                !.nodeInfo[n] = id,
                !.row[n] = IF s.nodeInfo[n] # 0 THEN @ ELSE [id |-> id, online |-> TRUE]]
    IN Answer(t, c, <<Registered(id), Reg(Needed(t, n))>>)

\* NodeRegMgr::regNode, the database writing what it is given.
regNode(s, n, c, auto) ==
    LET id == IF s.nodeInfo[n] # 0 THEN s.nodeInfo[n] ELSE getNewNodeID(s)
        t == [s EXCEPT
                !.nodeInfo[n] = id,
                !.row[n] = IF s.nodeInfo[n] # 0 THEN @ ELSE [id |-> id, online |-> TRUE]]
    IN SendToNodes(Answer(t, c, <<Registered(id), Reg(Needed(t, n))>>),
                   Needers(t, n), Reg({n}), auto)

-----------------------------------------------------------------------------
(* The Center's events.                                                    *)

Taken(c) == [Center EXCEPT !.toCenter[c] = Tail(@)]

Arrives(c, request) ==
    /\ stage[c] = "open"
    /\ toCenter[c] # <<>>
    /\ Head(toCenter[c]) = request

\* The Center's Manager takes REQ_CONNECT as the first message, answers it and
\* passes the descriptor; what it has read behind it is dropped.
CenterTransfer(c) ==
    /\ stage[c] = "manager"
    /\ toCenter[c] # <<>>
    /\ Head(toCenter[c]) = "connect"
    /\ stage' = [stage EXCEPT ![c] = "open"]
    /\ \E i \in 2 .. Len(toCenter[c]) + 1 :
        toCenter' = [toCenter EXCEPT ![c] = SubSeq(@, i, Len(@))]
    /\ toNode' = [toNode EXCEPT ![c] = IF Listens(c) THEN Append(@, Connected) ELSE @]
    /\ UNCHANGED <<nodeInfo, shell, identify, row, owner, center, nodeId, routes>>

\* It closes the connection when the first message is another one, or when
\* there is none and the node has closed its end.
CenterRefuses(c) ==
    /\ stage[c] = "manager"
    /\ IF toCenter[c] # <<>> THEN Head(toCenter[c]) # "connect" ELSE ~Listens(c)
    /\ stage' = [stage EXCEPT ![c] = "dead"]
    /\ toCenter' = [toCenter EXCEPT ![c] = <<>>]
    /\ UNCHANGED <<nodeInfo, shell, identify, row, toNode, owner, center, nodeId, routes>>

\* CmdToldWorker::AnyMessage with the key of the node.
RecvTell(c) ==
    /\ Arrives(c, "tell")
    /\ \E recorded \in DbResults, auto \in AutoConns :
        Becomes(AddMsgShell(Taken(c), owner[c], c, recorded, auto))
    /\ UNCHANGED <<owner, center, nodeId, routes>>

\* CmdNodeReg::AnyMessage: a new node that cannot be recorded is refused.
RecvRegister(c) ==
    /\ Arrives(c, "register")
    /\ \E recorded \in DbResults, left \in DbResults, auto \in AutoConns :
        IF nodeInfo[owner[c]] = 0 /\ ~recorded
        THEN Becomes(Taken(c))
        ELSE Becomes(AddMsgShell(regNode(Taken(c), owner[c], c, auto), owner[c], c, left, auto))
    /\ UNCHANGED <<owner, center, nodeId, routes>>

\* CmdNodeReport::AnyMessage registers a node it does not know, without
\* AddMsgShell, or replaces the row of one it knows.
RecvReport(c) ==
    LET n == owner[c] IN
    /\ Arrives(c, "report")
    /\ \E recorded \in DbResults, auto \in AutoConns :
        Becomes(IF ~recorded THEN Taken(c)
                ELSE IF nodeInfo[n] = 0 THEN regNode(Taken(c), n, c, auto)
                ELSE [Taken(c) EXCEPT !.row[n] = [id |-> nodeInfo[n], online |-> TRUE]])
    /\ UNCHANGED <<owner, center, nodeId, routes>>

\* The node closed its end, or the Manager of the node closes the connection
\* AutoSend opened, having no such worker index.
RecvEof(c) ==
    /\ \/ stage[c] = "open" /\ ~Listens(c) /\ toCenter[c] = <<>>
       \/ stage[c] = "auto"
    /\ \E recorded \in DbResults, auto \in AutoConns :
        Becomes(DestroyConnect(Center, c, recorded, auto))
    /\ UNCHANGED <<owner, center, nodeId, routes>>

\* IoTimeout: the Center gives a connection up.
CenterDrops(c) ==
    /\ "idle" \in Faults
    /\ stage[c] = "open"
    /\ \E recorded \in DbResults, auto \in AutoConns :
        Becomes(DestroyConnect(Center, c, recorded, auto))
    /\ UNCHANGED <<owner, center, nodeId, routes>>

\* The Center's worker is restarted with an empty registry; the rows stay.
CenterRestart ==
    /\ "center" \in Faults
    /\ \E c \in Conn : stage[c] \in {"open", "auto"}
    /\ nodeInfo' = [n \in Node |-> 0]
    /\ shell' = [n \in Node |-> None]
    /\ identify' = [c \in Conn |-> None]
    /\ stage' = [c \in Conn |-> IF stage[c] \in {"open", "auto"} THEN "dead" ELSE stage[c]]
    /\ toCenter' = [c \in Conn |-> IF stage[c] = "open" THEN <<>> ELSE toCenter[c]]
    /\ UNCHANGED <<row, toNode, owner, center, nodeId, routes>>

-----------------------------------------------------------------------------
(* The events of a node's Manager.                                         *)

\* ReportToCenter or RegisterToCenter without a connection: AutoSend, the
\* registration waiting for the handshake.
Connect(n, c) ==
    /\ center[n] = None
    /\ stage[c] = "unused"
    /\ center' = [center EXCEPT ![n] = c]
    /\ owner' = [owner EXCEPT ![c] = n]
    /\ stage' = [stage EXCEPT ![c] = "connecting"]
    /\ UNCHANGED <<nodeInfo, shell, identify, row, toCenter, toNode, nodeId, routes>>

\* One message more on the connection to the Center, at any stage of it.
Send(n, request) ==
    IF center[n] # None /\ stage[center[n]] # "dead"
    THEN toCenter' = [toCenter EXCEPT ![center[n]] = Append(@, request)]
    ELSE toCenter' = toCenter

Pending(n, request) ==
    center[n] # None /\ \E i \in 1 .. Len(toCenter[center[n]]) : toCenter[center[n]][i] = request

\* ReportToCenter, every NODE_BEAT seconds; one report under way is the bound.
Report(n) ==
    /\ center[n] # None
    /\ ~Pending(n, "report")
    /\ Send(n, "report")
    /\ UNCHANGED <<nodeInfo, shell, identify, stage, row, toNode, owner, center, nodeId, routes>>

\* Error: the Manager does not register again for the new worker.
RestartWorkerSilently(n) ==
    /\ "worker" \in Faults
    /\ ~Pending(n, "register")
    /\ \A c \in Conn : Len(toNode[c]) <= MaxQueue
    /\ routes' = [routes EXCEPT ![n] = {}]
    /\ UNCHANGED <<centerVars, owner, center, nodeId>>

\* RestartWorker: a new worker of n knows no node, and the Manager registers
\* again to learn them; one registration under way and MaxQueue are bounds.
RestartWorker(n) ==
    /\ "worker" \in Faults
    /\ ~Pending(n, "register")
    /\ \A c \in Conn : Len(toNode[c]) <= MaxQueue
    /\ routes' = [routes EXCEPT ![n] = {}]
    /\ Send(n, "register")
    /\ UNCHANGED <<nodeInfo, shell, identify, stage, row, toNode, owner, center, nodeId>>

\* The first write event with nothing left to write.
IoWrite(c) ==
    /\ stage[c] = "connecting"
    /\ stage' = [stage EXCEPT ![c] = "manager"]
    /\ toCenter' = [toCenter EXCEPT ![c] = Append(@, "connect")]
    /\ UNCHANGED <<nodeInfo, shell, identify, row, toNode, owner, center, nodeId, routes>>

\* DisposeDataFromCenter: the handshake's answer, the node's id, and the notices
\* the workers get (StepNodeNotice::Emit).
DisposeDataFromCenter(n) ==
    LET c == center[n]  m == Head(toNode[c]) IN
    /\ c # None
    /\ toNode[c] # <<>>
    /\ toNode' = [toNode EXCEPT ![c] = Tail(@)]
    /\ IF m.kind = "connect" /\ stage[c] # "dead"
       THEN toCenter' = [toCenter EXCEPT ![c] = @ \o <<"tell", "register">>]
       ELSE toCenter' = toCenter
    /\ nodeId' = IF m.kind = "id" THEN [nodeId EXCEPT ![n] = m.id] ELSE nodeId
    /\ routes' = [routes EXCEPT ![n] = CASE m.kind = "reg" -> @ \cup m.nodes
                                         [] m.kind = "exit" -> @ \ m.nodes
                                         [] OTHER -> @]
    /\ UNCHANGED <<nodeInfo, shell, identify, stage, row, owner, center>>

\* End of file from the Center.
ManagerEof(n) ==
    /\ center[n] # None
    /\ stage[center[n]] = "dead"
    /\ toNode[center[n]] = <<>>
    /\ center' = [center EXCEPT ![n] = None]
    /\ UNCHANGED <<centerVars, owner, nodeId, routes>>

\* The Manager's own idle timer, or a reset: some of what it sent may be lost.
ManagerDrops(n) ==
    LET c == center[n] IN
    /\ "idle" \in Faults
    /\ c # None
    /\ center' = [center EXCEPT ![n] = None]
    /\ toNode' = [toNode EXCEPT ![c] = <<>>]
    /\ stage' = [stage EXCEPT ![c] = IF @ = "connecting" THEN "dead" ELSE @]
    /\ \E i \in 0 .. Len(toCenter[c]) :
        toCenter' = [toCenter EXCEPT ![c] =
                        IF stage[c] = "connecting" THEN <<>> ELSE SubSeq(@, 1, i)]
    /\ UNCHANGED <<nodeInfo, shell, identify, row, owner, nodeId, routes>>

-----------------------------------------------------------------------------

CenterRead(c) ==
    \/ RecvTell(c)
    \/ RecvRegister(c)
    \/ RecvReport(c)
    \/ RecvEof(c)

Next ==
    \/ \E c \in Conn : CenterTransfer(c)
    \/ \E c \in Conn : CenterRefuses(c)
    \/ \E c \in Conn : CenterRead(c)
    \/ \E c \in Conn : CenterDrops(c)
    \/ CenterRestart
    \/ \E n \in Node, c \in Conn : Connect(n, c)
    \/ \E n \in Node : Report(n)
    \/ \E n \in Node : RestartWorker(n)
    \/ \E c \in Conn : IoWrite(c)
    \/ \E n \in Node : DisposeDataFromCenter(n)
    \/ \E n \in Node : ManagerEof(n)
    \/ \E n \in Node : ManagerDrops(n)

Spec == Init /\ [][Next]_vars

\* The event loop of the Center's worker serves what is ready.
CenterLoop == \A c \in Conn : WF_vars(CenterRead(c))

\* So do the Managers' event loops and the kernel, and PeriodicTaskCallback
\* connects and reports again and again.
ManagerLoops ==
    /\ \A c \in Conn :
        /\ WF_vars(CenterTransfer(c))
        /\ WF_vars(CenterRefuses(c))
        /\ WF_vars(IoWrite(c))
    /\ \A n \in Node :
        /\ WF_vars(\E c \in Conn : Connect(n, c))
        /\ WF_vars(Report(n))
        /\ WF_vars(DisposeDataFromCenter(n))
        /\ WF_vars(ManagerEof(n))

\* Faults are not fair.
Fairness == CenterLoop /\ ManagerLoops

FairSpec == Spec /\ Fairness

-----------------------------------------------------------------------------
(* The directory the registry implements.                                  *)

\* The nodes whose connection the Center has mapped.
InContact == {n \in Node : shell[n] # None /\ shell[n] = center[n]}

\* What is under way on a connection, but for the answer to the handshake.
Notices(q) == IF q # <<>> /\ Head(q).kind = "connect" THEN Tail(q) ELSE q

NoticesTo == [n \in Node |-> IF center[n] = None THEN <<>> ELSE Notices(toNode[center[n]])]

Directory == INSTANCE NodeDirectory WITH
    Silent <- ("db" \in Faults),
    id <- nodeInfo, contact <- InContact, news <- NoticesTo

-----------------------------------------------------------------------------
(* Properties.                                                             *)

\* Every variable has its type.
TypeOK ==
    /\ nodeInfo \in [Node -> Nat]
    /\ shell \in [Node -> Conn \cup {None}]
    /\ identify \in [Conn -> Node \cup {None}]
    /\ stage \in [Conn -> Stage]
    /\ row \in [Node -> [id : Nat, online : BOOLEAN]]
    /\ toCenter \in [Conn -> Seq(Request)]
    /\ toNode \in [Conn -> Seq(Message)]
    /\ owner \in [Conn -> Node \cup {None}]
    /\ center \in [Node -> Conn \cup {None}]
    /\ nodeId \in [Node -> Nat]
    /\ routes \in [Node -> SUBSET Node]

\* A registered node's row is online under its id, and no other registered
\* node has that id: rows are set offline by id (NodeSession.cpp:198), so a
\* repeated id would take a running node's row offline with a departed one's.
RowIsOnline ==
    \A n \in Node : nodeInfo[n] # 0 =>
        /\ row[n] = [id |-> nodeInfo[n], online |-> TRUE]
        /\ \A m \in Node : m # n => nodeInfo[m] # nodeInfo[n]

\* The positions of the notices about m that are under way to n.
About(n, m) ==
    {i \in DOMAIN toNode[center[n]] :
        /\ toNode[center[n]][i].kind \in {"reg", "exit"}
        /\ m \in toNode[center[n]][i].nodes}

\* Once what is under way has arrived, n knows every registered node it needs:
\* the last notice about it, or its absence, decides.
Knows(n) ==
    \A m \in Needs[n] : nodeInfo[m] # 0 =>
        IF About(n, m) = {} THEN m \in routes[n]
        ELSE \E i \in About(n, m) :
                /\ toNode[center[n]][i].kind = "reg"
                /\ \A j \in About(n, m) : j <= i

\* The registered node n is connected, the Center knows which node the
\* connection is from, and no registration is under way on it.
Settled(n) ==
    /\ nodeInfo[n] # 0
    /\ center[n] # None
    /\ identify[center[n]] = n
    /\ ~Pending(n, "register")

\* A registered node whose connection is the one the Center has mapped has
\* been told of every registered node it needs, whoever registered first, however often
\* the other ones left and came back, and also after a restart of its workers
\* (OssManager.cpp:1533: the Manager registers again to get them).
RoutesCover ==
    \A n \in Node :
        Settled(n) /\ shell[n] = center[n] => Knows(n)

\* The registry is the directory: whatever connections are opened, dropped,
\* mapped twice or erased by one another's end, a node that registers gets an
\* identifier of its own, and the nodes in contact that need it are told that it
\* came or left, each of them once, in order, and no other one.
IsDirectory == Directory!Spec

\* Two nodes that stay connected: the one that needs the other has a route to
\* it again and again, after every restart of its own workers.
RoutesLearnt ==
    \A n \in Node : \A m \in Needs[n] :
        <>[](center[n] # None /\ center[m] # None) => []<>(m \in routes[n])
=============================================================================
