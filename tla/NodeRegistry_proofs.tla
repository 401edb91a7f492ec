------------------------- MODULE NodeRegistry_proofs -------------------------
(***************************************************************************)
(* Proofs about NodeRegistry: its variables keep their types, and a        *)
(* registered node has an identifier of its own and its row online under   *)
(* it, for any nodes, connections, needs and faults; and when the database *)
(* does not fail, a node has been told of the nodes it needs.              *)
(*                                                                         *)
(* An identifier is one more than the largest one in use, so there has to  *)
(* be a largest one.  Node need not be finite: that every set of nodes has *)
(* a largest identifier is part of the invariant, and every step keeps it, *)
(* as it changes the identifier of one node or resets all of them.         *)
(*                                                                         *)
(* It implements NodeDirectory, whatever fails.                            *)
(*                                                                         *)
(* What a node has been told is about the queue to it and its routes       *)
(* together (Learns), and owed to a node as soon as the Center has mapped  *)
(* its connection and no registration is on it (Attached, Informed).       *)
(***************************************************************************)
EXTENDS NodeRegistry, SequenceTheorems, TLAPS

\* The records the Center's handlers work on.
CenterState ==
    [nodeInfo : [Node -> Nat],
     shell : [Node -> Conn \cup {None}],
     identify : [Conn -> Node \cup {None}],
     stage : [Conn -> Stage],
     row : [Node -> [id : Nat, online : BOOLEAN]],
     toCenter : [Conn -> Seq(Request)],
     toNode : [Conn -> Seq(Message)]]

\* Every set of nodes has a largest identifier.
HasLargest(ids) ==
    \A S \in SUBSET Node : \E i \in {0} \cup {ids[n] : n \in S} : \A n \in S : ids[n] <= i

\* RowIsOnline of given identifiers and rows.
RowsAgree(ids, rows) ==
    \A n \in Node : ids[n] # 0 =>
        /\ rows[n] = [id |-> ids[n], online |-> TRUE]
        /\ \A m \in Node : m # n => ids[m] # ids[n]

Good(s) ==
    /\ s \in CenterState
    /\ HasLargest(s.nodeInfo)
    /\ RowsAgree(s.nodeInfo, s.row)

\* What the Center's handlers do to the life of connections.
OnlyEnds(s, t) == \A c \in Conn : t.stage[c] \in {s.stage[c], "auto", "dead"}

\* A connection a Manager opened has an owner while the Center may read from it.
OwnerKnown ==
    \A c \in Conn : stage[c] \in {"connecting", "manager", "open"} => owner[c] # None

\* The variables of the Managers have their types.
ManagersTyped ==
    /\ owner \in [Conn -> Node \cup {None}]
    /\ center \in [Node -> Conn \cup {None}]
    /\ nodeId \in [Node -> Nat]
    /\ routes \in [Node -> SUBSET Node]

IInv == Good(Center) /\ ManagersTyped /\ OwnerKnown

Autos == [Node -> Conn \cup {None}]

-----------------------------------------------------------------------------
(* Identifiers and rows.                                                   *)

\* There is still a largest identifier after the one of a node changes.
LEMMA LargestKept ==
    ASSUME NEW ids \in [Node -> Nat], HasLargest(ids), NEW k \in Node, NEW v \in Nat
    PROVE  HasLargest([ids EXCEPT ![k] = v])
<1> DEFINE new == [ids EXCEPT ![k] = v]
<1>1. SUFFICES ASSUME NEW S \in SUBSET Node
               PROVE  \E i \in {0} \cup {new[n] : n \in S} : \A n \in S : new[n] <= i
  BY DEF HasLargest
<1>2. S \ {k} \in SUBSET Node
  OBVIOUS
<1>3. PICK i \in {0} \cup {ids[n] : n \in S \ {k}} : \A n \in S \ {k} : ids[n] <= i
  BY <1>2 DEF HasLargest
<1>4. \A n \in S \ {k} : new[n] = ids[n]
  OBVIOUS
<1>5. i \in {0} \cup {new[n] : n \in S}
  BY <1>3, <1>4
<1>6. CASE k \notin S
  BY <1>3, <1>4, <1>5, <1>6
<1>7. CASE k \in S
  <2>1. new[k] = v
    OBVIOUS
  <2>2. i \in Nat
    BY <1>3
  <2>3. CASE v <= i
    <3>1. \A n \in S : new[n] <= i
      BY <1>3, <1>4, <2>1, <2>3
    <3> QED
      BY <1>5, <3>1
  <2>4. CASE i <= v
    <3>1. v \in {0} \cup {new[n] : n \in S}
      BY <1>7, <2>1
    <3>2. \A n \in S : new[n] <= v
      <4>1. SUFFICES ASSUME NEW n \in S PROVE new[n] <= v
        OBVIOUS
      <4>2. CASE n = k
        BY <2>1, <4>2
      <4>3. CASE n # k
        BY <1>3, <1>4, <2>2, <2>4, <4>3
      <4> QED
        BY <4>2, <4>3
    <3> QED
      BY <3>1, <3>2
  <2> QED
    BY <2>2, <2>3, <2>4
<1> QED
  BY <1>6, <1>7

\* getNewNodeID exceeds every identifier in use.
LEMMA NewNodeID ==
    ASSUME NEW s, Good(s)
    PROVE  /\ getNewNodeID(s) \in Nat \ {0}
           /\ \A n \in Node : s.nodeInfo[n] < getNewNodeID(s)
<1> DEFINE P(i) == \A n \in Node : s.nodeInfo[n] <= i
           Ids == {0} \cup {s.nodeInfo[n] : n \in Node}
           top == CHOOSE i \in Ids : P(i)
<1>1. s.nodeInfo \in [Node -> Nat]
  BY DEF Good, CenterState
<1>2. \E i \in Ids : P(i)
  BY DEF Good, HasLargest
<1>3. top \in Ids /\ P(top)
  <2> HIDE DEF P, Ids
  <2> QED
    BY <1>2
<1>4. top \in Nat
  BY <1>1, <1>3
<1>5. getNewNodeID(s) = 1 + top
  BY DEF getNewNodeID
<1>6. \A n \in Node : s.nodeInfo[n] \in Nat /\ s.nodeInfo[n] <= top
  BY <1>1, <1>3
<1> HIDE DEF top
<1> QED
  BY <1>4, <1>5, <1>6

\* A node leaves: the rows of the others stay as they are.
LEMMA RowsWithout ==
    ASSUME NEW ids \in [Node -> Nat], NEW rows \in [Node -> [id : Nat, online : BOOLEAN]],
           RowsAgree(ids, rows), NEW k \in Node, ids[k] # 0
    PROVE  /\ Offline(rows, ids[k]) \in [Node -> [id : Nat, online : BOOLEAN]]
           /\ RowsAgree([ids EXCEPT ![k] = 0], rows)
           /\ RowsAgree([ids EXCEPT ![k] = 0], Offline(rows, ids[k]))
<1>1. \A n \in Node : [rows[n] EXCEPT !.online = FALSE] \in [id : Nat, online : BOOLEAN]
  OBVIOUS
<1>2. Offline(rows, ids[k]) \in [Node -> [id : Nat, online : BOOLEAN]]
  BY <1>1 DEF Offline
<1>3. RowsAgree([ids EXCEPT ![k] = 0], rows)
  BY DEF RowsAgree
<1>4. ASSUME NEW n \in Node, ids[n] # 0, n # k
      PROVE  Offline(rows, ids[k])[n] = rows[n]
  <2>1. rows[n].id = ids[n]
    BY <1>4 DEF RowsAgree
  <2>2. ids[n] # ids[k]
    BY <1>4 DEF RowsAgree
  <2> QED
    BY <2>1, <2>2 DEF Offline
<1>5. RowsAgree([ids EXCEPT ![k] = 0], Offline(rows, ids[k]))
  <2> DEFINE new == [ids EXCEPT ![k] = 0]
             off == Offline(rows, ids[k])
  <2>1. SUFFICES ASSUME NEW n \in Node, new[n] # 0
                 PROVE  /\ off[n] = [id |-> new[n], online |-> TRUE]
                        /\ \A m \in Node : m # n => new[m] # new[n]
    BY DEF RowsAgree
  <2>2. n # k /\ new[n] = ids[n]
    BY <2>1
  <2>3. off[n] = rows[n]
    BY <1>4, <2>1, <2>2
  <2> QED
    BY <1>3, <2>1, <2>3 DEF RowsAgree
<1> QED
  BY <1>2, <1>3, <1>5

\* A node enters with a new identifier and the row of it.
LEMMA RowsWith ==
    ASSUME NEW ids \in [Node -> Nat], NEW rows \in [Node -> [id : Nat, online : BOOLEAN]],
           RowsAgree(ids, rows), NEW k \in Node,
           NEW id \in Nat \ {0}, \A n \in Node : ids[n] < id
    PROVE  RowsAgree([ids EXCEPT ![k] = id],
                     [rows EXCEPT ![k] = [id |-> id, online |-> TRUE]])
<1> DEFINE newIds == [ids EXCEPT ![k] = id]
           newRows == [rows EXCEPT ![k] = [id |-> id, online |-> TRUE]]
<1>1. SUFFICES ASSUME NEW n \in Node, newIds[n] # 0
               PROVE  /\ newRows[n] = [id |-> newIds[n], online |-> TRUE]
                      /\ \A m \in Node : m # n => newIds[m] # newIds[n]
  BY DEF RowsAgree
<1>2. \A m \in Node : ids[m] # id
  OBVIOUS
<1>3. CASE n = k
  BY <1>2, <1>3
<1>4. CASE n # k
  <2>1. newIds[n] = ids[n] /\ newRows[n] = rows[n]
    BY <1>4
  <2>2. /\ rows[n] = [id |-> ids[n], online |-> TRUE]
        /\ \A m \in Node : m # n => ids[m] # ids[n]
    BY <1>1, <2>1 DEF RowsAgree
  <2> QED
    BY <1>2, <2>1, <2>2
<1> QED
  BY <1>3, <1>4

-----------------------------------------------------------------------------
(* The Center's handlers.                                                  *)

\* The messages of the handlers are messages.
LEMMA Messages ==
    /\ Connected \in Message
    /\ \A id \in Nat : Registered(id) \in Message
    /\ \A nodes \in SUBSET Node : Reg(nodes) \in Message
    /\ \A n \in Node : Exit(n) \in Message
BY DEF Message, Connected, Registered, Reg, Exit

\* A notice touches shells, identities, stages and what is under way.
LEMMA SendToNodesKeeps ==
    ASSUME NEW s \in CenterState, NEW dests, NEW m \in Message, NEW auto \in Autos
    PROVE  LET t == SendToNodes(s, dests, m, auto)
           IN /\ t \in CenterState
              /\ t.nodeInfo = s.nodeInfo
              /\ t.row = s.row
              /\ OnlyEnds(s, t)
<1> DEFINE mapped == {n \in dests : s.shell[n] # None}
           opened == {n \in dests \ mapped : auto[n] # None /\ s.stage[auto[n]] = "unused"}
           Opens(n, c) == n \in opened /\ auto[n] = c
           sh == [n \in Node |-> IF n \in opened THEN auto[n] ELSE s.shell[n]]
           id == [c \in Conn |->
                    IF \E n \in Node : Opens(n, c) THEN CHOOSE n \in Node : Opens(n, c)
                    ELSE s.identify[c]]
           st == [c \in Conn |-> IF \E n \in Node : Opens(n, c) THEN "auto" ELSE s.stage[c]]
           tn == [c \in Conn |->
                    IF s.stage[c] = "open" /\ Listens(c) /\ \E n \in mapped : s.shell[n] = c
                    THEN Append(s.toNode[c], m) ELSE s.toNode[c]]
           t == [s EXCEPT !.shell = sh, !.identify = id, !.stage = st, !.toNode = tn]
<1>1. SendToNodes(s, dests, m, auto) = t
  BY DEF SendToNodes
<1> HIDE DEF opened, mapped
<1>2. sh \in [Node -> Conn \cup {None}]
  BY DEF CenterState, Autos
<1>3. id \in [Conn -> Node \cup {None}]
  BY DEF CenterState
<1>4. st \in [Conn -> Stage]
  BY DEF CenterState, Stage
<1>5. tn \in [Conn -> Seq(Message)]
  BY DEF CenterState
<1>6. \A c \in Conn : st[c] \in {s.stage[c], "auto", "dead"}
  OBVIOUS
<1> HIDE DEF sh, id, st, tn
<1> QED
  BY <1>1, <1>2, <1>3, <1>4, <1>5, <1>6 DEF CenterState, OnlyEnds

\* The node leaves, with its row or without.
LEMMA DelNodeGood ==
    ASSUME NEW s, Good(s), NEW n \in Node \cup {None}, NEW recorded \in BOOLEAN,
           NEW auto \in Autos
    PROVE  Good(DelNode(s, n, recorded, auto)) /\ OnlyEnds(s, DelNode(s, n, recorded, auto))
<1>1. CASE n = None \/ s.nodeInfo[n] = 0
  BY <1>1 DEF DelNode, OnlyEnds
<1>2. CASE n # None /\ s.nodeInfo[n] # 0
  <2> DEFINE t == [s EXCEPT !.nodeInfo[n] = 0]
             off == Offline(s.row, s.nodeInfo[n])
             u == [t EXCEPT !.row = off]
             v == SendToNodes(u, Needers(t, n), Exit(n), auto)
  <2>1. n \in Node /\ s \in CenterState
    BY <1>2 DEF Good
  <2>2. /\ t \in CenterState
        /\ t.nodeInfo = [s.nodeInfo EXCEPT ![n] = 0]
        /\ t.row = s.row
        /\ t.stage = s.stage
    BY <2>1 DEF CenterState
  <2>3. /\ HasLargest(t.nodeInfo)
        /\ RowsAgree(t.nodeInfo, s.row)
        /\ RowsAgree(t.nodeInfo, off)
        /\ off \in [Node -> [id : Nat, online : BOOLEAN]]
    <3>1. /\ s.nodeInfo \in [Node -> Nat]
          /\ s.row \in [Node -> [id : Nat, online : BOOLEAN]]
      BY <2>1 DEF CenterState
    <3>2. HasLargest(s.nodeInfo) /\ RowsAgree(s.nodeInfo, s.row)
      BY DEF Good
    <3>3. HasLargest([s.nodeInfo EXCEPT ![n] = 0])
      BY <2>1, <3>1, <3>2, LargestKept
    <3>4. /\ RowsAgree([s.nodeInfo EXCEPT ![n] = 0], s.row)
          /\ RowsAgree([s.nodeInfo EXCEPT ![n] = 0], off)
          /\ off \in [Node -> [id : Nat, online : BOOLEAN]]
      BY <1>2, <2>1, <3>1, <3>2, RowsWithout
    <3> HIDE DEF t, off
    <3> QED
      BY <2>2, <3>3, <3>4
  <2>4. u \in CenterState /\ u.nodeInfo = t.nodeInfo /\ u.row = off /\ u.stage = s.stage
    <3> HIDE DEF t, off
    <3> QED
      BY <2>2, <2>3 DEF CenterState
  <2>5. v \in CenterState /\ v.nodeInfo = u.nodeInfo /\ v.row = u.row /\ OnlyEnds(u, v)
    <3> HIDE DEF u
    <3> QED
      BY <2>1, <2>4, Messages, SendToNodesKeeps
  <2>6. DelNode(s, n, recorded, auto) = IF ~recorded THEN t ELSE v
    BY <1>2, <2>2 DEF DelNode
  <2>7. Good(t) /\ OnlyEnds(s, t)
    BY <2>2, <2>3 DEF Good, OnlyEnds
  <2>8. Good(v) /\ OnlyEnds(s, v)
    <3> HIDE DEF t, u, v, off
    <3> QED
      BY <2>3, <2>4, <2>5 DEF Good, OnlyEnds
  <2> QED
    BY <2>6, <2>7, <2>8
<1> QED
  BY <1>1, <1>2

\* A connection is destroyed, and the node it carries leaves.
LEMMA DestroyConnectGood ==
    ASSUME NEW s, Good(s), NEW c \in Conn, NEW recorded \in BOOLEAN, NEW auto \in Autos
    PROVE  /\ Good(DestroyConnect(s, c, recorded, auto))
           /\ OnlyEnds(s, DestroyConnect(s, c, recorded, auto))
<1> DEFINE n == s.identify[c]
           t == [s EXCEPT !.stage[c] = "dead", !.identify[c] = None, !.toCenter[c] = <<>>]
           u == [t EXCEPT !.shell[n] = None]
<1>1. s \in CenterState /\ n \in Node \cup {None}
  BY DEF Good, CenterState
<1>2. <<>> \in Seq(Request) /\ "dead" \in Stage
  BY DEF Stage
<1>3. t \in CenterState /\ t.nodeInfo = s.nodeInfo /\ t.row = s.row
  BY <1>1, <1>2 DEF CenterState
<1>4. \A d \in Conn : t.stage[d] \in {s.stage[d], "auto", "dead"}
  BY <1>1 DEF CenterState
<1>5. Good(t) /\ OnlyEnds(s, t)
  BY <1>3, <1>4 DEF Good, OnlyEnds
<1>6. CASE n = None
  <2>1. DestroyConnect(s, c, recorded, auto) = t
    BY <1>6 DEF DestroyConnect
  <2> QED
    BY <1>5, <2>1
<1>7. CASE n # None
  <2>1. n \in Node
    BY <1>1, <1>7
  <2>2. /\ u \in CenterState
        /\ u.nodeInfo = t.nodeInfo
        /\ u.row = t.row
        /\ u.stage = t.stage
    <3> HIDE DEF t, n
    <3> QED
      BY <1>3, <2>1 DEF CenterState
  <2>3. Good(u)
    <3> HIDE DEF t, u
    <3> QED
      BY <1>5, <2>2 DEF Good
  <2>4. DestroyConnect(s, c, recorded, auto) = DelNode(u, n, recorded, auto)
    BY <1>7 DEF DestroyConnect
  <2>5. Good(DelNode(u, n, recorded, auto)) /\ OnlyEnds(u, DelNode(u, n, recorded, auto))
    <3> HIDE DEF u, n
    <3> QED
      BY <1>1, <2>3, DelNodeGood
  <2>6. OnlyEnds(s, DelNode(u, n, recorded, auto))
    <3> HIDE DEF t, u, n
    <3> QED
      BY <1>5, <2>2, <2>5 DEF OnlyEnds
  <2> QED
    BY <2>4, <2>5, <2>6
<1> QED
  BY <1>6, <1>7

\* A connection is mapped, in place of another one or not.
LEMMA AddMsgShellGood ==
    ASSUME NEW s, Good(s), NEW n \in Node, NEW c \in Conn, NEW recorded \in BOOLEAN,
           NEW auto \in Autos
    PROVE  /\ Good(AddMsgShell(s, n, c, recorded, auto))
           /\ OnlyEnds(s, AddMsgShell(s, n, c, recorded, auto))
<1>1. CASE s.shell[n] \in {None, c}
  <2> DEFINE t == [s EXCEPT !.shell[n] = c, !.identify[c] = n]
  <2>1. AddMsgShell(s, n, c, recorded, auto) = t
    BY <1>1 DEF AddMsgShell
  <2>2. t \in CenterState /\ t.nodeInfo = s.nodeInfo /\ t.row = s.row /\ t.stage = s.stage
    BY DEF Good, CenterState
  <2> QED
    BY <2>1, <2>2 DEF Good, OnlyEnds
<1>2. CASE s.shell[n] \notin {None, c}
  <2> DEFINE d == DestroyConnect(s, s.shell[n], recorded, auto)
             t == [d EXCEPT !.identify[c] = n]
  <2>1. AddMsgShell(s, n, c, recorded, auto) = t
    BY <1>2 DEF AddMsgShell
  <2>2. s.shell[n] \in Conn
    BY <1>2 DEF Good, CenterState
  <2>3. Good(d) /\ OnlyEnds(s, d)
    BY <2>2, DestroyConnectGood
  <2>4. t \in CenterState /\ t.nodeInfo = d.nodeInfo /\ t.row = d.row /\ t.stage = d.stage
    <3> HIDE DEF d
    <3> QED
      BY <2>3 DEF Good, CenterState
  <2> HIDE DEF d, t
  <2> QED
    BY <2>1, <2>3, <2>4 DEF Good, OnlyEnds
<1> QED
  BY <1>1, <1>2

\* An answer goes to the node that asked.
LEMMA AnswerKeeps ==
    ASSUME NEW s \in CenterState, NEW c \in Conn, NEW ms \in Seq(Message)
    PROVE  LET t == Answer(s, c, ms)
           IN /\ t \in CenterState
              /\ t.nodeInfo = s.nodeInfo
              /\ t.row = s.row
              /\ t.stage = s.stage
<1> DEFINE t == [s EXCEPT !.toNode[c] = @ \o ms]
<1>1. s.toNode[c] \o ms \in Seq(Message)
  BY DEF CenterState
<1>2. t \in CenterState /\ t.nodeInfo = s.nodeInfo /\ t.row = s.row /\ t.stage = s.stage
  BY <1>1 DEF CenterState
<1> HIDE DEF t
<1>3. Answer(s, c, ms) \in {s, t}
  BY DEF Answer, t
<1> QED
  BY <1>2, <1>3

\* A node is registered, for the first time or again.
LEMMA regNodeGood ==
    ASSUME NEW s, Good(s), NEW n \in Node, NEW c \in Conn, NEW auto \in Autos
    PROVE  Good(regNode(s, n, c, auto)) /\ OnlyEnds(s, regNode(s, n, c, auto))
<1> DEFINE id == IF s.nodeInfo[n] # 0 THEN s.nodeInfo[n] ELSE getNewNodeID(s)
           r == IF s.nodeInfo[n] # 0 THEN s.row[n] ELSE [id |-> id, online |-> TRUE]
           t == [s EXCEPT !.nodeInfo[n] = id, !.row[n] = r]
           ms == <<Registered(id), Reg(Needed(t, n))>>
           a == Answer(t, c, ms)
           u == SendToNodes(a, Needers(t, n), Reg({n}), auto)
<1>1. /\ s \in CenterState
      /\ s.nodeInfo \in [Node -> Nat]
      /\ s.row \in [Node -> [id : Nat, online : BOOLEAN]]
      /\ HasLargest(s.nodeInfo)
      /\ RowsAgree(s.nodeInfo, s.row)
  BY DEF Good, CenterState
<1>2. getNewNodeID(s) \in Nat \ {0} /\ \A m \in Node : s.nodeInfo[m] < getNewNodeID(s)
  BY NewNodeID
<1>3. id \in Nat \ {0}
  BY <1>1, <1>2
<1>4. r \in [id : Nat, online : BOOLEAN]
  BY <1>1, <1>3
<1>5. /\ t \in CenterState
      /\ t.nodeInfo = [s.nodeInfo EXCEPT ![n] = id]
      /\ t.row = [s.row EXCEPT ![n] = r]
      /\ t.stage = s.stage
  <2> HIDE DEF id, r
  <2> QED
    BY <1>1, <1>3, <1>4 DEF CenterState
<1>6. HasLargest(t.nodeInfo)
  <2> HIDE DEF id, r, t
  <2>1. HasLargest([s.nodeInfo EXCEPT ![n] = id])
    BY <1>1, <1>3, LargestKept
  <2> QED
    BY <1>5, <2>1
<1>7. RowsAgree(t.nodeInfo, t.row)
  <2>1. CASE s.nodeInfo[n] # 0
    <3>1. t.nodeInfo = s.nodeInfo /\ t.row = s.row
      BY <1>1, <1>5, <2>1
    <3> QED
      BY <1>1, <3>1
  <2>2. CASE s.nodeInfo[n] = 0
    <3>1. id = getNewNodeID(s) /\ r = [id |-> id, online |-> TRUE]
      BY <2>2
    <3> HIDE DEF id, r, t
    <3>2. \A m \in Node : s.nodeInfo[m] < id
      BY <1>2, <3>1
    <3>3. RowsAgree([s.nodeInfo EXCEPT ![n] = id],
                    [s.row EXCEPT ![n] = [id |-> id, online |-> TRUE]])
      BY <1>1, <1>3, <3>2, RowsWith
    <3> QED
      BY <1>5, <3>1, <3>3
  <2> QED
    BY <2>1, <2>2
<1>8. Good(t)
  BY <1>5, <1>6, <1>7 DEF Good
<1>9. ms \in Seq(Message) /\ Reg({n}) \in Message
  <2>1. Needed(t, n) \in SUBSET Node
    BY NeedsAssumption DEF Needed
  <2>2. Registered(id) \in Message /\ Reg(Needed(t, n)) \in Message /\ Reg({n}) \in Message
    BY <1>3, <2>1, Messages
  <2> QED
    BY <2>2
<1>10. a \in CenterState /\ a.nodeInfo = t.nodeInfo /\ a.row = t.row /\ a.stage = t.stage
  <2> HIDE DEF t, ms
  <2> QED
    BY <1>5, <1>9, AnswerKeeps
<1>11. u \in CenterState /\ u.nodeInfo = a.nodeInfo /\ u.row = a.row /\ OnlyEnds(a, u)
  <2> HIDE DEF t, a
  <2> QED
    BY <1>9, <1>10, SendToNodesKeeps
<1>12. regNode(s, n, c, auto) = u
  BY DEF regNode
<1> HIDE DEF t, a, u
<1> QED
  BY <1>5, <1>8, <1>10, <1>11, <1>12 DEF Good, OnlyEnds

-----------------------------------------------------------------------------
(* The invariant.                                                          *)

\* What an action assigns is the record it computed.
LEMMA Assigned ==
    ASSUME NEW t \in CenterState, Becomes(t)
    PROVE  Center' = t
BY DEF Becomes, Center, CenterState

\* The record of the Center's variables is one of the handlers' states.
LEMMA CenterTyped ==
    Center \in CenterState <=>
        /\ nodeInfo \in [Node -> Nat]
        /\ shell \in [Node -> Conn \cup {None}]
        /\ identify \in [Conn -> Node \cup {None}]
        /\ stage \in [Conn -> Stage]
        /\ row \in [Node -> [id : Nat, online : BOOLEAN]]
        /\ toCenter \in [Conn -> Seq(Request)]
        /\ toNode \in [Conn -> Seq(Message)]
BY DEF Center, CenterState

\* Taking a request off a connection.
LEMMA TakenGood ==
    ASSUME Good(Center), NEW c \in Conn, toCenter[c] # <<>>
    PROVE  Good(Taken(c)) /\ Taken(c).stage = stage /\ Taken(c).nodeInfo = nodeInfo
           /\ Taken(c).row = row
<1>1. Center \in CenterState /\ toCenter \in [Conn -> Seq(Request)]
  BY CenterTyped DEF Good
<1>2. Tail(toCenter[c]) \in Seq(Request)
  BY <1>1
<1>3. /\ Taken(c) \in CenterState
      /\ Taken(c).nodeInfo = nodeInfo
      /\ Taken(c).row = row
      /\ Taken(c).stage = stage
  BY <1>1, <1>2 DEF Taken, Center, CenterState
<1>4. Center.nodeInfo = nodeInfo /\ Center.row = row
  BY DEF Center
<1> QED
  BY <1>3, <1>4 DEF Good

\* The connections AutoSend would open.
LEMMA AutoConnsTyped == AutoConns \subseteq Autos
BY DEF AutoConns, Autos

LEMMA DbResultsTyped == DbResults \subseteq BOOLEAN
BY DEF DbResults

\* The variables after a step.
LEMMA CenterTypedAfter ==
    Center' \in CenterState <=>
        /\ nodeInfo' \in [Node -> Nat]
        /\ shell' \in [Node -> Conn \cup {None}]
        /\ identify' \in [Conn -> Node \cup {None}]
        /\ stage' \in [Conn -> Stage]
        /\ row' \in [Node -> [id : Nat, online : BOOLEAN]]
        /\ toCenter' \in [Conn -> Seq(Request)]
        /\ toNode' \in [Conn -> Seq(Message)]
BY DEF Center, CenterState

\* A step that registers nobody and takes nobody out.
LEMMA SameNodes ==
    ASSUME Good(Center), Center' \in CenterState, UNCHANGED <<nodeInfo, row>>
    PROVE  Good(Center)'
<1>1. Center'.nodeInfo = Center.nodeInfo /\ Center'.row = Center.row
  BY DEF Center
<1> QED
  BY <1>1 DEF Good, HasLargest, RowsAgree

\* A step of the Center that assigns what a handler computed.
LEMMA HandlerKeeps ==
    ASSUME IInv, NEW t, Good(t), \A c \in Conn : t.stage[c] \in {stage[c], "auto", "dead"},
           Becomes(t), UNCHANGED <<owner, center, nodeId, routes>>
    PROVE  IInv'
<1>1. Center' = t
  BY Assigned DEF Good
<1>2. Good(Center)'
  BY <1>1 DEF Good, HasLargest, RowsAgree
<1>3. ManagersTyped'
  BY DEF IInv, ManagersTyped
<1>4. stage' = t.stage
  BY DEF Becomes
<1>5. OwnerKnown'
  BY <1>4 DEF IInv, OwnerKnown
<1> QED
  BY <1>2, <1>3, <1>5 DEF IInv

\* Between two handlers, connections only end.
LEMMA OnlyEndsTwice ==
    ASSUME NEW s, NEW t, NEW u, OnlyEnds(s, t), OnlyEnds(t, u)
    PROVE  OnlyEnds(s, u)
BY DEF OnlyEnds

LEMMA OwnerIsNode ==
    ASSUME IInv, NEW c \in Conn, stage[c] = "open"
    PROVE  owner[c] \in Node
BY DEF IInv, OwnerKnown, ManagersTyped

LEMMA RecvTellKeeps ==
    ASSUME IInv, NEW c \in Conn, RecvTell(c)
    PROVE  IInv'
<1>1. PICK recorded \in DbResults, auto \in AutoConns :
        Becomes(AddMsgShell(Taken(c), owner[c], c, recorded, auto))
  BY DEF RecvTell
<1>2. recorded \in BOOLEAN /\ auto \in Autos
  BY AutoConnsTyped, DbResultsTyped
<1>3. toCenter[c] # <<>> /\ owner[c] \in Node /\ UNCHANGED <<owner, center, nodeId, routes>>
  BY OwnerIsNode DEF RecvTell, Arrives
<1>4. Good(Taken(c)) /\ Taken(c).stage = stage
  BY <1>3, TakenGood DEF IInv
<1> DEFINE s == Taken(c)
           t == AddMsgShell(s, owner[c], c, recorded, auto)
<1>5. Good(t) /\ OnlyEnds(s, t)
  <2> HIDE DEF s
  <2>1. Good(s)
    BY <1>4 DEF s
  <2> QED
    BY <1>2, <1>3, <2>1, AddMsgShellGood
<1>6. Becomes(t)
  BY <1>1
<1>7. \A d \in Conn : t.stage[d] \in {stage[d], "auto", "dead"}
  BY <1>4, <1>5 DEF OnlyEnds
<1> HIDE DEF t
<1> QED
  BY <1>3, <1>5, <1>6, <1>7, HandlerKeeps

LEMMA RecvRegisterKeeps ==
    ASSUME IInv, NEW c \in Conn, RecvRegister(c)
    PROVE  IInv'
<1>1. PICK recorded \in DbResults, left \in DbResults, auto \in AutoConns :
        IF nodeInfo[owner[c]] = 0 /\ ~recorded
        THEN Becomes(Taken(c))
        ELSE Becomes(AddMsgShell(regNode(Taken(c), owner[c], c, auto), owner[c], c, left, auto))
  BY DEF RecvRegister
<1>2. left \in BOOLEAN /\ auto \in Autos
  BY AutoConnsTyped, DbResultsTyped
<1>3. toCenter[c] # <<>> /\ owner[c] \in Node /\ UNCHANGED <<owner, center, nodeId, routes>>
  BY OwnerIsNode DEF RecvRegister, Arrives
<1> DEFINE s == Taken(c)
           r == regNode(s, owner[c], c, auto)
           t == AddMsgShell(r, owner[c], c, left, auto)
<1>4. Good(s) /\ s.stage = stage
  BY <1>3, TakenGood DEF IInv
<1>5. CASE nodeInfo[owner[c]] = 0 /\ ~recorded
  <2>1. Becomes(s) /\ \A d \in Conn : s.stage[d] \in {stage[d], "auto", "dead"}
    BY <1>1, <1>4, <1>5
  <2> HIDE DEF s
  <2> QED
    BY <1>3, <1>4, <2>1, HandlerKeeps
<1>6. CASE ~(nodeInfo[owner[c]] = 0 /\ ~recorded)
  <2>1. Becomes(t)
    BY <1>1, <1>6
  <2>2. Good(r) /\ OnlyEnds(s, r)
    <3> HIDE DEF s
    <3> QED
      BY <1>2, <1>3, <1>4, regNodeGood
  <2>3. Good(t) /\ OnlyEnds(r, t)
    <3> HIDE DEF r
    <3> QED
      BY <1>2, <1>3, <2>2, AddMsgShellGood
  <2> HIDE DEF s, r, t
  <2>4. \A d \in Conn : t.stage[d] \in {stage[d], "auto", "dead"}
    BY <1>4, <2>2, <2>3 DEF OnlyEnds
  <2> QED
    BY <1>3, <2>1, <2>3, <2>4, HandlerKeeps
<1> QED
  BY <1>5, <1>6

LEMMA RecvReportKeeps ==
    ASSUME IInv, NEW c \in Conn, RecvReport(c)
    PROVE  IInv'
<1> DEFINE n == owner[c]
           s == Taken(c)
           u == [s EXCEPT !.row[n] = [id |-> nodeInfo[n], online |-> TRUE]]
<1>1. PICK recorded \in DbResults, auto \in AutoConns :
        Becomes(IF ~recorded THEN s
                ELSE IF nodeInfo[n] = 0 THEN regNode(s, n, c, auto)
                ELSE u)
  BY DEF RecvReport
<1>2. auto \in Autos
  BY AutoConnsTyped
<1>3. toCenter[c] # <<>> /\ n \in Node /\ UNCHANGED <<owner, center, nodeId, routes>>
  BY OwnerIsNode DEF RecvReport, Arrives
<1>4. Good(s) /\ s.stage = stage /\ s.nodeInfo = nodeInfo /\ s.row = row
  BY <1>3, TakenGood DEF IInv
<1>5. CASE ~recorded
  <2>1. Becomes(s) /\ \A d \in Conn : s.stage[d] \in {stage[d], "auto", "dead"}
    BY <1>1, <1>4, <1>5
  <2> HIDE DEF s
  <2> QED
    BY <1>3, <1>4, <2>1, HandlerKeeps
<1>6. CASE recorded /\ nodeInfo[n] = 0
  <2> DEFINE t == regNode(s, n, c, auto)
  <2>1. Becomes(t)
    BY <1>1, <1>6
  <2> HIDE DEF s, n
  <2>2. Good(t) /\ OnlyEnds(s, t)
    BY <1>2, <1>3, <1>4, regNodeGood
  <2> HIDE DEF t
  <2>3. \A d \in Conn : t.stage[d] \in {stage[d], "auto", "dead"}
    BY <1>4, <2>2 DEF OnlyEnds
  <2> QED
    BY <1>3, <2>1, <2>2, <2>3, HandlerKeeps
<1>7. CASE recorded /\ nodeInfo[n] # 0
  <2>1. Becomes(u)
    BY <1>1, <1>7
  <2> HIDE DEF s, n
  <2>2. [id |-> nodeInfo[n], online |-> TRUE] = row[n]
    BY <1>3, <1>4, <1>7 DEF Good, RowsAgree
  <2>3. u = s
    BY <1>3, <1>4, <2>2 DEF Good, CenterState
  <2>4. \A d \in Conn : s.stage[d] \in {stage[d], "auto", "dead"}
    BY <1>4
  <2>5. Becomes(s)
    BY <2>1, <2>3
  <2> QED
    BY <1>3, <1>4, <2>4, <2>5, HandlerKeeps
<1> QED
  BY <1>5, <1>6, <1>7

\* RecvEof and CenterDrops destroy a connection.
LEMMA DestroyKeeps ==
    ASSUME IInv, NEW c \in Conn, RecvEof(c) \/ CenterDrops(c)
    PROVE  IInv'
<1>1. PICK recorded \in DbResults, auto \in AutoConns :
        Becomes(DestroyConnect(Center, c, recorded, auto))
  BY DEF RecvEof, CenterDrops
<1>2. recorded \in BOOLEAN /\ auto \in Autos
  BY AutoConnsTyped, DbResultsTyped
<1>3. UNCHANGED <<owner, center, nodeId, routes>>
  BY DEF RecvEof, CenterDrops
<1> DEFINE t == DestroyConnect(Center, c, recorded, auto)
<1>4. Good(t) /\ OnlyEnds(Center, t)
  BY <1>2, DestroyConnectGood DEF IInv
<1>5. Center.stage = stage
  BY DEF Center
<1>6. Becomes(t)
  BY <1>1
<1> HIDE DEF t
<1>7. \A d \in Conn : t.stage[d] \in {stage[d], "auto", "dead"}
  BY <1>4, <1>5 DEF OnlyEnds
<1> QED
  BY <1>3, <1>4, <1>6, <1>7, HandlerKeeps

\* The Center's worker restarts: nobody is registered.
LEMMA CenterRestartKeeps ==
    ASSUME IInv, CenterRestart
    PROVE  IInv'
<1> USE DEF CenterRestart
<1>1. /\ nodeInfo \in [Node -> Nat]
      /\ stage \in [Conn -> Stage]
      /\ row \in [Node -> [id : Nat, online : BOOLEAN]]
      /\ toCenter \in [Conn -> Seq(Request)]
      /\ toNode \in [Conn -> Seq(Message)]
  BY CenterTyped DEF IInv, Good
<1>2. toCenter' \in [Conn -> Seq(Request)] /\ stage' \in [Conn -> Stage]
  <2>1. <<>> \in Seq(Request) /\ "dead" \in Stage
    BY DEF Stage
  <2> QED
    BY <1>1, <2>1
<1>3. Center' \in CenterState
  BY <1>1, <1>2, CenterTypedAfter
<1>4. Center'.nodeInfo = [n \in Node |-> 0]
  BY DEF Center
<1>5. HasLargest(Center'.nodeInfo)
  BY <1>4 DEF HasLargest
<1>6. RowsAgree(Center'.nodeInfo, Center'.row)
  BY <1>4 DEF RowsAgree
<1>7. Good(Center)'
  BY <1>3, <1>5, <1>6 DEF Good, HasLargest, RowsAgree
<1>8. ManagersTyped' /\ OwnerKnown'
  <2>1. \A c \in Conn : stage'[c] \in {stage[c], "dead"}
    OBVIOUS
  <2> QED
    BY <2>1 DEF IInv, ManagersTyped, OwnerKnown
<1> QED
  BY <1>7, <1>8 DEF IInv

-----------------------------------------------------------------------------
(* The steps that register nobody.                                         *)

\* A step that leaves nodes and rows alone and opens connections only for
\* Managers that own them.
LEMMA QuietKeeps ==
    ASSUME IInv, UNCHANGED <<nodeInfo, shell, identify, row>>,
           stage' \in [Conn -> Stage], toCenter' \in [Conn -> Seq(Request)],
           toNode' \in [Conn -> Seq(Message)], ManagersTyped', OwnerKnown'
    PROVE  IInv'
<1>1. /\ nodeInfo' \in [Node -> Nat]
      /\ shell' \in [Node -> Conn \cup {None}]
      /\ identify' \in [Conn -> Node \cup {None}]
      /\ row' \in [Node -> [id : Nat, online : BOOLEAN]]
  BY CenterTyped DEF IInv, Good
<1>2. Center' \in CenterState
  BY <1>1, CenterTypedAfter
<1>3. Good(Center)'
  BY <1>2, SameNodes DEF IInv
<1> QED
  BY <1>3 DEF IInv

\* The types the invariant gives.
LEMMA Types ==
    ASSUME IInv
    PROVE  /\ stage \in [Conn -> Stage]
           /\ toCenter \in [Conn -> Seq(Request)]
           /\ toNode \in [Conn -> Seq(Message)]
           /\ ManagersTyped
           /\ OwnerKnown
BY CenterTyped DEF IInv, Good

\* What is left of a queue is a queue.
LEMMA PartOfQueue ==
    ASSUME NEW q \in Seq(Request), NEW i \in Nat, i >= 1, NEW j \in Nat, j <= Len(q)
    PROVE  SubSeq(q, i, j) \in Seq(Request)
<1>1. \A k \in i .. j : q[k] \in Request
  OBVIOUS
<1> QED
  BY <1>1, SubSeqProperties

LEMMA CenterTransferKeeps ==
    ASSUME IInv, NEW c \in Conn, CenterTransfer(c)
    PROVE  IInv'
<1> USE Types
<1>1. PICK i \in 2 .. Len(toCenter[c]) + 1 :
        toCenter' = [toCenter EXCEPT ![c] = SubSeq(@, i, Len(@))]
  BY DEF CenterTransfer
<1>2. SubSeq(toCenter[c], i, Len(toCenter[c])) \in Seq(Request)
  <2>1. toCenter[c] \in Seq(Request) /\ Len(toCenter[c]) \in Nat
    OBVIOUS
  <2>2. i \in Nat /\ i >= 1
    BY <2>1
  <2> QED
    BY <2>1, <2>2, PartOfQueue
<1>3. toCenter' \in [Conn -> Seq(Request)]
  BY <1>1, <1>2
<1>4. stage' = [stage EXCEPT ![c] = "open"] /\ stage[c] = "manager"
  BY DEF CenterTransfer
<1>5. stage' \in [Conn -> Stage]
  BY <1>4 DEF Stage
<1>6. toNode' \in [Conn -> Seq(Message)]
  <2>1. Append(toNode[c], Connected) \in Seq(Message)
    BY Messages
  <2> QED
    BY <2>1 DEF CenterTransfer
<1>7. ManagersTyped' /\ OwnerKnown'
  BY <1>4 DEF CenterTransfer, ManagersTyped, OwnerKnown
<1>8. UNCHANGED <<nodeInfo, shell, identify, row>>
  BY DEF CenterTransfer
<1> QED
  BY <1>3, <1>5, <1>6, <1>7, <1>8, QuietKeeps

LEMMA CenterRefusesKeeps ==
    ASSUME IInv, NEW c \in Conn, CenterRefuses(c)
    PROVE  IInv'
<1> USE Types DEF CenterRefuses
<1>1. stage' \in [Conn -> Stage]
  BY DEF Stage
<1>2. toCenter' \in [Conn -> Seq(Request)] /\ toNode' \in [Conn -> Seq(Message)]
  <2>1. <<>> \in Seq(Request)
    OBVIOUS
  <2> QED
    BY <2>1
<1>3. ManagersTyped' /\ OwnerKnown'
  BY DEF ManagersTyped, OwnerKnown
<1> QED
  BY <1>1, <1>2, <1>3, QuietKeeps

LEMMA ConnectKeeps ==
    ASSUME IInv, NEW n \in Node, NEW c \in Conn, Connect(n, c)
    PROVE  IInv'
<1> USE Types DEF Connect
<1>1. stage' \in [Conn -> Stage]
  BY DEF Stage
<1>2. toCenter' \in [Conn -> Seq(Request)] /\ toNode' \in [Conn -> Seq(Message)]
  OBVIOUS
<1>3. ManagersTyped'
  BY DEF ManagersTyped
<1>4. OwnerKnown'
  BY NodeAssumption DEF ManagersTyped, OwnerKnown
<1> QED
  BY <1>1, <1>2, <1>3, <1>4, QuietKeeps

\* One request more on the connection to the Center.
LEMMA SendTyped ==
    ASSUME IInv, NEW n \in Node, NEW request \in Request, Send(n, request)
    PROVE  toCenter' \in [Conn -> Seq(Request)]
<1> USE Types
<1>1. CASE center[n] # None /\ stage[center[n]] # "dead"
  <2>1. center[n] \in Conn
    BY <1>1 DEF ManagersTyped
  <2>2. Append(toCenter[center[n]], request) \in Seq(Request)
    BY <2>1
  <2>3. toCenter' = [toCenter EXCEPT ![center[n]] = Append(@, request)]
    BY <1>1 DEF Send
  <2> QED
    BY <2>1, <2>2, <2>3
<1>2. CASE ~(center[n] # None /\ stage[center[n]] # "dead")
  BY <1>2 DEF Send
<1> QED
  BY <1>1, <1>2

LEMMA ReportKeeps ==
    ASSUME IInv, NEW n \in Node, Report(n)
    PROVE  IInv'
<1> USE Types
<1>1. toCenter' \in [Conn -> Seq(Request)]
  BY SendTyped DEF Report, Request
<1>2. /\ stage' \in [Conn -> Stage]
      /\ toNode' \in [Conn -> Seq(Message)]
      /\ ManagersTyped' /\ OwnerKnown'
      /\ UNCHANGED <<nodeInfo, shell, identify, row>>
  BY DEF Report, ManagersTyped, OwnerKnown
<1> QED
  BY <1>1, <1>2, QuietKeeps

LEMMA RestartWorkerKeeps ==
    ASSUME IInv, NEW n \in Node, RestartWorker(n)
    PROVE  IInv'
<1> USE Types
<1>1. toCenter' \in [Conn -> Seq(Request)]
  BY SendTyped DEF RestartWorker, Request
<1>2. /\ stage' \in [Conn -> Stage]
      /\ toNode' \in [Conn -> Seq(Message)]
      /\ ManagersTyped' /\ OwnerKnown'
      /\ UNCHANGED <<nodeInfo, shell, identify, row>>
  BY DEF RestartWorker, ManagersTyped, OwnerKnown
<1> QED
  BY <1>1, <1>2, QuietKeeps

LEMMA IoWriteKeeps ==
    ASSUME IInv, NEW c \in Conn, IoWrite(c)
    PROVE  IInv'
<1> USE Types DEF IoWrite
<1>1. stage' \in [Conn -> Stage]
  BY DEF Stage
<1>2. toCenter' \in [Conn -> Seq(Request)]
  <2>1. Append(toCenter[c], "connect") \in Seq(Request)
    BY DEF Request
  <2> QED
    BY <2>1
<1>3. toNode' \in [Conn -> Seq(Message)]
  OBVIOUS
<1>4. ManagersTyped' /\ OwnerKnown'
  BY DEF ManagersTyped, OwnerKnown
<1> QED
  BY <1>1, <1>2, <1>3, <1>4, QuietKeeps

LEMMA DisposeDataFromCenterKeeps ==
    ASSUME IInv, NEW n \in Node, DisposeDataFromCenter(n)
    PROVE  IInv'
<1> DEFINE c == center[n]
           m == Head(toNode[c])
<1> USE Types
<1>1. c \in Conn /\ toNode[c] # <<>>
  BY DEF DisposeDataFromCenter, ManagersTyped
<1>2. m \in Message /\ Tail(toNode[c]) \in Seq(Message)
  BY <1>1
<1>3. toNode' \in [Conn -> Seq(Message)]
  BY <1>1, <1>2 DEF DisposeDataFromCenter
<1>4. toCenter' \in [Conn -> Seq(Request)]
  <2>1. toCenter[c] \o <<"tell", "register">> \in Seq(Request)
    <3>1. <<"tell", "register">> \in Seq(Request)
      BY DEF Request
    <3> QED
      BY <1>1, <3>1
  <2>2. \/ toCenter' = [toCenter EXCEPT ![c] = @ \o <<"tell", "register">>]
        \/ toCenter' = toCenter
    BY DEF DisposeDataFromCenter
  <2> HIDE DEF c
  <2> QED
    BY <1>1, <2>1, <2>2
<1>5. nodeId' \in [Node -> Nat]
  <2>1. m.kind = "id" => m.id \in Nat
    <3> HIDE DEF m
    <3> QED
      BY <1>2 DEF Message, Connected
  <2>2. nodeId' = IF m.kind = "id" THEN [nodeId EXCEPT ![n] = m.id] ELSE nodeId
    BY DEF DisposeDataFromCenter
  <2> HIDE DEF m
  <2> QED
    BY <2>1, <2>2 DEF ManagersTyped
<1>6. routes' \in [Node -> SUBSET Node]
  <2>1. m.kind \in {"reg", "exit"} => m.nodes \in SUBSET Node
    <3> HIDE DEF m
    <3> QED
      BY <1>2 DEF Message, Connected
  <2>2. \/ m.kind = "reg" /\ routes' = [routes EXCEPT ![n] = @ \cup m.nodes]
        \/ m.kind = "exit" /\ routes' = [routes EXCEPT ![n] = @ \ m.nodes]
        \/ routes' = [routes EXCEPT ![n] = @]
    BY DEF DisposeDataFromCenter
  <2> HIDE DEF m
  <2> QED
    BY ZenonT(40), <2>1, <2>2 DEF ManagersTyped
<1>7. UNCHANGED <<nodeInfo, shell, identify, stage, row, owner, center>>
  BY DEF DisposeDataFromCenter
<1>8. ManagersTyped' /\ OwnerKnown' /\ stage' \in [Conn -> Stage]
  BY <1>5, <1>6, <1>7 DEF ManagersTyped, OwnerKnown
<1> QED
  BY <1>3, <1>4, <1>7, <1>8, QuietKeeps

LEMMA ManagerEofKeeps ==
    ASSUME IInv, NEW n \in Node, ManagerEof(n)
    PROVE  IInv'
<1> USE Types DEF ManagerEof, centerVars
<1>1. ManagersTyped' /\ OwnerKnown'
  BY DEF ManagersTyped, OwnerKnown
<1>2. /\ UNCHANGED <<nodeInfo, shell, identify, row>>
      /\ stage' \in [Conn -> Stage]
      /\ toCenter' \in [Conn -> Seq(Request)]
      /\ toNode' \in [Conn -> Seq(Message)]
  OBVIOUS
<1> QED
  BY <1>1, <1>2, QuietKeeps

LEMMA ManagerDropsKeeps ==
    ASSUME IInv, NEW n \in Node, ManagerDrops(n)
    PROVE  IInv'
<1> DEFINE c == center[n]
<1> USE Types
<1>1. c \in Conn
  BY DEF ManagerDrops, ManagersTyped
<1>2. PICK i \in 0 .. Len(toCenter[c]) :
        toCenter' = [toCenter EXCEPT ![c] =
                        IF stage[c] = "connecting" THEN <<>> ELSE SubSeq(@, 1, i)]
  BY DEF ManagerDrops
<1>3. toCenter' \in [Conn -> Seq(Request)]
  <2>1. toCenter[c] \in Seq(Request) /\ <<>> \in Seq(Request)
    BY <1>1
  <2>2. SubSeq(toCenter[c], 1, i) \in Seq(Request)
    BY <2>1, PartOfQueue
  <2> HIDE DEF c
  <2> QED
    BY <1>1, <1>2, <2>1, <2>2
<1>4. stage' = [stage EXCEPT ![c] = IF @ = "connecting" THEN "dead" ELSE @]
  BY DEF ManagerDrops
<1>5. stage' \in [Conn -> Stage] /\ \A d \in Conn : stage'[d] \in {stage[d], "dead"}
  <2> HIDE DEF c
  <2> QED
    BY <1>1, <1>4 DEF Stage
<1>6. toNode' \in [Conn -> Seq(Message)]
  <2>1. <<>> \in Seq(Message)
    OBVIOUS
  <2> QED
    BY <1>1, <2>1 DEF ManagerDrops
<1>7. ManagersTyped' /\ OwnerKnown'
  BY <1>5 DEF ManagerDrops, ManagersTyped, OwnerKnown
<1>8. UNCHANGED <<nodeInfo, shell, identify, row>>
  BY DEF ManagerDrops
<1> QED
  BY <1>3, <1>5, <1>6, <1>7, <1>8, QuietKeeps

-----------------------------------------------------------------------------
(* The theorems.                                                           *)

\* The invariant holds at the start: nobody is registered or connected.
LEMMA InitInvariant == Init => IInv
<1> SUFFICES ASSUME Init PROVE IInv
  OBVIOUS
<1> USE DEF Init
<1>1. Center \in CenterState
  BY CenterTyped DEF Stage
<1>2. HasLargest(Center.nodeInfo) /\ RowsAgree(Center.nodeInfo, Center.row)
  BY DEF Center, HasLargest, RowsAgree
<1>3. ManagersTyped /\ OwnerKnown
  BY DEF ManagersTyped, OwnerKnown
<1> QED
  BY <1>1, <1>2, <1>3 DEF IInv, Good

\* Every step keeps the invariant.
LEMMA NextInvariant == IInv /\ [Next]_vars => IInv'
<1> SUFFICES ASSUME IInv, [Next]_vars PROVE IInv'
  OBVIOUS
<1>1. ASSUME NEW c \in Conn, CenterTransfer(c) PROVE IInv'
  BY <1>1, CenterTransferKeeps
<1>2. ASSUME NEW c \in Conn, CenterRefuses(c) PROVE IInv'
  BY <1>2, CenterRefusesKeeps
<1>3. ASSUME NEW c \in Conn, CenterRead(c) PROVE IInv'
  BY <1>3, RecvTellKeeps, RecvRegisterKeeps, RecvReportKeeps, DestroyKeeps DEF CenterRead
<1>4. ASSUME NEW c \in Conn, CenterDrops(c) PROVE IInv'
  BY <1>4, DestroyKeeps
<1>5. CASE CenterRestart
  BY <1>5, CenterRestartKeeps
<1>6. ASSUME NEW n \in Node, NEW c \in Conn, Connect(n, c) PROVE IInv'
  BY <1>6, ConnectKeeps
<1>7. ASSUME NEW n \in Node, Report(n) PROVE IInv'
  BY <1>7, ReportKeeps
<1>8. ASSUME NEW n \in Node, RestartWorker(n) PROVE IInv'
  BY <1>8, RestartWorkerKeeps
<1>9. ASSUME NEW c \in Conn, IoWrite(c) PROVE IInv'
  BY <1>9, IoWriteKeeps
<1>10. ASSUME NEW n \in Node, DisposeDataFromCenter(n) PROVE IInv'
  BY <1>10, DisposeDataFromCenterKeeps
<1>11. ASSUME NEW n \in Node, ManagerEof(n) PROVE IInv'
  BY <1>11, ManagerEofKeeps
<1>12. ASSUME NEW n \in Node, ManagerDrops(n) PROVE IInv'
  BY <1>12, ManagerDropsKeeps
<1>13. CASE UNCHANGED vars
  <2>1. UNCHANGED <<nodeInfo, shell, identify, stage, row, toCenter, toNode,
                    owner, center, nodeId, routes>>
    BY <1>13 DEF vars
  <2> QED
    BY <2>1, Types, QuietKeeps DEF ManagersTyped, OwnerKnown
<1> QED
  BY <1>1, <1>2, <1>3, <1>4, <1>5, <1>6, <1>7, <1>8, <1>9, <1>10, <1>11, <1>12, <1>13
     DEF Next

\* The inductive invariant: the Center's state is typed, identifiers and rows
\* agree and every set of nodes has a largest identifier.
THEOREM RegistryInvariant == Spec => []IInv
BY InitInvariant, NextInvariant, PTL DEF Spec

\* Every variable of the Center, its connections and the Managers has its type.
THEOREM RegistryTypes == Spec => []TypeOK
<1>1. IInv => TypeOK
  BY CenterTyped DEF IInv, Good, ManagersTyped, TypeOK
<1> QED
  BY <1>1, RegistryInvariant, PTL

\* A registered node has an identifier of its own and its row is online under
\* it, whatever connections, statements and restarts fail: no departure of
\* another node takes its row offline (NodeSession.cpp:128, 198).
THEOREM RowsAreOnline == Spec => []RowIsOnline
<1>1. IInv => RowIsOnline
  BY DEF IInv, Good, RowsAgree, Center, RowIsOnline
<1> QED
  BY <1>1, RegistryInvariant, PTL

-----------------------------------------------------------------------------
(* What the nodes are told.  Nothing here holds when the database may fail *)
(* ("db" \in Faults): a registration that is refused and a report on an    *)
(* older connection then register a node that was not answered.            *)

HasRegister(q) == \E i \in DOMAIN q : q[i] = "register"

\* Whoever tells its key registers behind it.
TellRegisters(q) ==
    \A i \in DOMAIN q : q[i] = "tell" => \E j \in DOMAIN q : i < j /\ q[j] = "register"

\* A Manager's connection is its own and was opened; a connection is
\* identified by its owner, or it is one of AutoSend's and has none; one that is
\* not in use has nothing on it.
Tied(s, cen, own) ==
    /\ \A n \in Node : cen[n] # None =>
          /\ own[cen[n]] = n
          /\ s.stage[cen[n]] # "unused"
          /\ TellRegisters(s.toCenter[cen[n]])
    /\ \A c \in Conn : s.identify[c] # None =>
          \/ s.stage[c] = "open" /\ s.identify[c] = own[c]
          \/ s.stage[c] = "auto" /\ own[c] = None
    /\ \A c \in Conn : s.stage[c] = "unused" => own[c] = None /\ s.toCenter[c] = <<>>

\* A notice about k, and the last one of q about k is that it is there.
Informs(m, k) == m.kind \in {"reg", "exit"} /\ k \in m.nodes

Learns(q, k, known) ==
    \/ known /\ \A i \in DOMAIN q : ~Informs(q[i], k)
    \/ \E i \in DOMAIN q :
          /\ q[i].kind = "reg" /\ k \in q[i].nodes
          /\ \A j \in DOMAIN q : Informs(q[j], k) => j <= i

\* n's connection is the mapped one, and no registration is under way on it.
Attached(s, cen, n) ==
    /\ cen[n] # None
    /\ s.identify[cen[n]] = n
    /\ s.shell[n] = cen[n]
    /\ ~HasRegister(s.toCenter[cen[n]])

\* n is registered and learns of the registered nodes it needs.
Informed(s, cen, rts, n) ==
    /\ s.nodeInfo[n] # 0
    /\ \A k \in Needs[n] : s.nodeInfo[k] # 0 => Learns(s.toNode[cen[n]], k, k \in rts[n])

AllInformed(s, cen, rts) ==
    \A n \in Node : Attached(s, cen, n) => Informed(s, cen, rts, n)

RoutesInv == Tied(Center, center, owner) /\ AllInformed(Center, center, routes)

\* Of a handler: open connections stay open, but one, and shells are kept,
\* erased, or given to connections that were not in use.
Spares(s, t, x) ==
    /\ \A c \in Conn : c # x /\ s.stage[c] = "open" => t.stage[c] = "open"
    /\ \A n \in Node : t.shell[n] \in {s.shell[n], None} \/ s.stage[t.shell[n]] = "unused"

\* Of a notice m to the nodes of dests.
Noticed(s, t, dests, m) ==
    /\ \A n \in Node : Attached(t, center, n) => Attached(s, center, n)
    /\ \A n \in Node : center[n] # None =>
          t.toNode[center[n]] \in {s.toNode[center[n]], Append(s.toNode[center[n]], m)}
    /\ \A n \in dests : Attached(s, center, n) =>
          t.toNode[center[n]] = Append(s.toNode[center[n]], m)

\* A notice about another node changes nothing for k.
LEMMA LearnsKept ==
    ASSUME NEW q \in Seq(Message), NEW m \in Message, NEW k, NEW r, Learns(q, k, r),
           ~Informs(m, k)
    PROVE  Learns(Append(q, m), k, r)
<1> DEFINE p == Append(q, m)
<1>1. /\ DOMAIN q = 1 .. Len(q) /\ DOMAIN p = 1 .. Len(q) + 1 /\ Len(q) \in Nat
      /\ \A i \in 1 .. Len(q) : p[i] = q[i]
      /\ p[Len(q) + 1] = m
  OBVIOUS
<1> HIDE DEF p
<1>2. CASE r /\ \A i \in DOMAIN q : ~Informs(q[i], k)
  <2>1. \A i \in DOMAIN p : ~Informs(p[i], k)
    BY <1>1, <1>2
  <2> QED
    BY <1>2, <2>1 DEF Learns, p
<1>3. CASE \E i \in DOMAIN q : /\ q[i].kind = "reg" /\ k \in q[i].nodes
                               /\ \A j \in DOMAIN q : Informs(q[j], k) => j <= i
  <2>1. PICK i \in DOMAIN q : /\ q[i].kind = "reg" /\ k \in q[i].nodes
                              /\ \A j \in DOMAIN q : Informs(q[j], k) => j <= i
    BY <1>3
  <2>2. i \in DOMAIN p /\ p[i].kind = "reg" /\ k \in p[i].nodes
    BY <1>1, <2>1
  <2>3. ASSUME NEW j \in DOMAIN p, Informs(p[j], k) PROVE j <= i
    <3>1. j \in DOMAIN q /\ p[j] = q[j]
      BY <1>1, <2>3
    <3> QED
      BY <2>1, <2>3, <3>1
  <2> QED
    BY <2>2, <2>3 DEF Learns, p
<1> QED
  BY <1>2, <1>3 DEF Learns

\* The last notice says that k is there.
LEMMA LearnsNow ==
    ASSUME NEW q \in Seq(Message), NEW nodes \in SUBSET Node, NEW k \in nodes, NEW r
    PROVE  Learns(Append(q, Reg(nodes)), k, r)
<1> DEFINE p == Append(q, Reg(nodes))
<1>1. /\ Len(q) \in Nat /\ DOMAIN p = 1 .. Len(q) + 1
      /\ p[Len(q) + 1] = Reg(nodes)
  BY Messages
<1> HIDE DEF p
<1>2. p[Len(q) + 1].kind = "reg" /\ k \in p[Len(q) + 1].nodes
  BY <1>1 DEF Reg
<1>3. Len(q) + 1 \in DOMAIN p /\ \A j \in DOMAIN p : j <= Len(q) + 1
  BY <1>1
<1> QED
  BY <1>2, <1>3 DEF Learns, p

\* The first message arrives.
LEMMA LearnsArrived ==
    ASSUME NEW q \in Seq(Message), q # <<>>, NEW k, NEW r, NEW now, Learns(q, k, r),
           Head(q).kind = "reg" /\ k \in Head(q).nodes => now,
           ~Informs(Head(q), k) => (r => now)
    PROVE  Learns(Tail(q), k, now)
<1> DEFINE p == Tail(q)
<1>1. /\ Len(q) \in Nat \ {0} /\ DOMAIN q = 1 .. Len(q) /\ DOMAIN p = 1 .. Len(q) - 1
      /\ \A i \in 1 .. Len(q) - 1 : p[i] = q[i + 1]
      /\ Head(q) = q[1]
  OBVIOUS
<1> HIDE DEF p
<1>2. CASE r /\ \A i \in DOMAIN q : ~Informs(q[i], k)
  <2>1. ~Informs(Head(q), k)
    BY <1>1, <1>2
  <2>2. \A i \in DOMAIN p : ~Informs(p[i], k)
    BY <1>1, <1>2
  <2> QED
    BY <1>2, <2>1, <2>2 DEF Learns, p
<1>3. CASE \E i \in DOMAIN q : /\ q[i].kind = "reg" /\ k \in q[i].nodes
                               /\ \A j \in DOMAIN q : Informs(q[j], k) => j <= i
  <2>1. PICK i \in DOMAIN q : /\ q[i].kind = "reg" /\ k \in q[i].nodes
                              /\ \A j \in DOMAIN q : Informs(q[j], k) => j <= i
    BY <1>3
  <2>2. \A j \in DOMAIN p : Informs(p[j], k) => j + 1 <= i
    BY <1>1, <2>1
  <2>3. CASE i = 1
    <3>1. now
      BY <1>1, <2>1, <2>3
    <3>2. \A j \in DOMAIN p : ~Informs(p[j], k)
      BY <1>1, <2>2, <2>3
    <3> QED
      BY <3>1, <3>2 DEF Learns, p
  <2>4. CASE i # 1
    <3> DEFINE h == i - 1
    <3>1. h \in DOMAIN p /\ p[h] = q[i]
      BY <1>1, <2>1, <2>4
    <3>2. \A j \in DOMAIN p : Informs(p[j], k) => j <= h
      BY <1>1, <2>2, <2>1
    <3> HIDE DEF h
    <3> QED
      BY <2>1, <3>1, <3>2 DEF Learns, p
  <2> QED
    BY <2>3, <2>4
<1> QED
  BY <1>2, <1>3 DEF Learns

\* The requests behind the first one.
LEMMA RequestsBehind ==
    ASSUME NEW q \in Seq(Request), NEW i \in 1 .. Len(q) + 1, TellRegisters(q)
    PROVE  TellRegisters(SubSeq(q, i, Len(q)))
<1> DEFINE p == SubSeq(q, i, Len(q))
<1>1. /\ Len(q) \in Nat /\ i \in Nat \ {0} /\ DOMAIN q = 1 .. Len(q)
      /\ DOMAIN p = 1 .. Len(q) - i + 1
      /\ \A j \in 1 .. Len(q) - i + 1 : p[j] = q[j + i - 1]
  OBVIOUS
<1> HIDE DEF p
<1>2. ASSUME NEW j \in DOMAIN p, p[j] = "tell"
      PROVE  \E h \in DOMAIN p : j < h /\ p[h] = "register"
  <2>1. j + i - 1 \in DOMAIN q /\ q[j + i - 1] = "tell"
    BY <1>1, <1>2
  <2>2. PICK g \in DOMAIN q : j + i - 1 < g /\ q[g] = "register"
    BY <2>1 DEF TellRegisters
  <2> DEFINE h == g - i + 1
  <2>3. h \in DOMAIN p /\ j < h /\ h + i - 1 = g
    <3> DEFINE l == Len(q)
    <3>1. /\ g \in Int /\ j \in Int /\ i \in Int /\ l \in Int
          /\ g <= l /\ j >= 1 /\ j + i - 1 < g
      BY <1>1, <1>2, <2>2
    <3> HIDE DEF l
    <3>2. h \in Int /\ h >= 1 /\ h <= l - i + 1 /\ j < h /\ h + i - 1 = g
      BY <3>1
    <3> USE DEF l
    <3> HIDE DEF h
    <3> QED
      BY <1>1, <3>1, <3>2
  <2>4. p[h] = q[g]
    BY <1>1, <2>3
  <2> HIDE DEF h
  <2> QED
    BY <2>2, <2>3, <2>4
<1> QED
  BY <1>2 DEF TellRegisters, p

LEMMA RequestTaken ==
    ASSUME NEW q \in Seq(Request), q # <<>>, TellRegisters(q)
    PROVE  /\ TellRegisters(Tail(q))
           /\ Head(q) = "tell" => HasRegister(Tail(q))
           /\ Head(q) # "register" /\ HasRegister(q) => HasRegister(Tail(q))
<1> DEFINE p == Tail(q)
<1>1. /\ Len(q) \in Nat \ {0} /\ DOMAIN q = 1 .. Len(q) /\ DOMAIN p = 1 .. Len(q) - 1
      /\ \A i \in 1 .. Len(q) - 1 : p[i] = q[i + 1]
      /\ Head(q) = q[1]
  OBVIOUS
<1> HIDE DEF p
<1>2. ASSUME NEW j \in DOMAIN q, j > 1
      PROVE  j - 1 \in DOMAIN p /\ p[j - 1] = q[j]
  BY <1>1, <1>2
<1>3. TellRegisters(p)
  <2>1. ASSUME NEW j \in DOMAIN p, p[j] = "tell"
        PROVE  \E h \in DOMAIN p : j < h /\ p[h] = "register"
    <3>1. j + 1 \in DOMAIN q /\ q[j + 1] = "tell" /\ j \in Nat /\ j >= 1
      BY <1>1, <2>1
    <3>2. PICK g \in DOMAIN q : j + 1 < g /\ q[g] = "register"
      BY <3>1 DEF TellRegisters
    <3>3. g > 1 /\ j < g - 1
      BY <1>1, <3>1, <3>2
    <3> QED
      BY <1>2, <3>2, <3>3
  <2> QED
    BY <2>1 DEF TellRegisters
<1>4. ASSUME Head(q) = "tell" PROVE HasRegister(p)
  <2>1. 1 \in DOMAIN q /\ q[1] = "tell"
    BY <1>1, <1>4
  <2>2. PICK g \in DOMAIN q : 1 < g /\ q[g] = "register"
    BY <2>1 DEF TellRegisters
  <2>3. g > 1
    BY <1>1, <2>2
  <2> QED
    BY <1>2, <2>2, <2>3 DEF HasRegister
<1>5. ASSUME Head(q) # "register", HasRegister(q) PROVE HasRegister(p)
  <2>1. PICK g \in DOMAIN q : q[g] = "register"
    BY <1>5 DEF HasRegister
  <2>2. g > 1
    BY <1>1, <1>5, <2>1
  <2> QED
    BY <1>2, <2>1, <2>2 DEF HasRegister
<1> QED
  BY <1>3, <1>4, <1>5 DEF p

\* A request behind the others.
LEMMA RequestSent ==
    ASSUME NEW q \in Seq(Request), NEW x \in Request, TellRegisters(q)
    PROVE  /\ x # "tell" => TellRegisters(Append(q, x))
           /\ x = "register" \/ HasRegister(q) => HasRegister(Append(q, x))
<1> DEFINE p == Append(q, x)
<1>1. /\ DOMAIN q = 1 .. Len(q) /\ DOMAIN p = 1 .. Len(q) + 1 /\ Len(q) \in Nat
      /\ \A i \in 1 .. Len(q) : p[i] = q[i]
      /\ p[Len(q) + 1] = x
  OBVIOUS
<1> HIDE DEF p
<1>2. \A i \in DOMAIN q : i \in DOMAIN p /\ p[i] = q[i]
  BY <1>1
<1>3. ASSUME x # "tell" PROVE TellRegisters(p)
  <2>1. ASSUME NEW j \in DOMAIN p, p[j] = "tell"
        PROVE  \E h \in DOMAIN p : j < h /\ p[h] = "register"
    <3>1. j \in DOMAIN q /\ q[j] = "tell"
      BY <1>1, <1>3, <2>1
    <3> QED
      BY <1>2, <3>1 DEF TellRegisters
  <2> QED
    BY <2>1 DEF TellRegisters
<1>4. ASSUME x = "register" \/ HasRegister(q) PROVE HasRegister(p)
  <2>1. Len(q) + 1 \in DOMAIN p
    BY <1>1
  <2> QED
    BY <1>1, <1>2, <1>4, <2>1 DEF HasRegister
<1> QED
  BY <1>3, <1>4 DEF p

\* Two requests behind the others.
LEMMA HandshakeSent ==
    ASSUME NEW q \in Seq(Request), TellRegisters(q)
    PROVE  /\ TellRegisters(q \o <<"tell", "register">>)
           /\ HasRegister(q \o <<"tell", "register">>)
<1> DEFINE p == q \o <<"tell", "register">>
           l == Len(q)
<1>1. /\ DOMAIN q = 1 .. l /\ DOMAIN p = 1 .. l + 2 /\ l \in Nat
      /\ \A i \in 1 .. l : p[i] = q[i]
      /\ p[l + 1] = "tell" /\ p[l + 2] = "register"
  <2>1. <<"tell", "register">> \in Seq(Request) /\ Len(<<"tell", "register">>) = 2
    BY DEF Request
  <2> QED
    BY <2>1
<1> HIDE DEF p, l
<1>2. l + 2 \in DOMAIN p
  BY <1>1
<1>3. ASSUME NEW j \in DOMAIN p, p[j] = "tell"
      PROVE  \E h \in DOMAIN p : j < h /\ p[h] = "register"
  BY <1>1, <1>2, <1>3
<1> QED
  BY <1>1, <1>2, <1>3 DEF TellRegisters, HasRegister, p

\* A notice reaches the connected nodes of dests that listen.
LEMMA SendToNodesReaches ==
    ASSUME NEW s \in CenterState, NEW dests \in SUBSET Node, NEW m \in Message,
           NEW auto \in Autos, Tied(s, center, owner), ManagersTyped
    PROVE  LET t == SendToNodes(s, dests, m, auto)
           IN /\ Tied(t, center, owner)
              /\ Noticed(s, t, dests, m)
              /\ Spares(s, t, None)
              /\ t.nodeInfo = s.nodeInfo
<1> DEFINE mapped == {n \in dests : s.shell[n] # None}
           opened == {n \in dests \ mapped : auto[n] # None /\ s.stage[auto[n]] = "unused"}
           Opens(n, c) == n \in opened /\ auto[n] = c
           sh == [n \in Node |-> IF n \in opened THEN auto[n] ELSE s.shell[n]]
           id == [c \in Conn |->
                    IF \E n \in Node : Opens(n, c) THEN CHOOSE n \in Node : Opens(n, c)
                    ELSE s.identify[c]]
           st == [c \in Conn |-> IF \E n \in Node : Opens(n, c) THEN "auto" ELSE s.stage[c]]
           tn == [c \in Conn |->
                    IF s.stage[c] = "open" /\ Listens(c) /\ \E n \in mapped : s.shell[n] = c
                    THEN Append(s.toNode[c], m) ELSE s.toNode[c]]
           t == [s EXCEPT !.shell = sh, !.identify = id, !.stage = st, !.toNode = tn]
<1>1. SendToNodes(s, dests, m, auto) = t
  BY DEF SendToNodes
<1>2. \A n \in Node : sh[n] = s.shell[n] \/ (sh[n] # None /\ s.stage[sh[n]] = "unused")
  OBVIOUS
<1>3. \A c \in Conn : s.stage[c] # "unused" => id[c] = s.identify[c] /\ st[c] = s.stage[c]
  OBVIOUS
<1>4. \A c \in Conn : \/ id[c] = s.identify[c] /\ st[c] = s.stage[c]
                      \/ st[c] = "auto" /\ s.stage[c] = "unused"
  OBVIOUS
<1>5. \A c \in Conn : tn[c] \in {s.toNode[c], Append(s.toNode[c], m)}
  OBVIOUS
<1>6. ASSUME NEW n \in dests, Attached(s, center, n)
      PROVE  tn[center[n]] = Append(s.toNode[center[n]], m)
  <2> DEFINE c == center[n]
  <2>1. c \in Conn /\ s.shell[n] = c /\ s.identify[c] = n /\ n # None
    BY <1>6, NodeAssumption DEF Attached, ManagersTyped
  <2>2. owner[c] = n
    BY <2>1, NodeAssumption DEF Tied
  <2>3. s.stage[c] = "open"
    BY <2>1, <2>2 DEF Tied
  <2>4. n \in mapped /\ Listens(c)
    BY <2>1, <2>2, NodeAssumption DEF Listens
  <2> QED
    BY <2>1, <2>3, <2>4
<1>7. /\ t.shell = sh /\ t.identify = id /\ t.stage = st /\ t.toNode = tn
      /\ t.toCenter = s.toCenter /\ t.nodeInfo = s.nodeInfo
  BY DEF CenterState
<1> HIDE DEF sh, id, st, tn, t, opened, mapped
<1>8. \A n \in Node : center[n] # None => center[n] \in Conn /\ s.stage[center[n]] # "unused"
  BY DEF ManagersTyped, Tied
<1>9. Tied(t, center, owner)
  <2>1. \A n \in Node : center[n] # None =>
          /\ owner[center[n]] = n
          /\ t.stage[center[n]] # "unused"
          /\ TellRegisters(t.toCenter[center[n]])
    BY <1>3, <1>7, <1>8 DEF Tied
  <2>2. ASSUME NEW c \in Conn, t.identify[c] # None
        PROVE  \/ t.stage[c] = "open" /\ t.identify[c] = owner[c]
               \/ t.stage[c] = "auto" /\ owner[c] = None
    <3>1. CASE id[c] = s.identify[c] /\ st[c] = s.stage[c]
      BY <1>7, <2>2, <3>1 DEF Tied
    <3>2. CASE st[c] = "auto" /\ s.stage[c] = "unused"
      BY <1>7, <3>2 DEF Tied
    <3> QED
      BY <1>4, <3>1, <3>2
  <2>3. \A c \in Conn : t.stage[c] = "unused" => owner[c] = None /\ t.toCenter[c] = <<>>
    BY <1>4, <1>7 DEF Tied
  <2> QED
    BY <2>1, <2>2, <2>3 DEF Tied
<1>10. Noticed(s, t, dests, m)
  <2>1. ASSUME NEW n \in Node, Attached(t, center, n) PROVE Attached(s, center, n)
    <3>1. /\ center[n] # None /\ t.identify[center[n]] = n /\ t.shell[n] = center[n]
          /\ ~HasRegister(t.toCenter[center[n]])
      BY <2>1 DEF Attached
    <3>2. s.identify[center[n]] = n
      BY <1>3, <1>7, <1>8, <3>1
    <3>3. s.shell[n] = center[n]
      BY <1>2, <1>7, <1>8, <3>1
    <3> QED
      BY <1>7, <3>1, <3>2, <3>3 DEF Attached
  <2> QED
    BY <1>5, <1>6, <1>7, <1>8, <2>1 DEF Noticed
<1>11. Spares(s, t, None)
  BY <1>2, <1>3, <1>7 DEF Spares
<1> QED
  BY <1>1, <1>7, <1>9, <1>10, <1>11

\* What a connected node learns after a notice about n, who is known or has left.
LEMMA NoticedAll ==
    ASSUME NEW s \in CenterState, NEW t, NEW dests, NEW m \in Message, NEW n,
           ManagersTyped, t.nodeInfo = s.nodeInfo, Noticed(s, t, dests, m),
           \A k \in Node : Informs(m, k) => k = n,
           NEW k \in Node, Attached(t, center, k), s.nodeInfo[k] # 0,
           \A j \in Needs[k] : j # n /\ s.nodeInfo[j] # 0 =>
               Learns(s.toNode[center[k]], j, j \in routes[k]),
           \A j \in Needs[k] : j = n /\ t.nodeInfo[j] # 0 =>
               Learns(t.toNode[center[k]], j, j \in routes[k])
    PROVE  Informed(t, center, routes, k)
<1>1. center[k] \in Conn /\ s.toNode[center[k]] \in Seq(Message)
  BY DEF Attached, ManagersTyped, CenterState
<1>2. t.toNode[center[k]] \in {s.toNode[center[k]], Append(s.toNode[center[k]], m)}
  BY <1>1, NodeAssumption DEF Noticed
<1>3. ASSUME NEW j \in Needs[k], t.nodeInfo[j] # 0
      PROVE  Learns(t.toNode[center[k]], j, j \in routes[k])
  <2>1. CASE j = n
    BY <1>3, <2>1
  <2>2. CASE j # n
    <3>1. Learns(s.toNode[center[k]], j, j \in routes[k])
      BY <1>3, <2>2
    <3>2. j \in Node /\ ~Informs(m, j)
      BY <2>2, NeedsAssumption
    <3>3. Learns(Append(s.toNode[center[k]], m), j, j \in routes[k])
      <4> DEFINE q == s.toNode[center[k]]
                 r == j \in routes[k]
      <4>1. q \in Seq(Message) /\ Learns(q, j, r)
        BY <1>1, <3>1
      <4> HIDE DEF q, r
      <4>2. Learns(Append(q, m), j, r)
        BY <3>2, <4>1, LearnsKept
      <4> QED
        BY <4>2 DEF q, r
    <3> QED
      BY <1>2, <3>1, <3>3
  <2> QED
    BY <2>1, <2>2
<1> QED
  BY <1>3 DEF Informed

\* The node leaves, and whoever needs it is told.
LEMMA DelNodeInforms ==
    ASSUME NEW s \in CenterState, NEW n \in Node, NEW auto \in Autos, ManagersTyped,
           Tied(s, center, owner), AllInformed(s, center, routes), s.shell[n] = None
    PROVE  LET t == DelNode(s, n, TRUE, auto)
           IN /\ Tied(t, center, owner)
              /\ AllInformed(t, center, routes)
              /\ Spares(s, t, None)
<1>1. CASE s.nodeInfo[n] = 0
  BY <1>1 DEF DelNode, Spares
<1>2. CASE s.nodeInfo[n] # 0
  <2> DEFINE t == [s EXCEPT !.nodeInfo[n] = 0]
             off == Offline(s.row, s.nodeInfo[n])
             u == [t EXCEPT !.row = off]
             D == Needers(t, n)
             v == SendToNodes(u, D, Exit(n), auto)
  <2>1. DelNode(s, n, TRUE, auto) = v
    BY <1>2, NodeAssumption DEF DelNode, CenterState
  <2>2. u \in CenterState
    <3>1. off \in [Node -> [id : Nat, online : BOOLEAN]]
      <4>1. \A k \in Node : [s.row[k] EXCEPT !.online = FALSE] \in [id : Nat, online : BOOLEAN]
        BY ZenonT(40) DEF CenterState
      <4>2. \A k \in Node : s.row[k] \in [id : Nat, online : BOOLEAN]
        BY DEF CenterState
      <4> QED
        BY <4>1, <4>2 DEF Offline
    <3> HIDE DEF off
    <3> QED
      BY <3>1 DEF CenterState
  <2>3. /\ u.shell = s.shell /\ u.identify = s.identify /\ u.stage = s.stage
        /\ u.toCenter = s.toCenter /\ u.toNode = s.toNode
        /\ u.nodeInfo = [s.nodeInfo EXCEPT ![n] = 0]
    BY DEF CenterState
  <2>4. D \in SUBSET Node
    BY DEF Needers
  <2> HIDE DEF u, D
  <2>5. Tied(u, center, owner)
    BY <2>3 DEF Tied
  <2>6. \A k \in Node : Attached(u, center, k) => Attached(s, center, k) /\ k # n
    BY <2>3 DEF Attached
  <2>7. Exit(n) \in Message
    BY Messages
  <2>8. /\ Tied(v, center, owner) /\ Noticed(u, v, D, Exit(n)) /\ Spares(u, v, None)
        /\ v.nodeInfo = u.nodeInfo
    BY <2>2, <2>4, <2>5, <2>7, SendToNodesReaches
  <2> HIDE DEF v
  <2>9. ASSUME NEW k \in Node, Attached(v, center, k)
        PROVE  Informed(v, center, routes, k)
    <3>1. Attached(u, center, k)
      BY <2>8, <2>9 DEF Noticed
    <3>2. Informed(s, center, routes, k) /\ k # n
      BY <2>6, <3>1 DEF AllInformed
    <3>3. s.nodeInfo \in [Node -> Nat] /\ Needs[k] \subseteq Node
      BY NeedsAssumption DEF CenterState
    <3>4. u.nodeInfo[k] # 0
      BY <2>3, <3>2, <3>3 DEF Informed
    <3>5. \A j \in Needs[k] : j # n /\ u.nodeInfo[j] # 0 =>
            Learns(u.toNode[center[k]], j, j \in routes[k])
      BY <2>3, <3>2, <3>3 DEF Informed
    <3>6. v.nodeInfo[n] = 0
      BY <2>3, <2>8, <3>3
    <3>7. \A j \in Node : Informs(Exit(n), j) => j = n
      BY DEF Informs, Exit
    <3> QED
      BY <2>2, <2>7, <2>8, <2>9, <3>4, <3>5, <3>6, <3>7, NoticedAll
  <2>10. Spares(s, v, None)
    BY <2>3, <2>8 DEF Spares
  <2> QED
    BY <2>1, <2>8, <2>9, <2>10 DEF AllInformed
<1> QED
  BY <1>1, <1>2

\* A connection is destroyed, and the node it carries leaves.
LEMMA DestroyConnectInforms ==
    ASSUME NEW s \in CenterState, NEW c \in Conn, NEW auto \in Autos, ManagersTyped,
           Tied(s, center, owner), AllInformed(s, center, routes)
    PROVE  LET t == DestroyConnect(s, c, TRUE, auto)
           IN /\ Tied(t, center, owner)
              /\ AllInformed(t, center, routes)
              /\ Spares(s, t, c)
<1> DEFINE n == s.identify[c]
           t == [s EXCEPT !.stage[c] = "dead", !.identify[c] = None, !.toCenter[c] = <<>>]
           u == [t EXCEPT !.shell[n] = None]
<1>1. n \in Node \cup {None}
  BY DEF CenterState
<1>2. /\ t.stage = [s.stage EXCEPT ![c] = "dead"]
      /\ t.identify = [s.identify EXCEPT ![c] = None]
      /\ t.toCenter = [s.toCenter EXCEPT ![c] = <<>>]
      /\ t.shell = s.shell /\ t.nodeInfo = s.nodeInfo /\ t.toNode = s.toNode
  BY DEF CenterState
<1>3. t \in CenterState
  <2>1. <<>> \in Seq(Request) /\ "dead" \in Stage
    BY DEF Stage
  <2> QED
    BY <2>1 DEF CenterState
<1> HIDE DEF t, n
<1>4. Tied(t, center, owner)
  <2>1. TellRegisters(<<>>)
    BY DEF TellRegisters
  <2>2. \A d \in Conn : /\ d = c => t.toCenter[d] = <<>> /\ t.stage[d] = "dead"
                                    /\ t.identify[d] = None
                        /\ d # c => /\ t.toCenter[d] = s.toCenter[d]
                                    /\ t.stage[d] = s.stage[d]
                                    /\ t.identify[d] = s.identify[d]
    BY <1>2 DEF CenterState
  <2>3. \A k \in Node : center[k] # None => center[k] \in Conn
    BY DEF ManagersTyped
  <2>4. \A k \in Node : center[k] # None =>
          /\ owner[center[k]] = k
          /\ t.stage[center[k]] # "unused"
          /\ TellRegisters(t.toCenter[center[k]])
    <3> SUFFICES ASSUME NEW k \in Node, center[k] # None
                 PROVE  /\ owner[center[k]] = k
                        /\ t.stage[center[k]] # "unused"
                        /\ TellRegisters(t.toCenter[center[k]])
      OBVIOUS
    <3>1. /\ owner[center[k]] = k /\ s.stage[center[k]] # "unused"
          /\ TellRegisters(s.toCenter[center[k]])
      BY DEF Tied
    <3>2. CASE center[k] = c
      BY <2>1, <2>2, <3>1, <3>2
    <3>3. CASE center[k] # c
      BY <2>2, <2>3, <3>1, <3>3
    <3> QED
      BY <3>2, <3>3
  <2>5. \A d \in Conn : t.identify[d] # None =>
          \/ t.stage[d] = "open" /\ t.identify[d] = owner[d]
          \/ t.stage[d] = "auto" /\ owner[d] = None
    BY <2>2 DEF Tied
  <2>6. \A d \in Conn : t.stage[d] = "unused" => owner[d] = None /\ t.toCenter[d] = <<>>
    BY <2>2 DEF Tied
  <2> QED
    BY <2>4, <2>5, <2>6 DEF Tied
<1>5. ASSUME NEW k \in Node, Attached(t, center, k) PROVE Attached(s, center, k)
  <2>1. center[k] \in Conn /\ center[k] # c
    BY <1>2, <1>5, NodeAssumption DEF Attached, ManagersTyped, CenterState
  <2>2. t.toCenter[center[k]] = s.toCenter[center[k]]
    BY <1>2, <2>1 DEF CenterState
  <2>3. t.identify[center[k]] = s.identify[center[k]]
    BY <1>2, <2>1 DEF CenterState
  <2> QED
    BY <1>2, <1>5, <2>2, <2>3 DEF Attached
<1>6. \A k \in Node : Informed(s, center, routes, k) => Informed(t, center, routes, k)
  BY <1>2 DEF Informed
<1>7. AllInformed(t, center, routes)
  BY <1>5, <1>6 DEF AllInformed
<1>8. \A d \in Conn : d # c => t.stage[d] = s.stage[d]
  BY <1>2 DEF CenterState
<1>9. CASE n = None
  <2>1. DestroyConnect(s, c, TRUE, auto) = t
    BY <1>9 DEF DestroyConnect, t, n
  <2>2. Spares(s, t, c)
    BY <1>2, <1>8 DEF Spares
  <2> QED
    BY <1>4, <1>7, <2>1, <2>2
<1>10. CASE n # None
  <2>1. n \in Node
    BY <1>1, <1>10
  <2>2. u \in CenterState /\ u.shell = [s.shell EXCEPT ![n] = None]
        /\ u.stage = t.stage /\ u.identify = t.identify /\ u.toCenter = t.toCenter
        /\ u.nodeInfo = t.nodeInfo /\ u.toNode = t.toNode
    BY <1>2, <1>3, <2>1 DEF CenterState
  <2>3. DestroyConnect(s, c, TRUE, auto) = DelNode(u, n, TRUE, auto)
    BY <1>10 DEF DestroyConnect, t, n
  <2> HIDE DEF u
  <2>4. Tied(u, center, owner)
    BY <1>4, <2>2 DEF Tied
  <2>5. AllInformed(u, center, routes)
    <3>1. \A k \in Node : Attached(u, center, k) => Attached(t, center, k)
      <4>1. \A k \in Node : u.shell[k] \in {t.shell[k], None}
        BY <1>2, <2>1, <2>2 DEF CenterState
      <4> QED
        BY <2>2, <4>1 DEF Attached
    <3>2. \A k \in Node : Informed(t, center, routes, k) => Informed(u, center, routes, k)
      BY <2>2 DEF Informed
    <3> QED
      BY <1>7, <3>1, <3>2 DEF AllInformed
  <2>6. u.shell[n] = None
    BY <2>1, <2>2 DEF CenterState
  <2> DEFINE v == DelNode(u, n, TRUE, auto)
  <2>7. /\ Tied(v, center, owner) /\ AllInformed(v, center, routes)
        /\ Spares(u, v, None)
    BY <2>1, <2>2, <2>4, <2>5, <2>6, DelNodeInforms
  <2> HIDE DEF v
  <2>8. Spares(s, v, c)
    <3>1. \A k \in Node : u.shell[k] \in {s.shell[k], None}
      BY <2>1, <2>2 DEF CenterState
    <3>2. \A d \in Conn : d # c /\ s.stage[d] = "open" => v.stage[d] = "open"
      BY <1>8, <2>2, <2>7, NodeAssumption DEF Spares
    <3>3. ASSUME NEW k \in Node
          PROVE  v.shell[k] \in {s.shell[k], None} \/ s.stage[v.shell[k]] = "unused"
      <4>1. CASE v.shell[k] \in {u.shell[k], None}
        BY <3>1, <4>1
      <4>2. CASE u.stage[v.shell[k]] = "unused" /\ v.shell[k] # None
        <5>1. v.shell[k] # c
          BY <1>2, <2>2, <4>2 DEF CenterState
        <5>2. s.stage[v.shell[k]] = "unused"
          BY <1>2, <2>2, <4>2, <5>1 DEF CenterState
        <5> QED
          BY <5>2
      <4> QED
        BY <2>7, <4>1, <4>2 DEF Spares
    <3> QED
      BY <3>2, <3>3 DEF Spares
  <2> QED
    BY <2>3, <2>7, <2>8 DEF v
<1> QED
  BY <1>9, <1>10

\* A connection is mapped to its owner, which either will register on it or
\* has been answered.
LEMMA AddMsgShellInforms ==
    ASSUME NEW s, Good(s), NEW c \in Conn, NEW auto \in Autos, ManagersTyped,
           Tied(s, center, owner), AllInformed(s, center, routes),
           NEW n \in Node, owner[c] = n, s.stage[c] = "open",
           center[n] = c => HasRegister(s.toCenter[c]) \/ Informed(s, center, routes, n)
    PROVE  LET t == AddMsgShell(s, n, c, TRUE, auto)
           IN Tied(t, center, owner) /\ AllInformed(t, center, routes)
<1> s \in CenterState
  BY DEF Good
<1>1. ASSUME NEW k \in Node, center[k] = c PROVE k = n
  BY <1>1, NodeAssumption DEF Tied
<1>2. \A k \in Node : center[k] # None => center[k] \in Conn
  BY DEF ManagersTyped
<1>3. c # None /\ n # None
  BY NodeAssumption
<1>4. CASE s.shell[n] \in {None, c}
  <2> DEFINE t == [s EXCEPT !.shell[n] = c, !.identify[c] = n]
  <2>1. AddMsgShell(s, n, c, TRUE, auto) = t
    BY <1>4 DEF AddMsgShell
  <2>2. /\ t.shell = [s.shell EXCEPT ![n] = c] /\ t.identify = [s.identify EXCEPT ![c] = n]
        /\ t.stage = s.stage /\ t.toCenter = s.toCenter
        /\ t.nodeInfo = s.nodeInfo /\ t.toNode = s.toNode
    BY DEF CenterState
  <2> HIDE DEF t
  <2>3. \A d \in Conn : t.identify[d] = IF d = c THEN n ELSE s.identify[d]
    BY <2>2 DEF CenterState
  <2>4. \A k \in Node : t.shell[k] = IF k = n THEN c ELSE s.shell[k]
    BY <2>2 DEF CenterState
  <2>5. Tied(t, center, owner)
    BY <2>2, <2>3 DEF Tied
  <2>6. \A k \in Node : Informed(s, center, routes, k) => Informed(t, center, routes, k)
    BY <2>2 DEF Informed
  <2>7. ASSUME NEW k \in Node, Attached(t, center, k) PROVE Informed(s, center, routes, k)
    <3>1. CASE k = n
      <4>1. center[n] = c /\ ~HasRegister(s.toCenter[c])
        BY <2>2, <2>4, <2>7, <3>1 DEF Attached
      <4> QED
        BY <3>1, <4>1
    <3>2. CASE k # n
      <4>1. center[k] # c /\ center[k] \in Conn
        BY <1>1, <1>2, <2>7, <3>2 DEF Attached
      <4>2. s.identify[center[k]] = k /\ s.shell[k] = center[k]
        BY <2>3, <2>4, <2>7, <3>2, <4>1 DEF Attached
      <4>3. Attached(s, center, k)
        BY <2>2, <2>7, <4>2 DEF Attached
      <4> QED
        BY <4>3 DEF AllInformed
    <3> QED
      BY <3>1, <3>2
  <2> QED
    BY <2>1, <2>5, <2>6, <2>7 DEF AllInformed
<1>5. CASE s.shell[n] \notin {None, c}
  <2> DEFINE x == s.shell[n]
             d == DestroyConnect(s, x, TRUE, auto)
             t == [d EXCEPT !.identify[c] = n]
  <2>1. AddMsgShell(s, n, c, TRUE, auto) = t
    BY <1>5 DEF AddMsgShell
  <2>2. x \in Conn /\ x # c
    BY <1>5 DEF CenterState
  <2>3. /\ Tied(d, center, owner) /\ AllInformed(d, center, routes) /\ Spares(s, d, x)
    <3> HIDE DEF x
    <3> QED
      BY <2>2, DestroyConnectInforms
  <2>4. d \in CenterState
    <3> HIDE DEF x
    <3>1. Good(d)
      BY <2>2, DestroyConnectGood
    <3> QED
      BY <3>1 DEF Good
  <2> HIDE DEF d
  <2>5. /\ t.shell = d.shell /\ t.identify = [d.identify EXCEPT ![c] = n]
        /\ t.stage = d.stage /\ t.toCenter = d.toCenter
        /\ t.nodeInfo = d.nodeInfo /\ t.toNode = d.toNode
    BY <2>4 DEF CenterState
  <2> HIDE DEF t
  <2>6. \A e \in Conn : t.identify[e] = IF e = c THEN n ELSE d.identify[e]
    BY <2>4, <2>5 DEF CenterState
  <2>7. d.stage[c] = "open"
    BY <2>2, <2>3 DEF Spares
  <2>8. d.shell[n] # c
    BY <1>3, <2>2, <2>3 DEF Spares
  <2>9. Tied(t, center, owner)
    BY <2>3, <2>5, <2>6, <2>7 DEF Tied
  <2>10. \A k \in Node : Informed(d, center, routes, k) => Informed(t, center, routes, k)
    BY <2>5 DEF Informed
  <2>11. ASSUME NEW k \in Node, Attached(t, center, k) PROVE Attached(d, center, k)
    <3>1. center[k] # c
      BY <1>1, <2>5, <2>8, <2>11 DEF Attached
    <3>2. d.identify[center[k]] = k
      BY <1>2, <2>6, <2>11, <3>1 DEF Attached
    <3> QED
      BY <2>5, <2>11, <3>2 DEF Attached
  <2> QED
    BY <2>1, <2>3, <2>9, <2>10, <2>11 DEF AllInformed
<1> QED
  BY <1>4, <1>5

\* A node registers on c: it is answered if it listens there, and whoever needs
\* it is told.
LEMMA regNodeInforms ==
    ASSUME NEW s, Good(s), NEW c \in Conn, NEW auto \in Autos, ManagersTyped,
           Tied(s, center, owner), NEW n \in Node, owner[c] = n,
           \A k \in Node : Attached(s, center, k) /\ center[k] # c =>
               Informed(s, center, routes, k)
    PROVE  LET t == regNode(s, n, c, auto)
           IN /\ Tied(t, center, owner)
              /\ AllInformed(t, center, routes)
              /\ center[n] = c => Informed(t, center, routes, n)
              /\ Spares(s, t, None)
<1> DEFINE id == IF s.nodeInfo[n] # 0 THEN s.nodeInfo[n] ELSE getNewNodeID(s)
           r == IF s.nodeInfo[n] # 0 THEN s.row[n] ELSE [id |-> id, online |-> TRUE]
           t == [s EXCEPT !.nodeInfo[n] = id,
                          !.row[n] = IF s.nodeInfo[n] # 0 THEN @
                                     ELSE [id |-> id, online |-> TRUE]]
           N == Needed(t, n)
           D == Needers(t, n)
           ms == <<Registered(id), Reg(N)>>
           a == Answer(t, c, ms)
           u == SendToNodes(a, D, Reg({n}), auto)
<1>1. regNode(s, n, c, auto) = u
  BY DEF regNode
<1>2. s \in CenterState /\ s.nodeInfo \in [Node -> Nat] /\ s.row \in [Node -> [id : Nat, online : BOOLEAN]]
  BY DEF Good, CenterState
<1>3. id \in Nat \ {0}
  BY <1>2, NewNodeID
<1>4. r \in [id : Nat, online : BOOLEAN]
  BY <1>2, <1>3
<1>5. /\ t \in CenterState
      /\ t.nodeInfo = [s.nodeInfo EXCEPT ![n] = id]
      /\ t.shell = s.shell /\ t.identify = s.identify /\ t.stage = s.stage
      /\ t.toCenter = s.toCenter /\ t.toNode = s.toNode
  <2> HIDE DEF id, r
  <2> QED
    BY <1>2, <1>3, <1>4 DEF CenterState
<1>6. N \in SUBSET Node /\ D \in SUBSET Node
  BY NeedsAssumption DEF Needed, Needers
<1>7. \A j \in Needs[n] : t.nodeInfo[j] # 0 => j \in N
  BY DEF Needed
<1>8. \A k \in Node : t.nodeInfo[k] # 0 /\ n \in Needs[k] => k \in D
  BY DEF Needers
<1>9. Registered(id) \in Message /\ Reg(N) \in Message /\ Reg({n}) \in Message
  BY <1>3, <1>6, Messages
<1> HIDE DEF t, N, D, id
<1>10. ms \in Seq(Message)
  BY <1>9
<1>11. a \in CenterState /\ a.nodeInfo = t.nodeInfo /\ a.stage = t.stage
  <2> HIDE DEF ms
  <2> QED
    BY <1>5, <1>10, AnswerKeeps
<1>12. /\ a.shell = t.shell /\ a.identify = t.identify /\ a.toCenter = t.toCenter
       /\ a.toNode = IF Listens(c) THEN [t.toNode EXCEPT ![c] = @ \o ms] ELSE t.toNode
  <2> HIDE DEF ms
  <2> QED
    BY <1>5 DEF Answer, CenterState
<1>13. Tied(a, center, owner)
  BY <1>5, <1>11, <1>12 DEF Tied
<1>14. Listens(c) <=> center[n] = c
  BY NodeAssumption DEF Listens
<1>15. ASSUME center[n] = c
       PROVE  \A j \in Needs[n] : a.nodeInfo[j] # 0 =>
                Learns(a.toNode[c], j, j \in routes[n])
  <2> DEFINE q == s.toNode[c]
             p == Append(q, Registered(id))
  <2>1. q \in Seq(Message) /\ p \in Seq(Message)
    BY <1>2, <1>9 DEF CenterState
  <2>2. a.toNode[c] = q \o ms
    <3> HIDE DEF ms
    <3> QED
      BY <1>5, <1>12, <1>14, <1>15 DEF CenterState
  <2>3. q \o ms = Append(p, Reg(N))
    <3> HIDE DEF q
    <3> QED
      BY <1>9, <2>1
  <2> HIDE DEF p, q, ms
  <2> SUFFICES ASSUME NEW j \in Needs[n], a.nodeInfo[j] # 0
               PROVE  Learns(a.toNode[c], j, j \in routes[n])
    OBVIOUS
  <2>4. j \in N
    BY <1>7, <1>11
  <2> DEFINE known == j \in routes[n]
  <2> HIDE DEF known
  <2>5. Learns(Append(p, Reg(N)), j, known)
    BY <1>6, <2>1, <2>4, LearnsNow
  <2> QED
    BY <2>2, <2>3, <2>5 DEF known
<1> HIDE DEF ms, a
<1>16. /\ Tied(u, center, owner) /\ Noticed(a, u, D, Reg({n})) /\ Spares(a, u, None)
       /\ u.nodeInfo = a.nodeInfo
  BY <1>6, <1>9, <1>11, <1>13, SendToNodesReaches
<1> HIDE DEF u
<1>17. \A k \in Node : Attached(u, center, k) => Attached(a, center, k) /\ Attached(s, center, k)
  <2>1. \A k \in Node : Attached(u, center, k) => Attached(a, center, k)
    BY <1>16 DEF Noticed
  <2>2. a.shell = s.shell /\ a.identify = s.identify /\ a.toCenter = s.toCenter
    BY <1>5, <1>12
  <2>3. \A k \in Node : Attached(a, center, k) => Attached(s, center, k)
    BY <2>2 DEF Attached
  <2> QED
    BY <2>1, <2>3
<1>18. a.nodeInfo[n] # 0 /\ \A k \in Node : k # n => a.nodeInfo[k] = s.nodeInfo[k]
  BY <1>2, <1>3, <1>5, <1>11
<1>19. n \notin Needs[n] /\ \A k \in Node : Needs[k] \subseteq Node
  BY NeedsAssumption
<1>20. ASSUME center[n] = c PROVE Informed(u, center, routes, n)
  <2>1. u.toNode[c] \in {a.toNode[c], Append(a.toNode[c], Reg({n}))}
    BY <1>16, <1>20, NodeAssumption DEF Noticed
  <2>2. ASSUME NEW j \in Needs[n], u.nodeInfo[j] # 0
        PROVE  Learns(u.toNode[c], j, j \in routes[n])
    <3> DEFINE known == j \in routes[n]
               q == a.toNode[c]
    <3>1. q \in Seq(Message) /\ ~Informs(Reg({n}), j)
      BY <1>11, <1>19 DEF CenterState, Informs, Reg
    <3>2. Learns(q, j, known)
      BY <1>15, <1>16, <1>20, <2>2
    <3> HIDE DEF known, q
    <3>3. Learns(Append(q, Reg({n})), j, known)
      BY <1>9, <3>1, <3>2, LearnsKept
    <3> QED
      BY <2>1, <3>2, <3>3 DEF known, q
  <2> QED
    BY <1>16, <1>18, <1>20, <2>2 DEF Informed
<1>21. ASSUME NEW k \in Node, Attached(u, center, k) PROVE Informed(u, center, routes, k)
  <2>1. CASE center[k] = c
    <3>1. k = n
      BY <1>16, <2>1, NodeAssumption DEF Tied
    <3> QED
      BY <1>20, <2>1, <3>1
  <2>2. CASE center[k] # c
    <3>1. Informed(s, center, routes, k) /\ center[k] # None /\ center[k] \in Conn
      BY <1>17, <1>21, <2>2 DEF Attached, ManagersTyped
    <3>2. a.toNode[center[k]] = s.toNode[center[k]]
      BY <1>5, <1>12, <2>2, <3>1 DEF CenterState
    <3>3. a.nodeInfo[k] # 0
      BY <1>18, <3>1 DEF Informed
    <3>4. \A j \in Needs[k] : j # n /\ a.nodeInfo[j] # 0 =>
            Learns(a.toNode[center[k]], j, j \in routes[k])
      BY <1>18, <1>19, <3>1, <3>2 DEF Informed
    <3>5. ASSUME NEW j \in Needs[k], j = n
          PROVE  Learns(u.toNode[center[k]], j, j \in routes[k])
      <4> DEFINE q == a.toNode[center[k]]
                 known == j \in routes[k]
      <4>1. k \in D
        BY <1>8, <1>11, <3>3, <3>5
      <4>2. u.toNode[center[k]] = Append(q, Reg({n}))
        BY <1>16, <1>17, <1>21, <4>1 DEF Noticed
      <4>3. q \in Seq(Message)
        BY <1>11, <3>1 DEF CenterState
      <4> HIDE DEF q, known
      <4>4. Learns(Append(q, Reg({n})), j, known)
        BY <3>5, <4>3, LearnsNow
      <4> QED
        BY <4>2, <4>4 DEF known
    <3>6. \A j \in Node : Informs(Reg({n}), j) => j = n
      BY DEF Informs, Reg
    <3> QED
      BY <1>9, <1>11, <1>16, <1>21, <3>3, <3>4, <3>5, <3>6, NoticedAll
  <2> QED
    BY <2>1, <2>2
<1>22. Spares(s, u, None)
  BY <1>5, <1>11, <1>12, <1>16 DEF Spares
<1> QED
  BY <1>1, <1>16, <1>20, <1>21, <1>22 DEF AllInformed

\* The Center has taken a request, which may have been a registration.
LEMMA TakenInforms ==
    ASSUME IInv, RoutesInv, NEW c \in Conn, toCenter[c] # <<>>
    PROVE  /\ Tied(Taken(c), center, owner)
           /\ Taken(c).toCenter[c] = Tail(toCenter[c])
           /\ \A k \in Node : Attached(Taken(c), center, k) /\ center[k] # c =>
                Informed(Taken(c), center, routes, k)
           /\ Head(toCenter[c]) # "register" => AllInformed(Taken(c), center, routes)
           /\ \A k \in Node : center[k] = c /\ Head(toCenter[c]) = "tell" =>
                HasRegister(Taken(c).toCenter[c])
<1> DEFINE s == Taken(c)
<1>1. /\ toCenter \in [Conn -> Seq(Request)] /\ ManagersTyped
  BY Types
<1>2. /\ s.toCenter = [toCenter EXCEPT ![c] = Tail(@)]
      /\ s.shell = Center.shell /\ s.identify = Center.identify /\ s.stage = Center.stage
      /\ s.nodeInfo = Center.nodeInfo /\ s.toNode = Center.toNode
      /\ Center.toCenter = toCenter
  BY DEF Taken, Center
<1> HIDE DEF s
<1>3. s.toCenter[c] = Tail(toCenter[c]) /\ \A d \in Conn : d # c => s.toCenter[d] = toCenter[d]
  BY <1>1, <1>2
<1>4. \A k \in Node : center[k] # None => center[k] \in Conn
  BY <1>1 DEF ManagersTyped
<1>5. ASSUME NEW k \in Node, center[k] # None
      PROVE  /\ owner[center[k]] = k /\ s.stage[center[k]] # "unused"
             /\ TellRegisters(s.toCenter[center[k]])
  <2>1. /\ owner[center[k]] = k /\ Center.stage[center[k]] # "unused"
        /\ TellRegisters(toCenter[center[k]])
    BY <1>2, <1>5 DEF RoutesInv, Tied
  <2>2. CASE center[k] = c
    BY <1>1, <1>2, <1>3, <2>1, <2>2, RequestTaken
  <2>3. CASE center[k] # c
    BY <1>2, <1>3, <1>4, <1>5, <2>1, <2>3
  <2> QED
    BY <2>2, <2>3
<1>6. Tied(s, center, owner)
  <2>1. \A d \in Conn : s.stage[d] = "unused" => owner[d] = None /\ s.toCenter[d] = <<>>
    BY <1>2, <1>3 DEF RoutesInv, Tied
  <2> QED
    BY <1>2, <1>5, <2>1 DEF RoutesInv, Tied
<1>7. \A k \in Node : Informed(Center, center, routes, k) => Informed(s, center, routes, k)
  BY <1>2 DEF Informed
<1>8. ASSUME NEW k \in Node, Attached(s, center, k),
             center[k] # c \/ Head(toCenter[c]) # "register"
      PROVE  Informed(s, center, routes, k)
  <2>1. ~HasRegister(toCenter[center[k]])
    <3>1. CASE center[k] # c
      BY <1>3, <1>4, <1>8, <3>1 DEF Attached
    <3>2. CASE center[k] = c
      <4>1. TellRegisters(toCenter[c])
        BY <1>2, <1>8, <3>2 DEF RoutesInv, Tied, Attached
      <4> QED
        BY <1>1, <1>3, <1>8, <3>2, <4>1, RequestTaken DEF Attached
    <3> QED
      BY <3>1, <3>2
  <2>2. Attached(Center, center, k)
    BY <1>2, <1>8, <2>1 DEF Attached
  <2> QED
    BY <1>7, <2>2 DEF RoutesInv, AllInformed
<1>9. ASSUME NEW k \in Node, center[k] = c, Head(toCenter[c]) = "tell"
      PROVE  HasRegister(s.toCenter[c])
  <2>1. TellRegisters(toCenter[c])
    BY <1>2, <1>9, NodeAssumption DEF RoutesInv, Tied
  <2> QED
    BY <1>1, <1>3, <1>9, <2>1, RequestTaken
<1> QED
  BY <1>3, <1>6, <1>8, <1>9 DEF AllInformed, s

\* The invariant of the connected nodes after a step.
LEMMA InformedAfter ==
    ASSUME \A n \in Node :
             /\ center'[n] # None
             /\ identify'[center'[n]] = n
             /\ shell'[n] = center'[n]
             /\ ~HasRegister(toCenter'[center'[n]])
             => /\ nodeInfo'[n] # 0
                /\ \A k \in Needs[n] : nodeInfo'[k] # 0 =>
                      Learns(toNode'[center'[n]], k, k \in routes'[n])
    PROVE  AllInformed(Center, center, routes)'
<1> SUFFICES ASSUME NEW n \in Node, Attached(Center, center, n)'
             PROVE  Informed(Center, center, routes, n)'
  BY DEF AllInformed
<1>1. /\ center'[n] # None
      /\ identify'[center'[n]] = n
      /\ shell'[n] = center'[n]
      /\ ~HasRegister(toCenter'[center'[n]])
  BY DEF Attached, Center, HasRegister
<1>2. /\ nodeInfo'[n] # 0
      /\ \A k \in Needs[n] : nodeInfo'[k] # 0 =>
            Learns(toNode'[center'[n]], k, k \in routes'[n])
  BY <1>1
<1>3. ASSUME NEW k \in Needs[n], nodeInfo'[k] # 0
      PROVE  Learns(Center.toNode[center[n]], k, k \in routes[n])'
  <2>1. Learns(toNode'[center'[n]], k, k \in routes'[n])
    BY <1>2, <1>3
  <2> QED
    BY <2>1 DEF Learns, Informs, Center
<1>4. \A k \in Needs[n] : Center'.nodeInfo[k] # 0 =>
        Learns(Center.toNode[center[n]], k, k \in routes[n])'
  BY <1>3 DEF Center
<1> QED
  BY <1>2, <1>4 DEF Informed, Center

\* A step of the Center that assigns what a handler computed.
LEMMA HandlerInforms ==
    ASSUME NEW t \in CenterState, Tied(t, center, owner), AllInformed(t, center, routes),
           Becomes(t), UNCHANGED <<owner, center, nodeId, routes>>
    PROVE  RoutesInv'
<1>1. Center' = t
  BY Assigned
<1>2. Tied(Center, center, owner)'
  BY <1>1 DEF Tied, TellRegisters
<1>3. /\ nodeInfo' = t.nodeInfo /\ shell' = t.shell /\ identify' = t.identify
      /\ toCenter' = t.toCenter /\ toNode' = t.toNode
  BY DEF Becomes
<1>4. \A n \in Node :
         /\ center[n] # None
         /\ t.identify[center[n]] = n
         /\ t.shell[n] = center[n]
         /\ ~HasRegister(t.toCenter[center[n]])
         => /\ t.nodeInfo[n] # 0
            /\ \A k \in Needs[n] : t.nodeInfo[k] # 0 =>
                  Learns(t.toNode[center[n]], k, k \in routes[n])
  BY DEF AllInformed, Attached, Informed
<1>5. AllInformed(Center, center, routes)'
  BY <1>3, <1>4, InformedAfter
<1> QED
  BY <1>2, <1>5 DEF RoutesInv

LEMMA RecvTellInforms ==
    ASSUME "db" \notin Faults, IInv, RoutesInv, NEW c \in Conn, RecvTell(c)
    PROVE  RoutesInv'
<1>1. PICK auto \in AutoConns : Becomes(AddMsgShell(Taken(c), owner[c], c, TRUE, auto))
  BY DEF RecvTell, DbResults
<1>2. auto \in Autos
  BY AutoConnsTyped
<1>3. /\ toCenter[c] # <<>> /\ Head(toCenter[c]) = "tell" /\ stage[c] = "open"
      /\ owner[c] \in Node /\ UNCHANGED <<owner, center, nodeId, routes>>
  BY OwnerIsNode DEF RecvTell, Arrives
<1> DEFINE s == Taken(c)
           n == owner[c]
           t == AddMsgShell(s, n, c, TRUE, auto)
<1>4. Good(s) /\ s.stage = stage
  BY <1>3, TakenGood DEF IInv
<1>5. /\ Tied(s, center, owner) /\ AllInformed(s, center, routes)
      /\ \A k \in Node : center[k] = c => HasRegister(s.toCenter[c])
  BY <1>3, TakenInforms
<1> HIDE DEF s
<1>6. ManagersTyped
  BY DEF IInv
<1>7. Tied(t, center, owner) /\ AllInformed(t, center, routes)
  <2> HIDE DEF n
  <2>1. n \in Node /\ owner[c] = n /\ s.stage[c] = "open"
    BY <1>3, <1>4 DEF n
  <2> QED
    BY <1>2, <1>4, <1>5, <1>6, <2>1, AddMsgShellInforms
<1>8. t \in CenterState
  <2>1. Good(t)
    BY <1>2, <1>3, <1>4, AddMsgShellGood
  <2> QED
    BY <2>1 DEF Good
<1>9. Becomes(t)
  BY <1>1 DEF s
<1> HIDE DEF t
<1> QED
  BY <1>3, <1>7, <1>8, <1>9, HandlerInforms

LEMMA RecvRegisterInforms ==
    ASSUME "db" \notin Faults, IInv, RoutesInv, NEW c \in Conn, RecvRegister(c)
    PROVE  RoutesInv'
<1>1. PICK auto \in AutoConns :
        Becomes(AddMsgShell(regNode(Taken(c), owner[c], c, auto), owner[c], c, TRUE, auto))
  BY DEF RecvRegister, DbResults
<1>2. auto \in Autos
  BY AutoConnsTyped
<1>3. /\ toCenter[c] # <<>> /\ stage[c] = "open"
      /\ owner[c] \in Node /\ UNCHANGED <<owner, center, nodeId, routes>>
  BY OwnerIsNode DEF RecvRegister, Arrives
<1> DEFINE s == Taken(c)
           n == owner[c]
           r == regNode(s, n, c, auto)
           t == AddMsgShell(r, n, c, TRUE, auto)
<1>4. Good(s) /\ s.stage = stage
  BY <1>3, TakenGood DEF IInv
<1>5. /\ Tied(s, center, owner)
      /\ \A k \in Node : Attached(s, center, k) /\ center[k] # c =>
            Informed(s, center, routes, k)
  BY <1>3, TakenInforms
<1>6. ManagersTyped
  BY DEF IInv
<1>7. n \in Node /\ owner[c] = n
  BY <1>3
<1>8. Becomes(t)
  BY <1>1
<1> HIDE DEF s, n
<1>9. /\ Tied(r, center, owner) /\ AllInformed(r, center, routes)
      /\ center[n] = c => Informed(r, center, routes, n)
      /\ Spares(s, r, None)
  BY <1>2, <1>4, <1>5, <1>6, <1>7, regNodeInforms
<1>10. Good(r)
  BY <1>2, <1>3, <1>4, <1>7, regNodeGood
<1> HIDE DEF r
<1>11. r.stage[c] = "open"
  BY <1>3, <1>4, <1>9, NodeAssumption DEF Spares
<1>12. Tied(t, center, owner) /\ AllInformed(t, center, routes)
  BY <1>2, <1>6, <1>7, <1>9, <1>10, <1>11, AddMsgShellInforms
<1>13. t \in CenterState
  <2>1. Good(t)
    BY <1>2, <1>7, <1>10, AddMsgShellGood
  <2> QED
    BY <2>1 DEF Good
<1> HIDE DEF t
<1> QED
  BY <1>3, <1>8, <1>12, <1>13, HandlerInforms

LEMMA RecvReportInforms ==
    ASSUME "db" \notin Faults, IInv, RoutesInv, NEW c \in Conn, RecvReport(c)
    PROVE  RoutesInv'
<1> DEFINE n == owner[c]
           s == Taken(c)
           u == [s EXCEPT !.row[n] = [id |-> nodeInfo[n], online |-> TRUE]]
<1>1. PICK auto \in AutoConns :
        Becomes(IF nodeInfo[n] = 0 THEN regNode(s, n, c, auto) ELSE u)
  BY DEF RecvReport, DbResults
<1>2. auto \in Autos
  BY AutoConnsTyped
<1>3. /\ toCenter[c] # <<>> /\ Head(toCenter[c]) # "register"
      /\ n \in Node /\ UNCHANGED <<owner, center, nodeId, routes>>
  BY OwnerIsNode DEF RecvReport, Arrives
<1>4. Good(s) /\ s.stage = stage /\ s.nodeInfo = nodeInfo /\ s.row = row
  BY <1>3, TakenGood DEF IInv
<1>5. Tied(s, center, owner) /\ AllInformed(s, center, routes)
  BY <1>3, TakenInforms
<1>6. ManagersTyped /\ owner[c] = n
  BY DEF IInv
<1>7. CASE nodeInfo[n] = 0
  <2> DEFINE t == regNode(s, n, c, auto)
  <2>1. Becomes(t)
    BY <1>1, <1>7
  <2> HIDE DEF s, n
  <2>2. Tied(t, center, owner) /\ AllInformed(t, center, routes)
    BY <1>2, <1>3, <1>4, <1>5, <1>6, regNodeInforms DEF AllInformed
  <2>3. t \in CenterState
    <3>1. Good(t)
      BY <1>2, <1>3, <1>4, regNodeGood
    <3> QED
      BY <3>1 DEF Good
  <2> HIDE DEF t
  <2> QED
    BY <1>3, <2>1, <2>2, <2>3, HandlerInforms
<1>8. CASE nodeInfo[n] # 0
  <2>1. Becomes(u)
    BY <1>1, <1>8
  <2> HIDE DEF s, n
  <2>2. [id |-> nodeInfo[n], online |-> TRUE] = row[n]
    BY <1>3, <1>4, <1>8 DEF Good, RowsAgree
  <2>3. u = s /\ s \in CenterState
    BY <1>3, <1>4, <2>2 DEF Good, CenterState
  <2>4. Becomes(s)
    BY <2>1, <2>3
  <2> QED
    BY <1>3, <1>5, <2>3, <2>4, HandlerInforms
<1> QED
  BY <1>7, <1>8

\* RecvEof and CenterDrops destroy a connection.
LEMMA DestroyInforms ==
    ASSUME "db" \notin Faults, IInv, RoutesInv, NEW c \in Conn, RecvEof(c) \/ CenterDrops(c)
    PROVE  RoutesInv'
<1>1. PICK auto \in AutoConns : Becomes(DestroyConnect(Center, c, TRUE, auto))
  BY DEF RecvEof, CenterDrops, DbResults
<1>2. auto \in Autos
  BY AutoConnsTyped
<1>3. UNCHANGED <<owner, center, nodeId, routes>>
  BY DEF RecvEof, CenterDrops
<1> DEFINE t == DestroyConnect(Center, c, TRUE, auto)
<1>4. Good(Center) /\ Center \in CenterState /\ ManagersTyped
  BY DEF IInv, Good
<1>5. Good(t)
  BY <1>2, <1>4, DestroyConnectGood
<1>6. Tied(t, center, owner) /\ AllInformed(t, center, routes)
  BY <1>2, <1>4, DestroyConnectInforms DEF RoutesInv
<1>7. t \in CenterState
  BY <1>5 DEF Good
<1>8. Becomes(t)
  BY <1>1
<1> HIDE DEF t
<1> QED
  BY <1>3, <1>6, <1>7, <1>8, HandlerInforms

\* A step that registers and maps nobody: a connection keeps its owner, and a
\* node that is attached was before and learns what it learnt.
LEMMA QuietInforms ==
    ASSUME RoutesInv, UNCHANGED <<nodeInfo, shell, identify>>,
           \A n \in Node : center'[n] # None =>
               /\ owner'[center'[n]] = n
               /\ stage'[center'[n]] # "unused"
               /\ TellRegisters(toCenter'[center'[n]]),
           \A c \in Conn : identify[c] # None => stage'[c] = stage[c] /\ owner'[c] = owner[c],
           \A c \in Conn : stage'[c] = "unused" => owner'[c] = None /\ toCenter'[c] = <<>>,
           \A n \in Node :
               \/ center'[n] = None
               \/ identify[center'[n]] = None
               \/ HasRegister(toCenter'[center'[n]])
               \/ /\ center'[n] = center[n]
                  /\ ~HasRegister(toCenter[center[n]])
                  /\ \A k \in Needs[n] :
                        Learns(toNode[center[n]], k, k \in routes[n]) =>
                            Learns(toNode'[center[n]], k, k \in routes'[n])
    PROVE  RoutesInv'
<1>1. /\ Center.identify = identify /\ Center.shell = shell /\ Center.nodeInfo = nodeInfo
      /\ Center.stage = stage /\ Center.toCenter = toCenter /\ Center.toNode = toNode
  BY DEF Center
<1>2. Tied(Center, center, owner)'
  <2>1. \A n \in Node : center'[n] # None =>
          /\ owner'[center'[n]] = n
          /\ Center'.stage[center'[n]] # "unused"
          /\ TellRegisters(toCenter'[center'[n]])
    BY DEF Center
  <2>2. \A c \in Conn : identify[c] # None =>
          \/ stage[c] = "open" /\ identify[c] = owner[c]
          \/ stage[c] = "auto" /\ owner[c] = None
    BY <1>1 DEF RoutesInv, Tied
  <2>3. \A c \in Conn : identify'[c] # None =>
          \/ stage'[c] = "open" /\ identify'[c] = owner'[c]
          \/ stage'[c] = "auto" /\ owner'[c] = None
    BY <2>2
  <2> QED
    BY <2>1, <2>3 DEF Tied, Center, TellRegisters
<1>3. ASSUME NEW n \in Node, center'[n] # None, identify'[center'[n]] = n,
             shell'[n] = center'[n], ~HasRegister(toCenter'[center'[n]])
      PROVE  /\ nodeInfo'[n] # 0
             /\ \A k \in Needs[n] : nodeInfo'[k] # 0 =>
                  Learns(toNode'[center'[n]], k, k \in routes'[n])
  <2>1. identify[center'[n]] # None
    BY <1>3, NodeAssumption
  <2>2. /\ center'[n] = center[n]
        /\ ~HasRegister(toCenter[center[n]])
        /\ \A k \in Needs[n] :
              Learns(toNode[center[n]], k, k \in routes[n]) =>
                  Learns(toNode'[center[n]], k, k \in routes'[n])
    BY <1>3, <2>1
  <2>3. Attached(Center, center, n)
    BY <1>1, <1>3, <2>2 DEF Attached
  <2>4. Informed(Center, center, routes, n)
    BY <2>3 DEF RoutesInv, AllInformed
  <2> QED
    BY <1>1, <2>2, <2>4 DEF Informed
<1>4. AllInformed(Center, center, routes)'
  BY <1>3, InformedAfter
<1> QED
  BY <1>2, <1>4 DEF RoutesInv

\* What the invariants say of the variables.
LEMMA TiedVariables ==
    ASSUME IInv, RoutesInv
    PROVE  /\ stage \in [Conn -> Stage] /\ toCenter \in [Conn -> Seq(Request)]
           /\ toNode \in [Conn -> Seq(Message)]
           /\ owner \in [Conn -> Node \cup {None}]
           /\ center \in [Node -> Conn \cup {None}]
           /\ routes \in [Node -> SUBSET Node]
           /\ \A n \in Node : center[n] # None =>
                 /\ center[n] \in Conn
                 /\ owner[center[n]] = n
                 /\ stage[center[n]] # "unused"
                 /\ TellRegisters(toCenter[center[n]])
           /\ \A c \in Conn : identify[c] # None => stage[c] \in {"open", "auto"}
           /\ \A c \in Conn : stage[c] = "unused" => owner[c] = None /\ toCenter[c] = <<>>
BY Types DEF ManagersTyped, RoutesInv, Tied, Center

LEMMA CenterRestartInforms ==
    ASSUME IInv, RoutesInv, CenterRestart
    PROVE  RoutesInv'
<1> USE DEF CenterRestart
<1>1. /\ toCenter' = [c \in Conn |-> IF stage[c] = "open" THEN <<>> ELSE toCenter[c]]
      /\ stage' = [c \in Conn |-> IF stage[c] \in {"open", "auto"} THEN "dead" ELSE stage[c]]
      /\ UNCHANGED <<toNode, owner, center, routes>>
      /\ identify' = [c \in Conn |-> None] /\ shell' = [n \in Node |-> None]
  OBVIOUS
<1>2. /\ \A n \in Node : center[n] # None =>
            /\ center[n] \in Conn
            /\ owner[center[n]] = n
            /\ stage[center[n]] # "unused"
            /\ TellRegisters(toCenter[center[n]])
      /\ \A c \in Conn : stage[c] = "unused" => owner[c] = None /\ toCenter[c] = <<>>
  BY TiedVariables
<1>3. TellRegisters(<<>>)
  BY DEF TellRegisters
<1>4. Tied(Center, center, owner)'
  <2>1. \A n \in Node : center[n] # None =>
          /\ owner[center[n]] = n
          /\ stage'[center[n]] # "unused"
          /\ TellRegisters(toCenter'[center[n]])
    BY <1>1, <1>2, <1>3
  <2>2. \A c \in Conn :
          /\ identify'[c] = None
          /\ stage'[c] = "unused" => owner[c] = None /\ toCenter'[c] = <<>>
    BY <1>1, <1>2
  <2> QED
    BY <1>1, <2>1, <2>2 DEF Tied, Center, TellRegisters
<1>5. \A n \in Node : shell'[n] = None
  BY <1>1
<1>6. AllInformed(Center, center, routes)'
  BY <1>5, InformedAfter
<1> QED
  BY <1>4, <1>6 DEF RoutesInv

LEMMA CenterTransferInforms ==
    ASSUME IInv, RoutesInv, NEW c \in Conn, CenterTransfer(c)
    PROVE  RoutesInv'
<1> USE TiedVariables
<1>1. PICK i \in 2 .. Len(toCenter[c]) + 1 :
        toCenter' = [toCenter EXCEPT ![c] = SubSeq(@, i, Len(@))]
  BY DEF CenterTransfer
<1>2. /\ stage[c] = "manager" /\ stage' = [stage EXCEPT ![c] = "open"]
      /\ toNode' = [toNode EXCEPT ![c] = IF Listens(c) THEN Append(@, Connected) ELSE @]
      /\ UNCHANGED <<nodeInfo, shell, identify, owner, center, routes>>
  BY DEF CenterTransfer
<1>3. identify[c] = None
  BY <1>2
<1>4. ASSUME TellRegisters(toCenter[c]) PROVE TellRegisters(toCenter'[c])
  <2>1. toCenter[c] \in Seq(Request) /\ i \in 1 .. Len(toCenter[c]) + 1
    OBVIOUS
  <2>2. TellRegisters(SubSeq(toCenter[c], i, Len(toCenter[c])))
    BY <1>4, <2>1, RequestsBehind
  <2> QED
    BY <1>1, <2>2
<1>5. \A d \in Conn : d # c => /\ toCenter'[d] = toCenter[d] /\ stage'[d] = stage[d]
                               /\ toNode'[d] = toNode[d]
  BY <1>1, <1>2
<1>6. stage'[c] = "open"
  BY <1>2
<1>7. \A n \in Node : center'[n] # None =>
        /\ owner'[center'[n]] = n
        /\ stage'[center'[n]] # "unused"
        /\ TellRegisters(toCenter'[center'[n]])
  BY <1>2, <1>4, <1>5, <1>6
<1>8. \A d \in Conn : identify[d] # None => stage'[d] = stage[d] /\ owner'[d] = owner[d]
  BY <1>2, <1>3, <1>5
<1>9. \A d \in Conn : stage'[d] = "unused" => owner'[d] = None /\ toCenter'[d] = <<>>
  BY <1>2, <1>5, <1>6
<1>10. ASSUME NEW n \in Node, center'[n] # None, identify[center'[n]] # None,
              ~HasRegister(toCenter'[center'[n]])
       PROVE  /\ center'[n] = center[n]
              /\ ~HasRegister(toCenter[center[n]])
              /\ \A k \in Needs[n] :
                    Learns(toNode[center[n]], k, k \in routes[n]) =>
                        Learns(toNode'[center[n]], k, k \in routes'[n])
  <2>1. center'[n] = center[n] /\ routes'[n] = routes[n] /\ center[n] # c
    BY <1>2, <1>3, <1>10
  <2>2. toCenter'[center[n]] = toCenter[center[n]] /\ toNode'[center[n]] = toNode[center[n]]
    BY <1>2, <1>5, <1>10, <2>1
  <2> QED
    BY <1>10, <2>1, <2>2
<1>11. UNCHANGED <<nodeInfo, shell, identify>>
  BY <1>2
<1> QED
  BY <1>7, <1>8, <1>9, <1>10, <1>11, QuietInforms

LEMMA CenterRefusesInforms ==
    ASSUME IInv, RoutesInv, NEW c \in Conn, CenterRefuses(c)
    PROVE  RoutesInv'
<1> USE TiedVariables
<1>1. /\ stage[c] = "manager" /\ stage' = [stage EXCEPT ![c] = "dead"]
      /\ toCenter' = [toCenter EXCEPT ![c] = <<>>]
      /\ UNCHANGED <<nodeInfo, shell, identify, toNode, owner, center, routes>>
  BY DEF CenterRefuses
<1>2. identify[c] = None
  BY <1>1
<1>3. TellRegisters(<<>>)
  BY DEF TellRegisters
<1>4. /\ \A d \in Conn : d # c => toCenter'[d] = toCenter[d] /\ stage'[d] = stage[d]
      /\ toCenter'[c] = <<>> /\ stage'[c] = "dead"
  BY <1>1
<1>5. \A n \in Node : center'[n] # None =>
        /\ owner'[center'[n]] = n
        /\ stage'[center'[n]] # "unused"
        /\ TellRegisters(toCenter'[center'[n]])
  BY <1>1, <1>3, <1>4
<1>6. \A d \in Conn : identify[d] # None => stage'[d] = stage[d] /\ owner'[d] = owner[d]
  BY <1>1, <1>2, <1>4
<1>7. \A d \in Conn : stage'[d] = "unused" => owner'[d] = None /\ toCenter'[d] = <<>>
  BY <1>1, <1>4
<1>8. ASSUME NEW n \in Node, center'[n] # None, identify[center'[n]] # None,
             ~HasRegister(toCenter'[center'[n]])
      PROVE  /\ center'[n] = center[n]
             /\ ~HasRegister(toCenter[center[n]])
             /\ \A k \in Needs[n] :
                   Learns(toNode[center[n]], k, k \in routes[n]) =>
                       Learns(toNode'[center[n]], k, k \in routes'[n])
  <2>1. center'[n] = center[n] /\ routes' = routes /\ toNode' = toNode /\ center[n] # c
    BY <1>1, <1>2, <1>8
  <2>2. toCenter'[center[n]] = toCenter[center[n]]
    BY <1>1, <1>4, <1>8, <2>1
  <2> QED
    BY <1>8, <2>1, <2>2
<1>9. UNCHANGED <<nodeInfo, shell, identify>>
  BY <1>1
<1> QED
  BY <1>5, <1>6, <1>7, <1>8, <1>9, QuietInforms

LEMMA ConnectInforms ==
    ASSUME IInv, RoutesInv, NEW n \in Node, NEW c \in Conn, Connect(n, c)
    PROVE  RoutesInv'
<1> USE TiedVariables
<1>1. /\ center[n] = None /\ stage[c] = "unused"
      /\ center' = [center EXCEPT ![n] = c]
      /\ owner' = [owner EXCEPT ![c] = n]
      /\ stage' = [stage EXCEPT ![c] = "connecting"]
      /\ UNCHANGED <<nodeInfo, shell, identify, toCenter, toNode, routes>>
  BY DEF Connect
<1>2. identify[c] = None /\ c # None
  BY <1>1, NodeAssumption
<1>3. /\ \A d \in Conn : d # c => owner'[d] = owner[d] /\ stage'[d] = stage[d]
      /\ owner'[c] = n /\ stage'[c] = "connecting"
      /\ center'[n] = c /\ \A k \in Node : k # n => center'[k] = center[k]
  BY <1>1
<1>4. TellRegisters(toCenter[c])
  BY <1>1 DEF TellRegisters
<1>5. \A k \in Node : k # n /\ center'[k] # None => center'[k] \in Conn /\ center'[k] # c
  BY <1>1, <1>3
<1>6. \A k \in Node : center'[k] # None =>
        /\ owner'[center'[k]] = k
        /\ stage'[center'[k]] # "unused"
        /\ TellRegisters(toCenter'[center'[k]])
  BY <1>1, <1>3, <1>4, <1>5
<1>7. \A d \in Conn : identify[d] # None => stage'[d] = stage[d] /\ owner'[d] = owner[d]
  BY <1>2, <1>3
<1>8. \A d \in Conn : stage'[d] = "unused" => owner'[d] = None /\ toCenter'[d] = <<>>
  BY <1>1, <1>3
<1>9. ASSUME NEW k \in Node, center'[k] # None, identify[center'[k]] # None,
             ~HasRegister(toCenter'[center'[k]])
      PROVE  /\ center'[k] = center[k]
             /\ ~HasRegister(toCenter[center[k]])
             /\ \A j \in Needs[k] :
                   Learns(toNode[center[k]], j, j \in routes[k]) =>
                       Learns(toNode'[center[k]], j, j \in routes'[k])
  <2>1. center'[k] = center[k]
    BY <1>2, <1>3, <1>9
  <2>2. toCenter' = toCenter /\ toNode' = toNode /\ routes' = routes
    BY <1>1
  <2> QED
    BY <1>9, <2>1, <2>2
<1>10. UNCHANGED <<nodeInfo, shell, identify>>
  BY <1>1
<1> QED
  BY <1>6, <1>7, <1>8, <1>9, <1>10, QuietInforms


\* A step of the Managers that opens no connection: requests are added to
\* connections in use, and only those that are nobody's lose some.
LEMMA ManagerInforms ==
    ASSUME IInv, RoutesInv, UNCHANGED <<nodeInfo, shell, identify, owner>>,
           \A n \in Node : center'[n] \in {center[n], None},
           \A n \in Node : center'[n] # None =>
               /\ TellRegisters(toCenter'[center[n]])
               /\ HasRegister(toCenter[center[n]]) => HasRegister(toCenter'[center[n]]),
           \A c \in Conn : stage'[c] = stage[c] \/ (stage[c] = "connecting" /\ stage'[c] # "unused"),
           \A c \in Conn : stage[c] = "unused" => toCenter'[c] = <<>>,
           \A n \in Node : center'[n] # None /\ ~HasRegister(toCenter'[center[n]])
                           /\ identify[center[n]] # None =>
               \A k \in Needs[n] :
                  Learns(toNode[center[n]], k, k \in routes[n]) =>
                      Learns(toNode'[center[n]], k, k \in routes'[n])
    PROVE  RoutesInv'
<1>1. /\ \A n \in Node : center[n] # None =>
            /\ center[n] \in Conn
            /\ owner[center[n]] = n
            /\ stage[center[n]] # "unused"
            /\ TellRegisters(toCenter[center[n]])
      /\ \A c \in Conn : identify[c] # None => stage[c] \in {"open", "auto"}
      /\ \A c \in Conn : stage[c] = "unused" => owner[c] = None
  BY TiedVariables
<1>2. \A n \in Node : center'[n] # None => center'[n] = center[n] /\ center[n] # None
  OBVIOUS
<1>3. \A n \in Node : center'[n] # None =>
        /\ owner'[center'[n]] = n
        /\ stage'[center'[n]] # "unused"
        /\ TellRegisters(toCenter'[center'[n]])
  <2> SUFFICES ASSUME NEW n \in Node, center'[n] # None
               PROVE  /\ owner'[center'[n]] = n
                      /\ stage'[center'[n]] # "unused"
                      /\ TellRegisters(toCenter'[center'[n]])
    OBVIOUS
  <2>1. center'[n] = center[n] /\ center[n] \in Conn
    BY <1>1, <1>2
  <2> QED
    BY <1>1, <1>2, <2>1
<1>4. \A d \in Conn : identify[d] # None => stage'[d] = stage[d] /\ owner'[d] = owner[d]
  BY <1>1
<1>5. \A d \in Conn : stage'[d] = "unused" => owner'[d] = None /\ toCenter'[d] = <<>>
  BY <1>1
<1>6. ASSUME NEW n \in Node, center'[n] # None, identify[center'[n]] # None,
             ~HasRegister(toCenter'[center'[n]])
      PROVE  /\ center'[n] = center[n]
             /\ ~HasRegister(toCenter[center[n]])
             /\ \A k \in Needs[n] :
                   Learns(toNode[center[n]], k, k \in routes[n]) =>
                       Learns(toNode'[center[n]], k, k \in routes'[n])
  <2>1. center'[n] = center[n]
    BY <1>2, <1>6
  <2> QED
    BY <1>6, <2>1
<1>7. UNCHANGED <<nodeInfo, shell, identify>>
  OBVIOUS
<1> QED
  BY <1>3, <1>4, <1>5, <1>6, <1>7, QuietInforms

\* One request more on the connection to the Center.
LEMMA SendAdds ==
    ASSUME IInv, RoutesInv, NEW n \in Node, NEW request \in Request, Send(n, request),
           request # "tell"
    PROVE  /\ \A k \in Node : center[k] # None =>
                 /\ TellRegisters(toCenter'[center[k]])
                 /\ HasRegister(toCenter[center[k]]) => HasRegister(toCenter'[center[k]])
           /\ \A c \in Conn : stage[c] = "unused" => toCenter'[c] = <<>>
           /\ center[n] # None /\ stage[center[n]] # "dead" /\ request = "register" =>
                 HasRegister(toCenter'[center[n]])
<1> USE TiedVariables
<1>1. CASE center[n] # None /\ stage[center[n]] # "dead"
  <2> DEFINE c == center[n]
             q == toCenter[c]
  <2>1. c \in Conn /\ stage[c] # "unused" /\ TellRegisters(q) /\ q \in Seq(Request)
    BY <1>1
  <2>2. toCenter' = [toCenter EXCEPT ![c] = Append(q, request)]
    BY <1>1 DEF Send
  <2> HIDE DEF c
  <2>3. /\ toCenter'[c] = Append(q, request)
        /\ \A d \in Conn : d # c => toCenter'[d] = toCenter[d]
    BY <2>1, <2>2
  <2> HIDE DEF q
  <2>4. /\ TellRegisters(toCenter'[c])
        /\ request = "register" \/ HasRegister(q) => HasRegister(toCenter'[c])
    BY <2>1, <2>3, RequestSent
  <2>5. ASSUME NEW k \in Node, center[k] # None
        PROVE  /\ TellRegisters(toCenter'[center[k]])
               /\ HasRegister(toCenter[center[k]]) => HasRegister(toCenter'[center[k]])
    <3>1. CASE center[k] = c
      BY <2>4, <3>1 DEF q
    <3>2. CASE center[k] # c
      BY <2>3, <2>5, <3>2
    <3> QED
      BY <3>1, <3>2
  <2>6. \A d \in Conn : stage[d] = "unused" => toCenter'[d] = <<>>
    BY <2>1, <2>3
  <2> QED
    BY <2>4, <2>5, <2>6 DEF c
<1>2. CASE ~(center[n] # None /\ stage[center[n]] # "dead")
  <2>1. toCenter' = toCenter
    BY <1>2 DEF Send
  <2> QED
    BY <1>2, <2>1
<1> QED
  BY <1>1, <1>2

LEMMA ReportInforms ==
    ASSUME IInv, RoutesInv, NEW n \in Node, Report(n)
    PROVE  RoutesInv'
<1>1. /\ Send(n, "report")
      /\ UNCHANGED <<nodeInfo, shell, identify, stage, row, toNode, owner, center, nodeId, routes>>
  BY DEF Report
<1>2. /\ \A k \in Node : center[k] # None =>
            /\ TellRegisters(toCenter'[center[k]])
            /\ HasRegister(toCenter[center[k]]) => HasRegister(toCenter'[center[k]])
      /\ \A c \in Conn : stage[c] = "unused" => toCenter'[c] = <<>>
  BY <1>1, SendAdds DEF Request
<1> QED
  BY <1>1, <1>2, ManagerInforms

LEMMA RestartWorkerInforms ==
    ASSUME IInv, RoutesInv, NEW n \in Node, RestartWorker(n)
    PROVE  RoutesInv'
<1>1. /\ Send(n, "register") /\ routes' = [routes EXCEPT ![n] = {}]
      /\ UNCHANGED <<nodeInfo, shell, identify, stage, row, toNode, owner, center, nodeId>>
  BY DEF RestartWorker
<1>2. /\ \A k \in Node : center[k] # None =>
            /\ TellRegisters(toCenter'[center[k]])
            /\ HasRegister(toCenter[center[k]]) => HasRegister(toCenter'[center[k]])
      /\ \A c \in Conn : stage[c] = "unused" => toCenter'[c] = <<>>
      /\ center[n] # None /\ stage[center[n]] # "dead" =>
            HasRegister(toCenter'[center[n]])
  BY <1>1, SendAdds DEF Request
<1>3. ASSUME NEW k \in Node, center'[k] # None, ~HasRegister(toCenter'[center[k]]),
             identify[center[k]] # None
      PROVE  \A j \in Needs[k] :
                Learns(toNode[center[k]], j, j \in routes[k]) =>
                    Learns(toNode'[center[k]], j, j \in routes'[k])
  <2>1. center[k] \in Conn /\ stage[center[k]] # "dead"
    BY <1>1, <1>3, TiedVariables
  <2>2. k # n
    BY <1>1, <1>2, <1>3, <2>1
  <2>3. routes'[k] = routes[k] /\ toNode' = toNode
    BY <1>1, <2>2, TiedVariables
  <2> QED
    BY <2>3
<1> QED
  BY <1>1, <1>2, <1>3, ManagerInforms

LEMMA IoWriteInforms ==
    ASSUME IInv, RoutesInv, NEW c \in Conn, IoWrite(c)
    PROVE  RoutesInv'
<1> USE TiedVariables
<1>1. /\ stage[c] = "connecting" /\ stage' = [stage EXCEPT ![c] = "manager"]
      /\ toCenter' = [toCenter EXCEPT ![c] = Append(@, "connect")]
      /\ UNCHANGED <<nodeInfo, shell, identify, row, toNode, owner, center, nodeId, routes>>
  BY DEF IoWrite
<1>2. /\ toCenter'[c] = Append(toCenter[c], "connect") /\ stage'[c] = "manager"
      /\ \A d \in Conn : d # c => toCenter'[d] = toCenter[d] /\ stage'[d] = stage[d]
  BY <1>1
<1>3. ASSUME NEW k \in Node, center'[k] # None
      PROVE  /\ TellRegisters(toCenter'[center[k]])
             /\ HasRegister(toCenter[center[k]]) => HasRegister(toCenter'[center[k]])
  <2>1. center[k] \in Conn /\ TellRegisters(toCenter[center[k]])
    BY <1>1, <1>3
  <2>2. CASE center[k] = c
    <3>1. toCenter[c] \in Seq(Request) /\ "connect" \in Request
      BY DEF Request
    <3> QED
      BY ZenonT(40), <1>2, <2>1, <2>2, <3>1, RequestSent
  <2>3. CASE center[k] # c
    BY <1>2, <2>1, <2>3
  <2> QED
    BY <2>2, <2>3
<1>4. \A d \in Conn : stage[d] = "unused" => toCenter'[d] = <<>>
  BY <1>1, <1>2
<1> QED
  BY <1>1, <1>2, <1>3, <1>4, ManagerInforms

LEMMA DisposeDataFromCenterInforms ==
    ASSUME IInv, RoutesInv, NEW n \in Node, DisposeDataFromCenter(n)
    PROVE  RoutesInv'
<1> DEFINE c == center[n]
           m == Head(toNode[c])
<1> USE TiedVariables
<1>1. c \in Conn /\ toNode[c] # <<>> /\ c # None
  BY DEF DisposeDataFromCenter
<1>2. /\ toNode' = [toNode EXCEPT ![c] = Tail(@)]
      /\ \/ toCenter' = [toCenter EXCEPT ![c] = @ \o <<"tell", "register">>]
         \/ toCenter' = toCenter
      /\ routes' = [routes EXCEPT ![n] = CASE m.kind = "reg" -> @ \cup m.nodes
                                           [] m.kind = "exit" -> @ \ m.nodes
                                           [] OTHER -> @]
      /\ UNCHANGED <<nodeInfo, shell, identify, stage, owner, center>>
  BY DEF DisposeDataFromCenter
<1>3. /\ toNode'[c] = Tail(toNode[c])
      /\ \A d \in Conn : d # c => toNode'[d] = toNode[d]
      /\ \A d \in Conn : d # c => toCenter'[d] = toCenter[d]
      /\ toCenter'[c] \in {toCenter[c], toCenter[c] \o <<"tell", "register">>}
      /\ \A k \in Node : k # n => routes'[k] = routes[k]
      /\ routes'[n] = CASE m.kind = "reg" -> routes[n] \cup m.nodes
                        [] m.kind = "exit" -> routes[n] \ m.nodes
                        [] OTHER -> routes[n]
  <2> HIDE DEF c, m
  <2> QED
    BY <1>1, <1>2
<1>4. \A k \in Node : k # n /\ center[k] # None => center[k] # c
  <2>1. owner[c] = n
    BY <1>1
  <2> QED
    BY <2>1
<1>5. TellRegisters(toCenter[c]) /\ toCenter[c] \in Seq(Request) /\ stage[c] # "unused"
  BY <1>1
<1> HIDE DEF c
<1>6. TellRegisters(toCenter'[c]) /\ (HasRegister(toCenter[c]) => HasRegister(toCenter'[c]))
  BY <1>3, <1>5, HandshakeSent
<1>7. ASSUME NEW k \in Node, center'[k] # None
      PROVE  /\ TellRegisters(toCenter'[center[k]])
             /\ HasRegister(toCenter[center[k]]) => HasRegister(toCenter'[center[k]])
  <2>1. center[k] \in Conn /\ TellRegisters(toCenter[center[k]])
    BY <1>2, <1>7
  <2>2. CASE center[k] = c
    BY <1>6, <2>2
  <2>3. CASE center[k] # c
    BY <1>3, <2>1, <2>3
  <2> QED
    BY <2>2, <2>3
<1>8. \A d \in Conn : stage[d] = "unused" => toCenter'[d] = <<>>
  BY <1>3, <1>5
<1>9. ASSUME NEW j \in Needs[n], Learns(toNode[c], j, j \in routes[n])
      PROVE  Learns(toNode'[c], j, j \in routes'[n])
  <2> DEFINE q == toNode[c]
             r == j \in routes[n]
             now == j \in routes'[n]
  <2>1. q \in Seq(Message) /\ q # <<>> /\ Learns(q, j, r)
    BY <1>1, <1>9
  <2>2. m.kind = "reg" /\ j \in m.nodes => now
    BY <1>3
  <2>3. ~Informs(m, j) => (r => now)
    <3> HIDE DEF m
    <3> QED
      BY <1>3 DEF Informs
  <2>4. m = Head(q)
    OBVIOUS
  <2> HIDE DEF q, r, now, m
  <2>5. Learns(Tail(q), j, now)
    BY <2>1, <2>2, <2>3, <2>4, LearnsArrived
  <2> QED
    BY <1>3, <2>5 DEF q, now
<1>10. ASSUME NEW k \in Node, center'[k] # None
       PROVE  \A j \in Needs[k] :
                 Learns(toNode[center[k]], j, j \in routes[k]) =>
                     Learns(toNode'[center[k]], j, j \in routes'[k])
  <2>1. CASE k = n
    BY <1>9, <2>1 DEF c
  <2>2. CASE k # n
    <3>1. center[k] \in Conn /\ center[k] # c
      BY <1>2, <1>4, <1>10, <2>2
    <3>2. toNode'[center[k]] = toNode[center[k]] /\ routes'[k] = routes[k]
      BY <1>3, <2>2, <3>1
    <3> QED
      BY <3>2
  <2> QED
    BY <2>1, <2>2
<1> QED
  BY <1>2, <1>7, <1>8, <1>10, ManagerInforms

LEMMA ManagerEofInforms ==
    ASSUME IInv, RoutesInv, NEW n \in Node, ManagerEof(n)
    PROVE  RoutesInv'
<1>1. /\ center' = [center EXCEPT ![n] = None]
      /\ UNCHANGED <<nodeInfo, shell, identify, stage, toCenter, toNode, owner, routes>>
  BY DEF ManagerEof, centerVars
<1>2. \A k \in Node : center'[k] \in {center[k], None}
  BY <1>1, TiedVariables
<1> QED
  BY <1>1, <1>2, TiedVariables, ManagerInforms

LEMMA ManagerDropsInforms ==
    ASSUME IInv, RoutesInv, NEW n \in Node, ManagerDrops(n)
    PROVE  RoutesInv'
<1> DEFINE c == center[n]
<1> USE TiedVariables
<1>1. /\ c # None /\ center' = [center EXCEPT ![n] = None]
      /\ toNode' = [toNode EXCEPT ![c] = <<>>]
      /\ stage' = [stage EXCEPT ![c] = IF @ = "connecting" THEN "dead" ELSE @]
      /\ UNCHANGED <<nodeInfo, shell, identify, owner, routes>>
  BY DEF ManagerDrops
<1>2. PICK i \in 0 .. Len(toCenter[c]) :
        toCenter' = [toCenter EXCEPT ![c] =
                        IF stage[c] = "connecting" THEN <<>> ELSE SubSeq(@, 1, i)]
  BY DEF ManagerDrops
<1>3. c \in Conn /\ stage[c] # "unused"
  BY <1>1
<1>4. \A k \in Node : k # n /\ center[k] # None => center[k] # c
  <2>1. owner[c] = n
    BY <1>1
  <2> QED
    BY <2>1
<1> HIDE DEF c
<1>5. /\ \A d \in Conn : d # c => toCenter'[d] = toCenter[d] /\ toNode'[d] = toNode[d]
      /\ \A d \in Conn : stage'[d] = stage[d] \/ (stage[d] = "connecting" /\ stage'[d] = "dead")
      /\ \A k \in Node : center'[k] = IF k = n THEN None ELSE center[k]
  BY <1>1, <1>2, <1>3
<1>6. \A k \in Node : center'[k] \in {center[k], None}
  BY <1>5
<1>7. ASSUME NEW k \in Node, center'[k] # None
      PROVE  /\ TellRegisters(toCenter[center[k]])
             /\ toCenter'[center[k]] = toCenter[center[k]]
             /\ toNode'[center[k]] = toNode[center[k]]
  <2>1. center[k] # None /\ center[k] # c /\ center[k] \in Conn
    BY <1>4, <1>5, <1>7
  <2> QED
    BY <1>5, <2>1
<1>8. \A d \in Conn : stage[d] = "unused" => toCenter'[d] = <<>>
  BY <1>3, <1>5
<1>9. \A d \in Conn : stage'[d] = stage[d] \/ (stage[d] = "connecting" /\ stage'[d] # "unused")
  BY <1>5
<1> QED
  BY <1>1, <1>6, <1>7, <1>8, <1>9, ManagerInforms

LEMMA InitInforms == Init => RoutesInv
<1> SUFFICES ASSUME Init PROVE RoutesInv
  OBVIOUS
<1>1. /\ \A n \in Node : center[n] = None
      /\ \A c \in Conn : identify[c] = None /\ owner[c] = None /\ toCenter[c] = <<>>
  BY DEF Init
<1> QED
  BY <1>1 DEF RoutesInv, Tied, AllInformed, Attached, Center

LEMMA NextInforms ==
    ASSUME "db" \notin Faults
    PROVE  IInv /\ RoutesInv /\ [Next]_vars => RoutesInv'
<1> SUFFICES ASSUME IInv, RoutesInv, [Next]_vars PROVE RoutesInv'
  OBVIOUS
<1>1. ASSUME NEW c \in Conn, CenterTransfer(c) PROVE RoutesInv'
  BY <1>1, CenterTransferInforms
<1>2. ASSUME NEW c \in Conn, CenterRefuses(c) PROVE RoutesInv'
  BY <1>2, CenterRefusesInforms
<1>3. ASSUME NEW c \in Conn, CenterRead(c) PROVE RoutesInv'
  BY <1>3, RecvTellInforms, RecvRegisterInforms, RecvReportInforms, DestroyInforms
     DEF CenterRead
<1>4. ASSUME NEW c \in Conn, CenterDrops(c) PROVE RoutesInv'
  BY <1>4, DestroyInforms
<1>5. CASE CenterRestart
  BY <1>5, CenterRestartInforms
<1>6. ASSUME NEW n \in Node, NEW c \in Conn, Connect(n, c) PROVE RoutesInv'
  BY <1>6, ConnectInforms
<1>7. ASSUME NEW n \in Node, Report(n) PROVE RoutesInv'
  BY <1>7, ReportInforms
<1>8. ASSUME NEW n \in Node, RestartWorker(n) PROVE RoutesInv'
  BY <1>8, RestartWorkerInforms
<1>9. ASSUME NEW c \in Conn, IoWrite(c) PROVE RoutesInv'
  BY <1>9, IoWriteInforms
<1>10. ASSUME NEW n \in Node, DisposeDataFromCenter(n) PROVE RoutesInv'
  BY <1>10, DisposeDataFromCenterInforms
<1>11. ASSUME NEW n \in Node, ManagerEof(n) PROVE RoutesInv'
  BY <1>11, ManagerEofInforms
<1>12. ASSUME NEW n \in Node, ManagerDrops(n) PROVE RoutesInv'
  BY <1>12, ManagerDropsInforms
<1>13. CASE UNCHANGED vars
  <2>1. /\ UNCHANGED <<nodeInfo, shell, identify, owner>>
        /\ UNCHANGED <<stage, toCenter, toNode, center, routes>>
    BY <1>13 DEF vars
  <2>2. \A n \in Node : center'[n] \in {center[n], None}
    BY <2>1
  <2> QED
    BY <2>1, <2>2, TiedVariables, ManagerInforms
<1> QED
  BY <1>1, <1>2, <1>3, <1>4, <1>5, <1>6, <1>7, <1>8, <1>9, <1>10, <1>11, <1>12, <1>13
     DEF Next

\* Attached nodes are settled ones whose connection is mapped.
LEMMA InformedKnows ==
    ASSUME NEW n \in Node, RoutesInv, Settled(n), shell[n] = center[n]
    PROVE  Knows(n)
<1>1. Attached(Center, center, n)
  BY SMTT(30) DEF Settled, Pending, Attached, Center, HasRegister
<1>2. Informed(Center, center, routes, n)
  BY <1>1 DEF RoutesInv, AllInformed
<1> SUFFICES ASSUME NEW m \in Needs[n], nodeInfo[m] # 0
             PROVE  IF About(n, m) = {} THEN m \in routes[n]
                    ELSE \E i \in About(n, m) :
                            /\ toNode[center[n]][i].kind = "reg"
                            /\ \A j \in About(n, m) : j <= i
  BY DEF Knows
<1> DEFINE q == toNode[center[n]]
<1>3. Learns(q, m, m \in routes[n])
  BY <1>2 DEF Informed, Center
<1>4. About(n, m) = {i \in DOMAIN q : Informs(q[i], m)}
  BY DEF About, Informs
<1> HIDE DEF q
<1>5. CASE m \in routes[n] /\ \A i \in DOMAIN q : ~Informs(q[i], m)
  BY <1>4, <1>5
<1>6. CASE \E i \in DOMAIN q : /\ q[i].kind = "reg" /\ m \in q[i].nodes
                               /\ \A j \in DOMAIN q : Informs(q[j], m) => j <= i
  <2>1. PICK i \in DOMAIN q : /\ q[i].kind = "reg" /\ m \in q[i].nodes
                              /\ \A j \in DOMAIN q : Informs(q[j], m) => j <= i
    BY <1>6
  <2>2. i \in About(n, m) /\ \A j \in About(n, m) : j <= i
    BY <1>4, <2>1 DEF Informs
  <2> QED
    BY <2>1, <2>2 DEF q
<1> QED
  BY <1>3, <1>5, <1>6 DEF Learns

\* While the database writes what it is given, a registered node whose
\* connection is the one the Center has mapped has been told of every
\* registered node it needs, or is about to be, whatever connections break and
\* processes restart (NodeRegMgr.cpp:244, 302).
THEOREM RoutesAreCovered == "db" \notin Faults => (Spec => []RoutesCover)
<1>1. RoutesInv => RoutesCover
  BY InformedKnows DEF RoutesCover
<1> SUFFICES ASSUME "db" \notin Faults PROVE Spec => []RoutesCover
  OBVIOUS
<1>2. IInv /\ RoutesInv /\ [Next]_vars => RoutesInv'
  BY NextInforms
<1> QED
  BY <1>1, <1>2, InitInforms, RegistryInvariant, PTL DEF Spec

-----------------------------------------------------------------------------
(* The registry is the directory.  The handlers of the Center work on      *)
(* records, and the directory's contact and news are functions of such a   *)
(* record and of the Managers' connections: what a handler does to them is *)
(* stated for each, from SendToNodes up, and then read off for the step.   *)

\* The nodes in contact and what is under way to each, of the Center's record s.
InTouch(s) == {n \in Node : s.shell[n] # None /\ s.shell[n] = center[n]}

Hears(s) == [n \in Node |-> IF center[n] = None THEN <<>> ELSE Notices(s.toNode[center[n]])]

\* The answer to the handshake comes first.
HelloFirst(q) == \A i \in DOMAIN q : q[i].kind = "connect" => i = 1

\* A Manager's connection is its own and was opened; a connection is
\* identified by its owner, or it is one of AutoSend's and has none; the node
\* a connection is mapped to is the one it is identified by; and nothing is sent
\* on a connection before the answer to the handshake.
Linked(s) ==
    /\ \A n \in Node : center[n] # None =>
          owner[center[n]] = n /\ s.stage[center[n]] # "unused"
    /\ \A c \in Conn : s.identify[c] # None =>
          \/ s.stage[c] = "open" /\ s.identify[c] = owner[c]
          \/ s.stage[c] = "auto" /\ owner[c] = None
    /\ \A c \in Conn : s.stage[c] = "unused" => owner[c] = None
    /\ \A n \in Node : s.shell[n] # None => s.identify[s.shell[n]] = n
    /\ \A c \in Conn : s.stage[c] \in {"unused", "connecting", "manager"} => s.toNode[c] = <<>>
    /\ \A c \in Conn : HelloFirst(s.toNode[c])

\* The nodes of dests in contact are told m.
Told(s, dests, m) ==
    [k \in Node |-> IF k \in dests /\ k \in InTouch(s) THEN Hears(s)[k] \o <<m>> ELSE Hears(s)[k]]

\* n is told ms, or cannot be reached.
Answered(s, t, n, ms) ==
    \E answer \in {<<>>, ms} : Hears(t) = [Hears(s) EXCEPT ![n] = @ \o answer]

\* n is answered, and the nodes in contact that need it are told told.
Spreads(s, n, answer, told) ==
    [k \in Node |->
        IF k = n THEN Hears(s)[k] \o answer
        ELSE IF k \in InTouch(s) /\ s.nodeInfo[k] # 0 /\ n \in Needs[k] THEN Hears(s)[k] \o told
        ELSE Hears(s)[k]]

\* n is in contact no more and, if it was registered, leaves.
Leaves(s, t, n, recorded) ==
    /\ Linked(t)
    /\ InTouch(t) = InTouch(s) \ {n}
    /\ IF s.nodeInfo[n] = 0 THEN t.nodeInfo = s.nodeInfo /\ Hears(t) = Hears(s)
       ELSE /\ t.nodeInfo = [s.nodeInfo EXCEPT ![n] = 0]
            /\ \E told \in {<<Exit(n)>>} \cup (IF recorded THEN {} ELSE {<<>>}) :
                 Hears(t) = Spreads(s, n, <<>>, told)

\* n is registered under an identifier, and answered if it listens.
Enters(s, t, n) ==
    /\ Linked(t)
    /\ InTouch(t) = InTouch(s)
    /\ \E id \in Directory!Identifiers(n) :
        /\ t.nodeInfo = [s.nodeInfo EXCEPT ![n] = id]
        /\ \E answer \in {<<>>, <<Registered(id), Reg(Needed(s, n))>>} :
             Hears(t) = Spreads(s, n, answer, <<Reg({n})>>)

\* Notices that are sent go behind those under way.
LEMMA NoticesJoined ==
    ASSUME NEW q \in Seq(Message), NEW ms \in Seq(Message), ms # <<>>,
           HelloFirst(q), \A i \in DOMAIN ms : ms[i].kind # "connect"
    PROVE  Notices(q \o ms) = Notices(q) \o ms /\ HelloFirst(q \o ms)
<1>1. /\ Len(q) \in Nat /\ Len(ms) \in Nat /\ q \o ms \in Seq(Message)
      /\ DOMAIN q = 1 .. Len(q) /\ DOMAIN ms = 1 .. Len(ms)
      /\ DOMAIN (q \o ms) = 1 .. Len(q) + Len(ms)
      /\ \A i \in 1 .. Len(q) + Len(ms) :
            (q \o ms)[i] = IF i <= Len(q) THEN q[i] ELSE ms[i - Len(q)]
  BY ConcatProperties, LenProperties
<1>2. HelloFirst(q \o ms)
  <2> SUFFICES ASSUME NEW i \in 1 .. Len(q) + Len(ms), (q \o ms)[i].kind = "connect"
               PROVE  i = 1
    BY <1>1 DEF HelloFirst
  <2>1. CASE i <= Len(q)
    <3>1. i \in DOMAIN q /\ q[i].kind = "connect"
      BY <1>1, <2>1
    <3> QED BY <3>1 DEF HelloFirst
  <2>2. CASE ~(i <= Len(q))
    <3>1. i - Len(q) \in DOMAIN ms /\ ms[i - Len(q)].kind = "connect"
      BY <1>1, <2>2
    <3> QED BY <3>1
  <2> QED BY <2>1, <2>2
<1>3. CASE q = <<>>
  <2>1. q \o ms = ms /\ <<>> \o ms = ms
    BY <1>3, ConcatEmptySeq
  <2>2. Head(ms) = ms[1] /\ 1 \in DOMAIN ms
    BY <1>1, EmptySeq
  <2>3. Notices(q) = <<>>
    BY <1>3 DEF Notices
  <2>4. Notices(ms) = ms
    BY <2>2 DEF Notices
  <2> QED BY <1>2, <2>1, <2>3, <2>4
<1>4. CASE q # <<>>
  <2>1. q \o ms # <<>>
    BY <1>4, ConcatEqualIffEmpty
  <2>2. Head(q \o ms) = Head(q)
    <3>1. Len(q) > 0
      BY <1>1, <1>4, EmptySeq
    <3>2. Head(q \o ms) = (q \o ms)[1] /\ Head(q) = q[1]
      BY <1>1, <3>1
    <3> QED BY <1>1, <3>1, <3>2
  <2>3. Tail(q \o ms) = Tail(q) \o ms
    BY <1>1, <1>4
  <2> QED BY <1>2, <1>4, <2>1, <2>2, <2>3 DEF Notices
<1> QED BY <1>3, <1>4

LEMMA NoticesTyped ==
    ASSUME NEW q \in Seq(Message)
    PROVE  Notices(q) \in Seq(Message)
BY DEF Notices

LEMMA HearsTyped ==
    ASSUME NEW s \in CenterState, ManagersTyped
    PROVE  Hears(s) \in [Node -> Seq(Message)]
<1>1. \A n \in Node : center[n] # None => s.toNode[center[n]] \in Seq(Message)
  BY DEF CenterState, ManagersTyped
<1>2. <<>> \in Seq(Message)
  OBVIOUS
<1> QED BY <1>1, <1>2, NoticesTyped DEF Hears

\* The connection of a node in contact is open and the node's.
LEMMA TouchIsOpen ==
    ASSUME NEW s \in CenterState, ManagersTyped, Linked(s), NEW n \in InTouch(s)
    PROVE  /\ center[n] \in Conn /\ center[n] # None /\ owner[center[n]] = n
           /\ s.shell[n] = center[n] /\ s.identify[center[n]] = n
           /\ s.stage[center[n]] = "open" /\ Listens(center[n])
<1>1. n \in Node /\ s.shell[n] # None /\ s.shell[n] = center[n] /\ n # None
  BY NodeAssumption DEF InTouch
<1>2. center[n] \in Conn /\ owner[center[n]] = n /\ s.identify[center[n]] = n
  BY <1>1 DEF ManagersTyped, Linked
<1>3. s.stage[center[n]] = "open"
  BY <1>1, <1>2 DEF Linked
<1> QED BY <1>1, <1>2, <1>3 DEF Listens

\* A connection that is open and listened to is mapped to its owner only.
LEMMA OpenIsTouch ==
    ASSUME NEW s \in CenterState, ManagersTyped, Linked(s), NEW c \in Conn,
           s.stage[c] = "open", Listens(c), NEW n \in Node, s.shell[n] = c
    PROVE  owner[c] = n /\ center[n] = c /\ n \in InTouch(s)
<1>1. c # None /\ n # None
  BY NodeAssumption
<1>2. s.identify[c] = n
  BY <1>1 DEF Linked
<1>3. owner[c] = n
  BY <1>1, <1>2 DEF Linked
<1> QED BY <1>1, <1>3 DEF Listens, InTouch

\* A notice reaches the nodes of dests that are in contact, and nobody else.
LEMMA SendToNodesTells ==
    ASSUME NEW s \in CenterState, ManagersTyped, Linked(s), NEW dests \in SUBSET Node,
           NEW m \in Message, m.kind # "connect", NEW auto \in AutoConns
    PROVE  LET t == SendToNodes(s, dests, m, auto)
           IN /\ t \in CenterState
              /\ Linked(t)
              /\ InTouch(t) = InTouch(s)
              /\ t.nodeInfo = s.nodeInfo
              /\ Hears(t) = Told(s, dests, m)
              /\ \A c \in Conn : s.stage[c] = "open" => t.stage[c] = "open"
<1> DEFINE mapped == {n \in dests : s.shell[n] # None}
           opened == {n \in dests \ mapped : auto[n] # None /\ s.stage[auto[n]] = "unused"}
           Opens(n, c) == n \in opened /\ auto[n] = c
           sh == [n \in Node |-> IF n \in opened THEN auto[n] ELSE s.shell[n]]
           id == [c \in Conn |->
                    IF \E n \in Node : Opens(n, c) THEN CHOOSE n \in Node : Opens(n, c)
                    ELSE s.identify[c]]
           st == [c \in Conn |-> IF \E n \in Node : Opens(n, c) THEN "auto" ELSE s.stage[c]]
           tn == [c \in Conn |->
                    IF s.stage[c] = "open" /\ Listens(c) /\ \E n \in mapped : s.shell[n] = c
                    THEN Append(s.toNode[c], m) ELSE s.toNode[c]]
           t == [s EXCEPT !.shell = sh, !.identify = id, !.stage = st, !.toNode = tn]
<1>1. SendToNodes(s, dests, m, auto) = t
  BY DEF SendToNodes
<1>2. /\ auto \in Autos
      /\ \A j, n \in Node : j # n /\ auto[j] = auto[n] => auto[j] = None
  BY AutoConnsTyped DEF AutoConns
<1>3. t \in CenterState /\ t.nodeInfo = s.nodeInfo
  <2> HIDE DEF t
  <2> QED BY <1>1, <1>2, SendToNodesKeeps
<1>4. /\ t.shell = sh /\ t.identify = id /\ t.stage = st /\ t.toNode = tn
  BY DEF CenterState
<1>5. /\ \A n \in opened : n \in Node /\ auto[n] \in Conn /\ s.stage[auto[n]] = "unused"
                           /\ s.shell[n] = None /\ sh[n] = auto[n]
      /\ \A n \in Node : n \notin opened => sh[n] = s.shell[n]
  BY <1>2 DEF Autos
<1>6. \A n \in opened : id[auto[n]] = n /\ st[auto[n]] = "auto"
  <2> SUFFICES ASSUME NEW n \in opened PROVE id[auto[n]] = n /\ st[auto[n]] = "auto"
    OBVIOUS
  <2>1. n \in Node /\ auto[n] \in Conn /\ Opens(n, auto[n]) /\ auto[n] # None
    BY <1>5
  <2>2. \A k \in Node : Opens(k, auto[n]) => k = n
    BY <1>2, <2>1
  <2> HIDE DEF Opens
  <2> QED BY <2>1, <2>2
<1>7. \A c \in Conn : \/ id[c] = s.identify[c] /\ st[c] = s.stage[c]
                      \/ st[c] = "auto" /\ s.stage[c] = "unused"
  OBVIOUS
<1>8. \A c \in Conn :
         tn[c] = IF s.stage[c] = "open" /\ Listens(c) /\ \E n \in mapped : s.shell[n] = c
                 THEN s.toNode[c] \o <<m>> ELSE s.toNode[c]
  <2>1. \A c \in Conn : s.toNode[c] \in Seq(Message)
    BY DEF CenterState
  <2>2. \A c \in Conn : Append(s.toNode[c], m) = s.toNode[c] \o <<m>>
    BY <2>1, AppendIsConcat
  <2> QED BY <2>2
<1>9. \A c \in Conn : HelloFirst(s.toNode[c] \o <<m>>)
                      /\ Notices(s.toNode[c] \o <<m>>) = Notices(s.toNode[c]) \o <<m>>
  <2> SUFFICES ASSUME NEW c \in Conn
               PROVE  HelloFirst(s.toNode[c] \o <<m>>)
                      /\ Notices(s.toNode[c] \o <<m>>) = Notices(s.toNode[c]) \o <<m>>
    OBVIOUS
  <2>1. s.toNode[c] \in Seq(Message) /\ HelloFirst(s.toNode[c])
    BY DEF CenterState, Linked
  <2>2. <<m>> \in Seq(Message) /\ <<m>> # <<>> /\ \A i \in DOMAIN <<m>> : <<m>>[i].kind # "connect"
    OBVIOUS
  <2> QED BY <2>1, <2>2, NoticesJoined
<1>10. \A n \in dests : n \in Node
  OBVIOUS
<1>11. \A k \in Node : center[k] # None =>
          (\/ s.stage[center[k]] = "open" /\ Listens(center[k])
              /\ \E n \in mapped : s.shell[n] = center[k])
          <=> k \in dests /\ k \in InTouch(s)
  <2> SUFFICES ASSUME NEW k \in Node, center[k] # None
               PROVE  (/\ s.stage[center[k]] = "open" /\ Listens(center[k])
                       /\ \E n \in mapped : s.shell[n] = center[k])
                      <=> k \in dests /\ k \in InTouch(s)
    OBVIOUS
  <2>1. center[k] \in Conn /\ owner[center[k]] = k
    BY DEF ManagersTyped, Linked
  <2>2. ASSUME s.stage[center[k]] = "open", Listens(center[k]),
               NEW n \in mapped, s.shell[n] = center[k]
        PROVE  k \in dests /\ k \in InTouch(s)
    <3>1. n \in Node /\ n \in dests
      OBVIOUS
    <3> HIDE DEF mapped
    <3>2. owner[center[k]] = n /\ n \in InTouch(s)
      BY <2>1, <2>2, <3>1, OpenIsTouch
    <3> QED BY <2>1, <3>1, <3>2
  <2>3. ASSUME k \in dests, k \in InTouch(s)
        PROVE  /\ s.stage[center[k]] = "open" /\ Listens(center[k])
               /\ \E n \in mapped : s.shell[n] = center[k]
    <3>1. s.stage[center[k]] = "open" /\ Listens(center[k]) /\ s.shell[k] = center[k]
      BY <2>3, TouchIsOpen
    <3>2. k \in mapped
      BY <2>3, <3>1
    <3> QED BY <3>1, <3>2
  <2> QED BY <2>2, <2>3
<1> HIDE DEF sh, id, st, tn, t, opened, mapped, Opens
<1>12. \A n \in Node : center[n] # None =>
          center[n] \in Conn /\ owner[center[n]] = n /\ s.stage[center[n]] # "unused"
  BY DEF ManagersTyped, Linked
<1>13. InTouch(t) = InTouch(s)
  <2> SUFFICES ASSUME NEW n \in Node PROVE n \in InTouch(t) <=> n \in InTouch(s)
    BY DEF InTouch
  <2>1. CASE n \in opened
    <3>1. sh[n] # center[n] /\ s.shell[n] = None
      BY <1>5, <1>12, <2>1, NodeAssumption
    <3> QED BY <1>4, <3>1 DEF InTouch
  <2>2. CASE n \notin opened
    BY <1>4, <1>5, <2>2 DEF InTouch
  <2> QED BY <2>1, <2>2
<1>14. Linked(t)
  <2>1. \A n \in Node : center[n] # None =>
          owner[center[n]] = n /\ t.stage[center[n]] # "unused"
    BY <1>4, <1>7, <1>12
  <2>2. ASSUME NEW c \in Conn
        PROVE  /\ t.identify[c] # None =>
                    \/ t.stage[c] = "open" /\ t.identify[c] = owner[c]
                    \/ t.stage[c] = "auto" /\ owner[c] = None
               /\ t.stage[c] = "unused" => owner[c] = None
    <3>1. CASE id[c] = s.identify[c] /\ st[c] = s.stage[c]
      BY <1>4, <3>1 DEF Linked
    <3>2. CASE st[c] = "auto" /\ s.stage[c] = "unused"
      BY <1>4, <3>2 DEF Linked
    <3> QED BY <1>7, <3>1, <3>2
  <2>3. ASSUME NEW n \in Node, t.shell[n] # None PROVE t.identify[t.shell[n]] = n
    <3>1. CASE n \in opened
      BY <1>4, <1>5, <1>6, <3>1
    <3>2. CASE n \notin opened
      <4> DEFINE c == s.shell[n]
      <4>1. t.shell[n] = c /\ c \in Conn /\ c # None
        BY <1>4, <1>5, <2>3, <3>2 DEF CenterState
      <4>2. s.identify[c] = n /\ n # None
        BY <4>1, NodeAssumption DEF Linked
      <4>3. s.stage[c] # "unused"
        BY <4>1, <4>2 DEF Linked
      <4> QED BY <1>4, <1>7, <4>1, <4>2, <4>3
    <3> QED BY <3>1, <3>2
  <2>4. ASSUME NEW c \in Conn, t.stage[c] \in {"unused", "connecting", "manager"}
        PROVE  t.toNode[c] = <<>>
    <3>1. st[c] = s.stage[c] /\ s.stage[c] # "open"
      BY <1>4, <1>7, <2>4
    <3>2. t.toNode[c] = s.toNode[c]
      BY <1>4, <1>8, <3>1
    <3> QED BY <1>4, <2>4, <3>1, <3>2 DEF Linked
  <2>5. \A c \in Conn : HelloFirst(t.toNode[c])
    BY <1>4, <1>8, <1>9 DEF Linked
  <2> QED BY <2>1, <2>2, <2>3, <2>4, <2>5 DEF Linked
<1>15. Hears(t) = Told(s, dests, m)
  <2>1. ASSUME NEW k \in Node
        PROVE  Hears(t)[k] = IF k \in dests /\ k \in InTouch(s)
                             THEN Hears(s)[k] \o <<m>> ELSE Hears(s)[k]
    <3>1. CASE center[k] = None
      BY <3>1 DEF Hears, InTouch
    <3>2. CASE center[k] # None
      <4>1. center[k] \in Conn /\ Hears(t)[k] = Notices(tn[center[k]])
            /\ Hears(s)[k] = Notices(s.toNode[center[k]])
        BY <1>4, <1>12, <3>2 DEF Hears
      <4>2. tn[center[k]] = IF k \in dests /\ k \in InTouch(s)
                            THEN s.toNode[center[k]] \o <<m>> ELSE s.toNode[center[k]]
        BY <1>8, <1>11, <3>2, <4>1
      <4> QED BY <1>9, <4>1, <4>2
    <3> QED BY <3>1, <3>2
  <2> QED BY <2>1 DEF Hears, Told
<1>16. \A c \in Conn : s.stage[c] = "open" => t.stage[c] = "open"
  BY <1>4, <1>7
<1> QED BY <1>1, <1>3, <1>13, <1>14, <1>15, <1>16

\* A node that is not mapped leaves, if it is registered.
LEMMA DelNodeLeaves ==
    ASSUME NEW s \in CenterState, ManagersTyped, Linked(s), NEW n \in Node,
           s.shell[n] = None, NEW recorded \in BOOLEAN, NEW auto \in AutoConns
    PROVE  Leaves(s, DelNode(s, n, recorded, auto), n, recorded)
<1>0. n # None /\ n \notin InTouch(s)
  BY NodeAssumption DEF InTouch
<1>1. CASE s.nodeInfo[n] = 0
  BY <1>0, <1>1 DEF DelNode, Leaves
<1>2. CASE s.nodeInfo[n] # 0
  <2> DEFINE t == [s EXCEPT !.nodeInfo[n] = 0]
             u == [t EXCEPT !.row = Offline(@, s.nodeInfo[n])]
             D == Needers(t, n)
             v == SendToNodes(u, D, Exit(n), auto)
  <2>1. DelNode(s, n, recorded, auto) = IF ~recorded THEN t ELSE v
    BY <1>0, <1>2 DEF DelNode
  <2>2. /\ t \in CenterState /\ t.nodeInfo = [s.nodeInfo EXCEPT ![n] = 0]
        /\ t.shell = s.shell /\ t.identify = s.identify /\ t.stage = s.stage
        /\ t.toNode = s.toNode /\ t.row = s.row
    BY DEF CenterState
  <2>3. Offline(t.row, s.nodeInfo[n]) \in [Node -> [id : Nat, online : BOOLEAN]]
    <3>1. \A k \in Node : [s.row[k] EXCEPT !.online = FALSE] \in [id : Nat, online : BOOLEAN]
      BY DEF CenterState
    <3>2. s.row \in [Node -> [id : Nat, online : BOOLEAN]]
      BY DEF CenterState
    <3> HIDE DEF t
    <3> QED BY <2>2, <3>1, <3>2 DEF Offline
  <2>4. /\ u \in CenterState /\ u.nodeInfo = t.nodeInfo
        /\ u.shell = s.shell /\ u.identify = s.identify /\ u.stage = s.stage
        /\ u.toNode = s.toNode
    <3> HIDE DEF t
    <3> QED BY <2>2, <2>3 DEF CenterState
  <2>5. D \in SUBSET Node
        /\ \A k \in Node : k \in D <=> s.nodeInfo[k] # 0 /\ n \in Needs[k]
    <3>1. s.nodeInfo \in [Node -> Nat]
      BY DEF CenterState
    <3>2. n \notin Needs[n]
      BY NeedsAssumption
    <3> HIDE DEF t
    <3> QED BY <2>2, <3>1, <3>2 DEF Needers
  <2> HIDE DEF t, u, D
  <2>6. /\ Linked(t) /\ InTouch(t) = InTouch(s) /\ Hears(t) = Hears(s)
        /\ Linked(u) /\ InTouch(u) = InTouch(s) /\ Hears(u) = Hears(s)
    BY <2>2, <2>4 DEF Linked, InTouch, Hears
  <2>7. Exit(n) \in Message /\ Exit(n).kind # "connect"
    BY Messages DEF Exit
  <2>8. /\ Linked(v) /\ InTouch(v) = InTouch(u) /\ v.nodeInfo = u.nodeInfo
        /\ Hears(v) = Told(u, D, Exit(n))
    BY <2>4, <2>5, <2>6, <2>7, SendToNodesTells
  <2> HIDE DEF v
  <2>9. InTouch(s) \ {n} = InTouch(s)
    BY <1>0
  <2>10. \A k \in Node : Hears(s)[k] \in Seq(Message) /\ Hears(s)[k] \o <<>> = Hears(s)[k]
    BY HearsTyped, ConcatEmptySeq
  <2>11. CASE ~recorded
    <3>1. Hears(t) = Spreads(s, n, <<>>, <<>>)
      <4>1. Hears(s) = Spreads(s, n, <<>>, <<>>)
        BY <2>10 DEF Spreads, Hears
      <4> QED BY <2>6, <4>1
    <3> QED BY <1>2, <2>1, <2>2, <2>6, <2>9, <2>11, <3>1 DEF Leaves
  <2>12. CASE recorded
    <3>1. Hears(v) = Spreads(s, n, <<>>, <<Exit(n)>>)
      BY <1>0, <2>5, <2>6, <2>8, <2>10 DEF Spreads, Told
    <3>2. v.nodeInfo = [s.nodeInfo EXCEPT ![n] = 0] /\ InTouch(v) = InTouch(s) \ {n}
      BY <2>2, <2>4, <2>6, <2>8, <2>9
    <3> QED BY <1>2, <2>1, <2>8, <2>12, <3>1, <3>2 DEF Leaves
  <2> QED BY <2>11, <2>12
<1> QED BY <1>1, <1>2

\* A connection is destroyed: the node it is identified by, if any, is in
\* contact no more and leaves.
LEMMA DestroyConnectLeaves ==
    ASSUME NEW s \in CenterState, ManagersTyped, Linked(s), NEW c \in Conn,
           NEW recorded \in BOOLEAN, NEW auto \in AutoConns,
           s.stage[c] # "unused"
    PROVE  LET t == DestroyConnect(s, c, recorded, auto)
           IN IF s.identify[c] = None
              THEN Linked(t) /\ InTouch(t) = InTouch(s) /\ Hears(t) = Hears(s)
                   /\ t.nodeInfo = s.nodeInfo
              ELSE s.identify[c] \in Node /\ Leaves(s, t, s.identify[c], recorded)
<1> DEFINE n == s.identify[c]
           t == [s EXCEPT !.stage[c] = "dead", !.identify[c] = None, !.toCenter[c] = <<>>]
           u == [t EXCEPT !.shell[n] = None]
<1>0. n \in Node \cup {None}
  BY DEF CenterState
<1>1. /\ t \in CenterState /\ t.nodeInfo = s.nodeInfo /\ t.shell = s.shell
      /\ t.toNode = s.toNode
      /\ t.stage = [s.stage EXCEPT ![c] = "dead"]
      /\ t.identify = [s.identify EXCEPT ![c] = None]
  <2>1. <<>> \in Seq(Request) /\ "dead" \in Stage
    BY DEF Stage
  <2> QED BY <2>1 DEF CenterState
<1>2. \A k \in Node : s.shell[k] # None => s.shell[k] \in Conn /\ s.identify[s.shell[k]] = k
  BY DEF Linked, CenterState
<1>3. s.stage \in [Conn -> Stage] /\ s.identify \in [Conn -> Node \cup {None}]
      /\ s.shell \in [Node -> Conn \cup {None}]
  BY DEF CenterState
<1>4. ASSUME NEW w, w.stage = t.stage, w.identify = t.identify, w.toNode = s.toNode,
             \A k \in Node : w.shell[k] # None => w.shell[k] = s.shell[k] /\ k # n
      PROVE  Linked(w)
  <2>1. \A k \in Node : center[k] # None =>
          owner[center[k]] = k /\ w.stage[center[k]] # "unused"
    BY <1>1, <1>3, <1>4 DEF Linked, ManagersTyped
  <2>2. \A d \in Conn : w.identify[d] # None =>
          \/ w.stage[d] = "open" /\ w.identify[d] = owner[d]
          \/ w.stage[d] = "auto" /\ owner[d] = None
    BY <1>1, <1>3, <1>4 DEF Linked
  <2>3. \A d \in Conn : w.stage[d] = "unused" => owner[d] = None
    BY <1>1, <1>3, <1>4 DEF Linked
  <2>4. \A k \in Node : w.shell[k] # None => w.identify[w.shell[k]] = k
    BY <1>1, <1>2, <1>3, <1>4
  <2>5. \A d \in Conn : w.stage[d] \in {"unused", "connecting", "manager"} => w.toNode[d] = <<>>
    BY <1>1, <1>3, <1>4 DEF Linked
  <2>6. \A d \in Conn : HelloFirst(w.toNode[d])
    BY <1>4 DEF Linked
  <2> QED BY <2>1, <2>2, <2>3, <2>4, <2>5, <2>6 DEF Linked
<1>5. CASE n = None
  <2>1. DestroyConnect(s, c, recorded, auto) = t
    BY <1>5 DEF DestroyConnect
  <2>2. Linked(t)
    <3>1. \A k \in Node : t.shell[k] # None => t.shell[k] = s.shell[k] /\ k # n
      BY <1>1, <1>5, NodeAssumption
    <3> HIDE DEF t
    <3> QED BY <1>1, <1>4, <3>1
  <2>3. InTouch(t) = InTouch(s) /\ Hears(t) = Hears(s)
    <3> HIDE DEF t
    <3> QED BY <1>1 DEF InTouch, Hears
  <2> QED BY <1>1, <1>5, <2>1, <2>2, <2>3
<1>6. CASE n # None
  <2>0. n \in Node
    BY <1>0, <1>6
  <2>1. /\ u \in CenterState /\ u.nodeInfo = s.nodeInfo /\ u.toNode = s.toNode
        /\ u.stage = t.stage /\ u.identify = t.identify
        /\ u.shell = [s.shell EXCEPT ![n] = None]
    <3> HIDE DEF t, n
    <3> QED BY <1>1, <2>0 DEF CenterState
  <2>2. DestroyConnect(s, c, recorded, auto) = DelNode(u, n, recorded, auto)
    BY <1>6 DEF DestroyConnect
  <2> HIDE DEF t, u, n
  <2>3. Linked(u)
    <3>1. \A k \in Node : u.shell[k] # None => u.shell[k] = s.shell[k] /\ k # n
      BY <1>3, <2>0, <2>1
    <3> QED BY <1>4, <2>1, <3>1
  <2>4. u.shell[n] = None
    BY <1>3, <2>0, <2>1
  <2>5. InTouch(u) = InTouch(s) \ {n} /\ Hears(u) = Hears(s)
    BY <1>3, <2>0, <2>1 DEF InTouch, Hears
  <2> DEFINE v == DelNode(u, n, recorded, auto)
  <2>6. Leaves(u, v, n, recorded)
    BY <2>0, <2>1, <2>3, <2>4, DelNodeLeaves
  <2>7. \A told : Spreads(u, n, <<>>, told) = Spreads(s, n, <<>>, told)
    BY <2>1, <2>5 DEF Spreads
  <2> HIDE DEF v
  <2>8. Leaves(s, v, n, recorded)
    BY <2>1, <2>5, <2>6, <2>7 DEF Leaves
  <2> QED BY <1>6, <2>0, <2>2, <2>8 DEF n, v
<1> QED BY <1>5, <1>6

\* A node that leaves ends no connection.
LEMMA DelNodeOthers ==
    ASSUME NEW s \in CenterState, NEW n \in Node, NEW recorded \in BOOLEAN, NEW auto \in Autos,
           NEW c \in Conn, s.stage[c] = "open"
    PROVE  LET t == DelNode(s, n, recorded, auto)
           IN t \in CenterState /\ t.stage[c] = "open"
<1> DEFINE t == [s EXCEPT !.nodeInfo[n] = 0]
           off == Offline(t.row, s.nodeInfo[n])
           u == [t EXCEPT !.row = off]
           D == Needers(t, n)
           v == SendToNodes(u, D, Exit(n), auto)
<1>1. DelNode(s, n, recorded, auto) \in {s, t, v}
  BY DEF DelNode
<1>2. t \in CenterState /\ t.stage = s.stage
  BY DEF CenterState
<1>3. off \in [Node -> [id : Nat, online : BOOLEAN]]
  <2>1. t.row \in [Node -> [id : Nat, online : BOOLEAN]]
    BY <1>2 DEF CenterState
  <2>2. \A k \in Node : [t.row[k] EXCEPT !.online = FALSE] \in [id : Nat, online : BOOLEAN]
    BY <2>1
  <2> HIDE DEF t
  <2> QED BY <2>1, <2>2 DEF Offline
<1> HIDE DEF t, off
<1>4. u \in CenterState /\ u.stage = s.stage
  BY <1>2, <1>3 DEF CenterState
<1>5. v \in CenterState /\ v.stage[c] = "open"
  <2> HIDE DEF u, D
  <2>1. v \in CenterState
    BY <1>4, Messages, SendToNodesKeeps
  <2>2. v.stage = [d \in Conn |->
                    IF \E k \in Node : /\ k \in {j \in D \ {i \in D : u.shell[i] # None} :
                                                    auto[j] # None /\ u.stage[auto[j]] = "unused"}
                                       /\ auto[k] = d
                    THEN "auto" ELSE u.stage[d]]
    BY <1>4 DEF v, SendToNodes, CenterState
  <2>3. v.stage[c] = u.stage[c]
    BY <1>4, <2>2
  <2> QED BY <1>4, <2>1, <2>3
<1> QED BY <1>1, <1>2, <1>5

\* A connection that is destroyed takes no other one with it.
LEMMA DestroyConnectOthers ==
    ASSUME NEW s \in CenterState, NEW b \in Conn, NEW c \in Conn, b # c,
           NEW recorded \in BOOLEAN, NEW auto \in AutoConns, s.stage[c] = "open"
    PROVE  LET t == DestroyConnect(s, b, recorded, auto)
           IN t \in CenterState /\ t.stage[c] = s.stage[c]
<1> DEFINE n == s.identify[b]
           t == [s EXCEPT !.stage[b] = "dead", !.identify[b] = None, !.toCenter[b] = <<>>]
           u == [t EXCEPT !.shell[n] = None]
<1>0. n \in Node \cup {None} /\ auto \in Autos
  BY AutoConnsTyped DEF CenterState
<1>1. t \in CenterState /\ t.stage[c] = "open"
  <2>1. <<>> \in Seq(Request) /\ "dead" \in Stage
    BY DEF Stage
  <2> QED BY <2>1 DEF CenterState
<1>2. CASE n = None
  BY <1>1, <1>2 DEF DestroyConnect
<1>3. CASE n # None
  <2>1. n \in Node
    BY <1>0, <1>3
  <2>2. u \in CenterState /\ u.stage[c] = "open"
    <3> HIDE DEF t, n
    <3> QED BY <1>1, <2>1 DEF CenterState
  <2>3. DestroyConnect(s, b, recorded, auto) = DelNode(u, n, recorded, auto)
    BY <1>3 DEF DestroyConnect
  <2> HIDE DEF u, n
  <2>4. DelNode(u, n, recorded, auto) \in CenterState
        /\ DelNode(u, n, recorded, auto).stage[c] = "open"
    BY <1>0, <2>1, <2>2, DelNodeOthers
  <2> QED BY <2>3, <2>4
<1> QED BY <1>2, <1>3

\* An answer goes to the node that asked, if it listens.
LEMMA AnswerTells ==
    ASSUME NEW s \in CenterState, ManagersTyped, Linked(s), NEW c \in Conn, NEW n \in Node,
           s.stage[c] = "open", owner[c] = n,
           NEW ms \in Seq(Message), ms # <<>>, \A i \in DOMAIN ms : ms[i].kind # "connect"
    PROVE  LET t == Answer(s, c, ms)
           IN /\ t \in CenterState /\ Linked(t) /\ InTouch(t) = InTouch(s)
              /\ t.nodeInfo = s.nodeInfo /\ t.stage = s.stage
              /\ Answered(s, t, n, ms)
<1> DEFINE t == [s EXCEPT !.toNode[c] = @ \o ms]
<1>0. Hears(s) \in [Node -> Seq(Message)]
  BY HearsTyped
<1>1. CASE ~Listens(c)
  <2>1. Answer(s, c, ms) = s
    BY <1>1 DEF Answer
  <2>2. Hears(s)[n] \o <<>> = Hears(s)[n]
    BY <1>0, ConcatEmptySeq
  <2>3. Hears(s) = [Hears(s) EXCEPT ![n] = @ \o <<>>]
    BY <1>0, <2>2
  <2> QED BY <2>1, <2>3 DEF Answered
<1>2. CASE Listens(c)
  <2>1. Answer(s, c, ms) = t
    BY <1>2 DEF Answer
  <2>2. center[n] = c /\ c # None
    BY <1>2, NodeAssumption DEF Listens
  <2>3. s.toNode \in [Conn -> Seq(Message)] /\ s.toNode[c] \o ms \in Seq(Message)
    BY DEF CenterState
  <2>4. /\ t \in CenterState /\ t.nodeInfo = s.nodeInfo /\ t.shell = s.shell
        /\ t.identify = s.identify /\ t.stage = s.stage
        /\ t.toNode = [s.toNode EXCEPT ![c] = @ \o ms]
    BY <2>3 DEF CenterState
  <2> HIDE DEF t
  <2>5. HelloFirst(s.toNode[c] \o ms) /\ Notices(s.toNode[c] \o ms) = Notices(s.toNode[c]) \o ms
    <3>1. s.toNode[c] \in Seq(Message) /\ HelloFirst(s.toNode[c])
      BY <2>3 DEF Linked
    <3> QED BY <3>1, NoticesJoined
  <2>6. \A d \in Conn : t.toNode[d] = IF d = c THEN s.toNode[c] \o ms ELSE s.toNode[d]
    BY <2>3, <2>4
  <2>7. Linked(t)
    BY <2>4, <2>5, <2>6 DEF Linked
  <2>8. InTouch(t) = InTouch(s)
    BY <2>4 DEF InTouch
  <2>9. Hears(t) = [Hears(s) EXCEPT ![n] = @ \o ms]
    <3>1. \A k \in Node : center[k] # None => center[k] \in Conn /\ owner[center[k]] = k
      BY DEF Linked, ManagersTyped
    <3>2. ASSUME NEW k \in Node
          PROVE  Hears(t)[k] = IF k = n THEN Hears(s)[k] \o ms ELSE Hears(s)[k]
      BY <2>2, <2>5, <2>6, <3>1 DEF Hears
    <3> QED BY <1>0, <3>2 DEF Hears
  <2> QED BY <2>1, <2>4, <2>7, <2>8, <2>9 DEF Answered
<1> QED BY <1>1, <1>2

\* A new identifier is the first one or one more than one in use.
LEMMA NewIdIsNext ==
    ASSUME NEW s, Good(s)
    PROVE  getNewNodeID(s) \in {1} \cup {s.nodeInfo[k] + 1 : k \in Node}
<1> DEFINE P(i) == \A n \in Node : s.nodeInfo[n] <= i
           Ids == {0} \cup {s.nodeInfo[n] : n \in Node}
           top == CHOOSE i \in Ids : P(i)
<1>1. s.nodeInfo \in [Node -> Nat]
  BY DEF Good, CenterState
<1>2. \E i \in Ids : P(i)
  BY DEF Good, HasLargest
<1>3. top \in Ids
  <2> HIDE DEF P, Ids
  <2> QED BY <1>2
<1>4. getNewNodeID(s) = 1 + top
  BY DEF getNewNodeID
<1> HIDE DEF top
<1> QED BY <1>1, <1>3, <1>4

\* The connection a request came from is mapped: its node is in contact if it
\* listens; one it was mapped to is destroyed, and the node leaves with it.
LEMMA AddMsgShellMeets ==
    ASSUME NEW s \in CenterState, ManagersTyped, Linked(s), NEW c \in Conn, NEW n \in Node,
           NEW recorded \in BOOLEAN, NEW auto \in AutoConns,
           s.stage[c] = "open", owner[c] = n
    PROVE  LET t == AddMsgShell(s, n, c, recorded, auto)
           IN \/ /\ Linked(t)
                 /\ InTouch(t) \in {InTouch(s), InTouch(s) \cup {n}}
                 /\ Hears(t) = Hears(s)
                 /\ t.nodeInfo = s.nodeInfo
              \/ Leaves(s, t, n, recorded)
<1>0. /\ s.stage \in [Conn -> Stage] /\ s.identify \in [Conn -> Node \cup {None}]
      /\ s.shell \in [Node -> Conn \cup {None}]
  BY DEF CenterState
<1>1. CASE s.shell[n] \in {None, c}
  <2> DEFINE t == [s EXCEPT !.shell[n] = c, !.identify[c] = n]
  <2>1. AddMsgShell(s, n, c, recorded, auto) = t
    BY <1>1 DEF AddMsgShell
  <2>2. /\ t.nodeInfo = s.nodeInfo /\ t.stage = s.stage /\ t.toNode = s.toNode
        /\ t.shell = [s.shell EXCEPT ![n] = c] /\ t.identify = [s.identify EXCEPT ![c] = n]
    BY DEF CenterState
  <2> HIDE DEF t
  <2>3. \A k \in Node : t.shell[k] # None => t.identify[t.shell[k]] = k
    <3> SUFFICES ASSUME NEW k \in Node, t.shell[k] # None PROVE t.identify[t.shell[k]] = k
      OBVIOUS
    <3>1. CASE k = n
      BY <1>0, <2>2, <3>1
    <3>2. CASE k # n
      <4>1. t.shell[k] = s.shell[k] /\ s.shell[k] \in Conn /\ s.identify[s.shell[k]] = k
        BY <1>0, <2>2, <3>2 DEF Linked
      <4>2. s.shell[k] # c
        BY <3>2, <4>1, NodeAssumption DEF Linked
      <4> QED BY <1>0, <2>2, <4>1, <4>2
    <3> QED BY <3>1, <3>2
  <2>4. \A d \in Conn : t.identify[d] # None =>
          \/ t.stage[d] = "open" /\ t.identify[d] = owner[d]
          \/ t.stage[d] = "auto" /\ owner[d] = None
    BY <1>0, <2>2 DEF Linked
  <2>5. Linked(t)
    BY <2>2, <2>3, <2>4 DEF Linked
  <2>6. InTouch(t) \in {InTouch(s), InTouch(s) \cup {n}}
    <3>1. CASE center[n] = c
      <4>1. InTouch(t) = InTouch(s) \cup {n}
        BY <1>0, <2>2, <3>1, NodeAssumption DEF InTouch
      <4> QED BY <4>1
    <3>2. CASE center[n] # c
      <4>1. n \notin InTouch(t) /\ n \notin InTouch(s)
        BY <1>0, <1>1, <2>2, <3>2 DEF InTouch
      <4>2. InTouch(t) = InTouch(s)
        BY <1>0, <2>2, <4>1 DEF InTouch
      <4> QED BY <4>2
    <3> QED BY <3>1, <3>2
  <2>7. Hears(t) = Hears(s)
    BY <2>2 DEF Hears
  <2> QED BY <2>1, <2>2, <2>5, <2>6, <2>7
<1>2. CASE s.shell[n] \notin {None, c}
  <2> DEFINE b == s.shell[n]
             d == DestroyConnect(s, b, recorded, auto)
             t == [d EXCEPT !.identify[c] = n]
  <2>1. AddMsgShell(s, n, c, recorded, auto) = t
    BY <1>2 DEF AddMsgShell
  <2>2. b \in Conn /\ b # c /\ s.identify[b] = n /\ n # None
    BY <1>0, <1>2, NodeAssumption DEF Linked
  <2>3. s.stage[b] # "unused"
    BY <2>2 DEF Linked
  <2>4. Leaves(s, d, n, recorded)
    <3> HIDE DEF b, d
    <3>1. IF s.identify[b] = None
          THEN Linked(DestroyConnect(s, b, recorded, auto))
          ELSE s.identify[b] \in Node
               /\ Leaves(s, DestroyConnect(s, b, recorded, auto), s.identify[b], recorded)
      BY <2>2, <2>3, DestroyConnectLeaves
    <3>2. Leaves(s, DestroyConnect(s, b, recorded, auto), n, recorded)
      BY <2>2, <3>1
    <3> QED BY <3>2 DEF d
  <2>5. d \in CenterState /\ d.stage[c] = "open"
    <3> HIDE DEF b
    <3>1. d \in CenterState /\ d.stage[c] = s.stage[c]
      BY <2>2, DestroyConnectOthers
    <3> QED BY <3>1
  <2> HIDE DEF b, d
  <2>6. /\ t.nodeInfo = d.nodeInfo /\ t.stage = d.stage /\ t.toNode = d.toNode
        /\ t.shell = d.shell /\ t.identify = [d.identify EXCEPT ![c] = n]
        /\ d.identify \in [Conn -> Node \cup {None}] /\ d.shell \in [Node -> Conn \cup {None}]
    BY <2>5 DEF CenterState
  <2> HIDE DEF t
  <2>7. Linked(d)
    BY <2>4 DEF Leaves
  <2>8. \A k \in Node : t.shell[k] # None => t.identify[t.shell[k]] = k
    <3> SUFFICES ASSUME NEW k \in Node, t.shell[k] # None PROVE t.identify[t.shell[k]] = k
      OBVIOUS
    <3>1. d.shell[k] \in Conn /\ d.identify[d.shell[k]] = k /\ k # None
      BY <2>6, <2>7, NodeAssumption DEF Linked
    <3>2. d.shell[k] = c => k = n
      BY <2>5, <2>7, <3>1 DEF Linked
    <3> QED BY <2>6, <3>1, <3>2
  <2>9. \A e \in Conn : t.identify[e] # None =>
          \/ t.stage[e] = "open" /\ t.identify[e] = owner[e]
          \/ t.stage[e] = "auto" /\ owner[e] = None
    BY <2>5, <2>6, <2>7 DEF Linked
  <2>10. Linked(t) /\ InTouch(t) = InTouch(d) /\ Hears(t) = Hears(d)
    <3>1. Linked(t)
      BY <2>6, <2>7, <2>8, <2>9 DEF Linked
    <3> QED BY <2>6, <3>1 DEF InTouch, Hears
  <2>11. Leaves(s, t, n, recorded)
    BY <2>4, <2>6, <2>10 DEF Leaves
  <2> QED BY <2>1, <2>11
<1> QED BY <1>1, <1>2

\* A node is registered, and told to those who need it.
LEMMA regNodeEnters ==
    ASSUME NEW s, Good(s), ManagersTyped, Linked(s), NEW c \in Conn, NEW n \in Node,
           NEW auto \in AutoConns, s.stage[c] = "open", owner[c] = n, s.nodeInfo = nodeInfo
    PROVE  /\ Enters(s, regNode(s, n, c, auto), n)
           /\ regNode(s, n, c, auto).stage[c] = "open"
<1> DEFINE id == IF s.nodeInfo[n] # 0 THEN s.nodeInfo[n] ELSE getNewNodeID(s)
           t == [s EXCEPT
                  !.nodeInfo[n] = id,
                  !.row[n] = IF s.nodeInfo[n] # 0 THEN @ ELSE [id |-> id, online |-> TRUE]]
           ms == <<Registered(id), Reg(Needed(t, n))>>
           a == Answer(t, c, ms)
           D == Needers(t, n)
           u == SendToNodes(a, D, Reg({n}), auto)
<1>1. regNode(s, n, c, auto) = u
  BY DEF regNode
<1>2. s \in CenterState /\ s.nodeInfo \in [Node -> Nat]
      /\ s.row \in [Node -> [id : Nat, online : BOOLEAN]]
  BY DEF Good, CenterState
<1>3. id \in Nat \ {0} /\ id \in Directory!Identifiers(n)
  <2>1. CASE s.nodeInfo[n] # 0
    BY <1>2, <2>1 DEF Directory!Identifiers
  <2>2. CASE s.nodeInfo[n] = 0
    <3>1. getNewNodeID(s) \in Nat \ {0} /\ \A k \in Node : s.nodeInfo[k] < getNewNodeID(s)
      BY NewNodeID
    <3>2. getNewNodeID(s) \in {1} \cup {s.nodeInfo[k] + 1 : k \in Node}
      BY NewIdIsNext
    <3>3. id = getNewNodeID(s)
      BY <2>2
    <3> HIDE DEF id
    <3> QED BY <2>2, <3>1, <3>2, <3>3 DEF Directory!Identifiers
  <2> QED BY <2>1, <2>2
<1> HIDE DEF id
<1>4. /\ t \in CenterState /\ t.nodeInfo = [s.nodeInfo EXCEPT ![n] = id]
      /\ t.shell = s.shell /\ t.identify = s.identify /\ t.stage = s.stage /\ t.toNode = s.toNode
  <2>1. (IF s.nodeInfo[n] # 0 THEN s.row[n] ELSE [id |-> id, online |-> TRUE])
            \in [id : Nat, online : BOOLEAN]
    BY <1>2, <1>3
  <2> QED BY <1>2, <1>3, <2>1 DEF CenterState
<1>5. /\ Needed(t, n) = Needed(s, n) /\ D \in SUBSET Node
      /\ \A k \in Node : k # n => (k \in D <=> s.nodeInfo[k] # 0 /\ n \in Needs[k])
      /\ n \notin D
  <2> HIDE DEF t
  <2> QED BY <1>2, <1>4, NeedsAssumption DEF Needed, Needers
<1> HIDE DEF t, D
<1>6. Linked(t) /\ InTouch(t) = InTouch(s) /\ Hears(t) = Hears(s)
  BY <1>4 DEF Linked, InTouch, Hears
<1>7. /\ ms \in Seq(Message) /\ ms # <<>> /\ \A i \in DOMAIN ms : ms[i].kind # "connect"
      /\ ms = <<Registered(id), Reg(Needed(s, n))>>
  <2>1. Needed(s, n) \in SUBSET Node
    BY NeedsAssumption DEF Needed
  <2>2. Registered(id) \in Message /\ Reg(Needed(s, n)) \in Message
    BY <1>3, <2>1, Messages
  <2>3. Registered(id).kind # "connect" /\ Reg(Needed(s, n)).kind # "connect"
    BY DEF Registered, Reg
  <2>4. ms = <<Registered(id), Reg(Needed(s, n))>>
    BY <1>5
  <2> QED BY <2>2, <2>3, <2>4
<1> HIDE DEF ms
<1>8. /\ a \in CenterState /\ Linked(a) /\ InTouch(a) = InTouch(t) /\ a.nodeInfo = t.nodeInfo
      /\ Answered(t, a, n, ms) /\ a.stage = t.stage
  <2>1. t \in CenterState /\ Linked(t) /\ t.stage[c] = "open" /\ ms \in Seq(Message)
    BY <1>4, <1>6, <1>7
  <2>2. ms # <<>> /\ \A i \in DOMAIN ms : ms[i].kind # "connect"
    BY <1>7
  <2>3. /\ Answer(t, c, ms) \in CenterState /\ Linked(Answer(t, c, ms))
        /\ InTouch(Answer(t, c, ms)) = InTouch(t)
        /\ Answer(t, c, ms).nodeInfo = t.nodeInfo
        /\ Answer(t, c, ms).stage = t.stage
        /\ Answered(t, Answer(t, c, ms), n, ms)
    BY <2>1, <2>2, AnswerTells, ZenonT(60)
  <2> QED BY <2>3
<1> HIDE DEF a
<1>9. Reg({n}) \in Message /\ Reg({n}).kind # "connect"
  BY Messages DEF Reg
<1>10. /\ Linked(u) /\ InTouch(u) = InTouch(a) /\ u.nodeInfo = a.nodeInfo
       /\ Hears(u) = Told(a, D, Reg({n})) /\ u.stage[c] = "open"
  BY <1>4, <1>5, <1>8, <1>9, SendToNodesTells
<1> HIDE DEF u
<1>11. PICK answer \in {<<>>, ms} : Hears(a) = [Hears(t) EXCEPT ![n] = @ \o answer]
  BY <1>8 DEF Answered
<1>12. Hears(u) = Spreads(s, n, answer, <<Reg({n})>>)
  <2>1. Hears(a)[n] = Hears(s)[n] \o answer /\ \A k \in Node : k # n => Hears(a)[k] = Hears(s)[k]
    BY <1>2, <1>6, <1>11, HearsTyped
  <2>2. InTouch(a) = InTouch(s)
    BY <1>6, <1>8
  <2>3. ASSUME NEW k \in Node
        PROVE  Told(a, D, Reg({n}))[k] = Spreads(s, n, answer, <<Reg({n})>>)[k]
    <3>1. CASE k = n
      <4>1. Told(a, D, Reg({n}))[n] = Hears(a)[n]
        BY <1>5 DEF Told
      <4>2. Spreads(s, n, answer, <<Reg({n})>>)[n] = Hears(s)[n] \o answer
        BY DEF Spreads
      <4> QED BY <2>1, <3>1, <4>1, <4>2
    <3>2. CASE k # n
      <4>1. Told(a, D, Reg({n}))[k] = IF k \in D /\ k \in InTouch(s)
                                      THEN Hears(s)[k] \o <<Reg({n})>> ELSE Hears(s)[k]
        BY <2>1, <2>2, <3>2 DEF Told
      <4>2. Spreads(s, n, answer, <<Reg({n})>>)[k] =
              IF k \in InTouch(s) /\ s.nodeInfo[k] # 0 /\ n \in Needs[k]
              THEN Hears(s)[k] \o <<Reg({n})>> ELSE Hears(s)[k]
        BY <3>2 DEF Spreads
      <4> QED BY <1>5, <3>2, <4>1, <4>2
    <3> QED BY <3>1, <3>2
  <2>4. Told(a, D, Reg({n})) = Spreads(s, n, answer, <<Reg({n})>>)
    BY <2>3 DEF Spreads, Told
  <2> QED BY <1>10, <2>4
<1> QED BY <1>1, <1>3, <1>4, <1>6, <1>7, <1>8, <1>10, <1>11, <1>12 DEF Enters

-----------------------------------------------------------------------------
(* The steps of the registry are steps of the directory.                   *)

DInv == IInv /\ Linked(Center)

\* What the directory sees of the Center's record.
Shows(s) == s.nodeInfo = nodeInfo /\ InTouch(s) = InContact /\ Hears(s) = NoticesTo

LEMMA CenterShows == Shows(Center)
BY DEF Shows, Center, InTouch, Hears, InContact, NoticesTo

\* A handler's result is what the directory sees after the step.
LEMMA HandlerShows ==
    ASSUME NEW t, Becomes(t), UNCHANGED <<owner, center, nodeId, routes>>
    PROVE  /\ nodeInfo' = t.nodeInfo /\ InContact' = InTouch(t) /\ NoticesTo' = Hears(t)
           /\ Linked(t) => Linked(Center)'
<1>1. /\ nodeInfo' = t.nodeInfo /\ shell' = t.shell /\ identify' = t.identify
      /\ stage' = t.stage /\ toNode' = t.toNode
  BY DEF Becomes
<1>2. InContact' = InTouch(t) /\ NoticesTo' = Hears(t)
  BY <1>1 DEF InContact, NoticesTo, InTouch, Hears, Notices
<1>3. ASSUME Linked(t) PROVE Linked(Center)'
  BY <1>1, <1>3 DEF Linked, Center, HelloFirst
<1> QED BY <1>1, <1>2, <1>3

\* A request is taken: the directory sees nothing.
LEMMA TakenShows ==
    ASSUME DInv, NEW c \in Conn, stage[c] = "open", toCenter[c] # <<>>
    PROVE  /\ Good(Taken(c)) /\ Taken(c) \in CenterState /\ ManagersTyped
           /\ Linked(Taken(c)) /\ Shows(Taken(c)) /\ Taken(c).stage[c] = "open"
           /\ owner[c] \in Node
<1>1. Good(Taken(c)) /\ ManagersTyped /\ owner[c] \in Node
  BY TakenGood, OwnerIsNode DEF DInv, IInv
<1>2. /\ Taken(c).nodeInfo = nodeInfo /\ Taken(c).shell = shell /\ Taken(c).identify = identify
      /\ Taken(c).stage = stage /\ Taken(c).toNode = toNode
  BY DEF Taken, Center
<1>3. Linked(Taken(c))
  BY <1>2 DEF DInv, Linked, Center
<1>4. Shows(Taken(c))
  BY <1>2 DEF Shows, InTouch, Hears, InContact, NoticesTo
<1> QED BY <1>1, <1>2, <1>3, <1>4 DEF Good

\* The notices a handler sends are those the directory spreads.
LEMMA SpreadsShow ==
    ASSUME NEW s, Shows(s), NEW n \in Node, NEW answer, NEW told,
           NoticesTo' = Spreads(s, n, answer, told)
    PROVE  Directory!Spread(n, answer, told)
<1>1. \A k \in Node : k \in Directory!Audience(n)
          <=> k \in InTouch(s) /\ s.nodeInfo[k] # 0 /\ n \in Needs[k]
  BY DEF Shows, Directory!Audience
<1> QED BY <1>1 DEF Spreads, Shows, Directory!Spread

LEMMA LeavesShow ==
    ASSUME NEW s, Shows(s), NEW t, NEW n \in Node, NEW recorded \in DbResults,
           Leaves(s, t, n, recorded),
           nodeInfo' = t.nodeInfo, InContact' = InTouch(t), NoticesTo' = Hears(t),
           UNCHANGED <<nodeId, routes>>
    PROVE  Directory!Next
<1>1. CASE nodeInfo[n] = 0
  <2>1. Directory!Part(n)
    BY <1>1 DEF Shows, Leaves, Directory!Part
  <2> QED BY <2>1 DEF Directory!Next
<1>2. CASE nodeInfo[n] # 0
  <2>1. nodeInfo' = [nodeInfo EXCEPT ![n] = 0] /\ InContact' = InContact \ {n}
    BY <1>2 DEF Shows, Leaves
  <2>2. PICK told \in {<<Exit(n)>>} \cup (IF recorded THEN {} ELSE {<<>>}) :
          NoticesTo' = Spreads(s, n, <<>>, told)
    BY <1>2 DEF Shows, Leaves
  <2>3. told \in Directory!Farewell(n)
    BY <2>2 DEF DbResults, Directory!Farewell, Directory!Out, Exit
  <2>4. Directory!Spread(n, <<>>, told)
    BY <2>2, SpreadsShow
  <2>5. Directory!Leave(n)
    BY <1>2, <2>1, <2>3, <2>4 DEF Directory!Leave
  <2> QED BY <2>5 DEF Directory!Next
<1> QED BY <1>1, <1>2

LEMMA RecvTellShows ==
    ASSUME DInv, NEW c \in Conn, RecvTell(c)
    PROVE  Linked(Center)' /\ [Directory!Next]_(Directory!directoryVars)
<1> DEFINE n == owner[c]
           s == Taken(c)
<1>1. PICK recorded \in DbResults, auto \in AutoConns :
        Becomes(AddMsgShell(s, n, c, recorded, auto))
  BY DEF RecvTell
<1> DEFINE t == AddMsgShell(s, n, c, recorded, auto)
<1>2. recorded \in BOOLEAN /\ UNCHANGED <<owner, center, nodeId, routes>>
  BY DbResultsTyped DEF RecvTell
<1>3. /\ s \in CenterState /\ ManagersTyped /\ Linked(s) /\ Shows(s)
      /\ s.stage[c] = "open" /\ n \in Node
  BY TakenShows DEF RecvTell, Arrives
<1> HIDE DEF s
<1>4. \/ /\ Linked(t)
         /\ InTouch(t) \in {InTouch(s), InTouch(s) \cup {n}}
         /\ Hears(t) = Hears(s)
         /\ t.nodeInfo = s.nodeInfo
      \/ Leaves(s, t, n, recorded)
  BY <1>2, <1>3, AddMsgShellMeets
<1>5. Becomes(t)
  BY <1>1
<1> HIDE DEF t
<1>6. /\ nodeInfo' = t.nodeInfo /\ InContact' = InTouch(t) /\ NoticesTo' = Hears(t)
      /\ Linked(t) => Linked(Center)'
  BY <1>2, <1>5, HandlerShows
<1>7. CASE /\ Linked(t)
           /\ InTouch(t) \in {InTouch(s), InTouch(s) \cup {n}}
           /\ Hears(t) = Hears(s)
           /\ t.nodeInfo = s.nodeInfo
  <2>1. nodeInfo' = nodeInfo /\ NoticesTo' = NoticesTo
    BY <1>3, <1>6, <1>7 DEF Shows
  <2>2. InContact' \in {InContact, InContact \cup {n}}
    BY <1>3, <1>6, <1>7 DEF Shows
  <2>3. CASE InContact' = InContact
    BY <1>2, <1>6, <1>7, <2>1, <2>3 DEF Directory!directoryVars
  <2>4. CASE InContact' = InContact \cup {n}
    <3>1. Directory!Meet(n)
      BY <1>2, <2>1, <2>4 DEF Directory!Meet
    <3> QED BY <1>3, <1>6, <1>7, <3>1 DEF Directory!Next
  <2> QED BY <2>2, <2>3, <2>4
<1>8. CASE Leaves(s, t, n, recorded)
  <2>1. Directory!Next
    BY <1>2, <1>3, <1>6, <1>8, LeavesShow
  <2>2. Linked(t)
    BY <1>8 DEF Leaves
  <2> QED BY <1>6, <2>1, <2>2
<1> QED BY <1>4, <1>7, <1>8

\* A node that enters.
LEMMA EntersShow ==
    ASSUME DInv, NEW s, Shows(s), NEW n \in Node, NEW r, Enters(s, r, n),
           nodeInfo' = r.nodeInfo, InContact' \in {InContact, InContact \cup {n}},
           NoticesTo' = Hears(r), UNCHANGED <<nodeId, routes>>
    PROVE  Directory!Next
<1>1. PICK id \in Directory!Identifiers(n) :
        /\ r.nodeInfo = [s.nodeInfo EXCEPT ![n] = id]
        /\ \E answer \in {<<>>, <<Registered(id), Reg(Needed(s, n))>>} :
             Hears(r) = Spreads(s, n, answer, <<Reg({n})>>)
  BY DEF Enters
<1>2. PICK answer \in {<<>>, <<Registered(id), Reg(Needed(s, n))>>} :
        Hears(r) = Spreads(s, n, answer, <<Reg({n})>>)
  BY <1>1
<1>3. Directory!Spread(n, answer, <<Reg({n})>>)
  BY <1>2, SpreadsShow
<1>4. /\ Registered(id) = Directory!You(id) /\ Reg({n}) = Directory!In({n})
      /\ Reg(Needed(s, n)) = Directory!In(Directory!Needed(n))
  BY DEF Registered, Reg, Directory!You, Directory!In, Needed, Directory!Needed, Shows
<1>5. nodeInfo' = [nodeInfo EXCEPT ![n] = id]
  BY <1>1 DEF Shows
<1>6. answer \in {<<>>, <<Directory!You(id), Directory!In(Directory!Needed(n))>>}
  BY <1>4
<1>7. Directory!Spread(n, answer, <<Directory!In({n})>>)
  BY <1>3, <1>4
<1>8. Directory!Enter(n)
  BY <1>5, <1>6, <1>7 DEF Directory!Enter
<1> QED BY <1>8 DEF Directory!Next

LEMMA MessagesAssociate ==
    ASSUME NEW h \in Seq(Message), NEW m \in Seq(Message), NEW k \in Seq(Message)
    PROVE  (h \o m) \o k = h \o (m \o k)
BY ConcatAssociative

\* Who is told that a node came and then left is told both.
LEMMA SpreadsTwice ==
    ASSUME NEW s \in CenterState, NEW r \in CenterState, ManagersTyped, NEW n \in Node,
           InTouch(r) = InTouch(s), \A k \in Node : k # n => r.nodeInfo[k] = s.nodeInfo[k],
           NEW answer \in Seq(Message), NEW here \in Seq(Message), NEW told \in Seq(Message),
           Hears(r) = Spreads(s, n, answer, here)
    PROVE  Spreads(r, n, <<>>, told) = Spreads(s, n, answer, here \o told)
<1>1. Hears(s) \in [Node -> Seq(Message)] /\ Hears(r) \in [Node -> Seq(Message)]
  BY HearsTyped
<1>2. ASSUME NEW k \in Node
      PROVE  Spreads(r, n, <<>>, told)[k] = Spreads(s, n, answer, here \o told)[k]
  <2>1. CASE k = n
    <3>1. Spreads(r, n, <<>>, told)[n] = Hears(r)[n] \o <<>>
      BY DEF Spreads
    <3>2. Hears(r)[n] \o <<>> = Hears(r)[n]
      BY <1>1, ConcatEmptySeq
    <3>3. Hears(r)[n] = Hears(s)[n] \o answer
      BY DEF Spreads
    <3>4. Spreads(s, n, answer, here \o told)[n] = Hears(s)[n] \o answer
      BY DEF Spreads
    <3> QED BY <2>1, <3>1, <3>2, <3>3, <3>4
  <2>2. CASE k # n
    <3> DEFINE asked == k \in InTouch(s) /\ s.nodeInfo[k] # 0 /\ n \in Needs[k]
    <3>1. Spreads(r, n, <<>>, told)[k] = IF asked THEN Hears(r)[k] \o told ELSE Hears(r)[k]
      BY <2>2 DEF Spreads
    <3>2. Hears(r)[k] = IF asked THEN Hears(s)[k] \o here ELSE Hears(s)[k]
      BY <2>2 DEF Spreads
    <3>3. Spreads(s, n, answer, here \o told)[k] =
            IF asked THEN Hears(s)[k] \o (here \o told) ELSE Hears(s)[k]
      BY <2>2 DEF Spreads
    <3>4. (Hears(s)[k] \o here) \o told = Hears(s)[k] \o (here \o told)
      <4>1. PICK h \in Seq(Message) : h = Hears(s)[k]
        BY <1>1
      <4>2. (h \o here) \o told = h \o (here \o told)
        BY MessagesAssociate, ZenonT(30)
      <4> QED BY <4>1, <4>2
    <3> HIDE DEF asked
    <3> QED BY <3>1, <3>2, <3>3, <3>4
  <2> QED BY <2>1, <2>2
<1> QED BY <1>2 DEF Spreads

\* A node that enters on one connection and leaves with an older one.
LEMMA EntersAndLeavesShow ==
    ASSUME DInv, NEW s \in CenterState, Shows(s), NEW n \in Node,
           NEW r \in CenterState, Enters(s, r, n), NEW t, NEW left \in DbResults,
           Leaves(r, t, n, left), UNCHANGED <<nodeId, routes>>,
           nodeInfo' = t.nodeInfo, InContact' = InTouch(t), NoticesTo' = Hears(t)
    PROVE  Directory!Next
<1>0. nodeInfo \in [Node -> Nat] /\ ManagersTyped
  BY CenterTyped DEF DInv, IInv, Good
<1>1. PICK id \in Directory!Identifiers(n) :
        /\ r.nodeInfo = [s.nodeInfo EXCEPT ![n] = id]
        /\ \E answer \in {<<>>, <<Registered(id), Reg(Needed(s, n))>>} :
             Hears(r) = Spreads(s, n, answer, <<Reg({n})>>)
  BY DEF Enters
<1>2. PICK answer \in {<<>>, <<Registered(id), Reg(Needed(s, n))>>} :
        Hears(r) = Spreads(s, n, answer, <<Reg({n})>>)
  BY <1>1
<1>3. id \in Nat \ {0}
  <2>1. \A k \in Node : nodeInfo[k] + 1 \in Nat \ {0}
    BY <1>0
  <2> QED BY <1>0, <2>1 DEF Directory!Identifiers
<1>4. /\ r.nodeInfo[n] # 0 /\ InTouch(r) = InTouch(s) /\ s.nodeInfo = nodeInfo
      /\ \A k \in Node : k # n => r.nodeInfo[k] = s.nodeInfo[k]
  BY <1>0, <1>1, <1>3 DEF Enters, Shows
<1>5. /\ t.nodeInfo = [r.nodeInfo EXCEPT ![n] = 0] /\ InTouch(t) = InTouch(r) \ {n}
      /\ \E told \in {<<Exit(n)>>} \cup (IF left THEN {} ELSE {<<>>}) :
           Hears(t) = Spreads(r, n, <<>>, told)
  BY <1>4 DEF Leaves
<1>6. PICK told \in {<<Exit(n)>>} \cup (IF left THEN {} ELSE {<<>>}) :
        Hears(t) = Spreads(r, n, <<>>, told)
  BY <1>5
<1>7. answer \in Seq(Message) /\ told \in Seq(Message) /\ <<Reg({n})>> \in Seq(Message)
  <2>1. Needed(s, n) \in SUBSET Node
    BY NeedsAssumption DEF Needed
  <2>2. /\ Registered(id) \in Message /\ Reg(Needed(s, n)) \in Message
        /\ Reg({n}) \in Message /\ Exit(n) \in Message
    BY <1>3, <2>1, Messages
  <2>3. /\ <<>> \in Seq(Message) /\ <<Registered(id), Reg(Needed(s, n))>> \in Seq(Message)
        /\ <<Reg({n})>> \in Seq(Message) /\ <<Exit(n)>> \in Seq(Message)
    BY <2>2
  <2>4. answer = <<>> \/ answer = <<Registered(id), Reg(Needed(s, n))>>
    OBVIOUS
  <2>5. told = <<>> \/ told = <<Exit(n)>>
    OBVIOUS
  <2> QED BY <2>3, <2>4, <2>5, Zenon
<1>8. Hears(t) = Spreads(s, n, answer, <<Reg({n})>> \o told)
  <2>1. PICK here \in Seq(Message) : here = <<Reg({n})>>
    BY <1>7
  <2>2. Hears(r) = Spreads(s, n, answer, here)
    BY <1>2, <2>1
  <2>3. Spreads(r, n, <<>>, told) = Spreads(s, n, answer, here \o told)
    BY <1>0, <1>4, <1>7, <2>2, SpreadsTwice
  <2> QED BY <1>6, <2>1, <2>3
<1>9. Directory!Spread(n, answer, <<Reg({n})>> \o told)
  BY <1>8, SpreadsShow
<1>10. nodeInfo' = [nodeInfo EXCEPT ![n] = 0] /\ InContact' = InContact \ {n}
  BY <1>0, <1>1, <1>4, <1>5 DEF Shows
<1>11. /\ Reg({n}) = Directory!In({n})
       /\ answer \in {<<>>, <<Directory!You(id), Directory!In(Directory!Needed(n))>>}
  BY <1>4 DEF Registered, Reg, Directory!You, Directory!In, Needed, Directory!Needed
<1>12. told \in Directory!Farewell(n)
  BY <1>6 DEF DbResults, Directory!Farewell, Directory!Out, Exit
<1>13. Directory!Spread(n, answer, <<Directory!In({n})>> \o told)
  BY <1>9, <1>11
<1>14. Directory!EnterAndLeave(n)
  BY <1>10, <1>11, <1>12, <1>13 DEF Directory!EnterAndLeave
<1> QED BY <1>14 DEF Directory!Next

\* A step the directory does not see.
LEMMA HandlerStutters ==
    ASSUME NEW s, Linked(s), Shows(s), Becomes(s), UNCHANGED <<owner, center, nodeId, routes>>
    PROVE  Linked(Center)' /\ [Directory!Next]_(Directory!directoryVars)
BY HandlerShows DEF Shows, Directory!directoryVars

LEMMA RecvRegisterShows ==
    ASSUME DInv, NEW c \in Conn, RecvRegister(c)
    PROVE  Linked(Center)' /\ [Directory!Next]_(Directory!directoryVars)
<1> DEFINE n == owner[c]
           s == Taken(c)
<1>1. PICK recorded \in DbResults, left \in DbResults, auto \in AutoConns :
        IF nodeInfo[n] = 0 /\ ~recorded
        THEN Becomes(s)
        ELSE Becomes(AddMsgShell(regNode(s, n, c, auto), n, c, left, auto))
  BY DEF RecvRegister
<1> DEFINE r == regNode(s, n, c, auto)
           t == AddMsgShell(r, n, c, left, auto)
<1>2. left \in BOOLEAN /\ auto \in Autos /\ UNCHANGED <<owner, center, nodeId, routes>>
  BY DbResultsTyped, AutoConnsTyped DEF RecvRegister
<1>3. /\ Good(s) /\ s \in CenterState /\ ManagersTyped /\ Linked(s) /\ Shows(s)
      /\ s.stage[c] = "open" /\ n \in Node
  BY TakenShows DEF RecvRegister, Arrives
<1> HIDE DEF s
<1>4. CASE nodeInfo[n] = 0 /\ ~recorded
  BY <1>1, <1>2, <1>3, <1>4, HandlerStutters
<1>5. CASE ~(nodeInfo[n] = 0 /\ ~recorded)
  <2>1. Enters(s, r, n) /\ r.stage[c] = "open"
    BY <1>3, regNodeEnters DEF Shows
  <2>2. r \in CenterState
    BY <1>2, <1>3, regNodeGood DEF Good
  <2>3. Linked(r)
    BY <2>1 DEF Enters
  <2>4. Becomes(t)
    BY <1>1, <1>5
  <2> HIDE DEF r
  <2>5. \/ /\ Linked(t)
           /\ InTouch(t) \in {InTouch(r), InTouch(r) \cup {n}}
           /\ Hears(t) = Hears(r)
           /\ t.nodeInfo = r.nodeInfo
        \/ Leaves(r, t, n, left)
    BY <1>2, <1>3, <2>1, <2>2, <2>3, AddMsgShellMeets
  <2> HIDE DEF t
  <2>6. /\ nodeInfo' = t.nodeInfo /\ InContact' = InTouch(t) /\ NoticesTo' = Hears(t)
        /\ Linked(t) => Linked(Center)'
    BY <1>2, <2>4, HandlerShows
  <2>7. CASE /\ Linked(t)
             /\ InTouch(t) \in {InTouch(r), InTouch(r) \cup {n}}
             /\ Hears(t) = Hears(r)
             /\ t.nodeInfo = r.nodeInfo
    <3>1. InTouch(r) = InContact
      BY <1>3, <2>1 DEF Enters, Shows
    <3>2. InContact' \in {InContact, InContact \cup {n}}
      BY <2>6, <2>7, <3>1
    <3>3. Directory!Next
      BY <1>2, <1>3, <2>1, <2>6, <2>7, <3>2, EntersShow
    <3> QED BY <2>6, <2>7, <3>3
  <2>8. CASE Leaves(r, t, n, left)
    <3>1. Directory!Next
      BY <1>2, <1>3, <2>1, <2>2, <2>6, <2>8, EntersAndLeavesShow
    <3>2. Linked(t)
      BY <2>8 DEF Leaves
    <3> QED BY <2>6, <3>1, <3>2
  <2> QED BY <2>5, <2>7, <2>8
<1> QED BY <1>4, <1>5

LEMMA RecvReportShows ==
    ASSUME DInv, NEW c \in Conn, RecvReport(c)
    PROVE  Linked(Center)' /\ [Directory!Next]_(Directory!directoryVars)
<1> DEFINE n == owner[c]
           s == Taken(c)
           u == [s EXCEPT !.row[n] = [id |-> nodeInfo[n], online |-> TRUE]]
<1>1. PICK recorded \in DbResults, auto \in AutoConns :
        Becomes(IF ~recorded THEN s
                ELSE IF nodeInfo[n] = 0 THEN regNode(s, n, c, auto)
                ELSE u)
  BY DEF RecvReport
<1> DEFINE r == regNode(s, n, c, auto)
<1>2. UNCHANGED <<owner, center, nodeId, routes>>
  BY DEF RecvReport
<1>3. /\ Good(s) /\ s \in CenterState /\ ManagersTyped /\ Linked(s) /\ Shows(s)
      /\ s.stage[c] = "open" /\ n \in Node
  BY TakenShows DEF RecvReport, Arrives
<1>4. CASE ~recorded
  <2>1. Becomes(s)
    BY <1>1, <1>4
  <2> HIDE DEF s
  <2> QED BY <1>2, <1>3, <2>1, HandlerStutters
<1>5. CASE recorded /\ nodeInfo[n] # 0
  <2>1. Becomes(u)
    BY <1>1, <1>5
  <2> HIDE DEF s, n
  <2>2. /\ u.nodeInfo = s.nodeInfo /\ u.shell = s.shell /\ u.identify = s.identify
        /\ u.stage = s.stage /\ u.toNode = s.toNode
    BY <1>3 DEF CenterState
  <2> HIDE DEF u
  <2>3. Linked(u) /\ Shows(u)
    BY <1>3, <2>2 DEF Linked, Shows, InTouch, Hears
  <2> QED BY <1>2, <2>1, <2>3, HandlerStutters
<1>6. CASE recorded /\ nodeInfo[n] = 0
  <2>1. Becomes(r)
    BY <1>1, <1>6
  <2> HIDE DEF s
  <2>2. Enters(s, r, n)
    BY <1>3, regNodeEnters DEF Shows
  <2> HIDE DEF r
  <2>3. /\ nodeInfo' = r.nodeInfo /\ InContact' = InTouch(r) /\ NoticesTo' = Hears(r)
        /\ Linked(r) => Linked(Center)'
    BY <1>2, <2>1, HandlerShows
  <2>4. Linked(r) /\ InContact' = InContact
    BY <1>3, <2>2, <2>3 DEF Enters, Shows
  <2>5. Directory!Next
    BY <1>2, <1>3, <2>2, <2>3, <2>4, EntersShow
  <2> QED BY <2>3, <2>4, <2>5
<1> QED BY <1>4, <1>5, <1>6

\* RecvEof and CenterDrops destroy a connection.
LEMMA DestroyShows ==
    ASSUME DInv, NEW c \in Conn, RecvEof(c) \/ CenterDrops(c)
    PROVE  Linked(Center)' /\ [Directory!Next]_(Directory!directoryVars)
<1> DEFINE s == Center
<1>1. PICK recorded \in DbResults, auto \in AutoConns :
        Becomes(DestroyConnect(s, c, recorded, auto))
  BY DEF RecvEof, CenterDrops
<1> DEFINE t == DestroyConnect(s, c, recorded, auto)
           n == s.identify[c]
<1>2. recorded \in BOOLEAN /\ UNCHANGED <<owner, center, nodeId, routes>>
  BY DbResultsTyped DEF RecvEof, CenterDrops
<1>3. /\ s \in CenterState /\ ManagersTyped /\ Linked(s) /\ Shows(s)
  BY CenterShows DEF DInv, IInv, Good
<1>4. s.stage[c] # "unused"
  BY DEF RecvEof, CenterDrops, Center
<1>5. Becomes(t)
  BY <1>1
<1> HIDE DEF s
<1>6. IF n = None
      THEN Linked(t) /\ InTouch(t) = InTouch(s) /\ Hears(t) = Hears(s)
           /\ t.nodeInfo = s.nodeInfo
      ELSE n \in Node /\ Leaves(s, t, n, recorded)
  BY <1>2, <1>3, <1>4, DestroyConnectLeaves
<1> HIDE DEF t, n
<1>7. /\ nodeInfo' = t.nodeInfo /\ InContact' = InTouch(t) /\ NoticesTo' = Hears(t)
      /\ Linked(t) => Linked(Center)'
  BY <1>2, <1>5, HandlerShows
<1>8. CASE n = None
  BY <1>2, <1>3, <1>6, <1>7, <1>8 DEF Shows, Directory!directoryVars
<1>9. CASE n # None
  <2>1. n \in Node /\ Leaves(s, t, n, recorded)
    BY <1>6, <1>9
  <2>2. Directory!Next
    BY <1>2, <1>3, <1>7, <2>1, LeavesShow
  <2>3. Linked(t)
    BY <2>1 DEF Leaves
  <2> QED BY <1>7, <2>2, <2>3
<1> QED BY <1>8, <1>9

\* What the invariant says of the variables.
LEMMA LinkedVariables ==
    ASSUME DInv
    PROVE  /\ nodeInfo \in [Node -> Nat]
           /\ shell \in [Node -> Conn \cup {None}] /\ identify \in [Conn -> Node \cup {None}]
           /\ stage \in [Conn -> Stage] /\ toNode \in [Conn -> Seq(Message)]
           /\ owner \in [Conn -> Node \cup {None}] /\ center \in [Node -> Conn \cup {None}]
           /\ nodeId \in [Node -> Nat] /\ routes \in [Node -> SUBSET Node]
           /\ \A n \in Node : center[n] # None =>
                 center[n] \in Conn /\ owner[center[n]] = n /\ stage[center[n]] # "unused"
           /\ \A c \in Conn : identify[c] # None =>
                 \/ stage[c] = "open" /\ identify[c] = owner[c]
                 \/ stage[c] = "auto" /\ owner[c] = None
           /\ \A c \in Conn : stage[c] = "unused" => owner[c] = None
           /\ \A n \in Node : shell[n] # None =>
                 shell[n] \in Conn /\ identify[shell[n]] = n
           /\ \A c \in Conn : stage[c] \in {"unused", "connecting", "manager"} => toNode[c] = <<>>
           /\ \A c \in Conn : HelloFirst(toNode[c])
BY CenterTyped DEF DInv, IInv, Good, ManagersTyped, Linked, Center

LEMMA LinkedAfter ==
    ASSUME \A n \in Node : center'[n] # None =>
              owner'[center'[n]] = n /\ stage'[center'[n]] # "unused",
           \A c \in Conn : identify'[c] # None =>
              \/ stage'[c] = "open" /\ identify'[c] = owner'[c]
              \/ stage'[c] = "auto" /\ owner'[c] = None,
           \A c \in Conn : stage'[c] = "unused" => owner'[c] = None,
           \A n \in Node : shell'[n] # None => identify'[shell'[n]] = n,
           \A c \in Conn :
              stage'[c] \in {"unused", "connecting", "manager"} => toNode'[c] = <<>>,
           \A c \in Conn : HelloFirst(toNode'[c])
    PROVE  Linked(Center)'
BY DEF Linked, Center, HelloFirst

\* A node in contact has a connection with an identity.
LEMMA ContactIsOpen ==
    ASSUME DInv, NEW n \in InContact
    PROVE  /\ n \in Node /\ center[n] # None /\ shell[n] = center[n]
           /\ identify[center[n]] = n /\ stage[center[n]] = "open"
<1>1. Center \in CenterState /\ ManagersTyped /\ Linked(Center) /\ InContact = InTouch(Center)
  BY CenterShows DEF DInv, IInv, Good, Shows
<1>2. /\ center[n] # None /\ Center.shell[n] = center[n]
      /\ Center.identify[center[n]] = n /\ Center.stage[center[n]] = "open"
  BY <1>1, TouchIsOpen
<1> QED BY <1>2 DEF Center, InContact

\* Nobody's connection is mapped or has a notice more.
LEMMA Unseen ==
    ASSUME UNCHANGED <<nodeInfo, nodeId, routes>>, InContact' = InContact,
           \A n \in Node : NoticesTo'[n] = NoticesTo[n]
    PROVE  UNCHANGED (Directory!directoryVars)
<1>1. NoticesTo' = NoticesTo
  BY DEF NoticesTo
<1> QED BY <1>1 DEF Directory!directoryVars

LEMMA CenterTransferShows ==
    ASSUME DInv, NEW c \in Conn, CenterTransfer(c)
    PROVE  Linked(Center)' /\ [Directory!Next]_(Directory!directoryVars)
<1>1. /\ stage[c] = "manager" /\ stage' = [stage EXCEPT ![c] = "open"]
      /\ toNode' = [toNode EXCEPT ![c] = IF Listens(c) THEN Append(@, Connected) ELSE @]
      /\ UNCHANGED <<nodeInfo, shell, identify, owner, center, nodeId, routes>>
  BY DEF CenterTransfer
<1>2. toNode[c] = <<>> /\ toNode \in [Conn -> Seq(Message)] /\ stage \in [Conn -> Stage]
      /\ identify[c] = None
  BY <1>1, LinkedVariables
<1>3. toNode'[c] \in {<<>>, <<Connected>>} /\ \A d \in Conn : d # c => toNode'[d] = toNode[d]
  <2>1. Append(<<>>, Connected) = <<Connected>>
    OBVIOUS
  <2> QED BY <1>1, <1>2, <2>1
<1>4. /\ HelloFirst(<<>>) /\ HelloFirst(<<Connected>>)
      /\ Notices(<<>>) = <<>> /\ Notices(<<Connected>>) = <<>>
  BY DEF HelloFirst, Notices, Connected
<1>5. \A d \in Conn : HelloFirst(toNode'[d]) /\ Notices(toNode'[d]) = Notices(toNode[d])
  BY <1>2, <1>3, <1>4, LinkedVariables
<1>6. \A d \in Conn : stage'[d] = IF d = c THEN "open" ELSE stage[d]
  BY <1>1, <1>2
<1>7. Linked(Center)'
  <2>1. \A n \in Node : center'[n] # None =>
          owner'[center'[n]] = n /\ stage'[center'[n]] # "unused"
    BY <1>1, <1>6, LinkedVariables
  <2>2. \A d \in Conn : identify'[d] # None =>
          \/ stage'[d] = "open" /\ identify'[d] = owner'[d]
          \/ stage'[d] = "auto" /\ owner'[d] = None
    BY <1>1, <1>2, <1>6, LinkedVariables
  <2>3. \A d \in Conn : stage'[d] = "unused" => owner'[d] = None
    BY <1>1, <1>6, LinkedVariables
  <2>4. \A n \in Node : shell'[n] # None => identify'[shell'[n]] = n
    BY <1>1, LinkedVariables
  <2>5. \A d \in Conn :
          stage'[d] \in {"unused", "connecting", "manager"} => toNode'[d] = <<>>
    BY <1>3, <1>6, LinkedVariables
  <2> QED BY <1>5, <2>1, <2>2, <2>3, <2>4, <2>5, LinkedAfter
<1>8. InContact' = InContact
  BY <1>1 DEF InContact
<1>9. \A n \in Node : NoticesTo'[n] = NoticesTo[n]
  <2>1. \A n \in Node : center[n] # None => center[n] \in Conn
    BY LinkedVariables
  <2>2. \A n \in Node : NoticesTo'[n] = IF center[n] = None THEN <<>> ELSE Notices(toNode'[center[n]])
    BY <1>1 DEF NoticesTo, Notices
  <2> QED BY <1>5, <2>1, <2>2 DEF NoticesTo
<1> QED BY <1>1, <1>7, <1>8, <1>9, Unseen

\* A step that leaves what is under way to the nodes, the owners and the mapping
\* alone: a connection without an identity goes on or ends.
LEMMA StageShows ==
    ASSUME DInv, UNCHANGED <<nodeInfo, shell, identify, toNode, owner, center, nodeId>>,
           NEW c \in Conn, stage[c] \in {"connecting", "manager"}, NEW g \in {"manager", "dead"},
           stage' = [stage EXCEPT ![c] = g] \/ stage' = stage
    PROVE  Linked(Center)' /\ InContact' = InContact /\ \A n \in Node : NoticesTo'[n] = NoticesTo[n]
<1>1. \A d \in Conn : stage'[d] = stage[d] \/ (d = c /\ stage'[d] = g)
  BY LinkedVariables
<1>2. identify[c] = None /\ toNode[c] = <<>>
  BY LinkedVariables
<1>3. Linked(Center)'
  <2>1. \A n \in Node : center'[n] # None =>
          owner'[center'[n]] = n /\ stage'[center'[n]] # "unused"
    BY <1>1, LinkedVariables
  <2>2. \A d \in Conn : identify'[d] # None =>
          \/ stage'[d] = "open" /\ identify'[d] = owner'[d]
          \/ stage'[d] = "auto" /\ owner'[d] = None
    BY <1>1, <1>2, LinkedVariables
  <2>3. \A d \in Conn : stage'[d] = "unused" => owner'[d] = None
    BY <1>1, LinkedVariables
  <2>4. \A n \in Node : shell'[n] # None => identify'[shell'[n]] = n
    BY LinkedVariables
  <2>5. \A d \in Conn :
          stage'[d] \in {"unused", "connecting", "manager"} => toNode'[d] = <<>>
    BY <1>1, <1>2, LinkedVariables
  <2>6. \A d \in Conn : HelloFirst(toNode'[d])
    BY LinkedVariables
  <2> QED BY <2>1, <2>2, <2>3, <2>4, <2>5, <2>6, LinkedAfter
<1> QED BY <1>3 DEF InContact, NoticesTo, Notices

LEMMA CenterRefusesShows ==
    ASSUME DInv, NEW c \in Conn, CenterRefuses(c)
    PROVE  Linked(Center)' /\ [Directory!Next]_(Directory!directoryVars)
BY StageShows, Unseen DEF CenterRefuses

LEMMA IoWriteShows ==
    ASSUME DInv, NEW c \in Conn, IoWrite(c)
    PROVE  Linked(Center)' /\ [Directory!Next]_(Directory!directoryVars)
BY StageShows, Unseen DEF IoWrite

\* A step that changes what is under way to the Center and the routes at most.
LEMMA QuietShows ==
    ASSUME DInv, UNCHANGED <<nodeInfo, shell, identify, stage, toNode, owner, center, nodeId>>
    PROVE  Linked(Center)' /\ InContact' = InContact /\ NoticesTo' = NoticesTo
<1>1. Linked(Center)'
  BY LinkedVariables, LinkedAfter
<1> QED BY <1>1 DEF InContact, NoticesTo, Notices

LEMMA ReportShows ==
    ASSUME DInv, NEW n \in Node, Report(n)
    PROVE  Linked(Center)' /\ [Directory!Next]_(Directory!directoryVars)
BY QuietShows DEF Report, Directory!directoryVars

LEMMA RestartWorkerShows ==
    ASSUME DInv, NEW n \in Node, RestartWorker(n)
    PROVE  Linked(Center)' /\ [Directory!Next]_(Directory!directoryVars)
<1>1. /\ routes' = [routes EXCEPT ![n] = {}]
      /\ UNCHANGED <<nodeInfo, shell, identify, stage, toNode, owner, center, nodeId>>
  BY DEF RestartWorker
<1>2. Linked(Center)' /\ InContact' = InContact /\ NoticesTo' = NoticesTo
  BY <1>1, QuietShows
<1>3. Directory!Forget(n)
  BY <1>1, <1>2 DEF Directory!Forget
<1> QED BY <1>2, <1>3 DEF Directory!Next

LEMMA CenterRestartShows ==
    ASSUME DInv, CenterRestart
    PROVE  Linked(Center)' /\ [Directory!Next]_(Directory!directoryVars)
<1>1. /\ nodeInfo' = [n \in Node |-> 0]
      /\ shell' = [n \in Node |-> None] /\ identify' = [c \in Conn |-> None]
      /\ stage' = [c \in Conn |-> IF stage[c] \in {"open", "auto"} THEN "dead" ELSE stage[c]]
      /\ UNCHANGED <<toNode, owner, center, nodeId, routes>>
  BY DEF CenterRestart
<1>2. Linked(Center)'
  <2>1. \A n \in Node : center'[n] # None =>
          owner'[center'[n]] = n /\ stage'[center'[n]] # "unused"
    BY <1>1, LinkedVariables
  <2>2. \A d \in Conn :
          /\ identify'[d] = None
          /\ stage'[d] = "unused" => owner'[d] = None
          /\ stage'[d] \in {"unused", "connecting", "manager"} => toNode'[d] = <<>>
          /\ HelloFirst(toNode'[d])
    BY <1>1, LinkedVariables
  <2>3. \A n \in Node : shell'[n] = None
    BY <1>1
  <2> QED BY <2>1, <2>2, <2>3, LinkedAfter
<1>3. InContact' = {} /\ NoticesTo' = NoticesTo
  BY <1>1 DEF InContact, NoticesTo, Notices
<1>4. Directory!Restart
  BY <1>1, <1>3 DEF Directory!Restart
<1> QED BY <1>2, <1>4 DEF Directory!Next

LEMMA ConnectShows ==
    ASSUME DInv, NEW n \in Node, NEW c \in Conn, Connect(n, c)
    PROVE  Linked(Center)' /\ [Directory!Next]_(Directory!directoryVars)
<1>1. /\ center[n] = None /\ stage[c] = "unused"
      /\ center' = [center EXCEPT ![n] = c] /\ owner' = [owner EXCEPT ![c] = n]
      /\ stage' = [stage EXCEPT ![c] = "connecting"]
      /\ UNCHANGED <<nodeInfo, shell, identify, toNode, nodeId, routes>>
  BY DEF Connect
<1>2. owner[c] = None /\ identify[c] = None /\ toNode[c] = <<>> /\ c # None /\ n # None
  BY <1>1, LinkedVariables, NodeAssumption
<1>3. /\ \A k \in Node : center'[k] = IF k = n THEN c ELSE center[k]
      /\ \A d \in Conn : owner'[d] = IF d = c THEN n ELSE owner[d]
      /\ \A d \in Conn : stage'[d] = IF d = c THEN "connecting" ELSE stage[d]
  BY <1>1, LinkedVariables
<1>4. Linked(Center)'
  <2>1. \A k \in Node : center'[k] # None =>
          owner'[center'[k]] = k /\ stage'[center'[k]] # "unused"
    BY <1>1, <1>3, LinkedVariables
  <2>2. \A d \in Conn : identify'[d] # None =>
          \/ stage'[d] = "open" /\ identify'[d] = owner'[d]
          \/ stage'[d] = "auto" /\ owner'[d] = None
    BY <1>1, <1>2, <1>3, LinkedVariables
  <2>3. \A d \in Conn : stage'[d] = "unused" => owner'[d] = None
    BY <1>3, LinkedVariables
  <2>4. \A k \in Node : shell'[k] # None => identify'[shell'[k]] = k
    BY <1>1, LinkedVariables
  <2>5. \A d \in Conn :
          stage'[d] \in {"unused", "connecting", "manager"} => toNode'[d] = <<>>
    BY <1>1, <1>2, <1>3, LinkedVariables
  <2>6. \A d \in Conn : HelloFirst(toNode'[d])
    BY <1>1, LinkedVariables
  <2> QED BY <2>1, <2>2, <2>3, <2>4, <2>5, <2>6, LinkedAfter
<1>5. InContact' = InContact
  <2>1. shell[n] # c
    BY <1>2, LinkedVariables
  <2>2. \A k \in Node : (shell'[k] # None /\ shell'[k] = center'[k])
                        <=> (shell[k] # None /\ shell[k] = center[k])
    BY <1>1, <1>3, <2>1
  <2> QED BY <2>2 DEF InContact
<1>6. \A k \in Node : NoticesTo'[k] = NoticesTo[k]
  <2>1. Notices(<<>>) = <<>>
    BY DEF Notices
  <2>2. \A k \in Node : NoticesTo'[k] = IF center'[k] = None THEN <<>> ELSE Notices(toNode[center'[k]])
    BY <1>1 DEF NoticesTo, Notices
  <2> QED BY <1>1, <1>2, <1>3, <2>1, <2>2 DEF NoticesTo
<1> QED BY <1>1, <1>4, <1>5, <1>6, Unseen

\* A message is read: what is under way behind it are notices.
LEMMA NoticesRead ==
    ASSUME NEW q \in Seq(Message), q # <<>>, HelloFirst(q)
    PROVE  /\ HelloFirst(Tail(q))
           /\ Notices(Tail(q)) = Tail(q)
           /\ Notices(q) = IF Head(q).kind = "connect" THEN Tail(q) ELSE q
<1>1. /\ Len(q) \in Nat \ {0} /\ DOMAIN q = 1 .. Len(q)
      /\ Tail(q) \in Seq(Message) /\ DOMAIN Tail(q) = 1 .. Len(q) - 1
      /\ \A i \in 1 .. Len(q) - 1 : Tail(q)[i] = q[i + 1]
  <2>1. Len(q) \in Nat \ {0} /\ DOMAIN q = 1 .. Len(q)
    BY EmptySeq, LenProperties
  <2>2. Tail(q) \in Seq(Message) /\ Len(Tail(q)) = Len(q) - 1
        /\ \A i \in 1 .. Len(Tail(q)) : Tail(q)[i] = q[i + 1]
    BY HeadTailProperties
  <2> QED BY <2>1, <2>2, LenProperties
<1>2. ASSUME NEW i \in DOMAIN Tail(q) PROVE Tail(q)[i].kind # "connect"
  <2>1. i + 1 \in DOMAIN q /\ i + 1 # 1 /\ Tail(q)[i] = q[i + 1]
    BY <1>1
  <2> QED BY <2>1 DEF HelloFirst
<1>3. Tail(q) # <<>> => Head(Tail(q)).kind # "connect"
  <2> SUFFICES ASSUME Tail(q) # <<>> PROVE Head(Tail(q)).kind # "connect"
    OBVIOUS
  <2>1. Len(Tail(q)) \in Nat \ {0}
    BY <1>1, EmptySeq
  <2>2. 1 \in DOMAIN Tail(q) /\ Head(Tail(q)) = Tail(q)[1]
    BY <1>1, <2>1, LenProperties
  <2> QED BY <1>2, <2>2
<1> QED BY <1>2, <1>3 DEF HelloFirst, Notices

LEMMA DisposeDataFromCenterShows ==
    ASSUME DInv, NEW n \in Node, DisposeDataFromCenter(n)
    PROVE  Linked(Center)' /\ [Directory!Next]_(Directory!directoryVars)
<1> DEFINE c == center[n]
           q == toNode[c]
           m == Head(q)
<1>1. /\ c # None /\ q # <<>> /\ toNode' = [toNode EXCEPT ![c] = Tail(@)]
      /\ nodeId' = IF m.kind = "id" THEN [nodeId EXCEPT ![n] = m.id] ELSE nodeId
      /\ routes' = [routes EXCEPT ![n] = CASE m.kind = "reg" -> @ \cup m.nodes
                                           [] m.kind = "exit" -> @ \ m.nodes
                                           [] OTHER -> @]
      /\ UNCHANGED <<nodeInfo, shell, identify, stage, owner, center>>
  BY DEF DisposeDataFromCenter
<1>2. /\ c \in Conn /\ owner[c] = n /\ q \in Seq(Message) /\ HelloFirst(q)
      /\ routes \in [Node -> SUBSET Node]
  BY <1>1, LinkedVariables
<1> DEFINE b == Tail(q)
<1>3. /\ HelloFirst(b) /\ Notices(b) = b
      /\ Notices(q) = IF m.kind = "connect" THEN b ELSE q
  <2> HIDE DEF q
  <2> QED BY <1>1, <1>2, NoticesRead
<1>4. \A d \in Conn : toNode'[d] = IF d = c THEN b ELSE toNode[d]
  BY <1>1, LinkedVariables
<1> HIDE DEF b, m
<1>5. Linked(Center)'
  <2>1. \A k \in Node : center'[k] # None =>
          owner'[center'[k]] = k /\ stage'[center'[k]] # "unused"
    BY <1>1, LinkedVariables
  <2>2. \A d \in Conn : identify'[d] # None =>
          \/ stage'[d] = "open" /\ identify'[d] = owner'[d]
          \/ stage'[d] = "auto" /\ owner'[d] = None
    BY <1>1, LinkedVariables
  <2>3. \A d \in Conn : stage'[d] = "unused" => owner'[d] = None
    BY <1>1, LinkedVariables
  <2>4. \A k \in Node : shell'[k] # None => identify'[shell'[k]] = k
    BY <1>1, LinkedVariables
  <2>5. \A d \in Conn :
          stage'[d] \in {"unused", "connecting", "manager"} => toNode'[d] = <<>>
    <3>1. stage[c] \notin {"unused", "connecting", "manager"}
      BY <1>1, <1>2, LinkedVariables
    <3> QED BY <1>1, <1>4, <3>1, LinkedVariables
  <2>6. \A d \in Conn : HelloFirst(toNode'[d])
    BY <1>3, <1>4, LinkedVariables
  <2> QED BY <2>1, <2>2, <2>3, <2>4, <2>5, <2>6, LinkedAfter
<1>6. InContact' = InContact
  BY <1>1 DEF InContact
<1>7. \A k \in Node : k # n /\ center[k] # None => center[k] \in Conn /\ center[k] # c
  BY <1>2, LinkedVariables
<1>8. /\ \A k \in Node : k # n => NoticesTo'[k] = NoticesTo[k]
      /\ NoticesTo'[n] = b /\ NoticesTo[n] = Notices(q)
  <2>1. \A k \in Node : NoticesTo'[k] = IF center[k] = None THEN <<>> ELSE Notices(toNode'[center[k]])
    BY <1>1 DEF NoticesTo, Notices
  <2>2. \A k \in Node : NoticesTo[k] = IF center[k] = None THEN <<>> ELSE Notices(toNode[center[k]])
    BY DEF NoticesTo
  <2>3. NoticesTo'[n] = Notices(b) /\ NoticesTo[n] = Notices(q)
    BY <1>1, <1>2, <1>4, <2>1, <2>2
  <2>4. \A k \in Node : k # n => NoticesTo'[k] = NoticesTo[k]
    BY <1>4, <1>7, <2>1, <2>2
  <2> QED BY <1>3, <2>3, <2>4
<1>9. CASE m.kind = "connect"
  <2>1. nodeId' = nodeId
    BY <1>1, <1>9
  <2>2. routes' = routes
    <3>1. (CASE m.kind = "reg" -> routes[n] \cup m.nodes
             [] m.kind = "exit" -> routes[n] \ m.nodes
             [] OTHER -> routes[n]) = routes[n]
      BY <1>9
    <3>2. routes' = [routes EXCEPT ![n] = CASE m.kind = "reg" -> routes[n] \cup m.nodes
                                            [] m.kind = "exit" -> routes[n] \ m.nodes
                                            [] OTHER -> routes[n]]
      BY <1>1
    <3> QED BY <1>2, <3>1, <3>2
  <2>3. \A k \in Node : NoticesTo'[k] = NoticesTo[k]
    BY <1>3, <1>8, <1>9
  <2> QED BY <1>1, <1>5, <1>6, <2>1, <2>2, <2>3, Unseen
<1>10. CASE m.kind # "connect"
  <2>1. NoticesTo[n] = q /\ NoticesTo'[n] = Tail(NoticesTo[n])
    BY <1>3, <1>8, <1>10 DEF b
  <2>2. NoticesTo' = [NoticesTo EXCEPT ![n] = Tail(@)]
    BY <1>8, <2>1 DEF NoticesTo
  <2>3. Head(NoticesTo[n]) = m /\ NoticesTo[n] # <<>>
    BY <1>1, <2>1 DEF m
  <2>4. Directory!Learn(n)
    BY <1>1, <1>6, <2>2, <2>3 DEF Directory!Learn
  <2> QED BY <1>5, <2>4 DEF Directory!Next
<1> QED BY <1>9, <1>10

LEMMA ManagerEofShows ==
    ASSUME DInv, NEW n \in Node, ManagerEof(n)
    PROVE  Linked(Center)' /\ [Directory!Next]_(Directory!directoryVars)
<1>1. /\ center[n] # None /\ stage[center[n]] = "dead" /\ toNode[center[n]] = <<>>
      /\ center' = [center EXCEPT ![n] = None]
      /\ UNCHANGED <<nodeInfo, shell, identify, stage, toNode, owner, nodeId, routes>>
  BY DEF ManagerEof, centerVars
<1>2. \A k \in Node : center'[k] = IF k = n THEN None ELSE center[k]
  BY <1>1, LinkedVariables
<1>3. Linked(Center)'
  <2>1. \A k \in Node : center'[k] # None =>
          owner'[center'[k]] = k /\ stage'[center'[k]] # "unused"
    BY <1>1, <1>2, LinkedVariables
  <2> QED BY <1>1, <2>1, LinkedVariables, LinkedAfter
<1>4. InContact' = InContact
  <2>1. n \notin InContact
    BY <1>1, ContactIsOpen
  <2>2. \A k \in Node : (shell'[k] # None /\ shell'[k] = center'[k]) <=> k \in InContact
    BY <1>1, <1>2, <2>1 DEF InContact
  <2> QED BY <2>2 DEF InContact
<1>5. \A k \in Node : NoticesTo'[k] = NoticesTo[k]
  <2>1. Notices(<<>>) = <<>>
    BY DEF Notices
  <2>2. \A k \in Node : NoticesTo'[k] = IF center'[k] = None THEN <<>> ELSE Notices(toNode[center'[k]])
    BY <1>1 DEF NoticesTo, Notices
  <2> QED BY <1>1, <1>2, <2>1, <2>2 DEF NoticesTo
<1> QED BY <1>1, <1>3, <1>4, <1>5, Unseen

LEMMA ManagerDropsShows ==
    ASSUME DInv, NEW n \in Node, ManagerDrops(n)
    PROVE  Linked(Center)' /\ [Directory!Next]_(Directory!directoryVars)
<1> DEFINE c == center[n]
<1>1. /\ c # None /\ center' = [center EXCEPT ![n] = None]
      /\ toNode' = [toNode EXCEPT ![c] = <<>>]
      /\ stage' = [stage EXCEPT ![c] = IF @ = "connecting" THEN "dead" ELSE @]
      /\ UNCHANGED <<nodeInfo, shell, identify, owner, nodeId, routes>>
  BY DEF ManagerDrops
<1>2. c \in Conn /\ owner[c] = n
  BY <1>1, LinkedVariables
<1>3. /\ \A k \in Node : center'[k] = IF k = n THEN None ELSE center[k]
      /\ \A d \in Conn : toNode'[d] = IF d = c THEN <<>> ELSE toNode[d]
      /\ \A d \in Conn : stage'[d] = stage[d] \/ (stage[d] = "connecting" /\ stage'[d] = "dead")
  BY <1>1, LinkedVariables
<1> HIDE DEF c
<1>4. Linked(Center)'
  <2>1. \A k \in Node : center'[k] # None =>
          owner'[center'[k]] = k /\ stage'[center'[k]] # "unused"
    BY <1>1, <1>3, LinkedVariables
  <2>2. \A d \in Conn : identify'[d] # None =>
          \/ stage'[d] = "open" /\ identify'[d] = owner'[d]
          \/ stage'[d] = "auto" /\ owner'[d] = None
    BY <1>1, <1>3, LinkedVariables
  <2>3. \A d \in Conn : stage'[d] = "unused" => owner'[d] = None
    BY <1>1, <1>3, LinkedVariables
  <2>4. \A k \in Node : shell'[k] # None => identify'[shell'[k]] = k
    BY <1>1, LinkedVariables
  <2>5. \A d \in Conn :
          stage'[d] \in {"unused", "connecting", "manager"} => toNode'[d] = <<>>
    BY <1>3, LinkedVariables
  <2>6. HelloFirst(<<>>)
    BY DEF HelloFirst
  <2>7. \A d \in Conn : HelloFirst(toNode'[d])
    BY <1>3, <2>6, LinkedVariables
  <2> QED BY <2>1, <2>2, <2>3, <2>4, <2>5, <2>7, LinkedAfter
<1>5. InContact' = InContact \ {n}
  <2>1. \A k \in Node : (shell'[k] # None /\ shell'[k] = center'[k]) <=> k \in InContact \ {n}
    BY <1>1, <1>3 DEF InContact
  <2> QED BY <2>1 DEF InContact
<1>6. NoticesTo' = [NoticesTo EXCEPT ![n] = <<>>]
  <2>1. \A k \in Node : k # n /\ center[k] # None => center[k] \in Conn /\ center[k] # c
    BY <1>2, LinkedVariables
  <2>2. \A k \in Node : NoticesTo'[k] = IF center'[k] = None THEN <<>> ELSE Notices(toNode'[center'[k]])
    BY DEF NoticesTo, Notices
  <2>3. \A k \in Node : NoticesTo'[k] = IF k = n THEN <<>> ELSE NoticesTo[k]
    BY <1>3, <2>1, <2>2 DEF NoticesTo
  <2> QED BY <2>3 DEF NoticesTo
<1>7. Directory!Cut(n)
  BY <1>1, <1>5, <1>6 DEF Directory!Cut
<1> QED BY <1>4, <1>7 DEF Directory!Next

LEMMA InitShows == Init => Linked(Center) /\ Directory!Init
<1> SUFFICES ASSUME Init PROVE Linked(Center) /\ Directory!Init
  OBVIOUS
<1>1. /\ \A n \in Node : center[n] = None /\ shell[n] = None /\ nodeInfo[n] = 0
      /\ \A c \in Conn : identify[c] = None /\ owner[c] = None /\ toNode[c] = <<>>
  BY DEF Init
<1>2. Linked(Center)
  BY <1>1 DEF Linked, Center, HelloFirst
<1>3. InContact = {} /\ NoticesTo = [n \in Node |-> <<>>]
  BY <1>1 DEF InContact, NoticesTo
<1> QED BY <1>2, <1>3 DEF Init, Directory!Init

LEMMA NextShows ==
    DInv /\ [Next]_vars => Linked(Center)' /\ [Directory!Next]_(Directory!directoryVars)
<1> DEFINE Shown == Linked(Center)' /\ [Directory!Next]_(Directory!directoryVars)
<1> SUFFICES ASSUME DInv, [Next]_vars PROVE Shown
  OBVIOUS
<1> HIDE DEF Shown
<1>1. ASSUME NEW c \in Conn, CenterTransfer(c) PROVE Shown
  BY <1>1, CenterTransferShows DEF Shown
<1>2. ASSUME NEW c \in Conn, CenterRefuses(c) PROVE Shown
  BY <1>2, CenterRefusesShows DEF Shown
<1>3. ASSUME NEW c \in Conn, CenterRead(c) PROVE Shown
  BY <1>3, RecvTellShows, RecvRegisterShows, RecvReportShows, DestroyShows
     DEF CenterRead, Shown
<1>4. ASSUME NEW c \in Conn, CenterDrops(c) PROVE Shown
  BY <1>4, DestroyShows DEF Shown
<1>5. CASE CenterRestart
  BY <1>5, CenterRestartShows DEF Shown
<1>6. ASSUME NEW n \in Node, NEW c \in Conn, Connect(n, c) PROVE Shown
  BY <1>6, ConnectShows DEF Shown
<1>7. ASSUME NEW n \in Node, Report(n) PROVE Shown
  BY <1>7, ReportShows DEF Shown
<1>8. ASSUME NEW n \in Node, RestartWorker(n) PROVE Shown
  BY <1>8, RestartWorkerShows DEF Shown
<1>9. ASSUME NEW c \in Conn, IoWrite(c) PROVE Shown
  BY <1>9, IoWriteShows DEF Shown
<1>10. ASSUME NEW n \in Node, DisposeDataFromCenter(n) PROVE Shown
  BY <1>10, DisposeDataFromCenterShows DEF Shown
<1>11. ASSUME NEW n \in Node, ManagerEof(n) PROVE Shown
  BY <1>11, ManagerEofShows DEF Shown
<1>12. ASSUME NEW n \in Node, ManagerDrops(n) PROVE Shown
  BY <1>12, ManagerDropsShows DEF Shown
<1>13. CASE UNCHANGED vars
  BY <1>13, QuietShows DEF vars, Shown, Directory!directoryVars
<1> QED
  BY <1>1, <1>2, <1>3, <1>4, <1>5, <1>6, <1>7, <1>8, <1>9, <1>10, <1>11, <1>12, <1>13
     DEF Next

\* The registry implements NodeDirectory, whether the database fails or not:
\* a node enters under an identifier of its own, leaves with the connection it
\* is identified by, and exactly the nodes in contact that need it are told, in
\* that order (NodeRegMgr.cpp:302, CmdNodeDisconnect.cpp:151).
THEOREM RegistryIsDirectory == Spec => IsDirectory
<1>1. Init => Linked(Center) /\ Directory!Init
  BY InitShows
<1>2. IInv /\ Linked(Center) /\ [Next]_vars
        => Linked(Center)' /\ [Directory!Next]_(Directory!directoryVars)
  BY NextShows DEF DInv
<1>3. Spec => []IInv
  BY RegistryInvariant
<1> QED
  BY <1>1, <1>2, <1>3, PTL DEF Spec, IsDirectory, Directory!Spec

=============================================================================
