---------------------------- MODULE NodeDirectory ----------------------------
(***************************************************************************)
(* What the registry of nodes promises, whatever connections come and go:  *)
(* a node enters it under an identifier no registered node has, and leaves *)
(* it.  Whoever enters is told its identifier and the registered nodes it  *)
(* needs, if it can be reached.  Every node that is registered, in contact *)
(* and needs the one that enters or leaves is told so, in the order of     *)
(* these events, and nobody else is told anything.  What a node has routes *)
(* to is what it has read, in that order.                                  *)
(*                                                                         *)
(* A node that enters while an older connection of it is still known       *)
(* leaves with that one, at once.                                          *)
(***************************************************************************)
EXTENDS Naturals, Sequences

CONSTANTS
    Node, Needs,
    Silent      \* whether a node may leave and nobody is told

VARIABLES
    id,         \* id[n]: n's identifier, 0 if n is not registered
    contact,    \* the nodes whose connection the registry knows and they use
    news,       \* news[n]: what n has been told and has not read
    nodeId,     \* nodeId[n]: the identifier n has read
    routes      \* routes[n]: the nodes n has routes to

directoryVars == <<id, contact, news, nodeId, routes>>

You(i) == [kind |-> "id", id |-> i]
In(nodes) == [kind |-> "reg", nodes |-> nodes]
Out(n) == [kind |-> "exit", nodes |-> {n}]

Init ==
    /\ id = [n \in Node |-> 0]
    /\ contact = {}
    /\ news = [n \in Node |-> <<>>]
    /\ nodeId = [n \in Node |-> 0]
    /\ routes = [n \in Node |-> {}]

\* Who is told about n, and what a node that enters needs.
Audience(n) == {m \in contact : id[m] # 0 /\ n \in Needs[m]}
Needed(n) == {m \in Needs[n] : id[m] # 0}

\* The identifier n keeps, or one beyond those in use.
Identifiers(n) ==
    IF id[n] # 0 THEN {id[n]}
    ELSE {i \in {1} \cup {id[m] + 1 : m \in Node} : \A m \in Node : id[m] < i}

\* The audience of n is told told, and n, if it can be reached, is answered.
Spread(n, answer, told) ==
    news' = [m \in Node |-> IF m = n THEN news[m] \o answer
                            ELSE IF m \in Audience(n) THEN news[m] \o told
                            ELSE news[m]]

\* n is in contact from now on, or as it was.
Enter(n) ==
    \E i \in Identifiers(n) :
        /\ id' = [id EXCEPT ![n] = i]
        /\ contact' \in {contact, contact \cup {n}}
        /\ \E answer \in {<<>>, <<You(i), In(Needed(n))>>} : Spread(n, answer, <<In({n})>>)
    /\ UNCHANGED <<nodeId, routes>>

Farewell(n) == {<<Out(n)>>} \cup (IF Silent THEN {<<>>} ELSE {})

Leave(n) ==
    /\ id[n] # 0
    /\ id' = [id EXCEPT ![n] = 0]
    /\ contact' = contact \ {n}
    /\ \E told \in Farewell(n) : Spread(n, <<>>, told)
    /\ UNCHANGED <<nodeId, routes>>

EnterAndLeave(n) ==
    \E i \in Identifiers(n) :
        /\ id' = [id EXCEPT ![n] = 0]
        /\ contact' = contact \ {n}
        /\ \E answer \in {<<>>, <<You(i), In(Needed(n))>>}, told \in Farewell(n) :
            Spread(n, answer, <<In({n})>> \o told)
    /\ UNCHANGED <<nodeId, routes>>

\* The registry knows the connection of n, registered or not.
Meet(n) ==
    /\ contact' = contact \cup {n}
    /\ UNCHANGED <<id, news, nodeId, routes>>

\* A node that is not registered loses contact.
Part(n) ==
    /\ id[n] = 0
    /\ contact' = contact \ {n}
    /\ UNCHANGED <<id, news, nodeId, routes>>

\* The registry starts again, empty.
Restart ==
    /\ id' = [n \in Node |-> 0]
    /\ contact' = {}
    /\ UNCHANGED <<news, nodeId, routes>>

Learn(n) ==
    /\ news[n] # <<>>
    /\ news' = [news EXCEPT ![n] = Tail(@)]
    /\ LET m == Head(news[n]) IN
        /\ nodeId' = IF m.kind = "id" THEN [nodeId EXCEPT ![n] = m.id] ELSE nodeId
        /\ routes' = [routes EXCEPT ![n] = CASE m.kind = "reg" -> @ \cup m.nodes
                                             [] m.kind = "exit" -> @ \ m.nodes
                                             [] OTHER -> @]
    /\ UNCHANGED <<id, contact>>

\* The workers of n are new ones.
Forget(n) ==
    /\ routes' = [routes EXCEPT ![n] = {}]
    /\ UNCHANGED <<id, contact, news, nodeId>>

\* n gives its connection up, with what it has not read; the registry does not
\* know yet.
Cut(n) ==
    /\ news' = [news EXCEPT ![n] = <<>>]
    /\ contact' = contact \ {n}
    /\ UNCHANGED <<id, nodeId, routes>>

Next ==
    \/ \E n \in Node :
        \/ Enter(n) \/ Leave(n) \/ EnterAndLeave(n)
        \/ Meet(n) \/ Part(n)
        \/ Learn(n) \/ Forget(n) \/ Cut(n)
    \/ Restart

Spec == Init /\ [][Next]_directoryVars
=============================================================================
