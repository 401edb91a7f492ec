--------------------------- MODULE MCNodeRegistry ---------------------------
(* Values of the constants of NodeRegistry for TLC.                        *)
EXTENDS NodeRegistry, TLC

CONSTANTS a, b, c1, c2, c3

EachOther == a :> {b} @@ b :> {a}
OneNeeds == a :> {b} @@ b :> {}

\* Connections that were not used are alike: the first of them is opened next.
Order == <<c1, c2, c3>>
InOrder ==
    \A i \in 1 .. 2 : stage[Order[i + 1]] # "unused" => stage[Order[i]] # "unused"

\* CenterRead(c) has something to do.  This is ENABLED CenterRead(c), which TLC
\* is slow to evaluate, as the handlers call each other.
Readable(c) ==
    \/ stage[c] = "open" /\ (toCenter[c] # <<>> \/ ~Listens(c))
    \/ stage[c] = "auto"

\* CenterLoop, with Readable for ENABLED.
MCCenterLoop == \A c \in Conn : []<>~Readable(c) \/ []<><<CenterRead(c)>>_vars

MCSpec == Spec /\ MCCenterLoop /\ ManagerLoops

ConnSymmetry == Permutations(Conn)
=============================================================================
