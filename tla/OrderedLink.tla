----------------------------- MODULE OrderedLink -----------------------------
(***************************************************************************)
(* What a connection between two workers promises to the code that calls   *)
(* SendTo: each of its two directions is a queue.  Messages are dispatched *)
(* in the order in which SendTo accepted them and at most once.  When the  *)
(* reading end stops, what is pending may be lost from its front and       *)
(* nothing behind the loss is dispatched; when the sending end stops, what *)
(* it had not written yet is lost from the back and it accepts no more.    *)
(* So what is dispatched is always a prefix of what was accepted.          *)
(***************************************************************************)
EXTENDS Naturals, Sequences

CONSTANTS Worker, Conn, Message

VARIABLES
    pending,    \* pending[w][c]: accepted for worker w on c, not yet dispatched
    got,        \* got[w][c]: dispatched at w from c
    cut,        \* cut[w][c]: w reads nothing more from c
    shut        \* shut[w][c]: the other end of c writes nothing more to w

linkVars == <<pending, got, cut, shut>>

Init ==
    /\ pending = [w \in Worker |-> [c \in Conn |-> <<>>]]
    /\ got = [w \in Worker |-> [c \in Conn |-> <<>>]]
    /\ cut = [w \in Worker |-> [c \in Conn |-> FALSE]]
    /\ shut = [w \in Worker |-> [c \in Conn |-> FALSE]]

Accept(w, c) ==
    /\ ~shut[w][c]
    /\ \E m \in Message : pending' = [pending EXCEPT ![w][c] = Append(@, m)]
    /\ UNCHANGED <<got, cut, shut>>

Dispatch(w, c) ==
    /\ ~cut[w][c]
    /\ pending[w][c] # <<>>
    /\ pending' = [pending EXCEPT ![w][c] = Tail(@)]
    /\ got' = [got EXCEPT ![w][c] = Append(@, Head(pending[w][c]))]
    /\ UNCHANGED <<cut, shut>>

\* new is what is left of old: the front may go only if front, the back only
\* if back.
Remains(new, old, front, back) ==
    \E i \in 1 .. Len(old) + 1, j \in 0 .. Len(old) :
        /\ new = SubSeq(old, i, j)
        /\ front \/ i = 1
        /\ back \/ j = Len(old)

\* Some ends stop, for good.
Stop ==
    /\ \A w \in Worker, c \in Conn :
        /\ cut[w][c] => cut'[w][c]
        /\ shut[w][c] => shut'[w][c]
        /\ Remains(pending'[w][c], pending[w][c], cut'[w][c], shut'[w][c])
    /\ UNCHANGED got

Next ==
    \/ \E w \in Worker, c \in Conn : Accept(w, c) \/ Dispatch(w, c)
    \/ Stop

Spec == Init /\ [][Next]_linkVars
=============================================================================
