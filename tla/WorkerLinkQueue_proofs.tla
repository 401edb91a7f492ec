---------------------- MODULE WorkerLinkQueue_proofs ------------------------
(***************************************************************************)
(* Proofs about what travels on the connections of WorkerLink: a message   *)
(* SendTo accepted exists once (AtMostOnce), whatever fails; and when no   *)
(* handshake step times out, each direction of a connection is the queue   *)
(* OrderedLink describes (Ordered).                                        *)
(*                                                                         *)
(* A direction of a connection is a lane: what waits at the sending end,   *)
(* what is on its way, what the receiving end dispatched.  A step of the   *)
(* system accepts a message on one lane, dispatches one of one lane, or    *)
(* does neither and only moves or loses what the lanes hold (StepFlows).   *)
(***************************************************************************)
EXTENDS WorkerLink_proofs, FiniteSetTheorems, WellFoundedInduction

-----------------------------------------------------------------------------
(* A direction of a connection by itself.                                  *)

\* cut and shut: the reading and the sending end are closed for good.
LaneType == [wait : Seq(Msg), wire : Seq(Msg), got : Seq(Nat),
             cut : BOOLEAN, shut : BOOLEAN, early : BOOLEAN, ready : BOOLEAN]

Lane(s, r, c) ==
    [wait |-> fdAttr[s][c].wait, wire |-> wire[r][c], got |-> got[r][c],
     cut |-> Ended(r, c) \/ carrier[c] = "dead", shut |-> Ended(s, c),
     early |-> carrier[c] \in {"connecting", "manager", "passed"},
     ready |-> fdAttr[s][c].status >= RSP_TELL]

Nothing ==
    [wait |-> <<>>, wire |-> <<>>, got |-> <<>>,
     cut |-> FALSE, shut |-> FALSE, early |-> FALSE, ready |-> FALSE]

\* The lane on which w sends on c.
Out(w, c) == IF IsEnd(w, c) THEN Lane(w, Peer(w, c), c) ELSE Nothing

-----------------------------------------------------------------------------
(* What a step may do to a lane.                                           *)

Same(x, y) ==
    /\ y.wait = x.wait /\ y.wire = x.wire /\ y.got = x.got
    /\ y.cut = x.cut /\ y.shut = x.shut

\* Ends close, and what they held or had still to read is lost.
Loses(x, y) ==
    /\ y.got = x.got
    /\ y.wait = x.wait \/ (y.wait = <<>> /\ y.shut)
    /\ y.wire = x.wire \/ (y.wire = <<>> /\ (y.cut \/ x.early))
    /\ x.cut => y.cut
    /\ x.shut => y.shut
    /\ y.cut => x.cut \/ x.early \/ y.wire = <<>>

\* The Manager reads the front of what arrived, and passes the rest on.
Skips(x, y) ==
    /\ x.early
    /\ \E n \in 1 .. Len(x.wire) : y.wire = SubSeq(x.wire, n + 1, Len(x.wire))
    /\ y.wait = x.wait /\ y.got = x.got /\ y.cut = x.cut /\ y.shut = x.shut

Handshake == {Control(REQ_CONNECT), Control(RSP_CONNECT), Control(REQ_TELL),
              Control(RSP_TELL), Control(SYS_ERROR)}

Talks(x, y) ==
    /\ \E m \in Handshake : y.wire = Append(x.wire, m)
    /\ y.wait = x.wait /\ y.got = x.got
    /\ x.cut => y.cut
    /\ x.shut => y.shut
    /\ y.cut => x.cut \/ x.early

\* A message is taken and not dispatched.
Takes(x, y) ==
    /\ x.wire # <<>>
    /\ Head(x.wire).cmd # DataCmd \/ DataCmd = SYS_ERROR
    /\ y.wire = Tail(x.wire)
    /\ y.wait = x.wait /\ y.got = x.got /\ y.cut = x.cut /\ y.shut = x.shut

Flushes(x, y) ==
    /\ y.wait = <<>>
    /\ y.wire = IF x.cut THEN x.wire ELSE x.wire \o x.wait
    /\ y.got = x.got /\ y.cut = x.cut /\ y.shut = x.shut

Moves(x, y) ==
    Same(x, y) \/ Loses(x, y) \/ Skips(x, y) \/ Talks(x, y) \/ Takes(x, y) \/ Flushes(x, y)

Dispatches(x, y) ==
    /\ x.wire # <<>> /\ Head(x.wire).cmd = DataCmd
    /\ y.wire = Tail(x.wire)
    /\ y.got = Append(x.got, Head(x.wire).id)
    /\ y.wait = x.wait /\ y.cut = x.cut /\ y.shut = x.shut

\* A message is accepted: it waits or, once the handshake is over, is written.
Admits(m, x, y) ==
    /\ \/ y.wait = Append(x.wait, m) /\ y.wire = x.wire
       \/ /\ x.ready /\ y.wait = x.wait
          /\ y.wire = IF x.cut THEN x.wire ELSE Append(x.wire, m)
    /\ ~x.shut
    /\ y.got = x.got /\ y.cut = x.cut /\ y.shut = x.shut

AllMove ==
    /\ nextId' = nextId /\ got' = got
    /\ \A v \in Worker, d \in Conn : Moves(Out(v, d), Out(v, d)')

OthersSame(w, c) ==
    \A v \in Worker, d \in Conn : v # w \/ d # c => Same(Out(v, d), Out(v, d)')

OneDispatches(w, c) ==
    /\ nextId' = nextId
    /\ got' = [got EXCEPT ![Peer(w, c)][c] = Append(@, Head(Out(w, c).wire).id)]
    /\ Dispatches(Out(w, c), Out(w, c)')
    /\ OthersSame(w, c)

OneAdmits(w, c) ==
    /\ nextId[w] < MaxMsg /\ nextId' = [nextId EXCEPT ![w] = @ + 1]
    /\ got' = got
    /\ Admits(NextMsg(w), Out(w, c), Out(w, c)')
    /\ OthersSame(w, c)

Flows ==
    \/ AllMove
    \/ \E w \in Worker, c \in Conn : OneDispatches(w, c) \/ OneAdmits(w, c)

-----------------------------------------------------------------------------
(* The identifiers in a sequence.                                          *)

\* SendTo numbers messages from 1.
Carries(m) == IsData(m) /\ m.id # 0
Full(s) == {i \in 1 .. Len(s) : Carries(s[i])}
IdsIn(s) == {s[i].id : i \in Full(s)}
Differ(s) == \A i, j \in Full(s) : s[i].id = s[j].id => i = j

GotIn(g) == {g[i] : i \in 1 .. Len(g)} \ {0}
GotDiffer(g) == \A i, j \in 1 .. Len(g) : g[i] = g[j] /\ g[i] # 0 => i = j

LEMMA IdsJoined ==
    ASSUME NEW s \in Seq(Msg), NEW u \in Seq(Msg)
    PROVE  /\ s \o u \in Seq(Msg)
           /\ IdsIn(s \o u) = IdsIn(s) \cup IdsIn(u)
           /\ Differ(s) /\ Differ(u) /\ IdsIn(s) \cap IdsIn(u) = {} => Differ(s \o u)
<1> DEFINE t == s \o u  n == Len(s)  k == Len(u)
<1>1. /\ t \in Seq(Msg) /\ Len(t) = n + k /\ n \in Nat /\ k \in Nat
      /\ \A i \in 1 .. n + k : t[i] = IF i <= n THEN s[i] ELSE u[i - n]
  BY ConcatProperties, LenProperties
<1> HIDE DEF t, n, k
<1>2. ASSUME NEW i \in Full(t)
      PROVE  \/ i \in Full(s) /\ t[i] = s[i]
             \/ i > n /\ i - n \in Full(u) /\ t[i] = u[i - n]
  <2>1. i \in 1 .. n + k /\ Carries(t[i])
    BY <1>1 DEF Full
  <2>2. CASE i <= n
    BY <1>1, <2>1, <2>2 DEF Full, n
  <2>3. CASE i > n
    <3>1. i - n \in 1 .. k /\ t[i] = u[i - n]
      BY <1>1, <2>1, <2>3
    <3>2. QED BY <2>1, <2>3, <3>1 DEF Full, k
  <2>4. QED BY <1>1, <2>1, <2>2, <2>3
<1>3. ASSUME NEW i \in Full(s) PROVE i \in Full(t) /\ t[i] = s[i]
  BY <1>1 DEF Full, n
<1>4. ASSUME NEW i \in Full(u) PROVE i + n \in Full(t) /\ t[i + n] = u[i]
  <2>1. i \in 1 .. k /\ Carries(u[i])
    BY DEF Full, k
  <2>2. i + n \in 1 .. n + k /\ t[i + n] = u[i]
    BY <1>1, <2>1
  <2>3. QED BY <1>1, <2>1, <2>2 DEF Full
<1>5. IdsIn(t) = IdsIn(s) \cup IdsIn(u)
  <2>1. ASSUME NEW e \in IdsIn(t) PROVE e \in IdsIn(s) \cup IdsIn(u)
    BY <1>2 DEF IdsIn
  <2>2. ASSUME NEW e \in IdsIn(s) PROVE e \in IdsIn(t)
    BY <1>3 DEF IdsIn
  <2>3. ASSUME NEW e \in IdsIn(u) PROVE e \in IdsIn(t)
    BY <1>4 DEF IdsIn
  <2>4. QED BY <2>1, <2>2, <2>3
<1>6. ASSUME Differ(s), Differ(u), IdsIn(s) \cap IdsIn(u) = {} PROVE Differ(t)
  <2> SUFFICES ASSUME NEW i \in Full(t), NEW j \in Full(t), t[i].id = t[j].id PROVE i = j
    BY DEF Differ
  <2>1. CASE i \in Full(s) /\ t[i] = s[i] /\ j \in Full(s) /\ t[j] = s[j]
    BY <1>6, <2>1 DEF Differ
  <2>2. CASE /\ i > n /\ i - n \in Full(u) /\ t[i] = u[i - n]
             /\ j > n /\ j - n \in Full(u) /\ t[j] = u[j - n]
    <3>1. i - n = j - n
      BY <1>6, <2>2 DEF Differ
    <3>2. i \in Int /\ j \in Int /\ n \in Int
      BY <1>1 DEF Full
    <3>3. QED BY <3>1, <3>2
  <2>3. ASSUME NEW g, NEW h, g \in Full(s), h \in Full(u), s[g].id = u[h].id PROVE FALSE
    BY <1>6, <2>3 DEF IdsIn
  <2>4. QED BY <1>2, <2>1, <2>2, <2>3
<1>7. QED BY <1>1, <1>5, <1>6 DEF t

LEMMA IdsShort ==
    /\ IdsIn(<<>>) = {} /\ Differ(<<>>)
    /\ \A m \in Msg : /\ <<m>> \in Seq(Msg) /\ Differ(<<m>>)
                      /\ IdsIn(<<m>>) = IF Carries(m) THEN {m.id} ELSE {}
<1>1. Full(<<>>) = {}
  BY DEF Full
<1>2. IdsIn(<<>>) = {} /\ Differ(<<>>)
  BY <1>1 DEF IdsIn, Differ
<1>3. ASSUME NEW m \in Msg
      PROVE  /\ <<m>> \in Seq(Msg) /\ Differ(<<m>>)
             /\ IdsIn(<<m>>) = IF Carries(m) THEN {m.id} ELSE {}
  <2>1. Full(<<m>>) = IF Carries(m) THEN {1} ELSE {}
    BY DEF Full
  <2>2. QED BY <2>1 DEF IdsIn, Differ
<1>4. QED BY <1>2, <1>3

LEMMA IdsAppended ==
    ASSUME NEW s \in Seq(Msg), NEW m \in Msg
    PROVE  /\ Append(s, m) \in Seq(Msg)
           /\ IdsIn(Append(s, m)) = IdsIn(s) \cup (IF Carries(m) THEN {m.id} ELSE {})
           /\ Differ(s) /\ m.id \notin IdsIn(s) => Differ(Append(s, m))
           /\ Differ(s) /\ ~Carries(m) => Differ(Append(s, m))
<1>1. Append(s, m) = s \o <<m>>
  OBVIOUS
<1>2. <<m>> \in Seq(Msg) /\ Differ(<<m>>) /\ IdsIn(<<m>>) = IF Carries(m) THEN {m.id} ELSE {}
  BY IdsShort
<1>3. /\ s \o <<m>> \in Seq(Msg)
      /\ IdsIn(s \o <<m>>) = IdsIn(s) \cup IdsIn(<<m>>)
      /\ Differ(s) /\ IdsIn(s) \cap IdsIn(<<m>>) = {} => Differ(s \o <<m>>)
  BY <1>2, IdsJoined
<1>4. QED BY <1>1, <1>2, <1>3

\* t is s without its first n elements.
LEMMA IdsOfRest ==
    ASSUME NEW s \in Seq(Msg), NEW t \in Seq(Msg), NEW n \in Nat,
           Len(s) = Len(t) + n, \A i \in 1 .. Len(t) : t[i] = s[i + n]
    PROVE  /\ IdsIn(t) \subseteq IdsIn(s)
           /\ Differ(s) => Differ(t)
           /\ Differ(s) /\ n > 0 /\ Carries(s[1]) => s[1].id \in IdsIn(s) \ IdsIn(t)
<1>1. Len(t) \in Nat /\ Len(s) \in Nat
  BY LenProperties
<1>2. ASSUME NEW i \in Full(t) PROVE i + n \in Full(s) /\ s[i + n] = t[i] /\ i + n > n
  BY <1>1 DEF Full
<1>3. IdsIn(t) \subseteq IdsIn(s)
  BY <1>2 DEF IdsIn
<1>4. ASSUME Differ(s) PROVE Differ(t)
  <2> SUFFICES ASSUME NEW i \in Full(t), NEW j \in Full(t), t[i].id = t[j].id PROVE i = j
    BY DEF Differ
  <2>1. i + n = j + n
    <3>1. /\ i + n \in Full(s) /\ s[i + n] = t[i]
          /\ j + n \in Full(s) /\ s[j + n] = t[j]
      BY <1>2
    <3>2. s[i + n].id = s[j + n].id
      BY <3>1
    <3> QED BY <1>4, <3>1, <3>2 DEF Differ
  <2>2. i \in Int /\ j \in Int
    BY DEF Full
  <2>3. QED BY <2>1, <2>2
<1>5. ASSUME Differ(s), n > 0, Carries(s[1]) PROVE s[1].id \in IdsIn(s) \ IdsIn(t)
  <2>1. CASE Len(s) = 0
    BY <1>1, <1>5, <2>1
  <2>2. CASE Len(s) > 0
    <3>1. 1 \in Full(s)
      BY <1>1, <1>5, <2>2 DEF Full
    <3>2. ASSUME NEW i \in Full(t), t[i].id = s[1].id PROVE FALSE
      <4>1. i + n = 1
        BY <1>2, <1>5, <3>1, <3>2 DEF Differ
      <4>2. QED BY <1>5, <4>1 DEF Full
    <3>3. QED BY <3>1, <3>2 DEF IdsIn
  <2>3. QED BY <1>1, <2>1, <2>2
<1>6. QED BY <1>3, <1>4, <1>5

LEMMA IdsOfTail ==
    ASSUME NEW s \in Seq(Msg), s # <<>>
    PROVE  /\ Head(s) \in Msg /\ Tail(s) \in Seq(Msg)
           /\ IdsIn(Tail(s)) \subseteq IdsIn(s)
           /\ Differ(s) => Differ(Tail(s))
           /\ Differ(s) /\ Carries(Head(s)) => Head(s).id \in IdsIn(s) \ IdsIn(Tail(s))
<1>1. /\ Head(s) \in Msg /\ Head(s) = s[1]
      /\ Tail(s) \in Seq(Msg)
      /\ Len(Tail(s)) = Len(s) - 1 /\ Len(s) \in Nat \ {0}
      /\ \A i \in 1 .. Len(Tail(s)) : Tail(s)[i] = s[i + 1]
  BY CmdsOfTail
<1> DEFINE t == Tail(s)
<1>2. t \in Seq(Msg) /\ Len(s) = Len(t) + 1 /\ \A i \in 1 .. Len(t) : t[i] = s[i + 1]
  BY <1>1
<1> HIDE DEF t
<1>3. /\ IdsIn(t) \subseteq IdsIn(s)
      /\ Differ(s) => Differ(t)
      /\ Differ(s) /\ Carries(s[1]) => s[1].id \in IdsIn(s) \ IdsIn(t)
  BY <1>2, IdsOfRest
<1>4. QED BY <1>1, <1>3 DEF t

LEMMA IdsOfSkipped ==
    ASSUME NEW s \in Seq(Msg), NEW n \in 1 .. Len(s)
    PROVE  LET t == SubSeq(s, n + 1, Len(s)) IN
           /\ t \in Seq(Msg)
           /\ IdsIn(t) \subseteq IdsIn(s)
           /\ Differ(s) => Differ(t)
<1> DEFINE t == SubSeq(s, n + 1, Len(s))
<1>1. Len(s) \in Nat /\ \A i \in n + 1 .. Len(s) : s[i] \in Msg
  BY LenProperties, ElementOfSeq
<1>2. /\ t \in Seq(Msg)
      /\ Len(t) = IF n + 1 <= Len(s) THEN Len(s) - (n + 1) + 1 ELSE 0
      /\ \A i \in 1 .. Len(s) - (n + 1) + 1 : t[i] = s[(n + 1) + i - 1]
  BY <1>1, SubSeqProperties
<1> HIDE DEF t
<1>3. n \in Nat /\ Len(s) = Len(t) + n /\ \A i \in 1 .. Len(t) : t[i] = s[i + n]
  BY <1>1, <1>2
<1>4. IdsIn(t) \subseteq IdsIn(s) /\ (Differ(s) => Differ(t))
  BY <1>2, <1>3, IdsOfRest
<1>5. QED BY <1>2, <1>4 DEF t

LEMMA GotAppended ==
    ASSUME NEW g \in Seq(Nat), NEW n \in Nat
    PROVE  /\ GotIn(Append(g, n)) = GotIn(g) \cup ({n} \ {0})
           /\ GotDiffer(g) /\ n \notin GotIn(g) => GotDiffer(Append(g, n))
<1> DEFINE h == Append(g, n)
<1>1. /\ Len(g) \in Nat /\ Len(h) = Len(g) + 1
      /\ \A i \in 1 .. Len(g) : h[i] = g[i]
      /\ h[Len(g) + 1] = n
  BY AppendProperties, LenProperties
<1> HIDE DEF h
<1>2. \A i \in 1 .. Len(h) : i \in 1 .. Len(g) \/ i = Len(g) + 1
  BY <1>1
<1>3. \A i \in 1 .. Len(g) : i \in 1 .. Len(h) /\ i # Len(g) + 1
  BY <1>1
<1>4. Len(g) + 1 \in 1 .. Len(h)
  BY <1>1
<1>5. GotIn(h) = GotIn(g) \cup ({n} \ {0})
  <2>1. ASSUME NEW e \in GotIn(h) PROVE e \in GotIn(g) \cup ({n} \ {0})
    BY <1>1, <1>2 DEF GotIn
  <2>2. ASSUME NEW e \in GotIn(g) PROVE e \in GotIn(h)
    BY <1>1, <1>3 DEF GotIn
  <2>3. n # 0 => n \in GotIn(h)
    BY <1>1, <1>4 DEF GotIn
  <2>4. QED BY <2>1, <2>2, <2>3
<1>6. ASSUME GotDiffer(g), n \notin GotIn(g) PROVE GotDiffer(h)
  <2> SUFFICES ASSUME NEW i \in 1 .. Len(h), NEW j \in 1 .. Len(h), h[i] = h[j], h[i] # 0
               PROVE  i = j
    BY DEF GotDiffer
  <2>1. \A k \in 1 .. Len(g) : g[k] # 0 => g[k] # n
    BY <1>6 DEF GotIn
  <2>2. QED BY <1>1, <1>2, <1>6, <2>1 DEF GotDiffer
<1>7. QED BY <1>5, <1>6 DEF h

-----------------------------------------------------------------------------
(* What a lane holds is on it once.                                        *)

LaneIds(x) == IdsIn(x.wait) \cup IdsIn(x.wire) \cup GotIn(x.got)

Once(x) ==
    /\ Differ(x.wait) /\ Differ(x.wire) /\ GotDiffer(x.got)
    /\ IdsIn(x.wait) \cap IdsIn(x.wire) = {}
    /\ IdsIn(x.wait) \cap GotIn(x.got) = {}
    /\ IdsIn(x.wire) \cap GotIn(x.got) = {}
    /\ \A i \in 1 .. Len(x.wait) : IsData(x.wait[i])

LEMMA HandshakeCarries ==
    \A m \in Handshake : m \in Msg /\ ~Carries(m)
BY ControlMsgs DEF Handshake, Control, Carries

LEMMA MovesOnce ==
    ASSUME NEW x \in LaneType, NEW y \in LaneType, Moves(x, y), Once(x)
    PROVE  Once(y) /\ LaneIds(y) \subseteq LaneIds(x)
<1>0. x.wait \in Seq(Msg) /\ x.wire \in Seq(Msg) /\ x.got \in Seq(Nat)
  BY DEF LaneType
<1>1. CASE Same(x, y)
  BY <1>1 DEF Same, Once, LaneIds
<1>2. CASE Loses(x, y)
  BY <1>2, IdsShort DEF Loses, Once, LaneIds
<1>3. CASE Skips(x, y)
  <2>1. IdsIn(y.wire) \subseteq IdsIn(x.wire) /\ Differ(y.wire)
    BY <1>0, <1>3, IdsOfSkipped DEF Skips, Once
  <2>2. QED
    BY <1>3, <2>1 DEF Skips, Once, LaneIds
<1>4. CASE Talks(x, y)
  <2>1. PICK m \in Handshake : y.wire = Append(x.wire, m)
    BY <1>4 DEF Talks
  <2>2. m \in Msg /\ ~Carries(m)
    BY HandshakeCarries
  <2>3. IdsIn(y.wire) = IdsIn(x.wire) /\ Differ(y.wire)
    BY <1>0, <2>1, <2>2, IdsAppended DEF Once
  <2>4. QED
    BY <1>4, <2>3 DEF Talks, Once, LaneIds
<1>5. CASE Takes(x, y)
  <2>1. IdsIn(y.wire) \subseteq IdsIn(x.wire) /\ Differ(y.wire)
    BY <1>0, <1>5, IdsOfTail DEF Takes, Once
  <2>2. QED
    BY <1>5, <2>1 DEF Takes, Once, LaneIds
<1>6. CASE Flushes(x, y)
  <2>1. /\ IdsIn(y.wire) \subseteq IdsIn(x.wire) \cup IdsIn(x.wait)
        /\ Differ(y.wire)
    BY <1>0, <1>6, IdsJoined DEF Flushes, Once
  <2>2. IdsIn(y.wait) = {} /\ Differ(y.wait) /\ y.got = x.got /\ Len(y.wait) = 0
    BY <1>6, IdsShort DEF Flushes
  <2>3. QED
    BY <2>1, <2>2 DEF Once, LaneIds
<1>7. QED
  BY <1>1, <1>2, <1>3, <1>4, <1>5, <1>6 DEF Moves

LEMMA DispatchesOnce ==
    ASSUME NEW x \in LaneType, NEW y \in LaneType, Dispatches(x, y), Once(x)
    PROVE  Once(y) /\ LaneIds(y) \subseteq LaneIds(x)
<1> DEFINE m == Head(x.wire)
<1>0. x.wait \in Seq(Msg) /\ x.wire \in Seq(Msg) /\ x.got \in Seq(Nat) /\ x.wire # <<>>
  BY DEF LaneType, Dispatches
<1>1. /\ m \in Msg
      /\ IdsIn(y.wire) \subseteq IdsIn(x.wire) /\ Differ(y.wire)
      /\ Carries(m) => m.id \in IdsIn(x.wire) \ IdsIn(y.wire)
  <2>1. Differ(x.wire) /\ y.wire = Tail(x.wire)
    BY DEF Dispatches, Once
  <2>2. QED
    BY <1>0, <2>1, IdsOfTail
<1>2. m.id \in Nat /\ (Carries(m) <=> m.id # 0) /\ y.got = Append(x.got, m.id)
  BY <1>1 DEF Msg, Carries, IsData, Dispatches
<1> HIDE DEF m
<1>3. m.id \notin GotIn(x.got)
  BY <1>1, <1>2 DEF Once, GotIn
<1>4. GotIn(y.got) = GotIn(x.got) \cup ({m.id} \ {0}) /\ GotDiffer(y.got)
  BY <1>0, <1>2, <1>3, GotAppended DEF Once
<1>5. y.wait = x.wait
  BY DEF Dispatches
<1>6. QED
  BY <1>1, <1>2, <1>4, <1>5 DEF Once, LaneIds

LEMMA AdmitsOnce ==
    ASSUME NEW x \in LaneType, NEW y \in LaneType, NEW m \in Msg, Admits(m, x, y), Once(x),
           m.cmd = DataCmd, m.id \notin LaneIds(x)
    PROVE  Once(y) /\ LaneIds(y) \subseteq LaneIds(x) \cup {m.id}
<1>0. x.wait \in Seq(Msg) /\ x.wire \in Seq(Msg) /\ y.got = x.got
  BY DEF LaneType, Admits
<1>1. m.id \notin IdsIn(x.wait) /\ m.id \notin IdsIn(x.wire) /\ m.id \notin GotIn(x.got)
  BY DEF LaneIds
<1>2. CASE y.wait = Append(x.wait, m) /\ y.wire = x.wire
  <2>1. IdsIn(y.wait) \subseteq IdsIn(x.wait) \cup {m.id} /\ Differ(y.wait)
    BY <1>0, <1>1, <1>2, IdsAppended DEF Once
  <2>2. \A i \in 1 .. Len(y.wait) : IsData(y.wait[i])
    <3>1. Len(x.wait) \in Nat /\ Len(y.wait) = Len(x.wait) + 1
          /\ y.wait[Len(x.wait) + 1] = m
          /\ \A i \in 1 .. Len(x.wait) : y.wait[i] = x.wait[i]
      BY <1>0, <1>2, AppendProperties, LenProperties
    <3>2. \A i \in 1 .. Len(y.wait) : i \in 1 .. Len(x.wait) \/ i = Len(x.wait) + 1
      BY <3>1
    <3>3. QED BY <3>1, <3>2 DEF Once, IsData
  <2>3. QED
    BY <1>0, <1>1, <1>2, <2>1, <2>2 DEF Once, LaneIds
<1>3. CASE y.wait = x.wait /\ y.wire \in {Append(x.wire, m), x.wire}
  <2>1. IdsIn(y.wire) \subseteq IdsIn(x.wire) \cup {m.id} /\ Differ(y.wire)
    <3>1. Differ(x.wire)
      BY DEF Once
    <3>2. IdsIn(Append(x.wire, m)) \subseteq IdsIn(x.wire) \cup {m.id} /\ Differ(Append(x.wire, m))
      BY <1>0, <1>1, <3>1, IdsAppended
    <3>3. QED
      BY <1>3, <3>1, <3>2
  <2>2. QED
    BY <1>0, <1>1, <1>3, <2>1 DEF Once, LaneIds
<1>4. QED
  BY <1>2, <1>3 DEF Admits

-----------------------------------------------------------------------------
(* The two lanes of a view; g is what its opener dispatched.               *)

NearLane(x) ==
    [wait |-> x.near.wait, wire |-> x.toFar, got |-> x.got,
     cut |-> (~x.far.open /\ x.carrier \in {"worker", "dead"}) \/ x.carrier = "dead",
     shut |-> ~x.near.open,
     early |-> x.carrier \in {"connecting", "manager", "passed"},
     ready |-> x.near.status >= RSP_TELL]

FarLane(x, g) ==
    [wait |-> x.far.wait, wire |-> x.toNear, got |-> g,
     cut |-> ~x.near.open \/ x.carrier = "dead",
     shut |-> ~x.far.open /\ x.carrier \in {"worker", "dead"},
     early |-> x.carrier \in {"connecting", "manager", "passed"},
     ready |-> x.far.status >= RSP_TELL]

BothMove(x, y) ==
    /\ Moves(NearLane(x), NearLane(y))
    /\ \A g \in Seq(Nat) : Moves(FarLane(x, g), FarLane(y, g))

\* The fields a lane is made of.
LEMMA NearSame ==
    ASSUME NEW x, NEW y,
           y.near.wait = x.near.wait, y.near.open = x.near.open, y.far.open = x.far.open,
           y.carrier = x.carrier, y.got = x.got
    PROVE  /\ y.toFar = x.toFar => Same(NearLane(x), NearLane(y))
           /\ \A m \in Handshake :
                y.toFar = Append(x.toFar, m) => Talks(NearLane(x), NearLane(y))
           /\ x.toFar # <<>> /\ Silent(Head(x.toFar)) /\ y.toFar = Tail(x.toFar) =>
                Takes(NearLane(x), NearLane(y))
BY DEF NearLane, Same, Talks, Takes, Silent

LEMMA FarSame ==
    ASSUME NEW x, NEW y, NEW g,
           y.far.wait = x.far.wait, y.near.open = x.near.open, y.far.open = x.far.open,
           y.carrier = x.carrier
    PROVE  /\ y.toNear = x.toNear => Same(FarLane(x, g), FarLane(y, g))
           /\ \A m \in Handshake :
                y.toNear = Append(x.toNear, m) => Talks(FarLane(x, g), FarLane(y, g))
           /\ x.toNear # <<>> /\ Silent(Head(x.toNear)) /\ y.toNear = Tail(x.toNear) =>
                Takes(FarLane(x, g), FarLane(y, g))
BY DEF FarLane, Same, Talks, Takes, Silent

\* A message of the handshake is written, and never waits.
LEMMA ControlSent ==
    ASSUME NEW k \in Attr, NEW cmd \in {REQ_CONNECT, REQ_TELL, RSP_TELL}
    PROVE  LET m == Control(cmd) IN
           /\ m \in Handshake
           /\ AfterSend(k, m).wait = k.wait /\ AfterSend(k, m).open = k.open
           /\ Written(k, m) = <<m>>
<1> DEFINE m == Control(cmd)
<1>1. m \in Msg /\ m.cmd = cmd /\ m \in Handshake
  BY ControlMsgs DEF Control, Handshake
<1>2. m.cmd <= RSP_TELL
  BY <1>1, CmdsDiffer
<1>3. RSP_TELL \in Nat /\ m.cmd \in Nat
  BY <1>1, CmdsDiffer DEF Msg
<1> HIDE DEF m
<1>4. QED
  BY <1>1, <1>2, <1>3, SendIs DEF m

LEMMA WrittenTo ==
    ASSUME NEW x \in View, NEW m
    PROVE  /\ ToFar(x, <<m>>) \in {x.toFar, Append(x.toFar, m)}
           /\ ToNear(x, <<m>>) \in {x.toNear, Append(x.toNear, m)}
<1>1. x.toFar \in Seq(Msg) /\ x.toNear \in Seq(Msg)
  BY DEF View
<1>2. \A s \in Seq(Msg) : s \o <<m>> = Append(s, m)
  OBVIOUS
<1>3. QED
  BY <1>1, <1>2 DEF ToFar, ToNear

LEMMA FarCut ==
    ASSUME NEW x, x.carrier \in {"manager", "passed", "worker", "dead"}
    PROVE  NearLane(x).cut <=> ~FarReads(x)
BY DEF NearLane, FarReads

LEMMA LessMoves ==
    ASSUME NEW x \in View, NEW y \in View, Placed(x), x.carrier # "unused", Less(x, y)
    PROVE  BothMove(x, y)
<1>1. /\ x.carrier \in {"connecting", "manager", "passed", "worker", "dead"}
      /\ y.carrier = x.carrier \/ y.carrier = "dead"
  BY DEF View, Less, Carrier
<1>2. /\ y.near = x.near \/ (~y.near.open /\ y.near.wait = <<>> /\ y.toNear = <<>>)
      /\ \/ y.far = x.far
         \/ /\ ~y.far.open /\ y.far.wait = <<>> /\ y.toFar = <<>>
            /\ x.carrier \notin {"connecting", "manager", "passed"}
  BY ClosedIs DEF Less, Placed
<1>3. /\ y.toNear = x.toNear \/ (y.toNear = <<>> /\ (~y.near.open \/ y.carrier = "dead"))
      /\ y.toFar = x.toFar \/ (y.toFar = <<>> /\ (~y.far.open \/ y.carrier = "dead"))
      /\ y.carrier # x.carrier =>
            y.toFar = <<>> /\ (x.carrier = "worker" => y.toNear = <<>>)
      /\ y.got = x.got
  BY ClosedIs DEF Less
<1> DEFINE p == NearLane(x)  q == NearLane(y)
<1>4. /\ p.wait = x.near.wait /\ p.wire = x.toFar /\ p.got = x.got
      /\ q.wait = y.near.wait /\ q.wire = y.toFar /\ q.got = y.got
      /\ p.cut <=> (~x.far.open /\ x.carrier \in {"worker", "dead"}) \/ x.carrier = "dead"
      /\ q.cut <=> (~y.far.open /\ y.carrier \in {"worker", "dead"}) \/ y.carrier = "dead"
      /\ p.shut <=> ~x.near.open
      /\ q.shut <=> ~y.near.open
      /\ p.early <=> x.carrier \in {"connecting", "manager", "passed"}
  BY DEF NearLane
<1> HIDE DEF p, q
<1>5. Loses(p, q)
  BY <1>1, <1>2, <1>3, <1>4 DEF Loses
<1>6. ASSUME NEW g PROVE Loses(FarLane(x, g), FarLane(y, g))
  <2> DEFINE r == FarLane(x, g)  u == FarLane(y, g)
  <2>1. /\ r.wait = x.far.wait /\ r.wire = x.toNear /\ r.got = g
        /\ u.wait = y.far.wait /\ u.wire = y.toNear /\ u.got = g
        /\ r.cut <=> ~x.near.open \/ x.carrier = "dead"
        /\ u.cut <=> ~y.near.open \/ y.carrier = "dead"
        /\ r.shut <=> ~x.far.open /\ x.carrier \in {"worker", "dead"}
        /\ u.shut <=> ~y.far.open /\ y.carrier \in {"worker", "dead"}
        /\ r.early <=> x.carrier \in {"connecting", "manager", "passed"}
    BY DEF FarLane
  <2> HIDE DEF r, u
  <2>2. Loses(r, u)
    BY <1>1, <1>2, <1>3, <2>1 DEF Loses
  <2>3. QED
    BY <2>2 DEF r, u
<1>7. QED
  BY <1>5, <1>6 DEF BothMove, Moves, p, q

LEMMA StartsMoves ==
    ASSUME NEW x \in View, NEW y \in View, Starts(x, y)
    PROVE  BothMove(x, y)
<1> DEFINE m == Control(REQ_CONNECT)
<1>1. /\ m \in Handshake
      /\ AfterSend(x.near, m).wait = x.near.wait /\ AfterSend(x.near, m).open = x.near.open
  BY ControlSent DEF View
<1> HIDE DEF m
<1>2. /\ x.carrier = "connecting" /\ y.carrier = "manager"
      /\ y.near.wait = x.near.wait /\ y.near.open = x.near.open
      /\ y.toFar = Append(x.toFar, m)
      /\ y.far = x.far /\ y.toNear = x.toNear /\ y.got = x.got
  BY <1>1 DEF Starts, View, m
<1>3. Talks(NearLane(x), NearLane(y))
  BY <1>1, <1>2 DEF Talks, NearLane
<1>4. ASSUME NEW g PROVE Same(FarLane(x, g), FarLane(y, g))
  BY <1>1, <1>2 DEF Same, FarLane
<1>5. QED
  BY <1>3, <1>4 DEF BothMove, Moves

LEMMA NearSendsMoves ==
    ASSUME NEW x \in View, NEW y \in View,
           NEW cmd \in {REQ_CONNECT, REQ_TELL}, NearSends(Control(cmd), x, y)
    PROVE  BothMove(x, y)
<1> DEFINE m == Control(cmd)
<1>1. /\ m \in Handshake /\ Written(x.near, m) = <<m>>
      /\ AfterSend(x.near, m).wait = x.near.wait /\ AfterSend(x.near, m).open = x.near.open
  BY ControlSent DEF View
<1> HIDE DEF m
<1>2. /\ y.carrier = x.carrier
      /\ y.near.wait = x.near.wait /\ y.near.open = x.near.open
      /\ y.toFar = ToFar(x, <<m>>)
      /\ y.far = x.far /\ y.toNear = x.toNear /\ y.got = x.got
  BY <1>1 DEF NearSends, View, m
<1>3. Same(NearLane(x), NearLane(y)) \/ Talks(NearLane(x), NearLane(y))
  BY <1>1, <1>2, WrittenTo, NearSame
<1>4. ASSUME NEW g PROVE Same(FarLane(x, g), FarLane(y, g))
  BY <1>2, FarSame
<1>5. QED
  BY <1>3, <1>4 DEF BothMove, Moves

LEMMA TransfersMoves ==
    ASSUME NEW x \in View, NEW y \in View, Placed(x), Transfers(x, y)
    PROVE  BothMove(x, y)
<1>1. PICK n \in 1 .. Len(x.toFar), passed \in BOOLEAN :
        y = [x EXCEPT !.carrier = IF passed THEN "passed" ELSE "dead",
                      !.toFar = IF passed THEN SubSeq(x.toFar, n + 1, Len(x.toFar)) ELSE <<>>,
                      !.toNear = IF x.near.open THEN Append(x.toNear, Control(RSP_CONNECT))
                                 ELSE x.toNear]
  BY DEF Transfers
<1>2. /\ x.carrier = "manager" /\ ~x.far.open
      /\ y.near = x.near /\ y.far = x.far /\ y.got = x.got
      /\ y.carrier = IF passed THEN "passed" ELSE "dead"
      /\ y.toFar = IF passed THEN SubSeq(x.toFar, n + 1, Len(x.toFar)) ELSE <<>>
      /\ y.toNear = IF x.near.open THEN Append(x.toNear, Control(RSP_CONNECT)) ELSE x.toNear
  BY <1>1 DEF Transfers, Placed, View
<1>3. Control(RSP_CONNECT) \in Handshake
  BY DEF Handshake
<1>4. CASE passed
  <2>1. Skips(NearLane(x), NearLane(y))
    BY <1>2, <1>4 DEF Skips, NearLane
  <2>2. ASSUME NEW g PROVE Talks(FarLane(x, g), FarLane(y, g)) \/ Same(FarLane(x, g), FarLane(y, g))
    BY <1>2, <1>3, <1>4 DEF Talks, Same, FarLane
  <2>3. QED
    BY <2>1, <2>2 DEF BothMove, Moves
<1>5. CASE ~passed
  <2>1. Loses(NearLane(x), NearLane(y))
    BY <1>2, <1>5 DEF Loses, NearLane
  <2>2. ASSUME NEW g PROVE Talks(FarLane(x, g), FarLane(y, g)) \/ Loses(FarLane(x, g), FarLane(y, g))
    BY <1>2, <1>3, <1>5 DEF Talks, Loses, FarLane
  <2>3. QED
    BY <2>1, <2>2 DEF BothMove, Moves
<1>6. QED
  BY <1>4, <1>5

LEMMA AcceptsMoves ==
    ASSUME NEW x \in View, NEW y \in View, Placed(x), Accepts(x, y)
    PROVE  BothMove(x, y)
<1>1. /\ x.carrier = "passed" /\ y.carrier = "worker"
      /\ x.far = Closed /\ y.far = Accepted
      /\ y.near = x.near /\ y.toFar = x.toFar /\ y.toNear = x.toNear /\ y.got = x.got
  BY DEF Accepts, Placed, View
<1>2. ~Closed.open /\ Closed.wait = <<>> /\ Accepted.open /\ Accepted.wait = <<>>
  BY DEF Closed, Accepted
<1>3. Same(NearLane(x), NearLane(y))
  BY <1>1, <1>2 DEF Same, NearLane
<1>4. ASSUME NEW g PROVE Same(FarLane(x, g), FarLane(y, g))
  BY <1>1, <1>2 DEF Same, FarLane
<1>5. QED
  BY <1>3, <1>4 DEF BothMove, Moves

LEMMA NearHearsMoves ==
    ASSUME NEW t \in Worker, NEW x \in View, NEW y \in View, Placed(x), x.carrier # "unused",
           NearHears(t, x, y), Silent(Head(x.toNear))
    PROVE  BothMove(x, y)
<1> DEFINE m == Head(x.toNear)  h == AfterRecv(x.near, m)  r == Control(REQ_TELL)
<1>1. x.near \in Attr /\ x.toNear \in Seq(Msg) /\ x.toNear # <<>> /\ x.toFar \in Seq(Msg)
  BY DEF View, NearHears
<1>2. m \in Msg
  BY <1>1, HeadType
<1>3. h \in Attr /\ h.wait = x.near.wait /\ h.open = x.near.open
  BY <1>1, <1>2, RecvIs
<1>4. /\ r \in Handshake /\ Written(h, r) = <<r>>
      /\ AfterSend(h, r).wait = h.wait /\ AfterSend(h, r).open = h.open
  BY <1>3, ControlSent
<1>5. \/ y = [x EXCEPT !.step = "tell", !.near = AfterSend(h, r),
                       !.toNear = Tail(x.toNear), !.toFar = ToFar(x, Written(h, r))]
      \/ y = [x EXCEPT !.step = "none", !.near = [h EXCEPT !.wait = <<>>, !.identify = t],
                       !.toNear = Tail(x.toNear), !.toFar = ToFar(x, h.wait)]
      \/ y = [x EXCEPT !.near = h, !.toNear = Tail(x.toNear)]
  BY DEF NearHears
<1> HIDE DEF h, r
<1>6. /\ y.carrier = x.carrier /\ y.far = x.far /\ y.got = x.got
      /\ y.toNear = Tail(x.toNear)
      /\ y.near.open = x.near.open
  <2>1. y.carrier = x.carrier /\ y.far = x.far /\ y.got = x.got /\ y.toNear = Tail(x.toNear)
    BY <1>5 DEF View
  <2>2. y.near \in {AfterSend(h, r), [h EXCEPT !.wait = <<>>, !.identify = t], h}
    BY <1>5 DEF View
  <2>3. [h EXCEPT !.wait = <<>>, !.identify = t].open = h.open
    BY <1>3 DEF Attr
  <2>4. QED
    BY <1>3, <1>4, <2>1, <2>2, <2>3
<1>7. ASSUME NEW g PROVE Takes(FarLane(x, g), FarLane(y, g))
  BY <1>1, <1>6, FarSame
<1>8. CASE y = [x EXCEPT !.step = "tell", !.near = AfterSend(h, r),
                         !.toNear = Tail(x.toNear), !.toFar = ToFar(x, Written(h, r))]
  <2>1. y.near.wait = x.near.wait /\ y.toFar = ToFar(x, <<r>>)
    BY <1>3, <1>4, <1>8 DEF View
  <2>2. Same(NearLane(x), NearLane(y)) \/ Talks(NearLane(x), NearLane(y))
    BY <1>4, <1>6, <2>1, WrittenTo, NearSame
  <2>3. QED
    BY <1>7, <2>2 DEF BothMove, Moves
<1>9. CASE y = [x EXCEPT !.step = "none", !.near = [h EXCEPT !.wait = <<>>, !.identify = t],
                         !.toNear = Tail(x.toNear), !.toFar = ToFar(x, h.wait)]
  <2>1. y.near.wait = <<>> /\ y.toFar = ToFar(x, x.near.wait)
    BY <1>3, <1>9 DEF View, Attr
  <2>2. x.carrier \in Carrier /\ x.carrier # "connecting"
    BY <1>1 DEF View, Placed
  <2>3. Flushes(NearLane(x), NearLane(y))
    <3> DEFINE p == NearLane(x)  q == NearLane(y)
    <3>1. p.cut <=> ~FarReads(x)
      BY <2>2, FarCut DEF Carrier
    <3>2. /\ p.wait = x.near.wait /\ p.wire = x.toFar /\ p.got = x.got
          /\ q.wait = y.near.wait /\ q.wire = y.toFar /\ q.got = y.got
          /\ q.cut = p.cut /\ q.shut = p.shut
      BY <1>6 DEF NearLane
    <3> HIDE DEF p, q
    <3>3. y.toFar = IF p.cut THEN x.toFar ELSE x.toFar \o x.near.wait
      BY <2>1, <3>1 DEF ToFar
    <3>4. Flushes(p, q)
      BY <1>6, <2>1, <3>2, <3>3 DEF Flushes
    <3>5. QED BY <3>4 DEF p, q
  <2>4. QED
    BY <1>7, <2>3 DEF BothMove, Moves
<1>10. CASE y = [x EXCEPT !.near = h, !.toNear = Tail(x.toNear)]
  <2>1. y.near.wait = x.near.wait /\ y.toFar = x.toFar
    BY <1>3, <1>10 DEF View
  <2>2. Same(NearLane(x), NearLane(y))
    BY <1>6, <2>1, NearSame
  <2>3. QED
    BY <1>7, <2>2 DEF BothMove, Moves
<1>11. QED
  BY <1>5, <1>8, <1>9, <1>10

LEMMA FarHearsMoves ==
    ASSUME NEW o \in Worker, NEW x \in View, NEW y \in View,
           FarHears(o, x, y), Silent(Head(x.toFar)), y.got = x.got
    PROVE  BothMove(x, y)
<1> DEFINE m == Head(x.toFar)  h == AfterRecv(x.far, m)
           r == Control(RSP_TELL)  e == Control(SYS_ERROR)
<1>1. x.far \in Attr /\ x.toFar \in Seq(Msg) /\ x.toFar # <<>> /\ x.toNear \in Seq(Msg)
  BY DEF View, FarHears
<1>2. m \in Msg
  BY <1>1, HeadType
<1>3. h \in Attr /\ h.wait = x.far.wait /\ h.open = x.far.open
  BY <1>1, <1>2, RecvIs
<1>4. /\ r \in Handshake /\ e \in Handshake /\ Written(h, r) = <<r>>
      /\ AfterSend(h, r).wait = h.wait /\ AfterSend(h, r).open = h.open
      /\ AfterSend(h, r) \in Attr
  <2>1. r \in Msg /\ e \in Handshake
    BY ControlMsgs DEF Handshake
  <2>2. AfterSend(h, r) \in Attr
    BY <1>3, <2>1, AfterSendType
  <2>3. QED
    BY <1>3, <2>1, <2>2, ControlSent
<1>5. \/ y = [x EXCEPT !.far = [AfterSend(h, r) EXCEPT !.identify = o], !.toFar = Tail(x.toFar),
                       !.toNear = ToNear(x, Written(h, r))]
      \/ y = [x EXCEPT !.far = h, !.toFar = Tail(x.toFar), !.toNear = ToNear(x, <<e>>)]
      \/ \E g : y = [x EXCEPT !.far = h, !.toFar = Tail(x.toFar), !.got = g]
  BY DEF FarHears
<1> HIDE DEF h, r, e
<1>6. /\ y.carrier = x.carrier /\ y.near = x.near
      /\ y.toFar = Tail(x.toFar)
      /\ y.far.open = x.far.open /\ y.far.wait = x.far.wait
  <2>1. y.carrier = x.carrier /\ y.near = x.near /\ y.toFar = Tail(x.toFar)
    BY <1>5 DEF View
  <2>2. y.far \in {[AfterSend(h, r) EXCEPT !.identify = o], h}
    BY <1>5 DEF View
  <2>3. /\ [AfterSend(h, r) EXCEPT !.identify = o].open = AfterSend(h, r).open
        /\ [AfterSend(h, r) EXCEPT !.identify = o].wait = AfterSend(h, r).wait
    BY <1>4 DEF Attr
  <2>4. QED
    BY <1>3, <1>4, <2>1, <2>2, <2>3
<1>7. Takes(NearLane(x), NearLane(y))
  BY <1>1, <1>6, NearSame
<1>8. y.toNear \in {x.toNear, ToNear(x, <<r>>), ToNear(x, <<e>>)}
  BY <1>4, <1>5 DEF View
<1>9. ASSUME NEW g PROVE Same(FarLane(x, g), FarLane(y, g)) \/ Talks(FarLane(x, g), FarLane(y, g))
  BY <1>4, <1>6, <1>8, WrittenTo, FarSame
<1>10. QED
  BY <1>7, <1>9 DEF BothMove, Moves

LEMMA MovedMoves ==
    ASSUME NEW o \in Worker, NEW t \in Worker, NEW x \in View, NEW y \in View,
           Placed(x), x.carrier # "unused", Moved(o, t, x, y)
    PROVE  BothMove(x, y)
<1>1. CASE GivesUp(x, y)
  <2>1. /\ y.carrier = x.carrier /\ y.near = x.near /\ y.far = x.far
        /\ y.toFar = x.toFar /\ y.toNear = x.toNear /\ y.got = x.got
    BY <1>1 DEF GivesUp, View
  <2>2. Same(NearLane(x), NearLane(y))
    BY <2>1, NearSame
  <2>3. ASSUME NEW g PROVE Same(FarLane(x, g), FarLane(y, g))
    BY <2>1, FarSame
  <2>4. QED
    BY <2>2, <2>3 DEF BothMove, Moves
<1>2. QED
  BY <1>1, LessMoves, StartsMoves, NearSendsMoves, TransfersMoves, AcceptsMoves,
     NearHearsMoves, FarHearsMoves DEF Moved

-----------------------------------------------------------------------------
(* The lanes of the system.                                                *)

\* What the proofs use of a state.
LanesAreSeen ==
    \A c \in Conn, o \in Worker, t \in Worker :
        IInv /\ InUse(c) /\ opener[c] = o /\ target[c] = t =>
            /\ o # t
            /\ Out(o, c) = NearLane(Seen(c))
            /\ Out(t, c) = FarLane(Seen(c), got[o][c])
            /\ \A v \in Worker : v \notin {o, t} => Out(v, c) = Nothing

LEMMA OutIs == LanesAreSeen
<1> SUFFICES ASSUME NEW c \in Conn, NEW o \in Worker, NEW t \in Worker,
                    IInv, InUse(c), opener[c] = o, target[c] = t
             PROVE  /\ o # t
                    /\ Out(o, c) = NearLane(Seen(c))
                    /\ Out(t, c) = FarLane(Seen(c), got[o][c])
                    /\ \A v \in Worker : v \notin {o, t} => Out(v, c) = Nothing
  BY DEF LanesAreSeen
<1>1. o # t /\ carrier[c] # "unused"
  BY DEF IInv, Shape, EndsOK, InUse
<1>2. IsEnd(o, c) /\ IsEnd(t, c) /\ \A v \in Worker : v \notin {o, t} => ~IsEnd(v, c)
  BY <1>1 DEF IsEnd
<1>3. Peer(o, c) = t /\ Peer(t, c) = o
  BY <1>1 DEF Peer
<1>4. /\ Out(o, c) = Lane(o, t, c) /\ Out(t, c) = Lane(t, o, c)
      /\ \A v \in Worker : v \notin {o, t} => Out(v, c) = Nothing
  BY <1>2, <1>3 DEF Out
<1>5. Lane(o, t, c) = NearLane(Seen(c))
  BY <1>1 DEF Lane, NearLane, Seen, Ended
<1>6. Lane(t, o, c) = FarLane(Seen(c), got[o][c])
  BY <1>1 DEF Lane, FarLane, Seen, Ended
<1>7. QED
  BY <1>1, <1>4, <1>5, <1>6

LEMMA OutNext == LanesAreSeen'
BY OutIs, PTL

LEMMA OutNone ==
    ASSUME NEW c \in Conn, NEW v
    PROVE  /\ ~InUse(c) => Out(v, c) = Nothing
           /\ ~InUse(c)' => Out(v, c)' = Nothing
BY DEF InUse, Out, IsEnd

LEMMA DriftsMove ==
    ASSUME IInv, IInv', ViewInv, NEW c \in Conn, Drifts(c),
           \A v \in Worker : got'[v][c] = got[v][c]
    PROVE  \A v \in Worker : Moves(Out(v, c), Out(v, c)')
<1>1. CASE ~InUse(c)
  <2>1. \A v \in Worker : Out(v, c) = Nothing /\ Out(v, c)' = Nothing
    BY <1>1, OutNone DEF Drifts, Stays
  <2>2. QED
    BY <2>1 DEF Moves, Same
<1>2. CASE InUse(c)
  <2>1. PICK o \in Worker, t \in Worker : opener[c] = o /\ target[c] = t
    BY <1>2, SeenType
  <2>2. InUse(c)' /\ opener'[c] = o /\ target'[c] = t
    BY <1>2, <2>1 DEF Drifts, Stays
  <2>3. Seen(c) \in View /\ Seen(c)' \in View
    BY <1>2, <2>2, SeenType
  <2>4. Placed(Seen(c)) /\ Seen(c).carrier # "unused" /\ Moved(o, t, Seen(c), Seen(c)')
    BY <1>2, <2>1 DEF ViewInv, Good, Seen, InUse, Drifts
  <2>5. BothMove(Seen(c), Seen(c)')
    <3> DEFINE x == Seen(c)  y == Seen(c)'
    <3> HIDE DEF x, y
    <3>1. QED BY <2>3, <2>4, MovedMoves DEF x, y
  <2>6. got[o][c] \in Seq(Nat) /\ got'[o][c] = got[o][c]
    BY DEF IInv, TypeOK
  <2>7. /\ Out(o, c) = NearLane(Seen(c)) /\ Out(t, c) = FarLane(Seen(c), got[o][c])
        /\ \A v \in Worker : v \notin {o, t} => Out(v, c) = Nothing
    BY <1>2, <2>1, OutIs DEF LanesAreSeen
  <2>8. /\ Out(o, c)' = NearLane(Seen(c)') /\ Out(t, c)' = FarLane(Seen(c)', got'[o][c])
        /\ \A v \in Worker : v \notin {o, t} => Out(v, c)' = Nothing
    BY <2>2, OutNext DEF LanesAreSeen
  <2>9. Moves(Out(o, c), Out(o, c)') /\ Moves(Out(t, c), Out(t, c)')
    BY <2>5, <2>6, <2>7, <2>8 DEF BothMove
  <2>10. \A v \in Worker : v \notin {o, t} => Moves(Out(v, c), Out(v, c)')
    BY <2>7, <2>8 DEF Moves, Same
  <2>11. QED
    BY <2>9, <2>10
<1>3. QED
  BY <1>1, <1>2

LEMMA MovingMoves ==
    ASSUME IInv, IInv', ViewInv, Moving
    PROVE  AllMove
<1>1. nextId' = nextId /\ got' = got
  <2>1. ASSUME NEW c \in Conn, \/ IoWrite(c) \/ ConnectFails(c) \/ StepTimeout(c)
                               \/ ManagerTransfer(c) \/ ManagerClose(c) \/ FdTransfer(c)
                               \/ Reset(c)
        PROVE  nextId' = nextId /\ got' = got
    BY <2>1 DEF IoWrite, ConnectFails, StepTimeout, ManagerTransfer, ManagerClose, FdTransfer,
       Reset
  <2>2. ASSUME NEW w \in Worker, RestartWorker(w)
        PROVE  nextId' = nextId /\ got' = got
    BY <2>2 DEF RestartWorker
  <2>3. ASSUME NEW w \in Worker, NEW c \in Conn,
               \/ RecvRspConnect(w, c) \/ RecvReqConnect(w, c) \/ RecvSysError(w, c)
               \/ RecvReqTell(w, c) \/ RecvRspTell(w, c) \/ RecvEof(w, c)
        PROVE  nextId' = nextId /\ got' = got
    <3>1. CASE RecvRspConnect(w, c)
      BY <3>1 DEF RecvRspConnect
    <3>2. CASE RecvReqConnect(w, c)
      BY <3>2 DEF RecvReqConnect
    <3>3. CASE RecvSysError(w, c)
      BY <3>3 DEF RecvSysError
    <3>4. CASE RecvReqTell(w, c)
      BY <3>4 DEF RecvReqTell
    <3>5. CASE RecvRspTell(w, c)
      BY <3>5 DEF RecvRspTell
    <3>6. CASE RecvEof(w, c)
      BY <3>6 DEF RecvEof
    <3>7. QED
      BY <2>3, <3>1, <3>2, <3>3, <3>4, <3>5, <3>6
  <2>4. CASE UNCHANGED vars
    BY <2>4 DEF vars
  <2>5. QED
    BY <2>1, <2>2, <2>3, <2>4 DEF Moving
<1>2. \A c \in Conn : Drifts(c)
  BY MovingDrifts
<1>3. QED
  BY <1>1, <1>2, DriftsMove DEF AllMove

LaneTypes == \A w \in Worker, c \in Conn : IInv => Out(w, c) \in LaneType

LEMMA OutType == LaneTypes
<1> SUFFICES ASSUME NEW w \in Worker, NEW c \in Conn, IInv PROVE Out(w, c) \in LaneType
  BY DEF LaneTypes
<1>1. Nothing \in LaneType
  BY NoMsgs DEF Nothing, LaneType
<1>2. CASE IsEnd(w, c)
  <2>1. Peer(w, c) \in Worker
    BY <1>2 DEF IInv, Shape, EndsOK, IsEnd, Peer
  <2>2. /\ fdAttr[w][c].wait \in Seq(Msg) /\ wire[Peer(w, c)][c] \in Seq(Msg)
        /\ got[Peer(w, c)][c] \in Seq(Nat)
    BY <2>1 DEF IInv, TypeOK, Attr
  <2>3. /\ (Ended(Peer(w, c), c) \/ carrier[c] = "dead") \in BOOLEAN
        /\ Ended(w, c) \in BOOLEAN
        /\ (carrier[c] \in {"connecting", "manager", "passed"}) \in BOOLEAN
        /\ (fdAttr[w][c].status >= RSP_TELL) \in BOOLEAN
    BY DEF Ended
  <2>4. Lane(w, Peer(w, c), c) \in LaneType
    BY <2>2, <2>3 DEF Lane, LaneType
  <2>5. QED
    BY <1>2, <2>4 DEF Out
<1>3. QED
  BY <1>1, <1>2 DEF Out

LEMMA OutTypeNext == LaneTypes'
BY OutType, PTL

LEMMA StillSame ==
    ASSUME IInv, IInv', NEW c \in Conn, Still(c)
    PROVE  \A v \in Worker : Same(Out(v, c), Out(v, c)')
<1>1. CASE ~InUse(c)
  <2>1. ~InUse(c)'
    BY <1>1 DEF Still, InUse
  <2>2. \A v \in Worker : Out(v, c) = Nothing /\ Out(v, c)' = Nothing
    BY <1>1, <2>1, OutNone
  <2>3. QED
    BY <2>2 DEF Same
<1>2. CASE InUse(c)
  <2>1. PICK o \in Worker, t \in Worker : opener[c] = o /\ target[c] = t
    BY <1>2, SeenType
  <2>2. InUse(c)' /\ opener'[c] = o /\ target'[c] = t
    BY <1>2, <2>1 DEF Still, InUse
  <2>3. Seen(c)' = Seen(c) /\ got'[o][c] = got[o][c]
    BY <2>1, <2>2 DEF Still, Seen
  <2>4. /\ Out(o, c) = NearLane(Seen(c)) /\ Out(t, c) = FarLane(Seen(c), got[o][c])
        /\ \A v \in Worker : v \notin {o, t} => Out(v, c) = Nothing
    BY <1>2, <2>1, OutIs DEF LanesAreSeen
  <2>5. /\ Out(o, c)' = NearLane(Seen(c)') /\ Out(t, c)' = FarLane(Seen(c)', got'[o][c])
        /\ \A v \in Worker : v \notin {o, t} => Out(v, c)' = Nothing
    BY <2>2, OutNext DEF LanesAreSeen
  <2>6. \A v \in Worker : Out(v, c)' = Out(v, c)
    BY <2>3, <2>4, <2>5
  <2>7. QED
    BY <2>6 DEF Same
<1>3. QED
  BY <1>1, <1>2

LEMMA WritesStill ==
    ASSUME NEW w \in Worker, NEW c \in Conn, NEW d \in Conn \ {c},
           NEW took, NEW a, NEW out, Writes(w, c, took, {}, a, out)
    PROVE  Still(d)
<1>1. \A v \in Worker : wire'[v][d] = wire[v][d] /\ fdAttr'[v][d] = fdAttr[v][d]
  BY DEF Writes, Wires
<1>2. QED
  BY <1>1 DEF Still, Writes

\* An application message is dispatched: the first of its lane, and nothing
\* else happens.
LEMMA RecvDataFlows ==
    ASSUME IInv, IInv', ViewInv, NEW w \in Worker, NEW c \in Conn, RecvData(w, c)
    PROVE  \E v \in Worker : OneDispatches(v, c)
<1> DEFINE k == Heard(w, c)  x == Seen(c)  y == Seen(c)'  e == Head(wire[w][c])
<1>1. TypeOK /\ Arrives(w, c, DataCmd)
  BY DEF IInv, RecvData
<1>2. PICK o \in Worker, t \in Worker :
        /\ InUse(c) /\ opener[c] = o /\ target[c] = t /\ o # t /\ w \in {o, t} /\ x \in View
        /\ w = o => x.near.open /\ x.near = fdAttr[w][c] /\ k = AfterRecv(x.near, e)
        /\ w = t => x.far.open /\ x.far = fdAttr[w][c] /\ k = AfterRecv(x.far, e)
  <2>1. InUse(c)
    BY <1>1, ArrivesAt
  <2>2. QED
    BY <1>1, <2>1, ArrivesAt, SeenType
<1>3. /\ opener' = opener /\ target' = target /\ carrier' = carrier /\ step' = step
      /\ nextId' = nextId
      /\ wire' = Wires(w, c, TRUE, {}, <<>>)
      /\ fdAttr' = [fdAttr EXCEPT ![w][c] = k]
      /\ got' = [got EXCEPT ![w][c] = Append(got[w][c], e.id)]
  BY DEF RecvData, connVars, stepVars
<1>4. /\ wire[w][c] \in Seq(Msg) /\ wire[w][c] # <<>> /\ e.cmd = DataCmd /\ e \in Msg
      /\ fdAttr[w][c] \in Attr
  BY <1>1, HeadType DEF Arrives, TypeOK
<1>5. k.wait = fdAttr[w][c].wait /\ k.open = fdAttr[w][c].open
  BY <1>4, RecvIs DEF Heard
<1> HIDE DEF k, e
<1>6. Writes(w, c, TRUE, {}, k, <<>>)
  BY <1>1, <1>3 DEF Writes, TypeOK
<1>7. InUse(c)' /\ opener'[c] = o /\ target'[c] = t
  BY <1>2, <1>3 DEF InUse
<1>8. /\ Wrote(w, c, TRUE, k, <<>>)
      /\ ToFar(x, <<>>) = x.toFar /\ ToNear(x, <<>>) = x.toNear
  <2>1. Wrote(w, c, TRUE, k, <<>>)
    BY <1>2, <1>6, WritesSeen
  <2>2. QED
    BY <1>2, <2>1, NothingWritten
<1>9. \A v \in Worker : got'[v][c] = IF v = w THEN Append(got[v][c], e.id) ELSE got[v][c]
  BY <1>1, <1>3 DEF TypeOK
<1>10. /\ y.carrier = x.carrier /\ x.got = got[t][c] /\ y.got = got'[t][c]
       /\ x.toNear = wire[o][c] /\ x.toFar = wire[t][c]
       /\ w = o => /\ y.near = k /\ y.far = x.far
                   /\ y.toNear = Tail(x.toNear) /\ y.toFar = x.toFar
       /\ w = t => /\ y.far = k /\ y.near = x.near
                   /\ y.toFar = Tail(x.toFar) /\ y.toNear = x.toNear
  BY <1>2, <1>8, <1>7 DEF Wrote, Seen
<1>11. /\ Out(o, c) = NearLane(x) /\ Out(t, c) = FarLane(x, got[o][c])
       /\ \A v \in Worker : v \notin {o, t} => Out(v, c) = Nothing
  BY <1>2, OutIs DEF LanesAreSeen
<1>12. /\ Out(o, c)' = NearLane(y) /\ Out(t, c)' = FarLane(y, got'[o][c])
       /\ \A v \in Worker : v \notin {o, t} => Out(v, c)' = Nothing
  BY <1>7, OutNext DEF LanesAreSeen
<1>13. \A v \in Worker, d \in Conn \ {c} : Same(Out(v, d), Out(v, d)')
  BY <1>6, WritesStill, StillSame
<1>14. \A v \in Worker : v \notin {o, t} => Same(Out(v, c), Out(v, c)')
  BY <1>11, <1>12 DEF Same
<1> HIDE DEF x, y
<1> DEFINE n == e.id
<1>19. /\ Peer(o, c) = t /\ Peer(t, c) = o
       /\ got' = [got EXCEPT ![w][c] = Append(@, n)]
  BY <1>2, <1>3 DEF Peer
<1>20. /\ w = o => Out(t, c).wire = wire[w][c]
       /\ w = t => Out(o, c).wire = wire[w][c]
  BY <1>10, <1>11 DEF NearLane, FarLane
<1>21. /\ w = o => Head(Out(t, c).wire).id = n
       /\ w = t => Head(Out(o, c).wire).id = n
  BY <1>20 DEF e
<1> HIDE DEF n
<1>15. CASE w = o
  <2>1. Dispatches(FarLane(x, got[o][c]), FarLane(y, got'[o][c]))
    <3>1. /\ FarLane(x, got[o][c]).wire = wire[w][c]
          /\ FarLane(y, got'[o][c]).wire = Tail(wire[w][c])
      BY <1>10, <1>15 DEF FarLane
    <3>2. FarLane(y, got'[o][c]).got = Append(FarLane(x, got[o][c]).got, e.id)
      BY <1>2, <1>9, <1>10, <1>15 DEF FarLane
    <3>3. /\ FarLane(y, got'[o][c]).wait = FarLane(x, got[o][c]).wait
          /\ FarLane(y, got'[o][c]).cut = FarLane(x, got[o][c]).cut
          /\ FarLane(y, got'[o][c]).shut = FarLane(x, got[o][c]).shut
      BY <1>2, <1>5, <1>10, <1>15 DEF FarLane
    <3>4. QED
      BY <1>4, <3>1, <3>2, <3>3 DEF Dispatches, e
  <2>2. y.got = x.got
    BY <1>2, <1>9, <1>10, <1>15
  <2>3. Same(NearLane(x), NearLane(y))
    BY <1>2, <1>5, <1>10, <1>15, <2>2, NearSame
  <2>4. OneDispatches(t, c)
    <3>1. got' = [got EXCEPT ![Peer(t, c)][c] = Append(@, Head(Out(t, c).wire).id)]
      BY <1>15, <1>19, <1>21
    <3>2. QED
      BY <1>3, <1>11, <1>12, <1>13, <1>14, <2>1, <2>3, <3>1 DEF OneDispatches, OthersSame
  <2>5. QED
    BY <2>4
<1>16. CASE w = t
  <2>1. Dispatches(NearLane(x), NearLane(y))
    <3>1. /\ NearLane(x).wire = wire[w][c]
          /\ NearLane(y).wire = Tail(wire[w][c])
      BY <1>10, <1>16 DEF NearLane
    <3>2. NearLane(y).got = Append(NearLane(x).got, e.id)
      BY <1>2, <1>9, <1>10, <1>16 DEF NearLane
    <3>3. /\ NearLane(y).wait = NearLane(x).wait
          /\ NearLane(y).cut = NearLane(x).cut
          /\ NearLane(y).shut = NearLane(x).shut
      BY <1>2, <1>5, <1>10, <1>16 DEF NearLane
    <3>4. QED
      BY <1>4, <3>1, <3>2, <3>3 DEF Dispatches, e
  <2>2. got'[o][c] = got[o][c]
    BY <1>2, <1>9, <1>16
  <2>3. Same(FarLane(x, got[o][c]), FarLane(y, got'[o][c]))
    BY <1>2, <1>5, <1>10, <1>16, <2>2, FarSame
  <2>4. OneDispatches(o, c)
    <3>1. got' = [got EXCEPT ![Peer(o, c)][c] = Append(@, Head(Out(o, c).wire).id)]
      BY <1>16, <1>19, <1>21
    <3>2. QED
      BY <1>3, <1>11, <1>12, <1>13, <1>14, <2>1, <2>3, <3>1 DEF OneDispatches, OthersSame
  <2>5. QED
    BY <2>4
<1>17. QED
  BY <1>2, <1>15, <1>16

\* What SendTo makes of an attribute that is given an application message.
LEMMA DataSent ==
    ASSUME NEW k \in Attr, NEW m \in Msg, m.cmd = DataCmd
    PROVE  LET a == AfterSend(k, m)  u == Written(k, m) IN
           /\ a.open = k.open
           /\ \/ k.status < RSP_TELL /\ a.wait = Append(k.wait, m) /\ u = <<>>
              \/ k.status >= RSP_TELL /\ a.wait = k.wait /\ u = <<m>>
BY SendIs, CmdsDiffer

LEMMA SendOnFlows ==
    ASSUME IInv, IInv', ViewInv, NEW w \in Worker, NEW c \in Conn, SendOn(w, c),
           fdAttr[w][c].open
    PROVE  OneAdmits(w, c)
<1> DEFINE k == fdAttr[w][c]  m == NextMsg(w)  a == AfterSend(k, m)  u == Written(k, m)
           x == Seen(c)  y == Seen(c)'
<1>1. TypeOK /\ OpenIsEnd
  BY DEF IInv, Shape
<1>2. PICK o \in Worker, t \in Worker :
        InUse(c) /\ opener[c] = o /\ target[c] = t /\ o # t /\ w \in {o, t} /\ x \in View
  <2>1. InUse(c) /\ w \in {opener[c], target[c]}
    BY <1>1 DEF OpenIsEnd, InUse
  <2>2. QED
    BY <2>1, SeenType
<1>3. m \in Msg /\ m.cmd = DataCmd /\ k \in Attr
  BY <1>1, NextMsgType DEF NextMsg, TypeOK
<1>4. /\ opener' = opener /\ target' = target /\ carrier' = carrier
      /\ step' = step /\ got' = got
      /\ nextId[w] < MaxMsg /\ nextId' = [nextId EXCEPT ![w] = @ + 1]
      /\ wire' = Wires(w, c, FALSE, {}, u)
      /\ fdAttr' = [fdAttr EXCEPT ![w][c] = a]
  BY DEF SendOn, connVars, stepVars
<1>5. Writes(w, c, FALSE, {}, a, u)
  BY <1>1, <1>4 DEF Writes, TypeOK
<1>6. InUse(c)' /\ opener'[c] = o /\ target'[c] = t
  BY <1>2, <1>4 DEF InUse
<1>7. /\ a.open = k.open
      /\ \/ k.status < RSP_TELL /\ a.wait = Append(k.wait, m) /\ u = <<>>
         \/ k.status >= RSP_TELL /\ a.wait = k.wait /\ u = <<m>>
  BY <1>3, DataSent
<1>8. Wrote(w, c, FALSE, a, u)
  <2> HIDE DEF k, m, a, u
  <2>1. QED
    BY <1>2, <1>5, WritesSeen
<1>9. /\ y.carrier = x.carrier /\ y.got = x.got
      /\ w = o => /\ x.near = k /\ y.near = a /\ y.far = x.far
                  /\ y.toNear = x.toNear /\ y.toFar = ToFar(x, u)
      /\ w = t => /\ x.far = k /\ y.far = a /\ y.near = x.near
                  /\ y.toFar = x.toFar /\ y.toNear = ToNear(x, u)
  <2> HIDE DEF a, u
  <2>1. x.got = got[t][c] /\ x.near = fdAttr[o][c] /\ x.far = fdAttr[t][c]
    BY <1>2 DEF Seen
  <2>2. QED
    BY <1>2, <1>4, <1>8, <2>1 DEF Wrote
<1>10. Placed(x)
  BY <1>2 DEF ViewInv, Good
<1>11. /\ Out(o, c) = NearLane(x) /\ Out(t, c) = FarLane(x, got[o][c])
       /\ \A v \in Worker : v \notin {o, t} => Out(v, c) = Nothing
  BY <1>2, OutIs DEF LanesAreSeen
<1>12. /\ Out(o, c)' = NearLane(y) /\ Out(t, c)' = FarLane(y, got'[o][c])
       /\ \A v \in Worker : v \notin {o, t} => Out(v, c)' = Nothing
  BY <1>6, OutNext DEF LanesAreSeen
<1>13. \A v \in Worker, d \in Conn \ {c} : Same(Out(v, d), Out(v, d)')
  <2> HIDE DEF a, u
  <2>1. QED
    BY <1>5, WritesStill, StillSame
<1>14. \A v \in Worker : v \notin {o, t} => Same(Out(v, c), Out(v, c)')
  BY <1>11, <1>12 DEF Same
<1>15. k.open /\ x.carrier \in {"connecting", "manager", "passed", "worker", "dead"}
  BY <1>2 DEF View, Carrier, Seen, InUse
<1> DEFINE g == got[o][c]
<1> HIDE DEF x, y, k, m, a, u
<1>16. /\ ToFar(x, <<>>) = x.toFar /\ ToNear(x, <<>>) = x.toNear
       /\ FarReads(x) => ToFar(x, <<m>>) = Append(x.toFar, m)
       /\ ~FarReads(x) => ToFar(x, <<m>>) = x.toFar
       /\ NearReads(x) => ToNear(x, <<m>>) = Append(x.toNear, m)
       /\ ~NearReads(x) => ToNear(x, <<m>>) = x.toNear
  <2>1. x.toFar \in Seq(Msg) /\ x.toNear \in Seq(Msg)
    BY <1>2 DEF View
  <2>2. \A s \in Seq(Msg) : s \o <<m>> = Append(s, m)
    OBVIOUS
  <2>3. ToFar(x, <<>>) = x.toFar /\ ToNear(x, <<>>) = x.toNear
    BY <1>2, NothingWritten
  <2>4. QED
    BY <2>1, <2>2, <2>3 DEF ToFar, ToNear
<1>17. CASE w = o
  <2>1. Admits(m, NearLane(x), NearLane(y))
    <3>1. CASE k.status < RSP_TELL /\ a.wait = Append(k.wait, m) /\ u = <<>>
      BY <1>7, <1>9, <1>15, <1>16, <1>17, <3>1 DEF Admits, NearLane
    <3>2. CASE k.status >= RSP_TELL /\ a.wait = k.wait /\ u = <<m>>
      <4>1. x.carrier # "connecting"
        BY <1>9, <1>10, <1>15, <1>17, <3>2, CmdsDiffer DEF Placed
      <4> DEFINE p == NearLane(x)  q == NearLane(y)
      <4>2. p.cut <=> ~FarReads(x)
        BY <1>15, <4>1, FarCut
      <4>3. /\ p.wait = x.near.wait /\ p.wire = x.toFar /\ p.got = x.got
            /\ q.wait = y.near.wait /\ q.wire = y.toFar /\ q.got = y.got
            /\ q.cut = p.cut /\ q.shut = p.shut /\ ~p.shut
            /\ p.ready = (x.near.status >= RSP_TELL)
        BY <1>7, <1>9, <1>15, <1>17 DEF NearLane
      <4> HIDE DEF p, q
      <4>4. y.toFar = IF p.cut THEN x.toFar ELSE Append(x.toFar, m)
        BY <1>9, <1>16, <1>17, <3>2, <4>2
      <4>5. Admits(m, p, q)
        BY <1>9, <1>17, <3>2, <4>3, <4>4 DEF Admits
      <4>6. QED
        BY <4>5 DEF p, q
    <3>3. QED
      BY <1>7, <3>1, <3>2
  <2>2. Same(FarLane(x, g), FarLane(y, g))
    BY <1>7, <1>9, <1>17, FarSame
  <2>3. QED
    BY <1>2, <1>4, <1>11, <1>12, <1>13, <1>14, <1>17, <2>1, <2>2
    DEF OneAdmits, OthersSame, m, g
<1>18. CASE w = t
  <2>1. Admits(m, FarLane(x, g), FarLane(y, g))
    <3>1. x.carrier \in {"worker", "dead"} /\ x.far.open
      BY <1>9, <1>10, <1>15, <1>18 DEF Placed
    <3>2. CASE k.status < RSP_TELL /\ a.wait = Append(k.wait, m) /\ u = <<>>
      BY <1>7, <1>9, <1>16, <1>18, <3>1, <3>2 DEF Admits, FarLane
    <3>3. CASE k.status >= RSP_TELL /\ a.wait = k.wait /\ u = <<m>>
      BY <1>7, <1>9, <1>16, <1>18, <3>1, <3>3 DEF Admits, FarLane, NearReads
    <3>4. QED
      BY <1>7, <3>2, <3>3
  <2>2. Same(NearLane(x), NearLane(y))
    BY <1>7, <1>9, <1>18, NearSame
  <2>3. QED
    BY <1>2, <1>4, <1>11, <1>12, <1>13, <1>14, <1>18, <2>1, <2>2
    DEF OneAdmits, OthersSame, m, g
<1>19. QED
  BY <1>2, <1>17, <1>18

LEMMA AutoSendFlows ==
    ASSUME IInv, IInv', ViewInv, NEW w \in Worker, NEW p \in Worker, NEW c \in Conn,
           AutoSend(w, p, c)
    PROVE  OneAdmits(w, c)
<1> DEFINE m == NextMsg(w)  k == [Opened(p, m) EXCEPT !.identify = p]  y == Seen(c)'
<1>1. TypeOK /\ w # p
  BY RouteAssumption DEF IInv, AutoSend
<1>2. m \in Msg
  BY <1>1, NextMsgType
<1>3. k.open /\ k.status = 0 /\ k.wait = <<m>>
  BY DEF Opened
<1>4. /\ \A v \in Worker, d \in Conn :
            fdAttr'[v][d] = IF v = w /\ d = c THEN k
                            ELSE IF v = w /\ d \in Replaced(w, p, c) THEN Closed
                            ELSE fdAttr[v][d]
      /\ carrier[c] = "unused" /\ wire' = wire /\ got' = got /\ step' = step
      /\ nextId[w] < MaxMsg /\ nextId' = [nextId EXCEPT ![w] = @ + 1]
  BY <1>1 DEF AutoSend, AddMsgShell, TypeOK, stepVars
<1> HIDE DEF k, m
<1>5. /\ opener'[c] = w /\ target'[c] = p /\ carrier'[c] = "connecting"
      /\ \A d \in Conn \ {c} : opener'[d] = opener[d] /\ target'[d] = target[d]
                                 /\ carrier'[d] = carrier[d]
  BY <1>1 DEF AutoSend, TypeOK
<1>6. Untouched(c) /\ ~InUse(c) /\ InUse(c)'
  BY <1>4, <1>5 DEF ViewInv, InUse
<1>7. /\ fdAttr'[w][c] = k /\ fdAttr'[p][c] = Closed
      /\ wire'[w][c] = <<>> /\ wire'[p][c] = <<>> /\ got'[p][c] = <<>> /\ got'[w][c] = <<>>
  BY <1>1, <1>4, <1>6 DEF Untouched
<1>8. /\ y.carrier = "connecting" /\ y.near = k /\ y.far = Closed
      /\ y.toNear = <<>> /\ y.toFar = <<>> /\ y.got = <<>>
  BY <1>5, <1>7 DEF Seen
<1>9. /\ Out(w, c)' = NearLane(y) /\ Out(p, c)' = FarLane(y, got'[w][c])
      /\ \A v \in Worker : v \notin {w, p} => Out(v, c)' = Nothing
  BY <1>5, <1>6, OutNext DEF LanesAreSeen
<1>10. \A v \in Worker : Out(v, c) = Nothing
  BY <1>6, OutNone
<1> HIDE DEF y
<1>11. Admits(m, Nothing, NearLane(y))
  <2>1. <<m>> = Append(<<>>, m)
    OBVIOUS
  <2>2. QED
    BY <1>3, <1>8, <2>1, ClosedIs DEF Admits, Nothing, NearLane
<1>12. Same(Nothing, FarLane(y, got'[w][c]))
  BY <1>3, <1>7, <1>8, ClosedIs DEF Same, Nothing, FarLane
<1>13. \A v \in Worker : v # w => Same(Out(v, c), Out(v, c)')
  BY <1>9, <1>10, <1>12 DEF Same
<1>14. ASSUME NEW d \in Conn \ {c} PROVE Still(d)
  <2>1. msgShell[w][p] = None
    BY DEF AutoSend
  <2>2. Replaced(w, p, c) = {}
    BY <2>1, WorkerAssumption DEF Replaced
  <2>3. QED
    BY <1>4, <1>5, <2>2 DEF Still
<1>15. \A v \in Worker, d \in Conn \ {c} : Same(Out(v, d), Out(v, d)')
  BY <1>14, StillSame
<1>16. QED
  BY <1>4, <1>9, <1>10, <1>11, <1>13, <1>15 DEF OneAdmits, OthersSame, m

\* Every step moves what the lanes hold, or accepts or dispatches one message.
LEMMA StepFlows ==
    ASSUME IInv, IInv', ViewInv, [Next]_vars
    PROVE  Flows
<1>1. CASE Moving
  BY <1>1, MovingMoves DEF Flows
<1>2. ASSUME NEW w \in Worker, NEW c \in Conn, SendOn(w, c), fdAttr[w][c].open
      PROVE  Flows
  BY <1>2, SendOnFlows DEF Flows
<1>3. ASSUME NEW w \in Worker, NEW p \in Worker, NEW c \in Conn, AutoSend(w, p, c)
      PROVE  Flows
  BY <1>3, AutoSendFlows DEF Flows
<1>4. ASSUME NEW w \in Worker, NEW c \in Conn, RecvData(w, c)
      PROVE  Flows
  BY <1>4, RecvDataFlows DEF Flows
<1>5. QED
  BY <1>1, <1>2, <1>3, <1>4, StepIs

-----------------------------------------------------------------------------
(* A message is on one lane, once.                                         *)

\* A connection nobody opened has no ends.
NoEnds == \A c \in Conn : ~InUse(c) => opener[c] = None /\ target[c] = None

\* What SendTo accepted is on one lane at most, once, and so is nothing it
\* has still to accept.
OnceInv ==
    /\ \A w \in Worker, c \in Conn :
        /\ Once(Out(w, c))
        /\ LaneIds(Out(w, c)) \subseteq 1 .. nextId[w]
    /\ \A w \in Worker, c, d \in Conn :
        c # d => LaneIds(Out(w, c)) \cap LaneIds(Out(w, d)) = {}

LEMMA NoEndsNext ==
    ASSUME IInv, NoEnds, [Next]_vars
    PROVE  NoEnds'
<1>1. TypeOK
  BY DEF IInv
<1>2. CASE /\ opener' = opener /\ target' = target
           /\ \A c \in Conn : carrier[c] # "unused" => carrier'[c] # "unused"
  BY <1>2 DEF NoEnds, InUse
<1>3. ASSUME NEW w \in Worker, NEW p \in Worker, NEW c \in Conn, AutoSend(w, p, c)
      PROVE  NoEnds'
  BY <1>1, <1>3 DEF AutoSend, NoEnds, InUse, TypeOK
<1>4. ASSUME ~(\E w \in Worker, p \in Worker, c \in Conn : AutoSend(w, p, c))
      PROVE  /\ opener' = opener /\ target' = target
             /\ \A c \in Conn : carrier[c] # "unused" => carrier'[c] # "unused"
  <2>1. CASE \E w \in Worker : RestartWorker(w)
    BY <2>1 DEF RestartWorker
  <2>2. ASSUME NEW c \in Conn, \/ IoWrite(c) \/ ConnectFails(c) \/ ManagerTransfer(c)
                               \/ ManagerClose(c) \/ FdTransfer(c) \/ Reset(c)
        PROVE  /\ opener' = opener /\ target' = target
               /\ \A d \in Conn : carrier[d] # "unused" => carrier'[d] # "unused"
    <3>1. /\ opener' = opener /\ target' = target
          /\ \E v \in Carrier \ {"unused"} : carrier' = [carrier EXCEPT ![c] = v]
      BY <2>2 DEF IoWrite, ConnectFails, ManagerTransfer, ManagerClose, FdTransfer, Reset, Carrier
    <3>2. QED
      BY <1>1, <3>1 DEF TypeOK
  <2>3. ASSUME \/ \E w \in Worker, p \in Worker : SendMapped(w, p)
               \/ \E w \in Worker, c \in Conn : Reply(w, c)
               \/ \E c \in Conn : StepTimeout(c)
               \/ \E w \in Worker, c \in Conn : Read(w, c)
               \/ UNCHANGED vars
        PROVE  opener' = opener /\ target' = target /\ carrier' = carrier
    <3>1. CASE \E w \in Worker, p \in Worker : SendMapped(w, p)
      BY <3>1 DEF SendMapped, SendOn, connVars
    <3>2. CASE \E w \in Worker, c \in Conn : Reply(w, c)
      BY <3>2 DEF Reply, SendOn, connVars
    <3>3. CASE \E c \in Conn : StepTimeout(c)
      BY <3>3 DEF StepTimeout, connVars
    <3>4. ASSUME NEW w \in Worker, NEW c \in Conn, Read(w, c)
          PROVE  UNCHANGED connVars
      <4>1. CASE RecvRspConnect(w, c)
        BY <4>1 DEF RecvRspConnect
      <4>2. CASE RecvReqConnect(w, c)
        BY <4>2 DEF RecvReqConnect
      <4>3. CASE RecvSysError(w, c)
        BY <4>3 DEF RecvSysError
      <4>4. CASE RecvReqTell(w, c)
        BY <4>4 DEF RecvReqTell
      <4>5. CASE RecvRspTell(w, c)
        BY <4>5 DEF RecvRspTell
      <4>6. CASE RecvData(w, c)
        BY <4>6 DEF RecvData
      <4>7. CASE RecvEof(w, c)
        BY <4>7 DEF RecvEof
      <4>8. QED
        BY <3>4, <4>1, <4>2, <4>3, <4>4, <4>5, <4>6, <4>7 DEF Read
    <3>5. CASE UNCHANGED vars
      BY <3>5 DEF vars, connVars
    <3>6. QED
      BY <2>3, <3>1, <3>2, <3>3, <3>4, <3>5 DEF connVars
  <2>4. QED
    BY <1>4, <2>1, <2>2, <2>3 DEF Next
<1>5. QED
  BY <1>2, <1>3, <1>4

LEMMA MovesInv ==
    ASSUME IInv, IInv', OnceInv, AllMove
    PROVE  OnceInv'
<1>1. nextId' = nextId
  BY DEF AllMove
<1>2. \A w \in Worker, c \in Conn :
        /\ Once(Out(w, c)') /\ LaneIds(Out(w, c)') \subseteq LaneIds(Out(w, c))
  <2> SUFFICES ASSUME NEW w \in Worker, NEW c \in Conn
               PROVE  Once(Out(w, c)') /\ LaneIds(Out(w, c)') \subseteq LaneIds(Out(w, c))
    OBVIOUS
  <2> DEFINE x == Out(w, c)  y == Out(w, c)'
  <2>1. x \in LaneType /\ y \in LaneType
    BY OutType, OutTypeNext DEF LaneTypes
  <2>2. Moves(x, y) /\ Once(x)
    BY DEF AllMove, OnceInv
  <2> HIDE DEF x, y
  <2>3. Once(y) /\ LaneIds(y) \subseteq LaneIds(x)
    BY <2>1, <2>2, MovesOnce
  <2>4. QED
    BY <2>3 DEF x, y
<1>3. QED
  BY <1>1, <1>2 DEF OnceInv

LEMMA SameOnce ==
    ASSUME NEW x, NEW y, Same(x, y)
    PROVE  /\ Once(x) => Once(y)
           /\ LaneIds(y) = LaneIds(x)
BY DEF Same, Once, LaneIds

LEMMA DispatchesInv ==
    ASSUME IInv, IInv', OnceInv, NEW v \in Worker, NEW d \in Conn, OneDispatches(v, d)
    PROVE  OnceInv'
<1>1. nextId' = nextId
  BY DEF OneDispatches
<1>2. \A w \in Worker, c \in Conn :
        /\ Once(Out(w, c)') /\ LaneIds(Out(w, c)') \subseteq LaneIds(Out(w, c))
  <2> SUFFICES ASSUME NEW w \in Worker, NEW c \in Conn
               PROVE  Once(Out(w, c)') /\ LaneIds(Out(w, c)') \subseteq LaneIds(Out(w, c))
    OBVIOUS
  <2> DEFINE x == Out(w, c)  y == Out(w, c)'
  <2>1. x \in LaneType /\ y \in LaneType
    BY OutType, OutTypeNext DEF LaneTypes
  <2>2. Dispatches(x, y) \/ Same(x, y)
    BY DEF OneDispatches, OthersSame
  <2>3. Once(x)
    BY DEF OnceInv
  <2> HIDE DEF x, y
  <2>4. Once(y) /\ LaneIds(y) \subseteq LaneIds(x)
    BY <2>1, <2>2, <2>3, DispatchesOnce, SameOnce
  <2>5. QED
    BY <2>4 DEF x, y
<1>3. QED
  BY <1>1, <1>2 DEF OnceInv

LEMMA AdmitsInv ==
    ASSUME IInv, IInv', OnceInv, NEW v \in Worker, NEW d \in Conn, OneAdmits(v, d)
    PROVE  OnceInv'
<1> DEFINE m == NextMsg(v)
<1>1. /\ nextId[v] \in Nat /\ m \in Msg /\ m.cmd = DataCmd /\ m.id = nextId[v] + 1
      /\ \A w \in Worker : nextId'[w] = IF w = v THEN nextId[w] + 1 ELSE nextId[w]
      /\ \A w \in Worker : nextId[w] \in Nat
  BY NextMsgType DEF IInv, TypeOK, OneAdmits, NextMsg
<1> HIDE DEF m
<1>2. \A c \in Conn : m.id \notin LaneIds(Out(v, c))
  <2>1. m.id \notin 1 .. nextId[v]
    BY <1>1
  <2>2. QED
    BY <2>1 DEF OnceInv
<1>3. Once(Out(v, d)') /\ LaneIds(Out(v, d)') \subseteq LaneIds(Out(v, d)) \cup {m.id}
  <2> DEFINE x == Out(v, d)  y == Out(v, d)'
  <2>1. x \in LaneType /\ y \in LaneType
    BY OutType, OutTypeNext DEF LaneTypes
  <2>2. Admits(m, x, y) /\ Once(x) /\ m.id \notin LaneIds(x)
    BY <1>2 DEF OneAdmits, OnceInv, m
  <2> HIDE DEF x, y
  <2>3. Once(y) /\ LaneIds(y) \subseteq LaneIds(x) \cup {m.id}
    BY <1>1, <2>1, <2>2, AdmitsOnce
  <2>4. QED
    BY <2>3 DEF x, y
<1>4. \A w \in Worker, c \in Conn : w # v \/ c # d =>
        Once(Out(w, c)') /\ LaneIds(Out(w, c)') = LaneIds(Out(w, c))
  BY SameOnce DEF OneAdmits, OthersSame, OnceInv
<1>5. \A w \in Worker, c \in Conn :
        Once(Out(w, c)') /\ LaneIds(Out(w, c)') \subseteq 1 .. nextId'[w]
  <2> SUFFICES ASSUME NEW w \in Worker, NEW c \in Conn
               PROVE  Once(Out(w, c)') /\ LaneIds(Out(w, c)') \subseteq 1 .. nextId'[w]
    OBVIOUS
  <2>1. LaneIds(Out(w, c)) \subseteq 1 .. nextId[w]
    BY DEF OnceInv
  <2>2. 1 .. nextId[w] \subseteq 1 .. nextId'[w]
    BY <1>1
  <2>3. w = v => m.id \in 1 .. nextId'[w]
    BY <1>1
  <2>4. QED
    BY <1>3, <1>4, <2>1, <2>2, <2>3
<1>6. ASSUME NEW w \in Worker, NEW c \in Conn, NEW e \in Conn, c # e
      PROVE  LaneIds(Out(w, c)') \cap LaneIds(Out(w, e)') = {}
  <2>1. LaneIds(Out(w, c)) \cap LaneIds(Out(w, e)) = {}
    BY <1>6 DEF OnceInv
  <2>2. QED
    BY <1>2, <1>3, <1>4, <1>6, <2>1
<1>7. QED
  BY <1>5, <1>6 DEF OnceInv

LEMMA OnceNext ==
    ASSUME IInv, IInv', ViewInv, OnceInv, [Next]_vars
    PROVE  OnceInv'
BY StepFlows, MovesInv, DispatchesInv, AdmitsInv DEF Flows

LEMMA OnceInit == Init => OnceInv /\ NoEnds
<1> SUFFICES ASSUME Init PROVE OnceInv /\ NoEnds
  OBVIOUS
<1>1. \A w \in Worker, c \in Conn : Out(w, c) = Nothing
  BY OutNone DEF Init, InUse
<1>2. LaneIds(Nothing) = {} /\ Once(Nothing)
  <2>1. GotIn(<<>>) = {} /\ GotDiffer(<<>>)
    BY DEF GotIn, GotDiffer
  <2>2. QED
    BY <2>1, IdsShort DEF Nothing, LaneIds, Once
<1>3. NoEnds
  BY DEF Init, NoEnds
<1>4. QED
  BY <1>1, <1>2, <1>3 DEF OnceInv

-----------------------------------------------------------------------------
(* Copies counts what the lane of a connection holds.                      *)

LEMMA OneOrNone ==
    ASSUME NEW S, \A i, j \in S : i = j
    PROVE  Cardinality(S) = IF S = {} THEN 0 ELSE 1
<1>1. CASE S = {}
  BY <1>1, FS_EmptySet
<1>2. CASE S # {}
  <2>1. PICK i : i \in S
    BY <1>2
  <2>2. S = {i}
    BY <2>1
  <2>3. QED
    BY <2>1, <2>2, FS_Singleton
<1>3. QED
  BY <1>1, <1>2

LEMMA CopiesAre ==
    ASSUME IInv, NEW w \in Worker, NEW c \in Conn, NEW id \in Nat \ {0}, IsEnd(w, c),
           Once(Out(w, c))
    PROVE  Copies(w, c, id) = IF id \in LaneIds(Out(w, c)) THEN 1 ELSE 0
<1> DEFINE p == Peer(w, c)  wt == fdAttr[w][c].wait  wr == wire[p][c]  g == got[p][c]
           A == {i \in 1 .. Len(wt) : wt[i].id = id}
           B == {i \in 1 .. Len(wr) : IsData(wr[i]) /\ wr[i].id = id}
           C == {i \in 1 .. Len(g) : g[i] = id}
<1>1. Out(w, c).wait = wt /\ Out(w, c).wire = wr /\ Out(w, c).got = g
  BY DEF Out, Lane
<1>2. /\ Differ(wt) /\ Differ(wr) /\ GotDiffer(g)
      /\ IdsIn(wt) \cap IdsIn(wr) = {} /\ IdsIn(wt) \cap GotIn(g) = {}
      /\ IdsIn(wr) \cap GotIn(g) = {}
      /\ \A i \in 1 .. Len(wt) : IsData(wt[i])
      /\ LaneIds(Out(w, c)) = IdsIn(wt) \cup IdsIn(wr) \cup GotIn(g)
  BY <1>1 DEF Once, LaneIds
<1>3. /\ InWait(w, c, id) = Cardinality(A) /\ InWire(p, c, id) = Cardinality(B)
      /\ InGot(p, c, id) = Cardinality(C)
  BY DEF InWait, InWire, InGot
<1>4. Copies(w, c, id) = Cardinality(A) + Cardinality(B) + Cardinality(C)
  BY <1>3 DEF Copies
<1> HIDE DEF wt, wr, g
<1>5. \A i \in A : i \in Full(wt)
  BY <1>2 DEF Full, Carries
<1>6. \A i \in B : i \in Full(wr)
  BY DEF Full, Carries
<1>7. (\A i, j \in A : i = j) /\ (\A i, j \in B : i = j) /\ (\A i, j \in C : i = j)
  BY <1>2, <1>5, <1>6 DEF Differ, GotDiffer
<1>8. /\ A # {} <=> id \in IdsIn(wt)
      /\ B # {} <=> id \in IdsIn(wr)
      /\ C # {} <=> id \in GotIn(g)
  <2>1. A # {} <=> id \in IdsIn(wt)
    BY <1>5 DEF IdsIn, Full
  <2>2. B # {} <=> id \in IdsIn(wr)
    BY <1>6 DEF IdsIn, Full, Carries
  <2>3. C # {} <=> id \in GotIn(g)
    BY DEF GotIn
  <2>4. QED
    BY <2>1, <2>2, <2>3
<1> HIDE DEF A, B, C
<1>9. /\ Cardinality(A) = IF id \in IdsIn(wt) THEN 1 ELSE 0
      /\ Cardinality(B) = IF id \in IdsIn(wr) THEN 1 ELSE 0
      /\ Cardinality(C) = IF id \in GotIn(g) THEN 1 ELSE 0
  BY <1>7, <1>8, OneOrNone
<1>10. QED
  BY <1>2, <1>4, <1>9

\* A message SendTo accepted exists once, whatever fails: waiting, under way
\* or dispatched, and on one connection only.  It takes that each direction
\* of a connection only moves, loses or hands over what it holds (StepFlows):
\* the handshake's own messages are no copies, and the flush empties what it
\* sends (StepTellWorker.cpp, OssWorker.cpp:2161).
THEOREM SentOnce == Spec => []AtMostOnce
<1>1. IInv /\ NoEnds /\ OnceInv => AtMostOnce
  <2> SUFFICES ASSUME IInv, NoEnds, OnceInv,
                      NEW w \in Worker, NEW id \in 1 .. MaxMsg
               PROVE  LET on == {c \in Conn : w \in {opener[c], target[c]}} IN
                      /\ \A c \in on : Copies(w, c, id) <= 1
                      /\ \A c, d \in on : c # d =>
                            Copies(w, c, id) = 0 \/ Copies(w, d, id) = 0
    BY DEF AtMostOnce
  <2>1. ASSUME NEW c \in Conn, w \in {opener[c], target[c]}
        PROVE  Copies(w, c, id) = IF id \in LaneIds(Out(w, c)) THEN 1 ELSE 0
    <3>1. IsEnd(w, c)
      BY <2>1, WorkerAssumption DEF NoEnds, InUse, IsEnd
    <3>2. id \in Nat \ {0} /\ Once(Out(w, c))
      BY BoundAssumption DEF OnceInv
    <3>3. QED
      BY <3>1, <3>2, CopiesAre
  <2>2. \A c, d \in Conn : c # d => id \notin LaneIds(Out(w, c)) \/ id \notin LaneIds(Out(w, d))
    BY DEF OnceInv
  <2>3. QED
    BY <2>1, <2>2
<1>2. Init => NoEnds /\ OnceInv
  BY OnceInit
<1>3. /\ IInv /\ IInv' /\ ViewInv /\ NoEnds /\ OnceInv /\ [Next]_vars
      => (NoEnds /\ OnceInv)'
  BY NoEndsNext, OnceNext
<1>4. QED
  BY <1>1, <1>2, <1>3, Views, PTL DEF Spec
-----------------------------------------------------------------------------
(* Selections.                                                             *)

\* What holds of 0, and of a number when it does of the one below, holds up to n.
LEMMA UpTo ==
    ASSUME NEW n \in Nat, NEW A, 0 \in A, \A k \in 0 .. n : k # n /\ k \in A => k + 1 \in A
    PROVE  \A k \in 0 .. n : k \in A
<1> DEFINE Below == {p \in Nat \X Nat : p[1] < p[2]}
           Bad == {k \in 0 .. n : k \notin A}
<1>1. IsWellFoundedOn(Below, Nat)
  BY NatLessThanWellFounded DEF OpToRel
<1>2. Bad \subseteq Nat
  OBVIOUS
<1>3. ASSUME Bad # {} PROVE FALSE
  <2>1. PICK b \in Bad : \A a \in Bad : ~ (<<a, b>> \in Below)
    <3> HIDE DEF Below, Bad
    <3>1. QED BY <1>1, <1>2, <1>3, WFMin
  <2>2. b \in 1 .. n /\ b - 1 \in 0 .. n /\ b - 1 # n
    OBVIOUS
  <2>3. b - 1 \in A
    <3>1. <<b - 1, b>> \in Below
      BY <2>2
    <3>2. b - 1 \notin Bad
      BY <2>1, <3>1
    <3>3. QED BY <2>2, <3>2
  <2>4. b - 1 + 1 \in A
    BY <2>2, <2>3
  <2>5. QED BY <2>2, <2>4
<1>4. QED BY <1>3

\* g selects among the first k elements of s.
Selects(g, s, T, k) ==
    /\ g[0] = <<>>
    /\ \A i \in 1 .. k : g[i] = IF s[i] \in T THEN Append(g[i - 1], s[i]) ELSE g[i - 1]

LEMMA SelectsMore ==
    ASSUME NEW S, NEW T, NEW s \in Seq(S), NEW k \in 0 .. Len(s), k # Len(s),
           NEW g \in [0 .. k -> Seq(S)], Selects(g, s, T, k)
    PROVE  \E h \in [0 .. k + 1 -> Seq(S)] : Selects(h, s, T, k + 1)
<1> DEFINE new == IF s[k + 1] \in T THEN Append(g[k], s[k + 1]) ELSE g[k]
           h == [i \in 0 .. k + 1 |-> IF i = k + 1 THEN new ELSE g[i]]
<1>1. k \in Nat /\ k + 1 \in 1 .. Len(s)
  BY LenProperties
<1>2. s[k + 1] \in S /\ g[k] \in Seq(S)
  BY <1>1, ElementOfSeq
<1>3. new \in Seq(S)
  BY <1>2
<1> HIDE DEF new
<1>4. h \in [0 .. k + 1 -> Seq(S)] /\ h[k + 1] = new /\ \A i \in 0 .. k : h[i] = g[i]
  BY <1>1, <1>3
<1> HIDE DEF h
<1>5. h[0] = <<>>
  BY <1>1, <1>4 DEF Selects
<1>6. ASSUME NEW i \in 1 .. k + 1
      PROVE  h[i] = IF s[i] \in T THEN Append(h[i - 1], s[i]) ELSE h[i - 1]
  <2>1. CASE i = k + 1
    <3>1. i - 1 = k /\ k \in 0 .. k
      BY <1>1, <2>1
    <3>2. QED BY <1>4, <2>1, <3>1 DEF new
  <2>2. CASE i \in 1 .. k
    <3>1. i \in 0 .. k /\ i - 1 \in 0 .. k
      BY <1>1, <2>2
    <3>2. QED BY <1>4, <2>2, <3>1 DEF Selects
  <2>3. QED BY <1>1, <2>1, <2>2
<1>7. QED BY <1>4, <1>5, <1>6 DEF Selects

LEMMA SelectsAll ==
    ASSUME NEW S, NEW T, NEW s \in Seq(S)
    PROVE  \E g \in [0 .. Len(s) -> Seq(S)] : Selects(g, s, T, Len(s))
<1> DEFINE n == Len(s)
           A == {k \in 0 .. n : \E g \in [0 .. k -> Seq(S)] : Selects(g, s, T, k)}
<1>1. n \in Nat /\ n \in 0 .. n /\ 0 \in 0 .. n
  BY LenProperties
<1>2. 0 \in A
  <2> DEFINE g == [i \in 0 .. 0 |-> <<>>]
  <2>1. g \in [0 .. 0 -> Seq(S)] /\ g[0] = <<>>
    OBVIOUS
  <2> HIDE DEF g
  <2>2. Selects(g, s, T, 0)
    BY <2>1 DEF Selects
  <2>3. QED BY <1>1, <2>1, <2>2
<1>3. ASSUME NEW k \in 0 .. n, k # n, k \in A PROVE k + 1 \in A
  <2>1. PICK g \in [0 .. k -> Seq(S)] : Selects(g, s, T, k)
    BY <1>3
  <2>2. \E h \in [0 .. k + 1 -> Seq(S)] : Selects(h, s, T, k + 1)
    BY <1>3, <2>1, SelectsMore
  <2>3. k + 1 \in 0 .. n
    BY <1>1, <1>3
  <2>4. QED BY <2>2, <2>3
<1>4. n \in A
  <2> HIDE DEF A, n
  <2>1. QED BY <1>1, <1>2, <1>3, UpTo
<1>5. QED BY <1>4

SelectStep(g, s, T) ==
    [i \in 0 .. Len(s) |->
        IF i = 0 THEN <<>> ELSE IF s[i] \in T THEN Append(g[i - 1], s[i]) ELSE g[i - 1]]

LEMMA ChosenStep ==
    ASSUME NEW S, NEW T, NEW s \in Seq(S)
    PROVE  /\ ChosenSoFar(s, T) \in [0 .. Len(s) -> Seq(S)]
           /\ Selects(ChosenSoFar(s, T), s, T, Len(s))
<1> DEFINE n == Len(s)  f == ChosenSoFar(s, T)
<1>1. n \in Nat
  BY LenProperties
<1>2. PICK g \in [0 .. n -> Seq(S)] : Selects(g, s, T, n)
  BY SelectsAll
<1>3. g = SelectStep(g, s, T)
  <2>1. \A i \in 0 .. n : i = 0 \/ i \in 1 .. n
    BY <1>1
  <2>2. \A i \in 0 .. n : g[i] = SelectStep(g, s, T)[i]
    BY <1>2, <2>1 DEF Selects, SelectStep
  <2>3. QED BY <1>2, <2>2 DEF SelectStep
<1>4. f = CHOOSE e : e = SelectStep(e, s, T)
  BY DEF ChosenSoFar, SelectStep
<1> HIDE DEF f
<1>5. f = SelectStep(f, s, T)
  <2>1. \E e : e = SelectStep(e, s, T)
    BY <1>3
  <2>2. QED BY <1>4, <2>1, Zenon
<1>6. Selects(f, s, T, n)
  <2>1. f[0] = <<>>
    BY <1>1, <1>5 DEF SelectStep
  <2>2. ASSUME NEW i \in 1 .. n
        PROVE  f[i] = IF s[i] \in T THEN Append(f[i - 1], s[i]) ELSE f[i - 1]
    <3>1. i \in 0 .. n /\ i # 0
      BY <1>1
    <3>2. f[i] = SelectStep(f, s, T)[i]
      BY <1>5
    <3>3. SelectStep(f, s, T)[i] = IF s[i] \in T THEN Append(f[i - 1], s[i]) ELSE f[i - 1]
      BY <3>1 DEF SelectStep
    <3>4. QED BY <3>2, <3>3
  <2>3. QED BY <2>1, <2>2 DEF Selects
<1>7. \A k \in 0 .. n : f[k] \in Seq(S)
  <2> DEFINE B == {i \in 0 .. n : f[i] \in Seq(S)}
  <2>1. f[0] = <<>> /\ 0 \in 0 .. n /\ <<>> \in Seq(S)
    BY <1>1, <1>6 DEF Selects
  <2>2. ASSUME NEW k \in 0 .. n, k # n, k \in B PROVE k + 1 \in B
    <3>1. k + 1 \in 1 .. n /\ k + 1 - 1 = k /\ f[k] \in Seq(S)
      BY <1>1, <2>2
    <3>2. s[k + 1] \in S
      BY <3>1, ElementOfSeq
    <3>3. Append(f[k], s[k + 1]) \in Seq(S)
      BY <3>1, <3>2
    <3>4. f[k + 1] = IF s[k + 1] \in T THEN Append(f[k], s[k + 1]) ELSE f[k]
      BY <1>6, <3>1 DEF Selects
    <3>5. f[k + 1] \in Seq(S)
      <4> HIDE DEF f
      <4>1. QED BY <3>1, <3>3, <3>4
    <3>6. QED BY <1>1, <3>1, <3>5
  <2>3. 0 \in B
    BY <2>1
  <2>4. \A k \in 0 .. n : k \in B
    <3> HIDE DEF B, n
    <3>1. QED BY <1>1, <2>3, <2>2, UpTo
  <2>5. QED BY <2>4
<1>8. f \in [0 .. n -> Seq(S)]
  <2>1. f = [i \in 0 .. n |-> f[i]]
    BY <1>5 DEF SelectStep
  <2>2. QED BY <1>7, <2>1
<1>9. QED BY <1>6, <1>8 DEF f

LEMMA AppendJoined ==
    ASSUME NEW S, NEW s \in Seq(S), NEW u \in Seq(S), NEW m \in S
    PROVE  s \o Append(u, m) = Append(s \o u, m)
<1>1. <<m>> \in Seq(S) /\ s \o u \in Seq(S)
  BY ConcatProperties
<1>2. Append(u, m) = u \o <<m>>
  OBVIOUS
<1>3. Append(s \o u, m) = (s \o u) \o <<m>>
  BY <1>1
<1>4. QED BY <1>1, <1>2, <1>3, ConcatAssociative

LEMMA ChosenType ==
    ASSUME NEW S, NEW T, NEW s \in Seq(S)
    PROVE  Chosen(s, T) \in Seq(S)
<1>1. Len(s) \in 0 .. Len(s)
  BY LenProperties
<1>2. QED BY <1>1, ChosenStep DEF Chosen

LEMMA ChosenJoined ==
    ASSUME NEW S, NEW T, NEW s \in Seq(S), NEW u \in Seq(S)
    PROVE  Chosen(s \o u, T) = Chosen(s, T) \o Chosen(u, T)
<1> DEFINE t == s \o u  n == Len(s)  k == Len(u)
           f == ChosenSoFar(s, T)  g == ChosenSoFar(u, T)  h == ChosenSoFar(t, T)
<1>1. /\ t \in Seq(S) /\ Len(t) = n + k /\ n \in Nat /\ k \in Nat
      /\ \A i \in 1 .. n + k : t[i] = IF i <= n THEN s[i] ELSE u[i - n]
  BY ConcatProperties, LenProperties
<1> HIDE DEF t
<1>2. /\ f \in [0 .. n -> Seq(S)] /\ Selects(f, s, T, n)
      /\ g \in [0 .. k -> Seq(S)] /\ Selects(g, u, T, k)
      /\ h \in [0 .. n + k -> Seq(S)] /\ Selects(h, t, T, n + k)
  <2>1. f \in [0 .. n -> Seq(S)] /\ Selects(f, s, T, n)
    BY ChosenStep
  <2>2. g \in [0 .. k -> Seq(S)] /\ Selects(g, u, T, k)
    BY ChosenStep
  <2>3. h \in [0 .. Len(t) -> Seq(S)] /\ Selects(h, t, T, Len(t))
    BY <1>1, ChosenStep
  <2>4. QED BY <1>1, <2>1, <2>2, <2>3
<1> HIDE DEF n, k, f, g, h
<1>3. \A i \in 0 .. n : h[i] = f[i]
  <2> DEFINE A == {i \in 0 .. n : h[i] = f[i]}
  <2>1. 0 \in A
    BY <1>1, <1>2 DEF Selects
  <2>2. ASSUME NEW i \in 0 .. n, i # n, i \in A PROVE i + 1 \in A
    <3>1. /\ i + 1 \in 1 .. n /\ i + 1 \in 1 .. n + k /\ i + 1 - 1 = i /\ i + 1 <= n
          /\ h[i] = f[i]
      BY <1>1, <2>2
    <3>2. t[i + 1] = s[i + 1]
      BY <1>1, <3>1
    <3>3. f[i + 1] = IF s[i + 1] \in T THEN Append(f[i], s[i + 1]) ELSE f[i]
      BY <1>2, <3>1 DEF Selects
    <3>4. h[i + 1] = IF t[i + 1] \in T THEN Append(h[i], t[i + 1]) ELSE h[i]
      BY <1>2, <3>1 DEF Selects
    <3>5. QED BY <3>1, <3>2, <3>3, <3>4
  <2>3. \A i \in 0 .. n : i \in A
    <3> HIDE DEF A
    <3>1. QED BY <1>1, <2>1, <2>2, UpTo
  <2>4. QED BY <2>3
<1>4. \A j \in 0 .. k : h[n + j] = f[n] \o g[j]
  <2> DEFINE A == {j \in 0 .. k : h[n + j] = f[n] \o g[j]}
  <2>0. n \in 0 .. n /\ f[n] \in Seq(S) /\ n + 0 = n
    BY <1>1, <1>2
  <2>1. 0 \in A
    <3>1. g[0] = <<>> /\ h[n] = f[n]
      BY <1>2, <1>3, <2>0 DEF Selects
    <3>2. f[n] \o <<>> = f[n]
      BY <2>0
    <3>3. h[n + 0] = f[n] \o g[0]
      BY <2>0, <3>1, <3>2
    <3>4. 0 \in 0 .. k
      BY <1>1
    <3>5. QED BY <3>3, <3>4
  <2>2. ASSUME NEW j \in 0 .. k, j # k, j \in A PROVE j + 1 \in A
    <3> DEFINE p == n + (j + 1)
    <3>1. /\ j + 1 \in 1 .. k /\ p \in 1 .. n + k /\ j + 1 - 1 = j
          /\ p - 1 = n + j /\ ~(p <= n) /\ p - n = j + 1
      BY <1>1, <2>2
    <3>0. h[n + j] = f[n] \o g[j]
      BY <2>2
    <3> HIDE DEF p
    <3>2. t[p] = u[j + 1]
      BY <1>1, <3>1
    <3>3. g[j + 1] = IF u[j + 1] \in T THEN Append(g[j], u[j + 1]) ELSE g[j]
      BY <1>2, <3>1 DEF Selects
    <3>4. h[p] = IF t[p] \in T THEN Append(h[n + j], t[p]) ELSE h[n + j]
      BY <1>2, <3>1 DEF Selects
    <3>5. g[j] \in Seq(S) /\ u[j + 1] \in S
      <4>1. g[j] \in Seq(S)
        BY <1>2
      <4>2. u[j + 1] \in S
        BY <3>1, ElementOfSeq DEF k
      <4>3. QED BY <4>1, <4>2
    <3>6. f[n] \o Append(g[j], u[j + 1]) = Append(f[n] \o g[j], u[j + 1])
      <4> DEFINE a == f[n]  b == g[j]  m == u[j + 1]
      <4>1. a \in Seq(S) /\ b \in Seq(S) /\ m \in S
        BY <2>0, <3>5
      <4> HIDE DEF a, b, m
      <4>2. a \o Append(b, m) = Append(a \o b, m)
        BY <4>1, AppendJoined
      <4>3. QED BY <4>2 DEF a, b, m
    <3>7. h[p] = f[n] \o g[j + 1]
      BY <3>0, <3>2, <3>3, <3>4, <3>6
    <3>8. j + 1 \in 0 .. k /\ h[n + (j + 1)] = f[n] \o g[j + 1]
      BY <1>1, <2>2, <3>7 DEF p
    <3>9. QED BY <3>8
  <2>3. \A j \in 0 .. k : j \in A
    <3> HIDE DEF A
    <3>1. QED BY <1>1, <2>1, <2>2, UpTo
  <2>4. QED BY <2>3
<1>5. h[n + k] = f[n] \o g[k]
  <2>1. k \in 0 .. k
    BY <1>1
  <2>2. QED BY <1>4, <2>1
<1>6. QED BY <1>1, <1>5 DEF Chosen, t, n, k, f, g, h

LEMMA ChosenShort ==
    ASSUME NEW S, NEW T
    PROVE  /\ Chosen(<<>>, T) = <<>>
           /\ \A m \in S : /\ <<m>> \in Seq(S)
                           /\ Chosen(<<m>>, T) = IF m \in T THEN <<m>> ELSE <<>>
<1>1. Chosen(<<>>, T) = <<>>
  <2>1. <<>> \in Seq(S) /\ Len(<<>>) = 0
    OBVIOUS
  <2>2. Selects(ChosenSoFar(<<>>, T), <<>>, T, 0)
    BY <2>1, ChosenStep
  <2>3. QED BY <2>1, <2>2 DEF Selects, Chosen
<1>2. ASSUME NEW m \in S
      PROVE  <<m>> \in Seq(S) /\ Chosen(<<m>>, T) = IF m \in T THEN <<m>> ELSE <<>>
  <2> DEFINE s == <<m>>  f == ChosenSoFar(s, T)
  <2>1. s \in Seq(S) /\ Len(s) = 1 /\ s[1] = m /\ 1 \in 1 .. 1 /\ 1 - 1 = 0
    OBVIOUS
  <2>2. Append(<<>>, m) = <<m>>
    OBVIOUS
  <2> HIDE DEF s
  <2>3. Selects(f, s, T, 1)
    BY <2>1, ChosenStep
  <2> HIDE DEF f
  <2>4. f[0] = <<>> /\ f[1] = IF m \in T THEN Append(f[0], m) ELSE f[0]
    BY <2>1, <2>3 DEF Selects
  <2>5. f[1] = IF m \in T THEN <<m>> ELSE <<>>
    BY <2>2, <2>4
  <2>6. QED BY <2>1, <2>5 DEF Chosen, f, s
<1>3. QED BY <1>1, <1>2

LEMMA ChosenAppended ==
    ASSUME NEW S, NEW T, NEW s \in Seq(S), NEW m \in S
    PROVE  Chosen(Append(s, m), T) = IF m \in T THEN Append(Chosen(s, T), m) ELSE Chosen(s, T)
<1>1. Append(s, m) = s \o <<m>>
  OBVIOUS
<1>2. <<m>> \in Seq(S) /\ Chosen(<<m>>, T) = IF m \in T THEN <<m>> ELSE <<>>
  BY ChosenShort
<1>3. Chosen(s \o <<m>>, T) = Chosen(s, T) \o Chosen(<<m>>, T)
  BY <1>2, ChosenJoined
<1> DEFINE c == Chosen(s, T)
<1>4. c \in Seq(S)
  BY ChosenType
<1> HIDE DEF c
<1>5. c \o <<>> = c /\ c \o <<m>> = Append(c, m)
  BY <1>4
<1>6. QED BY <1>1, <1>2, <1>3, <1>5 DEF c

LEMMA ChosenOfTail ==
    ASSUME NEW S, NEW T, NEW s \in Seq(S), s # <<>>
    PROVE  Chosen(s, T) = (IF Head(s) \in T THEN <<Head(s)>> ELSE <<>>) \o Chosen(Tail(s), T)
<1>1. Head(s) \in S /\ Tail(s) \in Seq(S) /\ s = <<Head(s)>> \o Tail(s)
  <2>1. Head(s) \in S /\ Tail(s) \in Seq(S)
    BY HeadTailProperties
  <2>2. s = <<Head(s)>> \o Tail(s)
    OBVIOUS
  <2>3. QED BY <2>1, <2>2
<1>2. <<Head(s)>> \in Seq(S) /\ Chosen(<<Head(s)>>, T) = IF Head(s) \in T THEN <<Head(s)>> ELSE <<>>
  BY <1>1, ChosenShort
<1>3. Chosen(<<Head(s)>> \o Tail(s), T) = Chosen(<<Head(s)>>, T) \o Chosen(Tail(s), T)
  BY <1>1, <1>2, ChosenJoined
<1>4. QED BY <1>1, <1>2, <1>3

LEMMA ChosenNone ==
    ASSUME NEW S, NEW T, NEW s \in Seq(S), \A i \in 1 .. Len(s) : s[i] \notin T
    PROVE  Chosen(s, T) = <<>>
<1> DEFINE n == Len(s)  f == ChosenSoFar(s, T)  A == {i \in 0 .. n : f[i] = <<>>}
<1>1. n \in Nat
  BY LenProperties
<1>2. Selects(f, s, T, n)
  BY ChosenStep
<1> HIDE DEF f
<1>3. 0 \in A
  BY <1>1, <1>2 DEF Selects
<1>4. ASSUME NEW i \in 0 .. n, i # n, i \in A PROVE i + 1 \in A
  <2>1. i + 1 \in 1 .. n /\ i + 1 - 1 = i /\ s[i + 1] \notin T /\ f[i] = <<>>
    BY <1>1, <1>4
  <2>2. f[i + 1] = f[i]
    BY <1>2, <2>1 DEF Selects
  <2>3. QED BY <1>1, <2>1, <2>2
<1>5. \A i \in 0 .. n : i \in A
  <2> HIDE DEF A, n
  <2>1. QED BY <1>1, <1>3, <1>4, UpTo
<1>6. n \in 0 .. n
  BY <1>1
<1>7. f[n] = <<>>
  BY <1>5, <1>6
<1>8. QED BY <1>7 DEF Chosen, f

LEMMA ChosenAll ==
    ASSUME NEW S, NEW T, NEW s \in Seq(S), \A i \in 1 .. Len(s) : s[i] \in T
    PROVE  Chosen(s, T) = s
<1> DEFINE n == Len(s)  f == ChosenSoFar(s, T)  A == {i \in 0 .. n : f[i] = SubSeq(s, 1, i)}
<1>1. n \in Nat
  BY LenProperties
<1>2. Selects(f, s, T, n)
  BY ChosenStep
<1> HIDE DEF f
<1>3. 0 \in A
  <2>1. f[0] = <<>>
    BY <1>2 DEF Selects
  <2>2. 1 \in Int /\ 0 \in Int /\ 0 < 1 /\ 0 \in 0 .. n
    BY <1>1
  <2>3. SubSeq(s, 1, 0) = <<>>
    BY <2>2, SubSeqEmpty
  <2>4. QED BY <2>1, <2>2, <2>3
<1>4. ASSUME NEW i \in 0 .. n, i # n, i \in A PROVE i + 1 \in A
  <2>0. i + 1 \in 1 .. n /\ i + 1 \in 0 .. n /\ i + 1 - 1 = i
    BY <1>1, <1>4
  <2>1. i + 1 \in 1 .. n /\ i + 1 - 1 = i /\ s[i + 1] \in T /\ f[i] = SubSeq(s, 1, i)
    BY <1>4, <2>0
  <2>2. f[i + 1] = Append(f[i], s[i + 1])
    <3>1. \A j \in 1 .. n : f[j] = IF s[j] \in T THEN Append(f[j - 1], s[j]) ELSE f[j - 1]
      BY <1>2 DEF Selects
    <3> DEFINE p == i + 1
    <3>2. p \in 1 .. n /\ s[p] \in T /\ p - 1 = i
      BY <2>0, <2>1
    <3> HIDE DEF n, p
    <3>3. f[p] = Append(f[p - 1], s[p])
      BY <3>1, <3>2
    <3>4. f[p] = Append(f[i], s[p])
      BY <3>2, <3>3
    <3>5. QED BY <3>4 DEF p
  <2>3. SubSeq(s, 1, i + 1) = SubSeq(s, 1, i + 1 - 1) \o <<s[i + 1]>>
    BY <1>1, <2>1, SubSeqRecursiveSecond
  <2>4. SubSeq(s, 1, i) \in Seq(S) /\ s[i + 1] \in S
    <3>1. \A j \in 1 .. i : s[j] \in S
      BY <1>1, <2>1, ElementOfSeq
    <3>2. s[i + 1] \in S
      BY <2>1, ElementOfSeq
    <3>3. QED BY <1>1, <3>1, <3>2, SubSeqProperties
  <2> DEFINE u == SubSeq(s, 1, i)  m == s[i + 1]
  <2>5. u \o <<m>> = Append(u, m)
    <3>1. u \in Seq(S) /\ m \in S
      BY <2>4
    <3> HIDE DEF u, m
    <3>2. QED BY <3>1
  <2>6. f[i + 1] = SubSeq(s, 1, i + 1)
    BY <2>1, <2>2, <2>3, <2>5
  <2>7. QED BY <2>0, <2>6
<1>5. \A i \in 0 .. n : i \in A
  <2> HIDE DEF A, n
  <2>1. QED BY <1>1, <1>3, <1>4, UpTo
<1>6. n \in 0 .. n
  BY <1>1
<1>7. f[n] = SubSeq(s, 1, n)
  BY <1>5, <1>6
<1>8. QED BY <1>7, SubSeqFull DEF Chosen, f

-----------------------------------------------------------------------------
(* The identifiers that wait or travel on a lane, in order.                *)

LEMMA IdsType ==
    ASSUME NEW s \in Seq(Msg)
    PROVE  /\ Ids(s) \in Seq(Nat) /\ Len(Ids(s)) = Len(s) /\ Len(s) \in Nat
           /\ \A i \in 1 .. Len(s) : Ids(s)[i] = s[i].id
<1>1. Len(s) \in Nat /\ \A i \in 1 .. Len(s) : s[i] \in Msg
  BY LenProperties, ElementOfSeq
<1>2. \A i \in 1 .. Len(s) : s[i].id \in Nat
  BY <1>1 DEF Msg
<1>3. QED BY <1>1, <1>2 DEF Ids

LEMMA IdsOfJoined ==
    ASSUME NEW s \in Seq(Msg), NEW u \in Seq(Msg)
    PROVE  Ids(s \o u) = Ids(s) \o Ids(u)
<1> DEFINE t == s \o u  a == Ids(s)  b == Ids(u)  e == Ids(t)
<1>1. /\ t \in Seq(Msg) /\ Len(t) = Len(s) + Len(u)
      /\ \A i \in 1 .. Len(s) + Len(u) : t[i] = IF i <= Len(s) THEN s[i] ELSE u[i - Len(s)]
  BY ConcatProperties
<1> HIDE DEF t
<1>2. /\ a \in Seq(Nat) /\ Len(a) = Len(s) /\ Len(s) \in Nat
      /\ \A i \in 1 .. Len(s) : a[i] = s[i].id
  BY IdsType
<1>3. /\ b \in Seq(Nat) /\ Len(b) = Len(u) /\ Len(u) \in Nat
      /\ \A i \in 1 .. Len(u) : b[i] = u[i].id
  BY IdsType
<1>4. /\ e \in Seq(Nat) /\ Len(e) = Len(t)
      /\ \A i \in 1 .. Len(t) : e[i] = t[i].id
  BY <1>1, IdsType
<1> HIDE DEF a, b, e
<1>5. /\ a \o b \in Seq(Nat) /\ Len(a \o b) = Len(a) + Len(b)
      /\ \A i \in 1 .. Len(a) + Len(b) : (a \o b)[i] = IF i <= Len(a) THEN a[i] ELSE b[i - Len(a)]
  <2>1. a \in Seq(Nat) /\ b \in Seq(Nat)
    BY <1>2, <1>3
  <2>2. QED BY <2>1, ConcatProperties
<1>6. ASSUME NEW i \in 1 .. Len(e) PROVE e[i] = (a \o b)[i]
  <2>1. i \in 1 .. Len(s) + Len(u) /\ e[i] = t[i].id
    BY <1>1, <1>4
  <2>2. CASE i <= Len(s)
    <3>1. i \in 1 .. Len(s) /\ t[i] = s[i]
      BY <1>1, <1>2, <1>3, <2>1, <2>2
    <3>2. a[i] = s[i].id /\ (a \o b)[i] = a[i]
      BY <1>2, <1>3, <1>5, <2>1, <2>2, <3>1
    <3>3. QED BY <2>1, <3>1, <3>2
  <2>3. CASE ~(i <= Len(s))
    <3>0. i - Len(s) \in 1 .. Len(u)
      BY <1>2, <1>3, <2>1, <2>3
    <3>1. i - Len(s) \in 1 .. Len(u) /\ t[i] = u[i - Len(s)]
      <4>1. t[i] = IF i <= Len(s) THEN s[i] ELSE u[i - Len(s)]
        BY <1>1, <2>1
      <4>2. QED BY <2>3, <3>0, <4>1
    <3>2. b[i - Len(s)] = u[i - Len(s)].id
      BY <1>3, <3>1
    <3>3. i \in 1 .. Len(a) + Len(b) /\ ~(i <= Len(a)) /\ i - Len(a) = i - Len(s)
      BY <1>2, <1>3, <2>1, <2>3
    <3>4. (a \o b)[i] = b[i - Len(s)]
      BY <1>5, <3>3
    <3>5. QED BY <2>1, <3>1, <3>2, <3>4
  <2>4. QED BY <2>2, <2>3
<1>7. e = a \o b
  <2>1. Len(e) = Len(a \o b)
    BY <1>1, <1>2, <1>3, <1>4, <1>5
  <2>2. QED BY <1>4, <1>5, <1>6, <2>1, SeqEqual
<1>8. QED BY <1>7 DEF a, b, e, t

LEMMA IdsOfShort ==
    /\ Ids(<<>>) = <<>>
    /\ \A m \in Msg : <<m>> \in Seq(Msg) /\ Ids(<<m>>) = <<m.id>> /\ m.id \in Nat
<1>1. Ids(<<>>) = <<>>
  BY DEF Ids
<1>2. ASSUME NEW m \in Msg PROVE <<m>> \in Seq(Msg) /\ Ids(<<m>>) = <<m.id>> /\ m.id \in Nat
  <2>1. <<m>> \in Seq(Msg) /\ Len(<<m>>) = 1 /\ <<m>>[1] = m /\ m.id \in Nat
    BY DEF Msg
  <2> DEFINE s == <<m>>  a == Ids(s)  b == <<m.id>>
  <2>2. a \in Seq(Nat) /\ Len(a) = 1 /\ a[1] = m.id
    <3>1. s \in Seq(Msg) /\ Len(s) = 1 /\ s[1] = m
      BY <2>1
    <3> HIDE DEF s
    <3>2. 1 \in 1 .. Len(s)
      BY <3>1
    <3>3. a \in Seq(Nat) /\ Len(a) = Len(s) /\ a[1] = s[1].id
      BY <3>1, <3>2, IdsType
    <3>4. QED BY <3>1, <3>3
  <2>3. b \in Seq(Nat) /\ Len(b) = 1 /\ b[1] = m.id
    BY <2>1
  <2> HIDE DEF a, b
  <2>4. \A i \in 1 .. Len(a) : a[i] = b[i]
    BY <2>2, <2>3
  <2>5. a = b
    BY <2>2, <2>3, <2>4, SeqEqual
  <2>6. QED BY <2>1, <2>5 DEF a, b
<1>3. QED BY <1>1, <1>2

LEMMA IdsOfAppended ==
    ASSUME NEW s \in Seq(Msg), NEW m \in Msg
    PROVE  Ids(Append(s, m)) = Append(Ids(s), m.id)
<1>1. Append(s, m) = s \o <<m>>
  OBVIOUS
<1>2. <<m>> \in Seq(Msg) /\ Ids(<<m>>) = <<m.id>> /\ m.id \in Nat
  BY IdsOfShort
<1>3. Ids(s \o <<m>>) = Ids(s) \o <<m.id>>
  BY <1>2, IdsOfJoined
<1> DEFINE a == Ids(s)
<1>4. a \in Seq(Nat)
  BY IdsType
<1> HIDE DEF a
<1>5. a \o <<m.id>> = Append(a, m.id)
  BY <1>2, <1>4
<1>6. QED BY <1>1, <1>3, <1>5 DEF a

\* The application messages among s.
OnWire(s) == Ids(Chosen(s, DataMsg))
Dry(s) == DataCmd \notin Cmds(s)

LEMMA OnWireType ==
    ASSUME NEW s \in Seq(Msg) PROVE OnWire(s) \in Seq(Nat)
BY ChosenType, IdsType DEF OnWire

LEMMA OnWireJoined ==
    ASSUME NEW s \in Seq(Msg), NEW u \in Seq(Msg)
    PROVE  OnWire(s \o u) = OnWire(s) \o OnWire(u)
<1> DEFINE a == Chosen(s, DataMsg)  b == Chosen(u, DataMsg)
<1>1. a \in Seq(Msg) /\ b \in Seq(Msg) /\ Chosen(s \o u, DataMsg) = a \o b
  BY ChosenType, ChosenJoined
<1> HIDE DEF a, b
<1>2. Ids(a \o b) = Ids(a) \o Ids(b)
  BY <1>1, IdsOfJoined
<1>3. QED BY <1>1, <1>2 DEF OnWire, a, b

LEMMA OnWireAppended ==
    ASSUME NEW s \in Seq(Msg), NEW m \in Msg
    PROVE  OnWire(Append(s, m)) = IF IsData(m) THEN Append(OnWire(s), m.id) ELSE OnWire(s)
<1> DEFINE a == Chosen(s, DataMsg)
<1>1. a \in Seq(Msg) /\ Chosen(Append(s, m), DataMsg) = IF m \in DataMsg THEN Append(a, m) ELSE a
  BY ChosenType, ChosenAppended
<1> HIDE DEF a
<1>2. Ids(Append(a, m)) = Append(Ids(a), m.id)
  BY <1>1, IdsOfAppended
<1>3. m \in DataMsg <=> IsData(m)
  BY DEF DataMsg
<1>4. QED BY <1>1, <1>2, <1>3 DEF OnWire, a

LEMMA OnWireOfTail ==
    ASSUME NEW s \in Seq(Msg), s # <<>>
    PROVE  /\ Tail(s) \in Seq(Msg) /\ Head(s) \in Msg
           /\ OnWire(s) = IF IsData(Head(s)) THEN <<Head(s).id>> \o OnWire(Tail(s))
                          ELSE OnWire(Tail(s))
<1> DEFINE m == Head(s)  t == Tail(s)  a == Chosen(t, DataMsg)
<1>1. m \in Msg /\ t \in Seq(Msg)
  BY HeadTailProperties
<1>2. Chosen(s, DataMsg) = (IF m \in DataMsg THEN <<m>> ELSE <<>>) \o a
  BY ChosenOfTail
<1>3. a \in Seq(Msg)
  BY <1>1, ChosenType
<1> HIDE DEF a, m, t
<1>4. m \in DataMsg <=> IsData(m)
  BY <1>1 DEF DataMsg
<1>5. <<m>> \in Seq(Msg) /\ Ids(<<m>>) = <<m.id>>
  BY <1>1, IdsOfShort
<1>6. Ids(<<m>> \o a) = <<m.id>> \o Ids(a)
  BY <1>3, <1>5, IdsOfJoined
<1>7. <<>> \o a = a
  BY <1>3
<1>8. OnWire(s) = IF IsData(m) THEN <<m.id>> \o OnWire(t) ELSE OnWire(t)
  BY <1>2, <1>4, <1>6, <1>7 DEF OnWire, a
<1>9. QED BY <1>1, <1>8 DEF m, t

LEMMA OnWireDry ==
    ASSUME NEW s \in Seq(Msg), Dry(s) PROVE OnWire(s) = <<>>
<1>1. \A i \in 1 .. Len(s) : s[i] \notin DataMsg
  BY DEF Dry, Cmds, DataMsg, IsData
<1>2. Chosen(s, DataMsg) = <<>>
  BY <1>1, ChosenNone
<1>3. QED BY <1>2, IdsOfShort DEF OnWire

LEMMA OnWireAll ==
    ASSUME NEW s \in Seq(Msg), \A i \in 1 .. Len(s) : IsData(s[i]) PROVE OnWire(s) = Ids(s)
<1>1. \A i \in 1 .. Len(s) : s[i] \in DataMsg
  BY ElementOfSeq DEF DataMsg
<1>2. Chosen(s, DataMsg) = s
  BY <1>1, ChosenAll
<1>3. QED BY <1>2 DEF OnWire

-----------------------------------------------------------------------------
(* What happens on a lane, as OrderedLink has it.                          *)

\* Two parts of a queue, of which the first may go if front and the last if back.
LEMMA PartsRemain ==
    ASSUME NEW a \in Seq(Nat), NEW b \in Seq(Nat), NEW p, NEW q,
           NEW front \in BOOLEAN, NEW back \in BOOLEAN,
           p = a \/ (p = <<>> /\ front), q = b \/ (q = <<>> /\ back)
    PROVE  Link!Remains(p \o q, a \o b, front, back)
<1> DEFINE s == a \o b  n == Len(a)  k == Len(b)
<1>1. /\ s \in Seq(Nat) /\ Len(s) = n + k /\ n \in Nat /\ k \in Nat
      /\ \A i \in 1 .. n + k : s[i] = IF i <= n THEN a[i] ELSE b[i - n]
  BY ConcatProperties, LenProperties
<1>2. <<>> \in Seq(Nat) /\ a \o <<>> = a /\ <<>> \o b = b /\ <<>> \o <<>> = <<>>
  OBVIOUS
<1>3. \A i \in 1 .. n + k : s[i] \in Nat
  BY <1>1, ElementOfSeq
<1> HIDE DEF s
<1> SUFFICES \E i \in 1 .. Len(s) + 1, j \in 0 .. Len(s) :
                /\ p \o q = SubSeq(s, i, j)
                /\ front \/ i = 1
                /\ back \/ j = Len(s)
  BY DEF Link!Remains, s
<1>4. CASE p = a /\ q = b
  <2>1. SubSeq(s, 1, Len(s)) = s
    BY <1>1, SubSeqFull
  <2>2. 1 \in 1 .. Len(s) + 1 /\ Len(s) \in 0 .. Len(s)
    BY <1>1
  <2>3. QED BY <1>4, <2>1, <2>2 DEF s
<1>5. CASE p = a /\ q = <<>> /\ back
  <2> DEFINE t == SubSeq(s, 1, n)
  <2>1. /\ t \in Seq(Nat) /\ Len(t) = IF 1 <= n THEN n - 1 + 1 ELSE 0
        /\ \A i \in 1 .. n - 1 + 1 : t[i] = s[1 + i - 1]
    <3>1. 1 \in Int /\ n \in Int /\ \A i \in 1 .. n : s[i] \in Nat
      BY <1>1, <1>3
    <3>2. QED BY <3>1, SubSeqProperties
  <2> HIDE DEF t
  <2>2. Len(t) = Len(a)
    BY <1>1, <2>1
  <2>3. ASSUME NEW i \in 1 .. Len(t) PROVE t[i] = a[i]
    <3>1. i \in 1 .. n - 1 + 1 /\ 1 + i - 1 = i /\ i \in 1 .. n + k /\ i <= n
      BY <1>1, <2>2
    <3>2. QED BY <1>1, <2>1, <3>1
  <2>4. t = a
    BY <2>1, <2>2, <2>3, SeqEqual
  <2>5. 1 \in 1 .. Len(s) + 1 /\ n \in 0 .. Len(s)
    BY <1>1
  <2>6. QED BY <1>2, <1>5, <2>4, <2>5 DEF t
<1>6. CASE p = <<>> /\ front /\ q = b
  <2> DEFINE t == SubSeq(s, n + 1, n + k)
  <2>1. /\ t \in Seq(Nat) /\ Len(t) = IF n + 1 <= n + k THEN n + k - (n + 1) + 1 ELSE 0
        /\ \A i \in 1 .. n + k - (n + 1) + 1 : t[i] = s[n + 1 + i - 1]
    <3>1. n + 1 \in Int /\ n + k \in Int /\ \A i \in n + 1 .. n + k : s[i] \in Nat
      BY <1>1, <1>3
    <3>2. QED BY <3>1, SubSeqProperties
  <2> HIDE DEF t
  <2>2. Len(t) = Len(b)
    BY <1>1, <2>1
  <2>3. ASSUME NEW i \in 1 .. Len(t) PROVE t[i] = b[i]
    <3>1. /\ i \in 1 .. n + k - (n + 1) + 1 /\ n + 1 + i - 1 = n + i /\ n + i \in 1 .. n + k
          /\ ~(n + i <= n) /\ n + i - n = i
      BY <1>1, <2>2
    <3>2. t[i] = s[n + i]
      BY <2>1, <3>1
    <3> DEFINE j == n + i
    <3>3. j \in 1 .. n + k /\ ~(j <= n) /\ j - n = i
      BY <3>1
    <3> HIDE DEF j
    <3>4. s[j] = IF j <= n THEN a[j] ELSE b[j - n]
      BY <1>1, <3>3
    <3>5. s[j] = b[i]
      BY <3>3, <3>4
    <3>6. QED BY <3>2, <3>5 DEF j
  <2>4. t = b
    BY <2>1, <2>2, <2>3, SeqEqual
  <2>5. n + 1 \in 1 .. Len(s) + 1 /\ n + k \in 0 .. Len(s) /\ n + k = Len(s)
    BY <1>1
  <2>6. QED BY <1>2, <1>6, <2>4, <2>5 DEF t
<1>7. CASE p = <<>> /\ front /\ q = <<>> /\ back
  <2>1. n + k + 1 \in 1 .. Len(s) + 1 /\ n + k \in 0 .. Len(s) /\ n + k < n + k + 1
    BY <1>1
  <2>2. SubSeq(s, n + k + 1, n + k) = <<>>
    BY <1>1, <2>1, SubSeqEmpty
  <2>3. QED BY <1>2, <1>7, <2>1, <2>2
<1>8. QED BY <1>4, <1>5, <1>6, <1>7

\* What is pending on a lane.
Pend(x) == OnWire(x.wire) \o Ids(x.wait)

\* What holds of a lane: no application message is sent ahead of the
\* handshake or to an end that is closed, and none waits behind it.
LaneDry(x) ==
    /\ x.early \/ x.cut => Dry(x.wire)
    /\ x.ready => x.wait = <<>>
    /\ \A i \in 1 .. Len(x.wait) : IsData(x.wait[i])

LEMMA LaneParts ==
    ASSUME NEW x \in LaneType
    PROVE  /\ x.wait \in Seq(Msg) /\ x.wire \in Seq(Msg) /\ x.got \in Seq(Nat)
           /\ OnWire(x.wire) \in Seq(Nat) /\ Ids(x.wait) \in Seq(Nat)
           /\ Pend(x) \in Seq(Nat)
           /\ x.cut \in BOOLEAN /\ x.shut \in BOOLEAN
<1>1. /\ x.wait \in Seq(Msg) /\ x.wire \in Seq(Msg) /\ x.got \in Seq(Nat)
      /\ x.cut \in BOOLEAN /\ x.shut \in BOOLEAN
  BY DEF LaneType
<1>2. OnWire(x.wire) \in Seq(Nat) /\ Ids(x.wait) \in Seq(Nat)
  BY <1>1, OnWireType, IdsType
<1>3. OnWire(x.wire) \o Ids(x.wait) \in Seq(Nat)
  BY <1>2, ConcatProperties
<1>4. QED BY <1>1, <1>2, <1>3 DEF Pend

\* No handshake message is an application message.
LEMMA HandshakeIsDry ==
    ASSUME DataCmd # SYS_ERROR
    PROVE  \A m \in Handshake : m \in Msg /\ m.cmd # DataCmd /\ ~IsData(m)
BY ControlMsgs, CmdsDiffer DEF Handshake, Control, IsData

LEMMA MovesRemain ==
    ASSUME DataCmd # SYS_ERROR, NEW x \in LaneType, NEW y \in LaneType, LaneDry(x), Moves(x, y)
    PROVE  /\ Link!Remains(Pend(y), Pend(x), y.cut, y.shut)
           /\ x.cut => y.cut
           /\ x.shut => y.shut
<1> DEFINE a == OnWire(x.wire)  b == Ids(x.wait)  p == OnWire(y.wire)  q == Ids(y.wait)
<1>1. /\ x.wait \in Seq(Msg) /\ x.wire \in Seq(Msg)
      /\ a \in Seq(Nat) /\ b \in Seq(Nat) /\ y.cut \in BOOLEAN /\ y.shut \in BOOLEAN
  BY LaneParts
<1>2. OnWire(<<>>) = <<>> /\ Ids(<<>>) = <<>>
  BY OnWireDry, IdsOfShort, CmdsShort, NoMsgs DEF Dry
<1>3. x.early \/ x.cut => a = <<>>
  BY <1>1, OnWireDry DEF LaneDry
<1>4. (x.cut => y.cut) /\ (x.shut => y.shut)
  BY DEF Moves, Same, Loses, Skips, Talks, Takes, Flushes
<1>5. CASE Same(x, y)
  <2>1. p = a /\ q = b
    BY <1>5 DEF Same
  <2> HIDE DEF a, b, p, q
  <2>2. Link!Remains(p \o q, a \o b, y.cut, y.shut)
    BY <1>1, <2>1, PartsRemain
  <2>3. QED BY <1>4, <2>2 DEF Pend, a, b, p, q
<1>6. CASE Loses(x, y)
  <2>1. q = b \/ (q = <<>> /\ y.shut)
    BY <1>2, <1>6 DEF Loses
  <2>2. p = a \/ (p = <<>> /\ y.cut)
    BY <1>2, <1>3, <1>6 DEF Loses
  <2> HIDE DEF a, b, p, q
  <2>3. Link!Remains(p \o q, a \o b, y.cut, y.shut)
    BY <1>1, <2>1, <2>2, PartsRemain
  <2>4. QED BY <1>4, <2>3 DEF Pend, a, b, p, q
<1>7. CASE Skips(x, y)
  <2>1. PICK n \in 1 .. Len(x.wire) : y.wire = SubSeq(x.wire, n + 1, Len(x.wire))
    BY <1>7 DEF Skips
  <2>2. y.wire \in Seq(Msg) /\ Cmds(y.wire) \subseteq Cmds(x.wire)
    BY <1>1, <2>1, CmdsOfRest
  <2>3. p = <<>> /\ a = <<>> /\ q = b
    BY <1>3, <1>7, <2>2, OnWireDry DEF Skips, LaneDry, Dry
  <2> HIDE DEF a, b, p, q
  <2>4. Link!Remains(p \o q, a \o b, y.cut, y.shut)
    BY <1>1, <2>3, PartsRemain
  <2>5. QED BY <1>4, <2>4 DEF Pend, a, b, p, q
<1>8. CASE Talks(x, y)
  <2>1. PICK m \in Handshake : y.wire = Append(x.wire, m)
    BY <1>8 DEF Talks
  <2>2. m \in Msg /\ ~IsData(m)
    BY HandshakeIsDry
  <2>3. p = a /\ q = b
    BY <1>1, <1>8, <2>1, <2>2, OnWireAppended DEF Talks
  <2> HIDE DEF a, b, p, q
  <2>4. Link!Remains(p \o q, a \o b, y.cut, y.shut)
    BY <1>1, <2>3, PartsRemain
  <2>5. QED BY <1>4, <2>4 DEF Pend, a, b, p, q
<1>9. CASE Takes(x, y)
  <2>1. x.wire # <<>> /\ ~IsData(Head(x.wire)) /\ y.wire = Tail(x.wire) /\ y.wait = x.wait
    BY <1>9 DEF Takes, IsData
  <2>2. OnWire(x.wire) = OnWire(Tail(x.wire))
    BY <1>1, <2>1, OnWireOfTail
  <2>3. p = a /\ q = b
    BY <2>1, <2>2
  <2> HIDE DEF a, b, p, q
  <2>4. Link!Remains(p \o q, a \o b, y.cut, y.shut)
    BY <1>1, <2>3, PartsRemain
  <2>5. QED BY <1>4, <2>4 DEF Pend, a, b, p, q
<1>10. CASE Flushes(x, y)
  <2>1. CASE x.cut
    <3>1. p = <<>> /\ a = <<>> /\ q = <<>> /\ y.cut
      BY <1>2, <1>3, <1>4, <1>10, <2>1 DEF Flushes
    <3>2. b \o <<>> = b /\ <<>> \o b = b /\ <<>> \in Seq(Nat)
      BY <1>1
    <3> HIDE DEF a, b, p, q
    <3>3. Link!Remains(<<>> \o <<>>, b \o <<>>, y.cut, y.shut)
      BY <1>1, <3>1, <3>2, PartsRemain
    <3>4. QED BY <1>4, <3>1, <3>2, <3>3 DEF Pend, a, b, p, q
  <2>2. CASE ~x.cut
    <3>1. OnWire(x.wait) = Ids(x.wait) /\ y.wire = x.wire \o x.wait
      BY <1>1, <1>10, <2>2, OnWireAll DEF LaneDry, Flushes
    <3>2. p = a \o b /\ q = <<>>
      BY <1>1, <1>2, <1>10, <3>1, OnWireJoined DEF Flushes
    <3>3. a \o b \in Seq(Nat)
      BY <1>1, ConcatProperties
    <3> DEFINE s == a \o b
    <3>4. s \o <<>> = s
      <4> HIDE DEF s
      <4>1. QED BY <3>3 DEF s
    <3>5. Pend(y) = s /\ Pend(x) = s
      BY <3>2, <3>4 DEF Pend
    <3>6. <<>> \in Seq(Nat) /\ s \in Seq(Nat)
      BY <3>3
    <3> HIDE DEF s
    <3>7. Link!Remains(s \o <<>>, s \o <<>>, y.cut, y.shut)
      BY <1>1, <3>6, PartsRemain
    <3>8. QED BY <1>4, <3>4, <3>5, <3>7
  <2>3. QED BY <2>1, <2>2
<1>11. QED BY <1>5, <1>6, <1>7, <1>8, <1>9, <1>10 DEF Moves

LEMMA DispatchesQueue ==
    ASSUME NEW x \in LaneType, NEW y \in LaneType, LaneDry(x), Dispatches(x, y)
    PROVE  /\ ~x.cut /\ y.cut = x.cut /\ y.shut = x.shut
           /\ Pend(x) # <<>> /\ Pend(y) = Tail(Pend(x)) /\ Head(Pend(x)) = Head(x.wire).id
<1> DEFINE m == Head(x.wire)  t == Tail(x.wire)  b == Ids(x.wait)  u == OnWire(t)
<1>1. /\ x.wait \in Seq(Msg) /\ x.wire \in Seq(Msg) /\ b \in Seq(Nat)
      /\ x.wire # <<>> /\ m.cmd = DataCmd /\ y.wire = t /\ y.wait = x.wait
  BY LaneParts DEF Dispatches
<1>2. m \in Msg /\ t \in Seq(Msg) /\ OnWire(x.wire) = <<m.id>> \o u /\ m.id \in Nat
  BY <1>1, OnWireOfTail DEF IsData, Msg
<1>3. ~x.cut
  <2>1. DataCmd \in Cmds(x.wire)
    BY <1>1, CmdsOfTail
  <2>2. QED BY <2>1 DEF LaneDry, Dry
<1>4. u \in Seq(Nat)
  BY <1>2, OnWireType
<1>5. Pend(x) = (<<m.id>> \o u) \o b /\ Pend(y) = u \o b
  BY <1>1, <1>2 DEF Pend
<1> DEFINE i == m.id  r == u \o b
<1>6. r \in Seq(Nat) /\ i \in Nat
  BY <1>1, <1>2, <1>4, ConcatProperties
<1>7. (<<i>> \o u) \o b = <<i>> \o r
  <2>1. <<i>> \in Seq(Nat)
    BY <1>6
  <2> HIDE DEF i, u, b
  <2>2. QED BY <1>1, <1>4, <2>1, ConcatAssociative
<1> HIDE DEF i, r, u, b
<1>8. <<i>> \o r # <<>> /\ Tail(<<i>> \o r) = r /\ Head(<<i>> \o r) = i
  <2> DEFINE s == <<i>> \o r
  <2>1. /\ s \in Seq(Nat) /\ Len(s) = 1 + Len(r) /\ Len(r) \in Nat /\ s[1] = i
        /\ \A j \in 1 .. 1 + Len(r) : s[j] = IF j <= 1 THEN i ELSE r[j - 1]
    <3>1. <<i>> \in Seq(Nat) /\ Len(<<i>>) = 1 /\ <<i>>[1] = i /\ Len(r) \in Nat
      BY <1>6
    <3>2. /\ s \in Seq(Nat) /\ Len(s) = Len(<<i>>) + Len(r)
          /\ \A j \in 1 .. Len(<<i>>) + Len(r) : s[j] = IF j <= Len(<<i>>) THEN <<i>>[j]
                                                    ELSE r[j - Len(<<i>>)]
      BY <1>6, <3>1, ConcatProperties
    <3>3. \A j \in 1 .. 1 + Len(r) : s[j] = IF j <= 1 THEN i ELSE r[j - 1]
      BY <3>1, <3>2
    <3>4. 1 \in 1 .. 1 + Len(r)
      BY <3>1
    <3>5. QED BY <3>1, <3>2, <3>3, <3>4
  <2> HIDE DEF s
  <2>2. s # <<>>
    BY <2>1
  <2>3. /\ Tail(s) \in Seq(Nat) /\ Len(Tail(s)) = Len(s) - 1
        /\ \A j \in 1 .. Len(Tail(s)) : Tail(s)[j] = s[j + 1]
    BY <2>1, <2>2, HeadTailProperties
  <2>4. Len(Tail(s)) = Len(r) /\ \A j \in 1 .. Len(Tail(s)) : Tail(s)[j] = r[j]
    <3>1. Len(Tail(s)) = Len(r)
      BY <2>1, <2>3
    <3>2. ASSUME NEW j \in 1 .. Len(r) PROVE s[j + 1] = r[j]
      <4>1. j + 1 \in 1 .. 1 + Len(r) /\ ~(j + 1 <= 1) /\ j + 1 - 1 = j
        BY <2>1
      <4>2. s[j + 1] = r[j + 1 - 1]
        BY <2>1, <4>1
      <4>3. QED BY <4>1, <4>2
    <3>3. QED BY <2>3, <3>1, <3>2
  <2>5. Tail(s) = r
    BY <1>6, <2>3, <2>4, SeqEqual
  <2>6. Head(s) = s[1]
    BY <2>1, <2>2
  <2>7. QED BY <2>1, <2>2, <2>5, <2>6 DEF s
<1>9. QED BY <1>3, <1>5, <1>7, <1>8 DEF Dispatches, i, r, u, b

LEMMA AdmitsQueue ==
    ASSUME NEW x \in LaneType, NEW y \in LaneType, NEW m \in Msg, IsData(m), LaneDry(x),
           Admits(m, x, y)
    PROVE  /\ ~x.shut /\ y.cut = x.cut /\ y.shut = x.shut
           /\ Pend(y) \in {Pend(x), Append(Pend(x), m.id)}
<1> DEFINE a == OnWire(x.wire)  b == Ids(x.wait)
<1>1. /\ x.wait \in Seq(Msg) /\ x.wire \in Seq(Msg) /\ a \in Seq(Nat) /\ b \in Seq(Nat)
      /\ m.id \in Nat
  BY LaneParts DEF Msg
<1>2. CASE y.wait = Append(x.wait, m) /\ y.wire = x.wire
  <2>1. Ids(y.wait) = Append(b, m.id) /\ OnWire(y.wire) = a
    BY <1>1, <1>2, IdsOfAppended
  <2>2. Pend(y) = a \o Append(b, m.id) /\ Pend(x) = a \o b
    BY <2>1 DEF Pend
  <2> HIDE DEF a, b
  <2>3. a \o Append(b, m.id) = Append(a \o b, m.id)
    BY <1>1, AppendJoined
  <2>4. QED BY <2>2, <2>3 DEF Admits
<1>3. CASE x.ready /\ y.wait = x.wait /\ y.wire = x.wire
  BY <1>3 DEF Pend, Admits
<1>4. CASE x.ready /\ y.wait = x.wait /\ y.wire = Append(x.wire, m)
  <2>1. y.wait = <<>> /\ x.wait = <<>>
    BY <1>4 DEF LaneDry
  <2>2. OnWire(y.wire) = Append(a, m.id)
    BY <1>1, <1>4, OnWireAppended
  <2>3. Pend(y) = Append(a, m.id) \o <<>> /\ Pend(x) = a \o <<>>
    BY <2>1, <2>2, IdsOfShort DEF Pend
  <2> HIDE DEF a
  <2>4. a \o <<>> = a /\ Append(a, m.id) \o <<>> = Append(a, m.id)
    BY <1>1
  <2>5. QED BY <2>3, <2>4 DEF Admits
<1>5. QED BY <1>2, <1>3, <1>4 DEF Admits

\* An end that is closed has nothing of the application before it.
LEMMA StepsDry ==
    ASSUME DataCmd # SYS_ERROR, NEW x \in LaneType, NEW y \in LaneType, LaneDry(x), y.cut,
           \/ Moves(x, y) \/ Dispatches(x, y)
           \/ \E m \in Msg : Admits(m, x, y)
    PROVE  Dry(y.wire)
<1>1. x.wire \in Seq(Msg) /\ x.wait \in Seq(Msg)
  BY LaneParts
<1>2. Dry(<<>>)
  BY CmdsShort DEF Dry
<1>3. CASE Same(x, y)
  BY <1>3 DEF Same, LaneDry
<1>4. CASE Loses(x, y)
  BY <1>2, <1>4 DEF Loses, LaneDry
<1>5. CASE Skips(x, y)
  <2>1. PICK n \in 1 .. Len(x.wire) : y.wire = SubSeq(x.wire, n + 1, Len(x.wire))
    BY <1>5 DEF Skips
  <2>2. Cmds(y.wire) \subseteq Cmds(x.wire)
    BY <1>1, <2>1, CmdsOfRest
  <2>3. QED BY <1>5, <2>2 DEF Skips, LaneDry, Dry
<1>6. CASE Talks(x, y)
  <2>1. PICK m \in Handshake : y.wire = Append(x.wire, m)
    BY <1>6 DEF Talks
  <2>2. m \in Msg /\ m.cmd # DataCmd
    BY HandshakeIsDry
  <2>3. Cmds(y.wire) = Cmds(x.wire) \cup {m.cmd}
    BY <1>1, <2>1, <2>2, CmdsAppended
  <2>4. QED BY <1>6, <2>2, <2>3 DEF Talks, LaneDry, Dry
<1>7. CASE Takes(x, y) \/ Dispatches(x, y)
  <2>1. /\ x.wire # <<>> /\ y.wire = Tail(x.wire) /\ y.cut = x.cut
    BY <1>7 DEF Takes, Dispatches
  <2>2. Cmds(y.wire) \subseteq Cmds(x.wire)
    BY <1>1, <2>1, CmdsOfTail
  <2>3. QED BY <2>1, <2>2 DEF LaneDry, Dry
<1>8. CASE Flushes(x, y) \/ \E m \in Msg : Admits(m, x, y)
  <2>1. y.cut = x.cut /\ (x.cut => y.wire = x.wire)
    BY <1>8 DEF Flushes, Admits
  <2>2. QED BY <2>1 DEF LaneDry
<1>9. QED BY <1>3, <1>4, <1>5, <1>6, <1>7, <1>8 DEF Moves

-----------------------------------------------------------------------------
(* The lanes and the queues of OrderedLink.                                *)

\* The lane on which w reads from c.
In(w, c) == IF IsEnd(w, c) THEN Lane(Peer(w, c), w, c) ELSE Nothing

\* The variables of OrderedLink.
Queues == [w \in Worker |-> [c \in Conn |-> Pending(w, c)]]
Cuts == [w \in Worker |-> [c \in Conn |->
            IsEnd(w, c) /\ (Ended(w, c) \/ carrier[c] = "dead")]]
Shuts == [w \in Worker |-> [c \in Conn |-> IsEnd(w, c) /\ Ended(Peer(w, c), c)]]

LanesAreRead ==
    \A w \in Worker, c \in Conn :
        /\ Queues[w][c] = Pend(In(w, c))
        /\ Cuts[w][c] = In(w, c).cut /\ Shuts[w][c] = In(w, c).shut

LEMMA InIs == LanesAreRead
<1> SUFFICES ASSUME NEW w \in Worker, NEW c \in Conn
             PROVE  /\ Pending(w, c) = Pend(In(w, c))
                    /\ (IsEnd(w, c) /\ (Ended(w, c) \/ carrier[c] = "dead")) = In(w, c).cut
                    /\ (IsEnd(w, c) /\ Ended(Peer(w, c), c)) = In(w, c).shut
  BY DEF LanesAreRead, Queues, Cuts, Shuts
<1>1. CASE IsEnd(w, c)
  <2> DEFINE x == Lane(Peer(w, c), w, c)
  <2>1. In(w, c) = x
    BY <1>1 DEF In
  <2>2. /\ x.wait = fdAttr[Peer(w, c)][c].wait /\ x.wire = wire[w][c]
        /\ x.cut = (Ended(w, c) \/ carrier[c] = "dead") /\ x.shut = Ended(Peer(w, c), c)
    BY DEF Lane
  <2>3. Pending(w, c) = Pend(x)
    BY <1>1, <2>2 DEF Pend, Pending, OnWire
  <2> HIDE DEF x
  <2>4. (IsEnd(w, c) /\ (Ended(w, c) \/ carrier[c] = "dead")) = (Ended(w, c) \/ carrier[c] = "dead")
    BY <1>1
  <2>5. (IsEnd(w, c) /\ Ended(Peer(w, c), c)) = Ended(Peer(w, c), c)
    BY <1>1 DEF Ended
  <2>6. QED BY <2>1, <2>2, <2>3, <2>4, <2>5
<1>2. CASE ~IsEnd(w, c)
  <2>1. In(w, c) = Nothing /\ Pending(w, c) = <<>>
    BY <1>2 DEF In, Pending
  <2>2. OnWire(<<>>) = <<>> /\ Ids(<<>>) = <<>>
    BY OnWireDry, IdsOfShort, CmdsShort, NoMsgs DEF Dry
  <2>3. Pend(Nothing) = <<>>
    BY <2>2 DEF Pend, Nothing
  <2>4. Nothing.cut = FALSE /\ Nothing.shut = FALSE
    BY DEF Nothing
  <2>5. QED BY <1>2, <2>1, <2>3, <2>4
<1>3. QED BY <1>1, <1>2

LEMMA InNext == LanesAreRead'
BY InIs, PTL

\* The two lanes of a connection.
LanesAreMates ==
    \A c \in Conn, o \in Worker, t \in Worker :
        IInv /\ InUse(c) /\ opener[c] = o /\ target[c] = t =>
            /\ In(o, c) = Out(t, c) /\ In(t, c) = Out(o, c)
            /\ \A v \in Worker : v \notin {o, t} => In(v, c) = Nothing

LEMMA MatesAre == LanesAreMates
<1> SUFFICES ASSUME NEW c \in Conn, NEW o \in Worker, NEW t \in Worker,
                    IInv, InUse(c), opener[c] = o, target[c] = t
             PROVE  /\ In(o, c) = Out(t, c) /\ In(t, c) = Out(o, c)
                    /\ \A v \in Worker : v \notin {o, t} => In(v, c) = Nothing
  BY DEF LanesAreMates
<1>1. o # t /\ carrier[c] # "unused"
  BY DEF IInv, Shape, EndsOK, InUse
<1>2. IsEnd(o, c) /\ IsEnd(t, c) /\ \A v \in Worker : v \notin {o, t} => ~IsEnd(v, c)
  BY <1>1 DEF IsEnd
<1>3. Peer(o, c) = t /\ Peer(t, c) = o
  BY <1>1 DEF Peer
<1>4. QED
  BY <1>2, <1>3 DEF In, Out

LEMMA MatesNext == LanesAreMates'
BY MatesAre, PTL

LEMMA InNone ==
    ASSUME NEW c \in Conn, NEW v
    PROVE  /\ ~InUse(c) => In(v, c) = Nothing
           /\ ~InUse(c)' => In(v, c)' = Nothing
BY DEF InUse, In, IsEnd

\* The worker that sends to w on c once the step is taken.
Mate(w, c) ==
    IF carrier'[c] = "unused" THEN w
    ELSE IF w = opener'[c] THEN target'[c]
    ELSE IF w = target'[c] THEN opener'[c]
    ELSE w

LEMMA MateIs ==
    ASSUME IInv, IInv', ViewInv, [Next]_vars, NEW w \in Worker, NEW c \in Conn
    PROVE  /\ Mate(w, c) \in Worker
           /\ \A m \in Worker : Mate(w, c) = m =>
                 /\ Mate(m, c) = w
                 /\ In(w, c) = Out(m, c)
                 /\ In(w, c)' = Out(m, c)'
                 /\ IsEnd(w, c) => m = Peer(w, c)
<1>1. Evolves(c)
  BY StepEvolves
<1>2. CASE ~InUse(c)'
  <2>1. ~InUse(c)
    BY <1>1, <1>2 DEF Evolves, Stays
  <2>2. Mate(w, c) = w /\ ~IsEnd(w, c)
    BY <1>2, <2>1 DEF Mate, InUse, IsEnd
  <2>3. \A v \in Worker : In(v, c) = Nothing /\ Out(v, c) = Nothing
    BY <2>1, InNone, OutNone
  <2>4. \A v \in Worker : In(v, c)' = Nothing /\ Out(v, c)' = Nothing
    BY <1>2, InNone, OutNone
  <2>5. QED BY <2>2, <2>3, <2>4
<1>3. ASSUME InUse(c)', NEW o \in Worker, NEW t \in Worker, opener'[c] = o, target'[c] = t, o # t
      PROVE  /\ Mate(o, c) = t /\ Mate(t, c) = o
             /\ In(o, c) = Out(t, c) /\ In(t, c) = Out(o, c)
             /\ In(o, c)' = Out(t, c)' /\ In(t, c)' = Out(o, c)'
             /\ IsEnd(o, c) => t = Peer(o, c)
             /\ IsEnd(t, c) => o = Peer(t, c)
             /\ \A v \in Worker : v \notin {o, t} =>
                   /\ In(v, c) = Nothing /\ Out(v, c) = Nothing
                   /\ In(v, c)' = Nothing /\ Out(v, c)' = Nothing
                   /\ Mate(v, c) = v /\ ~IsEnd(v, c)
  <2>1. /\ Mate(o, c) = t /\ Mate(t, c) = o
        /\ \A v \in Worker : v \notin {o, t} => Mate(v, c) = v
    BY <1>3 DEF Mate, InUse
  <2>2. /\ In(o, c)' = Out(t, c)' /\ In(t, c)' = Out(o, c)'
        /\ \A v \in Worker : v \notin {o, t} => In(v, c)' = Nothing /\ Out(v, c)' = Nothing
    BY <1>3, MatesNext, OutNext DEF LanesAreMates, LanesAreSeen
  <2>3. CASE ~InUse(c)
    <3>1. \A v \in Worker : In(v, c) = Nothing /\ Out(v, c) = Nothing
      BY <2>3, InNone, OutNone
    <3>2. \A v \in Worker : ~IsEnd(v, c)
      BY <2>3 DEF InUse, IsEnd
    <3>3. QED BY <2>1, <2>2, <3>1, <3>2
  <2>4. CASE InUse(c)
    <3>1. opener[c] = o /\ target[c] = t
      BY <1>1, <1>3, <2>4 DEF Evolves, Stays
    <3>2. /\ In(o, c) = Out(t, c) /\ In(t, c) = Out(o, c)
          /\ \A v \in Worker : v \notin {o, t} => In(v, c) = Nothing /\ Out(v, c) = Nothing
      BY <2>4, <3>1, MatesAre, OutIs DEF LanesAreMates, LanesAreSeen
    <3>3. /\ Peer(o, c) = t /\ Peer(t, c) = o
          /\ \A v \in Worker : v \notin {o, t} => ~IsEnd(v, c)
      BY <1>3, <3>1 DEF IsEnd, Peer
    <3>4. QED BY <2>1, <2>2, <3>2, <3>3
  <2>5. QED BY <2>3, <2>4
<1>4. CASE InUse(c)'
  <2>1. PICK o \in Worker, t \in Worker : opener'[c] = o /\ target'[c] = t /\ o # t
    BY <1>4, SeenType
  <2>2. Mate(w, c) \in Worker
    BY <1>4, <2>1 DEF Mate
  <2>3. ASSUME NEW m \in Worker, Mate(w, c) = m
        PROVE  /\ Mate(m, c) = w
               /\ In(w, c) = Out(m, c) /\ In(w, c)' = Out(m, c)'
               /\ IsEnd(w, c) => m = Peer(w, c)
    <3>1. CASE w = opener'[c]
      <4>1. m = target'[c] /\ w # m
        BY <1>4, <2>1, <2>3, <3>1 DEF Mate, InUse
      <4>2. QED BY <1>3, <1>4, <3>1, <4>1
    <3>2. CASE w = target'[c]
      <4>1. m = opener'[c] /\ w # m
        BY <1>4, <2>1, <2>3, <3>2 DEF Mate, InUse
      <4>2. QED BY <1>3, <1>4, <3>2, <4>1
    <3>3. CASE w \notin {o, t}
      <4>1. m = w
        BY <1>4, <2>1, <2>3, <3>3 DEF Mate, InUse
      <4>2. /\ In(w, c) = Nothing /\ Out(m, c) = Nothing
            /\ In(w, c)' = Nothing /\ Out(m, c)' = Nothing
            /\ Mate(m, c) = m /\ ~IsEnd(w, c)
        BY <1>3, <1>4, <2>1, <3>3, <4>1
      <4>3. QED BY <4>1, <4>2
    <3>4. QED BY <2>1, <3>1, <3>2, <3>3
  <2>4. QED BY <2>2, <2>3
<1>5. QED BY <1>2, <1>4

\* An end that is closed has nothing of the application before it.
CutInv == \A w \in Worker, c \in Conn : Out(w, c).cut => Dry(Out(w, c).wire)

LEMMA NothingDry == LaneDry(Nothing)
BY CmdsShort DEF LaneDry, Nothing, Dry

LEMMA ViewDry ==
    ASSUME "timeout" \notin Faults, NEW o \in Worker, NEW x \in View, Good(o, x)
    PROVE  /\ x.carrier \in {"connecting", "manager", "passed"} => Dry(x.toFar) /\ Dry(x.toNear)
           /\ x.near.status >= RSP_TELL => x.near.wait = <<>>
           /\ x.far.status >= RSP_TELL => x.far.wait = <<>>
<1>1. Placed(x) /\ Prompt(o, x)
  BY DEF Good
<1>2. x.near \in Attr /\ x.far \in Attr
  BY DEF View
<1>3. ASSUME x.carrier = "connecting" PROVE Dry(x.toFar) /\ Dry(x.toNear)
  <2>1. x.toNear = <<>> /\ x.toFar = <<>>
    BY <1>1, <1>3 DEF Placed
  <2>2. Dry(<<>>)
    BY CmdsShort DEF Dry
  <2>3. QED BY <2>1, <2>2
<1>4. ASSUME x.carrier \in {"manager", "passed"} PROVE Dry(x.toFar) /\ Dry(x.toNear)
  <2>1. FarReads(x) /\ x.far = Closed
    BY <1>1, <1>4 DEF FarReads, Placed
  <2>2. x.far.identify # o
    BY <2>1, WorkerAssumption DEF Closed
  <2>3. ~Knows(o, x)
    BY <2>1, <2>2 DEF Knows
  <2>4. DataCmd \in Cmds(x.toFar) \/ DataCmd \in Cmds(x.toNear) => Knows(o, x)
    BY <1>1 DEF Prompt
  <2>5. QED BY <2>3, <2>4 DEF Dry
<1>5. Closed.wait = <<>>
  BY DEF Closed
<1>6. ASSUME x.near.status >= RSP_TELL PROVE x.near.wait = <<>>
  <2>1. CASE x.near.open
    <3>1. x.near.status <= RSP_TELL /\ x.near.status \in Nat
      <4>1. x.near.open => x.near.status <= RSP_TELL
        BY <1>1 DEF Prompt
      <4>2. x.near.status \in 0 .. 255
        BY <1>2 DEF Attr
      <4>3. QED BY <2>1, <4>1, <4>2
    <3>2. x.near.status = RSP_TELL
      BY <1>6, <3>1, CmdsDiffer
    <3>3. QED BY <1>1, <2>1, <3>2 DEF Prompt
  <2>2. QED BY <1>1, <1>5, <2>1 DEF Placed
<1>7. x.far.wait = <<>>
  BY <1>1, <1>5 DEF Placed, Prompt
<1>8. QED BY <1>3, <1>4, <1>6, <1>7

LEMMA LanesDry ==
    ASSUME "timeout" \notin Faults, IInv, ViewInv, OnceInv, CutInv,
           NEW w \in Worker, NEW c \in Conn
    PROVE  LaneDry(Out(w, c))
<1>1. CASE ~InUse(c)
  BY <1>1, OutNone, NothingDry
<1>2. CASE InUse(c)
  <2>1. PICK o \in Worker, t \in Worker : opener[c] = o /\ target[c] = t
    BY <1>2 DEF IInv, Shape, EndsOK, InUse
  <2>2. /\ o # t
        /\ Out(o, c) = NearLane(Seen(c)) /\ Out(t, c) = FarLane(Seen(c), got[o][c])
        /\ \A v \in Worker : v \notin {o, t} => Out(v, c) = Nothing
    BY <1>2, <2>1, OutIs DEF LanesAreSeen
  <2>3. Good(o, Seen(c))
    BY <1>2, <2>1 DEF ViewInv
  <2>4. Seen(c) \in View
    BY <1>2, <2>1 DEF IInv, TypeOK, Seen, View
  <2>5. /\ Out(w, c).cut => Dry(Out(w, c).wire)
        /\ \A i \in 1 .. Len(Out(w, c).wait) : IsData(Out(w, c).wait[i])
    BY DEF CutInv, OnceInv, Once
  <2> DEFINE x == Seen(c)  g == got[o][c]
  <2> HIDE DEF x, g
  <2>6. /\ x.carrier \in {"connecting", "manager", "passed"} => Dry(x.toFar) /\ Dry(x.toNear)
        /\ x.near.status >= RSP_TELL => x.near.wait = <<>>
        /\ x.far.status >= RSP_TELL => x.far.wait = <<>>
    BY <2>3, <2>4, ViewDry DEF x
  <2>7. /\ NearLane(x).early => Dry(NearLane(x).wire)
        /\ NearLane(x).ready => NearLane(x).wait = <<>>
    BY <2>6 DEF NearLane
  <2>8. /\ FarLane(x, g).early => Dry(FarLane(x, g).wire)
        /\ FarLane(x, g).ready => FarLane(x, g).wait = <<>>
    BY <2>6 DEF FarLane
  <2>9. CASE w \in {o, t}
    <3>1. /\ Out(w, c).early => Dry(Out(w, c).wire)
          /\ Out(w, c).ready => Out(w, c).wait = <<>>
      BY <2>2, <2>7, <2>8, <2>9 DEF x, g
    <3>2. QED BY <2>5, <3>1 DEF LaneDry
  <2>10. QED BY <2>2, <2>9, NothingDry
<1>3. QED BY <1>1, <1>2

-----------------------------------------------------------------------------
(* What a step does to a queue.                                            *)

Ready ==
    /\ "timeout" \notin Faults /\ DataCmd # SYS_ERROR
    /\ IInv /\ IInv' /\ ViewInv /\ OnceInv /\ CutInv /\ [Next]_vars

LEMMA LaneSteps ==
    ASSUME Ready, NEW w \in Worker, NEW c \in Conn
    PROVE  /\ Out(w, c) \in LaneType /\ Out(w, c)' \in LaneType /\ LaneDry(Out(w, c))
           /\ \/ Moves(Out(w, c), Out(w, c)') \/ Dispatches(Out(w, c), Out(w, c)')
              \/ \E m \in Msg : Admits(m, Out(w, c), Out(w, c)')
<1>1. Out(w, c) \in LaneType /\ Out(w, c)' \in LaneType
  BY OutType, OutTypeNext DEF Ready, LaneTypes
<1>2. LaneDry(Out(w, c))
  BY LanesDry DEF Ready
<1>3. Flows
  BY StepFlows DEF Ready
<1>4. CASE AllMove
  BY <1>1, <1>2, <1>4 DEF AllMove
<1>5. ASSUME NEW v \in Worker, NEW d \in Conn, OneDispatches(v, d) \/ OneAdmits(v, d)
      PROVE  \/ Moves(Out(w, c), Out(w, c)') \/ Dispatches(Out(w, c), Out(w, c)')
             \/ \E m \in Msg : Admits(m, Out(w, c), Out(w, c)')
  <2>1. CASE w # v \/ c # d
    <3>1. Same(Out(w, c), Out(w, c)')
      BY <1>5, <2>1 DEF OneDispatches, OneAdmits, OthersSame
    <3>2. QED BY <3>1 DEF Moves
  <2>2. CASE w = v /\ c = d
    <3>1. NextMsg(w) \in Msg
      BY NextMsgType DEF Ready, IInv
    <3>2. QED BY <1>5, <2>2, <3>1 DEF OneDispatches, OneAdmits
  <2>3. QED BY <2>1, <2>2
<1>6. QED BY <1>1, <1>2, <1>3, <1>4, <1>5 DEF Flows

LEMMA CutNext ==
    ASSUME Ready PROVE CutInv'
<1> SUFFICES ASSUME NEW w \in Worker, NEW c \in Conn, (Out(w, c)').cut
             PROVE  Dry((Out(w, c)').wire)
  BY DEF CutInv, Dry
<1>1. /\ Out(w, c) \in LaneType /\ Out(w, c)' \in LaneType /\ LaneDry(Out(w, c))
      /\ \/ Moves(Out(w, c), Out(w, c)') \/ Dispatches(Out(w, c), Out(w, c)')
         \/ \E m \in Msg : Admits(m, Out(w, c), Out(w, c)')
  BY LaneSteps
<1>2. DataCmd # SYS_ERROR
  BY DEF Ready
<1>3. QED BY <1>1, <1>2, StepsDry

LEMMA CutInit == Init => CutInv
<1> SUFFICES ASSUME Init, NEW w \in Worker, NEW c \in Conn PROVE Out(w, c) = Nothing
  BY DEF CutInv, Nothing
<1>1. QED BY OutNone DEF Init, InUse

\* The queue at w of c is what its mate's lane holds.
LEMMA QueueIs ==
    ASSUME Ready, NEW w \in Worker, NEW c \in Conn, NEW m \in Worker, Mate(w, c) = m
    PROVE  /\ Queues[w][c] = Pend(Out(m, c)) /\ Queues'[w][c] = Pend(Out(m, c)')
           /\ Cuts[w][c] = Out(m, c).cut /\ Cuts'[w][c] = (Out(m, c)').cut
           /\ Shuts[w][c] = Out(m, c).shut /\ Shuts'[w][c] = (Out(m, c)').shut
<1>1. In(w, c) = Out(m, c) /\ In(w, c)' = Out(m, c)'
  BY MateIs DEF Ready
<1>2. /\ Queues[w][c] = Pend(In(w, c))
      /\ Cuts[w][c] = In(w, c).cut /\ Shuts[w][c] = In(w, c).shut
  BY InIs DEF LanesAreRead
<1>3. /\ Queues'[w][c] = Pend(In(w, c)')
      /\ Cuts'[w][c] = (In(w, c)').cut /\ Shuts'[w][c] = (In(w, c)').shut
  BY InNext DEF LanesAreRead, Pend
<1>4. QED BY <1>1, <1>2, <1>3

LEMMA SameQueue ==
    ASSUME Ready, NEW w \in Worker, NEW c \in Conn, NEW m \in Worker, Mate(w, c) = m,
           Same(Out(m, c), Out(m, c)')
    PROVE  Queues'[w][c] = Queues[w][c] /\ Cuts'[w][c] = Cuts[w][c] /\ Shuts'[w][c] = Shuts[w][c]
<1> DEFINE x == Out(m, c)  y == Out(m, c)'
<1>1. Same(x, y)
  OBVIOUS
<1>2. /\ Queues[w][c] = Pend(x) /\ Queues'[w][c] = Pend(y)
      /\ Cuts[w][c] = x.cut /\ Cuts'[w][c] = y.cut
      /\ Shuts[w][c] = x.shut /\ Shuts'[w][c] = y.shut
  BY QueueIs
<1> HIDE DEF x, y
<1>3. Pend(x) = Pend(y) /\ x.cut = y.cut /\ x.shut = y.shut
  BY <1>1 DEF Same, Pend
<1>4. QED BY <1>2, <1>3

\* A queue is a function of workers and connections.
Table(f) == f = [w \in Worker |-> [c \in Conn |-> f[w][c]]]

LEMMA TablesEqual ==
    ASSUME NEW f, NEW g, Table(f), Table(g),
           \A w \in Worker, c \in Conn : g[w][c] = f[w][c]
    PROVE  g = f
<1>1. ASSUME NEW w \in Worker PROVE [c \in Conn |-> g[w][c]] = [c \in Conn |-> f[w][c]]
  OBVIOUS
<1> DEFINE F(w) == [c \in Conn |-> f[w][c]]  G(w) == [c \in Conn |-> g[w][c]]
<1>2. f = [w \in Worker |-> F(w)] /\ g = [w \in Worker |-> G(w)]
  BY DEF Table
<1>3. \A w \in Worker : F(w) = G(w)
  BY <1>1
<1> HIDE DEF F, G
<1>4. QED BY <1>2, <1>3

LEMMA TableUpdated ==
    ASSUME NEW f, NEW g, Table(f), Table(g), NEW v \in Worker, NEW d \in Conn, NEW e,
           g[v][d] = e,
           \A w \in Worker, c \in Conn : w # v \/ c # d => g[w][c] = f[w][c]
    PROVE  g = [f EXCEPT ![v][d] = e]
<1> DEFINE h == [f EXCEPT ![v][d] = e]
<1>1. DOMAIN f = Worker /\ \A w \in Worker : DOMAIN f[w] = Conn
  BY DEF Table
<1>2. DOMAIN h = Worker /\ \A w \in Worker : w # v => h[w] = f[w]
  BY <1>1
<1>3. h[v] = [f[v] EXCEPT ![d] = e]
  BY <1>1
<1>4. Table(h)
  <2>1. \A w \in Worker : h[w] = [c \in Conn |-> h[w][c]]
    <3>1. ASSUME NEW w \in Worker, w # v PROVE h[w] = [c \in Conn |-> h[w][c]]
      <4>1. f[w] = [c \in Conn |-> f[w][c]]
        BY DEF Table
      <4>2. QED BY <1>2, <3>1, <4>1
    <3>2. h[v] = [c \in Conn |-> h[v][c]]
      BY <1>1, <1>3
    <3>3. QED BY <3>1, <3>2
  <2>2. h = [w \in Worker |-> h[w]]
    BY <1>2
  <2> HIDE DEF h
  <2> DEFINE H(w) == [c \in Conn |-> h[w][c]]
  <2>3. \A w \in Worker : h[w] = H(w)
    BY <2>1
  <2> HIDE DEF H
  <2>4. h = [w \in Worker |-> H(w)]
    BY <2>2, <2>3
  <2>5. QED BY <2>4 DEF Table, H
<1>5. \A w \in Worker, c \in Conn : h[w][c] = g[w][c]
  BY <1>1, <1>2, <1>3
<1> HIDE DEF h
<1>6. QED BY <1>4, <1>5, TablesEqual DEF h

LEMMA QueuesAreTables ==
    /\ Table(Queues) /\ Table(Cuts) /\ Table(Shuts)
    /\ Table(Queues)' /\ Table(Cuts)' /\ Table(Shuts)'
BY DEF Table, Queues, Cuts, Shuts

-----------------------------------------------------------------------------
(* Every step is a step of OrderedLink.                                    *)

LEMMA MovingStops ==
    ASSUME Ready, AllMove PROVE Link!Stop
<1>1. ASSUME NEW w \in Worker, NEW c \in Conn
      PROVE  /\ Cuts[w][c] => Cuts'[w][c]
             /\ Shuts[w][c] => Shuts'[w][c]
             /\ Link!Remains(Queues'[w][c], Queues[w][c], Cuts'[w][c], Shuts'[w][c])
  <2>1. PICK m \in Worker : Mate(w, c) = m
    BY MateIs DEF Ready
  <2> DEFINE x == Out(m, c)  y == Out(m, c)'
  <2>2. /\ Queues[w][c] = Pend(x) /\ Queues'[w][c] = Pend(y)
        /\ Cuts[w][c] = x.cut /\ Cuts'[w][c] = y.cut
        /\ Shuts[w][c] = x.shut /\ Shuts'[w][c] = y.shut
    BY <2>1, QueueIs
  <2>3. x \in LaneType /\ y \in LaneType /\ LaneDry(x)
    BY LaneSteps
  <2>4. Moves(x, y) /\ DataCmd # SYS_ERROR
    BY DEF AllMove, Ready
  <2> HIDE DEF x, y
  <2>5. /\ Link!Remains(Pend(y), Pend(x), y.cut, y.shut)
        /\ x.cut => y.cut
        /\ x.shut => y.shut
    BY <2>3, <2>4, MovesRemain
  <2>6. QED BY <2>2, <2>5
<1>2. got' = got
  BY DEF AllMove
<1>3. QED BY <1>1, <1>2 DEF Link!Stop, Queues, Cuts, Shuts

LEMMA OtherQueues ==
    ASSUME Ready, NEW s \in Worker, NEW v \in Worker, NEW d \in Conn, Mate(s, d) = v,
           OthersSame(s, d)
    PROVE  \A w \in Worker, c \in Conn : w # v \/ c # d =>
               /\ Queues'[w][c] = Queues[w][c]
               /\ Cuts'[w][c] = Cuts[w][c] /\ Shuts'[w][c] = Shuts[w][c]
<1> SUFFICES ASSUME NEW w \in Worker, NEW c \in Conn, w # v \/ c # d
             PROVE  /\ Queues'[w][c] = Queues[w][c]
                    /\ Cuts'[w][c] = Cuts[w][c] /\ Shuts'[w][c] = Shuts[w][c]
  OBVIOUS
<1>1. PICK m \in Worker : Mate(w, c) = m
  BY MateIs DEF Ready
<1>2. Mate(m, c) = w
  BY <1>1, MateIs DEF Ready
<1>3. m # s \/ c # d
  BY <1>2
<1>4. Same(Out(m, c), Out(m, c)')
  BY <1>3 DEF OthersSame
<1>5. QED BY <1>1, <1>4, SameQueue

LEMMA RecvDispatches ==
    ASSUME Ready, NEW s \in Worker, NEW d \in Conn, OneDispatches(s, d)
    PROVE  \E v \in Worker : Link!Dispatch(v, d)
<1>1. PICK v \in Worker : Mate(s, d) = v
  BY MateIs DEF Ready
<1>2. Mate(v, d) = s
  BY <1>1, MateIs DEF Ready
<1> DEFINE x == Out(s, d)  y == Out(s, d)'
<1>3. /\ Queues[v][d] = Pend(x) /\ Queues'[v][d] = Pend(y)
      /\ Cuts[v][d] = x.cut /\ Cuts'[v][d] = y.cut
      /\ Shuts[v][d] = x.shut /\ Shuts'[v][d] = y.shut
  BY <1>2, QueueIs
<1>4. x \in LaneType /\ y \in LaneType /\ LaneDry(x)
  BY LaneSteps
<1>5. Dispatches(x, y)
  BY DEF OneDispatches
<1>6. got' = [got EXCEPT ![v][d] = Append(@, Head(x.wire).id)]
  <2>1. IsEnd(s, d)
    BY <1>5 DEF Dispatches, Out, Nothing
  <2>2. v = Peer(s, d)
    BY <1>1, <2>1, MateIs DEF Ready
  <2>3. QED BY <2>2 DEF OneDispatches
<1> HIDE DEF x, y
<1>7. /\ ~x.cut /\ y.cut = x.cut /\ y.shut = x.shut
      /\ Pend(x) # <<>> /\ Pend(y) = Tail(Pend(x)) /\ Head(Pend(x)) = Head(x.wire).id
  BY <1>4, <1>5, DispatchesQueue
<1>8. \A w \in Worker, c \in Conn : w # v \/ c # d =>
               /\ Queues'[w][c] = Queues[w][c]
               /\ Cuts'[w][c] = Cuts[w][c] /\ Shuts'[w][c] = Shuts[w][c]
  BY <1>1, OtherQueues DEF OneDispatches
<1>9. Queues' = [Queues EXCEPT ![v][d] = Tail(Queues[v][d])]
  <2>1. Queues'[v][d] = Tail(Queues[v][d])
    BY <1>3, <1>7
  <2> DEFINE f == Queues  g == Queues'
  <2>2. Table(f) /\ Table(g)
    BY QueuesAreTables DEF Table
  <2>3. \A w \in Worker, c \in Conn : w # v \/ c # d => g[w][c] = f[w][c]
    BY <1>8
  <2> DEFINE e == Tail(f[v][d])
  <2>4. g[v][d] = e
    BY <2>1
  <2> HIDE DEF f, g, e
  <2>5. g = [f EXCEPT ![v][d] = e]
    BY <2>2, <2>3, <2>4, TableUpdated
  <2>6. QED BY <2>5 DEF f, g, e
<1>10. Cuts' = Cuts /\ Shuts' = Shuts
  <2>1. \A w \in Worker, c \in Conn : Cuts'[w][c] = Cuts[w][c] /\ Shuts'[w][c] = Shuts[w][c]
    BY <1>3, <1>7, <1>8
  <2>2. QED BY <2>1, QueuesAreTables, TablesEqual DEF Table
<1>11. /\ ~Cuts[v][d] /\ Queues[v][d] # <<>>
       /\ got' = [got EXCEPT ![v][d] = Append(@, Head(Queues[v][d]))]
  BY <1>3, <1>6, <1>7
<1>12. Link!Dispatch(v, d)
  BY <1>9, <1>10, <1>11 DEF Link!Dispatch, Queues, Cuts, Shuts
<1>13. QED BY <1>12

LEMMA SendAccepts ==
    ASSUME Ready, NEW s \in Worker, NEW d \in Conn, OneAdmits(s, d)
    PROVE  (\E v \in Worker : Link!Accept(v, d)) \/ UNCHANGED Link!linkVars
<1>1. PICK v \in Worker : Mate(s, d) = v
  BY MateIs DEF Ready
<1>2. Mate(v, d) = s
  BY <1>1, MateIs DEF Ready
<1> DEFINE x == Out(s, d)  y == Out(s, d)'  m == NextMsg(s)
<1>3. /\ Queues[v][d] = Pend(x) /\ Queues'[v][d] = Pend(y)
      /\ Cuts[v][d] = x.cut /\ Cuts'[v][d] = y.cut
      /\ Shuts[v][d] = x.shut /\ Shuts'[v][d] = y.shut
  BY <1>2, QueueIs
<1>4. x \in LaneType /\ y \in LaneType /\ LaneDry(x)
  BY LaneSteps
<1>5. Admits(m, x, y) /\ got' = got
  BY DEF OneAdmits
<1>6. m \in Msg /\ IsData(m) /\ m.id \in 1 .. MaxMsg
  <2>1. m \in Msg
    BY NextMsgType DEF Ready, IInv
  <2>2. nextId[s] \in 0 .. MaxMsg /\ nextId[s] < MaxMsg
    BY DEF Ready, IInv, TypeOK, OneAdmits
  <2>3. m.cmd = DataCmd /\ m.id = nextId[s] + 1
    BY DEF NextMsg
  <2>4. nextId[s] + 1 \in 1 .. MaxMsg
    BY <2>2, BoundAssumption
  <2>5. QED BY <2>1, <2>3, <2>4 DEF IsData
<1> HIDE DEF x, y, m
<1>7. /\ ~x.shut /\ y.cut = x.cut /\ y.shut = x.shut
      /\ Pend(y) \in {Pend(x), Append(Pend(x), m.id)}
  BY <1>4, <1>5, <1>6, AdmitsQueue
<1>8. \A w \in Worker, c \in Conn : w # v \/ c # d =>
               /\ Queues'[w][c] = Queues[w][c]
               /\ Cuts'[w][c] = Cuts[w][c] /\ Shuts'[w][c] = Shuts[w][c]
  BY <1>1, OtherQueues DEF OneAdmits
<1>9. Cuts' = Cuts /\ Shuts' = Shuts
  <2>1. \A w \in Worker, c \in Conn : Cuts'[w][c] = Cuts[w][c] /\ Shuts'[w][c] = Shuts[w][c]
    BY <1>3, <1>7, <1>8
  <2>2. QED BY <2>1, QueuesAreTables, TablesEqual DEF Table
<1> DEFINE f == Queues  g == Queues'
<1>10. Table(f) /\ Table(g)
  BY QueuesAreTables DEF Table
<1>11. \A w \in Worker, c \in Conn : w # v \/ c # d => g[w][c] = f[w][c]
  BY <1>8
<1>12. g[v][d] \in {f[v][d], Append(f[v][d], m.id)}
  BY <1>3, <1>7
<1> HIDE DEF f, g
<1>13. CASE g[v][d] = f[v][d]
  <2>1. \A w \in Worker, c \in Conn : g[w][c] = f[w][c]
    BY <1>11, <1>13
  <2>2. g = f
    BY <1>10, <2>1, TablesEqual
  <2>3. Queues' = Queues
    BY <2>2 DEF f, g
  <2>4. UNCHANGED Link!linkVars
    BY <1>5, <1>9, <2>3 DEF Link!linkVars, Queues, Cuts, Shuts
  <2>5. QED BY <2>4
<1>14. CASE g[v][d] = Append(f[v][d], m.id)
  <2> DEFINE e == Append(f[v][d], m.id)
  <2>1. g[v][d] = e
    BY <1>14
  <2> HIDE DEF e
  <2>2. g = [f EXCEPT ![v][d] = e]
    BY <1>10, <1>11, <2>1, TableUpdated
  <2>3. Queues' = [Queues EXCEPT ![v][d] = Append(Queues[v][d], m.id)]
    BY <2>2 DEF f, g, e
  <2>4. ~Shuts[v][d]
    BY <1>3, <1>7
  <2>5. Link!Accept(v, d)
    BY <1>5, <1>6, <1>9, <2>3, <2>4 DEF Link!Accept, Queues, Cuts, Shuts
  <2>6. QED BY <2>5
<1>15. QED BY <1>12, <1>13, <1>14

LEMMA LinkNext ==
    ASSUME Ready PROVE [Link!Next]_(Link!linkVars)
<1>1. Flows
  BY StepFlows DEF Ready
<1>2. CASE AllMove
  BY <1>2, MovingStops DEF Link!Next
<1>3. ASSUME NEW s \in Worker, NEW d \in Conn, OneDispatches(s, d)
      PROVE  Link!Next
  BY <1>3, RecvDispatches DEF Link!Next
<1>4. ASSUME NEW s \in Worker, NEW d \in Conn, OneAdmits(s, d)
      PROVE  [Link!Next]_(Link!linkVars)
  <2>1. CASE \E v \in Worker : Link!Accept(v, d)
    BY <2>1 DEF Link!Next
  <2>2. QED BY <1>4, <2>1, SendAccepts
<1>5. QED BY <1>1, <1>2, <1>3, <1>4 DEF Flows

LEMMA LinkInit == Init => Link!Init
<1> SUFFICES ASSUME Init PROVE Link!Init
  OBVIOUS
<1>1. \A w \in Worker, c \in Conn : ~IsEnd(w, c)
  BY DEF Init, IsEnd
<1>2. \A w \in Worker, c \in Conn : Pending(w, c) = <<>>
  BY <1>1 DEF Pending
<1>3. Queues = [w \in Worker |-> [c \in Conn |-> <<>>]]
  BY <1>2 DEF Queues
<1>4. /\ Cuts = [w \in Worker |-> [c \in Conn |-> FALSE]]
      /\ Shuts = [w \in Worker |-> [c \in Conn |-> FALSE]]
  BY <1>1 DEF Cuts, Shuts
<1>5. got = [w \in Worker |-> [c \in Conn |-> <<>>]]
  BY DEF Init
<1>6. QED BY <1>3, <1>4, <1>5 DEF Link!Init, Queues, Cuts, Shuts

\* Each direction of a connection is the queue of OrderedLink: SendTo's
\* messages (OssWorker.cpp:2208, 2144) are dispatched in the order it accepted
\* them, and an end that stops loses them from the front or from the back
\* only.  A resend after a timeout may get SYS_ERROR for an answer, whose
\* status byte lets a message overtake those that wait (OssWorker.cpp:373): no
\* handshake step times out here, anything else may fail.
THEOREM LinkIsOrdered ==
    ASSUME "timeout" \notin Faults, DataCmd # SYS_ERROR
    PROVE  Spec => Ordered
<1>1. Init => NoEnds /\ OnceInv /\ CutInv /\ Link!Init
  BY OnceInit, CutInit, LinkInit
<1>2. /\ IInv /\ IInv' /\ ViewInv /\ NoEnds /\ OnceInv /\ CutInv /\ [Next]_vars
      => (NoEnds /\ OnceInv /\ CutInv)' /\ [Link!Next]_(Link!linkVars)
  <2> SUFFICES ASSUME IInv, IInv', ViewInv, NoEnds, OnceInv, CutInv, [Next]_vars
               PROVE  (NoEnds /\ OnceInv /\ CutInv)' /\ [Link!Next]_(Link!linkVars)
    OBVIOUS
  <2>1. Ready
    BY DEF Ready
  <2>2. NoEnds' /\ OnceInv'
    BY NoEndsNext, OnceNext
  <2>3. CutInv'
    BY <2>1, CutNext
  <2>4. [Link!Next]_(Link!linkVars)
    BY <2>1, LinkNext
  <2>5. QED BY <2>2, <2>3, <2>4
<1>3. QED
  BY <1>1, <1>2, Views, PTL DEF Spec, Ordered, Link!Spec
=============================================================================
