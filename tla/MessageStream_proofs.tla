------------------------ MODULE MessageStream_proofs ------------------------
(***************************************************************************)
(* Proofs about MessageStream, for any messages, sizes and room of the     *)
(* kernel: its variables keep their types and the kernel is never given    *)
(* more than it has room for; a worker that reads never looks for a head   *)
(* inside a message (Framed), which is false of a Manager; and only the    *)
(* direct answers of the reading loop end the state in which the write     *)
(* event is set exactly while pSendBuff holds something (ServedByEvents).  *)
(*                                                                         *)
(* Framed follows from what recvBuff, wire and sendBuff hold together: a   *)
(* stream of messages one behind the other (Frames), the last of which is  *)
(* cut off only when its sender has closed (Whole).  Both are stated by    *)
(* position, not by recursion: every unit is followed by the rest of its   *)
(* message, and that by the head of another.                               *)
(*                                                                         *)
(* With a worker as the reader the two ends implement OrderedLink          *)
(* (StreamIsOrdered): a message is pending while its last unit is in one   *)
(* of the buffers, so moving bytes between them is a stutter, and taking   *)
(* the first message of the stream, whole by Frames, is a dispatch.        *)
(***************************************************************************)
EXTENDS MessageStream, SequenceTheorems, WellFoundedInduction, TLAPS

\* The units of its message behind u.
Left(u) == Body[u[1]] - u[2]

\* Every unit of the stream s is followed by the rest of its message, and that
\* by the head of another.
Blocks(s) ==
    \A i, j \in 1 .. Len(s) :
        /\ i <= j /\ j - i <= Left(s[i]) => s[j] = <<s[i][1], s[i][2] + (j - i)>>
        /\ j = i + Left(s[i]) + 1 => s[j][2] = 0

Heads(s) == s # <<>> => s[1][2] = 0
Frames(s) == Blocks(s) /\ Heads(s)

\* No message of s is cut off.
Whole(s) == \A i \in 1 .. Len(s) : i + Left(s[i]) <= Len(s)

\* What the reader still gets.
Stream == (recvBuff \o wire) \o sendBuff

-----------------------------------------------------------------------------
(* Units and streams.                                                      *)

LEMMA UnitFacts ==
    ASSUME NEW u \in Unit
    PROVE  /\ u = <<u[1], u[2]>> /\ u[1] \in AnyMessage /\ u[2] \in Nat
           /\ Body[u[1]] \in Nat /\ u[2] <= Body[u[1]] /\ Left(u) \in Nat
BY BodyAssumption DEF Unit, Left, AnyMessage

LEMMA UnitsFramed ==
    ASSUME NEW m \in AnyMessage
    PROVE  /\ Units(m) \in Seq(Unit) /\ Len(Units(m)) = Body[m] + 1
           /\ Units(m) # <<>>
           /\ Frames(Units(m)) /\ Whole(Units(m))
<1> DEFINE s == Units(m)
<1>1. Body[m] \in Nat
  BY BodyAssumption DEF AnyMessage
<1>2. \A i \in 1 .. Body[m] + 1 : <<m, i - 1>> \in Unit
  BY <1>1 DEF Unit
<1>3. s \in Seq(Unit) /\ Len(s) = Body[m] + 1
  BY <1>1, <1>2 DEF Units
<1>4. \A i \in 1 .. Len(s) : s[i] = <<m, i - 1>> /\ Left(s[i]) = Body[m] + 1 - i
  BY <1>1, <1>3 DEF Units, Left
<1> HIDE DEF s
<1>5. Blocks(s)
  <2> SUFFICES ASSUME NEW i \in 1 .. Len(s), NEW j \in 1 .. Len(s)
               PROVE  /\ i <= j /\ j - i <= Left(s[i]) => s[j] = <<s[i][1], s[i][2] + (j - i)>>
                      /\ j = i + Left(s[i]) + 1 => s[j][2] = 0
    BY DEF Blocks
  <2>1. s[i][1] = m /\ s[i][2] = i - 1 /\ s[j] = <<m, j - 1>>
    BY <1>4
  <2>2. Left(s[i]) = Body[m] + 1 - i /\ i \in Int /\ j \in Int /\ j <= Body[m] + 1
    BY <1>1, <1>3, <1>4
  <2>3. s[i][2] + (j - i) = j - 1
    BY <2>1, <2>2
  <2>4. j # i + Left(s[i]) + 1
    BY <1>1, <2>2
  <2> QED BY <2>1, <2>3, <2>4
<1>6. Heads(s)
  BY <1>1, <1>3, <1>4 DEF Heads
<1>7. Whole(s)
  BY <1>1, <1>3, <1>4 DEF Whole
<1>8. s # <<>>
  BY <1>1, <1>3
<1> QED BY <1>3, <1>5, <1>6, <1>7, <1>8 DEF Frames, s

LEMMA Joined ==
    ASSUME NEW s \in Seq(Unit), NEW t \in Seq(Unit)
    PROVE  /\ s \o t \in Seq(Unit) /\ Len(s \o t) = Len(s) + Len(t)
           /\ Len(s) \in Nat /\ Len(t) \in Nat
           /\ \A i \in 1 .. Len(s) : (s \o t)[i] = s[i]
           /\ \A i \in Len(s) + 1 .. Len(s) + Len(t) :
                i - Len(s) \in 1 .. Len(t) /\ (s \o t)[i] = t[i - Len(s)]
BY ConcatProperties

LEMMA Associative ==
    ASSUME NEW s \in Seq(Unit), NEW t \in Seq(Unit), NEW u \in Seq(Unit)
    PROVE  (s \o t) \o u = s \o (t \o u)
<1>a. PICK l \in Seq(Unit) : l = s \o t
  BY ConcatProperties
<1>b. PICK r \in Seq(Unit) : r = t \o u
  BY ConcatProperties
<1>c. PICK x \in Seq(Unit) : x = l \o u
  BY ConcatProperties
<1>d. PICK y \in Seq(Unit) : y = s \o r
  BY ConcatProperties
<1>1. /\ l \in Seq(Unit) /\ Len(l) = Len(s) + Len(t)
      /\ \A i \in 1 .. Len(s) + Len(t) : l[i] = IF i <= Len(s) THEN s[i] ELSE t[i - Len(s)]
  BY <1>a, ConcatProperties
<1>2. /\ r \in Seq(Unit) /\ Len(r) = Len(t) + Len(u)
      /\ \A i \in 1 .. Len(t) + Len(u) : r[i] = IF i <= Len(t) THEN t[i] ELSE u[i - Len(t)]
  BY <1>b, ConcatProperties
<1>3. /\ x \in Seq(Unit) /\ Len(x) = Len(l) + Len(u)
      /\ \A i \in 1 .. Len(l) + Len(u) : x[i] = IF i <= Len(l) THEN l[i] ELSE u[i - Len(l)]
  BY <1>c, ConcatProperties
<1>4. /\ y \in Seq(Unit) /\ Len(y) = Len(s) + Len(r)
      /\ \A i \in 1 .. Len(s) + Len(r) : y[i] = IF i <= Len(s) THEN s[i] ELSE r[i - Len(s)]
  BY <1>d, ConcatProperties
<1>5. Len(s) \in Nat /\ Len(t) \in Nat /\ Len(u) \in Nat
  OBVIOUS
<1>6. Len(x) = Len(y)
  BY <1>1, <1>2, <1>3, <1>4, <1>5
<1>7. ASSUME NEW i \in 1 .. Len(x) PROVE x[i] = y[i]
  <2>0. i \in Int /\ 1 <= i /\ i <= Len(s) + Len(t) + Len(u)
    BY <1>1, <1>3, <1>5
  <2>1. CASE i <= Len(s)
    <3>1. i \in 1 .. Len(l) + Len(u) /\ i \in 1 .. Len(s) + Len(t) /\ i <= Len(l)
      BY <1>1, <1>5, <2>0, <2>1
    <3>2. i \in 1 .. Len(s) + Len(r)
      BY <1>2, <1>5, <2>0, <2>1
    <3> QED BY <1>1, <1>3, <1>4, <2>1, <3>1, <3>2
  <2>2. CASE i > Len(s) /\ i <= Len(s) + Len(t)
    <3>1. i \in 1 .. Len(l) + Len(u) /\ i \in 1 .. Len(s) + Len(t) /\ i <= Len(l)
      BY <1>1, <1>5, <2>0, <2>2
    <3>2. x[i] = t[i - Len(s)]
      BY <1>1, <1>3, <1>5, <2>0, <2>2, <3>1
    <3>3. /\ i \in 1 .. Len(s) + Len(r) /\ ~ (i <= Len(s))
          /\ i - Len(s) \in 1 .. Len(t) + Len(u) /\ i - Len(s) <= Len(t)
      BY <1>2, <1>5, <2>0, <2>2
    <3>4. y[i] = t[i - Len(s)]
      BY <1>2, <1>4, <3>3
    <3> QED BY <3>2, <3>4
  <2>3. CASE i > Len(s) + Len(t)
    <3>1. i \in 1 .. Len(l) + Len(u) /\ ~ (i <= Len(l)) /\ i - Len(l) = i - Len(s) - Len(t)
      BY <1>1, <1>5, <2>0, <2>3
    <3>2. x[i] = u[i - Len(s) - Len(t)]
      BY <1>3, <3>1
    <3>3. /\ i \in 1 .. Len(s) + Len(r) /\ ~ (i <= Len(s))
          /\ i - Len(s) \in 1 .. Len(t) + Len(u) /\ ~ (i - Len(s) <= Len(t))
      BY <1>2, <1>5, <2>0, <2>3
    <3>4. y[i] = u[i - Len(s) - Len(t)]
      BY <1>2, <1>4, <3>3
    <3> QED BY <3>2, <3>4
  <2> QED BY <1>5, <2>0, <2>1, <2>2, <2>3
<1>8. x = y
  BY <1>3, <1>4, <1>6, <1>7, SeqEqual
<1> QED BY <1>a, <1>b, <1>c, <1>d, <1>8

LEMMA JoinWhole ==
    ASSUME NEW s \in Seq(Unit), NEW t \in Seq(Unit), Whole(s), Whole(t)
    PROVE  Whole(s \o t)
<1> SUFFICES ASSUME NEW i \in 1 .. Len(s \o t) PROVE i + Left((s \o t)[i]) <= Len(s \o t)
  BY DEF Whole
<1>1. CASE i \in 1 .. Len(s)
  <2>1. (s \o t)[i] = s[i] /\ s[i] \in Unit
    BY <1>1, Joined
  <2>2. i + Left(s[i]) <= Len(s) /\ Left(s[i]) \in Nat
    BY <1>1, <2>1, UnitFacts DEF Whole
  <2> QED BY <2>1, <2>2, Joined
<1>2. CASE i \in Len(s) + 1 .. Len(s) + Len(t)
  <2>1. i - Len(s) \in 1 .. Len(t) /\ (s \o t)[i] = t[i - Len(s)] /\ t[i - Len(s)] \in Unit
    BY <1>2, Joined
  <2>2. i - Len(s) + Left(t[i - Len(s)]) <= Len(t) /\ Left(t[i - Len(s)]) \in Nat
    BY <2>1, UnitFacts DEF Whole
  <2> QED BY <1>2, <2>1, <2>2, Joined
<1> QED BY <1>1, <1>2, Joined

\* A stream that begins with a head may follow one that cuts no message off.
LEMMA JoinFrames ==
    ASSUME NEW s \in Seq(Unit), NEW t \in Seq(Unit), Frames(s), Whole(s), Frames(t)
    PROVE  Frames(s \o t)
<1> DEFINE u == s \o t
<1>0. /\ Len(u) = Len(s) + Len(t) /\ Len(s) \in Nat /\ Len(t) \in Nat
      /\ \A i \in 1 .. Len(s) : u[i] = s[i]
      /\ \A i \in Len(s) + 1 .. Len(s) + Len(t) :
            i - Len(s) \in 1 .. Len(t) /\ u[i] = t[i - Len(s)]
  BY Joined
<1>a. \A i \in 1 .. Len(s) : s[i] \in Unit
  OBVIOUS
<1>b. \A i \in 1 .. Len(t) : t[i] \in Unit
  OBVIOUS
<1>c. t # <<>> => t[1][2] = 0
  BY DEF Frames, Heads
<1> HIDE DEF u
<1>1. Blocks(u)
  <2> SUFFICES ASSUME NEW i \in 1 .. Len(u), NEW j \in 1 .. Len(u)
               PROVE  /\ i <= j /\ j - i <= Left(u[i]) => u[j] = <<u[i][1], u[i][2] + (j - i)>>
                      /\ j = i + Left(u[i]) + 1 => u[j][2] = 0
    BY DEF Blocks
  <2>1. CASE i \in 1 .. Len(s)
    <3>1. u[i] = s[i] /\ i + Left(s[i]) <= Len(s) /\ Left(s[i]) \in Nat
      BY <1>0, <1>a, <2>1, UnitFacts DEF Whole
    <3>2. CASE j \in 1 .. Len(s)
      BY <1>0, <2>1, <3>1, <3>2 DEF Frames, Blocks
    <3>3. CASE j \in Len(s) + 1 .. Len(s) + Len(t)
      <4>1. ~ (j - i <= Left(u[i]))
        BY <1>0, <2>1, <3>1, <3>3
      <4>2. ASSUME j = i + Left(u[i]) + 1 PROVE u[j][2] = 0
        <5>0. PICK x \in Nat : x = Left(s[i])
          BY <3>1
        <5>a. j = i + x + 1 /\ i + x <= Len(s)
          BY <3>1, <4>2, <5>0
        <5>1. j = Len(s) + 1
          <6>1. Len(s) \in Int /\ j \in Int /\ i \in Int /\ Len(s) + 1 <= j
            BY <1>0, <2>1, <3>3
          <6> QED BY <5>a, <6>1
        <5>2. u[j] = t[1] /\ t # <<>>
          BY <1>0, <3>3, <5>1
        <5> QED BY <1>c, <5>2
      <4> QED BY <4>1, <4>2
    <3> QED BY <1>0, <3>2, <3>3
  <2>2. CASE i \in Len(s) + 1 .. Len(s) + Len(t)
    <3> DEFINE k == i - Len(s)
               l == j - Len(s)
    <3>1. k \in 1 .. Len(t) /\ u[i] = t[k] /\ t[k] \in Unit
      BY <1>0, <1>b, <2>2
    <3>2. Left(t[k]) \in Nat /\ t[k][2] \in Nat
      BY <3>1, UnitFacts
    <3>3. CASE j \in Len(s) + 1 .. Len(s) + Len(t)
      <4>1. l \in 1 .. Len(t) /\ u[j] = t[l] /\ l - k = j - i /\ (k <= l <=> i <= j)
        BY <1>0, <2>2, <3>3
      <4>2. /\ k <= l /\ l - k <= Left(t[k]) => t[l] = <<t[k][1], t[k][2] + (l - k)>>
            /\ l = k + Left(t[k]) + 1 => t[l][2] = 0
        <5> HIDE DEF k, l
        <5> QED BY <3>1, <4>1 DEF Frames, Blocks
      <4>3. (l = k + Left(t[k]) + 1) <=> (j = i + Left(t[k]) + 1)
        <5>1. PICK x \in Nat : x = Left(t[k])
          BY <3>2
        <5>2. Len(s) \in Int /\ j \in Int /\ i \in Int
          BY <1>0, <2>2, <3>3
        <5>3. (l = k + x + 1) <=> (j = i + x + 1)
          BY <5>2
        <5> HIDE DEF k, l
        <5> QED BY <5>1, <5>3
      <4> HIDE DEF k, l
      <4> QED BY <3>1, <4>1, <4>2, <4>3
    <3>4. CASE j \in 1 .. Len(s)
      <4>1. j < i
        BY <1>0, <2>2, <3>4
      <4> HIDE DEF k, l
      <4> QED BY <3>1, <3>2, <4>1
    <3> QED BY <1>0, <3>3, <3>4
  <2> QED BY <1>0, <2>1, <2>2
<1>2. Heads(u)
  <2>1. CASE s = <<>>
    <3>1. Len(s) = 0
      BY <2>1
    <3>2. u # <<>> => t # <<>> /\ u[1] = t[1]
      <4>1. u = t
        BY <2>1, ConcatEmptySeq DEF u
      <4> QED BY <4>1
    <3> QED BY <1>c, <3>2 DEF Heads
  <2>2. CASE s # <<>>
    <3>1. 1 \in 1 .. Len(s)
      BY <2>2
    <3>2. u[1] = s[1]
      BY <1>0, <3>1
    <3> QED BY <2>2, <3>2 DEF Frames, Heads
  <2> QED BY <2>1, <2>2
<1> QED BY <1>1, <1>2 DEF Frames, u

LEMMA PrefixFrames ==
    ASSUME NEW s \in Seq(Unit), NEW t \in Seq(Unit), Frames(s \o t)
    PROVE  Frames(s)
<1> DEFINE u == s \o t
<1>0. /\ Len(u) = Len(s) + Len(t) /\ Len(s) \in Nat /\ Len(t) \in Nat
      /\ \A i \in 1 .. Len(s) : i \in 1 .. Len(u) /\ u[i] = s[i]
  BY Joined
<1>a. Frames(u)
  OBVIOUS
<1> HIDE DEF u
<1>1. Blocks(s)
  <2> SUFFICES ASSUME NEW i \in 1 .. Len(s), NEW j \in 1 .. Len(s)
               PROVE  /\ i <= j /\ j - i <= Left(s[i]) => s[j] = <<s[i][1], s[i][2] + (j - i)>>
                      /\ j = i + Left(s[i]) + 1 => s[j][2] = 0
    BY DEF Blocks
  <2>1. u[i] = s[i] /\ u[j] = s[j] /\ i \in 1 .. Len(u) /\ j \in 1 .. Len(u)
    BY <1>0
  <2>2. /\ i <= j /\ j - i <= Left(u[i]) => u[j] = <<u[i][1], u[i][2] + (j - i)>>
        /\ j = i + Left(u[i]) + 1 => u[j][2] = 0
    BY <1>a, <2>1 DEF Frames, Blocks
  <2> QED BY <2>1, <2>2
<1>2. Heads(s)
  <2> SUFFICES ASSUME s # <<>> PROVE s[1][2] = 0
    BY DEF Heads
  <2>1. 1 \in 1 .. Len(s)
    OBVIOUS
  <2>2. u[1] = s[1] /\ Len(u) # 0
    BY <1>0, <2>1
  <2>3. u # <<>>
    BY <2>2
  <2> QED BY <1>a, <2>2, <2>3 DEF Frames, Heads
<1> QED BY <1>1, <1>2 DEF Frames

LEMMA Dropped ==
    ASSUME NEW s \in Seq(Unit), NEW n \in 0 .. Len(s)
    PROVE  /\ Drop(s, n) \in Seq(Unit) /\ Len(Drop(s, n)) = Len(s) - n
           /\ \A i \in 1 .. Len(s) - n : i + n \in 1 .. Len(s) /\ Drop(s, n)[i] = s[i + n]
<1>0. Len(s) \in Nat /\ n \in Nat /\ n <= Len(s)
  OBVIOUS
<1>1. \A i \in n + 1 .. Len(s) : s[i] \in Unit
  BY <1>0
<1>2. /\ SubSeq(s, n + 1, Len(s)) \in Seq(Unit)
      /\ Len(SubSeq(s, n + 1, Len(s))) = IF n + 1 <= Len(s) THEN Len(s) - (n + 1) + 1 ELSE 0
      /\ \A i \in 1 .. Len(s) - (n + 1) + 1 : SubSeq(s, n + 1, Len(s))[i] = s[n + 1 + i - 1]
  BY <1>0, <1>1, SubSeqProperties
<1> DEFINE d == Drop(s, n)
<1>3. /\ d \in Seq(Unit)
      /\ Len(d) = IF n + 1 <= Len(s) THEN Len(s) - (n + 1) + 1 ELSE 0
      /\ \A i \in 1 .. Len(s) - (n + 1) + 1 : d[i] = s[n + 1 + i - 1]
  BY <1>2 DEF Drop
<1> HIDE DEF d
<1>4. Len(d) = Len(s) - n
  BY <1>0, <1>3
<1>5. \A i \in 1 .. Len(s) - n : i + n \in 1 .. Len(s) /\ d[i] = s[i + n]
  <2> TAKE i \in 1 .. Len(s) - n
  <2>1. i \in 1 .. Len(s) - (n + 1) + 1 /\ n + 1 + i - 1 = i + n /\ i + n \in 1 .. Len(s)
    BY <1>0
  <2> QED BY <1>3, <2>1
<1> QED BY <1>3, <1>4, <1>5 DEF d

\* The first message is taken off a stream.
LEMMA DropFrames ==
    ASSUME NEW s \in Seq(Unit), Frames(s), s # <<>>, Body[s[1][1]] < Len(s)
    PROVE  /\ Frames(Drop(s, Body[s[1][1]] + 1))
           /\ Whole(s) => Whole(Drop(s, Body[s[1][1]] + 1))
<1> DEFINE n == Body[s[1][1]] + 1
           d == Drop(s, n)
<1>0. s[1] \in Unit /\ 1 \in 1 .. Len(s) /\ Len(s) \in Nat
  OBVIOUS
<1>1. n \in 0 .. Len(s) /\ n \in Nat
  BY <1>0, UnitFacts
<1>2. Left(s[1]) + 1 = n
  <2>1. s[1][2] = 0
    BY DEF Frames, Heads
  <2> QED BY <1>0, <2>1, UnitFacts DEF Left
<1> HIDE DEF n
<1>3. /\ d \in Seq(Unit) /\ Len(d) = Len(s) - n
      /\ \A i \in 1 .. Len(s) - n : i + n \in 1 .. Len(s) /\ d[i] = s[i + n]
  BY <1>1, Dropped
<1>a. \A i \in 1 .. Len(s) : s[i] \in Unit
  OBVIOUS
<1> HIDE DEF d
<1>4. Blocks(d)
  <2> SUFFICES ASSUME NEW i \in 1 .. Len(d), NEW j \in 1 .. Len(d)
               PROVE  /\ i <= j /\ j - i <= Left(d[i]) => d[j] = <<d[i][1], d[i][2] + (j - i)>>
                      /\ j = i + Left(d[i]) + 1 => d[j][2] = 0
    BY DEF Blocks
  <2> DEFINE k == i + n
             l == j + n
  <2>1. k \in 1 .. Len(s) /\ d[i] = s[k] /\ l \in 1 .. Len(s) /\ d[j] = s[l]
    BY <1>3
  <2>2. l - k = j - i /\ (k <= l <=> i <= j) /\ i \in Int /\ j \in Int
    BY <1>0, <1>1, <1>3
  <2>3. Left(s[k]) \in Nat
    BY <1>a, <2>1, UnitFacts
  <2>4. (l = k + Left(s[k]) + 1) <=> (j = i + Left(s[k]) + 1)
    <3>1. PICK x \in Nat : x = Left(s[k])
      BY <2>3
    <3>2. (l = k + x + 1) <=> (j = i + x + 1)
      BY <1>1, <2>2
    <3> HIDE DEF k, l
    <3> QED BY <3>1, <3>2
  <2> HIDE DEF k, l
  <2>5. /\ k <= l /\ l - k <= Left(s[k]) => s[l] = <<s[k][1], s[k][2] + (l - k)>>
        /\ l = k + Left(s[k]) + 1 => s[l][2] = 0
    BY <2>1 DEF Frames, Blocks
  <2> QED BY <2>1, <2>2, <2>4, <2>5
<1>5. Heads(d)
  <2> SUFFICES ASSUME d # <<>> PROVE d[1][2] = 0
    BY DEF Heads
  <2>1. 1 \in 1 .. Len(s) - n
    BY <1>0, <1>1, <1>3
  <2>2. d[1] = s[1 + n] /\ 1 + n \in 1 .. Len(s)
    BY <1>3, <2>1
  <2>3. 1 + n = 1 + Left(s[1]) + 1
    BY <1>1, <1>2, <1>0, UnitFacts
  <2> QED BY <1>0, <2>2, <2>3 DEF Frames, Blocks
<1>6. ASSUME Whole(s) PROVE Whole(d)
  <2> SUFFICES ASSUME NEW i \in 1 .. Len(d) PROVE i + Left(d[i]) <= Len(d)
    BY DEF Whole
  <2>1. i + n \in 1 .. Len(s) /\ d[i] = s[i + n] /\ i \in Int
    BY <1>0, <1>1, <1>3
  <2>2. i + n + Left(s[i + n]) <= Len(s) /\ Left(s[i + n]) \in Nat
    BY <1>6, <1>a, <2>1, UnitFacts DEF Whole
  <2> QED BY <1>0, <1>1, <1>3, <2>1, <2>2
<1> QED BY <1>4, <1>5, <1>6 DEF Frames, d, n

LEMMA Cut ==
    ASSUME NEW s \in Seq(Unit), NEW n \in 0 .. Len(s)
    PROVE  /\ SubSeq(s, 1, n) \in Seq(Unit) /\ Len(SubSeq(s, 1, n)) = n
           /\ SubSeq(s, 1, n) \o Drop(s, n) = s
<1>0. Len(s) \in Nat /\ n \in Nat /\ n <= Len(s)
  OBVIOUS
<1>1. \A i \in 1 .. n : s[i] \in Unit
  BY <1>0
<1>2. SubSeq(s, 1, n) \in Seq(Unit) /\ Len(SubSeq(s, 1, n)) = IF 1 <= n THEN n - 1 + 1 ELSE 0
  BY <1>0, <1>1, SubSeqProperties
<1>3. Len(SubSeq(s, 1, n)) = n
  BY <1>0, <1>2
<1>4. SubSeq(s, 1, n) \o SubSeq(s, n + 1, Len(s)) = SubSeq(s, 1, Len(s))
  <2>1. 1 \in 1 .. Len(s) + 1 /\ n \in 1 - 1 .. Len(s) /\ Len(s) \in n .. Len(s)
    BY <1>0
  <2> QED BY <2>1, ConcatAdjacentSubSeq
<1>5. SubSeq(s, 1, Len(s)) = s
  BY SubSeqFull
<1> QED BY <1>2, <1>3, <1>4, <1>5 DEF Drop

LEMMA DropJoined ==
    ASSUME NEW s \in Seq(Unit), NEW t \in Seq(Unit), NEW n \in 0 .. Len(s)
    PROVE  Drop(s, n) \o t = Drop(s \o t, n)
<1> DEFINE d == Drop(s, n)
           p == SubSeq(s, 1, n)
           u == s \o t
           q == SubSeq(u, 1, n)
           e == Drop(u, n)
<1>1. p \in Seq(Unit) /\ d \in Seq(Unit) /\ p \o d = s
  BY Cut, Dropped
<1>2. u \in Seq(Unit) /\ n \in 0 .. Len(u)
  BY Joined
<1>3. q \in Seq(Unit) /\ e \in Seq(Unit) /\ q \o e = u
  BY <1>2, Cut, Dropped
<1>4. p = q
  <2>1. CASE n = 0
    BY <2>1, SubSeqEmpty
  <2>2. CASE n # 0
    BY <2>2, SubSeqOfConcat1
  <2> QED BY <2>1, <2>2
<1>5. u = s \o t
  OBVIOUS
<1> HIDE DEF d, p, u, q, e
<1>6. p \o (d \o t) = p \o e
  <2>1. (p \o d) \o t = p \o (d \o t)
    BY ZenonT(40), <1>1, Associative
  <2>2. p \o e = u
    BY <1>3, <1>4
  <2> QED BY <1>1, <1>5, <2>1, <2>2
<1>7. d \o t \in Seq(Unit)
  BY <1>1
<1>8. d \o t = e
  BY <1>1, <1>3, <1>6, <1>7, ConcatSimplifications
<1> QED BY <1>8 DEF d, e, u

LEMMA NothingFramed == <<>> \in Seq(Unit) /\ Frames(<<>>) /\ Whole(<<>>)
BY DEF Frames, Blocks, Heads, Whole

-----------------------------------------------------------------------------
(* Types, for either receiver.                                             *)

LEMMA Written ==
    ASSUME TypeOK, NEW buf \in Seq(Unit), WriteFD(buf)
    PROVE  /\ sendBuff' \in Seq(Unit) /\ wire' \in Seq(Unit) /\ Len(wire') <= Room
           /\ recvOpen => wire' \o sendBuff' = wire \o buf
           /\ ~recvOpen => sendBuff' = <<>> /\ wire' = wire
<1>1. CASE ~recvOpen
  BY <1>1 DEF WriteFD, TypeOK
<1>2. CASE recvOpen
  <2>0. wire \in Seq(Unit) /\ Len(wire) <= Room /\ Room \in Nat
    BY RoomAssumption DEF TypeOK
  <2>1. Fits(buf) \in 0 .. Len(buf) /\ Fits(buf) <= Room - Len(wire)
    BY <2>0 DEF Fits, Least
  <2>2. PICK f \in 0 .. Len(buf) : f = Fits(buf)
    BY <2>1
  <2>3. sendBuff' = Drop(buf, f) /\ wire' = wire \o SubSeq(buf, 1, f)
    BY <1>2, <2>2 DEF WriteFD
  <2>4. PICK p \in Seq(Unit) : p = SubSeq(buf, 1, f)
    BY Cut
  <2>5. PICK d \in Seq(Unit) : d = Drop(buf, f)
    BY Dropped
  <2>6. Len(p) = f /\ p \o d = buf
    BY <2>4, <2>5, Cut
  <2>7. wire \o p \in Seq(Unit) /\ Len(wire \o p) = Len(wire) + f
    BY <2>0, <2>6, Joined
  <2>8. Len(wire') <= Room
    BY <2>0, <2>1, <2>2, <2>3, <2>4, <2>7
  <2>9. (wire \o p) \o d = wire \o (p \o d)
    BY <2>0, Associative
  <2> QED BY <1>2, <2>3, <2>4, <2>5, <2>6, <2>7, <2>8, <2>9
<1> QED BY <1>1, <1>2

LEMMA Flushed ==
    ASSUME TypeOK, NEW buf \in Seq(Unit), NEW wait \in Seq(Unit), Flush(buf, wait)
    PROVE  /\ sendBuff' \in Seq(Unit) /\ wire' \in Seq(Unit) /\ Len(wire') <= Room
           /\ waitBuff' \in Seq(Unit) /\ watched' \in BOOLEAN /\ sendOpen' \in BOOLEAN
           /\ watched' = (sendBuff' # <<>>)
           /\ waitBuff' \in {wait, <<>>}
           /\ recvOpen => wire' \o sendBuff' = wire \o buf /\ sendOpen' = sendOpen
           /\ ~recvOpen => wire' = wire
<1>1. CASE /\ WriteFD(buf)
           /\ watched' = IoWriteEvent(sendBuff')
           /\ waitBuff' = wait
           /\ sendOpen' = sendOpen
  BY <1>1, Written DEF IoWriteEvent, TypeOK
<1>2. CASE /\ ~recvOpen
           /\ DestroySender
           /\ UNCHANGED wire
  <2>1. sendBuff' = <<>> /\ waitBuff' = <<>> /\ watched' = FALSE /\ sendOpen' = FALSE
    BY <1>2 DEF DestroySender
  <2>2. <<>> \in Seq(Unit) /\ wire \in Seq(Unit) /\ Len(wire) <= Room
    BY NothingFramed DEF TypeOK
  <2>3. watched' = (sendBuff' # <<>>)
    BY <2>1
  <2> QED BY <1>2, <2>1, <2>2, <2>3
<1> QED BY <1>1, <1>2 DEF Flush

LEMMA ReadTyped ==
    ASSUME TypeOK, ReadFD
    PROVE  /\ recvBuff' \in Seq(Unit) /\ wire' \in Seq(Unit) /\ Len(wire') <= Room
           /\ recvBuff' \o wire' = recvBuff \o wire
<1>0. wire \in Seq(Unit) /\ recvBuff \in Seq(Unit) /\ Len(wire) <= Room /\ Room \in Nat
  BY RoomAssumption DEF TypeOK
<1>1. PICK n \in 1 .. Len(wire) :
        /\ recvBuff' = recvBuff \o SubSeq(wire, 1, n)
        /\ wire' = Drop(wire, n)
  BY DEF ReadFD
<1>2. n \in 0 .. Len(wire)
  BY <1>0
<1>3. PICK p \in Seq(Unit) : p = SubSeq(wire, 1, n)
  BY <1>0, <1>2, Cut
<1>4. PICK d \in Seq(Unit) : d = Drop(wire, n)
  BY <1>0, <1>2, Dropped
<1>5. p \o d = wire /\ Len(d) = Len(wire) - n
  BY <1>0, <1>2, <1>3, <1>4, Cut, Dropped
<1>6. (recvBuff \o p) \o d = recvBuff \o (p \o d) /\ recvBuff \o p \in Seq(Unit)
  <2>1. (recvBuff \o p) \o d = recvBuff \o (p \o d)
    BY <1>0, Associative
  <2>2. recvBuff \o p \in Seq(Unit)
    BY <1>0, Joined
  <2> QED BY <2>1, <2>2
<1>7. Len(wire') <= Room
  <2>1. Len(wire) \in Nat
    BY <1>0
  <2> QED BY <1>0, <1>1, <1>2, <1>4, <1>5, <2>1
<1> QED BY <1>1, <1>3, <1>4, <1>5, <1>6, <1>7

LEMMA DecodeTyped ==
    ASSUME TypeOK, Decode
    PROVE  TypeOK'
<1> DEFINE m == recvBuff[1][1]
           n == Parsed(m) + 1
<1>1. recvBuff \in Seq(Unit) /\ recvBuff # <<>>
  BY DEF TypeOK, Decode, HasMessage
<1>2. m \in AnyMessage /\ Body[m] \in Nat
  <2>1. recvBuff[1] \in Unit
    BY <1>1
  <2> QED BY <2>1, UnitFacts
<1>3. Parsed(m) \in Nat
  BY <1>2 DEF Parsed, TypeOK
<1>4. /\ disposed' = Append(disposed, m)
      /\ body' = Parsed(m)
      /\ recvBuff' = Drop(recvBuff, Least(n, Len(recvBuff)))
      /\ ahead' = n - Least(n, Len(recvBuff))
      /\ UNCHANGED <<sendVars, wire, recvOpen>>
  BY DEF Decode
<1> HIDE DEF m
<1>5. Least(n, Len(recvBuff)) \in 0 .. Len(recvBuff) /\ n - Least(n, Len(recvBuff)) \in Nat
  <2>1. Len(recvBuff) \in Nat
    BY <1>1
  <2> QED BY <1>3, <2>1 DEF Least
<1>6. recvBuff' \in Seq(Unit)
  BY <1>1, <1>4, <1>5, Dropped
<1>7. disposed' \in Seq(AnyMessage)
  BY <1>2, <1>4 DEF TypeOK
<1> HIDE DEF n
<1> QED BY <1>3, <1>4, <1>5, <1>6, <1>7 DEF TypeOK, sendVars

LEMMA InitTyped == Init => TypeOK
<1> SUFFICES ASSUME Init PROVE TypeOK
  OBVIOUS
<1>1. <<>> \in Seq(Unit) /\ <<>> \in Seq(AnyMessage) /\ Len(<<>>) = 0
  BY NothingFramed
<1>2. Room \in Nat
  BY RoomAssumption
<1>3. /\ waitBuff = <<>> /\ sendBuff = <<>> /\ wire = <<>> /\ recvBuff = <<>> /\ disposed = <<>>
      /\ stage \in Stage /\ sent = {} /\ ahead = 0 /\ body = 0
      /\ watched = FALSE /\ sendOpen = TRUE /\ recvOpen = TRUE
  BY DEF Init, Stage
<1>4. /\ sent \subseteq Message /\ ahead \in Nat /\ body \in Nat
      /\ watched \in BOOLEAN /\ sendOpen \in BOOLEAN /\ recvOpen \in BOOLEAN
  BY <1>3
<1>5. /\ waitBuff \in Seq(Unit) /\ sendBuff \in Seq(Unit) /\ wire \in Seq(Unit)
      /\ recvBuff \in Seq(Unit) /\ disposed \in Seq(AnyMessage)
  BY <1>1, <1>3, Zenon
<1>6. Len(wire) <= Room
  <2>1. Len(wire) = 0
    BY <1>1, <1>3, Zenon
  <2> QED BY <1>2, <2>1
<1> QED BY <1>3, <1>4, <1>5, <1>6, Zenon DEF TypeOK

LEMMA StepTyped == TypeOK /\ [Next]_vars => TypeOK'
<1> SUFFICES ASSUME TypeOK, [Next]_vars PROVE TypeOK'
  OBVIOUS
<1> USE DEF Stage
<1>1. ASSUME NEW m \in Message, AutoSend(m) PROVE TypeOK'
  <2>1. Units(m) \in Seq(Unit)
    BY UnitsFramed DEF AnyMessage
  <2> QED BY <1>1, <2>1 DEF TypeOK, AutoSend, recvVars
<1>2. ASSUME NEW m \in Message, SendTo(m) PROVE TypeOK'
  <2>1. /\ Units(m) \in Seq(Unit)
        /\ sendBuff \o Units(m) \in Seq(Unit) /\ waitBuff \o Units(m) \in Seq(Unit)
    BY UnitsFramed, Joined DEF AnyMessage, TypeOK
  <2>2. CASE Flush(sendBuff \o Units(m), waitBuff)
    BY <1>2, <2>1, <2>2, Flushed DEF TypeOK, SendTo, recvVars
  <2>3. CASE waitBuff' = waitBuff \o Units(m) /\ UNCHANGED <<sendBuff, watched, sendOpen, wire>>
    BY <1>2, <2>1, <2>3 DEF TypeOK, SendTo, recvVars
  <2> QED BY <1>2, <2>2, <2>3 DEF SendTo
<1>3. ASSUME NEW m \in Message, Reply(m) PROVE TypeOK'
  <2>1. Units(m) \in Seq(Unit) /\ sendBuff \o Units(m) \in Seq(Unit)
    BY UnitsFramed, Joined DEF AnyMessage, TypeOK
  <2> QED BY <1>3, <2>1, Written DEF TypeOK, Reply, recvVars
<1>4. CASE FirstIoWrite
  <2>1. Units(Hello) \in Seq(Unit) /\ Len(Units(Hello)) <= Room
    BY UnitsFramed, RoomAssumption, BodyAssumption DEF AnyMessage
  <2> QED BY <1>4, <2>1 DEF TypeOK, FirstIoWrite, recvVars
<1>5. CASE IoWrite
  <2>1. sendBuff \in Seq(Unit) /\ waitBuff \in Seq(Unit)
    BY DEF TypeOK
  <2> QED BY <1>5, <2>1, Flushed DEF TypeOK, IoWrite, recvVars
<1>6. CASE Ready
  <2>1. sendBuff \o waitBuff \in Seq(Unit) /\ <<>> \in Seq(Unit)
    BY Joined, NothingFramed DEF TypeOK
  <2> QED BY <1>6, <2>1, Flushed DEF TypeOK, Ready, recvVars
<1>7. CASE ReadFD
  BY <1>7, ReadTyped DEF TypeOK, ReadFD, sendVars
<1>8. CASE Decode
  BY <1>8, DecodeTyped
<1>9. CASE CloseSender
  <2>1. sendBuff' = <<>> /\ waitBuff' = <<>> /\ watched' = FALSE /\ sendOpen' = FALSE
    BY <1>9 DEF CloseSender, DestroySender
  <2>2. UNCHANGED <<stage, sent, wire, recvVars>>
    BY <1>9 DEF CloseSender
  <2> QED BY <2>1, <2>2, NothingFramed DEF TypeOK, recvVars
<1>10. CASE CloseReceiver
  <2>1. recvBuff' = <<>> /\ wire' = <<>> /\ recvOpen' = FALSE
    BY <1>10 DEF CloseReceiver
  <2>2. UNCHANGED <<sendVars, ahead, body, disposed>>
    BY <1>10 DEF CloseReceiver
  <2>3. Len(wire') <= Room
    <3>1. Len(wire') = 0
      BY <2>1
    <3> QED BY <3>1, RoomAssumption
  <2>4. wire' \in Seq(Unit) /\ recvBuff' \in Seq(Unit) /\ recvOpen' \in BOOLEAN
    BY <2>1, NothingFramed
  <2> QED BY <2>2, <2>3, <2>4 DEF TypeOK, sendVars
<1>11. CASE UNCHANGED vars
  BY <1>11 DEF TypeOK, vars
<1> QED BY <1>1, <1>2, <1>3, <1>4, <1>5, <1>6, <1>7, <1>8, <1>9, <1>10, <1>11 DEF Next, Write

\* The buffers of both ends hold units of messages, and the kernel never more
\* than it has room for, for a worker and for a Manager that reads.
THEOREM StreamTyped == Spec => []TypeOK
BY InitTyped, StepTyped, PTL DEF Spec

-----------------------------------------------------------------------------
(* Frames, for a worker that reads.                                        *)

Cleared == ~recvOpen => recvBuff = <<>> /\ wire = <<>>
Unbegun == stage \in {"none", "connecting"} => recvBuff = <<>> /\ wire = <<>> /\ sendBuff = <<>>
Readable == recvOpen => Frames(Stream) /\ (sendOpen => Whole(Stream))
Waiting == Frames(waitBuff) /\ Whole(waitBuff)

FInv ==
    /\ TypeOK
    /\ ahead = 0
    /\ Cleared
    /\ Unbegun
    /\ Readable
    /\ Waiting

LEMMA StreamTypedNow == TypeOK => Stream \in Seq(Unit) /\ recvBuff \o wire \in Seq(Unit)
<1> SUFFICES ASSUME TypeOK PROVE Stream \in Seq(Unit) /\ recvBuff \o wire \in Seq(Unit)
  OBVIOUS
<1>1. recvBuff \in Seq(Unit) /\ wire \in Seq(Unit) /\ sendBuff \in Seq(Unit)
  BY DEF TypeOK
<1>2. PICK q \in Seq(Unit) : q = recvBuff \o wire
  BY <1>1, Joined
<1>3. q \o sendBuff \in Seq(Unit)
  BY <1>1, Joined
<1> QED BY <1>2, <1>3 DEF Stream

LEMMA Regrouped ==
    ASSUME NEW s \in Seq(Unit), NEW t \in Seq(Unit), NEW u \in Seq(Unit), NEW v \in Seq(Unit)
    PROVE  ((s \o t) \o u) \o v = s \o (t \o (u \o v))
<1>1. (s \o t) \o u = s \o (t \o u)
  BY Associative
<1>2. PICK q \in Seq(Unit) : q = s \o t
  BY Joined
<1>3. PICK e \in Seq(Unit) : e = u \o v
  BY Joined
<1>4. (q \o u) \o v = q \o (u \o v)
  BY Associative, ZenonT(60)
<1>5. (s \o t) \o e = s \o (t \o e)
  BY Associative, ZenonT(60)
<1>6. ((s \o t) \o u) \o v = (s \o t) \o (u \o v)
  BY <1>2, <1>4, ZenonT(60)
<1>7. (s \o t) \o (u \o v) = s \o (t \o (u \o v))
  BY <1>3, <1>5, ZenonT(60)
<1> QED BY <1>6, <1>7, ZenonT(60)

LEMMA Appended ==
    \A r, v, c, w, b, new \in Seq(Unit) :
        w \o b = v \o (c \o new) => (r \o w) \o b = ((r \o v) \o c) \o new
<1>1. \A r, w, b \in Seq(Unit) : (r \o w) \o b = r \o (w \o b)
  BY Associative
<1>2. \A r, v, c, new \in Seq(Unit) : ((r \o v) \o c) \o new = r \o (v \o (c \o new))
  BY Regrouped
<1>3. ASSUME NEW r \in Seq(Unit), NEW v \in Seq(Unit), NEW c \in Seq(Unit),
             NEW w \in Seq(Unit), NEW b \in Seq(Unit), NEW new \in Seq(Unit)
      PROVE  w \o b = v \o (c \o new) => (r \o w) \o b = ((r \o v) \o c) \o new
  <2>1. (r \o w) \o b = r \o (w \o b)
    BY <1>1, ZenonT(60)
  <2>2. ((r \o v) \o c) \o new = r \o (v \o (c \o new))
    <3>1. \A y, z \in Seq(Unit) : ((r \o v) \o y) \o z = r \o (v \o (y \o z))
      BY <1>2, ZenonT(60)
    <3> QED BY <3>1, ZenonT(60)
  <2>3. w \o b = v \o (c \o new) => r \o (w \o b) = r \o (v \o (c \o new))
    BY ZenonT(60)
  <2> QED BY <2>1, <2>2, <2>3, ZenonT(60)
<1> QED BY <1>3

\* What is written goes to the end of the stream.
LEMMA StreamGrows ==
    ASSUME TypeOK, NEW new \in Seq(Unit), Frames(new), Whole(new),
           Frames(Stream), Whole(Stream),
           NEW w \in Seq(Unit), NEW b \in Seq(Unit), w \o b = wire \o (sendBuff \o new)
    PROVE  Frames((recvBuff \o w) \o b) /\ Whole((recvBuff \o w) \o b)
<1>1. recvBuff \in Seq(Unit) /\ wire \in Seq(Unit) /\ sendBuff \in Seq(Unit)
  BY DEF TypeOK
<1>2. (recvBuff \o w) \o b = ((recvBuff \o wire) \o sendBuff) \o new
  <2>1. \A v, c, u, y, z \in Seq(Unit) :
            u \o y = v \o (c \o z) => (recvBuff \o u) \o y = ((recvBuff \o v) \o c) \o z
    BY <1>1, Appended, ZenonT(60)
  <2>2. \A c, u, y, z \in Seq(Unit) :
            u \o y = wire \o (c \o z) => (recvBuff \o u) \o y = ((recvBuff \o wire) \o c) \o z
    BY <1>1, <2>1, ZenonT(60)
  <2>3. \A u, y, z \in Seq(Unit) :
            u \o y = wire \o (sendBuff \o z)
                => (recvBuff \o u) \o y = ((recvBuff \o wire) \o sendBuff) \o z
    BY <1>1, <2>2, ZenonT(60)
  <2> QED BY <2>3, ZenonT(60)
<1>3. PICK x \in Seq(Unit) : x = Stream
  BY StreamTypedNow
<1>4. Frames(x \o new) /\ Whole(x \o new)
  BY <1>3, JoinFrames, JoinWhole
<1> QED BY <1>2, <1>3, <1>4, Zenon DEF Stream

\* The same of a step.
LEMMA StreamWritten ==
    ASSUME TypeOK, NEW new \in Seq(Unit), Frames(new), Whole(new),
           Frames(Stream), Whole(Stream),
           wire' \in Seq(Unit), sendBuff' \in Seq(Unit), recvBuff' = recvBuff,
           wire' \o sendBuff' = wire \o (sendBuff \o new)
    PROVE  Frames(Stream') /\ Whole(Stream')
<1>1. PICK w \in Seq(Unit) : w = wire'
  OBVIOUS
<1>2. PICK b \in Seq(Unit) : b = sendBuff'
  OBVIOUS
<1>3. w \o b = wire \o (sendBuff \o new)
  BY <1>1, <1>2
<1>4. Frames((recvBuff \o w) \o b) /\ Whole((recvBuff \o w) \o b)
  BY <1>3, StreamGrows
<1>5. Stream' = (recvBuff \o w) \o b
  BY <1>1, <1>2 DEF Stream
<1> QED BY <1>4, <1>5

LEMMA FlushKeeps ==
    ASSUME FInv, NEW new \in Seq(Unit), Frames(new), Whole(new),
           NEW wait \in Seq(Unit), Frames(wait), Whole(wait),
           sendOpen, stage' \notin {"none", "connecting"},
           UNCHANGED recvVars, TypeOK',
           Flush(sendBuff \o new, wait)
    PROVE  FInv'
<1>0. sendBuff \o new \in Seq(Unit) /\ TypeOK
  BY Joined DEF FInv, TypeOK
<1>1. /\ sendBuff' \in Seq(Unit) /\ wire' \in Seq(Unit)
      /\ waitBuff' \in {wait, <<>>}
      /\ recvOpen => wire' \o sendBuff' = wire \o (sendBuff \o new) /\ sendOpen' = sendOpen
      /\ ~recvOpen => wire' = wire
  BY <1>0, Flushed
<1>2. Waiting'
  BY <1>1, NothingFramed DEF Waiting
<1>3. Readable'
  <2> SUFFICES ASSUME recvOpen PROVE Frames(Stream') /\ Whole(Stream')
    BY DEF Readable, recvVars
  <2>1. Frames(Stream) /\ Whole(Stream)
    BY DEF FInv, Readable
  <2>2. wire' \o sendBuff' = wire \o (sendBuff \o new) /\ recvBuff' = recvBuff
    BY <1>1 DEF recvVars
  <2> QED BY <1>0, <1>1, <2>1, <2>2, StreamWritten
<1>4. Cleared'
  BY <1>1 DEF Cleared, FInv, recvVars
<1>5. Unbegun'
  BY DEF Unbegun
<1>6. ahead' = 0
  BY DEF FInv, recvVars
<1> QED BY <1>2, <1>3, <1>4, <1>5, <1>6 DEF FInv

\* Messages wait behind each other.
LEMMA WaitGrows ==
    ASSUME FInv, NEW m \in AnyMessage, waitBuff' = waitBuff \o Units(m),
           UNCHANGED <<sendBuff, sendOpen, wire, stage, recvVars>>, TypeOK'
    PROVE  FInv'
<1>1. PICK new \in Seq(Unit) : new = Units(m) /\ Frames(new) /\ Whole(new)
  BY UnitsFramed
<1>2. waitBuff \in Seq(Unit) /\ Frames(waitBuff) /\ Whole(waitBuff)
  BY DEF FInv, TypeOK, Waiting
<1>3. Frames(waitBuff \o new) /\ Whole(waitBuff \o new)
  BY <1>1, <1>2, JoinFrames, JoinWhole
<1>4. Waiting'
  BY <1>1, <1>3 DEF Waiting
<1>5. Stream' = Stream
  BY DEF Stream, recvVars
<1>6. Readable'
  BY <1>5 DEF FInv, Readable, recvVars
<1> QED BY <1>4, <1>6 DEF FInv, Cleared, Unbegun, recvVars

LEMMA AutoSendKeeps == ASSUME FInv, NEW m \in Message, AutoSend(m), TypeOK' PROVE FInv'
<1>1. PICK new \in Seq(Unit) : new = Units(m) /\ Frames(new) /\ Whole(new)
  BY UnitsFramed DEF AnyMessage
<1>2. /\ stage = "none" /\ stage' = "connecting" /\ waitBuff' = Units(m)
      /\ UNCHANGED <<sendBuff, sendOpen, wire, recvVars>>
  BY DEF AutoSend
<1>3. Waiting'
  BY <1>1, <1>2 DEF Waiting
<1>4. Stream' = Stream
  BY <1>2 DEF Stream, recvVars
<1>5. Readable'
  BY <1>2, <1>4 DEF FInv, Readable, recvVars
<1> QED BY <1>2, <1>3, <1>5 DEF FInv, Cleared, Unbegun, recvVars

LEMMA SendToKeeps == ASSUME FInv, NEW m \in Message, SendTo(m), TypeOK' PROVE FInv'
<1>1. PICK new \in Seq(Unit) : new = Units(m) /\ Frames(new) /\ Whole(new)
  BY UnitsFramed DEF AnyMessage
<1>2. CASE stage = "ready"
  <2>1. Flush(sendBuff \o new, waitBuff) /\ sendOpen /\ stage' = "ready" /\ UNCHANGED recvVars
    BY <1>1, <1>2 DEF SendTo
  <2>2. waitBuff \in Seq(Unit) /\ Frames(waitBuff) /\ Whole(waitBuff)
    BY DEF FInv, TypeOK, Waiting
  <2> QED BY <1>1, <2>1, <2>2, FlushKeeps
<1>3. CASE stage # "ready"
  BY <1>3, WaitGrows DEF SendTo, AnyMessage
<1> QED BY <1>2, <1>3

LEMMA ReplyKeeps == ASSUME FInv, NEW m \in Message, Reply(m), TypeOK' PROVE FInv'
<1>1. PICK new \in Seq(Unit) : new = Units(m) /\ Frames(new) /\ Whole(new)
  BY UnitsFramed DEF AnyMessage
<1>2. sendBuff \o new \in Seq(Unit) /\ TypeOK
  BY Joined DEF FInv, TypeOK
<1>3. WriteFD(sendBuff \o new) /\ sendOpen
  BY <1>1 DEF Reply
<1>4. /\ stage = "ready"
      /\ UNCHANGED <<stage, waitBuff, watched, sendOpen, recvVars>>
  BY DEF Reply
<1>5. /\ sendBuff' \in Seq(Unit) /\ wire' \in Seq(Unit)
      /\ recvOpen => wire' \o sendBuff' = wire \o (sendBuff \o new)
      /\ ~recvOpen => wire' = wire
  BY <1>2, <1>3, Written
<1>6. Readable'
  <2> SUFFICES ASSUME recvOpen PROVE Frames(Stream') /\ Whole(Stream')
    BY <1>4 DEF Readable, recvVars
  <2>1. Frames(Stream) /\ Whole(Stream)
    BY <1>3 DEF FInv, Readable
  <2>2. recvBuff' = recvBuff
    BY <1>4 DEF recvVars
  <2> QED BY <1>1, <1>2, <1>5, <2>1, <2>2, StreamWritten
<1>7. Cleared' /\ Unbegun' /\ Waiting' /\ ahead' = 0
  BY <1>4, <1>5 DEF FInv, Cleared, Unbegun, Waiting, recvVars
<1> QED BY <1>6, <1>7 DEF FInv

LEMMA FirstIoWriteKeeps == ASSUME FInv, FirstIoWrite, TypeOK' PROVE FInv'
<1>1. PICK new \in Seq(Unit) : new = Units(Hello) /\ Frames(new) /\ Whole(new)
  BY UnitsFramed DEF AnyMessage
<1>2. /\ stage = "connecting" /\ stage' = "greeting"
      /\ wire' = IF recvOpen THEN new ELSE wire
      /\ UNCHANGED <<sent, waitBuff, sendBuff, sendOpen, recvVars>>
  BY <1>1 DEF FirstIoWrite
<1>3. recvBuff = <<>> /\ sendBuff = <<>>
  BY <1>2 DEF FInv, Unbegun
<1>4. Readable'
  <2> SUFFICES ASSUME recvOpen PROVE Frames(Stream') /\ Whole(Stream')
    BY <1>2 DEF Readable, recvVars
  <2>1. (<<>> \o new) \o <<>> = new
    BY ConcatEmptySeq
  <2>2. Stream' = (<<>> \o new) \o <<>>
    BY <1>2, <1>3 DEF Stream, recvVars
  <2>3. Stream' = new
    BY <2>1, <2>2
  <2> QED BY <1>1, <2>3
<1>5. Cleared' /\ Unbegun' /\ Waiting' /\ ahead' = 0
  BY <1>2 DEF FInv, Cleared, Unbegun, Waiting, recvVars
<1> QED BY <1>4, <1>5 DEF FInv

LEMMA IoWriteKeeps == ASSUME FInv, IoWrite, TypeOK' PROVE FInv'
<1>1. sendBuff # <<>> /\ sendOpen /\ Flush(sendBuff, waitBuff) /\ UNCHANGED <<stage, sent, recvVars>>
  BY DEF IoWrite
<1>2. stage \notin {"none", "connecting"}
  BY <1>1 DEF FInv, Unbegun
<1>3. sendBuff \o <<>> = sendBuff
  BY ConcatEmptySeq DEF FInv, TypeOK
<1>4. Flush(sendBuff \o <<>>, waitBuff)
  BY <1>1, <1>3
<1>5. waitBuff \in Seq(Unit) /\ Frames(waitBuff) /\ Whole(waitBuff)
  BY DEF FInv, TypeOK, Waiting
<1>6. stage' \notin {"none", "connecting"} /\ UNCHANGED recvVars
  BY <1>1, <1>2
<1> QED BY <1>1, <1>4, <1>5, <1>6, FlushKeeps, NothingFramed

LEMMA ReadyKeeps == ASSUME FInv, Ready, TypeOK' PROVE FInv'
<1>1. sendOpen /\ stage' = "ready" /\ Flush(sendBuff \o waitBuff, <<>>) /\ UNCHANGED recvVars
  BY DEF Ready
<1>2. waitBuff \in Seq(Unit) /\ Frames(waitBuff) /\ Whole(waitBuff)
  BY DEF FInv, TypeOK, Waiting
<1> QED BY <1>1, <1>2, FlushKeeps, NothingFramed

LEMMA ReadKeeps == ASSUME FInv, ReadFD, TypeOK' PROVE FInv'
<1>1. recvBuff' \o wire' = recvBuff \o wire
  BY ReadTyped DEF FInv
<1>2. recvOpen /\ wire # <<>> /\ UNCHANGED <<sendVars, recvOpen, ahead, disposed>>
  BY DEF ReadFD
<1>3. Stream' = Stream
  BY <1>1, <1>2 DEF Stream, sendVars
<1>4. Readable'
  BY <1>2, <1>3 DEF FInv, Readable, sendVars
<1>5. Unbegun'
  BY <1>2 DEF FInv, Unbegun, sendVars
<1> QED BY <1>2, <1>4, <1>5 DEF FInv, Cleared, Waiting, sendVars

\* A worker takes head and body of the first message, and nothing else.
LEMMA DecodeKeeps == ASSUME Receiver = "worker", FInv, Decode, TypeOK' PROVE FInv'
<1>0. recvBuff \in Seq(Unit) /\ wire \in Seq(Unit) /\ sendBuff \in Seq(Unit)
  BY DEF FInv, TypeOK
<1>1. /\ recvOpen /\ recvBuff # <<>> /\ Body[recvBuff[1][1]] < Len(recvBuff)
      /\ UNCHANGED <<sendVars, wire, recvOpen>>
  BY DEF Decode, HasMessage
<1>2. PICK n \in 0 .. Len(recvBuff) : n = Body[recvBuff[1][1]] + 1
  <2>1. recvBuff[1] \in Unit /\ Len(recvBuff) \in Nat
    BY <1>0, <1>1
  <2> QED BY <1>1, <2>1, UnitFacts
<1>3. Parsed(recvBuff[1][1]) + 1 = n
  BY <1>2 DEF Parsed
<1>4. Least(n, Len(recvBuff)) = n /\ n - n = 0
  BY <1>2 DEF Least
<1>5. recvBuff' = Drop(recvBuff, n) /\ ahead' = 0
  <2> DEFINE k == Parsed(recvBuff[1][1]) + 1
  <2>1. /\ recvBuff' = Drop(recvBuff, Least(k, Len(recvBuff)))
        /\ ahead' = k - Least(k, Len(recvBuff))
    BY DEF Decode
  <2>2. k = n
    BY <1>3
  <2> HIDE DEF k
  <2> QED BY <1>4, <2>1, <2>2
<1>6. PICK q \in Seq(Unit) : q = recvBuff \o wire
  BY StreamTypedNow DEF FInv
<1>7. PICK x \in Seq(Unit) : x = Stream
  BY StreamTypedNow DEF FInv
<1>8. n \in 0 .. Len(q) /\ Len(recvBuff) \in Nat /\ Len(x) >= Len(recvBuff) /\ x # <<>> /\ x[1] = recvBuff[1]
  <2>1. /\ Len(q) = Len(recvBuff) + Len(wire) /\ Len(recvBuff) \in Nat /\ Len(wire) \in Nat
        /\ \A i \in 1 .. Len(recvBuff) : q[i] = recvBuff[i]
    BY <1>0, <1>6, Joined
  <2>2. /\ Len(x) = Len(q) + Len(sendBuff) /\ Len(sendBuff) \in Nat
        /\ \A i \in 1 .. Len(q) : x[i] = q[i]
    BY <1>0, <1>6, <1>7, Joined DEF Stream
  <2>3. Len(recvBuff) > 0
    BY <1>0, <1>1
  <2>4. 1 \in 1 .. Len(recvBuff) /\ 1 \in 1 .. Len(q)
    BY <2>1, <2>3
  <2>5. n \in 0 .. Len(q) /\ Len(x) >= Len(recvBuff) /\ Len(x) # 0
    BY <1>2, <2>1, <2>2, <2>3
  <2> QED BY <2>1, <2>2, <2>4, <2>5
<1>9. Stream' = Drop(x, n)
  <2>1. Drop(recvBuff, n) \o wire = Drop(q, n)
    BY <1>0, <1>2, <1>6, DropJoined
  <2>2. Drop(q, n) \o sendBuff = Drop(q \o sendBuff, n)
    BY <1>0, <1>8, DropJoined
  <2>3. Stream' = (Drop(recvBuff, n) \o wire) \o sendBuff
    BY <1>1, <1>5 DEF Stream, sendVars
  <2>4. x = q \o sendBuff
    BY <1>6, <1>7 DEF Stream
  <2> QED BY <2>1, <2>2, <2>3, <2>4
<1>10. Body[x[1][1]] < Len(x) /\ n = Body[x[1][1]] + 1
  <2>1. Body[recvBuff[1][1]] \in Nat
    <3>1. recvBuff[1] \in Unit
      BY <1>0, <1>1
    <3> QED BY <3>1, UnitFacts
  <2> QED BY <1>1, <1>2, <1>8, <2>1
<1>11. Frames(x) /\ (sendOpen => Whole(x))
  BY <1>1, <1>7 DEF FInv, Readable
<1>12. Frames(Drop(x, n)) /\ (sendOpen => Whole(Drop(x, n)))
  BY <1>8, <1>10, <1>11, DropFrames
<1>13. Readable'
  BY <1>1, <1>9, <1>12 DEF Readable, sendVars
<1>14. Unbegun'
  BY <1>1 DEF FInv, Unbegun, sendVars
<1>15. Cleared' /\ Waiting'
  BY <1>1 DEF FInv, Cleared, Waiting, sendVars
<1> QED BY <1>5, <1>13, <1>14, <1>15 DEF FInv

\* What has not been written is lost, perhaps in the middle of a message.
LEMMA CloseSenderKeeps == ASSUME FInv, CloseSender, TypeOK' PROVE FInv'
<1>1. /\ sendOpen' = FALSE /\ waitBuff' = <<>> /\ sendBuff' = <<>>
      /\ UNCHANGED <<stage, sent, wire, recvVars>>
  BY DEF CloseSender, DestroySender
<1>2. PICK q \in Seq(Unit) : q = recvBuff \o wire
  BY StreamTypedNow DEF FInv
<1>3. ASSUME recvOpen PROVE Frames(q)
  <2>1. Frames(q \o sendBuff) /\ sendBuff \in Seq(Unit)
    BY <1>2, <1>3 DEF FInv, Readable, Stream, TypeOK
  <2> QED BY <2>1, PrefixFrames
<1>4. Stream' = q
  <2>1. q \o <<>> = q
    BY ConcatEmptySeq
  <2> QED BY <1>1, <1>2, <2>1 DEF Stream, recvVars
<1>5. Readable'
  BY <1>1, <1>3, <1>4 DEF Readable, recvVars
<1>6. Waiting'
  BY <1>1, NothingFramed DEF Waiting
<1> QED BY <1>1, <1>5, <1>6 DEF FInv, Cleared, Unbegun, recvVars

LEMMA CloseReceiverKeeps == ASSUME FInv, CloseReceiver, TypeOK' PROVE FInv'
<1>1. /\ recvOpen' = FALSE /\ recvBuff' = <<>> /\ wire' = <<>>
      /\ UNCHANGED <<sendVars, ahead, body, disposed>>
  BY DEF CloseReceiver
<1> QED BY <1>1 DEF FInv, Cleared, Unbegun, Readable, Waiting, sendVars

LEMMA InitFramed == Init => FInv
<1> SUFFICES ASSUME Init PROVE FInv
  OBVIOUS
<1>1. TypeOK /\ Init
  BY InitTyped
<1>2. (<<>> \o <<>>) \o <<>> = <<>>
  BY NothingFramed, ConcatEmptySeq
<1>3. Stream = (<<>> \o <<>>) \o <<>>
  BY DEF Init, Stream
<1>4. Stream = <<>>
  BY <1>2, <1>3
<1>5. Readable /\ Waiting
  BY <1>4, NothingFramed DEF Readable, Waiting, Init
<1> QED BY <1>1, <1>5 DEF FInv, Cleared, Unbegun, Init

LEMMA StepFramed == ASSUME Receiver = "worker" PROVE FInv /\ [Next]_vars => FInv'
<1> SUFFICES ASSUME FInv, [Next]_vars PROVE FInv'
  OBVIOUS
<1>0. TypeOK'
  BY StepTyped DEF FInv
<1>1. ASSUME NEW m \in Message, AutoSend(m) \/ SendTo(m) \/ Reply(m) PROVE FInv'
  BY <1>0, <1>1, AutoSendKeeps, SendToKeeps, ReplyKeeps
<1>2. CASE Write
  BY <1>0, <1>2, FirstIoWriteKeeps, IoWriteKeeps, ReadyKeeps DEF Write
<1>3. CASE ReadFD \/ Decode
  BY <1>0, <1>3, ReadKeeps, DecodeKeeps
<1>4. CASE CloseSender \/ CloseReceiver
  BY <1>0, <1>4, CloseSenderKeeps, CloseReceiverKeeps
<1>5. CASE UNCHANGED vars
  <2>1. Stream' = Stream
    BY <1>5 DEF Stream, vars
  <2> QED BY <1>0, <1>5, <2>1 DEF FInv, Cleared, Unbegun, Readable, Waiting, vars
<1> QED BY <1>1, <1>2, <1>3, <1>4, <1>5 DEF Next

LEMMA FramedNow == FInv => Framed
<1> SUFFICES ASSUME FInv, recvBuff # <<>> PROVE recvBuff[1][2] = 0
  BY DEF Framed, FInv
<1>0. recvBuff \in Seq(Unit) /\ wire \in Seq(Unit) /\ sendBuff \in Seq(Unit)
  BY DEF FInv, TypeOK
<1>1. recvOpen
  BY DEF FInv, Cleared
<1>2. PICK q \in Seq(Unit) : q = recvBuff \o wire
  BY StreamTypedNow DEF FInv
<1>3. Frames(q)
  <2>1. Frames(q \o sendBuff)
    BY <1>1, <1>2 DEF FInv, Readable, Stream
  <2> QED BY <1>0, <2>1, PrefixFrames
<1>4. Frames(recvBuff)
  BY <1>0, <1>2, <1>3, PrefixFrames
<1> QED BY <1>4 DEF Frames, Heads

\* A worker finds the head of every message where the one before it ended,
\* however writes and reads were cut short.
THEOREM WorkerKeepsFrames == ASSUME Receiver = "worker" PROVE Spec => []Framed
<1>1. Spec => []FInv
  BY InitFramed, StepFramed, PTL DEF Spec
<1> QED BY <1>1, FramedNow, PTL

-----------------------------------------------------------------------------
(* The write event.                                                        *)

\* Before the handshake nothing has been written.
Begins == stage \in {"none", "connecting"} => sendBuff = <<>>

LEMMA StepBegins == TypeOK /\ Begins /\ [Next]_vars => Begins'
<1> SUFFICES ASSUME TypeOK, Begins, [Next]_vars PROVE Begins'
  OBVIOUS
<1>1. ASSUME NEW m \in Message, AutoSend(m) \/ SendTo(m) \/ Reply(m) PROVE Begins'
  BY <1>1 DEF Begins, AutoSend, SendTo, Reply
<1>2. CASE FirstIoWrite \/ Ready
  BY <1>2 DEF Begins, FirstIoWrite, Ready
<1>3. CASE IoWrite
  BY <1>3 DEF Begins, IoWrite
<1>4. CASE ReadFD \/ Decode \/ CloseReceiver
  BY <1>4 DEF Begins, ReadFD, Decode, CloseReceiver, sendVars
<1>5. CASE CloseSender
  BY <1>5 DEF Begins, CloseSender, DestroySender
<1>6. CASE UNCHANGED vars
  BY <1>6 DEF Begins, vars
<1> QED BY <1>1, <1>2, <1>3, <1>4, <1>5, <1>6 DEF Next, Write

LEMMA EventsServe ==
    ASSUME TypeOK, Begins, [Next]_vars, Unserved', ~ Unserved
    PROVE  \E m \in Message : Reply(m)
<1> SUFFICES ASSUME \A m \in Message : ~ Reply(m) PROVE FALSE
  OBVIOUS
<1>0. sendBuff \in Seq(Unit) /\ waitBuff \in Seq(Unit) /\ watched \in BOOLEAN
  BY DEF TypeOK
<1>1. ASSUME NEW buf \in Seq(Unit), NEW wait \in Seq(Unit), Flush(buf, wait) PROVE FALSE
  <2>1. watched' = (sendBuff' # <<>>)
    BY <1>1, Flushed
  <2> QED BY <2>1 DEF Unserved
<1>2. ASSUME NEW m \in Message, AutoSend(m) \/ SendTo(m) PROVE FALSE
  <2>1. Units(m) \in Seq(Unit)
    BY UnitsFramed DEF AnyMessage
  <2>2. sendBuff \o Units(m) \in Seq(Unit)
    BY <1>0, <2>1, Joined
  <2>3. CASE AutoSend(m)
    BY <2>3 DEF AutoSend, Unserved
  <2>4. CASE SendTo(m)
    <3>1. CASE stage = "ready"
      BY <1>0, <1>1, <2>2, <2>4, <3>1 DEF SendTo
    <3>2. CASE stage # "ready"
      BY <2>4, <3>2 DEF SendTo, Unserved
    <3> QED BY <3>1, <3>2
  <2> QED BY <1>2, <2>3, <2>4
<1>3. CASE FirstIoWrite
  <2>1. sendBuff = <<>> /\ sendBuff' = <<>> /\ watched' = FALSE
    BY <1>3 DEF FirstIoWrite, Begins
  <2> QED BY <2>1 DEF Unserved
<1>4. CASE IoWrite
  BY <1>0, <1>1, <1>4 DEF IoWrite
<1>5. CASE Ready
  <2>1. sendBuff \o waitBuff \in Seq(Unit) /\ <<>> \in Seq(Unit)
    BY <1>0, Joined, NothingFramed
  <2> QED BY <1>1, <1>5, <2>1 DEF Ready
<1>6. CASE ReadFD \/ Decode \/ CloseReceiver
  BY <1>6 DEF Unserved, ReadFD, Decode, CloseReceiver, sendVars
<1>7. CASE CloseSender
  <2>1. sendBuff' = <<>> /\ watched' = FALSE
    BY <1>7 DEF CloseSender, DestroySender
  <2> QED BY <2>1 DEF Unserved
<1>8. CASE UNCHANGED vars
  BY <1>8 DEF Unserved, vars
<1> QED BY <1>2, <1>3, <1>4, <1>5, <1>6, <1>7, <1>8 DEF Next, Write

\* The write event is set exactly while pSendBuff holds something, for either
\* receiver, until the reading loop answers by itself.
THEOREM EventsServeBuffers == Spec => ServedByEvents
<1>1. Init => Begins
  BY DEF Init, Begins
<1>2. Spec => [](TypeOK /\ Begins)
  BY <1>1, InitTyped, StepTyped, StepBegins, PTL DEF Spec
<1>3. TypeOK /\ Begins /\ [Next]_vars => [Unserved' => Unserved \/ \E m \in Message : Reply(m)]_vars
  BY EventsServe
<1> QED BY <1>2, <1>3, PTL DEF Spec, ServedByEvents

-----------------------------------------------------------------------------
(* Selections.                                                             *)

\* What holds of 0, and of a number when it does of the one below, holds up to n.
LEMMA UpTo ==
    ASSUME NEW n \in Nat, NEW A, 0 \in A, \A k \in 0 .. n : k # n /\ k \in A => k + 1 \in A
    PROVE  \A k \in 0 .. n : k \in A
<1> DEFINE Below == {p \in Nat \X Nat : p[1] < p[2]}
           Bad == {k \in 0 .. n : k \notin A}
<1>1. IsWellFoundedOn(Below, Nat)
  BY NatLessThanWellFounded DEF OpToRel
<1>2. Bad \subseteq Nat
  OBVIOUS
<1>3. ASSUME Bad # {} PROVE FALSE
  <2>1. PICK b \in Bad : \A a \in Bad : ~ (<<a, b>> \in Below)
    <3> HIDE DEF Below, Bad
    <3>1. QED BY <1>1, <1>2, <1>3, WFMin
  <2>2. b \in 1 .. n /\ b - 1 \in 0 .. n /\ b - 1 # n
    OBVIOUS
  <2>3. b - 1 \in A
    <3>1. <<b - 1, b>> \in Below
      BY <2>2
    <3>2. b - 1 \notin Bad
      BY <2>1, <3>1
    <3>3. QED BY <2>2, <3>2
  <2>4. b - 1 + 1 \in A
    BY <2>2, <2>3
  <2>5. QED BY <2>2, <2>4
<1>4. QED BY <1>3

\* g selects among the first k elements of s.
Selects(g, s, T, k) ==
    /\ g[0] = <<>>
    /\ \A i \in 1 .. k : g[i] = IF s[i] \in T THEN Append(g[i - 1], s[i]) ELSE g[i - 1]

LEMMA SelectsMore ==
    ASSUME NEW S, NEW T, NEW s \in Seq(S), NEW k \in 0 .. Len(s), k # Len(s),
           NEW g \in [0 .. k -> Seq(S)], Selects(g, s, T, k)
    PROVE  \E h \in [0 .. k + 1 -> Seq(S)] : Selects(h, s, T, k + 1)
<1> DEFINE new == IF s[k + 1] \in T THEN Append(g[k], s[k + 1]) ELSE g[k]
           h == [i \in 0 .. k + 1 |-> IF i = k + 1 THEN new ELSE g[i]]
<1>1. k \in Nat /\ k + 1 \in 1 .. Len(s)
  BY LenProperties
<1>2. s[k + 1] \in S /\ g[k] \in Seq(S)
  BY <1>1, ElementOfSeq
<1>3. new \in Seq(S)
  BY <1>2
<1> HIDE DEF new
<1>4. h \in [0 .. k + 1 -> Seq(S)] /\ h[k + 1] = new /\ \A i \in 0 .. k : h[i] = g[i]
  BY <1>1, <1>3
<1> HIDE DEF h
<1>5. h[0] = <<>>
  BY <1>1, <1>4 DEF Selects
<1>6. ASSUME NEW i \in 1 .. k + 1
      PROVE  h[i] = IF s[i] \in T THEN Append(h[i - 1], s[i]) ELSE h[i - 1]
  <2>1. CASE i = k + 1
    <3>1. i - 1 = k /\ k \in 0 .. k
      BY <1>1, <2>1
    <3>2. QED BY <1>4, <2>1, <3>1 DEF new
  <2>2. CASE i \in 1 .. k
    <3>1. i \in 0 .. k /\ i - 1 \in 0 .. k
      BY <1>1, <2>2
    <3>2. QED BY <1>4, <2>2, <3>1 DEF Selects
  <2>3. QED BY <1>1, <2>1, <2>2
<1>7. QED BY <1>4, <1>5, <1>6 DEF Selects

LEMMA SelectsAll ==
    ASSUME NEW S, NEW T, NEW s \in Seq(S)
    PROVE  \E g \in [0 .. Len(s) -> Seq(S)] : Selects(g, s, T, Len(s))
<1> DEFINE n == Len(s)
           A == {k \in 0 .. n : \E g \in [0 .. k -> Seq(S)] : Selects(g, s, T, k)}
<1>1. n \in Nat /\ n \in 0 .. n /\ 0 \in 0 .. n
  BY LenProperties
<1>2. 0 \in A
  <2> DEFINE g == [i \in 0 .. 0 |-> <<>>]
  <2>1. g \in [0 .. 0 -> Seq(S)] /\ g[0] = <<>>
    OBVIOUS
  <2> HIDE DEF g
  <2>2. Selects(g, s, T, 0)
    BY <2>1 DEF Selects
  <2>3. QED BY <1>1, <2>1, <2>2
<1>3. ASSUME NEW k \in 0 .. n, k # n, k \in A PROVE k + 1 \in A
  <2>1. PICK g \in [0 .. k -> Seq(S)] : Selects(g, s, T, k)
    BY <1>3
  <2>2. \E h \in [0 .. k + 1 -> Seq(S)] : Selects(h, s, T, k + 1)
    BY <1>3, <2>1, SelectsMore
  <2>3. k + 1 \in 0 .. n
    BY <1>1, <1>3
  <2>4. QED BY <2>2, <2>3
<1>4. n \in A
  <2> HIDE DEF A, n
  <2>1. QED BY <1>1, <1>2, <1>3, UpTo
<1>5. QED BY <1>4

SelectStep(g, s, T) ==
    [i \in 0 .. Len(s) |->
        IF i = 0 THEN <<>> ELSE IF s[i] \in T THEN Append(g[i - 1], s[i]) ELSE g[i - 1]]

LEMMA ChosenStep ==
    ASSUME NEW S, NEW T, NEW s \in Seq(S)
    PROVE  /\ ChosenSoFar(s, T) \in [0 .. Len(s) -> Seq(S)]
           /\ Selects(ChosenSoFar(s, T), s, T, Len(s))
<1> DEFINE n == Len(s)  f == ChosenSoFar(s, T)
<1>1. n \in Nat
  BY LenProperties
<1>2. PICK g \in [0 .. n -> Seq(S)] : Selects(g, s, T, n)
  BY SelectsAll
<1>3. g = SelectStep(g, s, T)
  <2>1. \A i \in 0 .. n : i = 0 \/ i \in 1 .. n
    BY <1>1
  <2>2. \A i \in 0 .. n : g[i] = SelectStep(g, s, T)[i]
    BY <1>2, <2>1 DEF Selects, SelectStep
  <2>3. QED BY <1>2, <2>2 DEF SelectStep
<1>4. f = CHOOSE e : e = SelectStep(e, s, T)
  BY DEF ChosenSoFar, SelectStep
<1> HIDE DEF f
<1>5. f = SelectStep(f, s, T)
  <2>1. \E e : e = SelectStep(e, s, T)
    BY <1>3
  <2>2. QED BY <1>4, <2>1, Zenon
<1>6. Selects(f, s, T, n)
  <2>1. f[0] = <<>>
    BY <1>1, <1>5 DEF SelectStep
  <2>2. ASSUME NEW i \in 1 .. n
        PROVE  f[i] = IF s[i] \in T THEN Append(f[i - 1], s[i]) ELSE f[i - 1]
    <3>1. i \in 0 .. n /\ i # 0
      BY <1>1
    <3>2. f[i] = SelectStep(f, s, T)[i]
      BY <1>5
    <3>3. SelectStep(f, s, T)[i] = IF s[i] \in T THEN Append(f[i - 1], s[i]) ELSE f[i - 1]
      BY <3>1 DEF SelectStep
    <3>4. QED BY <3>2, <3>3
  <2>3. QED BY <2>1, <2>2 DEF Selects
<1>7. \A k \in 0 .. n : f[k] \in Seq(S)
  <2> DEFINE B == {i \in 0 .. n : f[i] \in Seq(S)}
  <2>1. f[0] = <<>> /\ 0 \in 0 .. n /\ <<>> \in Seq(S)
    BY <1>1, <1>6 DEF Selects
  <2>2. ASSUME NEW k \in 0 .. n, k # n, k \in B PROVE k + 1 \in B
    <3>1. k + 1 \in 1 .. n /\ k + 1 - 1 = k /\ f[k] \in Seq(S)
      BY <1>1, <2>2
    <3>2. s[k + 1] \in S
      BY <3>1, ElementOfSeq
    <3>3. Append(f[k], s[k + 1]) \in Seq(S)
      BY <3>1, <3>2
    <3>4. f[k + 1] = IF s[k + 1] \in T THEN Append(f[k], s[k + 1]) ELSE f[k]
      BY <1>6, <3>1 DEF Selects
    <3>5. f[k + 1] \in Seq(S)
      <4> HIDE DEF f
      <4>1. QED BY <3>1, <3>3, <3>4
    <3>6. QED BY <1>1, <3>1, <3>5
  <2>3. 0 \in B
    BY <2>1
  <2>4. \A k \in 0 .. n : k \in B
    <3> HIDE DEF B, n
    <3>1. QED BY <1>1, <2>3, <2>2, UpTo
  <2>5. QED BY <2>4
<1>8. f \in [0 .. n -> Seq(S)]
  <2>1. f = [i \in 0 .. n |-> f[i]]
    BY <1>5 DEF SelectStep
  <2>2. QED BY <1>7, <2>1
<1>9. QED BY <1>6, <1>8 DEF f

LEMMA AppendJoined ==
    ASSUME NEW S, NEW s \in Seq(S), NEW u \in Seq(S), NEW m \in S
    PROVE  s \o Append(u, m) = Append(s \o u, m)
<1>1. <<m>> \in Seq(S) /\ s \o u \in Seq(S)
  BY ConcatProperties
<1>2. Append(u, m) = u \o <<m>>
  OBVIOUS
<1>3. Append(s \o u, m) = (s \o u) \o <<m>>
  BY <1>1
<1>4. QED BY <1>1, <1>2, <1>3, ConcatAssociative

LEMMA ChosenType ==
    ASSUME NEW S, NEW T, NEW s \in Seq(S)
    PROVE  Chosen(s, T) \in Seq(S)
<1>1. Len(s) \in 0 .. Len(s)
  BY LenProperties
<1>2. QED BY <1>1, ChosenStep DEF Chosen

LEMMA ChosenJoined ==
    ASSUME NEW S, NEW T, NEW s \in Seq(S), NEW u \in Seq(S)
    PROVE  Chosen(s \o u, T) = Chosen(s, T) \o Chosen(u, T)
<1> DEFINE t == s \o u  n == Len(s)  k == Len(u)
           f == ChosenSoFar(s, T)  g == ChosenSoFar(u, T)  h == ChosenSoFar(t, T)
<1>1. /\ t \in Seq(S) /\ Len(t) = n + k /\ n \in Nat /\ k \in Nat
      /\ \A i \in 1 .. n + k : t[i] = IF i <= n THEN s[i] ELSE u[i - n]
  BY ConcatProperties, LenProperties
<1> HIDE DEF t
<1>2. /\ f \in [0 .. n -> Seq(S)] /\ Selects(f, s, T, n)
      /\ g \in [0 .. k -> Seq(S)] /\ Selects(g, u, T, k)
      /\ h \in [0 .. n + k -> Seq(S)] /\ Selects(h, t, T, n + k)
  <2>1. f \in [0 .. n -> Seq(S)] /\ Selects(f, s, T, n)
    BY ChosenStep
  <2>2. g \in [0 .. k -> Seq(S)] /\ Selects(g, u, T, k)
    BY ChosenStep
  <2>3. h \in [0 .. Len(t) -> Seq(S)] /\ Selects(h, t, T, Len(t))
    BY <1>1, ChosenStep
  <2>4. QED BY <1>1, <2>1, <2>2, <2>3
<1> HIDE DEF n, k, f, g, h
<1>3. \A i \in 0 .. n : h[i] = f[i]
  <2> DEFINE A == {i \in 0 .. n : h[i] = f[i]}
  <2>1. 0 \in A
    BY <1>1, <1>2 DEF Selects
  <2>2. ASSUME NEW i \in 0 .. n, i # n, i \in A PROVE i + 1 \in A
    <3>1. /\ i + 1 \in 1 .. n /\ i + 1 \in 1 .. n + k /\ i + 1 - 1 = i /\ i + 1 <= n
          /\ h[i] = f[i]
      BY <1>1, <2>2
    <3>2. t[i + 1] = s[i + 1]
      BY <1>1, <3>1
    <3>3. f[i + 1] = IF s[i + 1] \in T THEN Append(f[i], s[i + 1]) ELSE f[i]
      BY <1>2, <3>1 DEF Selects
    <3>4. h[i + 1] = IF t[i + 1] \in T THEN Append(h[i], t[i + 1]) ELSE h[i]
      BY <1>2, <3>1 DEF Selects
    <3>5. QED BY <3>1, <3>2, <3>3, <3>4
  <2>3. \A i \in 0 .. n : i \in A
    <3> HIDE DEF A
    <3>1. QED BY <1>1, <2>1, <2>2, UpTo
  <2>4. QED BY <2>3
<1>4. \A j \in 0 .. k : h[n + j] = f[n] \o g[j]
  <2> DEFINE A == {j \in 0 .. k : h[n + j] = f[n] \o g[j]}
  <2>0. n \in 0 .. n /\ f[n] \in Seq(S) /\ n + 0 = n
    BY <1>1, <1>2
  <2>1. 0 \in A
    <3>1. g[0] = <<>> /\ h[n] = f[n]
      BY <1>2, <1>3, <2>0 DEF Selects
    <3>2. f[n] \o <<>> = f[n]
      BY <2>0
    <3>3. h[n + 0] = f[n] \o g[0]
      BY <2>0, <3>1, <3>2
    <3>4. 0 \in 0 .. k
      BY <1>1
    <3>5. QED BY <3>3, <3>4
  <2>2. ASSUME NEW j \in 0 .. k, j # k, j \in A PROVE j + 1 \in A
    <3> DEFINE p == n + (j + 1)
    <3>1. /\ j + 1 \in 1 .. k /\ p \in 1 .. n + k /\ j + 1 - 1 = j
          /\ p - 1 = n + j /\ ~(p <= n) /\ p - n = j + 1
      BY <1>1, <2>2
    <3>0. h[n + j] = f[n] \o g[j]
      BY <2>2
    <3> HIDE DEF p
    <3>2. t[p] = u[j + 1]
      BY <1>1, <3>1
    <3>3. g[j + 1] = IF u[j + 1] \in T THEN Append(g[j], u[j + 1]) ELSE g[j]
      BY <1>2, <3>1 DEF Selects
    <3>4. h[p] = IF t[p] \in T THEN Append(h[n + j], t[p]) ELSE h[n + j]
      BY <1>2, <3>1 DEF Selects
    <3>5. g[j] \in Seq(S) /\ u[j + 1] \in S
      <4>1. g[j] \in Seq(S)
        BY <1>2
      <4>2. u[j + 1] \in S
        BY <3>1, ElementOfSeq DEF k
      <4>3. QED BY <4>1, <4>2
    <3>6. f[n] \o Append(g[j], u[j + 1]) = Append(f[n] \o g[j], u[j + 1])
      <4> DEFINE a == f[n]  b == g[j]  m == u[j + 1]
      <4>1. a \in Seq(S) /\ b \in Seq(S) /\ m \in S
        BY <2>0, <3>5
      <4> HIDE DEF a, b, m
      <4>2. a \o Append(b, m) = Append(a \o b, m)
        BY <4>1, AppendJoined
      <4>3. QED BY <4>2 DEF a, b, m
    <3>7. h[p] = f[n] \o g[j + 1]
      BY <3>0, <3>2, <3>3, <3>4, <3>6
    <3>8. j + 1 \in 0 .. k /\ h[n + (j + 1)] = f[n] \o g[j + 1]
      BY <1>1, <2>2, <3>7 DEF p
    <3>9. QED BY <3>8
  <2>3. \A j \in 0 .. k : j \in A
    <3> HIDE DEF A
    <3>1. QED BY <1>1, <2>1, <2>2, UpTo
  <2>4. QED BY <2>3
<1>5. h[n + k] = f[n] \o g[k]
  <2>1. k \in 0 .. k
    BY <1>1
  <2>2. QED BY <1>4, <2>1
<1>6. QED BY <1>1, <1>5 DEF Chosen, t, n, k, f, g, h

LEMMA ChosenShort ==
    ASSUME NEW S, NEW T
    PROVE  /\ Chosen(<<>>, T) = <<>>
           /\ \A m \in S : /\ <<m>> \in Seq(S)
                           /\ Chosen(<<m>>, T) = IF m \in T THEN <<m>> ELSE <<>>
<1>1. Chosen(<<>>, T) = <<>>
  <2>1. <<>> \in Seq(S) /\ Len(<<>>) = 0
    OBVIOUS
  <2>2. Selects(ChosenSoFar(<<>>, T), <<>>, T, 0)
    BY <2>1, ChosenStep
  <2>3. QED BY <2>1, <2>2 DEF Selects, Chosen
<1>2. ASSUME NEW m \in S
      PROVE  <<m>> \in Seq(S) /\ Chosen(<<m>>, T) = IF m \in T THEN <<m>> ELSE <<>>
  <2> DEFINE s == <<m>>  f == ChosenSoFar(s, T)
  <2>1. s \in Seq(S) /\ Len(s) = 1 /\ s[1] = m /\ 1 \in 1 .. 1 /\ 1 - 1 = 0
    OBVIOUS
  <2>2. Append(<<>>, m) = <<m>>
    OBVIOUS
  <2> HIDE DEF s
  <2>3. Selects(f, s, T, 1)
    BY <2>1, ChosenStep
  <2> HIDE DEF f
  <2>4. f[0] = <<>> /\ f[1] = IF m \in T THEN Append(f[0], m) ELSE f[0]
    BY <2>1, <2>3 DEF Selects
  <2>5. f[1] = IF m \in T THEN <<m>> ELSE <<>>
    BY <2>2, <2>4
  <2>6. QED BY <2>1, <2>5 DEF Chosen, f, s
<1>3. QED BY <1>1, <1>2

LEMMA ChosenNone ==
    ASSUME NEW S, NEW T, NEW s \in Seq(S), \A i \in 1 .. Len(s) : s[i] \notin T
    PROVE  Chosen(s, T) = <<>>
<1> DEFINE n == Len(s)  f == ChosenSoFar(s, T)  A == {i \in 0 .. n : f[i] = <<>>}
<1>1. n \in Nat
  BY LenProperties
<1>2. Selects(f, s, T, n)
  BY ChosenStep
<1> HIDE DEF f
<1>3. 0 \in A
  BY <1>1, <1>2 DEF Selects
<1>4. ASSUME NEW i \in 0 .. n, i # n, i \in A PROVE i + 1 \in A
  <2>1. i + 1 \in 1 .. n /\ i + 1 - 1 = i /\ s[i + 1] \notin T /\ f[i] = <<>>
    BY <1>1, <1>4
  <2>2. f[i + 1] = f[i]
    BY <1>2, <2>1 DEF Selects
  <2>3. QED BY <1>1, <2>1, <2>2
<1>5. \A i \in 0 .. n : i \in A
  <2> HIDE DEF A, n
  <2>1. QED BY <1>1, <1>3, <1>4, UpTo
<1>6. n \in 0 .. n
  BY <1>1
<1>7. f[n] = <<>>
  BY <1>5, <1>6
<1>8. QED BY <1>7 DEF Chosen, f

-----------------------------------------------------------------------------
(* The messages that end in a stream.                                      *)

LEMMA IdsType ==
    ASSUME NEW s \in Seq(Unit)
    PROVE  /\ Ids(s) \in Seq(AnyMessage) /\ Len(Ids(s)) = Len(s) /\ Len(s) \in Nat
           /\ \A i \in 1 .. Len(s) : Ids(s)[i] = s[i][1]
<1>1. Len(s) \in Nat /\ \A i \in 1 .. Len(s) : s[i] \in Unit
  BY LenProperties, ElementOfSeq
<1>2. \A i \in 1 .. Len(s) : s[i][1] \in AnyMessage
  BY <1>1, UnitFacts
<1>3. QED BY <1>1, <1>2 DEF Ids

LEMMA IdsOfJoined ==
    ASSUME NEW s \in Seq(Unit), NEW u \in Seq(Unit)
    PROVE  Ids(s \o u) = Ids(s) \o Ids(u)
<1> DEFINE t == s \o u  a == Ids(s)  b == Ids(u)  e == Ids(t)
<1>1. /\ t \in Seq(Unit) /\ Len(t) = Len(s) + Len(u)
      /\ \A i \in 1 .. Len(s) + Len(u) : t[i] = IF i <= Len(s) THEN s[i] ELSE u[i - Len(s)]
  BY ConcatProperties
<1> HIDE DEF t
<1>2. /\ a \in Seq(AnyMessage) /\ Len(a) = Len(s) /\ Len(s) \in Nat
      /\ \A i \in 1 .. Len(s) : a[i] = s[i][1]
  BY IdsType
<1>3. /\ b \in Seq(AnyMessage) /\ Len(b) = Len(u) /\ Len(u) \in Nat
      /\ \A i \in 1 .. Len(u) : b[i] = u[i][1]
  BY IdsType
<1>4. /\ e \in Seq(AnyMessage) /\ Len(e) = Len(t)
      /\ \A i \in 1 .. Len(t) : e[i] = t[i][1]
  BY <1>1, IdsType
<1> HIDE DEF a, b, e
<1>5. /\ a \o b \in Seq(AnyMessage) /\ Len(a \o b) = Len(a) + Len(b)
      /\ \A i \in 1 .. Len(a) + Len(b) : (a \o b)[i] = IF i <= Len(a) THEN a[i] ELSE b[i - Len(a)]
  <2>1. a \in Seq(AnyMessage) /\ b \in Seq(AnyMessage)
    BY <1>2, <1>3
  <2>2. QED BY <2>1, ConcatProperties
<1>6. ASSUME NEW i \in 1 .. Len(e) PROVE e[i] = (a \o b)[i]
  <2>1. i \in 1 .. Len(s) + Len(u) /\ e[i] = t[i][1]
    BY <1>1, <1>4
  <2>2. CASE i <= Len(s)
    <3>1. i \in 1 .. Len(s) /\ t[i] = s[i]
      BY <1>1, <1>2, <1>3, <2>1, <2>2
    <3>2. a[i] = s[i][1] /\ (a \o b)[i] = a[i]
      BY <1>2, <1>3, <1>5, <2>1, <2>2, <3>1
    <3>3. QED BY <2>1, <3>1, <3>2
  <2>3. CASE ~(i <= Len(s))
    <3>0. i - Len(s) \in 1 .. Len(u)
      BY <1>2, <1>3, <2>1, <2>3
    <3>1. t[i] = u[i - Len(s)]
      BY <1>1, <2>1, <2>3
    <3>2. b[i - Len(s)] = u[i - Len(s)][1]
      BY <1>3, <3>0
    <3>3. i \in 1 .. Len(a) + Len(b) /\ ~(i <= Len(a)) /\ i - Len(a) = i - Len(s)
      BY <1>2, <1>3, <2>1, <2>3
    <3>4. (a \o b)[i] = b[i - Len(s)]
      BY <1>5, <3>3
    <3>5. QED BY <2>1, <3>1, <3>2, <3>4
  <2>4. QED BY <2>2, <2>3
<1>7. e = a \o b
  <2>1. Len(e) = Len(a \o b)
    BY <1>1, <1>2, <1>3, <1>4, <1>5
  <2>2. QED BY <1>4, <1>5, <1>6, <2>1, SeqEqual
<1>8. QED BY <1>7 DEF a, b, e, t

LEMMA EndsType ==
    ASSUME NEW s \in Seq(Unit) PROVE Ends(s) \in Seq(AnyMessage)
BY ChosenType, IdsType DEF Ends

LEMMA EndsJoined ==
    ASSUME NEW s \in Seq(Unit), NEW u \in Seq(Unit)
    PROVE  Ends(s \o u) = Ends(s) \o Ends(u)
<1> DEFINE a == Chosen(s, EndUnits)  b == Chosen(u, EndUnits)
<1>1. a \in Seq(Unit) /\ b \in Seq(Unit) /\ Chosen(s \o u, EndUnits) = a \o b
  BY ChosenType, ChosenJoined
<1> HIDE DEF a, b
<1>2. Ids(a \o b) = Ids(a) \o Ids(b)
  BY <1>1, IdsOfJoined
<1>3. QED BY <1>1, <1>2 DEF Ends, a, b

LEMMA EndsOfNothing == Ends(<<>>) = <<>>
<1>1. Chosen(<<>>, EndUnits) = <<>>
  BY ChosenShort
<1>2. QED BY <1>1 DEF Ends, Ids

\* A message ends once in its units, at the last of them.
LEMMA EndsOfUnits == \A m \in Message : Ends(Units(m)) = <<m>>
<1> TAKE m \in Message
<1>0. m \in AnyMessage /\ Body[m] \in Nat
  BY BodyAssumption DEF AnyMessage
<1> DEFINE s == Units(m)  n == Body[m]  u == <<m, n>>
           p == SubSeq(s, 1, n)  d == Drop(s, n)
<1>1. /\ s \in Seq(Unit) /\ Len(s) = n + 1
      /\ \A i \in 1 .. n + 1 : s[i] = <<m, i - 1>>
  BY <1>0, UnitsFramed DEF Units
<1> HIDE DEF s
<1>2. n \in 0 .. Len(s) /\ n \in Nat
  BY <1>0, <1>1
<1>3. /\ p \in Seq(Unit) /\ Len(p) = n /\ p \o d = s
      /\ d \in Seq(Unit) /\ Len(d) = 1 /\ d[1] = s[n + 1]
  <2>1. p \in Seq(Unit) /\ Len(p) = n /\ p \o d = s
    BY <1>1, <1>2, Cut
  <2>2. /\ d \in Seq(Unit) /\ Len(d) = Len(s) - n
        /\ \A i \in 1 .. Len(s) - n : d[i] = s[i + n]
    BY <1>1, <1>2, Dropped
  <2>3. Len(s) - n = 1 /\ 1 \in 1 .. 1 /\ 1 + n = n + 1
    BY <1>1, <1>2
  <2>4. QED BY <2>1, <2>2, <2>3
<1>4. \A i \in 1 .. n : p[i] = <<m, i - 1>>
  <2> TAKE i \in 1 .. n
  <2>1. p \o d = s /\ i \in 1 .. Len(p)
    BY <1>3
  <2>2. (p \o d)[i] = p[i]
    BY <1>3, <2>1, Joined
  <2>3. QED BY <1>1, <1>2, <2>1, <2>2
<1>5. u \in Unit /\ u \in EndUnits
  BY <1>0 DEF Unit, EndUnits
<1>6. d = <<u>>
  <2>1. s[n + 1] = u
    BY <1>1, <1>2
  <2> DEFINE e == <<u>>
  <2>2. e \in Seq(Unit) /\ Len(e) = 1 /\ e[1] = u
    BY <1>5
  <2> HIDE DEF d, e, u, n
  <2>3. \A i \in 1 .. Len(d) : d[i] = e[i]
    BY <1>3, <2>1, <2>2
  <2>4. QED BY <1>3, <2>2, <2>3, SeqEqual DEF e
<1>7. \A i \in 1 .. Len(p) : p[i] \notin EndUnits
  <2> SUFFICES ASSUME NEW i \in 1 .. Len(p), NEW k \in Message, p[i] = <<k, Body[k]>> PROVE FALSE
    BY DEF EndUnits
  <2>1. i \in 1 .. n /\ p[i] = <<m, i - 1>>
    BY <1>3, <1>4
  <2>2. k = m /\ i - 1 = n
    <3>1. <<k, Body[k]>> = <<m, i - 1>>
      BY <2>1
    <3>2. k = m /\ Body[k] = i - 1
      BY <3>1, Zenon
    <3>3. QED BY <3>2
  <2>3. QED BY <1>2, <2>1, <2>2
<1> HIDE DEF p, d, n, u
<1>8. Chosen(p, EndUnits) = <<>>
  BY <1>3, <1>7, ChosenNone
<1>9. Chosen(<<u>>, EndUnits) = <<u>> /\ <<u>> \in Seq(Unit)
  BY <1>5, ChosenShort
<1>10. Chosen(s, EndUnits) = <<u>>
  <2>1. Chosen(p \o d, EndUnits) = Chosen(p, EndUnits) \o Chosen(d, EndUnits)
    BY <1>3, ChosenJoined
  <2>2. <<>> \o <<u>> = <<u>>
    BY <1>9, ConcatEmptySeq
  <2>3. QED BY <1>3, <1>6, <1>8, <1>9, <2>1, <2>2
<1>11. Ids(<<u>>) = <<m>>
  <2> DEFINE t == <<u>>  a == Ids(t)  b == <<m>>
  <2>1. t \in Seq(Unit) /\ Len(t) = 1 /\ t[1] = u /\ u[1] = m
    BY <1>5 DEF u
  <2> HIDE DEF t
  <2>2. a \in Seq(AnyMessage) /\ Len(a) = 1 /\ a[1] = m
    <3>1. 1 \in 1 .. Len(t)
      BY <2>1
    <3>2. QED BY <2>1, <3>1, IdsType
  <2>3. b \in Seq(AnyMessage) /\ Len(b) = 1 /\ b[1] = m
    BY <1>0
  <2> HIDE DEF a, b
  <2>4. \A i \in 1 .. Len(a) : a[i] = b[i]
    BY <2>2, <2>3
  <2>5. QED BY <2>2, <2>3, <2>4, SeqEqual DEF a, b, t
<1>12. QED BY <1>10, <1>11 DEF Ends, s

\* The handshake is none of them.
LEMMA EndsOfHello == Ends(Units(Hello)) = <<>>
<1>1. Units(Hello) \in Seq(Unit) /\ Len(Units(Hello)) = Body[Hello] + 1
  BY UnitsFramed DEF AnyMessage
<1>2. \A i \in 1 .. Body[Hello] + 1 : Units(Hello)[i] = <<Hello, i - 1>>
  BY DEF Units
<1>3. \A i \in 1 .. Len(Units(Hello)) : Units(Hello)[i] \notin EndUnits
  BY <1>1, <1>2, HelloAssumption DEF EndUnits
<1>4. Chosen(Units(Hello), EndUnits) = <<>>
  BY <1>1, <1>3, ChosenNone
<1>5. QED BY <1>4 DEF Ends, Ids

-----------------------------------------------------------------------------
(* What a step does to the messages under way, as OrderedLink has it.      *)

\* All of a queue remains, or nothing when its front may go.
LEMMA AllRemains ==
    ASSUME NEW s \in Seq(AnyMessage), NEW front, NEW back PROVE Link!Remains(s, s, front, back)
<1>1. Len(s) \in Nat /\ SubSeq(s, 1, Len(s)) = s
  BY LenProperties, SubSeqFull
<1>2. 1 \in 1 .. Len(s) + 1 /\ Len(s) \in 0 .. Len(s)
  BY <1>1
<1>3. QED BY <1>1, <1>2 DEF Link!Remains

LEMMA NothingRemains ==
    ASSUME NEW s \in Seq(AnyMessage), NEW back PROVE Link!Remains(<<>>, s, TRUE, back)
<1>1. Len(s) \in Nat
  BY LenProperties
<1>2. /\ Len(s) + 1 \in 1 .. Len(s) + 1 /\ Len(s) \in 0 .. Len(s)
      /\ Len(s) + 1 \in Int /\ Len(s) \in Int /\ Len(s) < Len(s) + 1
  BY <1>1
<1>3. SubSeq(s, Len(s) + 1, Len(s)) = <<>>
  BY <1>2, SubSeqEmpty
<1>4. QED BY <1>2, <1>3 DEF Link!Remains

\* The front of a queue remains when the back may go, and the other way round.
LEMMA FrontRemains ==
    ASSUME NEW a \in Seq(AnyMessage), NEW b \in Seq(AnyMessage), NEW front
    PROVE  Link!Remains(a, a \o b, front, TRUE)
<1> DEFINE s == a \o b  n == Len(a)  k == Len(b)  t == SubSeq(s, 1, n)
<1>1. /\ s \in Seq(AnyMessage) /\ Len(s) = n + k /\ n \in Nat /\ k \in Nat
      /\ \A i \in 1 .. n + k : s[i] = IF i <= n THEN a[i] ELSE b[i - n]
  BY ConcatProperties, LenProperties
<1> HIDE DEF s
<1>2. t \in Seq(AnyMessage) /\ Len(t) = n /\ \A i \in 1 .. n : t[i] = s[i]
  <2>1. 1 \in Int /\ n \in Int /\ \A i \in 1 .. n : s[i] \in AnyMessage
    BY <1>1, ElementOfSeq
  <2>2. /\ t \in Seq(AnyMessage) /\ Len(t) = IF 1 <= n THEN n - 1 + 1 ELSE 0
        /\ \A i \in 1 .. n - 1 + 1 : t[i] = s[1 + i - 1]
    BY <2>1, SubSeqProperties
  <2> HIDE DEF t
  <2>3. n - 1 + 1 = n /\ \A i \in 1 .. n : 1 + i - 1 = i
    BY <1>1
  <2>4. QED BY <1>1, <2>2, <2>3
<1> HIDE DEF t
<1>3. \A i \in 1 .. Len(t) : t[i] = a[i]
  BY <1>1, <1>2
<1>4. t = a
  BY <1>2, <1>3, SeqEqual
<1>5. 1 \in 1 .. Len(s) + 1 /\ n \in 0 .. Len(s)
  BY <1>1
<1>6. QED BY <1>4, <1>5 DEF Link!Remains, t, s

LEMMA BackRemains ==
    ASSUME NEW a \in Seq(AnyMessage), NEW b \in Seq(AnyMessage), NEW back
    PROVE  Link!Remains(b, a \o b, TRUE, back)
<1> DEFINE s == a \o b  n == Len(a)  k == Len(b)  t == SubSeq(s, n + 1, n + k)
<1>1. /\ s \in Seq(AnyMessage) /\ Len(s) = n + k /\ n \in Nat /\ k \in Nat
      /\ \A i \in 1 .. n + k : s[i] = IF i <= n THEN a[i] ELSE b[i - n]
  BY ConcatProperties, LenProperties
<1> HIDE DEF s
<1>2. t \in Seq(AnyMessage) /\ Len(t) = k /\ \A i \in 1 .. k : t[i] = s[n + i]
  <2>1. n + 1 \in Int /\ n + k \in Int /\ \A i \in n + 1 .. n + k : s[i] \in AnyMessage
    BY <1>1, ElementOfSeq
  <2>2. /\ t \in Seq(AnyMessage) /\ Len(t) = IF n + 1 <= n + k THEN n + k - (n + 1) + 1 ELSE 0
        /\ \A i \in 1 .. n + k - (n + 1) + 1 : t[i] = s[n + 1 + i - 1]
    BY <2>1, SubSeqProperties
  <2> HIDE DEF t
  <2>3. n + k - (n + 1) + 1 = k /\ \A i \in 1 .. k : n + 1 + i - 1 = n + i
    BY <1>1
  <2>4. Len(t) = k
    BY <1>1, <2>2
  <2>5. QED BY <2>2, <2>3, <2>4
<1> HIDE DEF t
<1>3. ASSUME NEW i \in 1 .. Len(t) PROVE t[i] = b[i]
  <2> DEFINE j == n + i
  <2>1. j \in 1 .. n + k /\ ~(j <= n) /\ j - n = i
    BY <1>1, <1>2
  <2>2. t[i] = s[j]
    BY <1>2
  <2> HIDE DEF j
  <2>3. s[j] = b[j - n]
    BY <1>1, <2>1
  <2>4. QED BY <2>1, <2>2, <2>3
<1>4. t = b
  BY <1>1, <1>2, <1>3, SeqEqual
<1>5. n + 1 \in 1 .. Len(s) + 1 /\ n + k \in 0 .. Len(s) /\ n + k = Len(s)
  BY <1>1
<1>6. QED BY <1>4, <1>5 DEF Link!Remains, t, s

\* The state of the link: there is one reader and one connection.
Taken == Chosen(disposed, Message)
One(x) == [w \in {Receiver} |-> [c \in {Hello} |-> x]]

LEMMA Stutters ==
    ASSUME Pending' = Pending, Taken' = Taken, recvOpen' = recvOpen, sendOpen' = sendOpen
    PROVE  UNCHANGED Link!linkVars
BY DEF Link!linkVars, Taken

LEMMA Stops ==
    ASSUME recvOpen' => recvOpen, sendOpen' => sendOpen, disposed' = disposed,
           Link!Remains(Pending', Pending, ~recvOpen', ~sendOpen')
    PROVE  Link!Stop
BY DEF Link!Stop

LEMMA Accepts ==
    ASSUME sendOpen, NEW m \in Message, Pending' = Append(Pending, m), Taken' = Taken,
           recvOpen' = recvOpen, sendOpen' = sendOpen
    PROVE  Link!Accept(Receiver, Hello)
<1>1. One(Pending)' = [One(Pending) EXCEPT ![Receiver][Hello] = Append(@, m)]
  BY DEF One
<1>2. QED BY <1>1 DEF Link!Accept, One, Taken

LEMMA Dispatches ==
    ASSUME recvOpen, Pending # <<>>, Pending' = Tail(Pending),
           Taken' = Append(Taken, Head(Pending)),
           recvOpen' = recvOpen, sendOpen' = sendOpen
    PROVE  Link!Dispatch(Receiver, Hello)
<1>1. /\ ~One(~recvOpen)[Receiver][Hello] /\ One(Pending)[Receiver][Hello] = Pending
      /\ One(Taken)[Receiver][Hello] = Taken
      /\ One(~recvOpen)' = One(~recvOpen) /\ One(~sendOpen)' = One(~sendOpen)
  BY DEF One
<1>2. One(Pending)' = [One(Pending) EXCEPT ![Receiver][Hello] = Tail(Pending)]
  BY DEF One
<1>3. One(Taken)' = [One(Taken) EXCEPT ![Receiver][Hello] = Append(Taken, Head(Pending))]
  BY DEF One
<1> DEFINE p == One(Pending)  t == One(Taken)
<1>4. p' = [p EXCEPT ![Receiver][Hello] = Tail(p[Receiver][Hello])]
  BY <1>1, <1>2
<1>5. t' = [t EXCEPT ![Receiver][Hello] = Append(t[Receiver][Hello], Head(p[Receiver][Hello]))]
  BY <1>1, <1>3
<1>6. QED BY <1>1, <1>4, <1>5 DEF Link!Dispatch, One, Taken

-----------------------------------------------------------------------------
(* Every step is a step of OrderedLink, when a worker reads.               *)

\* Nothing waits for a handshake that has not begun or has been answered.
Unheld == stage \in {"none", "ready"} => waitBuff = <<>>

LEMMA UnheldInit == Init => Unheld
BY DEF Init, Unheld

LEMMA StepUnheld == Unheld /\ [Next]_vars => Unheld'
<1> SUFFICES ASSUME Unheld, [Next]_vars PROVE Unheld'
  OBVIOUS
<1>1. ASSUME NEW m \in Message, AutoSend(m) \/ SendTo(m) \/ Reply(m) PROVE Unheld'
  BY <1>1 DEF Unheld, AutoSend, SendTo, Reply, Flush, DestroySender
<1>2. CASE FirstIoWrite \/ IoWrite \/ Ready
  BY <1>2 DEF Unheld, FirstIoWrite, IoWrite, Ready, Flush, DestroySender
<1>3. CASE ReadFD \/ Decode \/ CloseReceiver
  BY <1>3 DEF Unheld, ReadFD, Decode, CloseReceiver, sendVars
<1>4. CASE CloseSender
  BY <1>4 DEF Unheld, CloseSender, DestroySender
<1>5. CASE UNCHANGED vars
  BY <1>5 DEF Unheld, vars
<1>6. QED BY <1>1, <1>2, <1>3, <1>4, <1>5 DEF Next, Write

LEMMA PendingIs ==
    TypeOK => /\ Pending = Ends(Stream) \o Ends(waitBuff)
              /\ Ends(Stream) \in Seq(AnyMessage) /\ Ends(waitBuff) \in Seq(AnyMessage)
              /\ Pending \in Seq(AnyMessage)
<1> SUFFICES ASSUME TypeOK
             PROVE  /\ Pending = Ends(Stream) \o Ends(waitBuff)
                    /\ Ends(Stream) \in Seq(AnyMessage) /\ Ends(waitBuff) \in Seq(AnyMessage)
                    /\ Pending \in Seq(AnyMessage)
  OBVIOUS
<1>1. Stream \in Seq(Unit) /\ waitBuff \in Seq(Unit)
  BY StreamTypedNow DEF TypeOK
<1>2. Pending = Ends(Stream \o waitBuff)
  BY DEF Pending, Stream
<1>3. Ends(Stream \o waitBuff) = Ends(Stream) \o Ends(waitBuff)
  BY <1>1, EndsJoined
<1>4. Ends(Stream) \in Seq(AnyMessage) /\ Ends(waitBuff) \in Seq(AnyMessage)
  BY <1>1, EndsType
<1>5. Ends(Stream \o waitBuff) \in Seq(AnyMessage)
  BY <1>3, <1>4, ConcatProperties
<1>6. QED BY <1>2, <1>3, <1>4, <1>5

LEMMA PendingAfter ==
    TypeOK' => /\ Pending' = Ends(Stream') \o Ends(waitBuff')
               /\ Ends(Stream') \in Seq(AnyMessage) /\ Ends(waitBuff') \in Seq(AnyMessage)
               /\ Pending' \in Seq(AnyMessage)
<1>1. (TypeOK => /\ Pending = Ends(Stream) \o Ends(waitBuff)
                 /\ Ends(Stream) \in Seq(AnyMessage) /\ Ends(waitBuff) \in Seq(AnyMessage)
                 /\ Pending \in Seq(AnyMessage))'
  BY PendingIs, PTL
<1>2. QED BY <1>1 DEF Ends

\* What is written goes to the end of the stream.
LEMMA StreamLonger ==
    ASSUME TypeOK, NEW new \in Seq(Unit),
           wire' \in Seq(Unit), sendBuff' \in Seq(Unit), recvBuff' = recvBuff,
           wire' \o sendBuff' = wire \o (sendBuff \o new)
    PROVE  Ends(Stream') = Ends(Stream) \o Ends(new)
<1>1. PICK w \in Seq(Unit) : w = wire'
  OBVIOUS
<1>2. PICK b \in Seq(Unit) : b = sendBuff'
  OBVIOUS
<1>3. PICK r \in Seq(Unit) : r = recvBuff
  BY DEF TypeOK
<1>4. PICK v \in Seq(Unit) : v = wire
  BY DEF TypeOK
<1>5. PICK c \in Seq(Unit) : c = sendBuff
  BY DEF TypeOK
<1>6. PICK x \in Seq(Unit) : x = Stream
  BY StreamTypedNow
<1>7. w \o b = v \o (c \o new)
  BY <1>1, <1>2, <1>4, <1>5
<1>8. (r \o w) \o b = ((r \o v) \o c) \o new
  <2>1. \A f, g, u, y, z \in Seq(Unit) :
            u \o y = f \o (g \o z) => (r \o u) \o y = ((r \o f) \o g) \o z
    BY Appended, Zenon
  <2>2. \A g, u, y, z \in Seq(Unit) :
            u \o y = v \o (g \o z) => (r \o u) \o y = ((r \o v) \o g) \o z
    BY <2>1, Zenon
  <2>3. \A u, y, z \in Seq(Unit) :
            u \o y = v \o (c \o z) => (r \o u) \o y = ((r \o v) \o c) \o z
    BY <2>2, Zenon
  <2>4. \A y, z \in Seq(Unit) :
            w \o y = v \o (c \o z) => (r \o w) \o y = ((r \o v) \o c) \o z
    BY <2>3, Zenon
  <2>5. \A z \in Seq(Unit) :
            w \o b = v \o (c \o z) => (r \o w) \o b = ((r \o v) \o c) \o z
    BY <2>4, Zenon
  <2>6. w \o b = v \o (c \o new) => (r \o w) \o b = ((r \o v) \o c) \o new
    BY <2>5, Zenon
  <2>7. QED BY <1>7, <2>6
<1>9. Stream' = x \o new
  BY <1>1, <1>2, <1>3, <1>4, <1>5, <1>6, <1>8 DEF Stream
<1>10. Ends(x \o new) = Ends(x) \o Ends(new)
  BY EndsJoined
<1>11. QED BY <1>6, <1>9, <1>10

\* Nobody reads: nothing is left but what waits, and that only once it is written.
LEMMA StreamGone ==
    ASSUME recvBuff' = <<>>, wire' = <<>>, sendBuff' = <<>>
    PROVE  Ends(Stream') = <<>>
<1>1. (<<>> \o <<>>) \o <<>> = <<>>
  BY NothingFramed, ConcatEmptySeq
<1>2. Stream' = <<>>
  BY <1>1 DEF Stream
<1>3. QED BY <1>2, EndsOfNothing

QInv == FInv /\ Unheld

\* A message is accepted behind all others, or is lost because nobody reads.
Grows(m) == Link!Accept(Receiver, Hello) \/ Link!Stop

LEMMA WriteGrows ==
    ASSUME QInv, TypeOK', NEW m \in Message, sendOpen, stage = "ready",
           UNCHANGED recvVars,
           \/ WriteFD(sendBuff \o Units(m)) /\ waitBuff' = waitBuff /\ sendOpen' = sendOpen
           \/ ~recvOpen /\ DestroySender /\ UNCHANGED wire
    PROVE  Grows(m)
<1>1. PICK new \in Seq(Unit) : new = Units(m)
  BY UnitsFramed DEF AnyMessage
<1>2. TypeOK /\ sendBuff \o new \in Seq(Unit)
  BY Joined DEF QInv, FInv, TypeOK
<1>3. waitBuff = <<>> /\ waitBuff' = <<>>
  BY DEF QInv, Unheld, DestroySender
<1>4. Taken' = Taken /\ recvOpen' = recvOpen /\ recvBuff' = recvBuff /\ disposed' = disposed
  BY DEF Taken, recvVars
<1>5. CASE recvOpen
  <2>1. /\ WriteFD(sendBuff \o new) /\ sendOpen' = sendOpen
    BY <1>1, <1>5
  <2>2. /\ sendBuff' \in Seq(Unit) /\ wire' \in Seq(Unit)
        /\ wire' \o sendBuff' = wire \o (sendBuff \o new)
    BY <1>2, <1>5, <2>1, Written
  <2>3. Ends(Stream') = Ends(Stream) \o <<m>>
    BY <1>1, <1>2, <1>4, <2>2, StreamLonger, EndsOfUnits
  <2>4. /\ Pending = Ends(Stream) \o <<>> /\ Ends(Stream) \in Seq(AnyMessage)
        /\ Pending' = Ends(Stream') \o <<>> /\ Ends(Stream') \in Seq(AnyMessage)
    BY <1>2, <1>3, PendingIs, PendingAfter, EndsOfNothing
  <2>5. Pending = Ends(Stream) /\ Pending' = Ends(Stream) \o <<m>>
    BY <2>3, <2>4, ConcatEmptySeq
  <2>6. Pending' = Append(Pending, m)
    <3>1. m \in AnyMessage
      BY DEF AnyMessage
    <3>2. Append(Ends(Stream), m) = Ends(Stream) \o <<m>>
      BY <2>4, <3>1, AppendIsConcat
    <3>3. QED BY <2>5, <3>2
  <2>7. QED BY <1>4, <2>1, <2>6, Accepts DEF Grows
<1>6. CASE ~recvOpen
  <2>1. sendBuff' = <<>> /\ wire' = wire
    BY <1>6 DEF WriteFD, DestroySender
  <2>2. recvBuff' = <<>> /\ wire' = <<>>
    BY <1>4, <1>6, <2>1 DEF QInv, FInv, Cleared
  <2>3. Ends(Stream') = <<>> /\ Ends(waitBuff') = <<>>
    BY <1>3, <2>1, <2>2, StreamGone, EndsOfNothing
  <2>4. Pending' = <<>> /\ Pending \in Seq(AnyMessage)
    <3>1. <<>> \o <<>> = <<>>
      BY NothingFramed, ConcatEmptySeq
    <3>2. Pending' = Ends(Stream') \o Ends(waitBuff') /\ Pending \in Seq(AnyMessage)
      BY <1>2, PendingIs, PendingAfter
    <3>3. QED BY <2>3, <3>1, <3>2
  <2>5. Link!Remains(<<>>, Pending, TRUE, ~sendOpen')
    BY <2>4, NothingRemains
  <2>6. (~recvOpen') = TRUE
    BY <1>4, <1>6
  <2>7. Link!Remains(Pending', Pending, ~recvOpen', ~sendOpen')
    BY <2>4, <2>5, <2>6
  <2>8. Link!Stop
    BY <1>4, <2>7, Stops
  <2>9. QED BY <2>8 DEF Grows
<1>7. QED BY <1>5, <1>6

\* A write moves messages, or loses those in front because nobody reads.
LEMMA WriteMoves ==
    ASSUME QInv, TypeOK', NEW new \in Seq(Unit), NEW wait \in Seq(Unit), sendOpen,
           waitBuff = new \o wait, UNCHANGED recvVars, Flush(sendBuff \o new, wait)
    PROVE  Link!Stop \/ UNCHANGED Link!linkVars
<1>1. TypeOK /\ sendBuff \o new \in Seq(Unit)
  BY Joined DEF QInv, FInv, TypeOK
<1>2. Taken' = Taken /\ recvOpen' = recvOpen /\ recvBuff' = recvBuff /\ disposed' = disposed
  BY DEF Taken, recvVars
<1>3. /\ sendBuff' \in Seq(Unit) /\ wire' \in Seq(Unit)
      /\ waitBuff' \in {wait, <<>>}
      /\ recvOpen => wire' \o sendBuff' = wire \o (sendBuff \o new) /\ sendOpen' = sendOpen
      /\ ~recvOpen => wire' = wire
  BY <1>1, Flushed
<1>4. PICK e \in Seq(AnyMessage) : e = Ends(Stream)
  BY <1>1, PendingIs
<1>5. PICK n \in Seq(AnyMessage) : n = Ends(new)
  BY EndsType
<1>6. PICK w \in Seq(AnyMessage) : w = Ends(wait)
  BY EndsType
<1>7. Pending = (e \o n) \o w /\ Pending \in Seq(AnyMessage) /\ e \o n \in Seq(AnyMessage)
  <2>1. Ends(waitBuff) = n \o w
    BY <1>5, <1>6, EndsJoined
  <2>2. Pending = e \o (n \o w) /\ Pending \in Seq(AnyMessage)
    BY <1>1, <1>4, <2>1, PendingIs
  <2>3. (e \o n) \o w = e \o (n \o w) /\ e \o n \in Seq(AnyMessage)
    BY ConcatAssociative, ConcatProperties
  <2>4. QED BY <2>2, <2>3
<1>8. Pending' = Ends(Stream') \o Ends(waitBuff')
  BY PendingAfter
<1>9. CASE recvOpen
  <2>1. waitBuff' = wait
    BY <1>9 DEF Flush
  <2>2. Ends(Stream') = e \o n
    BY <1>1, <1>2, <1>3, <1>4, <1>5, <1>9, StreamLonger
  <2>3. Pending' = Pending
    BY <1>6, <1>7, <1>8, <2>1, <2>2
  <2>4. QED BY <1>2, <1>3, <1>9, <2>3, Stutters
<1>10. CASE ~recvOpen
  <2>1. sendBuff' = <<>> /\ (sendOpen' => sendOpen)
    BY <1>10 DEF Flush, WriteFD, DestroySender
  <2>2. recvBuff' = <<>> /\ wire' = <<>>
    BY <1>2, <1>3, <1>10 DEF QInv, FInv, Cleared
  <2>3. Ends(Stream') = <<>> /\ Ends(waitBuff') \in {w, <<>>}
    BY <1>3, <1>6, <2>1, <2>2, StreamGone, EndsOfNothing
  <2>4. Pending' \in {w, <<>>}
    <3>1. <<>> \o w = w /\ <<>> \in Seq(AnyMessage)
      BY ConcatEmptySeq
    <3>2. <<>> \o <<>> = <<>>
      BY NothingFramed, ConcatEmptySeq
    <3>3. QED BY <1>8, <2>3, <3>1, <3>2
  <2>5. /\ Link!Remains(w, (e \o n) \o w, TRUE, ~sendOpen')
        /\ Link!Remains(<<>>, Pending, TRUE, ~sendOpen')
    BY <1>7, BackRemains, NothingRemains
  <2>6. (~recvOpen') = TRUE
    BY <1>2, <1>10
  <2>7. Link!Remains(Pending', Pending, ~recvOpen', ~sendOpen')
    BY <1>7, <2>4, <2>5, <2>6
  <2>8. QED BY <1>2, <2>1, <2>7, Stops
<1>11. QED BY <1>9, <1>10

LEMMA IoWriteMoves ==
    ASSUME QInv, TypeOK', IoWrite PROVE Link!Stop \/ UNCHANGED Link!linkVars
<1>1. sendOpen /\ Flush(sendBuff, waitBuff) /\ UNCHANGED recvVars
  BY DEF IoWrite
<1>2. sendBuff \in Seq(Unit) /\ waitBuff \in Seq(Unit) /\ <<>> \in Seq(Unit)
  BY NothingFramed DEF QInv, FInv, TypeOK
<1>3. sendBuff \o <<>> = sendBuff /\ <<>> \o waitBuff = waitBuff
  BY <1>2, ConcatEmptySeq
<1>4. Flush(sendBuff \o <<>>, waitBuff)
  BY <1>1, <1>3
<1>5. QED BY <1>1, <1>2, <1>3, <1>4, WriteMoves

LEMMA ReadyMoves ==
    ASSUME QInv, TypeOK', Ready PROVE Link!Stop \/ UNCHANGED Link!linkVars
<1>1. sendOpen /\ Flush(sendBuff \o waitBuff, <<>>) /\ UNCHANGED recvVars
  BY DEF Ready
<1>2. waitBuff \in Seq(Unit) /\ <<>> \in Seq(Unit)
  BY NothingFramed DEF QInv, FInv, TypeOK
<1>3. waitBuff \o <<>> = waitBuff
  BY <1>2, ConcatEmptySeq
<1>4. QED BY <1>1, <1>2, <1>3, WriteMoves

\* The first message after connect() waits, as the later ones do.
LEMMA WaitAccepts ==
    ASSUME QInv, TypeOK', NEW m \in Message, sendOpen, waitBuff' = waitBuff \o Units(m),
           UNCHANGED <<sendBuff, sendOpen, wire, recvVars>>
    PROVE  Link!Accept(Receiver, Hello)
<1>1. TypeOK /\ waitBuff \in Seq(Unit) /\ Units(m) \in Seq(Unit) /\ m \in AnyMessage
  BY UnitsFramed DEF QInv, FInv, TypeOK, AnyMessage
<1>2. PICK e \in Seq(AnyMessage) : e = Ends(Stream)
  BY <1>1, PendingIs
<1>3. PICK w \in Seq(AnyMessage) : w = Ends(waitBuff)
  BY <1>1, PendingIs
<1>4. Pending = e \o w /\ e \o w \in Seq(AnyMessage)
  BY <1>1, <1>2, <1>3, PendingIs
<1>5. Ends(waitBuff') = w \o <<m>>
  BY <1>1, <1>3, EndsJoined, EndsOfUnits
<1>6. Ends(Stream') = e
  <2>1. Stream' = Stream
    BY DEF Stream, recvVars
  <2>2. QED BY <1>2, <2>1
<1>7. Pending' = e \o (w \o <<m>>)
  BY <1>5, <1>6, PendingAfter
<1>8. <<m>> \in Seq(AnyMessage)
  BY <1>1
<1>9. e \o (w \o <<m>>) = (e \o w) \o <<m>>
  BY <1>8, ConcatAssociative
<1>10. Append(e \o w, m) = (e \o w) \o <<m>>
  BY <1>1, <1>4, AppendIsConcat
<1>11. Pending' = Append(Pending, m)
  BY <1>4, <1>7, <1>9, <1>10
<1>12. Taken' = Taken /\ recvOpen' = recvOpen /\ sendOpen' = sendOpen
  BY DEF Taken, recvVars
<1>13. QED BY <1>11, <1>12, Accepts

LEMMA AutoSendAccepts ==
    ASSUME QInv, TypeOK', NEW m \in Message, AutoSend(m) PROVE Grows(m)
<1>1. /\ sendOpen /\ stage = "none" /\ waitBuff' = Units(m)
      /\ UNCHANGED <<sendBuff, sendOpen, wire, recvVars>>
  BY DEF AutoSend
<1>2. waitBuff = <<>>
  BY <1>1 DEF QInv, Unheld
<1>3. <<>> \o Units(m) = Units(m)
  BY UnitsFramed, ConcatEmptySeq DEF AnyMessage
<1>4. waitBuff' = waitBuff \o Units(m)
  BY <1>1, <1>2, <1>3
<1>5. QED BY <1>1, <1>4, WaitAccepts DEF Grows

LEMMA SendToGrows ==
    ASSUME QInv, TypeOK', NEW m \in Message, SendTo(m) PROVE Grows(m)
<1>1. sendOpen /\ UNCHANGED recvVars
  BY DEF SendTo
<1>2. CASE stage = "ready"
  <2>1. Flush(sendBuff \o Units(m), waitBuff)
    BY <1>2 DEF SendTo
  <2>2. \/ WriteFD(sendBuff \o Units(m)) /\ waitBuff' = waitBuff /\ sendOpen' = sendOpen
        \/ ~recvOpen /\ DestroySender /\ UNCHANGED wire
    BY <2>1 DEF Flush
  <2>3. QED BY <1>1, <1>2, <2>2, WriteGrows
<1>3. CASE stage # "ready"
  <2>1. waitBuff' = waitBuff \o Units(m) /\ UNCHANGED <<sendBuff, sendOpen, wire, recvVars>>
    BY <1>3 DEF SendTo
  <2>2. QED BY <1>1, <2>1, WaitAccepts DEF Grows
<1>4. QED BY <1>2, <1>3

LEMMA ReplyGrows ==
    ASSUME QInv, TypeOK', NEW m \in Message, Reply(m) PROVE Grows(m)
BY WriteGrows DEF Reply

LEMMA FirstIoWriteStutters ==
    ASSUME QInv, TypeOK', FirstIoWrite PROVE UNCHANGED Link!linkVars
<1>1. /\ stage = "connecting" /\ wire' = IF recvOpen THEN Units(Hello) ELSE wire
      /\ UNCHANGED <<sent, waitBuff, sendBuff, sendOpen, recvVars>>
  BY DEF FirstIoWrite
<1>2. recvBuff = <<>> /\ wire = <<>> /\ sendBuff = <<>> /\ TypeOK
  BY <1>1 DEF QInv, FInv, Unbegun
<1>3. (<<>> \o <<>>) \o <<>> = <<>>
  BY NothingFramed, ConcatEmptySeq
<1>4. Ends(Stream) = <<>>
  BY <1>2, <1>3, EndsOfNothing DEF Stream
<1>5. Ends(Stream') = <<>>
  <2>1. CASE recvOpen
    <3>1. PICK h \in Seq(Unit) : h = Units(Hello)
      BY UnitsFramed DEF AnyMessage
    <3>2. (<<>> \o h) \o <<>> = h
      BY ConcatEmptySeq
    <3>3. Stream' = (<<>> \o h) \o <<>>
      BY <1>1, <1>2, <2>1, <3>1 DEF Stream, recvVars
    <3>4. QED BY <3>1, <3>2, <3>3, EndsOfHello
  <2>2. CASE ~recvOpen
    <3>1. Stream' = Stream
      BY <1>1, <2>2 DEF Stream, recvVars
    <3>2. QED BY <1>4, <3>1
  <2>3. QED BY <2>1, <2>2
<1>6. Pending' = Pending
  <2>1. Ends(waitBuff') = Ends(waitBuff)
    BY <1>1
  <2>2. QED BY <1>2, <1>4, <1>5, <2>1, PendingIs, PendingAfter
<1>7. Taken' = Taken /\ recvOpen' = recvOpen /\ sendOpen' = sendOpen
  BY <1>1 DEF Taken, recvVars
<1>8. QED BY <1>6, <1>7, Stutters

LEMMA ReadStutters ==
    ASSUME QInv, TypeOK', ReadFD PROVE UNCHANGED Link!linkVars
<1>1. /\ recvBuff' \o wire' = recvBuff \o wire /\ TypeOK
      /\ UNCHANGED <<sendVars, recvOpen, ahead, disposed>>
  BY ReadTyped DEF QInv, FInv, ReadFD
<1>2. Stream' = Stream /\ waitBuff' = waitBuff /\ sendOpen' = sendOpen /\ Taken' = Taken
  BY <1>1 DEF Stream, sendVars, Taken
<1>3. Pending' = Pending
  BY <1>1, <1>2, PendingIs, PendingAfter
<1>4. QED BY <1>1, <1>2, <1>3, Stutters

\* A stream that begins with a head begins with that message, whole if it is long enough.
LEMMA HeadUnits ==
    ASSUME NEW s \in Seq(Unit), Frames(s), s # <<>>, Body[s[1][1]] < Len(s)
    PROVE  s = Units(s[1][1]) \o Drop(s, Body[s[1][1]] + 1)
<1> DEFINE m == s[1][1]  n == Body[m] + 1  h == Units(m)  p == SubSeq(s, 1, n)  d == Drop(s, n)
<1>0. /\ s[1] \in Unit /\ 1 \in 1 .. Len(s) /\ Len(s) \in Nat
      /\ m \in AnyMessage /\ Body[m] \in Nat /\ s[1][2] = 0 /\ Left(s[1]) = Body[m]
  <2>1. s[1] \in Unit /\ 1 \in 1 .. Len(s) /\ Len(s) \in Nat
    OBVIOUS
  <2>2. s[1][2] = 0
    BY DEF Frames, Heads
  <2>3. QED BY <2>1, <2>2, UnitFacts DEF Left
<1>1. n \in 0 .. Len(s) /\ n \in Nat
  BY <1>0
<1>2. p \in Seq(Unit) /\ Len(p) = n /\ p \o d = s /\ d \in Seq(Unit)
  BY <1>1, Cut, Dropped
<1>3. h \in Seq(Unit) /\ Len(h) = n /\ \A i \in 1 .. n : h[i] = <<m, i - 1>>
  BY <1>0, UnitsFramed DEF Units
<1>4. ASSUME NEW i \in 1 .. n PROVE p[i] = h[i]
  <2>1. i \in 1 .. Len(s) /\ 1 <= i /\ i - 1 <= Left(s[1]) /\ i \in Int
    BY <1>0, <1>1
  <2>2. s[i] = <<s[1][1], s[1][2] + (i - 1)>>
    BY <1>0, <2>1 DEF Frames, Blocks
  <2>3. s[1][2] + (i - 1) = i - 1
    BY <1>0, <2>1
  <2>4. s[i] = <<m, i - 1>>
    BY <2>2, <2>3
  <2>5. (p \o d)[i] = p[i]
    <3>1. i \in 1 .. Len(p)
      BY <1>2
    <3> HIDE DEF p, d
    <3>2. QED BY <1>2, <3>1, Joined
  <2>6. QED BY <1>2, <1>3, <2>4, <2>5
<1>5. p = h
  <2> HIDE DEF p, h
  <2>1. QED BY <1>2, <1>3, <1>4, SeqEqual
<1>6. QED BY <1>2, <1>5

\* A worker takes the first message off the stream, whole.
LEMMA DecodeTakes ==
    ASSUME Receiver = "worker", QInv, TypeOK', Decode
    PROVE  \E m \in AnyMessage :
               /\ Ends(Stream) = Ends(Units(m)) \o Ends(Stream')
               /\ disposed' = Append(disposed, m)
<1>0. /\ recvBuff \in Seq(Unit) /\ wire \in Seq(Unit) /\ sendBuff \in Seq(Unit) /\ TypeOK
      /\ recvBuff # <<>> /\ recvOpen
  BY DEF QInv, FInv, TypeOK, Decode, HasMessage
<1>1. Frames(recvBuff)
  <2>1. PICK q \in Seq(Unit) : q = recvBuff \o wire
    BY <1>0, Joined
  <2>2. Frames(q \o sendBuff)
    BY <1>0, <2>1 DEF QInv, FInv, Readable, Stream
  <2>3. Frames(q)
    BY <1>0, <2>2, PrefixFrames
  <2>4. QED BY <1>0, <2>1, <2>3, PrefixFrames
<1>2. PICK m \in AnyMessage : m = recvBuff[1][1]
  <2>1. recvBuff[1] \in Unit
    BY <1>0
  <2>2. QED BY <2>1, UnitFacts
<1>3. Body[m] \in Nat /\ Body[m] < Len(recvBuff) /\ Len(recvBuff) \in Nat
  BY <1>0, <1>2, BodyAssumption DEF Decode, HasMessage, AnyMessage
<1>4. PICK n \in 0 .. Len(recvBuff) : n = Body[m] + 1
  BY <1>3
<1>5. recvBuff' = Drop(recvBuff, n) /\ disposed' = Append(disposed, m)
  <2> DEFINE k == Parsed(recvBuff[1][1]) + 1
  <2>1. /\ recvBuff' = Drop(recvBuff, Least(k, Len(recvBuff)))
        /\ disposed' = Append(disposed, m)
    BY <1>2 DEF Decode
  <2>2. k = n
    BY <1>2, <1>4 DEF Parsed
  <2>3. Least(n, Len(recvBuff)) = n
    BY <1>4 DEF Least
  <2> HIDE DEF k
  <2>4. QED BY <2>1, <2>2, <2>3
<1>6. PICK h \in Seq(Unit) : h = Units(m)
  BY UnitsFramed
<1>7. PICK d \in Seq(Unit) : d = recvBuff'
  BY DEF TypeOK
<1>8. recvBuff = h \o d
  BY <1>0, <1>1, <1>2, <1>3, <1>4, <1>5, <1>6, <1>7, HeadUnits
<1>9. wire' = wire /\ sendBuff' = sendBuff
  BY DEF Decode, sendVars
<1>10. PICK x \in Seq(Unit) : x = (d \o wire) \o sendBuff
  <2>1. d \o wire \in Seq(Unit)
    BY <1>0, Joined
  <2>2. QED BY <1>0, <2>1, Joined
<1>11. Stream' = x
  BY <1>7, <1>9, <1>10 DEF Stream
<1>12. Stream = h \o x
  <2>1. PICK w \in Seq(Unit) : w = wire
    BY <1>0
  <2>2. PICK b \in Seq(Unit) : b = sendBuff
    BY <1>0
  <2>3. PICK e \in Seq(Unit) : e = d \o w
    BY Joined
  <2>4. (h \o d) \o w = h \o e
    <3>1. (h \o d) \o w = h \o (d \o w)
      BY Associative, ZenonT(60)
    <3> QED BY <2>3, <3>1
  <2>5. (h \o e) \o b = h \o (e \o b)
    BY Associative, ZenonT(60)
  <2>6. Stream = ((h \o d) \o w) \o b
    BY <1>8, <2>1, <2>2 DEF Stream
  <2>7. x = e \o b
    BY <1>10, <2>1, <2>2, <2>3
  <2>8. QED BY <2>4, <2>5, <2>6, <2>7, ZenonT(60)
<1>13. Ends(Stream) = Ends(h) \o Ends(x)
  BY <1>12, EndsJoined
<1>14. Ends(Stream) = Ends(Units(m)) \o Ends(Stream')
  BY <1>6, <1>11, <1>13
<1>15. QED BY <1>5, <1>14

LEMMA TakenGrows ==
    ASSUME TypeOK, NEW m \in AnyMessage, disposed' = Append(disposed, m)
    PROVE  Taken' = IF m \in Message THEN Append(Taken, m) ELSE Taken
<1>1. PICK s \in Seq(AnyMessage) : s = disposed
  BY DEF TypeOK
<1>2. PICK c \in Seq(AnyMessage) : c = Chosen(s, Message)
  BY ChosenType
<1>3. Append(s, m) = s \o <<m>> /\ Append(c, m) = c \o <<m>> /\ c \o <<>> = c
  BY AppendIsConcat, ConcatEmptySeq
<1>4. <<m>> \in Seq(AnyMessage) /\ Chosen(<<m>>, Message) = IF m \in Message THEN <<m>> ELSE <<>>
  BY ChosenShort
<1>5. Chosen(s \o <<m>>, Message) = c \o Chosen(<<m>>, Message)
  BY <1>2, <1>4, ChosenJoined
<1>6. Taken' = Chosen(s \o <<m>>, Message)
  BY <1>1, <1>3 DEF Taken
<1>7. Taken = c
  BY <1>1, <1>2 DEF Taken
<1>8. QED BY <1>3, <1>4, <1>5, <1>6, <1>7

LEMMA DecodeDispatches ==
    ASSUME Receiver = "worker", QInv, TypeOK', Decode
    PROVE  Link!Dispatch(Receiver, Hello) \/ UNCHANGED Link!linkVars
<1>0. TypeOK /\ recvOpen /\ recvOpen' = recvOpen /\ sendOpen' = sendOpen /\ waitBuff' = waitBuff
  BY DEF QInv, FInv, Decode, sendVars
<1>1. PICK m \in AnyMessage : /\ Ends(Stream) = Ends(Units(m)) \o Ends(Stream')
                              /\ disposed' = Append(disposed, m)
  BY DecodeTakes
<1>2. Taken' = IF m \in Message THEN Append(Taken, m) ELSE Taken
  BY <1>0, <1>1, TakenGrows
<1>3. PICK e \in Seq(AnyMessage) : e = Ends(Stream')
  BY PendingAfter
<1>4. PICK w \in Seq(AnyMessage) : w = Ends(waitBuff)
  BY <1>0, PendingIs
<1>5. Pending' = e \o w /\ e \o w \in Seq(AnyMessage)
  BY <1>0, <1>3, <1>4, PendingAfter
<1>6. Pending = (Ends(Units(m)) \o e) \o w
  BY <1>0, <1>1, <1>3, <1>4, PendingIs
<1>7. CASE m \in Message
  <2>1. Ends(Units(m)) = <<m>> /\ <<m>> \in Seq(AnyMessage)
    BY <1>7, EndsOfUnits
  <2>2. (<<m>> \o e) \o w = <<m>> \o (e \o w)
    BY <2>1, ConcatAssociative
  <2>3. Pending = <<m>> \o (e \o w)
    BY <1>6, <2>1, <2>2
  <2> DEFINE p == <<m>> \o (e \o w)  t == e \o w
  <2>4. Head(p) = m /\ Tail(p) = t /\ p # <<>>
    <3>1. t \in Seq(AnyMessage)
      BY <1>5
    <3> HIDE DEF t
    <3>2. QED BY <3>1 DEF t
  <2>5. Pending # <<>> /\ Pending' = Tail(Pending) /\ Head(Pending) = m
    BY <1>5, <2>3, <2>4
  <2>6. QED BY <1>0, <1>2, <1>7, <2>5, Dispatches
<1>8. CASE m = Hello
  <2>1. <<>> \o e = e
    BY ConcatEmptySeq
  <2>2. Pending' = Pending
    BY <1>5, <1>6, <1>8, <2>1, EndsOfHello
  <2>3. Taken' = Taken
    BY <1>2, <1>8, HelloAssumption
  <2>4. QED BY <1>0, <2>2, <2>3, Stutters
<1>9. QED BY <1>7, <1>8 DEF AnyMessage

\* What an end gives up when it closes.
LEMMA PendingParts ==
    ASSUME TypeOK
    PROVE  \E q, b \in Seq(AnyMessage) :
               /\ q = Ends(recvBuff \o wire)
               /\ b = Ends(sendBuff) \o Ends(waitBuff)
               /\ Pending = q \o b
<1>0. recvBuff \o wire \in Seq(Unit) /\ sendBuff \in Seq(Unit) /\ waitBuff \in Seq(Unit)
  BY StreamTypedNow DEF TypeOK
<1>1. PICK q \in Seq(AnyMessage) : q = Ends(recvBuff \o wire)
  BY <1>0, EndsType
<1>2. PICK s \in Seq(AnyMessage) : s = Ends(sendBuff)
  BY <1>0, EndsType
<1>3. PICK w \in Seq(AnyMessage) : w = Ends(waitBuff)
  BY <1>0, EndsType
<1>4. Ends(Stream) = q \o s
  <2>1. Ends((recvBuff \o wire) \o sendBuff) = Ends(recvBuff \o wire) \o Ends(sendBuff)
    BY <1>0, EndsJoined
  <2>2. QED BY <1>1, <1>2, <2>1 DEF Stream
<1>5. Pending = (q \o s) \o w
  BY <1>3, <1>4, PendingIs
<1>6. (q \o s) \o w = q \o (s \o w) /\ s \o w \in Seq(AnyMessage)
  BY SMTT(30), ConcatAssociative, ConcatProperties
<1>7. QED BY <1>1, <1>2, <1>3, <1>5, <1>6

LEMMA CloseSenderStops ==
    ASSUME QInv, TypeOK', CloseSender PROVE Link!Stop
<1>1. /\ sendOpen' = FALSE /\ waitBuff' = <<>> /\ sendBuff' = <<>>
      /\ sendOpen /\ UNCHANGED <<wire, recvVars>>
  BY DEF CloseSender, DestroySender
<1>2. TypeOK /\ recvBuff' = recvBuff /\ recvOpen' = recvOpen /\ disposed' = disposed
  BY <1>1 DEF QInv, FInv, recvVars
<1>3. PICK q, b \in Seq(AnyMessage) : q = Ends(recvBuff \o wire) /\ Pending = q \o b
  BY <1>2, PendingParts
<1>4. Ends(Stream') = q
  <2>1. PICK r \in Seq(Unit) : r = recvBuff \o wire
    BY <1>2, StreamTypedNow
  <2>2. r \o <<>> = r
    BY ConcatEmptySeq
  <2>3. Stream' = r
    BY <1>1, <1>2, <2>1, <2>2 DEF Stream
  <2>4. QED BY <1>3, <2>1, <2>3
<1>5. Pending' = q
  <2>1. Ends(waitBuff') = <<>>
    BY <1>1, EndsOfNothing
  <2>2. q \o <<>> = q
    BY ConcatEmptySeq
  <2>3. QED BY <1>4, <2>1, <2>2, PendingAfter
<1>6. Link!Remains(q, q \o b, ~recvOpen', TRUE)
  BY FrontRemains
<1>7. (~sendOpen') = TRUE
  BY <1>1
<1>8. Link!Remains(Pending', Pending, ~recvOpen', ~sendOpen')
  BY <1>3, <1>5, <1>6, <1>7
<1>9. QED BY <1>1, <1>2, <1>8, Stops

LEMMA CloseReceiverStops ==
    ASSUME QInv, TypeOK', CloseReceiver PROVE Link!Stop
<1>1. /\ recvOpen' = FALSE /\ recvBuff' = <<>> /\ wire' = <<>>
      /\ recvOpen /\ disposed' = disposed
      /\ sendOpen' = sendOpen /\ sendBuff' = sendBuff /\ waitBuff' = waitBuff
  BY DEF CloseReceiver, sendVars
<1>2. TypeOK
  BY DEF QInv, FInv
<1>3. PICK q, b \in Seq(AnyMessage) : b = Ends(sendBuff) \o Ends(waitBuff) /\ Pending = q \o b
  BY <1>2, PendingParts
<1>4. Stream' = sendBuff
  <2>1. PICK s \in Seq(Unit) : s = sendBuff
    BY <1>2 DEF TypeOK
  <2>2. (<<>> \o <<>>) \o s = s
    BY ConcatEmptySeq, NothingFramed
  <2>3. QED BY <1>1, <2>1, <2>2 DEF Stream
<1>5. Pending' = b
  <2>1. Ends(Stream') = Ends(sendBuff) /\ Ends(waitBuff') = Ends(waitBuff)
    BY <1>1, <1>4
  <2>2. QED BY <1>3, <2>1, PendingAfter
<1>6. Link!Remains(b, q \o b, TRUE, ~sendOpen')
  BY BackRemains
<1>7. (~recvOpen') = TRUE
  BY <1>1
<1>8. Link!Remains(Pending', Pending, ~recvOpen', ~sendOpen')
  BY <1>3, <1>5, <1>6, <1>7
<1>9. QED BY <1>1, <1>8, Stops

LEMMA StreamLinkInit == Init => Link!Init
<1> SUFFICES ASSUME Init PROVE Link!Init
  OBVIOUS
<1>1. /\ recvBuff = <<>> /\ wire = <<>> /\ sendBuff = <<>> /\ waitBuff = <<>>
      /\ disposed = <<>> /\ recvOpen = TRUE /\ sendOpen = TRUE
  BY DEF Init
<1>2. ((<<>> \o <<>>) \o <<>>) \o <<>> = <<>>
  BY NothingFramed, ConcatEmptySeq
<1>3. Pending = <<>>
  BY <1>1, <1>2, EndsOfNothing DEF Pending
<1>4. Taken = <<>>
  BY <1>1, ChosenShort DEF Taken
<1>5. QED BY <1>1, <1>3, <1>4 DEF Link!Init, Taken

LEMMA StreamLinkNext ==
    ASSUME Receiver = "worker", QInv, TypeOK', [Next]_vars
    PROVE  [Link!Next]_(Link!linkVars)
<1>1. ASSUME NEW m \in Message, AutoSend(m) \/ SendTo(m) \/ Reply(m)
      PROVE  Link!Next
  <2>1. Grows(m)
    BY <1>1, AutoSendAccepts, SendToGrows, ReplyGrows
  <2>2. QED BY <2>1 DEF Grows, Link!Next
<1>2. CASE Write
  <2>1. Link!Stop \/ UNCHANGED Link!linkVars
    BY <1>2, FirstIoWriteStutters, IoWriteMoves, ReadyMoves DEF Write
  <2>2. QED BY <2>1 DEF Link!Next
<1>3. CASE ReadFD
  BY <1>3, ReadStutters
<1>4. CASE Decode
  <2>1. Link!Dispatch(Receiver, Hello) \/ UNCHANGED Link!linkVars
    BY <1>4, DecodeDispatches
  <2>2. QED BY <2>1 DEF Link!Next
<1>5. CASE CloseSender \/ CloseReceiver
  <2>1. Link!Stop
    BY <1>5, CloseSenderStops, CloseReceiverStops
  <2>2. QED BY <2>1 DEF Link!Next
<1>6. CASE UNCHANGED vars
  <2>1. Pending' = Pending
    BY <1>6 DEF Pending, vars
  <2>2. Taken' = Taken /\ recvOpen' = recvOpen /\ sendOpen' = sendOpen
    BY <1>6 DEF Taken, vars
  <2>3. QED BY <2>1, <2>2, Stutters
<1>7. QED BY <1>1, <1>2, <1>3, <1>4, <1>5, <1>6 DEF Next

\* The bytes of a direction of a connection are the queue that OrderedLink
\* describes: what SendTo (OssWorker.cpp:2208) accepted is disposed of whole
\* and in order, whatever one send() or one read takes, and what waits for the
\* handshake (OssWorker.cpp:2144-2206) is neither overtaken nor lost while both
\* ends are open.  A worker reads; a Manager does not keep it (Parsed).
THEOREM StreamIsOrdered == ASSUME Receiver = "worker" PROVE Spec => Ordered
<1>1. Init => QInv /\ TypeOK /\ Link!Init
  BY InitFramed, UnheldInit, StreamLinkInit DEF QInv, FInv
<1>2. QInv /\ [Next]_vars => QInv' /\ TypeOK' /\ [Link!Next]_(Link!linkVars)
  <2> SUFFICES ASSUME QInv, [Next]_vars
               PROVE  QInv' /\ TypeOK' /\ [Link!Next]_(Link!linkVars)
    OBVIOUS
  <2>1. FInv' /\ Unheld' /\ TypeOK'
    BY StepFramed, StepUnheld DEF QInv, FInv
  <2>2. [Link!Next]_(Link!linkVars)
    BY <2>1, StreamLinkNext
  <2>3. QED BY <2>1, <2>2 DEF QInv
<1>3. QED BY <1>1, <1>2, PTL DEF Spec, Ordered, Link!Spec

=============================================================================
