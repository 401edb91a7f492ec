------------------------- MODULE RequestRelay_proofs -------------------------
(***************************************************************************)
(* Proofs about RequestRelay: for any fronts, clients, descriptors and any *)
(* bounds, its variables keep their types, and an answer a client gets is  *)
(* the one to the request it takes it for, which it gets once.             *)
(*                                                                         *)
(* The invariant follows the answer backwards.  A step whose shell is live *)
(* has its own client there, who has no answer to this request yet and,    *)
(* over HTTP, those to all before it (Fits).  What travels on the          *)
(* connection a front has now came from this incarnation of it: its        *)
(* sequence was drawn, and the step of that sequence, if there is one      *)
(* still, asked just this (Agrees).  Logic's tasks agree with the          *)
(* connection their shell is live on, and what DataProxy was asked agrees  *)
(* with the task of its sequence.                                          *)
(***************************************************************************)
EXTENDS RequestRelay, TLAPS

\* TypeOK, by the parts of the system.
StepType == [seq : Nat, shell : ClientShell, of : Ask]
TaskType == [seq : Nat, shell : LinkShell, of : Ask, reqSeq : Nat]
RequestType == [seq : Nat, of : Ask]
AnswerType == [seq : Nat, of : Ask, code : Codes, read : BOOLEAN]
GotType == [of : Ask, to : 1 .. MaxAsk, code : Codes, read : BOOLEAN]

FrontType ==
    /\ seq \in [Front -> Nat]
    /\ client \in [Front -> [ClientFd -> ClientAttr]]
    /\ step \in [Front -> SUBSET StepType]
    /\ asked \in [Client -> 0 .. MaxAsk]
    /\ got \in [Client -> Seq(GotType)]

WireType ==
    /\ link \in [Front -> 0 .. MaxLink]
    /\ opened \in 0 .. MaxLink
    /\ knocking \subseteq Link
    /\ up \in [Link -> Seq(RequestType)]
    /\ down \in [Link -> Seq(AnswerType)]

LogicType ==
    /\ logicSeq \in Nat
    /\ inner \in [LinkFd -> LinkAttr]
    /\ logicStep \subseteq TaskType
    /\ reading \subseteq RequestType

RestType ==
    /\ came \subseteq Client
    /\ faults \in 0 .. MaxFault

\* A step of f: drawn from its sequence, as was its shell, for a request that
\* was asked, and if the shell is live one to be answered, over HTTP the next.
Drawn(f, s) ==
    /\ s.seq <= seq[f]
    /\ s.shell.seq <= seq[f]
    /\ s.of.n <= asked[s.of.who]

Unanswered(a) == \A i \in DOMAIN got[a.who] : got[a.who][i].of # a

Fits(f, s) ==
    LET attr == client[f][s.shell.fd]
    IN Live(attr, s.shell) =>
        /\ attr.who = s.of.who
        /\ Unanswered(s.of)
        /\ At[s.of.who] \in HttpFront => s.of.n = Len(got[s.of.who]) + 1

\* Each request has one step.
OneStep ==
    \A f, g \in Front : \A s \in step[f], t \in step[g] :
        s.of = t.of => f = g /\ s = t

\* Only what was asked is answered.
GotAsked == \A c \in Client : \A i \in DOMAIN got[c] : got[c][i].of.n <= asked[c]

FrontInv ==
    /\ \A f \in Front, fd \in ClientFd : client[f][fd].seq <= seq[f]
    /\ \A f \in Front : \A s \in step[f] : Drawn(f, s) /\ Fits(f, s)
    /\ OneStep
    /\ GotAsked
    /\ AnswerMatches

\* Of a front that drew n sequences and has steps S: sequence q was drawn,
\* and is that of no step but one for a.
Agrees(n, S, q, a) ==
    /\ q <= n
    /\ \A s \in S : s.seq = q => s.of = a

AllAgree(n, S, queue) ==
    \A i \in DOMAIN queue : Agrees(n, S, queue[i].seq, queue[i].of)

\* The tasks of Logic whose answer goes back on connection k.
TaskOn(k, s) == Live(inner[s.shell.fd], s.shell) /\ inner[s.shell.fd].link = k

Fresh(k) == up[k] = <<>> /\ down[k] = <<>>

WireInv ==
    /\ \A k \in Link : k > opened => Fresh(k)
    /\ \A f \in Front : link[f] <= opened
    /\ \A fd \in LinkFd : inner[fd].link <= opened
    /\ \A k \in knocking : k <= opened
    /\ \A f, g \in Front : link[f] # 0 /\ link[f] = link[g] => f = g

AgreeInv ==
    \A f \in Front : link[f] # 0 =>
        /\ AllAgree(seq[f], step[f], up[link[f]])
        /\ AllAgree(seq[f], step[f], down[link[f]])
        /\ \A s \in logicStep :
            TaskOn(link[f], s) => Agrees(seq[f], step[f], s.reqSeq, s.of)

LogicInv ==
    /\ \A fd \in LinkFd :
        inner[fd].seq <= logicSeq /\ (inner[fd] # NoLink => inner[fd].link # 0)
    /\ \A s \in logicStep : s.seq <= logicSeq /\ s.shell.seq <= logicSeq
    /\ \A r \in reading : r.seq <= logicSeq
    /\ \A r \in reading, s \in logicStep : r.seq = s.seq => r.of = s.of

IInv ==
    /\ FrontType /\ WireType /\ LogicType /\ RestType
    /\ FrontInv
    /\ WireInv
    /\ AgreeInv
    /\ LogicInv

-----------------------------------------------------------------------------
(* What agrees.                                                            *)

\* The front goes on: more sequences, and steps end or are new.
Later(n, S, n1, S1) ==
    /\ n <= n1
    /\ \A s \in S1 : s \in S \/ s.seq > n

LEMMA AgreesLater ==
    ASSUME NEW n \in Nat, NEW n1 \in Nat, NEW S, NEW S1, NEW q \in Nat, NEW a,
           S1 \subseteq StepType, Later(n, S, n1, S1), Agrees(n, S, q, a)
    PROVE  Agrees(n1, S1, q, a)
<1>1. q <= n1
  BY DEF Later, Agrees
<1>2. ASSUME NEW s \in S1, s.seq = q PROVE s.of = a
  <2>1. s.seq \in Nat
    BY DEF StepType
  <2>2. ~ (s.seq > n)
    BY <1>2, <2>1 DEF Agrees
  <2> QED
    BY <1>2, <2>2 DEF Later, Agrees
<1> QED
  BY <1>1, <1>2 DEF Agrees

LEMMA AllAgreeLater ==
    ASSUME NEW n \in Nat, NEW n1 \in Nat, NEW S, NEW S1, NEW queue,
           \A i \in DOMAIN queue : queue[i].seq \in Nat,
           S1 \subseteq StepType, Later(n, S, n1, S1), AllAgree(n, S, queue)
    PROVE  AllAgree(n1, S1, queue)
BY AgreesLater DEF AllAgree

LEMMA HeadTail ==
    ASSUME NEW M, NEW queue \in Seq(M), queue # <<>>
    PROVE  /\ Head(queue) \in M
           /\ Tail(queue) \in Seq(M)
           /\ Head(queue) = queue[1]
           /\ 1 \in DOMAIN queue
           /\ \A i \in DOMAIN Tail(queue) :
                i + 1 \in DOMAIN queue /\ Tail(queue)[i] = queue[i + 1]
OBVIOUS

LEMMA TailAgrees ==
    ASSUME NEW M, NEW queue \in Seq(M), queue # <<>>,
           NEW n, NEW S, AllAgree(n, S, queue)
    PROVE  /\ AllAgree(n, S, Tail(queue))
           /\ Agrees(n, S, Head(queue).seq, Head(queue).of)
BY HeadTail DEF AllAgree

LEMMA AppendAgrees ==
    ASSUME NEW M, NEW queue \in Seq(M), NEW m \in M,
           NEW n, NEW S, AllAgree(n, S, queue), Agrees(n, S, m.seq, m.of)
    PROVE  AllAgree(n, S, Append(queue, m))
<1>1. \A i \in DOMAIN Append(queue, m) :
        \/ i \in DOMAIN queue /\ Append(queue, m)[i] = queue[i]
        \/ Append(queue, m)[i] = m
  OBVIOUS
<1> QED
  BY <1>1 DEF AllAgree

LEMMA EmptyAgrees ==
    ASSUME NEW n, NEW S
    PROVE  AllAgree(n, S, <<>>)
BY DEF AllAgree

-----------------------------------------------------------------------------
(* The clients of the fronts and what they got.                            *)

LEMMA AppendGot ==
    ASSUME NEW s \in Seq(GotType), NEW e \in GotType
    PROVE  /\ Append(s, e) \in Seq(GotType)
           /\ Len(Append(s, e)) = Len(s) + 1
           /\ \A i \in DOMAIN Append(s, e) :
                \/ i \in DOMAIN s /\ Append(s, e)[i] = s[i]
                \/ i = Len(s) + 1 /\ Append(s, e)[i] = e
OBVIOUS

\* Nothing is answered.
LEMMA StillMatches ==
    ASSUME GotAsked, AnswerMatches, UNCHANGED <<asked, got>>
    PROVE  GotAsked' /\ AnswerMatches'
<1>1. GotAsked'
  BY DEF GotAsked
<1>2. ASSUME NEW c \in Client, NEW i \in DOMAIN got[c]
      PROVE  /\ got[c][i].of = [who |-> c, n |-> IF At[c] \in HttpFront THEN i
                                                ELSE got[c][i].to]
             /\ \A j \in 1 .. (i - 1) : got[c][j].of # got[c][i].of
  BY DEF AnswerMatches, TakenFor
<1>3. AnswerMatches'
  BY <1>2 DEF AnswerMatches, TakenFor
<1> QED
  BY <1>1, <1>3

\* What is answered already is not one of those that are not.
LEMMA StillUnanswered ==
    ASSUME FrontType, NEW w \in Client, NEW e \in GotType, NEW a,
           a.who \in Client, Unanswered(a), a # e.of,
           got' = [got EXCEPT ![w] = Append(@, e)]
    PROVE  Unanswered(a)'
<1> SUFFICES ASSUME NEW i \in DOMAIN got'[a.who] PROVE got'[a.who][i].of # a
  BY DEF Unanswered
<1>1. got[w] \in Seq(GotType)
  BY DEF FrontType
<1>2. CASE a.who = w
  <2>1. got'[a.who] = Append(got[w], e)
    BY <1>2 DEF FrontType
  <2>2. \/ i \in DOMAIN got[w] /\ got'[a.who][i] = got[w][i]
        \/ got'[a.who][i] = e
    BY <1>1, <2>1, AppendGot
  <2> QED
    BY <1>2, <2>2 DEF Unanswered
<1>3. CASE a.who # w
  <2>1. got'[a.who] = got[a.who]
    BY <1>3 DEF FrontType
  <2> QED
    BY <2>1 DEF Unanswered
<1> QED
  BY <1>2, <1>3

\* A client gets one answer more.
LEMMA OneMore ==
    ASSUME FrontType, AskAssumption, GotAsked, AnswerMatches,
           NEW w \in Client, NEW e \in GotType,
           e.of = [who |-> w, n |-> e.to], Unanswered(e.of), e.to <= asked[w]',
           At[w] \in HttpFront => e.to = Len(got[w]) + 1,
           got' = [got EXCEPT ![w] = Append(@, e)],
           \A c \in Client : asked[c] \in Nat /\ asked'[c] \in Nat /\ asked[c] <= asked'[c]
    PROVE  GotAsked' /\ AnswerMatches'
<1>1. got[w] \in Seq(GotType) /\ Len(got[w]) \in Nat
  BY DEF FrontType
<1>2. /\ got'[w] = Append(got[w], e)
      /\ \A c \in Client : c # w => got'[c] = got[c]
  BY DEF FrontType
<1>3. ASSUME NEW i \in DOMAIN got'[w]
      PROVE  \/ i \in DOMAIN got[w] /\ got'[w][i] = got[w][i]
             \/ i = Len(got[w]) + 1 /\ got'[w][i] = e
  BY <1>1, <1>2, AppendGot
<1>4. \A i \in DOMAIN got[w] : got[w][i].of # e.of
  BY DEF Unanswered
<1>5. ASSUME NEW c \in Client, NEW i \in DOMAIN got[c]
      PROVE  got[c][i].of.n \in Nat /\ got[c][i].of.n <= asked'[c]
  <2>1. got[c][i] \in GotType
    BY DEF FrontType
  <2>2. got[c][i].of.n \in Nat
    BY <2>1, AskAssumption DEF GotType, Ask
  <2>3. got[c][i].of.n <= asked[c]
    BY DEF GotAsked
  <2> QED
    BY <2>2, <2>3
<1>6. GotAsked'
  <2>1. ASSUME NEW i \in DOMAIN got'[w] PROVE got'[w][i].of.n <= asked'[w]
    BY <1>3, <1>5
  <2>2. ASSUME NEW c \in Client, c # w
        PROVE  \A i \in DOMAIN got'[c] : got'[c][i].of.n <= asked'[c]
    BY <2>2, <1>2, <1>5
  <2> QED
    BY <2>1, <2>2 DEF GotAsked
<1>7. ASSUME NEW i \in DOMAIN got'[w]
      PROVE  /\ got'[w][i].of = [who |-> w, n |-> IF At[w] \in HttpFront THEN i
                                                 ELSE got'[w][i].to]
             /\ \A j \in 1 .. (i - 1) : got'[w][j].of # got'[w][i].of
  <2>1. \A j \in DOMAIN got[w] : got'[w][j] = got[w][j]
    BY <1>1, <1>2
  <2>2. CASE i \in DOMAIN got[w] /\ got'[w][i] = got[w][i]
    <3>1. \A j \in 1 .. (i - 1) : j \in DOMAIN got[w]
      BY <2>2, <1>1
    <3>2. /\ got[w][i].of = TakenFor(w, i)
          /\ \A j \in 1 .. (i - 1) : got[w][j].of # got[w][i].of
      BY <2>2 DEF AnswerMatches
    <3> QED
      BY <2>1, <2>2, <3>1, <3>2 DEF TakenFor
  <2>3. CASE i = Len(got[w]) + 1 /\ got'[w][i] = e
    <3>1. \A j \in 1 .. (i - 1) : j \in DOMAIN got[w]
      BY <2>3, <1>1
    <3> QED
      BY <2>1, <2>3, <3>1, <1>4
  <2> QED
    BY <1>3, <2>2, <2>3
<1>8. ASSUME NEW c \in Client, c # w
      PROVE  \A i \in DOMAIN got'[c] :
                /\ got'[c][i].of = [who |-> c, n |-> IF At[c] \in HttpFront THEN i
                                                    ELSE got'[c][i].to]
                /\ \A j \in 1 .. (i - 1) : got'[c][j].of # got'[c][i].of
  <2>1. got'[c] = got[c]
    BY <1>8, <1>2
  <2>2. ASSUME NEW i \in DOMAIN got[c]
        PROVE  /\ got[c][i].of = TakenFor(c, i)
               /\ \A j \in 1 .. (i - 1) : got[c][j].of # got[c][i].of
    BY DEF AnswerMatches
  <2> QED
    BY <2>1, <2>2 DEF TakenFor
<1>9. AnswerMatches'
  <2> SUFFICES ASSUME NEW c \in Client, NEW i \in DOMAIN got'[c]
               PROVE  /\ got'[c][i].of = TakenFor(c, i)'
                      /\ \A j \in 1 .. (i - 1) : got'[c][j].of # got'[c][i].of
    BY DEF AnswerMatches
  <2>1. CASE c = w
    BY <2>1, <1>7 DEF TakenFor
  <2>2. CASE c # w
    BY <2>2, <1>8 DEF TakenFor
  <2> QED
    BY <2>1, <2>2
<1> QED
  BY <1>6, <1>9

LEMMA AskEqual ==
    ASSUME NEW a \in Ask, NEW b \in Ask, a.who = b.who, a.n = b.n
    PROVE  a = b
BY DEF Ask

LEMMA StepFacts ==
    ASSUME FrontType, NEW f \in Front, NEW s \in step[f]
    PROVE  /\ s \in StepType /\ s.seq \in Nat
           /\ s.shell.fd \in ClientFd /\ s.shell.seq \in Nat
           /\ s.of \in Ask /\ s.of.who \in Client /\ s.of.n \in Nat /\ s.of.n >= 1
           /\ client[f][s.shell.fd].seq \in Nat
           /\ seq[f] \in Nat
           /\ asked[s.of.who] \in Nat
           /\ got[s.of.who] \in Seq(GotType) /\ Len(got[s.of.who]) \in Nat
<1>1. s \in StepType
  BY DEF FrontType
<1>2. s.seq \in Nat /\ s.shell \in ClientShell /\ s.of \in Ask
  BY <1>1 DEF StepType
<1>3. s.shell.fd \in ClientFd /\ s.shell.seq \in Nat
  BY <1>2 DEF ClientShell
<1>4. s.of.who \in Client /\ s.of.n \in Nat /\ s.of.n >= 1
  BY <1>2, AskAssumption DEF Ask
<1>5. client[f][s.shell.fd] \in ClientAttr
  BY <1>3 DEF FrontType
<1>6. client[f][s.shell.fd].seq \in Nat /\ seq[f] \in Nat
  BY <1>5 DEF FrontType, ClientAttr
<1>7. got[s.of.who] \in Seq(GotType) /\ asked[s.of.who] \in Nat
  BY <1>4, AskAssumption DEF FrontType
<1> QED
  BY <1>1, <1>2, <1>3, <1>4, <1>6, <1>7

\* A step that ends, with an answer for its request or none.
LEMMA Delivered ==
    ASSUME FrontType, FrontInv, AskAssumption,
           NEW f \in Front, NEW s \in step[f], NEW answer \in GotType,
           answer.of = s.of, answer.to = s.of.n, step' = Ended(f, s),
           got' = Written(f, s.shell, answer) \/ got' = got,
           UNCHANGED <<seq, client, asked>>
    PROVE  FrontType' /\ FrontInv'
<1>0. /\ s \in StepType /\ s.shell.fd \in ClientFd /\ s.of \in Ask /\ s.of.who \in Client
      /\ s.of.n \in Nat /\ asked[s.of.who] \in Nat
      /\ got[s.of.who] \in Seq(GotType) /\ Len(got[s.of.who]) \in Nat
  BY StepFacts
<1>1. /\ step' \in [Front -> SUBSET StepType]
      /\ \A g \in Front : step'[g] \subseteq step[g]
      /\ s \notin step'[f]
  BY DEF Ended, FrontType
<1>2. CASE got' = got
  <2>1. FrontType'
    BY <1>1, <1>2 DEF FrontType
  <2>2. (\A g \in Front, fd \in ClientFd : client[g][fd].seq <= seq[g])'
    BY DEF FrontInv
  <2>3. (\A g \in Front : \A t \in step[g] : Drawn(g, t) /\ Fits(g, t))'
    BY <1>1, <1>2 DEF FrontInv, Drawn, Fits, Live, Unanswered
  <2>4. OneStep'
    BY <1>1 DEF FrontInv, OneStep
  <2>5. GotAsked' /\ AnswerMatches'
    BY <1>2, StillMatches DEF FrontInv
  <2> QED
    BY <2>1, <2>2, <2>3, <2>4, <2>5 DEF FrontInv
<1>3. CASE got' # got
  <2> DEFINE w == s.of.who
  <2>1. Live(client[f][s.shell.fd], s.shell)
    BY <1>3 DEF Written
  <2>2. /\ client[f][s.shell.fd].who = w /\ Unanswered(s.of) /\ s.of.n <= asked[w]
        /\ At[w] \in HttpFront => s.of.n = Len(got[w]) + 1
    BY <2>1 DEF FrontInv, Fits, Drawn
  <2>3. got' = [got EXCEPT ![w] = Append(@, answer)]
    BY <1>3, <2>1, <2>2 DEF Written
  <2>4. /\ got'[w] = Append(got[w], answer)
        /\ \A c \in Client : c # w => got'[c] = got[c]
        /\ got' \in [Client -> Seq(GotType)]
    BY <2>3, <1>0, AppendGot DEF FrontType
  <2>5. FrontType'
    BY <1>1, <2>4 DEF FrontType
  <2>6. (\A g \in Front, fd \in ClientFd : client[g][fd].seq <= seq[g])'
    BY DEF FrontInv
  <2>7. ASSUME NEW g \in Front, NEW t \in step'[g]
        PROVE  (Drawn(g, t) /\ Fits(g, t))'
    <3>1. t \in step[g] /\ Drawn(g, t) /\ Fits(g, t)
      BY <1>1 DEF FrontInv
    <3>2. CASE Live(client[g][t.shell.fd], t.shell)
      <4>1. /\ client[g][t.shell.fd].who = t.of.who /\ Unanswered(t.of)
            /\ At[t.of.who] \in HttpFront => t.of.n = Len(got[t.of.who]) + 1
        BY <3>1, <3>2 DEF Fits
      <4>2. t.of \in Ask /\ t.of.who \in Client
        BY <3>1, StepFacts
      <4>3. t.of # s.of
        BY <3>1, <1>1 DEF FrontInv, OneStep
      <4>4. Unanswered(t.of)'
        BY <2>3, <4>1, <4>2, <4>3, <1>0, StillUnanswered
      <4>5. ASSUME At[t.of.who] \in HttpFront
            PROVE  t.of.n = Len(got'[t.of.who]) + 1
        <5>1. t.of.who # w
          BY <4>1, <4>2, <4>3, <4>5, <2>2, <1>0, AskEqual
        <5> QED
          BY <4>1, <4>2, <4>5, <5>1, <2>4
      <4> QED
        BY <3>1, <4>1, <4>4, <4>5 DEF Drawn, Fits, Live
    <3>3. CASE ~ Live(client[g][t.shell.fd], t.shell)
      BY <3>1, <3>3 DEF Drawn, Fits, Live
    <3> QED
      BY <3>2, <3>3
  <2>8. OneStep'
    BY <1>1 DEF FrontInv, OneStep
  <2>9. GotAsked' /\ AnswerMatches'
    <3>1. answer.of = [who |-> w, n |-> answer.to]
      BY <1>0 DEF Ask
    <3>2. ASSUME NEW c \in Client
          PROVE  asked[c] \in Nat /\ asked'[c] \in Nat /\ asked[c] <= asked'[c]
      <4>1. asked[c] \in Nat
        BY AskAssumption DEF FrontType
      <4> QED
        BY <4>1
    <3>3. Unanswered(answer.of) /\ answer.to <= asked'[w]
      BY <2>2
    <3>4. At[w] \in HttpFront => answer.to = Len(got[w]) + 1
      BY <2>2
    <3>5. GotAsked /\ AnswerMatches /\ w \in Client
      BY <1>0 DEF FrontInv
    <3> HIDE DEF w
    <3> QED
      BY <2>3, <3>1, <3>2, <3>3, <3>4, <3>5, OneMore
  <2> QED
    BY <2>5, <2>6, <2>7, <2>8, <2>9 DEF FrontInv
<1> QED
  BY <1>2, <1>3

LEMMA Registered ==
    ASSUME FrontType, FrontInv, AskAssumption,
           NEW f \in Front, NEW fd \in ClientFd, NEW c \in Client,
           Asks(f, fd, c), Registers(f, fd, NextAsk(c)), UNCHANGED <<client, got>>
    PROVE  FrontType' /\ FrontInv' /\ NextAsk(c) \in Ask
<1>1. /\ seq[f] \in Nat /\ asked[c] \in Nat /\ MaxAsk \in Nat
      /\ got[c] \in Seq(GotType) /\ Len(got[c]) \in Nat
      /\ client[f][fd] \in ClientAttr
  BY AskAssumption DEF FrontType
<1>2. client[f][fd].seq \in Nat
  BY <1>1 DEF ClientAttr
<1>3. asked[c] < MaxAsk /\ client[f][fd].who = c
  BY DEF Asks, MayAsk, Holds
<1>4. At[c] \in HttpFront => asked[c] = Len(got[c])
  BY DEF Asks, MayAsk
<1>5. NextAsk(c) \in Ask
  BY <1>1, <1>3 DEF NextAsk, Ask
<1>6. PICK new \in StepType :
        new = Step(seq[f] + 1, Shell(fd, client[f][fd].seq), NextAsk(c))
  <2>1. Step(seq[f] + 1, Shell(fd, client[f][fd].seq), NextAsk(c)) \in StepType
    BY <1>1, <1>2, <1>5 DEF StepType, ClientShell, Step, Shell
  <2> QED
    BY <2>1
<1>7. /\ seq' = [seq EXCEPT ![f] = @ + 1]
      /\ step' = [step EXCEPT ![f] = @ \cup {new}]
      /\ asked' = [asked EXCEPT ![c] = @ + 1]
  BY <1>6 DEF Registers, Asks
<1>8. FrontType'
  BY <1>1, <1>3, <1>6, <1>7 DEF FrontType
<1>9. /\ seq'[f] = seq[f] + 1 /\ \A g \in Front : g # f => seq'[g] = seq[g]
      /\ step'[f] = step[f] \cup {new} /\ \A g \in Front : g # f => step'[g] = step[g]
      /\ asked'[c] = asked[c] + 1 /\ \A d \in Client : d # c => asked'[d] = asked[d]
  BY <1>7 DEF FrontType
<1>10. ASSUME NEW g \in Front PROVE seq[g] \in Nat /\ seq[g] <= seq'[g]
  <2>1. seq[g] \in Nat
    BY DEF FrontType
  <2> QED
    BY <2>1, <1>9
<1>11. ASSUME NEW d \in Client PROVE asked[d] \in Nat /\ asked[d] <= asked'[d]
  <2>1. asked[d] \in Nat
    BY <1>1 DEF FrontType
  <2> QED
    BY <2>1, <1>9
<1>12. ASSUME NEW g \in Front, NEW t \in step[g]
       PROVE  (Drawn(g, t) /\ Fits(g, t))'
  <2>1. Drawn(g, t) /\ Fits(g, t)
    BY DEF FrontInv
  <2>2. t.seq \in Nat /\ t.shell.seq \in Nat /\ t.of.n \in Nat /\ t.of.who \in Client
    BY StepFacts
  <2>3. t.seq <= seq'[g] /\ t.shell.seq <= seq'[g] /\ t.of.n <= asked'[t.of.who]
    <3>1. seq'[g] \in Nat /\ asked'[t.of.who] \in Nat
      BY <2>2, <1>8, AskAssumption DEF FrontType
    <3> QED
      BY <2>1, <2>2, <1>10, <1>11, <3>1 DEF Drawn
  <2> QED
    BY <2>1, <2>3 DEF Drawn, Fits, Unanswered
<1>13. (Drawn(f, new) /\ Fits(f, new))'
  <2>1. new.seq = seq'[f] /\ new.shell.fd = fd /\ new.shell.seq = client[f][fd].seq
        /\ new.of.who = c /\ new.of.n = asked'[c]
    BY <1>6, <1>9 DEF Step, Shell, NextAsk
  <2>2. client[f][fd].seq <= seq'[f]
    BY <1>1, <1>2, <1>9 DEF FrontInv
  <2>3. Unanswered(new.of)'
    BY <2>1, <1>1, <1>9 DEF Unanswered, FrontInv, GotAsked
  <2> QED
    BY <2>1, <2>2, <2>3, <1>1, <1>3, <1>4, <1>9 DEF Drawn, Fits
<1>14. (\A g \in Front, fd2 \in ClientFd : client[g][fd2].seq <= seq[g])'
  <2> SUFFICES ASSUME NEW g \in Front, NEW fd2 \in ClientFd
               PROVE  client[g][fd2].seq <= seq'[g]
    OBVIOUS
  <2>1. client[g][fd2].seq \in Nat
    BY DEF FrontType, ClientAttr
  <2> QED
    BY <2>1, <1>10, <1>8 DEF FrontInv, FrontType
<1>15. \A g \in Front : \A t \in step[g] : t.of # NextAsk(c)
  <2> SUFFICES ASSUME NEW g \in Front, NEW t \in step[g], t.of = NextAsk(c) PROVE FALSE
    OBVIOUS
  <2>1. t.of.n <= asked[t.of.who]
    BY DEF FrontInv, Drawn
  <2> QED
    BY <2>1, <1>1 DEF NextAsk
<1>16. OneStep'
  <2>1. new.of = NextAsk(c)
    BY <1>6 DEF Step
  <2>2. ASSUME NEW g \in Front, NEW h \in Front, NEW t \in step'[g], NEW u \in step'[h],
               t.of = u.of
        PROVE  g = h /\ t = u
    <3>1. CASE t.of = NextAsk(c)
      <4>1. t = new /\ g = f
        BY <3>1, <1>9, <1>15
      <4>2. u = new /\ h = f
        BY <2>2, <3>1, <1>9, <1>15
      <4> QED
        BY <4>1, <4>2
    <3>2. CASE t.of # NextAsk(c)
      <4>1. t \in step[g] /\ u \in step[h]
        BY <2>1, <2>2, <3>2, <1>9
      <4> QED
        BY <4>1, <2>2 DEF FrontInv, OneStep
    <3> QED
      BY <3>1, <3>2
  <2> QED
    BY <2>2 DEF OneStep
<1>17. GotAsked'
  <2> SUFFICES ASSUME NEW d \in Client, NEW i \in DOMAIN got[d]
               PROVE  got[d][i].of.n <= asked'[d]
    BY DEF GotAsked
  <2>1. got[d][i] \in GotType /\ asked'[d] \in Nat
    BY <1>8, AskAssumption DEF FrontType
  <2>2. got[d][i].of.n \in Nat
    BY <2>1, AskAssumption DEF GotType, Ask
  <2> QED
    BY <2>1, <2>2, <1>11 DEF FrontInv, GotAsked
<1>18. AnswerMatches'
  BY DEF FrontInv, AnswerMatches, TakenFor
<1>19. (\A g \in Front : \A t \in step[g] : Drawn(g, t) /\ Fits(g, t))'
  BY <1>9, <1>12, <1>13
<1> QED
  BY <1>5, <1>8, <1>14, <1>16, <1>17, <1>18, <1>19 DEF FrontInv

\* A request that is refused at once: the client waited for nothing.
LEMMA RefusedAtOnce ==
    ASSUME FrontType, FrontInv, AskAssumption,
           NEW f \in Front, NEW fd \in ClientFd, NEW c \in Client,
           HttpRefused(f, fd, c)
    PROVE  FrontType' /\ FrontInv'
<1>1. /\ asked[c] \in Nat /\ MaxAsk \in Nat
      /\ got[c] \in Seq(GotType) /\ Len(got[c]) \in Nat
  BY AskAssumption DEF FrontType
<1>2. asked[c] < MaxAsk /\ (At[c] \in HttpFront => Len(got[c]) = asked[c])
  BY DEF HttpRefused, Asks, MayAsk
<1>3. NextAsk(c) \in Ask /\ NextAsk(c).who = c /\ NextAsk(c).n = asked[c] + 1
  BY <1>1, <1>2 DEF NextAsk, Ask
<1>4. PICK e \in GotType :
        /\ e = Got(NextAsk(c), asked[c] + 1, "error", FALSE)
        /\ e.of = NextAsk(c) /\ e.to = asked[c] + 1
  <2> DEFINE e == Got(NextAsk(c), asked[c] + 1, "error", FALSE)
  <2>1. e.of = NextAsk(c) /\ e.to = asked[c] + 1 /\ e \in GotType
    BY <1>1, <1>2, <1>3 DEF Got, GotType, Codes
  <2> QED
    BY <2>1
<1>5. /\ asked' = [asked EXCEPT ![c] = @ + 1]
      /\ got' = [got EXCEPT ![c] = Append(@, e)]
      /\ \E draws \in {0, 1} : seq' = [seq EXCEPT ![f] = @ + draws]
      /\ UNCHANGED <<client, step>>
  BY <1>4 DEF HttpRefused, Asks
<1>6. /\ got'[c] = Append(got[c], e) /\ got' \in [Client -> Seq(GotType)]
      /\ \A d \in Client : d # c => got'[d] = got[d]
  BY <1>1, <1>3, <1>5, AppendGot DEF FrontType
<1>7. /\ asked'[c] = asked[c] + 1 /\ asked' \in [Client -> 0 .. MaxAsk]
      /\ \A d \in Client : d # c => asked'[d] = asked[d]
  BY <1>1, <1>2, <1>5 DEF FrontType
<1>8. seq' \in [Front -> Nat] /\ \A g \in Front : seq[g] \in Nat /\ seq[g] <= seq'[g]
  BY <1>5 DEF FrontType
<1>9. FrontType'
  BY <1>5, <1>6, <1>7, <1>8 DEF FrontType
<1>10. ASSUME NEW g \in Front, NEW t \in step[g]
      PROVE  (Drawn(g, t) /\ Fits(g, t))'
  <2>1. Drawn(g, t) /\ Fits(g, t)
    BY DEF FrontInv
  <2>2. t.seq \in Nat /\ t.shell.seq \in Nat /\ t.of.n \in Nat /\ t.of.who \in Client
    BY StepFacts
  <2>3. asked[t.of.who] \in Nat /\ asked[t.of.who] <= asked'[t.of.who]
    <3>1. asked[t.of.who] \in Nat
      BY StepFacts
    <3> QED
      BY <2>2, <3>1, <1>7
  <2>4. Drawn(g, t)'
    <3>1. seq'[g] \in Nat /\ asked'[t.of.who] \in Nat
      BY <2>2, <1>9, AskAssumption DEF FrontType
    <3> QED
      BY <2>1, <2>2, <2>3, <3>1, <1>8 DEF Drawn
  <2>5. Fits(g, t)'
    <3>1. CASE t.of.who = c
      <4>1. t.of # NextAsk(c) /\ t.of.n # asked[c] + 1
        BY <3>1, <2>1, <2>2, <1>1 DEF Drawn, NextAsk
      <4>2. Unanswered(t.of) => Unanswered(t.of)'
        BY <2>2, <4>1, <1>4, <1>5, StillUnanswered
      <4>3. At[c] \in HttpFront => ~ Live(client[g][t.shell.fd], t.shell)
        BY <4>1, <3>1, <2>1, <2>2, <1>1, <1>2 DEF Fits
      <4> QED
        BY <3>1, <2>1, <4>2, <4>3, <1>5 DEF Fits, Live
    <3>2. CASE t.of.who # c
      BY <3>2, <2>1, <2>2, <1>5, <1>6 DEF Fits, Live, Unanswered
    <3> QED
      BY <3>1, <3>2
  <2> QED
    BY <2>4, <2>5
<1>11. (\A g \in Front, fd2 \in ClientFd : client[g][fd2].seq <= seq[g])'
  <2> SUFFICES ASSUME NEW g \in Front, NEW fd2 \in ClientFd
               PROVE  client[g][fd2].seq <= seq'[g]
    BY <1>5
  <2>1. client[g][fd2].seq \in Nat
    BY DEF FrontType, ClientAttr
  <2> QED
    BY <2>1, <1>8 DEF FrontInv, FrontType
<1>12. OneStep'
  BY <1>5 DEF FrontInv, OneStep
<1>13. GotAsked' /\ AnswerMatches'
  <2>1. e.of = [who |-> c, n |-> e.to] /\ e.to = asked[c] + 1
    BY <1>4 DEF NextAsk
  <2>2. Unanswered(e.of)
    <3>1. \A i \in DOMAIN got[c] : got[c][i].of.n <= asked[c]
      BY DEF FrontInv, GotAsked
    <3>2. \A i \in DOMAIN got[c] : got[c][i].of # e.of
      BY <2>1, <3>1, <1>1
    <3> QED
      BY <2>1, <3>2 DEF Unanswered
  <2>3. ASSUME NEW d \in Client
        PROVE  asked[d] \in Nat /\ asked'[d] \in Nat /\ asked[d] <= asked'[d]
    <3>1. asked[d] \in Nat
      BY AskAssumption DEF FrontType
    <3> QED
      BY <3>1, <1>7
  <2>4. e.to <= asked'[c] /\ (At[c] \in HttpFront => e.to = Len(got[c]) + 1)
    BY <2>1, <1>1, <1>2, <1>7
  <2>5. GotAsked /\ AnswerMatches
    BY DEF FrontInv
  <2> QED
    BY <1>3, <1>5, <2>1, <2>2, <2>3, <2>4, <2>5, OneMore
<1>14. (\A g \in Front : \A t \in step[g] : Drawn(g, t) /\ Fits(g, t))'
  BY <1>5, <1>10
<1> QED
  BY <1>9, <1>11, <1>12, <1>13, <1>14 DEF FrontInv

\* A client comes: no step has a shell of the sequence its connection gets.
LEMMA Connected ==
    ASSUME FrontType, FrontInv,
           NEW f \in Front, NEW fd \in ClientFd, NEW c \in Client, Connect(f, fd, c)
    PROVE  FrontType' /\ FrontInv'
<1>1. /\ seq' = [seq EXCEPT ![f] = @ + 1]
      /\ client' = [client EXCEPT ![f][fd] = [seq |-> seq[f] + 1, who |-> c]]
      /\ UNCHANGED <<step, asked, got>>
  BY DEF Connect
<1>2. seq[f] \in Nat /\ [seq |-> seq[f] + 1, who |-> c] \in ClientAttr
  BY DEF FrontType, ClientAttr
<1>3. FrontType'
  <2>1. client' \in [Front -> [ClientFd -> ClientAttr]] /\ seq' \in [Front -> Nat]
    BY <1>1, <1>2 DEF FrontType
  <2> QED
    BY <1>1, <2>1 DEF FrontType
<1>4. /\ seq'[f] = seq[f] + 1 /\ \A g \in Front : g # f => seq'[g] = seq[g]
      /\ client'[f][fd] = [seq |-> seq[f] + 1, who |-> c]
      /\ \A g \in Front, fd2 \in ClientFd :
            g # f \/ fd2 # fd => client'[g][fd2] = client[g][fd2]
  BY <1>1 DEF FrontType
<1>5. ASSUME NEW g \in Front
      PROVE  seq[g] \in Nat /\ seq'[g] \in Nat /\ seq[g] <= seq'[g]
  <2>1. seq[g] \in Nat /\ seq'[g] \in Nat
    BY <1>3 DEF FrontType
  <2> QED
    BY <2>1, <1>4
<1>6. ASSUME NEW g \in Front, NEW t \in step[g]
      PROVE  (Drawn(g, t) /\ Fits(g, t))'
  <2>1. Drawn(g, t) /\ Fits(g, t)
    BY DEF FrontInv
  <2>2. t.seq \in Nat /\ t.shell.seq \in Nat /\ t.shell.fd \in ClientFd
    BY StepFacts
  <2>3. Drawn(g, t)'
    BY <2>1, <2>2, <1>1, <1>5 DEF Drawn
  <2>4. Fits(g, t)'
    <3>1. CASE g = f /\ t.shell.fd = fd
      <4>1. t.shell.seq # client'[f][fd].seq
        BY <3>1, <2>1, <2>2, <1>2, <1>4 DEF Drawn
      <4> QED
        BY <4>1, <3>1 DEF Fits, Live
    <3>2. CASE g # f \/ t.shell.fd # fd
      BY <3>2, <2>1, <2>2, <1>1, <1>4 DEF Fits, Live, Unanswered
    <3> QED
      BY <3>1, <3>2
  <2> QED
    BY <2>3, <2>4
<1>7. (\A g \in Front, fd2 \in ClientFd : client[g][fd2].seq <= seq[g])'
  <2> SUFFICES ASSUME NEW g \in Front, NEW fd2 \in ClientFd
               PROVE  client'[g][fd2].seq <= seq'[g]
    OBVIOUS
  <2>1. client[g][fd2].seq \in Nat /\ client[g][fd2].seq <= seq[g]
    BY DEF FrontType, ClientAttr, FrontInv
  <2> QED
    BY <2>1, <1>2, <1>4, <1>5
<1>8. OneStep' /\ GotAsked' /\ AnswerMatches'
  BY <1>1, StillMatches DEF FrontInv, OneStep
<1>9. (\A g \in Front : \A t \in step[g] : Drawn(g, t) /\ Fits(g, t))'
  BY <1>1, <1>6
<1> QED
  BY <1>3, <1>7, <1>8, <1>9 DEF FrontInv

\* Connections of clients end; a worker that is gone takes its steps along.
LEMMA PartsEnded ==
    ASSUME FrontType, FrontInv, NEW f \in Front, NoClient \in ClientAttr, NoClient.seq = 0,
           UNCHANGED <<asked, got>>,
           \/ /\ \E fd \in ClientFd : client' = [client EXCEPT ![f][fd] = NoClient]
              /\ UNCHANGED <<seq, step>>
           \/ /\ client' = [client EXCEPT ![f] = [fd \in ClientFd |-> NoClient]]
              /\ seq' = [seq EXCEPT ![f] = 0]
              /\ step' = [step EXCEPT ![f] = {}]
    PROVE  FrontType' /\ FrontInv'
<1>1. client' \in [Front -> [ClientFd -> ClientAttr]]
  <2>1. CASE \E fd \in ClientFd : client' = [client EXCEPT ![f][fd] = NoClient]
    BY <2>1 DEF FrontType
  <2>2. CASE client' = [client EXCEPT ![f] = [fd \in ClientFd |-> NoClient]]
    BY <2>2 DEF FrontType
  <2> QED
    BY <2>1, <2>2
<1>2. \A g \in Front, fd \in ClientFd : client'[g][fd] \in {client[g][fd], NoClient}
  <2>1. CASE \E fd \in ClientFd : client' = [client EXCEPT ![f][fd] = NoClient]
    BY <2>1 DEF FrontType
  <2>2. CASE client' = [client EXCEPT ![f] = [fd \in ClientFd |-> NoClient]]
    BY <2>2 DEF FrontType
  <2> QED
    BY <2>1, <2>2
<1>3. seq' \in [Front -> Nat] /\ step' \in [Front -> SUBSET StepType]
  <2>1. seq \in [Front -> Nat] /\ step \in [Front -> SUBSET StepType]
    BY DEF FrontType
  <2>2. CASE UNCHANGED <<seq, step>>
    BY <2>1, <2>2
  <2>3. CASE seq' = [seq EXCEPT ![f] = 0] /\ step' = [step EXCEPT ![f] = {}]
    BY <2>1, <2>3
  <2> QED
    BY <2>2, <2>3
<1>4. \A g \in Front :
        \/ seq'[g] = seq[g] /\ step'[g] = step[g]
        \/ /\ step'[g] = {} /\ seq'[g] = 0
           /\ \A fd \in ClientFd : client'[g][fd] = NoClient
  <2>1. CASE UNCHANGED <<seq, step>>
    BY <2>1
  <2>2. CASE /\ client' = [client EXCEPT ![f] = [fd \in ClientFd |-> NoClient]]
             /\ seq' = [seq EXCEPT ![f] = 0]
             /\ step' = [step EXCEPT ![f] = {}]
    BY <2>2 DEF FrontType
  <2> QED
    BY <2>1, <2>2
<1>5. FrontType'
  BY <1>1, <1>2, <1>3, <1>4 DEF FrontType
<1>6. ASSUME NEW g \in Front, NEW t \in step'[g]
      PROVE  (Drawn(g, t) /\ Fits(g, t))'
  <2>1. t \in step[g] /\ seq'[g] = seq[g]
    BY <1>4
  <2>2. Drawn(g, t) /\ Fits(g, t) /\ t.shell.fd \in ClientFd
    BY <2>1, StepFacts DEF FrontInv
  <2>3. client'[g][t.shell.fd] \in {client[g][t.shell.fd], NoClient}
    BY <2>2, <1>1, <1>2, <1>3
  <2> QED
    BY <2>1, <2>2, <2>3, <1>4 DEF Drawn, Fits, Live, Unanswered
<1>7. (\A g \in Front, fd \in ClientFd : client[g][fd].seq <= seq[g])'
  <2> SUFFICES ASSUME NEW g \in Front, NEW fd \in ClientFd
               PROVE  client'[g][fd].seq <= seq'[g]
    OBVIOUS
  <2>1. client[g][fd].seq <= seq[g] /\ seq'[g] \in Nat
    BY <1>3 DEF FrontInv
  <2> QED
    BY <2>1, <1>1, <1>2, <1>3, <1>4
<1>8. OneStep'
  BY <1>4 DEF FrontInv, OneStep
<1>9. GotAsked' /\ AnswerMatches'
  BY <1>4, StillMatches DEF FrontInv
<1> QED
  BY <1>5, <1>6, <1>7, <1>8, <1>9 DEF FrontInv

\* Connections of clients end, with their worker and its steps or without.
LEMMA Disconnected ==
    ASSUME FrontType, FrontInv, NoOneAssumption, NEW f \in Front,
           \/ \E fd \in ClientFd : Disconnect(f, fd)
           \/ RestartFront(f)
    PROVE  FrontType' /\ FrontInv'
<1>1. NoClient \in ClientAttr /\ NoClient.seq = 0
  BY DEF NoClient, ClientAttr
<1>2. CASE \E fd \in ClientFd : Disconnect(f, fd)
  <2>1. PICK fd \in ClientFd : client' = [client EXCEPT ![f][fd] = NoClient]
    BY <1>2 DEF Disconnect
  <2>2. UNCHANGED <<seq, step, asked, got>>
    BY <1>2 DEF Disconnect, clientVars
  <2> QED
    BY <2>1, <2>2, <1>1, PartsEnded
<1>3. CASE RestartFront(f)
  <2>1. /\ client' = [client EXCEPT ![f] = [fd \in ClientFd |-> NoClient]]
        /\ seq' = [seq EXCEPT ![f] = 0] /\ step' = [step EXCEPT ![f] = {}]
        /\ UNCHANGED <<asked, got>>
    BY <1>3 DEF RestartFront, clientVars
  <2> QED
    BY <2>1, <1>1, PartsEnded
<1> QED
  BY <1>2, <1>3

LEMMA FrontUntouched ==
    ASSUME FrontType, FrontInv, UNCHANGED <<frontVars, asked, got>>
    PROVE  FrontType' /\ FrontInv'
<1>1. UNCHANGED <<seq, client, step, asked, got>>
  BY DEF frontVars
<1>2. FrontType' /\ OneStep'
  BY <1>1 DEF FrontType, FrontInv, OneStep
<1>3. (\A g \in Front, fd \in ClientFd : client[g][fd].seq <= seq[g])'
  BY <1>1 DEF FrontInv
<1>4. (\A g \in Front : \A t \in step[g] : Drawn(g, t) /\ Fits(g, t))'
  BY <1>1 DEF FrontInv, Drawn, Fits, Live, Unanswered
<1>5. GotAsked' /\ AnswerMatches'
  BY <1>1, StillMatches DEF FrontInv
<1> QED
  BY <1>2, <1>3, <1>4, <1>5 DEF FrontInv

-----------------------------------------------------------------------------
(* The queues between fronts and Logic.                                    *)

\* Front g goes on: it draws sequences, its steps end, new ones have new
\* sequences.
GoesOn(g) == Later(seq[g], step[g], seq'[g], step'[g])

LEMMA Untouched ==
    ASSUME FrontType, UNCHANGED <<seq, step>>, NEW g \in Front
    PROVE  GoesOn(g)
BY DEF FrontType, GoesOn, Later

LEMMA Ends ==
    ASSUME FrontType, NEW f \in Front, NEW s, step' = Ended(f, s), UNCHANGED seq,
           NEW g \in Front
    PROVE  GoesOn(g)
BY DEF FrontType, GoesOn, Later, Ended

LEMMA Draws ==
    ASSUME FrontType, NEW f \in Front, NEW draws \in Nat,
           seq' = [seq EXCEPT ![f] = @ + draws], UNCHANGED step, NEW g \in Front
    PROVE  GoesOn(g)
<1>1. seq[g] \in Nat /\ seq[f] \in Nat
  BY DEF FrontType
<1>2. seq[g] <= seq'[g]
  BY <1>1 DEF FrontType
<1> QED
  BY <1>2 DEF GoesOn, Later

LEMMA Begins ==
    ASSUME FrontType, FrontInv, NEW f \in Front, NEW fd, NEW a, Registers(f, fd, a),
           NEW g \in Front
    PROVE  /\ GoesOn(g)
           /\ Agrees(seq'[f], step'[f], seq[f] + 1, a)
<1>1. seq[g] \in Nat /\ seq[f] \in Nat
  BY DEF FrontType
<1> DEFINE new == Step(seq[f] + 1, Shell(fd, client[f][fd].seq), a)
<1>2. /\ seq'[f] = seq[f] + 1 /\ step'[f] = step[f] \cup {new}
      /\ g # f => seq'[g] = seq[g] /\ step'[g] = step[g]
  BY DEF FrontType, Registers
<1>3. new.seq = seq[f] + 1 /\ new.of = a
  BY DEF Step
<1>4. GoesOn(g)
  BY <1>1, <1>2, <1>3 DEF GoesOn, Later
<1>5. \A s \in step[f] : s.seq # seq[f] + 1
  <2> SUFFICES ASSUME NEW s \in step[f] PROVE s.seq # seq[f] + 1
    OBVIOUS
  <2>1. s.seq \in Nat /\ s.seq <= seq[f]
    BY StepFacts DEF FrontInv, Drawn
  <2> QED
    BY <2>1, <1>1
<1> QED
  BY <1>1, <1>2, <1>3, <1>4, <1>5 DEF Agrees

LEMMA QueueFacts ==
    ASSUME WireType, NEW k \in Link
    PROVE  /\ up[k] \in Seq(RequestType) /\ down[k] \in Seq(AnswerType)
           /\ \A i \in DOMAIN up[k] : up[k][i].seq \in Nat
           /\ \A i \in DOMAIN down[k] : down[k][i].seq \in Nat
<1>1. up[k] \in Seq(RequestType) /\ down[k] \in Seq(AnswerType)
  BY DEF WireType
<1>2. \A i \in DOMAIN up[k] : up[k][i] \in RequestType
  BY <1>1
<1>3. \A i \in DOMAIN down[k] : down[k][i] \in AnswerType
  BY <1>1
<1> QED
  BY <1>1, <1>2, <1>3 DEF RequestType, AnswerType

LEMMA LinkFacts ==
    ASSUME WireType, LinkAssumption, NEW g \in Front
    PROVE  link[g] \in Nat /\ (link[g] # 0 => link[g] \in Link)
BY DEF WireType, Link

\* What is on the way for a front that goes on still agrees with it.
LEMMA StillAgrees ==
    ASSUME FrontType, WireType, LogicType, AgreeInv, FrontType', LinkAssumption,
           NEW g \in Front, GoesOn(g), link[g] # 0
    PROVE  /\ AllAgree(seq'[g], step'[g], up[link[g]])
           /\ AllAgree(seq'[g], step'[g], down[link[g]])
           /\ \A s \in logicStep :
                TaskOn(link[g], s) => Agrees(seq'[g], step'[g], s.reqSeq, s.of)
<1>1. seq[g] \in Nat /\ seq'[g] \in Nat /\ step'[g] \subseteq StepType
  BY DEF FrontType
<1>2. Later(seq[g], step[g], seq'[g], step'[g])
  BY DEF GoesOn
<1>3. link[g] \in Link
  BY LinkFacts
<1>4. AllAgree(seq'[g], step'[g], up[link[g]])
  BY <1>1, <1>2, <1>3, QueueFacts, AllAgreeLater DEF AgreeInv
<1>5. AllAgree(seq'[g], step'[g], down[link[g]])
  BY <1>1, <1>2, <1>3, QueueFacts, AllAgreeLater DEF AgreeInv
<1>6. ASSUME NEW s \in logicStep, TaskOn(link[g], s)
      PROVE  Agrees(seq'[g], step'[g], s.reqSeq, s.of)
  <2>1. s.reqSeq \in Nat
    BY DEF LogicType, TaskType
  <2> QED
    BY <1>1, <1>2, <1>6, <2>1, AgreesLater DEF AgreeInv
<1> QED
  BY <1>4, <1>5, <1>6

\* The steps of fronts that leave the wire alone.
LEMMA WireUntouched ==
    ASSUME IInv, FrontType', LinkAssumption, \A g \in Front : GoesOn(g),
           UNCHANGED <<logicVars, wireVars>>
    PROVE  WireType' /\ LogicType' /\ WireInv' /\ AgreeInv' /\ LogicInv'
<1>1. UNCHANGED <<link, opened, knocking, up, down>>
  BY DEF wireVars
<1>2. UNCHANGED <<logicSeq, inner, logicStep, reading>>
  BY DEF logicVars
<1>3. WireType' /\ WireInv'
  BY <1>1, <1>2 DEF IInv, WireType, WireInv, Fresh
<1>4. LogicType' /\ LogicInv'
  BY <1>2 DEF IInv, LogicType, LogicInv
<1>5. AgreeInv'
  BY <1>1, <1>2, StillAgrees DEF IInv, AgreeInv, TaskOn, Live
<1> QED
  BY <1>3, <1>4, <1>5

-----------------------------------------------------------------------------
(* The actions of a front worker.                                          *)

LEMMA ConnectKeeps ==
    ASSUME IInv, NEW f \in Front, NEW fd \in ClientFd, NEW c \in Client, Connect(f, fd, c)
    PROVE  IInv'
<1>1. FrontType' /\ FrontInv'
  BY Connected DEF IInv
<1>2. \A g \in Front : GoesOn(g)
  <2>1. seq' = [seq EXCEPT ![f] = @ + 1] /\ UNCHANGED step
    BY DEF Connect
  <2> QED
    BY <2>1, Draws DEF IInv
<1>3. UNCHANGED <<logicVars, wireVars, faults>> /\ came' = came \cup {c}
  BY DEF Connect
<1>4. RestType'
  BY <1>3 DEF IInv, RestType
<1> QED
  BY <1>1, <1>2, <1>3, <1>4, LinkAssumption, WireUntouched DEF IInv

LEMMA DisconnectKeeps ==
    ASSUME IInv, NEW f \in Front, NEW fd \in ClientFd, Disconnect(f, fd)
    PROVE  IInv'
<1>1. FrontType' /\ FrontInv'
  BY NoOneAssumption, Disconnected DEF IInv
<1>2. UNCHANGED <<seq, step, logicVars, wireVars, came, faults>>
  BY DEF Disconnect, clientVars
<1>3. \A g \in Front : GoesOn(g)
  BY <1>2, Untouched DEF IInv
<1>4. RestType'
  BY <1>2 DEF IInv, RestType
<1> QED
  BY <1>1, <1>2, <1>3, <1>4, LinkAssumption, WireUntouched DEF IInv

LEMMA HttpRefusedKeeps ==
    ASSUME IInv, NEW f \in Front, NEW fd \in ClientFd, NEW c \in Client,
           HttpRefused(f, fd, c)
    PROVE  IInv'
<1>1. FrontType' /\ FrontInv'
  BY AskAssumption, RefusedAtOnce DEF IInv
<1>2. \A g \in Front : GoesOn(g)
  <2>1. PICK draws \in {0, 1} : seq' = [seq EXCEPT ![f] = @ + draws]
    BY DEF HttpRefused
  <2>2. draws \in Nat /\ UNCHANGED step
    BY DEF HttpRefused
  <2> QED
    BY <2>1, <2>2, Draws DEF IInv
<1>3. UNCHANGED <<logicVars, wireVars, came, faults>>
  BY DEF HttpRefused
<1>4. RestType'
  BY <1>3 DEF IInv, RestType
<1> QED
  BY <1>1, <1>2, <1>3, <1>4, LinkAssumption, WireUntouched DEF IInv

LEMMA TcpUnsentKeeps ==
    ASSUME IInv, NEW f \in Front, NEW fd \in ClientFd, NEW c \in Client,
           TcpUnsent(f, fd, c)
    PROVE  IInv'
<1>1. /\ Asks(f, fd, c) /\ Registers(f, fd, NextAsk(c))
      /\ UNCHANGED <<client, logicVars, wireVars, came, got, faults>>
  BY DEF TcpUnsent
<1>2. FrontType' /\ FrontInv'
  BY <1>1, AskAssumption, Registered DEF IInv
<1>3. \A g \in Front : GoesOn(g)
  BY <1>1, Begins DEF IInv
<1>4. RestType'
  BY <1>1 DEF IInv, RestType
<1> QED
  BY <1>1, <1>2, <1>3, <1>4, LinkAssumption, WireUntouched DEF IInv

LEMMA StepTimeoutKeeps ==
    ASSUME IInv, NEW f \in Front, NEW s \in step[f], StepTimeout(f, s)
    PROVE  IInv'
<1> DEFINE answer == Got(s.of, s.of.n, "timeout", FALSE)
<1>1. /\ step' = Ended(f, s)
      /\ UNCHANGED <<seq, client, logicVars, wireVars, came, asked, faults>>
      /\ got' = Written(f, s.shell, answer) \/ got' = got
  BY DEF StepTimeout, TimeoutAnswer
<1>2. answer \in GotType /\ answer.of = s.of /\ answer.to = s.of.n
  <2>1. s.of \in Ask /\ s.of.n \in 1 .. MaxAsk
    BY StepFacts DEF IInv, Ask
  <2> QED
    BY <2>1 DEF Got, GotType, Codes
<1>3. FrontType' /\ FrontInv'
  BY <1>1, <1>2, AskAssumption, Delivered DEF IInv
<1>4. \A g \in Front : GoesOn(g)
  BY <1>1, Ends DEF IInv
<1>5. RestType'
  BY <1>1 DEF IInv, RestType
<1> QED
  BY <1>1, <1>3, <1>4, <1>5, LinkAssumption, WireUntouched DEF IInv

\* No other front, and nothing of Logic, has the link of f.
LEMMA OwnLink ==
    ASSUME WireType, WireInv, NEW f \in Front, NEW g \in Front, g # f, link[g] # 0
    PROVE  link[g] # link[f]
BY DEF WireInv

LEMMA ReceiveKeeps ==
    ASSUME IInv, NEW f \in Front, Receive(f)
    PROVE  IInv'
<1> DEFINE k == link[f]
           m == Head(down[k])
<1>1. /\ k # 0 /\ down[k] # <<>> /\ down' = [down EXCEPT ![k] = Tail(@)]
      /\ UNCHANGED <<seq, client, logicVars, link, opened, knocking, up, came,
                     asked, faults>>
  BY DEF Receive
<1>2. k \in Link /\ down[k] \in Seq(AnswerType)
  BY <1>1, LinkAssumption, LinkFacts, QueueFacts DEF IInv
<1>3. /\ m \in AnswerType /\ Tail(down[k]) \in Seq(AnswerType)
      /\ AllAgree(seq[f], step[f], Tail(down[k]))
      /\ Agrees(seq[f], step[f], m.seq, m.of)
  BY <1>1, <1>2, HeadTail, TailAgrees DEF IInv, AgreeInv
<1>4. FrontType' /\ FrontInv' /\ \A g \in Front : GoesOn(g)
  <2>1. CASE UNCHANGED <<step, got>>
    <3>1. UNCHANGED <<frontVars, asked, got>>
      BY <1>1, <2>1 DEF frontVars
    <3> QED
      BY <3>1, <1>1, <2>1, FrontUntouched, Untouched DEF IInv
  <2>2. CASE \E s \in step[f] : /\ s.seq = m.seq
                                /\ got' = Written(f, s.shell, Passed(s, m))
                                /\ step' = Ended(f, s)
    <3>1. PICK s \in step[f] : /\ s.seq = m.seq
                               /\ got' = Written(f, s.shell, Passed(s, m))
                               /\ step' = Ended(f, s)
      BY <2>2
    <3>2. /\ Passed(s, m) \in GotType
          /\ Passed(s, m).of = s.of /\ Passed(s, m).to = s.of.n
      <4>1. s.of \in Ask /\ s.of.n \in 1 .. MaxAsk
        BY <3>1, StepFacts DEF IInv, Ask
      <4>2. m.of = s.of /\ m.code \in Codes /\ m.read \in BOOLEAN
        BY <3>1, <1>3 DEF AnswerType, Agrees
      <4> QED
        BY <4>1, <4>2 DEF Passed, Got, GotType
    <3>3. FrontType' /\ FrontInv'
      BY <3>1, <3>2, <1>1, AskAssumption, Delivered DEF IInv
    <3>4. \A g \in Front : GoesOn(g)
      BY <3>1, <1>1, Ends DEF IInv
    <3> QED
      BY <3>3, <3>4
  <2> QED
    BY <2>1, <2>2 DEF Receive
<1>5. UNCHANGED <<logicSeq, inner, logicStep, reading>>
  BY <1>1 DEF logicVars
<1>6. /\ WireType'
      /\ down'[k] = Tail(down[k])
      /\ \A j \in Link : j # k => down'[j] = down[j]
  BY <1>1, <1>2, <1>3 DEF IInv, WireType
<1>7. WireInv'
  <2>1. \A j \in Link : j > opened => Fresh(j)'
    <3> SUFFICES ASSUME NEW j \in Link, j > opened PROVE Fresh(j)'
      OBVIOUS
    <3>1. Fresh(j) /\ j # k
      BY <1>1 DEF IInv, WireInv, Fresh
    <3> QED
      BY <3>1, <1>1, <1>6 DEF Fresh
  <2> QED
    BY <2>1, <1>1, <1>5 DEF IInv, WireInv
<1>8. LogicType' /\ LogicInv'
  BY <1>5 DEF IInv, LogicType, LogicInv
<1>9. AgreeInv'
  <2> SUFFICES ASSUME NEW g \in Front, link[g] # 0
               PROVE  /\ AllAgree(seq'[g], step'[g], up[link[g]])
                      /\ AllAgree(seq'[g], step'[g], down'[link[g]])
                      /\ \A s \in logicStep :
                            TaskOn(link[g], s) => Agrees(seq'[g], step'[g], s.reqSeq, s.of)
    BY <1>1, <1>5 DEF AgreeInv, TaskOn, Live
  <2>1. /\ AllAgree(seq'[g], step'[g], up[link[g]])
        /\ AllAgree(seq'[g], step'[g], down[link[g]])
        /\ \A s \in logicStep :
              TaskOn(link[g], s) => Agrees(seq'[g], step'[g], s.reqSeq, s.of)
    BY <1>4, LinkAssumption, StillAgrees DEF IInv
  <2>2. AllAgree(seq'[g], step'[g], down'[link[g]])
    <3>1. CASE g = f
      BY <3>1, <2>1, <1>1, <1>2, <1>6, TailAgrees
    <3>2. CASE g # f
      BY <3>2, <2>1, <1>6, LinkAssumption, LinkFacts, OwnLink DEF IInv
    <3> QED
      BY <3>1, <3>2
  <2> QED
    BY <2>1, <2>2
<1>10. RestType'
  BY <1>1 DEF IInv, RestType
<1> QED
  BY <1>4, <1>6, <1>7, <1>8, <1>9, <1>10 DEF IInv

LEMMA AskFacts ==
    ASSUME FrontType, AskAssumption, NEW f \in Front, NEW a \in Ask
    PROVE  Request(seq[f] + 1, a) \in RequestType
BY DEF FrontType, Request, RequestType

\* A message for Logic that agrees with its front goes up on its link, which
\* is new or not.
LEMMA SentOn ==
    ASSUME IInv, FrontType', LinkAssumption, NEW f \in Front, NEW m \in RequestType,
           Sends(f, m), \A g \in Front : GoesOn(g),
           Agrees(seq'[f], step'[f], m.seq, m.of), UNCHANGED <<down, logicVars>>
    PROVE  WireType' /\ LogicType' /\ WireInv' /\ AgreeInv' /\ LogicInv'
<1>1. UNCHANGED <<logicSeq, inner, logicStep, reading>>
  BY DEF logicVars
<1>2. LogicType' /\ LogicInv'
  BY <1>1 DEF IInv, LogicType, LogicInv
<1>3. ASSUME NEW g \in Front, link[g] # 0
      PROVE  /\ AllAgree(seq'[g], step'[g], up[link[g]])
             /\ AllAgree(seq'[g], step'[g], down[link[g]])
             /\ \A s \in logicStep :
                   TaskOn(link[g], s) => Agrees(seq'[g], step'[g], s.reqSeq, s.of)
  BY <1>3, StillAgrees DEF IInv
<1>4. CASE /\ link[f] # 0
           /\ up' = [up EXCEPT ![link[f]] = Append(@, m)]
           /\ UNCHANGED <<link, opened, knocking>>
  <2>1. link[f] \in Link /\ up[link[f]] \in Seq(RequestType)
    BY <1>4, LinkFacts, QueueFacts DEF IInv
  <2>2. /\ up'[link[f]] = Append(up[link[f]], m)
        /\ \A j \in Link : j # link[f] => up'[j] = up[j]
        /\ WireType'
    <3>1. Append(up[link[f]], m) \in Seq(RequestType)
      BY <2>1
    <3> QED
      BY <3>1, <2>1, <1>4 DEF IInv, WireType
  <2>3. WireInv'
    <3>1. \A j \in Link : j > opened => Fresh(j)'
      <4> SUFFICES ASSUME NEW j \in Link, j > opened PROVE Fresh(j)'
        OBVIOUS
      <4>1. Fresh(j) /\ link[f] <= opened /\ opened \in Nat /\ link[f] \in Nat
        BY <2>1 DEF IInv, WireInv, WireType, Link
      <4>2. j # link[f]
        BY <4>1 DEF Link
      <4> QED
        BY <4>1, <4>2, <2>2 DEF Fresh
    <3> QED
      BY <3>1, <1>1, <1>4 DEF IInv, WireInv
  <2>4. AgreeInv'
    <3> SUFFICES ASSUME NEW g \in Front, link[g] # 0
                 PROVE  /\ AllAgree(seq'[g], step'[g], up'[link[g]])
                        /\ AllAgree(seq'[g], step'[g], down[link[g]])
                        /\ \A s \in logicStep :
                            TaskOn(link[g], s) => Agrees(seq'[g], step'[g], s.reqSeq, s.of)
      BY <1>1, <1>4 DEF AgreeInv, TaskOn, Live
    <3>1. CASE g = f
      BY <3>1, <1>3, <2>1, <2>2, AppendAgrees
    <3>2. CASE g # f
      BY <3>2, <1>3, <2>2, LinkFacts, OwnLink DEF IInv
    <3> QED
      BY <3>1, <3>2, <1>3
  <2> QED
    BY <1>2, <2>2, <2>3, <2>4
<1>5. CASE /\ link[f] = 0
           /\ opened < MaxLink
           /\ opened' = opened + 1
           /\ link' = [link EXCEPT ![f] = opened + 1]
           /\ knocking' = knocking \cup {opened + 1}
           /\ up' = [up EXCEPT ![opened + 1] = <<m>>]
  <2> DEFINE k == opened + 1
  <2>1. opened \in Nat /\ k \in Link /\ <<m>> \in Seq(RequestType) /\ k # 0
    BY <1>5 DEF IInv, WireType, Link
  <2>2. Fresh(k) /\ down[k] = <<>>
    BY <2>1 DEF IInv, WireInv, Fresh
  <2>3. /\ up'[k] = <<m>> /\ \A j \in Link : j # k => up'[j] = up[j]
        /\ link'[f] = k /\ \A g \in Front : g # f => link'[g] = link[g]
        /\ WireType'
    <3>1. /\ up' \in [Link -> Seq(RequestType)] /\ up'[k] = <<m>>
          /\ \A j \in Link : j # k => up'[j] = up[j]
      BY <1>5, <2>1 DEF IInv, WireType
    <3>2. opened' \in 0 .. MaxLink /\ k \in 0 .. MaxLink
      BY <1>5, <2>1, LinkAssumption
    <3>3. /\ link' \in [Front -> 0 .. MaxLink] /\ link'[f] = k
          /\ \A g \in Front : g # f => link'[g] = link[g]
      BY <1>5, <3>2 DEF IInv, WireType
    <3>4. knocking' \subseteq Link
      BY <1>5, <2>1 DEF IInv, WireType
    <3> QED
      BY <3>1, <3>2, <3>3, <3>4 DEF IInv, WireType
  <2>4. \A g \in Front : link[g] \in Nat /\ link[g] <= opened
    BY LinkFacts DEF IInv, WireInv
  <2>5. \A fd \in LinkFd : inner[fd].link \in Nat /\ inner[fd].link <= opened
    BY LinkAssumption DEF IInv, WireInv, LogicType, LinkAttr
  <2>6. WireInv'
    <3>1. (\A j \in Link : j > opened => Fresh(j))'
      <4> SUFFICES ASSUME NEW j \in Link, j > k PROVE Fresh(j)'
        BY <1>5
      <4>1. j # k /\ j > opened
        BY <2>1 DEF Link
      <4> QED
        BY <4>1, <2>3 DEF IInv, WireInv, Fresh
    <3>2. (\A g \in Front : link[g] <= opened)'
      BY <1>5, <2>1, <2>3, <2>4
    <3>3. (\A fd \in LinkFd : inner[fd].link <= opened)'
      BY <1>1, <1>5, <2>1, <2>5
    <3>4. (\A j \in knocking : j <= opened)'
      <4> SUFFICES ASSUME NEW j \in knocking' PROVE j <= k
        BY <1>5
      <4>1. j = k \/ (j \in Nat /\ j <= opened)
        BY <1>5 DEF IInv, WireInv, WireType, Link
      <4> QED
        BY <4>1, <2>1
    <3>5. (\A g, h \in Front : link[g] # 0 /\ link[g] = link[h] => g = h)'
      <4> SUFFICES ASSUME NEW g \in Front, NEW h \in Front, link'[g] # 0,
                          link'[g] = link'[h], g # h
                   PROVE  FALSE
        OBVIOUS
      <4>1. CASE g # f /\ h # f
        BY <4>1, <2>3 DEF IInv, WireInv
      <4>2. CASE g = f \/ h = f
        BY <4>2, <2>1, <2>3, <2>4
      <4> QED
        BY <4>1, <4>2
    <3> QED
      BY <3>1, <3>2, <3>3, <3>4, <3>5 DEF WireInv
  <2>7. AgreeInv'
    <3> SUFFICES ASSUME NEW g \in Front, link'[g] # 0
                 PROVE  /\ AllAgree(seq'[g], step'[g], up'[link'[g]])
                        /\ AllAgree(seq'[g], step'[g], down[link'[g]])
                        /\ \A s \in logicStep : TaskOn(link'[g], s) =>
                              Agrees(seq'[g], step'[g], s.reqSeq, s.of)
      BY <1>1 DEF AgreeInv, TaskOn, Live
    <3>1. CASE g = f
      <4>1. AllAgree(seq'[f], step'[f], <<m>>)
        BY DEF AllAgree
      <4>2. ~ \E s \in logicStep : TaskOn(k, s)
        <5>1. \A s \in logicStep : s.shell.fd \in LinkFd
          BY DEF IInv, LogicType, TaskType, LinkShell
        <5> QED
          BY <5>1, <2>1, <2>5 DEF TaskOn
      <4> QED
        BY <3>1, <4>1, <4>2, <2>2, <2>3, EmptyAgrees
    <3>2. CASE g # f
      <4>1. link'[g] = link[g] /\ link[g] \in Link /\ link[g] # k
        BY <3>2, <2>1, <2>3, <2>4, LinkFacts DEF IInv
      <4> QED
        BY <4>1, <1>3, <2>3
    <3> QED
      BY <3>1, <3>2
  <2> QED
    BY <1>2, <2>3, <2>6, <2>7
<1> QED
  BY <1>4, <1>5 DEF Sends

LEMMA RelayKeeps ==
    ASSUME IInv, NEW f \in Front, NEW fd \in ClientFd, NEW c \in Client, Relay(f, fd, c)
    PROVE  IInv'
<1> DEFINE m == Request(seq[f] + 1, NextAsk(c))
<1>1. /\ Asks(f, fd, c) /\ Registers(f, fd, NextAsk(c)) /\ Sends(f, m)
      /\ UNCHANGED <<client, logicVars, down, came, got, faults>>
  BY DEF Relay
<1>2. FrontType' /\ FrontInv' /\ NextAsk(c) \in Ask
  BY <1>1, AskAssumption, Registered DEF IInv
<1>3. \A g \in Front : GoesOn(g)
  BY <1>1, Begins DEF IInv
<1>4. m \in RequestType /\ m.seq = seq[f] + 1 /\ m.of = NextAsk(c)
  BY <1>2, AskAssumption, AskFacts DEF IInv, Request
<1>5. Agrees(seq'[f], step'[f], m.seq, m.of)
  BY <1>1, <1>4, Begins DEF IInv
<1>6. WireType' /\ LogicType' /\ WireInv' /\ AgreeInv' /\ LogicInv'
  BY <1>1, <1>2, <1>3, <1>4, <1>5, LinkAssumption, SentOn
<1>7. RestType'
  BY <1>1 DEF IInv, RestType
<1> QED
  BY <1>2, <1>6, <1>7 DEF IInv

\* The front's end of its connection closes, its worker goes on or starts over.
LEMMA EndGone ==
    ASSUME IInv, FrontType', LinkAssumption, NEW f \in Front, FrontEndGoes(f),
           \A g \in Front : g # f => GoesOn(g),
           UNCHANGED <<logicVars, opened, knocking, up>>
    PROVE  WireType' /\ LogicType' /\ WireInv' /\ AgreeInv' /\ LogicInv'
<1>1. UNCHANGED <<logicSeq, inner, logicStep, reading>>
  BY DEF logicVars
<1>2. /\ link' = [link EXCEPT ![f] = 0]
      /\ down' = [k \in Link |-> IF k = link[f] THEN <<>> ELSE down[k]]
  BY DEF FrontEndGoes
<1>3. /\ link'[f] = 0 /\ \A g \in Front : g # f => link'[g] = link[g]
      /\ link' \in [Front -> 0 .. MaxLink]
  BY <1>2, LinkAssumption DEF IInv, WireType
<1>4. /\ \A k \in Link : down'[k] = <<>> \/ down'[k] = down[k]
      /\ \A k \in Link : k # link[f] => down'[k] = down[k]
  BY <1>2
<1>5. down' \in [Link -> Seq(AnswerType)]
  BY <1>2 DEF IInv, WireType
<1>6. WireType'
  BY <1>3, <1>5 DEF IInv, WireType
<1>7. LogicType' /\ LogicInv'
  BY <1>1 DEF IInv, LogicType, LogicInv
<1>8. WireInv'
  <2>1. (\A k \in Link : k > opened => Fresh(k))'
    BY <1>4 DEF IInv, WireInv, Fresh
  <2>2. (\A g \in Front : link[g] <= opened)'
    <3>1. 0 <= opened
      BY DEF IInv, WireType
    <3> QED
      BY <3>1, <1>3 DEF IInv, WireInv
  <2>3. (\A g, h \in Front : link[g] # 0 /\ link[g] = link[h] => g = h)'
    BY <1>3 DEF IInv, WireInv
  <2>4. (\A fd \in LinkFd : inner[fd].link <= opened)' /\ (\A k \in knocking : k <= opened)'
    BY <1>1 DEF IInv, WireInv
  <2> QED
    BY <2>1, <2>2, <2>3, <2>4 DEF WireInv
<1>9. AgreeInv'
  <2> SUFFICES ASSUME NEW g \in Front, link'[g] # 0
               PROVE  /\ AllAgree(seq'[g], step'[g], up[link'[g]])
                      /\ AllAgree(seq'[g], step'[g], down'[link'[g]])
                      /\ \A s \in logicStep : TaskOn(link'[g], s) =>
                            Agrees(seq'[g], step'[g], s.reqSeq, s.of)
    BY <1>1 DEF AgreeInv, TaskOn, Live
  <2>1. g # f /\ link'[g] = link[g] /\ link[g] \in Link
    BY <1>3, LinkFacts DEF IInv
  <2>2. down'[link[g]] = down[link[g]]
    BY <2>1, <1>3, <1>4, OwnLink DEF IInv
  <2> QED
    BY <2>1, <2>2, <1>3, StillAgrees DEF IInv
<1> QED
  BY <1>6, <1>7, <1>8, <1>9

LEMMA FaultKeeps ==
    ASSUME FaultAssumption, faults \in 0 .. MaxFault, NEW kind,
           Fault(kind) \/ UNCHANGED faults
    PROVE  faults' \in 0 .. MaxFault
BY DEF Fault

LEMMA FrontLosesKeeps ==
    ASSUME IInv, NEW f \in Front, FrontLoses(f)
    PROVE  IInv'
<1>1. /\ FrontEndGoes(f)
      /\ UNCHANGED <<frontVars, logicVars, opened, knocking, up, clientVars>>
      /\ Fault("link") \/ UNCHANGED faults
  BY DEF FrontLoses, EndsSince
<1>2. UNCHANGED <<seq, step, came, asked, got>>
  BY <1>1 DEF frontVars, clientVars
<1>3. FrontType' /\ FrontInv'
  BY <1>1, <1>2, FrontUntouched DEF IInv
<1>4. \A g \in Front : GoesOn(g)
  BY <1>2, Untouched DEF IInv
<1>5. WireType' /\ LogicType' /\ WireInv' /\ AgreeInv' /\ LogicInv'
  BY <1>1, <1>3, <1>4, LinkAssumption, EndGone
<1>6. RestType'
  BY <1>1, <1>2, FaultAssumption, FaultKeeps DEF IInv, RestType
<1> QED
  BY <1>3, <1>5, <1>6 DEF IInv

LEMMA RestartFrontKeeps ==
    ASSUME IInv, NEW f \in Front, RestartFront(f)
    PROVE  IInv'
<1>1. /\ FrontEndGoes(f) /\ Fault("front")
      /\ seq' = [seq EXCEPT ![f] = 0] /\ step' = [step EXCEPT ![f] = {}]
      /\ UNCHANGED <<logicVars, opened, knocking, up, came>>
  BY DEF RestartFront, clientVars
<1>2. FrontType' /\ FrontInv'
  BY NoOneAssumption, Disconnected DEF IInv
<1>3. \A g \in Front : g # f => GoesOn(g)
  BY <1>1 DEF IInv, FrontType, GoesOn, Later
<1>4. WireType' /\ LogicType' /\ WireInv' /\ AgreeInv' /\ LogicInv'
  BY <1>1, <1>2, <1>3, LinkAssumption, EndGone
<1>5. RestType'
  BY <1>1, FaultAssumption, FaultKeeps DEF IInv, RestType
<1> QED
  BY <1>2, <1>4, <1>5 DEF IInv

-----------------------------------------------------------------------------
(* The actions of the Logic worker.                                        *)

\* The queues of every front agree with it, as do the tasks of Logic.
UpAgrees == \A g \in Front : link[g] # 0 => AllAgree(seq[g], step[g], up[link[g]])
DownAgrees == \A g \in Front : link[g] # 0 => AllAgree(seq[g], step[g], down[link[g]])
TasksAgree ==
    \A g \in Front : link[g] # 0 => \A s \in logicStep :
        TaskOn(link[g], s) => Agrees(seq[g], step[g], s.reqSeq, s.of)

LEMMA AgreeParts == AgreeInv <=> UpAgrees /\ DownAgrees /\ TasksAgree
BY DEF AgreeInv, UpAgrees, DownAgrees, TasksAgree

LEMMA AgreePartsPrimed == UpAgrees' /\ DownAgrees' /\ TasksAgree' => AgreeInv'
BY DEF AgreeInv, UpAgrees, DownAgrees, TasksAgree

\* What is left to show for a step of Logic.
LEMMA LogicActs ==
    ASSUME IInv, UNCHANGED <<frontVars, link, opened, clientVars>>,
           RestType', WireType', LogicType', LogicInv',
           knocking' \subseteq knocking,
           \A fd \in LinkFd : inner'[fd].link <= opened,
           \A k \in Link : k > opened => Fresh(k)',
           UpAgrees', DownAgrees', TasksAgree'
    PROVE  IInv'
<1>1. UNCHANGED <<link, opened, asked, got>>
  BY DEF clientVars
<1>2. FrontType' /\ FrontInv'
  BY <1>1, FrontUntouched DEF IInv
<1>3. WireInv'
  BY <1>1 DEF IInv, WireInv
<1>4. AgreeInv'
  BY AgreePartsPrimed
<1> QED
  BY <1>2, <1>3, <1>4 DEF IInv

LEMMA InnerFacts ==
    ASSUME WireType, WireInv, LogicType, LogicInv, LinkAssumption,
           NEW fd \in LinkFd, inner[fd] # NoLink
    PROVE  /\ inner[fd].link \in Link /\ inner[fd].link <= opened
           /\ inner[fd].seq \in Nat /\ inner[fd].seq <= logicSeq
<1>1. inner[fd] \in LinkAttr /\ inner[fd].link # 0
  BY DEF LogicType, LogicInv
<1> QED
  BY <1>1 DEF LinkAttr, Link, WireInv, LogicInv

\* A request is taken from the connection at fd.
LEMMA TakenFrom ==
    ASSUME IInv, LinkAssumption, NEW fd \in LinkFd, Takes(fd), Taken(fd),
           UNCHANGED <<frontVars, link>>
    PROVE  /\ inner[fd] # NoLink
           /\ inner[fd].link \in Link
           /\ Head(up[inner[fd].link]) \in RequestType
           /\ \A g \in Front : link[g] = inner[fd].link =>
                Agrees(seq[g], step[g], Head(up[inner[fd].link]).seq,
                       Head(up[inner[fd].link]).of)
           /\ up' \in [Link -> Seq(RequestType)]
           /\ \A j \in Link : j > opened => up'[j] = <<>>
           /\ UpAgrees'
<1> DEFINE k == inner[fd].link
<1>1. /\ inner[fd] # NoLink /\ up[k] # <<>>
      /\ up' = [up EXCEPT ![k] = Tail(@)]
      /\ UNCHANGED <<seq, step, link>>
  BY DEF Takes, Taken, frontVars
<1>2. k \in Link /\ k <= opened /\ opened \in Nat
  BY <1>1, InnerFacts DEF IInv, WireType
<1>3. up[k] \in Seq(RequestType)
  BY <1>2, QueueFacts DEF IInv
<1>4. Head(up[k]) \in RequestType /\ Tail(up[k]) \in Seq(RequestType)
  BY <1>1, <1>3, HeadTail
<1>5. /\ up' \in [Link -> Seq(RequestType)] /\ up'[k] = Tail(up[k])
      /\ \A j \in Link : j # k => up'[j] = up[j]
  BY <1>1, <1>2, <1>4 DEF IInv, WireType
<1>6. ASSUME NEW g \in Front, link[g] = k
      PROVE  /\ AllAgree(seq[g], step[g], Tail(up[k]))
             /\ Agrees(seq[g], step[g], Head(up[k]).seq, Head(up[k]).of)
  <2>1. link[g] # 0
    BY <1>2, <1>6 DEF Link
  <2>2. AllAgree(seq[g], step[g], up[k])
    BY <1>6, <2>1 DEF IInv, AgreeInv
  <2> QED
    BY <2>2, <1>1, <1>3, TailAgrees
<1>7. \A j \in Link : j > opened => up'[j] = <<>>
  <2> SUFFICES ASSUME NEW j \in Link, j > opened PROVE up'[j] = <<>>
    OBVIOUS
  <2>1. j # k
    BY <1>2 DEF Link
  <2> QED
    BY <2>1, <1>5 DEF IInv, WireInv, Fresh
<1>8. UpAgrees'
  <2> SUFFICES ASSUME NEW g \in Front, link[g] # 0
               PROVE  AllAgree(seq[g], step[g], up'[link[g]])
    BY <1>1 DEF UpAgrees
  <2>1. CASE link[g] = k
    BY <2>1, <1>5, <1>6
  <2>2. CASE link[g] # k
    BY <2>2, <1>5, LinkFacts DEF IInv, AgreeInv
  <2> QED
    BY <2>1, <2>2
<1> QED
  BY <1>1, <1>2, <1>4, <1>5, <1>6, <1>7, <1>8

\* An answer is sent on connection k.
LEMMA SentBack ==
    ASSUME IInv, LinkAssumption, NEW k \in Link, NEW m \in AnswerType, k <= opened,
           down' = [down EXCEPT ![k] = Append(@, m)],
           \A g \in Front : link[g] = k => Agrees(seq[g], step[g], m.seq, m.of),
           UNCHANGED <<frontVars, link>>
    PROVE  /\ down' \in [Link -> Seq(AnswerType)]
           /\ \A j \in Link : j > opened => down'[j] = <<>>
           /\ DownAgrees'
<1>1. UNCHANGED <<seq, step, link>>
  BY DEF frontVars
<1>2. down[k] \in Seq(AnswerType) /\ Append(down[k], m) \in Seq(AnswerType)
  BY QueueFacts DEF IInv
<1>3. /\ down' \in [Link -> Seq(AnswerType)] /\ down'[k] = Append(down[k], m)
      /\ \A j \in Link : j # k => down'[j] = down[j]
  BY <1>2 DEF IInv, WireType
<1>4. \A j \in Link : j > opened => down'[j] = <<>>
  <2> SUFFICES ASSUME NEW j \in Link, j > opened PROVE down'[j] = <<>>
    OBVIOUS
  <2>1. j # k
    BY DEF Link, IInv, WireType
  <2> QED
    BY <2>1, <1>3 DEF IInv, WireInv, Fresh
<1>5. DownAgrees'
  <2> SUFFICES ASSUME NEW g \in Front, link[g] # 0
               PROVE  AllAgree(seq[g], step[g], down'[link[g]])
    BY <1>1 DEF DownAgrees
  <2>1. AllAgree(seq[g], step[g], down[link[g]])
    BY DEF IInv, AgreeInv
  <2>2. CASE link[g] = k
    BY <2>1, <2>2, <1>2, <1>3, AppendAgrees
  <2>3. CASE link[g] # k
    BY <2>1, <2>3, <1>3, LinkFacts DEF IInv
  <2> QED
    BY <2>2, <2>3
<1> QED
  BY <1>3, <1>4, <1>5

LEMMA UnloadedKeeps ==
    ASSUME IInv, NEW fd \in LinkFd, Unloaded(fd)
    PROVE  IInv'
<1> DEFINE k == inner[fd].link
           m == Head(up[k])
           answer == Answer(m.seq, m.of, "error", FALSE)
<1>1. /\ Takes(fd) /\ Taken(fd) /\ down' = [down EXCEPT ![k] = Append(@, answer)]
      /\ UNCHANGED <<frontVars, logicVars, link, opened, knocking, clientVars, faults>>
  BY DEF Unloaded
<1>2. /\ inner[fd] # NoLink /\ k \in Link /\ m \in RequestType
      /\ \A g \in Front : link[g] = k => Agrees(seq[g], step[g], m.seq, m.of)
      /\ up' \in [Link -> Seq(RequestType)]
      /\ \A j \in Link : j > opened => up'[j] = <<>>
      /\ UpAgrees'
  BY <1>1, LinkAssumption, TakenFrom
<1>3. k <= opened
  BY <1>2, LinkAssumption, InnerFacts DEF IInv
<1>4. answer \in AnswerType /\ answer.seq = m.seq /\ answer.of = m.of
  BY <1>2 DEF Answer, AnswerType, RequestType, Codes
<1>5. /\ down' \in [Link -> Seq(AnswerType)]
      /\ \A j \in Link : j > opened => down'[j] = <<>>
      /\ DownAgrees'
  BY <1>1, <1>2, <1>3, <1>4, LinkAssumption, SentBack
<1>6. UNCHANGED <<seq, step, logicSeq, inner, logicStep, reading>>
  BY <1>1 DEF logicVars, frontVars
<1>7. TasksAgree'
  BY <1>1, <1>6 DEF IInv, AgreeInv, TasksAgree, TaskOn, Live
<1>8. LogicType' /\ LogicInv'
  BY <1>6 DEF IInv, LogicType, LogicInv
<1>9. WireType' /\ RestType'
  BY <1>1, <1>2, <1>5 DEF IInv, WireType, RestType, clientVars
<1>10. \A fd2 \in LinkFd : inner'[fd2].link <= opened
  BY <1>6 DEF IInv, WireInv
<1>11. \A j \in Link : j > opened => Fresh(j)'
  BY <1>2, <1>5 DEF Fresh
<1> QED
  BY <1>1, <1>2, <1>5, <1>7, <1>8, <1>9, <1>10, <1>11, LogicActs

LEMMA TaskFacts ==
    ASSUME LogicType, NEW s \in logicStep
    PROVE  /\ s.seq \in Nat /\ s.reqSeq \in Nat /\ s.of \in Ask
           /\ s.shell.fd \in LinkFd /\ s.shell.seq \in Nat
           /\ inner[s.shell.fd].seq \in Nat
<1>1. s.seq \in Nat /\ s.reqSeq \in Nat /\ s.of \in Ask /\ s.shell \in LinkShell
  BY DEF LogicType, TaskType
<1>2. s.shell.fd \in LinkFd /\ s.shell.seq \in Nat
  BY <1>1 DEF LinkShell
<1>3. inner[s.shell.fd] \in LinkAttr
  BY <1>2 DEF LogicType
<1> QED
  BY <1>1, <1>2, <1>3 DEF LinkAttr

\* A connection is handed over: no task has a shell of the sequence it gets.
LEMMA LogicAcceptsKeeps ==
    ASSUME IInv, NEW fd \in LinkFd, NEW k \in Link, LogicAccepts(fd, k)
    PROVE  IInv'
<1>1. /\ k \in knocking /\ logicSeq' = logicSeq + 1
      /\ inner' = [inner EXCEPT ![fd] = [seq |-> logicSeq + 1, link |-> k]]
      /\ knocking' = knocking \ {k}
      /\ UNCHANGED <<frontVars, logicStep, reading, link, opened, up, down,
                     clientVars, faults>>
  BY DEF LogicAccepts
<1>2. UNCHANGED <<seq, step>> /\ logicSeq \in Nat /\ k \in Nat /\ k # 0 /\ k <= opened
  BY <1>1 DEF frontVars, IInv, LogicType, Link, WireInv
<1>3. [seq |-> logicSeq + 1, link |-> k] \in LinkAttr
  BY <1>2 DEF LinkAttr, Link
<1>4. /\ inner'[fd] = [seq |-> logicSeq + 1, link |-> k]
      /\ \A fd2 \in LinkFd : fd2 # fd => inner'[fd2] = inner[fd2]
      /\ inner' \in [LinkFd -> LinkAttr]
  BY <1>1, <1>3 DEF IInv, LogicType
<1>5. LogicType' /\ WireType' /\ RestType'
  <2>1. LogicType'
    BY <1>1, <1>2, <1>4 DEF IInv, LogicType
  <2>2. WireType'
    BY <1>1 DEF IInv, WireType
  <2>3. RestType'
    BY <1>1 DEF IInv, RestType, clientVars
  <2> QED
    BY <2>1, <2>2, <2>3
<1>6. LogicInv'
  <2>1. ASSUME NEW fd2 \in LinkFd
        PROVE  inner'[fd2].seq <= logicSeq' /\ (inner'[fd2] # NoLink => inner'[fd2].link # 0)
    <3>1. inner[fd2].seq \in Nat /\ inner[fd2].seq <= logicSeq
      BY DEF IInv, LogicInv, LogicType, LinkAttr
    <3> QED
      BY <3>1, <1>1, <1>2, <1>4 DEF IInv, LogicInv
  <2>2. \A s \in logicStep : s.seq <= logicSeq' /\ s.shell.seq <= logicSeq'
    BY <1>1, <1>2, TaskFacts DEF IInv, LogicInv
  <2>3. \A r \in reading : r.seq <= logicSeq'
    BY <1>1, <1>2 DEF IInv, LogicInv, LogicType, RequestType
  <2> QED
    BY <1>1, <2>1, <2>2, <2>3 DEF IInv, LogicInv
<1>7. \A fd2 \in LinkFd : inner'[fd2].link <= opened
  BY <1>2, <1>4 DEF IInv, WireInv
<1>8. TasksAgree'
  <2> SUFFICES ASSUME NEW g \in Front, link[g] # 0, NEW s \in logicStep, TaskOn(link[g], s)'
               PROVE  Agrees(seq[g], step[g], s.reqSeq, s.of)
    BY <1>1, <1>2 DEF TasksAgree
  <2>1. s.shell.fd \in LinkFd /\ s.shell.seq \in Nat /\ s.shell.seq <= logicSeq
    BY TaskFacts DEF IInv, LogicInv
  <2>2. s.shell.fd # fd
    BY <2>1, <1>1, <1>2, <1>4 DEF TaskOn, Live
  <2>3. TaskOn(link[g], s)
    BY <2>1, <2>2, <1>1, <1>4 DEF TaskOn, Live
  <2> QED
    BY <2>3 DEF IInv, AgreeInv
<1>9. UpAgrees' /\ DownAgrees'
  BY <1>1, <1>2 DEF IInv, AgreeInv, UpAgrees, DownAgrees
<1>10. \A j \in Link : j > opened => Fresh(j)'
  BY <1>1 DEF IInv, WireInv, Fresh
<1> QED
  BY <1>1, <1>5, <1>6, <1>7, <1>8, <1>9, <1>10, LogicActs

LEMMA ServeKeeps ==
    ASSUME IInv, NEW fd \in LinkFd, Serve(fd)
    PROVE  IInv'
<1> DEFINE k == inner[fd].link
           m == Head(up[k])
<1>1. PICK new : new = LogicTask(logicSeq + 1, Shell(fd, inner[fd].seq), m.of, m.seq)
  OBVIOUS
<1>2. PICK r : r = Request(logicSeq + 1, m.of)
  OBVIOUS
<1>3. /\ Takes(fd) /\ Taken(fd) /\ logicSeq' = logicSeq + 1
      /\ logicStep' = logicStep \cup {new} /\ reading' = reading \cup {r}
      /\ UNCHANGED <<frontVars, inner, link, opened, knocking, down, clientVars, faults>>
  BY <1>1, <1>2 DEF Serve
<1>4. /\ inner[fd] # NoLink /\ k \in Link /\ m \in RequestType
      /\ \A g \in Front : link[g] = k => Agrees(seq[g], step[g], m.seq, m.of)
      /\ up' \in [Link -> Seq(RequestType)]
      /\ \A j \in Link : j > opened => up'[j] = <<>>
      /\ UpAgrees'
  BY <1>3, LinkAssumption, TakenFrom
<1>5. /\ logicSeq \in Nat /\ inner[fd].seq \in Nat /\ inner[fd].seq <= logicSeq
      /\ m.seq \in Nat /\ m.of \in Ask /\ UNCHANGED <<seq, step>>
  BY <1>3, <1>4, LinkAssumption, InnerFacts DEF IInv, LogicType, RequestType, frontVars
<1>6. /\ new.seq = logicSeq + 1 /\ new.shell.fd = fd /\ new.shell.seq = inner[fd].seq
      /\ new.of = m.of /\ new.reqSeq = m.seq
      /\ r.seq = logicSeq + 1 /\ r.of = m.of
  BY <1>1, <1>2 DEF LogicTask, Shell, Request
<1>7. new \in TaskType /\ r \in RequestType
  BY <1>1, <1>2, <1>5 DEF LogicTask, Shell, Request, TaskType, LinkShell, RequestType
<1>8. LogicType' /\ WireType' /\ RestType'
  <2>1. LogicType'
    BY <1>3, <1>5, <1>7 DEF IInv, LogicType
  <2>2. WireType'
    BY <1>3, <1>4 DEF IInv, WireType
  <2>3. RestType'
    BY <1>3 DEF IInv, RestType, clientVars
  <2> QED
    BY <2>1, <2>2, <2>3
<1>9. \A s \in logicStep : s.seq \in Nat /\ s.shell.seq \in Nat
                           /\ s.seq <= logicSeq /\ s.shell.seq <= logicSeq
  BY TaskFacts DEF IInv, LogicInv
<1>10. \A q \in reading : q.seq \in Nat /\ q.seq <= logicSeq
  BY DEF IInv, LogicInv, LogicType, RequestType
<1>11. LogicInv'
  <2>1. ASSUME NEW fd2 \in LinkFd
        PROVE  inner[fd2].seq <= logicSeq' /\ (inner[fd2] # NoLink => inner[fd2].link # 0)
    <3>1. inner[fd2].seq \in Nat /\ inner[fd2].seq <= logicSeq
      BY DEF IInv, LogicInv, LogicType, LinkAttr
    <3> QED
      BY <3>1, <1>3, <1>5 DEF IInv, LogicInv
  <2>2. \A s \in logicStep' : s.seq <= logicSeq' /\ s.shell.seq <= logicSeq'
    BY <1>3, <1>5, <1>6, <1>9
  <2>3. \A q \in reading' : q.seq <= logicSeq'
    BY <1>3, <1>5, <1>6, <1>10
  <2>4. \A q \in reading', s \in logicStep' : q.seq = s.seq => q.of = s.of
    BY <1>3, <1>5, <1>6, <1>9, <1>10 DEF IInv, LogicInv
  <2> QED
    BY <1>3, <2>1, <2>2, <2>3, <2>4 DEF LogicInv
<1>12. TasksAgree'
  <2> SUFFICES ASSUME NEW g \in Front, link[g] # 0, NEW s \in logicStep', TaskOn(link[g], s)
               PROVE  Agrees(seq[g], step[g], s.reqSeq, s.of)
    BY <1>3, <1>5 DEF TasksAgree, TaskOn, Live
  <2>1. CASE s = new
    BY <2>1, <1>4, <1>6 DEF TaskOn
  <2>2. CASE s \in logicStep
    BY <2>2 DEF IInv, AgreeInv
  <2> QED
    BY <2>1, <2>2, <1>3
<1>13. DownAgrees'
  BY <1>3, <1>5 DEF IInv, AgreeInv, DownAgrees
<1>14. \A fd2 \in LinkFd : inner'[fd2].link <= opened
  BY <1>3 DEF IInv, WireInv
<1>15. \A j \in Link : j > opened => Fresh(j)'
  BY <1>3, <1>4 DEF IInv, WireInv, Fresh
<1> QED
  BY <1>3, <1>4, <1>8, <1>11, <1>12, <1>13, <1>14, <1>15, LogicActs

\* Requests are lost with the worker or the connection they were sent on.
LEMMA RequestsLost ==
    ASSUME IInv, UNCHANGED <<frontVars, link>>,
           \A k \in Link : up'[k] \in {<<>>, up[k]}, LinkAssumption
    PROVE  /\ UpAgrees'
           /\ \A k \in Link : k > opened => up'[k] = <<>>
<1>1. UNCHANGED <<seq, step, link>>
  BY DEF frontVars
<1>2. UpAgrees'
  <2> SUFFICES ASSUME NEW g \in Front, link[g] # 0
               PROVE  AllAgree(seq[g], step[g], up'[link[g]])
    BY <1>1 DEF UpAgrees
  <2>1. up'[link[g]] \in {<<>>, up[link[g]]}
    BY LinkFacts DEF IInv
  <2> QED
    BY <2>1, EmptyAgrees DEF IInv, AgreeInv
<1>3. \A k \in Link : k > opened => up'[k] = <<>>
  BY DEF IInv, WireInv, Fresh
<1> QED
  BY <1>2, <1>3

LEMMA LogicGone ==
    ASSUME IInv, LogicDies, RestType',
           UNCHANGED <<frontVars, link, opened, knocking, down, clientVars>>
    PROVE  IInv'
<1>1. /\ logicSeq' = 0 /\ inner' = [fd \in LinkFd |-> NoLink]
      /\ logicStep' = {} /\ reading' = {}
      /\ up' = [k \in Link |->
            IF \E fd \in LinkFd : inner[fd].link = k THEN <<>> ELSE up[k]]
  BY DEF LogicDies
<1>2. UNCHANGED <<seq, step>>
  BY DEF frontVars
<1>3. NoLink \in LinkAttr /\ NoLink.seq = 0 /\ NoLink.link = 0
  BY LinkAssumption DEF NoLink, LinkAttr
<1>4. LogicType' /\ LogicInv'
  BY <1>1, <1>3 DEF LogicType, LogicInv
<1>5. \A k \in Link : up'[k] \in {<<>>, up[k]}
  BY <1>1
<1>6. up' \in [Link -> Seq(RequestType)]
  <2>1. <<>> \in Seq(RequestType) /\ \A k \in Link : up[k] \in Seq(RequestType)
    BY QueueFacts DEF IInv
  <2> QED
    BY <2>1, <1>1
<1>7. WireType'
  BY <1>6 DEF IInv, WireType
<1>8. UpAgrees' /\ \A k \in Link : k > opened => up'[k] = <<>>
  BY <1>5, LinkAssumption, RequestsLost
<1>9. DownAgrees' /\ TasksAgree'
  BY <1>1, <1>2 DEF IInv, AgreeInv, DownAgrees, TasksAgree
<1>10. \A k \in Link : k > opened => Fresh(k)'
  BY <1>8 DEF IInv, WireInv, Fresh
<1>11. \A fd \in LinkFd : inner'[fd].link <= opened
  BY <1>1, <1>3 DEF IInv, WireType
<1> QED
  BY <1>4, <1>7, <1>8, <1>9, <1>10, <1>11, LogicActs

LEMMA RefuseKeeps ==
    ASSUME IInv, NEW fd \in LinkFd, Refuse(fd)
    PROVE  IInv'
<1>1. /\ LogicDies
      /\ UNCHANGED <<frontVars, link, opened, knocking, down, clientVars, faults>>
  BY DEF Refuse
<1>2. RestType'
  BY <1>1 DEF IInv, RestType, clientVars
<1> QED
  BY <1>1, <1>2, LogicGone

LEMMA RestartLogicKeeps ==
    ASSUME IInv, RestartLogic
    PROVE  IInv'
<1>1. /\ LogicDies /\ Fault("logic")
      /\ UNCHANGED <<frontVars, link, opened, knocking, down, clientVars>>
  BY DEF RestartLogic
<1>2. RestType'
  BY <1>1, FaultAssumption, FaultKeeps DEF IInv, RestType, clientVars
<1> QED
  BY <1>1, <1>2, LogicGone

LEMMA LogicLosesKeeps ==
    ASSUME IInv, NEW fd \in LinkFd, LogicLoses(fd)
    PROVE  IInv'
<1> DEFINE k == inner[fd].link
<1>1. /\ inner[fd] # NoLink /\ inner' = [inner EXCEPT ![fd] = NoLink]
      /\ up' = [up EXCEPT ![k] = <<>>]
      /\ UNCHANGED <<frontVars, logicSeq, logicStep, reading, link, opened,
                     knocking, down, clientVars>>
      /\ Fault("link") \/ UNCHANGED faults
  BY DEF LogicLoses, EndsSince
<1>2. k \in Link /\ UNCHANGED <<seq, step>>
  BY <1>1, LinkAssumption, InnerFacts DEF IInv, frontVars
<1>3. NoLink \in LinkAttr /\ NoLink.seq = 0 /\ NoLink.link = 0
  BY LinkAssumption DEF NoLink, LinkAttr
<1>4. /\ inner' \in [LinkFd -> LinkAttr] /\ inner'[fd] = NoLink
      /\ \A fd2 \in LinkFd : fd2 # fd => inner'[fd2] = inner[fd2]
  BY <1>1, <1>3 DEF IInv, LogicType
<1>5. /\ up' \in [Link -> Seq(RequestType)]
      /\ \A j \in Link : up'[j] \in {<<>>, up[j]}
  <2>1. <<>> \in Seq(RequestType)
    OBVIOUS
  <2> QED
    BY <2>1, <1>1, <1>2 DEF IInv, WireType
<1>6. LogicType' /\ WireType'
  BY <1>1, <1>4, <1>5 DEF IInv, LogicType, WireType
<1>7. RestType'
  BY <1>1, FaultAssumption, FaultKeeps DEF IInv, RestType, clientVars
<1>8. LogicInv'
  <2>1. ASSUME NEW fd2 \in LinkFd
        PROVE  inner'[fd2].seq <= logicSeq /\ (inner'[fd2] # NoLink => inner'[fd2].link # 0)
    <3>1. logicSeq \in Nat
      BY DEF IInv, LogicType
    <3> QED
      BY <3>1, <1>3, <1>4 DEF IInv, LogicInv
  <2> QED
    BY <1>1, <2>1 DEF IInv, LogicInv
<1>9. UpAgrees' /\ \A j \in Link : j > opened => up'[j] = <<>>
  BY <1>1, <1>5, LinkAssumption, RequestsLost
<1>10. DownAgrees'
  BY <1>1, <1>2 DEF IInv, AgreeInv, DownAgrees
<1>11. TasksAgree'
  <2> SUFFICES ASSUME NEW g \in Front, link[g] # 0, NEW s \in logicStep, TaskOn(link[g], s)'
               PROVE  Agrees(seq[g], step[g], s.reqSeq, s.of)
    BY <1>1, <1>2 DEF TasksAgree
  <2>1. s.shell.fd \in LinkFd
    BY TaskFacts DEF IInv
  <2>2. s.shell.fd # fd
    BY <1>1, <1>3, <1>4 DEF TaskOn, Live
  <2>3. TaskOn(link[g], s)
    BY <2>1, <2>2, <1>1, <1>4 DEF TaskOn, Live
  <2> QED
    BY <2>3 DEF IInv, AgreeInv
<1>12. \A fd2 \in LinkFd : inner'[fd2].link <= opened
  BY <1>3, <1>4 DEF IInv, WireInv, WireType
<1>13. \A j \in Link : j > opened => Fresh(j)'
  BY <1>1, <1>9 DEF IInv, WireInv, Fresh
<1> QED
  BY <1>1, <1>6, <1>7, <1>8, <1>9, <1>10, <1>11, <1>12, <1>13, LogicActs

\* A task ends, with an answer where its shell is live.
LEMMA Acknowledged ==
    ASSUME IInv, NEW s \in logicStep, NEW read \in BOOLEAN, Acknowledge(s, s.of, read),
           UNCHANGED <<frontVars, logicSeq, inner, reading, link, opened, knocking,
                       up, clientVars, faults>>
    PROVE  IInv'
<1> DEFINE attr == inner[s.shell.fd]
           answer == Answer(s.reqSeq, s.of, "ok", read)
<1>1. /\ logicStep' = logicStep \ {s}
      /\ Live(attr, s.shell) =>
            down' = [down EXCEPT ![attr.link] = Append(@, answer)]
      /\ ~ Live(attr, s.shell) => UNCHANGED down
  BY DEF Acknowledge
<1>2. UNCHANGED <<seq, step>>
  BY DEF frontVars
<1>3. s.shell.fd \in LinkFd /\ s.reqSeq \in Nat /\ s.of \in Ask
  BY TaskFacts DEF IInv
<1>4. answer \in AnswerType /\ answer.seq = s.reqSeq /\ answer.of = s.of
  BY <1>3 DEF Answer, AnswerType, Codes
<1>5. /\ down' \in [Link -> Seq(AnswerType)]
      /\ \A j \in Link : j > opened => down'[j] = <<>>
      /\ DownAgrees'
  <2>1. CASE Live(attr, s.shell)
    <3>1. attr # NoLink
      BY <2>1 DEF Live, NoLink
    <3>2. attr.link \in Link /\ attr.link <= opened
      BY <3>1, <1>3, LinkAssumption, InnerFacts DEF IInv
    <3>3. ASSUME NEW g \in Front, link[g] = attr.link
          PROVE  Agrees(seq[g], step[g], answer.seq, answer.of)
      <4>1. link[g] # 0 /\ TaskOn(link[g], s)
        BY <3>2, <3>3, <2>1 DEF TaskOn, Link
      <4> QED
        BY <4>1, <1>4 DEF IInv, AgreeInv
    <3> QED
      BY <2>1, <3>2, <3>3, <1>1, <1>4, LinkAssumption, SentBack
  <2>2. CASE ~ Live(attr, s.shell)
    BY <2>2, <1>1, <1>2 DEF IInv, WireType, WireInv, Fresh, AgreeInv, DownAgrees
  <2> QED
    BY <2>1, <2>2
<1>6. LogicType' /\ LogicInv'
  BY <1>1 DEF IInv, LogicType, LogicInv
<1>7. WireType' /\ RestType'
  BY <1>5 DEF IInv, WireType, RestType, clientVars
<1>8. UpAgrees' /\ TasksAgree'
  BY <1>1, <1>2 DEF IInv, AgreeInv, UpAgrees, TasksAgree, TaskOn, Live
<1>9. \A fd \in LinkFd : inner'[fd].link <= opened
  BY DEF IInv, WireInv
<1>10. \A j \in Link : j > opened => Fresh(j)'
  BY <1>5 DEF IInv, WireInv, Fresh
<1> QED
  BY <1>5, <1>6, <1>7, <1>8, <1>9, <1>10, LogicActs

LEMMA DataProxyAnswersKeeps ==
    ASSUME IInv, NEW s \in logicStep, NEW r \in reading, DataProxyAnswers(r, s)
    PROVE  IInv'
<1>1. r.of = s.of
  BY DEF DataProxyAnswers, IInv, LogicInv
<1>2. PICK read \in BOOLEAN : Acknowledge(s, s.of, read)
  BY <1>1 DEF DataProxyAnswers
<1> QED
  BY <1>2, Acknowledged DEF DataProxyAnswers

LEMMA LogicTimeoutKeeps ==
    ASSUME IInv, NEW s \in logicStep, LogicTimeout(s)
    PROVE  IInv'
BY Acknowledged DEF LogicTimeout

-----------------------------------------------------------------------------
(* The theorems.                                                           *)

LEMMA InitIInv ==
    ASSUME Init
    PROVE  IInv
<1>1. MaxLink \in Nat /\ MaxAsk \in Nat /\ MaxFault \in Nat
  BY LinkAssumption, AskAssumption, FaultAssumption
<1>2. FrontType
  <2>1. NoClient \in ClientAttr
    BY DEF NoClient, ClientAttr
  <2>2. \A c \in Client : <<>> \in Seq(GotType)
    OBVIOUS
  <2> QED
    BY <1>1, <2>1, <2>2 DEF Init, FrontType
<1>3. WireType
  <2>1. <<>> \in Seq(RequestType) /\ <<>> \in Seq(AnswerType)
    OBVIOUS
  <2> QED
    BY <1>1, <2>1 DEF Init, WireType
<1>4. NoLink \in LinkAttr /\ NoLink.seq = 0 /\ NoLink.link = 0
  BY <1>1 DEF NoLink, LinkAttr
<1>5. LogicType /\ LogicInv
  BY <1>4 DEF Init, LogicType, LogicInv
<1>6. RestType
  BY <1>1 DEF Init, RestType
<1>7. FrontInv
  <2>1. NoClient.seq = 0
    BY DEF NoClient
  <2>2. \A c \in Client : got[c] = <<>> /\ asked[c] = 0
    BY DEF Init
  <2>3. AnswerMatches /\ GotAsked
    BY <2>2 DEF AnswerMatches, GotAsked
  <2> QED
    BY <2>1, <2>3 DEF Init, FrontInv, OneStep
<1>8. WireInv
  BY <1>4 DEF Init, WireInv, Fresh
<1>9. AgreeInv
  BY DEF Init, AgreeInv
<1> QED
  BY <1>2, <1>3, <1>5, <1>6, <1>7, <1>8, <1>9 DEF IInv

LEMMA FrontNextKeeps ==
    ASSUME IInv, NEW f \in Front, FrontNext(f)
    PROVE  IInv'
<1>1. CASE \E fd \in ClientFd, c \in Client :
             \/ Connect(f, fd, c)
             \/ HttpRefused(f, fd, c)
             \/ TcpUnsent(f, fd, c)
             \/ Relay(f, fd, c)
  BY <1>1, ConnectKeeps, HttpRefusedKeeps, TcpUnsentKeeps, RelayKeeps
<1>2. CASE \E fd \in ClientFd : Disconnect(f, fd)
  BY <1>2, DisconnectKeeps
<1>3. CASE Receive(f)
  BY <1>3, ReceiveKeeps
<1>4. CASE \E s \in step[f] : StepTimeout(f, s)
  BY <1>4, StepTimeoutKeeps
<1>5. CASE FrontLoses(f)
  BY <1>5, FrontLosesKeeps
<1>6. CASE RestartFront(f)
  BY <1>6, RestartFrontKeeps
<1> QED
  BY <1>1, <1>2, <1>3, <1>4, <1>5, <1>6 DEF FrontNext

LEMMA LogicNextKeeps ==
    ASSUME IInv, LogicNext
    PROVE  IInv'
<1>1. CASE \E fd \in LinkFd, k \in Link : LogicAccepts(fd, k)
  BY <1>1, LogicAcceptsKeeps
<1>2. CASE \E fd \in LinkFd : Unloaded(fd) \/ Serve(fd) \/ Refuse(fd) \/ LogicLoses(fd)
  BY <1>2, UnloadedKeeps, ServeKeeps, RefuseKeeps, LogicLosesKeeps
<1>3. CASE \E s \in logicStep : \E r \in reading : DataProxyAnswers(r, s)
  BY <1>3, DataProxyAnswersKeeps
<1>4. CASE \E s \in logicStep : LogicTimeout(s)
  BY <1>4, LogicTimeoutKeeps
<1>5. CASE RestartLogic
  BY <1>5, RestartLogicKeeps
<1> QED
  BY <1>1, <1>2, <1>3, <1>4, <1>5 DEF LogicNext

LEMMA StutterKeeps ==
    ASSUME IInv, UNCHANGED vars
    PROVE  IInv'
<1>1. /\ UNCHANGED <<frontVars, logicVars, wireVars, clientVars>>
      /\ UNCHANGED <<came, asked, got, faults>>
      /\ UNCHANGED <<seq, client, step>>
  BY DEF vars, clientVars, frontVars
<1>2. FrontType' /\ FrontInv'
  BY <1>1, FrontUntouched DEF IInv
<1>3. \A g \in Front : GoesOn(g)
  BY <1>1, Untouched DEF IInv
<1>4. RestType'
  BY <1>1 DEF IInv, RestType
<1> QED
  BY <1>1, <1>2, <1>3, <1>4, LinkAssumption, WireUntouched DEF IInv

LEMMA NextIInv ==
    ASSUME IInv, [Next]_vars
    PROVE  IInv'
BY FrontNextKeeps, LogicNextKeeps, StutterKeeps DEF Next

LEMMA IInvType == IInv => TypeOK
BY DEF IInv, FrontType, WireType, LogicType, RestType, TypeOK, StepType, TaskType,
       RequestType, AnswerType, GotType

LEMMA Invariance == Spec => []IInv
BY InitIInv, NextIInv, PTL DEF Spec

\* Every variable keeps its type, whatever fails and whoever is restarted.
THEOREM TypeCorrect == Spec => []TypeOK
BY Invariance, IInvType, PTL

\* No client ever gets an answer that was meant for another client, for a
\* request of its own that was answered before, or for a front worker that is
\* gone: over HTTP the i-th answer is the one to its i-th request, over Access
\* an answer is the one to the request whose sequence it carries, however many
\* the client has out and however many of them are never answered.
THEOREM AnswersMatch == Spec => []AnswerMatches
<1>1. IInv => AnswerMatches
  BY DEF IInv, FrontInv
<1> QED
  BY <1>1, Invariance, PTL

=============================================================================
