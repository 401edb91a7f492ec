-------------------------- MODULE DataProxy_proofs --------------------------
(***************************************************************************)
(* Proofs about DataProxy, for any requests, fields and faults: its        *)
(* variables keep their types; a client is told of success at most once and*)
(* never after it was told of a failure (OneVerdict); and a write to both  *)
(* stores that was accepted gets to the database, or a failure of it is    *)
(* answered or logged (AcceptedIsApplied); and a record the cache keeps and*)
(* the database does not have expires (StaleExpires).  And it implements   *)
(* RecordService (OneService).                                             *)
(*                                                                         *)
(* A request is carried by one thing at a time that may still report       *)
(* success: a main step in one of the lists of Redis steps (OneMain), or a *)
(* StepSendToDbAgent that still needs a response.  While it is, nothing    *)
(* has been answered (EntriesOK, AgentOK).  A write is at every moment in a*)
(* step that leads to the database, or reported, or applied (Outcomes), and*)
(* a DbAgent reports success only of what it has executed (RepliesTrue).   *)
(*                                                                         *)
(* For StaleExpires one follows the list of the master: what it stores is  *)
(* that of the last write the list has done, else that of the last write on*)
(* its way to the DbAgent, else that of the database (InLine); or it will  *)
(* expire (Expiring); or a write was lost whose step will report it        *)
(* (Forsaken).                                                             *)
(*                                                                         *)
(* For OneService a request is either in a main step of a list, or on its  *)
(* way to a DbAgent, or executed, and never in two of these (Place).       *)
(***************************************************************************)
EXTENDS DataProxy, SequenceTheorems, FiniteSetTheorems, TLAPS

Lists == [Node -> Seq(Entry)]

\* The commands in the lists ld.
EntriesOf(ld) == {e \in Entry : \E n \in Node : \E i \in 1 .. Len(ld[n]) : ld[n][i] = e}

\* The steps that answer their client.
Main == {"read", "write", "forWrite"}

\* A request that has not been made has left no trace.
Fresh ==
    \A r \in Request : asked[r] = "none" =>
        answers[r] = <<>> /\ readNum[r] = 0 /\ dbStep[r] = "none"

\* A command belongs to a request, of the kind its step is for; a read has been
\* counted; while a main step waits nothing has been answered and no
\* StepSendToDbAgent waits beside it.
EntriesOK ==
    \A e \in EntriesOf(listData) :
        /\ asked[e.r] # "none"
        /\ e.step \in {"write", "forWrite"} => asked[e.r] \in Writes
        /\ e.step = "read" => readNum[e.r] = 1
        /\ e.step \in Main => answers[e.r] = <<>> /\ dbStep[e.r] = "none"

\* The lists ld have at most one main step of a request.
OneMain(ld) ==
    \A n1, n2 \in Node : \A i \in 1 .. Len(ld[n1]), j \in 1 .. Len(ld[n2]) :
        /\ ld[n1][i].r = ld[n2][j].r
        /\ ld[n1][i].step \in Main /\ ld[n2][j].step \in Main
        => n1 = n2 /\ i = j

\* They have none of request r.
NoMain(ld, r) == \A e \in EntriesOf(ld) : e.r = r => e.step \notin Main

\* A StepSendToDbAgent that needs a response is the first to answer.
AgentOK == \A r \in Request : dbStep[r] = "answers" => answers[r] = <<>>

IInv ==
    /\ TypeOK
    /\ Fresh
    /\ EntriesOK
    /\ OneMain(listData)
    /\ AgentOK
    /\ OneVerdict

-----------------------------------------------------------------------------
(* Values and commands.                                                    *)

LEMMA MergedTyped ==
    ASSUME NEW k, NEW r \in Request, NEW v \in Value
    PROVE  Merged(k, r, v) \in Value
<1>1. [f \in Field |-> r] \in Record
  BY DEF Record
<1>2. ASSUME v # Absent PROVE [v EXCEPT ![Part[r]] = r] \in Record
  <2>1. v \in Record
    BY <1>2 DEF Value
  <2> QED BY <2>1 DEF Record
<1> QED
  BY <1>1, <1>2 DEF Merged, Value

LEMMA CommandTyped ==
    ASSUME NEW s \in RedisStep, NEW r \in Request, NEW v \in Value,
           s = "writeBack" => v \in Record
    PROVE  /\ Command(s, r, v) \in Entry
           /\ Command(s, r, v).step = s
           /\ Command(s, r, v).r = r
BY DEF Command, Entry

LEMMA AbsentIsValue == Absent \in Value /\ Absent \notin Record
BY AbsentAssumption DEF Value, Record

-----------------------------------------------------------------------------
(* The lists of Redis steps.                                               *)

\* A command is put at the end of a list.
LEMMA AppendToLists ==
    ASSUME NEW ld \in Lists, NEW n \in Node, NEW e \in Entry, OneMain(ld),
           e.step \in Main => NoMain(ld, e.r),
           NEW new, new = [ld EXCEPT ![n] = Append(@, e)]
    PROVE  /\ new \in Lists
           /\ EntriesOf(new) \subseteq EntriesOf(ld) \cup {e}
           /\ OneMain(new)
<1>1. new \in Lists
  BY DEF Lists
<1>2. ASSUME NEW m \in Node, NEW i \in 1 .. Len(new[m])
      PROVE  \/ i \in 1 .. Len(ld[m]) /\ new[m][i] = ld[m][i] /\ new[m][i] \in EntriesOf(ld)
             \/ m = n /\ i = Len(ld[n]) + 1 /\ new[m][i] = e
  <2>1. ld[m] \in Seq(Entry)
    BY DEF Lists
  <2>2. CASE m = n
    <3>1. new[m] = Append(ld[m], e)
      BY <2>2 DEF Lists
    <3>2. CASE i = Len(ld[m]) + 1
      BY <2>1, <2>2, <3>1, <3>2
    <3>3. CASE i # Len(ld[m]) + 1
      <4>1. i \in 1 .. Len(ld[m]) /\ new[m][i] = ld[m][i]
        BY <2>1, <3>1, <3>3
      <4>2. ld[m][i] \in Entry
        BY <2>1, <4>1
      <4> QED BY <4>1, <4>2 DEF EntriesOf
    <3> QED BY <3>2, <3>3
  <2>3. CASE m # n
    <3>1. new[m] = ld[m]
      BY <2>3 DEF Lists
    <3>2. i \in 1 .. Len(ld[m])
      BY <3>1, Zenon
    <3>3. ld[m][i] \in Entry
      BY <2>1, <3>2
    <3> QED BY <3>1, <3>2, <3>3 DEF EntriesOf
  <2> QED BY <2>2, <2>3
<1>3. EntriesOf(new) \subseteq EntriesOf(ld) \cup {e}
  <2> SUFFICES ASSUME NEW x \in EntriesOf(new) PROVE x \in EntriesOf(ld) \cup {e}
    OBVIOUS
  <2>a. PICK m \in Node : \E k \in 1 .. Len(new[m]) : new[m][k] = x
    BY DEF EntriesOf
  <2>1. PICK i \in 1 .. Len(new[m]) : new[m][i] = x
    BY <2>a
  <2> QED BY <2>1, <1>2
<1>4. OneMain(new)
  <2> SUFFICES ASSUME NEW n1 \in Node, NEW n2 \in Node,
                      NEW i \in 1 .. Len(new[n1]), NEW j \in 1 .. Len(new[n2]),
                      new[n1][i].r = new[n2][j].r,
                      new[n1][i].step \in Main, new[n2][j].step \in Main
               PROVE  n1 = n2 /\ i = j
    BY DEF OneMain
  <2>1. CASE n1 = n /\ i = Len(ld[n]) + 1 /\ new[n1][i] = e
    <3>1. ~ (new[n2][j] \in EntriesOf(ld))
      BY <2>1 DEF NoMain
    <3> QED BY <1>2, <2>1, <3>1
  <2>2. CASE n2 = n /\ j = Len(ld[n]) + 1 /\ new[n2][j] = e
    <3>1. ~ (new[n1][i] \in EntriesOf(ld))
      BY <2>2 DEF NoMain
    <3> QED BY <1>2, <2>2, <3>1
  <2>3. CASE /\ i \in 1 .. Len(ld[n1]) /\ new[n1][i] = ld[n1][i]
             /\ j \in 1 .. Len(ld[n2]) /\ new[n2][j] = ld[n2][j]
    BY <2>3 DEF OneMain
  <2> QED BY <1>2, <2>1, <2>2, <2>3
<1> QED BY <1>1, <1>3, <1>4

\* The commands of list n are one place further in ld than in new.
Shifted(ld, new, n) ==
    \A m \in Node : \A i \in 1 .. Len(new[m]) :
        /\ (IF m = n THEN i + 1 ELSE i) \in 1 .. Len(ld[m])
        /\ new[m][i] = ld[m][IF m = n THEN i + 1 ELSE i]

LEMMA ShiftedOneMain ==
    ASSUME NEW ld, NEW new, NEW n \in Node, OneMain(ld), Shifted(ld, new, n)
    PROVE  OneMain(new)
<1> SUFFICES ASSUME NEW n1 \in Node, NEW n2 \in Node,
                    NEW i \in 1 .. Len(new[n1]), NEW j \in 1 .. Len(new[n2]),
                    new[n1][i].r = new[n2][j].r,
                    new[n1][i].step \in Main, new[n2][j].step \in Main
             PROVE  n1 = n2 /\ i = j
  BY DEF OneMain
<1> DEFINE a == IF n1 = n THEN i + 1 ELSE i
           b == IF n2 = n THEN j + 1 ELSE j
<1>1. a \in 1 .. Len(ld[n1]) /\ new[n1][i] = ld[n1][a]
  BY DEF Shifted
<1>2. b \in 1 .. Len(ld[n2]) /\ new[n2][j] = ld[n2][b]
  BY DEF Shifted
<1>3. n1 = n2 /\ a = b
  BY <1>1, <1>2 DEF OneMain
<1> QED BY <1>3

\* The first command is taken from a list.
LEMMA PopLists ==
    ASSUME NEW ld \in Lists, NEW n \in Node, ld[n] # <<>>, OneMain(ld),
           NEW new, new = [ld EXCEPT ![n] = Tail(@)]
    PROVE  /\ new \in Lists
           /\ Head(ld[n]) \in EntriesOf(ld)
           /\ EntriesOf(new) \subseteq EntriesOf(ld)
           /\ OneMain(new)
           /\ Head(ld[n]).step \in Main => NoMain(new, Head(ld[n]).r)
<1>0. ld[n] \in Seq(Entry)
  BY DEF Lists
<1>1. new \in Lists
  BY <1>0 DEF Lists
<1>h. Head(ld[n]) = ld[n][1] /\ 1 \in 1 .. Len(ld[n]) /\ ld[n][1] \in Entry
  BY <1>0
<1>2. ASSUME NEW m \in Node, NEW i \in 1 .. Len(new[m])
      PROVE  /\ (IF m = n THEN i + 1 ELSE i) \in 1 .. Len(ld[m])
             /\ new[m][i] = ld[m][IF m = n THEN i + 1 ELSE i]
             /\ new[m][i] \in Entry
  <2>1. ld[m] \in Seq(Entry)
    BY DEF Lists
  <2>2. CASE m = n
    <3>1. new[m] = Tail(ld[m])
      BY <2>2 DEF Lists
    <3>2. Len(Tail(ld[m])) = Len(ld[m]) - 1 /\ Len(ld[m]) \in Nat
      BY <2>1, <2>2, HeadTailProperties
    <3>a. i \in 1 .. Len(Tail(ld[m]))
      BY <3>1, Zenon
    <3>3. i + 1 \in 1 .. Len(ld[m])
      BY <3>a, <3>2
    <3>4. Tail(ld[m])[i] = ld[m][i + 1]
      BY <2>1, <2>2, <3>1, HeadTailProperties
    <3>5. ld[m][i + 1] \in Entry
      BY <2>1, <3>3
    <3> QED BY <2>2, <3>1, <3>3, <3>4, <3>5
  <2>3. CASE m # n
    BY <2>1, <2>3 DEF Lists
  <2> QED BY <2>2, <2>3
<1>3. EntriesOf(new) \subseteq EntriesOf(ld)
  <2> SUFFICES ASSUME NEW x \in EntriesOf(new) PROVE x \in EntriesOf(ld)
    OBVIOUS
  <2>a. PICK m \in Node : \E k \in 1 .. Len(new[m]) : new[m][k] = x
    BY DEF EntriesOf
  <2>1. PICK i \in 1 .. Len(new[m]) : new[m][i] = x
    BY <2>a
  <2> QED BY <2>1, <1>2 DEF EntriesOf
<1>4. OneMain(new)
  <2>1. Shifted(ld, new, n)
    BY <1>2, Zenon DEF Shifted
  <2> QED BY <2>1, ShiftedOneMain, Zenon
<1>5. ASSUME Head(ld[n]).step \in Main
      PROVE  NoMain(new, Head(ld[n]).r)
  <2> SUFFICES ASSUME NEW x \in EntriesOf(new), x.r = Head(ld[n]).r, x.step \in Main
               PROVE  FALSE
    BY DEF NoMain
  <2>a. PICK m \in Node : \E k \in 1 .. Len(new[m]) : new[m][k] = x
    BY DEF EntriesOf
  <2>1. PICK i \in 1 .. Len(new[m]) : new[m][i] = x
    BY <2>a
  <2> DEFINE a == IF m = n THEN i + 1 ELSE i
  <2>2. a \in 1 .. Len(ld[m]) /\ x = ld[m][a]
    BY <1>2, <2>1
  <2>3. m = n /\ a = 1
    BY <1>5, <1>h, <2>2 DEF OneMain
  <2> QED BY <2>1, <2>3
<1> QED BY <1>1, <1>h, <1>3, <1>4, <1>5 DEF EntriesOf

\* The lists change without a change of their steps.
LEMMA SameSteps ==
    ASSUME NEW ld \in Lists, NEW new \in Lists,
           \A n \in Node : Len(new[n]) = Len(ld[n]),
           \A n \in Node : \A i \in 1 .. Len(ld[n]) :
              new[n][i].step = ld[n][i].step /\ new[n][i].r = ld[n][i].r,
           OneMain(ld)
    PROVE  /\ \A x \in EntriesOf(new) :
                \E e \in EntriesOf(ld) : x.step = e.step /\ x.r = e.r
           /\ OneMain(new)
<1>1. ASSUME NEW x \in EntriesOf(new)
      PROVE  \E e \in EntriesOf(ld) : x.step = e.step /\ x.r = e.r
  <2>a. PICK m \in Node : \E k \in 1 .. Len(new[m]) : new[m][k] = x
    BY DEF EntriesOf
  <2>1. PICK i \in 1 .. Len(new[m]) : new[m][i] = x
    BY <2>a
  <2>2. ld[m] \in Seq(Entry) /\ i \in 1 .. Len(ld[m])
    BY <2>1 DEF Lists
  <2>3. ld[m][i] \in EntriesOf(ld)
    BY <2>2 DEF EntriesOf
  <2> QED BY <2>1, <2>2, <2>3
<1>2. OneMain(new)
  <2> SUFFICES ASSUME NEW m \in Node, NEW n \in Node,
                      NEW i \in 1 .. Len(new[m]), NEW j \in 1 .. Len(new[n]),
                      new[m][i].r = new[n][j].r,
                      new[m][i].step \in Main, new[n][j].step \in Main
               PROVE  m = n /\ i = j
    BY DEF OneMain
  <2>1. i \in 1 .. Len(ld[m]) /\ j \in 1 .. Len(ld[n])
    OBVIOUS
  <2>2. /\ ld[m][i].r = ld[n][j].r
        /\ ld[m][i].step \in Main /\ ld[n][j].step \in Main
    BY <2>1
  <2> QED BY <2>1, <2>2 DEF OneMain
<1> QED BY <1>1, <1>2

\* One of the lists is given up.
LEMMA ClearLists ==
    ASSUME NEW ld \in Lists, NEW n \in Node, OneMain(ld),
           NEW new, new = [ld EXCEPT ![n] = <<>>]
    PROVE  /\ new \in Lists
           /\ EntriesOf(new) \subseteq EntriesOf(ld)
           /\ OneMain(new)
           /\ \A i \in 1 .. Len(ld[n]) : ld[n][i].step \in Main => NoMain(new, ld[n][i].r)
<1>1. new \in Lists
  BY DEF Lists
<1>2. ASSUME NEW m \in Node, NEW i \in 1 .. Len(new[m])
      PROVE  m # n /\ i \in 1 .. Len(ld[m]) /\ new[m][i] = ld[m][i]
  BY DEF Lists
<1>3. EntriesOf(new) \subseteq EntriesOf(ld)
  BY <1>2 DEF EntriesOf
<1>4. OneMain(new)
  BY <1>2 DEF OneMain
<1>5. ASSUME NEW i \in 1 .. Len(ld[n]), ld[n][i].step \in Main
      PROVE  NoMain(new, ld[n][i].r)
  <2> SUFFICES ASSUME NEW x \in EntriesOf(new), x.r = ld[n][i].r, x.step \in Main
               PROVE  FALSE
    BY DEF NoMain
  <2>a. PICK m \in Node : \E k \in 1 .. Len(new[m]) : new[m][k] = x
    BY DEF EntriesOf
  <2>1. PICK j \in 1 .. Len(new[m]) : new[m][j] = x
    BY <2>a
  <2> QED BY <1>2, <1>5, <2>1 DEF OneMain
<1> QED BY <1>1, <1>3, <1>4, <1>5

-----------------------------------------------------------------------------
(* What a client is told.                                                  *)

Told == Seq({"ok", "error"})

\* Success comes first, if at all.
Verdict(s) == \A i \in 1 .. Len(s) : s[i] = "ok" => i = 1

LEMMA VerdictOfAll == TypeOK => (OneVerdict <=> \A r \in Request : Verdict(answers[r]))
<1> SUFFICES ASSUME TypeOK, NEW r \in Request PROVE DOMAIN answers[r] = 1 .. Len(answers[r])
  BY DEF OneVerdict, Verdict
<1>1. answers[r] \in Seq({"ok", "error"})
  BY DEF TypeOK
<1> QED BY <1>1

LEMMA FirstTold ==
    ASSUME NEW told \in {<<>>, <<"ok">>, <<"error">>, <<"ok", "error">>, <<"error", "error">>}
    PROVE  /\ told \in Told
           /\ <<>> \o told = told
           /\ Verdict(told)
<1>1. told \in Told
  <2>1. <<>> \in Seq({"ok", "error"}) /\ <<"ok">> \in Seq({"ok", "error"})
    OBVIOUS
  <2>2. <<"error">> \in Seq({"ok", "error"}) /\ <<"ok", "error">> \in Seq({"ok", "error"})
    OBVIOUS
  <2>3. <<"error", "error">> \in Seq({"ok", "error"})
    OBVIOUS
  <2> QED BY <2>1, <2>2, <2>3 DEF Told
<1>2. <<>> \o told = told
  BY <1>1, ConcatEmptySeq DEF Told
<1>3. Verdict(told)
  BY DEF Verdict
<1> QED BY <1>1, <1>2, <1>3

LEMMA ErrorAppended ==
    ASSUME NEW s \in Told, Verdict(s)
    PROVE  Append(s, "error") \in Told /\ Verdict(Append(s, "error"))
<1>1. \A i \in 1 .. Len(s) : Append(s, "error")[i] = s[i]
  BY DEF Told
<1>2. Len(Append(s, "error")) = Len(s) + 1 /\ Append(s, "error")[Len(s) + 1] = "error"
  BY DEF Told
<1> QED BY <1>1, <1>2 DEF Told, Verdict

LEMMA ToldLater ==
    ASSUME NEW s \in Told, Verdict(s), NEW told \in {<<>>, <<"error">>}
    PROVE  s \o told \in Told /\ Verdict(s \o told)
<1>1. CASE told = <<>>
  BY <1>1 DEF Told, Verdict
<1>2. CASE told = <<"error">>
  <2>1. s \o told = Append(s, "error")
    BY <1>2 DEF Told
  <2> QED BY <2>1, ErrorAppended
<1> QED BY <1>1, <1>2

-----------------------------------------------------------------------------
(* A step that is about request r.                                         *)

\* It leaves the other requests alone.
About(r) ==
    /\ \A q \in Request \ {r} :
        /\ asked'[q] = asked[q]
        /\ answers'[q] = answers[q]
        /\ readNum'[q] = readNum[q]
        /\ dbStep'[q] = dbStep[q]
    /\ \A e \in EntriesOf(listData') : e.r = r \/ e \in EntriesOf(listData)
    /\ OneMain(listData')

\* The parts of the invariant that are about request r.
Carried(r) ==
    /\ asked[r] = "none" => answers[r] = <<>> /\ readNum[r] = 0 /\ dbStep[r] = "none"
    /\ \A e \in EntriesOf(listData) : e.r = r =>
        /\ asked[r] # "none"
        /\ e.step \in {"write", "forWrite"} => asked[r] \in Writes
        /\ e.step = "read" => readNum[r] = 1
        /\ e.step \in Main => answers[r] = <<>> /\ dbStep[r] = "none"
    /\ dbStep[r] = "answers" => answers[r] = <<>>
    /\ Verdict(answers[r])

LEMMA CarriedOfInv == ASSUME IInv, NEW r \in Request PROVE Carried(r)
<1>1. Verdict(answers[r])
  BY VerdictOfAll DEF IInv
<1> QED
  BY <1>1 DEF IInv, Fresh, EntriesOK, AgentOK, Carried

AllCarried == \A r \in Request : Carried(r)

LEMMA InvOfCarried == TypeOK /\ OneMain(listData) /\ AllCarried => IInv
<1> SUFFICES ASSUME TypeOK, OneMain(listData), \A r \in Request : Carried(r)
             PROVE  IInv
  BY DEF AllCarried
<1>1. OneVerdict
  BY VerdictOfAll DEF Carried
<1>2. Fresh /\ AgentOK
  BY DEF Fresh, AgentOK, Carried
<1>3. EntriesOK
  <2> SUFFICES ASSUME NEW e \in EntriesOf(listData)
               PROVE  /\ asked[e.r] # "none"
                      /\ e.step \in {"write", "forWrite"} => asked[e.r] \in Writes
                      /\ e.step = "read" => readNum[e.r] = 1
                      /\ e.step \in Main => answers[e.r] = <<>> /\ dbStep[e.r] = "none"
    BY DEF EntriesOK
  <2>1. e.r \in Request
    BY DEF EntriesOf, Entry
  <2> QED BY <2>1 DEF Carried
<1> QED BY <1>1, <1>2, <1>3 DEF IInv

LEMMA StepAbout ==
    ASSUME IInv, TypeOK', NEW r \in Request, About(r), Carried(r)'
    PROVE  IInv'
<1>1. ASSUME NEW q \in Request PROVE Carried(q)'
  <2>1. CASE q = r
    BY <2>1
  <2>2. CASE q # r
    <3>1. Carried(q)
      BY CarriedOfInv
    <3>2. /\ asked'[q] = asked[q] /\ answers'[q] = answers[q]
          /\ readNum'[q] = readNum[q] /\ dbStep'[q] = dbStep[q]
      BY <2>2 DEF About
    <3>3. \A e \in EntriesOf(listData)' : e.r = q => e \in EntriesOf(listData)
      BY <2>2 DEF About
    <3>4. Verdict(answers[q])'
      BY <3>1, <3>2 DEF Carried, Verdict
    <3> QED BY <3>1, <3>2, <3>3, <3>4 DEF Carried
  <2> QED BY <2>1, <2>2
<1>2. OneMain(listData)'
  BY DEF About
<1>3. AllCarried'
  BY <1>1 DEF AllCarried
<1> QED BY <1>2, <1>3, InvOfCarried, PTL

-----------------------------------------------------------------------------
(* The parts of the handlers.                                              *)

LEMMA RegisteredLists ==
    ASSUME TypeOK, NEW n \in Node, NEW e \in Entry, NEW ld \in Lists, OneMain(ld),
           e.step \in Main => NoMain(ld, e.r),
           Registered(ld, n, e)
    PROVE  /\ listData' \in Lists
           /\ link' \in [Node -> {"none", "connecting", "ready"}]
           /\ EntriesOf(listData') \subseteq EntriesOf(ld) \cup {e}
           /\ OneMain(listData')
<1>1. listData' = [ld EXCEPT ![n] = Append(@, e)]
  BY DEF Registered
<1>2. link' \in [Node -> {"none", "connecting", "ready"}]
  BY DEF Registered, TypeOK
<1>3. /\ listData' \in Lists
      /\ EntriesOf(listData') \subseteq EntriesOf(ld) \cup {e}
      /\ OneMain(listData')
  <2>1. \A new : new = [ld EXCEPT ![n] = Append(@, e)] =>
            /\ new \in Lists
            /\ EntriesOf(new) \subseteq EntriesOf(ld) \cup {e}
            /\ OneMain(new)
    BY AppendToLists
  <2> QED BY <1>1, <2>1, Zenon
<1> QED BY <1>2, <1>3

LEMMA ListsTyped == TypeOK => listData \in Lists
BY DEF TypeOK, Lists

LEMMA FaultTyped == ASSUME TypeOK, Fault PROVE faults' \in 0 .. MaxFaults
BY FaultsAssumption DEF TypeOK, Fault

LEMMA AnswersTyped ==
    ASSUME TypeOK, NEW r \in Request, NEW told, Respond(r, told),
           answers[r] \o told \in Told
    PROVE  /\ answers' \in [Request -> Told]
           /\ answers'[r] = answers[r] \o told
           /\ \A q \in Request \ {r} : answers'[q] = answers[q]
BY DEF TypeOK, Respond, Told

\* A request that is made has left no trace before.
LEMMA NothingBefore ==
    ASSUME IInv, NEW r \in Request, asked[r] = "none"
    PROVE  /\ answers[r] = <<>> /\ readNum[r] = 0 /\ dbStep[r] = "none"
           /\ \A e \in EntriesOf(listData) : e.r # r
           /\ NoMain(listData, r)
<1>1. Carried(r)
  BY CarriedOfInv
<1> QED
  BY <1>1 DEF Carried, NoMain

LEMMA AskedTyped ==
    ASSUME TypeOK, NEW r \in Request, NEW k \in Kinds, Asks(r, k)
    PROVE  /\ asked' \in [Request -> Kinds \cup {"none"}]
           /\ asked[r] = "none" /\ asked'[r] = k /\ asked'[r] # "none"
           /\ \A q \in Request \ {r} : asked'[q] = asked[q]
BY DEF TypeOK, Asks, Kinds, Reads, Writes

\* A request is sent to a DbAgent while nothing else may report its success:
\* it is still to be answered, or told has the answer and the step is silent.
LEMMA Emitted ==
    ASSUME TypeOK, NEW r \in Request, NEW k \in Kinds, NEW hasRedis \in BOOLEAN,
           NEW told \in {<<>>, <<"ok">>},
           told = <<"ok">> => hasRedis /\ k \notin Reads,
           answers[r] = <<>>, dbStep[r] = "none",
           EmitToAgent(r, k, hasRedis, told)
    PROVE  /\ answers' \in [Request -> Told]
           /\ dbStep' \in [Request -> {"none", "answers", "silent"}]
           /\ toAgent' \in [Agent -> Seq(Request)]
           /\ faults' \in 0 .. MaxFaults
           /\ \A q \in Request \ {r} : answers'[q] = answers[q] /\ dbStep'[q] = dbStep[q]
           /\ dbStep'[r] = "answers" => answers'[r] = <<>>
           /\ Verdict(answers'[r])
<1>1. AgentFor(k) \in Agent
  BY DEF AgentFor, Agent
<1>2. told \in Told /\ Verdict(told)
  BY FirstTold
<1>3. CASE /\ toAgent' = [toAgent EXCEPT ![AgentFor(k)] = Append(@, r)]
           /\ dbStep' = [dbStep EXCEPT ![r] = IF NeedResponse(k, hasRedis) THEN "answers" ELSE "silent"]
           /\ Respond(r, told)
           /\ UNCHANGED faults
  <2>1. answers[r] \o told = told /\ told \in Told /\ Verdict(told)
    BY FirstTold
  <2>2. answers' \in [Request -> Told] /\ answers'[r] = told
        /\ \A q \in Request \ {r} : answers'[q] = answers[q]
    BY <1>3, <2>1, AnswersTyped
  <2>3. toAgent' \in [Agent -> Seq(Request)]
    BY <1>1, <1>3 DEF TypeOK
  <2>4. /\ dbStep' \in [Request -> {"none", "answers", "silent"}]
        /\ \A q \in Request \ {r} : dbStep'[q] = dbStep[q]
        /\ dbStep'[r] = IF NeedResponse(k, hasRedis) THEN "answers" ELSE "silent"
    BY <1>3 DEF TypeOK
  <2>5. dbStep'[r] = "answers" => told = <<>>
    BY <2>4 DEF NeedResponse
  <2> QED BY <1>3, <2>1, <2>2, <2>3, <2>4, <2>5 DEF TypeOK
<1>4. CASE /\ Fault
           /\ Respond(r, Append(told, "error"))
           /\ UNCHANGED <<toAgent, dbStep>>
  <2> DEFINE t == Append(told, "error")
  <2>1. t \in Told /\ Verdict(t)
    BY <1>2, ErrorAppended
  <2>a. answers[r] \o t = t
    BY <2>1, ConcatEmptySeq DEF Told
  <2>2. answers' \in [Request -> Told] /\ answers'[r] = t
        /\ \A q \in Request \ {r} : answers'[q] = answers[q]
    BY <1>4, <2>1, <2>a, AnswersTyped
  <2> QED BY <1>4, <2>1, <2>2, FaultTyped DEF TypeOK
<1> QED BY <1>3, <1>4 DEF EmitToAgent

-----------------------------------------------------------------------------
(* Requests arrive.                                                        *)

\* A request registers its first step e with node n, after it was counted or
\* not.
LEMMA AskRegisters ==
    ASSUME IInv, NEW r \in Request, NEW k \in Kinds, Asks(r, k),
           NEW n \in Node, NEW e \in Entry, e.r = r, e.step = "read" => readNum'[r] = 1,
           e.step \in {"write", "forWrite"} => k \in Writes,
           Registered(listData, n, e),
           readNum' \in [Request -> 0 .. 2],
           \A q \in Request \ {r} : readNum'[q] = readNum[q],
           UNCHANGED <<answers, faults, logged, store, agentVars, db, applied>>
    PROVE  IInv'
<1>1. TypeOK /\ OneMain(listData)
  BY DEF IInv
<1>2. /\ asked' \in [Request -> Kinds \cup {"none"}]
      /\ asked[r] = "none" /\ asked'[r] = k /\ asked'[r] # "none"
      /\ \A q \in Request \ {r} : asked'[q] = asked[q]
  BY <1>1, AskedTyped
<1>3. /\ answers[r] = <<>> /\ dbStep[r] = "none"
      /\ \A x \in EntriesOf(listData) : x.r # r
      /\ NoMain(listData, r)
  BY <1>2, NothingBefore
<1>4. /\ listData' \in Lists
      /\ link' \in [Node -> {"none", "connecting", "ready"}]
      /\ EntriesOf(listData') \subseteq EntriesOf(listData) \cup {e}
      /\ OneMain(listData')
  BY <1>1, <1>3, ListsTyped, RegisteredLists
<1>5. TypeOK'
  BY <1>1, <1>2, <1>4 DEF TypeOK, Lists, agentVars
<1>6. About(r)
  BY <1>2, <1>4 DEF About, agentVars
<1>7. Carried(r)'
  <2>1. Verdict(answers[r])'
    BY <1>3 DEF Verdict
  <2>2. \A x \in EntriesOf(listData)' : x.r = r => x = e
    BY <1>3, <1>4
  <2> QED BY <1>2, <1>3, <2>1, <2>2 DEF Carried, agentVars
<1> QED BY <1>5, <1>6, <1>7, StepAbout

\* The first step cannot be registered, and its client is told.
LEMMA AskRefused ==
    ASSUME IInv, NEW r \in Request, NEW k \in Kinds, Asks(r, k),
           NEW n \in Node, Refused(n),
           NEW told \in {<<"error">>, <<"error", "error">>}, Respond(r, told),
           UNCHANGED <<readNum, logged, store, agentVars, db, applied>>
    PROVE  IInv'
<1>1. TypeOK /\ OneMain(listData)
  BY DEF IInv
<1>2. /\ asked' \in [Request -> Kinds \cup {"none"}]
      /\ asked[r] = "none" /\ asked'[r] # "none"
      /\ \A q \in Request \ {r} : asked'[q] = asked[q]
  BY <1>1, AskedTyped
<1>3. /\ answers[r] = <<>> /\ dbStep[r] = "none"
      /\ \A x \in EntriesOf(listData) : x.r # r
  BY <1>2, NothingBefore
<1>4. answers[r] \o told = told /\ told \in Told /\ Verdict(told)
  BY <1>3, FirstTold
<1>5. /\ answers' \in [Request -> Told] /\ answers'[r] = told
      /\ \A q \in Request \ {r} : answers'[q] = answers[q]
  BY <1>1, <1>4, AnswersTyped
<1>6. faults' \in 0 .. MaxFaults /\ UNCHANGED <<link, listData>>
  BY <1>1, FaultTyped DEF Refused
<1>7. TypeOK'
  BY <1>1, <1>2, <1>5, <1>6 DEF TypeOK, Told, agentVars
<1>8. About(r)
  BY <1>1, <1>2, <1>5, <1>6 DEF About, agentVars
<1>9. Carried(r)'
  <2>1. Verdict(answers[r])'
    BY <1>4, <1>5 DEF Verdict
  <2>2. \A x \in EntriesOf(listData)' : x.r # r
    BY <1>3, <1>6
  <2> QED BY <1>2, <1>3, <2>1, <2>2 DEF Carried, agentVars
<1> QED BY <1>7, <1>8, <1>9, StepAbout

LEMMA AskReadInv == ASSUME IInv, NEW r \in Request, AskRead(r) PROVE IInv'
<1>1. PICK k \in Kind \cap {"redisRead", "readEither"} : Asks(r, k)
  BY DEF AskRead
<1>2. k \in Kinds
  BY <1>1 DEF Kinds, Reads
<1>3. Slave \in Node
  BY DEF Node
<1>4. CASE /\ Registered(listData, Slave, Command("read", r, Absent))
           /\ readNum' = [readNum EXCEPT ![r] = @ + 1]
           /\ UNCHANGED <<answers, faults>>
  <2>1. /\ Command("read", r, Absent) \in Entry
        /\ Command("read", r, Absent).r = r
        /\ Command("read", r, Absent).step = "read"
    BY CommandTyped, AbsentIsValue DEF RedisStep
  <2>2. readNum[r] = 0
    BY <1>1, NothingBefore DEF Asks
  <2>3. /\ readNum' \in [Request -> 0 .. 2] /\ readNum'[r] = 1
        /\ \A q \in Request \ {r} : readNum'[q] = readNum[q]
    BY <1>4, <2>2 DEF IInv, TypeOK
  <2>4. UNCHANGED <<logged, store, agentVars, db, applied>>
    BY DEF AskRead
  <2> QED BY <1>1, <1>2, <1>3, <1>4, <2>1, <2>3, <2>4, AskRegisters
<1>5. CASE Refused(Slave) /\ Respond(r, <<"error", "error">>) /\ UNCHANGED readNum
  BY <1>1, <1>2, <1>3, <1>5, AskRefused DEF AskRead
<1> QED BY <1>4, <1>5 DEF AskRead

LEMMA AskWriteInv == ASSUME IInv, NEW r \in Request, AskWrite(r) PROVE IInv'
<1>1. PICK k \in Kind \cap {"redisWrite", "writeBoth", "deleteBoth"} :
        /\ Asks(r, k)
        /\ \/ /\ Registered(listData, Master, Command("write", r, Merged(k, r, Absent)))
              /\ UNCHANGED <<answers, faults>>
           \/ Refused(Master) /\ Respond(r, <<"error">>)
  BY DEF AskWrite
<1>2. k \in Kinds
  BY <1>1 DEF Kinds, Writes
<1>3. Master \in Node
  BY DEF Node
<1>a. UNCHANGED <<logged, readNum, store, agentVars, db, applied>>
  BY DEF AskWrite
<1>4. CASE /\ Registered(listData, Master, Command("write", r, Merged(k, r, Absent)))
           /\ UNCHANGED <<answers, faults>>
  <2> DEFINE e == Command("write", r, Merged(k, r, Absent))
  <2>0. Merged(k, r, Absent) \in Value
    BY <1>2, AbsentIsValue, MergedTyped
  <2>1. e \in Entry /\ e.r = r /\ e.step = "write"
    BY <2>0, CommandTyped DEF RedisStep
  <2>2. /\ readNum' \in [Request -> 0 .. 2]
        /\ \A q \in Request \ {r} : readNum'[q] = readNum[q]
    BY <1>a DEF IInv, TypeOK
  <2>3. Registered(listData, Master, e) /\ (e.step = "read" => readNum'[r] = 1) /\ k \in Writes
    BY <1>1, <1>4, <2>1 DEF Writes
  <2> HIDE DEF e
  <2> QED BY <1>1, <1>2, <1>3, <1>4, <1>a, <2>1, <2>2, <2>3, AskRegisters
<1>5. CASE Refused(Master) /\ Respond(r, <<"error">>)
  BY <1>1, <1>2, <1>3, <1>5, <1>a, AskRefused
<1> QED BY <1>1, <1>4, <1>5

LEMMA AskUpdateInv == ASSUME IInv, NEW r \in Request, AskUpdate(r) PROVE IInv'
<1>1. Asks(r, "updateBoth") /\ "updateBoth" \in Kinds /\ "updateBoth" \in Writes
  BY DEF AskUpdate, Kinds, Writes
<1>3. Master \in Node
  BY DEF Node
<1>a. UNCHANGED <<logged, readNum, store, agentVars, db, applied>>
  BY DEF AskUpdate
<1>4. CASE /\ Registered(listData, Master, Command("forWrite", r, Absent))
           /\ UNCHANGED <<answers, faults>>
  <2> DEFINE e == Command("forWrite", r, Absent)
  <2>1. e \in Entry /\ e.r = r /\ e.step = "forWrite"
    BY CommandTyped, AbsentIsValue DEF RedisStep
  <2>2. /\ readNum' \in [Request -> 0 .. 2]
        /\ \A q \in Request \ {r} : readNum'[q] = readNum[q]
    BY <1>a DEF IInv, TypeOK
  <2>3. Registered(listData, Master, e) /\ (e.step = "read" => readNum'[r] = 1)
    BY <1>4, <2>1
  <2> HIDE DEF e
  <2> QED BY <1>1, <1>3, <1>4, <1>a, <2>1, <2>2, <2>3, AskRegisters
<1>5. CASE Refused(Master) /\ Respond(r, <<"error", "error">>)
  BY <1>1, <1>3, <1>5, <1>a, AskRefused
<1> QED BY <1>4, <1>5 DEF AskUpdate

LEMMA AskDbInv == ASSUME IInv, NEW r \in Request, AskDb(r) PROVE IInv'
<1>0. TypeOK /\ OneMain(listData)
  BY DEF IInv
<1>1. PICK k \in Kind \cap {"dbRead", "dbWrite"} :
        Asks(r, k) /\ EmitToAgent(r, k, FALSE, <<>>)
  BY DEF AskDb
<1>2. k \in Kinds
  BY <1>1 DEF Kinds, Reads, Writes
<1>3. /\ asked' \in [Request -> Kinds \cup {"none"}]
      /\ asked[r] = "none" /\ asked'[r] # "none"
      /\ \A q \in Request \ {r} : asked'[q] = asked[q]
  BY <1>0, <1>1, <1>2, AskedTyped
<1>4. /\ answers[r] = <<>> /\ dbStep[r] = "none"
      /\ \A x \in EntriesOf(listData) : x.r # r
  BY <1>3, NothingBefore
<1>5. /\ answers' \in [Request -> Told]
      /\ dbStep' \in [Request -> {"none", "answers", "silent"}]
      /\ toAgent' \in [Agent -> Seq(Request)]
      /\ faults' \in 0 .. MaxFaults
      /\ \A q \in Request \ {r} : answers'[q] = answers[q] /\ dbStep'[q] = dbStep[q]
      /\ dbStep'[r] = "answers" => answers'[r] = <<>>
      /\ Verdict(answers'[r])
  BY <1>0, <1>1, <1>2, <1>4, Emitted
<1>6. UNCHANGED <<logged, redisVars, store, fromAgent, db, applied>>
  BY DEF AskDb
<1>7. TypeOK'
  BY <1>0, <1>3, <1>5, <1>6 DEF TypeOK, Told, redisVars
<1>8. About(r)
  BY <1>0, <1>3, <1>5, <1>6 DEF About, redisVars
<1>9. Carried(r)'
  <2>1. \A x \in EntriesOf(listData)' : x.r # r
    BY <1>4, <1>6 DEF redisVars
  <2> QED BY <1>3, <1>5, <2>1 DEF Carried
<1> QED BY <1>7, <1>8, <1>9, StepAbout

-----------------------------------------------------------------------------
(* The links to Redis and its nodes.                                       *)

\* Nothing a request depends on changes.
LEMMA NothingTold ==
    ASSUME IInv, TypeOK', UNCHANGED <<asked, answers, readNum, listData, dbStep>>
    PROVE  IInv'
<1>1. ASSUME NEW q \in Request PROVE Carried(q)'
  <2>1. Carried(q)
    BY CarriedOfInv
  <2>2. Verdict(answers[q])'
    BY <2>1 DEF Carried, Verdict
  <2>3. \A e \in EntriesOf(listData)' : e \in EntriesOf(listData)
    OBVIOUS
  <2> QED BY <2>1, <2>2, <2>3 DEF Carried
<1>2. OneMain(listData)'
  BY DEF IInv, OneMain
<1>3. AllCarried'
  BY <1>1 DEF AllCarried
<1> QED BY <1>2, <1>3, InvOfCarried, PTL

LEMMA RedisConnectInv == ASSUME IInv, NEW n \in Node, RedisConnect(n) PROVE IInv'
<1>1. TypeOK'
  BY DEF IInv, TypeOK, RedisConnect, clientVars, agentVars
<1> QED BY <1>1, NothingTold DEF RedisConnect, clientVars, agentVars

LEMMA RedisReplicatesInv == ASSUME IInv, RedisReplicates PROVE IInv'
<1>1. TypeOK'
  BY DEF IInv, TypeOK, RedisReplicates, clientVars, redisVars, agentVars, Node
<1> QED BY <1>1, NothingTold DEF RedisReplicates, clientVars, redisVars, agentVars

LEMMA RedisExpiresInv == ASSUME IInv, RedisExpires PROVE IInv'
<1>1. TypeOK'
  BY AbsentIsValue DEF IInv, TypeOK, RedisExpires, clientVars, redisVars, agentVars, Node
<1> QED BY <1>1, NothingTold DEF RedisExpires, clientVars, redisVars, agentVars

\* A node executes or refuses a command: the steps stay, in their places.
\* A command gets its reply; the steps stay where they are.
LEMMA RedisExecutesFacts ==
    ASSUME IInv, NEW n \in Node, RedisExecutes(n)
    PROVE  /\ UNCHANGED <<asked, answers, logged, readNum, link, dbStep, toAgent, fromAgent, db, applied>>
           /\ store' \in [Node -> [val : Value, ttl : BOOLEAN]] /\ faults' \in 0 .. MaxFaults
           /\ listData' \in Lists
           /\ \A m \in Node : Len(listData'[m]) = Len(listData[m])
           /\ \A m \in Node : \A j \in 1 .. Len(listData[m]) :
                listData'[m][j].step = listData[m][j].step /\ listData'[m][j].r = listData[m][j].r
<1>0. TypeOK /\ OneMain(listData) /\ listData \in Lists
  BY ListsTyped DEF IInv
<1>1. listData[n] \in Seq(Entry) /\ store[n] \in [val : Value, ttl : BOOLEAN]
  BY <1>0 DEF TypeOK
<1>2. UNCHANGED <<asked, answers, logged, readNum, link, dbStep, toAgent, fromAgent, db, applied>>
  BY DEF RedisExecutes, clientVars, agentVars
<1>3. PICK i \in DOMAIN listData[n] :
        LET e == listData[n][i] IN
        \/ /\ store' = [store EXCEPT ![n] = After(e, @)]
           /\ listData' = [listData EXCEPT ![n][i].reply = "done",
                 ![n][i].val = IF e.step \in {"read", "forWrite"} THEN store[n].val ELSE @]
           /\ UNCHANGED faults
        \/ /\ Fault
           /\ listData' = [listData EXCEPT ![n][i].reply = "failed"]
           /\ UNCHANGED store
  BY DEF RedisExecutes
<1>4. i \in 1 .. Len(listData[n]) /\ listData[n][i] \in Entry
  BY <1>1
<1>5. PICK x \in Entry :
        /\ x.step = listData[n][i].step /\ x.r = listData[n][i].r
        /\ listData' = [listData EXCEPT ![n] = [@ EXCEPT ![i] = x]]
        /\ store' \in [Node -> [val : Value, ttl : BOOLEAN]]
        /\ faults' \in 0 .. MaxFaults
  <2> DEFINE e == listData[n][i]
  <2>1. CASE /\ store' = [store EXCEPT ![n] = After(e, @)]
             /\ listData' = [listData EXCEPT ![n][i].reply = "done",
                 ![n][i].val = IF e.step \in {"read", "forWrite"} THEN store[n].val ELSE @]
             /\ UNCHANGED faults
    <3> DEFINE v == IF e.step \in {"read", "forWrite"} THEN store[n].val ELSE e.val
               x == [e EXCEPT !.reply = "done", !.val = v]
    <3>1. x \in Entry /\ x.step = e.step /\ x.r = e.r
      BY <1>1, <1>4 DEF Entry
    <3>2. listData' = [listData EXCEPT ![n] = [@ EXCEPT ![i] = x]]
      BY <1>0, <1>1, <1>4, <2>1 DEF Lists
    <3>3. After(e, store[n]) \in [val : Value, ttl : BOOLEAN]
      BY <1>1, <1>4 DEF After, Entry
    <3>4. store' \in [Node -> [val : Value, ttl : BOOLEAN]]
      BY <1>0, <2>1, <3>3 DEF TypeOK
    <3>5. faults' \in 0 .. MaxFaults
      BY <1>0, <2>1 DEF TypeOK
    <3> HIDE DEF x
    <3> QED BY <3>1, <3>2, <3>4, <3>5
  <2>2. CASE /\ Fault
             /\ listData' = [listData EXCEPT ![n][i].reply = "failed"]
             /\ UNCHANGED store
    <3> DEFINE x == [e EXCEPT !.reply = "failed"]
    <3>1. x \in Entry /\ x.step = e.step /\ x.r = e.r
      BY <1>4 DEF Entry
    <3>2. listData' = [listData EXCEPT ![n] = [@ EXCEPT ![i] = x]]
      BY <1>0, <1>1, <1>4, <2>2 DEF Lists
    <3>3. store' \in [Node -> [val : Value, ttl : BOOLEAN]] /\ faults' \in 0 .. MaxFaults
      BY <1>0, <2>2, FaultTyped DEF TypeOK
    <3> HIDE DEF x
    <3> QED BY <3>1, <3>2, <3>3
  <2> QED BY <1>3, <2>1, <2>2
<1>6. listData' \in Lists
  <2>1. [listData[n] EXCEPT ![i] = x] \in Seq(Entry)
    BY <1>1, <1>4
  <2> QED BY <1>0, <1>5, <2>1 DEF Lists
<1>7. \A m \in Node : Len(listData'[m]) = Len(listData[m])
  <2> TAKE m \in Node
  <2>1. CASE m = n
    BY <1>0, <1>1, <1>4, <1>5, <2>1 DEF Lists
  <2>2. CASE m # n
    BY <1>0, <1>5, <2>2 DEF Lists
  <2> QED BY <2>1, <2>2
<1>8. \A m \in Node : \A j \in 1 .. Len(listData[m]) :
        listData'[m][j].step = listData[m][j].step /\ listData'[m][j].r = listData[m][j].r
  <2> TAKE m \in Node
  <2> TAKE j \in 1 .. Len(listData[m])
  <2>1. CASE m = n
    <3>1. listData'[m] = [listData[m] EXCEPT ![i] = x]
      BY <1>0, <1>5, <2>1 DEF Lists
    <3>2. j \in DOMAIN listData[m]
      BY <1>1, <2>1
    <3> QED BY <1>5, <2>1, <3>1, <3>2
  <2>2. CASE m # n
    BY <1>0, <1>5, <2>2 DEF Lists
  <2> QED BY <2>1, <2>2
<1> QED BY <1>2, <1>5, <1>6, <1>7, <1>8

LEMMA RedisExecutesInv == ASSUME IInv, NEW n \in Node, RedisExecutes(n) PROVE IInv'
<1>0. TypeOK /\ OneMain(listData) /\ listData \in Lists
  BY ListsTyped DEF IInv
<1>2. /\ UNCHANGED <<asked, answers, logged, readNum, link, dbStep, toAgent, fromAgent, db, applied>>
      /\ store' \in [Node -> [val : Value, ttl : BOOLEAN]] /\ faults' \in 0 .. MaxFaults
  BY RedisExecutesFacts
<1>6. /\ listData' \in Lists
      /\ \A m \in Node : Len(listData'[m]) = Len(listData[m])
      /\ \A m \in Node : \A j \in 1 .. Len(listData[m]) :
            listData'[m][j].step = listData[m][j].step /\ listData'[m][j].r = listData[m][j].r
  BY RedisExecutesFacts
<1>9. /\ \A y \in EntriesOf(listData') :
            \E e \in EntriesOf(listData) : y.step = e.step /\ y.r = e.r
      /\ OneMain(listData')
  BY <1>0, <1>6, SameSteps
<1>10. TypeOK'
  BY <1>0, <1>2, <1>6 DEF TypeOK, Lists
<1>11. ASSUME NEW q \in Request PROVE Carried(q)'
  <2>1. Carried(q)
    BY CarriedOfInv
  <2>2. Verdict(answers[q])'
    BY <1>2, <2>1 DEF Carried, Verdict
  <2>3. \A y \in EntriesOf(listData)' :
            \E e \in EntriesOf(listData) : y.step = e.step /\ y.r = e.r
    BY <1>9
  <2> QED BY <1>2, <2>1, <2>2, <2>3 DEF Carried
<1>12. OneMain(listData)'
  BY <1>9
<1>13. AllCarried'
  BY <1>11 DEF AllCarried
<1> QED BY <1>10, <1>12, <1>13, InvOfCarried, PTL

\* Every step of a node fails: each main step is the only one of its request,
\* and its failure the first answer.
LEMMA FailStepsInv ==
    ASSUME IInv, NEW n \in Node, Fault, FailSteps(n),
           UNCHANGED <<asked, store, agentVars, db, applied>>
    PROVE  IInv'
<1> DEFINE again == {e.r : e \in {d \in Steps(n) : d.step = "read" /\ readNum[d.r] = 0}}
           told == {e.r : e \in {d \in Steps(n) : d.step \in {"read", "write", "forWrite"}}} \ again
           lost == {e.r : e \in {d \in Steps(n) : d.step \in {"writeBack", "setTtl"}}}
<1>0. TypeOK /\ OneMain(listData) /\ listData \in Lists /\ EntriesOK
  BY ListsTyped DEF IInv
<1>1. listData[n] \in Seq(Entry)
  BY <1>0 DEF Lists
<1>2. ASSUME NEW e \in Steps(n)
      PROVE  /\ e \in EntriesOf(listData) /\ e.r \in Request
             /\ \E i \in 1 .. Len(listData[n]) : e = listData[n][i]
  <2>1. PICK i \in DOMAIN listData[n] : e = listData[n][i]
    BY DEF Steps
  <2>2. i \in 1 .. Len(listData[n]) /\ e \in Entry
    BY <1>1, <2>1
  <2> QED BY <2>1, <2>2 DEF EntriesOf, Entry
<1>3. again = {}
  BY <1>0, <1>2 DEF EntriesOK
<1>4. /\ answers' = [r \in Request |-> IF r \in told THEN Append(answers[r], "error") ELSE answers[r]]
      /\ readNum' = [r \in Request |-> IF r \in again THEN readNum[r] + 1 ELSE readNum[r]]
      /\ logged' = logged \cup lost
      /\ listData' = [listData EXCEPT ![n] = <<>>]
      /\ link' = [link EXCEPT ![n] = "none"]
  BY DEF FailSteps
<1>5. ASSUME NEW r \in told
      PROVE  /\ r \in Request /\ answers[r] = <<>> /\ dbStep[r] = "none" /\ asked[r] # "none"
             /\ \E i \in 1 .. Len(listData[n]) : listData[n][i].step \in Main /\ listData[n][i].r = r
  BY <1>0, <1>2 DEF EntriesOK, Main
<1>6. lost \subseteq Request
  BY <1>2
<1> HIDE DEF again, told, lost
<1>7. readNum' = readNum
  BY <1>0, <1>3, <1>4 DEF TypeOK
<1>8. /\ listData' \in Lists
      /\ EntriesOf(listData') \subseteq EntriesOf(listData)
      /\ OneMain(listData')
      /\ \A r \in told : NoMain(listData', r)
  <2>1. \A new : new = [listData EXCEPT ![n] = <<>>] =>
            /\ new \in Lists
            /\ EntriesOf(new) \subseteq EntriesOf(listData)
            /\ OneMain(new)
            /\ \A i \in 1 .. Len(listData[n]) :
                    listData[n][i].step \in Main => NoMain(new, listData[n][i].r)
    BY <1>0, ClearLists
  <2>2. /\ listData' \in Lists
        /\ EntriesOf(listData') \subseteq EntriesOf(listData)
        /\ OneMain(listData')
        /\ \A i \in 1 .. Len(listData[n]) :
                listData[n][i].step \in Main => NoMain(listData', listData[n][i].r)
    BY <1>4, <2>1, Zenon
  <2>3. ASSUME NEW r \in told PROVE NoMain(listData', r)
    BY <1>5, <2>2
  <2> QED BY <2>2, <2>3
<1>9. ASSUME NEW r \in told
      PROVE  answers'[r] = Append(<<>>, "error") /\ answers'[r] \in Told /\ Verdict(answers'[r])
  <2>1. answers'[r] = Append(<<>>, "error")
    BY <1>4, <1>5
  <2>2. <<>> \in Told /\ Verdict(<<>>)
    BY FirstTold
  <2> QED BY <2>1, <2>2, ErrorAppended
<1>10. \A r \in Request : r \notin told => answers'[r] = answers[r]
  BY <1>4
<1>11. answers' \in [Request -> Told]
  <2>1. \A r \in Request : answers'[r] \in Told
    BY <1>0, <1>9, <1>10 DEF TypeOK, Told
  <2>2. answers' = [r \in Request |-> answers'[r]]
    BY <1>4
  <2> QED BY <2>1, <2>2
<1>12. TypeOK'
  BY <1>0, <1>4, <1>6, <1>7, <1>8, <1>11, FaultTyped DEF TypeOK, Lists, Told, agentVars
<1>13. ASSUME NEW q \in Request PROVE Carried(q)'
  <2>1. Carried(q)
    BY CarriedOfInv
  <2>2. \A e \in EntriesOf(listData)' : e \in EntriesOf(listData)
    BY <1>8
  <2>3. CASE q \in told
    <3>1. \A e \in EntriesOf(listData)' : e.r = q => e.step \notin Main
      BY <1>8, <2>3 DEF NoMain
    <3>2. Verdict(answers[q])'
      BY <1>9, <2>3 DEF Verdict
    <3>3. dbStep'[q] = "none" /\ asked'[q] # "none" /\ readNum'[q] = readNum[q]
      BY <1>5, <1>7, <2>3 DEF agentVars
    <3> QED BY <2>1, <2>2, <3>1, <3>2, <3>3 DEF Carried
  <2>4. CASE q \notin told
    <3>1. Verdict(answers[q])'
      BY <1>10, <2>1, <2>4 DEF Carried, Verdict
    <3>2. /\ dbStep'[q] = dbStep[q] /\ asked'[q] = asked[q] /\ readNum'[q] = readNum[q]
          /\ answers'[q] = answers[q]
      BY <1>7, <1>10, <2>4 DEF agentVars
    <3> QED BY <2>1, <2>2, <3>1, <3>2 DEF Carried
  <2> QED BY <2>3, <2>4
<1>14. OneMain(listData)'
  BY <1>8
<1>15. AllCarried'
  BY <1>13 DEF AllCarried
<1> QED BY <1>12, <1>14, <1>15, InvOfCarried, PTL

-----------------------------------------------------------------------------
(* Replies of Redis.                                                       *)

LEMMA RepliedFacts ==
    ASSUME IInv, NEW n \in Node, NEW r \in Request, NEW s \in RedisStep, Replied(n, s, r)
    PROVE  /\ Popped(n) \in Lists
           /\ EntriesOf(Popped(n)) \subseteq EntriesOf(listData)
           /\ OneMain(Popped(n))
           /\ Head(listData[n]) \in Entry
           /\ asked[r] \in Kinds /\ asked[r] # "none"
           /\ s \in {"write", "forWrite"} => asked[r] \in Writes
           /\ s \in Main => /\ NoMain(Popped(n), r)
                            /\ answers[r] = <<>>
                            /\ dbStep[r] = "none"
<1>0. OneMain(listData) /\ listData \in Lists /\ EntriesOK /\ TypeOK
  BY ListsTyped DEF IInv
<1>1. listData[n] # <<>> /\ Head(listData[n]).step = s /\ Head(listData[n]).r = r
  BY DEF Replied
<1>2. /\ Popped(n) \in Lists
      /\ Head(listData[n]) \in EntriesOf(listData)
      /\ EntriesOf(Popped(n)) \subseteq EntriesOf(listData)
      /\ OneMain(Popped(n))
      /\ Head(listData[n]).step \in Main => NoMain(Popped(n), Head(listData[n]).r)
  <2>1. \A new : new = [listData EXCEPT ![n] = Tail(@)] =>
            /\ new \in Lists
            /\ Head(listData[n]) \in EntriesOf(listData)
            /\ EntriesOf(new) \subseteq EntriesOf(listData)
            /\ OneMain(new)
            /\ Head(listData[n]).step \in Main => NoMain(new, Head(listData[n]).r)
    BY <1>0, <1>1, PopLists
  <2>2. Popped(n) = [listData EXCEPT ![n] = Tail(@)]
    BY DEF Popped
  <2> QED BY <2>1, <2>2, Zenon
<1>3. Head(listData[n]) \in Entry
  BY <1>2 DEF EntriesOf
<1> QED BY <1>0, <1>1, <1>2, <1>3 DEF EntriesOK, TypeOK

\* A command follows the one that was popped.
LEMMA AppendPopped ==
    ASSUME IInv, NEW n \in Node, Popped(n) \in Lists, OneMain(Popped(n)),
           NEW e \in Entry, e.step \in Main => NoMain(Popped(n), e.r),
           listData' = [Popped(n) EXCEPT ![n] = Append(@, e)]
    PROVE  /\ listData' \in Lists
           /\ EntriesOf(listData') \subseteq EntriesOf(Popped(n)) \cup {e}
           /\ OneMain(listData')
<1> DEFINE ld == Popped(n)
<1> HIDE DEF ld
<1>1. ld \in Lists /\ OneMain(ld) /\ (e.step \in Main => NoMain(ld, e.r))
  BY DEF ld
<1>2. \A new : new = [ld EXCEPT ![n] = Append(@, e)] =>
            /\ new \in Lists
            /\ EntriesOf(new) \subseteq EntriesOf(ld) \cup {e}
            /\ OneMain(new)
  BY <1>1, AppendToLists
<1> QED BY <1>2, Zenon DEF ld

\* The callback of a main step of r answers its client and may go on with the
\* DbAgent; no other main step of r follows.
LEMMA MainCallback ==
    ASSUME IInv, TypeOK', NEW r \in Request, asked[r] # "none",
           UNCHANGED <<asked, readNum>>,
           \A q \in Request \ {r} : answers'[q] = answers[q] /\ dbStep'[q] = dbStep[q],
           \A e \in EntriesOf(listData') :
              e \in EntriesOf(listData) \/ (e.r = r /\ e.step = "setTtl"),
           OneMain(listData'),
           NoMain(listData', r),
           dbStep'[r] = "answers" => answers'[r] = <<>>,
           Verdict(answers'[r])
    PROVE  IInv'
<1>1. About(r)
  BY DEF About
<1>2. Carried(r)
  BY CarriedOfInv
<1>3. Carried(r)'
  <2>1. \A e \in EntriesOf(listData)' : e.r = r =>
            /\ e.step \notin Main
            /\ e.step # "read" /\ e.step \notin {"write", "forWrite"}
    BY DEF NoMain, Main
  <2>2. asked'[r] # "none" /\ readNum'[r] = readNum[r]
    OBVIOUS
  <2> QED BY <2>1, <2>2 DEF Carried
<1> QED BY <1>1, <1>3, StepAbout

\* A handler answers first.
LEMMA RespondedFirst ==
    ASSUME TypeOK, NEW r \in Request, answers[r] = <<>>,
           NEW told \in {<<"ok">>, <<"error">>}, Respond(r, told)
    PROVE  /\ answers' \in [Request -> Told]
           /\ \A q \in Request \ {r} : answers'[q] = answers[q]
           /\ Verdict(answers'[r])
<1>1. answers[r] \o told = told /\ told \in Told /\ Verdict(told)
  BY FirstTold
<1> QED BY <1>1, AnswersTyped

LEMMA ReadCallbackInv ==
    ASSUME IInv, NEW n \in Node, NEW r \in Request, ReadCallback(n, r) PROVE IInv'
<1>0. TypeOK
  BY DEF IInv
<1>1. /\ Replied(n, "read", r)
      /\ listData' = Popped(n)
      /\ UNCHANGED <<asked, logged, readNum, link, store, fromAgent, db, applied>>
  BY DEF ReadCallback
<1>2. /\ Popped(n) \in Lists
      /\ EntriesOf(Popped(n)) \subseteq EntriesOf(listData)
      /\ OneMain(Popped(n))
      /\ asked[r] # "none"
      /\ NoMain(Popped(n), r) /\ answers[r] = <<>> /\ dbStep[r] = "none"
  BY <1>1, RepliedFacts DEF RedisStep, Main
<1>3. /\ answers' \in [Request -> Told]
      /\ dbStep' \in [Request -> {"none", "answers", "silent"}]
      /\ toAgent' \in [Agent -> Seq(Request)]
      /\ faults' \in 0 .. MaxFaults
      /\ \A q \in Request \ {r} : answers'[q] = answers[q] /\ dbStep'[q] = dbStep[q]
      /\ dbStep'[r] = "answers" => answers'[r] = <<>>
      /\ Verdict(answers'[r])
  <2>1. CASE EmitToAgent(r, "readEither", TRUE, <<>>)
    BY <1>0, <1>2, <2>1, Emitted DEF Kinds, Reads
  <2>2. CASE /\ Respond(r, <<IF Failed(n) THEN "error" ELSE "ok">>)
             /\ UNCHANGED <<dbStep, toAgent, faults>>
    <3>1. <<IF Failed(n) THEN "error" ELSE "ok">> \in {<<"ok">>, <<"error">>}
      OBVIOUS
    <3>2. /\ answers' \in [Request -> Told]
          /\ \A q \in Request \ {r} : answers'[q] = answers[q]
          /\ Verdict(answers'[r])
      BY <1>0, <1>2, <2>2, <3>1, RespondedFirst
    <3> QED BY <1>0, <1>2, <2>2, <3>2 DEF TypeOK
  <2> QED BY <2>1, <2>2 DEF ReadCallback
<1>4. TypeOK'
  BY <1>0, <1>1, <1>2, <1>3 DEF TypeOK, Lists, Told
<1> QED BY <1>1, <1>2, <1>3, <1>4, MainCallback

LEMMA WriteCallbackInv ==
    ASSUME IInv, NEW n \in Node, NEW r \in Request, WriteCallback(n, r) PROVE IInv'
<1>0. TypeOK
  BY DEF IInv
<1>1. /\ Replied(n, "write", r)
      /\ UNCHANGED <<asked, logged, readNum, link, store, fromAgent, db, applied>>
  BY DEF WriteCallback
<1>2. /\ Popped(n) \in Lists
      /\ EntriesOf(Popped(n)) \subseteq EntriesOf(listData)
      /\ OneMain(Popped(n))
      /\ asked[r] \in Writes /\ asked[r] \in Kinds /\ asked[r] # "none"
      /\ NoMain(Popped(n), r) /\ answers[r] = <<>> /\ dbStep[r] = "none"
  BY <1>1, RepliedFacts DEF RedisStep, Main
<1> DEFINE e == Command("setTtl", r, Absent)
<1>3. e \in Entry /\ e.step = "setTtl" /\ e.r = r
  BY CommandTyped, AbsentIsValue DEF RedisStep
<1> HIDE DEF e
<1>4. /\ listData' \in Lists
      /\ \A x \in EntriesOf(listData') : x \in EntriesOf(Popped(n)) \/ x = e
      /\ OneMain(listData')
  <2>1. CASE listData' = Popped(n)
    BY <1>2, <2>1
  <2>2. CASE listData' = [Popped(n) EXCEPT ![n] = Append(@, e)]
    <3>1. e.step \in Main => NoMain(Popped(n), e.r)
      BY <1>3 DEF Main
    <3>2. /\ listData' \in Lists
          /\ EntriesOf(listData') \subseteq EntriesOf(Popped(n)) \cup {e}
          /\ OneMain(listData')
      BY <1>2, <1>3, <2>2, <3>1, AppendPopped
    <3> QED BY <3>2
  <2> QED BY <2>1, <2>2 DEF WriteCallback, e
<1>5. /\ \A x \in EntriesOf(listData') :
            x \in EntriesOf(listData) \/ (x.r = r /\ x.step = "setTtl")
      /\ NoMain(listData', r)
  BY <1>2, <1>3, <1>4 DEF NoMain, Main
<1>6. /\ answers' \in [Request -> Told]
      /\ dbStep' \in [Request -> {"none", "answers", "silent"}]
      /\ toAgent' \in [Agent -> Seq(Request)]
      /\ faults' \in 0 .. MaxFaults
      /\ \A q \in Request \ {r} : answers'[q] = answers[q] /\ dbStep'[q] = dbStep[q]
      /\ dbStep'[r] = "answers" => answers'[r] = <<>>
      /\ Verdict(answers'[r])
  <2>1. CASE EmitToAgent(r, asked[r], TRUE, <<"ok">>)
    <3>1. asked[r] \notin Reads
      BY <1>2 DEF Writes, Reads
    <3> QED BY <1>0, <1>2, <2>1, <3>1, Emitted
  <2>2. CASE /\ Respond(r, <<IF Failed(n) THEN "error" ELSE "ok">>)
             /\ UNCHANGED <<dbStep, toAgent, faults>>
    <3>1. <<IF Failed(n) THEN "error" ELSE "ok">> \in {<<"ok">>, <<"error">>}
      OBVIOUS
    <3>2. /\ answers' \in [Request -> Told]
          /\ \A q \in Request \ {r} : answers'[q] = answers[q]
          /\ Verdict(answers'[r])
      BY <1>0, <1>2, <2>2, <3>1, RespondedFirst
    <3> QED BY <1>0, <1>2, <2>2, <3>2 DEF TypeOK
  <2> QED BY <2>1, <2>2 DEF WriteCallback
<1>7. TypeOK'
  BY <1>0, <1>1, <1>4, <1>6 DEF TypeOK, Lists, Told
<1> QED BY <1>1, <1>2, <1>4, <1>5, <1>6, <1>7, MainCallback

LEMMA ForWriteCallbackInv ==
    ASSUME IInv, NEW n \in Node, NEW r \in Request, ForWriteCallback(n, r) PROVE IInv'
<1>0. TypeOK
  BY DEF IInv
<1>1. /\ Replied(n, "forWrite", r)
      /\ UNCHANGED <<asked, logged, readNum, link, store, fromAgent, db, applied>>
  BY DEF ForWriteCallback
<1>2. /\ Popped(n) \in Lists
      /\ EntriesOf(Popped(n)) \subseteq EntriesOf(listData)
      /\ OneMain(Popped(n))
      /\ Head(listData[n]) \in Entry
      /\ asked[r] \in Writes /\ asked[r] \in Kinds /\ asked[r] # "none"
      /\ NoMain(Popped(n), r) /\ answers[r] = <<>> /\ dbStep[r] = "none"
  BY <1>1, RepliedFacts DEF RedisStep, Main
<1>3. CASE /\ listData' = Popped(n)
           /\ \/ EmitToAgent(r, "updateBoth", FALSE, <<>>)
              \/ Respond(r, <<"error">>) /\ UNCHANGED <<dbStep, toAgent, faults>>
  <2>1. /\ answers' \in [Request -> Told]
        /\ dbStep' \in [Request -> {"none", "answers", "silent"}]
        /\ toAgent' \in [Agent -> Seq(Request)]
        /\ faults' \in 0 .. MaxFaults
        /\ \A q \in Request \ {r} : answers'[q] = answers[q] /\ dbStep'[q] = dbStep[q]
        /\ dbStep'[r] = "answers" => answers'[r] = <<>>
        /\ Verdict(answers'[r])
    <3>1. CASE EmitToAgent(r, "updateBoth", FALSE, <<>>)
      BY <1>0, <1>2, <3>1, Emitted DEF Kinds, Writes
    <3>2. CASE Respond(r, <<"error">>) /\ UNCHANGED <<dbStep, toAgent, faults>>
      <4>1. /\ answers' \in [Request -> Told]
            /\ \A q \in Request \ {r} : answers'[q] = answers[q]
            /\ Verdict(answers'[r])
        BY <1>0, <1>2, <3>2, RespondedFirst
      <4> QED BY <1>0, <1>2, <3>2, <4>1 DEF TypeOK
    <3> QED BY <1>3, <3>1, <3>2
  <2>2. TypeOK'
    BY <1>0, <1>1, <1>2, <1>3, <2>1 DEF TypeOK, Lists, Told
  <2> QED BY <1>1, <1>2, <1>3, <2>1, <2>2, MainCallback
<1>4. CASE /\ Found(n) # Absent
           /\ listData' = [Popped(n) EXCEPT ![n] =
                Append(@, Command("write", r, Merged("updateBoth", r, Found(n))))]
           /\ UNCHANGED <<answers, dbStep, toAgent, faults>>
  <2> DEFINE e == Command("write", r, Merged("updateBoth", r, Found(n)))
  <2>1. Merged("updateBoth", r, Found(n)) \in Value
    BY <1>2, MergedTyped DEF Found, Entry, Kinds, Writes
  <2>2. e \in Entry /\ e.step = "write" /\ e.r = r
    BY <2>1, CommandTyped DEF RedisStep
  <2> HIDE DEF e
  <2>3. listData' = [Popped(n) EXCEPT ![n] = Append(@, e)]
    BY <1>4 DEF e
  <2>4. /\ listData' \in Lists
        /\ EntriesOf(listData') \subseteq EntriesOf(Popped(n)) \cup {e}
        /\ OneMain(listData')
    BY <1>2, <2>2, <2>3, AppendPopped
  <2>5. TypeOK'
    BY <1>0, <1>1, <1>4, <2>4 DEF TypeOK, Lists
  <2>6. About(r)
    BY <1>1, <1>2, <1>4, <2>2, <2>4 DEF About
  <2>7. Carried(r)'
    <3>1. Carried(r)
      BY CarriedOfInv
    <3>2. Verdict(answers[r])'
      BY <1>4, <3>1 DEF Carried, Verdict
    <3>3. \A x \in EntriesOf(listData)' : x \in EntriesOf(listData) \/ x = e
      BY <1>2, <2>4
    <3> QED BY <1>1, <1>2, <1>4, <2>2, <3>1, <3>2, <3>3 DEF Carried
  <2> QED BY <2>5, <2>6, <2>7, StepAbout
<1> QED BY <1>3, <1>4 DEF ForWriteCallback

\* The steps behind the answer: nobody is told anything any more.
LEMMA SilentCallback ==
    ASSUME IInv, NEW n \in Node, NEW r \in Request,
           NEW s \in {"writeBack", "setTtl"}, Replied(n, s, r),
           \/ listData' = Popped(n)
           \/ listData' = [Popped(n) EXCEPT ![n] = Append(@, Command("setTtl", r, Absent))],
           logged' \subseteq Request,
           UNCHANGED <<asked, answers, readNum, link, store, agentVars, db, applied, faults>>
    PROVE  IInv'
<1>0. TypeOK
  BY DEF IInv
<1>1. /\ Popped(n) \in Lists
      /\ EntriesOf(Popped(n)) \subseteq EntriesOf(listData)
      /\ OneMain(Popped(n))
      /\ asked[r] # "none"
  BY RepliedFacts DEF RedisStep
<1> DEFINE e == Command("setTtl", r, Absent)
<1>2. e \in Entry /\ e.step = "setTtl" /\ e.r = r
  BY CommandTyped, AbsentIsValue DEF RedisStep
<1> HIDE DEF e
<1>3. /\ listData' \in Lists
      /\ \A x \in EntriesOf(listData') : x \in EntriesOf(listData) \/ x = e
      /\ OneMain(listData')
  <2>1. CASE listData' = Popped(n)
    BY <1>1, <2>1
  <2>2. CASE listData' = [Popped(n) EXCEPT ![n] = Append(@, e)]
    <3>1. e.step \in Main => NoMain(Popped(n), e.r)
      BY <1>2 DEF Main
    <3>2. /\ listData' \in Lists
          /\ EntriesOf(listData') \subseteq EntriesOf(Popped(n)) \cup {e}
          /\ OneMain(listData')
      BY <1>1, <1>2, <2>2, <3>1, AppendPopped
    <3> QED BY <1>1, <3>2
  <2> QED BY <2>1, <2>2 DEF e
<1>4. TypeOK'
  BY <1>0, <1>3 DEF TypeOK, Lists, agentVars
<1>5. About(r)
  BY <1>2, <1>3 DEF About, agentVars
<1>6. Carried(r)'
  <2>1. Carried(r)
    BY CarriedOfInv
  <2>2. Verdict(answers[r])'
    BY <2>1 DEF Carried, Verdict
  <2>3. \A x \in EntriesOf(listData)' : x \in EntriesOf(listData) \/ x = e
    BY <1>3
  <2> QED BY <1>1, <1>2, <2>1, <2>2, <2>3 DEF Carried, Main, agentVars
<1> QED BY <1>4, <1>5, <1>6, StepAbout

LEMMA WriteBackCallbackInv ==
    ASSUME IInv, NEW n \in Node, NEW r \in Request, WriteBackCallback(n, r) PROVE IInv'
<1>1. logged' \subseteq Request
  BY DEF WriteBackCallback, IInv, TypeOK
<1> QED BY <1>1, SilentCallback DEF WriteBackCallback

LEMMA SetTtlCallbackInv ==
    ASSUME IInv, NEW n \in Node, NEW r \in Request, SetTtlCallback(n, r) PROVE IInv'
<1>1. logged' \subseteq Request
  BY DEF SetTtlCallback, IInv, TypeOK
<1> QED BY <1>1, SilentCallback DEF SetTtlCallback

-----------------------------------------------------------------------------
(* The DbAgents.                                                           *)

\* What a StepSendToDbAgent of r that is under way says of r.
LEMMA DbStepFacts ==
    ASSUME IInv, NEW r \in Request, dbStep[r] # "none"
    PROVE  /\ asked[r] # "none"
           /\ NoMain(listData, r)
           /\ dbStep[r] = "answers" => answers[r] = <<>>
           /\ dbStep[r] \in {"answers", "silent"}
           /\ answers[r] \in Told /\ Verdict(answers[r])
<1>1. Carried(r)
  BY CarriedOfInv
<1>2. dbStep[r] \in {"answers", "silent"} /\ answers[r] \in Told
  BY DEF IInv, TypeOK, Told
<1> QED BY <1>1, <1>2 DEF Carried, NoMain

LEMMA AgentExecutesInv == ASSUME IInv, NEW a \in Agent, AgentExecutes(a) PROVE IInv'
<1> DEFINE r == Head(toAgent[a])
           error == [r |-> r, ok |-> FALSE, val |-> Absent]
           success == [r |-> r, ok |-> TRUE, val |-> db]
<1>0. TypeOK
  BY DEF IInv
<1>1. /\ toAgent[a] \in Seq(Request) /\ toAgent[a] # <<>> /\ db \in Value
      /\ toAgent' = [toAgent EXCEPT ![a] = Tail(@)]
      /\ fromAgent[a] \in Seq(Reply)
      /\ UNCHANGED <<clientVars, redisVars, store, dbStep>>
  BY <1>0 DEF TypeOK, AgentExecutes
<1>2. r \in Request /\ Tail(toAgent[a]) \in Seq(Request)
  BY <1>1
<1>3. error \in Reply /\ success \in Reply
  BY <1>1, <1>2, AbsentIsValue DEF Reply
<1>4. Merged(asked[r], r, db) \in Value
  BY <1>1, <1>2, MergedTyped
<1>5. PICK said \in {<<>>, <<success>>, <<error>>, <<error, success>>, <<error, error>>,
                     <<error, error, error>>} :
        fromAgent' = [fromAgent EXCEPT ![a] = @ \o said]
  BY DEF AgentExecutes
<1>6. /\ db' = db \/ db' = Merged(asked[r], r, db)
      /\ applied' = applied \/ applied' = applied \cup {r}
      /\ faults' = faults \/ Fault
  BY DEF AgentExecutes
<1> HIDE DEF r, error, success
<1>7. said \in Seq(Reply)
  <2>1. <<>> \in Seq(Reply) /\ <<success>> \in Seq(Reply) /\ <<error>> \in Seq(Reply)
    BY <1>3
  <2>2. <<error, success>> \in Seq(Reply) /\ <<error, error>> \in Seq(Reply)
    BY <1>3
  <2>3. <<error, error, error>> \in Seq(Reply)
    BY <1>3
  <2> QED BY <1>5, <2>1, <2>2, <2>3
<1>8. fromAgent' \in [Agent -> Seq(Reply)] /\ toAgent' \in [Agent -> Seq(Request)]
  <2>1. fromAgent[a] \o said \in Seq(Reply)
    BY <1>1, <1>7
  <2> QED BY <1>0, <1>1, <1>2, <1>5, <2>1 DEF TypeOK
<1>9. db' \in Value /\ applied' \subseteq Request /\ faults' \in 0 .. MaxFaults
  BY <1>0, <1>2, <1>4, <1>6, FaultTyped DEF TypeOK
<1>10. TypeOK'
  BY <1>0, <1>1, <1>8, <1>9 DEF TypeOK, clientVars, redisVars
<1> QED BY <1>1, <1>10, NothingTold DEF clientVars, redisVars

LEMMA AgentLostInv == ASSUME IInv, NEW a \in Agent, AgentLost(a) PROVE IInv'
<1>0. TypeOK
  BY DEF IInv
<1>1. faults' \in 0 .. MaxFaults
  BY <1>0, FaultTyped DEF AgentLost
<1>2. toAgent' \in [Agent -> Seq(Request)] /\ fromAgent' \in [Agent -> Seq(Reply)]
  BY <1>0 DEF TypeOK, AgentLost
<1>3. TypeOK'
  BY <1>0, <1>1, <1>2 DEF TypeOK, AgentLost, clientVars, redisVars
<1> QED BY <1>3, NothingTold DEF AgentLost, clientVars, redisVars

LEMMA AgentAnswersInv == ASSUME IInv, NEW a \in Agent, AgentAnswers(a) PROVE IInv'
<1> DEFINE m == Head(fromAgent[a])
           told == IF m.ok THEN "ok" ELSE "error"
           said == IF dbStep[m.r] = "answers" THEN <<told>> ELSE <<>>
           e == Command("writeBack", m.r, m.val)
<1>0. TypeOK /\ OneMain(listData) /\ listData \in Lists
  BY ListsTyped DEF IInv
<1>1. /\ fromAgent[a] \in Seq(Reply) /\ fromAgent[a] # <<>>
      /\ fromAgent' = [fromAgent EXCEPT ![a] = Tail(@)]
      /\ UNCHANGED <<asked, readNum, store, toAgent, db, applied>>
  BY <1>0 DEF TypeOK, AgentAnswers
<1>2. m \in Reply /\ fromAgent' \in [Agent -> Seq(Reply)]
  <2>1. m \in Reply /\ Tail(fromAgent[a]) \in Seq(Reply)
    BY <1>1
  <2> QED BY <1>0, <1>1, <2>1 DEF TypeOK
<1>3. m.r \in Request /\ m.val \in Value /\ m.ok \in BOOLEAN
  BY <1>2 DEF Reply
<1>4. CASE /\ dbStep[m.r] = "none"
           /\ UNCHANGED <<answers, logged, link, listData, dbStep, faults>>
  <2>1. TypeOK'
    BY <1>0, <1>1, <1>2, <1>4 DEF TypeOK
  <2> QED BY <1>1, <1>4, <2>1, NothingTold
<1>5. CASE /\ dbStep[m.r] # "none"
           /\ dbStep' = [dbStep EXCEPT ![m.r] = "none"]
           /\ Respond(m.r, said)
           /\ \/ /\ logged' \in {logged, logged \cup {m.r}}
                 /\ UNCHANGED <<link, listData, faults>>
              \/ /\ WritesBack(m)
                 /\ Registered(listData, Master, e)
                 /\ UNCHANGED <<logged, faults>>
              \/ /\ Refused(Master)
                 /\ logged' = logged \cup {m.r}
  <2>1. /\ asked[m.r] # "none"
        /\ NoMain(listData, m.r)
        /\ dbStep[m.r] = "answers" => answers[m.r] = <<>>
        /\ answers[m.r] \in Told /\ Verdict(answers[m.r])
    BY <1>3, <1>5, DbStepFacts
  <2>2. answers[m.r] \o said \in Told /\ Verdict(answers[m.r] \o said)
    <3>1. CASE dbStep[m.r] = "answers"
      <4>1. said \in {<<"ok">>, <<"error">>}
        BY <3>1
      <4>2. answers[m.r] = <<>>
        BY <2>1, <3>1
      <4> HIDE DEF said
      <4> QED BY <4>1, <4>2, FirstTold
    <3>2. CASE dbStep[m.r] # "answers"
      <4>1. said = <<>>
        BY <3>2
      <4> HIDE DEF said
      <4> QED BY <2>1, <4>1, ToldLater
    <3> QED BY <3>1, <3>2
  <2>3. /\ answers' \in [Request -> Told] /\ answers'[m.r] = answers[m.r] \o said
        /\ \A q \in Request \ {m.r} : answers'[q] = answers[q]
    <3> HIDE DEF said, m
    <3> QED BY <1>0, <1>3, <1>5, <2>2, AnswersTyped
  <2>4. /\ dbStep' \in [Request -> {"none", "answers", "silent"}] /\ dbStep'[m.r] = "none"
        /\ \A q \in Request \ {m.r} : dbStep'[q] = dbStep[q]
    BY <1>0, <1>3, <1>5 DEF TypeOK
  <2>5. /\ listData' \in Lists
        /\ link' \in [Node -> {"none", "connecting", "ready"}]
        /\ \A x \in EntriesOf(listData') :
              x \in EntriesOf(listData) \/ (x.r = m.r /\ x.step = "writeBack")
        /\ OneMain(listData')
        /\ logged' \subseteq Request
        /\ faults' \in 0 .. MaxFaults
    <3>1. CASE UNCHANGED <<link, listData>> /\ logged' \in {logged, logged \cup {m.r}}
               /\ (faults' = faults \/ Fault)
      BY <1>0, <1>3, <3>1, FaultTyped DEF TypeOK
    <3>2. CASE /\ WritesBack(m)
               /\ Registered(listData, Master, e)
               /\ UNCHANGED <<logged, faults>>
      <4>1. m.val \in Record
        BY <1>3, <3>2 DEF WritesBack, Value
      <4>2. e \in Entry /\ e.step = "writeBack" /\ e.r = m.r
        BY <1>3, <4>1, CommandTyped DEF RedisStep
      <4>3. Master \in Node /\ (e.step \in Main => NoMain(listData, e.r))
        BY <4>2 DEF Node, Main
      <4>4. Registered(listData, Master, e)
        BY <3>2
      <4>a. UNCHANGED <<logged, faults>>
        BY <3>2
      <4> HIDE DEF e, m
      <4>5. /\ listData' \in Lists
            /\ link' \in [Node -> {"none", "connecting", "ready"}]
            /\ EntriesOf(listData') \subseteq EntriesOf(listData) \cup {e}
            /\ OneMain(listData')
        BY <1>0, <4>2, <4>3, <4>4, RegisteredLists
      <4> QED BY <1>0, <4>a, <4>2, <4>5 DEF TypeOK
    <3> QED BY <1>5, <3>1, <3>2 DEF Refused
  <2> HIDE DEF m, e, said
  <2>6. TypeOK'
    BY <1>0, <1>1, <1>2, <2>3, <2>4, <2>5 DEF TypeOK, Told, Lists
  <2>7. PICK r \in Request : r = m.r
    BY <1>3
  <2>8. About(r)
    BY <1>1, <2>3, <2>4, <2>5, <2>7 DEF About
  <2>9. Carried(r)'
    <3>1. \A x \in EntriesOf(listData)' : x.r = r => x.step \notin Main
      BY <2>1, <2>5, <2>7 DEF NoMain, Main
    <3>2. Verdict(answers'[r])
      BY <2>2, <2>3, <2>7
    <3>3. asked'[r] # "none" /\ dbStep'[r] = "none"
      BY <1>1, <2>1, <2>4, <2>7
    <3> QED BY <3>1, <3>2, <3>3 DEF Carried, Main
  <2> QED BY <2>6, <2>8, <2>9, StepAbout
<1> QED BY <1>4, <1>5 DEF AgentAnswers

LEMMA TimeoutInv == ASSUME IInv, NEW r \in Request, Timeout(r) PROVE IInv'
<1>0. TypeOK /\ OneMain(listData)
  BY DEF IInv
<1>1. /\ dbStep[r] # "none"
      /\ dbStep' = [dbStep EXCEPT ![r] = "none"]
      /\ Respond(r, <<"error">>)
      /\ UNCHANGED <<asked, logged, redisVars, store, toAgent, fromAgent, db, applied, faults>>
  BY DEF Timeout
<1>2. /\ asked[r] # "none"
      /\ NoMain(listData, r)
      /\ answers[r] \in Told /\ Verdict(answers[r])
  BY <1>1, DbStepFacts
<1>3. answers[r] \o <<"error">> \in Told /\ Verdict(answers[r] \o <<"error">>)
  BY <1>2, ToldLater
<1>4. /\ answers' \in [Request -> Told] /\ Verdict(answers'[r])
      /\ \A q \in Request \ {r} : answers'[q] = answers[q]
  BY <1>0, <1>1, <1>3, AnswersTyped
<1>5. TypeOK'
  BY <1>0, <1>1, <1>4 DEF TypeOK, Told, redisVars
<1>6. About(r)
  BY <1>0, <1>1, <1>4 DEF About, redisVars, TypeOK
<1>7. Carried(r)'
  <2>1. \A x \in EntriesOf(listData)' : x.r = r => x.step \notin Main
    BY <1>1, <1>2 DEF NoMain, redisVars
  <2>2. asked'[r] # "none" /\ dbStep'[r] = "none"
    BY <1>0, <1>1, <1>2 DEF TypeOK
  <2> QED BY <1>4, <2>1, <2>2 DEF Carried, Main
<1> QED BY <1>5, <1>6, <1>7, StepAbout

-----------------------------------------------------------------------------
(* The specification.                                                      *)

LEMMA InitInv == Init => IInv
<1> SUFFICES ASSUME Init PROVE IInv
  OBVIOUS
<1>1. [f \in Field |-> Before] \in Record
  BY DEF Record
<1>2. db \in Value /\ store \in [Node -> [val : Value, ttl : BOOLEAN]]
  BY <1>1, AbsentIsValue DEF Init, Value
<1>3. EntriesOf(listData) = {} /\ OneMain(listData)
  BY DEF Init, EntriesOf, OneMain
<1>4. TypeOK
  BY <1>2, FaultsAssumption DEF Init, TypeOK
<1>5. \A r \in Request : Carried(r)
  BY <1>3 DEF Init, Carried, Verdict
<1> QED BY <1>3, <1>4, <1>5, InvOfCarried DEF AllCarried

LEMMA StepInv == IInv /\ [Next]_vars => IInv'
<1> SUFFICES ASSUME IInv, [Next]_vars PROVE IInv'
  OBVIOUS
<1>1. ASSUME NEW r \in Request,
             AskRead(r) \/ AskWrite(r) \/ AskUpdate(r) \/ AskDb(r) \/ Timeout(r)
      PROVE  IInv'
  BY <1>1, AskReadInv, AskWriteInv, AskUpdateInv, AskDbInv, TimeoutInv
<1>2. ASSUME NEW n \in Node, RedisConnect(n) \/ RedisExecutes(n)
      PROVE  IInv'
  BY <1>2, RedisConnectInv, RedisExecutesInv
<1>3. ASSUME NEW n \in Node, RedisConnectFails(n) \/ RedisDisconnect(n)
      PROVE  IInv'
  BY <1>3, FailStepsInv DEF RedisConnectFails, RedisDisconnect
<1>4. ASSUME NEW n \in Node, Callbacks(n)
      PROVE  IInv'
  BY <1>4, ReadCallbackInv, WriteCallbackInv, ForWriteCallbackInv, WriteBackCallbackInv,
     SetTtlCallbackInv DEF Callbacks
<1>5. ASSUME NEW a \in Agent, AgentExecutes(a) \/ AgentLost(a) \/ AgentAnswers(a)
      PROVE  IInv'
  BY <1>5, AgentExecutesInv, AgentLostInv, AgentAnswersInv
<1>6. CASE RedisReplicates \/ RedisExpires
  BY <1>6, RedisReplicatesInv, RedisExpiresInv
<1>7. CASE UNCHANGED vars
  <2>1. TypeOK'
    BY <1>7 DEF vars, IInv, TypeOK
  <2> QED BY <1>7, <2>1, NothingTold DEF vars
<1> QED BY <1>1, <1>2, <1>3, <1>4, <1>5, <1>6, <1>7 DEF Next

THEOREM Invariance == Spec => []IInv
BY InitInv, StepInv, PTL DEF Spec

\* Every variable of the worker, of Redis and of the DbAgents keeps its type;
\* in particular no empty result is written back to Redis.
THEOREM DataProxyTyped == Spec => []TypeOK
<1>1. IInv => TypeOK
  BY DEF IInv
<1> QED BY <1>1, Invariance, PTL

\* A client is told of success at most once, and first.
THEOREM SuccessIsToldOnce == Spec => []OneVerdict
<1>1. IInv => OneVerdict
  BY DEF IInv
<1> QED BY <1>1, Invariance, PTL

-----------------------------------------------------------------------------
(* What was accepted is applied.                                           *)

\* The requests that are to reach the database.
Stored == {"writeBoth", "deleteBoth", "updateBoth", "dbWrite"}

\* A step of the lists ld will go on to the database for request r.
HasWrite(ld, r) ==
    \E n \in Node : \E i \in 1 .. Len(ld[n]) :
        ld[n][i].r = r /\ ld[n][i].step \in {"write", "forWrite"}

Erred(s) == \E i \in 1 .. Len(s) : s[i] = "error"

\* Such a request is under way, or its failure was reported, or it is applied.
Outcome(r) ==
    asked[r] \in Stored =>
        \/ HasWrite(listData, r)
        \/ dbStep[r] # "none"
        \/ r \in logged
        \/ Erred(answers[r])
        \/ r \in applied

Outcomes == \A r \in Request : Outcome(r)

\* A DbAgent reports success for what the database has executed.
RepliesTrue ==
    \A a \in Agent : \A i \in 1 .. Len(fromAgent[a]) :
        fromAgent[a][i].ok => fromAgent[a][i].r \in applied

AInv == IInv /\ Outcomes /\ RepliesTrue

LEMMA WriteAppended ==
    ASSUME NEW ld \in Lists, NEW n \in Node, NEW e \in Entry, NEW q \in Request,
           \/ HasWrite(ld, q)
           \/ e.r = q /\ e.step \in {"write", "forWrite"},
           NEW new, new = [ld EXCEPT ![n] = Append(@, e)]
    PROVE  HasWrite(new, q)
<1>1. CASE HasWrite(ld, q)
  <2>1. PICK m \in Node : \E k \in 1 .. Len(ld[m]) :
            ld[m][k].r = q /\ ld[m][k].step \in {"write", "forWrite"}
    BY <1>1 DEF HasWrite
  <2>2. PICK i \in 1 .. Len(ld[m]) : ld[m][i].r = q /\ ld[m][i].step \in {"write", "forWrite"}
    BY <2>1
  <2>3. ld[m] \in Seq(Entry)
    BY DEF Lists
  <2>4. i \in 1 .. Len(new[m]) /\ new[m][i] = ld[m][i]
    <3>1. CASE m = n
      <4>1. new[m] = Append(ld[m], e)
        BY <3>1 DEF Lists
      <4>2. i \in 1 .. Len(Append(ld[m], e)) /\ Append(ld[m], e)[i] = ld[m][i]
        BY <2>3
      <4> QED BY <4>1, <4>2
    <3>2. CASE m # n
      BY <3>2 DEF Lists
    <3> QED BY <3>1, <3>2
  <2> QED BY <2>2, <2>4 DEF HasWrite
<1>2. CASE e.r = q /\ e.step \in {"write", "forWrite"}
  <2>1. new[n] = Append(ld[n], e) /\ ld[n] \in Seq(Entry)
    BY DEF Lists
  <2> DEFINE i == Len(ld[n]) + 1
  <2>2. i \in 1 .. Len(Append(ld[n], e)) /\ Append(ld[n], e)[i] = e
    BY <2>1
  <2>3. i \in 1 .. Len(new[n]) /\ new[n][i] = e
    BY <2>1, <2>2
  <2> HIDE DEF i
  <2> QED BY <1>2, <2>3 DEF HasWrite
<1> QED BY <1>1, <1>2

LEMMA WritePopped ==
    ASSUME NEW ld \in Lists, NEW n \in Node, ld[n] # <<>>, NEW q \in Request,
           HasWrite(ld, q),
           ~ (Head(ld[n]).r = q /\ Head(ld[n]).step \in {"write", "forWrite"}),
           NEW new, new = [ld EXCEPT ![n] = Tail(@)]
    PROVE  HasWrite(new, q)
<1>1. PICK m \in Node : \E k \in 1 .. Len(ld[m]) :
          ld[m][k].r = q /\ ld[m][k].step \in {"write", "forWrite"}
  BY DEF HasWrite
<1>2. PICK i \in 1 .. Len(ld[m]) : ld[m][i].r = q /\ ld[m][i].step \in {"write", "forWrite"}
  BY <1>1
<1>3. ld[m] \in Seq(Entry)
  BY DEF Lists
<1>4. CASE m = n
  <2>1. new[m] = Tail(ld[m])
    BY <1>4 DEF Lists
  <2>2. Head(ld[m]) = ld[m][1]
    BY <1>3, <1>4
  <2>3. i # 1
    BY <1>2, <1>4, <2>2
  <2>4. /\ Len(Tail(ld[m])) = Len(ld[m]) - 1 /\ Len(ld[m]) \in Nat
        /\ \A j \in 1 .. Len(Tail(ld[m])) : Tail(ld[m])[j] = ld[m][j + 1]
    BY <1>3, <1>4, HeadTailProperties
  <2> DEFINE j == i - 1
  <2>5. j \in 1 .. Len(Tail(ld[m])) /\ j + 1 = i
    BY <2>3, <2>4
  <2>6. j \in 1 .. Len(new[m]) /\ new[m][j] = ld[m][i]
    BY <2>1, <2>4, <2>5
  <2> HIDE DEF j
  <2> QED BY <1>2, <2>6 DEF HasWrite
<1>5. CASE m # n
  <2>1. new[m] = ld[m]
    BY <1>5 DEF Lists
  <2> QED BY <1>2, <2>1 DEF HasWrite
<1> QED BY <1>4, <1>5

LEMMA WriteCleared ==
    ASSUME NEW ld \in Lists, NEW n \in Node, NEW q \in Request, HasWrite(ld, q),
           \A i \in 1 .. Len(ld[n]) : ld[n][i].step \in {"write", "forWrite"} => ld[n][i].r # q,
           NEW new, new = [ld EXCEPT ![n] = <<>>]
    PROVE  HasWrite(new, q)
<1>1. PICK m \in Node : \E k \in 1 .. Len(ld[m]) :
          ld[m][k].r = q /\ ld[m][k].step \in {"write", "forWrite"}
  BY DEF HasWrite
<1>2. m # n
  BY <1>1
<1>3. new[m] = ld[m]
  BY <1>2 DEF Lists
<1> QED BY <1>1, <1>3 DEF HasWrite

LEMMA ErredLater ==
    ASSUME NEW s \in Told, NEW told \in Told, Erred(s) \/ Erred(told)
    PROVE  Erred(s \o told)
<1>1. /\ Len(s \o told) = Len(s) + Len(told) /\ Len(s) \in Nat /\ Len(told) \in Nat
      /\ \A i \in 1 .. Len(s) + Len(told) :
            (s \o told)[i] = IF i <= Len(s) THEN s[i] ELSE told[i - Len(s)]
  BY ConcatProperties DEF Told
<1>2. CASE Erred(s)
  <2>1. PICK i \in 1 .. Len(s) : s[i] = "error"
    BY <1>2 DEF Erred
  <2>2. i \in 1 .. Len(s \o told) /\ (s \o told)[i] = "error"
    BY <1>1, <2>1
  <2> QED BY <2>2 DEF Erred
<1>3. CASE Erred(told)
  <2>1. PICK i \in 1 .. Len(told) : told[i] = "error"
    BY <1>3 DEF Erred
  <2> DEFINE j == Len(s) + i
  <2>2. j \in 1 .. Len(s \o told) /\ (s \o told)[j] = "error"
    BY <1>1, <2>1
  <2> HIDE DEF j
  <2> QED BY <2>2 DEF Erred
<1> QED BY <1>2, <1>3

LEMMA ErrorErrs == Erred(<<"error">>) /\ Erred(<<"error", "error">>)
<1>1. <<"error">>[1] = "error" /\ 1 \in 1 .. Len(<<"error">>)
  OBVIOUS
<1>2. <<"error", "error">>[1] = "error" /\ 1 \in 1 .. Len(<<"error", "error">>)
  OBVIOUS
<1> QED BY <1>1, <1>2 DEF Erred

LEMMA OutcomeKept ==
    ASSUME NEW q \in Request, Outcome(q), asked'[q] = asked[q],
           HasWrite(listData, q) => HasWrite(listData', q),
           dbStep'[q] = dbStep[q],
           logged \subseteq logged', applied \subseteq applied',
           Erred(answers[q]) => Erred(answers'[q])
    PROVE  Outcome(q)'
BY DEF Outcome, Erred, HasWrite

LEMMA RepliesKept ==
    ASSUME RepliesTrue, fromAgent' = fromAgent, applied \subseteq applied'
    PROVE  RepliesTrue'
BY DEF RepliesTrue

\* What a step about r does to the others, when their writes stay in the lists.
LEMMA OutcomesKept ==
    ASSUME AInv, NEW r \in Request, Outcome(r)',
           \A q \in Request \ {r} :
              /\ asked'[q] = asked[q] /\ answers'[q] = answers[q] /\ dbStep'[q] = dbStep[q]
              /\ HasWrite(listData, q) => HasWrite(listData', q),
           logged \subseteq logged', applied \subseteq applied'
    PROVE  Outcomes'
<1>1. ASSUME NEW q \in Request, q # r PROVE Outcome(q)'
  <2>1. Outcome(q) /\ answers'[q] = answers[q]
    BY <1>1 DEF AInv, Outcomes
  <2> QED BY <1>1, <2>1, OutcomeKept
<1>2. \A q \in Request : Outcome(q)'
  BY <1>1
<1> QED BY <1>2 DEF Outcomes

LEMMA EmittedOut ==
    ASSUME TypeOK, NEW r \in Request, NEW k, NEW hasRedis,
           NEW told \in {<<>>, <<"ok">>}, answers[r] = <<>>,
           EmitToAgent(r, k, hasRedis, told)
    PROVE  dbStep'[r] # "none" \/ Erred(answers'[r])
<1>1. CASE dbStep' = [dbStep EXCEPT ![r] = IF NeedResponse(k, hasRedis) THEN "answers" ELSE "silent"]
  BY <1>1 DEF TypeOK
<1>2. CASE Respond(r, Append(told, "error"))
  <2> DEFINE t == Append(told, "error")
  <2>1. told \in Told /\ Verdict(told)
    BY FirstTold
  <2>2. t \in Told /\ Len(told) + 1 \in 1 .. Len(t) /\ t[Len(told) + 1] = "error"
    BY <2>1 DEF Told
  <2>3. Erred(t)
    BY <2>2 DEF Erred
  <2>4. Respond(r, t) /\ answers[r] \o t \in Told /\ Erred(answers[r] \o t)
    BY <1>2, <2>2, <2>3, ErredLater, FirstTold, ConcatEmptySeq DEF Told
  <2> HIDE DEF t
  <2>5. answers'[r] = answers[r] \o t
    BY <2>4, AnswersTyped
  <2> QED BY <2>4, <2>5
<1> QED BY <1>1, <1>2 DEF EmitToAgent

LEMMA RegisteredWrites ==
    ASSUME TypeOK, NEW n \in Node, NEW e \in Entry, NEW q \in Request,
           Registered(listData, n, e),
           \/ HasWrite(listData, q)
           \/ e.r = q /\ e.step \in {"write", "forWrite"}
    PROVE  HasWrite(listData', q)
<1>1. listData \in Lists /\ listData' = [listData EXCEPT ![n] = Append(@, e)]
  BY ListsTyped DEF Registered
<1>2. \A new : new = [listData EXCEPT ![n] = Append(@, e)] => HasWrite(new, q)
  BY <1>1, WriteAppended
<1> QED BY <1>1, <1>2, Zenon

LEMMA AskRegistersOut ==
    ASSUME AInv, NEW r \in Request, NEW k \in Kinds, Asks(r, k),
           NEW n \in Node, NEW e \in Entry, e.r = r,
           k \in Stored => e.step \in {"write", "forWrite"},
           Registered(listData, n, e),
           UNCHANGED <<answers, faults, logged, store, agentVars, db, applied>>
    PROVE  Outcomes' /\ RepliesTrue'
<1>1. TypeOK
  BY DEF AInv, IInv
<1>2. asked'[r] = k /\ \A q \in Request \ {r} : asked'[q] = asked[q]
  BY <1>1, AskedTyped
<1>3. k \in Stored => HasWrite(listData', r)
  BY <1>1, RegisteredWrites
<1>4. \A q \in Request : HasWrite(listData, q) => HasWrite(listData', q)
  BY <1>1, RegisteredWrites
<1>5. Outcome(r)'
  BY <1>2, <1>3 DEF Outcome, HasWrite
<1>6. Outcomes'
  BY <1>2, <1>4, <1>5, OutcomesKept DEF agentVars
<1> QED BY <1>6, RepliesKept DEF AInv, agentVars

LEMMA AskRefusedOut ==
    ASSUME AInv, NEW r \in Request, NEW k \in Kinds, Asks(r, k),
           NEW n \in Node, Refused(n),
           NEW told \in {<<"error">>, <<"error", "error">>}, Respond(r, told),
           UNCHANGED <<readNum, logged, store, agentVars, db, applied>>
    PROVE  Outcomes' /\ RepliesTrue'
<1>1. TypeOK
  BY DEF AInv, IInv
<1>2. /\ asked[r] = "none"
      /\ \A q \in Request \ {r} : asked'[q] = asked[q]
  BY <1>1, AskedTyped
<1>3. answers[r] = <<>>
  BY <1>2, NothingBefore DEF AInv
<1>4. answers[r] \o told = told /\ told \in Told /\ Erred(told)
  BY <1>3, FirstTold, ErrorErrs
<1>5. /\ answers'[r] = told
      /\ \A q \in Request \ {r} : answers'[q] = answers[q]
  BY <1>1, <1>4, AnswersTyped
<1>6. Outcome(r)'
  BY <1>4, <1>5 DEF Outcome, Erred
<1>7. Outcomes'
  BY <1>2, <1>5, <1>6, OutcomesKept DEF agentVars, Refused
<1> QED BY <1>7, RepliesKept DEF AInv, agentVars

LEMMA AskReadOut == ASSUME AInv, NEW r \in Request, AskRead(r) PROVE Outcomes' /\ RepliesTrue'
<1>1. PICK k \in Kind \cap {"redisRead", "readEither"} : Asks(r, k)
  BY DEF AskRead
<1>2. k \in Kinds /\ k \notin Stored
  BY <1>1 DEF Kinds, Reads, Stored
<1>3. Slave \in Node
  BY DEF Node
<1>a. UNCHANGED <<logged, store, agentVars, db, applied>>
  BY DEF AskRead
<1>4. CASE /\ Registered(listData, Slave, Command("read", r, Absent))
           /\ UNCHANGED <<answers, faults>>
  <2>1. /\ Command("read", r, Absent) \in Entry
        /\ Command("read", r, Absent).r = r
    BY CommandTyped, AbsentIsValue DEF RedisStep
  <2> QED BY <1>1, <1>2, <1>3, <1>4, <1>a, <2>1, AskRegistersOut
<1>5. CASE Refused(Slave) /\ Respond(r, <<"error", "error">>) /\ UNCHANGED readNum
  BY <1>1, <1>2, <1>3, <1>5, <1>a, AskRefusedOut
<1> QED BY <1>4, <1>5 DEF AskRead

LEMMA AskWriteOut == ASSUME AInv, NEW r \in Request, AskWrite(r) PROVE Outcomes' /\ RepliesTrue'
<1>1. PICK k \in Kind \cap {"redisWrite", "writeBoth", "deleteBoth"} :
        /\ Asks(r, k)
        /\ \/ /\ Registered(listData, Master, Command("write", r, Merged(k, r, Absent)))
              /\ UNCHANGED <<answers, faults>>
           \/ Refused(Master) /\ Respond(r, <<"error">>)
  BY DEF AskWrite
<1>2. k \in Kinds
  BY <1>1 DEF Kinds, Writes
<1>3. Master \in Node
  BY DEF Node
<1>a. UNCHANGED <<logged, readNum, store, agentVars, db, applied>>
  BY DEF AskWrite
<1>4. CASE /\ Registered(listData, Master, Command("write", r, Merged(k, r, Absent)))
           /\ UNCHANGED <<answers, faults>>
  <2> DEFINE e == Command("write", r, Merged(k, r, Absent))
  <2>0. Merged(k, r, Absent) \in Value
    BY AbsentIsValue, MergedTyped
  <2>1. e \in Entry /\ e.r = r /\ e.step = "write" /\ Registered(listData, Master, e)
    BY <1>4, <2>0, CommandTyped DEF RedisStep
  <2> HIDE DEF e
  <2> QED BY <1>1, <1>2, <1>3, <1>4, <1>a, <2>1, AskRegistersOut
<1>5. CASE Refused(Master) /\ Respond(r, <<"error">>)
  BY <1>1, <1>2, <1>3, <1>5, <1>a, AskRefusedOut
<1> QED BY <1>1, <1>4, <1>5

LEMMA AskUpdateOut == ASSUME AInv, NEW r \in Request, AskUpdate(r) PROVE Outcomes' /\ RepliesTrue'
<1>1. Asks(r, "updateBoth") /\ "updateBoth" \in Kinds
  BY DEF AskUpdate, Kinds, Writes
<1>3. Master \in Node
  BY DEF Node
<1>a. UNCHANGED <<logged, readNum, store, agentVars, db, applied>>
  BY DEF AskUpdate
<1>4. CASE /\ Registered(listData, Master, Command("forWrite", r, Absent))
           /\ UNCHANGED <<answers, faults>>
  <2> DEFINE e == Command("forWrite", r, Absent)
  <2>1. e \in Entry /\ e.r = r /\ e.step = "forWrite" /\ Registered(listData, Master, e)
    BY <1>4, CommandTyped, AbsentIsValue DEF RedisStep
  <2> HIDE DEF e
  <2> QED BY <1>1, <1>3, <1>4, <1>a, <2>1, AskRegistersOut
<1>5. CASE Refused(Master) /\ Respond(r, <<"error", "error">>)
  BY <1>1, <1>3, <1>5, <1>a, AskRefusedOut
<1> QED BY <1>4, <1>5 DEF AskUpdate

LEMMA AskDbOut == ASSUME AInv, NEW r \in Request, AskDb(r) PROVE Outcomes' /\ RepliesTrue'
<1>0. TypeOK /\ IInv
  BY DEF AInv, IInv
<1>1. PICK k \in Kind \cap {"dbRead", "dbWrite"} :
        Asks(r, k) /\ EmitToAgent(r, k, FALSE, <<>>)
  BY DEF AskDb
<1>2. k \in Kinds
  BY <1>1 DEF Kinds, Reads, Writes
<1>3. /\ asked[r] = "none"
      /\ \A q \in Request \ {r} : asked'[q] = asked[q]
  BY <1>0, <1>1, <1>2, AskedTyped
<1>4. answers[r] = <<>> /\ dbStep[r] = "none"
  BY <1>0, <1>3, NothingBefore
<1>5. \A q \in Request \ {r} : answers'[q] = answers[q] /\ dbStep'[q] = dbStep[q]
  BY <1>0, <1>1, <1>2, <1>4, Emitted
<1>6. dbStep'[r] # "none" \/ Erred(answers'[r])
  BY <1>0, <1>1, <1>4, EmittedOut
<1>7. UNCHANGED <<logged, listData, fromAgent, applied>>
  BY DEF AskDb, redisVars
<1>8. Outcome(r)'
  BY <1>6 DEF Outcome, Erred
<1>9. Outcomes'
  BY <1>3, <1>5, <1>7, <1>8, OutcomesKept
<1> QED BY <1>7, <1>9, RepliesKept DEF AInv

\* Nothing a request depends on changes, but its reply may come.
LEMMA NothingToldOut ==
    ASSUME AInv, UNCHANGED <<asked, answers, logged, dbStep>>,
           \A q \in Request : HasWrite(listData, q) => HasWrite(listData', q),
           applied \subseteq applied'
    PROVE  Outcomes'
<1>1. ASSUME NEW q \in Request PROVE Outcome(q)'
  <2>1. Outcome(q)
    BY DEF AInv, Outcomes
  <2> QED BY <2>1, OutcomeKept
<1> QED BY <1>1 DEF Outcomes


LEMMA RedisConnectOut ==
    ASSUME AInv, NEW n \in Node, RedisConnect(n) PROVE Outcomes' /\ RepliesTrue'
<1>1. Outcomes'
  BY NothingToldOut DEF RedisConnect, clientVars, agentVars
<1> QED BY <1>1, RepliesKept DEF AInv, RedisConnect, agentVars

LEMMA RedisReplicatesOut == ASSUME AInv, RedisReplicates PROVE Outcomes' /\ RepliesTrue'
<1>1. Outcomes'
  BY NothingToldOut DEF RedisReplicates, clientVars, redisVars, agentVars
<1> QED BY <1>1, RepliesKept DEF AInv, RedisReplicates, agentVars

LEMMA RedisExpiresOut == ASSUME AInv, RedisExpires PROVE Outcomes' /\ RepliesTrue'
<1>1. Outcomes'
  BY NothingToldOut DEF RedisExpires, clientVars, redisVars, agentVars
<1> QED BY <1>1, RepliesKept DEF AInv, RedisExpires, agentVars

LEMMA RedisExecutesOut ==
    ASSUME AInv, NEW n \in Node, RedisExecutes(n) PROVE Outcomes' /\ RepliesTrue'
<1>1. UNCHANGED <<asked, answers, logged, dbStep, fromAgent, applied>>
  BY RedisExecutesFacts DEF AInv
<1>2. /\ \A m \in Node : Len(listData'[m]) = Len(listData[m])
      /\ \A m \in Node : \A j \in 1 .. Len(listData[m]) :
            listData'[m][j].step = listData[m][j].step /\ listData'[m][j].r = listData[m][j].r
  BY RedisExecutesFacts DEF AInv
<1>3. ASSUME NEW q \in Request, HasWrite(listData, q) PROVE HasWrite(listData', q)
  <2>1. PICK m \in Node : \E k \in 1 .. Len(listData[m]) :
            listData[m][k].r = q /\ listData[m][k].step \in {"write", "forWrite"}
    BY <1>3 DEF HasWrite
  <2>2. PICK i \in 1 .. Len(listData[m]) :
            listData[m][i].r = q /\ listData[m][i].step \in {"write", "forWrite"}
    BY <2>1
  <2>3. /\ i \in 1 .. Len(listData'[m])
        /\ listData'[m][i].r = q /\ listData'[m][i].step \in {"write", "forWrite"}
    BY <1>2, <2>2
  <2> QED BY <2>3 DEF HasWrite
<1>4. Outcomes'
  BY <1>1, <1>3, NothingToldOut
<1> QED BY <1>1, <1>4, RepliesKept DEF AInv

\* A client is told of the failure of its step; that of another step is logged.
LEMMA FailStepsOut ==
    ASSUME AInv, NEW n \in Node, FailSteps(n),
           UNCHANGED <<asked, store, agentVars, db, applied>>
    PROVE  Outcomes' /\ RepliesTrue'
<1> DEFINE again == {e.r : e \in {d \in Steps(n) : d.step = "read" /\ readNum[d.r] = 0}}
           told == {e.r : e \in {d \in Steps(n) : d.step \in {"read", "write", "forWrite"}}} \ again
<1>0. TypeOK /\ listData \in Lists /\ EntriesOK
  BY ListsTyped DEF AInv, IInv
<1>1. listData[n] \in Seq(Entry)
  BY <1>0 DEF Lists
<1>2. ASSUME NEW e \in Steps(n) PROVE e \in EntriesOf(listData)
  <2>1. PICK i \in DOMAIN listData[n] : e = listData[n][i]
    BY DEF Steps
  <2>2. i \in 1 .. Len(listData[n]) /\ e \in Entry
    BY <1>1, <2>1
  <2> QED BY <2>1, <2>2 DEF EntriesOf
<1>3. again = {}
  BY <1>0, <1>2 DEF EntriesOK
<1>4. \A i \in 1 .. Len(listData[n]) :
          listData[n][i].step \in {"write", "forWrite"} => listData[n][i].r \in told
  <2> TAKE i \in 1 .. Len(listData[n])
  <2>1. listData[n][i] \in Steps(n)
    BY <1>1 DEF Steps
  <2> HIDE DEF again
  <2> QED BY <1>3, <2>1
<1>5. /\ answers' = [r \in Request |-> IF r \in told THEN Append(answers[r], "error") ELSE answers[r]]
      /\ logged \subseteq logged'
      /\ listData' = [listData EXCEPT ![n] = <<>>]
  BY DEF FailSteps
<1> HIDE DEF again, told
<1>6. ASSUME NEW q \in Request, q \in told PROVE Erred(answers'[q])
  <2>1. answers'[q] = Append(answers[q], "error") /\ answers[q] \in Told
    BY <1>0, <1>5, <1>6 DEF TypeOK, Told
  <2>2. /\ Len(answers[q]) + 1 \in 1 .. Len(Append(answers[q], "error"))
        /\ Append(answers[q], "error")[Len(answers[q]) + 1] = "error"
    BY <2>1 DEF Told
  <2> QED BY <2>1, <2>2 DEF Erred
<1>7. ASSUME NEW q \in Request PROVE Outcome(q)'
  <2>1. CASE q \in told
    BY <1>6, <2>1 DEF Outcome, Erred
  <2>2. CASE q \notin told
    <3>1. Outcome(q) /\ answers'[q] = answers[q]
      BY <1>5, <2>2 DEF AInv, Outcomes
    <3>2. ASSUME HasWrite(listData, q) PROVE HasWrite(listData', q)
      <4>1. \A i \in 1 .. Len(listData[n]) :
                listData[n][i].step \in {"write", "forWrite"} => listData[n][i].r # q
        BY <1>4, <2>2
      <4>2. \A new : new = [listData EXCEPT ![n] = <<>>] => HasWrite(new, q)
        BY <1>0, <3>2, <4>1, WriteCleared
      <4> QED BY <1>5, <4>2, Zenon
    <3> QED BY <1>5, <3>1, <3>2, OutcomeKept DEF agentVars
  <2> QED BY <2>1, <2>2
<1>8. Outcomes'
  BY <1>7 DEF Outcomes
<1> QED BY <1>8, RepliesKept DEF AInv, agentVars

LEMMA TimeoutOut == ASSUME AInv, NEW r \in Request, Timeout(r) PROVE Outcomes' /\ RepliesTrue'
<1>0. TypeOK
  BY DEF AInv, IInv
<1>1. /\ dbStep' = [dbStep EXCEPT ![r] = "none"]
      /\ Respond(r, <<"error">>)
      /\ UNCHANGED <<asked, logged, redisVars, fromAgent, applied>>
  BY DEF Timeout
<1>2. answers[r] \in Told /\ <<"error">> \in Told /\ Erred(<<"error">>)
  BY <1>0, FirstTold, ErrorErrs DEF TypeOK, Told
<1>3. answers[r] \o <<"error">> \in Told /\ Erred(answers[r] \o <<"error">>)
  <2>1. answers[r] \o <<"error">> \in Told
    BY <1>2 DEF Told
  <2>2. Erred(answers[r] \o <<"error">>)
    BY <1>2, ErredLater
  <2> QED BY <2>1, <2>2
<1>4. /\ answers'[r] = answers[r] \o <<"error">>
      /\ \A q \in Request \ {r} : answers'[q] = answers[q]
  BY <1>0, <1>1, <1>3, AnswersTyped
<1>5. Outcome(r)'
  BY <1>3, <1>4 DEF Outcome, Erred
<1>6. \A q \in Request \ {r} : dbStep'[q] = dbStep[q]
  BY <1>0, <1>1 DEF TypeOK
<1>7. Outcomes'
  BY <1>1, <1>4, <1>5, <1>6, OutcomesKept DEF redisVars
<1> QED BY <1>1, <1>7, RepliesKept DEF AInv


\* The step that was replied to leaves its list, another may follow it.
LEMMA WriteCarriedOn ==
    ASSUME AInv, NEW n \in Node, NEW r \in Request, NEW s \in RedisStep, Replied(n, s, r),
           \/ listData' = Popped(n)
           \/ \E e \in Entry : listData' = [Popped(n) EXCEPT ![n] = Append(@, e)],
           NEW q \in Request, HasWrite(listData, q),
           q # r \/ s \notin {"write", "forWrite"}
    PROVE  HasWrite(listData', q)
<1>0. listData \in Lists /\ IInv
  BY ListsTyped DEF AInv, IInv
<1>1. listData[n] # <<>> /\ Head(listData[n]).step = s /\ Head(listData[n]).r = r
  BY DEF Replied
<1>2. HasWrite(Popped(n), q) /\ Popped(n) \in Lists
  <2>1. \A new : new = [listData EXCEPT ![n] = Tail(@)] => HasWrite(new, q)
    BY <1>0, <1>1, WritePopped
  <2>2. Popped(n) = [listData EXCEPT ![n] = Tail(@)]
    BY DEF Popped
  <2>3. Popped(n) \in Lists
    BY <1>0, RepliedFacts
  <2> QED BY <2>1, <2>2, <2>3, Zenon
<1>3. CASE listData' = Popped(n)
  BY <1>2, <1>3, Zenon
<1>4. ASSUME NEW e \in Entry, listData' = [Popped(n) EXCEPT ![n] = Append(@, e)]
      PROVE  HasWrite(listData', q)
  <2> DEFINE ld == Popped(n)
  <2> HIDE DEF ld
  <2>1. ld \in Lists /\ HasWrite(ld, q)
    BY <1>2 DEF ld
  <2>2. \A new : new = [ld EXCEPT ![n] = Append(@, e)] => HasWrite(new, q)
    BY <2>1, WriteAppended
  <2> QED BY <1>4, <2>2, Zenon DEF ld
<1> QED BY <1>3, <1>4

\* A callback is about one request.
LEMMA CallbackOut ==
    ASSUME AInv, NEW n \in Node, NEW r \in Request, NEW s \in RedisStep, Replied(n, s, r),
           \/ listData' = Popped(n)
           \/ \E e \in Entry : listData' = [Popped(n) EXCEPT ![n] = Append(@, e)],
           Outcome(r)', asked' = asked,
           \A q \in Request \ {r} : answers'[q] = answers[q] /\ dbStep'[q] = dbStep[q],
           logged \subseteq logged', UNCHANGED <<fromAgent, applied>>
    PROVE  Outcomes' /\ RepliesTrue'
<1>1. \A q \in Request \ {r} : HasWrite(listData, q) => HasWrite(listData', q)
  BY WriteCarriedOn
<1>2. Outcomes'
  BY <1>1, OutcomesKept
<1> QED BY <1>2, RepliesKept DEF AInv

\* What the request of a main step is told when nothing is sent to a DbAgent.
LEMMA RespondedOut ==
    ASSUME TypeOK, NEW r \in Request, answers[r] = <<>>,
           NEW told \in {<<"ok">>, <<"error">>}, Respond(r, told)
    PROVE  /\ \A q \in Request \ {r} : answers'[q] = answers[q]
           /\ answers'[r] = told
           /\ told = <<"error">> => Erred(answers'[r])
<1>1. answers[r] \o told = told /\ told \in Told
  BY FirstTold
<1>2. /\ answers'[r] = told
      /\ \A q \in Request \ {r} : answers'[q] = answers[q]
  BY <1>1, AnswersTyped
<1> QED BY <1>2, ErrorErrs

LEMMA ReadCallbackOut ==
    ASSUME AInv, NEW n \in Node, NEW r \in Request, ReadCallback(n, r)
    PROVE  Outcomes' /\ RepliesTrue'
<1>0. TypeOK /\ IInv /\ Outcome(r)
  BY DEF AInv, IInv, Outcomes
<1>1. /\ Replied(n, "read", r)
      /\ listData' = Popped(n)
      /\ UNCHANGED <<asked, logged, fromAgent, applied>>
  BY DEF ReadCallback
<1>2. answers[r] = <<>> /\ dbStep[r] = "none"
  BY <1>0, <1>1, RepliedFacts DEF RedisStep, Main
<1>3. HasWrite(listData, r) => HasWrite(listData', r)
  BY <1>1, WriteCarriedOn DEF RedisStep
<1>4. /\ \A q \in Request \ {r} : answers'[q] = answers[q] /\ dbStep'[q] = dbStep[q]
      /\ Outcome(r)'
  <2>1. CASE EmitToAgent(r, "readEither", TRUE, <<>>)
    <3>1. \A q \in Request \ {r} : answers'[q] = answers[q] /\ dbStep'[q] = dbStep[q]
      BY <1>0, <1>2, <2>1, Emitted DEF Kinds, Reads
    <3>2. dbStep'[r] # "none" \/ Erred(answers'[r])
      BY <1>0, <1>2, <2>1, EmittedOut
    <3> QED BY <3>1, <3>2 DEF Outcome, Erred
  <2>2. CASE /\ Respond(r, <<IF Failed(n) THEN "error" ELSE "ok">>)
             /\ UNCHANGED <<dbStep, toAgent, faults>>
    <3>1. <<IF Failed(n) THEN "error" ELSE "ok">> \in {<<"ok">>, <<"error">>}
      OBVIOUS
    <3>2. \A q \in Request \ {r} : answers'[q] = answers[q]
      BY <1>0, <1>2, <2>2, <3>1, RespondedOut
    <3>3. ~ Erred(answers[r])
      BY <1>2 DEF Erred
    <3>4. Outcome(r)'
      BY <1>0, <1>1, <1>3, <2>2, <3>3, OutcomeKept
    <3> QED BY <2>2, <3>2, <3>4
  <2> QED BY <2>1, <2>2 DEF ReadCallback
<1> QED BY <1>1, <1>4, CallbackOut DEF RedisStep

LEMMA WriteCallbackOut ==
    ASSUME AInv, NEW n \in Node, NEW r \in Request, WriteCallback(n, r)
    PROVE  Outcomes' /\ RepliesTrue'
<1>0. TypeOK /\ IInv
  BY DEF AInv, IInv
<1>1. /\ Replied(n, "write", r)
      /\ UNCHANGED <<asked, logged, fromAgent, applied>>
  BY DEF WriteCallback
<1>2. answers[r] = <<>> /\ dbStep[r] = "none" /\ asked[r] \in Writes /\ asked[r] \in Kinds
  BY <1>0, <1>1, RepliedFacts DEF RedisStep, Main
<1>3. \/ listData' = Popped(n)
      \/ \E e \in Entry : listData' = [Popped(n) EXCEPT ![n] = Append(@, e)]
  <2>1. Command("setTtl", r, Absent) \in Entry
    BY CommandTyped, AbsentIsValue DEF RedisStep
  <2> QED BY <2>1 DEF WriteCallback
<1>4. /\ \A q \in Request \ {r} : answers'[q] = answers[q] /\ dbStep'[q] = dbStep[q]
      /\ Outcome(r)'
  <2>1. CASE EmitToAgent(r, asked[r], TRUE, <<"ok">>)
    <3>1. asked[r] \notin Reads
      BY <1>2 DEF Writes, Reads
    <3>2. \A q \in Request \ {r} : answers'[q] = answers[q] /\ dbStep'[q] = dbStep[q]
      BY <1>0, <1>2, <2>1, <3>1, Emitted
    <3>3. dbStep'[r] # "none" \/ Erred(answers'[r])
      BY <1>0, <1>2, <2>1, EmittedOut
    <3> QED BY <3>2, <3>3 DEF Outcome, Erred
  <2>2. CASE /\ Failed(n) \/ asked[r] = "redisWrite"
             /\ Respond(r, <<IF Failed(n) THEN "error" ELSE "ok">>)
             /\ UNCHANGED <<dbStep, toAgent, faults>>
    <3> DEFINE told == <<IF Failed(n) THEN "error" ELSE "ok">>
    <3>1. told \in {<<"ok">>, <<"error">>} /\ (Failed(n) => told = <<"error">>)
      OBVIOUS
    <3> HIDE DEF told
    <3>2. /\ \A q \in Request \ {r} : answers'[q] = answers[q]
          /\ Failed(n) => Erred(answers'[r])
      BY <1>0, <1>2, <2>2, <3>1, RespondedOut DEF told
    <3>3. Outcome(r)'
      BY <1>1, <2>2, <3>2 DEF Outcome, Erred, Stored
    <3> QED BY <2>2, <3>2, <3>3
  <2> QED BY <2>1, <2>2 DEF WriteCallback
<1> QED BY <1>1, <1>3, <1>4, CallbackOut DEF RedisStep

LEMMA ForWriteCallbackOut ==
    ASSUME AInv, NEW n \in Node, NEW r \in Request, ForWriteCallback(n, r)
    PROVE  Outcomes' /\ RepliesTrue'
<1>0. TypeOK /\ IInv
  BY DEF AInv, IInv
<1>1. /\ Replied(n, "forWrite", r)
      /\ UNCHANGED <<asked, logged, fromAgent, applied>>
  BY DEF ForWriteCallback
<1>2. /\ answers[r] = <<>> /\ dbStep[r] = "none" /\ asked[r] \in Kinds
      /\ Popped(n) \in Lists /\ Head(listData[n]) \in Entry
  BY <1>0, <1>1, RepliedFacts DEF RedisStep, Main
<1>3. CASE listData' = Popped(n) /\ EmitToAgent(r, "updateBoth", FALSE, <<>>)
  <2>1. \A q \in Request \ {r} : answers'[q] = answers[q] /\ dbStep'[q] = dbStep[q]
    BY <1>0, <1>2, <1>3, Emitted DEF Kinds, Writes
  <2>2. dbStep'[r] # "none" \/ Erred(answers'[r])
    BY <1>0, <1>2, <1>3, EmittedOut
  <2>3. Outcome(r)'
    BY <2>2 DEF Outcome, Erred
  <2> QED BY <1>1, <1>3, <2>1, <2>3, CallbackOut DEF RedisStep
<1>4. CASE /\ listData' = Popped(n)
           /\ Respond(r, <<"error">>) /\ UNCHANGED <<dbStep, toAgent, faults>>
  <2>1. /\ \A q \in Request \ {r} : answers'[q] = answers[q]
        /\ Erred(answers'[r])
    BY <1>0, <1>2, <1>4, RespondedOut
  <2>2. Outcome(r)'
    BY <2>1 DEF Outcome, Erred
  <2> QED BY <1>1, <1>4, <2>1, <2>2, CallbackOut DEF RedisStep
<1>5. CASE /\ Found(n) # Absent
           /\ listData' = [Popped(n) EXCEPT ![n] =
                Append(@, Command("write", r, Merged("updateBoth", r, Found(n))))]
           /\ UNCHANGED <<answers, dbStep, toAgent, faults>>
  <2> DEFINE e == Command("write", r, Merged("updateBoth", r, Found(n)))
             ld == Popped(n)
  <2>1. Merged("updateBoth", r, Found(n)) \in Value
    BY <1>2, MergedTyped DEF Found, Entry
  <2>2. e \in Entry /\ e.step = "write" /\ e.r = r
    BY <2>1, CommandTyped DEF RedisStep
  <2> HIDE DEF e, ld
  <2>3. listData' = [ld EXCEPT ![n] = Append(@, e)] /\ ld \in Lists
    BY <1>2, <1>5 DEF e, ld
  <2>4. HasWrite(listData', r)
    <3>1. \A new : new = [ld EXCEPT ![n] = Append(@, e)] => HasWrite(new, r)
      BY <2>2, <2>3, WriteAppended
    <3> QED BY <2>3, <3>1, Zenon
  <2>5. Outcome(r)'
    BY <2>4 DEF Outcome, HasWrite
  <2>6. \E x \in Entry : listData' = [Popped(n) EXCEPT ![n] = Append(@, x)]
    BY <2>2, <2>3 DEF ld
  <2> QED BY <1>1, <1>5, <2>5, <2>6, CallbackOut DEF RedisStep
<1> QED BY <1>3, <1>4, <1>5 DEF ForWriteCallback

LEMMA SilentCallbackOut ==
    ASSUME AInv, NEW n \in Node, NEW r \in Request,
           NEW s \in {"writeBack", "setTtl"}, Replied(n, s, r),
           \/ listData' = Popped(n)
           \/ listData' = [Popped(n) EXCEPT ![n] = Append(@, Command("setTtl", r, Absent))],
           logged \subseteq logged',
           UNCHANGED <<asked, answers, readNum, link, store, agentVars, db, applied, faults>>
    PROVE  Outcomes' /\ RepliesTrue'
<1>1. \/ listData' = Popped(n)
      \/ \E e \in Entry : listData' = [Popped(n) EXCEPT ![n] = Append(@, e)]
  <2>1. Command("setTtl", r, Absent) \in Entry
    BY CommandTyped, AbsentIsValue DEF RedisStep
  <2> QED BY <2>1
<1>2. HasWrite(listData, r) => HasWrite(listData', r)
  BY <1>1, WriteCarriedOn DEF RedisStep
<1>3. Outcome(r)'
  <2>1. Outcome(r)
    BY DEF AInv, Outcomes
  <2> QED BY <1>2, <2>1, OutcomeKept DEF agentVars
<1> QED BY <1>1, <1>3, CallbackOut DEF RedisStep, agentVars

LEMMA WriteBackCallbackOut ==
    ASSUME AInv, NEW n \in Node, NEW r \in Request, WriteBackCallback(n, r)
    PROVE  Outcomes' /\ RepliesTrue'
<1>1. logged \subseteq logged'
  BY DEF WriteBackCallback
<1> QED BY <1>1, SilentCallbackOut DEF WriteBackCallback

LEMMA SetTtlCallbackOut ==
    ASSUME AInv, NEW n \in Node, NEW r \in Request, SetTtlCallback(n, r)
    PROVE  Outcomes' /\ RepliesTrue'
<1>1. logged \subseteq logged'
  BY DEF SetTtlCallback
<1> QED BY <1>1, SilentCallbackOut DEF SetTtlCallback


LEMMA AgentExecutesOut ==
    ASSUME AInv, NEW a \in Agent, AgentExecutes(a) PROVE Outcomes' /\ RepliesTrue'
<1> DEFINE r == Head(toAgent[a])
           error == [r |-> r, ok |-> FALSE, val |-> Absent]
           success == [r |-> r, ok |-> TRUE, val |-> db]
<1>0. TypeOK
  BY DEF AInv, IInv
<1>1. /\ toAgent[a] \in Seq(Request) /\ toAgent[a] # <<>>
      /\ fromAgent \in [Agent -> Seq(Reply)]
      /\ UNCHANGED <<clientVars, redisVars, store, dbStep>>
      /\ applied \subseteq applied'
  BY <1>0 DEF TypeOK, AgentExecutes
<1>2. r \in Request /\ error \in Reply /\ success \in Reply
  BY <1>0, <1>1, AbsentIsValue DEF Reply, TypeOK
<1>3. PICK said \in {<<>>, <<success>>, <<error>>, <<error, success>>, <<error, error>>,
                     <<error, error, error>>} :
        /\ fromAgent' = [fromAgent EXCEPT ![a] = @ \o said]
        /\ said \in {<<success>>, <<error, success>>} => r \in applied'
  BY DEF AgentExecutes
<1>4. success.r = r /\ ~ error.ok
  OBVIOUS
<1> HIDE DEF r, error, success
<1>5. /\ said \in Seq(Reply)
      /\ \A i \in 1 .. Len(said) : said[i].ok => said[i].r \in applied'
  <2>a. CASE said = <<>>
    BY <2>a
  <2>b. CASE said = <<error>>
    BY <1>2, <1>4, <2>b
  <2>c. CASE said = <<error, error>>
    BY <1>2, <1>4, <2>c
  <2>d. CASE said = <<error, error, error>>
    <3>1. /\ said \in Seq(Reply) /\ Len(said) = 3
          /\ said[1] = error /\ said[2] = error /\ said[3] = error
      BY <1>2, <2>d
    <3> QED BY <1>4, <3>1
  <2>2. CASE said = <<success>>
    BY <1>2, <1>3, <1>4, <2>2
  <2>3. CASE said = <<error, success>>
    BY <1>2, <1>3, <1>4, <2>3
  <2> QED BY <1>3, <2>a, <2>b, <2>c, <2>d, <2>2, <2>3
<1>6. ASSUME NEW b \in Agent, NEW i \in 1 .. Len(fromAgent'[b]), fromAgent'[b][i].ok
      PROVE  fromAgent'[b][i].r \in applied'
  <2>1. fromAgent[b] \in Seq(Reply) /\ fromAgent'[b] = IF b = a THEN fromAgent[b] \o said ELSE fromAgent[b]
    BY <1>1, <1>3
  <2>2. CASE fromAgent'[b][i] \in {fromAgent[b][j] : j \in 1 .. Len(fromAgent[b])}
    BY <1>1, <1>6, <2>2 DEF AInv, RepliesTrue
  <2>3. CASE b = a /\ i > Len(fromAgent[b])
    <3>1. /\ i - Len(fromAgent[b]) \in 1 .. Len(said)
          /\ fromAgent'[b][i] = said[i - Len(fromAgent[b])]
      BY <1>5, <2>1, <2>3, ConcatProperties
    <3> QED BY <1>5, <1>6, <3>1
  <2>4. CASE b = a /\ i \in 1 .. Len(fromAgent[b])
    <3>1. fromAgent'[b][i] = fromAgent[b][i]
      BY <1>5, <2>1, <2>4, ConcatProperties
    <3> QED BY <2>2, <2>4, <3>1
  <2>5. CASE b # a
    BY <2>1, <2>2, <2>5
  <2>6. i \in Nat /\ Len(fromAgent[b]) \in Nat /\ i > 0
    BY <2>1
  <2> QED BY <2>3, <2>4, <2>5, <2>6
<1>7. RepliesTrue'
  BY <1>6 DEF RepliesTrue
<1>8. Outcomes'
  BY <1>1, NothingToldOut DEF clientVars, redisVars
<1> QED BY <1>7, <1>8

LEMMA AgentLostOut ==
    ASSUME AInv, NEW a \in Agent, AgentLost(a) PROVE Outcomes' /\ RepliesTrue'
<1>0. fromAgent \in [Agent -> Seq(Reply)]
  BY DEF AInv, IInv, TypeOK
<1>1. /\ fromAgent' = [fromAgent EXCEPT ![a] = <<>>]
      /\ UNCHANGED <<clientVars, redisVars, dbStep, applied>>
  BY DEF AgentLost
<1>2. RepliesTrue'
  BY <1>0, <1>1 DEF RepliesTrue, AInv
<1>3. Outcomes'
  BY <1>1, NothingToldOut DEF clientVars, redisVars
<1> QED BY <1>2, <1>3

\* An answer of a DbAgent ends its step: success says that the request has been
\* executed, a failure is answered or, when the client has its answer, logged.
LEMMA AgentAnswersOut ==
    ASSUME AInv, NEW a \in Agent, AgentAnswers(a) PROVE Outcomes' /\ RepliesTrue'
<1> DEFINE m == Head(fromAgent[a])
           e == Command("writeBack", m.r, m.val)
<1>0. TypeOK /\ IInv
  BY DEF AInv, IInv
<1>1. /\ fromAgent[a] \in Seq(Reply) /\ fromAgent[a] # <<>>
      /\ fromAgent \in [Agent -> Seq(Reply)]
      /\ fromAgent' = [fromAgent EXCEPT ![a] = Tail(@)]
      /\ UNCHANGED <<asked, readNum, store, toAgent, db, applied>>
  BY <1>0 DEF TypeOK, AgentAnswers
<1>2. m \in Reply /\ (m.ok => m.r \in applied)
  <2>1. m = fromAgent[a][1] /\ 1 \in 1 .. Len(fromAgent[a]) /\ m \in Reply
    BY <1>1
  <2> QED BY <2>1 DEF AInv, RepliesTrue
<1>3. m.r \in Request /\ m.val \in Value /\ m.ok \in BOOLEAN
  BY <1>2 DEF Reply
<1>4. RepliesTrue'
  <2>1. ASSUME NEW b \in Agent, NEW i \in 1 .. Len(fromAgent'[b]), fromAgent'[b][i].ok
        PROVE  fromAgent'[b][i].r \in applied'
    <3>1. fromAgent[b] \in Seq(Reply)
          /\ fromAgent'[b] = IF b = a THEN Tail(fromAgent[b]) ELSE fromAgent[b]
      BY <1>1
    <3>2. PICK j \in 1 .. Len(fromAgent[b]) : fromAgent'[b][i] = fromAgent[b][j]
      <4>1. CASE b = a
        <5>1. /\ Len(Tail(fromAgent[b])) = Len(fromAgent[b]) - 1 /\ Len(fromAgent[b]) \in Nat
              /\ \A k \in 1 .. Len(Tail(fromAgent[b])) : Tail(fromAgent[b])[k] = fromAgent[b][k + 1]
          BY <1>1, <3>1, <4>1, HeadTailProperties
        <5>2. i + 1 \in 1 .. Len(fromAgent[b])
          BY <3>1, <4>1, <5>1
        <5> QED BY <3>1, <4>1, <5>1, <5>2
      <4>2. CASE b # a
        BY <3>1, <4>2
      <4> QED BY <4>1, <4>2
    <3> QED BY <1>1, <2>1, <3>2 DEF AInv, RepliesTrue
  <2> QED BY <2>1 DEF RepliesTrue
<1>5. CASE /\ dbStep[m.r] = "none"
           /\ UNCHANGED <<answers, logged, link, listData, dbStep, faults>>
  <2>1. Outcomes'
    BY <1>1, <1>5, NothingToldOut
  <2> QED BY <1>4, <2>1
<1>6. CASE /\ dbStep[m.r] # "none"
           /\ dbStep' = [dbStep EXCEPT ![m.r] = "none"]
           /\ Respond(m.r, IF dbStep[m.r] = "answers"
                           THEN <<IF m.ok THEN "ok" ELSE "error">> ELSE <<>>)
           /\ logged \subseteq logged'
           /\ dbStep[m.r] = "silent" /\ ~ m.ok => m.r \in logged'
           /\ listData' = listData \/ (Registered(listData, Master, e) /\ WritesBack(m))
  <2> DEFINE said == IF dbStep[m.r] = "answers" THEN <<IF m.ok THEN "ok" ELSE "error">> ELSE <<>>
  <2>1. PICK r \in Request : r = m.r
    BY <1>3
  <2>2. /\ dbStep[r] = "answers" => answers[r] = <<>>
        /\ answers[r] \in Told /\ Verdict(answers[r])
        /\ dbStep[r] \in {"answers", "silent"}
    BY <1>0, <1>6, <2>1, DbStepFacts
  <2>3. /\ said \in {<<>>, <<"ok">>, <<"error">>}
        /\ dbStep[r] = "answers" /\ ~ m.ok => said = <<"error">>
        /\ dbStep[r] # "answers" => said = <<>>
    BY <2>1
  <2>4. Respond(r, said)
    BY <1>6, <2>1
  <2>5. e \in Entry \/ listData' = listData
    <3>1. CASE WritesBack(m)
      <4>1. m.val \in Record
        BY <1>3, <3>1 DEF WritesBack, Value
      <4> QED BY <1>3, <4>1, CommandTyped DEF RedisStep
    <3> QED BY <1>6, <3>1
  <2> HIDE DEF m, e, said
  <2>6. said \in Told /\ answers[r] \o said \in Told
    <3>1. CASE dbStep[r] = "answers"
      BY <2>2, <2>3, <3>1, FirstTold
    <3>2. CASE dbStep[r] # "answers"
      BY <2>2, <2>3, <3>2, FirstTold, ToldLater
    <3> QED BY <3>1, <3>2
  <2>7. /\ answers'[r] = answers[r] \o said
        /\ \A q \in Request \ {r} : answers'[q] = answers[q]
    BY <1>0, <2>4, <2>6, AnswersTyped
  <2>8. \A q \in Request \ {r} : dbStep'[q] = dbStep[q]
    BY <1>0, <1>6, <2>1 DEF TypeOK
  <2>9. \A q \in Request : HasWrite(listData, q) => HasWrite(listData', q)
    <3>1. CASE listData' = listData
      BY <3>1
    <3>2. CASE e \in Entry /\ Registered(listData, Master, e)
      BY <1>0, <3>2, RegisteredWrites DEF Node
    <3> QED BY <1>6, <2>5, <3>1, <3>2
  <2>10. Outcome(r)'
    <3>1. CASE m.ok
      BY <1>1, <1>2, <2>1, <3>1 DEF Outcome
    <3>2. CASE ~ m.ok /\ dbStep[r] = "silent"
      BY <1>6, <2>1, <3>2 DEF Outcome
    <3>3. CASE ~ m.ok /\ dbStep[r] = "answers"
      <4>1. Erred(said)
        BY <2>3, <3>3, ErrorErrs
      <4>2. Erred(answers[r] \o said)
        BY <2>2, <2>6, <4>1, ErredLater
      <4> QED BY <2>7, <4>2 DEF Outcome, Erred
    <3> QED BY <2>2, <3>1, <3>2, <3>3
  <2>11. Outcomes'
    BY <1>1, <1>6, <2>7, <2>8, <2>9, <2>10, OutcomesKept
  <2> QED BY <1>4, <2>11
<1> QED
  <2>1. CASE dbStep[m.r] = "none"
    BY <1>5, <2>1 DEF AgentAnswers
  <2>2. CASE dbStep[m.r] # "none"
    <3>1. \/ /\ logged' = logged \cup (IF dbStep[m.r] = "silent" /\ ~ m.ok THEN {m.r} ELSE {})
             /\ UNCHANGED listData
          \/ WritesBack(m) /\ Registered(listData, Master, e) /\ UNCHANGED logged
          \/ WritesBack(m) /\ Refused(Master) /\ logged' = logged \cup {m.r}
      BY <2>2 DEF AgentAnswers
    <3>2. WritesBack(m) => m.ok
      BY DEF WritesBack
    <3>3. /\ logged \subseteq logged'
          /\ dbStep[m.r] = "silent" /\ ~ m.ok => m.r \in logged'
          /\ listData' = listData \/ (Registered(listData, Master, e) /\ WritesBack(m))
      <4> HIDE DEF m, e
      <4>1. CASE /\ logged' = logged \cup (IF dbStep[m.r] = "silent" /\ ~ m.ok THEN {m.r} ELSE {})
                 /\ UNCHANGED listData
        <5>1. logged \subseteq logged'
          BY <4>1
        <5>2. ASSUME dbStep[m.r] = "silent", ~ m.ok PROVE m.r \in logged'
          BY <4>1, <5>2
        <5>3. listData' = listData
          BY <4>1
        <5> QED BY <5>1, <5>2, <5>3
      <4>2. CASE WritesBack(m) /\ Registered(listData, Master, e) /\ UNCHANGED logged
        BY <3>2, <4>2
      <4>3. CASE WritesBack(m) /\ Refused(Master) /\ logged' = logged \cup {m.r}
        BY <3>2, <4>3 DEF Refused
      <4> QED BY <3>1, <4>1, <4>2, <4>3, Zenon
    <3>4. /\ dbStep' = [dbStep EXCEPT ![m.r] = "none"]
          /\ Respond(m.r, IF dbStep[m.r] = "answers"
                          THEN <<IF m.ok THEN "ok" ELSE "error">> ELSE <<>>)
      BY <2>2 DEF AgentAnswers
    <3> HIDE DEF m, e
    <3> QED BY <1>6, <2>2, <3>3, <3>4
  <2> QED BY <2>1, <2>2

LEMMA InitOut == Init => AInv
<1> SUFFICES ASSUME Init PROVE AInv
  OBVIOUS
<1>1. Outcomes
  BY DEF Init, Outcomes, Outcome, Stored
<1>2. RepliesTrue
  BY DEF Init, RepliesTrue
<1> QED BY <1>1, <1>2, InitInv DEF AInv

LEMMA StepOut == AInv /\ [Next]_vars => AInv'
<1> SUFFICES ASSUME AInv, [Next]_vars PROVE Outcomes' /\ RepliesTrue'
  BY StepInv DEF AInv
<1>1. ASSUME NEW r \in Request,
             AskRead(r) \/ AskWrite(r) \/ AskUpdate(r) \/ AskDb(r) \/ Timeout(r)
      PROVE  Outcomes' /\ RepliesTrue'
  BY <1>1, AskReadOut, AskWriteOut, AskUpdateOut, AskDbOut, TimeoutOut
<1>2. ASSUME NEW n \in Node, RedisConnect(n) \/ RedisExecutes(n)
      PROVE  Outcomes' /\ RepliesTrue'
  BY <1>2, RedisConnectOut, RedisExecutesOut
<1>3. ASSUME NEW n \in Node, RedisConnectFails(n) \/ RedisDisconnect(n)
      PROVE  Outcomes' /\ RepliesTrue'
  BY <1>3, FailStepsOut DEF RedisConnectFails, RedisDisconnect
<1>4. ASSUME NEW n \in Node, Callbacks(n)
      PROVE  Outcomes' /\ RepliesTrue'
  BY <1>4, ReadCallbackOut, WriteCallbackOut, ForWriteCallbackOut, WriteBackCallbackOut,
     SetTtlCallbackOut DEF Callbacks
<1>5. ASSUME NEW a \in Agent, AgentExecutes(a) \/ AgentLost(a) \/ AgentAnswers(a)
      PROVE  Outcomes' /\ RepliesTrue'
  BY <1>5, AgentExecutesOut, AgentLostOut, AgentAnswersOut
<1>6. CASE RedisReplicates \/ RedisExpires
  BY <1>6, RedisReplicatesOut, RedisExpiresOut
<1>7. CASE UNCHANGED vars
  <2>1. Outcomes'
    BY <1>7, NothingToldOut DEF vars
  <2> QED BY <1>7, <2>1, RepliesKept DEF vars, AInv
<1> QED BY <1>1, <1>2, <1>3, <1>4, <1>5, <1>6, <1>7 DEF Next

LEMMA QuietIsDecided == AInv => AcceptedIsApplied
<1> SUFFICES ASSUME AInv, Quiet, NEW r \in Request, asked[r] \in Stored, ~ ReportedFailure(r)
             PROVE  r \in applied
  BY DEF AcceptedIsApplied, Stored
<1>1. Outcome(r)
  BY DEF AInv, Outcomes
<1>2. ~ HasWrite(listData, r)
  BY DEF Quiet, HasWrite
<1>3. DOMAIN answers[r] = 1 .. Len(answers[r])
  <2>1. answers[r] \in Seq({"ok", "error"})
    BY DEF AInv, IInv, TypeOK
  <2> QED BY <2>1
<1>4. ~ Erred(answers[r])
  BY <1>3 DEF ReportedFailure, Erred
<1> QED BY <1>1, <1>2, <1>4 DEF Outcome, Quiet, ReportedFailure

\* A write to both stores that was accepted is in the database when nothing is
\* under way any more, or a failure of it was answered or logged.
THEOREM AcceptedReachesDb == Spec => []AcceptedIsApplied
<1>1. Spec => []AInv
  BY InitOut, StepOut, PTL DEF Spec
<1> QED BY <1>1, QuietIsDecided, PTL

-----------------------------------------------------------------------------
(* What stays in the cache expires: the state of the master's list.        *)

\* Error is told or logged of r.
Erring(r) == r \in logged \/ Erred(answers[r])
Clean == \A r \in Request : ~ Erring(r)

\* What Orderly says of two requests at a time.
InOrder ==
    /\ \A r \in Request : asked[r] \notin {"redisWrite", "dbWrite"}
    /\ \A u, r \in Request : asked[u] = "updateBoth" /\ asked[r] \in Writes => r = u

\* The master's list of Redis steps, and the requests on their way to the
\* DbAgent that writes.
Line == listData[Master]
Sent == toAgent["DBAGENT_W"]

\* Only what is read is asked of another node than the master.
AtMaster ==
    \A n \in Node : n # Master =>
        \A i \in 1 .. Len(listData[n]) : listData[n][i].step = "read"

\* A command belongs to one of the requests as, and if it writes to none of
\* those that are applied, ap.
Fits(e, as, ap) ==
    /\ e.step \in {"write", "forWrite"} => e.r \notin ap
    /\ e.step = "forWrite" => as[e.r] = "updateBoth"
    /\ e.step = "write" /\ as[e.r] # "updateBoth" => e.val = Merged(as[e.r], e.r, Absent)
Fitting(l, as, ap) == \A i \in 1 .. Len(l) : Fits(l[i], as, ap)

\* Replies come in the order of the commands.
RepliedFirst(l) ==
    \A i, j \in 1 .. Len(l) : i < j /\ l[i].reply = "none" => l[j].reply = "none"

\* A request on its way to be written is a write with a step that waits for
\* it, and travels once.
Travelling(w, as, ds, ap) ==
    /\ \A i \in 1 .. Len(w) : as[w[i]] \in Writes /\ ds[w[i]] # "none" /\ w[i] \notin ap
    /\ \A i, j \in 1 .. Len(w) : w[i] = w[j] => i = j

\* Reads go to the other DbAgent.
ReadsAsked(w, as) == \A i \in 1 .. Len(w) : as[w[i]] \in Reads

AppliedAsked(as, ap) == \A r \in ap : as[r] # "none"

DoneWrite(e) == e.step = "write" /\ e.reply = "done"
NoDoneWrite(l) == \A i \in 1 .. Len(l) : ~ DoneWrite(l[i])

\* Nothing but an update was asked of the stores, and it has not gone on to the
\* database.
Untouched(as, ds, ap) ==
    \A r \in Request : as[r] \in Writes =>
        as[r] = "updateBoth" /\ ds[r] = "none" /\ r \notin ap

\* Then what was found, is written back or will be written is what the
\* database has, d, or is made from it.
Faithful(e, d) ==
    /\ e.step = "writeBack" => e.val = d
    /\ e.step = "forWrite" /\ e.reply = "done" => e.val \in {Absent, d}
    /\ e.step = "write" => e.val = Merged("updateBoth", e.r, d)
AsStored(l, v, d) ==
    /\ \A i \in 1 .. Len(l) : Faithful(l[i], d)
    /\ NoDoneWrite(l) => v \in {Absent, d}
Answered(m, d) == \A i \in 1 .. Len(m) : m[i].ok => m[i].val = d

\* A command that sees to it that the record expires.
Limits(e) ==
    \/ e.step = "setTtl" /\ e.reply # "done"
    \/ e.step = "writeBack" /\ e.reply = "done"
Expiring(l, t) == t \/ \E i \in 1 .. Len(l) : Limits(l[i])

\* What the database, d, will have once it has executed the requests w.
Due(w, as, d) == IF w = <<>> THEN d ELSE Merged(as[w[Len(w)]], w[Len(w)], d)

\* The record of the master, v, is that of the last write done in the list
\* l, or else that of the last one on its way, or else that of the database;
\* and no update has missed it.
LastWritten(l, v) ==
    \A i \in 1 .. Len(l) :
        DoneWrite(l[i]) /\ (\A j \in i + 1 .. Len(l) : ~ DoneWrite(l[j])) => l[i].val = v
Missed(e) == e.step = "forWrite" /\ e.reply = "done" /\ e.val = Absent
InLine(l, w, as, v, d) ==
    /\ LastWritten(l, v)
    /\ NoDoneWrite(l) => Due(w, as, d) = v
    /\ \A i \in 1 .. Len(l) : ~ Missed(l[i])

\* The step of a write waits for an answer that will be no success.
Forsaken(r, w, as, ds, ap) ==
    /\ as[r] \in Writes /\ ds[r] # "none" /\ r \notin ap
    /\ \A i \in 1 .. Len(w) : w[i] # r

Bounded(l, w, as, ds, ap, s, d) ==
    \/ s.val = Absent
    \/ Expiring(l, s.ttl)
    \/ InLine(l, w, as, s.val, d)
    \/ \E r \in Request : Forsaken(r, w, as, ds, ap)

Course ==
    /\ AtMaster
    /\ Fitting(Line, asked, applied)
    /\ RepliedFirst(Line)
    /\ Travelling(Sent, asked, dbStep, applied)
    /\ ReadsAsked(toAgent["DBAGENT_R"], asked)
    /\ AppliedAsked(asked, applied)
    /\ Untouched(asked, dbStep, applied) =>
        /\ AsStored(Line, store[Master].val, db)
        /\ \A a \in Agent : Answered(fromAgent[a], db)
    /\ Bounded(Line, Sent, asked, dbStep, applied, store[Master], db)

CInv ==
    /\ AInv
    /\ IsFiniteSet({r \in Request : asked[r] # "none"})
    /\ InOrder /\ Clean => Course

\* The list m is l without its first k commands and with c more, which is e.
Turned(l, m, k, c, e) ==
    /\ k \in {0, 1} /\ c \in {0, 1} /\ k <= Len(l)
    /\ Len(m) = Len(l) - k + c
    /\ \A i \in 1 .. Len(l) - k : m[i] = l[i + k]
    /\ c = 1 => m[Len(m)] = e

\* A command of m is one of l, or e in the last place.
LEMMA TurnedFrom ==
    ASSUME NEW l \in Seq(Entry), NEW m \in Seq(Entry), NEW k, NEW c, NEW e,
           Turned(l, m, k, c, e), NEW i \in 1 .. Len(m)
    PROVE  \/ i + k \in 1 .. Len(l) /\ m[i] = l[i + k]
           \/ c = 1 /\ i = Len(m) /\ m[i] = e
<1>1. Len(l) \in Nat /\ Len(m) \in Nat
  OBVIOUS
<1>2. CASE i <= Len(l) - k
  BY <1>1, <1>2 DEF Turned
<1>3. CASE ~ (i <= Len(l) - k)
  <2>1. c = 1 /\ i = Len(m)
    BY <1>1, <1>3 DEF Turned
  <2> QED BY <2>1 DEF Turned
<1> QED BY <1>2, <1>3

\* A command of l is one of m, or the first of l.
LEMMA TurnedTo ==
    ASSUME NEW l \in Seq(Entry), NEW m \in Seq(Entry), NEW k, NEW c, NEW e,
           Turned(l, m, k, c, e), NEW i \in 1 .. Len(l)
    PROVE  \/ k = 1 /\ i = 1
           \/ i - k \in 1 .. Len(m) /\ m[i - k] = l[i]
<1>1. Len(l) \in Nat /\ Len(m) \in Nat
  OBVIOUS
<1>2. CASE i > k
  <2>1. i - k \in 1 .. Len(l) - k /\ i - k \in 1 .. Len(m)
    BY <1>1, <1>2 DEF Turned
  <2> DEFINE j == i - k
  <2>2. m[j] = l[j + k]
    BY <2>1 DEF Turned
  <2>3. j + k = i
    BY DEF Turned
  <2> QED BY <2>1, <2>2, <2>3
<1>3. CASE ~ (i > k)
  BY <1>1, <1>3 DEF Turned
<1> QED BY <1>2, <1>3

LEMMA FittingTurned ==
    ASSUME NEW l \in Seq(Entry), NEW m \in Seq(Entry), NEW k, NEW c, NEW e,
           Turned(l, m, k, c, e), NEW as, NEW ap,
           Fitting(l, as, ap), c = 1 => Fits(e, as, ap)
    PROVE  Fitting(m, as, ap)
<1> SUFFICES ASSUME NEW i \in 1 .. Len(m) PROVE Fits(m[i], as, ap)
  BY DEF Fitting
<1>1. CASE i + k \in 1 .. Len(l) /\ m[i] = l[i + k]
  BY <1>1 DEF Fitting
<1>2. CASE c = 1 /\ m[i] = e
  BY <1>2
<1>3. \/ i + k \in 1 .. Len(l) /\ m[i] = l[i + k]
      \/ c = 1 /\ i = Len(m) /\ m[i] = e
  BY TurnedFrom
<1> QED BY <1>1, <1>2, <1>3

LEMMA RepliedFirstTurned ==
    ASSUME NEW l \in Seq(Entry), NEW m \in Seq(Entry), NEW k, NEW c, NEW e,
           Turned(l, m, k, c, e), RepliedFirst(l), e.reply = "none"
    PROVE  RepliedFirst(m)
<1> SUFFICES ASSUME NEW i \in 1 .. Len(m), NEW j \in 1 .. Len(m), i < j, m[i].reply = "none"
             PROVE  m[j].reply = "none"
  BY DEF RepliedFirst
<1>1. CASE c = 1 /\ m[j] = e
  BY <1>1
<1>2. CASE j + k \in 1 .. Len(l) /\ m[j] = l[j + k]
  <2>1. i # Len(m)
    OBVIOUS
  <2>2. i + k \in 1 .. Len(l) /\ m[i] = l[i + k]
    BY <2>1, TurnedFrom
  <2> DEFINE x == i + k  y == j + k
  <2>3. x \in 1 .. Len(l) /\ y \in 1 .. Len(l) /\ x < y /\ l[x].reply = "none" /\ m[j] = l[y]
    BY <1>2, <2>2 DEF Turned
  <2> HIDE DEF x, y
  <2> QED BY <2>3 DEF RepliedFirst
<1> QED BY <1>1, <1>2, TurnedFrom

LEMMA NoDoneWriteTurned ==
    ASSUME NEW l \in Seq(Entry), NEW m \in Seq(Entry), NEW k, NEW c, NEW e,
           Turned(l, m, k, c, e), k = 1 => ~ DoneWrite(l[1]), NoDoneWrite(m)
    PROVE  NoDoneWrite(l)
<1> SUFFICES ASSUME NEW i \in 1 .. Len(l) PROVE ~ DoneWrite(l[i])
  BY DEF NoDoneWrite
<1>1. CASE i - k \in 1 .. Len(m) /\ m[i - k] = l[i]
  BY <1>1 DEF NoDoneWrite
<1> QED BY <1>1, TurnedTo

LEMMA LastWrittenTurned ==
    ASSUME NEW l \in Seq(Entry), NEW m \in Seq(Entry), NEW k, NEW c, NEW e,
           Turned(l, m, k, c, e), e.reply = "none", NEW v, LastWritten(l, v)
    PROVE  LastWritten(m, v)
<1> SUFFICES ASSUME NEW i \in 1 .. Len(m), DoneWrite(m[i]),
                    \A j \in i + 1 .. Len(m) : ~ DoneWrite(m[j])
             PROVE  m[i].val = v
  BY DEF LastWritten
<1>1. m[i] # e
  BY DEF DoneWrite
<1> DEFINE x == i + k
<1>2. x \in 1 .. Len(l) /\ m[i] = l[x]
  BY <1>1, TurnedFrom
<1>3. ASSUME NEW y \in x + 1 .. Len(l) PROVE ~ DoneWrite(l[y])
  <2>0. Len(l) \in Nat /\ k \in {0, 1}
    BY DEF Turned
  <2>1. y \in 1 .. Len(l) /\ y # 1
    BY <1>2, <2>0
  <2>2. y - k \in 1 .. Len(m) /\ m[y - k] = l[y]
    BY <2>1, TurnedTo
  <2> DEFINE j == y - k
  <2>3. j \in i + 1 .. Len(m) /\ m[j] = l[y]
    BY <2>0, <2>2
  <2> HIDE DEF j
  <2> QED BY <2>3
<1> HIDE DEF x
<1>4. l[x].val = v
  BY <1>2, <1>3 DEF LastWritten
<1> QED BY <1>2, <1>4

LEMMA NoneMissedTurned ==
    ASSUME NEW l \in Seq(Entry), NEW m \in Seq(Entry), NEW k, NEW c, NEW e,
           Turned(l, m, k, c, e), e.reply = "none",
           \A i \in 1 .. Len(l) : ~ Missed(l[i])
    PROVE  \A i \in 1 .. Len(m) : ~ Missed(m[i])
<1> SUFFICES ASSUME NEW i \in 1 .. Len(m) PROVE ~ Missed(m[i])
  OBVIOUS
<1>1. CASE i + k \in 1 .. Len(l) /\ m[i] = l[i + k]
  BY <1>1
<1>2. CASE m[i] = e
  BY <1>2 DEF Missed
<1> QED BY <1>1, <1>2, TurnedFrom

LEMMA FaithfulTurned ==
    ASSUME NEW l \in Seq(Entry), NEW m \in Seq(Entry), NEW k, NEW c, NEW e,
           Turned(l, m, k, c, e), NEW d, c = 1 => Faithful(e, d),
           \A i \in 1 .. Len(l) : Faithful(l[i], d)
    PROVE  \A i \in 1 .. Len(m) : Faithful(m[i], d)
<1> SUFFICES ASSUME NEW i \in 1 .. Len(m) PROVE Faithful(m[i], d)
  OBVIOUS
<1>1. CASE i + k \in 1 .. Len(l) /\ m[i] = l[i + k]
  BY <1>1
<1>2. CASE c = 1 /\ m[i] = e
  BY <1>2
<1> QED BY <1>1, <1>2, TurnedFrom

LEMMA ExpiringTurned ==
    ASSUME NEW l \in Seq(Entry), NEW m \in Seq(Entry), NEW k, NEW c, NEW e,
           Turned(l, m, k, c, e), NEW t, Expiring(l, t),
           \/ k = 1 => ~ Limits(l[1])
           \/ c = 1 /\ Limits(e)
    PROVE  Expiring(m, t)
<1>1. CASE c = 1 /\ Limits(e)
  <2>1. Len(m) \in 1 .. Len(m) /\ m[Len(m)] = e
    BY <1>1 DEF Turned
  <2> DEFINE x == Len(m)
  <2>2. x \in 1 .. Len(m) /\ Limits(m[x])
    BY <1>1, <2>1
  <2> HIDE DEF x
  <2> QED BY <2>2 DEF Expiring
<1>2. CASE k = 1 => ~ Limits(l[1])
  <2>1. CASE t
    BY <2>1 DEF Expiring
  <2>2. ASSUME NEW i \in 1 .. Len(l), Limits(l[i]) PROVE Expiring(m, t)
    <3> DEFINE x == i - k
    <3>1. x \in 1 .. Len(m) /\ m[x] = l[i]
      BY <1>2, <2>2, TurnedTo
    <3> HIDE DEF x
    <3> QED BY <2>2, <3>1 DEF Expiring
  <2> QED BY <2>1, <2>2 DEF Expiring
<1> QED BY <1>1, <1>2

\* What every step keeps, unless it tells or logs an error.
Onward ==
    /\ \A r \in Request : asked[r] # "none" => asked'[r] = asked[r]
    /\ logged \subseteq logged'
    /\ \A r \in Request : Erred(answers[r]) => Erred(answers'[r])
    /\ applied \subseteq applied'
    /\ \A r \in Request : asked[r] \in Writes /\ dbStep[r] # "none" =>
        dbStep'[r] # "none" \/ r \in applied \/ r \in logged' \/ Erred(answers'[r])

LEMMA WritesAreMade == "none" \notin Writes /\ "none" \notin Reads /\ \A x \in Reads : x \notin Writes
BY DEF Writes, Reads

LEMMA CourseNow ==
    ASSUME CInv, Onward, InOrder', Clean'
    PROVE  InOrder /\ Clean /\ Course
<1>1. InOrder
  <2>1. ASSUME NEW r \in Request, asked[r] \in {"redisWrite", "dbWrite"} PROVE FALSE
    <3>1. asked'[r] = asked[r]
      BY <2>1 DEF Onward
    <3> QED BY <2>1, <3>1 DEF InOrder
  <2>2. ASSUME NEW u \in Request, NEW r \in Request, asked[u] = "updateBoth", asked[r] \in Writes
        PROVE  r = u
    <3>1. asked'[r] = asked[r] /\ asked'[u] = asked[u]
      BY <2>2, WritesAreMade DEF Onward
    <3> QED BY <2>2, <3>1 DEF InOrder
  <2> QED BY <2>1, <2>2 DEF InOrder
<1>2. Clean
  <2>1. ASSUME NEW r \in Request, Erring(r) PROVE FALSE
    <3>1. ~ (r \in logged') /\ ~ Erred(answers'[r])
      BY DEF Clean, Erring, Erred
    <3> QED BY <2>1, <3>1 DEF Onward, Erring
  <2> QED BY <2>1 DEF Clean
<1> QED BY <1>1, <1>2 DEF CInv

\* A step of a write that waits goes on waiting, or the write is applied.
LEMMA WaitsOn ==
    ASSUME Onward, Clean', NEW r \in Request, asked[r] \in Writes, dbStep[r] # "none"
    PROVE  asked'[r] = asked[r] /\ (dbStep'[r] # "none" \/ r \in applied)
<1>1. ~ (r \in logged') /\ ~ Erred(answers'[r])
  BY DEF Clean, Erring, Erred
<1> QED BY <1>1, WritesAreMade DEF Onward

LEMMA UntouchedBefore ==
    ASSUME Onward, Clean', Untouched(asked', dbStep', applied')
    PROVE  Untouched(asked, dbStep, applied)
<1> SUFFICES ASSUME NEW r \in Request, asked[r] \in Writes
             PROVE  asked[r] = "updateBoth" /\ dbStep[r] = "none" /\ r \notin applied
  BY DEF Untouched
<1>1. asked'[r] = asked[r]
  BY WritesAreMade DEF Onward
<1>2. asked'[r] = "updateBoth" /\ dbStep'[r] = "none" /\ r \notin applied'
  BY <1>1 DEF Untouched
<1>3. r \notin applied
  BY <1>2 DEF Onward
<1>4. dbStep[r] = "none"
  BY <1>2, <1>3, WaitsOn
<1> QED BY <1>1, <1>2, <1>3, <1>4

\* What AInv says of the commands of the master.
LEMMA LineFacts ==
    ASSUME AInv, NEW i \in 1 .. Len(Line)
    PROVE  /\ Line \in Seq(Entry)
           /\ Line[i] \in Entry
           /\ Line[i].r \in Request
           /\ asked[Line[i].r] # "none"
           /\ Line[i].step \in {"write", "forWrite"} =>
                asked[Line[i].r] \in Writes /\ dbStep[Line[i].r] = "none"
<1>0. listData \in Lists /\ Master \in Node /\ EntriesOK
  BY ListsTyped DEF AInv, IInv, Node
<1>1. Line \in Seq(Entry)
  BY <1>0 DEF Lists, Line
<1>2. Line[i] \in Entry
  BY <1>1
<1>3. Line[i] \in EntriesOf(listData)
  BY <1>0, <1>2 DEF EntriesOf, Line
<1> QED BY <1>0, <1>1, <1>2, <1>3 DEF EntriesOK, Entry, Main

\* Requests and executed ones are added.
LEMMA FittingKept ==
    ASSUME AInv, Onward, Fitting(Line, asked, applied),
           \A r \in applied' \ applied : r \in Request /\ (asked[r] \in Reads \/ dbStep[r] # "none")
    PROVE  Fitting(Line, asked', applied')
<1> SUFFICES ASSUME NEW i \in 1 .. Len(Line) PROVE Fits(Line[i], asked', applied')
  BY DEF Fitting
<1>1. Fits(Line[i], asked, applied)
  BY DEF Fitting
<1>2. /\ Line[i].r \in Request /\ asked[Line[i].r] # "none"
      /\ Line[i].step \in {"write", "forWrite"} =>
            asked[Line[i].r] \in Writes /\ dbStep[Line[i].r] = "none"
  BY LineFacts
<1>3. asked'[Line[i].r] = asked[Line[i].r]
  BY <1>2 DEF Onward
<1>4. Line[i].step \in {"write", "forWrite"} => Line[i].r \notin applied'
  BY <1>1, <1>2, WritesAreMade DEF Fits
<1> QED BY <1>1, <1>3, <1>4 DEF Fits

LEMMA DueKept ==
    ASSUME AInv, Onward, Travelling(Sent, asked, dbStep, applied), NEW d
    PROVE  Due(Sent, asked', d) = Due(Sent, asked, d)
<1>1. Sent \in Seq(Request)
  BY DEF AInv, IInv, TypeOK, Sent, Agent
<1>2. CASE Sent # <<>>
  <2>1. Len(Sent) \in 1 .. Len(Sent) /\ Sent[Len(Sent)] \in Request
    BY <1>1, <1>2
  <2>2. asked[Sent[Len(Sent)]] \in Writes
    BY <2>1 DEF Travelling
  <2>3. asked'[Sent[Len(Sent)]] = asked[Sent[Len(Sent)]]
    BY <2>1, <2>2, WritesAreMade DEF Onward
  <2> QED BY <2>3 DEF Due
<1>3. CASE Sent = <<>>
  BY <1>3 DEF Due
<1> QED BY <1>2, <1>3

\* What is forsaken stays so while it is not sent again.
LEMMA ForsakenKept ==
    ASSUME Onward, Clean', NEW r \in Request, NEW w, NEW v,
           Forsaken(r, w, asked, dbStep, applied),
           r \notin applied',
           \A i \in 1 .. Len(v) : v[i] # r
    PROVE  Forsaken(r, v, asked', dbStep', applied')
<1>1. asked[r] \in Writes /\ dbStep[r] # "none" /\ r \notin applied
  BY DEF Forsaken
<1>2. asked'[r] = asked[r] /\ dbStep'[r] # "none"
  BY <1>1, WaitsOn
<1> QED BY <1>1, <1>2 DEF Forsaken

LEMMA TravellingKept ==
    ASSUME AInv, Onward, Clean', Travelling(Sent, asked, dbStep, applied),
           \A r \in applied' \ applied : asked[r] \in Reads
    PROVE  Travelling(Sent, asked', dbStep', applied')
<1>0. Sent \in Seq(Request)
  BY DEF AInv, IInv, TypeOK, Sent, Agent
<1>1. ASSUME NEW i \in 1 .. Len(Sent)
      PROVE  asked'[Sent[i]] \in Writes /\ dbStep'[Sent[i]] # "none" /\ Sent[i] \notin applied'
  <2>1. /\ Sent[i] \in Request /\ asked[Sent[i]] \in Writes
        /\ dbStep[Sent[i]] # "none" /\ Sent[i] \notin applied
    BY <1>0 DEF Travelling
  <2>2. asked'[Sent[i]] = asked[Sent[i]] /\ dbStep'[Sent[i]] # "none"
    BY <2>1, WaitsOn
  <2>3. Sent[i] \notin applied'
    BY <2>1, WritesAreMade
  <2> QED BY <2>1, <2>2, <2>3
<1> QED BY <1>1 DEF Travelling

LEMMA AppliedAskedKept ==
    ASSUME AInv, Onward, AppliedAsked(asked, applied),
           \A r \in applied' \ applied : asked[r] # "none", applied' \subseteq Request
    PROVE  AppliedAsked(asked', applied')
<1> SUFFICES ASSUME NEW r \in applied' PROVE asked'[r] # "none"
  BY DEF AppliedAsked
<1>1. r \in Request /\ asked[r] # "none"
  BY DEF AppliedAsked
<1> QED BY <1>1 DEF Onward

LEMMA LineTyped ==
    ASSUME AInv, AInv'
    PROVE  /\ Line \in Seq(Entry) /\ Line' \in Seq(Entry)
           /\ Sent \in Seq(Request) /\ Sent' \in Seq(Request)
           /\ Master \in Node /\ "DBAGENT_W" \in Agent /\ "DBAGENT_R" \in Agent
           /\ applied' \subseteq Request
           /\ store[Master] \in [val : Value, ttl : BOOLEAN]
           /\ db \in Value
<1>1. TypeOK /\ TypeOK'
  BY DEF AInv, IInv
<1>2. Master \in Node /\ "DBAGENT_W" \in Agent /\ "DBAGENT_R" \in Agent
  BY DEF Node, Agent
<1>3. /\ listData[Master] \in Seq(Entry) /\ listData'[Master] \in Seq(Entry)
      /\ toAgent["DBAGENT_W"] \in Seq(Request) /\ toAgent'["DBAGENT_W"] \in Seq(Request)
  BY <1>1, <1>2 DEF TypeOK
<1>4. applied' \subseteq Request /\ store[Master] \in [val : Value, ttl : BOOLEAN] /\ db \in Value
  BY <1>1, <1>2 DEF TypeOK
<1> QED BY <1>2, <1>3, <1>4 DEF Line, Sent

\* The list of the master is turned, and nothing else that matters changes.
LEMMA TurnBounded ==
    ASSUME AInv, AInv', Onward, Clean', NEW k, NEW c, NEW e, e.reply = "none",
           Turned(Line, Line', k, c, e),
           Travelling(Sent, asked, dbStep, applied),
           Bounded(Line, Sent, asked, dbStep, applied, store[Master], db),
           \A r \in applied' \ applied : asked[r] \in Reads,
           Sent' = Sent, db' = db, store'[Master] = store[Master],
           k = 1 => ~ DoneWrite(Line[1]),
           (k = 1 => ~ Limits(Line[1])) \/ (c = 1 /\ Limits(e))
    PROVE  Bounded(Line', Sent', asked', dbStep', applied', store'[Master], db')
<1> DEFINE l == Line  m == Line'  v == store[Master].val
<1>0. l \in Seq(Entry) /\ m \in Seq(Entry) /\ Turned(l, m, k, c, e)
  BY LineTyped
<1> HIDE DEF l, m, v
<1>1. CASE v = Absent
  BY <1>1 DEF Bounded, v
<1>2. CASE Expiring(l, store[Master].ttl)
  <2>1. (k = 1 => ~ Limits(l[1])) \/ (c = 1 /\ Limits(e))
    BY DEF l
  <2>2. Expiring(m, store[Master].ttl)
    BY <1>0, <1>2, <2>1, ExpiringTurned
  <2> QED BY <2>2 DEF Bounded, m
<1>3. CASE InLine(l, Sent, asked, v, db)
  <2>1. LastWritten(m, v)
    BY <1>0, <1>3, LastWrittenTurned DEF InLine
  <2>2. \A i \in 1 .. Len(m) : ~ Missed(m[i])
    BY <1>0, <1>3, NoneMissedTurned DEF InLine
  <2>3. ASSUME NoDoneWrite(m) PROVE Due(Sent, asked', db) = v
    <3>1. k = 1 => ~ DoneWrite(l[1])
      BY DEF l
    <3>2. NoDoneWrite(l)
      BY <1>0, <2>3, <3>1, NoDoneWriteTurned
    <3>3. Due(Sent, asked, db) = v
      BY <1>3, <3>2 DEF InLine
    <3> QED BY <3>3, DueKept
  <2>4. InLine(m, Sent, asked', v, db)
    BY <2>1, <2>2, <2>3 DEF InLine
  <2>5. InLine(Line', Sent', asked', store'[Master].val, db')
    BY <2>4 DEF m, v
  <2> QED BY <2>5 DEF Bounded
<1>4. ASSUME NEW r \in Request, Forsaken(r, Sent, asked, dbStep, applied)
      PROVE  Bounded(Line', Sent', asked', dbStep', applied', store'[Master], db')
  <2>1. r \notin applied' /\ \A i \in 1 .. Len(Sent') : Sent'[i] # r
    BY <1>4, WritesAreMade DEF Forsaken
  <2>2. Forsaken(r, Sent', asked', dbStep', applied')
    BY <1>4, <2>1, ForsakenKept
  <2> QED BY <2>2 DEF Bounded
<1>5. \/ v = Absent
      \/ Expiring(l, store[Master].ttl)
      \/ InLine(l, Sent, asked, v, db)
      \/ \E r \in Request : Forsaken(r, Sent, asked, dbStep, applied)
  BY DEF Bounded, l, v
<1> QED BY <1>1, <1>2, <1>3, <1>4, <1>5

LEMMA TurnStored ==
    ASSUME AInv, AInv', NEW k, NEW c, NEW e, e.reply = "none",
           Turned(Line, Line', k, c, e), c = 1 => Faithful(e, db),
           k = 1 => ~ DoneWrite(Line[1]),
           AsStored(Line, store[Master].val, db),
           db' = db, store'[Master] = store[Master]
    PROVE  AsStored(Line', store'[Master].val, db')
<1> DEFINE l == Line  m == Line'
<1>0. l \in Seq(Entry) /\ m \in Seq(Entry) /\ Turned(l, m, k, c, e) /\ (k = 1 => ~ DoneWrite(l[1]))
  BY LineTyped
<1>1. /\ \A i \in 1 .. Len(l) : Faithful(l[i], db)
      /\ NoDoneWrite(l) => store[Master].val \in {Absent, db}
  BY DEF AsStored
<1> HIDE DEF l, m
<1>2. \A i \in 1 .. Len(m) : Faithful(m[i], db)
  BY <1>0, <1>1, FaithfulTurned
<1>3. NoDoneWrite(m) => NoDoneWrite(l)
  BY <1>0, NoDoneWriteTurned
<1>4. AsStored(m, store[Master].val, db)
  BY <1>1, <1>2, <1>3 DEF AsStored
<1> QED BY <1>4 DEF m

LEMMA TurnListed ==
    ASSUME CInv, AInv', Onward, Course, NEW k, NEW c, NEW e, e.reply = "none",
           Turned(Line, Line', k, c, e), c = 1 => Fits(e, asked', applied'),
           \A r \in applied' \ applied : asked[r] \in Reads
    PROVE  /\ Fitting(Line', asked', applied')
           /\ RepliedFirst(Line')
           /\ AppliedAsked(asked', applied')
<1> DEFINE l == Line  m == Line'
<1>a. AInv
  BY DEF CInv
<1>b. applied' \subseteq Request
  BY <1>a, LineTyped
<1>0. /\ l \in Seq(Entry) /\ m \in Seq(Entry) /\ Turned(l, m, k, c, e)
      /\ Fitting(l, asked, applied) /\ RepliedFirst(l)
  BY <1>a, LineTyped DEF Course
<1>1. Fitting(l, asked', applied')
  BY <1>a, <1>b, <1>0, FittingKept
<1>2. AppliedAsked(asked', applied')
  BY <1>a, <1>b, WritesAreMade, AppliedAskedKept DEF Course
<1> HIDE DEF l, m
<1>3. Fitting(m, asked', applied')
  BY <1>0, <1>1, FittingTurned
<1>4. RepliedFirst(m)
  BY <1>0, RepliedFirstTurned
<1> QED BY <1>2, <1>3, <1>4 DEF m

LEMMA TurnCourse ==
    ASSUME CInv, AInv', Onward, InOrder', Clean', NEW k, NEW c, NEW e, e.reply = "none",
           Turned(Line, Line', k, c, e), c = 1 => Fits(e, asked', applied'),
           AtMaster', ReadsAsked(toAgent'["DBAGENT_R"], asked'),
           \A r \in applied' \ applied : asked[r] \in Reads,
           Sent' = Sent, db' = db, store'[Master] = store[Master],
           Untouched(asked', dbStep', applied') =>
              (c = 1 => Faithful(e, db)) /\ \A a \in Agent : Answered(fromAgent'[a], db),
           k = 1 => ~ DoneWrite(Line[1]),
           (k = 1 => ~ Limits(Line[1])) \/ (c = 1 /\ Limits(e))
    PROVE  Course'
<1>0. AInv /\ Course
  BY CourseNow DEF CInv
<1>1. /\ Fitting(Line', asked', applied')
      /\ RepliedFirst(Line')
      /\ AppliedAsked(asked', applied')
  BY <1>0, TurnListed
<1>2. Travelling(Sent', asked', dbStep', applied')
  BY <1>0, TravellingKept DEF Course
<1>3. Bounded(Line', Sent', asked', dbStep', applied', store'[Master], db')
  BY <1>0, TurnBounded DEF Course
<1>4. ASSUME Untouched(asked', dbStep', applied')
      PROVE  /\ AsStored(Line', store'[Master].val, db')
             /\ \A a \in Agent : Answered(fromAgent'[a], db')
  <2>1. Untouched(asked, dbStep, applied)
    BY <1>4, UntouchedBefore
  <2>2. AsStored(Line, store[Master].val, db)
    BY <1>0, <2>1 DEF Course
  <2>3. AsStored(Line', store'[Master].val, db')
    BY <1>0, <1>4, <2>2, TurnStored
  <2>4. \A a \in Agent : Answered(fromAgent'[a], db')
    BY <1>4
  <2> QED BY <2>3, <2>4
<1> QED BY <1>1, <1>2, <1>3, <1>4 DEF Course

-----------------------------------------------------------------------------
(* What the handlers do to the lists.                                      *)

\* In the lists the list of n is turned.
Turns(n, k, c, e) ==
    /\ Turned(listData[n], listData'[n], k, c, e)
    /\ \A o \in Node \ {n} : listData'[o] = listData[o]

LEMMA SameTurned == ASSUME NEW l \in Seq(Entry), NEW e PROVE Turned(l, l, 0, 0, e)
BY DEF Turned

LEMMA RegisteredTurns ==
    ASSUME TypeOK, NEW n \in Node, NEW e, Registered(listData, n, e)
    PROVE  Turns(n, 0, 1, e)
<1>1. listData[n] \in Seq(Entry) /\ listData'[n] = Append(listData[n], e)
  BY DEF TypeOK, Registered
<1>2. \A o \in Node \ {n} : listData'[o] = listData[o]
  BY DEF TypeOK, Registered
<1> DEFINE l == listData[n]  m == listData'[n]
<1>a. l \in Seq(Entry) /\ m = Append(l, e)
  BY <1>1
<1> HIDE DEF l, m
<1>3. Turned(l, m, 0, 1, e)
  <2>1. /\ Len(m) = Len(l) + 1 /\ Len(l) \in Nat
        /\ \A i \in 1 .. Len(l) : m[i] = l[i]
        /\ m[Len(l) + 1] = e
    BY <1>a, AppendProperties
  <2> QED BY <2>1 DEF Turned
<1> QED BY <1>2, <1>3 DEF Turns, l, m

LEMMA TailTurned ==
    ASSUME NEW l \in Seq(Entry), l # <<>>, NEW e
    PROVE  /\ Turned(l, Tail(l), 1, 0, e)
           /\ Turned(l, Append(Tail(l), e), 1, 1, e)
<1>1. /\ Tail(l) \in Seq(Entry) /\ Len(Tail(l)) = Len(l) - 1 /\ Len(l) \in Nat /\ Len(l) > 0
      /\ \A i \in 1 .. Len(l) - 1 : Tail(l)[i] = l[i + 1]
  BY HeadTailProperties
<1> DEFINE t == Tail(l)  m == Append(t, e)
<1>a. /\ t \in Seq(Entry) /\ Len(t) = Len(l) - 1 /\ Len(l) \in Nat /\ Len(l) > 0
      /\ \A i \in 1 .. Len(l) - 1 : t[i] = l[i + 1]
  BY <1>1
<1> HIDE DEF t
<1>2. /\ Len(m) = Len(t) + 1
      /\ \A i \in 1 .. Len(t) : m[i] = t[i]
      /\ m[Len(t) + 1] = e
  BY <1>a, AppendProperties
<1> HIDE DEF m
<1>3. Turned(l, t, 1, 0, e)
  BY <1>a DEF Turned
<1>4. Turned(l, m, 1, 1, e)
  BY <1>a, <1>2 DEF Turned
<1> QED BY <1>3, <1>4 DEF t, m

LEMMA PoppedTurns ==
    ASSUME TypeOK, NEW n \in Node, NEW e, listData[n] # <<>>
    PROVE  /\ listData' = Popped(n) => Turns(n, 1, 0, e)
           /\ listData' = [Popped(n) EXCEPT ![n] = Append(@, e)] => Turns(n, 1, 1, e)
<1>1. listData[n] \in Seq(Entry) /\ Popped(n)[n] = Tail(listData[n])
  BY DEF TypeOK, Popped
<1>2. \A o \in Node \ {n} : Popped(n)[o] = listData[o]
  BY DEF TypeOK, Popped
<1>3. DOMAIN Popped(n) = Node
  BY DEF TypeOK, Popped
<1>4. ASSUME listData' = Popped(n) PROVE Turns(n, 1, 0, e)
  <2>1. Turned(listData[n], Tail(listData[n]), 1, 0, e)
    BY <1>1, TailTurned
  <2> QED BY <1>1, <1>2, <1>4, <2>1 DEF Turns
<1>5. ASSUME listData' = [Popped(n) EXCEPT ![n] = Append(@, e)] PROVE Turns(n, 1, 1, e)
  <2>1. Turned(listData[n], Append(Tail(listData[n]), e), 1, 1, e)
    BY <1>1, TailTurned
  <2>2. listData'[n] = Append(Tail(listData[n]), e)
    BY <1>1, <1>3, <1>5
  <2>3. \A o \in Node \ {n} : listData'[o] = listData[o]
    BY <1>2, <1>3, <1>5
  <2> QED BY <2>1, <2>2, <2>3 DEF Turns
<1> QED BY <1>4, <1>5

\* The master's list is turned, or not when it is another that is.
LEMMA TurnsLine ==
    ASSUME AInv, AInv', NEW n \in Node, NEW k, NEW c, NEW e, Turns(n, k, c, e)
    PROVE  /\ n = Master => Turned(Line, Line', k, c, e)
           /\ n # Master => Turned(Line, Line', 0, 0, e)
<1>1. CASE n = Master
  BY <1>1 DEF Turns, Line
<1>2. CASE n # Master
  <2>1. Line' = Line /\ Line \in Seq(Entry)
    BY <1>2, LineTyped DEF Turns, Line
  <2> QED BY <1>2, <2>1, SameTurned
<1> QED BY <1>1, <1>2

LEMMA TurnsAtMaster ==
    ASSUME AInv, AInv', AtMaster, NEW n \in Node, NEW k, NEW c, NEW e, Turns(n, k, c, e),
           n = Master \/ c = 0 \/ e.step = "read"
    PROVE  AtMaster'
<1>0. TypeOK /\ TypeOK'
  BY DEF AInv, IInv
<1> SUFFICES ASSUME NEW o \in Node, o # Master, NEW i \in 1 .. Len(listData'[o])
             PROVE  listData'[o][i].step = "read"
  BY DEF AtMaster
<1> DEFINE l == listData[o]  m == listData'[o]
<1>1. l \in Seq(Entry) /\ m \in Seq(Entry)
  BY <1>0 DEF TypeOK
<1>2. \A j \in 1 .. Len(l) : l[j].step = "read"
  BY DEF AtMaster
<1>3. CASE o = n
  <2>1. Turned(l, m, k, c, e)
    BY <1>3 DEF Turns
  <2> HIDE DEF l, m
  <2>a. i \in 1 .. Len(m)
    BY DEF m
  <2>2. CASE i + k \in 1 .. Len(l) /\ m[i] = l[i + k]
    <3>1. m[i].step = "read"
      BY <1>2, <2>2
    <3> QED BY <3>1 DEF m
  <2>3. CASE c = 1 /\ m[i] = e
    <3>1. m[i].step = "read"
      BY <1>3, <2>3
    <3> QED BY <3>1 DEF m
  <2>4. \/ i + k \in 1 .. Len(l) /\ m[i] = l[i + k]
        \/ c = 1 /\ i = Len(m) /\ m[i] = e
    BY <1>1, <2>1, <2>a, TurnedFrom
  <2> QED BY <2>2, <2>3, <2>4
<1>4. CASE o # n
  <2>1. m = l
    BY <1>4 DEF Turns
  <2> QED BY <1>2, <2>1
<1> QED BY <1>3, <1>4

\* The step a handler has the reply of is the first of its list; one that is
\* no read is at the master.
LEMMA HeadFacts ==
    ASSUME CInv, Course, NEW n \in Node, NEW s, NEW r, Replied(n, s, r)
    PROVE  /\ listData[n] # <<>>
           /\ s # "read" => n = Master
           /\ n = Master =>
                /\ 1 \in 1 .. Len(Line) /\ Line[1] = Head(listData[n])
                /\ Line[1].step = s /\ Line[1].r = r /\ Line[1].reply # "none"
<1>1. /\ listData[n] # <<>> /\ Head(listData[n]).step = s /\ Head(listData[n]).r = r
      /\ Head(listData[n]).reply # "none"
  BY DEF Replied
<1>2. listData[n] \in Seq(Entry)
  BY DEF CInv, AInv, IInv, TypeOK
<1>3. Head(listData[n]) = listData[n][1] /\ 1 \in 1 .. Len(listData[n])
  BY <1>1, <1>2
<1>4. s # "read" => n = Master
  BY <1>1, <1>3 DEF Course, AtMaster
<1> QED BY <1>1, <1>3, <1>4 DEF Line

-----------------------------------------------------------------------------
(* What every step keeps.                                                  *)

LEMMA SaidTyped ==
    /\ <<>> \in Told /\ <<"ok">> \in Told /\ <<"error">> \in Told
    /\ <<"error", "error">> \in Told /\ <<"ok", "error">> \in Told
    /\ Erred(<<"error">>) /\ Erred(<<"error", "error">>) /\ Erred(<<"ok", "error">>)
<1>1. <<"ok", "error">>[2] = "error" /\ 2 \in 1 .. Len(<<"ok", "error">>)
  OBVIOUS
<1>2. Erred(<<"ok", "error">>)
  BY <1>1 DEF Erred
<1> QED BY <1>2, FirstTold, ErrorErrs

\* Answers are added to, never taken back.
LEMMA RespondKeeps ==
    ASSUME TypeOK, NEW r \in Request, NEW told \in Told, Respond(r, told)
    PROVE  /\ \A q \in Request : Erred(answers[q]) => Erred(answers'[q])
           /\ Erred(told) => Erred(answers'[r])
<1>1. ASSUME NEW q \in Request
      PROVE  answers[q] \in Told /\ answers'[q] = IF q = r THEN answers[q] \o told ELSE answers[q]
  BY DEF TypeOK, Respond, Told
<1>2. ASSUME NEW q \in Request, q = r, Erred(answers[q]) \/ Erred(told) PROVE Erred(answers'[q])
  <2>1. answers[q] \in Told /\ answers'[q] = answers[q] \o told
    BY <1>1, <1>2
  <2>2. Erred(answers[q] \o told)
    BY <1>2, <2>1, ErredLater
  <2> QED BY <2>1, <2>2
<1>3. ASSUME NEW q \in Request, q # r, Erred(answers[q]) PROVE Erred(answers'[q])
  BY <1>1, <1>3
<1> QED BY <1>2, <1>3

LEMMA EmitKeeps ==
    ASSUME TypeOK, NEW r \in Request, NEW k, NEW hasRedis, NEW told \in {<<>>, <<"ok">>},
           EmitToAgent(r, k, hasRedis, told)
    PROVE  /\ \A q \in Request : Erred(answers[q]) => Erred(answers'[q])
           /\ \A q \in Request : dbStep[q] # "none" => dbStep'[q] # "none"
           /\ \A q \in Request \ {r} : dbStep'[q] = dbStep[q]
           /\ \/ Erred(answers'[r])
              \/ /\ toAgent' = [toAgent EXCEPT ![AgentFor(k)] = Append(@, r)]
                 /\ dbStep'[r] # "none"
<1>1. CASE /\ toAgent' = [toAgent EXCEPT ![AgentFor(k)] = Append(@, r)]
           /\ dbStep' = [dbStep EXCEPT ![r] = IF NeedResponse(k, hasRedis) THEN "answers" ELSE "silent"]
           /\ Respond(r, told)
  <2>1. \A q \in Request : Erred(answers[q]) => Erred(answers'[q])
    BY <1>1, RespondKeeps, SaidTyped
  <2>2. /\ dbStep'[r] # "none"
        /\ \A q \in Request : dbStep[q] # "none" => dbStep'[q] # "none"
        /\ \A q \in Request \ {r} : dbStep'[q] = dbStep[q]
    BY <1>1 DEF TypeOK
  <2> QED BY <1>1, <2>1, <2>2
<1>2. CASE Respond(r, Append(told, "error")) /\ UNCHANGED <<toAgent, dbStep>>
  <2> DEFINE t == Append(told, "error")
  <2>1. told \in Told
    BY FirstTold
  <2>2. t \in Told /\ Erred(t)
    <3>1. t \in Told /\ Len(told) + 1 \in 1 .. Len(t) /\ t[Len(told) + 1] = "error"
      BY <2>1 DEF Told
    <3> QED BY <3>1 DEF Erred
  <2>3. Respond(r, t)
    BY <1>2
  <2> HIDE DEF t
  <2> QED BY <1>2, <2>2, <2>3, RespondKeeps
<1> QED BY <1>1, <1>2 DEF EmitToAgent

LEMMA FailStepsKeep ==
    ASSUME TypeOK, NEW n \in Node, FailSteps(n)
    PROVE  /\ \A q \in Request : Erred(answers[q]) => Erred(answers'[q])
           /\ logged \subseteq logged'
<1> DEFINE again == {e.r : e \in {d \in Steps(n) : d.step = "read" /\ readNum[d.r] = 0}}
           told == {e.r : e \in {d \in Steps(n) : d.step \in {"read", "write", "forWrite"}}} \ again
<1>1. /\ answers' = [r \in Request |-> IF r \in told THEN Append(answers[r], "error") ELSE answers[r]]
      /\ logged \subseteq logged'
  BY DEF FailSteps
<1> HIDE DEF told
<1>2. ASSUME NEW q \in Request, Erred(answers[q]) PROVE Erred(answers'[q])
  <2>1. answers[q] \in Seq({"ok", "error"})
    BY DEF TypeOK
  <2>2. PICK i \in 1 .. Len(answers[q]) : answers[q][i] = "error"
    BY <1>2 DEF Erred
  <2>3. CASE q \in told
    <3>1. answers'[q] = Append(answers[q], "error")
      BY <1>1, <2>3
    <3>2. i \in 1 .. Len(Append(answers[q], "error")) /\ Append(answers[q], "error")[i] = "error"
      BY <2>1, <2>2
    <3> QED BY <3>1, <3>2 DEF Erred
  <2>4. CASE q \notin told
    <3>1. answers'[q] = answers[q]
      BY <1>1, <2>4
    <3> QED BY <1>2, <3>1
  <2> QED BY <2>3, <2>4
<1> QED BY <1>1, <1>2

\* A step that makes one request, or none, and answers something.
LEMMA OnwardOf ==
    ASSUME \A q \in Request : asked[q] # "none" => asked'[q] = asked[q],
           logged \subseteq logged',
           \A q \in Request : Erred(answers[q]) => Erred(answers'[q]),
           applied \subseteq applied',
           \A q \in Request : asked[q] \in Writes /\ dbStep[q] # "none" =>
              dbStep'[q] # "none" \/ q \in applied \/ q \in logged' \/ Erred(answers'[q])
    PROVE  Onward
BY Zenon DEF Onward

LEMMA AsksKeeps ==
    ASSUME TypeOK, NEW r \in Request, NEW k \in Kinds, Asks(r, k)
    PROVE  \A q \in Request : asked[q] # "none" => asked'[q] = asked[q]
BY AskedTyped

LEMMA AsksOnward ==
    ASSUME AInv, NEW r \in Request, AskRead(r) \/ AskWrite(r) \/ AskUpdate(r) \/ AskDb(r)
    PROVE  Onward
<1>0. TypeOK
  BY DEF AInv, IInv
<1>1. PICK k \in Kinds : Asks(r, k)
  BY DEF AskRead, AskWrite, AskUpdate, AskDb, Kinds, Reads, Writes
<1>2. \A q \in Request : asked[q] # "none" => asked'[q] = asked[q]
  BY <1>0, <1>1, AsksKeeps
<1>3. logged' = logged /\ applied' = applied
  BY DEF AskRead, AskWrite, AskUpdate, AskDb
<1>4. /\ \A q \in Request : Erred(answers[q]) => Erred(answers'[q])
      /\ \A q \in Request : dbStep[q] # "none" => dbStep'[q] # "none"
  <2>1. CASE AskDb(r)
    <3>1. PICK x : EmitToAgent(r, x, FALSE, <<>>)
      BY <2>1 DEF AskDb
    <3> QED BY <1>0, <3>1, EmitKeeps
  <2>2. CASE AskRead(r) \/ AskWrite(r) \/ AskUpdate(r)
    <3>1. dbStep' = dbStep
      BY <2>2 DEF AskRead, AskWrite, AskUpdate, agentVars
    <3>2. \/ answers' = answers
          \/ Respond(r, <<"error">>) \/ Respond(r, <<"error", "error">>)
      BY <2>2 DEF AskRead, AskWrite, AskUpdate
    <3>3. \A q \in Request : Erred(answers[q]) => Erred(answers'[q])
      BY <1>0, <3>2, SaidTyped, RespondKeeps
    <3> QED BY <3>1, <3>3
  <2> QED BY <2>1, <2>2
<1> QED BY <1>2, <1>3, <1>4, OnwardOf

LEMMA TimeoutErrs ==
    ASSUME AInv, NEW r \in Request, Timeout(r) PROVE Onward /\ ~ Clean'
<1>0. TypeOK
  BY DEF AInv, IInv
<1>1. /\ dbStep' = [dbStep EXCEPT ![r] = "none"]
      /\ Respond(r, <<"error">>)
      /\ UNCHANGED <<asked, logged, applied>>
  BY DEF Timeout
<1>2. /\ \A q \in Request : Erred(answers[q]) => Erred(answers'[q])
      /\ Erred(answers'[r])
  BY <1>0, <1>1, SaidTyped, RespondKeeps
<1>3. \A q \in Request \ {r} : dbStep'[q] = dbStep[q]
  BY <1>0, <1>1 DEF TypeOK
<1>4. \A q \in Request : asked[q] \in Writes /\ dbStep[q] # "none" =>
          dbStep'[q] # "none" \/ Erred(answers'[q])
  BY <1>2, <1>3
<1>5. Onward
  BY <1>1, <1>2, <1>4, OnwardOf
<1>6. ~ Clean'
  BY <1>2 DEF Clean, Erring, Erred
<1> QED BY <1>5, <1>6

LEMMA RedisOnward ==
    ASSUME AInv, NEW n \in Node,
           \/ RedisConnect(n) \/ RedisConnectFails(n) \/ RedisDisconnect(n) \/ RedisExecutes(n)
    PROVE  Onward
<1>0. TypeOK
  BY DEF AInv, IInv
<1>1. CASE RedisConnect(n) \/ RedisExecutes(n)
  <2>1. UNCHANGED <<asked, logged, answers, applied, dbStep>>
    BY <1>1 DEF RedisConnect, RedisExecutes, clientVars, agentVars
  <2> QED BY <2>1, OnwardOf
<1>2. CASE RedisConnectFails(n) \/ RedisDisconnect(n)
  <2>1. FailSteps(n) /\ UNCHANGED <<asked, applied, dbStep>>
    BY <1>2 DEF RedisConnectFails, RedisDisconnect, agentVars
  <2> QED BY <1>0, <2>1, FailStepsKeep, OnwardOf
<1> QED BY <1>1, <1>2

LEMMA CallbackOnward ==
    ASSUME AInv, NEW n \in Node, NEW r \in Request,
           \/ ReadCallback(n, r) \/ WriteCallback(n, r) \/ ForWriteCallback(n, r)
           \/ WriteBackCallback(n, r) \/ SetTtlCallback(n, r)
    PROVE  Onward
<1>0. TypeOK
  BY DEF AInv, IInv
<1>1. asked' = asked /\ applied' = applied /\ logged \subseteq logged'
  BY DEF ReadCallback, WriteCallback, ForWriteCallback, WriteBackCallback, SetTtlCallback
<1>2. \/ /\ answers' = answers /\ dbStep' = dbStep
      \/ /\ Respond(r, <<"ok">>) \/ Respond(r, <<"error">>)
         /\ dbStep' = dbStep
      \/ \E k, told : told \in {<<>>, <<"ok">>} /\ \E h : EmitToAgent(r, k, h, told)
  <2>1. CASE ReadCallback(n, r)
    BY <2>1 DEF ReadCallback
  <2>2. CASE WriteCallback(n, r)
    BY <2>2 DEF WriteCallback
  <2>3. CASE ForWriteCallback(n, r)
    BY <2>3 DEF ForWriteCallback
  <2>4. CASE WriteBackCallback(n, r) \/ SetTtlCallback(n, r)
    BY <2>4 DEF WriteBackCallback, SetTtlCallback, agentVars
  <2> QED BY <2>1, <2>2, <2>3, <2>4
<1>3. /\ \A q \in Request : Erred(answers[q]) => Erred(answers'[q])
      /\ \A q \in Request : dbStep[q] # "none" => dbStep'[q] # "none"
  <2>1. CASE answers' = answers /\ dbStep' = dbStep
    BY <2>1
  <2>2. CASE (Respond(r, <<"ok">>) \/ Respond(r, <<"error">>)) /\ dbStep' = dbStep
    BY <1>0, <2>2, SaidTyped, RespondKeeps
  <2>3. ASSUME NEW k, NEW told \in {<<>>, <<"ok">>}, NEW h, EmitToAgent(r, k, h, told)
        PROVE  /\ \A q \in Request : Erred(answers[q]) => Erred(answers'[q])
               /\ \A q \in Request : dbStep[q] # "none" => dbStep'[q] # "none"
    BY <1>0, <2>3, EmitKeeps
  <2> QED BY <1>2, <2>1, <2>2, <2>3
<1> QED BY <1>1, <1>3, OnwardOf

LEMMA AgentOnward ==
    ASSUME AInv, NEW a \in Agent, AgentExecutes(a) \/ AgentLost(a)
    PROVE  Onward
<1>1. UNCHANGED <<asked, answers, logged, dbStep>> /\ applied \subseteq applied'
  <2>1. CASE AgentExecutes(a)
    BY <2>1 DEF AgentExecutes, clientVars
  <2>2. CASE AgentLost(a)
    BY <2>2 DEF AgentLost, clientVars
  <2> QED BY <2>1, <2>2
<1> QED BY <1>1, OnwardOf

\* An answer of success comes from what is applied, a failure is told or
\* logged.
LEMMA AnswersOnward ==
    ASSUME AInv, NEW a \in Agent, AgentAnswers(a)
    PROVE  /\ Onward
           /\ \A q \in Request : dbStep'[q] # "none" => dbStep'[q] = dbStep[q]
<1> DEFINE m == Head(fromAgent[a])
<1>0. TypeOK /\ IInv
  BY DEF AInv, IInv
<1>1. /\ fromAgent[a] \in Seq(Reply) /\ fromAgent[a] # <<>>
      /\ asked' = asked /\ applied' = applied
  BY <1>0 DEF TypeOK, AgentAnswers
<1>2. m \in Reply /\ (m.ok => m.r \in applied)
  <2>1. m = fromAgent[a][1] /\ 1 \in 1 .. Len(fromAgent[a]) /\ m \in Reply
    BY <1>1
  <2> QED BY <2>1 DEF AInv, RepliesTrue
<1>3. PICK r \in Request : r = m.r
  BY <1>2 DEF Reply
<1>4. CASE dbStep[r] = "none"
  <2>1. UNCHANGED <<answers, logged, dbStep>>
    BY <1>3, <1>4 DEF AgentAnswers
  <2> QED BY <1>1, <2>1, OnwardOf
<1>5. CASE dbStep[r] # "none"
  <2> DEFINE said == IF dbStep[r] = "answers" THEN <<IF m.ok THEN "ok" ELSE "error">> ELSE <<>>
  <2>1. /\ dbStep' = [dbStep EXCEPT ![r] = "none"]
        /\ Respond(r, said)
        /\ logged \subseteq logged'
        /\ dbStep[r] = "silent" /\ ~ m.ok => r \in logged'
    <3>1. WritesBack(m) => m.ok
      BY DEF WritesBack
    <3>2. /\ dbStep' = [dbStep EXCEPT ![r] = "none"]
          /\ Respond(r, said)
      BY <1>3, <1>5 DEF AgentAnswers
    <3>3. \/ logged' = logged \cup (IF dbStep[r] = "silent" /\ ~ m.ok THEN {r} ELSE {})
          \/ WritesBack(m) /\ logged' = logged
          \/ WritesBack(m) /\ logged' = logged \cup {r}
      BY <1>3, <1>5 DEF AgentAnswers
    <3> HIDE DEF m, said
    <3>4. logged \subseteq logged'
      BY <3>3
    <3>5. dbStep[r] = "silent" /\ ~ m.ok => r \in logged'
      BY <3>1, <3>3
    <3> QED BY <3>2, <3>4, <3>5
  <2>2. dbStep[r] \in {"answers", "silent"}
    BY <1>0, <1>5 DEF TypeOK
  <2>3. /\ said \in {<<>>, <<"ok">>, <<"error">>}
        /\ dbStep[r] = "answers" /\ ~ m.ok => said = <<"error">>
    OBVIOUS
  <2> HIDE DEF m, said
  <2>4. said \in Told /\ (dbStep[r] = "answers" /\ ~ m.ok => Erred(said))
    BY <2>3, SaidTyped
  <2>5. /\ \A q \in Request : Erred(answers[q]) => Erred(answers'[q])
        /\ Erred(said) => Erred(answers'[r])
    BY <1>0, <2>1, <2>4, RespondKeeps
  <2>6. \A q \in Request \ {r} : dbStep'[q] = dbStep[q]
    BY <1>0, <2>1 DEF TypeOK
  <2>7. r \in applied \/ r \in logged' \/ Erred(answers'[r])
    BY <1>2, <1>3, <2>1, <2>2, <2>4, <2>5
  <2>8. \A q \in Request : asked[q] \in Writes /\ dbStep[q] # "none" =>
            dbStep'[q] # "none" \/ q \in applied \/ q \in logged' \/ Erred(answers'[q])
    BY <2>6, <2>7
  <2>9. dbStep'[r] = "none"
    BY <1>0, <2>1 DEF TypeOK
  <2>10. Onward
    BY <1>1, <2>1, <2>5, <2>8, OnwardOf
  <2> QED BY <2>6, <2>9, <2>10
<1> QED BY <1>4, <1>5

-----------------------------------------------------------------------------
(* The course of the commands: requests arrive.                            *)

LEMMA ReadsAskedKept ==
    ASSUME AInv, Onward, ReadsAsked(toAgent["DBAGENT_R"], asked)
    PROVE  ReadsAsked(toAgent["DBAGENT_R"], asked')
<1> DEFINE w == toAgent["DBAGENT_R"]
<1>1. w \in Seq(Request)
  BY DEF AInv, IInv, TypeOK, Agent
<1>2. ASSUME NEW i \in 1 .. Len(w) PROVE asked'[w[i]] \in Reads
  <2>1. w[i] \in Request /\ asked[w[i]] \in Reads
    BY <1>1 DEF ReadsAsked
  <2> QED BY <2>1, WritesAreMade DEF Onward
<1> QED BY <1>2 DEF ReadsAsked

LEMMA ReadsAskedMore ==
    ASSUME NEW w \in Seq(Request), NEW as, ReadsAsked(w, as), NEW r \in Request, as[r] \in Reads
    PROVE  ReadsAsked(Append(w, r), as)
<1> DEFINE x == Append(w, r)
<1>1. /\ Len(x) = Len(w) + 1 /\ Len(w) \in Nat
      /\ \A i \in 1 .. Len(w) : x[i] = w[i]
      /\ x[Len(w) + 1] = r
  BY AppendProperties
<1> HIDE DEF x
<1>2. ASSUME NEW i \in 1 .. Len(x) PROVE as[x[i]] \in Reads
  <2>1. CASE i \in 1 .. Len(w)
    <3>1. x[i] = w[i] /\ as[w[i]] \in Reads
      BY <1>1, <2>1 DEF ReadsAsked
    <3> QED BY <3>1
  <2>2. CASE i = Len(w) + 1
    BY <1>1, <2>2
  <2>3. i \in 1 .. Len(w) \/ i = Len(w) + 1
    <3>1. i \in 1 .. Len(w) + 1 /\ Len(w) \in Nat
      BY <1>1
    <3> QED BY <3>1
  <2> QED BY <2>1, <2>2, <2>3
<1>3. ReadsAsked(x, as)
  BY <1>2 DEF ReadsAsked
<1> QED BY <1>3 DEF x

\* A request registers its first step.
LEMMA AskRegistersCourse ==
    ASSUME CInv, AInv', Onward, InOrder', Clean', NEW n \in Node, NEW e,
           e.reply = "none", Registered(listData, n, e),
           n = Master \/ e.step = "read",
           Fits(e, asked', applied),
           Untouched(asked', dbStep', applied') => Faithful(e, db),
           UNCHANGED <<store, agentVars, db, applied>>
    PROVE  Course'
<1>0. AInv /\ TypeOK /\ Course
  BY CourseNow DEF CInv, AInv, IInv
<1>1. Turns(n, 0, 1, e)
  BY <1>0, RegisteredTurns
<1>2. AtMaster'
  BY <1>0, <1>1, TurnsAtMaster DEF Course
<1>3. ReadsAsked(toAgent'["DBAGENT_R"], asked')
  BY <1>0, ReadsAskedKept DEF Course, agentVars
<1>4. /\ Sent' = Sent /\ fromAgent' = fromAgent /\ store'[Master] = store[Master]
      /\ applied' = applied /\ db' = db
  BY DEF agentVars, Sent
<1>5. Untouched(asked', dbStep', applied') => \A a \in Agent : Answered(fromAgent'[a], db)
  BY <1>0, <1>4, UntouchedBefore DEF Course
<1>6. CASE n = Master
  <2>1. Turned(Line, Line', 0, 1, e)
    BY <1>0, <1>1, <1>6, TurnsLine
  <2> QED BY <1>2, <1>3, <1>4, <1>5, <2>1, TurnCourse
<1>7. CASE n # Master
  <2>1. Turned(Line, Line', 0, 0, e)
    BY <1>0, <1>1, <1>7, TurnsLine
  <2> QED BY <1>2, <1>3, <1>4, <1>5, <2>1, TurnCourse
<1> QED BY <1>6, <1>7

\* Refused, it is an error.
LEMMA RefusedErrs ==
    ASSUME AInv, NEW r \in Request, Respond(r, <<"error">>) \/ Respond(r, <<"error", "error">>)
    PROVE  ~ Clean'
<1>1. Erred(answers'[r])
  BY SaidTyped, RespondKeeps DEF AInv, IInv
<1> QED BY <1>1 DEF Clean, Erring, Erred

LEMMA AskReadCourse ==
    ASSUME CInv, AInv', Onward, InOrder', Clean', NEW r \in Request, AskRead(r)
    PROVE  Course'
<1>1. CASE Registered(listData, Slave, Command("read", r, Absent))
  <2> DEFINE e == Command("read", r, Absent)
  <2>1. e.reply = "none" /\ e.step = "read" /\ Registered(listData, Slave, e)
    BY <1>1 DEF Command
  <2> HIDE DEF e
  <2>2. Fits(e, asked', applied) /\ Faithful(e, db)
    BY <2>1 DEF Fits, Faithful
  <2>3. UNCHANGED <<store, agentVars, db, applied>> /\ Slave \in Node
    BY DEF AskRead, Node
  <2> QED BY <2>1, <2>2, <2>3, AskRegistersCourse
<1>2. CASE Respond(r, <<"error", "error">>)
  BY <1>2, RefusedErrs DEF CInv
<1> QED BY <1>1, <1>2 DEF AskRead

LEMMA AskWriteCourse ==
    ASSUME CInv, AInv', Onward, InOrder', Clean', NEW r \in Request, AskWrite(r)
    PROVE  Course'
<1>0. TypeOK /\ AInv /\ Course
  BY CourseNow DEF CInv, AInv, IInv
<1>1. PICK k \in {"redisWrite", "writeBoth", "deleteBoth"} :
        /\ Asks(r, k)
        /\ \/ Registered(listData, Master, Command("write", r, Merged(k, r, Absent)))
           \/ Respond(r, <<"error">>)
  BY DEF AskWrite
<1>2. k \in Writes /\ k \in Kinds /\ k # "updateBoth"
  BY <1>1 DEF Kinds, Writes
<1>3. asked[r] = "none" /\ asked'[r] = k
  BY <1>0, <1>1, <1>2, AskedTyped
<1>4. CASE Registered(listData, Master, Command("write", r, Merged(k, r, Absent)))
  <2> DEFINE e == Command("write", r, Merged(k, r, Absent))
  <2>1. /\ e.reply = "none" /\ e.step = "write" /\ e.r = r /\ e.val = Merged(k, r, Absent)
        /\ Registered(listData, Master, e)
    BY <1>4 DEF Command
  <2> HIDE DEF e
  <2>2. r \notin applied
    BY <1>0, <1>3 DEF Course, AppliedAsked
  <2>3. Fits(e, asked', applied)
    BY <1>3, <2>1, <2>2 DEF Fits
  <2>4. ~ Untouched(asked', dbStep', applied')
    BY <1>2, <1>3 DEF Untouched
  <2>5. UNCHANGED <<store, agentVars, db, applied>> /\ Master \in Node
    BY DEF AskWrite, Node
  <2> QED BY <2>1, <2>3, <2>4, <2>5, AskRegistersCourse
<1>5. CASE Respond(r, <<"error">>)
  BY <1>0, <1>5, RefusedErrs
<1> QED BY <1>1, <1>4, <1>5

LEMMA AskUpdateCourse ==
    ASSUME CInv, AInv', Onward, InOrder', Clean', NEW r \in Request, AskUpdate(r)
    PROVE  Course'
<1>0. TypeOK /\ AInv /\ Course
  BY CourseNow DEF CInv, AInv, IInv
<1>1. Asks(r, "updateBoth") /\ "updateBoth" \in Kinds
  BY DEF AskUpdate, Kinds, Writes
<1>3. asked[r] = "none" /\ asked'[r] = "updateBoth"
  BY <1>0, <1>1, AskedTyped
<1>4. CASE Registered(listData, Master, Command("forWrite", r, Absent))
  <2> DEFINE e == Command("forWrite", r, Absent)
  <2>1. /\ e.reply = "none" /\ e.step = "forWrite" /\ e.r = r
        /\ Registered(listData, Master, e)
    BY <1>4 DEF Command
  <2> HIDE DEF e
  <2>2. r \notin applied
    BY <1>0, <1>3 DEF Course, AppliedAsked
  <2>3. Fits(e, asked', applied) /\ Faithful(e, db)
    BY <1>3, <2>1, <2>2 DEF Fits, Faithful
  <2>5. UNCHANGED <<store, agentVars, db, applied>> /\ Master \in Node
    BY DEF AskUpdate, Node
  <2> QED BY <2>1, <2>3, <2>5, AskRegistersCourse
<1>5. CASE Respond(r, <<"error", "error">>)
  BY <1>0, <1>5, RefusedErrs
<1> QED BY <1>4, <1>5 DEF AskUpdate

\* Nothing is done to the list of the master.
LEMMA StillCourse ==
    ASSUME CInv, AInv', Onward, InOrder', Clean', Line' = Line, AtMaster',
           ReadsAsked(toAgent'["DBAGENT_R"], asked'),
           \A r \in applied' \ applied : asked[r] \in Reads,
           Sent' = Sent, db' = db, store'[Master] = store[Master],
           Untouched(asked', dbStep', applied') => \A a \in Agent : Answered(fromAgent'[a], db)
    PROVE  Course'
<1> DEFINE e == [reply |-> "none"]
<1>1. Line \in Seq(Entry)
  BY LineTyped DEF CInv
<1>2. Turned(Line, Line', 0, 0, e) /\ e.reply = "none"
  BY <1>1, SameTurned
<1> HIDE DEF e
<1> QED BY <1>2, TurnCourse

LEMMA AskDbCourse ==
    ASSUME CInv, AInv', Onward, InOrder', Clean', NEW r \in Request, AskDb(r)
    PROVE  Course'
<1>0. TypeOK /\ AInv /\ Course
  BY CourseNow DEF CInv, AInv, IInv
<1>1. PICK k \in {"dbRead", "dbWrite"} : Asks(r, k) /\ EmitToAgent(r, k, FALSE, <<>>)
  BY DEF AskDb
<1>2. k \in Kinds
  BY <1>1 DEF Kinds, Reads, Writes
<1>3. asked[r] = "none" /\ asked'[r] = k
  BY <1>0, <1>1, <1>2, AskedTyped
<1>4. k = "dbRead" /\ k \in Reads
  <2>1. asked'[r] # "dbWrite"
    BY DEF InOrder
  <2> QED BY <1>1, <1>3, <2>1 DEF Reads
<1>5. toAgent' = [toAgent EXCEPT !["DBAGENT_R"] = Append(@, r)]
  <2>1. ~ Erred(answers'[r])
    BY DEF Clean, Erring, Erred
  <2>2. AgentFor(k) = "DBAGENT_R"
    BY <1>4 DEF AgentFor
  <2>3. Erred(answers'[r]) \/ toAgent' = [toAgent EXCEPT ![AgentFor(k)] = Append(@, r)]
    BY <1>0, <1>1, EmitKeeps
  <2> QED BY <2>1, <2>2, <2>3
<1>6. /\ toAgent["DBAGENT_R"] \in Seq(Request)
      /\ toAgent'["DBAGENT_R"] = Append(toAgent["DBAGENT_R"], r)
      /\ toAgent'["DBAGENT_W"] = toAgent["DBAGENT_W"]
  BY <1>0, <1>5 DEF TypeOK, Agent
<1>7. ReadsAsked(toAgent'["DBAGENT_R"], asked')
  <2>1. ReadsAsked(toAgent["DBAGENT_R"], asked')
    BY <1>0, ReadsAskedKept DEF Course
  <2>2. asked'[r] \in Reads
    BY <1>3, <1>4
  <2> QED BY <1>6, <2>1, <2>2, ReadsAskedMore
<1>8. UNCHANGED <<listData, store, fromAgent, db, applied>>
  BY DEF AskDb, redisVars
<1>9. AtMaster' /\ Line' = Line /\ Sent' = Sent
  BY <1>0, <1>6, <1>8 DEF AtMaster, Course, Line, Sent
<1>10. Untouched(asked', dbStep', applied') => \A a \in Agent : Answered(fromAgent'[a], db)
  BY <1>0, <1>8, UntouchedBefore DEF Course
<1> QED BY <1>7, <1>8, <1>9, <1>10, StillCourse

-----------------------------------------------------------------------------
(* A write goes on to the database.                                        *)

LEMMA Appended ==
    ASSUME NEW w \in Seq(Request), NEW r \in Request
    PROVE  /\ Append(w, r) \in Seq(Request) /\ Append(w, r) # <<>>
           /\ Len(Append(w, r)) = Len(w) + 1 /\ Append(w, r)[Len(w) + 1] = r
           /\ \A i \in 1 .. Len(Append(w, r)) :
                \/ i \in 1 .. Len(w) /\ Append(w, r)[i] = w[i]
                \/ i = Len(w) + 1 /\ Append(w, r)[i] = r
<1> DEFINE x == Append(w, r)
<1>1. /\ x \in Seq(Request) /\ Len(x) = Len(w) + 1 /\ Len(w) \in Nat
      /\ \A i \in 1 .. Len(w) : x[i] = w[i]
      /\ x[Len(w) + 1] = r
  BY AppendProperties
<1> HIDE DEF x
<1>2. ASSUME NEW i \in 1 .. Len(x)
      PROVE  \/ i \in 1 .. Len(w) /\ x[i] = w[i]
             \/ i = Len(w) + 1 /\ x[i] = r
  <2>1. i \in 1 .. Len(w) + 1
    BY <1>1
  <2>2. i \in 1 .. Len(w) \/ i = Len(w) + 1
    BY <1>1, <2>1
  <2> QED BY <1>1, <2>2
<1>3. x # <<>>
  BY <1>1
<1> QED BY <1>1, <1>2, <1>3 DEF x

LEMMA TravellingMore ==
    ASSUME NEW w \in Seq(Request), NEW as, NEW ds, NEW ap, Travelling(w, as, ds, ap),
           NEW r \in Request, as[r] \in Writes, ds[r] # "none", r \notin ap,
           \A i \in 1 .. Len(w) : w[i] # r
    PROVE  Travelling(Append(w, r), as, ds, ap)
<1> DEFINE x == Append(w, r)
<1>1. \A i \in 1 .. Len(x) :
          \/ i \in 1 .. Len(w) /\ x[i] = w[i]
          \/ i = Len(w) + 1 /\ x[i] = r
  BY Appended
<1> HIDE DEF x
<1>2. ASSUME NEW i \in 1 .. Len(x)
      PROVE  as[x[i]] \in Writes /\ ds[x[i]] # "none" /\ x[i] \notin ap
  <2>1. CASE i \in 1 .. Len(w) /\ x[i] = w[i]
    BY <2>1 DEF Travelling
  <2>2. CASE x[i] = r
    BY <2>2
  <2> QED BY <1>1, <2>1, <2>2
<1>3. ASSUME NEW i \in 1 .. Len(x), NEW j \in 1 .. Len(x), x[i] = x[j]
      PROVE  i = j
  <2>1. \/ i \in 1 .. Len(w) /\ x[i] = w[i]
        \/ i = Len(w) + 1 /\ x[i] = r
    BY <1>1
  <2>2. \/ j \in 1 .. Len(w) /\ x[j] = w[j]
        \/ j = Len(w) + 1 /\ x[j] = r
    BY <1>1
  <2>3. CASE i \in 1 .. Len(w) /\ x[i] = w[i] /\ j \in 1 .. Len(w) /\ x[j] = w[j]
    BY <1>3, <2>3 DEF Travelling
  <2> QED BY <1>3, <2>1, <2>2, <2>3
<1>4. Travelling(x, as, ds, ap)
  BY <1>2, <1>3 DEF Travelling
<1> QED BY <1>4 DEF x

\* What a write was given is what the database will make of it.
LEMMA WriteIsDue ==
    ASSUME AInv, Course, InOrder, Line # <<>>, DoneWrite(Line[1])
    PROVE  Merged(asked[Line[1].r], Line[1].r, db) = Line[1].val
<1> DEFINE r == Line[1].r  k == asked[r]
<1>1. 1 \in 1 .. Len(Line)
  <2>1. Line \in Seq(Entry)
    BY DEF AInv, IInv, TypeOK, Line, Node
  <2> QED BY <2>1
<1>2. r \in Request /\ k \in Writes /\ dbStep[r] = "none"
  BY <1>1, LineFacts DEF DoneWrite
<1>3. Fits(Line[1], asked, applied)
  BY <1>1 DEF Course, Fitting
<1> HIDE DEF k
<1>4. CASE k = "updateBoth"
  <2>1. \A q \in Request : asked[q] \in Writes => q = r
    BY <1>2, <1>4 DEF InOrder, k
  <2>2. r \notin applied
    BY <1>3 DEF Fits, DoneWrite
  <2>3. Untouched(asked, dbStep, applied)
    BY <1>2, <1>4, <2>1, <2>2 DEF Untouched, k
  <2>4. Faithful(Line[1], db)
    BY <1>1, <2>3 DEF Course, AsStored
  <2> QED BY <1>4, <2>4 DEF Faithful, DoneWrite, k
<1>5. CASE k # "updateBoth"
  <2>1. Line[1].val = Merged(k, r, Absent)
    BY <1>3, <1>5 DEF Fits, DoneWrite, k
  <2>2. k \in {"writeBoth", "deleteBoth"}
    BY <1>2, <1>5 DEF InOrder, Writes, k
  <2>3. Merged(k, r, Absent) = Merged(k, r, db)
    BY <2>2 DEF Merged
  <2> QED BY <2>1, <2>3 DEF k
<1> QED BY <1>4, <1>5

LEMMA SentBounded ==
    ASSUME AInv, AInv', Onward, Clean', Course, InOrder, NEW c, NEW e, e.reply = "none",
           Turned(Line, Line', 1, c, e), NEW r \in Request, Line[1].r = r,
           dbStep[r] = "none",
           Sent' = Append(Sent, r), asked' = asked, applied' = applied, db' = db, store'[Master] = store[Master],
           DoneWrite(Line[1]) \/ Missed(Line[1])
    PROVE  Bounded(Line', Sent', asked', dbStep', applied', store'[Master], db')
<1> DEFINE l == Line  m == Line'  v == store[Master].val
<1>0. /\ l \in Seq(Entry) /\ m \in Seq(Entry) /\ Turned(l, m, 1, c, e)
      /\ DoneWrite(l[1]) \/ Missed(l[1])
      /\ l # <<>>
  <2>1. l \in Seq(Entry) /\ m \in Seq(Entry)
    BY LineTyped
  <2> QED BY <2>1 DEF Turned
<1>a. DoneWrite(l[1]) => Merged(asked[r], r, db) = l[1].val
  BY <1>0, WriteIsDue
<1>b. Sent \in Seq(Request)
  BY LineTyped
<1> HIDE DEF l, m, v
<1>1. CASE v = Absent
  BY <1>1 DEF Bounded, v
<1>2. CASE Expiring(l, store[Master].ttl)
  <2>1. ~ Limits(l[1])
    BY <1>0 DEF Limits, DoneWrite, Missed
  <2>2. Expiring(m, store[Master].ttl)
    BY <1>0, <1>2, <2>1, ExpiringTurned
  <2> QED BY <2>2 DEF Bounded, m
<1>3. CASE InLine(l, Sent, asked, v, db)
  <2>0. 1 \in 1 .. Len(l)
    BY <1>0
  <2>a. DoneWrite(l[1])
    BY <1>0, <1>3, <2>0 DEF InLine
  <2>1. LastWritten(m, v)
    BY <1>0, <1>3, LastWrittenTurned DEF InLine
  <2>2. \A i \in 1 .. Len(m) : ~ Missed(m[i])
    BY <1>0, <1>3, NoneMissedTurned DEF InLine
  <2>3. ASSUME NoDoneWrite(m) PROVE Due(Sent', asked', db) = v
    <3>1. ASSUME NEW j \in 1 + 1 .. Len(l) PROVE ~ DoneWrite(l[j])
      <4>1. j \in 1 .. Len(l) /\ j # 1
        OBVIOUS
      <4>2. j - 1 \in 1 .. Len(m) /\ m[j - 1] = l[j]
        BY <1>0, <4>1, TurnedTo
      <4> DEFINE x == j - 1
      <4>3. x \in 1 .. Len(m) /\ m[x] = l[j]
        BY <4>2
      <4> HIDE DEF x
      <4> QED BY <2>3, <4>3 DEF NoDoneWrite
    <3>2. l[1].val = v
      BY <1>3, <2>0, <2>a, <3>1 DEF InLine, LastWritten
    <3>3. Sent' # <<>> /\ Sent'[Len(Sent')] = r
      BY <1>b, Appended
    <3>4. Due(Sent', asked', db) = Merged(asked[r], r, db)
      BY <3>3 DEF Due
    <3> QED BY <1>a, <2>a, <3>2, <3>4
  <2>4. InLine(m, Sent', asked', v, db)
    BY <2>1, <2>2, <2>3 DEF InLine
  <2>5. InLine(Line', Sent', asked', store'[Master].val, db')
    BY <2>4 DEF m, v
  <2> QED BY <2>5 DEF Bounded
<1>4. ASSUME NEW q \in Request, Forsaken(q, Sent, asked, dbStep, applied)
      PROVE  Bounded(Line', Sent', asked', dbStep', applied', store'[Master], db')
  <2>1. q # r
    BY <1>4 DEF Forsaken
  <2>2. \A i \in 1 .. Len(Sent') : Sent'[i] # q
    BY <1>b, <1>4, <2>1, Appended DEF Forsaken
  <2>3. q \notin applied'
    BY <1>4 DEF Forsaken
  <2>4. Forsaken(q, Sent', asked', dbStep', applied')
    BY <1>4, <2>2, <2>3, ForsakenKept
  <2> QED BY <2>4 DEF Bounded
<1>5. \/ v = Absent
      \/ Expiring(l, store[Master].ttl)
      \/ InLine(l, Sent, asked, v, db)
      \/ \E q \in Request : Forsaken(q, Sent, asked, dbStep, applied)
  BY DEF Bounded, Course, l, v
<1> QED BY <1>1, <1>2, <1>3, <1>4, <1>5

LEMMA SentCourse ==
    ASSUME CInv, AInv', Onward, InOrder', Clean', NEW c, NEW e, e.reply = "none",
           Turned(Line, Line', 1, c, e), c = 1 => Fits(e, asked', applied'), AtMaster',
           NEW r \in Request, Line[1].r = r, dbStep'[r] # "none",
           toAgent' = [toAgent EXCEPT !["DBAGENT_W"] = Append(@, r)],
           asked' = asked, applied' = applied, db' = db, store'[Master] = store[Master],
           DoneWrite(Line[1]) \/ Missed(Line[1])
    PROVE  Course'
<1>0. AInv /\ Course /\ InOrder /\ TypeOK
  BY CourseNow DEF CInv, AInv, IInv
<1>1. /\ Fitting(Line', asked', applied')
      /\ RepliedFirst(Line')
      /\ AppliedAsked(asked', applied')
  BY <1>0, TurnListed
<1>2. 1 \in 1 .. Len(Line)
  BY LineTyped, <1>0 DEF Turned
<1>3. /\ asked[r] \in Writes /\ dbStep[r] = "none" /\ r \notin applied
  <2>1. Line[1].step \in {"write", "forWrite"}
    BY DEF DoneWrite, Missed
  <2>2. Fits(Line[1], asked, applied)
    BY <1>0, <1>2 DEF Course, Fitting
  <2> QED BY <1>0, <1>2, <2>1, <2>2, LineFacts DEF Fits
<1>4. /\ Sent \in Seq(Request) /\ Sent' = Append(Sent, r)
      /\ toAgent'["DBAGENT_R"] = toAgent["DBAGENT_R"]
  BY <1>0 DEF TypeOK, Agent, Sent
<1>5. Travelling(Sent', asked', dbStep', applied')
  <2>1. Travelling(Sent, asked', dbStep', applied')
    BY <1>0, TravellingKept DEF Course
  <2>2. \A i \in 1 .. Len(Sent) : Sent[i] # r
    BY <1>0, <1>3 DEF Course, Travelling
  <2>3. asked'[r] \in Writes /\ r \notin applied'
    BY <1>3
  <2> QED BY <1>4, <2>1, <2>2, <2>3, TravellingMore
<1>6. Bounded(Line', Sent', asked', dbStep', applied', store'[Master], db')
  BY <1>0, <1>3, <1>4, SentBounded
<1>7. ~ Untouched(asked', dbStep', applied')
  BY <1>3 DEF Untouched
<1>8. ReadsAsked(toAgent'["DBAGENT_R"], asked')
  BY <1>0, <1>4 DEF Course
<1> QED BY <1>1, <1>5, <1>6, <1>7, <1>8 DEF Course

-----------------------------------------------------------------------------
(* The replies of Redis.                                                   *)

LEMMA NotTold ==
    ASSUME AInv, Clean', NEW r \in Request, Respond(r, <<"error">>)
    PROVE  FALSE
<1>1. Erred(answers'[r])
  BY SaidTyped, RespondKeeps DEF AInv, IInv
<1> QED BY <1>1 DEF Clean, Erring, Erred

\* A reply is of success, or of failure.
LEMMA FoundFacts ==
    ASSUME CInv, Course, NEW n \in Node, NEW s, NEW r, Replied(n, s, r), n = Master
    PROVE  /\ Failed(n) <=> Line[1].reply = "failed"
           /\ ~ Failed(n) => Line[1].reply = "done"
           /\ Found(n) = Line[1].val
<1>1. /\ 1 \in 1 .. Len(Line) /\ Line[1] = Head(listData[n]) /\ Line[1].reply # "none"
  BY HeadFacts
<1>2. Line[1] \in Entry
  BY <1>1, LineFacts DEF CInv
<1> QED BY <1>1, <1>2 DEF Failed, Found, Entry

LEMMA ReadCallbackCourse ==
    ASSUME CInv, AInv', Onward, InOrder', Clean', NEW n \in Node, NEW r \in Request,
           ReadCallback(n, r)
    PROVE  Course'
<1>0. TypeOK /\ AInv /\ Course
  BY CourseNow DEF CInv, AInv, IInv
<1>1. /\ Replied(n, "read", r)
      /\ listData' = Popped(n)
      /\ UNCHANGED <<asked, store, fromAgent, db, applied>>
  BY DEF ReadCallback
<1>2. listData[n] # <<>>
  BY <1>1 DEF Replied
<1> DEFINE e == [reply |-> "none"]
<1>e. e.reply = "none"
  OBVIOUS
<1> HIDE DEF e
<1>3. Turns(n, 1, 0, e)
  BY <1>0, <1>1, <1>2, PoppedTurns
<1>4. AtMaster'
  BY <1>0, <1>3, TurnsAtMaster DEF Course
<1>5. ReadsAsked(toAgent'["DBAGENT_R"], asked') /\ Sent' = Sent
  <2>1. ReadsAsked(toAgent["DBAGENT_R"], asked')
    BY <1>0, ReadsAskedKept DEF Course
  <2>2. CASE toAgent' = toAgent
    BY <2>1, <2>2 DEF Sent
  <2>3. CASE asked[r] = "readEither" /\ EmitToAgent(r, "readEither", TRUE, <<>>)
    <3>1. ~ Erred(answers'[r])
      BY DEF Clean, Erring, Erred
    <3>2. AgentFor("readEither") = "DBAGENT_R"
      BY DEF AgentFor, Reads
    <3>3. Erred(answers'[r]) \/ toAgent' = [toAgent EXCEPT ![AgentFor("readEither")] = Append(@, r)]
      BY <1>0, <2>3, EmitKeeps
    <3>4. toAgent' = [toAgent EXCEPT !["DBAGENT_R"] = Append(@, r)]
      BY <3>1, <3>2, <3>3
    <3>5. /\ toAgent["DBAGENT_R"] \in Seq(Request)
          /\ toAgent'["DBAGENT_R"] = Append(toAgent["DBAGENT_R"], r)
          /\ toAgent'["DBAGENT_W"] = toAgent["DBAGENT_W"]
      BY <1>0, <3>4 DEF TypeOK, Agent
    <3>6. asked'[r] \in Reads
      BY <1>1, <2>3 DEF Reads
    <3> QED BY <2>1, <3>5, <3>6, ReadsAskedMore DEF Sent
  <2> QED BY <2>2, <2>3 DEF ReadCallback
<1>6. Untouched(asked', dbStep', applied') => \A a \in Agent : Answered(fromAgent'[a], db)
  BY <1>0, <1>1, UntouchedBefore DEF Course
<1>7. CASE n = Master
  <2>1. Turned(Line, Line', 1, 0, e)
    BY <1>0, <1>3, <1>7, TurnsLine
  <2>2. ~ DoneWrite(Line[1]) /\ ~ Limits(Line[1])
    BY <1>0, <1>1, <1>7, HeadFacts DEF DoneWrite, Limits
  <2> QED BY <1>1, <1>4, <1>5, <1>6, <1>e, <2>1, <2>2, TurnCourse
<1>8. CASE n # Master
  <2>1. Turned(Line, Line', 0, 0, e)
    BY <1>0, <1>3, <1>8, TurnsLine
  <2> QED BY <1>1, <1>4, <1>5, <1>6, <1>e, <2>1, TurnCourse
<1> QED BY <1>7, <1>8

LEMMA WriteCallbackCourse ==
    ASSUME CInv, AInv', Onward, InOrder', Clean', NEW n \in Node, NEW r \in Request,
           WriteCallback(n, r)
    PROVE  Course'
<1> DEFINE e == Command("setTtl", r, Absent)
<1>0. TypeOK /\ AInv /\ Course
  BY CourseNow DEF CInv, AInv, IInv
<1>1. /\ Replied(n, "write", r)
      /\ UNCHANGED <<asked, store, fromAgent, db, applied>>
      /\ listData' = Popped(n) \/ listData' = [Popped(n) EXCEPT ![n] = Append(@, e)]
  BY DEF WriteCallback
<1>e. e.reply = "none" /\ e.step = "setTtl"
  BY DEF Command
<1> HIDE DEF e
<1>2. /\ listData[n] # <<>> /\ n = Master
      /\ 1 \in 1 .. Len(Line) /\ Line[1].step = "write" /\ Line[1].r = r
  BY <1>0, <1>1, HeadFacts
<1>3. asked[r] \in Writes /\ asked[r] # "redisWrite"
  <2>1. asked[r] \in Writes
    BY <1>0, <1>2, LineFacts
  <2>2. asked'[r] # "redisWrite"
    BY DEF InOrder
  <2> QED BY <1>1, <2>1, <2>2
<1>4. ~ Failed(n) /\ EmitToAgent(r, asked[r], TRUE, <<"ok">>)
  <2>1. CASE Failed(n)
    <3>1. Respond(r, <<"error">>)
      BY <2>1 DEF WriteCallback
    <3> QED BY <1>0, <3>1, NotTold
  <2>2. CASE ~ Failed(n)
    BY <1>3, <2>2 DEF WriteCallback
  <2> QED BY <2>1, <2>2
<1>5. DoneWrite(Line[1])
  BY <1>0, <1>1, <1>2, <1>4, FoundFacts DEF DoneWrite
<1>6. dbStep'[r] # "none" /\ toAgent' = [toAgent EXCEPT !["DBAGENT_W"] = Append(@, r)]
  <2>1. ~ Erred(answers'[r])
    BY DEF Clean, Erring, Erred
  <2>2. AgentFor(asked[r]) = "DBAGENT_W"
    BY <1>3, WritesAreMade DEF AgentFor
  <2>3. \/ Erred(answers'[r])
        \/ /\ toAgent' = [toAgent EXCEPT ![AgentFor(asked[r])] = Append(@, r)]
           /\ dbStep'[r] # "none"
    BY <1>0, <1>4, EmitKeeps
  <2> QED BY <2>1, <2>2, <2>3
<1>7. PICK c \in {0, 1} : Turns(n, 1, c, e)
  BY <1>0, <1>1, <1>2, PoppedTurns
<1>8. AtMaster'
  BY <1>0, <1>2, <1>7, TurnsAtMaster DEF Course
<1>9. Turned(Line, Line', 1, c, e)
  BY <1>0, <1>2, <1>7, TurnsLine
<1>10. Fits(e, asked', applied')
  BY <1>e DEF Fits
<1> QED BY <1>1, <1>2, <1>5, <1>6, <1>8, <1>9, <1>10, <1>e, SentCourse

LEMMA ForWriteCallbackCourse ==
    ASSUME CInv, AInv', Onward, InOrder', Clean', NEW n \in Node, NEW r \in Request,
           ForWriteCallback(n, r)
    PROVE  Course'
<1>0. TypeOK /\ AInv /\ Course
  BY CourseNow DEF CInv, AInv, IInv
<1>1. /\ Replied(n, "forWrite", r)
      /\ UNCHANGED <<asked, store, fromAgent, db, applied>>
  BY DEF ForWriteCallback
<1>2. /\ listData[n] # <<>> /\ n = Master
      /\ 1 \in 1 .. Len(Line) /\ Line[1].step = "forWrite" /\ Line[1].r = r
  BY <1>0, <1>1, HeadFacts
<1>3. Fits(Line[1], asked, applied) /\ asked[r] = "updateBoth" /\ r \notin applied
  BY <1>0, <1>2 DEF Course, Fitting, Fits
<1>4. CASE ~ Failed(n) /\ Found(n) = Absent /\ listData' = Popped(n)
           /\ EmitToAgent(r, "updateBoth", FALSE, <<>>)
  <2> DEFINE e == [reply |-> "none"]
  <2>e. e.reply = "none"
    OBVIOUS
  <2> HIDE DEF e
  <2>1. Turns(n, 1, 0, e)
    BY <1>0, <1>2, <1>4, PoppedTurns
  <2>2. AtMaster' /\ Turned(Line, Line', 1, 0, e)
    BY <1>0, <1>2, <2>1, TurnsAtMaster, TurnsLine DEF Course
  <2>3. Missed(Line[1])
    BY <1>0, <1>1, <1>2, <1>4, FoundFacts DEF Missed
  <2>4. dbStep'[r] # "none" /\ toAgent' = [toAgent EXCEPT !["DBAGENT_W"] = Append(@, r)]
    <3>1. ~ Erred(answers'[r])
      BY DEF Clean, Erring, Erred
    <3>2. AgentFor("updateBoth") = "DBAGENT_W"
      BY DEF AgentFor, Reads
    <3>3. \/ Erred(answers'[r])
          \/ /\ toAgent' = [toAgent EXCEPT ![AgentFor("updateBoth")] = Append(@, r)]
             /\ dbStep'[r] # "none"
      BY <1>0, <1>4, EmitKeeps
    <3> QED BY <3>1, <3>2, <3>3
  <2>5. /\ asked' = asked /\ applied' = applied /\ db' = db /\ store'[Master] = store[Master]
        /\ 0 = 1 => Fits(e, asked', applied')
        /\ Line[1].r = r
    BY <1>1, <1>2
  <2> QED BY <2>e, <2>2, <2>3, <2>4, <2>5, SentCourse
<1>5. CASE /\ ~ Failed(n) /\ Found(n) # Absent
           /\ listData' = [Popped(n) EXCEPT ![n] =
                Append(@, Command("write", r, Merged("updateBoth", r, Found(n))))]
           /\ UNCHANGED <<answers, dbStep, toAgent, faults>>
  <2> DEFINE e == Command("write", r, Merged("updateBoth", r, Found(n)))
  <2>e. /\ e.reply = "none" /\ e.step = "write" /\ e.r = r
        /\ e.val = Merged("updateBoth", r, Found(n))
        /\ listData' = [Popped(n) EXCEPT ![n] = Append(@, e)]
    BY <1>5 DEF Command
  <2> HIDE DEF e
  <2>1. Turns(n, 1, 1, e)
    BY <1>0, <1>2, <2>e, PoppedTurns
  <2>2. AtMaster' /\ Turned(Line, Line', 1, 1, e)
    BY <1>0, <1>2, <2>1, TurnsAtMaster, TurnsLine DEF Course
  <2>3. Fits(e, asked', applied')
    BY <1>1, <1>3, <2>e DEF Fits
  <2>4. ReadsAsked(toAgent'["DBAGENT_R"], asked') /\ Sent' = Sent
    BY <1>0, <1>1, <1>5 DEF Course, Sent
  <2>5. ASSUME Untouched(asked', dbStep', applied')
        PROVE  Faithful(e, db) /\ \A a \in Agent : Answered(fromAgent'[a], db)
    <3>1. Untouched(asked, dbStep, applied)
      BY <2>5, UntouchedBefore
    <3>2. Faithful(Line[1], db) /\ \A a \in Agent : Answered(fromAgent[a], db)
      BY <1>0, <1>2, <3>1 DEF Course, AsStored
    <3>3. Line[1].reply = "done" /\ Found(n) = Line[1].val
      BY <1>0, <1>1, <1>2, <1>5, FoundFacts
    <3>4. Found(n) = db
      BY <1>2, <1>5, <3>2, <3>3 DEF Faithful
    <3>5. Faithful(e, db)
      BY <2>e, <3>4 DEF Faithful
    <3> QED BY <1>1, <3>2, <3>5
  <2>6. ~ DoneWrite(Line[1]) /\ ~ Limits(Line[1])
    BY <1>2 DEF DoneWrite, Limits
  <2> QED BY <1>1, <2>e, <2>2, <2>3, <2>4, <2>5, <2>6, TurnCourse
<1>6. CASE Respond(r, <<"error">>)
  BY <1>0, <1>6, NotTold
<1> QED BY <1>4, <1>5, <1>6 DEF ForWriteCallback

\* The callbacks that answer nobody.
LEMMA SilentCallbackCourse ==
    ASSUME CInv, AInv', Onward, InOrder', Clean', NEW n \in Node, NEW r \in Request,
           WriteBackCallback(n, r) \/ SetTtlCallback(n, r)
    PROVE  Course'
<1> DEFINE e == Command("setTtl", r, Absent)
<1>0. TypeOK /\ AInv /\ Course
  BY CourseNow DEF CInv, AInv, IInv
<1>1. UNCHANGED <<asked, store, dbStep, toAgent, fromAgent, db, applied>>
  BY DEF WriteBackCallback, SetTtlCallback, agentVars
<1>2. PICK s \in {"writeBack", "setTtl"} :
        /\ Replied(n, s, r)
        /\ s = "writeBack" => listData' = [Popped(n) EXCEPT ![n] = Append(@, e)]
        /\ s = "setTtl" => listData' = Popped(n) /\ ~ Failed(n)
  <2>1. ASSUME Failed(n) PROVE FALSE
    <3>1. r \in logged'
      BY <2>1 DEF WriteBackCallback, SetTtlCallback
    <3> QED BY <3>1 DEF Clean, Erring
  <2>2. CASE WriteBackCallback(n, r)
    BY <2>1, <2>2 DEF WriteBackCallback
  <2>3. CASE SetTtlCallback(n, r)
    BY <2>1, <2>3 DEF SetTtlCallback
  <2> QED BY <2>2, <2>3
<1>e. e.reply = "none" /\ e.step = "setTtl"
  BY DEF Command
<1> HIDE DEF e
<1>3. /\ listData[n] # <<>> /\ n = Master
      /\ 1 \in 1 .. Len(Line) /\ Line[1].step = s /\ Line[1].reply # "none"
  BY <1>0, <1>2, HeadFacts
<1>4. Fits(e, asked', applied') /\ Faithful(e, db) /\ Limits(e)
  BY <1>e DEF Fits, Faithful, Limits
<1>5. ~ DoneWrite(Line[1])
  BY <1>3 DEF DoneWrite
<1>6. ReadsAsked(toAgent'["DBAGENT_R"], asked') /\ Sent' = Sent /\ store'[Master] = store[Master]
  BY <1>0, <1>1 DEF Course, Sent
<1>7. Untouched(asked', dbStep', applied') => \A a \in Agent : Answered(fromAgent'[a], db)
  BY <1>0, <1>1, UntouchedBefore DEF Course
<1>8. CASE s = "writeBack"
  <2>1. Turns(n, 1, 1, e)
    BY <1>0, <1>2, <1>3, <1>8, PoppedTurns
  <2>2. AtMaster' /\ Turned(Line, Line', 1, 1, e)
    BY <1>0, <1>3, <2>1, TurnsAtMaster, TurnsLine DEF Course
  <2> QED BY <1>1, <1>4, <1>5, <1>6, <1>7, <1>e, <2>2, TurnCourse
<1>9. CASE s = "setTtl"
  <2>1. Turns(n, 1, 0, e)
    BY <1>0, <1>2, <1>3, <1>9, PoppedTurns
  <2>2. AtMaster' /\ Turned(Line, Line', 1, 0, e)
    BY <1>0, <1>3, <2>1, TurnsAtMaster, TurnsLine DEF Course
  <2>3. ~ Limits(Line[1])
    BY <1>0, <1>2, <1>3, <1>9, FoundFacts DEF Limits
  <2> QED BY <1>1, <1>4, <1>5, <1>6, <1>7, <1>e, <2>2, <2>3, TurnCourse
<1> QED BY <1>8, <1>9

-----------------------------------------------------------------------------
(* Redis executes.                                                         *)

\* In the list m the command i of l has its reply, and is x.
Marked(l, m, i, x) ==
    /\ m = [l EXCEPT ![i] = x]
    /\ i \in 1 .. Len(l)
    /\ l[i].reply = "none" /\ x.reply \in {"done", "failed"}
    /\ \A j \in 1 .. i - 1 : l[j].reply # "none"
    /\ x.step = l[i].step /\ x.r = l[i].r
    /\ x.step \in {"write", "writeBack", "setTtl"} => x.val = l[i].val

LEMMA MarkedAt ==
    ASSUME NEW l \in Seq(Entry), NEW m, NEW i, NEW x, Marked(l, m, i, x)
    PROVE  /\ Len(m) = Len(l) /\ i \in 1 .. Len(m) /\ m[i] = x
           /\ \A j \in 1 .. Len(l) : j # i => m[j] = l[j]
BY DEF Marked

\* What comes after the command that is executed has no reply.
LEMMA MarkedLast ==
    ASSUME NEW l \in Seq(Entry), NEW m, NEW i, NEW x, Marked(l, m, i, x), RepliedFirst(l),
           NEW j \in 1 .. Len(l), j > i
    PROVE  l[j].reply = "none"
BY DEF Marked, RepliedFirst

LEMMA MarkedListed ==
    ASSUME NEW l \in Seq(Entry), NEW m, NEW i, NEW x, Marked(l, m, i, x),
           NEW as, NEW ap, Fitting(l, as, ap), RepliedFirst(l)
    PROVE  Fitting(m, as, ap) /\ RepliedFirst(m)
<1>1. /\ Len(m) = Len(l) /\ i \in 1 .. Len(l) /\ m[i] = x
      /\ \A j \in 1 .. Len(l) : j # i => m[j] = l[j]
  BY MarkedAt DEF Marked
<1>2. Fits(l[i], as, ap)
  BY <1>1 DEF Fitting
<1>3. Fits(x, as, ap)
  BY <1>2 DEF Fits, Marked
<1>4. Fitting(m, as, ap)
  <2>1. ASSUME NEW j \in 1 .. Len(m) PROVE Fits(m[j], as, ap)
    <3>1. CASE j = i
      BY <1>1, <1>3, <3>1
    <3>2. CASE j # i
      <4>1. m[j] = l[j] /\ Fits(l[j], as, ap)
        BY <1>1, <3>2 DEF Fitting
      <4> QED BY <4>1
    <3> QED BY <3>1, <3>2
  <2> QED BY <2>1 DEF Fitting
<1>5. RepliedFirst(m)
  <2> SUFFICES ASSUME NEW a \in 1 .. Len(m), NEW b \in 1 .. Len(m), a < b, m[a].reply = "none"
               PROVE  m[b].reply = "none"
    BY DEF RepliedFirst
  <2>1. a # i /\ m[a] = l[a]
    BY <1>1 DEF Marked
  <2>2. a > i
    <3>1. ~ (a \in 1 .. i - 1)
      BY <2>1 DEF Marked
    <3> QED BY <1>1, <2>1, <3>1
  <2>3. b # i /\ m[b] = l[b]
    BY <1>1, <2>2
  <2>4. l[b].reply = "none"
    BY <1>1, <2>1 DEF RepliedFirst
  <2> QED BY <2>3, <2>4
<1> QED BY <1>4, <1>5

\* An update has no write in the list while it reads.
LEMMA UpdateReads ==
    ASSUME AInv, Course, InOrder, NEW i \in 1 .. Len(Line), NEW j \in 1 .. Len(Line),
           Line[i].step = "forWrite", Line[j].step = "write"
    PROVE  FALSE
<1>1. /\ Line[i].r \in Request /\ Line[j].r \in Request
      /\ asked[Line[j].r] \in Writes
  BY LineFacts
<1>2. Fits(Line[i], asked, applied)
  BY DEF Course, Fitting
<1>3. Line[i].r = Line[j].r
  BY <1>1, <1>2 DEF InOrder, Fits
<1>4. OneMain(listData) /\ Master \in Node
  BY DEF AInv, IInv, Node
<1>5. i = j
  BY <1>3, <1>4 DEF OneMain, Line, Main
<1> QED BY <1>5

\* The master refuses a command.
LEMMA FailedBounded ==
    ASSUME NEW l \in Seq(Entry), NEW m, NEW i, NEW x, Marked(l, m, i, x), x.reply = "failed",
           NEW w, NEW as, NEW v, NEW d, NEW t
    PROVE  /\ Expiring(l, t) => Expiring(m, t)
           /\ InLine(l, w, as, v, d) => InLine(m, w, as, v, d)
           /\ NoDoneWrite(m) => NoDoneWrite(l)
<1>1. /\ Len(m) = Len(l) /\ i \in 1 .. Len(l) /\ m[i] = x
      /\ \A j \in 1 .. Len(l) : j # i => m[j] = l[j]
  BY MarkedAt DEF Marked
<1>2. ASSUME NEW j \in 1 .. Len(l)
      PROVE  /\ DoneWrite(m[j]) <=> DoneWrite(l[j])
             /\ Missed(m[j]) <=> Missed(l[j])
             /\ Limits(l[j]) => Limits(m[j])
             /\ DoneWrite(l[j]) => m[j] = l[j]
  <2>1. CASE j = i
    BY <1>1, <2>1 DEF DoneWrite, Missed, Limits, Marked
  <2>2. CASE j # i
    <3>1. m[j] = l[j]
      BY <1>1, <2>2
    <3> QED BY <3>1
  <2> QED BY <2>1, <2>2
<1>3. ASSUME Expiring(l, t) PROVE Expiring(m, t)
  BY <1>1, <1>2, <1>3 DEF Expiring
<1>4. NoDoneWrite(m) => NoDoneWrite(l)
  BY <1>1, <1>2 DEF NoDoneWrite
<1>5. ASSUME InLine(l, w, as, v, d) PROVE InLine(m, w, as, v, d)
  <2>1. ASSUME NEW j \in 1 .. Len(m), DoneWrite(m[j]),
               \A k \in j + 1 .. Len(m) : ~ DoneWrite(m[k])
        PROVE  m[j].val = v
    <3>1. \A k \in j + 1 .. Len(l) : ~ DoneWrite(l[k])
      <4>1. \A k \in j + 1 .. Len(l) : k \in 1 .. Len(l)
        BY <1>1
      <4> QED BY <1>1, <1>2, <2>1, <4>1
    <3>2. l[j].val = v
      BY <1>1, <1>2, <1>5, <2>1, <3>1 DEF InLine, LastWritten
    <3> QED BY <1>1, <1>2, <2>1, <3>2
  <2>2. LastWritten(m, v)
    BY <2>1 DEF LastWritten
  <2>3. \A j \in 1 .. Len(m) : ~ Missed(m[j])
    BY <1>1, <1>2, <1>5 DEF InLine
  <2> QED BY <1>4, <1>5, <2>2, <2>3 DEF InLine
<1> QED BY <1>3, <1>4, <1>5

\* No record is left that the database will not have and that does not expire.
Held(l, w, as, s, d) ==
    s.val = Absent \/ Expiring(l, s.ttl) \/ InLine(l, w, as, s.val, d)

\* The master executes a command.
LEMMA DoneBounded ==
    ASSUME NEW l \in Seq(Entry), NEW m, NEW i, NEW x, Marked(l, m, i, x), x.reply = "done",
           RepliedFirst(l), NEW s \in [val : Value, ttl : BOOLEAN],
           x.step \in {"read", "forWrite"} => x.val = s.val,
           x.step \in RedisStep,
           x.step = "write" => \A j \in 1 .. Len(l) : l[j].step # "forWrite",
           NEW w, NEW as, NEW d
    PROVE  LET z == After(l[i], s) IN
           /\ Held(l, w, as, s, d) \/ x.step \notin {"read", "forWrite"} => Held(m, w, as, z, d)
           /\ NoDoneWrite(m) => NoDoneWrite(l) /\ x.step # "write"
           /\ z.val = IF x.step \in {"write", "writeBack"} THEN x.val ELSE s.val
<1> DEFINE z == After(l[i], s)
<1>1. /\ Len(m) = Len(l) /\ i \in 1 .. Len(l) /\ m[i] = x
      /\ \A j \in 1 .. Len(l) : j # i => m[j] = l[j]
  BY MarkedAt DEF Marked
<1>2. NoDoneWrite(m) => NoDoneWrite(l) /\ x.step # "write"
  <2>1. ~ DoneWrite(l[i])
    BY DEF Marked, DoneWrite
  <2>2. NoDoneWrite(m) => NoDoneWrite(l)
    BY <1>1, <2>1 DEF NoDoneWrite
  <2>3. x.step = "write" => DoneWrite(m[i])
    BY <1>1 DEF DoneWrite
  <2> QED BY <1>1, <2>2, <2>3 DEF NoDoneWrite
<1>3. z.val = IF x.step \in {"write", "writeBack"} THEN x.val ELSE s.val
  <2>1. l[i].step = x.step /\ (x.step \in {"write", "writeBack"} => x.val = l[i].val)
    BY DEF Marked
  <2> QED BY <2>1 DEF After
<1>4. CASE x.step = "write"
  <2>1. z.val = x.val
    BY <1>3, <1>4
  <2>2. LastWritten(m, x.val)
    <3> SUFFICES ASSUME NEW j \in 1 .. Len(m), DoneWrite(m[j]),
                        \A k \in j + 1 .. Len(m) : ~ DoneWrite(m[k])
                 PROVE  m[j].val = x.val
      BY DEF LastWritten
    <3>1. DoneWrite(m[i])
      BY <1>1, <1>4 DEF DoneWrite
    <3>2. ~ (i \in j + 1 .. Len(m))
      BY <3>1
    <3>3. ~ (j > i)
      <4>1. ASSUME j > i PROVE FALSE
        <5>1. m[j] = l[j] /\ l[j].reply = "none"
          BY <1>1, <4>1, MarkedLast
        <5> QED BY <5>1 DEF DoneWrite
      <4> QED BY <4>1
    <3>4. i \in 1 .. Len(m) /\ Len(m) \in Nat
      BY <1>1
    <3>5. j = i
      BY <3>2, <3>3, <3>4
    <3> QED BY <1>1, <3>5
  <2>3. \A j \in 1 .. Len(m) : ~ Missed(m[j])
    <3>1. ASSUME NEW j \in 1 .. Len(m) PROVE m[j].step # "forWrite"
      <4>1. CASE j = i
        BY <1>1, <1>4, <4>1
      <4>2. CASE j # i
        BY <1>1, <1>4, <4>2
      <4> QED BY <4>1, <4>2
    <3> QED BY <3>1 DEF Missed
  <2>4. InLine(m, w, as, x.val, d)
    BY <1>2, <1>4, <2>2, <2>3 DEF InLine
  <2>5. InLine(m, w, as, z.val, d)
    BY <2>1, <2>4
  <2> HIDE DEF z, Held
  <2> QED BY <1>2, <1>3, <2>5 DEF z, Held
<1>5. CASE x.step = "writeBack"
  <2>1. Limits(m[i])
    BY <1>1, <1>5 DEF Limits
  <2>2. Expiring(m, z.ttl)
    BY <1>1, <2>1 DEF Expiring
  <2> HIDE DEF z, Held
  <2> QED BY <1>2, <1>3, <2>2 DEF z, Held
<1>6. CASE x.step = "setTtl"
  <2>1. z.val = Absent \/ z.ttl
    <3>1. l[i].step = "setTtl"
      BY <1>6 DEF Marked
    <3>2. z = [s EXCEPT !.ttl = (s.val # Absent)]
      BY <3>1 DEF After
    <3>3. z.val = s.val /\ z.ttl = (s.val # Absent)
      BY <3>2
    <3> QED BY <3>3, Zenon
  <2>2. z.val = Absent \/ Expiring(m, z.ttl)
    BY <2>1 DEF Expiring
  <2> HIDE DEF z, Held
  <2> QED BY <1>2, <1>3, <2>2 DEF z, Held
<1>7. CASE x.step \in {"read", "forWrite"}
  <2>1. z = s
    <3>1. l[i].step \in {"read", "forWrite"}
      BY <1>7 DEF Marked
    <3> QED BY <3>1 DEF After
  <2>2. ASSUME NEW j \in 1 .. Len(l)
        PROVE  /\ DoneWrite(m[j]) <=> DoneWrite(l[j])
               /\ Limits(m[j]) <=> Limits(l[j])
               /\ s.val # Absent => (Missed(m[j]) => Missed(l[j]))
               /\ DoneWrite(l[j]) => m[j] = l[j]
    <3>1. CASE j = i
      BY <1>1, <1>7, <3>1 DEF DoneWrite, Missed, Limits, Marked
    <3>2. CASE j # i
      <4>1. m[j] = l[j]
        BY <1>1, <3>2
      <4> QED BY <4>1
    <3> QED BY <3>1, <3>2
  <2>3. Expiring(l, s.ttl) => Expiring(m, s.ttl)
    BY <1>1, <2>2 DEF Expiring
  <2>4. ASSUME InLine(l, w, as, s.val, d), s.val # Absent PROVE InLine(m, w, as, s.val, d)
    <3>1. ASSUME NEW j \in 1 .. Len(m), DoneWrite(m[j]),
                 \A k \in j + 1 .. Len(m) : ~ DoneWrite(m[k])
          PROVE  m[j].val = s.val
      <4>1. \A k \in j + 1 .. Len(l) : ~ DoneWrite(l[k])
        <5>1. \A k \in j + 1 .. Len(l) : k \in 1 .. Len(l)
          BY <1>1
        <5> QED BY <1>1, <2>2, <3>1, <5>1
      <4>2. l[j].val = s.val
        BY <1>1, <2>2, <2>4, <3>1, <4>1 DEF InLine, LastWritten
      <4> QED BY <1>1, <2>2, <3>1, <4>2
    <3>2. LastWritten(m, s.val)
      BY <3>1 DEF LastWritten
    <3>3. \A j \in 1 .. Len(m) : ~ Missed(m[j])
      BY <1>1, <2>2, <2>4 DEF InLine
    <3> QED BY <1>2, <2>4, <3>2, <3>3 DEF InLine
  <2>5. \/ s.val = Absent \/ Expiring(l, s.ttl) \/ InLine(l, w, as, s.val, d)
        => \/ z.val = Absent \/ Expiring(m, z.ttl) \/ InLine(m, w, as, z.val, d)
    BY <2>1, <2>3, <2>4
  <2> HIDE DEF z, Held
  <2> QED BY <1>2, <1>3, <1>7, <2>5 DEF z, Held
<1> QED BY <1>4, <1>5, <1>6, <1>7 DEF RedisStep

LEMMA MasterMarks ==
    ASSUME TypeOK, RedisExecutes(Master)
    PROVE  \E i, x :
              /\ Marked(Line, Line', i, x)
              /\ x.step \in RedisStep
              /\ \/ /\ x.reply = "done"
                    /\ store'[Master] = After(Line[i], store[Master])
                    /\ x.step \in {"read", "forWrite"} => x.val = store[Master].val
                 \/ x.reply = "failed" /\ store'[Master] = store[Master]
<1>0. /\ Master \in Node /\ Line \in Seq(Entry)
      /\ listData \in [Node -> Seq(Entry)] /\ store \in [Node -> [val : Value, ttl : BOOLEAN]]
  BY DEF TypeOK, Node, Line
<1>1. PICK i \in DOMAIN Line :
        /\ Line[i].reply = "none"
        /\ \A j \in 1 .. i - 1 : Line[j].reply # "none"
        /\ \/ /\ store' = [store EXCEPT ![Master] = After(Line[i], @)]
              /\ listData' = [listData EXCEPT ![Master][i].reply = "done", ![Master][i].val =
                    IF Line[i].step \in {"read", "forWrite"} THEN store[Master].val ELSE @]
           \/ /\ listData' = [listData EXCEPT ![Master][i].reply = "failed"]
              /\ UNCHANGED store
  BY DEF RedisExecutes, Line
<1> DEFINE e == Line[i]
           v == IF e.step \in {"read", "forWrite"} THEN store[Master].val ELSE e.val
           x == [e EXCEPT !.reply = "done", !.val = v]
           y == [e EXCEPT !.reply = "failed"]
<1>2. i \in 1 .. Len(Line) /\ e \in Entry /\ e.step \in RedisStep
  BY <1>0 DEF Entry
<1>3. CASE /\ store' = [store EXCEPT ![Master] = After(Line[i], @)]
           /\ listData' = [listData EXCEPT ![Master][i].reply = "done", ![Master][i].val =
                 IF Line[i].step \in {"read", "forWrite"} THEN store[Master].val ELSE @]
  <2>1. /\ x.step = e.step /\ x.r = e.r /\ x.reply = "done" /\ x.val = v
    BY <1>2 DEF Entry
  <2>2. Line' = [Line EXCEPT ![i] = x]
    BY <1>0, <1>2, <1>3 DEF Line
  <2>3. store'[Master] = After(Line[i], store[Master])
    BY <1>0, <1>3
  <2>4. /\ x.step \in {"write", "writeBack", "setTtl"} => x.val = Line[i].val
        /\ x.step \in {"read", "forWrite"} => x.val = store[Master].val
    BY <2>1
  <2> HIDE DEF x
  <2>5. Marked(Line, Line', i, x)
    BY <1>1, <1>2, <2>1, <2>2, <2>4 DEF Marked
  <2> QED BY <1>2, <2>1, <2>3, <2>4, <2>5
<1>4. CASE /\ listData' = [listData EXCEPT ![Master][i].reply = "failed"]
           /\ UNCHANGED store
  <2>1. /\ y.step = e.step /\ y.r = e.r /\ y.reply = "failed" /\ y.val = e.val
    BY <1>2 DEF Entry
  <2>2. Line' = [Line EXCEPT ![i] = y]
    BY <1>0, <1>2, <1>4 DEF Line
  <2> HIDE DEF y
  <2>3. Marked(Line, Line', i, y)
    BY <1>1, <1>2, <2>1, <2>2 DEF Marked
  <2> QED BY <1>2, <1>4, <2>1, <2>3
<1> QED BY <1>1, <1>3, <1>4

LEMMA RedisExecutesCourse ==
    ASSUME CInv, AInv', Onward, InOrder', Clean', NEW n \in Node, RedisExecutes(n)
    PROVE  Course'
<1>0. TypeOK /\ AInv /\ IInv /\ Course /\ InOrder
  BY CourseNow DEF CInv, AInv, IInv
<1>1. /\ UNCHANGED <<asked, dbStep, toAgent, fromAgent, db, applied>>
      /\ \A m \in Node : Len(listData'[m]) = Len(listData[m])
      /\ \A m \in Node : \A j \in 1 .. Len(listData[m]) : listData'[m][j].step = listData[m][j].step
  BY <1>0, RedisExecutesFacts
<1>2. AtMaster'
  BY <1>0, <1>1 DEF Course, AtMaster
<1>3. /\ ReadsAsked(toAgent'["DBAGENT_R"], asked')
      /\ Sent' = Sent
      /\ AppliedAsked(asked', applied')
      /\ Travelling(Sent', asked', dbStep', applied')
  BY <1>0, <1>1 DEF Course, Sent
<1>4. Untouched(asked', dbStep', applied') => \A a \in Agent : Answered(fromAgent'[a], db)
  BY <1>0, <1>1 DEF Course
<1>5. CASE n # Master
  <2>1. Line' = Line /\ store'[Master] = store[Master]
    BY <1>0, <1>5 DEF RedisExecutes, TypeOK, Line, Node
  <2> QED BY <1>1, <1>2, <1>3, <1>4, <2>1, StillCourse
<1>6. CASE n = Master
  <2>1. PICK i, x :
          /\ Marked(Line, Line', i, x)
          /\ x.step \in RedisStep
          /\ \/ /\ x.reply = "done"
                /\ store'[Master] = After(Line[i], store[Master])
                /\ x.step \in {"read", "forWrite"} => x.val = store[Master].val
             \/ x.reply = "failed" /\ store'[Master] = store[Master]
    BY <1>0, <1>6, MasterMarks
  <2> DEFINE l == Line  m == Line'  s == store[Master]  z == store'[Master]  w == Sent
  <2>0. /\ l \in Seq(Entry) /\ s \in [val : Value, ttl : BOOLEAN] /\ i \in 1 .. Len(l)
        /\ Marked(l, m, i, x)
        /\ Fitting(l, asked, applied) /\ RepliedFirst(l)
        /\ Bounded(l, w, asked, dbStep, applied, s, db)
    BY <1>0, <2>1, LineTyped DEF Course, Marked
  <2>2. Fitting(Line', asked', applied') /\ RepliedFirst(Line')
    <3> HIDE DEF l, m
    <3>1. Fitting(m, asked, applied) /\ RepliedFirst(m)
      BY <2>0, MarkedListed
    <3> QED BY <1>1, <3>1 DEF m
  <2>3. x.step \in {"write", "forWrite"} => \A j \in 1 .. Len(l) :
            l[j].step \in {"write", "forWrite"} /\ l[j].step # x.step => FALSE
    <3>1. l[i].step = x.step
      BY <2>1 DEF Marked
    <3> QED BY <1>0, <2>0, <3>1, UpdateReads
  <2>4. /\ Bounded(m, w, asked, dbStep, applied, z, db)
        /\ NoDoneWrite(m) => NoDoneWrite(l)
        /\ NoDoneWrite(m) /\ x.reply = "done" => x.step # "write"
        /\ \/ z.val = s.val
           \/ x.reply = "done" /\ x.step \in {"write", "writeBack"} /\ z.val = x.val
    <3>1. CASE x.reply = "failed" /\ z = s
      <4> HIDE DEF l, m, s, z, w
      <4>1. /\ Expiring(l, s.ttl) => Expiring(m, s.ttl)
            /\ InLine(l, w, asked, s.val, db) => InLine(m, w, asked, s.val, db)
            /\ NoDoneWrite(m) => NoDoneWrite(l)
        BY <2>0, <3>1, FailedBounded
      <4>2. Bounded(m, w, asked, dbStep, applied, s, db)
        BY <2>0, <4>1 DEF Bounded
      <4> QED BY <3>1, <4>1, <4>2
    <3>2. CASE /\ x.reply = "done"
               /\ z = After(l[i], s)
               /\ x.step \in {"read", "forWrite"} => x.val = s.val
      <4>1. x.step = "write" => \A j \in 1 .. Len(l) : l[j].step # "forWrite"
        BY <2>3
      <4> HIDE DEF l, m, s, z, w
      <4> DEFINE q == After(l[i], s)
      <4>2. /\ Held(l, w, asked, s, db) \/ x.step \notin {"read", "forWrite"} => Held(m, w, asked, q, db)
            /\ NoDoneWrite(m) => NoDoneWrite(l) /\ x.step # "write"
            /\ q.val = IF x.step \in {"write", "writeBack"} THEN x.val ELSE s.val
        <5>1. /\ l \in Seq(Entry) /\ Marked(l, m, i, x) /\ x.reply = "done" /\ RepliedFirst(l)
              /\ s \in [val : Value, ttl : BOOLEAN]
              /\ x.step \in {"read", "forWrite"} => x.val = s.val
              /\ x.step \in RedisStep
              /\ x.step = "write" => \A j \in 1 .. Len(l) : l[j].step # "forWrite"
          BY <2>0, <2>1, <3>2, <4>1
        <5> QED BY <5>1, DoneBounded
      <4>b. z = q
        BY <3>2
      <4> HIDE DEF q
      <4>3. Bounded(m, w, asked, dbStep, applied, q, db)
        BY <2>0, <4>2 DEF Bounded, Held
      <4> QED BY <3>2, <4>b, <4>2, <4>3
    <3> QED BY <2>1, <3>1, <3>2
  <2>5. ASSUME Untouched(asked', dbStep', applied') PROVE AsStored(Line', store'[Master].val, db')
    <3>1. AsStored(l, s.val, db)
      BY <1>0, <1>1, <2>5 DEF Course
    <3>2. Faithful(l[i], db)
      BY <2>0, <3>1 DEF AsStored
    <3>3. Faithful(x, db)
      <4>1. CASE x.step = "forWrite" /\ x.reply = "done"
        <5>1. \A j \in 1 .. Len(l) : ~ DoneWrite(l[j])
          BY <2>3, <4>1 DEF DoneWrite
        <5>2. s.val \in {Absent, db}
          BY <3>1, <5>1 DEF AsStored, NoDoneWrite
        <5>3. x.val = s.val
          BY <2>1, <4>1
        <5> QED BY <4>1, <5>2, <5>3 DEF Faithful
      <4>2. CASE ~ (x.step = "forWrite" /\ x.reply = "done")
        <5>1. /\ l[i].step = x.step /\ l[i].r = x.r
              /\ x.step \in {"write", "writeBack"} => x.val = l[i].val
          BY <2>1 DEF Marked
        <5> QED BY <3>2, <4>2, <5>1 DEF Faithful
      <4> QED BY <4>1, <4>2
    <3>4. \A j \in 1 .. Len(m) : Faithful(m[j], db)
      <4> HIDE DEF l, m
      <4>1. /\ Len(m) = Len(l) /\ m[i] = x
            /\ \A j \in 1 .. Len(l) : j # i => m[j] = l[j]
        BY <2>0, MarkedAt
      <4>2. ASSUME NEW j \in 1 .. Len(m) PROVE Faithful(m[j], db)
        <5>1. CASE j = i
          BY <3>3, <4>1, <5>1
        <5>2. CASE j # i
          <6>1. m[j] = l[j] /\ Faithful(l[j], db)
            BY <3>1, <4>1, <5>2 DEF AsStored
          <6> QED BY <6>1
        <5> QED BY <5>1, <5>2
      <4> QED BY <4>2
    <3>5. ASSUME NoDoneWrite(m) PROVE z.val \in {Absent, db}
      <4>1. s.val \in {Absent, db}
        BY <2>4, <3>1, <3>5 DEF AsStored
      <4>2. CASE x.reply = "done" /\ x.step \in {"write", "writeBack"} /\ z.val = x.val
        <5>1. x.step = "writeBack"
          BY <2>4, <3>5, <4>2
        <5> QED BY <3>3, <4>2, <5>1 DEF Faithful
      <4> QED BY <2>4, <4>1, <4>2
    <3>6. AsStored(m, z.val, db)
      BY <3>4, <3>5 DEF AsStored
    <3> QED BY <1>1, <3>6
  <2>6. Bounded(Line', Sent', asked', dbStep', applied', store'[Master], db')
    BY <1>1, <1>3, <2>4
  <2> QED BY <1>1, <1>2, <1>3, <1>4, <2>2, <2>5, <2>6 DEF Course
<1> QED BY <1>5, <1>6

\* A link that fails tells or logs what waits on it: unless there is nothing.
LEMMA FailStepsErr ==
    ASSUME AInv, NEW n \in Node, FailSteps(n), Clean'
    PROVE  listData' = listData
<1> DEFINE again == {e.r : e \in {d \in Steps(n) : d.step = "read" /\ readNum[d.r] = 0}}
           told == {e.r : e \in {d \in Steps(n) : d.step \in {"read", "write", "forWrite"}}} \ again
           lost == {e.r : e \in {d \in Steps(n) : d.step \in {"writeBack", "setTtl"}}}
<1>0. TypeOK /\ listData \in Lists /\ EntriesOK
  BY ListsTyped DEF AInv, IInv
<1>1. listData[n] \in Seq(Entry)
  BY <1>0 DEF Lists
<1>2. ASSUME NEW e \in Steps(n) PROVE e \in Entry /\ e \in EntriesOf(listData)
  <2>1. PICK i \in DOMAIN listData[n] : e = listData[n][i]
    BY DEF Steps
  <2>2. i \in 1 .. Len(listData[n]) /\ e \in Entry
    BY <1>1, <2>1
  <2> QED BY <2>1, <2>2 DEF EntriesOf
<1>3. again = {}
  BY <1>0, <1>2 DEF EntriesOK
<1>4. /\ answers' = [r \in Request |-> IF r \in told THEN Append(answers[r], "error") ELSE answers[r]]
      /\ logged' = logged \cup lost
      /\ listData' = [listData EXCEPT ![n] = <<>>]
  BY DEF FailSteps
<1>5. ASSUME NEW e \in Steps(n) PROVE FALSE
  <2>1. e.step \in RedisStep /\ e.r \in Request
    BY <1>2, <1>5 DEF Entry
  <2>2. CASE e.step \in {"read", "write", "forWrite"}
    <3>1. e.r \in told
      <4> HIDE DEF again
      <4> QED BY <1>3, <2>2
    <3> HIDE DEF told
    <3>2. answers'[e.r] = Append(answers[e.r], "error") /\ answers[e.r] \in Told
      BY <1>0, <1>4, <2>1, <3>1 DEF TypeOK, Told
    <3>3. /\ Len(answers[e.r]) + 1 \in 1 .. Len(Append(answers[e.r], "error"))
          /\ Append(answers[e.r], "error")[Len(answers[e.r]) + 1] = "error"
      BY <3>2 DEF Told
    <3>4. Erred(answers'[e.r])
      BY <3>2, <3>3 DEF Erred
    <3> QED BY <2>1, <3>4 DEF Clean, Erring, Erred
  <2>3. CASE e.step \in {"writeBack", "setTtl"}
    <3>1. e.r \in lost
      BY <2>3
    <3> HIDE DEF lost
    <3>2. e.r \in logged'
      BY <1>4, <3>1
    <3> QED BY <2>1, <3>2 DEF Clean, Erring
  <2> QED BY <2>1, <2>2, <2>3 DEF RedisStep
<1>6. listData[n] = <<>>
  <2>1. ASSUME listData[n] # <<>> PROVE FALSE
    <3>1. listData[n][1] \in Steps(n)
      BY <1>1, <2>1 DEF Steps
    <3> QED BY <1>5, <3>1
  <2> QED BY <2>1
<1> QED BY <1>0, <1>4, <1>6 DEF Lists

LEMMA RedisLinkCourse ==
    ASSUME CInv, AInv', Onward, InOrder', Clean', NEW n \in Node,
           RedisConnect(n) \/ RedisConnectFails(n) \/ RedisDisconnect(n)
    PROVE  Course'
<1>0. AInv /\ Course
  BY CourseNow DEF CInv
<1>1. listData' = listData
  <2>1. CASE RedisConnect(n)
    BY <2>1 DEF RedisConnect
  <2>2. CASE RedisConnectFails(n) \/ RedisDisconnect(n)
    <3>1. FailSteps(n)
      BY <2>2 DEF RedisConnectFails, RedisDisconnect
    <3> QED BY <1>0, <3>1, FailStepsErr
  <2> QED BY <2>1, <2>2
<1>2. UNCHANGED <<asked, store, dbStep, toAgent, fromAgent, db, applied>>
  BY DEF RedisConnect, RedisConnectFails, RedisDisconnect, clientVars, agentVars
<1>3. Line' = Line /\ Sent' = Sent /\ AtMaster' /\ ReadsAsked(toAgent'["DBAGENT_R"], asked')
  BY <1>0, <1>1, <1>2 DEF Course, AtMaster, Line, Sent
<1>4. Untouched(asked', dbStep', applied') => \A a \in Agent : Answered(fromAgent'[a], db)
  BY <1>0, <1>2 DEF Course
<1> QED BY <1>2, <1>3, <1>4, StillCourse

LEMMA RedisReplicatesCourse ==
    ASSUME CInv, AInv', Onward, InOrder', Clean', RedisReplicates
    PROVE  Course'
<1>0. AInv /\ TypeOK /\ Course
  BY CourseNow DEF CInv, AInv, IInv
<1>1. UNCHANGED <<asked, listData, dbStep, toAgent, fromAgent, db, applied>>
  BY DEF RedisReplicates, clientVars, redisVars, agentVars
<1>2. store'[Master] = store[Master]
  BY <1>0 DEF TypeOK, RedisReplicates, Node
<1>3. Line' = Line /\ Sent' = Sent /\ AtMaster' /\ ReadsAsked(toAgent'["DBAGENT_R"], asked')
  BY <1>0, <1>1 DEF Course, AtMaster, Line, Sent
<1>4. Untouched(asked', dbStep', applied') => \A a \in Agent : Answered(fromAgent'[a], db)
  BY <1>0, <1>1 DEF Course
<1> QED BY <1>1, <1>2, <1>3, <1>4, StillCourse

LEMMA RedisExpiresCourse ==
    ASSUME CInv, AInv', Onward, InOrder', Clean', RedisExpires
    PROVE  Course'
<1>0. AInv /\ TypeOK /\ Course
  BY CourseNow DEF CInv, AInv, IInv
<1>1. UNCHANGED <<asked, listData, dbStep, toAgent, fromAgent, db, applied>>
  BY DEF RedisExpires, clientVars, redisVars, agentVars
<1>2. store'[Master].val = Absent
  BY <1>0 DEF TypeOK, RedisExpires, Node
<1>3. /\ AtMaster'
      /\ Fitting(Line', asked', applied')
      /\ RepliedFirst(Line')
      /\ Travelling(Sent', asked', dbStep', applied')
      /\ ReadsAsked(toAgent'["DBAGENT_R"], asked')
      /\ AppliedAsked(asked', applied')
  BY <1>0, <1>1 DEF Course, AtMaster, Line, Sent
<1>4. Untouched(asked', dbStep', applied') =>
        /\ AsStored(Line', store'[Master].val, db')
        /\ \A a \in Agent : Answered(fromAgent'[a], db')
  <2>1. ASSUME Untouched(asked', dbStep', applied')
        PROVE  /\ AsStored(Line, store'[Master].val, db)
               /\ \A a \in Agent : Answered(fromAgent[a], db)
    BY <1>0, <1>1, <1>2, <2>1 DEF Course, AsStored
  <2> QED BY <1>1, <2>1 DEF Line
<1>5. Bounded(Line', Sent', asked', dbStep', applied', store'[Master], db')
  BY <1>2 DEF Bounded
<1> QED BY <1>3, <1>4, <1>5 DEF Course

-----------------------------------------------------------------------------
(* The DbAgents.                                                           *)

LEMMA AnsweredMore ==
    ASSUME NEW m \in Seq(Reply), NEW s \in Seq(Reply), NEW d, Answered(m, d), Answered(s, d)
    PROVE  Answered(m \o s, d)
<1> DEFINE x == m \o s
<1>1. /\ Len(x) = Len(m) + Len(s) /\ Len(m) \in Nat /\ Len(s) \in Nat
      /\ \A i \in 1 .. Len(x) : x[i] = IF i <= Len(m) THEN m[i] ELSE s[i - Len(m)]
  BY ConcatProperties
<1> HIDE DEF x
<1>2. ASSUME NEW i \in 1 .. Len(x), x[i].ok PROVE x[i].val = d
  <2>1. CASE i <= Len(m)
    <3>1. i \in 1 .. Len(m) /\ x[i] = m[i]
      BY <1>1, <2>1
    <3> QED BY <1>2, <3>1 DEF Answered
  <2>2. CASE ~ (i <= Len(m))
    <3> DEFINE j == i - Len(m)
    <3>1. j \in 1 .. Len(s) /\ x[i] = s[j]
      BY <1>1, <2>2
    <3> HIDE DEF j
    <3> QED BY <1>2, <3>1 DEF Answered
  <2> QED BY <2>1, <2>2
<1> QED BY <1>2 DEF Answered, x

\* A DbAgent executes a request or does not, and says what it found before.
LEMMA AgentSays ==
    ASSUME TypeOK, NEW a \in Agent, AgentExecutes(a)
    PROVE  /\ (\A b \in Agent : Answered(fromAgent[b], db)) =>
                \A b \in Agent : Answered(fromAgent'[b], db)
           /\ UNCHANGED <<asked, listData, store, dbStep>>
           /\ toAgent[a] # <<>> /\ toAgent' = [toAgent EXCEPT ![a] = Tail(@)]
           /\ LET r == Head(toAgent[a]) IN
              \/ db' = Merged(asked[r], r, db) /\ applied' = applied \cup {r}
              \/ db' = db /\ applied' = applied
<1> DEFINE r == Head(toAgent[a])
           error == [r |-> r, ok |-> FALSE, val |-> Absent]
           success == [r |-> r, ok |-> TRUE, val |-> db]
<1>1. /\ toAgent[a] \in Seq(Request) /\ toAgent[a] # <<>>
      /\ fromAgent \in [Agent -> Seq(Reply)]
      /\ UNCHANGED <<asked, listData, store, dbStep>>
      /\ toAgent' = [toAgent EXCEPT ![a] = Tail(@)]
  BY DEF TypeOK, AgentExecutes, clientVars, redisVars
<1>2. \/ db' = Merged(asked[r], r, db) /\ applied' = applied \cup {r}
      \/ db' = db /\ applied' = applied
  BY DEF AgentExecutes
<1>3. r \in Request /\ error \in Reply /\ success \in Reply
  BY <1>1, AbsentIsValue DEF Reply, TypeOK
<1>4. PICK said \in {<<>>, <<success>>, <<error>>, <<error, success>>, <<error, error>>,
                     <<error, error, error>>} :
        fromAgent' = [fromAgent EXCEPT ![a] = @ \o said]
  BY DEF AgentExecutes
<1>5. success.val = db /\ ~ error.ok
  OBVIOUS
<1> HIDE DEF error, success
<1>6. said \in Seq(Reply) /\ Answered(said, db)
  <2>a. CASE said = <<>>
    BY <2>a DEF Answered
  <2>b. CASE said = <<error>>
    BY <1>3, <1>5, <2>b DEF Answered
  <2>c. CASE said = <<error, error>>
    BY <1>3, <1>5, <2>c DEF Answered
  <2>d. CASE said = <<error, error, error>>
    <3>1. /\ said \in Seq(Reply) /\ Len(said) = 3
          /\ said[1] = error /\ said[2] = error /\ said[3] = error
      BY <1>3, <2>d
    <3> QED BY <1>5, <3>1 DEF Answered
  <2>e. CASE said = <<success>>
    BY <1>3, <1>5, <2>e DEF Answered
  <2>f. CASE said = <<error, success>>
    <3>1. said \in Seq(Reply) /\ Len(said) = 2 /\ said[1] = error /\ said[2] = success
      BY <1>3, <2>f
    <3> QED BY <1>5, <3>1 DEF Answered
  <2> QED BY <1>4, <2>a, <2>b, <2>c, <2>d, <2>e, <2>f
<1>7. ASSUME \A b \in Agent : Answered(fromAgent[b], db), NEW b \in Agent
      PROVE  Answered(fromAgent'[b], db)
  <2>1. fromAgent[b] \in Seq(Reply) /\ Answered(fromAgent[b], db)
    BY <1>1, <1>7
  <2>2. CASE b = a
    <3>1. fromAgent'[b] = fromAgent[b] \o said
      BY <1>1, <1>4, <2>2
    <3>2. Answered(fromAgent[b] \o said, db)
      BY <1>6, <2>1, AnsweredMore
    <3> QED BY <3>1, <3>2
  <2>3. CASE b # a
    <3>1. fromAgent'[b] = fromAgent[b]
      BY <1>1, <1>4, <2>3
    <3> QED BY <2>1, <3>1
  <2> QED BY <2>2, <2>3
<1> QED BY <1>1, <1>2, <1>7

LEMMA RequestTail ==
    ASSUME NEW w \in Seq(Request), w # <<>>
    PROVE  /\ Tail(w) \in Seq(Request) /\ Len(Tail(w)) = Len(w) - 1 /\ Len(w) \in Nat /\ Len(w) > 0
           /\ Head(w) = w[1] /\ w[1] \in Request
           /\ \A i \in 1 .. Len(Tail(w)) : i + 1 \in 1 .. Len(w) /\ i + 1 # 1 /\ Tail(w)[i] = w[i + 1]
BY HeadTailProperties

LEMMA ReadExecutesCourse ==
    ASSUME CInv, AInv', Onward, InOrder', Clean', AgentExecutes("DBAGENT_R")
    PROVE  Course'
<1>0. AInv /\ TypeOK /\ Course /\ "DBAGENT_R" \in Agent
  BY CourseNow DEF CInv, AInv, IInv, Agent
<1> DEFINE w == toAgent["DBAGENT_R"]  r == Head(w)  t == Tail(w)
<1>1. /\ (\A b \in Agent : Answered(fromAgent[b], db)) =>
            \A b \in Agent : Answered(fromAgent'[b], db)
      /\ UNCHANGED <<asked, listData, store, dbStep>>
      /\ w # <<>> /\ toAgent' = [toAgent EXCEPT !["DBAGENT_R"] = Tail(@)]
      /\ \/ db' = Merged(asked[r], r, db) /\ applied' = applied \cup {r}
         \/ db' = db /\ applied' = applied
  BY <1>0, AgentSays
<1>2. /\ w \in Seq(Request) /\ toAgent'["DBAGENT_R"] = t
      /\ Sent' = Sent
  BY <1>0, <1>1 DEF TypeOK, Agent, Sent
<1> HIDE DEF w
<1>3. asked[r] \in Reads
  <2>1. 1 \in 1 .. Len(w) /\ r = w[1]
    BY <1>1, <1>2, RequestTail
  <2>2. ReadsAsked(w, asked)
    BY <1>0 DEF Course, w
  <2> QED BY <2>1, <2>2 DEF ReadsAsked
<1>4. ReadsAsked(toAgent'["DBAGENT_R"], asked')
  <2>1. \A i \in 1 .. Len(t) : \E j \in 1 .. Len(w) : t[i] = w[j]
    BY <1>1, <1>2, RequestTail
  <2>2. ReadsAsked(w, asked)
    BY <1>0 DEF Course, w
  <2> HIDE DEF t
  <2>3. ReadsAsked(t, asked)
    BY <2>1, <2>2 DEF ReadsAsked
  <2> QED BY <1>1, <1>2, <2>3
<1> HIDE DEF r
<1>5. db' = db /\ \A q \in applied' \ applied : asked[q] \in Reads
  <2>1. Merged(asked[r], r, db) = db
    BY <1>3 DEF Merged, Reads
  <2> QED BY <1>1, <1>3, <2>1
<1>6. Line' = Line /\ AtMaster' /\ store'[Master] = store[Master]
  BY <1>0, <1>1 DEF Course, AtMaster, Line
<1>7. Untouched(asked', dbStep', applied') => \A a \in Agent : Answered(fromAgent'[a], db)
  <2>1. Untouched(asked', dbStep', applied') => Untouched(asked, dbStep, applied)
    BY UntouchedBefore
  <2> QED BY <1>0, <1>1, <2>1 DEF Course
<1> QED BY <1>2, <1>4, <1>5, <1>6, <1>7, StillCourse

\* What the database executes is the first of what is due.
LEMMA DueOfTail ==
    ASSUME NEW w \in Seq(Request), w # <<>>, NEW ds, NEW ap,
           Travelling(w, asked, ds, ap), InOrder, NEW d
    PROVE  Due(Tail(w), asked, Merged(asked[Head(w)], Head(w), d)) = Due(w, asked, d)
<1> DEFINE t == Tail(w)  r == Head(w)  x == Merged(asked[r], r, d)
<1>1. /\ t \in Seq(Request) /\ Len(t) = Len(w) - 1 /\ Len(w) \in Nat /\ Len(w) > 0
      /\ r = w[1] /\ r \in Request
      /\ \A i \in 1 .. Len(t) : i + 1 \in 1 .. Len(w) /\ i + 1 # 1 /\ t[i] = w[i + 1]
  BY RequestTail
<1>2. CASE t = <<>>
  <2>1. Len(w) = 1
    <3> HIDE DEF t
    <3>1. Len(t) = 0
      BY <1>2
    <3> QED BY <1>1, <3>1
  <2>2. Due(t, asked, x) = x
    BY <1>2 DEF Due
  <2>3. Due(w, asked, d) = x
    BY <1>1, <2>1 DEF Due
  <2> QED BY <2>2, <2>3
<1>3. CASE t # <<>>
  <2> DEFINE q == w[Len(w)]
  <2>1. /\ Len(t) \in 1 .. Len(t) /\ t[Len(t)] = q
        /\ Len(w) \in 1 .. Len(w) /\ 1 \in 1 .. Len(w) /\ Len(w) # 1
    BY <1>1, <1>3
  <2>2. q # r /\ asked[q] \in Writes /\ asked[r] \in Writes
    BY <1>1, <2>1 DEF Travelling
  <2>3. q \in Request
    BY <2>1
  <2>4. asked[q] \in {"writeBoth", "deleteBoth"}
    BY <1>1, <2>2, <2>3 DEF InOrder, Writes
  <2> HIDE DEF x, q, t
  <2>5. Merged(asked[q], q, x) = Merged(asked[q], q, d)
    BY <2>4 DEF Merged
  <2>6. Due(t, asked, x) = Merged(asked[q], q, x)
    BY <1>3, <2>1 DEF Due
  <2>7. Due(w, asked, d) = Merged(asked[q], q, d)
    BY DEF Due, q
  <2> QED BY <2>5, <2>6, <2>7 DEF t, x
<1> QED BY <1>2, <1>3

LEMMA TravelsOn ==
    ASSUME NEW w \in Seq(Request), w # <<>>, NEW as, NEW ds, NEW ap, NEW bp,
           Travelling(w, as, ds, ap), bp = ap \/ bp = ap \cup {Head(w)}
    PROVE  /\ Travelling(Tail(w), as, ds, bp)
           /\ \A i \in 1 .. Len(Tail(w)) : Tail(w)[i] # Head(w)
           /\ as[Head(w)] \in Writes /\ ds[Head(w)] # "none" /\ Head(w) \notin ap
           /\ Head(w) \in Request
<1> DEFINE t == Tail(w)  r == Head(w)
<1>1. /\ t \in Seq(Request) /\ Len(t) = Len(w) - 1 /\ Len(w) \in Nat /\ Len(w) > 0
      /\ r = w[1] /\ r \in Request /\ 1 \in 1 .. Len(w)
      /\ \A i \in 1 .. Len(t) : i + 1 \in 1 .. Len(w) /\ i + 1 # 1 /\ t[i] = w[i + 1]
  BY RequestTail
<1>2. as[r] \in Writes /\ ds[r] # "none" /\ r \notin ap
  BY ZenonT(40), <1>1 DEF Travelling
<1> HIDE DEF t
<1>3. ASSUME NEW i \in 1 .. Len(t)
      PROVE  t[i] # r /\ as[t[i]] \in Writes /\ ds[t[i]] # "none" /\ t[i] \notin bp
  <2> DEFINE j == i + 1
  <2>1. j \in 1 .. Len(w) /\ j # 1 /\ t[i] = w[j]
    BY <1>1
  <2> HIDE DEF j
  <2>2. w[j] # r
    BY <1>1, <2>1 DEF Travelling
  <2>3. as[w[j]] \in Writes /\ ds[w[j]] # "none" /\ w[j] \notin ap
    BY <2>1 DEF Travelling
  <2> QED BY <2>1, <2>2, <2>3
<1>4. ASSUME NEW i \in 1 .. Len(t), NEW j \in 1 .. Len(t), t[i] = t[j]
      PROVE  i = j
  <2> DEFINE a == i + 1  b == j + 1
  <2>1. a \in 1 .. Len(w) /\ b \in 1 .. Len(w) /\ w[a] = w[b]
    BY <1>1, <1>4
  <2> HIDE DEF a, b
  <2>2. a = b
    BY <2>1 DEF Travelling
  <2> QED BY <2>2 DEF a, b
<1>5. Travelling(t, as, ds, bp)
  BY <1>3, <1>4 DEF Travelling
<1> QED BY <1>1, <1>2, <1>3, <1>5 DEF t

LEMMA WriteExecutesCourse ==
    ASSUME CInv, AInv', Onward, InOrder', Clean', AgentExecutes("DBAGENT_W")
    PROVE  Course'
<1>0. AInv /\ TypeOK /\ Course /\ InOrder /\ "DBAGENT_W" \in Agent
  BY CourseNow DEF CInv, AInv, IInv, Agent
<1> DEFINE w == Sent  r == Head(w)  t == Tail(w)
<1>1. /\ UNCHANGED <<asked, listData, store, dbStep>>
      /\ w # <<>> /\ toAgent' = [toAgent EXCEPT !["DBAGENT_W"] = Tail(@)]
      /\ \/ db' = Merged(asked[r], r, db) /\ applied' = applied \cup {r}
         \/ db' = db /\ applied' = applied
  BY <1>0, AgentSays DEF Sent
<1>2. /\ w \in Seq(Request) /\ Sent' = t
      /\ toAgent'["DBAGENT_R"] = toAgent["DBAGENT_R"]
  BY <1>0, <1>1 DEF TypeOK, Agent, Sent
<1>3. Travelling(w, asked, dbStep, applied)
  BY <1>0 DEF Course
<1> HIDE DEF w, r
<1>4. /\ Travelling(t, asked, dbStep, applied')
      /\ \A i \in 1 .. Len(t) : t[i] # r
      /\ asked[r] \in Writes /\ dbStep[r] # "none" /\ r \notin applied /\ r \in Request
  BY <1>1, <1>2, <1>3, TravelsOn DEF r
<1> HIDE DEF t
<1>5. Travelling(Sent', asked', dbStep', applied')
  BY <1>1, <1>2, <1>4
<1>6. \A q \in applied' \ applied : q = r
  BY <1>1
<1>7. Fitting(Line', asked', applied') /\ RepliedFirst(Line')
  <2>1. Fitting(Line, asked', applied')
    BY <1>0, <1>4, <1>6, FittingKept DEF Course
  <2> QED BY <1>0, <1>1, <2>1 DEF Course, Line
<1>8. AppliedAsked(asked', applied')
  <2>1. asked[r] # "none" /\ applied' \subseteq Request
    BY <1>0, <1>4, LineTyped, WritesAreMade
  <2> QED BY <1>0, <1>6, <2>1, AppliedAskedKept DEF Course
<1>9. AtMaster' /\ ReadsAsked(toAgent'["DBAGENT_R"], asked')
  BY <1>0, <1>1, <1>2 DEF Course, AtMaster
<1>10. ~ Untouched(asked', dbStep', applied')
  BY <1>1, <1>4 DEF Untouched
<1>11. Bounded(Line, t, asked, dbStep, applied', store[Master], db')
  <2>1. CASE db' = db /\ applied' = applied
    <3>1. Forsaken(r, t, asked, dbStep, applied')
      BY <1>4, <2>1 DEF Forsaken
    <3> QED BY <1>4, <3>1 DEF Bounded
  <2>2. CASE db' = Merged(asked[r], r, db) /\ applied' = applied \cup {r}
    <3>1. Due(t, asked, db') = Due(w, asked, db)
      BY <1>0, <1>1, <1>2, <1>3, <2>2, DueOfTail DEF r, t
    <3>2. CASE store[Master].val = Absent \/ Expiring(Line, store[Master].ttl)
      BY <3>2 DEF Bounded
    <3>3. CASE InLine(Line, w, asked, store[Master].val, db)
      <4>1. InLine(Line, t, asked, store[Master].val, db')
        BY <3>1, <3>3 DEF InLine
      <4> QED BY <4>1 DEF Bounded
    <3>4. ASSUME NEW q \in Request, Forsaken(q, w, asked, dbStep, applied)
          PROVE  Bounded(Line, t, asked, dbStep, applied', store[Master], db')
      <4>1. \A i \in 1 .. Len(t) : \E j \in 1 .. Len(w) : t[i] = w[j]
        BY <1>1, <1>2, RequestTail DEF t
      <4>2. r = w[1] /\ 1 \in 1 .. Len(w)
        BY <1>1, <1>2, RequestTail DEF r
      <4>3. q # r
        BY <3>4, <4>2 DEF Forsaken
      <4>4. Forsaken(q, t, asked, dbStep, applied')
        BY <1>6, <3>4, <4>1, <4>3 DEF Forsaken
      <4> QED BY <4>4 DEF Bounded
    <3>5. Bounded(Line, w, asked, dbStep, applied, store[Master], db)
      BY <1>0 DEF Course, w
    <3> QED BY <3>2, <3>3, <3>4, <3>5 DEF Bounded
  <2> QED BY <1>1, <2>1, <2>2
<1>12. Bounded(Line', Sent', asked', dbStep', applied', store'[Master], db')
  BY <1>1, <1>2, <1>11 DEF Line
<1> QED BY <1>5, <1>7, <1>8, <1>9, <1>10, <1>12 DEF Course

LEMMA AgentLostCourse ==
    ASSUME CInv, AInv', Onward, InOrder', Clean', NEW a \in Agent, AgentLost(a)
    PROVE  Course'
<1>0. AInv /\ TypeOK /\ Course /\ a \in {"DBAGENT_R", "DBAGENT_W"}
  BY CourseNow DEF CInv, AInv, IInv, Agent
<1>1. /\ toAgent' = [toAgent EXCEPT ![a] = <<>>]
      /\ fromAgent' = [fromAgent EXCEPT ![a] = <<>>]
      /\ UNCHANGED <<asked, listData, store, dbStep, db, applied>>
  BY DEF AgentLost, clientVars, redisVars
<1>2. /\ toAgent \in [Agent -> Seq(Request)] /\ fromAgent \in [Agent -> Seq(Reply)]
      /\ Sent \in Seq(Request)
  BY <1>0 DEF TypeOK, Agent, Sent
<1>3. Untouched(asked', dbStep', applied') => \A b \in Agent : Answered(fromAgent'[b], db)
  <2>1. ASSUME \A b \in Agent : Answered(fromAgent[b], db), NEW b \in Agent
        PROVE  Answered(fromAgent'[b], db)
    <3>1. CASE b = a
      <4>1. fromAgent'[b] = <<>>
        BY <1>1, <1>2, <3>1
      <4> QED BY <4>1 DEF Answered
    <3>2. CASE b # a
      <4>1. fromAgent'[b] = fromAgent[b]
        BY <1>1, <1>2, <3>2
      <4> QED BY <2>1, <4>1
    <3> QED BY <3>1, <3>2
  <2> QED BY <1>0, <1>1, <2>1 DEF Course
<1>4. ReadsAsked(toAgent'["DBAGENT_R"], asked')
  <2>1. toAgent'["DBAGENT_R"] = toAgent["DBAGENT_R"] \/ toAgent'["DBAGENT_R"] = <<>>
    BY <1>1, <1>2 DEF Agent
  <2>2. ReadsAsked(<<>>, asked)
    BY DEF ReadsAsked
  <2> QED BY <1>0, <1>1, <2>1, <2>2 DEF Course
<1>5. Line' = Line /\ AtMaster' /\ store'[Master] = store[Master]
  BY <1>0, <1>1 DEF Course, AtMaster, Line
<1>6. CASE Sent' = Sent
  BY <1>1, <1>3, <1>4, <1>5, <1>6, StillCourse
<1>7. CASE Sent' = <<>> /\ Sent # <<>>
  <2> DEFINE r == Sent[1]
  <2>1. r \in Request /\ 1 \in 1 .. Len(Sent)
    BY <1>2, <1>7
  <2>2. asked[r] \in Writes /\ dbStep[r] # "none" /\ r \notin applied
    BY <1>0, <2>1 DEF Course, Travelling
  <2> HIDE DEF r
  <2>3. Forsaken(r, Sent', asked', dbStep', applied')
    BY <1>1, <1>7, <2>2 DEF Forsaken
  <2>4. ~ Untouched(asked', dbStep', applied')
    BY <1>1, <2>1, <2>2 DEF Untouched
  <2>5. Travelling(Sent', asked', dbStep', applied')
    BY <1>7 DEF Travelling
  <2>6. Bounded(Line', Sent', asked', dbStep', applied', store'[Master], db')
    BY <2>1, <2>3 DEF Bounded
  <2>7. /\ Fitting(Line', asked', applied') /\ RepliedFirst(Line')
        /\ AppliedAsked(asked', applied')
    BY <1>0, <1>1, <1>5 DEF Course
  <2> QED BY <1>4, <1>5, <2>4, <2>5, <2>6, <2>7 DEF Course
<1>8. Sent' = Sent \/ (Sent' = <<>> /\ Sent # <<>>)
  BY <1>1, <1>2 DEF Agent, Sent
<1> QED BY <1>6, <1>7, <1>8

\* What a step makes of an answer: it may write back what was read.
LEMMA AgentAnswersCourse ==
    ASSUME CInv, AInv', Onward, InOrder', Clean', NEW a \in Agent, AgentAnswers(a)
    PROVE  Course'
<1> DEFINE m == Head(fromAgent[a])
           e == Command("writeBack", m.r, m.val)
<1>0. AInv /\ TypeOK /\ Course
  BY CourseNow DEF CInv, AInv, IInv
<1>1. /\ fromAgent[a] # <<>>
      /\ fromAgent' = [fromAgent EXCEPT ![a] = Tail(@)]
      /\ UNCHANGED <<asked, store, toAgent, db, applied>>
  BY DEF AgentAnswers
<1>2. \/ listData' = listData
      \/ m.ok /\ Registered(listData, Master, e)
  BY DEF AgentAnswers, WritesBack, Refused
<1>3. e.reply = "none" /\ e.step = "writeBack" /\ e.val = m.val
  BY DEF Command
<1>4. fromAgent \in [Agent -> Seq(Reply)]
  BY <1>0 DEF TypeOK
<1>5. 1 \in 1 .. Len(fromAgent[a]) /\ m = fromAgent[a][1]
  BY <1>1, <1>4
<1> HIDE DEF m, e
<1>6. ASSUME \A b \in Agent : Answered(fromAgent[b], db), NEW b \in Agent
      PROVE  Answered(fromAgent'[b], db)
  <2>1. CASE b = a
    <3> DEFINE s == fromAgent[a]  t == Tail(s)
    <3>1. s \in Seq(Reply) /\ s # <<>> /\ Answered(s, db) /\ fromAgent'[b] = t
      BY <1>1, <1>4, <1>6, <2>1
    <3> HIDE DEF s
    <3>2. /\ Len(t) = Len(s) - 1 /\ Len(s) \in Nat /\ Len(s) > 0
          /\ \A i \in 1 .. Len(t) : t[i] = s[i + 1]
      BY <3>1, HeadTailProperties
    <3> HIDE DEF t
    <3>3. ASSUME NEW i \in 1 .. Len(t), t[i].ok PROVE t[i].val = db
      <4> DEFINE j == i + 1
      <4>1. j \in 1 .. Len(s) /\ t[i] = s[j]
        BY <3>2
      <4> HIDE DEF j
      <4> QED BY <3>1, <3>3, <4>1 DEF Answered
    <3>4. Answered(t, db)
      BY <3>3 DEF Answered
    <3> QED BY <3>1, <3>4
  <2>2. CASE b # a
    <3>1. fromAgent'[b] = fromAgent[b]
      BY <1>1, <1>4, <2>2
    <3> QED BY <1>6, <3>1
  <2> QED BY <2>1, <2>2
<1>7. ASSUME Untouched(asked', dbStep', applied')
      PROVE  \A b \in Agent : Answered(fromAgent[b], db)
  <2>1. Untouched(asked, dbStep, applied)
    BY <1>7, UntouchedBefore
  <2> QED BY <1>0, <2>1 DEF Course
<1>8. /\ ReadsAsked(toAgent'["DBAGENT_R"], asked') /\ Sent' = Sent
      /\ store'[Master] = store[Master] /\ applied' = applied /\ db' = db
  BY <1>0, <1>1 DEF Course, Sent
<1>9. Untouched(asked', dbStep', applied') => \A b \in Agent : Answered(fromAgent'[b], db)
  BY <1>6, <1>7
<1>10. CASE listData' = listData
  <2>1. Line' = Line /\ AtMaster'
    BY <1>0, <1>10 DEF Course, AtMaster, Line
  <2> QED BY <1>8, <1>9, <2>1, StillCourse
<1>11. CASE m.ok /\ Registered(listData, Master, e)
  <2>1. Master \in Node
    BY DEF Node
  <2>2. Turns(Master, 0, 1, e)
    BY <1>0, <1>11, <2>1, RegisteredTurns
  <2>3. AtMaster' /\ Turned(Line, Line', 0, 1, e)
    BY <1>0, <2>1, <2>2, TurnsAtMaster, TurnsLine DEF Course
  <2>4. Fits(e, asked', applied')
    BY <1>3 DEF Fits
  <2>5. Untouched(asked', dbStep', applied') => Faithful(e, db)
    <3>1. ASSUME Untouched(asked', dbStep', applied') PROVE m.val = db
      <4>1. Answered(fromAgent[a], db)
        BY <1>7, <3>1
      <4> QED BY <1>5, <1>11, <4>1 DEF Answered
    <3> QED BY <1>3, <3>1 DEF Faithful
  <2>6. 0 = 1 => ~ DoneWrite(Line[1])
    OBVIOUS
  <2>7. (0 = 1 => ~ Limits(Line[1])) \/ (1 = 1 /\ Limits(e))
    OBVIOUS
  <2> QED BY <1>3, <1>8, <1>9, <2>3, <2>4, <2>5, <2>6, <2>7, TurnCourse
<1> QED BY <1>2, <1>10, <1>11

-----------------------------------------------------------------------------
(* Every step.                                                             *)

Asked == {r \in Request : asked[r] # "none"}

LEMMA AskedFinite ==
    ASSUME AInv, IsFiniteSet(Asked), [Next]_vars
    PROVE  IsFiniteSet(Asked')
<1>0. TypeOK
  BY DEF AInv, IInv
<1>1. CASE \E r \in Request : AskRead(r) \/ AskWrite(r) \/ AskUpdate(r) \/ AskDb(r)
  <2>1. PICK r \in Request, k \in Kinds : Asks(r, k)
    BY <1>1 DEF AskRead, AskWrite, AskUpdate, AskDb, Kinds, Reads, Writes
  <2>2. Asked' \in SUBSET (Asked \cup {r})
    BY <1>0, <2>1, AskedTyped DEF Asked
  <2>3. IsFiniteSet(Asked \cup {r})
    BY FS_AddElement
  <2> QED BY <2>2, <2>3, FS_Subset
<1>2. CASE asked' = asked
  BY <1>2 DEF Asked
<1>3. ASSUME NEW n \in Node, Callbacks(n) PROVE asked' = asked
  BY <1>3 DEF Callbacks, ReadCallback, WriteCallback, ForWriteCallback, WriteBackCallback,
     SetTtlCallback
<1>4. ASSUME NEW n \in Node,
             RedisConnect(n) \/ RedisConnectFails(n) \/ RedisDisconnect(n) \/ RedisExecutes(n)
      PROVE  asked' = asked
  BY <1>4 DEF RedisConnect, RedisConnectFails, RedisDisconnect, RedisExecutes, clientVars
<1>5. ASSUME NEW a \in Agent, AgentExecutes(a) \/ AgentLost(a) \/ AgentAnswers(a)
      PROVE  asked' = asked
  BY <1>5 DEF AgentExecutes, AgentLost, AgentAnswers, clientVars
<1>6. ASSUME NEW r \in Request, Timeout(r) PROVE asked' = asked
  BY <1>6 DEF Timeout
<1>7. CASE RedisReplicates \/ RedisExpires \/ UNCHANGED vars
  BY <1>2, <1>7 DEF RedisReplicates, RedisExpires, clientVars, vars
<1> QED BY <1>1, <1>2, <1>3, <1>4, <1>5, <1>6, <1>7 DEF Next

\* A step keeps the course, unless it tells or logs an error.
LEMMA StepCourse ==
    ASSUME CInv, AInv', [Next]_vars, InOrder', Clean'
    PROVE  Course'
<1>0. AInv
  BY DEF CInv
<1>1. ASSUME NEW r \in Request, AskRead(r) \/ AskWrite(r) \/ AskUpdate(r) \/ AskDb(r)
      PROVE  Course'
  <2>1. Onward
    BY <1>0, <1>1, AsksOnward
  <2> QED BY <1>1, <2>1, AskReadCourse, AskWriteCourse, AskUpdateCourse, AskDbCourse
<1>2. ASSUME NEW r \in Request, Timeout(r) PROVE FALSE
  BY <1>0, <1>2, TimeoutErrs
<1>3. ASSUME NEW n \in Node,
             RedisConnect(n) \/ RedisConnectFails(n) \/ RedisDisconnect(n) \/ RedisExecutes(n)
      PROVE  Course'
  <2>1. Onward
    BY <1>0, <1>3, RedisOnward
  <2> QED BY <1>3, <2>1, RedisLinkCourse, RedisExecutesCourse
<1>4. ASSUME NEW n \in Node, Callbacks(n) PROVE Course'
  <2>1. PICK r \in Request :
          \/ ReadCallback(n, r) \/ WriteCallback(n, r) \/ ForWriteCallback(n, r)
          \/ WriteBackCallback(n, r) \/ SetTtlCallback(n, r)
    BY <1>4 DEF Callbacks
  <2>2. Onward
    BY <1>0, <2>1, CallbackOnward
  <2> QED BY <2>1, <2>2, ReadCallbackCourse, WriteCallbackCourse, ForWriteCallbackCourse,
             SilentCallbackCourse
<1>5. ASSUME NEW a \in Agent, AgentExecutes(a) \/ AgentLost(a) PROVE Course'
  <2>1. Onward /\ a \in {"DBAGENT_R", "DBAGENT_W"}
    BY <1>0, <1>5, AgentOnward DEF Agent
  <2> QED BY <1>5, <2>1, ReadExecutesCourse, WriteExecutesCourse, AgentLostCourse
<1>6. ASSUME NEW a \in Agent, AgentAnswers(a) PROVE Course'
  <2>1. Onward
    BY <1>0, <1>6, AnswersOnward
  <2> QED BY <1>6, <2>1, AgentAnswersCourse
<1>7. CASE RedisReplicates \/ RedisExpires
  <2>1. UNCHANGED <<asked, logged, answers, applied, dbStep>>
    BY <1>7 DEF RedisReplicates, RedisExpires, clientVars, agentVars
  <2>2. Onward
    BY <2>1, OnwardOf
  <2> QED BY <1>7, <2>2, RedisReplicatesCourse, RedisExpiresCourse
<1>8. CASE UNCHANGED vars
  <2>1. UNCHANGED <<asked, logged, answers, applied, dbStep, listData, store, toAgent, fromAgent, db>>
    BY <1>8 DEF vars
  <2>2. Onward
    BY <2>1, OnwardOf
  <2>3. Course
    BY <2>2, CourseNow
  <2>4. Line' = Line /\ Sent' = Sent /\ AtMaster' /\ ReadsAsked(toAgent'["DBAGENT_R"], asked')
    BY <2>1, <2>3 DEF Course, AtMaster, Line, Sent
  <2>5. Untouched(asked', dbStep', applied') => \A a \in Agent : Answered(fromAgent'[a], db)
    BY <2>1, <2>3 DEF Course
  <2> QED BY <2>1, <2>2, <2>4, <2>5, StillCourse
<1> QED BY <1>1, <1>2, <1>3, <1>4, <1>5, <1>6, <1>7, <1>8 DEF Next

LEMMA InitCourse == Init => CInv
<1> SUFFICES ASSUME Init PROVE CInv
  OBVIOUS
<1>1. AInv
  BY InitOut
<1>2. {r \in Request : asked[r] # "none"} = {}
  BY DEF Init
<1>3. /\ Line = <<>> /\ Sent = <<>> /\ applied = {}
      /\ toAgent["DBAGENT_R"] = <<>>
      /\ \A n \in Node : listData[n] = <<>>
      /\ \A a \in Agent : fromAgent[a] = <<>>
  BY DEF Init, Line, Sent, Node, Agent
<1>4. store[Master].val \in {Absent, db}
  BY DEF Init, Node
<1>5. /\ AtMaster
      /\ Fitting(Line, asked, applied)
      /\ RepliedFirst(Line)
      /\ Travelling(Sent, asked, dbStep, applied)
      /\ ReadsAsked(toAgent["DBAGENT_R"], asked)
      /\ AppliedAsked(asked, applied)
  BY <1>3 DEF AtMaster, Fitting, RepliedFirst, Travelling, ReadsAsked, AppliedAsked
<1>6. AsStored(Line, store[Master].val, db) /\ \A a \in Agent : Answered(fromAgent[a], db)
  BY <1>3, <1>4 DEF AsStored, Answered
<1>7. Bounded(Line, Sent, asked, dbStep, applied, store[Master], db)
  <2>1. CASE store[Master].val = Absent
    BY <2>1 DEF Bounded
  <2>2. CASE store[Master].val = db
    <3>1. InLine(Line, Sent, asked, store[Master].val, db)
      BY <1>3, <2>2 DEF InLine, LastWritten, Due
    <3> QED BY <3>1 DEF Bounded
  <2> QED BY <1>4, <2>1, <2>2
<1>8. Course
  BY <1>5, <1>6, <1>7 DEF Course
<1>9. IsFiniteSet({r \in Request : asked[r] # "none"})
  BY <1>2, FS_EmptySet
<1> QED BY <1>1, <1>8, <1>9 DEF CInv

LEMMA StepCInv == CInv /\ [Next]_vars => CInv'
<1> SUFFICES ASSUME CInv, [Next]_vars PROVE CInv'
  OBVIOUS
<1>1. AInv'
  BY StepOut DEF CInv
<1>2. IsFiniteSet(Asked')
  BY AskedFinite DEF CInv, Asked
<1>3. InOrder' /\ Clean' => Course'
  BY <1>1, StepCourse
<1> QED BY <1>1, <1>2, <1>3 DEF CInv, Asked

\* One update, and no other write: the set of the writes has one element.
LEMMA OrderlyInOrder ==
    ASSUME TypeOK, IsFiniteSet(Asked), Orderly
    PROVE  InOrder
<1> DEFINE W == {r \in Request : asked[r] \in Writes}
           U == {r \in Request : asked[r] \in {"updateBoth"}}
           D == {r \in Request : asked[r] \in {"redisWrite", "dbWrite"}}
<1>1. D = {} /\ (U # {} => Cardinality(W) = 1)
  BY DEF Orderly
<1>2. IsFiniteSet(W)
  <2>1. W \in SUBSET Asked
    BY WritesAreMade DEF Asked
  <2> HIDE DEF W
  <2> QED BY <2>1, FS_Subset
<1>3. ASSUME NEW u \in Request, NEW r \in Request, asked[u] = "updateBoth", asked[r] \in Writes
      PROVE  r = u
  <2>1. u \in U /\ u \in W /\ r \in W
    BY <1>3 DEF Writes
  <2> HIDE DEF W, U
  <2>2. PICK x : W = {x}
    BY <1>1, <1>2, <2>1, FS_Singleton
  <2> QED BY <2>1, <2>2
<1>4. \A r \in Request : asked[r] \notin {"redisWrite", "dbWrite"}
  BY <1>1
<1> QED BY <1>3, <1>4 DEF InOrder

LEMMA CourseExpires == CInv => StaleExpires
<1> SUFFICES ASSUME CInv, Quiet, Orderly, store[Master].val \notin {Absent, db},
                    \A r \in Request : ~ ReportedFailure(r)
             PROVE  store[Master].ttl
  BY DEF StaleExpires
<1>1. TypeOK /\ IsFiniteSet(Asked)
  BY DEF CInv, AInv, IInv, Asked
<1>2. InOrder
  BY <1>1, OrderlyInOrder
<1>3. Clean
  <2>1. ASSUME NEW r \in Request PROVE ~ Erring(r)
    <3>1. DOMAIN answers[r] = 1 .. Len(answers[r])
      <4>1. answers[r] \in Seq({"ok", "error"})
        BY <1>1 DEF TypeOK
      <4> QED BY <4>1
    <3> QED BY <3>1 DEF ReportedFailure, Erring, Erred
  <2> QED BY <2>1 DEF Clean
<1>4. Bounded(Line, Sent, asked, dbStep, applied, store[Master], db)
  BY <1>2, <1>3 DEF CInv, Course
<1>5. Line = <<>> /\ Sent = <<>> /\ \A r \in Request : dbStep[r] = "none"
  BY DEF Quiet, Line, Sent, Node, Agent
<1>6. ~ \E r \in Request : Forsaken(r, Sent, asked, dbStep, applied)
  BY <1>5 DEF Forsaken
<1>7. ~ InLine(Line, Sent, asked, store[Master].val, db)
  <2>1. NoDoneWrite(Line) /\ Due(Sent, asked, db) = db
    BY <1>5 DEF NoDoneWrite, Due
  <2> QED BY <2>1 DEF InLine
<1>8. Expiring(Line, store[Master].ttl)
  BY <1>4, <1>6, <1>7 DEF Bounded
<1> QED BY <1>5, <1>8 DEF Expiring

\* A record the master keeps when nothing is under way any more expires, unless it is
\* that of the database; if the writes go to both stores, an update is the only
\* write, and no failure was told to a client or logged.
THEOREM StaleRecordExpires == Spec => []StaleExpires
<1>1. Spec => []CInv
  BY InitCourse, StepCInv, PTL DEF Spec
<1> QED BY <1>1, CourseExpires, PTL

-----------------------------------------------------------------------------
(* One service.                                                            *)

DbKinds == {"dbRead", "dbWrite"}
CacheKinds == {"redisRead", "redisWrite"}

\* Request r is on one of the ways w to a DbAgent.
Underway(w, r) == \E a \in Agent : \E i \in 1 .. Len(w[a]) : w[a][i] = r

\* No request is on them twice.
Single(w) ==
    \A a, b \in Agent : \A i \in 1 .. Len(w[a]), j \in 1 .. Len(w[b]) :
        w[a][i] = w[b][j] => a = b /\ i = j

\* A request that was sent has left the lists of main steps for good, and is
\* executed when it gets there.
Place(r) ==
    /\ Underway(toAgent, r) => r \notin applied /\ asked[r] \notin CacheKinds
    /\ Underway(toAgent, r) \/ r \in applied =>
        asked[r] # "none" /\ NoMain(listData, r)

Places == \A r \in Request : Place(r)

\* The main steps of Redis are not for requests of the database alone.
Cached ==
    \A e \in EntriesOf(listData) :
        /\ e.step \in Main => asked[e.r] \notin DbKinds
        /\ e.step = "forWrite" => asked[e.r] = "updateBoth"

PInv == Single(toAgent) /\ Places /\ Cached

\* A step leaves the main steps that there are, puts the write of an update in
\* place of its read, or adds the first step of a request that arrives.
Follows ==
    \A x \in EntriesOf(listData') : x.step \in Main =>
        \/ \E e \in EntriesOf(listData) :
              e.step \in Main /\ e.r = x.r /\ (x.step = e.step \/ x.step = "write")
        \/ /\ asked[x.r] = "none" /\ asked'[x.r] \notin DbKinds
           /\ x.step = "forWrite" => asked'[x.r] = "updateBoth"

StayAsked == \A q \in Request : asked[q] # "none" => asked'[q] = asked[q]

LEMMA FewerFollow ==
    ASSUME \A x \in EntriesOf(listData') : x \in EntriesOf(listData) \/ x.step \notin Main
    PROVE  Follows
BY DEF Follows

LEMMA CachedKept ==
    ASSUME IInv, Cached, StayAsked, Follows
    PROVE  Cached'
<1> SUFFICES ASSUME NEW x \in EntriesOf(listData')
             PROVE  /\ x.step \in Main => asked'[x.r] \notin DbKinds
                    /\ x.step = "forWrite" => asked'[x.r] = "updateBoth"
  BY DEF Cached
<1>1. CASE x.step \notin Main
  BY <1>1 DEF Main
<1>2. CASE asked[x.r] = "none" /\ asked'[x.r] \notin DbKinds
           /\ (x.step = "forWrite" => asked'[x.r] = "updateBoth")
  BY <1>2
<1>3. ASSUME NEW e \in EntriesOf(listData),
             e.step \in Main, e.r = x.r, x.step = e.step \/ x.step = "write"
      PROVE  /\ asked'[x.r] \notin DbKinds
             /\ x.step = "forWrite" => asked'[x.r] = "updateBoth"
  <2>1. asked[e.r] # "none" /\ asked[e.r] \notin DbKinds
    BY <1>3 DEF IInv, EntriesOK, Cached
  <2>2. e.r \in Request
    BY DEF EntriesOf, Entry
  <2>3. asked'[x.r] = asked[e.r]
    BY <1>3, <2>1, <2>2 DEF StayAsked
  <2>4. e.step = "forWrite" => asked[e.r] = "updateBoth"
    BY DEF Cached
  <2> QED BY <1>3, <2>1, <2>3, <2>4
<1> QED BY <1>1, <1>2, <1>3 DEF Follows

LEMMA PlaceKept ==
    ASSUME StayAsked, Follows, NEW r \in Request, Place(r),
           Underway(toAgent', r) => Underway(toAgent, r),
           r \in applied' => r \in applied \/ (Underway(toAgent, r) /\ ~Underway(toAgent', r))
    PROVE  Place(r)'
<1> SUFFICES ASSUME Underway(toAgent', r) \/ r \in applied'
             PROVE  /\ Underway(toAgent', r) => r \notin applied' /\ asked'[r] \notin CacheKinds
                    /\ asked'[r] # "none" /\ NoMain(listData', r)
  BY DEF Place, Underway
<1>1. /\ Underway(toAgent, r) \/ r \in applied
      /\ asked[r] # "none" /\ NoMain(listData, r)
  BY DEF Place
<1>2. asked'[r] = asked[r]
  BY <1>1 DEF StayAsked
<1>3. NoMain(listData', r)
  BY <1>1 DEF Follows, NoMain
<1>4. Underway(toAgent', r) => r \notin applied' /\ asked'[r] \notin CacheKinds
  BY <1>2 DEF Place
<1> QED BY <1>1, <1>2, <1>3, <1>4

\* Nothing is sent and nothing arrives.
LEMMA StillPlaced ==
    ASSUME IInv, PInv, StayAsked, Follows, UNCHANGED <<toAgent, applied>>
    PROVE  PInv'
<1>1. Cached'
  BY CachedKept DEF PInv
<1>2. ASSUME NEW r \in Request PROVE Place(r)'
  BY PlaceKept DEF PInv, Places
<1>3. Single(toAgent)'
  BY DEF PInv, Single
<1> QED BY <1>1, <1>2, <1>3 DEF PInv, Places

\* A request that still waits for Redis, or was not made, has not been sent.
LEMMA Unsent ==
    ASSUME PInv, NEW r \in Request, asked[r] = "none" \/ ~NoMain(listData, r)
    PROVE  ~Underway(toAgent, r) /\ r \notin applied
BY DEF PInv, Places, Place

LEMMA SentPlaced ==
    ASSUME IInv, PInv, StayAsked, Follows, NEW r \in Request, NEW a \in Agent,
           toAgent' = [toAgent EXCEPT ![a] = Append(@, r)], UNCHANGED applied,
           ~Underway(toAgent, r), r \notin applied,
           asked'[r] \notin CacheKinds, asked'[r] # "none", NoMain(listData', r)
    PROVE  PInv'
<1>0. toAgent \in [Agent -> Seq(Request)]
  BY DEF IInv, TypeOK
<1>1. ASSUME NEW b \in Agent, NEW i \in 1 .. Len(toAgent'[b])
      PROVE  \/ i \in 1 .. Len(toAgent[b]) /\ toAgent'[b][i] = toAgent[b][i]
             \/ b = a /\ i = Len(toAgent[a]) + 1 /\ toAgent'[b][i] = r
  <2>1. toAgent[b] \in Seq(Request) /\ Len(toAgent[b]) \in Nat
    BY <1>0
  <2>2. CASE b = a
    <3>1. toAgent'[b] = Append(toAgent[b], r)
      BY <1>0, <2>2
    <3> QED BY <2>1, <2>2, <3>1
  <2>3. CASE b # a
    <3>1. toAgent'[b] = toAgent[b]
      BY <1>0, <2>3
    <3> QED BY <3>1
  <2> QED BY <2>2, <2>3
<1>2. Single(toAgent)'
  <2> SUFFICES ASSUME NEW b \in Agent, NEW c \in Agent,
                      NEW i \in 1 .. Len(toAgent'[b]), NEW j \in 1 .. Len(toAgent'[c]),
                      toAgent'[b][i] = toAgent'[c][j]
               PROVE  b = c /\ i = j
    BY DEF Single
  <2>1. CASE i \in 1 .. Len(toAgent[b]) /\ toAgent'[b][i] = toAgent[b][i]
    <3>1. toAgent[b][i] # r
      BY <2>1 DEF Underway
    <3>2. j \in 1 .. Len(toAgent[c]) /\ toAgent'[c][j] = toAgent[c][j]
      BY <1>1, <2>1, <3>1
    <3> QED BY <2>1, <3>2 DEF PInv, Single
  <2>2. CASE b = a /\ i = Len(toAgent[a]) + 1 /\ toAgent'[b][i] = r
    <3>1. ~(j \in 1 .. Len(toAgent[c]) /\ toAgent'[c][j] = toAgent[c][j])
      BY <2>2 DEF Underway
    <3> QED BY <1>1, <2>2, <3>1
  <2> QED BY <1>1, <2>1, <2>2
<1>3. ASSUME NEW q \in Request PROVE Place(q)'
  <2>1. CASE q = r
    BY <2>1 DEF Place
  <2>2. CASE q # r
    <3>1. Underway(toAgent', q) => Underway(toAgent, q)
      BY <1>1, <2>2 DEF Underway
    <3> QED BY <3>1, PlaceKept DEF PInv, Places
  <2> QED BY <2>1, <2>2
<1>4. Cached'
  BY CachedKept DEF PInv
<1> QED BY <1>2, <1>3, <1>4 DEF PInv, Places

\* A handler of r goes on to a DbAgent, or finds none.
LEMMA EmitPlaced ==
    ASSUME IInv, PInv, StayAsked, Follows, NEW r \in Request, NEW k, NEW hasRedis, NEW told,
           EmitToAgent(r, k, hasRedis, told), UNCHANGED applied,
           ~Underway(toAgent, r), r \notin applied,
           asked'[r] \notin CacheKinds, asked'[r] # "none", NoMain(listData', r)
    PROVE  PInv'
<1>1. CASE toAgent' = [toAgent EXCEPT ![AgentFor(k)] = Append(@, r)]
  <2>1. PICK a \in Agent : a = AgentFor(k)
    BY DEF AgentFor, Agent
  <2> QED BY <1>1, <2>1, SentPlaced
<1>2. CASE UNCHANGED toAgent
  BY <1>2, StillPlaced
<1> QED BY <1>1, <1>2 DEF EmitToAgent

\* Nothing is about the record, a request or its answers.
LEMMA Quietly ==
    ASSUME UNCHANGED <<asked, answers, db, applied>>
    PROVE  [Service!Next]_(Service!serviceVars)
BY DEF Service!serviceVars

\* What a client acts on.
Verdicts == [r \in Request |-> IF answers[r] = <<>> THEN "none" ELSE answers[r][1]]

\* Only the first answer is a verdict.
LEMMA Responding ==
    ASSUME TypeOK, NEW r \in Request, NEW told \in Told, Respond(r, told)
    PROVE  /\ answers[r] # <<>> \/ told = <<>> => Verdicts' = Verdicts
           /\ answers[r] = <<>> /\ told # <<>> => Verdicts' = [Verdicts EXCEPT ![r] = told[1]]
<1>1. answers[r] \in Told
  BY DEF TypeOK, Told
<1>2. answers[r] \o told \in Told
  BY <1>1 DEF Told
<1>3. answers'[r] = answers[r] \o told /\ \A q \in Request \ {r} : answers'[q] = answers[q]
  BY <1>2, AnswersTyped
<1>4. CASE answers[r] # <<>> \/ told = <<>>
  <2>1. CASE told = <<>>
    BY <1>1, <1>3, <2>1, ConcatEmptySeq DEF Told, Verdicts
  <2>2. CASE answers[r] # <<>>
    <3>1. (answers[r] \o told)[1] = answers[r][1] /\ answers[r] \o told # <<>>
      BY <1>1, <2>2 DEF Told
    <3> QED BY <1>3, <2>2, <3>1 DEF Verdicts
  <2> QED BY <1>4, <2>1, <2>2
<1>5. CASE answers[r] = <<>> /\ told # <<>>
  <2>1. answers[r] \o told = told
    BY <1>5, ConcatEmptySeq DEF Told
  <2>2. answers'[r] = told
    BY <1>3, <2>1
  <2> QED BY <1>3, <1>5, <2>2 DEF Verdicts
<1> QED BY <1>4, <1>5

\* A request arrives, and fails at once or not.
LEMMA AskServed ==
    ASSUME IInv, NEW r \in Request, NEW k \in Kind, Asks(r, k),
           NEW told \in Told, told = <<>> \/ told[1] = "error",
           Respond(r, told) \/ (told = <<>> /\ UNCHANGED answers),
           UNCHANGED <<db, applied>>
    PROVE  [Service!Next]_(Service!serviceVars)
<1>1. asked[r] = "none" /\ answers[r] = <<>> /\ TypeOK
  BY NothingBefore DEF Asks, IInv
<1>2. Verdicts[r] = "none" /\ Verdicts = [Verdicts EXCEPT ![r] = "none"]
  BY <1>1 DEF Verdicts
<1>3. \E v \in {"none", "error"} : Verdicts' = [Verdicts EXCEPT ![r] = v]
  <2>1. CASE told = <<>>
    <3>1. Verdicts' = Verdicts
      <4>1. CASE UNCHANGED answers
        BY <4>1 DEF Verdicts
      <4>2. CASE Respond(r, told)
        BY <1>1, <2>1, <4>2, Responding
      <4> QED BY <4>1, <4>2
    <3> QED BY <1>2, <3>1
  <2>2. CASE told # <<>>
    BY <1>1, <2>2, Responding
  <2> QED BY <2>1, <2>2
<1>4. Service!Ask(r)
  BY <1>1, <1>3 DEF Service!Ask, Asks, Verdicts
<1> QED BY <1>4 DEF Service!Next

\* A request that was made is told something.
LEMMA TellServed ==
    ASSUME TypeOK, NEW r \in Request, asked[r] # "none", NEW told \in Told, Respond(r, told),
           \/ answers[r] # <<>>
           \/ told = <<>>
           \/ told[1] = "error"
           \/ asked[r] \in DbKinds => r \in applied,
           UNCHANGED <<asked, db, applied>>
    PROVE  [Service!Next]_(Service!serviceVars)
<1>1. CASE answers[r] # <<>> \/ told = <<>>
  <2>1. Verdicts' = Verdicts
    BY <1>1, Responding
  <2> QED BY <2>1 DEF Service!serviceVars, Verdicts
<1>2. CASE answers[r] = <<>> /\ told # <<>>
  <2>1. Verdicts' = [Verdicts EXCEPT ![r] = told[1]]
    BY <1>2, Responding
  <2>2. Verdicts[r] = "none"
    BY <1>2 DEF Verdicts
  <2>3. told[1] \in {"ok", "error"}
    BY <1>2 DEF Told
  <2>4. Service!Waiting(r)
    BY <2>2 DEF Service!Waiting, Verdicts
  <2>5. CASE told[1] = "error"
    <3>1. Verdicts' = [q \in Request |-> IF q \in {r} THEN "error" ELSE Verdicts[q]]
      BY <2>1, <2>5 DEF Verdicts
    <3>2. Service!Fail({r})
      BY <2>4, <3>1 DEF Service!Fail, Verdicts
    <3> QED BY <3>2 DEF Service!Next
  <2>6. CASE told[1] = "ok"
    <3>1. asked[r] \in DbKinds => r \in applied
      BY <1>2, <2>6
    <3>2. Service!Succeed(r)
      BY <2>1, <2>4, <2>6, <3>1 DEF Service!Succeed, DbKinds, Verdicts
    <3> QED BY <3>2 DEF Service!Next
  <2> QED BY <2>3, <2>5, <2>6
<1> QED BY <1>1, <1>2

\* It goes on to a DbAgent, with its answer or before it.
LEMMA EmitServed ==
    ASSUME TypeOK, NEW r \in Request, asked[r] # "none", NEW k, NEW hasRedis,
           NEW told \in {<<>>, <<"ok">>},
           told = <<"ok">> => asked[r] \notin DbKinds,
           EmitToAgent(r, k, hasRedis, told),
           UNCHANGED <<asked, db, applied>>
    PROVE  [Service!Next]_(Service!serviceVars)
<1>1. told \in Told
  BY FirstTold
<1>2. CASE Respond(r, told)
  BY <1>1, <1>2, TellServed
<1>3. CASE Respond(r, Append(told, "error"))
  <2>a. Append(told, "error") \in Told
    BY FirstTold, ErrorAppended
  <2>1. PICK t \in Told : t = Append(told, "error")
    BY <2>a
  <2>2. t[1] = "error" \/ asked[r] \notin DbKinds
    <3>1. CASE told = <<>>
      <4>1. t = <<"error">>
        BY <2>1, <3>1
      <4> QED BY <4>1
    <3>2. CASE told = <<"ok">>
      BY <3>2
    <3> QED BY <3>1, <3>2
  <2>3. Respond(r, t)
    BY <1>3, <2>1
  <2> QED BY <2>2, <2>3, TellServed
<1> QED BY <1>2, <1>3 DEF EmitToAgent

-----------------------------------------------------------------------------
(* Requests arrive.                                                        *)

LEMMA AsksStay ==
    ASSUME TypeOK, NEW r \in Request, NEW k \in Kinds, Asks(r, k)
    PROVE  StayAsked
BY AskedTyped DEF StayAsked

\* A request registers its first step e with node n.
LEMMA AskRegistersServed ==
    ASSUME IInv, PInv, NEW r \in Request, NEW k \in Kind, k \notin DbKinds, Asks(r, k),
           NEW n \in Node, NEW e \in Entry, e.r = r, e.step = "forWrite" => k = "updateBoth",
           Registered(listData, n, e),
           UNCHANGED <<answers, toAgent, db, applied>>
    PROVE  PInv' /\ [Service!Next]_(Service!serviceVars)
<1>0. TypeOK /\ OneMain(listData) /\ listData \in Lists /\ k \in Kinds
  BY ListsTyped, KindAssumption DEF IInv
<1>1. asked[r] = "none" /\ asked'[r] = k
  BY <1>0, AskedTyped
<1>2. NoMain(listData, r)
  BY <1>1, NothingBefore
<1>3. EntriesOf(listData') \subseteq EntriesOf(listData) \cup {e}
  BY <1>0, <1>2, RegisteredLists
<1>4. Follows
  BY <1>1, <1>3 DEF Follows
<1>5. StayAsked
  BY <1>0, AsksStay
<1>6. PInv'
  BY <1>4, <1>5, StillPlaced
<1>7. <<>> \in Told
  BY FirstTold
<1>8. [Service!Next]_(Service!serviceVars)
  BY <1>7, AskServed
<1> QED BY <1>6, <1>8

LEMMA AskRefusedServed ==
    ASSUME IInv, PInv, NEW r \in Request, NEW k \in Kind, Asks(r, k),
           NEW n \in Node, Refused(n),
           NEW told \in {<<"error">>, <<"error", "error">>}, Respond(r, told),
           UNCHANGED <<toAgent, db, applied>>
    PROVE  PInv' /\ [Service!Next]_(Service!serviceVars)
<1>0. TypeOK /\ k \in Kinds
  BY KindAssumption DEF IInv
<1>1. Follows
  BY FewerFollow DEF Refused
<1>2. StayAsked
  BY <1>0, AsksStay
<1>3. PInv'
  BY <1>1, <1>2, StillPlaced
<1>4. told \in Told /\ told[1] = "error"
  BY FirstTold
<1>5. [Service!Next]_(Service!serviceVars)
  BY <1>4, AskServed
<1> QED BY <1>3, <1>5

LEMMA AskReadServed ==
    ASSUME IInv, PInv, NEW r \in Request, AskRead(r)
    PROVE  PInv' /\ [Service!Next]_(Service!serviceVars)
<1>1. PICK k \in Kind \cap {"redisRead", "readEither"} : Asks(r, k)
  BY DEF AskRead
<1>2. k \in Kind /\ k \notin DbKinds /\ Slave \in Node
  BY <1>1 DEF DbKinds, Node
<1>3. UNCHANGED <<toAgent, db, applied>>
  BY DEF AskRead, agentVars
<1>4. CASE Registered(listData, Slave, Command("read", r, Absent)) /\ UNCHANGED answers
  <2>1. PICK e \in Entry : e = Command("read", r, Absent) /\ e.r = r /\ e.step = "read"
    BY CommandTyped, AbsentIsValue DEF RedisStep
  <2>2. Registered(listData, Slave, e) /\ UNCHANGED <<answers, toAgent, db, applied>>
    BY <1>3, <1>4, <2>1
  <2> QED BY <1>1, <1>2, <2>1, <2>2, AskRegistersServed
<1>5. CASE Refused(Slave) /\ Respond(r, <<"error", "error">>)
  BY <1>1, <1>2, <1>3, <1>5, AskRefusedServed
<1> QED BY <1>4, <1>5 DEF AskRead

LEMMA AskWriteServed ==
    ASSUME IInv, PInv, NEW r \in Request, AskWrite(r)
    PROVE  PInv' /\ [Service!Next]_(Service!serviceVars)
<1>1. PICK k \in Kind \cap {"redisWrite", "writeBoth", "deleteBoth"} :
        /\ Asks(r, k)
        /\ \/ /\ Registered(listData, Master, Command("write", r, Merged(k, r, Absent)))
              /\ UNCHANGED <<answers, faults>>
           \/ Refused(Master) /\ Respond(r, <<"error">>)
  BY DEF AskWrite
<1>2. k \in Kind /\ k \notin DbKinds /\ Master \in Node
  BY <1>1 DEF DbKinds, Node
<1>3. UNCHANGED <<toAgent, db, applied>>
  BY DEF AskWrite, agentVars
<1>4. CASE Registered(listData, Master, Command("write", r, Merged(k, r, Absent)))
           /\ UNCHANGED answers
  <2>1. Merged(k, r, Absent) \in Value
    BY AbsentIsValue, MergedTyped
  <2>2. PICK e \in Entry : e = Command("write", r, Merged(k, r, Absent)) /\ e.r = r /\ e.step = "write"
    BY <2>1, CommandTyped DEF RedisStep
  <2>3. Registered(listData, Master, e) /\ UNCHANGED <<answers, toAgent, db, applied>>
    BY <1>3, <1>4, <2>2
  <2> QED BY <1>1, <1>2, <2>2, <2>3, AskRegistersServed
<1>5. CASE Refused(Master) /\ Respond(r, <<"error">>)
  BY <1>1, <1>2, <1>3, <1>5, AskRefusedServed
<1> QED BY <1>1, <1>4, <1>5

LEMMA AskUpdateServed ==
    ASSUME IInv, PInv, NEW r \in Request, AskUpdate(r)
    PROVE  PInv' /\ [Service!Next]_(Service!serviceVars)
<1>1. Asks(r, "updateBoth") /\ "updateBoth" \in Kind
  BY DEF AskUpdate
<1>2. "updateBoth" \notin DbKinds /\ Master \in Node
  BY DEF DbKinds, Node
<1>3. UNCHANGED <<toAgent, db, applied>>
  BY DEF AskUpdate, agentVars
<1>4. CASE Registered(listData, Master, Command("forWrite", r, Absent)) /\ UNCHANGED answers
  <2>1. PICK e \in Entry : e = Command("forWrite", r, Absent) /\ e.r = r /\ e.step = "forWrite"
    BY CommandTyped, AbsentIsValue DEF RedisStep
  <2>2. Registered(listData, Master, e) /\ UNCHANGED <<answers, toAgent, db, applied>>
    BY <1>3, <1>4, <2>1
  <2> QED BY <1>1, <1>2, <2>1, <2>2, AskRegistersServed
<1>5. CASE Refused(Master) /\ Respond(r, <<"error", "error">>)
  BY <1>1, <1>2, <1>3, <1>5, AskRefusedServed
<1> QED BY <1>4, <1>5 DEF AskUpdate

LEMMA AskDbServed ==
    ASSUME IInv, PInv, NEW r \in Request, AskDb(r)
    PROVE  PInv' /\ [Service!Next]_(Service!serviceVars)
<1>1. PICK k \in Kind \cap {"dbRead", "dbWrite"} :
        Asks(r, k) /\ EmitToAgent(r, k, FALSE, <<>>)
  BY DEF AskDb
<1>0. TypeOK /\ k \in Kinds /\ k \in Kind
  BY <1>1, KindAssumption DEF IInv
<1>2. asked[r] = "none" /\ asked'[r] = k /\ StayAsked
  BY <1>0, <1>1, AskedTyped, AsksStay
<1>3. UNCHANGED <<listData, db, applied>>
  BY DEF AskDb, redisVars
<1>4. NoMain(listData', r) /\ Follows
  BY <1>2, <1>3, NothingBefore, FewerFollow
<1>5. ~Underway(toAgent, r) /\ r \notin applied
  BY <1>2, Unsent
<1>6. asked'[r] \notin CacheKinds /\ asked'[r] # "none"
  BY <1>1, <1>2 DEF CacheKinds
<1>7. PInv'
  BY <1>1, <1>2, <1>3, <1>4, <1>5, <1>6, EmitPlaced
<1>8. PICK told \in Told : (told = <<>> \/ told[1] = "error") /\ Respond(r, told)
  <2>1. <<>> \in Told /\ <<"error">> \in Told /\ <<"error">>[1] = "error"
        /\ Append(<<>>, "error") = <<"error">>
    BY FirstTold
  <2> QED BY <1>1, <2>1 DEF EmitToAgent
<1>9. [Service!Next]_(Service!serviceVars)
  BY <1>0, <1>1, <1>3, <1>8, AskServed
<1> QED BY <1>7, <1>9

-----------------------------------------------------------------------------
(* Redis.                                                                  *)

\* Nothing happens to a request but in the lists.
LEMMA UnseenServed ==
    ASSUME IInv, PInv, Follows, UNCHANGED <<asked, answers, toAgent, db, applied>>
    PROVE  PInv' /\ [Service!Next]_(Service!serviceVars)
<1>1. StayAsked
  BY DEF StayAsked
<1> QED BY <1>1, StillPlaced, Quietly

LEMMA RedisExecutesServed ==
    ASSUME IInv, PInv, NEW n \in Node, RedisExecutes(n)
    PROVE  PInv' /\ [Service!Next]_(Service!serviceVars)
<1>0. TypeOK /\ OneMain(listData) /\ listData \in Lists
  BY ListsTyped DEF IInv
<1>1. /\ UNCHANGED <<asked, answers, logged, readNum, link, dbStep, toAgent, fromAgent, db, applied>>
      /\ listData' \in Lists
      /\ \A m \in Node : Len(listData'[m]) = Len(listData[m])
      /\ \A m \in Node : \A j \in 1 .. Len(listData[m]) :
            listData'[m][j].step = listData[m][j].step /\ listData'[m][j].r = listData[m][j].r
  BY RedisExecutesFacts
<1>2. \A y \in EntriesOf(listData') :
        \E e \in EntriesOf(listData) : y.step = e.step /\ y.r = e.r
  BY <1>0, <1>1, SameSteps
<1>3. Follows
  BY <1>2 DEF Follows
<1> QED BY <1>1, <1>3, UnseenServed

LEMMA FailStepsServed ==
    ASSUME IInv, PInv, NEW n \in Node, FailSteps(n),
           UNCHANGED <<asked, store, agentVars, db, applied>>
    PROVE  PInv' /\ [Service!Next]_(Service!serviceVars)
<1> DEFINE again == {e.r : e \in {d \in Steps(n) : d.step = "read" /\ readNum[d.r] = 0}}
           told == {e.r : e \in {d \in Steps(n) : d.step \in {"read", "write", "forWrite"}}} \ again
<1>0. TypeOK /\ OneMain(listData) /\ listData \in Lists /\ EntriesOK
  BY ListsTyped DEF IInv
<1>1. ASSUME NEW e \in Steps(n) PROVE e \in EntriesOf(listData) /\ e.r \in Request
  <2>1. PICK i \in DOMAIN listData[n] : e = listData[n][i]
    BY DEF Steps
  <2>2. listData[n] \in Seq(Entry)
    BY <1>0 DEF Lists
  <2>3. i \in 1 .. Len(listData[n]) /\ e \in Entry
    BY <2>1, <2>2
  <2> QED BY <2>1, <2>3 DEF EntriesOf, Entry
<1>2. ASSUME NEW r \in told
      PROVE  r \in Request /\ answers[r] = <<>> /\ asked[r] # "none"
  BY <1>0, <1>1 DEF EntriesOK, Main
<1>3. /\ answers' = [r \in Request |-> IF r \in told THEN Append(answers[r], "error") ELSE answers[r]]
      /\ listData' = [listData EXCEPT ![n] = <<>>]
  BY DEF FailSteps
<1> HIDE DEF told
<1>4. Follows
  <2>1. \A new : new = [listData EXCEPT ![n] = <<>>] => EntriesOf(new) \subseteq EntriesOf(listData)
    BY <1>0, ClearLists
  <2>2. EntriesOf(listData') \subseteq EntriesOf(listData)
    BY <1>3, <2>1, Zenon
  <2> QED BY <2>2, FewerFollow
<1>5. PInv'
  <2>1. StayAsked /\ UNCHANGED <<toAgent, applied>>
    BY DEF StayAsked, agentVars
  <2> QED BY <1>4, <2>1, StillPlaced
<1>6. Verdicts' = [r \in Request |-> IF r \in told THEN "error" ELSE Verdicts[r]]
  <2>1. ASSUME NEW r \in told PROVE answers'[r] # <<>> /\ answers'[r][1] = "error"
    <3>1. answers'[r] = Append(<<>>, "error")
      BY <1>2, <1>3
    <3> QED BY <3>1
  <2>2. \A r \in Request : r \notin told => answers'[r] = answers[r]
    BY <1>3
  <2>3. ASSUME NEW r \in Request
        PROVE  (IF answers'[r] = <<>> THEN "none" ELSE answers'[r][1])
                  = IF r \in told THEN "error" ELSE Verdicts[r]
    BY <2>1, <2>2 DEF Verdicts
  <2> QED BY <2>3 DEF Verdicts
<1>7. \A r \in told : r \in Request /\ Service!Waiting(r)
  BY <1>2 DEF Service!Waiting
<1>8. PICK failed \in SUBSET Request : failed = told
  BY <1>2
<1>a. Service!Fail(failed)
  BY <1>6, <1>7, <1>8 DEF Service!Fail, Verdicts
<1>9. Service!Next
  BY <1>a DEF Service!Next
<1> QED BY <1>5, <1>9

-----------------------------------------------------------------------------
(* Replies of Redis.                                                       *)

\* The main step that gets its reply has not sent its request before.
LEMMA RepliedUnsent ==
    ASSUME IInv, PInv, NEW n \in Node, NEW r \in Request, NEW s \in Main, Replied(n, s, r)
    PROVE  /\ ~Underway(toAgent, r) /\ r \notin applied
           /\ asked[r] \notin DbKinds /\ asked[r] # "none"
           /\ s = "forWrite" => asked[r] = "updateBoth"
           /\ Head(listData[n]) \in EntriesOf(listData)
           /\ Head(listData[n]).step = s /\ Head(listData[n]).r = r
<1>0. listData \in Lists /\ listData[n] # <<>> /\ Head(listData[n]).step = s /\ Head(listData[n]).r = r
  BY ListsTyped DEF IInv, Replied
<1>1. PICK h \in EntriesOf(listData) : h = Head(listData[n])
  <2>1. listData[n] \in Seq(Entry)
    BY <1>0 DEF Lists
  <2>2. 1 \in 1 .. Len(listData[n]) /\ Head(listData[n]) = listData[n][1] /\ Head(listData[n]) \in Entry
    BY <1>0, <2>1
  <2> QED BY <2>2 DEF EntriesOf
<1>2. ~NoMain(listData, r)
  BY <1>0, <1>1 DEF NoMain
<1>3. asked[r] # "none"
  BY <1>0, <1>1 DEF IInv, EntriesOK
<1> QED BY <1>0, <1>1, <1>2, <1>3, Unsent DEF PInv, Cached

\* A main step answers its client and is done.
LEMMA RespondServed ==
    ASSUME IInv, PInv, Follows, NEW r \in Request, asked[r] # "none", asked[r] \notin DbKinds,
           NEW told \in {<<"ok">>, <<"error">>}, Respond(r, told),
           UNCHANGED <<asked, toAgent, db, applied>>
    PROVE  PInv' /\ [Service!Next]_(Service!serviceVars)
<1>1. StayAsked
  BY DEF StayAsked
<1>2. told \in Told /\ TypeOK
  BY FirstTold DEF IInv
<1>3. [Service!Next]_(Service!serviceVars)
  BY <1>2, TellServed
<1> QED BY <1>1, <1>3, StillPlaced

\* Or goes on to the DbAgent.
LEMMA SendServed ==
    ASSUME IInv, PInv, Follows, NEW r \in Request, asked[r] # "none", asked[r] \notin DbKinds,
           asked[r] \notin CacheKinds, ~Underway(toAgent, r), r \notin applied, NoMain(listData', r),
           NEW k, NEW hasRedis, NEW told \in {<<>>, <<"ok">>}, EmitToAgent(r, k, hasRedis, told),
           UNCHANGED <<asked, db, applied>>
    PROVE  PInv' /\ [Service!Next]_(Service!serviceVars)
<1>1. StayAsked /\ asked'[r] = asked[r] /\ TypeOK
  BY DEF StayAsked, IInv
<1>2. [Service!Next]_(Service!serviceVars)
  BY <1>1, EmitServed
<1> QED BY <1>1, <1>2, EmitPlaced

LEMMA ReadCallbackServed ==
    ASSUME IInv, PInv, NEW n \in Node, NEW r \in Request, ReadCallback(n, r)
    PROVE  PInv' /\ [Service!Next]_(Service!serviceVars)
<1>1. /\ Replied(n, "read", r)
      /\ listData' = Popped(n)
      /\ UNCHANGED <<asked, db, applied>>
  BY DEF ReadCallback
<1>2. "read" \in RedisStep /\ "read" \in Main
  BY DEF RedisStep, Main
<1>3. EntriesOf(Popped(n)) \subseteq EntriesOf(listData) /\ NoMain(Popped(n), r)
  BY <1>1, <1>2, RepliedFacts
<1>4. /\ ~Underway(toAgent, r) /\ r \notin applied
      /\ asked[r] \notin DbKinds /\ asked[r] # "none"
  BY <1>1, <1>2, RepliedUnsent
<1>5. Follows /\ NoMain(listData', r)
  BY <1>1, <1>3, FewerFollow
<1>6. CASE asked[r] = "readEither" /\ EmitToAgent(r, "readEither", TRUE, <<>>)
  <2>1. asked[r] \notin CacheKinds
    BY <1>6 DEF CacheKinds
  <2> QED BY <1>1, <1>4, <1>5, <1>6, <2>1, SendServed
<1>7. CASE Respond(r, <<IF Failed(n) THEN "error" ELSE "ok">>) /\ UNCHANGED toAgent
  <2>1. PICK told \in {<<"ok">>, <<"error">>} : Respond(r, told)
    BY <1>7
  <2> QED BY <1>1, <1>4, <1>5, <1>7, <2>1, RespondServed
<1> QED BY <1>6, <1>7 DEF ReadCallback

LEMMA WriteCallbackServed ==
    ASSUME IInv, PInv, NEW n \in Node, NEW r \in Request, WriteCallback(n, r)
    PROVE  PInv' /\ [Service!Next]_(Service!serviceVars)
<1>1. Replied(n, "write", r) /\ UNCHANGED <<asked, db, applied>>
  BY DEF WriteCallback
<1>2. "write" \in RedisStep /\ "write" \in Main
  BY DEF RedisStep, Main
<1>3. /\ Popped(n) \in Lists /\ OneMain(Popped(n))
      /\ EntriesOf(Popped(n)) \subseteq EntriesOf(listData) /\ NoMain(Popped(n), r)
      /\ asked[r] \in Writes
  BY <1>1, <1>2, RepliedFacts
<1>4. /\ ~Underway(toAgent, r) /\ r \notin applied
      /\ asked[r] \notin DbKinds /\ asked[r] # "none"
  BY <1>1, <1>2, RepliedUnsent
<1>5. \A x \in EntriesOf(listData') : x \in EntriesOf(Popped(n)) \/ x.step = "setTtl"
  <2>1. PICK e \in Entry : e = Command("setTtl", r, Absent) /\ e.step = "setTtl"
    BY CommandTyped, AbsentIsValue DEF RedisStep
  <2>2. CASE listData' = Popped(n)
    BY <2>2
  <2>3. CASE listData' = [Popped(n) EXCEPT ![n] = Append(@, e)]
    <3>1. e.step \in Main => NoMain(Popped(n), e.r)
      BY <2>1 DEF Main
    <3>2. EntriesOf(listData') \subseteq EntriesOf(Popped(n)) \cup {e}
      BY <1>3, <2>3, <3>1, AppendPopped
    <3> QED BY <2>1, <3>2
  <2> QED BY <2>1, <2>2, <2>3 DEF WriteCallback
<1>6. Follows /\ NoMain(listData', r)
  BY <1>3, <1>5, FewerFollow DEF NoMain, Main
<1>7. CASE asked[r] # "redisWrite" /\ EmitToAgent(r, asked[r], TRUE, <<"ok">>)
  <2>1. asked[r] \notin CacheKinds
    BY <1>3, <1>7 DEF CacheKinds, Writes
  <2> QED BY <1>1, <1>4, <1>6, <1>7, <2>1, SendServed
<1>8. CASE Respond(r, <<IF Failed(n) THEN "error" ELSE "ok">>) /\ UNCHANGED toAgent
  <2>1. PICK told \in {<<"ok">>, <<"error">>} : Respond(r, told)
    BY <1>8
  <2> QED BY <1>1, <1>4, <1>6, <1>8, <2>1, RespondServed
<1> QED BY <1>7, <1>8 DEF WriteCallback

LEMMA ForWriteCallbackServed ==
    ASSUME IInv, PInv, NEW n \in Node, NEW r \in Request, ForWriteCallback(n, r)
    PROVE  PInv' /\ [Service!Next]_(Service!serviceVars)
<1>1. Replied(n, "forWrite", r) /\ UNCHANGED <<asked, db, applied>>
  BY DEF ForWriteCallback
<1>2. "forWrite" \in RedisStep /\ "forWrite" \in Main
  BY DEF RedisStep, Main
<1>3. /\ Popped(n) \in Lists /\ OneMain(Popped(n))
      /\ EntriesOf(Popped(n)) \subseteq EntriesOf(listData) /\ NoMain(Popped(n), r)
      /\ Head(listData[n]) \in Entry
  BY <1>1, <1>2, RepliedFacts
<1>4. /\ ~Underway(toAgent, r) /\ r \notin applied
      /\ asked[r] \notin DbKinds /\ asked[r] # "none" /\ asked[r] = "updateBoth"
      /\ Head(listData[n]) \in EntriesOf(listData)
      /\ Head(listData[n]).step = "forWrite" /\ Head(listData[n]).r = r
  BY <1>1, <1>2, RepliedUnsent
<1>5. asked[r] \notin CacheKinds
  BY <1>4 DEF CacheKinds
<1>6. CASE listData' = Popped(n) /\ EmitToAgent(r, "updateBoth", FALSE, <<>>)
  <2>1. Follows /\ NoMain(listData', r)
    BY <1>3, <1>6, FewerFollow
  <2> QED BY <1>1, <1>4, <1>5, <1>6, <2>1, SendServed
<1>7. CASE listData' = Popped(n) /\ Respond(r, <<"error">>) /\ UNCHANGED toAgent
  <2>1. Follows
    BY <1>3, <1>7, FewerFollow
  <2> QED BY <1>1, <1>4, <1>7, <2>1, RespondServed
<1>8. CASE /\ listData' = [Popped(n) EXCEPT ![n] =
                Append(@, Command("write", r, Merged("updateBoth", r, Found(n))))]
           /\ UNCHANGED <<answers, toAgent>>
  <2>1. Merged("updateBoth", r, Found(n)) \in Value
    BY <1>3, MergedTyped DEF Found, Entry
  <2>2. PICK e \in Entry : /\ e = Command("write", r, Merged("updateBoth", r, Found(n)))
                           /\ e.step = "write" /\ e.r = r
    BY <2>1, CommandTyped DEF RedisStep
  <2>3. listData' = [Popped(n) EXCEPT ![n] = Append(@, e)]
    BY <1>8, <2>2
  <2>a. NoMain(Popped(n), e.r)
    BY <1>3, <2>2
  <2>4. EntriesOf(listData') \subseteq EntriesOf(Popped(n)) \cup {e}
    BY <1>3, <2>3, <2>a, AppendPopped
  <2>5. Follows
    BY <1>2, <1>3, <1>4, <2>2, <2>4 DEF Follows
  <2> QED BY <1>1, <1>8, <2>5, UnseenServed
<1> QED BY <1>6, <1>7, <1>8 DEF ForWriteCallback

\* The steps behind the answer.
LEMMA SilentCallbackServed ==
    ASSUME IInv, PInv, NEW n \in Node, NEW r \in Request,
           NEW s \in {"writeBack", "setTtl"}, Replied(n, s, r),
           \/ listData' = Popped(n)
           \/ listData' = [Popped(n) EXCEPT ![n] = Append(@, Command("setTtl", r, Absent))],
           UNCHANGED <<asked, answers, toAgent, db, applied>>
    PROVE  PInv' /\ [Service!Next]_(Service!serviceVars)
<1>1. /\ Popped(n) \in Lists /\ OneMain(Popped(n))
      /\ EntriesOf(Popped(n)) \subseteq EntriesOf(listData)
  BY RepliedFacts DEF RedisStep
<1>2. PICK e \in Entry : e = Command("setTtl", r, Absent) /\ e.step = "setTtl"
  BY CommandTyped, AbsentIsValue DEF RedisStep
<1>3. CASE listData' = [Popped(n) EXCEPT ![n] = Append(@, e)]
  <2>1. e.step \in Main => NoMain(Popped(n), e.r)
    BY <1>2 DEF Main
  <2>2. EntriesOf(listData') \subseteq EntriesOf(Popped(n)) \cup {e}
    BY <1>1, <1>3, <2>1, AppendPopped
  <2>3. Follows
    BY <1>1, <1>2, <2>2, FewerFollow DEF Main
  <2> QED BY <2>3, UnseenServed
<1>4. CASE listData' = Popped(n)
  BY <1>1, <1>4, FewerFollow, UnseenServed
<1> QED BY <1>2, <1>3, <1>4

-----------------------------------------------------------------------------
(* The DbAgents.                                                           *)

LEMMA AgentExecutesServed ==
    ASSUME IInv, PInv, NEW a \in Agent, AgentExecutes(a)
    PROVE  PInv' /\ [Service!Next]_(Service!serviceVars)
<1> DEFINE r == Head(toAgent[a])
<1>0. toAgent \in [Agent -> Seq(Request)] /\ toAgent[a] \in Seq(Request) /\ toAgent[a] # <<>>
  BY DEF IInv, TypeOK, AgentExecutes
<1>1. /\ toAgent' = [toAgent EXCEPT ![a] = Tail(@)]
      /\ UNCHANGED <<asked, answers, listData>>
      /\ \/ UNCHANGED <<db, applied>>
         \/ db' = Merged(asked[r], r, db) /\ applied' = applied \cup {r}
  BY DEF AgentExecutes, clientVars, redisVars
<1>2. r \in Request /\ r = toAgent[a][1] /\ 1 \in 1 .. Len(toAgent[a])
  BY <1>0
<1>3. ASSUME NEW b \in Agent, NEW i \in 1 .. Len(toAgent'[b])
      PROVE  \E j \in 1 .. Len(toAgent[b]) :
                toAgent'[b][i] = toAgent[b][j] /\ j = (IF b = a THEN i + 1 ELSE i)
  <2>1. CASE b = a
    <3>1. toAgent'[b] = Tail(toAgent[b])
      BY <1>0, <1>1, <2>1
    <3>2. Len(Tail(toAgent[b])) = Len(toAgent[b]) - 1 /\ Len(toAgent[b]) \in Nat
      BY <1>0, <2>1, HeadTailProperties
    <3>a. i \in 1 .. Len(Tail(toAgent[b]))
      BY <3>1, Zenon
    <3>3. i + 1 \in 1 .. Len(toAgent[b])
      BY <3>a, <3>2
    <3>4. Tail(toAgent[b])[i] = toAgent[b][i + 1]
      BY <1>0, <2>1, <3>1, HeadTailProperties
    <3> QED BY <2>1, <3>1, <3>3, <3>4
  <2>2. CASE b # a
    BY <1>0, <1>1, <2>2
  <2> QED BY <2>1, <2>2
<1> HIDE DEF r
<1>4. Single(toAgent)'
  <2> SUFFICES ASSUME NEW b \in Agent, NEW c \in Agent,
                      NEW i \in 1 .. Len(toAgent'[b]), NEW j \in 1 .. Len(toAgent'[c]),
                      toAgent'[b][i] = toAgent'[c][j]
               PROVE  b = c /\ i = j
    BY DEF Single
  <2>1. PICK k \in 1 .. Len(toAgent[b]) :
            toAgent'[b][i] = toAgent[b][k] /\ k = (IF b = a THEN i + 1 ELSE i)
    BY <1>3
  <2>2. PICK l \in 1 .. Len(toAgent[c]) :
            toAgent'[c][j] = toAgent[c][l] /\ l = (IF c = a THEN j + 1 ELSE j)
    BY <1>3
  <2>a. toAgent[b][k] = toAgent[c][l]
    BY <2>1, <2>2
  <2>3. b = c /\ k = l
    BY <2>a DEF PInv, Single
  <2>4. i \in Int /\ j \in Int
    OBVIOUS
  <2> QED BY <2>1, <2>2, <2>3, <2>4
<1>5. Underway(toAgent, r) /\ ~Underway(toAgent', r)
  <2>1. Underway(toAgent, r)
    BY <1>2 DEF Underway
  <2>2. ASSUME NEW b \in Agent, NEW i \in 1 .. Len(toAgent'[b]), toAgent'[b][i] = r
        PROVE  FALSE
    <3>1. PICK j \in 1 .. Len(toAgent[b]) :
              toAgent'[b][i] = toAgent[b][j] /\ j = (IF b = a THEN i + 1 ELSE i)
      BY <1>3
    <3>a. toAgent[b][j] = toAgent[a][1]
      BY <1>2, <2>2, <3>1
    <3>2. b = a /\ j = 1
      BY <1>2, <3>a DEF PInv, Single
    <3> QED BY <3>1, <3>2
  <2> QED BY <2>1, <2>2 DEF Underway
<1>6. StayAsked /\ Follows
  BY <1>1, FewerFollow DEF StayAsked
<1>7. ASSUME NEW q \in Request PROVE Place(q)'
  <2>1. Underway(toAgent', q) => Underway(toAgent, q)
    BY <1>3 DEF Underway
  <2>2. q \in applied' => q \in applied \/ (Underway(toAgent, q) /\ ~Underway(toAgent', q))
    BY <1>1, <1>5
  <2> QED BY <1>6, <2>1, <2>2, PlaceKept DEF PInv, Places
<1>8. Cached'
  BY <1>6, CachedKept DEF PInv
<1>9. PInv'
  BY <1>4, <1>7, <1>8 DEF PInv, Places
<1>10. CASE UNCHANGED <<db, applied>>
  BY <1>1, <1>9, <1>10, Quietly
<1>11. CASE db' = Merged(asked[r], r, db) /\ applied' = applied \cup {r}
  <2>1. r \notin applied /\ asked[r] \notin CacheKinds /\ asked[r] # "none"
    BY <1>2, <1>5 DEF PInv, Places, Place
  <2>2. Service!Execute(r)
    BY <1>1, <1>11, <2>1 DEF Service!Execute, CacheKinds
  <2>3. Service!Next
    BY <1>2, <2>2 DEF Service!Next
  <2> QED BY <1>9, <2>3
<1> QED BY <1>1, <1>10, <1>11

LEMMA AgentLostServed ==
    ASSUME IInv, PInv, NEW a \in Agent, AgentLost(a)
    PROVE  PInv' /\ [Service!Next]_(Service!serviceVars)
<1>0. toAgent \in [Agent -> Seq(Request)]
  BY DEF IInv, TypeOK
<1>1. /\ toAgent' = [toAgent EXCEPT ![a] = <<>>]
      /\ UNCHANGED <<asked, answers, listData, db, applied>>
  BY DEF AgentLost, clientVars, redisVars
<1>2. ASSUME NEW b \in Agent, NEW i \in 1 .. Len(toAgent'[b])
      PROVE  i \in 1 .. Len(toAgent[b]) /\ toAgent'[b][i] = toAgent[b][i]
  <2>1. CASE b = a
    <3>1. toAgent'[b] = <<>>
      BY <1>0, <1>1, <2>1
    <3> QED BY <3>1
  <2>2. CASE b # a
    <3>1. toAgent'[b] = toAgent[b]
      BY <1>0, <1>1, <2>2
    <3> QED BY <3>1
  <2> QED BY <2>1, <2>2
<1>3. Single(toAgent)'
  BY <1>2 DEF PInv, Single
<1>4. StayAsked /\ Follows
  BY <1>1, FewerFollow DEF StayAsked
<1>5. ASSUME NEW q \in Request PROVE Place(q)'
  <2>1. Underway(toAgent', q) => Underway(toAgent, q)
    BY <1>2 DEF Underway
  <2> QED BY <1>1, <1>4, <2>1, PlaceKept DEF PInv, Places
<1>6. Cached'
  BY <1>4, CachedKept DEF PInv
<1> QED BY <1>1, <1>3, <1>5, <1>6, Quietly DEF PInv, Places

LEMMA AgentAnswersServed ==
    ASSUME AInv, PInv, NEW a \in Agent, AgentAnswers(a)
    PROVE  PInv' /\ [Service!Next]_(Service!serviceVars)
<1> DEFINE m == Head(fromAgent[a])
           said == IF dbStep[m.r] = "answers" THEN <<IF m.ok THEN "ok" ELSE "error">> ELSE <<>>
           e == Command("writeBack", m.r, m.val)
<1>0. IInv /\ TypeOK /\ OneMain(listData) /\ listData \in Lists
  BY ListsTyped DEF AInv, IInv
<1>1. /\ fromAgent[a] \in Seq(Reply) /\ fromAgent[a] # <<>>
      /\ UNCHANGED <<asked, toAgent, db, applied>>
  BY <1>0 DEF TypeOK, AgentAnswers
<1>2. m.r \in Request /\ m.val \in Value /\ (m.ok => m.r \in applied)
  <2>1. m \in Reply /\ m = fromAgent[a][1] /\ 1 \in 1 .. Len(fromAgent[a])
    BY <1>1
  <2>2. fromAgent[a][1].ok => fromAgent[a][1].r \in applied
    BY <2>1 DEF AInv, RepliesTrue
  <2> HIDE DEF m
  <2> QED BY <2>1, <2>2 DEF Reply
<1>3. CASE dbStep[m.r] = "none" /\ UNCHANGED <<answers, listData>>
  BY <1>0, <1>1, <1>3, FewerFollow, UnseenServed
<1>4. CASE /\ dbStep[m.r] # "none"
           /\ Respond(m.r, said)
           /\ UNCHANGED listData \/ (WritesBack(m) /\ Registered(listData, Master, e))
  <2>1. asked[m.r] # "none"
    BY <1>0, <1>2, <1>4, DbStepFacts
  <2>2. Follows
    <3>1. CASE UNCHANGED listData
      BY <3>1, FewerFollow
    <3>2. CASE WritesBack(m) /\ Registered(listData, Master, e)
      <4>1. m.val \in Record
        BY <1>2, <3>2 DEF WritesBack, Value
      <4>2. e \in Entry /\ e.step = "writeBack"
        BY <1>2, <4>1, CommandTyped DEF RedisStep
      <4>3. Master \in Node /\ (e.step \in Main => NoMain(listData, e.r))
        BY <4>2 DEF Node, Main
      <4>4. Registered(listData, Master, e)
        BY <3>2
      <4> HIDE DEF e, m
      <4>5. EntriesOf(listData') \subseteq EntriesOf(listData) \cup {e}
        BY <1>0, <4>2, <4>3, <4>4, RegisteredLists
      <4> QED BY <4>2, <4>5, FewerFollow DEF Main
    <3> QED BY <1>4, <3>1, <3>2
  <2>3. StayAsked
    BY <1>1 DEF StayAsked
  <2>4. PInv'
    BY <1>0, <1>1, <2>2, <2>3, StillPlaced
  <2>5. said \in Told
    BY FirstTold
  <2>6. said = <<>> \/ said[1] = "error" \/ m.r \in applied
    BY <1>2
  <2> HIDE DEF said, m
  <2>7. PICK r \in Request : r = m.r
    BY <1>2
  <2>8. [Service!Next]_(Service!serviceVars)
    BY <1>0, <1>1, <1>4, <2>1, <2>5, <2>6, <2>7, TellServed
  <2> QED BY <2>4, <2>8
<1> QED BY <1>3, <1>4 DEF AgentAnswers, Refused

LEMMA TimeoutServed ==
    ASSUME IInv, PInv, NEW r \in Request, Timeout(r)
    PROVE  PInv' /\ [Service!Next]_(Service!serviceVars)
<1>1. /\ dbStep[r] # "none" /\ Respond(r, <<"error">>)
      /\ UNCHANGED <<asked, listData, toAgent, db, applied>>
  BY DEF Timeout, redisVars
<1>2. asked[r] # "none" /\ TypeOK
  BY <1>1, DbStepFacts DEF IInv
<1>3. StayAsked /\ Follows
  BY <1>1, FewerFollow DEF StayAsked
<1>4. PICK told \in Told : told[1] = "error" /\ Respond(r, told)
  <2>1. <<"error">> \in Told
    BY FirstTold
  <2> QED BY <1>1, <2>1
<1>5. [Service!Next]_(Service!serviceVars)
  BY <1>1, <1>2, <1>4, TellServed
<1> QED BY <1>1, <1>3, <1>5, StillPlaced

-----------------------------------------------------------------------------

LEMMA InitServed == Init => PInv /\ Service!Init
<1> SUFFICES ASSUME Init PROVE PInv /\ Service!Init
  OBVIOUS
<1>1. EntriesOf(listData) = {}
  BY DEF Init, EntriesOf
<1>2. \A a \in Agent : Len(toAgent[a]) = 0
  BY DEF Init
<1>3. PInv
  BY <1>1, <1>2 DEF Init, PInv, Single, Places, Place, Underway, Cached
<1>4. Verdicts = [r \in Request |-> "none"]
  BY DEF Init, Verdicts
<1>5. db \in Value
  BY InitInv DEF IInv, TypeOK
<1> QED BY <1>3, <1>4, <1>5 DEF Service!Init, Init, Verdicts

LEMMA StepServed == AInv /\ PInv /\ [Next]_vars => PInv' /\ [Service!Next]_(Service!serviceVars)
<1> SUFFICES ASSUME AInv, PInv, [Next]_vars
             PROVE  PInv' /\ [Service!Next]_(Service!serviceVars)
  OBVIOUS
<1>0. IInv
  BY DEF AInv
<1>1. ASSUME NEW r \in Request,
             AskRead(r) \/ AskWrite(r) \/ AskUpdate(r) \/ AskDb(r) \/ Timeout(r)
      PROVE  PInv' /\ [Service!Next]_(Service!serviceVars)
  BY <1>0, <1>1, AskReadServed, AskWriteServed, AskUpdateServed, AskDbServed, TimeoutServed
<1>2. ASSUME NEW n \in Node, RedisConnect(n)
      PROVE  PInv' /\ [Service!Next]_(Service!serviceVars)
  BY <1>0, <1>2, FewerFollow, UnseenServed DEF RedisConnect, clientVars, agentVars
<1>3. ASSUME NEW n \in Node, RedisConnectFails(n) \/ RedisDisconnect(n)
      PROVE  PInv' /\ [Service!Next]_(Service!serviceVars)
  BY <1>0, <1>3, FailStepsServed DEF RedisConnectFails, RedisDisconnect
<1>4. ASSUME NEW n \in Node, RedisExecutes(n)
      PROVE  PInv' /\ [Service!Next]_(Service!serviceVars)
  BY <1>0, <1>4, RedisExecutesServed
<1>5. ASSUME NEW n \in Node, NEW r \in Request,
             ReadCallback(n, r) \/ WriteCallback(n, r) \/ ForWriteCallback(n, r)
      PROVE  PInv' /\ [Service!Next]_(Service!serviceVars)
  BY <1>0, <1>5, ReadCallbackServed, WriteCallbackServed, ForWriteCallbackServed
<1>6. ASSUME NEW n \in Node, NEW r \in Request, WriteBackCallback(n, r)
      PROVE  PInv' /\ [Service!Next]_(Service!serviceVars)
  BY <1>0, <1>6, SilentCallbackServed DEF WriteBackCallback, agentVars
<1>7. ASSUME NEW n \in Node, NEW r \in Request, SetTtlCallback(n, r)
      PROVE  PInv' /\ [Service!Next]_(Service!serviceVars)
  BY <1>0, <1>7, SilentCallbackServed DEF SetTtlCallback, agentVars
<1>8. ASSUME NEW a \in Agent, AgentExecutes(a) \/ AgentLost(a) \/ AgentAnswers(a)
      PROVE  PInv' /\ [Service!Next]_(Service!serviceVars)
  BY <1>0, <1>8, AgentExecutesServed, AgentLostServed, AgentAnswersServed
<1>9. CASE RedisReplicates \/ RedisExpires
  BY <1>0, <1>9, FewerFollow, UnseenServed
     DEF RedisReplicates, RedisExpires, clientVars, redisVars, agentVars
<1>10. CASE UNCHANGED vars
  BY <1>0, <1>10, FewerFollow, UnseenServed DEF vars
<1> QED BY <1>1, <1>2, <1>3, <1>4, <1>5, <1>6, <1>7, <1>8, <1>9, <1>10 DEF Next, Callbacks

\* Whatever becomes of the cache, its links, the DbAgents and the timers of the
\* steps (StepSendToDbAgent.cpp:30, CmdDbOper.cpp:132), the worker is the
\* service of RecordService: a request is carried out at most once, what was
\* asked, its first answer is its one verdict, and success of what only the
\* database can answer is told after the database did it.
THEOREM ProxyIsOneService == Spec => OneService
<1>1. Spec => []AInv
  BY InitOut, StepOut, PTL DEF Spec
<1>2. QED
  BY <1>1, InitServed, StepServed, PTL DEF Spec, OneService, Service!Spec
=============================================================================
