---------------------------- MODULE RequestRelay ----------------------------
(***************************************************************************)
(* A client's request on its way: from the front worker that holds the     *)
(* client's connection (Interface over HTTP, Access over the product's own *)
(* protocol), over an inner connection, to a Logic worker, which asks      *)
(* DataProxy before it answers.                                            *)
(*                                                                         *)
(* Every hop parks the request in a step, a callback object known by its   *)
(* sequence alone, and remembers where the answer goes as a message shell, *)
(* a descriptor and the sequence the connection on it was given.           *)
(* Descriptors are used again, two fronts number their requests alike, and *)
(* a worker that was restarted numbers from the start: what is late must   *)
(* find neither step nor connection.                                       *)
(*                                                                         *)
(* An inner connection is what OrderedLink promises: two queues.  DataProxy *)
(* is its answers, those of module DataProxy.  A callback is one step of   *)
(* its worker.  Sequences drawn for anything else only leave gaps.         *)
(***************************************************************************)
EXTENDS Naturals, Sequences

CONSTANTS
    Front,      \* the front workers
    HttpFront,  \* those of them whose clients speak HTTP
    Client,     \* the connections clients make, each once
    At,         \* At[c]: the front worker client c connects to
    NoOne,      \* not a client
    ClientFd,   \* descriptors of a front worker for them
    LinkFd,     \* descriptors of the Logic worker for the fronts' connections
    MaxLink,    \* connections between fronts and Logic (a bound)
    MaxAsk,     \* requests of a client on its connection (a bound)
    MaxFault,   \* connections cut and workers killed (a bound)
    Faults      \* what goes wrong: subset of FaultKinds

\* The front cannot send; Logic knows no DataProxy; a client's body does not
\* parse; the command is not loaded; DataProxy answers an error; an inner
\* connection is cut; a front, or Logic, is killed.
FaultKinds == {"unsent", "noproxy", "malformed", "unloaded", "error",
               "link", "front", "logic"}

ASSUME FrontAssumption == HttpFront \subseteq Front
ASSUME AtAssumption == At \in [Client -> Front]
ASSUME NoOneAssumption == NoOne \notin Client
ASSUME LinkAssumption == MaxLink \in Nat
ASSUME AskAssumption == MaxAsk \in Nat
ASSUME FaultAssumption == MaxFault \in Nat /\ Faults \subseteq FaultKinds

VARIABLES
    seq,        \* seq[f]: m_ulSequence of front f
    client,     \* client[f][fd]: the client connection in m_mapFdAttr of f
    step,       \* step[f]: m_mapCallbackStep of f
    link,       \* link[f]: the connection of f to Logic, 0 for none
    logicSeq,   \* the same of the Logic worker: m_ulSequence,
    inner,      \* m_mapFdAttr, the fronts' connections,
    logicStep,  \* and m_mapCallbackStep
    reading,    \* what DataProxy was asked by this Logic worker
    opened,     \* connections made between fronts and Logic
    knocking,   \* those Logic was not handed yet
    up, down,   \* up[k], down[k]: on the way to Logic and back on k
    came,       \* the clients that connected once
    asked,      \* asked[c]: requests of c its front took
    got,        \* got[c]: answers written for c
    faults      \* faults so far

frontVars == <<seq, client, step>>
logicVars == <<logicSeq, inner, logicStep, reading>>
wireVars == <<link, opened, knocking, up, down>>
clientVars == <<came, asked, got>>
vars == <<frontVars, logicVars, wireVars, clientVars, faults>>

Link == 1 .. MaxLink
Ask == [who : Client, n : 1 .. MaxAsk]
Codes == {"ok", "error", "timeout"}

\* A step, with the shell of who waits for it; of is the request it works on.
Shell(fd, q) == [fd |-> fd, seq |-> q]
Step(q, shell, a) == [seq |-> q, shell |-> shell, of |-> a]
\* A step of Logic also keeps the sequence its request came with.
LogicTask(q, shell, a, reqSeq) ==
    [seq |-> q, shell |-> shell, of |-> a, reqSeq |-> reqSeq]

\* Messages carry the sequence of the step that waits; of is the request that
\* is answered, read whether the answer is what DataProxy holds.  What a
\* client gets carries, over Access, the sequence it sent itself: to is its
\* number for the request.  HTTP has nothing of the kind.
Request(q, a) == [seq |-> q, of |-> a]
Answer(q, a, code, read) == [seq |-> q, of |-> a, code |-> code, read |-> read]
Got(a, to, code, read) == [of |-> a, to |-> to, code |-> code, read |-> read]

\* Sequences start at 1: an entry with sequence 0 is no entry.
NoClient == [seq |-> 0, who |-> NoOne]
NoLink == [seq |-> 0, link |-> 0]

Init ==
    /\ seq = [f \in Front |-> 0]
    /\ client = [f \in Front |-> [fd \in ClientFd |-> NoClient]]
    /\ step = [f \in Front |-> {}]
    /\ link = [f \in Front |-> 0]
    /\ logicSeq = 0
    /\ inner = [fd \in LinkFd |-> NoLink]
    /\ logicStep = {}
    /\ reading = {}
    /\ opened = 0
    /\ knocking = {}
    /\ up = [k \in Link |-> <<>>]
    /\ down = [k \in Link |-> <<>>]
    /\ came = {}
    /\ asked = [c \in Client |-> 0]
    /\ got = [c \in Client |-> <<>>]
    /\ faults = 0

-----------------------------------------------------------------------------
(* The clients of a front worker.                                          *)

\* c has its connection at descriptor fd of front f.
Holds(f, fd, c) == client[f][fd].who = c

\* FdTransfer: the Manager accepted a connection and hands it over.
Connect(f, fd, c) ==
    /\ At[c] = f
    /\ c \notin came
    /\ client[f][fd] = NoClient
    /\ seq' = [seq EXCEPT ![f] = @ + 1]
    /\ client' = [client EXCEPT ![f][fd] = [seq |-> seq[f] + 1, who |-> c]]
    /\ came' = came \cup {c}
    /\ UNCHANGED <<step, logicVars, wireVars, asked, got, faults>>

\* DestroyConnect: the client left, or its timer ran out.
Disconnect(f, fd) ==
    /\ client[f][fd] # NoClient
    /\ client' = [client EXCEPT ![f][fd] = NoClient]
    /\ UNCHANGED <<seq, step, logicVars, wireVars, clientVars, faults>>

\* Error: SendTo that only looks whether the descriptor is open.
OpenFd(attr, shell) == attr.seq # 0

\* SendTo a shell: the descriptor still has the connection it was made for.
Live(attr, shell) == attr.seq # 0 /\ attr.seq = shell.seq

\* An answer is written for whoever has the shell's connection, if it lives.
Written(f, shell, answer) ==
    IF Live(client[f][shell.fd], shell)
    THEN [got EXCEPT ![client[f][shell.fd].who] = Append(@, answer)]
    ELSE got

\* The request that client c makes next.
NextAsk(c) == [who |-> c, n |-> asked[c] + 1]

\* An HTTP client has one request out at a time; one of Access as many as it
\* likes, for the check of its login never ends the connection.
MayAsk(c) ==
    /\ asked[c] < MaxAsk
    /\ At[c] \in HttpFront => Len(got[c]) = asked[c]

Asks(f, fd, c) ==
    /\ Holds(f, fd, c)
    /\ MayAsk(c)
    /\ asked' = [asked EXCEPT ![c] = @ + 1]

\* The Interface worker refuses a request: no module has its path, and the
\* 404 draws no sequence; or AnyMessage finds fault with it; or AccessToLogic
\* fails.  The step, if there is one, answers and is gone when Emit returns.
HttpRefused(f, fd, c) ==
    /\ f \in HttpFront
    /\ "unsent" \in Faults
    /\ Asks(f, fd, c)
    /\ got' = [got EXCEPT ![c] = Append(@, Got(NextAsk(c), asked[c] + 1, "error", FALSE))]
    /\ \E draws \in {0, 1} : seq' = [seq EXCEPT ![f] = @ + draws]
    /\ UNCHANGED <<client, step, logicVars, wireVars, came, faults>>

\* RegisterCallback of the step made for the request.
Registers(f, fd, a) ==
    /\ seq' = [seq EXCEPT ![f] = @ + 1]
    /\ step' = [step EXCEPT ![f] =
            @ \cup {Step(seq[f] + 1, Shell(fd, client[f][fd].seq), a)}]

\* The step of Access runs on when SendToWithMod fails.
TcpUnsent(f, fd, c) ==
    /\ f \notin HttpFront
    /\ "unsent" \in Faults
    /\ Asks(f, fd, c)
    /\ Registers(f, fd, NextAsk(c))
    /\ UNCHANGED <<client, logicVars, wireVars, came, got, faults>>

\* SendToWithMod: over the connection there is, or over a new one (AutoSend).
Sends(f, m) ==
    \/ /\ link[f] # 0
       /\ up' = [up EXCEPT ![link[f]] = Append(@, m)]
       /\ UNCHANGED <<link, opened, knocking>>
    \/ /\ link[f] = 0
       /\ opened < MaxLink
       /\ opened' = opened + 1
       /\ link' = [link EXCEPT ![f] = opened + 1]
       /\ knocking' = knocking \cup {opened + 1}
       /\ up' = [up EXCEPT ![opened + 1] = <<m>>]

\* Emit: the request goes on to Logic under the sequence of the step.
Relay(f, fd, c) ==
    /\ Asks(f, fd, c)
    /\ Registers(f, fd, NextAsk(c))
    /\ Sends(f, Request(seq[f] + 1, NextAsk(c)))
    /\ UNCHANGED <<client, logicVars, down, came, got, faults>>

-----------------------------------------------------------------------------
(* The answer, at a front worker.                                          *)

\* Error: a step that answered, or timed out, stays registered.
StillRunning(f, s) == step

\* DeleteCallback.
Ended(f, s) == [step EXCEPT ![f] = @ \ {s}]

\* Error: the step hands the message on as it is, with its own sequence.
PassedRaw(s, m) == m

\* What a step gives the client for an answer of Logic: Access passes it on
\* under the head of the request, Interface builds one of its own from it.
Passed(s, m) == Got(m.of, s.of.n, m.code, m.read)

\* Dispose: an answer is for the step of its sequence; without one it is
\* dropped ("no callback or the callback for seq had been timeout").
Receive(f) ==
    /\ link[f] # 0
    /\ down[link[f]] # <<>>
    /\ down' = [down EXCEPT ![link[f]] = Tail(@)]
    /\ LET m == Head(down[link[f]])
           waiting == {s \in step[f] : s.seq = m.seq}
       IN \/ /\ waiting = {}
             /\ UNCHANGED <<step, got>>
          \/ \E s \in waiting :
                /\ got' = Written(f, s.shell, Passed(s, m))
                /\ step' = Ended(f, s)
    /\ UNCHANGED <<seq, client, logicVars, link, opened, knocking, up, came,
                   asked, faults>>

\* Error: Timeout of Interface answers no more than that of Access.
Silent(f, s) == got

\* Timeout: Interface answers "timeout", Access answers nothing.
TimeoutAnswer(f, s) ==
    IF f \in HttpFront THEN Written(f, s.shell, Got(s.of, s.of.n, "timeout", FALSE))
    ELSE got

StepTimeout(f, s) ==
    /\ got' = TimeoutAnswer(f, s)
    /\ step' = Ended(f, s)
    /\ UNCHANGED <<seq, client, logicVars, wireVars, came, asked, faults>>

-----------------------------------------------------------------------------
(* The Logic worker.                                                       *)

\* FdTransfer: a connection is handed over, at any free descriptor.
LogicAccepts(fd, k) ==
    /\ inner[fd] = NoLink
    /\ k \in knocking
    /\ logicSeq' = logicSeq + 1
    /\ inner' = [inner EXCEPT ![fd] = [seq |-> logicSeq + 1, link |-> k]]
    /\ knocking' = knocking \ {k}
    /\ UNCHANGED <<frontVars, logicStep, reading, link, opened, up, down,
                   clientVars, faults>>

\* A request is read from the connection at fd.
Takes(fd) ==
    /\ inner[fd] # NoLink
    /\ up[inner[fd].link] # <<>>

Taken(fd) == up' = [up EXCEPT ![inner[fd].link] = Tail(@)]

\* Dispose has no handler for the command and answers CMD_RSP_SYS_ERROR.
Unloaded(fd) ==
    /\ "unloaded" \in Faults
    /\ Takes(fd)
    /\ Taken(fd)
    /\ LET m == Head(up[inner[fd].link])
       IN down' = [down EXCEPT ![inner[fd].link] =
              Append(@, Answer(m.seq, m.of, "error", FALSE))]
    /\ UNCHANGED <<frontVars, logicVars, link, opened, knocking, clientVars, faults>>

\* Emit of StepQuotConfigGet: DataProxy is asked under the step's sequence.
Serve(fd) ==
    /\ Takes(fd)
    /\ Taken(fd)
    /\ LET m == Head(up[inner[fd].link])
       IN /\ logicStep' = logicStep \cup
                {LogicTask(logicSeq + 1, Shell(fd, inner[fd].seq), m.of, m.seq)}
          /\ reading' = reading \cup {Request(logicSeq + 1, m.of)}
    /\ logicSeq' = logicSeq + 1
    /\ UNCHANGED <<frontVars, inner, link, opened, knocking, down, clientVars, faults>>

\* The worker is gone, with all it did not read; the Manager starts another.
LogicDies ==
    /\ logicSeq' = 0
    /\ inner' = [fd \in LinkFd |-> NoLink]
    /\ logicStep' = {}
    /\ reading' = {}
    /\ up' = [k \in Link |-> IF \E fd \in LinkFd : inner[fd].link = k THEN <<>> ELSE up[k]]

\* The request does not parse, or DataProxy cannot be sent to: HandleResult
\* lets SendAck answer, through m_pAck, which is still NULL, and the worker dies.
Refuse(fd) ==
    /\ Takes(fd)
    /\ \/ "noproxy" \in Faults
       \/ /\ "malformed" \in Faults
          /\ At[Head(up[inner[fd].link]).of.who] \notin HttpFront
    /\ LogicDies
    /\ UNCHANGED <<frontVars, link, opened, knocking, down, clientVars, faults>>

\* Error: SendAck leaves the task for later when it has nobody to answer.
AcknowledgeLive(s, a, read) ==
    LET attr == inner[s.shell.fd]
    IN /\ Live(attr, s.shell)
       /\ logicStep' = logicStep \ {s}
       /\ down' = [down EXCEPT ![attr.link] = Append(@, Answer(s.reqSeq, a, "ok", read))]

\* SendAck: the answer goes where the request came from, if that lives.  It
\* says ERR_OK: OnQuotConfigGet does not look at what HandleEvent found.
Acknowledge(s, a, read) ==
    /\ logicStep' = logicStep \ {s}
    /\ LET attr == inner[s.shell.fd]
       IN IF Live(attr, s.shell)
          THEN down' = [down EXCEPT ![attr.link] =
                  Append(@, Answer(s.reqSeq, a, "ok", read))]
          ELSE UNCHANGED down

\* DataProxy answers, with what was asked for or with an error, when the step
\* of that sequence still runs; the first part of an answer ends it.
DataProxyAnswers(r, s) ==
    /\ r.seq = s.seq
    /\ \E read \in BOOLEAN :
        /\ read \/ "error" \in Faults
        /\ Acknowledge(s, r.of, read)
    /\ UNCHANGED <<frontVars, logicSeq, inner, reading, link, opened, knocking,
                   up, clientVars, faults>>

\* DataProxy stays silent.
LogicTimeout(s) ==
    /\ Acknowledge(s, s.of, FALSE)
    /\ UNCHANGED <<frontVars, logicSeq, inner, reading, link, opened, knocking,
                   up, clientVars, faults>>

-----------------------------------------------------------------------------
(* Connections end, workers die.                                           *)

Fault(kind) ==
    /\ kind \in Faults
    /\ faults < MaxFault
    /\ faults' = faults + 1

\* A connection ends at this end because the other end is gone, or it is cut.
EndsSince(gone) == \/ gone /\ UNCHANGED faults
                   \/ Fault("link")

AtLogic(k) == k \in knocking \/ \E fd \in LinkFd : inner[fd].link = k
AtFront(k) == \E f \in Front : link[f] = k

\* The front's end closes; what it did not read is lost.
FrontEndGoes(f) ==
    /\ link' = [link EXCEPT ![f] = 0]
    /\ down' = [k \in Link |-> IF k = link[f] THEN <<>> ELSE down[k]]

\* DestroyConnect at the front.
FrontLoses(f) ==
    /\ link[f] # 0
    /\ EndsSince(~AtLogic(link[f]))
    /\ FrontEndGoes(f)
    /\ UNCHANGED <<frontVars, logicVars, opened, knocking, up, clientVars>>

\* DestroyConnect at the Logic worker.
LogicLoses(fd) ==
    /\ inner[fd] # NoLink
    /\ EndsSince(~AtFront(inner[fd].link))
    /\ inner' = [inner EXCEPT ![fd] = NoLink]
    /\ up' = [up EXCEPT ![inner[fd].link] = <<>>]
    /\ UNCHANGED <<frontVars, logicSeq, logicStep, reading, link, opened,
                   knocking, down, clientVars>>

\* Front f is killed and started again.
RestartFront(f) ==
    /\ Fault("front")
    /\ seq' = [seq EXCEPT ![f] = 0]
    /\ client' = [client EXCEPT ![f] = [fd \in ClientFd |-> NoClient]]
    /\ step' = [step EXCEPT ![f] = {}]
    /\ FrontEndGoes(f)
    /\ UNCHANGED <<logicVars, opened, knocking, up, clientVars>>

RestartLogic ==
    /\ Fault("logic")
    /\ LogicDies
    /\ UNCHANGED <<frontVars, link, opened, knocking, down, clientVars>>

-----------------------------------------------------------------------------
FrontNext(f) ==
    \/ \E fd \in ClientFd, c \in Client :
        \/ Connect(f, fd, c)
        \/ HttpRefused(f, fd, c)
        \/ TcpUnsent(f, fd, c)
        \/ Relay(f, fd, c)
    \/ \E fd \in ClientFd : Disconnect(f, fd)
    \/ Receive(f)
    \/ \E s \in step[f] : StepTimeout(f, s)
    \/ FrontLoses(f)
    \/ RestartFront(f)

LogicNext ==
    \/ \E fd \in LinkFd, k \in Link : LogicAccepts(fd, k)
    \/ \E fd \in LinkFd : Unloaded(fd) \/ Serve(fd) \/ Refuse(fd) \/ LogicLoses(fd)
    \/ \E s \in logicStep :
        \/ \E r \in reading : DataProxyAnswers(r, s)
        \/ LogicTimeout(s)
    \/ RestartLogic

Next == (\E f \in Front : FrontNext(f)) \/ LogicNext

Spec == Init /\ [][Next]_vars

\* The timer of a step runs out while its worker runs.  Nothing else is sure
\* to happen: not an answer of Logic, not one of DataProxy.
Fairness ==
    \A a \in Ask :
        /\ WF_vars(\E s \in step[At[a.who]] : s.of = a /\ StepTimeout(At[a.who], s))
        /\ WF_vars(\E s \in logicStep : s.of = a /\ LogicTimeout(s))

FairSpec == Spec /\ Fairness

-----------------------------------------------------------------------------
(* Properties.                                                             *)

ClientAttr == [seq : Nat, who : Client \cup {NoOne}]
LinkAttr == [seq : Nat, link : 0 .. MaxLink]
ClientShell == [fd : ClientFd, seq : Nat]
LinkShell == [fd : LinkFd, seq : Nat]

\* The variables have the types their declarations give them.
TypeOK ==
    /\ seq \in [Front -> Nat]
    /\ client \in [Front -> [ClientFd -> ClientAttr]]
    /\ step \in [Front -> SUBSET [seq : Nat, shell : ClientShell, of : Ask]]
    /\ link \in [Front -> 0 .. MaxLink]
    /\ logicSeq \in Nat
    /\ inner \in [LinkFd -> LinkAttr]
    /\ logicStep \subseteq [seq : Nat, shell : LinkShell, of : Ask, reqSeq : Nat]
    /\ reading \subseteq [seq : Nat, of : Ask]
    /\ opened \in 0 .. MaxLink
    /\ knocking \subseteq Link
    /\ up \in [Link -> Seq([seq : Nat, of : Ask])]
    /\ down \in [Link -> Seq([seq : Nat, of : Ask, code : Codes, read : BOOLEAN])]
    /\ came \subseteq Client
    /\ asked \in [Client -> 0 .. MaxAsk]
    /\ got \in [Client -> Seq([of : Ask, to : 1 .. MaxAsk, code : Codes, read : BOOLEAN])]
    /\ faults \in 0 .. MaxFault

\* What client c takes its i-th answer for: with HTTP the i-th request, with
\* Access the one whose sequence it carries.
TakenFor(c, i) == [who |-> c, n |-> IF At[c] \in HttpFront THEN i ELSE got[c][i].to]

\* An answer a client gets is the answer to the request it takes it for: never
\* one that was meant for another client, another front or a worker that is
\* gone, and never a late one in the place of the next; and it gets none twice.
AnswerMatches ==
    \A c \in Client : \A i \in DOMAIN got[c] :
        /\ got[c][i].of = TakenFor(c, i)
        /\ \A j \in 1 .. (i - 1) : got[c][j].of # got[c][i].of

\* The client c is connected and waits for an answer.
Waits(c) ==
    /\ \E fd \in ClientFd : Holds(At[c], fd, c)
    /\ Len(got[c]) < asked[c]

\* An HTTP client that stays connected is answered, whatever happens to Logic,
\* to DataProxy and to the connections between: it does not wait for ever.
HttpIsAnswered ==
    \A c \in {c \in Client : At[c] \in HttpFront} : []<>~Waits(c)

\* A step of the front or of Logic works on request a.
UnderWay(a) ==
    \/ \E s \in step[At[a.who]] : s.of = a
    \/ \E s \in logicStep : s.of = a

\* No request occupies a step for ever, at its front or at Logic, whether the
\* one who waits for its answer is still there or not.
StepsEnd == \A a \in Ask : []<>~UnderWay(a)

\* A client that is told its request went well has what DataProxy holds: the
\* front looks for an error in the answer of Logic before it says so.
OkMeansRead ==
    \A c \in Client : \A i \in DOMAIN got[c] : got[c][i].code = "ok" => got[c][i].read
=============================================================================
