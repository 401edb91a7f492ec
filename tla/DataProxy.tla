----------------------------- MODULE DataProxy -----------------------------
(***************************************************************************)
(* One worker of the DataProxy, its links to Redis and to the DbAgents     *)
(* (CmdDataProxy and its steps, RedisStep lists of OssWorker, CmdDbOper).  *)
(*                                                                         *)
(* A request names one record, kept in Redis and in the database.  A read  *)
(* asks the slave of Redis, on a miss the database, whose value it writes  *)
(* back to the master with an expiry.  A write goes to the master, is      *)
(* answered, then goes to the database.  An update reads the master,       *)
(* merges its field into what it finds and goes on like a write; when it   *)
(* finds nothing only the database is updated.                             *)
(*                                                                         *)
(* A record is a string value of Redis; all requests are about the same    *)
(* one.  Requests that fail their checks, results sent in several parts    *)
(* and cached values that cannot be parsed are not modelled.               *)
(***************************************************************************)
EXTENDS Naturals, Sequences, FiniteSets

CONSTANTS
    Request,    \* the requests that may be made (a bound)
    Field,      \* the fields of a record
    Part,       \* Part[r]: the field an update of request r sets
    Before,     \* the writer of what was stored at the start
    Absent,     \* no record
    Master,     \* the Redis nodes of the record, possibly one and the same
    Slave,
    Kind,       \* the kinds of requests made: subset of Kinds
    KeyTtl,     \* whether key_ttl is configured for the record
    MaxFaults   \* refusals, losses and errors of the environment (a bound)

Reads == {"redisRead", "readEither", "dbRead"}
Writes == {"redisWrite", "writeBoth", "deleteBoth", "updateBoth", "dbWrite"}
Kinds == Reads \cup Writes

ASSUME PartAssumption == Part \in [Request -> Field]
ASSUME BeforeAssumption == Before \notin Request
ASSUME AbsentAssumption == Absent \notin [Field -> Request \cup {Before}]
ASSUME KindAssumption == Kind \subseteq Kinds
ASSUME TtlAssumption == KeyTtl \in BOOLEAN
ASSUME FaultsAssumption == MaxFaults \in Nat

Node == {Master, Slave}
Agent == {"DBAGENT_R", "DBAGENT_W"}
Record == [Field -> Request \cup {Before}]
Value == Record \cup {Absent}
RedisStep == {"read", "write", "forWrite", "writeBack", "setTtl"}

VARIABLES
    asked,      \* asked[r]: the kind of request r, "none" before it arrives
    answers,    \* answers[r]: what its client was sent, in order
    logged,     \* history: the requests with a logged failure of a step
    readNum,    \* m_iReadNum of the StepReadFromRedis of r
    link,       \* the redisAsyncContext of a node; bIsReady of its tagRedisAttr
    listData,   \* listData, listWaitData of a node: the steps, in order of command
    store,      \* the record at a Redis node and whether it will expire
    dbStep,     \* the StepSendToDbAgent of r; m_bNeedResponse
    toAgent,    \* requests on their way to a DbAgent
    fromAgent,  \* its answers on their way back
    db,         \* the record in the database
    applied,    \* history: the requests the database has executed
    faults      \* faults so far

clientVars == <<asked, answers, logged>>
redisVars == <<readNum, link, listData>>
agentVars == <<dbStep, toAgent, fromAgent>>
vars == <<asked, answers, logged, readNum, link, listData, store,
          dbStep, toAgent, fromAgent, db, applied, faults>>

\* A command of a step; what is read back is a record, never an empty result.
Entry == {e \in [step : RedisStep, r : Request, val : Value, reply : {"none", "done", "failed"}] :
            e.step = "writeBack" => e.val \in Record}
Reply == [r : Request, ok : BOOLEAN, val : Value]

Init ==
    /\ asked = [r \in Request |-> "none"]
    /\ answers = [r \in Request |-> <<>>]
    /\ logged = {}
    /\ readNum = [r \in Request |-> 0]
    /\ link = [n \in Node |-> "none"]
    /\ listData = [n \in Node |-> <<>>]
    /\ dbStep = [r \in Request |-> "none"]
    /\ toAgent = [a \in Agent |-> <<>>]
    /\ fromAgent = [a \in Agent |-> <<>>]
    /\ db \in {Absent, [f \in Field |-> Before]}
    /\ \E v \in {Absent, db} : store = [n \in Node |-> [val |-> v, ttl |-> FALSE]]
    /\ applied = {}
    /\ faults = 0

-----------------------------------------------------------------------------
(* What the handlers are made of.                                          *)

Fault == faults < MaxFaults /\ faults' = faults + 1

Respond(r, told) == answers' = [answers EXCEPT ![r] = @ \o told]

\* What a write of kind k makes of the record v.
Merged(k, r, v) ==
    CASE k \in {"redisWrite", "writeBoth", "dbWrite"} -> [f \in Field |-> r]
      [] k = "deleteBoth" -> Absent
      [] k = "updateBoth" /\ v # Absent -> [v EXCEPT ![Part[r]] = r]
      [] OTHER -> v

Command(s, r, v) == [step |-> s, r |-> r, val |-> v, reply |-> "none"]

\* RegisterCallback(identify, step): the lists ld take the command, the first
\* step for a node opens its link.
Registered(ld, n, e) ==
    /\ listData' = [ld EXCEPT ![n] = Append(@, e)]
    /\ link' = [link EXCEPT ![n] = IF @ = "none" THEN "connecting" ELSE @]

\* redisAsyncConnect fails at once.
Refused(n) == link[n] = "none" /\ Fault /\ UNCHANGED <<link, listData>>

AgentFor(k) == IF k \in Reads THEN "DBAGENT_R" ELSE "DBAGENT_W"

\* Error: the answer of the cache is forgotten.
AlwaysNeedResponse(k, hasRedis) == TRUE

\* A write that went to Redis has been answered by the step that did it.
NeedResponse(k, hasRedis) == k \in Reads \/ ~hasRedis

\* StepSendToDbAgent::Emit, after the handler has answered told: SendToNext
\* takes the request or knows no agent.
EmitToAgent(r, k, hasRedis, told) ==
    \/ /\ toAgent' = [toAgent EXCEPT ![AgentFor(k)] = Append(@, r)]
       /\ dbStep' = [dbStep EXCEPT ![r] = IF NeedResponse(k, hasRedis) THEN "answers" ELSE "silent"]
       /\ Respond(r, told)
       /\ UNCHANGED faults
    \/ /\ Fault
       /\ Respond(r, Append(told, "error"))
       /\ UNCHANGED <<toAgent, dbStep>>

-----------------------------------------------------------------------------
(* CmdDataProxy::AnyMessage: a request passes its checks and starts.       *)

Asks(r, k) == asked[r] = "none" /\ asked' = [asked EXCEPT ![r] = k]

\* Error: the read is not counted.
AskReadUncounted(r) ==
    /\ \E k \in Kind \cap {"redisRead", "readEither"} : Asks(r, k)
    /\ \/ /\ Registered(listData, Slave, Command("read", r, Absent))
          /\ UNCHANGED <<answers, faults>>
       \/ Refused(Slave) /\ Respond(r, <<"error", "error">>)
    /\ UNCHANGED <<logged, readNum, store, agentVars, db, applied>>

\* RedisOnly, ReadEither: StepReadFromRedis.  When no step can be registered
\* Emit answers, and then answers once more that memory is short.
AskRead(r) ==
    /\ \E k \in Kind \cap {"redisRead", "readEither"} : Asks(r, k)
    /\ \/ /\ Registered(listData, Slave, Command("read", r, Absent))
          /\ readNum' = [readNum EXCEPT ![r] = @ + 1]
          /\ UNCHANGED <<answers, faults>>
       \/ Refused(Slave) /\ Respond(r, <<"error", "error">>) /\ UNCHANGED readNum
    /\ UNCHANGED <<logged, store, agentVars, db, applied>>

\* RedisOnly, WriteBoth: StepWriteToRedis.
AskWrite(r) ==
    /\ \E k \in Kind \cap {"redisWrite", "writeBoth", "deleteBoth"} :
        /\ Asks(r, k)
        /\ \/ /\ Registered(listData, Master, Command("write", r, Merged(k, r, Absent)))
              /\ UNCHANGED <<answers, faults>>
           \/ Refused(Master) /\ Respond(r, <<"error">>)
    /\ UNCHANGED <<logged, readNum, store, agentVars, db, applied>>

\* UpdateBothWithDataset: StepReadFromRedisForWrite.
AskUpdate(r) ==
    /\ "updateBoth" \in Kind
    /\ Asks(r, "updateBoth")
    /\ \/ /\ Registered(listData, Master, Command("forWrite", r, Absent))
          /\ UNCHANGED <<answers, faults>>
       \/ Refused(Master) /\ Respond(r, <<"error", "error">>)
    /\ UNCHANGED <<logged, readNum, store, agentVars, db, applied>>

\* DbOnly: StepSendToDbAgent.
AskDb(r) ==
    /\ \E k \in Kind \cap {"dbRead", "dbWrite"} :
        Asks(r, k) /\ EmitToAgent(r, k, FALSE, <<>>)
    /\ UNCHANGED <<logged, redisVars, store, fromAgent, db, applied>>

-----------------------------------------------------------------------------
(* Redis: the links of the worker, and the nodes.                          *)

Steps(n) == {listData[n][i] : i \in DOMAIN listData[n]}

\* Callback(c, err, NULL) of every step of a node whose link is gone, and the
\* end of its tagRedisAttr.  A step that has read nothing yet would read again:
\* being registered it would send no command, and it is deleted.
FailSteps(n) ==
    LET again == {e.r : e \in {d \in Steps(n) : d.step = "read" /\ readNum[d.r] = 0}}
        told == {e.r : e \in {d \in Steps(n) : d.step \in {"read", "write", "forWrite"}}} \ again
    IN  /\ answers' = [r \in Request |-> IF r \in told THEN Append(answers[r], "error") ELSE answers[r]]
        /\ readNum' = [r \in Request |-> IF r \in again THEN readNum[r] + 1 ELSE readNum[r]]
        /\ logged' = logged \cup {e.r : e \in {d \in Steps(n) : d.step \in {"writeBack", "setTtl"}}}
        /\ listData' = [listData EXCEPT ![n] = <<>>]
        /\ link' = [link EXCEPT ![n] = "none"]

RedisConnect(n) ==
    /\ link[n] = "connecting"
    /\ link' = [link EXCEPT ![n] = "ready"]
    /\ UNCHANGED <<clientVars, readNum, listData, store, agentVars, db, applied, faults>>

RedisConnectFails(n) ==
    /\ link[n] = "connecting"
    /\ Fault
    /\ FailSteps(n)
    /\ UNCHANGED <<asked, store, agentVars, db, applied>>

RedisDisconnect(n) ==
    /\ link[n] = "ready"
    /\ Fault
    /\ FailSteps(n)
    /\ UNCHANGED <<asked, store, agentVars, db, applied>>

\* GET, SET or DEL, EXPIRE: the record after the command of e at a node.
After(e, s) ==
    CASE e.step \in {"write", "writeBack"} -> [val |-> e.val, ttl |-> FALSE]
      [] e.step = "setTtl" -> [s EXCEPT !.ttl = (s.val # Absent)]
      [] OTHER -> s

\* A node executes the next command it has received, or refuses it.
RedisExecutes(n) ==
    /\ link[n] = "ready"
    /\ \E i \in DOMAIN listData[n] :
        LET e == listData[n][i] IN
        /\ e.reply = "none"
        /\ \A j \in 1 .. i - 1 : listData[n][j].reply # "none"
        /\ \/ /\ store' = [store EXCEPT ![n] = After(e, @)]
              /\ listData' = [listData EXCEPT ![n][i].reply = "done",
                    ![n][i].val = IF e.step \in {"read", "forWrite"} THEN store[n].val ELSE @]
              /\ UNCHANGED faults
           \/ /\ Fault
              /\ listData' = [listData EXCEPT ![n][i].reply = "failed"]
              /\ UNCHANGED store
    /\ UNCHANGED <<clientVars, readNum, link, agentVars, db, applied>>

RedisReplicates ==
    /\ store[Slave] # store[Master]
    /\ store' = [store EXCEPT ![Slave] = store[Master]]
    /\ UNCHANGED <<clientVars, redisVars, agentVars, db, applied, faults>>

RedisExpires ==
    /\ store[Master].ttl
    /\ store' = [store EXCEPT ![Master] = [val |-> Absent, ttl |-> FALSE]]
    /\ UNCHANGED <<clientVars, redisVars, agentVars, db, applied, faults>>

-----------------------------------------------------------------------------
(* RedisCmdResult: the first step of a node's list gets its reply.         *)

\* Error: the step that got its reply stays in the list.
PoppedNever(n) == listData

Popped(n) == [listData EXCEPT ![n] = Tail(@)]

\* The step of the kind s that n has replied to, about request r.
Replied(n, s, r) ==
    /\ listData[n] # <<>>
    /\ LET e == Head(listData[n]) IN e.step = s /\ e.r = r /\ e.reply # "none"

Failed(n) == Head(listData[n]).reply = "failed"
Found(n) == Head(listData[n]).val

\* StepReadFromRedis::Callback
ReadCallback(n, r) ==
    /\ Replied(n, "read", r)
    /\ listData' = Popped(n)
    /\ IF ~Failed(n) /\ Found(n) = Absent /\ asked[r] = "readEither"
       THEN EmitToAgent(r, "readEither", TRUE, <<>>)
       ELSE /\ Respond(r, <<IF Failed(n) THEN "error" ELSE "ok">>)
            /\ UNCHANGED <<dbStep, toAgent, faults>>
    /\ UNCHANGED <<asked, logged, readNum, link, store, fromAgent, db, applied>>

\* StepWriteToRedis::Callback: answer, then the database, then the expiry.
WriteCallback(n, r) ==
    /\ Replied(n, "write", r)
    /\ listData' = IF KeyTtl /\ ~Failed(n)
                   THEN [Popped(n) EXCEPT ![n] = Append(@, Command("setTtl", r, Absent))]
                   ELSE Popped(n)
    /\ IF ~Failed(n) /\ asked[r] # "redisWrite"
       THEN EmitToAgent(r, asked[r], TRUE, <<"ok">>)
       ELSE /\ Respond(r, <<IF Failed(n) THEN "error" ELSE "ok">>)
            /\ UNCHANGED <<dbStep, toAgent, faults>>
    /\ UNCHANGED <<asked, logged, readNum, link, store, fromAgent, db, applied>>

\* StepReadFromRedisForWrite::Callback, ExecUpdate
ForWriteCallback(n, r) ==
    /\ Replied(n, "forWrite", r)
    /\ \/ /\ Failed(n)
          /\ Respond(r, <<"error">>)
          /\ listData' = Popped(n)
          /\ UNCHANGED <<dbStep, toAgent, faults>>
       \/ /\ ~Failed(n) /\ Found(n) = Absent
          /\ EmitToAgent(r, "updateBoth", FALSE, <<>>)
          /\ listData' = Popped(n)
       \/ /\ ~Failed(n) /\ Found(n) # Absent
          /\ listData' = [Popped(n) EXCEPT ![n] =
                Append(@, Command("write", r, Merged("updateBoth", r, Found(n))))]
          /\ UNCHANGED <<answers, dbStep, toAgent, faults>>
    /\ UNCHANGED <<asked, logged, readNum, link, store, fromAgent, db, applied>>

\* Error: what was read back expires only when an expiry is configured.
WriteBackForGood(n, r) ==
    /\ Replied(n, "writeBack", r)
    /\ listData' = IF KeyTtl /\ ~Failed(n)
                   THEN [Popped(n) EXCEPT ![n] = Append(@, Command("setTtl", r, Absent))]
                   ELSE Popped(n)
    /\ logged' = IF Failed(n) THEN logged \cup {r} ELSE logged
    /\ UNCHANGED <<asked, answers, readNum, link, store, agentVars, db, applied, faults>>

\* StepWriteBackToRedis::Callback: what was read back expires in any case.
WriteBackCallback(n, r) ==
    /\ Replied(n, "writeBack", r)
    /\ IF Failed(n)
       THEN listData' = Popped(n) /\ logged' = logged \cup {r}
       ELSE /\ listData' = [Popped(n) EXCEPT ![n] = Append(@, Command("setTtl", r, Absent))]
            /\ UNCHANGED logged
    /\ UNCHANGED <<asked, answers, readNum, link, store, agentVars, db, applied, faults>>

\* StepSetTtl::Callback
SetTtlCallback(n, r) ==
    /\ Replied(n, "setTtl", r)
    /\ listData' = Popped(n)
    /\ logged' = IF Failed(n) THEN logged \cup {r} ELSE logged
    /\ UNCHANGED <<asked, answers, readNum, link, store, agentVars, db, applied, faults>>

-----------------------------------------------------------------------------
(* The database, and the step that waits for it.                           *)

\* CmdDbOper::AnyMessage.  Both connections of an agent lead to the master of
\* the database.  Without them there may be no answer.  A failed query is
\* answered in Query, then a read is tried on the other connection, and the
\* last failure is answered once more.
AgentExecutes(a) ==
    /\ toAgent[a] # <<>>
    /\ toAgent' = [toAgent EXCEPT ![a] = Tail(@)]
    /\ LET r == Head(toAgent[a])
           error == [r |-> r, ok |-> FALSE, val |-> Absent]
           success == [r |-> r, ok |-> TRUE, val |-> db]
           answered(s) == fromAgent' = [fromAgent EXCEPT ![a] = @ \o s]
           executed == db' = Merged(asked[r], r, db) /\ applied' = applied \cup {r}
       IN  \/ executed /\ answered(<<success>>) /\ UNCHANGED faults
           \/ a = "DBAGENT_R" /\ Fault /\ executed /\ answered(<<error, success>>)
           \/ /\ Fault
              /\ \/ answered(<<>>) \/ answered(<<error>>)
                 \/ a = "DBAGENT_R" /\ answered(<<error, error, error>>)
                 \/ a = "DBAGENT_W" /\ answered(<<error, error>>)
              /\ UNCHANGED <<db, applied>>
    /\ UNCHANGED <<clientVars, redisVars, store, dbStep>>

\* The link to an agent breaks with what is on it.
AgentLost(a) ==
    /\ toAgent[a] \o fromAgent[a] # <<>>
    /\ Fault
    /\ toAgent' = [toAgent EXCEPT ![a] = <<>>]
    /\ fromAgent' = [fromAgent EXCEPT ![a] = <<>>]
    /\ UNCHANGED <<clientVars, redisVars, store, dbStep, db, applied>>

\* Error: an empty result set is written back.
WritesAnythingBack(m) == asked[m.r] = "readEither" /\ m.ok

\* StepSendToDbAgent::WriteBackToRedis, with the empty result refused by MakeCmd
WritesBack(m) == asked[m.r] = "readEither" /\ m.ok /\ m.val # Absent

\* StepSendToDbAgent::Callback, unless the step is gone.
AgentAnswers(a) ==
    /\ fromAgent[a] # <<>>
    /\ fromAgent' = [fromAgent EXCEPT ![a] = Tail(@)]
    /\ LET m == Head(fromAgent[a])
           told == IF m.ok THEN "ok" ELSE "error"
           quiet == IF dbStep[m.r] = "silent" /\ ~m.ok THEN {m.r} ELSE {}
       IN  \/ /\ dbStep[m.r] = "none"
              /\ UNCHANGED <<answers, logged, link, listData, dbStep, faults>>
           \/ /\ dbStep[m.r] # "none"
              /\ dbStep' = [dbStep EXCEPT ![m.r] = "none"]
              /\ Respond(m.r, IF dbStep[m.r] = "answers" THEN <<told>> ELSE <<>>)
              /\ \/ /\ ~WritesBack(m)
                    /\ logged' = logged \cup quiet
                    /\ UNCHANGED <<link, listData, faults>>
                 \/ /\ WritesBack(m)
                    /\ Registered(listData, Master, Command("writeBack", m.r, m.val))
                    /\ UNCHANGED <<logged, faults>>
                 \/ /\ WritesBack(m)
                    /\ Refused(Master)
                    /\ logged' = logged \cup {m.r}
    /\ UNCHANGED <<asked, readNum, store, toAgent, db, applied>>

\* Error: the timeout is silent when the cache has answered.
SilentTimeout(r) ==
    /\ dbStep[r] # "none"
    /\ dbStep' = [dbStep EXCEPT ![r] = "none"]
    /\ Respond(r, IF dbStep[r] = "answers" THEN <<"error">> ELSE <<>>)
    /\ UNCHANGED <<asked, logged, redisVars, store, toAgent, fromAgent, db, applied, faults>>

\* StepSendToDbAgent::Timeout
Timeout(r) ==
    /\ dbStep[r] # "none"
    /\ dbStep' = [dbStep EXCEPT ![r] = "none"]
    /\ Respond(r, <<"error">>)
    /\ UNCHANGED <<asked, logged, redisVars, store, toAgent, fromAgent, db, applied, faults>>

-----------------------------------------------------------------------------
Callbacks(n) ==
    \E r \in Request :
        \/ ReadCallback(n, r) \/ WriteCallback(n, r) \/ ForWriteCallback(n, r)
        \/ WriteBackCallback(n, r) \/ SetTtlCallback(n, r)

Next ==
    \/ \E r \in Request :
        AskRead(r) \/ AskWrite(r) \/ AskUpdate(r) \/ AskDb(r) \/ Timeout(r)
    \/ \E n \in Node :
        \/ RedisConnect(n) \/ RedisConnectFails(n) \/ RedisDisconnect(n)
        \/ RedisExecutes(n) \/ Callbacks(n)
    \/ \E a \in Agent : AgentExecutes(a) \/ AgentLost(a) \/ AgentAnswers(a)
    \/ RedisReplicates \/ RedisExpires

Spec == Init /\ [][Next]_vars

\* The event loop serves what is ready and its timers fire; a node of Redis
\* that is connected answers (a command to it has no timeout).
FairSpec ==
    /\ Spec
    /\ \A n \in Node :
        WF_vars(RedisConnect(n)) /\ WF_vars(RedisExecutes(n)) /\ WF_vars(Callbacks(n))
    /\ \A r \in Request : WF_vars(Timeout(r))

-----------------------------------------------------------------------------
(* Properties                                                              *)

TypeOK ==
    /\ asked \in [Request -> Kinds \cup {"none"}]
    /\ answers \in [Request -> Seq({"ok", "error"})]
    /\ logged \subseteq Request
    /\ readNum \in [Request -> 0 .. 2]
    /\ link \in [Node -> {"none", "connecting", "ready"}]
    /\ listData \in [Node -> Seq(Entry)]
    /\ store \in [Node -> [val : Value, ttl : BOOLEAN]]
    /\ dbStep \in [Request -> {"none", "answers", "silent"}]
    /\ toAgent \in [Agent -> Seq(Request)]
    /\ fromAgent \in [Agent -> Seq(Reply)]
    /\ db \in Value
    /\ applied \subseteq Request
    /\ faults \in 0 .. MaxFaults

\* A client is told of success at most once, and never after it was told of a
\* failure: whatever the order of timeouts, late answers of a DbAgent, replies
\* and lost links, no second step of a request reports success.
OneVerdict == \A r \in Request : \A i \in DOMAIN answers[r] : answers[r][i] = "ok" => i = 1

\* Nothing is under way any more.
Quiet ==
    /\ \A n \in Node : listData[n] = <<>>
    /\ \A a \in Agent : toAgent[a] = <<>> /\ fromAgent[a] = <<>>
    /\ \A r \in Request : dbStep[r] = "none"

ReportedFailure(r) == r \in logged \/ \E i \in DOMAIN answers[r] : answers[r][i] = "error"

\* A write to both stores is answered before the database has it.  In the end
\* it is there, unless a failure of that request was answered or logged.
AcceptedIsApplied ==
    Quiet => \A r \in Request :
        /\ asked[r] \in {"writeBoth", "deleteBoth", "updateBoth", "dbWrite"}
        /\ ~ReportedFailure(r)
        => r \in applied

\* Requests that go past one of the stores, and updates beside another write,
\* can leave the stores different; nothing in the code keeps them from it.
Orderly ==
    LET done(K) == {r \in Request : asked[r] \in K} IN
    /\ done({"redisWrite", "dbWrite"}) = {}
    /\ done({"updateBoth"}) # {} => Cardinality(done(Writes)) = 1

\* A read may write a value back over that of a later write.  What stays in
\* the cache and is not what the database has then expires, unless a failure
\* of some request was answered or logged.
StaleExpires ==
    /\ Quiet
    /\ Orderly
    /\ store[Master].val \notin {Absent, db}
    /\ \A r \in Request : ~ReportedFailure(r)
    => store[Master].ttl

\* A client acts on its first answer.
Service == INSTANCE RecordService WITH
    DbOnly <- {"dbRead", "dbWrite"},
    CacheOnly <- {"redisRead", "redisWrite"},
    Initial <- Value,
    Effect <- Merged,
    verdict <- [r \in Request |-> IF answers[r] = <<>> THEN "none" ELSE answers[r][1]]

\* Behind the cache, the links and the timeouts there is one service: what was
\* asked is carried out at most once, and success of what only the database can
\* answer is told after the database did it.
OneService == Service!Spec

\* Every request is answered, whatever is refused, lost or late on the way.
EventuallyAnswered == \A r \in Request : asked[r] # "none" ~> answers[r] # <<>>
=============================================================================
