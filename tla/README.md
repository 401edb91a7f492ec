# A verification development for push_quot / Starship

TLA+ modules, TLC configurations and TLAPS proofs about the C++ server
framework "Starship" and the node types built on it. Paths are relative to
`src/code/trunk/`; `OssWorker.cpp` and `OssManager.cpp` are in
`Starship/src/labor/duty/`.

## 1. The system

A node is one **Manager** process and some forked **Worker** processes, each
single-threaded around a libev loop. Nodes of several types (Center, Access,
Interface, Logic, DataProxy, DbAgent) are the same framework with different
plug-ins. A worker is named by its *identify* `ip:port.index`; `ip:port` is the
Manager's listening socket, `index` the worker behind it.

| Component | State | Operations | Interacts with |
|---|---|---|---|
| Worker links (`OssWorker::SendTo`, `AutoSend`, `AddMsgShell`, `StepConnectWorker`, `StepTellWorker`, `CmdToldWorker`) | `m_mapFdAttr`, `m_mapMsgShell`, `m_mapSeq2WorkerIndex`, per connection `ucConnectStatus`, `strIdentify`, `pSendBuff`, `pWaitForSendBuff` | open, handshake, map, replace, send, flush, destroy | the peer's Manager and worker; every Cmd and Step that sends |
| Worker connection table | `m_mapFdAttr`, watchers, `ulSeq`, `m_mapInnerFd` | `CreateFdAttr`, `IoCallback`, `IoTimeout`, beats, `DestroyConnect` | Manager (passes descriptors), kernel |
| Worker steps and sessions | `m_mapCallbackStep`, `m_mapCallbackSession` | register, delete, call back, time out | Cmd and Step plug-ins |
| Worker Redis links | `m_mapRedisAttr`, waiting steps | connect, command, result, disconnect | hiredis |
| Worker HTTP/WebSocket | codec state of a connection | parse, dispatch, close | clients |
| Manager | `m_mapWorker`, `m_mapWorkerFdPid`, `m_mapFdAttr`, restart counts | fork, restart, check, pass descriptors, report, graceful exit | workers (socketpairs), Center |
| Center registry (`Center/src`) | `m_mapNodeInfo`, node counter, rows of the database | register, report, disconnect, notify | Managers of all nodes; routing tables of their workers |
| DataProxy (`DataProxy/src/CmdDataProxy`) | steps under way; Redis; the database | cached read, write to both, update, write back | Redis, DbAgent |
| DbAgent, Access, Logic, Interface | requests under way | forward and answer | the above |
| Codecs, storage operators, `loss`, protocol | none between calls | encode, build, parse | all |

What is hard here. *Interleaving*: the handshake spans four messages, three
processes and a descriptor passed over a socketpair, and two workers may start
it towards each other at once. *Failure*: each step may be refused, reset, or
meet a restarted worker with empty maps. *Timeouts*: a step resends and gives
up; late answers are still read. *Bookkeeping by identity*: connections,
shells and routes are erased by identity, whoever holds it by then.
*Caching*: the DataProxy writes two stores with no transaction between them.

What makes each part correct:
- links: a mapped identity leads to that worker; a message is dispatched at
  most once, in order, after the peer was told; what waits is flushed;
- connection table: a shell never reaches a later user of its descriptor; an
  idle or half-open connection goes at last; every watcher is freed once;
- steps: a step is called back or times out, exactly once;
- Manager: a dead worker is replaced under the same index; no descriptor leaks;
- Center: identifiers are unique, a live registered node knows the nodes it
  needs, one that leaves is forgotten by those that use it;
- relays (Interface, Access, Logic): an answer is to the request its client takes it for, and comes once, an HTTP client that
  stays is answered, no step stays registered;
- DataProxy: a request is answered, with one verdict; a write that was accepted reaches the
  database or its failure is reported; a stale value in the cache expires.

`PROJECT.json` lists the hazards at their lines.

## 2. Modules

### WorkerLink
The connection one worker opens to another and what travels on it.

| TLA+ | Code |
|---|---|
| `fdAttr[w][c]` | the `tagConnectionAttr` of worker w for its end of c: `open` (has an entry), `status` (`ucConnectStatus`, a byte), `identify` (`strIdentify`), `wait` (`pWaitForSendBuff`) |
| `msgShell[w][p]` | `m_mapMsgShell` of w |
| `carrier[c]` | who holds the accepted end: nobody yet, the Manager, the socketpair (`passed`), the worker |
| `step[c]`, `tries[c]` | the `StepConnectWorker`/`StepTellWorker` of c and its `m_iTimeoutNum` |
| `wire[w][c]` | the bytes on their way to w on c, as messages |
| `opener`, `target`, `nextId`, `got` | history: who opened c towards whom, what was sent and dispatched |

| Action | Code |
|---|---|
| `SendMapped`, `Reply`, `AutoSend` | the three ways `SendTo` is called: by identify (mapped or not), by shell |
| `IoWrite`, `ConnectFails` | the first write event of the opener, which starts `StepConnectWorker`; a failed `connect()` |
| `ManagerTransfer`, `ManagerClose`, `FdTransfer` | `OssManager::DisposeDataAndTransferFd`, the Manager's closing paths, `OssWorker::FdTransfer` |
| `RecvRspConnect` ... `RecvEof` | `OssWorker::RecvDataAndDispose`, one action per kind of message, with the status assignment at 370-374 and the Cmd or Step it dispatches to |
| `StepTimeout` | `StepTimeout` of the worker with `Timeout` of the two steps: resend or give up |
| `Reset`, `RestartWorker` | the network; a worker that dies and is forked again |

`AddMsgShell` is modelled with what the build does with the erased iterator:
`DestroyConnect` of the replaced connection erases the map entry of its
identity through `DelMsgShell`; when that is the entry `AddMsgShell` is about to
overwrite, the assignment goes to the erased node and the identity ends up
unmapped. `DestroyConnect` erases the mapping of the identity the closing
connection carries, whatever that identity is mapped to.

### OrderedLink
What a connection promises its users: each direction is a queue which loses
nothing in its middle. `WorkerLink` implements it under the mapping `Link` (what
is pending is what is on the wire followed by what waits): the property `Ordered`,
checked and proved; `MessageStream` implements it one level below. The application messages on the wire are picked by `Chosen` of
module `Selection`, which is the library's `SelectSeq` written as a recursive function of the prefix, so that it can
be proved about.

### NodeRegistry
The Center's registry, the connection each node's Manager keeps to the Center and
the routes the nodes learn.

| TLA+ | Code |
|---|---|
| `nodeInfo`, `row` | `NodeSession::m_mapNodeInfo` (the node's `node_id`, 0 for no entry) and its row of `tb_nodeload_status` |
| `shell`, `identify`, `stage` | `m_mapMsgShell`, `strIdentify` and the life of a connection at the Center: `connecting`, `manager` (accepted, not yet passed to the worker), `open`, `auto` (opened by `AutoSend` towards a node), `dead` |
| `toCenter`, `toNode` | what is under way on each connection |
| `owner`, `center`, `nodeId` | who opened a connection; `m_mapCenterMsgShell` and `m_uiNodeId` of the Manager |
| `routes` | the nodes the workers of a node have identifies of (`AddNodeIdentify` in `StepNodeNotice`) |

| Action | Code |
|---|---|
| `CenterTransfer`, `CenterRefuses` | the Center's Manager passes the descriptor after `REQ_CONNECT` or closes the connection |
| `RecvTell`, `RecvRegister`, `RecvReport` | `CmdToldWorker`, `CmdNodeReg`, `CmdNodeReport` with the notices `regNode` sends |
| `RecvEof`, `CenterDrops` | `DestroyConnect`, which runs `CmdNodeDisconnect` through `MsgShellNotice` |
| `CenterRestart` | the Center's worker is forked again |
| `Connect`, `IoWrite`, `Report`, `RestartWorker` | `RegisterToCenter`/`ReportToCenter` through `AutoSend`, the first write event, the periodic report, a new worker |
| `DisposeDataFromCenter`, `ManagerEof`, `ManagerDrops` | what the Manager reads from the Center, and its closing paths |

A handler of the Center calls others (a registration replaces a mapping, which
destroys a connection, which takes a node out and notifies), so each is a function of the record
`Center` of the Center's variables, composed as the code composes them, and an action
assigns the result (`Becomes`). `AddMsgShell` has the erased-iterator behaviour described under
`WorkerLink`.

### NodeDirectory
What the registry promises, without connections, requests, handshakes or rows: the registered nodes
with their identifiers (`id`), who is in contact, what each node has been told and not read (`news`), and what it
has read (`nodeId`, `routes`). `NodeRegistry` implements it (`IsDirectory`) under this mapping:

| Abstract | Concrete |
|---|---|
| `id` | `nodeInfo` |
| `contact` | `InContact`: the nodes whose connection is the one the Center has mapped |
| `news` | `NoticesTo`: what is under way on the node's connection, the answer to the handshake left out |
| `Silent` | `"db" \in Faults`: `DelNode` tells nobody when its statement fails |

A node that registers while an older connection of it is mapped leaves with that one in the same handler
(`EnterAndLeave`), so the nodes that need it are told both. A node out of contact is told nothing; that is all the
directory says of the routes such a node keeps too long. The answer to a registration may be lost
(`Enter`'s `answer`), for a node can register through a connection it has already given up.
### DataProxy
One worker of the DataProxy between its clients, the Redis nodes of one record and the
DbAgents in front of the database.

| TLA+ | Code |
|---|---|
| `asked`, `answers` | the requests of the clients and the `Response`s sent to them |
| `link[n]`, `listData[n]` | the `redisAsyncContext` of a node; `listWaitData` and `listData` of its `tagRedisAttr`, in the order of the commands, with the reply once Redis has one |
| `readNum` | `m_iReadNum` of `StepReadFromRedis` |
| `dbStep` | the `StepSendToDbAgent` of a request, with `m_bNeedResponse` |
| `toAgent`, `fromAgent` | the link to the DbAgent of a type |
| `store`, `db` | the record at each Redis node, and whether it will expire; the record in the database |
| `logged`, `applied` | history: failures only logged, requests the database executed |

| Action | Code |
|---|---|
| `AskRead`, `AskWrite`, `AskUpdate`, `AskDb` | `CmdDataProxy::AnyMessage` with the `Emit` of the first step |
| `ReadCallback`, `WriteCallback`, `ForWriteCallback`, `WriteBackCallback`, `SetTtlCallback` | `Callback` of the Redis steps with what it starts (`NextStep`, `ExecUpdate`, `StepSetTtl`) |
| `RedisConnect`, `RedisConnectFails`, `RedisDisconnect` | `OssWorker::RedisConnect`, `RedisDisconnect`, `RedisCmdResult` without a reply: every step of the node is called back with an error (`FailSteps`) |
| `AgentExecutes`, `AgentAnswers`, `Timeout`, `AgentLost` | `CmdDbOper::AnyMessage`; `Callback` and `Timeout` of `StepSendToDbAgent`; the link to the agent |
| `RedisExecutes`, `RedisReplicates`, `RedisExpires` | Redis (external) |

A value is a function from fields to the request that wrote them, so that a merge and an
overwrite can be told apart. There is one database: `FetchOrEstablishConnection`
opens the connection it keeps for the slave with `bIsMaster` true as well
(`CmdDbOper.cpp:294`), so every query goes to `master_host`. A node type has one worker in
`release/conf`, so one link per agent type stands for its workers. `Slave` and `Master` of
Redis replicate at any time; a configuration with one node for both only has fewer behaviours.

### RecordService
What the DataProxy promises, without a cache: requests arrive, the database carries each out at most once
(`Execute`, as the kind that was asked), and each gets at most one verdict (`Succeed`, `Fail`), in either order, except
that success of a request for the database alone (`DbOnly`) comes after its execution; a request for the cache
alone never gets there. What a client was told is in `DataProxy` a sequence of answers, in `RecordService` the first
of them. `DataProxy` implements it (`OneService`): registering steps, commands and replies of Redis, replication,
expiry, the links and lost messages are stutters, the callbacks and timers are verdicts, and `AgentExecutes` is the
execution. An error is not a promise: a request whose timer fired may be carried out afterwards.
### MessageStream
The bytes of one direction of one connection, below WorkerLink: what `SendTo` accepts, through
`pWaitForSendBuff`, `pSendBuff`, the write event and the kernel, to `pRecvBuff` and the decoding loop.

| TLA+ | Code |
|---|---|
| a unit `<<m, i>>` | the head (i = 0) or a part of the body of message m; `Body[m]` is 0 for a heart beat |
| `stage`, `waitBuff`, `sendBuff`, `watched` | `ucConnectStatus` in four steps, `pWaitForSendBuff`, `pSendBuff`, `EV_WRITE` in the watcher of the sending end |
| `wire`, `Room` | the two kernels' buffers, and what they hold |
| `recvBuff`, `ahead`, `body` | `pRecvBuff`, by how much its read index has passed its write index, the size of `oInMsgBody` of the loop |
| `sent`, `disposed` | history: what `SendTo` accepted and what `Dispose` was given |

| Action | Code |
|---|---|
| `AutoSend`, `SendTo`, `Reply` | the three ways a message enters: with a new connection, through `SendTo`, and the answer `RecvDataAndDispose` writes itself (which ignores what `WriteFD` left) |
| `FirstIoWrite`, `IoWrite`, `Ready` | `OssWorker::IoWrite` and the flush by `StepTellWorker::Callback` |
| `ReadFD`, `Decode` | `CBuffer::ReadFD`, and one round of the loop of a worker or, with `Receiver = "manager"`, of the Manager |
| `CloseSender`, `CloseReceiver` | `DestroyConnect` at either end |

`MessageStream` implements `OrderedLink` as well (`Ordered`): the buffers, the write events and the partial
reads together are the queue `WorkerLink` takes a connection for. The two modules therefore meet at
the same abstract specification, WorkerLink from above (who sends what on which connection) and MessageStream from below.

### IdleTimer
The connection table of a worker as its timers see it.

| TLA+ | Code |
|---|---|
| `fdAttr[f]` | `m_mapFdAttr`: the connection on descriptor f with its sequence (0: closed), HTTP or not, ready, in `m_mapInnerFd`, `dKeepAlive`, and the ticks since `dActiveTime` |
| `timer[s]` | the `ev_timer` made for sequence s: armed in the loop, held by a `StepIoTimeout`, or freed; `left` ticks to go; its data names the descriptor |
| `mute` | the connections whose other host has gone without a word |

| Action | Code |
|---|---|
| `Accept`, `ConnectWorker`, `ConnectHttp`, `AddInnerFd`, `Traffic`, `HttpMessage`, `Close` | what opens, uses and closes a connection, with `AddIoTimeout` where it is called |
| `Expire`, `Answer`, `BeatTimeout` | `IoTimeoutCallback`; `StepIoTimeout::Callback` and `Timeout`, all of them through `IoTimeout(watcher, bCheckBeat)` |
| `Tick` | time; it waits for timers that are due, as libev runs them before it sleeps |

`DestroyConnect` neither stops nor frees the timer. A timer thus outlives its connection, and may find its
descriptor taken by another one: what tells them apart is the sequence.

### Supervisor
The Manager and its workers.

| TLA+ | Code |
|---|---|
| `proc[p]`, `signalled` | the processes: running, hanging, dead and not waited for; those SIGINT waits for |
| `copies[p]` | the workers whose data end at the Manager `p` inherited when it was forked: a child closes the ends of its own pairs and the listening sockets only |
| `worker[p]` | `m_mapWorker`: index, control and data descriptor, and whether the load is the idle one |
| `fdPid[f]` | `m_mapWorkerFdPid` |
| `sock[f]` | what the number f is in the Manager: free, its end of a worker's socket pair, or another connection |
| `task` | the stop or restart request that is waited for, and the checks made |

| Action | Code |
|---|---|
| `Crash`, `Hang`, `Recover`, `LoseManager`, `Report`, `OtherMessage` | the workers: faults, `FdTransfer` of a worker that reads the end of its data descriptor (the Manager has closed its end and no living process has a copy of it), `CheckParent` with `SetWorkerLoad`, an answer that leaves `DisposeDataFromWorker` without a return value (the control connection is then kept or closed) |
| `ReadEof`, `ChildTerminated`, `CheckWorker` | the end of a stream; SIGCHLD with `RestartWorker`; `m_iWorkerBeat` and SIGINT |
| `OpenConn`, `CloseConn`, `FdTransfer` | connections of the Manager, which take the lowest free number |
| `AddWaitToExitTaskEvent`, `WaitToExit` | stop and restart: `CheckWorkerLoadNullExit`, `CheckWorkerLoadNullRestartWorkers` |

The death of a worker is seen twice, in either order. A number freed by the end of file may be a new
connection's, or a new worker's, when SIGCHLD comes to remove the entries that name it;
`RestartWorker` closes what the numbers are by then, and `std::map::insert` keeps an entry that is there.
What it closes may be the data end of a worker that lives. That worker exits on the end of file and is forked again,
unless a sibling that was forked in between keeps a copy of the end: then it is `Deaf(i)`, as long as the sibling lives.

### RequestRelay
A client's request from a front worker (Interface over HTTP, Access over the product's own protocol) to Logic,
which asks DataProxy, and the answer on its way back: three workers and the connections between them. It stands on the other modules:
an inner connection is the pair of queues `OrderedLink` promises, and DataProxy is the answers it may
give by module `DataProxy`.

| TLA+ | Code |
|---|---|
| `seq[f]`, `client[f][fd]`, `step[f]` | of a front worker: `m_ulSequence`, the clients' entries in `m_mapFdAttr`, `m_mapCallbackStep` |
| `Shell`, `Step`, `LogicTask` | `tagMsgShell` (descriptor and sequence of its connection), and what a step keeps of its request |
| `link[f]`, `up[k]`, `down[k]`, `knocking` | the front's connection to Logic, what travels on it, and what Logic was not handed yet |
| `logicSeq`, `inner[fd]`, `logicStep`, `reading` | the same of the Logic worker, and what DataProxy was asked |
| `came`, `asked`, `got` | history: who connected, what they asked and got |

| Action | Code |
|---|---|
| `Connect`, `Disconnect` | `FdTransfer`, `DestroyConnect` of a client |
| `Relay`, `HttpRefused`, `TcpUnsent` | `StepFromClient::Emit` and `StepDataProxyEvent::Emit` with `AccessToLogic`: sent on, refused with an answer (Interface), or not sent and nobody told (Access) |
| `Receive`, `StepTimeout` | `Dispose` of an answer: the step of its sequence answers its shell, if that lives, and is deleted; `Timeout`, with an answer at Interface only |
| `LogicAccepts`, `Serve`, `Unloaded`, `Refuse` | Logic's `FdTransfer`; `StepQuotConfigGet` asks DataProxy; no handler for the command; a refusal, which kills the worker (`StepQuotConfigGet.cpp:88`) |
| `DataProxyAnswers`, `LogicTimeout` | `DataProxyClient::HandleEvent` and `Timeout`, which both end in `OnQuotConfigGet` and `SendAck` |
| `FrontLoses`, `LogicLoses`, `RestartFront`, `RestartLogic` | an end of file, or a connection that is cut; `RestartWorker` |

A request is known by who made it and its number, which no message of the code carries: it is what the sequences have
to agree on. An HTTP client waits for an answer before it asks again (no pipelining is assumed),
and takes the next answer for that request. A client of Access asks as often as it likes: the checks of its login
at `OssWorker.cpp:408` and 432 never end the connection (see "Further observations"). It has several requests out,
some never get an answer (`TcpUnsent`, the silent `Timeout`), and what tells the others apart is the sequence of its own request that
`StepFromClient` puts back on each answer: `to` of an answer is the client's number for that
request. That a client numbers its requests differently is assumed. A request of Interface always parses, as `QuotConfigGetReq` has no fields; one of Access is what the client sent.
### MC modules
`MCWorkerLink`, `MCNodeRegistry`, `MCDataProxy`, `MCMessageStream`, `MCIdleTimer`, `MCSupervisor` and `MCRequestRelay` give the constants values for TLC.

## 3. Runs

| Run | Question | Bounds |
|---|---|---|
| `link_faults` | Under every fault (refusals, closes, resets, restarts, handshake timeouts): is a mapped identity live and right (`ShellLive`), is no message copied (`AtMostOnce`), is a ready connection one whose peer was told (`ReadyMeansTold`)? | 2 workers, both sending, 2 connections, 2 messages each, 1 resend |
| `link_prompt` | When answers arrive within a step's timeout, whatever fails: does what waits leave with the handshake (`WaitFlushed`), is data dispatched only after the identity is known (`ToldBeforeData`), in order (`Ordered`), at last (`EventuallyServed`)? | the same, no timeouts |
| `link_late` | expected violation: `WaitFlushed` with a late `RSP_TELL` | 3 resends as in the code |
| `registry_reconnect` | However often connections are lost and reopened and the Center restarts: is a registered node whose connection is mapped told of every registered node it needs (`RoutesCover`), is its row online under its own identifier (`RowIsOnline`)? Is the registry the directory (`IsDirectory`)? | 2 nodes, one needing the other, 3 connections, notices taken before the next is sent (`MaxQueue` 0) |
| `registry_learn` | Does a connected node learn the routes its restarted workers lack (`RoutesCover`, `RoutesLearnt`)? | 2 nodes that need each other, 3 connections, restarts only while no more than one message is on its way to a node |
| `proxy_answers` | Is every request answered (`EventuallyAnswered`), success told at most once and only first (`OneVerdict`), a write that was accepted in the database unless a failure was reported (`AcceptedIsApplied`), and does what the cache keeps and the database no longer has expire (`StaleExpires`)? Is it one service (`OneService`)? | 2 requests of all 8 kinds, 2 faults |
| `stream_worker` | However writes are cut short and reads end inside a message: are messages found where they begin (`Framed`), is the write event set exactly while something is unwritten (`ServedByEvents`), is the whole a queue (`Ordered`) in which nothing stays behind (`EventuallyDisposed`)? | 4 messages of 1, 1, 2 and 3 units, 3 units in the kernel |
| `stream_manager` | expected violation: `Framed` of a Manager that reads | the same |
| `conn_beat` | With descriptors reused while timers and beats are under way: does a timer close its own connection only (`ClosesOnlyItsOwn`), is no watched connection idle too long (`IdleBound`), which lose their timer (`OnlyTheseAreForgotten`), are timers freed (`OrphansFreed`), half-open connections closed (`MuteIsClosed`)? | 1 descriptor used by 3 connections, timeouts of 1, 3 and 2 ticks, `dKeepAlive` 0, 2 and 5 |
| `supervisor` | In whatever order deaths are seen, numbers reused and forks fail: has an index one process at most (`OneProcessPerIndex`), is a mapped descriptor its worker's own (`MappedIsOwn`), is every index served again (`EveryIndexServed`), every stop or restart request answered (`RequestAnswered`)? | 2 workers and every fault, or 3 that die, stall and fail to fork; 3 process and 6 descriptor numbers, 2 checks |
| `relay` | When two fronts number their requests alike at one Logic worker, whatever fails, is cut or restarted: is an answer to the request its client takes it for, and the only one to it (`AnswerMatches`), is an HTTP client that stays answered (`HttpIsAnswered`), is every request over at last (`StepsEnd`)? | 2 fronts, a client each, 2 requests of a client and 3 of both, 2 connections, every fault, 1 cut or kill |
| `relay_ok` | expected violation: `OkMeansRead`, success is told only of what DataProxy returned | DataProxy answers errors |

Why the bounds are enough for WorkerLink: two workers and two connections give the simultaneous
open, the reconnection after a failure with the old connection still closing,
and the replacement of one connection by the other; a third connection repeats
one of these. Two messages per worker distinguish waiting, overtaking and copying. One
resend gives the duplicate `REQ_CONNECT`, its `SYS_ERROR` answer and the status it
leaves; `link_late` keeps the code's three. The bound on messages
(`MaxMsg`) and on connections (`Conn`) is in the guards of `SendOn` and `AutoSend`. Connections
are interchangeable in the safety runs (`ConnSymmetry`, used in `link_faults` only, which checks
invariants). The systems stop when the bounds are used up, hence `CHECK_DEADLOCK FALSE`.

The `timeout` fault is absent from `link_prompt` because the four properties there are
false with it: a late answer and a duplicated request put the status byte back
or past the handshake. `link_late` is the shortest such history. Read together the
two runs say what the handshake rests on: its answers arriving within `step_timeout`.

**Fairness** (`WorkerLink!Fairness`): a write event, a passed descriptor, a
readable socket and an expired timer are served at last, because each process
runs a libev loop that does not block. Nothing is assumed of senders, of the
network or of faults.
For NodeRegistry: in `registry_reconnect`, three connections let one node lose its connection, come back on a second
while the Center still has the first, and leave one for `AutoSend` or for the other node; two
nodes with one needing the other distinguish who registers first. One report and one registration
under way per connection are bounds (`Pending`). `RoutesCover` is not claimed with failing database statements,
which break it (section "Disagreements"); `RowIsOnline` is proved with them. In `registry_learn` both nodes need each other and a node may lose a connection because a report
overtakes the handshake (`CenterRefuses`) and come back on the third, so that both are connected after that; no other fault but
restarts of workers is allowed there. Connections that are not used yet are alike, and the constraint `InOrder` has them opened in
their order, which takes no behaviour away but for names (whoever may open one may open the next in order). `MCCenterLoop` is the weak fairness of `CenterRead` with its guard (`Readable`) written out for
`ENABLED`, which takes TLC ten times as long. Its **fairness** is that of event loops
(`CenterTransfer`, `CenterRead`, `IoWrite`, `DisposeDataFromCenter`, `ManagerEof`) and of the
Manager's periodic timer (`PeriodicTaskCallback`: `Connect`, `Report`). `RoutesLearnt` is conditional on both nodes
staying connected, as connections are bounded; restarts and drops are never fair.

For DataProxy: two requests give a read that fills the cache and a write that overtakes it, and two writes of
different kinds; the answers concern one request and the steps of another on the same lists. One or two faults
reach every error path; a second one meets a step that an earlier failure has left behind. `KeyTtl` is FALSE,
so the cache would keep a value for good but for the expiry of the write-back.
Its **fairness**: events and timers of the worker's loop are served
(`RedisConnect`, `Callbacks`, `Timeout`), and a Redis node whose link is up answers
(`RedisExecutes`): the code has no timeout for Redis commands (`OssWorker.cpp:1452`), so without this
a request can wait for ever. Nothing is assumed of the DbAgents: the step's timer covers them.
`StaleExpires` holds under `Orderly`: requests to one store only, or an update with another write beside
it, leave different values in the two stores without any expiry or report. An update
reads, merges and writes in separate commands, and its `SET` clears the expiry of an old value
that was written back; nothing in the code forbids either, so no property claims it.

For MessageStream: a kernel that holds three units cuts the longest message and takes a short one with part of the next;
two messages without a body tell a stale `oInMsgBody` from a fresh one, and four messages fill each of the buffers
at once. Its **fairness** is that of the two event loops: a writable or readable socket is served, and a loop decodes
what it has read; sending and closing are not fair, only noticing that the other end has closed is. `EventuallyDisposed` excepts `Unserved`, the
state only a direct answer leads to (hazard at `OssWorker.cpp:460`).

For IdleTimer: one descriptor with three sequences gives a timer that meets the next user of its number, and the one
after; more descriptors would only run side by side. Timeouts are small and different from each other, with dKeepAlive
below and above the idle timeout. `MaxIdle` is above any bound claimed, so idle time saturates only where nothing
limits it. Its **fairness**: time passes, and timers that are due run.

For Supervisor: the run starts in two states (`MCSpec`). From two workers, with the third index lost and its descriptor numbers
held by connections that last, everything happens: a dead one's numbers can go to the other's successor or to a connection, and three
process numbers keep a dead process while its index is forked again. From three workers only deaths, failing forks, stalls and answers happen
(`Calm`, by the action constraint `AsItStarted`, which no fair step offends): enough for a worker to be forked between the two others and to keep the data end of one of them open (`Deaf`, which two
workers do not reach). Descriptor numbers are scarce on purpose: reuse happens at once.
`WaitMax` is 6 in the code; 2 already tells an answer before the limit from one at it. Its **fairness**: SIGCHLD is handled, a running worker notices the end of file
on its data descriptor once nobody has the other end (not merely once the Manager has closed it), the periodic check comes to a worker the Manager does not hear, and the one of the stop or restart
task runs. A worker that hangs need not come back, and faults are not fair.

For RequestRelay: with one descriptor at Logic, the next front's connection always takes the number of the last one's, which is
the worst case for shells; two fronts give two requests of equal sequence, two requests of one client
an answer that comes in the place of the next, and, over Access, two that are out at once or one that is lost before the other. The constraint `Few` bounds the
requests to three in all: either client makes two, though not both do (no fair action is a request, so fairness keeps its meaning). With two connections, each front may have one, or one of them a second after a cut.
`MaxAsk`, `MaxLink` and `MaxFault` are the bounds, and only cuts and kills are counted as faults: refusals and errors may occur any number of times.
A descriptor of a front that two clients use one after the other is left to the proof, which is for any clients and descriptors.
Its **fairness** is that of step timers (`StepTimeout`, `LogicTimeout`) and of nothing else: not of Logic, of DataProxy or of any
connection. Clients come and go, hence `CHECK_DEADLOCK FALSE`.

### Disagreements with the code's own comments
- `Attribution.hpp:103` promises that `pWaitForSendBuff` is sent as soon as the
  connection is established. `StepTellWorker::Callback` is the only place that
  flushes it; an answer after `StepTellWorker::Timeout` gave up makes the connection ready
  (`OssWorker.cpp:370-374`) and flushes nothing (`link_late`).
- `OssManager.cpp:406` says why a message without a body is not parsed, and 445 skips `oInMsgBody.ByteSize()` all the same;
  the variable is declared outside the loop. A beat read together with a message before it that has a body
  makes the Manager skip that length again (`stream_manager`).
- `ModuleQuotConfigGet.cpp:112` (Interface) says the packet of the logic layer may be a failure, and looks for one. `StepQuotConfigGet::OnQuotConfigGet`
  (Logic, 65) never puts one in: it ignores its `oErrInfo`, so DataProxy's error, or its silence, is passed on as OK with nothing in it (`relay_ok`).
  With the timeouts of `release/conf` (Logic 1.5 s, Interface 3.0 s, Access 2.5 s) this OK arrives before the front's own timeout.

Further observations, without a run of their own:
- `CmdEx.cpp:84` says errors are handled, and the packet sent back, in the Step. A request that does not parse, or cannot be sent to DataProxy,
  gets there before `m_pAck` is made: `SendAck` (Logic's `StepQuotConfigGet.cpp:88`) dereferences NULL, and the worker dies with all its other requests (`Refuse` of `RequestRelay`).
- `NodeRegMgr.cpp:73` says the registrant is sent the notices of the other servers. When the registration
  on a new connection fails in the database and a report left over on the old one then
  registers the node, they go to the old connection, and the node, registered and
  connected, is never told: with `"db"` in its `Faults`, `registry_reconnect` finds a history against `RoutesCover`.
- `OssManager.hpp:203` says a worker that has not reported for `m_iWorkerBeat` is restarted. It is sent SIGINT, which it
  takes in its event loop: one that hangs in a handler never gets there, and is `Hung` in `EveryIndexServed`.
- `AddMsgShell` (`OssWorker.cpp:1947-1957`) unmaps the identity it was called to map when it replaces another
  connection of that identity; the next `SendTo` opens one more connection.
- `StepSendToDbAgent.hpp:62` says a write of both stores that Redis has answered is not answered
  again; `Emit` (71, 77) and `Timeout` (153) do not look at `m_bNeedResponse`. `OneVerdict` is what does hold.
- `StepReadFromRedis.cpp:72` reads from the master after the slave has failed, and `Callback` (89) does so only
  while `m_iReadNum` is 0, when `Emit` has counted the first read already: the master is never asked.
- Workers that die together: `RestartWorker` of one is given the number freed by the end of file of the other,
  `insert` keeps the dead one's entry, and reaping the other closes the new worker's descriptor. The worker is to exit then, and is forked
  again (`EveryIndexServed`): the comment at `OssWorker.cpp:636` says "manager与worker通信fd已关闭，worker进程退出".
  A third worker that was forked before the reaping has a copy of the Manager's end, though (`OssManager.cpp:1494`
  closes its own pair's only), and then there is no end of file: the worker lives and reports, `CheckWorker` is
  content, and no client reaches it until that sibling dies (`Deaf`).
- `SendToWorkerWithMod` divides by `m_mapWorker.size()`, which is 0 when every fork has failed.
- `CheckWorker` compares all beats with one clock: a Manager that stands still for 41 s signals every worker, as it runs its timers before it
  reads. It is off altogether when the refresh interval is not positive.
- `ResetTimeout` (`OssWorker.cpp:1516-1522`) gives a relative timer an absolute time; a step whose deletion was delayed never
  times out again.
- `OssWorker.cpp:1000` leaves the rest of `listWaitData` behind when hiredis refuses a command; 1084 frees those steps without a callback.
- The comments at `OssWorker.cpp:408` and 432 say that a client connection which sends without having logged in is closed. Neither check
  does: at 408 `ulMsgNum < 0` compares an unsigned number (`Attribution.hpp:112`), and 432 is in the branch for a `pClientData` of NULL, which
  `CreateFdAttr` (3886) has always made. Any client of Access goes on sending (`MayAsk` of `RequestRelay`).

## 4. Proofs

`WorkerLink_proofs` proves, for any workers, connections, bounds and faults:
- `Invariant`: `Spec => []IInv`, `IInv == TypeOK /\ Shape`;
- `TypeCorrect`: `Spec => []TypeOK`;
- `MappedIsLive`: `Spec => []ShellLive`.

`ShellLive` is not inductive alone: `RecvReqTell` maps the identity of the peer as the
connection's ends give it, and `DestroyConnect` erases by the identity the attributes
carry, so one has to know that an open end is an end (`OpenIsEnd`), that the identity it carries is
its peer (`IdentifyIsPeer`), that an accepted end opens only after its descriptor was
passed (`NotYetAccepted`), that a used connection has two different ends (`EndsOK`) and that a step belongs to a used
one (`StepUsed`). These five with `ShellLive` are `Shape`. The proof has one lemma per action
for the types; for `Shape`, the actions that change neither identities nor mappings are
treated together (`Quiet`, `QuietShape`), and those that do (`AddMsgShell`, `DestroyConnect`,
`RestartWorker`, `FdTransfer`) have a lemma each. Assumptions: those of `WorkerLink`
(workers and connections are not `None`, a route has two different ends, bounds are naturals,
an application cmd is above the handshake's).

The second half of `WorkerLink_proofs` proves what the handshake promises, for any workers, connections and bounds:
- `ReadyWasTold`: `Spec => []ReadyMeansTold`, if `DataCmd % 256 # RSP_TELL`;
- `FlushedWhenReady`: `Spec => []WaitFlushed`, if no handshake step times out;
- `ToldWhenServed`: `Spec => []ToldBeforeData`, if no handshake step times out.

The premises are needed. `OssWorker.cpp:373` stores the low byte of the cmd, so a command with the byte of
`CMD_RSP_TELL_WORKER` (266, 522, ...) would pass for the answer (the repository defines none); and
`link_late` shows that `WaitFlushed` fails with a timeout. The other faults (refusals, ends that close, resets,
restarts) are all allowed. The argument is about one connection by
itself, its view `Seen(c)`: both ends, what is on the wire either way, what was dispatched, the opener's
step. `ViewInv` says of every used connection that each side only sends the commands its role has
(`Placed`), that the answer is on the wire or taken only if the far end knows the opener (`Told`), and that
nothing of the application is sent ahead of the answer and the near end waits only while its step does
(`Prompt`). Every action is, for each connection, one of ten kinds of change or no more than the loss
of its ends (`Evolves`, `StepEvolves`), so there is one lemma for each kind of change and each part of
`Good`, and none for each pair of an action and a connection. `Shape` is used throughout.

`WorkerLinkQueue_proofs` proves, for any workers, connections, bounds and faults:
- `SentOnce`: `Spec => []AtMostOnce`;
- `LinkIsOrdered`: `Spec => Ordered`, if no handshake step times out and `DataCmd` is not `SYS_ERROR`.

Here the argument is about one direction of a connection, a lane: what waits at the sending end, what is on the
wire, what the receiving end dispatched. A step accepts one message on one lane, dispatches the front of one lane, or
accepts and dispatches nothing and only moves or loses what lanes hold (`StepFlows`); each of these keeps every
identifier once on a lane (`OnceInv`), and an identifier that is accepted is new because `nextId` bounds
those every lane of its sender holds.

For `LinkIsOrdered` the lane an end reads from is a queue: what is chosen from the wire, then what waits. It takes
that the queue is what it seems: while the Manager still reads, and at an end that is closed, no application
message is on the wire, and nothing waits behind a handshake that is over (`LaneDry`, from `Prompt` and the invariant
`CutInv`). Then what a lane moves is a stutter (a flush passes what waits to the end of the wire), what it loses is
lost from the front or from the back (`MovesRemain`), `RecvData` takes the head (`DispatchesQueue`) and `SendTo`
appends (`AdmitsQueue`). The lemmas about `Chosen` (`ChosenJoined`, `ChosenOfTail`, ...) are proved over prefixes. With a timeout the
refinement is false: the `SYS_ERROR` that answers a second `REQ_CONNECT` makes the status 232, and the next message
overtakes those that wait. An application command that is `SYS_ERROR` would do the same,
hence the hypothesis on `DataCmd`: of the applications only Access sends it (`StepToClient.cpp:50` and `:68`), in an
answer to the sender of the request.
`NodeRegistry_proofs` proves, for any nodes, connections, needs and faults:
- `RegistryInvariant`: `Spec => []IInv`,
  `IInv == Good(Center) /\ ManagersTyped /\ OwnerKnown`;
- `RegistryTypes`: `Spec => []TypeOK`;
- `RowsAreOnline`: `Spec => []RowIsOnline`;
- `RoutesAreCovered`: `"db" \notin Faults => (Spec => []RoutesCover)`;
- `RegistryIsDirectory`: `Spec => IsDirectory`, the refinement of `NodeDirectory`.

A handler is a function of a state of the Center, so there is one lemma per
handler (`DelNodeGood`, `DestroyConnectGood`, `AddMsgShellGood`, `regNodeGood`: from a
`Good` state to a `Good` state, and connections only end), and the actions compose them
as the code does. `RowIsOnline` needs more than itself: a new identifier is one more than the
largest in use, and that there is a largest one follows from induction over the nodes, which
the provers cannot do. `HasLargest` (every set of nodes has a largest identifier) puts that
induction into the behaviour: it holds when all identifiers are 0 and survives a change of one of
them, so `Node` need not even be finite. `OwnerKnown` says that a connection the Center
reads from was opened by a Manager, so that the key in a request is a node. Assumptions: those of
`NodeRegistry` (`None` is no node or connection, `Needs` maps nodes to sets of other nodes).

`RoutesCover` is about a registered node; what is inductive is about one whose connection the Center has mapped, with no
registration under way on it (`Attached`): it *is* registered, and of every registered node it needs the last notice under way says that
it is there, or none does and it has the route (`Informed`, `Learns`). A node becomes attached by telling its key, and whoever tells
registers behind it (`TellRegisters`); it stops being attached before it stops being registered, as `DestroyConnect` unmaps it first. `Tied` says
whose a connection is: of the Manager that opened it, which is the only node it is ever identified as, or one of AutoSend's, which is nobody's. So a
notice to an attached node finds it mapped, open and listening (`SendToNodesReaches`), and a handler that opens,
destroys or maps other connections attaches nobody (`Noticed`, `Spares`). The hypothesis is needed: when a registration is refused because the
row cannot be written, the node stays mapped, and a report it had sent on its previous connection then registers it, the answer going to the
connection nobody reads; TLC finds that within seventeen steps with `Faults = {"db", "idle"}`, as `CmdNodeReport` registers a node it does not know.

`IsDirectory` needs no such hypothesis (`registry_reconnect` checks it with statements that succeed; the theorem covers those that fail). Its invariant is `DInv == IInv /\ Linked(Center)`: a connection a Manager opened
is identified as its owner or not at all, one of AutoSend's is nobody's and is not read, the shell of a node carries its key, and nothing is
sent to a node before the answer to its handshake, so that leaving that answer out of `news` leaves out a head.
As the handlers are functions of a state of the Center, so are contact and news here (`InTouch(s)`, `Hears(s)`), and the lemmas say what each
function does to them: `SendToNodes` adds one notice to the nodes in contact among those addressed and
to nobody else, whatever AutoSend opens meanwhile (`SendToNodesTells`); `Answer` goes to the node that asked or to nobody (`AnswerTells`);
`regNode` is the directory's `Enter`, `DelNode` its `Leave`; and `DestroyConnect` inside `AddMsgShell`
makes the two one step, `EnterAndLeave`. `NextShows` has a line for each action.

`DataProxy_proofs` proves, for any requests, fields, parts and faults:
- `DataProxyTyped`: `Spec => []TypeOK`; `SuccessIsToldOnce`: `Spec => []OneVerdict`;
- `AcceptedReachesDb`: `Spec => []AcceptedIsApplied`;
- `StaleRecordExpires`: `Spec => []StaleExpires`;
- `ProxyIsOneService`: `Spec => OneService`, the refinement of `RecordService`.

`OneVerdict` needs to know who may still report success of a request: a main step in one
of the lists of Redis steps, of which there is one at most over all lists (`OneMain`), or a `StepSendToDbAgent` that needs a response, and while
there is one nothing has been answered (`EntriesOK`, `AgentOK`); a request not yet asked has none (`Fresh`). For `AcceptedIsApplied` a write is, at every moment,
in a step that leads to the database, or reported, or applied (`Outcomes`), and a DbAgent reports
success only of what it has executed (`RepliesTrue`).

`StaleExpires` speaks of quiet states; the invariant `Course` says what leads there, as long as the writes are in
order (`InOrder`) and no failure was told or logged (`Clean`), two conditions that stay lost once they are. The record of the
master is, at every moment, none, or about to expire (`Expiring`: it has an expiry, an `EXPIRE` is in the list, or the reply that sends one), or
in line (`InLine`: it is that of the last write done in the list, else of the last write on its way to the DbAgent, else of the
database), or a write was lost whose step still waits and will report it (`Forsaken`). A write gives the database what it gave the cache
because it replaces the record or, an update, was merged with what the database has (`Untouched`, `AsStored`: nothing else writes, and what
was read or written back came from there). The steps change the list of the master in two ways, a command is
answered in place (`Marked`) or the list is turned, its first command taken and perhaps one added (`Turned`), so the lemmas are about
these and each action cites them. `Orderly` counts the writes; that the set of the requests made is finite, so
that the count means something, is part of the invariant (`CInv`), and `Request` may be infinite.

`OneService` rests on a request being in one place (`PInv`): in a main step of a list, or on its way to a DbAgent, once (`Single`), or
executed (`Place`); the callback that sends it takes it out of the list in the same step, so it is never sent again (`Unsent`). That
success is told of a `dbRead` or `dbWrite` only after its execution needs `RepliesTrue` and that no main step of Redis is for one (`Cached`).
Each action then is one line of `RecordService`: `AskServed`, `TellServed`, `EmitServed`, or a stutter (`Quietly`); a lost
link to Redis fails all the requests of its list together (`FailStepsServed`).

`MessageStream_proofs` proves, for any messages, sizes and room in the kernel:
- `StreamTyped`: `Spec => []TypeOK`, and `EventsServeBuffers`: `Spec => ServedByEvents`, for either receiver;
- `WorkerKeepsFrames`: `Spec => []Framed`, and `StreamIsOrdered`: `Spec => Ordered`, when the receiver is a worker (of a Manager
  both are false; `stream_manager` shows the first).

`Framed` is about what has been read; the invariant is about all that will be read, `recvBuff \o wire \o sendBuff`. It is a
stream of messages one behind the other (`Frames`), and the last one is cut off only when its sender has closed
(`Whole`). Both say by position what a recursive definition of "a concatenation of messages" would say by induction, which is out of
reach: every unit is followed by the rest of its message, and that by the head of another.

For `StreamIsOrdered` a message is pending while its last unit is in a buffer, so that moving units is a stutter whatever one `send()` or one read
takes (`WriteMoves`, `ReadStutters`), and only the handshake's units end nothing. `SendTo` appends (`WaitAccepts`, `WriteGrows`), because nothing waits
in pWaitForSendBuff unless the handshake is under way (`Unheld`): with `SendToEarly` in its place that fails, and messages overtake. A
worker takes exactly the units of the first message off the stream (`DecodeTakes`, from `Framed`'s invariant). An end that closes loses the front or the back
of the queue; a write after the reader has closed loses what it accepts, which is a `Stop` as well. The lemmas about `Chosen` are those
of `WorkerLinkQueue_proofs`, repeated for units.

`IdleTimer_proofs` proves, for any descriptors, number of connections, timeouts and keep-alive times:
`IdleTimerTyped`, `IdleIsBounded` (`Spec => []IdleBound`), `ClosesItsOwn` (`Spec => ClosesOnlyItsOwn`) and
`FewAreForgotten` (`Spec => OnlyTheseAreForgotten`). The timer of a sequence keeps the
descriptor that sequence was opened with (`Linked`), so the check of the sequence is enough; and what a
connection has been idle for, plus what is left of its timer, stays within the bound (`Watched`), since
time moves from one to the other. Assumptions: the first timeout is not above the idle timeout and a step's is below it, as in `OssWorker.cpp`.

`Supervisor_proofs` proves, for any number of workers, processes and descriptors and every fault:
`SupervisorTyped`, `IndexHasOneProcess` (`Spec => []OneProcessPerIndex`) and `MappedFdIsOwn` (`Spec => []MappedIsOwn`).
There is an entry in `m_mapWorker` exactly while its process has not been waited for (`Matched`), its two descriptors differ (`TwoFds`), and
so do the indexes of two entries (`IndexUnique`). `RestartWorker` then always finds two numbers, the ones it has just closed, and a process
number, that of the worker it buries. That the lowest free number is a free one (`LowestIsIn`) is the well-foundedness of the naturals.

`RequestRelay_proofs` proves, for any fronts, clients, descriptors, bounds and faults:
`TypeCorrect` (`Spec => []TypeOK`) and `AnswersMatch` (`Spec => []AnswerMatches`), from `Invariance` (`Spec => []IInv`).
The invariant follows an answer backwards. A step whose shell is live has its own client there, who has no answer to this request yet and, over HTTP, those to all
before it (`Fits`); no client has an answer to what it did not ask (`GotAsked`), and a request has one step (`OneStep`). Whatever travels on the connection a front has *now*
came from this life of the front: its sequence was drawn, and if there is a step of that sequence, it asked just this
(`Agrees`, `AgreeInv`). Logic's tasks agree with the connection their shell is live on, and what DataProxy was asked with the task of its
sequence (`LogicInv`). A restart keeps all this because the connection goes with its end: what is late has no connection to come by. Sequences that only grow
make `Agrees` stable (`AgreesLater`).

Every invariant and action property of the runs, both refinements of `OrderedLink` and those of `RecordService` and `NodeDirectory` are stated by a theorem. Only model-checked is
everything under fairness, which is beyond this prover: `EventuallyServed`, `RoutesLearnt`, `EventuallyAnswered`,
`EventuallyDisposed`, `OrphansFreed`, `MuteIsClosed`, `EveryIndexServed`, `RequestAnswered`,
`HttpIsAnswered`, `StepsEnd`.

## 5. Not modelled

In WorkerLink: self-connections; the routing table
`m_mapNodeIdentify`; the Access-node branch of `Dispose`; encoding failures. What it takes a connection for is `MessageStream`'s subject,
and the beats and timers of its connections are `IdleTimer`'s.
In NodeRegistry: write errors while notices are sent (they erase from the map being
iterated), the reuse of an erased map node, rows that go offline by age, server
configurations, a second Center, and the Manager's reading of answers it ignores.
In DataProxy: requests that fail their checks, results of more than 1 MB that come in parts,
values in the cache that cannot be parsed, hash and list structures, and the pool of connections
of a DbAgent.
In MessageStream: the Manager's own writes (they repeat the worker's), growth and compaction of `CBuffer`, HTTP and WebSocket
connections, and what a reader does with a byte that is no head.
In IdleTimer: watchers and their memory, `IoError`, the wrap of sequences at 2^32.
In RequestRelay: messages pushed to clients (`CmdToClient`, `StepToClient`), logins, `StepSyncAccess`, `StepDataProxy` and sessions; HTTP requests sent without
waiting for an answer, the wrap of sequences, answers of DataProxy in several parts, the choice among several Logic workers, and Access's requests other than the one Logic serves.
In Supervisor: loads as numbers (idle or not is kept), clients' addresses, a `fork()` that is refused at the start; the copies a worker inherits of the Manager's
other connections, whose peers see no end of file from the Manager's close before their own timers; what a worker makes of a client's
descriptor sent to its control socket (the data number of a `Deaf` one may be that by then).

Components without a module, each with its reason in `PROJECT.json`:
- Storage operators, the client's codecs, validation of requests, the Center's queries, configuration files: functions from a
  request to bytes or rows, with no behaviour over time.
- `loss`, protobuf, libev, hiredis, log4cplus and the other vendored trees, which are most of the lines of the repository.

## 6. Plan

Modules in the order they were written; each has its MC module, one passing run or two, a violation run only
for a real disagreement, and a proofs module or two.

1. `WorkerLink`, `OrderedLink`: done with proofs, the refinement included.
2. `NodeRegistry`, `NodeDirectory`: done with proofs, the refinement included. Left: write errors while notices are sent, more than one Center.
3. `DataProxy`, `RecordService`: done with proofs, the refinement included. Left: results in several parts.
4. `MessageStream`: done with proofs. Left: the stream of HTTP and WebSocket connections.
5. `IdleTimer`: done with proofs. Left: the life of the `ev_io` watchers.
6. `Supervisor`: done with proofs.
7. `RequestRelay`: done with proofs, on top of `OrderedLink` and of what `DataProxy` answers. Left: messages pushed to clients, several Logic workers.
8. `StepRegistry`: sequences that wrap around. Not begun: the steps that matter are in the modules above.
9. `RedisLink`: several links to one node, commands that hiredis refuses. Not begun.
