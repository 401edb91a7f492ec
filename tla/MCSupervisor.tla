---------------------------- MODULE MCSupervisor ----------------------------
(* Supervisor for TLC.  Everything happens to two workers, less to three.  *)
EXTENDS Supervisor

\* The third worker died, its fork() failed, and two connections that last
\* have its descriptors; nothing else has happened to the first two.
TwoInit ==
    /\ proc = [p \in Pid |-> IF p <= 2 THEN Started(p) ELSE NoProcess]
    /\ copies = [p \in Pid |-> IF p <= 2 THEN 1 .. (p - 1) ELSE {}]
    /\ worker = [p \in Pid |->
            IF p <= 2 THEN NewWorker(p, 2 * p - 1, 2 * p) ELSE NoWorker]
    /\ fdPid = [f \in Fd |-> IF f <= 4 THEN (f + 1) \div 2 ELSE 0]
    /\ sock = [f \in Fd |-> IF f <= 4 THEN End((f + 1) \div 2) ELSE Conn]
    /\ signalled = {}
    /\ task = NoTask

Two == sock[5] = Conn /\ sock[6] = Conn

\* With three workers none hangs or has load, and no connection or request is
\* made; a step of Fairness does none of these.
Calm ==
    /\ \A p \in Pid : /\ proc[p].state # "hung"
                      /\ Known(p) => worker[p].idle
    /\ \A f \in Fd : sock[f] # Conn
    /\ task = NoTask

AsItStarted == Two' = Two /\ (~Two => Calm')

MCSpec == (Init \/ TwoInit) /\ [][Next]_vars /\ Fairness
=============================================================================
