---------------------------- MODULE RecordService ----------------------------
(***************************************************************************)
(* What the DataProxy promises about the requests it is asked and the      *)
(* record it keeps in the database, whatever becomes of its cache: each    *)
(* request is carried out at most once, as what was asked, and its client  *)
(* gets at most one verdict.  A request may fail and be carried out all the*)
(* same, before or after.  But the success of one that only the database   *)
(* can answer is told after the database has carried it out, and one that  *)
(* is about the cache alone never gets there.                              *)
(***************************************************************************)
CONSTANTS
    Request, Kind,
    DbOnly,             \* the kinds of requests for the database alone
    CacheOnly,          \* and those for the cache alone
    Initial,            \* what the database may have at the start
    Effect(_, _, _)     \* what a request of a kind makes of the record

VARIABLES
    asked,      \* asked[r]: the kind of request r, "none" before it arrives
    verdict,    \* verdict[r]: what its client has got, at first "none"
    db,         \* the record in the database
    applied     \* the requests it has carried out

serviceVars == <<asked, verdict, db, applied>>

Init ==
    /\ asked = [r \in Request |-> "none"]
    /\ verdict = [r \in Request |-> "none"]
    /\ db \in Initial
    /\ applied = {}

Waiting(r) == asked[r] # "none" /\ verdict[r] = "none"

\* A request arrives, and may fail at once.
Ask(r) ==
    /\ asked[r] = "none"
    /\ \E k \in Kind : asked' = [asked EXCEPT ![r] = k]
    /\ \E v \in {"none", "error"} : verdict' = [verdict EXCEPT ![r] = v]
    /\ UNCHANGED <<db, applied>>

Execute(r) ==
    /\ asked[r] \notin CacheOnly \cup {"none"}
    /\ r \notin applied
    /\ db' = Effect(asked[r], r, db)
    /\ applied' = applied \cup {r}
    /\ UNCHANGED <<asked, verdict>>

Succeed(r) ==
    /\ Waiting(r)
    /\ asked[r] \in DbOnly => r \in applied
    /\ verdict' = [verdict EXCEPT ![r] = "ok"]
    /\ UNCHANGED <<asked, db, applied>>

\* What requests wait for is gone.
Fail(failed) ==
    /\ \A r \in failed : Waiting(r)
    /\ verdict' = [r \in Request |-> IF r \in failed THEN "error" ELSE verdict[r]]
    /\ UNCHANGED <<asked, db, applied>>

Next ==
    \/ \E r \in Request : Ask(r) \/ Execute(r) \/ Succeed(r)
    \/ \E failed \in SUBSET Request : Fail(failed)

Spec == Init /\ [][Next]_serviceVars
=============================================================================
