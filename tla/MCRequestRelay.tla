--------------------------- MODULE MCRequestRelay ---------------------------
(* Values of the constants of RequestRelay for TLC.                        *)
EXTENDS RequestRelay, TLC

CONSTANTS web, app, c1, c2

\* A client of each front; both fronts talk to the one Logic worker.
Each == c1 :> web @@ c2 :> app

\* Either of them asks twice, but not both (a bound): only a client that asks
\* is kept from it, and no client must.
Few == asked[c1] + asked[c2] <= 3
=============================================================================
