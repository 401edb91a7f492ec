---------------------------- MODULE MCDataProxy ----------------------------
(* Values of the constants of DataProxy for TLC.                           *)
EXTENDS DataProxy, TLC

CONSTANTS r1, r2, f1, f2

\* Two updates of different fields.
Parts == r1 :> f1 @@ r2 :> f2
=============================================================================
