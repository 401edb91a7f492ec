----------------------------- MODULE MCIdleTimer -----------------------------
(* Values of the constants of IdleTimer for TLC.                           *)
EXTENDS IdleTimer, TLC

CONSTANTS f1
=============================================================================
