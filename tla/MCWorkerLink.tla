---------------------------- MODULE MCWorkerLink ----------------------------
(* Values of the constants of WorkerLink for TLC.                          *)
EXTENDS WorkerLink, TLC

CONSTANTS a, b, c1, c2

OneWay == {<<a, b>>}
BothWays == {<<a, b>>, <<b, a>>}

ConnSymmetry == Permutations(Conn)
=============================================================================
