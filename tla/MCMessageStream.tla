--------------------------- MODULE MCMessageStream ---------------------------
(* Values of the constants of MessageStream for TLC.                       *)
EXTENDS MessageStream

CONSTANTS beat, beat2, short, long, hello

\* Heart beats have no body; the others differ in length.
BodyOf == [m \in {beat, beat2, short, long, hello} |->
              CASE m = long -> 2 [] m \in {beat, beat2} -> 0 [] OTHER -> 1]
=============================================================================
