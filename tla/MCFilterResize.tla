--------------------------- MODULE MCFilterResize ---------------------------
(* A small instance of FilterResize for TLC: with avstp and enough memory, *)
(* and without avstp, where memory may run short or suffice.               *)
EXTENDS FilterResize

MCBuilds == {[avstp |-> TRUE, short |-> FALSE], [avstp |-> FALSE, short |-> TRUE],
             [avstp |-> FALSE, short |-> FALSE]}
=============================================================================
