------------------------- MODULE MCRequestLifecycle -------------------------
(* Model-checking instance of RequestLifecycle: requests are               *)
(* interchangeable, and so are engines.                                    *)
EXTENDS RequestLifecycle, TLC

Symmetry == Permutations(Requests) \cup Permutations(Engines)

=============================================================================
