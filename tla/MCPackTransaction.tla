-------------------------- MODULE MCPackTransaction --------------------------
(* Two files, one content and two formats for PackTransaction. *)
EXTENDS PackTransaction, TLC

CONSTANTS n1, n2, v1, g1, g2, x1, x2

\* Names and transaction images are interchangeable; the checks are all of
\* safety.
Symmetry == Permutations(Names) \cup Permutations(Temps)
==============================================================================
