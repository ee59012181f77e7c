----------------------------- MODULE MCSessions -----------------------------
(***************************************************************************)
(* Sessions with the symmetries its safety runs use: the requests of a     *)
(* kind, the addresses and the names are interchangeable.                  *)
(***************************************************************************)
EXTENDS Sessions, TLC

Symmetry ==
  Permutations(Registers) \cup Permutations(Refreshes) \cup Permutations(Emails)
    \cup Permutations(Names)
=============================================================================
