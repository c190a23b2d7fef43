------------------------------ MODULE MCEntries ------------------------------
(* The entry path on small instances.  Order ids are interchangeable; the  *)
(* symmetry is used by the runs without temporal properties only.          *)
EXTENDS Entries, TLC

OrderSymmetry == Permutations(Orders) \cup Permutations(Exits)
=============================================================================
