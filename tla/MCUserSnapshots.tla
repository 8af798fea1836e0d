--------------------------- MODULE MCUserSnapshots ---------------------------
(***************************************************************************)
(* UserSnapshots with interchangeable callers and users.                   *)
(***************************************************************************)
EXTENDS UserSnapshots, TLC

MCSymmetry == Permutations(Callers) \cup Permutations(Users)
=============================================================================
