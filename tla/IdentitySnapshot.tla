-------------------------- MODULE IdentitySnapshot --------------------------
(***************************************************************************)
(* What the feature cache promises, without threads, requests or a server: *)
(* it holds the snapshot of one identity at a time.  A switch empties it;  *)
(* afterwards it learns that identity's snapshot, at versions that never   *)
(* go back, and is ready exactly when it has learnt one.                   *)
(***************************************************************************)
EXTENDS Naturals

CONSTANTS Users, Anonymous, NoSnapshot, MaxVersion

VARIABLES identity, shown, version, ready

vars == <<identity, shown, version, ready>>

Init ==
  /\ identity = Anonymous
  /\ shown = NoSnapshot /\ version = 0 /\ ready = FALSE

Switch(u) ==
  /\ u # identity
  /\ identity' = u
  /\ shown' = NoSnapshot /\ version' = 0 /\ ready' = FALSE

Learn(v) ==
  /\ v >= version
  /\ shown' = identity /\ version' = v /\ ready' = TRUE
  /\ UNCHANGED identity

Next == \/ \E u \in Users : Switch(u)
        \/ \E v \in 1..MaxVersion : Learn(v)

Spec == Init /\ [][Next]_vars
=============================================================================
