----------------------------- MODULE MCDoipLink -----------------------------
(* Instances of DoipLink for TLC. *)
EXTENDS DoipLink

AllFaults == FaultKinds
OnlyCoalesce == {"coalesce"}
=============================================================================
