------------------------------ MODULE MCActor ------------------------------
(* Instances of Actor for TLC. *)
EXTENDS Actor

CONSTANTS a1, a2

MCActors == {a1, a2}
=============================================================================
