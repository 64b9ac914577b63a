------------------------------- MODULE MCRelay -------------------------------
(* The instance of Relay that TLC checks. *)
EXTENDS Relay
=============================================================================
