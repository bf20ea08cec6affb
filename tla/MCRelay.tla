------------------------------ MODULE MCRelay -------------------------------
(***************************************************************************)
(* Instances of Relay.                                                     *)
(***************************************************************************)
EXTENDS Relay
=============================================================================
