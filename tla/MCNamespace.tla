---------------------------- MODULE MCNamespace ----------------------------
(***************************************************************************)
(* The host of the TIP and one engine server that use the same two maps    *)
(* and the same lock.                                                      *)
(***************************************************************************)
EXTENDS Namespace

=============================================================================
