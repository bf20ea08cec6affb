---------------------------- MODULE MCFcitxAddon ----------------------------
(***************************************************************************)
(* Instances of FcitxAddon.                                                *)
(***************************************************************************)
EXTENDS FcitxAddon
=============================================================================
