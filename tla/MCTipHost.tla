----------------------------- MODULE MCTipHost -----------------------------
(***************************************************************************)
(* Two lines from the relay and one AtCtl.                                 *)
(***************************************************************************)
EXTENDS TipHost

MCLines    == {<<"convert">>, <<"henkan">>, <<"quit">>}
MCCtlLines == {<<"convert">>, <<"search">>, <<"reset", "type">>, <<"manualtip", "reconv">>, <<"quit">>}

=============================================================================
