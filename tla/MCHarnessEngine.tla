-------------------------- MODULE MCHarnessEngine ---------------------------
(***************************************************************************)
(* Instances of HarnessEngine: one henkan and one convert command.         *)
(***************************************************************************)
EXTENDS HarnessEngine, TLC

CONSTANTS henkan, convert

\* AtTipLoad.c, henkan: always one block, with a commit if there is a top-1;
\* the enriched entries that harness_candx_test.cpp feeds are allowed.
\* convert: one block, or none when the engine offers no list; a line of
\* timing may come before a block, and after it.
Printed == [c \in Commands |->
    IF c = henkan
    THEN {<<"BEGIN", "END">>, <<"MS", "BEGIN", "COMMIT", "CANDX", "END">>}
    ELSE {<<>>, <<"BEGIN", "COMMIT", "CAND", "CAND", "END">>, <<"BEGIN", "CAND", "END", "MS">>}]
=============================================================================
