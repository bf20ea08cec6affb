--------------------------- MODULE MCBatchSession ---------------------------
(***************************************************************************)
(* Instances of BatchSession with its record.  A surface is a pair of the  *)
(* reading it spells and one of three alternatives, so that lists of       *)
(* different readings differ and henkan's top-1 is not convert's first     *)
(* candidate.                                                              *)
(***************************************************************************)
EXTENDS BatchSessionHistory

\* One top-1 per reading that is not the first candidate of convert.
FixedTops == [r \in Readings |-> {<<r, "top">>}]

\* One reading gets two top-1s that take turns as the engine likes, neither of them
\* the first candidate of convert; for the others henkan commits nothing.
Varied == CHOOSE r \in Readings : TRUE
VaryingTops ==
    [r \in Readings |-> IF r = Varied THEN {<<r, "top">>, <<r, "other">>} ELSE {NoText}]

Surfaces == (Readings \X {"top", "other", "alt"}) \cup {NoText}
TwoCandidates == [r \in Readings |-> <<<<r, "alt">>, <<r, "top">>>>]
HenkanEntries == [r \in Readings |-> IF r = Varied THEN <<<<r, "top">>>> ELSE <<>>]
ReconvEntries == TwoCandidates
=============================================================================
