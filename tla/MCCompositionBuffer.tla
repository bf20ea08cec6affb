------------------------- MODULE MCCompositionBuffer -------------------------
(***************************************************************************)
(* Instances of CompositionBuffer.                                         *)
(***************************************************************************)
EXTENDS CompositionBuffer
=============================================================================
