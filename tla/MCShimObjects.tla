--------------------------- MODULE MCShimObjects ---------------------------
(* Two sinks and two items of the TIP; tables of two sinks.                *)
EXTENDS ShimObjects
=============================================================================
