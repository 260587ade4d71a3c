------------------------- MODULE MCSliceTransforms -------------------------
(* The models of MCObjectGraph: their boxes, and the transforms of each of *)
(* their objects.                                                          *)
EXTENDS MCObjectGraph, SliceTransforms
=============================================================================
