---------------------------- MODULE MCLayerTree -----------------------------
(* LayerTree for TLC: the views are interchangeable.                       *)
EXTENDS LayerTree, TLC

ViewSymmetry == Permutations(View)
=============================================================================
