--------------------------- MODULE MCFrameDamage ----------------------------
(* Model checking of FrameDamage for swap chains of two and three buffers. *)
EXTENDS FrameDamage, TLC

Symmetry == Permutations(Buffer)

=============================================================================
