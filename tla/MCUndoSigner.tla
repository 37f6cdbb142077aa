---------------------------- MODULE MCUndoSigner ----------------------------
EXTENDS UndoSigner, TLC

Symmetry == Permutations(Ops)
=============================================================================
