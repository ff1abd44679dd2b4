---------------------------- MODULE MCUndoLedger ----------------------------
EXTENDS UndoLedger, TLC

MCSymmetry == Permutations(Scenes)

=============================================================================
