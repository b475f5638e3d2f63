-------------------------- MODULE MCSectionHistory --------------------------
EXTENDS SectionHistory, TLC

WriterSymmetry ==
    Permutations(Edits) \cup Permutations(Regenerations) \cup Permutations(Generations)

=============================================================================
