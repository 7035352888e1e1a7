---------------------------- MODULE MCHighlight ----------------------------
\* The goroutines of applyStyles are alike.
EXTENDS Highlight, TLC

Symmetry == Permutations(Appliers)

=============================================================================
