-------------------------- MODULE MCRendererOutbox --------------------------
EXTENDS RendererOutbox, TLC

Symmetry == Permutations(Dispatchers)

============================================================================
