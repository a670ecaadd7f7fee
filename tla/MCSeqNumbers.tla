---------------------------- MODULE MCSeqNumbers ----------------------------
EXTENDS SeqNumbers, TLC

SymmetricWriters == Permutations(Writers)
=============================================================================
