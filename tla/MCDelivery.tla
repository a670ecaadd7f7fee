----------------------------- MODULE MCDelivery -----------------------------
EXTENDS Delivery, TLC

SymmetricSessions == Permutations(Sessions)
=============================================================================
