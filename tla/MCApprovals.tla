---------------------------- MODULE MCApprovals ----------------------------
EXTENDS Approvals, TLC

CONSTANTS r1, r2, admin, member

\* One admin resolves both requests; the other user only sees the cards.
AdminResolves == r1 :> {admin} @@ r2 :> {admin}

\* A double click on the first card, one click on the second.
DoubleAndSingle == r1 :> 2 @@ r2 :> 1
=============================================================================
