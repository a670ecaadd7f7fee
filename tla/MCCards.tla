------------------------------ MODULE MCCards ------------------------------
(* One question with a boss and a guest to answer it, or up to two requests *)
(* of which only the boss may decide.                                      *)
EXTENDS Cards
=============================================================================
