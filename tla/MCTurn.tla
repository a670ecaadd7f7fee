------------------------------- MODULE MCTurn -------------------------------
(* All three ways a provider may take a push, up to three prompts.          *)
EXTENDS Turn
=============================================================================
