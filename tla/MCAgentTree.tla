---------------------------- MODULE MCAgentTree ----------------------------
EXTENDS AgentTree, TLC

CONSTANTS lead, coder, scout, hall, nook

\* A requirements parent with its project, a member of that project, and an
\* agent of its own channel that has the member's name.
Templates == lead :> "requirements-parent" @@ coder :> "member" @@ scout :> "singleton"
Names == lead :> "lead" @@ coder :> "worker" @@ scout :> "worker"
PlacesOf == lead :> hall @@ coder :> hall @@ scout :> nook

\* The owner lets the member be wired to the place the third agent wants.
CoderInNook == {<<coder, nook>>}

\* The member's card is clicked twice.
DoubleClick == lead :> 1 @@ coder :> 2 @@ scout :> 1
=============================================================================
