----------------------------- MODULE MCProcess ------------------------------
(* Small instance of Process for TLC. *)
EXTENDS Process

CONSTANTS loopback, lan, public, node, remote

\* One or two addresses, local, foreign or both, in either order; or none.
SomeAnswers ==
    {<<>>, <<loopback>>, <<lan>>, <<public>>, <<lan, public>>, <<public, lan>>}
=============================================================================
