-------------------------- MODULE MCSessionParent --------------------------
(* Small instances of SessionParent for TLC. *)
EXTENDS SessionParent

\* Two requests of one response, and the answer to the turn after it, which
\* completes the conversation.
MCRequests == 1 .. 3
MCResponses == <<"a", "a", "b">>
MCTurns == <<1, 1, 2>>

===========================================================================
