-------------------------- MODULE ConversationLog --------------------------
(***************************************************************************)
(* What answering a conversation promises, without requests, locks, purges *)
(* or failures: the accepted responses form a log that only grows, each    *)
(* acceptance answers the one open turn and opens exactly one new turn, no *)
(* response id is accepted twice, and nothing follows a completed turn.    *)
(***************************************************************************)
EXTENDS Integers

CONSTANTS ResponseIds, MaxTurns

VARIABLES accepted, open, status

logVars == <<accepted, open, status>>

Init ==
    /\ accepted = {}
    /\ open = 1
    /\ status = "active"

Accept(r, outcome) ==
    /\ status = "active"
    /\ open < MaxTurns
    /\ \A a \in accepted : a.rid # r
    /\ accepted' = accepted \cup {[turn |-> open, rid |-> r]}
    /\ open' = open + 1
    /\ status' = outcome

Next == \E r \in ResponseIds, outcome \in {"active", "completed"} : Accept(r, outcome)

Spec == Init /\ [][Next]_logVars

============================================================================
