----------------------- MODULE MCConversationCreate -----------------------
(* Small instances of ConversationCreate for TLC. *)
EXTENDS ConversationCreate

CONSTANTS s1, p1, home, cafe

Body(kind, learner, session, scenario, result, payload) ==
    [kind |-> kind, learner |-> learner, session |-> session, scenario |-> scenario,
     practice |-> result, payload |-> payload]

\* Every body FastAPI accepts.
AllInputs == {i \in Bodies : Valid(i)}

\* One session in which retries, restarts of the drill and two scenarios meet.
RaceInputs ==
    {Body("create", l, s1, home, p1, w) : l \in Learners, w \in Payloads \cup {None}}
    \cup {Body("create", l, s1, cafe, None, None) : l \in Learners}

===========================================================================
