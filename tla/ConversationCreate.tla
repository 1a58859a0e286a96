------------------------ MODULE ConversationCreate ------------------------
(***************************************************************************)
(* POST /v1/conversations and POST /v1/practice-results under retries:     *)
(* several requests, some of them copies of each other, run                *)
(* ConversationService.create_conversation with awaits between a lookup    *)
(* and the insert that depends on it.  Two unique keys arbitrate: the      *)
(* primary key of practice_results and the identity of a conversation.     *)
(*                                                                         *)
(* learning_session_id and conversation_round are one value here, as both  *)
(* unique keys hold both; so are scene and scenario_id, which              *)
(* create_conversation forces to agree.  A conversation is named after the *)
(* request that created it.                                                *)
(***************************************************************************)
EXTENDS Naturals

CONSTANTS
    Requests,    \* the HTTP requests in flight, retries included
    Learners,
    Sessions,    \* learning session and round
    Scenarios,
    HomeTeach,   \* the one scenario that must be built from a drill
    Practices,   \* practice_result_id
    Payloads,    \* what a practice summary says
    Inputs,      \* the bodies clients send
    None,        \* an absent field, a missing row
    Transition   \* revision 05: the key without the scenario is still there

Bodies == [kind : {"create", "practice"}, learner : Learners, session : Sessions \cup {None},
           scenario : Scenarios, practice : Practices \cup {None}, payload : Payloads \cup {None}]

\* What FastAPI lets through: SessionCreate and PracticeResult.
Valid(i) ==
    /\ i.kind = "practice" => i.practice # None /\ i.payload # None
    /\ i.kind = "create" /\ i.scenario = HomeTeach => i.session # None /\ i.practice # None

ASSUME InputsAssumption == Inputs \subseteq {i \in Bodies : Valid(i)}
ASSUME TransitionAssumption == Transition \in BOOLEAN

Results == [learner : Learners, payload : Payloads]
Rows == [learner : Learners, session : Sessions \cup {None}, scenario : Scenarios,
         practice : Practices \cup {None}, payload : Payloads \cup {None}]

ASSUME NoneAssumption ==
    /\ None \notin Requests \cup Learners \cup Sessions \cup Practices \cup Payloads
    /\ None \notin Inputs \cup Rows
    /\ None \notin [learner : Learners, payload : Payloads \cup {None}]

Steps == {"idle", "lookup", "get", "put", "read", "prepare", "insert", "winner", "enroll",
          "done"}
Replies == {"none", "created", "saved", "rejected", "conflict", "failed"}

VARIABLES
    practice,       \* practice_results
    conversation,   \* conversations, with its first turn
    parents,        \* dialogue_session_parents
    pc, input,      \* each request: its step and its body
    summary,        \* the practice summary it will build from
    reply, answered \* the HTTP outcome and the conversation in it

tables == <<practice, conversation, parents>>
vars == <<practice, conversation, parents, pc, input, summary, reply, answered>>

TypeOK ==
    /\ practice \in [Practices -> Results \cup {None}]
    /\ conversation \in [Requests -> Rows \cup {None}]
    /\ parents \subseteq Requests
    /\ pc \in [Requests -> Steps]
    /\ input \in [Requests -> Inputs \cup {None}]
    /\ summary \in [Requests -> Payloads \cup {None}]
    /\ reply \in [Requests -> Replies]
    /\ answered \in [Requests -> Requests \cup {None}]

Init ==
    /\ practice = [p \in Practices |-> None]
    /\ conversation = [r \in Requests |-> None]
    /\ parents = {}
    /\ pc = [r \in Requests |-> "idle"]
    /\ input = [r \in Requests |-> None]
    /\ summary = [r \in Requests |-> None]
    /\ reply = [r \in Requests |-> "none"]
    /\ answered = [r \in Requests |-> None]

---------------------------------------------------------------------------

Goto(r, step) ==
    /\ pc' = [pc EXCEPT ![r] = step]
    /\ UNCHANGED <<reply, answered>>

\* main.py turns what the service raised into a status: KeyError 404 and
\* ValueError 422 ("rejected"), anything else 500 ("conflict" for an
\* IntegrityError nobody caught, "failed" for the rest).
Reply(r, what, c) ==
    /\ pc' = [pc EXCEPT ![r] = "done"]
    /\ reply' = [reply EXCEPT ![r] = what]
    /\ answered' = [answered EXCEPT ![r] = c]

\* The five-part identity, and the one it replaces.
Key(i) == <<i.learner, i.session, i.scenario>>
OldKey(i) == <<i.learner, i.session>>

\* conversation_id_for_learning_session: an exact read.
Existing(i) == {c \in Requests : conversation[c] # None /\ Key(conversation[c]) = Key(i)}

\* Where create_conversation goes once the lookup has missed.
PracticeStep(i) ==
    IF i.practice = None THEN "prepare"
    ELSE IF i.payload # None THEN "get" ELSE "read"

Receive(r) ==
    /\ pc[r] = "idle"
    /\ \E i \in Inputs :
        /\ input' = [input EXCEPT ![r] = i]
        /\ summary' = [summary EXCEPT ![r] = i.payload]
        /\ Goto(r, CASE i.kind = "practice" -> "get"
                     [] i.kind = "create" /\ i.session # None -> "lookup"
                     [] OTHER -> PracticeStep(i))
    /\ UNCHANGED tables

\* A retry of a finished creation is answered from the stored conversation.
Lookup(r) ==
    /\ pc[r] = "lookup"
    /\ \/ \E c \in Existing(input[r]) : Reply(r, "created", c)
       \/ Existing(input[r]) = {} /\ Goto(r, PracticeStep(input[r]))
    /\ UNCHANGED <<tables, input, summary>>

\* What follows save_practice_summary.
Saved(r) == IF input[r].kind = "practice" THEN Reply(r, "saved", None) ELSE Goto(r, "read")

\* save_practice_summary: a get, and an insert in the same session only if
\* it found nothing.
GetPractice(r) ==
    /\ pc[r] = "get"
    /\ IF practice[input[r].practice] # None THEN Saved(r) ELSE Goto(r, "put")
    /\ UNCHANGED <<tables, input, summary>>

PutPractice(r) ==
    LET p == input[r].practice IN
    /\ pc[r] = "put"
    /\ \/ /\ practice[p] = None
          /\ practice' = [practice EXCEPT ![p] =
                            [learner |-> input[r].learner, payload |-> input[r].payload]]
          /\ Saved(r)
       \/ practice[p] # None /\ Reply(r, "conflict", None) /\ UNCHANGED practice
    /\ UNCHANGED <<conversation, parents, input, summary>>

\* Mutant: the body's summary is used although another one is stored.
ReadPracticeOwn(r) ==
    /\ pc[r] = "read"
    /\ IF practice[input[r].practice] = None
       THEN Reply(r, "rejected", None) ELSE Goto(r, "prepare")
    /\ UNCHANGED <<tables, input, summary>>

\* The stored summary replaces the one in the body; a result that is not
\* there, or is another learner's, is refused.
ReadPractice(r) ==
    LET stored == practice[input[r].practice] IN
    /\ pc[r] = "read"
    /\ IF stored = None \/ stored.learner # input[r].learner
       THEN Reply(r, "rejected", None) /\ UNCHANGED summary
       ELSE Goto(r, "prepare") /\ summary' = [summary EXCEPT ![r] = stored.payload]
    /\ UNCHANGED <<tables, input>>

\* The catalog builds scenario, levels and first turn, or refuses the input.
Prepare(r) ==
    /\ pc[r] = "prepare"
    /\ Goto(r, "insert") \/ Reply(r, "rejected", None)
    /\ UNCHANGED <<tables, input, summary>>

NewRow(r) ==
    [learner |-> input[r].learner, session |-> input[r].session, scenario |-> input[r].scenario,
     practice |-> input[r].practice, payload |-> summary[r]]

\* Mutant: the insert relies on the lookup alone.
NeverCollides(i) == FALSE

\* The unique constraints; a NULL learning_session_id never collides.
Collides(i) ==
    /\ i.session # None
    /\ \E c \in Requests :
        /\ conversation[c] # None
        /\ \/ Key(conversation[c]) = Key(i)
           \/ Transition /\ OldKey(conversation[c]) = OldKey(i)

Store(r) ==
    /\ ~ Collides(input[r])
    /\ conversation' = [conversation EXCEPT ![r] = NewRow(r)]

\* Conversation and first turn in one transaction.  The commit may be lost
\* on the way back: the row is there and the client sees a 500.
Insert(r) ==
    /\ pc[r] = "insert"
    /\ \/ Store(r) /\ (Goto(r, "enroll") \/ Reply(r, "failed", None))
       \/ Collides(input[r]) /\ Goto(r, "winner") /\ UNCHANGED conversation
    /\ UNCHANGED <<practice, parents, input, summary>>

\* Mutant: the loser waits for a winner of its own identity.
ReadWinnerWaits(r) ==
    /\ pc[r] = "winner"
    /\ \E c \in Existing(input[r]) : Reply(r, "created", c)
    /\ UNCHANGED <<tables, input, summary>>

\* The exact read after a collision; without a winner the error goes on.
ReadWinner(r) ==
    /\ pc[r] = "winner"
    /\ \/ \E c \in Existing(input[r]) : Reply(r, "created", c)
       \/ Existing(input[r]) = {} /\ Reply(r, "conflict", None)
    /\ UNCHANGED <<tables, input, summary>>

\* Canary enrollment of the session parent; its failure is swallowed.
Enroll(r) ==
    /\ pc[r] = "enroll"
    /\ parents' \in {parents, parents \cup {r}}
    /\ Reply(r, "created", r)
    /\ UNCHANGED <<practice, conversation, input, summary>>

\* The database or the process fails, or the client goes away.
Fail(r) ==
    /\ pc[r] \notin {"idle", "done"}
    /\ Reply(r, "failed", None)
    /\ UNCHANGED <<tables, input, summary>>

Step(r) ==
    \/ Lookup(r) \/ GetPractice(r) \/ PutPractice(r) \/ ReadPractice(r)
    \/ Prepare(r) \/ Insert(r) \/ ReadWinner(r) \/ Enroll(r)

Next == \E r \in Requests : Receive(r) \/ Step(r) \/ Fail(r)

Spec == Init /\ [][Next]_vars
FairSpec == Spec /\ \A r \in Requests : WF_vars(Step(r))

---------------------------------------------------------------------------

\* A creation is idempotent: two requests with the same identity that were
\* both told "created" were given one conversation, whether the second came
\* later, raced the first, or repeats one whose answer was lost.
SameIdentitySameConversation ==
    \A r, q \in Requests :
        /\ reply[r] = "created" /\ reply[q] = "created"
        /\ input[r].session # None
        /\ Key(input[r]) = Key(input[q])
        => answered[r] = answered[q]

\* No request is answered with a conversation of another learner, session,
\* round or scenario, though the old unique key may have stopped its insert.
AnswerIsTheRequested ==
    \A r \in Requests : reply[r] = "created" =>
        /\ answered[r] \in Requests
        /\ conversation[answered[r]] # None
        /\ Key(conversation[answered[r]]) = Key(input[r])

\* A conversation built from a drill was built from the first summary stored
\* under its practice_result_id, and that drill is the learner's own,
\* whatever later bodies under the same id say.
FirstPracticeCounts ==
    \A c \in Requests : conversation[c] # None /\ conversation[c].practice # None =>
        practice[conversation[c].practice] =
            [learner |-> conversation[c].learner, payload |-> conversation[c].payload]

\* An uncaught IntegrityError has one of two causes: a race on the practice
\* row by requests that carry a summary, or, while the old key exists,
\* another scenario of the same session and round.
ConflictsExplained ==
    \A r \in Requests : reply[r] = "conflict" =>
        \/ input[r].practice # None /\ input[r].payload # None
        \/ /\ Transition
           /\ \E c \in Requests : /\ conversation[c] # None
                                  /\ OldKey(conversation[c]) = OldKey(input[r])
                                  /\ Key(conversation[c]) # Key(input[r])

\* The answer is right in all it says: a created conversation is the requested
\* one and stands on the first drill, and a conflict has one of the known causes.
AnswerIsRight == AnswerIsTheRequested /\ FirstPracticeCounts /\ ConflictsExplained

\* No request waits for another: each one received is answered.
EveryRequestEnds ==
    \A r \in Requests : pc[r] # "idle" ~> pc[r] = "done"

===========================================================================
