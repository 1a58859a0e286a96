---------------------------- MODULE LegacyTurn ----------------------------
(***************************************************************************)
(* One conversation of the legacy engine (engine.py): understand, decide,  *)
(* speak, compose.  The understanding model and the speaker models are the *)
(* environment: they return any analysis and any output of the given sets, *)
(* fail, or time out.  What the code decides from them, which slots it     *)
(* verifies, how it lowers the question and what it writes into the note   *)
(* is the model.  How two requests race for one turn is TurnCommit.        *)
(*                                                                         *)
(* Left out: wording, and the counters that only choose between sentences  *)
(* (unrelated_count, expression_failures, concept_failures).               *)
(***************************************************************************)
EXTENDS TaskContent

CONSTANTS
    Lessons,         \* sequences of tasks of the catalogue
    StartLevels,     \* stable levels a profile may hold
    Analyses(_),     \* what the understanding model says of a text, by task
    Outputs(_, _)    \* what a speaker model returns, by task and decision

Phases == {"resolved", "entry", "open", "targeted"}
Awaiting == Phases \ {"resolved"}

\* What a claim about a slot rests on.  Of a closed slot: a value the child
\* named, in a span fit for a note or not; the right value read out of words
\* that do not name it, with or without confidence; a wrong value; the right
\* one under a quotation that names another; or no span of the child's at all.
ClosedClaims == {"none", "quotable", "named", "typo", "unnamed", "wrong", "misquoted", "invented"}
\* Of a slot judged by meaning: supported in words, supported with three
\* numbers or more, not supported, or no span of the child's.
SemanticClaims == {"none", "argued", "numeric", "unsupported", "invented"}

Categories == {"full", "partial", "vague", "block", "help", "concept", "concept_block",
               "input", "unrelated"}
Relations == {"current", "chat", "unknown", "off"}
Stances == {"none", "accept", "reject"}
Truths == {"none", "true", "false"}    \* of a structured arithmetic relation

ASSUME ContentAssumption == Lessons \subseteq ScenarioTasks /\ StartLevels \subseteq Levels

VARIABLES
    tasks, storage,   \* the scenario, and raw_storage_enabled
    session,          \* SessionState
    turn,             \* the turn contract the child sees
    decision,         \* what orchestrate handed to the speaker, or Undecided
    told, reached,    \* history: the slots of each task the child put into words
                      \* that are kept, and those verified in any other way
    jointly           \* history: the tasks that ended at L0 or under H3

fixed == <<tasks, storage>>
history == <<told, reached, jointly>>
legacyVars == <<fixed, session, turn, decision, history>>

Active(s) == s.status = "active"
TaskOf(s) == tasks[s.index]
StepOf(s) == active_step(TaskOf(s), s.level, s.verified, s.phase)

Undecided == [act |-> "none"]

-----------------------------------------------------------------------------
(* What the code leaves of an analysis. *)

Claimed(a) == {slot \in DOMAIN a.claims : a.claims[slot] # "none"}

\* _enforce_claim_provenance: only the child's own span becomes a claim.  A
\* right value under another number is dropped, an operation must be named, and
\* on a conversational turn every closed value must be the right one, unless it
\* is a number, an operation or a pick.
Surviving(task, a) ==
    {slot \in Claimed(a) :
        /\ a.claims[slot] \notin {"invented", "misquoted"}
        /\ a.claims[slot] \in {"typo", "unnamed"} =>
               slot # "operation" /\ a.relation = "current"
        /\ a.claims[slot] = "wrong" /\ a.relation # "current" =>
               slot \in task.numeric \cup {"operation", "child_menu"}}

Contradicted(a) == \E slot \in DOMAIN a.claims : a.claims[slot] = "misquoted"

\* _is_reviewed_conversation_only, after provenance.
ConversationOnly(task, a) ==
    /\ a.relation \in {"chat", "off"}
    /\ a.category # "help" \/ Contradicted(a)
    /\ Surviving(task, a) = {} /\ a.truth = "none"

\* _invalidate_unverified_arithmetic_support, _invalidate_false_structured_arithmetic,
\* _ground_text_numeric_claims and validated_slot_claims: what a surviving claim
\* is worth.
Grounded(task, a) ==
    {slot \in Surviving(task, a) :
        CASE slot \in task.semantic ->
                 /\ a.truth # "false"
                 /\ \/ a.claims[slot] = "argued"
                    \/ a.claims[slot] = "numeric" /\ (task.arithmetic => a.truth = "true")
          [] OTHER ->
                 \/ a.claims[slot] \in {"quotable", "named", "typo"}
                 \/ a.claims[slot] = "unnamed" /\ slot \notin task.numeric}

\* A tap or a joint action: every value it carries is right or wrong.
StructuredGrounded(claims) == {slot \in DOMAIN claims : claims[slot] = "named"}

\* _progress_eligible_slots: a text may answer more than was asked.
Eligible(s, type) ==
    StepOf(s).target \cup (IF type = "text" THEN TaskOf(s).required \ s.verified ELSE {})

\* _reconcile_response_category: code owns the label of an assessable answer.
Reconciled(task, a, target, accepted, grounded, rejected) ==
    CASE \/ a.category \in {"help", "block", "concept_block", "input"}
         \/ a.category = "unrelated" /\ a.relation = "off" -> a.category
      [] OTHER ->
         CASE target \subseteq accepted -> "full"
           [] ~ target \subseteq accepted /\ target \cap accepted # {} -> "partial"
           [] target \cap accepted = {} /\ rejected -> "concept"
           [] target \cap accepted = {} /\ ~ rejected /\ grounded # {} -> "partial"
           [] OTHER -> IF a.category = "full" THEN "vague" ELSE a.category

\* The label before reconciliation: a false relation or a misquoted number is a
\* conceptual error whatever the model called it.
Labelled(a) ==
    IF a.truth = "false" \/ Contradicted(a) THEN [a EXCEPT !.category = "concept", !.concept = TRUE]
    ELSE a

\* Everything _decide reads of a response.
Effect(s, type, a, surviving, grounded) ==
    LET task == TaskOf(s)
        accepted == grounded \cap Eligible(s, type)
        guessed == s.phase = "entry" /\ task.entry /\ a.stance = "accept"
        rejected == (surviving \ grounded) \cap StepOf(s).target # {}
        before == Labelled(a)
        category == IF guessed THEN "concept"
                    ELSE Reconciled(task, before, StepOf(s).target, accepted, grounded, rejected)
    IN  [type |-> type, category |-> category,
         concept |-> guessed \/ (before.concept /\ category = before.category),
         stance |-> a.stance, claims |-> a.claims,
         new |-> accepted \ s.verified,
         understood |-> accepted \cup (grounded \cap s.verified),
         quote |-> a.quote]

-----------------------------------------------------------------------------
(* Session changes shared by the branches of _decide. *)

normalize_terminal_support(s) ==
    IF s.level # "L0" /\ s.hint # "H3" THEN s
    ELSE [s EXCEPT !.level = "L0", !.hint = "H3", !.max = "H3"]

Resolve(s) == [s EXCEPT !.phase = "resolved"]

\* A mutant: one level down, however the question then looks.
LowerOnce(s, step) == [s EXCEPT !.level = lower[@]]

\* _lower_until_visible_contract_changes.
LowerVisibly(s, step) ==
    LET below == [n \in 0 .. 3 |-> CASE n = 0 -> s.level [] n = 1 -> lower[s.level]
                                     [] n = 2 -> lower[lower[s.level]] [] OTHER -> "L0"]
        new(l) == l = "L0" \/ step_for(TaskOf(s), l, s.verified) # step
        first == CHOOSE n \in 1 .. 3 : new(below[n]) /\ \A m \in 1 .. 3 : m < n => ~ new(below[m])
    IN  [s EXCEPT !.level = below[first]]

\* A mutant: a conversation that stores no wording still quotes it.
QuotesAnyway(s, task, e, new) ==
    [s EXCEPT !.evidence = @ \cup {slot \in new \cap task.note :
                                      e.claims[slot] \in {"quotable", "argued", "numeric"}}]

\* _record_note_provenance: the child's wording if it may be kept and is fit for
\* a note, otherwise the mere fact that the slot was reached together.
record_note_provenance(s, task, e, new) ==
    IF e.type = "text" /\ storage THEN
        [s EXCEPT !.evidence = @ \cup {slot \in new \cap task.note :
                                          e.claims[slot] \in {"quotable", "argued", "numeric"}}]
    ELSE [s EXCEPT !.supported = @ \cup (new \cap task.note)]

\* _note_from_provenance.
note_from_provenance(s, task) ==
    CASE task.note = {} -> "none"
      [] task.note # {} /\ task.note \subseteq s.evidence -> "child"
      [] OTHER -> IF task.note \subseteq s.evidence \cup s.supported THEN "coauthored" ELSE "none"

-----------------------------------------------------------------------------
(* The branches of _decide.  Each returns the session, the dialogue act and   *)
(* the slots that the reviewed sentence names, should it be needed.           *)

\* _decision_for_current_step.  The reviewed sentence ends with the authored
\* prompt, which asks for the whole step, also for what is verified already.
Ask(s, e, act) ==
    LET next == normalize_terminal_support(s)
    IN  [act |-> act, session |-> [next EXCEPT !.step = StepOf(next)], note |-> "none",
         facts |-> {}, quote |-> e.quote, fallback |-> StepOf(next).target]

\* must_reframe: a sentence of the branch's own, "can you tell me this?", that
\* leaves it to the screen what is asked.
Reframed(d) == [d EXCEPT !.fallback = {}]

\* _smooth_ladder_fallback: the prompt for short answers, "pick one here" for choices.
SmoothLadder(d) == IF d.session.level = "L3" THEN d ELSE Reframed(d)

\* A mutant: only the last task counts.
JointNow(s) == s.level = "L0" \/ s.max = "H3"

JointUsed(s) == s.joint \/ s.level = "L0" \/ s.max = "H3"

\* A finished task closes its evidence; the next one starts afresh.
OpenNextTask(s) ==
    LET level == s.starts[s.index + 1]
        fresh == [s EXCEPT !.index = @ + 1, !.level = level, !.hint = "H0", !.max = "H0",
                           !.verified = {}, !.vague = 0, !.evidence = {}, !.supported = {},
                           !.phase = IF s.policy = 2 /\ tasks[s.index + 1].entry /\ level = "L4"
                                     THEN "entry" ELSE "resolved"]
        next == normalize_terminal_support(fresh)
    IN  [next EXCEPT !.step = StepOf(next)]

\* _complete_task.
complete_task(s, e) ==
    LET task == TaskOf(s)
        note == note_from_provenance(s, task)
        kept == [s EXCEPT !.done = Append(@, s.verified), !.joint = JointUsed(s),
                          !.direct = @ /\ (task.note = {} \/ note = "child")]
        last == s.index = Len(tasks)
        ended == [kept EXCEPT !.status = "completed", !.reward = ~ kept.joint,
                              !.outcome = IF kept.direct THEN "taught" ELSE "supported"]
    IN  [act |-> IF last THEN "session_complete" ELSE "task_transition",
         session |-> IF last THEN ended ELSE OpenNextTask(kept),
         note |-> note, facts |-> {}, quote |-> e.quote,
         fallback |-> IF last THEN {} ELSE OpenNextTask(kept).step.target]

\* New slots: complete, or ask for what is missing.
Progress(s, e) ==
    LET task == TaskOf(s)
        learnt == [record_note_provenance(s, task, e, e.new)
                   EXCEPT !.verified = @ \cup e.new, !.vague = 0, !.phase = "resolved"]
        split == s.level = "L4" /\ step_for(task, "L4", learnt.verified) = s.step
        next == IF s.phase \in Awaiting \/ split THEN [learnt EXCEPT !.phase = "targeted"] ELSE learnt
    IN  IF complete(task, learnt.verified) THEN complete_task(learnt, e)
        ELSE [Ask(next, e, "acknowledge_partial") EXCEPT !.facts = e.new]

\* Understood, but nothing new: the question has to change.
Unstructured(s, e) ==
    LET next == LowerVisibly(Resolve(s), StepOf(s))
        act == IF next.level = "L0" THEN "joint_mode" ELSE "acknowledge_unstructured_partial"
    IN  [SmoothLadder(Ask(next, e, act)) EXCEPT !.facts = e.understood]

\* The first vague answer is asked again, the second lowers the question.
Vague(s, e) ==
    LET lowered == [LowerVisibly(Resolve(s), StepOf(s)) EXCEPT !.vague = 0]
        hint == CASE lowered.level = "L0" -> "H3"
                  [] lowered.level # "L0" /\ s.hint = "H0" -> "H1"
                  [] OTHER -> s.hint
    IN  IF s.vague = 0
        THEN Reframed(Ask([Resolve(s) EXCEPT !.vague = 1], e, "clarify_vague_response"))
        ELSE Reframed(Ask([lowered EXCEPT !.hint = hint, !.max = max_hint(@, hint)], e,
                          "support_vague_response"))

Block(s, e) ==
    LET next == [Resolve(s) EXCEPT !.vague = 0, !.level = lower[@]]
    IN  IF next.level = "L0" THEN Ask(next, e, "joint_mode")
        ELSE SmoothLadder(Ask(next, e, "reduce_expression_load"))

\* A request for help, also by the button: easier to say and one hint more.
Help(s, e) ==
    LET level == lower[s.level]
        hint == CASE s.hint \in {"H0", "H1"} /\ level # "L0" -> increase(s.hint)
                  [] level = "L0" -> "H3"
                  [] OTHER -> s.hint
        next == [Resolve(s) EXCEPT !.vague = 0, !.level = level, !.hint = hint,
                                   !.max = max_hint(@, hint)]
    IN  IF level = "L0" THEN Ask(next, e, "joint_mode")
        ELSE Reframed(Ask(next, e, "accept_help_request"))

\* A conceptual error asks for more help, never for less expression, until H3.
Concept(s, e) ==
    LET hint == IF s.hint \in {"H0", "H1"} THEN increase(s.hint) ELSE "H3"
        next == [Resolve(s) EXCEPT !.vague = 0, !.hint = hint, !.max = max_hint(@, hint)]
    IN  IF hint = "H3" THEN Ask([next EXCEPT !.level = "L0"], e, "joint_mode")
        ELSE Reframed(Ask(next, e, "show_help_card"))

\* The order of the branches, after safety and small talk.
Decide(s, e) ==
    CASE e.new # {} -> Progress(s, e)
      [] e.new = {} /\ s.phase = "entry" /\ TaskOf(s).entry /\ e.stance = "reject" ->
             Ask([s EXCEPT !.phase = "open"], e, "entry_rejection_followup")
      [] OTHER ->
         CASE e.category \in {"full", "partial"} -> Unstructured(s, e)
           [] e.category = "vague" -> Vague(s, e)
           [] e.category = "block" -> Block(s, e)
           [] e.category = "help" -> Help(s, e)
           [] e.category \in {"concept", "concept_block"} -> Concept(s, e)
           [] OTHER ->
                  IF e.concept THEN Concept(s, e)
                  ELSE Ask(s, e, IF e.category = "input" THEN "clarify_input" ELSE "context_return")

-----------------------------------------------------------------------------
(* The turn the child sees. *)

\* _task_anchor: what is still asked, and what the child has taught already.
task_anchor(s) ==
    LET open == s.step.target \ s.verified
        target == IF open = {} THEN s.step.target ELSE open
    IN  [target |-> target, completed |-> s.verified \ target]

\* _turn_contract.
turn_contract(s, act, source, asked, note) ==
    LET screen == IF Active(s)
                  THEN [step |-> s.step, help |-> s.hint, anchor |-> task_anchor(s)]
                  ELSE [step |-> Step("none", {}), help |-> "H0",
                        anchor |-> [target |-> {}, completed |-> {}]]
    IN  [step |-> screen.step, help |-> screen.help, anchor |-> screen.anchor,
         act |-> act, source |-> source, asked |-> asked, note |-> note]

LegacyInit ==
    /\ tasks \in Lessons /\ storage \in BOOLEAN
    /\ \E starts \in [DOMAIN tasks -> StartLevels \cup {"L2"}],
          policy \in IF tasks[1].entry THEN {2, 3} ELSE {3} :
        LET menu == \A i \in DOMAIN tasks :
                       starts[i] \in IF tasks[i].id = "menu" THEN {"L2"} ELSE StartLevels
            opening == policy = 2 /\ tasks[1].entry /\ starts[1] = "L4"
            fresh == normalize_terminal_support(
                       [index |-> 1, starts |-> starts, policy |-> policy, level |-> starts[1],
                        hint |-> "H0", max |-> "H0", verified |-> {}, vague |-> 0,
                        phase |-> IF opening THEN "entry" ELSE "resolved",
                        evidence |-> {}, supported |-> {}, joint |-> FALSE, direct |-> TRUE,
                        done |-> <<>>, status |-> "active", outcome |-> "none", reward |-> FALSE,
                        step |-> Step("none", {})])
        IN  /\ menu
            /\ session = [fresh EXCEPT !.step = StepOf(fresh)]
    /\ turn = turn_contract(session, "initial", "reviewed", session.step.target, "none")
    /\ decision = Undecided
    /\ told = [i \in DOMAIN tasks |-> {}] /\ reached = told /\ jointly = {}

-----------------------------------------------------------------------------
(* One response: understand and orchestrate. *)

Blank == [category |-> "help", relation |-> "current", stance |-> "none", truth |-> "none",
          concept |-> FALSE, quote |-> FALSE, claims |-> <<>>]

Awaits(kind) == Active(session) /\ decision = Undecided /\ Kind(session.step) = kind

\* Hands a decision to the speaker; nothing is stored before the turn is composed.
Hand(d, e) ==
    LET kept == {slot \in e.new : /\ storage /\ e.type = "text"
                                  /\ e.claims[slot] \in {"quotable", "argued", "numeric"}}
        i == session.index
    IN  /\ decision' = d
        /\ told' = [told EXCEPT ![i] = @ \cup kept]
        /\ reached' = [reached EXCEPT ![i] = @ \cup (IF storage /\ e.type = "text" THEN {} ELSE e.new)]
        /\ jointly' = IF /\ d.act \in {"session_complete", "task_transition"}
                         /\ session.level = "L0" \/ session.max = "H3"
                      THEN jointly \cup {i} ELSE jointly
        /\ UNCHANGED <<fixed, session, turn>>

NoEffect(s, a) == Effect(s, "text", [a EXCEPT !.claims = <<>>, !.category = "unrelated"], {}, {})

\* Small talk and play keep everything; an unsafe text is not quoted either.
Talk(s, e) == Reframed(Ask(s, e, "acknowledge_non_learning_and_reask"))

TextAnswer ==
    /\ Awaits("text")
    /\ \E a \in Analyses(TaskOf(session)) :
        LET e == Effect(session, "text", a, Surviving(TaskOf(session), a), Grounded(TaskOf(session), a))
            mute == NoEffect(session, a)
        IN  CASE a.safety = "unsafe" ->
                    Hand(Ask(session, [mute EXCEPT !.quote = FALSE], "unsafe_redirect"), mute)
              [] a.safety = "playful" ->
                    Hand(Reframed(Ask(session, mute, "brief_ack_and_redirect")), mute)
              [] a.safety = "normal" /\ ConversationOnly(TaskOf(session), a) ->
                    Hand(Talk(session, mute), mute)
              [] OTHER -> Hand(Decide(session, e), e)

\* _deterministic_analysis: a tap or a joint action has no words to interpret.
Structured(claims) ==
    LET right == StructuredGrounded(claims)
        claimed == {slot \in DOMAIN claims : claims[slot] # "none"}
        a == [Blank EXCEPT !.category = IF right = {} THEN "concept" ELSE "partial",
                           !.concept = right = {}, !.claims = claims]
        e == Effect(session, "structured", a, claimed, right)
    IN  Hand(Decide(session, e), e)

\* No choice, several, or one that the step does not offer.
InputError ==
    LET e == Effect(session, "structured", [Blank EXCEPT !.category = "input"], {}, {})
    IN  Hand(Decide(session, e), e)

\* A menu beyond the budget is put back.
OverBudget ==
    LET e == Effect(session, "structured", Blank, {}, {})
    IN  TaskOf(session).budget /\ Hand(Ask(session, e, "budget_exceeded"), e)

ChoiceAnswer ==
    /\ Awaits("choices")
    /\ \/ \E claims \in [session.step.target -> {"named", "wrong"}] : Structured(claims)
       \/ InputError \/ OverBudget

\* The legacy engine takes any values in a joint action, also none.
JointAnswer ==
    /\ Awaits("joint")
    /\ \E claims \in [session.step.target -> {"none", "named", "wrong"}] : Structured(claims)

\* The button "I don't know".
NoResponse ==
    /\ Active(session) /\ decision = Undecided
    /\ LET e == Effect(session, "none", Blank, {}, {}) IN Hand(Decide(session, e), e)

\* The deadline for the child's wording passes between two turns: by the purge,
\* or when the next turn loads the state (_load_state).  Nothing is kept from
\* then on, and the wording of the open task is gone.
RawExpires ==
    /\ storage /\ Active(session) /\ decision = Undecided
    /\ storage' = FALSE
    /\ session' = [session EXCEPT !.evidence = {}]
    /\ told' = [told EXCEPT ![session.index] = {}]
    /\ UNCHANGED <<tasks, turn, decision, reached, jointly>>

-----------------------------------------------------------------------------
(* The speaker, and the turn that is composed and committed. *)

ReviewedActs == {"unsafe_redirect", "joint_mode", "session_complete", "task_transition"}
BridgeActs == {"acknowledge_non_learning_and_reask", "brief_ack_and_redirect"}

Required(d) == d.session.step.target \ d.session.verified

\* The child may be quoted if the words are safe and the question is open.
QuoteSafe(d) ==
    /\ d.quote
    /\ d.act \in BridgeActs \/ Required(d) \cap tasks[d.session.index].explain # {}

\* A mutant: an output that asks more than is open passes.
AsksAtLeast(o, d) ==
    /\ o.act = d.act /\ Required(d) \subseteq o.asked /\ o.used \subseteq d.facts
    /\ o.span # "none" => QuoteSafe(d) /\ o.span = "exact"

validate_speaker_output(o, d) ==
    /\ o.act = d.act /\ o.asked = Required(d) /\ o.used \subseteq d.facts
    /\ o.span # "none" => QuoteSafe(d) /\ o.span = "exact"

\* _validate_and_compose_node: the turn becomes the state's current turn.
Compose(source, asked) ==
    /\ session' = decision.session
    /\ turn' = turn_contract(decision.session, decision.act, source, asked, decision.note)
    /\ decision' = Undecided
    /\ UNCHANGED <<fixed, history>>

\* Turns beside a note, joint work and redirections use the reviewed sentence.
SpeakReviewed == decision.act \in ReviewedActs /\ Compose("reviewed", decision.fallback)

\* The bridge for talk, the speaker for the rest; its output is checked, and a
\* refused, failed or late one leaves the reviewed sentence.
Speak ==
    /\ decision.act \notin ReviewedActs \cup {"none"}
    /\ \/ \E o \in Outputs(tasks[decision.session.index], decision) :
             validate_speaker_output(o, decision) /\ Compose("model", o.asked)
       \/ Compose("reviewed", decision.fallback)

LegacyNext ==
    TextAnswer \/ ChoiceAnswer \/ JointAnswer \/ NoResponse \/ RawExpires \/ SpeakReviewed \/ Speak

LegacySpec == LegacyInit /\ [][LegacyNext]_legacyVars

-----------------------------------------------------------------------------
(* What has to hold. *)

Finished == IF Active(session) THEN session.index - 1 ELSE session.index

\* A note in the child's name quotes, for every slot it is about, words the
\* child said in that task and that were kept when it was written, so none whose
\* deadline had passed; a shared note covers only what the child said or did
\* there (_record_note_provenance, _note_from_provenance, the reset in
\* _complete_task, _load_state).
NoteIsTheChilds ==
    turn.note # "none" =>
        LET task == tasks[Finished]
        IN  /\ turn.note = "child" => task.note \subseteq told[Finished]
            /\ turn.note = "coauthored" => task.note \subseteq told[Finished] \cup reached[Finished]

\* The reward and the outcome speak of the whole session: no reward once any of
\* its tasks was finished together, and "taught" only if every noted task was
\* taught in the child's kept words; and the evidence that the completion
\* contract reports was kept for every task (_complete_task, _completion_facts).
EndIsEarned ==
    ~ Active(session) =>
        /\ session.reward <=> jointly = {}
        /\ session.outcome = "taught" => \A i \in DOMAIN tasks : tasks[i].note \subseteq told[i]
        /\ Len(session.done) = Len(tasks)
        /\ \A i \in DOMAIN tasks : tasks[i].required \subseteq session.done[i]

\* The screen and the sentence agree: a question is open, the help card is the
\* last one exactly in joint work, a generated sentence asks just what the anchor
\* shows, and a reviewed one, if it names anything, names all of that and
\* nothing from another step.  It may name more: the prompt of a whole step asks
\* again for what is verified, against README.md:54 and ARCHITECTURE.md:562-563
\* (_decision_for_current_step, _complete_task, _task_anchor, validate_speaker_output).
TurnIsCoherent ==
    /\ Active(session) => ~ turn.step.target \subseteq session.verified
    /\ Active(session) => (turn.step.form = "joint" <=> turn.help = "H3")
    /\ turn.source = "model" => turn.asked = turn.anchor.target
    /\ turn.asked # {} =>
           turn.anchor.target \subseteq turn.asked /\ turn.asked \subseteq turn.step.target

\* After an answer that brought nothing new although it was understood, the
\* child is not shown the same interaction again, short of joint work
\* (_lower_until_visible_contract_changes).
VisiblyNew ==
    [][ turn'.act \in {"acknowledge_unstructured_partial", "support_vague_response"} /\ turn' # turn
        /\ turn.step.form # "joint"
          => turn'.step # turn.step ]_legacyVars

=============================================================================
