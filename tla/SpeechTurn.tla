---------------------------- MODULE SpeechTurn ----------------------------
(***************************************************************************)
(* What Mormi says in a verdict-v1 home-teaching turn: the route from the  *)
(* turn's semantics to a sentence, the response plan and its contract, the *)
(* reaction model with its two attempts, the output guard, the reviewed    *)
(* fallbacks and the words about the help card.                            *)
(*                                                                         *)
(* Ledger, ladder and question are those of TeachingTurn, used here as     *)
(* Home.  A sentence is given by what a child could learn or do from it:   *)
(* the answers it names, the targets it asks for, how many questions it    *)
(* asks, and what it says about the help card.                             *)
(***************************************************************************)
EXTENDS Naturals, Sequences, FiniteSets

CONSTANTS
    Facts, Relations, RequiredFacts, RequiredRelations, HelpTarget,
    InitialTargets, L3Plans, L2Plans,   \* the pack, as in TeachingTurn
    NumberFacts,                        \* facts whose value is a number or an amount
    Numerals,                           \* numbers that are no fact's value
    Labels,                             \* the numbers in the speaker_label of each relation
    Utterances,                         \* what a turn may have been understood as
    Outputs,                            \* what a speaker model may return
    RepeatLimit                         \* le=100 of the plans' repeat_count

VARIABLES
    facts, relations, partials, ladder, vague,   \* as in TeachingTurn
    concept, unrelated,                          \* concept_failures, unrelated_count
    said,                                        \* the sentence of the current turn
    job                                          \* the turn being executed

ledger == <<facts, relations, partials>>
state == <<ledger, ladder, vague, concept, unrelated, said>>
vars == <<state, job>>

None == "none"
Home == INSTANCE TeachingTurn WITH
    NoteRelations <- Relations, Auxiliary <- None, ClaimIds <- {}, Candidates <- {},
    StartLevels <- {}, childEvidence <- {}, supported <- {}, question <- None, asked <- {},
    result <- None, frame <- None, ended <- None, shown <- None, first <- None

Social == {"meta_question", "refusal", "safe_play"}
Flaws == {"none", "empty", "too_many_lines", "private", "question"}
\* What a model may say about the help card: that one is there, that one has come
\* out, that the two follow it together.
CardWords == {"card", "opened", "joint"}

ASSUME SpeechAssumption ==
    /\ NumberFacts \subseteq Facts /\ Numerals \cap (Facts \cup Relations) = {}
    /\ Labels \in [Relations -> SUBSET (NumberFacts \cup Numerals)]
    /\ RepeatLimit \in Nat
    /\ Outputs \subseteq [flaw : Flaws, names : SUBSET (Facts \cup Relations \cup Numerals),
                          words : SUBSET CardWords]
    /\ \A u \in Utterances :
           /\ u.facts \cup u.relations \cup u.partials # {} \/ u.wrong => u.evidence
           /\ u.move = "request_mormi_answer" => u.need # "none"
           /\ u.unsafe => u.move = "none" /\ u.need = "none" /\ u.ui = "none" /\ ~u.evidence

Complete(F, R) == RequiredFacts \subseteq F /\ RequiredRelations \subseteq R
Active == ~Complete(facts, relations)
Idle == [stage |-> "idle"]

-----------------------------------------------------------------------------
(* The turn's next state: apply_progress, computed on a copy of the state.    *)

Meaning(u) ==
    Home!Semantics(u.source, IF u.unsafe \/ u.move \in Social THEN "social" ELSE u.move, u.need,
                   u.ui = "asks", u.wrong, u.facts, u.relations, u.partials)

Verified(u) == facts \cup u.facts
Established(u) == relations \cup u.relations
Started(u) == partials \cup (u.partials \ relations)
Finishes(u) == Complete(Verified(u), Established(u))

After(u) ==
    LET moved == Home!apply_ladder_policy(Meaning(u))
    IN  IF Finishes(u) THEN moved ELSE Home!Displayed(moved)

CardVisible(u) == After(u).hint # "H0"
CardStronger(u) == After(u).hint # ladder.hint

NextConcept(u) ==
    CASE Home!Reading(Meaning(u)) = "progress" -> 0
      [] Home!Reading(Meaning(u)) = "mistaken" -> concept + 1
      [] OTHER -> concept

\* Counted up to one above the limit of the plans.
NextUnrelated(u) ==
    CASE Home!Reading(Meaning(u)) \in {"progress", "partial"} -> 0
      [] Home!Reading(Meaning(u)) = "aside" /\ unrelated <= RepeatLimit -> unrelated + 1
      [] OTHER -> unrelated

-----------------------------------------------------------------------------
(* The question and the way it is put. *)

Input(u) == Home!question_contract(After(u).level, Verified(u), Established(u), Started(u))

initial_help(u) == Home!initial_help(Meaning(u))

\* A first plain request for help is answered with the initial_help copy slot.
Question(u) ==
    IF initial_help(u) THEN [plan |-> "help", targets |-> {HelpTarget}] ELSE Input(u)

\* The first that applies.
route_for_understanding(u) ==
    IF u.source = "deterministic_fallback" THEN "understanding_fallback"
    ELSE IF initial_help(u) \/ u.source \in {"explicit_no_response", "structured_joint"} THEN "stable"
    ELSE IF u.unsafe THEN "safety"
    ELSE IF u.ui = "none" /\ u.move \in Social /\ ~u.evidence THEN "bridge"
    ELSE "main"

\* The only transition each copy slot was generated for.
transition_for_purpose ==
    [help |-> <<"L4", "H0", "L3", "H1">>,
     l2   |-> <<"L3", "H1", "L2", "H2">>,
     l0   |-> <<"L2", "H2", "L0", "H3">>]

stable_fallback(u) ==
    LET plan == Question(u).plan
    IN  /\ plan \in DOMAIN transition_for_purpose
        /\ transition_for_purpose[plan] =
               <<ladder.level, ladder.hint, After(u).level, After(u).hint>>

\* A child that only lacks the words gets the easier question itself.
uses_reviewed_expression_support(u) ==
    /\ route_for_understanding(u) = "main" /\ u.source = "sonnet_low"
    /\ u.need = "expression" /\ u.move = "none" /\ ~u.evidence
    /\ ~Home!NewCanonical(Meaning(u)) /\ ~Home!NewPartial(Meaning(u))

\* progress_kind answer_only, without any conversational move.
answer_only(u) ==
    /\ u.facts \ facts # {} /\ u.relations \subseteq relations
    /\ ~Home!NewPartial(Meaning(u)) /\ u.move = "none"

\* execution_speech_route and the branches of _render_execution_speech.
Channel(u) ==
    LET route == route_for_understanding(u)
    IN  CASE Finishes(u) -> "closing"
          [] ~Finishes(u) /\ route = "understanding_fallback" -> "fallback"
          [] ~Finishes(u) /\ uses_reviewed_expression_support(u) -> "reviewed"
          [] ~Finishes(u) /\ route = "stable" /\ stable_fallback(u) ->
                 IF Question(u).plan = "l0" THEN "reviewed" ELSE "copy"
          [] ~Finishes(u) /\ route = "safety" -> "reviewed"
          [] ~Finishes(u) /\ route = "bridge" -> "bridge"
          [] OTHER -> IF answer_only(u) THEN "acknowledge" ELSE "speaker"

-----------------------------------------------------------------------------
(* The response plan. *)

\* A mutant: whoever needs help is sent to the card, up or not.
RedirectUnseen(u) ==
    CASE u.move \in Social -> u.move
      [] u.move = "request_mormi_answer" -> "decline_answer_and_ask"
      [] u.move = "task_question" -> "redirect_to_help_card"
      [] OTHER -> IF u.ui # "none" \/ u.wrong \/ u.need \in {"concept", "general_help"}
                  THEN "redirect_to_help_card" ELSE "normal"

response_mode(u) ==
    CASE u.move \in Social -> u.move
      [] u.move = "request_mormi_answer" -> "decline_answer_and_ask"
      [] u.move = "task_question" -> "redirect_to_help_card"
      [] OTHER -> IF \/ u.ui # "none"
                     \/ CardVisible(u) /\ (u.wrong \/ u.need \in {"concept", "general_help"})
                  THEN "redirect_to_help_card" ELSE "normal"

reask_mode(u) ==
    CASE After(u).level = "L0" -> "joint_action"
      [] After(u).level # "L0" /\ response_mode(u) \in
             {"redirect_to_help_card", "decline_answer_and_ask"} -> "help_guided_targets"
      [] OTHER -> "remaining_targets"

\* ConversationResponsePlanV2: no word about a card that is not on the screen.
validate_public_support_context(u) ==
    /\ Question(u).targets # {}
    /\ reask_mode(u) = "help_guided_targets" => CardVisible(u)
    /\ reask_mode(u) = "joint_action" => After(u).hint = "H3"

\* Contracts outside every try: a plan that breaks one takes the turn along.
Plannable(u) ==
    /\ validate_public_support_context(u)
    /\ Channel(u) = "bridge" => NextUnrelated(u) <= RepeatLimit
    /\ Channel(u) = "speaker" =>
           NextConcept(u) <= RepeatLimit /\ (u.ui # "none" => CardVisible(u))

-----------------------------------------------------------------------------
(* Sentences. *)

Sentence(names, asks, questions, card, joint, opened, strays) ==
    [names |-> names, asks |-> asks, questions |-> questions, card |-> card,
     joint |-> joint, opened |-> opened, strays |-> strays]

\* A mutant: a remark about the card counts as a new card.
NewOnEveryRemark(u) ==
    {w \in {"card", "opened"} :
        /\ Channel(u) = "speaker" /\ CardVisible(u)
        /\ w = "opened" => u.ui # "none"}

\* What the plan tells the reaction model of the card: help_card_visible, and on a
\* remark about the card the card_event.  The bridge is told nothing.
card_licence(u) ==
    {w \in {"card", "opened"} :
        /\ Channel(u) = "speaker" /\ CardVisible(u)
        /\ w = "opened" => u.ui # "none" /\ CardStronger(u)}

\* A mutant: a reaction that already fills the line goes without the question.
ComposeReactionOnly(o) == Sentence(o.names, {}, 0, FALSE, FALSE, FALSE, {})

\* _compose_reaction_and_reask with _safe_reask_text: the reaction has no
\* question, the server appends its own.  No one checks what the reaction says of
\* the card: strays are the words for which the model had no licence.
compose_reaction_and_reask(o) ==
    LET licensed == o.words \cap job.speech.licence
    IN  Sentence(o.names, job.speech.question.targets, 1,
                 job.speech.reask # "remaining_targets" \/ "card" \in licensed,
                 job.speech.reask = "joint_action", "opened" \in licensed, o.words \ licensed)

\* The reviewed text of the question's own slot; at L0 it invites to the card.
Reviewed ==
    LET joint == job.speech.question.plan = "l0"
    IN  Sentence({}, job.speech.question.targets, 1, joint, joint, FALSE, {})

reviewed_fact_acknowledgement == [names |-> job.turn.facts \ facts, words |-> {}]

conversational_fallback(u) ==
    LET joint == Input(u).plan = "l0"
        refusal == u.ui = "none" /\ u.move = "refusal"
    IN  Sentence({}, Question(u).targets, 1,
                 joint \/ (CardVisible(u) /\ ~refusal), joint,
                 CardStronger(u) /\ (u.ui # "none" \/ u.move = "task_question"), {})

Closing == Sentence({}, {}, 0, FALSE, FALSE, FALSE, {})

-----------------------------------------------------------------------------
(* The output guard. *)

Numbers(names) == names \cap (NumberFacts \cup Numerals)

\* A mutant: the answers of the question before this turn are the secret ones.
FirewallOfLastQuestion ==
    Home!question_contract(ladder.level, facts, relations, partials).targets

\* Values and right options of what the next question asks for.
unresolved_answer_firewall == job.speech.question.targets

\* The values a reaction may repeat: what the child has just got right.
allowed_facts ==
    IF job.stage = "bridge" THEN {} ELSE (job.turn.facts \ facts) \ job.speech.question.targets

\* _speaker_accepted_relations: the methods of this turn, under their full names.
accepted_relations == IF job.stage = "bridge" THEN {} ELSE job.turn.relations \ relations

\* speaker_output_violation and bridge_output_violation.  The plans have neither a
\* question nor an earlier text, so no other reviewed surface brings numbers in.
Passes(o) ==
    /\ o.flaw = "none"
    /\ o.names \cap unresolved_answer_firewall = {}
    /\ Numbers(o.names) \subseteq allowed_facts \cup UNION {Labels[r] : r \in accepted_relations}

\* stable_copy_output_violation: the text is the question, so it may ask, and no
\* one looks for private words in a text made without a child's.
CopyPasses(o) ==
    /\ o.flaw \notin {"empty", "too_many_lines"}
    /\ o.names \cap job.speech.question.targets = {}
    /\ Numbers(o.names) = {}

-----------------------------------------------------------------------------
(* A turn. *)

Init ==
    /\ facts = {} /\ relations = {} /\ partials = {}
    /\ ladder = [level |-> "L4", hint |-> "H0", max |-> "H0"]
    /\ vague = 0 /\ concept = 0 /\ unrelated = 0
    /\ said = Sentence({}, RequiredFacts \cup RequiredRelations, 1, FALSE, FALSE, FALSE, {})
    /\ job = Idle

Utterance(source, need, wrong, F, R) ==
    [source |-> source, move |-> "none", need |-> need, ui |-> "none", unsafe |-> FALSE,
     wrong |-> wrong, evidence |-> F \cup R # {}, facts |-> F, relations |-> R, partials |-> {}]

\* Buttons: help, silence, an empty recording, an option at L2, the joint action.
Buttons ==
    {Utterance("explicit_no_response", "general_help", FALSE, {}, {}),
     Utterance("silence_timeout", "expression", FALSE, {}, {}),
     Utterance("asr_empty", "none", FALSE, {}, {})}
    \cup {Utterance("structured_choice", "none", ~right,
                    IF right THEN {t} \cap Facts ELSE {},
                    IF right /\ t \in Relations THEN Relations ELSE {}) :
              right \in BOOLEAN,
              t \in IF Active /\ ladder.level = "L2"
                    THEN Home!question_contract("L2", facts, relations, partials).targets ELSE {}}
    \cup (IF ladder.level = "L0"
          THEN {Utterance("structured_joint", "none", FALSE, RequiredFacts, Relations)} ELSE {})

\* What is needed to speak, unless the task is finished.
PreparedSpeech(u) ==
    IF Finishes(u) THEN None
    ELSE [question |-> Question(u), reask |-> reask_mode(u), planned |-> Plannable(u),
          licence |-> card_licence(u), fallback |-> conversational_fallback(u)]

\* apply_progress and prepare_speech work on a copy of the state: what the turn
\* carries from here to its commit.
Prepared(u) ==
    [stage |-> Channel(u), turn |-> u, attempt |-> 1, speech |-> PreparedSpeech(u),
     next |-> [facts |-> Verified(u), relations |-> Established(u), partials |-> Started(u),
               ladder |-> After(u), vague |-> Home!NextVague(Meaning(u)),
               concept |-> NextConcept(u), unrelated |-> NextUnrelated(u)]]

\* A reference to the help card is admitted only while one is up.
Understand(u) ==
    /\ Active /\ job = Idle
    /\ u.ui # "none" => ladder.hint # "H0"
    /\ job' = Prepared(u)
    /\ UNCHANGED state

\* compose and commit: the copy becomes the state, with its sentence.
Say(sentence) ==
    /\ facts' = job.next.facts /\ relations' = job.next.relations
    /\ partials' = job.next.partials /\ ladder' = job.next.ladder /\ vague' = job.next.vague
    /\ concept' = job.next.concept /\ unrelated' = job.next.unrelated
    /\ said' = sentence
    /\ job' = Idle

\* Sentences that need no model.
SayReviewed ==
    \/ job.stage = "closing" /\ Say(Closing)
    \/ job.stage = "fallback" /\ Say(job.speech.fallback)
    \/ job.stage = "reviewed" /\ Say(Reviewed)
    \/ /\ job.stage = "acknowledge" /\ job.speech.planned
       /\ Say(compose_reaction_and_reask(reviewed_fact_acknowledgement))

\* What the copy resolver hands out is checked once more before it is shown.
SayCopy(o) ==
    /\ job.stage = "copy"
    /\ Say(IF CopyPasses(o)
           THEN Sentence(o.names, job.speech.question.targets, 1, FALSE, FALSE, FALSE, o.words)
           ELSE Reviewed)

\* The attempt graph: one more try, then the reviewed fallback.
retry_or_exhausted ==
    IF job.attempt < 2
    THEN job' = [job EXCEPT !.attempt = @ + 1] /\ UNCHANGED state
    ELSE Say(job.speech.fallback)

speak_attempt(o) ==
    /\ job.stage = "speaker" /\ job.speech.planned
    /\ IF Passes(o) THEN Say(compose_reaction_and_reask(o)) ELSE retry_or_exhausted

\* The provider times out, is down or answers outside the schema.
SpeakerFails ==
    /\ job.stage = "speaker" /\ job.speech.planned
    /\ retry_or_exhausted

bridge(o) ==
    /\ job.stage = "bridge" /\ job.speech.planned
    /\ Say(IF Passes(o) THEN compose_reaction_and_reask(o) ELSE job.speech.fallback)

BridgeFails ==
    /\ job.stage = "bridge" /\ job.speech.planned
    /\ Say(job.speech.fallback)

\* A plan that breaks its contract raises through the turn graph: the request
\* ends with an error and the copy of the state is dropped.
PlanFails ==
    /\ job.stage \in {"acknowledge", "speaker", "bridge"} /\ ~job.speech.planned
    /\ job' = Idle
    /\ UNCHANGED state

\* The client goes away and its turn is cancelled.
TurnCancelled ==
    /\ job # Idle
    /\ job' = Idle
    /\ UNCHANGED state

Next ==
    \/ \E u \in Utterances \cup Buttons : Understand(u)
    \/ SayReviewed \/ SpeakerFails \/ BridgeFails \/ PlanFails \/ TurnCancelled
    \/ \E o \in Outputs : SayCopy(o) \/ speak_attempt(o) \/ bridge(o)

Spec == Init /\ [][Next]_vars

\* The graph runs on by itself; speaker_timeout_seconds and
\* bridge_timeout_seconds end a call, and the copy resolver always ends.
Fairness ==
    /\ WF_vars(SayReviewed \/ PlanFails)
    /\ WF_vars(SpeakerFails) /\ WF_vars(BridgeFails)
    /\ WF_vars(\E o \in Outputs : SayCopy(o))

FairSpec == Spec /\ Fairness

-----------------------------------------------------------------------------
(* Properties. *)

\* Whatever model, guard or fallback produced it, the sentence of an active turn
\* asks exactly one question, for exactly what is still missing at the new level;
\* only the first offer of help, before any stronger card, asks for its own target.
AsksForItsInput ==
    Active =>
        /\ said.questions = 1
        /\ \/ said.asks = Home!question_contract(ladder.level, facts, relations, partials).targets
           \/ ladder.hint \in {"H0", "H1"} /\ said.asks = {HelpTarget}

\* Mormi never gives away an answer it asks for before the child has told it, and
\* says no number that the child has not got right or that is not part of the name
\* of a method the child has taught (speaker_output_violation_v2,
\* _unresolved_answer_firewall, the fallbacks).
AnswerStaysWithTheChild ==
    /\ said.names \cap said.asks \subseteq facts
    /\ Numbers(said.names) \subseteq facts \cup UNION {Labels[r] : r \in relations}

\* Words about the help card are true of the screen they appear on, whether the
\* server wrote them or told a model that it may: no sentence sends the child to a
\* card that is not up, the joint action is offered exactly at L0, and a card is
\* said to have come out only in a turn that opened or strengthened one.  A model
\* that goes beyond its plan is not covered: its strays pass the guard, although
\* llm.py:1520-1521 rules them out (_conversation_response_plan, _safe_reask_text,
\* _speaker_response_signal, _conversational_fallback).
CardWordsMatchTheScreen ==
    [][/\ said'.card => ladder'.hint # "H0"
       /\ Active' => (said'.joint <=> ladder'.level = "L0")
       /\ said' # said /\ said'.opened => ladder'.hint # ladder.hint]_vars

\* A response that was understood is answered, with two exceptions: a question or
\* a request to be told, put while half-explaining a method before any card was
\* up, and the response that takes an unbroken row of asides or mistakes over the
\* limit of the plan.
LostTurnsAreKnown ==
    [][PlanFails =>
           \/ /\ job.turn.move \in {"task_question", "request_mormi_answer"}
              /\ job.turn.partials # {} /\ ladder.hint = "H0"
           \/ unrelated >= RepeatLimit \/ concept >= RepeatLimit]_vars

\* Every understood turn ends, however often the models fail.
EveryTurnEnds == job # Idle ~> job = Idle

\* Every understood turn is answered, but for the known exceptions.
EveryTurnIsAnswered == EveryTurnEnds /\ LostTurnsAreKnown

===========================================================================
