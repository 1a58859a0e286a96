--------------------------- MODULE TeachingTurn ---------------------------
(***************************************************************************)
(* One verdict-v1 home-teaching conversation in DialogueV2Engine: what a   *)
(* child's response does to the reasoning ledger, to the two support       *)
(* ladders (expression L4 L3 L2 L0, hint H0 H1 H2 H3), to the provenance   *)
(* of the star note and to the way the session ends.                       *)
(*                                                                         *)
(* A turn is one committed response; how two requests race for one turn is *)
(* TurnCommit's subject.  The understanding model is the environment: it   *)
(* may fail, or return any normalised response, twice at most.  Wording is *)
(* left out, and with it the speaker, the copy slots and the counters that *)
(* only choose between sentences (expression_failures, concept_failures,   *)
(* unrelated_count).                                                       *)
(***************************************************************************)
EXTENDS Naturals, Sequences, FiniteSets

CONSTANTS
    Facts, Relations,                    \* the pack's reasoning graph
    RequiredFacts, RequiredRelations,    \* its completion contract
    NoteRelations,                       \* policies.note_relation_ids
    HelpTarget,                          \* what the initial_help copy slot asks for
    InitialTargets, L3Plans, L2Plans,    \* the pack's question plans, by target
    Auxiliary,                           \* the target of an open auxiliary claim
    ClaimIds,
    Candidates,                          \* what the understanding model returns
    StartLevels                          \* stable levels a profile may hold

Required == RequiredFacts \cup RequiredRelations
Targets == Facts \cup Relations
Elements(plans) == {plans[i] : i \in DOMAIN plans}

\* validate_graph and validate_pack_contract: every plan list asks each
\* required target once, and H3 reveals every note relation.
ASSUME PackAssumption ==
    /\ RequiredFacts \subseteq Facts /\ RequiredFacts # {}
    /\ RequiredRelations \subseteq Relations /\ RequiredRelations # {}
    /\ NoteRelations \subseteq Relations /\ NoteRelations # {}
    /\ HelpTarget \in Required
    /\ Facts \cap Relations = {} /\ Auxiliary \notin Targets
    /\ \A plans \in {InitialTargets, L3Plans, L2Plans} :
           plans \in Seq(Required) /\ Elements(plans) = Required

Levels == {"L4", "L3", "L2", "L0"}
Hints == {"H0", "H1", "H2", "H3"}
Rank == [H0 |-> 0, H1 |-> 1, H2 |-> 2, H3 |-> 3]
Support == [L4 |-> 0, L3 |-> 1, L2 |-> 2, L0 |-> 3]

ASSUME StartLevelsAssumption == StartLevels \subseteq Levels

Moves == {"none", "task_question", "request_mormi_answer", "social"}
Needs == {"none", "expression", "general_help", "concept"}
Verdicts == {"correct", "partial", "incorrect", "uncertain"}
Claims == [id : ClaimIds, target : Targets \cup {Auxiliary}, verdict : Verdicts,
           literal : BOOLEAN]
UiReferences == {"none", "asks", "remarks"}

\* _internal_understanding_response: an unsafe utterance keeps nothing else,
\* and a request for the answer is a request for help.  Claim ids are unique.
Normalised(c) ==
    /\ c.unsafe => c.move = "none" /\ c.need = "none" /\ c.ui = "none" /\ c.claims = {}
    /\ c.move = "request_mormi_answer" => c.need # "none"
    /\ \A x, y \in c.claims : x.id = y.id => x = y

ASSUME CandidatesAssumption ==
    /\ Candidates \subseteq [unsafe : BOOLEAN, move : Moves, need : Needs, ui : UiReferences,
                             grounded : BOOLEAN, claims : SUBSET Claims]
    /\ \A c \in Candidates : Normalised(c)

Sources == {"sonnet_low", "deterministic_fallback", "structured_choice", "structured_joint",
            "explicit_no_response", "silence_timeout", "asr_empty"}

VARIABLES
    facts, relations, partials,   \* the reasoning ledger
    ladder,                       \* expression_level, hint_level, task_max_hint
    vague,                        \* vague_clarifications
    childEvidence, supported,     \* child_note_evidence, supported_note_slots
    question,                     \* the question contract of the current turn
    asked,                        \* the targets Mormi's sentence asks for
    result,                       \* how the session ended, and what it earned
    frame,                        \* the text response being understood
    ended,                        \* history: how the last request ended
    shown,                        \* history: the strongest help card shown with a question
    first                         \* history: how each relation was first verified

ledger == <<facts, relations, partials>>
pedagogy == <<ledger, ladder, vague, childEvidence, question, result>>
vars == <<pedagogy, supported, asked, frame, ended, shown, first>>

Active == result.outcome = "active"
Idle == [attempt |-> 0, admitted |-> {}]

-----------------------------------------------------------------------------
(* The question the state asks. *)

\* The first of these plans that asks one of the open targets.
FirstOpen(plans, open) ==
    plans[CHOOSE i \in DOMAIN plans :
              plans[i] \in open /\ \A j \in DOMAIN plans : plans[j] \in open => i <= j]

Remaining(F, R) == (RequiredFacts \ F) \cup (RequiredRelations \ R)

\* A mutant: a half-explained method stays in front after it was verified.
FocusStale(level, F, R, half) ==
    IF half \cap Required # {} THEN FirstOpen(InitialTargets, half)
    ELSE FirstOpen(IF level = "L3" THEN L3Plans ELSE L2Plans, Remaining(F, R))

\* _targets_from_active_state below L4: a half-explained method comes first.
Focus(level, F, R, half) ==
    LET open == Remaining(F, R)
        started == (half \ R) \cap open
    IN  IF started # {} THEN FirstOpen(InitialTargets, started)
        ELSE FirstOpen(IF level = "L3" THEN L3Plans ELSE L2Plans, open)

question_contract(level, F, R, half) ==
    LET open == Remaining(F, R)
    IN  CASE level = "L0" -> [plan |-> "l0", targets |-> open]
          [] level = "L4" -> [plan |-> IF Cardinality(open) > 1 THEN "initial" ELSE "l3", targets |-> open]
          [] level = "L3" -> [plan |-> "l3", targets |-> {Focus(level, F, R, half)}]
          [] level = "L2" -> [plan |-> "l2", targets |-> {Focus(level, F, R, half)}]

NoQuestion == [plan |-> "none", targets |-> {}]

\* Before an L0 turn is emitted its card is H3, whatever the state said.
Displayed(p) ==
    IF p.level = "L0" THEN [level |-> "L0", hint |-> "H3", max |-> p.max] ELSE p

Init ==
    \E start \in StartLevels :
        /\ facts = {} /\ relations = {} /\ partials = {}
        /\ ladder = Displayed([level |-> start, hint |-> "H0", max |-> "H0"])
        /\ vague = 0
        /\ childEvidence = {} /\ supported = {}
        /\ question = question_contract(start, {}, {}, {})
        /\ asked = question.targets
        /\ result = [outcome |-> "active", reward |-> FALSE, note |-> "none", credit |-> "none"]
        /\ frame = Idle
        /\ ended = "abandoned"
        /\ shown = ladder.hint
        /\ first = [r \in Relations |-> "none"]

-----------------------------------------------------------------------------
(* The ladder policy. *)

MaxHint(g, h) == IF Rank[g] >= Rank[h] THEN g ELSE h

raise_hint(p) ==
    LET level == IF p.hint = "H2" THEN "L0" ELSE p.level
        up == CASE p.hint = "H0" -> "H1" [] p.hint = "H1" -> "H2" [] OTHER -> "H3"
        hint == IF level = "L0" THEN "H3" ELSE up
    IN  [level |-> level, hint |-> hint, max |-> MaxHint(p.max, hint)]

\* A mutant: the ladder has no rung below L2.
LowerToL2(p) ==
    [level |-> IF p.level = "L4" THEN "L3" ELSE IF p.level = "L0" THEN "L0" ELSE "L2",
     hint |-> p.hint, max |-> p.max]

lower_expression(p) ==
    LET level == CASE p.level = "L4" -> "L3" [] p.level = "L3" -> "L2" [] OTHER -> "L0"
    IN  IF level = "L0" THEN [level |-> level, hint |-> "H3", max |-> "H3"]
        ELSE [level |-> level, hint |-> p.hint, max |-> p.max]

\* What a turn hands to the policy: its source, the conversational axes, and
\* the targets its admitted claims verify.
Semantics(source, move, need, asks, wrong, F, R, half) ==
    [source |-> source, move |-> move, need |-> need, asks |-> asks, wrong |-> wrong,
     facts |-> F, relations |-> R, partials |-> half]

NewCanonical(s) == s.facts \ facts # {} \/ s.relations \ relations # {}
NewPartial(s) == s.partials \ (relations \cup partials) # {}
Asks(s) == s.move \in {"task_question", "request_mormi_answer"} \/ s.asks

\* The branch of _apply_ladder_policy that a turn takes: the first that applies.
Reading(s) ==
    IF s.source = "deterministic_fallback" THEN "unread"
    ELSE IF NewCanonical(s) THEN "progress"
    ELSE IF NewPartial(s) THEN "partial"
    ELSE IF Asks(s) THEN "question"
    ELSE IF s.move = "social" THEN "aside"
    ELSE IF s.source = "asr_empty" THEN "unheard"
    ELSE IF s.need = "expression" THEN "wordless"
    ELSE IF s.need = "general_help" THEN "helpless"
    ELSE IF s.need = "concept" \/ s.wrong THEN "mistaken"
    ELSE "vague"

apply_ladder_policy(s) ==
    LET r == Reading(s)
    IN  CASE r = "question" \/ r = "mistaken" \/ (r = "progress" /\ Asks(s)) -> raise_hint(ladder)
          [] r = "helpless" -> raise_hint(lower_expression(ladder))
          [] r = "wordless" \/ (r = "vague" /\ vague = 1) -> lower_expression(ladder)
          [] r = "partial" /\ ladder.level = "L4" ->
                 [level |-> "L3", hint |-> ladder.hint, max |-> ladder.max]
          [] OTHER -> ladder

NextVague(s) ==
    CASE Reading(s) \in {"progress", "partial", "question"} -> 0
      [] Reading(s) = "vague" -> 1 - vague
      [] OTHER -> vague

-----------------------------------------------------------------------------
(* From semantics to the next turn: _apply_execution, then either             *)
(* _complete_execution or a question, then _compose_execution.                *)

Complete(F, R) == RequiredFacts \subseteq F /\ RequiredRelations \subseteq R

Guided(h) == h \in {"H2", "H3"}

\* A mutant: the card that was up when the child answered is not considered.
TrackAnyHint(s, after) ==
    LET new == (s.relations \ relations) \cap NoteRelations
        own == IF s.source = "sonnet_low" THEN new ELSE {}
    IN  /\ childEvidence' = childEvidence \cup own
        /\ supported' = supported \cup (new \ own)

\* _track_note_provenance: a note relation is the child's own only when it is
\* first verified by free text read under H0 or H1.
track_note_provenance(s, after) ==
    LET new == (s.relations \ relations) \cap NoteRelations
        direct == s.source = "sonnet_low" /\ ~Guided(ladder.hint)
        own == IF direct THEN new \ supported ELSE {}
        open == NoteRelations \ (relations \cup s.relations)
        guided == Guided(ladder.hint) \/ Guided(after.hint)
    IN  /\ childEvidence' = childEvidence \cup own
        /\ supported' = supported \cup (new \ (childEvidence \cup own))
                                \cup (IF guided THEN open ELSE {})

\* A completed session leaves a star note once every note relation is verified.
note_update(R, own) ==
    CASE ~(NoteRelations \subseteq R) -> "none"
      [] NoteRelations \subseteq own -> "child"
      [] OTHER -> "coauthored"

\* The profile update that follows a note reads the state before the last turn.
update_skill_profile(note) ==
    CASE note = "none" -> "none"
      [] ladder.max = "H0" -> "h0_success"
      [] OTHER -> "hinted"

complete_state(s, R, own) ==
    LET taught == NoteRelations \subseteq own /\ s.source # "structured_joint"
        note == note_update(R, own)
    IN  [outcome |-> IF taught THEN "taught" ELSE "supported",
         reward |-> taught,
         note |-> note,
         credit |-> update_skill_profile(note)]

\* A plain request for help at L4-H0 is answered with the initial_help copy.
initial_help(s) ==
    /\ ladder.level = "L4" /\ ladder.hint = "H0"
    /\ s.need = "general_help" /\ s.move = "none"

Conclude(s) ==
    LET F == facts \cup s.facts
        R == relations \cup s.relations
        half == partials \cup (s.partials \ relations)
        moved == apply_ladder_policy(s)
        after == IF Complete(F, R) THEN moved ELSE Displayed(moved)
    IN  /\ facts' = F /\ relations' = R /\ partials' = half
        /\ ladder' = after
        /\ vague' = NextVague(s)
        /\ track_note_provenance(s, moved)
        /\ IF Complete(F, R)
           THEN /\ result' = complete_state(s, R, childEvidence')
                /\ question' = NoQuestion /\ asked' = {}
           ELSE /\ question' = question_contract(after.level, F, R, half)
                /\ asked' = IF initial_help(s) THEN {HelpTarget} ELSE question'.targets
                /\ UNCHANGED result
        /\ frame' = Idle
        /\ ended' = s.source
        /\ shown' = IF Complete(F, R) THEN shown ELSE MaxHint(shown, after.hint)
        /\ first' = [r \in Relations |->
                        IF r \notin R \ relations THEN first[r]
                        ELSE IF s.source = "sonnet_low" /\ ~Guided(shown) THEN "told"
                        ELSE "helped"]

-----------------------------------------------------------------------------
(* Text: the literal evidence guard and one repair attempt. *)

\* A response arrives; nothing is written until its turn is concluded.
Listen ==
    /\ Active /\ frame = Idle
    /\ frame' = [attempt |-> 1, admitted |-> {}]
    /\ UNCHANGED <<pedagogy, supported, asked, ended, shown, first>>

Unread == Semantics("deterministic_fallback", "none", "none", FALSE, FALSE, {}, {}, {})

\* The ledger reads only verdicts: a right fact or relation is verified, a
\* half-right relation is kept apart for a follow-up question.
Verified(claims, ids) == {x.target : x \in {y \in claims : y.verdict = "correct"}} \cap ids
Halfway(claims) == {x.target : x \in {y \in claims : y.verdict = "partial"}} \cap Relations

admitted_semantics(g) ==
    Semantics("sonnet_low", IF g.unsafe THEN "social" ELSE g.move, g.need, g.ui = "asks",
              \E x \in g.claims : x.verdict = "incorrect",
              Verified(g.claims, Facts), Verified(g.claims, Relations), Halfway(g.claims))

\* Pure play, refusal, meta talk or a safety risk: nothing to admit.
Bridge(c) == c.unsafe \/ (c.ui = "none" /\ c.move = "social" /\ c.claims = {})

Admissible(c) == {x \in c.claims : x.literal}

\* A reference to the screen counts only when a card is up and it is quoted.
admit(c) ==
    [c EXCEPT !.claims = Admissible(c),
              !.ui = IF c.grounded /\ ladder.hint # "H0" THEN c.ui ELSE "none"]

\* A mutant: the repair replaces what the first attempt admitted.
MergeLatest(kept, g) == g

\* Claims admitted once are immutable; the first response keeps its axes.
merge_admitted(kept, g) ==
    IF kept = {} THEN g
    ELSE LET base == CHOOSE k \in kept : TRUE
             ids == {x.id : x \in base.claims}
         IN  [base EXCEPT !.claims = base.claims \cup {x \in g.claims : x.id \notin ids},
                          !.ui = IF base.ui # "none" THEN base.ui ELSE g.ui]

\* A mutant: a failing attempt is a failed turn, whatever was admitted before.
AttemptFailsTurn ==
    /\ frame.attempt > 0
    /\ Conclude(Unread)

\* The provider times out, is down or answers outside the contract.
AttemptFails ==
    /\ frame.attempt > 0
    /\ IF frame.admitted = {} THEN Conclude(Unread)
       ELSE Conclude(admitted_semantics(CHOOSE k \in frame.admitted : TRUE))

understand_attempt(c) ==
    LET needsRepair == Admissible(c) # c.claims
        g == merge_admitted(frame.admitted, admit(c))
    IN  /\ frame.attempt > 0
        /\ IF Bridge(c) /\ frame.admitted = {}
           THEN Conclude(admitted_semantics(c))
           ELSE IF needsRepair /\ frame.attempt = 1
           THEN /\ frame' = [attempt |-> 2, admitted |-> IF g.claims = {} THEN {} ELSE {g}]
                /\ UNCHANGED <<pedagogy, supported, asked, ended, shown, first>>
           ELSE IF needsRepair /\ g.claims = {}
           THEN Conclude(Unread)
           ELSE Conclude(admitted_semantics(g))

\* The client goes away: the turn runs on a deep copy, so nothing is kept.
Abandon ==
    /\ frame.attempt > 0
    /\ frame' = Idle
    /\ ended' = "abandoned"
    /\ UNCHANGED <<pedagogy, supported, asked, shown, first>>

-----------------------------------------------------------------------------
(* Buttons, silence and structured answers: no model is asked. *)

NoResponse(kind) ==
    /\ Active /\ frame = Idle
    /\ Conclude(Semantics(kind, "none",
                          CASE kind = "explicit_no_response" -> "general_help"
                            [] kind = "silence_timeout" -> "expression"
                            [] OTHER -> "none",
                          FALSE, FALSE, {}, {}, {}))

apply_structured_progress(source, wrong, F, R) ==
    Semantics(source, "none", "none", FALSE, wrong, F, R, {})

\* A right method choice performs every relation the note is about.
Choose(correct) ==
    /\ Active /\ frame = Idle
    /\ ladder.level = "L2"
    /\ \E t \in question.targets :
           Conclude(apply_structured_progress("structured_choice", ~correct,
               IF correct THEN {t} \cap Facts ELSE {},
               IF correct /\ t \in Relations THEN {t} \cup NoteRelations ELSE {}))

\* The joint action submits every required target and the H3 note relations.
JointAction ==
    /\ Active /\ frame = Idle
    /\ ladder.level = "L0" /\ ladder.hint = "H3"
    /\ Conclude(apply_structured_progress("structured_joint", FALSE, RequiredFacts,
                                          RequiredRelations \cup NoteRelations))

Next ==
    \/ Listen \/ AttemptFails \/ Abandon
    \/ \E c \in Candidates : understand_attempt(c)
    \/ \E kind \in {"explicit_no_response", "silence_timeout", "asr_empty"} : NoResponse(kind)
    \/ \E correct \in BOOLEAN : Choose(correct)
    \/ JointAction

Spec == Init /\ [][Next]_vars

\* classifier_timeout_seconds ends every attempt.  The child is the rest of the
\* environment: however often it talks past the question it also falls silent,
\* and it presses the joint button when that stays on the screen.
Fairness ==
    /\ WF_vars(AttemptFails)
    /\ SF_vars(NoResponse("silence_timeout"))
    /\ SF_vars(JointAction)

FairSpec == Spec /\ Fairness

-----------------------------------------------------------------------------
(* Properties. *)

TypeOK ==
    /\ facts \subseteq Facts /\ relations \subseteq Relations /\ partials \subseteq Relations
    /\ ladder \in [level : Levels, hint : Hints, max : Hints]
    /\ vague \in {0, 1}
    /\ childEvidence \subseteq NoteRelations /\ supported \subseteq NoteRelations
    /\ question \in [plan : {"none", "initial", "l3", "l2", "l0"}, targets : SUBSET Required]
    /\ asked \subseteq Required
    /\ result \in [outcome : {"active", "taught", "supported"}, reward : BOOLEAN,
                   note : {"none", "child", "coauthored"},
                   credit : {"none", "h0_success", "hinted"}]
    /\ frame.attempt \in 0..2
    /\ ended \in Sources \cup {"abandoned"}
    /\ shown \in Hints
    /\ first \in [Relations -> {"none", "told", "helped"}]

\* L0 and H3 come and go together: no turn offers the joint action without the
\* full card, and none asks for an own answer under a card that gives it away.
TerminalLadderPair == ladder.level = "L0" <=> ladder.hint = "H3"

\* The plans a question may follow at a level.
PlansAt(level) ==
    CASE level = "L4" -> {"initial", "l3"}
      [] level = "L3" -> {"l3"}
      [] level = "L2" -> {"l2"}
      [] level = "L0" -> {"l0"}

\* The input of an active turn is for something, only for targets the ledger
\* lacks, and in the form its level promises; so a choice or a joint action is
\* always useful.
QuestionIsOpen ==
    Active =>
        /\ question.targets # {} /\ question.targets \subseteq Remaining(facts, relations)
        /\ question.plan \in PlansAt(ladder.level)
        /\ question.plan # "initial" /\ question.plan # "l0" =>
               Cardinality(question.targets) = 1

\* A session counts as taught exactly when the child stated every note relation
\* in free text before a card that guides the method had been shown, and did not
\* finish by the joint action.
TaughtIffIndependent ==
    ~Active =>
        (result.outcome = "taught") <=>
            (ended # "structured_joint" /\ \A r \in NoteRelations : first[r] = "told")

\* A star note is signed by the child only for relations it stated unguided,
\* and no completed session with every note relation verified goes without one.
NoteAttribution ==
    ~Active =>
        /\ (result.note = "child") <=> (\A r \in NoteRelations : first[r] = "told")
        /\ (result.note = "none") <=> (\E r \in NoteRelations : first[r] = "none")

\* Outcome and note give the child credit for what it taught unguided, and only
\* for that.
CreditIsTheChilds == TaughtIffIndependent /\ NoteAttribution

\* The profile counts an H0 success only for a session in which no help card
\* was ever shown with a question.  A learner who opens at L0 is the exception:
\* _question_contract sets H3 for it and leaves task_max_hint at H0.
H0SuccessIsUnaided ==
    result.credit = "h0_success" /\ ladder.level # "L0" => shown = "H0"

\* Within a task support is never withdrawn: the expression level never climbs
\* and the hint never falls, whatever the child says.
SupportOnlyGrows ==
    [][/\ Support[ladder'.level] >= Support[ladder.level]
       /\ Rank[ladder'.hint] >= Rank[ladder.hint]
       /\ Rank[ladder'.max] >= Rank[ladder.max]]_vars

\* Ladders, question and recorded help fit together in every turn, and no turn
\* takes support back.
SupportIsCoherent ==
    [](TerminalLadderPair /\ QuestionIsOpen /\ H0SuccessIsUnaided) /\ SupportOnlyGrows

\* What the first understanding attempt admitted reaches the ledger even if the
\* repair attempt times out, fails, contradicts it or returns nothing.
AdmittedReachesLedger ==
    [][(frame.attempt = 2 /\ frame'.attempt = 0 /\ ended' # "abandoned") =>
           \A g \in frame.admitted : \A x \in g.claims :
               x.verdict = "correct" => x.target \in facts' \cup relations' \cup {Auxiliary}]_vars

\* A failed understanding says nothing about the child: no ladder, ledger or
\* provenance moves and the same question is asked again.
UnreadIsNeutral ==
    [][(frame.attempt > 0 /\ frame'.attempt = 0 /\ ended' = "deterministic_fallback") =>
           UNCHANGED pedagogy]_vars

\* Whatever becomes of the two attempts, the child keeps what it got right and
\* does not pay for what was not understood (_understand_attempt,
\* _merge_admitted_understanding).  docs/ARCHITECTURE.md:323-325 and 660-661 say
\* that a failed repair keeps nothing and is answered with an error; that is the
\* mutant AttemptFailsTurn.
UnderstandingIsFair == AdmittedReachesLedger /\ UnreadIsNeutral

\* A child who keeps falling silent is led down to the joint action and, once it
\* presses that button, every conversation completes.
SilentChildFinishes == <>(~Active)

===========================================================================
