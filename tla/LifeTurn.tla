----------------------------- MODULE LifeTurn -----------------------------
(***************************************************************************)
(* One verdict-v1 conversation in the cafe or the amusement park           *)
(* (DialogueV2LifeEngine): several tasks one after the other, each with    *)
(* its ledger, its variant and its note provenance in the pinned scenario. *)
(*                                                                         *)
(* The life engine inherits understanding, guard and ladder policy from    *)
(* the home engine, and so does this module: Home is TeachingTurn with the *)
(* current task's ledger as its ledger.  A text is given by what the guard *)
(* admitted of it; how it is read is TeachingTurn's subject.               *)
(***************************************************************************)
EXTENDS LifeContent

CONSTANTS
    Stages,          \* park stages
    Menus,           \* the menus on the screen
    Affordable,      \* those a child may take, in the order of the screen
    ProfileLevels,   \* stable levels a profile may hold
    Readings(_)      \* what the guard may admit of a text, by pack

ASSUME LifeAssumption ==
    /\ Affordable \in Seq(Menus) /\ Affordable # <<>>
    /\ ProfileLevels \subseteq {"L4", "L3", "L2", "L0"}

VARIABLES
    scenario, status,    \* the pinned scenario; new, refused, active or completed
    index, variants,     \* task_index, active_variant_ids
    ledgers, notes,      \* reasoning_ledgers, task_note_states
    ladder, vague,       \* expression and hint ladder of the current task
    question,            \* the targets the current turn asks for
    patched,             \* tasks with a stored visual patch
    joint, direct,       \* joint_performance_used, all_tasks_direct
    outcome,             \* completion outcome, "none" before
    emitted,             \* note_update of the current turn
    first, closer,       \* history: how each relation was first verified, what ended each task
    picked, signed       \* history: the value chosen last, the notes emitted

record == <<ledgers, notes, variants>>
vars == <<scenario, status, index, record, ladder, vague, question, patched, joint, direct,
          outcome, emitted, first, closer, picked, signed>>

None == "none"
Started == status \in {"active", "completed"}
PackAt(i) == scenario.stages[i].variants[variants[i]]
Task == PackAt(index)
Ledger == IF Started THEN ledgers[index] ELSE [facts |-> <<>>, relations |-> {}, partials |-> {}]

Home == INSTANCE TeachingTurn WITH
    Facts <- {}, Relations <- {}, RequiredFacts <- {}, RequiredRelations <- {},
    NoteRelations <- {}, HelpTarget <- None, InitialTargets <- <<>>, L3Plans <- <<>>,
    L2Plans <- <<>>, Auxiliary <- None, ClaimIds <- {}, Candidates <- {}, StartLevels <- {},
    facts <- DOMAIN Ledger.facts, relations <- Ledger.relations, partials <- Ledger.partials,
    childEvidence <- {}, supported <- {}, asked <- {}, result <- None, frame <- None,
    ended <- None, shown <- None

-----------------------------------------------------------------------------
(* The question of a task. *)

EmptyLedger == [facts |-> <<>>, relations |-> {}, partials |-> {}]
EmptyNote == [independent |-> {}, supported |-> {}, joint |-> FALSE, emitted |-> FALSE]

Remaining(pack, l) == (pack.facts \ DOMAIN l.facts) \cup (pack.relations \ l.relations)

\* _targets_from_active_state: everything at the ends of the ladder, otherwise a
\* half-explained method, otherwise the first open plan.
Targets(pack, level, l) ==
    LET open == Remaining(pack, l)
        started == (l.partials \ l.relations) \cap open
    IN  CASE level \in {"L4", "L0"} -> open
          [] level \in {"L3", "L2"} /\ started # {} -> {Home!FirstOpen(pack.initial, started)}
          [] OTHER -> {Home!FirstOpen(IF level = "L3" THEN pack.l3 ELSE pack.l2, open)}

-----------------------------------------------------------------------------
(* Creation. *)

Scenarios ==
    {materialize_cafe_scenario(n, Menus, Affordable) : n \in {"queue", "budget_menu", "menu_total", "change"}}
    \cup {pinned_menu_total(Menus, Affordable)}
    \cup {materialize_amusement_scenario(s, l) : s \in Stages, l \in ProfileLevels}

Opening(sc) == sc.stages[1].variants[sc.stages[1].default]

\* What the guard admits of a text came from the understanding model, or is
\* nothing at all.
ASSUME ReadingsAssumption ==
    \A sc \in Scenarios : \A i \in DOMAIN sc.stages : \A v \in DOMAIN sc.stages[i].variants :
        \A s \in Readings(sc.stages[i].variants[v]) : s.source \in {"sonnet_low", "deterministic_fallback"}

Init ==
    /\ scenario \in Scenarios /\ status = "new"
    /\ index = 1
    /\ variants = [i \in DOMAIN scenario.stages |-> scenario.stages[i].default]
    /\ ledgers = [i \in DOMAIN scenario.stages |-> EmptyLedger]
    /\ notes = [i \in DOMAIN scenario.stages |-> EmptyNote]
    /\ ladder = [level |-> Opening(scenario).entry, hint |-> "H0", max |-> "H0"]
    /\ vague = 0 /\ question = {} /\ patched = {}
    /\ joint = FALSE /\ direct = TRUE /\ outcome = None /\ emitted = None
    /\ first = [i \in DOMAIN scenario.stages |-> <<>>]
    /\ closer = [i \in DOMAIN scenario.stages |-> None]
    /\ picked = None /\ signed = <<>>

\* initialize_scenario_state, after the pack was materialised and validated.
initialize_scenario_state ==
    /\ status = "new"
    /\ IF EntryAllowed(Opening(scenario).entry) /\ ValidScenario(scenario)
       THEN /\ status' = "active"
            /\ question' = Targets(Opening(scenario), ladder.level, EmptyLedger)
       ELSE status' = "refused" /\ UNCHANGED question
    /\ UNCHANGED <<scenario, index, record, ladder, vague, patched, joint, direct, outcome,
                   emitted, first, closer, picked, signed>>

-----------------------------------------------------------------------------
(* From semantics to the next turn. *)

\* A mutant: a method told under the reviewed help is the child's own.
TrackAnyText(pack, note, s, l, after) ==
    LET told == s.relations \cap pack.note
        own == IF s.source = "sonnet_low" THEN told ELSE {}
    IN  IF pack.note = {} THEN note
        ELSE [note EXCEPT !.independent = @ \cup own, !.supported = @ \cup (told \ own),
                          !.joint = @ \/ s.source = "structured_joint"]

\* _track_note_provenance.  Every relation stated in this turn has new evidence,
\* also one that was verified before.
track_note_provenance(pack, note, s, l, after) ==
    LET told == s.relations \cap pack.note
        own == IF s.source = "sonnet_low" /\ ~Home!Guided(ladder.hint) THEN told \ note.supported ELSE {}
        guided == Home!Guided(ladder.hint) \/ Home!Guided(after.hint)
    IN  IF pack.note = {} THEN note
        ELSE [note EXCEPT !.independent = @ \cup own,
                          !.supported = @ \cup (told \ (note.independent \cup own))
                                          \cup (IF guided THEN pack.note \ l.relations ELSE {}),
                          !.joint = @ \/ s.source = "structured_joint"]

\* _note_update: once per task, when the task is over.
note_update(pack, note, l) ==
    CASE pack.note = {} \/ ~ pack.note \subseteq l.relations \/ note.emitted -> None
      [] OTHER -> IF pack.note \subseteq note.independent /\ ~ note.joint THEN "child" ELSE "coauthored"

\* A mutant: the next task keeps the variant it was created with.
DefaultVariant(books, i) == scenario.stages[i].default

\* The variant that an earlier answer selects.
select_variant(books, i) ==
    LET sel == scenario.stages[i].selector
    IN  IF sel = NoSelector THEN scenario.stages[i].default ELSE books[sel.stage].facts[sel.fact]

\* _completion_facts raises for a projected target that nobody verified.
Projectable(books) ==
    \A p \in scenario.projection : p[2] \in DOMAIN books[p[1]].facts \cup books[p[1]].relations

\* A mutant: only the last task counts.
DirectNow(own, s) == own /\ s.source # "structured_joint"

\* all_tasks_direct.
StillDirect(own, s) == direct /\ own /\ s.source # "structured_joint"

\* _complete_state and _build_turn for the last task and for any other.
EndSession(books, own, moved, s, patch) ==
    /\ Projectable(books)
    /\ status' = "completed"
    /\ outcome' = IF direct' /\ ~ joint' THEN "taught" ELSE "supported"
    /\ ledgers' = books /\ notes' = own
    /\ ladder' = moved /\ vague' = Home!NextVague(s) /\ question' = {}
    /\ patched' = IF patch THEN patched \cup {index} ELSE patched
    /\ UNCHANGED <<index, variants>>

NextTask(books, own) ==
    LET next == index + 1
        variant == select_variant(books, next)
        pack == scenario.stages[next].variants[variant]
    IN  /\ index' = next
        /\ variants' = [variants EXCEPT ![next] = variant]
        /\ ledgers' = [books EXCEPT ![next] = EmptyLedger] /\ notes' = own
        /\ ladder' = [level |-> pack.entry, hint |-> "H0", max |-> "H0"] /\ vague' = 0
        /\ patched' = patched \ {index}
        /\ question' = Targets(pack, pack.entry, EmptyLedger)
        /\ UNCHANGED <<status, outcome>>

complete_state(pack, l, note, moved, s, patch) ==
    LET own == IF pack.note # {} THEN pack.note \subseteq note.independent
               ELSE s.source = "sonnet_low"
        sign == note_update(pack, note, l)
        books == [ledgers EXCEPT ![index] = l]
        kept == [notes EXCEPT ![index] = [note EXCEPT !.emitted = @ \/ sign # None]]
    IN  /\ joint' = (joint \/ s.source = "structured_joint")
        /\ direct' = StillDirect(own, s)
        /\ emitted' = sign
        /\ signed' = IF sign = None THEN signed ELSE Append(signed, <<index, sign>>)
        /\ closer' = [closer EXCEPT ![index] = s.source]
        /\ IF index = Len(scenario.stages) THEN EndSession(books, kept, moved, s, patch)
           ELSE NextTask(books, kept)

Stay(pack, l, note, moved, s) ==
    /\ ledgers' = [ledgers EXCEPT ![index] = l]
    /\ notes' = [notes EXCEPT ![index] = note]
    /\ ladder' = Home!Displayed(moved) /\ vague' = Home!NextVague(s)
    /\ question' = Targets(pack, moved.level, l)
    /\ emitted' = None
    /\ UNCHANGED <<status, index, variants, joint, direct, outcome, closer, signed>>

\* given: the values of the facts of s.  A fact keeps the value it has.
Conclude(s, given, patch) ==
    LET pack == Task
        known == DOMAIN Ledger.facts
        l == [facts |-> [f \in known \cup s.facts |-> IF f \in known THEN Ledger.facts[f] ELSE given[f]],
              relations |-> Ledger.relations \cup s.relations,
              partials |-> Ledger.partials \cup (s.partials \ Ledger.relations)]
        moved == Home!apply_ladder_policy(s)
        note == track_note_provenance(pack, notes[index], s, l, moved)
        how == IF s.source = "sonnet_low" /\ ~Home!Guided(ladder.hint) THEN "told" ELSE "helped"
        new == s.relations \ Ledger.relations
    IN  /\ IF Remaining(pack, l) = {} THEN complete_state(pack, l, note, moved, s, patch)
           ELSE /\ Stay(pack, l, note, moved, s)
                /\ patched' = IF patch THEN patched \cup {index} ELSE patched
        /\ first' = [first EXCEPT ![index] = [r \in DOMAIN @ \cup new |-> IF r \in new THEN how ELSE @[r]]]
        /\ UNCHANGED scenario

-----------------------------------------------------------------------------
(* The responses of a child. *)

\* Free text: the ledger keeps the canonical value, whichever the child named.
Text ==
    /\ status = "active" /\ ladder.level \in {"L4", "L3"}
    /\ \E s \in Readings(Task) : Conclude(s, [f \in s.facts |-> Head(Task.values[f])], FALSE)
    /\ UNCHANGED picked

Press(kind, need) ==
    /\ status = "active"
    /\ Conclude(Home!Semantics(kind, "none", need, FALSE, FALSE, {}, {}, {}), <<>>, FALSE)
    /\ UNCHANGED picked

ExplicitHelp == Press("explicit_no_response", "general_help")
SilenceTimeout == Press("silence_timeout", "expression")
AsrEmpty == Press("asr_empty", "none")

\* _choice_semantics: a right choice has its reviewed effect, a wrong one none;
\* both may leave a patch on the screen.
Choose ==
    /\ status = "active" /\ ladder.level = "L2"
    /\ \E t \in question : \E e \in Task.choices[t] :
        /\ Conclude(Home!Semantics("structured_choice", "none", "none", FALSE, ~e.correct,
                                   DOMAIN e.facts, e.relations, {}), e.facts, e.patch)
        /\ picked' = IF "child_menu" \in DOMAIN e.facts THEN e.facts["child_menu"] ELSE picked

\* _joint_semantics: exactly the pinned values.
JointAction ==
    /\ status = "active" /\ ladder.level = "L0" /\ ladder.hint = "H3"
    /\ Conclude(Home!Semantics("structured_joint", "none", "none", FALSE, FALSE,
                               DOMAIN Task.joint, Task.jointly \cup Task.note, {}), Task.joint, FALSE)
    /\ picked' = IF "child_menu" \in DOMAIN Task.joint THEN Task.joint["child_menu"] ELSE picked

Next ==
    \/ initialize_scenario_state
    \/ Text \/ ExplicitHelp \/ SilenceTimeout \/ AsrEmpty \/ Choose \/ JointAction

\* A child that is silent now and then and presses the joint button when it stays.
Fairness == WF_vars(initialize_scenario_state) /\ SF_vars(SilenceTimeout) /\ SF_vars(JointAction)

Spec == Init /\ [][Next]_vars /\ Fairness

-----------------------------------------------------------------------------
(* Properties. *)

Noted == {i \in DOMAIN scenario.stages : PackAt(i).note # {}}
ToldAlone(i) ==
    closer[i] # "structured_joint" /\ \A r \in PackAt(i).note : r \in DOMAIN first[i] /\ first[i][r] = "told"

\* Every finished task with a note signed it once, in the order of the tasks, in
\* the child's name exactly if the child stated the whole method of that task
\* unguided; what another task saw or said does not count (_track_note_provenance,
\* _note_update, the note states of the pinned scenario).
NotesAreTheTasks ==
    LET over == {i \in Noted : closer[i] # None}
    IN  /\ {signed[k][1] : k \in DOMAIN signed} = over /\ Len(signed) = Cardinality(over)
        /\ \A k \in DOMAIN signed : (signed[k][2] = "child") <=> ToldAlone(signed[k][1])

\* A life session is taught exactly if no task was finished together, every noted
\* task was told unguided and every other task was ended by free text; and its
\* report can be made (_complete_state, _completion_facts).
TaughtInEveryTask ==
    status = "completed" =>
        /\ (outcome = "taught") <=>
               \A i \in DOMAIN scenario.stages :
                   IF i \in Noted THEN ToldAlone(i) ELSE closer[i] = "sonnet_low"
        /\ Projectable(ledgers)

\* A finished task is final, and the task that follows starts for the value the
\* child picked, with an empty ledger and without help (_complete_state).
TaskRecordIsFinal ==
    [][/\ \A i \in DOMAIN scenario.stages :
              i < index => ledgers'[i] = ledgers[i] /\ notes'[i] = notes[i] /\ variants'[i] = variants[i]
       /\ index' # index =>
              /\ ladder'.hint = "H0" /\ notes'[index'] = EmptyNote
              /\ scenario.stages[index'].selector # NoSelector => variants'[index'] = picked']_vars

\* A child who keeps falling silent is led through every task to the end.
SilentChildFinishesAll == <>(status \in {"completed", "refused"})

===========================================================================
