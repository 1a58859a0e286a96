---------------------------- MODULE TaskContent ----------------------------
(***************************************************************************)
(* The reviewed tasks of content.py as the legacy engine sees them: slots, *)
(* the steps of every expression level, and what a note needs.  A step is  *)
(* its form and its target slots: the prompt and the input follow from     *)
(* them, so two steps look alike to the child iff they are equal.          *)
(***************************************************************************)
EXTENDS Naturals, Sequences, FiniteSets

Levels == {"L4", "L3", "L2", "L0"}
Hints == <<"H0", "H1", "H2", "H3">>
HintRank == [H0 |-> 0, H1 |-> 1, H2 |-> 2, H3 |-> 3]

lower == [l \in Levels |-> CASE l = "L4" -> "L3" [] l = "L3" -> "L2" [] OTHER -> "L0"]
increase(h) == IF h = "H3" THEN h ELSE Hints[HintRank[h] + 2]
max_hint(g, h) == IF HintRank[g] < HintRank[h] THEN h ELSE g

Step(form, target) == [form |-> form, target |-> target]

\* The input contract of a step.
Kind(step) ==
    CASE step.form \in {"entry", "free", "short"} -> "text"
      [] step.form \in {"choose", "pick"} -> "choices"
      [] step.form = "joint" -> "joint"

\* The ladder of a teaching task: everything at once, slot by slot in the
\* child's words, slot by slot as choices, and everything together.
Ladder(short, choose) ==
    LET all == {short[i] : i \in DOMAIN short}
    IN  [l \in Levels |->
            CASE l = "L4" -> <<Step("free", all)>>
              [] l = "L3" -> [i \in DOMAIN short |-> Step("short", {short[i]})]
              [] l = "L2" -> [i \in DOMAIN choose |-> Step("choose", {choose[i]})]
              [] l = "L0" -> <<Step("joint", all)>>]

\* semantic: slots judged by meaning; numeric: slots with one reviewed number;
\* explain: text_explanation_slots; note: effective_note_slots, none without a note.
reviewed_task(id, short, choose, semantic, numeric, explain, note) ==
    [id |-> id, required |-> {short[i] : i \in DOMAIN short},
     semantic |-> semantic, numeric |-> numeric, explain |-> explain, note |-> note,
     arithmetic |-> TRUE, entry |-> FALSE, budget |-> FALSE,
     steps |-> Ladder(short, choose)]

\* An old snapshot opens with a wrong guess; the present catalogue never does.
configure_home_entry(task, entry) == [task EXCEPT !.entry = entry]

\* A home lesson: the note is about the method only.  Lessons without a money
\* scene have no arithmetic contract.
home_teaching_task(arithmetic, entry) ==
    configure_home_entry(
        [reviewed_task("home", <<"answer", "rule">>, <<"answer", "rule">>, {"rule"}, {"answer"},
              {"rule"}, {"rule"}) EXCEPT !.arithmetic = arithmetic], entry)

\* Two lessons have slots of their own: any way to count is a method, and which
\* side has more belongs into the note with its reason.
number_count_task(entry) ==
    configure_home_entry(
        [reviewed_task("home", <<"answer", "tracking">>, <<"answer", "tracking">>, {"tracking"}, {"answer"},
              {"tracking"}, {"tracking"}) EXCEPT !.arithmetic = FALSE], entry)

number_compare_task(entry) ==
    configure_home_entry(
        [reviewed_task("home", <<"answer", "reason">>, <<"answer", "reason">>, {"reason"}, {},
              {"reason"}, {"answer", "reason"}) EXCEPT !.arithmetic = FALSE], entry)

\* Two queues: the counts and the choice with its reason are asked in two parts.
queue_task ==
    LET counts == {"left_count", "right_count"}
        why == {"final_choice", "reason"}
        order == <<"left_count", "right_count", "final_choice", "reason">>
    IN  [reviewed_task("queue", order, order, {"reason"}, counts, {}, counts \cup why)
         EXCEPT !.arithmetic = FALSE,
                !.steps["L4"] = <<Step("free", counts), Step("free", why)>>,
                !.steps["L3"] = <<Step("short", counts), Step("short", {"final_choice"}),
                                  Step("short", {"reason"})>>]

\* Two amounts: the operation is a closed slot that the child has to name.
simple_calculation_task ==
    reviewed_task("calculation", <<"result", "operation">>, <<"operation", "result">>,
         {}, {"result"}, {}, {"operation", "result"})

\* One pick at every level but the last.
menu_selection_task(budget, noted) ==
    LET pick == Step("pick", {"child_menu"})
    IN  [reviewed_task("menu", <<"child_menu">>, <<"child_menu">>, {}, {}, {},
              IF noted THEN {"child_menu"} ELSE {})
         EXCEPT !.arithmetic = FALSE, !.budget = budget,
                !.steps = [l \in Levels |-> IF l = "L0" THEN <<Step("joint", {"child_menu"})>>
                                            ELSE <<pick>>]]

ParkSlots(stage) ==
    IF stage = "pass_break_even" THEN <<"answer", "benefit_from_rides", "strategy">>
    ELSE <<"answer", "strategy">>

\* The first problem of a park scenario, whose note is about everything in it.
park_primary_task(stage) ==
    LET slots == ParkSlots(stage)
        all == {slots[i] : i \in DOMAIN slots}
    IN  reviewed_task("primary", slots, slots, {"strategy"}, all \ {"strategy"}, {"strategy"}, all)

\* The same with other numbers: no note, and no slot that text must explain.
park_transfer_task(stage) ==
    [park_primary_task(stage) EXCEPT !.id = "transfer", !.explain = {}, !.note = {}]

\* The tasks of each scenario.
ScenarioTasks ==
    {<<home_teaching_task(a, e)>> : a \in BOOLEAN, e \in BOOLEAN}
    \cup {<<number_count_task(e)>> : e \in BOOLEAN} \cup {<<number_compare_task(e)>> : e \in BOOLEAN}
    \cup {<<queue_task>>, <<simple_calculation_task>>, <<menu_selection_task(TRUE, TRUE)>>,
          <<menu_selection_task(FALSE, FALSE), simple_calculation_task>>}
    \cup {<<park_primary_task(s), park_transfer_task(s)>> :
              s \in {"ticket", "snack_split", "pass_break_even"}}

(***************************************************************************)
(* Which step a state of the task asks.                                    *)
(***************************************************************************)
step_for(task, level, verified) ==
    LET steps == task.steps[level]
        open == {i \in DOMAIN steps : ~ steps[i].target \subseteq verified}
    IN  IF open = {} THEN steps[Len(steps)]
        ELSE steps[CHOOSE i \in open : \A j \in open : i <= j]

EntryStep(task) == Step("entry", task.required)

\* The opening guess comes first; a follow-up to a half answer keeps L4 and
\* asks the L3 question for what is missing.
active_step(task, level, verified, phase) ==
    CASE task.entry /\ phase = "entry" -> EntryStep(task)
      [] phase = "targeted" /\ level = "L4" -> step_for(task, "L3", verified)
      [] OTHER -> step_for(task, level, verified)

complete(task, verified) == task.required \subseteq verified

===========================================================================
