---------------------------- MODULE LifeContent ----------------------------
(***************************************************************************)
(* The reviewed packs of the cafe and of the amusement park: what a task   *)
(* asks for, in which order, what a choice does, what the joint action     *)
(* submits, and which task variant follows which choice.  Numbers, labels  *)
(* and sentences are left out.                                             *)
(***************************************************************************)
EXTENDS Naturals, Sequences, FiniteSets

Members(s) == {s[i] : i \in DOMAIN s}

\* The one value of a fact that has no alternatives.
Reviewed == "reviewed"

Right(facts, relations) == [correct |-> TRUE, facts |-> facts, relations |-> relations, patch |-> FALSE]
Wrong(patch) == [correct |-> FALSE, facts |-> <<>>, relations |-> {}, patch |-> patch]

\* values: what each fact accepts, the first one its canonical value.
Pack(values, relations, l3, l2, choices, note, entry) ==
    [values |-> values, facts |-> DOMAIN values, relations |-> relations,
     initial |-> l3, l3 |-> l3, l2 |-> l2, choices |-> choices,
     joint |-> [f \in DOMAIN values |-> Head(values[f])], jointly |-> relations,
     note |-> note, entry |-> entry]

\* A choice list with one right answer per target and a wrong one.
OneRight(facts, relations) ==
    [t \in facts \cup relations |->
        {IF t \in facts THEN Right([f \in {t} |-> Reviewed], {}) ELSE Right(<<>>, {t}), Wrong(FALSE)}]

Single(facts) == [f \in facts |-> <<Reviewed>>]

-----------------------------------------------------------------------------
(* The cafe. *)

queue_pack ==
    LET facts == {"left_count", "right_count", "final_choice"}
        relations == {"choose_shorter_queue"}
        order == <<"left_count", "right_count", "final_choice", "choose_shorter_queue">>
    IN  Pack(Single(facts), relations, order, order, OneRight(facts, relations), relations, "L4")

\* Every affordable menu is right and carries itself; within a budget it also
\* performs the rule.  The other menus show what they would cost.
menu_selection_pack(menus, affordable, budget) ==
    LET rule == IF budget THEN {"choose_menu_within_budget"} ELSE {}
        order == IF budget THEN <<"child_menu", "choose_menu_within_budget">> ELSE <<"child_menu">>
        Effect(m) == IF m \in Members(affordable)
                     THEN [Right([f \in {"child_menu"} |-> m], rule) EXCEPT !.patch = TRUE]
                     ELSE Wrong(TRUE)
    IN  Pack([f \in {"child_menu"} |-> affordable], rule, order, order,
             [t \in Members(order) |-> {Effect(m) : m \in menus}], rule, "L2")

calculation_pack ==
    Pack(Single({"result"}), {"operation"}, <<"result", "operation">>, <<"result", "operation">>,
         OneRight({"result"}, {"operation"}), {"operation"}, "L4")

-----------------------------------------------------------------------------
(* The amusement park: the first problem leaves the note, the second has none. *)

park_pack(stage, phase, entry) ==
    LET facts == IF stage = "pass_break_even" THEN {"answer", "benefit_from_rides"} ELSE {"answer"}
        order == IF stage = "pass_break_even" THEN <<"answer", "benefit_from_rides", "strategy">>
                 ELSE <<"answer", "strategy">>
    IN  Pack(Single(facts), {"strategy"}, order, order, OneRight(facts, {"strategy"}),
             IF phase = "primary" THEN {"strategy"} ELSE {}, entry)

-----------------------------------------------------------------------------
(* Scenarios: stages of variants, one of them the default; a selector names    *)
(* the earlier stage and the fact whose value picks the variant.               *)

NoSelector == [stage |-> 0, fact |-> "none"]
Stage(variants, default, selector) ==
    [variants |-> variants, default |-> default, selector |-> selector]
Only(pack) == Stage([v \in {"default"} |-> pack], "default", NoSelector)

\* projection: the targets of each stage that the completion contract reports.
Scenario(name, stages, projection) == [name |-> name, stages |-> stages, projection |-> projection]

Report(stage, targets) == {<<stage, t>> : t \in targets}

materialize_cafe_scenario(name, menus, affordable) ==
    CASE name = "queue" ->
             Scenario(name, <<Only(queue_pack)>>, Report(1, queue_pack.facts \cup queue_pack.relations))
      [] name = "budget_menu" ->
             Scenario(name, <<Only(menu_selection_pack(menus, affordable, TRUE))>>,
                      Report(1, {"child_menu"}))
      [] name \in {"menu_total", "change"} ->
             Scenario(name, <<Only(calculation_pack)>>, Report(1, {"result"}))

\* A conversation pinned before menu_total lost its first stage: the menu the
\* child picked selects the amounts to add.
pinned_menu_total(menus, affordable) ==
    Scenario("pinned_menu_total",
        <<Only(menu_selection_pack(menus, affordable, FALSE)),
          Stage([m \in Members(affordable) |-> calculation_pack], Head(affordable),
                [stage |-> 1, fact |-> "child_menu"])>>,
        Report(1, {"child_menu"}) \cup Report(2, {"result"}))

\* _entry_level: a park task opens free or with choices and nowhere else.
EntryAllowed(level) == level \in {"L4", "L2"}

materialize_amusement_scenario(stage, level) ==
    Scenario(stage, <<Only(park_pack(stage, "primary", level)), Only(park_pack(stage, "transfer", level))>>,
             Report(1, park_pack(stage, "primary", level).facts))

-----------------------------------------------------------------------------
(* What construction validates. *)

\* LifeTaskPackV2.validate_task.
ValidPack(p) ==
    LET required == p.facts \cup p.relations
    IN  /\ Members(p.initial) = required /\ Members(p.l3) = required /\ Members(p.l2) = required
        /\ Cardinality(required) = Len(p.l3) /\ Len(p.l3) = Len(p.l2)
        /\ DOMAIN p.joint = p.facts /\ p.jointly = p.relations
        /\ p.note \subseteq p.relations
        /\ \A f \in p.facts : p.joint[f] \in Members(p.values[f])
        /\ \A t \in required :
              /\ \E e \in p.choices[t] : e.correct
              /\ \A e \in p.choices[t] : e.correct =>
                    /\ t \in DOMAIN e.facts \cup e.relations
                    /\ \A f \in DOMAIN e.facts : f \in p.facts /\ e.facts[f] \in Members(p.values[f])
                    /\ e.relations \subseteq p.relations

\* LifeTaskStageV2.validate_variants and LifeScenarioPackV2.validate_scenario.
ValidScenario(s) ==
    \A i \in DOMAIN s.stages :
        LET st == s.stages[i]
        IN  /\ st.default \in DOMAIN st.variants
            /\ \A v \in DOMAIN st.variants : ValidPack(st.variants[v])
            /\ st.selector = NoSelector \/
                   /\ st.selector.stage \in 1 .. i - 1
                   /\ \A v \in DOMAIN s.stages[st.selector.stage].variants :
                         st.selector.fact \in s.stages[st.selector.stage].variants[v].facts

===========================================================================
