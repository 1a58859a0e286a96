---------------------------- MODULE EngineProofs ----------------------------
(***************************************************************************)
(* The two engines of sessions with several tasks: LifeTurn for every      *)
(* menu, stage and profile and whatever the guard admits of a text, and    *)
(* LegacyTurn for every scenario of the catalogue, start level, analysis   *)
(* and speaker output.                                                     *)
(***************************************************************************)
EXTENDS LifeTurn, LegacyTurn, FiniteSetTheorems, NaturalsInduction, WellFoundedInduction, TLAPS

Tasks == DOMAIN scenario.stages
Waiting == status \in {"new", "refused"}
\* The one scenario in which an answer selects the next task.
MenuFirst == pinned_menu_total(Menus, Affordable)

Closed(i) == i < index \/ status = "completed"

(* The inductive invariant.  The record of a task that has not begun is      *)
(* empty; in the current task the note state is tied to the history of how   *)
(* each relation was first verified, and a method marked as supported before *)
(* it was told is marked so only under a guiding card; signatures and the    *)
(* flag of direct teaching speak of the closed tasks.                        *)
ShapeInv ==
    /\ scenario \in Scenarios /\ index \in Tasks
    /\ status \in {"new", "refused", "active", "completed"}
    /\ DOMAIN variants = Tasks /\ DOMAIN ledgers = Tasks /\ DOMAIN notes = Tasks
    /\ DOMAIN first = Tasks /\ DOMAIN closer = Tasks
    /\ Waiting => /\ index = 1 /\ variants[1] = scenario.stages[1].default
                  /\ ledgers[1] = EmptyLedger /\ ladder.level = Opening(scenario).entry
    /\ ~Waiting => ValidScenario(scenario) /\ variants[index] \in DOMAIN scenario.stages[index].variants
    /\ status = "completed" => index = Len(scenario.stages)
    /\ \A i \in Tasks : closer[i] # None <=> Closed(i)
    /\ \A i \in Tasks : i > index \/ Waiting => notes[i] = EmptyNote /\ first[i] = <<>>

Provenance(pack, note, how, said, hint) ==
    /\ note \in [independent : SUBSET pack.note, supported : SUBSET pack.note, joint : BOOLEAN,
                 emitted : {FALSE}]
    /\ DOMAIN how = said /\ \A r \in said : how[r] \in {"told", "helped"}
    /\ note.independent \subseteq said
    /\ \A r \in pack.note \cap said : /\ r \in note.independent <=> how[r] = "told"
                                      /\ r \in note.supported <=> how[r] = "helped"
    /\ \A r \in note.supported \ said : Home!Guided(hint)

ProvenanceInv ==
    status = "active" =>
        /\ Provenance(Task, notes[index], first[index], ledgers[index].relations, ladder.hint)
        /\ ~ notes[index].joint

SignedInv ==
    /\ signed \in Seq(Nat \X {"child", "coauthored"})
    /\ NotesAreTheTasks

DirectInv ==
    /\ direct \in BOOLEAN /\ joint \in BOOLEAN /\ (joint => ~direct)
    /\ direct <=> \A i \in Tasks : Closed(i) =>
                      IF PackAt(i).note # {} THEN ToldAlone(i) ELSE closer[i] = "sonnet_low"
    /\ status = "completed" => (outcome = "taught" <=> direct) /\ Projectable(ledgers)

\* While a menu is still to be picked that selects the next task, only the
\* screen can pick it.
PinnedInv ==
    status = "active" /\ index = 1 /\ scenario = MenuFirst =>
        /\ ladder.level \in {"L2", "L0"} /\ question \subseteq {"child_menu"}
        /\ "child_menu" \notin DOMAIN ledgers[1].facts

LifeInv == ShapeInv /\ ProvenanceInv /\ SignedInv /\ DirectInv /\ PinnedInv

-----------------------------------------------------------------------------
(* The content. *)

\* Every scenario is a sequence of tasks, and only a pinned menu_total selects.
LEMMA ScenarioFacts ==
    ASSUME NEW sc \in Scenarios
    PROVE  /\ Len(sc.stages) \in Nat /\ DOMAIN sc.stages = 1 .. Len(sc.stages)
           /\ 1 \in DOMAIN sc.stages /\ sc.stages[1].selector = NoSelector
           /\ sc # MenuFirst => \A i \in DOMAIN sc.stages : sc.stages[i].selector = NoSelector
  <1>1. ASSUME NEW pack PROVE Only(pack).selector = NoSelector
    BY DEF Only, Stage
  <1>2. ASSUME NEW pack, NEW name, NEW report,
               sc = Scenario(name, <<Only(pack)>>, report)
        PROVE  /\ Len(sc.stages) = 1 /\ DOMAIN sc.stages = 1 .. 1
               /\ sc.stages[1].selector = NoSelector
    <2>1. sc.stages = <<Only(pack)>>
      BY <1>2 DEF Scenario
    <2> HIDE <1>2
    <2> QED
      BY <1>1, <2>1
  <1>3. ASSUME NEW pack, NEW other, NEW name, NEW report,
               sc = Scenario(name, <<Only(pack), Only(other)>>, report)
        PROVE  /\ Len(sc.stages) = 2 /\ DOMAIN sc.stages = 1 .. 2
               /\ sc.stages[1].selector = NoSelector /\ sc.stages[2].selector = NoSelector
    <2>1. sc.stages = <<Only(pack), Only(other)>>
      BY <1>3 DEF Scenario
    <2>2. sc.stages[1] = Only(pack) /\ sc.stages[2] = Only(other)
      BY <2>1
    <2> QED
      BY <1>1, <2>1, <2>2
  <1>4. CASE sc = MenuFirst
    <2> DEFINE one == Only(menu_selection_pack(Menus, Affordable, FALSE))
               two == Stage([m \in Members(Affordable) |-> calculation_pack], Head(Affordable),
                            [stage |-> 1, fact |-> "child_menu"])
    <2>1. sc.stages = <<one, two>>
      BY <1>4 DEF MenuFirst, pinned_menu_total, Scenario
    <2>2. one.selector = NoSelector
      BY <1>1
    <2> HIDE DEF one, two
    <2> QED
      BY <1>4, <2>1, <2>2
  <1>5. CASE \E n \in {"queue", "budget_menu", "menu_total", "change"} :
                 sc = materialize_cafe_scenario(n, Menus, Affordable)
    <2>1. \E pack, name, report : sc = Scenario(name, <<Only(pack)>>, report)
      BY <1>5 DEF materialize_cafe_scenario
    <2> QED
      BY <1>2, <2>1
  <1>6. CASE \E st \in Stages, l \in ProfileLevels : sc = materialize_amusement_scenario(st, l)
    <2>1. \E pack, other, name, report : sc = Scenario(name, <<Only(pack), Only(other)>>, report)
      BY <1>6 DEF materialize_amusement_scenario
    <2> QED
      BY <1>3, <2>1
  <1> QED
    BY <1>4, <1>5, <1>6 DEF Scenarios, MenuFirst

\* The pack with which a pinned menu_total opens.
LEMMA MenuPackFacts ==
    LET p == menu_selection_pack(Menus, Affordable, FALSE)
    IN  /\ p.facts = {"child_menu"} /\ p.relations = {} /\ p.entry = "L2"
        /\ p.l3 = <<"child_menu">> /\ p.l2 = <<"child_menu">> /\ p.initial = <<"child_menu">>
        /\ \A e \in p.choices["child_menu"] :
               "child_menu" \in DOMAIN e.facts => e.facts["child_menu"] \in Members(Affordable)
        /\ p.joint["child_menu"] \in Members(Affordable)
  <1> DEFINE p == menu_selection_pack(Menus, Affordable, FALSE)
             values == [f \in {"child_menu"} |-> Affordable]
             Choice(m) == IF m \in Members(Affordable)
                          THEN [Right([f \in {"child_menu"} |-> m], {}) EXCEPT !.patch = TRUE]
                          ELSE Wrong(TRUE)
             choices == [t \in Members(<<"child_menu">>) |-> {Choice(m) : m \in Menus}]
  <1>1. p = Pack(values, {}, <<"child_menu">>, <<"child_menu">>, choices, {}, "L2")
    BY DEF menu_selection_pack
  <1>2. Members(<<"child_menu">>) = {"child_menu"}
    BY DEF Members
  <1>3. \A e \in choices["child_menu"] :
            "child_menu" \in DOMAIN e.facts => e.facts["child_menu"] \in Members(Affordable)
    <2>1. choices["child_menu"] = {Choice(m) : m \in Menus}
      BY <1>2
    <2>2. ASSUME NEW m \in Menus, "child_menu" \in DOMAIN Choice(m).facts
          PROVE  Choice(m).facts["child_menu"] \in Members(Affordable)
      <3>1. m \in Members(Affordable)
        BY <2>2 DEF Wrong
      <3>2. Choice(m).facts = [f \in {"child_menu"} |-> m]
        BY <3>1 DEF Right
      <3> QED
        BY <3>1, <3>2
    <2> HIDE DEF Choice, choices
    <2> QED
      BY <2>1, <2>2
  <1>4. Head(Affordable) \in Members(Affordable)
    BY LifeAssumption DEF Members
  <1>5. DOMAIN values = {"child_menu"} /\ values["child_menu"] = Affordable
    OBVIOUS
  <1> HIDE DEF choices, values, p
  <1>6. /\ p.facts = DOMAIN values /\ p.relations = {} /\ p.entry = "L2"
        /\ p.l3 = <<"child_menu">> /\ p.l2 = <<"child_menu">> /\ p.initial = <<"child_menu">>
        /\ p.choices = choices /\ p.joint = [f \in DOMAIN values |-> Head(values[f])]
    BY <1>1 DEF Pack
  <1>7. p.joint["child_menu"] = Head(Affordable)
    BY <1>5, <1>6
  <1> QED
    BY <1>3, <1>4, <1>5, <1>6, <1>7 DEF p

\* The pinned menu_total: the menu that is picked first selects its second task.
LEMMA MenuFirstFacts ==
    /\ MenuFirst.stages[1].variants[MenuFirst.stages[1].default] =
           menu_selection_pack(Menus, Affordable, FALSE)
    /\ MenuFirst.stages[1].default = "default"
    /\ DOMAIN MenuFirst.stages[1].variants = {"default"}
    /\ Len(MenuFirst.stages) = 2
    /\ MenuFirst.stages[2].selector = [stage |-> 1, fact |-> "child_menu"]
    /\ MenuFirst.stages[2].selector # NoSelector
    /\ DOMAIN MenuFirst.stages[2].variants = Members(Affordable)
  <1> DEFINE pack == menu_selection_pack(Menus, Affordable, FALSE)
             one == Only(pack)
             two == Stage([m \in Members(Affordable) |-> calculation_pack], Head(Affordable),
                          [stage |-> 1, fact |-> "child_menu"])
  <1>1. MenuFirst.stages = <<one, two>>
    BY DEF MenuFirst, pinned_menu_total, Scenario
  <1> HIDE DEF pack
  <1>2. one.default = "default" /\ one.variants = [v \in {"default"} |-> pack]
    BY DEF Only, Stage
  <1>3. /\ two.selector = [stage |-> 1, fact |-> "child_menu"]
        /\ two.variants = [m \in Members(Affordable) |-> calculation_pack]
    BY DEF Stage
  <1>4. [stage |-> 1, fact |-> "child_menu"] # NoSelector
    BY DEF NoSelector
  <1> HIDE DEF one, two
  <1>5. MenuFirst.stages[1] = one /\ MenuFirst.stages[2] = two /\ Len(MenuFirst.stages) = 2
    BY <1>1
  <1>6. one.variants[one.default] = pack /\ DOMAIN one.variants = {"default"}
    BY <1>2
  <1> QED
    BY <1>2, <1>3, <1>4, <1>5, <1>6 DEF pack

-----------------------------------------------------------------------------
(* The ladder and the question of a turn. *)

\* A guiding card stays up, and who may only choose never writes again.
LEMMA LifeLadder ==
    ASSUME NEW s
    PROVE  LET p == Home!apply_ladder_policy(s)
           IN  /\ Home!Guided(ladder.hint) => Home!Guided(p.hint)
               /\ Home!Guided(p.hint) => Home!Guided(Home!Displayed(p).hint)
               /\ ladder.level \in {"L2", "L0"} => p.level \in {"L2", "L0"}
               /\ Home!Displayed(p).level = p.level
  BY DEF Home!apply_ladder_policy, Home!raise_hint, Home!lower_expression, Home!Displayed, Home!Guided

LEMMA OnlyPlan == Home!FirstOpen(<<"child_menu">>, {"child_menu"}) = "child_menu"
  BY DEF Home!FirstOpen

\* As long as no menu is picked, the menu is what is asked for.
LEMMA MenuTargets ==
    ASSUME NEW level \in {"L2", "L0"}, NEW l,
           Remaining(menu_selection_pack(Menus, Affordable, FALSE), l) # {}
    PROVE  /\ Targets(menu_selection_pack(Menus, Affordable, FALSE), level, l) \subseteq {"child_menu"}
           /\ "child_menu" \notin DOMAIN l.facts
  <1> DEFINE p == menu_selection_pack(Menus, Affordable, FALSE)
             open == Remaining(p, l)
             started == (l.partials \ l.relations) \cap open
  <1>1. /\ p.facts = {"child_menu"} /\ p.relations = {}
        /\ p.l2 = <<"child_menu">> /\ p.initial = <<"child_menu">>
    BY MenuPackFacts
  <1> HIDE DEF p
  <1>2. open = {"child_menu"} /\ "child_menu" \notin DOMAIN l.facts
    BY <1>1 DEF Remaining, p
  <1>3. started = {} \/ started = {"child_menu"}
    BY <1>2
  <1>4. CASE level = "L0"
    <2>1. Targets(p, level, l) = open
      BY <1>4 DEF Targets
    <2> QED
      BY <1>2, <2>1 DEF p
  <1>5. CASE level = "L2"
    <2>1. Targets(p, level, l) = IF started # {} THEN {Home!FirstOpen(p.initial, started)}
                                 ELSE {Home!FirstOpen(p.l2, open)}
      BY <1>5 DEF Targets
    <2>2. Targets(p, level, l) = {"child_menu"}
      BY <1>1, <1>2, <1>3, <2>1, OnlyPlan
    <2> QED
      BY <1>2, <2>2 DEF p
  <1> QED
    BY <1>4, <1>5

-----------------------------------------------------------------------------
(* The provenance of a note. *)

\* The history of how each relation of the current task was first verified.
How(s) == IF s.source = "sonnet_low" /\ ~Home!Guided(ladder.hint) THEN "told" ELSE "helped"
Fresh(s) == s.relations \ ledgers[index].relations
History(s) ==
    [r \in DOMAIN first[index] \cup Fresh(s) |-> IF r \in Fresh(s) THEN How(s) ELSE first[index][r]]

\* One response keeps the note state tied to the history (_track_note_provenance).
LEMMA Track ==
    ASSUME ProvenanceInv, status = "active", NEW s, NEW l, NEW moved,
           l.relations = ledgers[index].relations \cup s.relations,
           Home!Guided(ladder.hint) => Home!Guided(moved.hint)
    PROVE  LET note == track_note_provenance(Task, notes[index], s, l, moved)
           IN  /\ Provenance(Task, note, History(s), l.relations, moved.hint)
               /\ note.joint <=> Task.note # {} /\ s.source = "structured_joint"
  <1> DEFINE old == notes[index]
             how == first[index]
             R == ledgers[index].relations
             direct1 == s.source = "sonnet_low" /\ ~Home!Guided(ladder.hint)
             said == s.relations \cap Task.note
             own == IF direct1 THEN said \ old.supported ELSE {}
             guided == Home!Guided(ladder.hint) \/ Home!Guided(moved.hint)
             open == IF guided THEN Task.note \ l.relations ELSE {}
             note == track_note_provenance(Task, old, s, l, moved)
  <1>1. /\ old \in [independent : SUBSET Task.note, supported : SUBSET Task.note, joint : BOOLEAN,
                     emitted : {FALSE}]
        /\ DOMAIN how = R /\ \A r \in R : how[r] \in {"told", "helped"}
        /\ old.independent \subseteq R
        /\ \A r \in Task.note \cap R : /\ r \in old.independent <=> how[r] = "told"
                                       /\ r \in old.supported <=> how[r] = "helped"
        /\ \A r \in old.supported \ R : Home!Guided(ladder.hint)
        /\ ~ old.joint
    BY DEF ProvenanceInv, Provenance
  <1>2. /\ DOMAIN History(s) = l.relations
        /\ \A r \in l.relations :
               History(s)[r] = IF r \in R THEN how[r] ELSE IF direct1 THEN "told" ELSE "helped"
    BY <1>1 DEF History, Fresh, How
  <1>3. \A r \in l.relations : History(s)[r] \in {"told", "helped"}
    BY <1>1, <1>2
  <1>4. CASE Task.note = {}
    <2>1. note = old
      BY <1>4 DEF track_note_provenance
    <2> HIDE DEF note
    <2>2. Provenance(Task, note, History(s), l.relations, moved.hint)
      BY <1>1, <1>2, <1>3, <1>4, <2>1 DEF Provenance
    <2> QED
      BY <1>1, <1>4, <2>1, <2>2 DEF note
  <1>5. CASE Task.note # {}
    <2>1. note = [old EXCEPT !.independent = @ \cup own,
                             !.supported = @ \cup (said \ (old.independent \cup own)) \cup open,
                             !.joint = @ \/ s.source = "structured_joint"]
      BY <1>5 DEF track_note_provenance
    <2> HIDE DEF note
    <2>2. /\ note.independent = old.independent \cup own
          /\ note.supported = old.supported \cup (said \ (old.independent \cup own)) \cup open
          /\ note.joint = (s.source = "structured_joint")
          /\ note \in [independent : SUBSET Task.note, supported : SUBSET Task.note, joint : BOOLEAN,
                       emitted : {FALSE}]
      BY <1>1, <2>1
    <2>3. note.independent \subseteq l.relations
      BY <1>1, <2>2
    <2>4. ASSUME NEW r \in Task.note \cap l.relations
          PROVE  /\ r \in note.independent <=> History(s)[r] = "told"
                 /\ r \in note.supported <=> History(s)[r] = "helped"
      <3>1. r \notin open
        OBVIOUS
      <3>2. CASE r \in R
        <4>1. History(s)[r] = how[r] /\ how[r] \in {"told", "helped"}
          BY <1>1, <1>2, <3>2
        <4>2. /\ r \in old.independent <=> how[r] = "told"
              /\ r \in old.supported <=> how[r] = "helped"
          BY <1>1, <3>2
        <4> QED
          BY <2>2, <3>1, <4>1, <4>2
      <3>3. CASE r \notin R
        <4>1. r \in said /\ r \notin old.independent
          BY <1>1, <3>3
        <4>2. direct1 => r \notin old.supported
          BY <1>1, <3>3
        <4>3. History(s)[r] = IF direct1 THEN "told" ELSE "helped"
          BY <1>2, <3>3
        <4> QED
          BY <2>2, <3>1, <4>1, <4>2, <4>3
      <3> QED
        BY <3>2, <3>3
    <2>5. \A r \in note.supported \ l.relations : Home!Guided(moved.hint)
      BY <1>1, <2>2
    <2>6. Provenance(Task, note, History(s), l.relations, moved.hint)
      BY <1>2, <1>3, <2>2, <2>3, <2>4, <2>5 DEF Provenance
    <2> QED
      BY <1>5, <2>2, <2>6 DEF note
  <1> QED
    BY <1>4, <1>5

-----------------------------------------------------------------------------
(* One response. *)

Learned(s, given) ==
    LET known == DOMAIN ledgers[index].facts
    IN  [facts |-> [f \in known \cup s.facts |->
                       IF f \in known THEN ledgers[index].facts[f] ELSE given[f]],
         relations |-> ledgers[index].relations \cup s.relations,
         partials |-> ledgers[index].partials \cup (s.partials \ ledgers[index].relations)]
Moved(s) == Home!apply_ladder_policy(s)
NoteOf(s, given) == track_note_provenance(Task, notes[index], s, Learned(s, given), Moved(s))

\* What every response of a child is: the joint action submits the whole task, and a
\* menu that selects a task is one of the affordable ones.
Admissible(s, given) ==
    /\ s.source # None
    /\ s.source = "structured_joint" => Task.facts \subseteq s.facts /\ Task.relations \subseteq s.relations
    /\ scenario = MenuFirst /\ index = 1 /\ "child_menu" \in s.facts =>
           given["child_menu"] \in Members(Affordable)

\* A response either leaves the task open or ends it.
LEMMA ConcludeShape ==
    ASSUME status = "active", NEW s, NEW given, NEW patch, Conclude(s, given, patch)
    PROVE  /\ scenario' = scenario
           /\ first' = [first EXCEPT ![index] = History(s)]
           /\ \/ /\ Remaining(Task, Learned(s, given)) # {}
                 /\ Stay(Task, Learned(s, given), NoteOf(s, given), Moved(s), s)
              \/ /\ Remaining(Task, Learned(s, given)) = {}
                 /\ complete_state(Task, Learned(s, given), NoteOf(s, given), Moved(s), s, patch)
  <1>1. Ledger = ledgers[index]
    BY DEF Ledger, Started
  <1>2. first' = [first EXCEPT ![index] = History(s)] /\ scenario' = scenario
    BY <1>1 DEF Conclude, History, Fresh, How
  <1>3. IF Remaining(Task, Learned(s, given)) = {}
        THEN complete_state(Task, Learned(s, given), NoteOf(s, given), Moved(s), s, patch)
        ELSE Stay(Task, Learned(s, given), NoteOf(s, given), Moved(s), s)
    BY <1>1 DEF Conclude, Learned, NoteOf, Moved
  <1> QED
    BY <1>2, <1>3

\* The ledger and the note of the current task after a response.
LEMMA Recorded ==
    ASSUME LifeInv, status = "active", NEW s, NEW given
    PROVE  LET l == Learned(s, given)
               note == NoteOf(s, given)
           IN  /\ l.relations = ledgers[index].relations \cup s.relations
               /\ DOMAIN l.facts = DOMAIN ledgers[index].facts \cup s.facts
               /\ Provenance(Task, note, History(s), l.relations, Moved(s).hint)
               /\ note.joint <=> Task.note # {} /\ s.source = "structured_joint"
  <1>1. /\ Learned(s, given).relations = ledgers[index].relations \cup s.relations
        /\ DOMAIN Learned(s, given).facts = DOMAIN ledgers[index].facts \cup s.facts
    BY DEF Learned
  <1>2. Home!Guided(ladder.hint) => Home!Guided(Moved(s).hint)
    BY LifeLadder DEF Moved
  <1> QED
    BY <1>1, <1>2, Track DEF LifeInv, NoteOf

\* Of the closed tasks nothing changes as long as the current one is open.
LEMMA StayKeeps ==
    ASSUME LifeInv, status = "active", NEW s, NEW given, Admissible(s, given),
           scenario' = scenario, first' = [first EXCEPT ![index] = History(s)],
           Remaining(Task, Learned(s, given)) # {},
           Stay(Task, Learned(s, given), NoteOf(s, given), Moved(s), s)
    PROVE  LifeInv'
  <1> DEFINE l == Learned(s, given)
             note == NoteOf(s, given)
             moved == Moved(s)
  <1>1. /\ l.relations = ledgers[index].relations \cup s.relations
        /\ DOMAIN l.facts = DOMAIN ledgers[index].facts \cup s.facts
        /\ Provenance(Task, note, History(s), l.relations, moved.hint)
        /\ note.joint <=> Task.note # {} /\ s.source = "structured_joint"
    BY Recorded
  <1>2. /\ Home!Guided(moved.hint) => Home!Guided(Home!Displayed(moved).hint)
        /\ ladder.level \in {"L2", "L0"} => moved.level \in {"L2", "L0"}
        /\ Home!Displayed(moved).level = moved.level
    BY LifeLadder DEF Moved
  <1> HIDE DEF l, note, moved
  <1>3. /\ ledgers' = [ledgers EXCEPT ![index] = l] /\ notes' = [notes EXCEPT ![index] = note]
        /\ ladder' = Home!Displayed(moved) /\ question' = Targets(Task, moved.level, l)
        /\ UNCHANGED <<status, index, variants, joint, direct, outcome, closer, signed>>
    BY DEF Stay, l, note, moved
  <1>4. /\ index \in Tasks /\ DOMAIN ledgers = Tasks /\ DOMAIN notes = Tasks /\ DOMAIN first = Tasks
        /\ Len(scenario.stages) \in Nat /\ Tasks = 1 .. Len(scenario.stages)
    BY ScenarioFacts DEF LifeInv, ShapeInv, Tasks
  <1>5. /\ ledgers'[index] = l /\ notes'[index] = note /\ first'[index] = History(s)
        /\ \A i \in Tasks : i # index =>
               ledgers'[i] = ledgers[i] /\ notes'[i] = notes[i] /\ first'[i] = first[i]
        /\ DOMAIN ledgers' = Tasks /\ DOMAIN notes' = Tasks /\ DOMAIN first' = Tasks
    BY <1>3, <1>4
  <1>6. s.source # "structured_joint"
    BY <1>1 DEF Admissible, Remaining, l
  <1>7. ShapeInv'
    BY <1>3, <1>4, <1>5 DEF LifeInv, ShapeInv, Tasks, Waiting, Closed
  <1>8. ProvenanceInv'
    <2>1. Task' = Task
      BY <1>3 DEF Task, PackAt
    <2>2. Provenance(Task, note, History(s), l.relations, ladder'.hint)
      BY <1>1, <1>2, <1>3 DEF Provenance
    <2> QED
      BY <1>1, <1>3, <1>5, <1>6, <2>1, <2>2 DEF ProvenanceInv
  <1>9. /\ \A i \in Tasks : PackAt(i)' = PackAt(i) /\ closer'[i] = closer[i]
        /\ \A i \in Tasks : closer[i] # None => (ToldAlone(i)' <=> ToldAlone(i))
        /\ Noted' = Noted
    <2>1. \A i \in Tasks : PackAt(i)' = PackAt(i)
      BY <1>3 DEF PackAt
    <2>2. \A i \in Tasks : closer[i] # None => i < index
      BY <1>4 DEF LifeInv, ShapeInv, Closed
    <2>3. \A i \in Tasks : closer[i] # None => first'[i] = first[i]
      BY <1>4, <1>5, <2>2
    <2> QED
      BY <1>3, <2>1, <2>3 DEF ToldAlone, Noted, Tasks
  <1>10. SignedInv'
    <2>1. {i \in Noted : closer[i] # None}' = {i \in Noted : closer[i] # None}
      BY <1>3, <1>9
    <2>2. ASSUME NEW k \in DOMAIN signed
          PROVE  ToldAlone(signed[k][1])' <=> ToldAlone(signed[k][1])
      <3>1. signed[k][1] \in Tasks /\ closer[signed[k][1]] # None
        BY <2>2 DEF LifeInv, SignedInv, NotesAreTheTasks, Noted, Tasks
      <3>2. signed'[k][1] = signed[k][1]
        BY <1>3
      <3> QED
        BY <1>9, <3>1, <3>2 DEF ToldAlone
    <2>3. signed' = signed
      BY <1>3
    <2> QED
      BY <2>1, <2>2, <2>3 DEF LifeInv, SignedInv, NotesAreTheTasks
  <1>11. DirectInv'
    <2>1. \A i \in Tasks : (Closed(i)' <=> Closed(i)) /\ (Closed(i) <=> closer[i] # None)
      BY <1>3 DEF LifeInv, ShapeInv, Closed
    <2>2. \A i \in Tasks : Closed(i) =>
              /\ ToldAlone(i)' <=> ToldAlone(i)
              /\ closer'[i] = closer[i] /\ PackAt(i)' = PackAt(i)
      BY <1>9, <2>1
    <2>3. Tasks' = Tasks
      BY DEF Tasks
    <2> QED
      BY <1>3, <2>1, <2>2, <2>3 DEF LifeInv, DirectInv
  <1>12. PinnedInv'
    <2> SUFFICES ASSUME status = "active", index = 1, scenario = MenuFirst
                 PROVE  /\ ladder'.level \in {"L2", "L0"} /\ question' \subseteq {"child_menu"}
                        /\ "child_menu" \notin DOMAIN ledgers'[1].facts
      BY <1>3 DEF PinnedInv, MenuFirst
    <2>1. Task = menu_selection_pack(Menus, Affordable, FALSE)
      BY MenuFirstFacts DEF LifeInv, ShapeInv, Task, PackAt, Waiting
    <2>2. moved.level \in {"L2", "L0"}
      BY <1>2 DEF LifeInv, PinnedInv
    <2>3. /\ Targets(Task, moved.level, l) \subseteq {"child_menu"}
          /\ "child_menu" \notin DOMAIN l.facts
      BY <2>1, <2>2, MenuTargets DEF l
    <2> QED
      BY <1>2, <1>3, <1>5, <2>2, <2>3
  <1> QED
    BY <1>7, <1>8, <1>10, <1>11, <1>12 DEF LifeInv

-----------------------------------------------------------------------------
(* The end of a task. *)

\* A finished task with a note signs it, in the child's name exactly if the history
\* of the task says so (_note_update).
LEMMA Signing ==
    ASSUME LifeInv, status = "active", NEW s, NEW given,
           Remaining(Task, Learned(s, given)) = {}
    PROVE  LET note == NoteOf(s, given)
               sign == note_update(Task, note, Learned(s, given))
               own == IF Task.note # {} THEN Task.note \subseteq note.independent
                      ELSE s.source = "sonnet_low"
           IN  /\ sign \in {None, "child", "coauthored"} /\ (sign # None <=> Task.note # {})
               /\ sign # None =>
                      (sign = "child" <=> own /\ s.source # "structured_joint")
               /\ Task.note # {} =>
                      (own <=> \A r \in Task.note : r \in DOMAIN History(s) /\ History(s)[r] = "told")
  <1> DEFINE l == Learned(s, given)
             note == NoteOf(s, given)
             sign == note_update(Task, note, l)
  <1>1. /\ Provenance(Task, note, History(s), l.relations, Moved(s).hint)
        /\ note.joint <=> Task.note # {} /\ s.source = "structured_joint"
    BY Recorded
  <1>2. Task.note \subseteq Task.relations
    BY DEF LifeInv, ShapeInv, Waiting, ValidScenario, ValidPack, Task, PackAt, Tasks
  <1>3. Task.note \subseteq l.relations
    BY <1>2 DEF Remaining
  <1> HIDE DEF l, note
  <1>4. /\ note.emitted = FALSE /\ DOMAIN History(s) = l.relations
        /\ \A r \in Task.note \cap l.relations : r \in note.independent <=> History(s)[r] = "told"
    BY <1>1 DEF Provenance
  <1>5. sign = IF Task.note = {} THEN None
               ELSE IF Task.note \subseteq note.independent /\ ~ note.joint THEN "child" ELSE "coauthored"
    BY <1>3, <1>4 DEF note_update
  <1>6. Task.note # {} =>
            (Task.note \subseteq note.independent <=>
                 \A r \in Task.note : r \in DOMAIN History(s) /\ History(s)[r] = "told")
    BY <1>3, <1>4
  <1> HIDE DEF sign
  <1>7. /\ sign \in {None, "child", "coauthored"} /\ (sign # None <=> Task.note # {})
        /\ sign # None =>
               (sign = "child" <=> Task.note \subseteq note.independent /\ s.source # "structured_joint")
    BY <1>1, <1>5 DEF None
  <1> QED
    BY <1>6, <1>7 DEF sign, l, note

\* What _complete_state does for every task, last or not.
Closing(s, given) ==
    LET note == NoteOf(s, given)
        sign == note_update(Task, note, Learned(s, given))
        own == IF Task.note # {} THEN Task.note \subseteq note.independent
               ELSE s.source = "sonnet_low"
    IN  /\ scenario' = scenario /\ first' = [first EXCEPT ![index] = History(s)]
        /\ joint' = (joint \/ s.source = "structured_joint")
        /\ direct' = StillDirect(own, s)
        /\ signed' = IF sign = None THEN signed ELSE Append(signed, <<index, sign>>)
        /\ closer' = [closer EXCEPT ![index] = s.source]
        /\ \A i \in Tasks : i <= index => variants'[i] = variants[i]
        /\ \A i \in Tasks : Closed(i)' <=> i <= index

\* The tasks closed before keep their history, the current one joins them.
LEMMA ClosedTasks ==
    ASSUME LifeInv, status = "active", NEW s, NEW given, Admissible(s, given), Closing(s, given)
    PROVE  /\ index \in Nat /\ Tasks \subseteq Nat /\ index \in Tasks /\ Tasks' = Tasks
           /\ \A i \in Tasks : closer'[i] # None <=> Closed(i)'
           /\ \A i \in Tasks : closer[i] # None <=> i < index
           /\ \A i \in Tasks : i < index =>
                  /\ first'[i] = first[i] /\ closer'[i] = closer[i]
                  /\ PackAt(i)' = PackAt(i) /\ (ToldAlone(i)' <=> ToldAlone(i))
           /\ first'[index] = History(s) /\ closer'[index] = s.source
           /\ \A i \in Tasks : i = index => PackAt(i)' = Task
           /\ DOMAIN first' = Tasks /\ DOMAIN closer' = Tasks
           /\ \A i \in Tasks : i > index => first'[i] = first[i] /\ closer'[i] = None
  <1>1. /\ index \in Tasks /\ Len(scenario.stages) \in Nat /\ Tasks = 1 .. Len(scenario.stages)
        /\ DOMAIN first = Tasks /\ DOMAIN closer = Tasks
        /\ \A i \in Tasks : closer[i] # None <=> i < index
    BY ScenarioFacts DEF LifeInv, ShapeInv, Tasks, Closed
  <1>2. /\ scenario' = scenario /\ first' = [first EXCEPT ![index] = History(s)]
        /\ closer' = [closer EXCEPT ![index] = s.source]
        /\ \A i \in Tasks : i <= index => variants'[i] = variants[i]
        /\ \A i \in Tasks : Closed(i)' <=> i <= index
    BY DEF Closing
  <1>3. s.source # None
    BY DEF Admissible
  <1>4. index \in Nat /\ Tasks \subseteq Nat
    BY <1>1
  <1>5. /\ first'[index] = History(s) /\ closer'[index] = s.source
        /\ \A i \in Tasks : i # index => first'[i] = first[i] /\ closer'[i] = closer[i]
        /\ DOMAIN first' = Tasks /\ DOMAIN closer' = Tasks
    BY <1>1, <1>2
  <1>6. \A i \in Tasks : i <= index => PackAt(i)' = PackAt(i)
    BY <1>2 DEF PackAt
  <1>7. \A i \in Tasks : i < index => (ToldAlone(i)' <=> ToldAlone(i))
    <2> SUFFICES ASSUME NEW i \in Tasks, i < index
                 PROVE  ToldAlone(i)' <=> ToldAlone(i)
      OBVIOUS
    <2>1. first'[i] = first[i] /\ closer'[i] = closer[i] /\ PackAt(i)' = PackAt(i)
      BY <1>4, <1>5, <1>6
    <2> QED
      BY <2>1 DEF ToldAlone
  <1>8. \A i \in Tasks : closer'[i] # None <=> Closed(i)'
    BY <1>1, <1>2, <1>3, <1>4, <1>5
  <1>9. \A i \in Tasks : i > index => first'[i] = first[i] /\ closer'[i] = None
    BY <1>1, <1>4, <1>5
  <1>10. Tasks' = Tasks /\ \A i \in Tasks : i = index => PackAt(i)' = Task
    BY <1>1, <1>2, <1>4, <1>6 DEF Tasks, Task
  <1>11. \A i \in Tasks : i < index => first'[i] = first[i] /\ closer'[i] = closer[i]
    BY <1>4, <1>5
  <1>12. \A i \in Tasks : i < index => PackAt(i)' = PackAt(i)
    BY <1>4, <1>6
  <1> QED
    BY <1>1, <1>4, <1>5, <1>7, <1>8, <1>9, <1>10, <1>11, <1>12

\* Whether the current task was said by the child alone, when it ends.
LEMMA ToldNow ==
    ASSUME LifeInv, status = "active", NEW s, NEW given, Admissible(s, given), Closing(s, given),
           Remaining(Task, Learned(s, given)) = {}, NEW i \in Tasks, i = index
    PROVE  LET own == IF Task.note # {} THEN Task.note \subseteq NoteOf(s, given).independent
                      ELSE s.source = "sonnet_low"
           IN  (IF PackAt(i)'.note # {} THEN ToldAlone(i)' ELSE closer'[i] = "sonnet_low") <=>
                   own /\ s.source # "structured_joint"
  <1>1. PackAt(i)' = Task /\ closer'[i] = s.source /\ first'[i] = History(s)
    BY ClosedTasks
  <1>2. ToldAlone(i)' <=>
            s.source # "structured_joint" /\
            \A r \in Task.note : r \in DOMAIN History(s) /\ History(s)[r] = "told"
    BY <1>1 DEF ToldAlone
  <1> QED
    BY <1>1, <1>2, Signing


\* The tasks that signed, and their number.
Over == {i \in Noted : closer[i] # None}

LEMMA OverStep ==
    ASSUME LifeInv, status = "active", NEW s, NEW given, Admissible(s, given), Closing(s, given)
    PROVE  /\ Over' = IF Task.note # {} THEN Over \cup {index} ELSE Over
           /\ index \notin Over /\ \A i \in Over : i \in Tasks /\ i < index
           /\ Over' \subseteq Tasks /\ Cardinality(Over) \in Nat
           /\ Cardinality(Over') = Cardinality(Over) + (IF Task.note # {} THEN 1 ELSE 0)
  <1>1. \A i \in Over : i \in Tasks /\ i < index
    BY ClosedTasks DEF Over, Noted, Tasks
  <1>2. index \notin Over
    BY <1>1, ClosedTasks
  <1>3. ASSUME NEW i
        PROVE  i \in Over' <=> i \in Over \/ (i = index /\ Task.note # {})
    <2>1. i \in Over' <=> i \in Tasks /\ PackAt(i)'.note # {} /\ closer'[i] # None
      BY ClosedTasks DEF Over, Noted, Tasks
    <2>2. i \in Over <=> i \in Tasks /\ PackAt(i).note # {} /\ closer[i] # None
      BY DEF Over, Noted, Tasks
    <2>3. CASE i \notin Tasks
      BY <2>1, <2>2, <2>3, ClosedTasks
    <2>4. CASE i \in Tasks /\ i < index
      <3>1. PackAt(i)' = PackAt(i) /\ closer'[i] = closer[i]
        BY <2>4, ClosedTasks
      <3>2. i # index
        BY <2>4, ClosedTasks
      <3> QED
        BY <2>1, <2>2, <3>1, <3>2
    <2>5. CASE i \in Tasks /\ i = index
      <3>1. PackAt(i)' = Task /\ closer'[i] = s.source /\ s.source # None
        BY <2>5, ClosedTasks DEF Admissible
      <3> QED
        BY <1>2, <2>1, <2>5, <3>1
    <2>6. CASE i \in Tasks /\ i > index
      <3>1. closer'[i] = None
        BY <2>6, ClosedTasks
      <3>2. i \notin Over /\ i # index
        BY <1>1, <2>6, ClosedTasks
      <3> QED
        BY <2>1, <3>1, <3>2
    <2>7. i \in Tasks => i < index \/ i = index \/ i > index
      BY ClosedTasks
    <2> QED
      BY <2>3, <2>4, <2>5, <2>6, <2>7
  <1>4. Over' = IF Task.note # {} THEN Over \cup {index} ELSE Over
    BY <1>3
  <1>5. IsFiniteSet(Over)
    <2>1. Len(scenario.stages) \in Nat /\ Tasks = 1 .. Len(scenario.stages)
      BY ScenarioFacts DEF LifeInv, ShapeInv, Tasks
    <2>2. IsFiniteSet(Tasks)
      BY <2>1, FS_Interval
    <2>3. Over \subseteq Tasks
      BY <1>1
    <2> QED
      BY <2>2, <2>3, FS_Subset
  <1>6. Cardinality(Over) \in Nat
    BY <1>5, FS_CardinalityType
  <1>7. Cardinality(Over \cup {index}) = Cardinality(Over) + 1
    BY <1>2, <1>5, FS_AddElement
  <1>8. Over' \subseteq Tasks
    BY <1>1, <1>4, ClosedTasks
  <1>9. Cardinality(Over') = Cardinality(Over) + (IF Task.note # {} THEN 1 ELSE 0)
    BY <1>4, <1>6, <1>7
  <1> QED
    BY <1>1, <1>2, <1>4, <1>6, <1>8, <1>9

\* One more task is closed, and one more note is signed if it has one.
LEMMA SignedStep ==
    ASSUME LifeInv, status = "active", NEW s, NEW given, Admissible(s, given), Closing(s, given),
           Remaining(Task, Learned(s, given)) = {}
    PROVE  SignedInv'
  <1> DEFINE sign == note_update(Task, NoteOf(s, given), Learned(s, given))
             own == IF Task.note # {} THEN Task.note \subseteq NoteOf(s, given).independent
                    ELSE s.source = "sonnet_low"
  <1>1. /\ sign \in {None, "child", "coauthored"} /\ (sign # None <=> Task.note # {})
        /\ sign # None => (sign = "child" <=> own /\ s.source # "structured_joint")
    BY Signing
  <1>2. signed' = IF sign = None THEN signed ELSE Append(signed, <<index, sign>>)
    BY DEF Closing
  <1>3. /\ signed \in Seq(Nat \X {"child", "coauthored"})
        /\ {signed[k][1] : k \in DOMAIN signed} = Over /\ Len(signed) = Cardinality(Over)
        /\ \A k \in DOMAIN signed : (signed[k][2] = "child") <=> ToldAlone(signed[k][1])
    BY DEF LifeInv, SignedInv, NotesAreTheTasks, Over
  <1>4. ASSUME NEW i \in Tasks, i = index, Task.note # {}
        PROVE  ToldAlone(i)' <=> own /\ s.source # "structured_joint"
    <2>1. PackAt(i)' = Task
      BY <1>4, ClosedTasks
    <2> QED
      BY <1>4, <2>1, ToldNow
  <1>5. ASSUME NEW k \in DOMAIN signed, NEW i, i = signed[k][1]
        PROVE  (signed[k][2] = "child") <=> ToldAlone(i)'
    <2>1. i \in Over
      BY <1>3, <1>5
    <2>2. i \in Tasks /\ i < index
      BY <2>1, OverStep
    <2>3. ToldAlone(i)' <=> ToldAlone(i)
      BY <2>2, ClosedTasks
    <2> QED
      BY <1>3, <1>5, <2>3
  <1>6. index \in Nat /\ index \in Tasks
    BY ClosedTasks
  <1> HIDE DEF sign, own
  <1>7. CASE sign = None
    <2>1. signed' = signed /\ Over' = Over
      BY <1>1, <1>2, <1>7, OverStep
    <2>2. ASSUME NEW k \in DOMAIN signed'
          PROVE  (signed'[k][2] = "child") <=> ToldAlone(signed[k][1])'
      BY <1>5, <2>1
    <2> QED
      BY <1>3, <2>1, <2>2 DEF SignedInv, NotesAreTheTasks, Over
  <1>8. CASE sign # None
    <2>1. signed' = Append(signed, <<index, sign>>) /\ Over' = Over \cup {index}
      BY <1>1, <1>2, <1>8, OverStep
    <2>2. <<index, sign>> \in Nat \X {"child", "coauthored"}
      BY <1>1, <1>6, <1>8
    <2>3. /\ signed' \in Seq(Nat \X {"child", "coauthored"})
          /\ Len(signed') = Len(signed) + 1 /\ Len(signed) \in Nat
          /\ DOMAIN signed = 1 .. Len(signed) /\ DOMAIN signed' = 1 .. Len(signed) + 1
          /\ \A k \in DOMAIN signed : signed'[k] = signed[k]
          /\ signed'[Len(signed) + 1] = <<index, sign>>
      BY <1>3, <2>1, <2>2
    <2>4. {signed'[k][1] : k \in DOMAIN signed'} = Over'
      <3>1. DOMAIN signed' = DOMAIN signed \cup {Len(signed) + 1}
        BY <2>3
      <3>2. {signed'[k][1] : k \in DOMAIN signed'} =
                {signed'[k][1] : k \in DOMAIN signed} \cup {signed'[Len(signed) + 1][1]}
        BY <3>1
      <3>3. {signed'[k][1] : k \in DOMAIN signed} = {signed[k][1] : k \in DOMAIN signed}
        BY <2>3
      <3>4. signed'[Len(signed) + 1][1] = index
        BY <2>3
      <3> QED
        BY <1>3, <2>1, <3>2, <3>3, <3>4
    <2>5. Len(signed') = Cardinality(Over')
      BY <1>1, <1>3, <1>8, <2>3, OverStep
    <2>6. ASSUME NEW k \in DOMAIN signed', NEW i, i = signed'[k][1]
          PROVE  (signed'[k][2] = "child") <=> ToldAlone(i)'
      <3>1. CASE k \in DOMAIN signed
        BY <1>5, <2>3, <2>6, <3>1
      <3>2. CASE k = Len(signed) + 1
        <4>1. i = index /\ signed'[k][2] = sign
          BY <2>3, <2>6, <3>2
        <4> QED
          BY <1>1, <1>4, <1>6, <1>8, <4>1
      <3> QED
        BY <2>3, <2>6, <3>1, <3>2
    <2>7. \A k \in DOMAIN signed' : (signed'[k][2] = "child") <=> ToldAlone(signed[k][1])'
      BY <2>6
    <2> QED
      BY <2>3, <2>4, <2>5, <2>7 DEF SignedInv, NotesAreTheTasks, Over
  <1> QED
    BY <1>7, <1>8

\* The flag of direct teaching speaks of the task that was just closed as well.
LEMMA DirectStep ==
    ASSUME LifeInv, status = "active", NEW s, NEW given, Admissible(s, given), Closing(s, given),
           Remaining(Task, Learned(s, given)) = {}
    PROVE  /\ direct' \in BOOLEAN /\ joint' \in BOOLEAN /\ (joint' => ~direct')
           /\ direct' <=> \A i \in Tasks' : Closed(i)' =>
                      IF PackAt(i)'.note # {} THEN ToldAlone(i)' ELSE closer'[i] = "sonnet_low"
  <1> DEFINE own == IF Task.note # {} THEN Task.note \subseteq NoteOf(s, given).independent
                    ELSE s.source = "sonnet_low"
             Good(i) == IF PackAt(i).note # {} THEN ToldAlone(i) ELSE closer[i] = "sonnet_low"
             GoodNow(i) == IF PackAt(i)'.note # {} THEN ToldAlone(i)' ELSE closer'[i] = "sonnet_low"
  <1>1. /\ direct \in BOOLEAN /\ joint \in BOOLEAN /\ (joint => ~direct)
        /\ direct <=> \A i \in Tasks : Closed(i) => Good(i)
    BY DEF LifeInv, DirectInv
  <1>2. /\ joint' = (joint \/ s.source = "structured_joint")
        /\ direct' = (direct /\ own /\ s.source # "structured_joint")
        /\ \A i \in Tasks : Closed(i)' <=> i <= index
    BY DEF Closing, StillDirect
  <1>3. \A i \in Tasks : i = index => (GoodNow(i) <=> own /\ s.source # "structured_joint")
    BY ToldNow
  <1>4. ASSUME NEW i \in Tasks, i < index PROVE GoodNow(i) <=> Good(i)
    BY <1>4, ClosedTasks
  <1>5. \A i \in Tasks : Closed(i) <=> i < index
    BY DEF LifeInv, ShapeInv, Closed
  <1>6. /\ index \in Nat /\ Tasks \subseteq Nat /\ index \in Tasks /\ Tasks' = Tasks
    BY ClosedTasks
  <1> HIDE DEF own, Good, GoodNow
  <1>7. direct' <=> \A i \in Tasks : Closed(i)' => GoodNow(i)
    <2>1. \A i \in Tasks : Closed(i)' <=> i < index \/ i = index
      BY <1>2, <1>6
    <2>2. (\A i \in Tasks : Closed(i)' => GoodNow(i)) <=>
              /\ \A i \in Tasks : i < index => Good(i)
              /\ \A i \in Tasks : i = index => GoodNow(i)
      BY <1>4, <1>6, <2>1
    <2> QED
      BY <1>1, <1>2, <1>3, <1>5, <1>6, <2>2
  <1>8. direct' \in BOOLEAN /\ joint' \in BOOLEAN /\ (joint' => ~direct')
    BY <1>1, <1>2
  <1> QED
    BY <1>6, <1>7, <1>8 DEF GoodNow

\* The last task ends the session: its report can be made, and it is taught exactly
\* if the flag says so.
LEMMA EndKeeps ==
    ASSUME LifeInv, status = "active", NEW s, NEW given, NEW patch, Admissible(s, given),
           scenario' = scenario, first' = [first EXCEPT ![index] = History(s)],
           Remaining(Task, Learned(s, given)) = {}, index = Len(scenario.stages),
           complete_state(Task, Learned(s, given), NoteOf(s, given), Moved(s), s, patch)
    PROVE  LifeInv'
  <1> DEFINE sign == note_update(Task, NoteOf(s, given), Learned(s, given))
             books == [ledgers EXCEPT ![index] = Learned(s, given)]
             kept == [notes EXCEPT ![index] = [NoteOf(s, given) EXCEPT !.emitted = @ \/ sign # None]]
  <1>1. /\ Projectable(books) /\ status' = "completed"
        /\ outcome' = IF direct' /\ ~ joint' THEN "taught" ELSE "supported"
        /\ ledgers' = books /\ notes' = kept
        /\ UNCHANGED <<index, variants>>
    BY DEF complete_state, EndSession
  <1>2. /\ index \in Tasks /\ Len(scenario.stages) \in Nat /\ Tasks = 1 .. Len(scenario.stages)
        /\ DOMAIN ledgers = Tasks /\ DOMAIN notes = Tasks
    BY ScenarioFacts DEF LifeInv, ShapeInv, Tasks
  <1>3. Closing(s, given)
    <2>1. \A i \in Tasks : Closed(i)' <=> i <= index
      BY <1>1, <1>2 DEF Closed
    <2>2. variants' = variants
      BY <1>1
    <2> QED
      BY <2>1, <2>2 DEF complete_state, Closing
  <1> HIDE DEF sign, kept, books
  <1>4. DOMAIN ledgers' = Tasks /\ DOMAIN notes' = Tasks
    BY <1>1, <1>2 DEF books, kept
  <1>5. ShapeInv'
    <2>1. /\ DOMAIN first' = Tasks /\ DOMAIN closer' = Tasks /\ Tasks' = Tasks
          /\ \A i \in Tasks : closer'[i] # None <=> Closed(i)'
      BY <1>3, ClosedTasks
    <2>2. /\ scenario \in Scenarios /\ DOMAIN variants = Tasks /\ ValidScenario(scenario)
          /\ variants[index] \in DOMAIN scenario.stages[index].variants
      BY DEF LifeInv, ShapeInv, Waiting
    <2>3. scenario' \in Scenarios /\ ValidScenario(scenario')
      BY <2>2
    <2>4. \A i \in Tasks : ~ i > index
      BY <1>2
    <2> QED
      BY <1>1, <1>2, <1>4, <2>1, <2>2, <2>3, <2>4 DEF ShapeInv, Waiting
  <1>6. ProvenanceInv' /\ PinnedInv'
    BY <1>1 DEF ProvenanceInv, PinnedInv
  <1>7. SignedInv'
    BY <1>3, SignedStep
  <1>8. DirectInv'
    <2>1. /\ direct' \in BOOLEAN /\ joint' \in BOOLEAN /\ (joint' => ~direct')
          /\ direct' <=> \A i \in Tasks' : Closed(i)' =>
                     IF PackAt(i)'.note # {} THEN ToldAlone(i)' ELSE closer'[i] = "sonnet_low"
      BY <1>3, DirectStep
    <2>2. outcome' = "taught" <=> direct'
      BY <1>1, <2>1
    <2>3. Projectable(ledgers)'
      BY <1>1 DEF Projectable
    <2> QED
      BY <2>1, <2>2, <2>3 DEF DirectInv
  <1> QED
    BY <1>5, <1>6, <1>7, <1>8 DEF LifeInv

\* The variant of the next task exists: it is the default, or the menu that was picked.
LEMMA NextVariant ==
    ASSUME LifeInv, status = "active", NEW s, NEW given, Admissible(s, given),
           Remaining(Task, Learned(s, given)) = {}, index # Len(scenario.stages)
    PROVE  LET books == [ledgers EXCEPT ![index] = Learned(s, given)]
           IN  /\ select_variant(books, index + 1) \in DOMAIN scenario.stages[index + 1].variants
               /\ scenario.stages[index + 1].selector # NoSelector =>
                      /\ scenario = MenuFirst /\ index = 1 /\ "child_menu" \in s.facts
                      /\ select_variant(books, index + 1) = given["child_menu"]
  <1> DEFINE next == index + 1
             books == [ledgers EXCEPT ![index] = Learned(s, given)]
  <1>1. /\ index \in Tasks /\ Len(scenario.stages) \in Nat /\ Tasks = 1 .. Len(scenario.stages)
        /\ DOMAIN ledgers = Tasks /\ ValidScenario(scenario) /\ scenario \in Scenarios
    BY ScenarioFacts DEF LifeInv, ShapeInv, Tasks, Waiting
  <1>2. next \in Tasks
    BY <1>1
  <1>3. CASE scenario.stages[next].selector = NoSelector
    <2>1. select_variant(books, next) = scenario.stages[next].default
      BY <1>3 DEF select_variant
    <2> QED
      BY <1>1, <1>2, <1>3, <2>1 DEF ValidScenario, Tasks
  <1>4. CASE scenario.stages[next].selector # NoSelector
    <2>1. scenario = MenuFirst
      BY <1>1, <1>2, <1>4, ScenarioFacts DEF Tasks
    <2>2. index = 1 /\ next = 2
      BY <1>1, <1>2, <2>1, MenuFirstFacts
    <2>3. Task = menu_selection_pack(Menus, Affordable, FALSE)
      BY <2>1, <2>2, MenuFirstFacts DEF LifeInv, ShapeInv, Task, PackAt, Waiting
    <2>4. "child_menu" \in DOMAIN Learned(s, given).facts
      BY <2>3, MenuPackFacts DEF Remaining
    <2>5. "child_menu" \notin DOMAIN ledgers[1].facts
      BY <2>1, <2>2 DEF LifeInv, PinnedInv
    <2>6. /\ "child_menu" \in s.facts
          /\ Learned(s, given).facts["child_menu"] = given["child_menu"]
      BY <2>2, <2>4, <2>5 DEF Learned
    <2>7. given["child_menu"] \in Members(Affordable)
      BY <2>1, <2>2, <2>6 DEF Admissible
    <2>8. books[1] = Learned(s, given)
      BY <1>1, <2>2
    <2> HIDE DEF books
    <2>9. select_variant(books, next) = books[1].facts["child_menu"]
      <3>1. scenario.stages[next].selector = [stage |-> 1, fact |-> "child_menu"]
        BY <2>1, <2>2, MenuFirstFacts
      <3> QED
        BY <1>4, <3>1 DEF select_variant
    <2>10. DOMAIN scenario.stages[next].variants = Members(Affordable)
      BY <2>1, <2>2, MenuFirstFacts
    <2> QED
      BY <2>1, <2>2, <2>6, <2>7, <2>8, <2>9, <2>10 DEF books
  <1> QED
    BY <1>3, <1>4

\* Any other task is followed by one that has not begun.
LEMMA NextKeeps ==
    ASSUME LifeInv, status = "active", NEW s, NEW given, NEW patch, Admissible(s, given),
           scenario' = scenario, first' = [first EXCEPT ![index] = History(s)],
           Remaining(Task, Learned(s, given)) = {}, index # Len(scenario.stages),
           complete_state(Task, Learned(s, given), NoteOf(s, given), Moved(s), s, patch)
    PROVE  LifeInv'
  <1> DEFINE sign == note_update(Task, NoteOf(s, given), Learned(s, given))
             books == [ledgers EXCEPT ![index] = Learned(s, given)]
             kept == [notes EXCEPT ![index] = [NoteOf(s, given) EXCEPT !.emitted = @ \/ sign # None]]
             next == index + 1
             variant == select_variant(books, next)
  <1>1. /\ index' = next /\ variants' = [variants EXCEPT ![next] = variant]
        /\ ledgers' = [books EXCEPT ![next] = EmptyLedger] /\ notes' = kept
        /\ UNCHANGED <<status, outcome>>
    BY DEF complete_state, NextTask
  <1>2. /\ index \in Tasks /\ Len(scenario.stages) \in Nat /\ Tasks = 1 .. Len(scenario.stages)
        /\ DOMAIN ledgers = Tasks /\ DOMAIN notes = Tasks /\ DOMAIN variants = Tasks
    BY ScenarioFacts DEF LifeInv, ShapeInv, Tasks
  <1>3. next \in Tasks /\ index \in Nat /\ next # index
    BY <1>2
  <1>4. variant \in DOMAIN scenario.stages[next].variants
    BY NextVariant
  <1>5. Closing(s, given)
    <2>1. \A i \in Tasks : Closed(i)' <=> i <= index
      BY <1>1, <1>2 DEF Closed
    <2>2. \A i \in Tasks : i <= index => variants'[i] = variants[i]
      BY <1>1, <1>2, <1>3
    <2> QED
      BY <2>1, <2>2 DEF complete_state, Closing
  <1> HIDE DEF sign, variant
  <1>6. /\ DOMAIN ledgers' = Tasks /\ DOMAIN notes' = Tasks /\ DOMAIN variants' = Tasks
        /\ variants'[next] = variant /\ ledgers'[next] = EmptyLedger
        /\ \A i \in Tasks : i > index => notes'[i] = notes[i]
    BY <1>1, <1>2, <1>3
  <1>7. \A i \in Tasks : i > index => notes'[i] = EmptyNote /\ first'[i] = <<>>
    BY <1>5, <1>6, ClosedTasks DEF LifeInv, ShapeInv
  <1> HIDE DEF kept, books
  <1>8. ShapeInv'
    <2>1. /\ DOMAIN first' = Tasks /\ DOMAIN closer' = Tasks /\ Tasks' = Tasks
          /\ \A i \in Tasks : closer'[i] # None <=> Closed(i)'
      BY <1>5, ClosedTasks
    <2>2. scenario' \in Scenarios /\ ValidScenario(scenario')
      BY DEF LifeInv, ShapeInv, Waiting
    <2>3. \A i \in Tasks : i > next => i > index
      BY <1>2, <1>3
    <2> QED
      BY <1>1, <1>3, <1>4, <1>6, <1>7, <2>1, <2>2, <2>3 DEF ShapeInv, Waiting
  <1>9. ProvenanceInv'
    <2>1. notes'[next] = EmptyNote /\ first'[next] = <<>> /\ ledgers'[next] = EmptyLedger
      BY <1>3, <1>6, <1>7
    <2>2. ASSUME NEW pack, NEW hint PROVE Provenance(pack, EmptyNote, <<>>, {}, hint)
      BY DEF Provenance, EmptyNote
    <2>3. EmptyLedger.relations = {} /\ EmptyNote.joint = FALSE
      BY DEF EmptyLedger, EmptyNote
    <2>4. Provenance(Task', EmptyNote, <<>>, {}, ladder'.hint)
      BY <2>2
    <2>5. /\ notes'[index'] = EmptyNote /\ first'[index'] = <<>>
          /\ ledgers'[index'].relations = {}
      BY <1>1, <2>1, <2>3
    <2>6. Provenance(Task', notes'[index'], first'[index'], ledgers'[index'].relations, ladder'.hint)
      BY <2>4, <2>5
    <2> QED
      BY <2>3, <2>5, <2>6 DEF ProvenanceInv
  <1>10. SignedInv'
    BY <1>5, SignedStep
  <1>11. DirectInv'
    <2>1. /\ direct' \in BOOLEAN /\ joint' \in BOOLEAN /\ (joint' => ~direct')
          /\ direct' <=> \A i \in Tasks' : Closed(i)' =>
                     IF PackAt(i)'.note # {} THEN ToldAlone(i)' ELSE closer'[i] = "sonnet_low"
      BY <1>5, DirectStep
    <2> QED
      BY <1>1, <2>1 DEF DirectInv
  <1>12. PinnedInv'
    BY <1>1, <1>2 DEF PinnedInv
  <1> QED
    BY <1>8, <1>9, <1>10, <1>11, <1>12 DEF LifeInv

\* Every response that a child can give keeps the invariant.
LEMMA ConcludeKeeps ==
    ASSUME LifeInv, status = "active", NEW s, NEW given, NEW patch, Admissible(s, given),
           Conclude(s, given, patch)
    PROVE  LifeInv'
  BY ConcludeShape, StayKeeps, EndKeeps, NextKeeps

-----------------------------------------------------------------------------
(* The responses. *)

\* A response as one conclusion, and the menu it picks where a menu selects a task.
Answered(s, given, patch) ==
    /\ Admissible(s, given) /\ Conclude(s, given, patch)
    /\ scenario = MenuFirst /\ index = 1 /\ "child_menu" \in s.facts => picked' = given["child_menu"]

\* The task of a pinned menu_total in which the menu is picked.
LEMMA MenuTask ==
    ASSUME LifeInv, status = "active", scenario = MenuFirst, index = 1
    PROVE  Task = menu_selection_pack(Menus, Affordable, FALSE)
  BY MenuFirstFacts DEF LifeInv, ShapeInv, Task, PackAt, Waiting

LEMMA TaskIsValid ==
    ASSUME LifeInv, status = "active"
    PROVE  ValidPack(Task)
  BY DEF LifeInv, ShapeInv, Waiting, ValidScenario, Task, PackAt, Tasks

LEMMA TextAnswers ==
    ASSUME LifeInv, Text
    PROVE  \E s, given, patch : Answered(s, given, patch)
  <1>1. PICK s \in Readings(Task) : Conclude(s, [f \in s.facts |-> Head(Task.values[f])], FALSE)
    BY DEF Text
  <1>2. status = "active" /\ ladder.level \in {"L4", "L3"}
    BY DEF Text
  <1>3. s.source \in {"sonnet_low", "deterministic_fallback"}
    BY <1>1, <1>2, ReadingsAssumption DEF LifeInv, ShapeInv, Waiting, Task, PackAt, Tasks
  <1>4. ~ (scenario = MenuFirst /\ index = 1)
    BY <1>2 DEF LifeInv, PinnedInv
  <1>5. Answered(s, [f \in s.facts |-> Head(Task.values[f])], FALSE)
    BY <1>1, <1>3, <1>4 DEF Answered, Admissible, None
  <1> QED
    BY <1>5

LEMMA PressAnswers ==
    ASSUME LifeInv, NEW kind \in {"explicit_no_response", "silence_timeout", "asr_empty"}, NEW need,
           Press(kind, need)
    PROVE  \E s, given, patch : Answered(s, given, patch)
  <1> DEFINE s == Home!Semantics(kind, "none", need, FALSE, FALSE, {}, {}, {})
  <1>1. s.source = kind /\ s.facts = {}
    BY DEF Home!Semantics
  <1>2. Conclude(s, <<>>, FALSE)
    BY DEF Press
  <1> HIDE DEF s
  <1>3. Answered(s, <<>>, FALSE)
    BY <1>1, <1>2 DEF Answered, Admissible, None
  <1> QED
    BY <1>3

LEMMA ChooseAnswers ==
    ASSUME LifeInv, Choose
    PROVE  \E s, given, patch : Answered(s, given, patch)
  <1>1. PICK t \in question : \E e \in Task.choices[t] :
            /\ Conclude(Home!Semantics("structured_choice", "none", "none", FALSE, ~e.correct,
                                       DOMAIN e.facts, e.relations, {}), e.facts, e.patch)
            /\ picked' = IF "child_menu" \in DOMAIN e.facts THEN e.facts["child_menu"] ELSE picked
    BY DEF Choose
  <1>2. PICK e \in Task.choices[t] :
            /\ Conclude(Home!Semantics("structured_choice", "none", "none", FALSE, ~e.correct,
                                       DOMAIN e.facts, e.relations, {}), e.facts, e.patch)
            /\ picked' = IF "child_menu" \in DOMAIN e.facts THEN e.facts["child_menu"] ELSE picked
    BY <1>1
  <1> DEFINE s == Home!Semantics("structured_choice", "none", "none", FALSE, ~e.correct,
                                 DOMAIN e.facts, e.relations, {})
  <1>3. s.source = "structured_choice" /\ s.facts = DOMAIN e.facts
    BY DEF Home!Semantics
  <1>4. Conclude(s, e.facts, e.patch)
    BY <1>2
  <1> HIDE DEF s
  <1>5. scenario = MenuFirst /\ index = 1 /\ "child_menu" \in s.facts =>
            /\ e.facts["child_menu"] \in Members(Affordable) /\ picked' = e.facts["child_menu"]
    <2> SUFFICES ASSUME scenario = MenuFirst, index = 1, "child_menu" \in DOMAIN e.facts
                 PROVE  e.facts["child_menu"] \in Members(Affordable) /\ picked' = e.facts["child_menu"]
      BY <1>3
    <2>1. status = "active"
      BY DEF Choose
    <2>2. t = "child_menu" /\ Task = menu_selection_pack(Menus, Affordable, FALSE)
      BY <1>1, <2>1, MenuTask DEF LifeInv, PinnedInv
    <2> QED
      BY <1>2, <2>2, MenuPackFacts
  <1>6. Answered(s, e.facts, e.patch)
    BY <1>3, <1>4, <1>5 DEF Answered, Admissible, None
  <1> QED
    BY <1>6

LEMMA JointAnswers ==
    ASSUME LifeInv, JointAction
    PROVE  \E s, given, patch : Answered(s, given, patch)
  <1> DEFINE s == Home!Semantics("structured_joint", "none", "none", FALSE, FALSE,
                                 DOMAIN Task.joint, Task.jointly \cup Task.note, {})
  <1>1. /\ s.source = "structured_joint" /\ s.facts = DOMAIN Task.joint
        /\ s.relations = Task.jointly \cup Task.note
    BY DEF Home!Semantics
  <1>2. /\ status = "active" /\ Conclude(s, Task.joint, FALSE)
        /\ picked' = IF "child_menu" \in DOMAIN Task.joint THEN Task.joint["child_menu"] ELSE picked
    BY DEF JointAction
  <1> HIDE DEF s
  <1>3. DOMAIN Task.joint = Task.facts /\ Task.jointly = Task.relations
    BY <1>2, TaskIsValid DEF ValidPack
  <1>4. scenario = MenuFirst /\ index = 1 => Task.joint["child_menu"] \in Members(Affordable)
    BY <1>2, MenuTask, MenuPackFacts
  <1>5. Answered(s, Task.joint, FALSE)
    BY <1>1, <1>2, <1>3, <1>4 DEF Answered, Admissible, None
  <1> QED
    BY <1>5

\* Once created, a session changes by one response at a time.
LEMMA Responses ==
    ASSUME LifeInv, Next, ~ initialize_scenario_state
    PROVE  status = "active" /\ \E s, given, patch : Answered(s, given, patch)
  <1>1. status = "active"
    BY DEF Next, Text, ExplicitHelp, SilenceTimeout, AsrEmpty, Press, Choose, JointAction
  <1>2. CASE ExplicitHelp \/ SilenceTimeout \/ AsrEmpty
    BY <1>1, <1>2, PressAnswers DEF ExplicitHelp, SilenceTimeout, AsrEmpty
  <1> QED
    BY <1>1, <1>2, TextAnswers, ChooseAnswers, JointAnswers DEF Next

-----------------------------------------------------------------------------
(* The theorems. *)

LEMMA LifeInit ==
    ASSUME Init
    PROVE  LifeInv
  <1>1. /\ scenario \in Scenarios /\ status = "new" /\ index = 1
        /\ DOMAIN variants = Tasks /\ DOMAIN ledgers = Tasks /\ DOMAIN notes = Tasks
        /\ DOMAIN first = Tasks /\ DOMAIN closer = Tasks
        /\ \A i \in Tasks : /\ variants[i] = scenario.stages[i].default /\ ledgers[i] = EmptyLedger
                            /\ notes[i] = EmptyNote /\ first[i] = <<>> /\ closer[i] = None
        /\ ladder.level = Opening(scenario).entry
        /\ joint = FALSE /\ direct = TRUE /\ signed = <<>>
    BY DEF Init, Tasks
  <1>2. Len(scenario.stages) \in Nat /\ Tasks = 1 .. Len(scenario.stages) /\ 1 \in Tasks
    BY <1>1, ScenarioFacts DEF Tasks
  <1>3. \A i \in Tasks : ~ Closed(i)
    BY <1>1, <1>2 DEF Closed
  <1>4. ShapeInv
    BY <1>1, <1>2, <1>3 DEF ShapeInv, Waiting
  <1>5. ProvenanceInv /\ PinnedInv
    BY <1>1 DEF ProvenanceInv, PinnedInv
  <1>6. SignedInv
    <2>1. {i \in Noted : closer[i] # None} = {}
      BY <1>1 DEF Noted, Tasks
    <2>2. signed \in Seq(Nat \X {"child", "coauthored"}) /\ Len(signed) = 0 /\ DOMAIN signed = {}
      BY <1>1
    <2>3. {signed[k][1] : k \in DOMAIN signed} = {}
      BY <2>2
    <2>4. Len(signed) = Cardinality({i \in Noted : closer[i] # None})
      BY <2>1, <2>2, FS_EmptySet
    <2>5. NotesAreTheTasks
      BY <2>1, <2>2, <2>3, <2>4 DEF NotesAreTheTasks
    <2> QED
      BY <2>2, <2>5 DEF SignedInv
  <1>7. DirectInv
    BY <1>1, <1>3 DEF DirectInv
  <1> QED
    BY <1>4, <1>5, <1>6, <1>7 DEF LifeInv

\* Creation opens the first task as it was pinned, or refuses the session.
LEMMA CreationKeeps ==
    ASSUME LifeInv, initialize_scenario_state
    PROVE  LifeInv'
  <1>1. /\ status = "new" /\ status' \in {"active", "refused"}
        /\ status' = "active" => /\ ValidScenario(scenario)
                                 /\ question' = Targets(Opening(scenario), ladder.level, EmptyLedger)
    BY DEF initialize_scenario_state
  <1>2. UNCHANGED <<scenario, index, ledgers, notes, variants, ladder, joint, direct, first, closer, signed>>
    BY DEF initialize_scenario_state, record
  <1>3. /\ index = 1 /\ index \in Tasks /\ variants[1] = scenario.stages[1].default
        /\ ledgers[1] = EmptyLedger /\ notes[1] = EmptyNote /\ first[1] = <<>>
        /\ ladder.level = Opening(scenario).entry
    BY <1>1 DEF LifeInv, ShapeInv, Waiting
  <1>4. \A i \in Tasks : Closed(i)' <=> Closed(i)
    BY <1>1, <1>2 DEF Closed
  <1>5. /\ Tasks' = Tasks
        /\ \A i \in Tasks : /\ notes[i] = EmptyNote /\ first[i] = <<>>
                            /\ closer[i] # None <=> Closed(i)'
    BY <1>1, <1>2, <1>4 DEF LifeInv, ShapeInv, Waiting, Tasks
  <1>6. ShapeInv'
    <2>1. /\ scenario' \in Scenarios /\ Opening(scenario)' = Opening(scenario)
          /\ DOMAIN variants = Tasks /\ DOMAIN ledgers = Tasks /\ DOMAIN notes = Tasks
          /\ DOMAIN first = Tasks /\ DOMAIN closer = Tasks
      BY <1>2 DEF LifeInv, ShapeInv, Opening
    <2>2. status' = "active" =>
              ValidScenario(scenario') /\ variants'[index'] \in DOMAIN scenario'.stages[index'].variants
      BY <1>1, <1>2, <1>3 DEF ValidScenario, Tasks
    <2> QED
      BY <1>1, <1>2, <1>3, <1>5, <2>1, <2>2 DEF ShapeInv, Waiting, Opening
  <1>7. ProvenanceInv'
    <2>1. ASSUME NEW pack, NEW hint PROVE Provenance(pack, EmptyNote, <<>>, {}, hint)
      BY DEF Provenance, EmptyNote
    <2>2. Provenance(Task', EmptyNote, <<>>, {}, ladder'.hint)
      BY <2>1
    <2>3. /\ notes'[index'] = EmptyNote /\ first'[index'] = <<>>
          /\ ledgers'[index'].relations = {} /\ EmptyNote.joint = FALSE
      BY <1>2, <1>3 DEF EmptyLedger, EmptyNote
    <2>4. Provenance(Task', notes'[index'], first'[index'], ledgers'[index'].relations, ladder'.hint)
      BY <2>2, <2>3
    <2> QED
      BY <2>3, <2>4 DEF ProvenanceInv
  <1>8. SignedInv'
    <2>1. {i \in Noted : closer[i] # None}' = {i \in Noted : closer[i] # None}
      BY <1>2 DEF Noted, PackAt
    <2>2. \A k \in DOMAIN signed : ToldAlone(signed[k][1])' <=> ToldAlone(signed[k][1])
      BY <1>2 DEF ToldAlone, PackAt
    <2> QED
      BY <1>2, <2>1, <2>2 DEF LifeInv, SignedInv, NotesAreTheTasks
  <1>9. DirectInv'
    <2>1. \A i \in Tasks : /\ PackAt(i)' = PackAt(i) /\ closer'[i] = closer[i]
                           /\ ToldAlone(i)' <=> ToldAlone(i)
      BY <1>2 DEF ToldAlone, PackAt
    <2> QED
      BY <1>1, <1>2, <1>4, <1>5, <2>1 DEF LifeInv, DirectInv
  <1>10. PinnedInv'
    <2> SUFFICES ASSUME status' = "active", scenario = MenuFirst
                 PROVE  /\ ladder.level \in {"L2", "L0"} /\ question' \subseteq {"child_menu"}
                        /\ "child_menu" \notin DOMAIN ledgers[1].facts
      BY <1>2 DEF PinnedInv, MenuFirst
    <2>1. Opening(scenario) = menu_selection_pack(Menus, Affordable, FALSE)
      BY MenuFirstFacts DEF Opening
    <2>2. ladder.level = "L2"
      BY <1>3, <2>1, MenuPackFacts
    <2>3. DOMAIN EmptyLedger.facts = {}
      BY DEF EmptyLedger
    <2>4. Remaining(menu_selection_pack(Menus, Affordable, FALSE), EmptyLedger) # {}
      BY <2>3, MenuPackFacts DEF Remaining
    <2> QED
      BY <1>1, <1>3, <2>1, <2>2, <2>3, <2>4, MenuTargets
  <1> QED
    BY <1>6, <1>7, <1>8, <1>9, <1>10 DEF LifeInv

LEMMA LifeStutter ==
    ASSUME LifeInv, UNCHANGED vars
    PROVE  LifeInv'
  <1>1. UNCHANGED <<scenario, status, index, ledgers, notes, variants, ladder, question, joint, direct,
                    outcome, first, closer, signed>>
    BY DEF vars, record
  <1>2. /\ Tasks' = Tasks
        /\ \A i \in Tasks : /\ PackAt(i)' = PackAt(i) /\ (Closed(i)' <=> Closed(i))
                            /\ ToldAlone(i)' <=> ToldAlone(i)
    BY <1>1 DEF Tasks, PackAt, Closed, ToldAlone
  <1>3. ShapeInv'
    BY <1>1, <1>2 DEF LifeInv, ShapeInv, Waiting, Opening
  <1>4. ProvenanceInv'
    BY <1>1 DEF LifeInv, ProvenanceInv, Task, PackAt
  <1>5. SignedInv'
    <2>1. {i \in Noted : closer[i] # None}' = {i \in Noted : closer[i] # None}
      BY <1>1 DEF Noted, PackAt
    <2>2. \A k \in DOMAIN signed : ToldAlone(signed[k][1])' <=> ToldAlone(signed[k][1])
      BY <1>1 DEF ToldAlone, PackAt
    <2> QED
      BY <1>1, <2>1, <2>2 DEF LifeInv, SignedInv, NotesAreTheTasks
  <1>6. DirectInv'
    <2>1. Projectable(ledgers)' <=> Projectable(ledgers)
      BY <1>1 DEF Projectable
    <2> QED
      BY <1>1, <1>2, <2>1 DEF LifeInv, DirectInv
  <1>7. PinnedInv'
    BY <1>1 DEF LifeInv, PinnedInv, MenuFirst
  <1> QED
    BY <1>3, <1>4, <1>5, <1>6, <1>7 DEF LifeInv

LEMMA LifeStep ==
    ASSUME LifeInv, [Next]_vars
    PROVE  LifeInv'
  <1>1. CASE initialize_scenario_state
    BY <1>1, CreationKeeps
  <1>2. CASE Next /\ ~ initialize_scenario_state
    BY <1>2, Responses, ConcludeKeeps DEF Answered
  <1> QED
    BY <1>1, <1>2, LifeStutter

\* In every reachable state the record of a life session has its shape: tasks that
\* have not begun are empty, the note state of the current task agrees with how its
\* methods were first verified, and signatures and flag speak of the closed tasks.
THEOREM LifeInvariance == Spec => []LifeInv
  BY LifeInit, LifeStep, PTL DEF Spec

\* Every finished task with a note signed it once, in the child's name exactly if the
\* child said its whole method unguided (_track_note_provenance, _note_update).
THEOREM NotesAreTheTasksHolds == Spec => []NotesAreTheTasks
  <1>1. LifeInv => NotesAreTheTasks
    BY DEF LifeInv, SignedInv
  <1> QED
    BY <1>1, LifeInvariance, PTL

\* A session is taught exactly if the child taught every task of it, and then its
\* report can be made (_complete_state, _completion_facts).
THEOREM TaughtInEveryTaskHolds == Spec => []TaughtInEveryTask
  <1>1. ASSUME LifeInv, status = "completed"
        PROVE  /\ (outcome = "taught") <=>
                      \A i \in DOMAIN scenario.stages :
                          IF i \in Noted THEN ToldAlone(i) ELSE closer[i] = "sonnet_low"
               /\ Projectable(ledgers)
    <2>1. \A i \in Tasks : Closed(i) /\ (i \in Noted <=> PackAt(i).note # {})
      BY <1>1 DEF Closed, Noted, Tasks
    <2>2. /\ outcome = "taught" <=> direct
          /\ Projectable(ledgers)
          /\ direct <=> \A i \in Tasks : Closed(i) =>
                            IF PackAt(i).note # {} THEN ToldAlone(i) ELSE closer[i] = "sonnet_low"
      BY <1>1 DEF LifeInv, DirectInv
    <2> QED
      BY <2>1, <2>2 DEF Tasks
  <1>2. LifeInv => TaughtInEveryTask
    BY <1>1 DEF TaughtInEveryTask
  <1> QED
    BY <1>2, LifeInvariance, PTL

\* A response changes no finished task; where it ends one, the next starts unhelped,
\* empty and for the menu the child picked.
LEMMA FinalStep ==
    ASSUME LifeInv, status = "active", NEW s, NEW given, NEW patch, Answered(s, given, patch)
    PROVE  /\ \A i \in DOMAIN scenario.stages : i < index =>
                  ledgers'[i] = ledgers[i] /\ notes'[i] = notes[i] /\ variants'[i] = variants[i]
           /\ index' # index =>
                  /\ ladder'.hint = "H0" /\ notes'[index'] = EmptyNote
                  /\ scenario.stages[index'].selector # NoSelector => variants'[index'] = picked'
  <1> DEFINE l == Learned(s, given)
             note == NoteOf(s, given)
  <1>1. /\ index \in Tasks /\ Len(scenario.stages) \in Nat /\ Tasks = 1 .. Len(scenario.stages)
        /\ DOMAIN ledgers = Tasks /\ DOMAIN notes = Tasks /\ DOMAIN variants = Tasks
    BY ScenarioFacts DEF LifeInv, ShapeInv, Tasks
  <1>2. \/ Stay(Task, l, note, Moved(s), s)
        \/ /\ Remaining(Task, l) = {}
           /\ complete_state(Task, l, note, Moved(s), s, patch)
    BY ConcludeShape DEF Answered
  <1> HIDE DEF l, note
  <1>3. CASE Stay(Task, l, note, Moved(s), s)
    <2>1. /\ ledgers' = [ledgers EXCEPT ![index] = l] /\ notes' = [notes EXCEPT ![index] = note]
          /\ UNCHANGED <<index, variants>>
      BY <1>3 DEF Stay
    <2> QED
      BY <1>1, <2>1 DEF Tasks
  <1>4. CASE Remaining(Task, l) = {} /\ complete_state(Task, l, note, Moved(s), s, patch)
    <2> DEFINE sign == note_update(Task, note, l)
               books == [ledgers EXCEPT ![index] = l]
               kept == [notes EXCEPT ![index] = [note EXCEPT !.emitted = @ \/ sign # None]]
               next == index + 1
    <2>1. CASE index = Len(scenario.stages)
      <3>1. ledgers' = books /\ notes' = kept /\ UNCHANGED <<index, variants>>
        BY <1>4, <2>1 DEF complete_state, EndSession
      <3> QED
        BY <1>1, <3>1 DEF Tasks
    <2>2. CASE index # Len(scenario.stages)
      <3>1. /\ index' = next /\ variants' = [variants EXCEPT ![next] = select_variant(books, next)]
            /\ ledgers' = [books EXCEPT ![next] = EmptyLedger] /\ notes' = kept
            /\ ladder'.hint = "H0"
        BY <1>4, <2>2 DEF complete_state, NextTask
      <3>2. next \in Tasks /\ next # index /\ next > index
        BY <1>1, <2>2
      <3> HIDE DEF sign
      <3>3. \A i \in Tasks : i < index =>
                ledgers'[i] = ledgers[i] /\ notes'[i] = notes[i] /\ variants'[i] = variants[i]
        BY <1>1, <3>1, <3>2
      <3>4. notes'[next] = EmptyNote
        BY <1>1, <3>1, <3>2 DEF LifeInv, ShapeInv
      <3>5. scenario.stages[next].selector # NoSelector => variants'[next] = picked'
        <4>1. variants'[next] = select_variant(books, next)
          BY <1>1, <3>1, <3>2
        <4>2. scenario.stages[next].selector # NoSelector =>
                  /\ scenario = MenuFirst /\ index = 1 /\ "child_menu" \in s.facts
                  /\ select_variant(books, next) = given["child_menu"]
          BY <1>4, <2>2, NextVariant DEF Answered, l
        <4> QED
          BY <4>1, <4>2 DEF Answered
      <3> QED
        BY <3>1, <3>3, <3>4, <3>5 DEF Tasks
    <2> QED
      BY <2>1, <2>2
  <1> QED
    BY <1>2, <1>3, <1>4

\* A finished task is final, and the next one starts for what the child picked
\* (_complete_state).
THEOREM TaskRecordIsFinalHolds == Spec => TaskRecordIsFinal
  <1> DEFINE Final == /\ \A i \in DOMAIN scenario.stages : i < index =>
                             ledgers'[i] = ledgers[i] /\ notes'[i] = notes[i] /\ variants'[i] = variants[i]
                      /\ index' # index =>
                             /\ ladder'.hint = "H0" /\ notes'[index'] = EmptyNote
                             /\ scenario.stages[index'].selector # NoSelector =>
                                    variants'[index'] = picked'
  <1>1. ASSUME LifeInv, [Next]_vars PROVE [Final]_vars
    <2>1. CASE initialize_scenario_state
      BY <2>1 DEF initialize_scenario_state, record
    <2>2. CASE Next /\ ~ initialize_scenario_state
      BY <1>1, <2>2, Responses, FinalStep
    <2> QED
      BY <1>1, <2>1, <2>2
  <1> QED
    BY <1>1, LifeInvariance, PTL DEF Spec, TaskRecordIsFinal

-----------------------------------------------------------------------------
(* The legacy engine.  A session is sound if its record agrees with the        *)
(* histories: kept words were told in the current task, closed tasks are       *)
(* complete, direct teaching and joint work are those of the closed tasks, and *)
(* a session that goes on asks an open question whose form fits its level.     *)
(* While the speaker runs, the prepared session is sound and the stored one    *)
(* still has the question on the screen.                                       *)

HintNames == {"H0", "H1", "H2", "H3"}
Forms == {"none", "entry", "free", "short", "choose", "pick", "joint"}
Slots == UNION {tasks[i].required : i \in DOMAIN tasks}
Session ==
    [index : DOMAIN tasks, starts : [DOMAIN tasks -> Levels], policy : {2, 3}, level : Levels,
     hint : HintNames, max : HintNames, verified : SUBSET Slots, vague : {0, 1}, phase : Phases,
     evidence : SUBSET Slots, supported : SUBSET Slots, joint : BOOLEAN, direct : BOOLEAN,
     done : Seq(SUBSET Slots), status : {"active", "completed"},
     outcome : {"none", "taught", "supported"}, reward : BOOLEAN,
     step : [form : Forms, target : SUBSET Slots]]

Live(s) ==
    /\ s \in Session /\ s.step = StepOf(s) /\ ~ complete(TaskOf(s), s.verified)
    /\ s.level = "L0" <=> s.hint = "H3"
    /\ s.phase = "entry" => s.level = "L4"

\* T, R, J: told, reached, jointly.
Accounts(s, T, R, J) ==
    /\ s.evidence \subseteq T[s.index] /\ s.supported \subseteq R[s.index]
    /\ Len(s.done) = IF Active(s) THEN s.index - 1 ELSE Len(tasks)
    /\ \A i \in DOMAIN s.done : /\ tasks[i].required \subseteq s.done[i]
                                /\ s.direct => tasks[i].note \subseteq T[i]
    /\ s.joint <=> J # {}

Earned(s) ==
    /\ s.index = Len(tasks) /\ s.step.target \subseteq s.verified
    /\ s.reward <=> ~ s.joint
    /\ s.outcome = "taught" => s.direct

Sound(s, T, R, J) ==
    /\ s \in Session /\ Accounts(s, T, R, J)
    /\ Active(s) => Live(s)
    /\ ~ Active(s) => Earned(s)

\* What a note may say of the last finished task.
Last(s) == IF Active(s) THEN s.index - 1 ELSE s.index
NoteFits(note, i, T, R) ==
    note # "none" => /\ i \in DOMAIN tasks
                     /\ note = "child" => tasks[i].note \subseteq T[i]
                     /\ note = "coauthored" => tasks[i].note \subseteq T[i] \cup R[i]

LoweringActs == {"acknowledge_unstructured_partial", "support_vague_response"}

\* The reviewed sentence names nothing, or the open step as it is authored.
Offers(d) == d.fallback # {} => Active(d.session) /\ d.fallback = d.session.step.target

\* A decision about the session s that may be composed into the next turn.
Ready(s, d, T, R, J) ==
    /\ Sound(d.session, T, R, J) /\ Offers(d)
    /\ NoteFits(d.note, Last(d.session), T, R)
    /\ d.act \in LoweringActs /\ s.step.form # "joint" =>
           Active(d.session) /\ d.session.step # s.step

\* What a sentence may ask under a screen.
SentenceFits(t) ==
    /\ t.source = "model" => t.asked = t.anchor.target
    /\ t.asked # {} => t.anchor.target \subseteq t.asked /\ t.asked \subseteq t.step.target

LegacyInv ==
    /\ tasks \in Lessons /\ storage \in BOOLEAN
    /\ DOMAIN told = DOMAIN tasks /\ DOMAIN reached = DOMAIN tasks
    /\ decision.act = "none" => Sound(session, told, reached, jointly)
    /\ decision.act # "none" => /\ Active(session) /\ Live(session)
                              /\ Ready(session, decision, told, reached, jointly)
    /\ NoteFits(turn.note, Last(session), told, reached)
    /\ SentenceFits(turn)
    /\ Active(session) => turn.step = session.step /\ turn.help = session.hint

-----------------------------------------------------------------------------
(* The steps of the reviewed tasks. *)

StepsCover(slots, steps, level) ==
    /\ steps \in Seq([form : Forms, target : SUBSET slots])
    /\ \A slot \in slots : \E i \in DOMAIN steps : slot \in steps[i].target
    /\ \A i \in DOMAIN steps : steps[i].form = "joint" <=> level = "L0"

\* Every level asks for every slot and for nothing else, and only L0 is joint work.
Fits(task) == task.required # {} /\ \A l \in Levels : StepsCover(task.required, task.steps[l], l)

LEMMA LevelNames == \A l \in Levels : l = "L4" \/ l = "L3" \/ l = "L2" \/ l = "L0"
  BY DEF Levels

\* One step for everything.
LEMMA WholeStep ==
    ASSUME NEW slots, NEW form \in Forms, NEW level, form = "joint" <=> level = "L0"
    PROVE  StepsCover(slots, <<Step(form, slots)>>, level)
  BY DEF StepsCover, Step

\* One step per slot.
LEMMA SingleSteps ==
    ASSUME NEW S, NEW order \in Seq(S), NEW slots, slots = {order[i] : i \in DOMAIN order},
           NEW form \in Forms, form # "joint", NEW level, level # "L0"
    PROVE  StepsCover(slots, [i \in DOMAIN order |-> Step(form, {order[i]})], level)
  <1> DEFINE steps == [i \in DOMAIN order |-> Step(form, {order[i]})]
  <1>1. DOMAIN order = 1 .. Len(order) /\ Len(order) \in Nat
    OBVIOUS
  <1>2. \A i \in DOMAIN order : steps[i] = [form |-> form, target |-> {order[i]}]
    BY DEF Step
  <1>3. \A i \in DOMAIN order : steps[i] \in [form : Forms, target : SUBSET slots]
    <2>1. \A i \in DOMAIN order : {order[i]} \in SUBSET slots
      OBVIOUS
    <2>2. ASSUME NEW part \in SUBSET slots
          PROVE  [form |-> form, target |-> part] \in [form : Forms, target : SUBSET slots]
      OBVIOUS
    <2> HIDE DEF steps
    <2>3. \A i \in DOMAIN order :
              [form |-> form, target |-> {order[i]}] \in [form : Forms, target : SUBSET slots]
      BY <2>1, <2>2
    <2> QED
      BY <1>2, <2>3
  <1>4. steps \in Seq([form : Forms, target : SUBSET slots]) /\ DOMAIN steps = DOMAIN order
    BY <1>1, <1>3
  <1> HIDE DEF steps
  <1>5. \A slot \in slots : \E i \in DOMAIN steps : slot \in steps[i].target
    BY <1>2, <1>4
  <1>6. \A i \in DOMAIN steps : steps[i].form # "joint"
    BY <1>2, <1>4
  <1> QED
    BY <1>4, <1>5, <1>6 DEF StepsCover, steps

\* The ladder of a teaching task (reviewed_task).
LEMMA LadderFits ==
    ASSUME NEW S, NEW short \in Seq(S), NEW choose \in Seq(S), NEW slots,
           slots = {short[i] : i \in DOMAIN short}, slots = {choose[i] : i \in DOMAIN choose}
    PROVE  /\ DOMAIN Ladder(short, choose) = Levels
           /\ \A l \in Levels : StepsCover(slots, Ladder(short, choose)[l], l)
  <1>1. DOMAIN Ladder(short, choose) = Levels
    BY DEF Ladder
  <1>2. /\ Ladder(short, choose)["L4"] = <<Step("free", slots)>>
        /\ Ladder(short, choose)["L3"] = [i \in DOMAIN short |-> Step("short", {short[i]})]
        /\ Ladder(short, choose)["L2"] = [i \in DOMAIN choose |-> Step("choose", {choose[i]})]
        /\ Ladder(short, choose)["L0"] = <<Step("joint", slots)>>
    BY DEF Ladder, Levels
  <1>3. StepsCover(slots, Ladder(short, choose)["L4"], "L4")
    <2>1. "free" \in Forms /\ ("free" = "joint" <=> "L4" = "L0")
      BY DEF Forms
    <2>2. StepsCover(slots, <<Step("free", slots)>>, "L4")
      BY <2>1, WholeStep
    <2> QED
      BY <1>2, <2>2
  <1>4. StepsCover(slots, Ladder(short, choose)["L3"], "L3")
    <2>1. "short" \in Forms /\ ("short" = "joint" <=> "L3" = "L0")
      BY DEF Forms
    <2>2. StepsCover(slots, [i \in DOMAIN short |-> Step("short", {short[i]})], "L3")
      BY <2>1, SingleSteps
    <2> QED
      BY <1>2, <2>2
  <1>5. StepsCover(slots, Ladder(short, choose)["L2"], "L2")
    <2>1. "choose" \in Forms /\ ("choose" = "joint" <=> "L2" = "L0")
      BY DEF Forms
    <2>2. StepsCover(slots, [i \in DOMAIN choose |-> Step("choose", {choose[i]})], "L2")
      BY <2>1, SingleSteps
    <2> QED
      BY <1>2, <2>2
  <1>6. StepsCover(slots, Ladder(short, choose)["L0"], "L0")
    <2>1. "joint" \in Forms /\ ("joint" = "joint" <=> "L0" = "L0")
      BY DEF Forms
    <2>2. StepsCover(slots, <<Step("joint", slots)>>, "L0")
      BY <2>1, WholeStep
    <2> QED
      BY <1>2, <2>2
  <1> QED
    BY <1>1, <1>3, <1>4, <1>5, <1>6, LevelNames

LEMMA TaskFits ==
    ASSUME NEW S, NEW short \in Seq(S), NEW choose \in Seq(S), short # <<>>, NEW task,
           {short[i] : i \in DOMAIN short} = {choose[i] : i \in DOMAIN choose},
           task.required = {short[i] : i \in DOMAIN short}, task.steps = Ladder(short, choose)
    PROVE  Fits(task)
  <1>1. task.required # {}
    <2>1. 1 \in DOMAIN short
      OBVIOUS
    <2> QED
      BY <2>1
  <1>2. \A l \in Levels : StepsCover(task.required, Ladder(short, choose)[l], l)
    BY LadderFits
  <1> QED
    BY <1>1, <1>2 DEF Fits

LEMMA PairFits ==
    ASSUME NEW x, NEW y, NEW choose \in {<<x, y>>, <<y, x>>}, NEW task,
           task.required = {<<x, y>>[i] : i \in DOMAIN <<x, y>>}, task.steps = Ladder(<<x, y>>, choose)
    PROVE  Fits(task)
  <1>1. <<x, y>> \in Seq({x, y}) /\ <<y, x>> \in Seq({x, y}) /\ <<x, y>> # <<>>
    OBVIOUS
  <1>2. /\ {<<x, y>>[i] : i \in DOMAIN <<x, y>>} = {x, y}
        /\ {<<y, x>>[i] : i \in DOMAIN <<y, x>>} = {x, y}
    OBVIOUS
  <1>3. CASE choose = <<x, y>>
    BY <1>1, <1>3, TaskFits
  <1>4. CASE choose = <<y, x>>
    <2> DEFINE short == <<x, y>>
               other == <<y, x>>
    <2>1. /\ short \in Seq({x, y}) /\ other \in Seq({x, y}) /\ short # <<>>
          /\ {short[i] : i \in DOMAIN short} = {other[i] : i \in DOMAIN other}
          /\ task.required = {short[i] : i \in DOMAIN short} /\ task.steps = Ladder(short, other)
      BY <1>1, <1>2, <1>4
    <2> HIDE DEF short, other
    <2> QED
      BY <2>1, TaskFits
  <1> QED
    BY <1>3, <1>4

LEMMA SamePairFits ==
    ASSUME NEW x, NEW y, NEW task,
           task.required = {<<x, y>>[i] : i \in DOMAIN <<x, y>>}, task.steps = Ladder(<<x, y>>, <<x, y>>)
    PROVE  Fits(task)
  <1> DEFINE pair == <<x, y>>
  <1>1. /\ pair \in Seq({x, y}) /\ pair # <<>>
        /\ task.required = {pair[i] : i \in DOMAIN pair} /\ task.steps = Ladder(pair, pair)
    OBVIOUS
  <1> HIDE DEF pair
  <1> QED
    BY <1>1, TaskFits

\* Lessons, amounts and the park problems have the plain ladder.
LEMMA PlainTasks ==
    /\ \A a, e : Fits(home_teaching_task(a, e))
    /\ \A e : Fits(number_count_task(e)) /\ Fits(number_compare_task(e))
    /\ Fits(simple_calculation_task)
    /\ \A st : Fits(park_primary_task(st)) /\ Fits(park_transfer_task(st))
  <1>1. ASSUME NEW a, NEW e PROVE Fits(home_teaching_task(a, e))
    <2> DEFINE pair == <<"answer", "rule">>
    <2>1. /\ home_teaching_task(a, e).required = {pair[i] : i \in DOMAIN pair}
          /\ home_teaching_task(a, e).steps = Ladder(pair, pair)
      BY DEF home_teaching_task, configure_home_entry, reviewed_task
    <2> QED
      BY <2>1, SamePairFits
  <1>2. ASSUME NEW e PROVE Fits(number_count_task(e))
    <2> DEFINE pair == <<"answer", "tracking">>
    <2>1. /\ number_count_task(e).required = {pair[i] : i \in DOMAIN pair}
          /\ number_count_task(e).steps = Ladder(pair, pair)
      BY DEF number_count_task, configure_home_entry, reviewed_task
    <2> QED
      BY <2>1, SamePairFits
  <1>3. ASSUME NEW e PROVE Fits(number_compare_task(e))
    <2> DEFINE pair == <<"answer", "reason">>
    <2>1. /\ number_compare_task(e).required = {pair[i] : i \in DOMAIN pair}
          /\ number_compare_task(e).steps = Ladder(pair, pair)
      BY DEF number_compare_task, configure_home_entry, reviewed_task
    <2> QED
      BY <2>1, SamePairFits
  <1>4. Fits(simple_calculation_task)
    <2> DEFINE pair == <<"result", "operation">>
    <2>1. /\ simple_calculation_task.required = {pair[i] : i \in DOMAIN pair}
          /\ simple_calculation_task.steps = Ladder(pair, <<"operation", "result">>)
      BY DEF simple_calculation_task, reviewed_task
    <2> QED
      BY <2>1, PairFits
  <1>5. ASSUME NEW st PROVE Fits(park_primary_task(st)) /\ Fits(park_transfer_task(st))
    <2> DEFINE slots == ParkSlots(st)
    <2>1. /\ park_primary_task(st).required = {slots[i] : i \in DOMAIN slots}
          /\ park_primary_task(st).steps = Ladder(slots, slots)
          /\ park_transfer_task(st).required = {slots[i] : i \in DOMAIN slots}
          /\ park_transfer_task(st).steps = Ladder(slots, slots)
      BY DEF park_primary_task, park_transfer_task, reviewed_task
    <2>2. ASSUME NEW x, NEW y, NEW z
          PROVE  /\ <<x, y, z>> \in Seq({x, y, z}) /\ <<x, y, z>> # <<>>
                 /\ <<x, z>> \in Seq({x, y, z}) /\ <<x, z>> # <<>>
      OBVIOUS
    <2>3. \E S : slots \in Seq(S) /\ slots # <<>>
      BY <2>2 DEF ParkSlots
    <2> HIDE DEF slots
    <2> QED
      BY <2>1, <2>3, TaskFits
  <1> QED
    BY <1>1, <1>2, <1>3, <1>4, <1>5

LEMMA QueueFits == Fits(queue_task)
  <1> DEFINE counts == {"left_count", "right_count"}
             why == {"final_choice", "reason"}
             order == <<"left_count", "right_count", "final_choice", "reason">>
             all == {order[i] : i \in DOMAIN order}
             four == <<Step("free", counts), Step("free", why)>>
             three == <<Step("short", counts), Step("short", {"final_choice"}), Step("short", {"reason"})>>
  <1>1. all = {"left_count", "right_count", "final_choice", "reason"}
    OBVIOUS
  <1>2. order \in Seq(all)
    OBVIOUS
  <1>3. /\ queue_task.required = all
        /\ queue_task.steps = [Ladder(order, order) EXCEPT !["L4"] = four, !["L3"] = three]
    BY DEF queue_task, reviewed_task
  <1>4. StepsCover(all, four, "L4")
    <2>1. /\ Step("free", counts) \in [form : Forms, target : SUBSET all]
          /\ Step("free", why) \in [form : Forms, target : SUBSET all]
      BY <1>1 DEF Step, Forms
    <2>2. four \in Seq([form : Forms, target : SUBSET all])
      BY <2>1
    <2>3. DOMAIN four = {1, 2} /\ four[1] = Step("free", counts) /\ four[2] = Step("free", why)
      OBVIOUS
    <2> HIDE DEF four
    <2>4. \A i \in DOMAIN four : four[i].form = "free"
      BY <2>3 DEF Step
    <2>5. four[1].target = counts /\ four[2].target = why
      BY <2>3 DEF Step
    <2>6. \A slot \in all : \E i \in DOMAIN four : slot \in four[i].target
      BY <1>1, <2>3, <2>5
    <2> QED
      BY <2>2, <2>4, <2>6 DEF StepsCover
  <1>5. StepsCover(all, three, "L3")
    <2>1. /\ Step("short", counts) \in [form : Forms, target : SUBSET all]
          /\ Step("short", {"final_choice"}) \in [form : Forms, target : SUBSET all]
          /\ Step("short", {"reason"}) \in [form : Forms, target : SUBSET all]
      BY <1>1 DEF Step, Forms
    <2>2. three \in Seq([form : Forms, target : SUBSET all])
      BY <2>1
    <2>3. /\ DOMAIN three = {1, 2, 3} /\ three[1] = Step("short", counts)
          /\ three[2] = Step("short", {"final_choice"}) /\ three[3] = Step("short", {"reason"})
      OBVIOUS
    <2> HIDE DEF three
    <2>4. \A i \in DOMAIN three : three[i].form = "short"
      BY <2>3 DEF Step
    <2>5. three[1].target = counts /\ three[2].target = {"final_choice"} /\ three[3].target = {"reason"}
      BY <2>3 DEF Step
    <2>6. \A slot \in all : \E i \in DOMAIN three : slot \in three[i].target
      BY <1>1, <2>3, <2>5
    <2> QED
      BY <2>2, <2>4, <2>6 DEF StepsCover
  <1>6. /\ DOMAIN Ladder(order, order) = Levels
        /\ \A l \in Levels : StepsCover(all, Ladder(order, order)[l], l)
    <2> HIDE DEF order
    <2> QED
      BY <1>2, LadderFits
  <1>7. all # {}
    BY <1>1
  <1> HIDE DEF order, all, four, three
  <1>8. \A l \in Levels : StepsCover(all, queue_task.steps[l], l)
    <2>1. /\ queue_task.steps["L4"] = four /\ queue_task.steps["L3"] = three
          /\ queue_task.steps["L2"] = Ladder(order, order)["L2"]
          /\ queue_task.steps["L0"] = Ladder(order, order)["L0"]
      BY <1>3, <1>6 DEF Levels
    <2>2. "L2" \in Levels /\ "L0" \in Levels
      BY DEF Levels
    <2> QED
      BY <1>4, <1>5, <1>6, <2>1, <2>2, LevelNames
  <1> QED
    BY <1>3, <1>7, <1>8 DEF Fits

LEMMA MenuFits == \A budget, noted : Fits(menu_selection_task(budget, noted))
  <1> SUFFICES ASSUME NEW budget, NEW noted
               PROVE  Fits(menu_selection_task(budget, noted))
    OBVIOUS
  <1> DEFINE all == {"child_menu"}
             task == menu_selection_task(budget, noted)
  <1>1. task.required = {<<"child_menu">>[i] : i \in DOMAIN <<"child_menu">>}
    BY DEF menu_selection_task, reviewed_task
  <1>2. task.required = all
    BY <1>1
  <1>3. task.steps = [l \in Levels |-> IF l = "L0" THEN <<Step("joint", all)>> ELSE <<Step("pick", all)>>]
    BY DEF menu_selection_task, reviewed_task
  <1>4. ASSUME NEW l \in Levels PROVE StepsCover(all, task.steps[l], l)
    <2>1. "joint" \in Forms /\ "pick" \in Forms /\ "pick" # "joint"
      BY DEF Forms
    <2>2. CASE l = "L0"
      <3>1. StepsCover(all, <<Step("joint", all)>>, l)
        BY <2>1, <2>2, WholeStep
      <3> QED
        BY <1>3, <2>2, <3>1
    <2>3. CASE l # "L0"
      <3>1. StepsCover(all, <<Step("pick", all)>>, l)
        BY <2>1, <2>3, WholeStep
      <3> QED
        BY <1>3, <2>3, <3>1
    <2> QED
      BY <2>2, <2>3
  <1> QED
    BY <1>2, <1>4 DEF Fits

\* Every task of the catalogue.
LEMMA CatalogueFits ==
    ASSUME NEW sc \in ScenarioTasks
    PROVE  /\ Len(sc) \in Nat /\ Len(sc) > 0 /\ DOMAIN sc = 1 .. Len(sc)
           /\ \A i \in DOMAIN sc : Fits(sc[i])
  <1>1. ASSUME NEW x, Fits(x), sc = <<x>>
        PROVE  /\ Len(sc) \in Nat /\ Len(sc) > 0 /\ DOMAIN sc = 1 .. Len(sc)
               /\ \A i \in DOMAIN sc : Fits(sc[i])
    BY <1>1
  <1>2. ASSUME NEW x, NEW y, Fits(x), Fits(y), sc = <<x, y>>
        PROVE  /\ Len(sc) \in Nat /\ Len(sc) > 0 /\ DOMAIN sc = 1 .. Len(sc)
               /\ \A i \in DOMAIN sc : Fits(sc[i])
    BY <1>2
  <1> DEFINE homes == {<<home_teaching_task(a, e)>> : a \in BOOLEAN, e \in BOOLEAN}
             counts == {<<number_count_task(e)>> : e \in BOOLEAN}
             compares == {<<number_compare_task(e)>> : e \in BOOLEAN}
             cafe == {<<queue_task>>, <<simple_calculation_task>>, <<menu_selection_task(TRUE, TRUE)>>,
                      <<menu_selection_task(FALSE, FALSE), simple_calculation_task>>}
             park == {<<park_primary_task(s), park_transfer_task(s)>> :
                          s \in {"ticket", "snack_split", "pass_break_even"}}
  <1>3. CASE sc \in homes
    <2>1. \E a, e : sc = <<home_teaching_task(a, e)>>
      BY <1>3
    <2> QED
      BY <1>1, <2>1, PlainTasks
  <1>4. CASE sc \in counts \/ sc \in compares
    <2>1. \E e : sc = <<number_count_task(e)>> \/ sc = <<number_compare_task(e)>>
      BY <1>4
    <2> QED
      BY <1>1, <2>1, PlainTasks
  <1>5. CASE sc \in cafe
    BY <1>1, <1>2, <1>5, PlainTasks, QueueFits, MenuFits
  <1>6. CASE sc \in park
    <2>1. \E s : sc = <<park_primary_task(s), park_transfer_task(s)>>
      BY <1>6
    <2> QED
      BY <1>2, <2>1, PlainTasks
  <1>7. ScenarioTasks = homes \cup counts \cup compares \cup cafe \cup park
    BY DEF ScenarioTasks
  <1> HIDE DEF homes, counts, compares, cafe, park
  <1> QED
    BY <1>3, <1>4, <1>5, <1>6, <1>7

-----------------------------------------------------------------------------
(* The question of a session. *)

LEMMA FirstOfNat ==
    ASSUME NEW T \in SUBSET Nat, T # {}
    PROVE  \E m \in T : \A k \in T : m <= k
  <1>1. PICK m \in T : \A k \in T : ~(<<k, m>> \in OpToRel(<, Nat))
    BY WFMin, NatLessThanWellFounded
  <1>2. \A k \in T : ~(k < m)
    BY <1>1 DEF OpToRel
  <1> QED
    BY <1>2

\* The step of a task that is not complete asks for something open (step_for).
LEMMA StepIsOpen ==
    ASSUME NEW task, Fits(task), NEW level \in Levels, NEW verified
    PROVE  LET step == step_for(task, level, verified)
           IN  /\ step \in [form : Forms, target : SUBSET task.required]
               /\ step.form = "joint" <=> level = "L0"
               /\ ~ complete(task, verified) => ~ step.target \subseteq verified
  <1> DEFINE steps == task.steps[level]
             open == {i \in DOMAIN steps : ~ steps[i].target \subseteq verified}
  <1>1. /\ steps \in Seq([form : Forms, target : SUBSET task.required])
        /\ \A slot \in task.required : \E i \in DOMAIN steps : slot \in steps[i].target
        /\ \A i \in DOMAIN steps : steps[i].form = "joint" <=> level = "L0"
        /\ task.required # {}
    BY DEF Fits, StepsCover
  <1> HIDE DEF steps
  <1>2. DOMAIN steps = 1 .. Len(steps) /\ Len(steps) \in Nat
    BY <1>1
  <1>3. DOMAIN steps # {}
    BY <1>1
  <1>4. Len(steps) \in DOMAIN steps
    BY <1>2, <1>3
  <1>5. \A i \in DOMAIN steps : steps[i] \in [form : Forms, target : SUBSET task.required]
    <2> DEFINE All == [form : Forms, target : SUBSET task.required]
    <2>1. steps \in Seq(All)
      BY <1>1
    <2> HIDE DEF All
    <2>2. \A i \in DOMAIN steps : steps[i] \in All
      BY <2>1
    <2> QED
      BY <2>2 DEF All
  <1>6. CASE open = {}
    <2>1. step_for(task, level, verified) = steps[Len(steps)]
      BY <1>6 DEF step_for, steps
    <2>2. task.required \subseteq verified
      BY <1>1, <1>6
    <2> QED
      BY <1>1, <1>4, <1>5, <2>1, <2>2 DEF complete
  <1>7. CASE open # {}
    <2> DEFINE least == CHOOSE i \in open : \A j \in open : i <= j
    <2>1. step_for(task, level, verified) = steps[least]
      BY <1>7 DEF step_for, steps
    <2>5. open \in SUBSET Nat
      BY <1>2
    <2> HIDE DEF open
    <2>2. \E i \in open : \A j \in open : i <= j
      BY <1>7, <2>5, FirstOfNat
    <2>3. least \in open
      BY <2>2
    <2>4. least \in DOMAIN steps /\ ~ steps[least].target \subseteq verified
      BY <2>3 DEF open
    <2> HIDE DEF least
    <2> QED
      BY <1>1, <1>5, <2>1, <2>4
  <1> QED
    BY <1>6, <1>7

\* The same for the question of a session, opening guess and follow-up included.
LEMMA ActiveStepIsOpen ==
    ASSUME NEW task, Fits(task), NEW level \in Levels, NEW verified, NEW phase,
           phase = "entry" => level = "L4"
    PROVE  LET step == active_step(task, level, verified, phase)
           IN  /\ step \in [form : Forms, target : SUBSET task.required]
               /\ step.form = "joint" <=> level = "L0"
               /\ ~ complete(task, verified) => ~ step.target \subseteq verified
  <1>1. CASE task.entry /\ phase = "entry"
    <2>1. active_step(task, level, verified, phase) = [form |-> "entry", target |-> task.required]
      BY <1>1 DEF active_step, EntryStep, Step
    <2> QED
      BY <1>1, <2>1 DEF complete, Forms
  <1>2. CASE ~ (task.entry /\ phase = "entry") /\ phase = "targeted" /\ level = "L4"
    <2>1. active_step(task, level, verified, phase) = step_for(task, "L3", verified)
      BY <1>2 DEF active_step
    <2>2. "L3" \in Levels
      BY DEF Levels
    <2> QED
      BY <1>2, <2>1, <2>2, StepIsOpen
  <1>3. CASE ~ (task.entry /\ phase = "entry") /\ ~ (phase = "targeted" /\ level = "L4")
    <2>1. active_step(task, level, verified, phase) = step_for(task, level, verified)
      BY <1>3 DEF active_step
    <2> QED
      BY <2>1, StepIsOpen
  <1> QED
    BY <1>1, <1>2, <1>3

LEMMA TasksFit ==
    ASSUME tasks \in Lessons
    PROVE  /\ Len(tasks) \in Nat /\ Len(tasks) > 0 /\ DOMAIN tasks = 1 .. Len(tasks)
           /\ \A i \in DOMAIN tasks : Fits(tasks[i]) /\ tasks[i].required \subseteq Slots
  <1>1. tasks \in ScenarioTasks
    BY ContentAssumption
  <1> QED
    BY <1>1, CatalogueFits DEF Slots

\* What a question of the same task leaves of the record.
Keeps(s, x) ==
    /\ x \in Session
    /\ x.index = s.index /\ x.starts = s.starts /\ x.verified = s.verified
    /\ x.evidence = s.evidence /\ x.supported = s.supported /\ x.joint = s.joint
    /\ x.direct = s.direct /\ x.done = s.done /\ x.status = s.status
    /\ x.outcome = s.outcome /\ x.reward = s.reward

\* normalize_terminal_support, then the question (_decision_for_current_step).
Asked(x) == LET next == normalize_terminal_support(x) IN [next EXCEPT !.step = StepOf(next)]

LEMMA AskedShape ==
    ASSUME tasks \in Lessons, NEW x \in Session, x.phase = "entry" => x.level = "L4" /\ x.hint # "H3",
           ~ complete(TaskOf(x), x.verified)
    PROVE  /\ Keeps(x, Asked(x)) /\ Live(Asked(x)) /\ Asked(x).phase = x.phase
           /\ Asked(x).level = IF x.level = "L0" \/ x.hint = "H3" THEN "L0" ELSE x.level
           /\ Asked(x).step.form = "joint" <=> Asked(x).level = "L0"
           /\ Asked(x).step = StepOf(normalize_terminal_support(x))
  <1> DEFINE next == normalize_terminal_support(x)
             step == StepOf(next)
             asked == [next EXCEPT !.step = step]
  <1>1. /\ Keeps(x, next) /\ next.phase = x.phase /\ (next.level = "L0" <=> next.hint = "H3")
        /\ next.level = IF x.level = "L0" \/ x.hint = "H3" THEN "L0" ELSE x.level
    <2>1. CASE x.level # "L0" /\ x.hint # "H3"
      <3>1. next = x
        BY <2>1 DEF normalize_terminal_support
      <3> QED
        BY <2>1, <3>1 DEF Keeps
    <2>2. CASE x.level = "L0" \/ x.hint = "H3"
      <3>1. next = [x EXCEPT !.level = "L0", !.hint = "H3", !.max = "H3"]
        BY <2>2 DEF normalize_terminal_support
      <3>2. "L0" \in Levels /\ "H3" \in HintNames
        BY DEF Levels, HintNames
      <3> HIDE DEF next
      <3>3. next \in Session
        BY <3>1, <3>2 DEF Session
      <3>4. /\ next.level = "L0" /\ next.hint = "H3" /\ next.phase = x.phase /\ next.index = x.index
            /\ next.starts = x.starts /\ next.verified = x.verified /\ next.evidence = x.evidence
            /\ next.supported = x.supported /\ next.joint = x.joint /\ next.direct = x.direct
            /\ next.done = x.done /\ next.status = x.status /\ next.outcome = x.outcome
            /\ next.reward = x.reward
        BY <3>1 DEF Session
      <3> QED
        BY <2>2, <3>3, <3>4 DEF Keeps
    <2> QED
      BY <2>1, <2>2
  <1> HIDE DEF next
  <1>2. next.phase = "entry" => next.level = "L4"
    BY <1>1
  <1>3. next \in Session /\ next.level \in Levels /\ next.index \in DOMAIN tasks
    BY <1>1 DEF Keeps, Session
  <1>4. /\ step \in [form : Forms, target : SUBSET TaskOf(next).required]
        /\ step.form = "joint" <=> next.level = "L0"
    BY <1>2, <1>3, TasksFit, ActiveStepIsOpen DEF StepOf, TaskOf
  <1>5. step \in [form : Forms, target : SUBSET Slots]
    BY <1>3, <1>4, TasksFit DEF TaskOf
  <1> HIDE DEF step
  <1>6. asked \in Session
    BY <1>3, <1>5 DEF Session
  <1>7. /\ asked.step = step /\ asked.level = next.level /\ asked.hint = next.hint
        /\ asked.phase = next.phase /\ asked.index = next.index
        /\ asked.starts = next.starts /\ asked.verified = next.verified /\ asked.evidence = next.evidence
        /\ asked.supported = next.supported /\ asked.joint = next.joint /\ asked.direct = next.direct
        /\ asked.done = next.done /\ asked.status = next.status /\ asked.outcome = next.outcome
        /\ asked.reward = next.reward
    BY <1>3 DEF Session
  <1>8. Asked(x) = asked
    BY DEF Asked, next, step
  <1> HIDE DEF asked
  <1>9. Keeps(x, asked)
    BY <1>1, <1>6, <1>7 DEF Keeps
  <1>10. StepOf(asked) = step /\ TaskOf(asked) = TaskOf(x)
    BY <1>1, <1>7 DEF StepOf, TaskOf, step, Keeps
  <1>11. Live(asked)
    BY <1>1, <1>2, <1>6, <1>7, <1>9, <1>10 DEF Live, Keeps
  <1>12. Asked(x).step = StepOf(normalize_terminal_support(x))
    BY <1>7, <1>8 DEF next, step
  <1> QED
    BY <1>1, <1>4, <1>7, <1>8, <1>9, <1>11, <1>12

-----------------------------------------------------------------------------
(* The branches of _decide that ask again. *)

EndActs == {"none", "session_complete", "task_transition"}

\* The decision asks the question of x; its reviewed sentence may leave it to the screen.
Question(x) == StepOf(normalize_terminal_support(x)).target
Asks(d, x) == d.session = Asked(x) /\ d.note = "none" /\ d.fallback \in {{}, Question(x)}

\* A decision that asks about the same task again and leaves the record alone.
Reasks(s, d) ==
    /\ \E x \in Session : /\ Keeps(s, x) /\ Asks(d, x)
                          /\ x.phase = "entry" => x.level = "L4" /\ x.hint # "H3"
    /\ d.act \notin EndActs
    /\ d.act \in LoweringActs /\ s.step.form # "joint" => d.session.step # s.step

LEMMA SupportTypes ==
    /\ \A l \in Levels : lower[l] \in Levels
    /\ \A h \in HintNames : increase(h) \in HintNames
    /\ \A g, h \in HintNames : max_hint(g, h) \in HintNames
  <1>1. \A l \in Levels : lower[l] \in Levels
    BY DEF lower, Levels
  <1>2. \A h \in HintNames : increase(h) \in HintNames
    BY DEF increase, HintNames, Hints, HintRank
  <1> QED
    BY <1>1, <1>2 DEF max_hint

\* Every branch changes the support and nothing else.
Support(s, p, v, l, h, m) == [s EXCEPT !.phase = p, !.vague = v, !.level = l, !.hint = h, !.max = m]

LEMMA SupportMoves ==
    ASSUME NEW s \in Session, NEW p \in Phases, NEW v \in {0, 1}, NEW l \in Levels,
           NEW h \in HintNames, NEW m \in HintNames
    PROVE  LET x == Support(s, p, v, l, h, m)
           IN  Keeps(s, x) /\ x.phase = p /\ x.level = l /\ x.hint = h
  <1> DEFINE x == Support(s, p, v, l, h, m)
  <1>1. x \in Session
    BY DEF Session, Support
  <1>2. /\ x.phase = p /\ x.level = l /\ x.hint = h /\ x.index = s.index
        /\ x.starts = s.starts /\ x.verified = s.verified /\ x.evidence = s.evidence
        /\ x.supported = s.supported /\ x.joint = s.joint /\ x.direct = s.direct
        /\ x.done = s.done /\ x.status = s.status /\ x.outcome = s.outcome
        /\ x.reward = s.reward
    BY DEF Session, Support
  <1> QED
    BY <1>1, <1>2 DEF Keeps

LEMMA Reasking ==
    ASSUME NEW s \in Session, NEW p \in Phases, NEW v \in {0, 1}, NEW l \in Levels,
           NEW h \in HintNames, NEW m \in HintNames, NEW d, NEW act,
           Asks(d, Support(s, p, v, l, h, m)), d.act = act,
           act \notin EndActs, act \notin LoweringActs,
           p = "entry" => l = "L4" /\ h # "H3"
    PROVE  Reasks(s, d)
  <1> DEFINE x == Support(s, p, v, l, h, m)
  <1>1. Keeps(s, x) /\ x.phase = p /\ x.level = l /\ x.hint = h
    BY SupportMoves
  <1> HIDE DEF x
  <1>2. x \in Session
    BY <1>1 DEF Keeps
  <1>3. Asks(d, x)
    BY DEF x
  <1> QED
    BY <1>1, <1>2, <1>3 DEF Reasks

\* The three kinds of reviewed sentence.
LEMMA AskIs ==
    ASSUME NEW x, NEW e, NEW act
    PROVE  LET d == Ask(x, e, act)
           IN  /\ Asks(d, x) /\ d.act = act
               /\ Asks(Reframed(d), x) /\ Reframed(d).act = act
               /\ Asks(SmoothLadder(d), x) /\ SmoothLadder(d).act = act
  <1> DEFINE d == Ask(x, e, act)
  <1>1. d = [act |-> act, session |-> Asked(x), note |-> "none", facts |-> {}, quote |-> e.quote,
             fallback |-> Question(x)]
    BY DEF Ask, Asked, Question
  <1> HIDE DEF d
  <1>2. Asks(d, x) /\ d.act = act
    BY <1>1 DEF Asks
  <1>3. Asks(Reframed(d), x) /\ Reframed(d).act = act
    BY <1>1 DEF Asks, Reframed
  <1>4. SmoothLadder(d) = d \/ SmoothLadder(d) = Reframed(d)
    BY DEF SmoothLadder
  <1> QED
    BY <1>2, <1>3, <1>4 DEF d

\* Block, Help and Concept lower the question or raise the help.
LEMMA BlockReasks ==
    ASSUME NEW s \in Session, NEW e
    PROVE  Reasks(s, Block(s, e))
  <1> DEFINE next == [Resolve(s) EXCEPT !.vague = 0, !.level = lower[@]]
             act == IF next.level = "L0" THEN "joint_mode" ELSE "reduce_expression_load"
  <1>1. "resolved" \in Phases /\ s.level \in Levels /\ s.hint \in HintNames /\ s.max \in HintNames
    BY DEF Phases, Session
  <1>2. next = Support(s, "resolved", 0, lower[s.level], s.hint, s.max)
    BY DEF Resolve, Support, Session
  <1>3. act \notin EndActs /\ act \notin LoweringActs
    BY DEF EndActs, LoweringActs
  <1>4. Block(s, e) = Ask(next, e, act) \/ Block(s, e) = SmoothLadder(Ask(next, e, act))
    BY DEF Block
  <1> HIDE DEF next, act
  <1>5. lower[s.level] \in Levels
    BY <1>1, SupportTypes
  <1>6. Asks(Block(s, e), Support(s, "resolved", 0, lower[s.level], s.hint, s.max)) /\ Block(s, e).act = act
    BY <1>2, <1>4, AskIs
  <1> QED
    BY <1>1, <1>3, <1>5, <1>6, Reasking

LEMMA HelpReasks ==
    ASSUME NEW s \in Session, NEW e
    PROVE  Reasks(s, Help(s, e))
  <1> DEFINE level == lower[s.level]
             hint == CASE s.hint \in {"H0", "H1"} /\ level # "L0" -> increase(s.hint)
                       [] level = "L0" -> "H3"
                       [] OTHER -> s.hint
             max == max_hint(s.max, hint)
             next == [Resolve(s) EXCEPT !.vague = 0, !.level = level, !.hint = hint,
                                        !.max = max_hint(@, hint)]
             act == IF level = "L0" THEN "joint_mode" ELSE "accept_help_request"
  <1>1. "resolved" \in Phases /\ s.level \in Levels /\ s.hint \in HintNames /\ s.max \in HintNames
    BY DEF Phases, Session
  <1>2. level \in Levels
    BY <1>1, SupportTypes
  <1>3. hint \in HintNames
    <2>1. "H3" \in HintNames /\ increase(s.hint) \in HintNames
      BY <1>1, SupportTypes DEF HintNames
    <2> HIDE DEF level
    <2> QED
      BY <1>1, <2>1
  <1>4. act \notin EndActs /\ act \notin LoweringActs
    BY DEF EndActs, LoweringActs
  <1>5. Help(s, e) = Ask(next, e, act) \/ Help(s, e) = Reframed(Ask(next, e, act))
    BY DEF Help
  <1> HIDE DEF level, hint, act
  <1>6. max \in HintNames
    BY <1>1, <1>3, SupportTypes
  <1>7. next = Support(s, "resolved", 0, level, hint, max)
    BY DEF Resolve, Support, Session
  <1> HIDE DEF max, next
  <1>8. Asks(Help(s, e), Support(s, "resolved", 0, level, hint, max)) /\ Help(s, e).act = act
    BY <1>5, <1>7, AskIs
  <1> QED
    BY <1>1, <1>2, <1>3, <1>4, <1>6, <1>8, Reasking

LEMMA ConceptReasks ==
    ASSUME NEW s \in Session, NEW e
    PROVE  Reasks(s, Concept(s, e))
  <1> DEFINE hint == IF s.hint \in {"H0", "H1"} THEN increase(s.hint) ELSE "H3"
             max == max_hint(s.max, hint)
             next == [Resolve(s) EXCEPT !.vague = 0, !.hint = hint, !.max = max_hint(@, hint)]
             level == IF hint = "H3" THEN "L0" ELSE s.level
             act == IF hint = "H3" THEN "joint_mode" ELSE "show_help_card"
             asked == IF hint = "H3" THEN [next EXCEPT !.level = "L0"] ELSE next
  <1>1. "resolved" \in Phases /\ s.level \in Levels /\ s.hint \in HintNames /\ s.max \in HintNames
    BY DEF Phases, Session
  <1>2. hint \in HintNames
    <2>1. "H3" \in HintNames /\ increase(s.hint) \in HintNames
      BY <1>1, SupportTypes DEF HintNames
    <2> QED
      BY <1>1, <2>1
  <1>3. level \in Levels
    BY <1>1 DEF Levels
  <1>4. act \notin EndActs /\ act \notin LoweringActs
    BY DEF EndActs, LoweringActs
  <1>5. Concept(s, e) = Ask(asked, e, act) \/ Concept(s, e) = Reframed(Ask(asked, e, act))
    BY DEF Concept
  <1>6. max \in HintNames
    BY <1>1, <1>2, SupportTypes
  <1> HIDE DEF hint
  <1>7. asked = Support(s, "resolved", 0, level, hint, max)
    BY DEF Resolve, Support, Session
  <1> HIDE DEF max, asked, level, act
  <1>8. Asks(Concept(s, e), Support(s, "resolved", 0, level, hint, max)) /\ Concept(s, e).act = act
    BY <1>5, <1>7, AskIs
  <1> QED
    BY <1>1, <1>2, <1>3, <1>4, <1>6, <1>8, Reasking

\* The loop of _lower_until_visible_contract_changes ends, below where it began.
LEMMA LoweringIsVisible ==
    ASSUME NEW s \in Session, NEW step
    PROVE  \E l \in Levels :
             /\ LowerVisibly(s, step) = [s EXCEPT !.level = l]
             /\ l = "L0" \/ step_for(TaskOf(s), l, s.verified) # step
             /\ s.level = "L0" => l = "L0"
  <1> DEFINE below == [n \in 0 .. 3 |-> CASE n = 0 -> s.level [] n = 1 -> lower[s.level]
                                          [] n = 2 -> lower[lower[s.level]] [] OTHER -> "L0"]
             new(l) == l = "L0" \/ step_for(TaskOf(s), l, s.verified) # step
             First(n) == new(below[n]) /\ \A m \in 1 .. 3 : m < n => ~ new(below[m])
             found == CHOOSE n \in 1 .. 3 : First(n)
             good == {n \in 1 .. 3 : new(below[n])}
  <1>1. s.level \in Levels /\ "L0" \in Levels
    BY DEF Session, Levels
  <1>2. lower[s.level] \in Levels /\ lower[lower[s.level]] \in Levels
    BY <1>1, SupportTypes
  <1>3. /\ below[1] = lower[s.level] /\ below[2] = lower[lower[s.level]] /\ below[3] = "L0"
    OBVIOUS
  <1>4. s.level = "L0" => lower[s.level] = "L0" /\ lower[lower[s.level]] = "L0"
    BY <1>1 DEF lower
  <1> HIDE DEF below
  <1>5. \A n \in 1 .. 3 : below[n] \in Levels /\ (s.level = "L0" => below[n] = "L0")
    <2>1. \A n \in 1 .. 3 : n = 1 \/ n = 2 \/ n = 3
      OBVIOUS
    <2> QED
      BY <1>1, <1>2, <1>3, <1>4, <2>1
  <1>6. 3 \in good
    BY <1>3
  <1>7. good \in SUBSET Nat
    OBVIOUS
  <1>8. \E m \in good : \A k \in good : m <= k
    <2> HIDE DEF good
    <2> QED
      BY <1>6, <1>7, FirstOfNat
  <1>9. \E n \in 1 .. 3 : First(n)
    <2>1. PICK m \in good : \A k \in good : m <= k
      BY <1>8
    <2>2. m \in 1 .. 3 /\ new(below[m])
      BY <2>1
    <2>3. ASSUME NEW k \in 1 .. 3, k < m PROVE ~ new(below[k])
      <3>1. k \notin good
        <4>1. m \in Nat /\ k \in Nat
          BY <2>1
        <4> HIDE DEF good
        <4> QED
          BY <2>1, <2>3, <4>1
      <3> QED
        BY <3>1
    <2> HIDE DEF new
    <2> QED
      BY <2>2, <2>3
  <1>10. found \in 1 .. 3 /\ First(found)
    <2> HIDE DEF First
    <2> QED
      BY <1>9
  <1>11. LowerVisibly(s, step) = [s EXCEPT !.level = below[found]]
    BY DEF LowerVisibly, below
  <1>12. new(below[found])
    BY <1>10
  <1> HIDE DEF found
  <1> QED
    BY <1>5, <1>10, <1>11, <1>12

\* A lowered question is another one (the step of the new level, resolved).
LEMMA LoweredReasks ==
    ASSUME tasks \in Lessons, NEW s \in Session, Live(s), NEW v \in {0, 1}, NEW l \in Levels, NEW h \in HintNames,
           NEW m \in HintNames, NEW d, NEW act, act \notin EndActs,
           Asks(d, Support(s, "resolved", v, l, h, m)), d.act = act,
           l = "L0" \/ step_for(TaskOf(s), l, s.verified) # StepOf(s), l # "L0" => h # "H3"
    PROVE  Reasks(s, d)
  <1> DEFINE x == Support(s, "resolved", v, l, h, m)
  <1>1. "resolved" \in Phases
    BY DEF Phases
  <1>2. Keeps(s, x) /\ x.phase = "resolved" /\ x.level = l /\ x.hint = h
    BY <1>1, SupportMoves
  <1> HIDE DEF x
  <1>3. x \in Session /\ TaskOf(x) = TaskOf(s) /\ x.verified = s.verified
    BY <1>2 DEF Keeps, TaskOf
  <1>4. ~ complete(TaskOf(x), x.verified)
    BY <1>3 DEF Live
  <1>5. /\ Keeps(x, Asked(x)) /\ Live(Asked(x)) /\ Asked(x).phase = x.phase
        /\ Asked(x).level = IF x.level = "L0" \/ x.hint = "H3" THEN "L0" ELSE x.level
        /\ Asked(x).step.form = "joint" <=> Asked(x).level = "L0"
    BY <1>2, <1>3, <1>4, AskedShape
  <1>6. s.step = StepOf(s)
    BY DEF Live
  <1>7. ASSUME s.step.form # "joint" PROVE Asked(x).step # s.step
    <2>1. CASE l = "L0"
      BY <1>2, <1>5, <1>7, <2>1
    <2>2. CASE l # "L0"
      <3>1. Asked(x).level = l
        BY <1>2, <1>5, <2>2
      <3>2. Asked(x).step = StepOf(Asked(x))
        BY <1>5 DEF Live
      <3>3. TaskOf(Asked(x)) = TaskOf(s) /\ Asked(x).verified = s.verified /\ Asked(x).phase = "resolved"
        BY <1>2, <1>3, <1>5 DEF Keeps, TaskOf
      <3>4. StepOf(Asked(x)) = active_step(TaskOf(s), l, s.verified, "resolved")
        BY <3>1, <3>3 DEF StepOf
      <3>5. active_step(TaskOf(s), l, s.verified, "resolved") = step_for(TaskOf(s), l, s.verified)
        BY DEF active_step
      <3> QED
        BY <1>6, <2>2, <3>2, <3>4, <3>5
    <2> QED
      BY <2>1, <2>2
  <1>8. Asks(d, x) /\ d.session = Asked(x)
    BY DEF x, Asks
  <1> QED
    BY <1>2, <1>3, <1>7, <1>8 DEF Reasks

LEMMA Resolving ==
    ASSUME NEW s \in Session
    PROVE  /\ Resolve(s) \in Session /\ TaskOf(Resolve(s)) = TaskOf(s)
           /\ Resolve(s).verified = s.verified /\ Resolve(s).level = s.level
  <1>1. "resolved" \in Phases
    BY DEF Phases
  <1>2. Resolve(s) \in Session
    BY <1>1 DEF Resolve, Session
  <1>3. /\ Resolve(s).index = s.index /\ Resolve(s).verified = s.verified /\ Resolve(s).level = s.level
    BY DEF Resolve, Session
  <1> QED
    BY <1>2, <1>3 DEF TaskOf

LEMMA UnstructuredReasks ==
    ASSUME tasks \in Lessons, NEW s \in Session, Live(s), NEW e
    PROVE  Reasks(s, Unstructured(s, e))
  <1> DEFINE next == LowerVisibly(Resolve(s), StepOf(s))
             act == IF next.level = "L0" THEN "joint_mode" ELSE "acknowledge_unstructured_partial"
             d == Unstructured(s, e)
  <1>1. PICK l \in Levels : /\ next = [Resolve(s) EXCEPT !.level = l]
                            /\ l = "L0" \/ step_for(TaskOf(s), l, s.verified) # StepOf(s)
                            /\ s.level = "L0" => l = "L0"
    BY Resolving, LoweringIsVisible
  <1>2. Asks(d, next) /\ d.act = act
    <2> DEFINE y == SmoothLadder(Ask(next, e, act))
    <2>1. d = [y EXCEPT !.facts = e.understood]
      BY DEF Unstructured
    <2> HIDE DEF next, act, d
    <2>2. Asks(y, next) /\ y.act = act
      BY AskIs
    <2>3. \E f : y = [act |-> act, session |-> Asked(next), note |-> "none", facts |-> {},
                     quote |-> e.quote, fallback |-> f]
      BY DEF SmoothLadder, Reframed, Ask, Asked
    <2> HIDE DEF y
    <2>4. d.session = y.session /\ d.note = y.note /\ d.act = y.act /\ d.fallback = y.fallback
      BY <2>1, <2>3
    <2> QED
      BY <2>2, <2>4 DEF Asks
  <1>3. act \notin EndActs
    BY DEF EndActs
  <1> HIDE DEF next, act, d
  <1>4. next = Support(s, "resolved", s.vague, l, s.hint, s.max)
    BY <1>1 DEF Resolve, Support, Session
  <1>5. s.vague \in {0, 1} /\ s.hint \in HintNames /\ s.max \in HintNames
    BY DEF Session
  <1>6. l # "L0" => s.hint # "H3"
    BY <1>1 DEF Live
  <1>7. Asks(d, Support(s, "resolved", s.vague, l, s.hint, s.max))
    BY <1>2, <1>4
  <1>8. Reasks(s, d)
    BY <1>1, <1>2, <1>3, <1>5, <1>6, <1>7, LoweredReasks
  <1> QED
    BY <1>8 DEF d

LEMMA VagueReasks ==
    ASSUME tasks \in Lessons, NEW s \in Session, Live(s), NEW e
    PROVE  Reasks(s, Vague(s, e))
  <1> DEFINE low == LowerVisibly(Resolve(s), StepOf(s))
             lowered == [low EXCEPT !.vague = 0]
             hint == CASE lowered.level = "L0" -> "H3"
                       [] lowered.level # "L0" /\ s.hint = "H0" -> "H1"
                       [] OTHER -> s.hint
             max == max_hint(s.max, hint)
             next == [lowered EXCEPT !.hint = hint, !.max = max_hint(@, hint)]
  <1>1. s.level \in Levels /\ s.hint \in HintNames /\ s.max \in HintNames /\ "resolved" \in Phases
    BY DEF Session, Phases
  <1>2. CASE s.vague = 0
    <2> DEFINE x == [Resolve(s) EXCEPT !.vague = 1]
               d == Reframed(Ask(x, e, "clarify_vague_response"))
    <2>1. Vague(s, e) = d
      BY <1>2 DEF Vague
    <2>2. x = Support(s, "resolved", 1, s.level, s.hint, s.max)
      BY DEF Resolve, Support, Session
    <2>3. "clarify_vague_response" \notin EndActs /\ "clarify_vague_response" \notin LoweringActs
      BY DEF EndActs, LoweringActs
    <2> HIDE DEF x
    <2>4. Asks(d, Support(s, "resolved", 1, s.level, s.hint, s.max)) /\ d.act = "clarify_vague_response"
      BY <2>2, AskIs
    <2> HIDE DEF d
    <2> QED
      BY <1>1, <2>1, <2>3, <2>4, Reasking
  <1>3. CASE s.vague # 0
    <2> DEFINE d == Reframed(Ask(next, e, "support_vague_response"))
    <2>1. PICK l \in Levels : /\ low = [Resolve(s) EXCEPT !.level = l]
                              /\ l = "L0" \/ step_for(TaskOf(s), l, s.verified) # StepOf(s)
                              /\ s.level = "L0" => l = "L0"
      BY Resolving, LoweringIsVisible
    <2>2. Vague(s, e) = d
      BY <1>3 DEF Vague
    <2>3. Asks(d, next) /\ d.act = "support_vague_response"
      BY AskIs
    <2> HIDE DEF d, low
    <2>4. lowered = [s EXCEPT !.phase = "resolved", !.level = l, !.vague = 0] /\ lowered.level = l
      BY <2>1 DEF Resolve, Session
    <2>5. hint \in HintNames /\ (l # "L0" => hint # "H3")
      <3>1. l # "L0" => s.hint # "H3"
        BY <2>1 DEF Live
      <3> HIDE DEF lowered
      <3> QED
        BY <1>1, <2>4, <3>1 DEF HintNames
    <2> HIDE DEF lowered, hint
    <2>6. max \in HintNames
      BY <1>1, <2>5, SupportTypes
    <2>7. next = Support(s, "resolved", 0, l, hint, max)
      BY <2>4 DEF Support, Session
    <2> HIDE DEF next, max
    <2>8. Asks(d, Support(s, "resolved", 0, l, hint, max))
      BY <2>3, <2>7
    <2>9. "support_vague_response" \notin EndActs
      BY DEF EndActs
    <2>10. Reasks(s, d)
      BY <2>1, <2>3, <2>5, <2>6, <2>8, <2>9, LoweredReasks
    <2> QED
      BY <2>2, <2>10
  <1> QED
    BY <1>2, <1>3

\* Small talk, redirections and a refused menu ask the same question.
LEMMA SameReasks ==
    ASSUME NEW s \in Session, Live(s), NEW e, NEW act, act \notin EndActs, act \notin LoweringActs
    PROVE  Reasks(s, Ask(s, e, act)) /\ Reasks(s, Reframed(Ask(s, e, act)))
  <1>1. Keeps(s, s) /\ (s.phase = "entry" => s.level = "L4" /\ s.hint # "H3")
    BY DEF Keeps, Live
  <1> QED
    BY <1>1, AskIs DEF Reasks

\* A question about the same task keeps a sound record sound.
LEMMA AskSound ==
    ASSUME tasks \in Lessons, NEW x \in Session, Active(x), ~ complete(TaskOf(x), x.verified),
           x.phase = "entry" => x.level = "L4" /\ x.hint # "H3",
           NEW T, NEW R, NEW J, Accounts(x, T, R, J)
    PROVE  /\ Sound(Asked(x), T, R, J) /\ Active(Asked(x)) /\ Asked(x).index = x.index
           /\ Asked(x).step.target = Question(x)
  <1>1. Keeps(x, Asked(x)) /\ Live(Asked(x)) /\ Asked(x).step = StepOf(normalize_terminal_support(x))
    BY AskedShape
  <1> DEFINE y == Asked(x)
  <1> HIDE DEF y
  <1>2. /\ y \in Session /\ y.index = x.index /\ y.evidence = x.evidence /\ y.supported = x.supported
        /\ y.joint = x.joint /\ y.direct = x.direct /\ y.done = x.done /\ y.status = x.status
    BY <1>1 DEF Keeps, y
  <1>3. Active(y)
    BY <1>2 DEF Active
  <1>4. Accounts(y, T, R, J)
    BY <1>2, <1>3 DEF Accounts
  <1>5. Live(y)
    BY <1>1 DEF y
  <1>6. Sound(y, T, R, J)
    BY <1>2, <1>3, <1>4, <1>5 DEF Sound
  <1> QED
    BY <1>1, <1>2, <1>3, <1>6 DEF y, Question

LEMMA ReaskSound ==
    ASSUME tasks \in Lessons, NEW s \in Session, Live(s), Active(s), NEW d, Reasks(s, d),
           NEW T, NEW R, NEW J, Accounts(s, T, R, J)
    PROVE  Sound(d.session, T, R, J) /\ Active(d.session) /\ Offers(d)
  <1>1. PICK x \in Session : /\ Keeps(s, x) /\ Asks(d, x)
                             /\ x.phase = "entry" => x.level = "L4" /\ x.hint # "H3"
    BY DEF Reasks
  <1>2. /\ x.index = s.index /\ x.evidence = s.evidence /\ x.supported = s.supported
        /\ x.joint = s.joint /\ x.direct = s.direct /\ x.done = s.done /\ x.status = s.status
        /\ x.verified = s.verified
    BY <1>1 DEF Keeps
  <1>3. Active(x) /\ TaskOf(x) = TaskOf(s)
    BY <1>2 DEF Active, TaskOf
  <1>4. Accounts(x, T, R, J)
    BY <1>2, <1>3 DEF Accounts
  <1>5. ~ complete(TaskOf(x), x.verified)
    BY <1>2, <1>3 DEF Live
  <1>6. Sound(Asked(x), T, R, J) /\ Active(Asked(x)) /\ Asked(x).step.target = Question(x)
    BY <1>1, <1>3, <1>4, <1>5, AskSound
  <1>7. d.session = Asked(x) /\ d.fallback \in {{}, Question(x)}
    BY <1>1 DEF Asks
  <1> QED
    BY <1>6, <1>7 DEF Offers

-----------------------------------------------------------------------------
(* New slots, and the end of a task. *)

\* What the note of the task rests on (_note_from_provenance).
LEMMA NoteRests ==
    ASSUME NEW x, NEW T, NEW R, NEW J, Accounts(x, T, R, J), NEW note,
           note = note_from_provenance(x, TaskOf(x))
    PROVE  /\ note = "child" => TaskOf(x).note \subseteq T[x.index]
           /\ note = "coauthored" => TaskOf(x).note \subseteq T[x.index] \cup R[x.index]
           /\ TaskOf(x).note = {} \/ note = "child" => TaskOf(x).note \subseteq T[x.index]
  <1> DEFINE task == TaskOf(x)
  <1>1. x.evidence \subseteq T[x.index] /\ x.supported \subseteq R[x.index]
    BY DEF Accounts
  <1>2. /\ note = "child" => task.note # {} /\ task.note \subseteq x.evidence
        /\ note = "coauthored" => task.note \subseteq x.evidence \cup x.supported
    <2> HIDE DEF task
    <2>1. note = note_from_provenance(x, task)
      BY DEF task
    <2>2. CASE task.note = {}
      BY <2>1, <2>2 DEF note_from_provenance
    <2>3. CASE task.note # {} /\ task.note \subseteq x.evidence
      BY <2>1, <2>3 DEF note_from_provenance
    <2>4. CASE task.note # {} /\ ~ task.note \subseteq x.evidence
      BY <2>1, <2>4 DEF note_from_provenance
    <2> QED
      BY <2>2, <2>3, <2>4
  <1> HIDE DEF task
  <1>3. /\ note = "child" => task.note \subseteq T[x.index]
        /\ note = "coauthored" => task.note \subseteq T[x.index] \cup R[x.index]
        /\ task.note = {} \/ note = "child" => task.note \subseteq T[x.index]
    BY <1>1, <1>2
  <1> QED
    BY <1>3 DEF task

\* The next task starts with an empty record of its own.
LEMMA NextTaskSound ==
    ASSUME tasks \in Lessons, NEW x \in Session, Active(x), x.index # Len(tasks),
           NEW T, NEW R, NEW J,
           Len(x.done) = x.index, x.joint <=> J # {},
           \A i \in DOMAIN x.done : /\ tasks[i].required \subseteq x.done[i]
                                    /\ x.direct => tasks[i].note \subseteq T[i]
    PROVE  /\ Sound(OpenNextTask(x), T, R, J) /\ Active(OpenNextTask(x))
           /\ OpenNextTask(x).index = x.index + 1
  <1> DEFINE level == x.starts[x.index + 1]
             phase == IF x.policy = 2 /\ tasks[x.index + 1].entry /\ level = "L4" THEN "entry" ELSE "resolved"
             fresh == [x EXCEPT !.index = @ + 1, !.level = level, !.hint = "H0", !.max = "H0",
                                !.verified = {}, !.vague = 0, !.evidence = {}, !.supported = {},
                                !.phase = phase]
  <1>1. OpenNextTask(x) = Asked(fresh)
    BY DEF OpenNextTask, Asked
  <1>2. /\ x.index \in Nat /\ x.index + 1 \in DOMAIN tasks /\ x.starts \in [DOMAIN tasks -> Levels]
    <2>1. x.index \in DOMAIN tasks /\ x.starts \in [DOMAIN tasks -> Levels]
      BY DEF Session
    <2> QED
      BY <2>1, TasksFit
  <1>3. level \in Levels
    BY <1>2
  <1>4. phase \in Phases /\ (phase = "entry" => level = "L4")
    BY DEF Phases
  <1> HIDE DEF level, phase
  <1>5. "H0" \in HintNames /\ {} \in SUBSET Slots /\ 0 \in {0, 1}
    BY DEF HintNames
  <1>6. fresh \in Session
    BY <1>2, <1>3, <1>4, <1>5 DEF Session
  <1>7. /\ fresh.index = x.index + 1 /\ fresh.level = level /\ fresh.hint = "H0" /\ fresh.verified = {}
        /\ fresh.evidence = {} /\ fresh.supported = {} /\ fresh.phase = phase /\ fresh.joint = x.joint
        /\ fresh.direct = x.direct /\ fresh.done = x.done /\ fresh.status = x.status
    BY DEF Session
  <1> HIDE DEF fresh
  <1>8. Active(fresh)
    BY <1>7 DEF Active
  <1>9. Accounts(fresh, T, R, J)
    <2>1. Len(fresh.done) = fresh.index - 1
      BY <1>2, <1>7
    <2>2. fresh.joint <=> J # {}
      BY <1>7
    <2>3. \A i \in DOMAIN fresh.done : /\ tasks[i].required \subseteq fresh.done[i]
                                       /\ fresh.direct => tasks[i].note \subseteq T[i]
      BY <1>7
    <2>4. fresh.evidence \subseteq T[fresh.index] /\ fresh.supported \subseteq R[fresh.index]
      BY <1>7
    <2> QED
      BY <1>8, <2>1, <2>2, <2>3, <2>4 DEF Accounts
  <1>10. ~ complete(TaskOf(fresh), fresh.verified)
    <2>1. Fits(tasks[x.index + 1])
      BY <1>2, TasksFit
    <2> QED
      BY <1>7, <2>1 DEF Fits, complete, TaskOf
  <1>11. fresh.phase = "entry" => fresh.level = "L4" /\ fresh.hint # "H3"
    BY <1>4, <1>7
  <1>12. Sound(Asked(fresh), T, R, J) /\ Active(Asked(fresh)) /\ Asked(fresh).index = fresh.index
    BY <1>6, <1>8, <1>9, <1>10, <1>11, AskSound
  <1> QED
    BY <1>1, <1>7, <1>12

\* A finished task closes its record; the session ends or goes on (_complete_task).
LEMMA CompletionSound ==
    ASSUME tasks \in Lessons, NEW x \in Session, Active(x), complete(TaskOf(x), x.verified),
           x.step.target \subseteq TaskOf(x).required, NEW e,
           NEW T, NEW R, NEW J, Accounts(x, T, R, J), NEW K,
           K = IF x.level = "L0" \/ x.max = "H3" THEN J \cup {x.index} ELSE J
    PROVE  LET d == complete_task(x, e)
           IN  /\ Sound(d.session, T, R, K) /\ NoteFits(d.note, Last(d.session), T, R)
               /\ d.act \in {"session_complete", "task_transition"} /\ Offers(d)
  <1> DEFINE task == TaskOf(x)
             note == note_from_provenance(x, task)
             taught == x.direct /\ (task.note = {} \/ note = "child")
             kept == [x EXCEPT !.done = Append(@, x.verified), !.joint = JointUsed(x),
                               !.direct = @ /\ (task.note = {} \/ note = "child")]
             ended == [kept EXCEPT !.status = "completed", !.reward = ~ kept.joint,
                                   !.outcome = IF kept.direct THEN "taught" ELSE "supported"]
             d == complete_task(x, e)
  <1>1. /\ d.note = note
        /\ d.session = IF x.index = Len(tasks) THEN ended ELSE OpenNextTask(kept)
        /\ d.act = IF x.index = Len(tasks) THEN "session_complete" ELSE "task_transition"
        /\ d.fallback = IF x.index = Len(tasks) THEN {} ELSE OpenNextTask(kept).step.target
    BY DEF complete_task
  <1>2. /\ note = "child" => task.note \subseteq T[x.index]
        /\ note = "coauthored" => task.note \subseteq T[x.index] \cup R[x.index]
        /\ task.note = {} \/ note = "child" => task.note \subseteq T[x.index]
    BY NoteRests
  <1>3. /\ x.index \in DOMAIN tasks /\ x.index \in Nat /\ x.done \in Seq(SUBSET Slots)
        /\ x.verified \in SUBSET Slots /\ x.direct \in BOOLEAN /\ x.joint \in BOOLEAN
    <2>1. /\ x.index \in DOMAIN tasks /\ x.done \in Seq(SUBSET Slots)
          /\ x.verified \in SUBSET Slots /\ x.direct \in BOOLEAN /\ x.joint \in BOOLEAN
      BY DEF Session
    <2> QED
      BY <2>1, TasksFit
  <1>4. /\ Len(x.done) = x.index - 1 /\ (x.joint <=> J # {})
        /\ \A i \in DOMAIN x.done : /\ tasks[i].required \subseteq x.done[i]
                                    /\ x.direct => tasks[i].note \subseteq T[i]
    BY DEF Accounts
  <1>5. JointUsed(x) \in BOOLEAN /\ (JointUsed(x) <=> K # {})
    BY <1>3, <1>4 DEF JointUsed
  <1> HIDE DEF d, note
  <1>6. taught \in BOOLEAN
    BY <1>3
  <1>7. kept \in Session
    <2>1. Append(x.done, x.verified) \in Seq(SUBSET Slots)
      BY <1>3
    <2> HIDE DEF task
    <2> QED
      BY <1>5, <1>6, <2>1 DEF Session
  <1>8. /\ kept.done = Append(x.done, x.verified) /\ kept.joint = JointUsed(x) /\ kept.direct = taught
        /\ kept.index = x.index /\ kept.status = x.status /\ kept.step = x.step
        /\ kept.verified = x.verified /\ kept.evidence = x.evidence /\ kept.supported = x.supported
    BY DEF Session
  <1>13. kept.direct => x.direct /\ (task.note = {} \/ note = "child")
    BY <1>8
  <1> HIDE DEF kept
  <1>9. Len(kept.done) = x.index /\ DOMAIN kept.done = 1 .. x.index
    BY <1>3, <1>4, <1>8
  <1>10. \A i \in DOMAIN kept.done : /\ tasks[i].required \subseteq kept.done[i]
                                     /\ kept.direct => tasks[i].note \subseteq T[i]
    <2> SUFFICES ASSUME NEW i \in DOMAIN kept.done
                 PROVE  /\ tasks[i].required \subseteq kept.done[i]
                        /\ kept.direct => tasks[i].note \subseteq T[i]
      OBVIOUS
    <2>1. CASE i = x.index
      <3>1. kept.done[i] = x.verified
        BY <1>3, <1>4, <1>8, <2>1
      <3>2. tasks[i].required \subseteq x.verified
        BY <2>1 DEF complete, TaskOf
      <3>3. tasks[i] = task
        BY <2>1 DEF TaskOf
      <3> QED
        BY <1>2, <1>13, <2>1, <3>1, <3>2, <3>3
    <2>2. CASE i # x.index
      <3>1. i \in DOMAIN x.done /\ kept.done[i] = x.done[i]
        BY <1>3, <1>4, <1>8, <1>9, <2>2
      <3> QED
        BY <1>4, <1>13, <3>1
    <2> QED
      BY <2>1, <2>2
  <1>11. CASE x.index = Len(tasks)
    <2>1. d.session = ended /\ d.act = "session_complete" /\ Offers(d)
      BY <1>1, <1>11 DEF Offers
    <2>2. kept.joint \in BOOLEAN /\ kept.direct \in BOOLEAN
      BY <1>5, <1>6, <1>8
    <2>3. ended \in Session
      BY <1>7, <2>2 DEF Session
    <2>4. /\ ended.status = "completed" /\ ended.reward = ~ kept.joint
          /\ ended.outcome = (IF kept.direct THEN "taught" ELSE "supported")
          /\ ended.index = x.index /\ ended.done = kept.done /\ ended.joint = kept.joint
          /\ ended.direct = kept.direct /\ ended.step = x.step /\ ended.verified = x.verified
          /\ ended.evidence = x.evidence /\ ended.supported = x.supported
      BY <1>7, <1>8 DEF Session
    <2> HIDE DEF ended
    <2>5. ~ Active(ended)
      BY <2>4 DEF Active
    <2>6. x.step.target \subseteq x.verified
      BY DEF complete
    <2>7. Earned(ended)
      BY <1>11, <2>2, <2>4, <2>6 DEF Earned
    <2>8. Accounts(ended, T, R, K)
      <3>1. x.evidence \subseteq T[x.index] /\ x.supported \subseteq R[x.index]
        BY DEF Accounts
      <3>2. Len(ended.done) = Len(tasks)
        BY <1>9, <1>11, <2>4
      <3> QED
        BY <1>5, <1>8, <1>10, <2>4, <2>5, <3>1, <3>2 DEF Accounts
    <2>9. Last(ended) = x.index
      BY <2>4, <2>5 DEF Last
    <2>10. NoteFits(d.note, x.index, T, R)
      BY <1>1, <1>2, <1>3 DEF NoteFits, TaskOf
    <2> QED
      BY <2>1, <2>3, <2>5, <2>7, <2>8, <2>9, <2>10 DEF Sound, d
  <1>12. CASE x.index # Len(tasks)
    <2>1. d.session = OpenNextTask(kept) /\ d.act = "task_transition"
          /\ d.fallback = OpenNextTask(kept).step.target
      BY <1>1, <1>12
    <2>2. Active(kept)
      BY <1>8 DEF Active
    <2>3. /\ Sound(OpenNextTask(kept), T, R, K) /\ Active(OpenNextTask(kept))
          /\ OpenNextTask(kept).index = kept.index + 1
      BY <1>5, <1>7, <1>8, <1>9, <1>10, <1>12, <2>2, NextTaskSound
    <2>4. Last(OpenNextTask(kept)) = x.index
      BY <1>3, <1>8, <2>3 DEF Last
    <2>5. NoteFits(d.note, x.index, T, R)
      BY <1>1, <1>2, <1>3 DEF NoteFits, TaskOf
    <2>6. Offers(d)
      BY <2>1, <2>3 DEF Offers
    <2> QED
      BY <2>1, <2>3, <2>4, <2>5, <2>6 DEF d
  <1> QED
    BY <1>11, <1>12

\* The slots of a response that were put into words the child agreed to have kept.
Kept(e) == {slot \in e.new : /\ storage /\ e.type = "text"
                             /\ e.claims[slot] \in {"quotable", "argued", "numeric"}}
Others(e) == IF storage /\ e.type = "text" THEN {} ELSE e.new

Learnt(s, e) == [record_note_provenance(s, TaskOf(s), e, e.new)
                 EXCEPT !.verified = @ \cup e.new, !.vague = 0, !.phase = "resolved"]

LEMMA LearntShape ==
    ASSUME tasks \in Lessons, NEW s \in Session, Active(s), NEW e, e.new \in SUBSET TaskOf(s).required,
           NEW T, NEW R, NEW J, Accounts(s, T, R, J), Kept(e) \subseteq T[s.index],
           Others(e) \subseteq R[s.index]
    PROVE  LET x == Learnt(s, e)
           IN  /\ x \in Session /\ Active(x) /\ Accounts(x, T, R, J)
               /\ x.index = s.index /\ x.level = s.level /\ x.hint = s.hint /\ x.max = s.max
               /\ x.step = s.step /\ x.phase = "resolved"
  <1> DEFINE said == {slot \in e.new \cap TaskOf(s).note : e.claims[slot] \in {"quotable", "argued", "numeric"}}
             reach == e.new \cap TaskOf(s).note
             text == e.type = "text" /\ storage
             evidence == IF text THEN s.evidence \cup said ELSE s.evidence
             supported == IF text THEN s.supported ELSE s.supported \cup reach
             y == record_note_provenance(s, TaskOf(s), e, e.new)
             x == Learnt(s, e)
  <1>1. e.new \in SUBSET Slots
    <2>1. s.index \in DOMAIN tasks
      BY DEF Session
    <2> QED
      BY <2>1, TasksFit DEF TaskOf
  <1>2. s.evidence \in SUBSET Slots /\ s.supported \in SUBSET Slots /\ s.verified \in SUBSET Slots
    BY DEF Session
  <1>3. evidence \in SUBSET Slots /\ supported \in SUBSET Slots
    BY <1>1, <1>2
  <1>4. y = [s EXCEPT !.evidence = evidence, !.supported = supported]
    <2>1. CASE text
      <3>1. y = [s EXCEPT !.evidence = @ \cup said]
        BY <2>1 DEF record_note_provenance
      <3> HIDE DEF y, said
      <3> QED
        BY <2>1, <3>1 DEF Session
    <2>2. CASE ~ text
      <3>1. y = [s EXCEPT !.supported = @ \cup reach]
        BY <2>2 DEF record_note_provenance
      <3> HIDE DEF y, said, reach
      <3> QED
        BY <2>2, <3>1 DEF Session
    <2> QED
      BY <2>1, <2>2
  <1>5. evidence \subseteq T[s.index] /\ supported \subseteq R[s.index]
    <2>1. s.evidence \subseteq T[s.index] /\ s.supported \subseteq R[s.index]
      BY DEF Accounts
    <2>2. text => said \subseteq Kept(e)
      BY DEF Kept
    <2>3. ~ text => reach \subseteq Others(e)
      BY DEF Others
    <2> HIDE DEF said, reach, text
    <2> QED
      BY <2>1, <2>2, <2>3 DEF text
  <1> HIDE DEF evidence, supported, y
  <1>6. x = [y EXCEPT !.verified = @ \cup e.new, !.vague = 0, !.phase = "resolved"]
    BY DEF Learnt, y
  <1>7. /\ y \in Session /\ y.verified = s.verified /\ y.evidence = evidence /\ y.supported = supported
        /\ y.index = s.index /\ y.level = s.level /\ y.hint = s.hint /\ y.max = s.max /\ y.step = s.step
        /\ y.status = s.status /\ y.done = s.done /\ y.joint = s.joint /\ y.direct = s.direct
    BY <1>3, <1>4 DEF Session
  <1>8. "resolved" \in Phases /\ y.verified \cup e.new \in SUBSET Slots
    BY <1>1, <1>2, <1>7 DEF Phases
  <1> HIDE DEF x
  <1>9. /\ x \in Session
        /\ x.evidence = evidence /\ x.supported = supported /\ x.phase = "resolved"
        /\ x.index = s.index /\ x.level = s.level /\ x.hint = s.hint /\ x.max = s.max /\ x.step = s.step
        /\ x.status = s.status /\ x.done = s.done /\ x.joint = s.joint /\ x.direct = s.direct
    BY <1>6, <1>7, <1>8 DEF Session
  <1>10. Active(x)
    BY <1>9 DEF Active
  <1>11. Accounts(x, T, R, J)
    BY <1>5, <1>9, <1>10 DEF Accounts
  <1> QED
    BY <1>9, <1>10, <1>11 DEF x

LEMMA QuestionFits ==
    ASSUME tasks \in Lessons, NEW s \in Session, Live(s)
    PROVE  s.step.target \subseteq TaskOf(s).required /\ (s.step.form = "joint" <=> s.level = "L0")
           /\ ~ s.step.target \subseteq s.verified
  <1>1. s.index \in DOMAIN tasks /\ s.level \in Levels
    BY DEF Session
  <1>2. Fits(TaskOf(s))
    BY <1>1, TasksFit DEF TaskOf
  <1>3. s.phase = "entry" => s.level = "L4"
    BY DEF Live
  <1>4. /\ StepOf(s) \in [form : Forms, target : SUBSET TaskOf(s).required]
        /\ StepOf(s).form = "joint" <=> s.level = "L0"
        /\ ~ complete(TaskOf(s), s.verified) => ~ StepOf(s).target \subseteq s.verified
    BY <1>1, <1>2, <1>3, ActiveStepIsOpen DEF StepOf
  <1> QED
    BY <1>4 DEF Live

\* New slots are noted as told or reached; then the task ends or goes on.
LEMMA ProgressReady ==
    ASSUME tasks \in Lessons, NEW s \in Session, Live(s), Active(s), NEW e, e.new \in SUBSET TaskOf(s).required,
           NEW T, NEW R, NEW J, Accounts(s, T, R, J), Kept(e) \subseteq T[s.index],
           Others(e) \subseteq R[s.index], NEW d, d = Progress(s, e), NEW K,
           K = IF d.act \in {"session_complete", "task_transition"} /\ (s.level = "L0" \/ s.max = "H3")
               THEN J \cup {s.index} ELSE J
    PROVE  Ready(s, d, T, R, K) /\ d.act # "none"
  <1> DEFINE x == Learnt(s, e)
             split == s.level = "L4" /\ step_for(TaskOf(s), "L4", x.verified) = s.step
             next == IF s.phase \in Awaiting \/ split THEN [x EXCEPT !.phase = "targeted"] ELSE x
  <1>1. /\ x \in Session /\ Active(x) /\ Accounts(x, T, R, J)
        /\ x.index = s.index /\ x.level = s.level /\ x.hint = s.hint /\ x.max = s.max
        /\ x.step = s.step /\ x.phase = "resolved"
    BY LearntShape
  <1>2. d = IF complete(TaskOf(s), x.verified) THEN complete_task(x, e)
            ELSE [Ask(next, e, "acknowledge_partial") EXCEPT !.facts = e.new]
    BY DEF Progress, Learnt
  <1> HIDE DEF x
  <1>3. TaskOf(x) = TaskOf(s)
    BY <1>1 DEF TaskOf
  <1>4. CASE complete(TaskOf(s), x.verified)
    <2>1. x.step.target \subseteq TaskOf(x).required
      BY <1>1, <1>3, QuestionFits
    <2> DEFINE M == IF x.level = "L0" \/ x.max = "H3" THEN J \cup {x.index} ELSE J
    <2>2. /\ Sound(d.session, T, R, M) /\ NoteFits(d.note, Last(d.session), T, R)
          /\ d.act \in {"session_complete", "task_transition"} /\ Offers(d)
      BY <1>1, <1>2, <1>3, <1>4, <2>1, CompletionSound
    <2>3. M = K
      BY <1>1, <2>2
    <2>4. d.act \notin LoweringActs /\ d.act # "none"
      BY <2>2 DEF LoweringActs
    <2> HIDE DEF M
    <2> QED
      BY <2>2, <2>3, <2>4 DEF Ready
  <1>5. CASE ~ complete(TaskOf(s), x.verified)
    <2>1. d = [Ask(next, e, "acknowledge_partial") EXCEPT !.facts = e.new]
      BY <1>2, <1>5
    <2>2. next \in Session /\ "targeted" \in Phases /\ next.phase \in {"targeted", "resolved"}
          /\ Keeps(x, next)
      <3>1. "targeted" \in Phases
        BY DEF Phases
      <3>2. [x EXCEPT !.phase = "targeted"] \in Session
        BY <1>1, <3>1 DEF Session
      <3>3. Keeps(x, [x EXCEPT !.phase = "targeted"]) /\ [x EXCEPT !.phase = "targeted"].phase = "targeted"
        BY <1>1, <3>2 DEF Keeps, Session
      <3>4. Keeps(x, x)
        BY <1>1 DEF Keeps
      <3> QED
        BY <1>1, <3>1, <3>2, <3>3, <3>4
    <2> HIDE DEF next
    <2>3. /\ d.session = Asked(next) /\ d.note = "none" /\ d.act = "acknowledge_partial"
          /\ d.fallback = Question(next)
      <3>1. Ask(next, e, "acknowledge_partial") =
              [act |-> "acknowledge_partial", session |-> Asked(next), note |-> "none", facts |-> {},
               quote |-> e.quote, fallback |-> Question(next)]
        BY DEF Ask, Asked, Question
      <3> QED
        BY <2>1, <3>1
    <2>4. /\ next.index = x.index /\ next.evidence = x.evidence /\ next.supported = x.supported
          /\ next.joint = x.joint /\ next.direct = x.direct /\ next.done = x.done
          /\ next.status = x.status /\ next.verified = x.verified
      BY <2>2 DEF Keeps
    <2>5. Active(next) /\ TaskOf(next) = TaskOf(x)
      BY <1>1, <2>4 DEF Active, TaskOf
    <2>6. Accounts(next, T, R, J)
      BY <1>1, <2>4, <2>5 DEF Accounts
    <2>7. ~ complete(TaskOf(next), next.verified)
      BY <1>3, <1>5, <2>4, <2>5
    <2>8. Sound(Asked(next), T, R, J) /\ Active(Asked(next)) /\ Asked(next).step.target = Question(next)
      BY <2>2, <2>5, <2>6, <2>7, AskSound
    <2>12. Offers(d)
      BY <2>3, <2>8 DEF Offers
    <2>9. K = J
      BY <2>3
    <2>10. NoteFits(d.note, Last(d.session), T, R)
      BY <2>3 DEF NoteFits
    <2>11. d.act \notin LoweringActs /\ d.act # "none"
      BY <2>3 DEF LoweringActs
    <2> QED
      BY <2>3, <2>8, <2>9, <2>10, <2>11, <2>12 DEF Ready
  <1> QED
    BY <1>4, <1>5

LEMMA ReaskReady ==
    ASSUME tasks \in Lessons, NEW s \in Session, Live(s), Active(s), NEW d, Reasks(s, d),
           NEW T, NEW R, NEW J, Accounts(s, T, R, J)
    PROVE  Ready(s, d, T, R, J) /\ d.act \notin EndActs
  <1>1. Sound(d.session, T, R, J) /\ Active(d.session) /\ Offers(d)
    BY ReaskSound
  <1>2. d.note = "none" /\ d.act \notin EndActs
        /\ (d.act \in LoweringActs /\ s.step.form # "joint" => d.session.step # s.step)
    BY DEF Reasks, Asks
  <1>3. NoteFits(d.note, Last(d.session), T, R)
    BY <1>2 DEF NoteFits
  <1> QED
    BY <1>1, <1>2, <1>3 DEF Ready

\* Without new slots every branch asks again.
LEMMA DecideReasks ==
    ASSUME tasks \in Lessons, NEW s \in Session, Live(s), NEW e, e.new = {}
    PROVE  Reasks(s, Decide(s, e))
  <1>1. CASE s.phase = "entry" /\ TaskOf(s).entry /\ e.stance = "reject"
    <2> DEFINE x == [s EXCEPT !.phase = "open"]
               d == Ask(x, e, "entry_rejection_followup")
    <2>1. Decide(s, e) = d
      BY <1>1 DEF Decide
    <2>2. /\ "open" \in Phases /\ s.vague \in {0, 1} /\ s.level \in Levels /\ s.hint \in HintNames
          /\ s.max \in HintNames
      BY DEF Phases, Session
    <2>3. x = Support(s, "open", s.vague, s.level, s.hint, s.max)
      BY DEF Support, Session
    <2> HIDE DEF x
    <2>4. /\ Asks(d, Support(s, "open", s.vague, s.level, s.hint, s.max))
          /\ d.act = "entry_rejection_followup"
      BY <2>3, AskIs
    <2>5. "entry_rejection_followup" \notin EndActs /\ "entry_rejection_followup" \notin LoweringActs
      BY DEF EndActs, LoweringActs
    <2> HIDE DEF d
    <2> QED
      BY <2>1, <2>2, <2>4, <2>5, Reasking
  <1>2. CASE ~ (s.phase = "entry" /\ TaskOf(s).entry /\ e.stance = "reject")
    <2>1. CASE e.category \in {"full", "partial"}
      BY <1>2, <2>1, UnstructuredReasks DEF Decide
    <2>2. CASE e.category = "vague"
      BY <1>2, <2>2, VagueReasks DEF Decide
    <2>3. CASE e.category = "block"
      BY <1>2, <2>3, BlockReasks DEF Decide
    <2>4. CASE e.category = "help"
      BY <1>2, <2>4, HelpReasks DEF Decide
    <2>5. CASE e.category \in {"concept", "concept_block"}
      BY <1>2, <2>5, ConceptReasks DEF Decide
    <2>6. CASE e.category \notin {"full", "partial", "vague", "block", "help", "concept", "concept_block"}
      <3> DEFINE act == IF e.category = "input" THEN "clarify_input" ELSE "context_return"
      <3>1. act \notin EndActs /\ act \notin LoweringActs
        BY DEF EndActs, LoweringActs
      <3>2. Decide(s, e) = IF e.concept THEN Concept(s, e) ELSE Ask(s, e, act)
        BY <1>2, <2>6 DEF Decide
      <3> HIDE DEF act
      <3>3. Reasks(s, Ask(s, e, act)) /\ Reasks(s, Concept(s, e))
        BY <3>1, SameReasks, ConceptReasks
      <3> QED
        BY <3>2, <3>3
    <2> QED
      BY <2>1, <2>2, <2>3, <2>4, <2>5, <2>6
  <1> QED
    BY <1>1, <1>2

LEMMA DecideReady ==
    ASSUME tasks \in Lessons, NEW s \in Session, Live(s), Active(s), NEW e, e.new \in SUBSET TaskOf(s).required,
           NEW T, NEW R, NEW J, Accounts(s, T, R, J), Kept(e) \subseteq T[s.index],
           Others(e) \subseteq R[s.index], NEW d, d = Decide(s, e), NEW K,
           K = IF d.act \in {"session_complete", "task_transition"} /\ (s.level = "L0" \/ s.max = "H3")
               THEN J \cup {s.index} ELSE J
    PROVE  Ready(s, d, T, R, K) /\ d.act # "none"
  <1>1. CASE e.new # {}
    <2>1. d = Progress(s, e)
      BY <1>1 DEF Decide
    <2> QED
      BY <2>1, ProgressReady
  <1>2. CASE e.new = {}
    <2>1. Ready(s, d, T, R, J) /\ d.act \notin EndActs
      BY <1>2, DecideReasks, ReaskReady
    <2>2. K = J /\ d.act # "none"
      BY <2>1 DEF EndActs
    <2> QED
      BY <2>1, <2>2
  <1> QED
    BY <1>1, <1>2

\* Only slots of the task are ever new (_progress_eligible_slots).
LEMMA NewIsRequired ==
    ASSUME tasks \in Lessons, NEW s \in Session, Live(s), NEW type, NEW a, NEW surviving, NEW grounded
    PROVE  Effect(s, type, a, surviving, grounded).new \in SUBSET TaskOf(s).required
  <1>1. s.step.target \subseteq TaskOf(s).required /\ s.step = StepOf(s)
    BY QuestionFits DEF Live
  <1>2. Eligible(s, type) \subseteq TaskOf(s).required
    BY <1>1 DEF Eligible
  <1>3. Effect(s, type, a, surviving, grounded).new = (grounded \cap Eligible(s, type)) \ s.verified
    BY DEF Effect
  <1> QED
    BY <1>2, <1>3

-----------------------------------------------------------------------------
(* The actions. *)

\* The scenario is fixed, so what is said of a session stays true.
LEMMA Frame ==
    ASSUME UNCHANGED tasks
    PROVE  /\ \A s : Active(s)' <=> Active(s)
           /\ \A s : Live(s)' <=> Live(s)
           /\ \A s : Last(s)' = Last(s)
           /\ \A s, T, R, J : Sound(s, T, R, J)' <=> Sound(s, T, R, J)
           /\ \A n, i, T, R : NoteFits(n, i, T, R)' <=> NoteFits(n, i, T, R)
           /\ \A s, d, T, R, J : Ready(s, d, T, R, J)' <=> Ready(s, d, T, R, J)
  <1>1. tasks' = tasks
    OBVIOUS
  <1>2. Session' = Session
    BY <1>1 DEF Session, Slots
  <1>3. \A s : (Active(s)' <=> Active(s)) /\ Last(s)' = Last(s)
    BY DEF Active, Last
  <1>4. \A s : TaskOf(s)' = TaskOf(s) /\ StepOf(s)' = StepOf(s)
    BY <1>1 DEF TaskOf, StepOf
  <1>5. \A s : Live(s)' <=> Live(s)
    BY <1>2, <1>4 DEF Live
  <1>6. \A s : Earned(s)' <=> Earned(s)
    BY <1>1 DEF Earned
  <1>7. \A s, T, R, J : Accounts(s, T, R, J)' <=> Accounts(s, T, R, J)
    BY <1>1, <1>3 DEF Accounts
  <1>8. \A s, T, R, J : Sound(s, T, R, J)' <=> Sound(s, T, R, J)
    BY <1>2, <1>3, <1>5, <1>6, <1>7 DEF Sound
  <1>9. \A n, i, T, R : NoteFits(n, i, T, R)' <=> NoteFits(n, i, T, R)
    BY <1>1 DEF NoteFits
  <1>10. \A s, d, T, R, J : Ready(s, d, T, R, J)' <=> Ready(s, d, T, R, J)
    BY <1>3, <1>8, <1>9 DEF Ready, Offers
  <1> QED
    BY <1>3, <1>5, <1>8, <1>9, <1>10

\* The histories grow, by what the response brought.
LEMMA HandGrows ==
    ASSUME LegacyInv, Active(session), decision = Undecided, NEW d, NEW e, Hand(d, e)
    PROVE  /\ tasks \in Lessons /\ session \in Session /\ Live(session)
           /\ Accounts(session, told', reached', jointly)
           /\ Kept(e) \subseteq told'[session.index] /\ Others(e) \subseteq reached'[session.index]
           /\ jointly' = IF /\ d.act \in {"session_complete", "task_transition"}
                            /\ session.level = "L0" \/ session.max = "H3"
                         THEN jointly \cup {session.index} ELSE jointly
           /\ DOMAIN told' = DOMAIN tasks /\ DOMAIN reached' = DOMAIN tasks
           /\ \A i \in DOMAIN tasks : told[i] \subseteq told'[i] /\ reached[i] \subseteq reached'[i]
  <1> DEFINE i == session.index
  <1>1. Sound(session, told, reached, jointly)
    BY DEF LegacyInv, Undecided
  <1>2. /\ tasks \in Lessons /\ session \in Session /\ Live(session)
        /\ Accounts(session, told, reached, jointly)
    BY <1>1 DEF Sound, LegacyInv
  <1>3. i \in DOMAIN tasks
    BY <1>2 DEF Session
  <1>4. told' = [told EXCEPT ![i] = @ \cup Kept(e)]
    BY DEF Hand, Kept
  <1>5. reached' = [reached EXCEPT ![i] = @ \cup Others(e)]
    BY DEF Hand, Others
  <1>6. DOMAIN told = DOMAIN tasks /\ DOMAIN reached = DOMAIN tasks
    BY DEF LegacyInv
  <1>7. /\ DOMAIN told' = DOMAIN tasks /\ DOMAIN reached' = DOMAIN tasks
        /\ \A k \in DOMAIN tasks : told[k] \subseteq told'[k] /\ reached[k] \subseteq reached'[k]
        /\ Kept(e) \subseteq told'[i] /\ Others(e) \subseteq reached'[i]
    BY <1>3, <1>4, <1>5, <1>6
  <1>8. DOMAIN session.done \subseteq DOMAIN tasks
    <2>1. Len(session.done) = session.index - 1 /\ session.done \in Seq(SUBSET Slots)
      BY <1>2 DEF Accounts, Session
    <2>2. DOMAIN session.done = 1 .. session.index - 1
      BY <2>1
    <2> QED
      BY <1>2, <1>3, <2>2, TasksFit
  <1>9. Accounts(session, told', reached', jointly)
    <2>1. /\ session.evidence \subseteq told[i] /\ session.supported \subseteq reached[i]
          /\ Len(session.done) = IF Active(session) THEN session.index - 1 ELSE Len(tasks)
          /\ session.joint <=> jointly # {}
      BY <1>2 DEF Accounts
    <2>2. \A k \in DOMAIN session.done : /\ tasks[k].required \subseteq session.done[k]
                                         /\ session.direct => tasks[k].note \subseteq told[k]
      BY <1>2 DEF Accounts
    <2>3. \A k \in DOMAIN session.done : /\ tasks[k].required \subseteq session.done[k]
                                         /\ session.direct => tasks[k].note \subseteq told'[k]
      BY <1>7, <1>8, <2>2
    <2> QED
      BY <1>3, <1>7, <2>1, <2>3 DEF Accounts
  <1> QED
    BY <1>2, <1>7, <1>9 DEF Hand

LEMMA HandKeeps ==
    ASSUME LegacyInv, Active(session), decision = Undecided, NEW d, NEW e, Hand(d, e),
           Ready(session, d, told', reached', jointly'), d.act # "none"
    PROVE  LegacyInv' /\ UNCHANGED <<fixed, turn>>
  <1>1. UNCHANGED <<fixed, session, turn>> /\ decision' = d
    BY DEF Hand
  <1>2. /\ session \in Session /\ Live(session)
        /\ DOMAIN told' = DOMAIN tasks /\ DOMAIN reached' = DOMAIN tasks
        /\ \A i \in DOMAIN tasks : told[i] \subseteq told'[i] /\ reached[i] \subseteq reached'[i]
    BY HandGrows
  <1>3. NoteFits(turn.note, Last(session), told', reached')
    <2>1. NoteFits(turn.note, Last(session), told, reached)
      BY DEF LegacyInv
    <2> QED
      BY <1>2, <2>1 DEF NoteFits
  <1>4. tasks' = tasks /\ storage' = storage /\ session' = session /\ turn' = turn
    BY <1>1 DEF fixed
  <1>5. NoteFits(turn.note, Last(session), told, reached)'
    BY <1>1, <1>3, <1>4, Frame
  <1>6. Active(session)' /\ Live(session)'
    BY <1>1, <1>2, <1>4, Frame
  <1>7. Ready(session, decision, told, reached, jointly)'
    BY <1>1, <1>4, Frame
  <1>8. (decision.act)' # "none"
    BY <1>1
  <1>9. /\ tasks' \in Lessons /\ storage' \in BOOLEAN
        /\ SentenceFits(turn)'
        /\ turn'.step = session'.step /\ turn'.help = session'.hint
    BY <1>4 DEF LegacyInv, SentenceFits
  <1>10. LegacyInv'
    BY <1>2, <1>4, <1>5, <1>6, <1>7, <1>8, <1>9 DEF LegacyInv
  <1> QED
    BY <1>1, <1>10

LEMMA DecideHands ==
    ASSUME LegacyInv, Active(session), decision = Undecided, NEW type, NEW a, NEW surviving, NEW grounded,
           NEW e, e = Effect(session, type, a, surviving, grounded), Hand(Decide(session, e), e)
    PROVE  LegacyInv' /\ UNCHANGED <<fixed, turn>>
  <1> DEFINE d == Decide(session, e)
  <1>1. Hand(d, e)
    OBVIOUS
  <1> HIDE DEF d
  <1>2. /\ tasks \in Lessons /\ session \in Session /\ Live(session)
        /\ Accounts(session, told', reached', jointly)
        /\ Kept(e) \subseteq told'[session.index] /\ Others(e) \subseteq reached'[session.index]
        /\ jointly' = IF d.act \in {"session_complete", "task_transition"}
                         /\ (session.level = "L0" \/ session.max = "H3")
                      THEN jointly \cup {session.index} ELSE jointly
    BY <1>1, HandGrows
  <1>3. e.new \in SUBSET TaskOf(session).required
    BY <1>2, NewIsRequired
  <1>4. d = Decide(session, e)
    BY DEF d
  <1>5. Ready(session, d, told', reached', jointly') /\ d.act # "none"
    BY <1>2, <1>3, <1>4, DecideReady
  <1> QED
    BY <1>1, <1>5, HandKeeps

LEMMA ReaskHands ==
    ASSUME LegacyInv, Active(session), decision = Undecided, NEW act, act \notin EndActs, act \notin LoweringActs,
           NEW e, NEW f, NEW d \in {Ask(session, f, act), Reframed(Ask(session, f, act))}, Hand(d, e)
    PROVE  LegacyInv' /\ UNCHANGED <<fixed, turn>>
  <1>1. Hand(d, e) /\ d.act = act
    BY AskIs
  <1>2. /\ tasks \in Lessons /\ session \in Session /\ Live(session)
        /\ Accounts(session, told', reached', jointly)
        /\ jointly' = IF d.act \in {"session_complete", "task_transition"}
                         /\ (session.level = "L0" \/ session.max = "H3")
                      THEN jointly \cup {session.index} ELSE jointly
    BY <1>1, HandGrows
  <1>3. Reasks(session, d)
    BY <1>2, SameReasks
  <1>4. jointly' = jointly /\ d.act # "none"
    BY <1>1, <1>2 DEF EndActs
  <1>5. Ready(session, d, told', reached', jointly')
    BY <1>2, <1>3, <1>4, ReaskReady
  <1> QED
    BY <1>1, <1>4, <1>5, HandKeeps

LEMMA TextKeeps ==
    ASSUME LegacyInv, TextAnswer
    PROVE  LegacyInv' /\ UNCHANGED <<fixed, turn>>
  <1>1. Active(session) /\ decision = Undecided
    BY DEF TextAnswer, Awaits
  <1> DEFINE task == TaskOf(session)
  <1>2. PICK a \in Analyses(task) :
          LET e == Effect(session, "text", a, Surviving(task, a), Grounded(task, a))
              mute == NoEffect(session, a)
          IN  CASE a.safety = "unsafe" ->
                      Hand(Ask(session, [mute EXCEPT !.quote = FALSE], "unsafe_redirect"), mute)
                [] a.safety = "playful" ->
                      Hand(Reframed(Ask(session, mute, "brief_ack_and_redirect")), mute)
                [] a.safety = "normal" /\ ConversationOnly(task, a) -> Hand(Talk(session, mute), mute)
                [] OTHER -> Hand(Decide(session, e), e)
    BY DEF TextAnswer
  <1> DEFINE e == Effect(session, "text", a, Surviving(task, a), Grounded(task, a))
             mute == NoEffect(session, a)
             quiet == [mute EXCEPT !.quote = FALSE]
  <1>3. \/ Hand(Ask(session, quiet, "unsafe_redirect"), mute)
        \/ Hand(Reframed(Ask(session, mute, "brief_ack_and_redirect")), mute)
        \/ Hand(Reframed(Ask(session, mute, "acknowledge_non_learning_and_reask")), mute)
        \/ Hand(Decide(session, e), e)
    <2> HIDE DEF e, mute
    <2>1. CASE a.safety = "unsafe"
      BY <1>2, <2>1 DEF e, mute
    <2>2. CASE a.safety = "playful"
      BY <1>2, <2>2 DEF e, mute
    <2>3. CASE a.safety = "normal" /\ ConversationOnly(task, a)
      BY <1>2, <2>3 DEF e, mute, Talk
    <2>4. CASE /\ a.safety \notin {"unsafe", "playful"}
               /\ ~ (a.safety = "normal" /\ ConversationOnly(task, a))
      BY <1>2, <2>4 DEF e, mute
    <2> QED
      BY <2>1, <2>2, <2>3, <2>4
  <1>4. \A act \in {"unsafe_redirect", "brief_ack_and_redirect", "acknowledge_non_learning_and_reask"} :
            act \notin EndActs /\ act \notin LoweringActs
    BY DEF EndActs, LoweringActs
  <1>5. CASE Hand(Decide(session, e), e)
    BY <1>1, <1>5, DecideHands
  <1> HIDE DEF e, mute, quiet
  <1>6. CASE Hand(Ask(session, quiet, "unsafe_redirect"), mute)
    BY <1>1, <1>4, <1>6, ReaskHands
  <1>7. CASE Hand(Reframed(Ask(session, mute, "brief_ack_and_redirect")), mute)
    BY <1>1, <1>4, <1>7, ReaskHands
  <1>8. CASE Hand(Reframed(Ask(session, mute, "acknowledge_non_learning_and_reask")), mute)
    BY <1>1, <1>4, <1>8, ReaskHands
  <1> QED
    BY <1>3, <1>5, <1>6, <1>7, <1>8

LEMMA StructuredKeeps ==
    ASSUME LegacyInv, Active(session), decision = Undecided, NEW claims, Structured(claims)
    PROVE  LegacyInv' /\ UNCHANGED <<fixed, turn>>
  BY DecideHands DEF Structured

LEMMA TapKeeps ==
    ASSUME LegacyInv, ChoiceAnswer \/ JointAnswer
    PROVE  LegacyInv' /\ UNCHANGED <<fixed, turn>>
  <1>1. Active(session) /\ decision = Undecided
    BY DEF ChoiceAnswer, JointAnswer, Awaits
  <1>2. CASE \E claims : Structured(claims)
    BY <1>1, <1>2, StructuredKeeps
  <1>3. CASE OverBudget
    <2> DEFINE e == Effect(session, "structured", Blank, {}, {})
    <2>1. Hand(Ask(session, e, "budget_exceeded"), e)
      BY <1>3 DEF OverBudget
    <2>2. "budget_exceeded" \notin EndActs /\ "budget_exceeded" \notin LoweringActs
      BY DEF EndActs, LoweringActs
    <2> HIDE DEF e
    <2> QED
      BY <1>1, <2>1, <2>2, ReaskHands
  <1>4. CASE InputError
    BY <1>1, <1>4, DecideHands DEF InputError
  <1> QED
    BY <1>2, <1>3, <1>4 DEF ChoiceAnswer, JointAnswer

LEMMA ButtonKeeps ==
    ASSUME LegacyInv, NoResponse
    PROVE  LegacyInv' /\ UNCHANGED <<fixed, turn>>
  BY DecideHands DEF NoResponse

\* The deadline takes the kept words of the open task, and nothing that a note or a
\* closed task rests on.
LEMMA ExpiryKeeps ==
    ASSUME LegacyInv, RawExpires
    PROVE  LegacyInv' /\ turn' = turn
  <1> DEFINE k == session.index
             x == [session EXCEPT !.evidence = {}]
             T == [told EXCEPT ![k] = {}]
  <1>1. /\ Active(session) /\ decision = Undecided /\ decision' = Undecided /\ storage' \in BOOLEAN
        /\ session' = x /\ told' = T /\ tasks' = tasks /\ turn' = turn
        /\ reached' = reached /\ jointly' = jointly
    BY DEF RawExpires
  <1>2. /\ Sound(session, told, reached, jointly) /\ tasks \in Lessons
        /\ DOMAIN told = DOMAIN tasks /\ DOMAIN reached = DOMAIN tasks
        /\ NoteFits(turn.note, Last(session), told, reached) /\ SentenceFits(turn)
        /\ turn.step = session.step /\ turn.help = session.hint
    BY <1>1 DEF LegacyInv, Undecided
  <1>3. /\ session \in Session /\ Live(session) /\ Accounts(session, told, reached, jointly)
    BY <1>1, <1>2 DEF Sound
  <1>4. /\ k \in DOMAIN tasks /\ k \in Nat /\ session.done \in Seq(SUBSET Slots)
    <2>1. k \in DOMAIN tasks /\ session.done \in Seq(SUBSET Slots)
      BY <1>3 DEF Session
    <2> QED
      BY <1>2, <2>1, TasksFit
  <1>5. /\ x \in Session /\ x.evidence = {} /\ x.index = k /\ x.supported = session.supported
        /\ x.joint = session.joint /\ x.direct = session.direct /\ x.done = session.done
        /\ x.status = session.status /\ x.verified = session.verified /\ x.level = session.level
        /\ x.hint = session.hint /\ x.phase = session.phase /\ x.step = session.step
    <2>1. {} \in SUBSET Slots
      OBVIOUS
    <2> QED
      BY <1>3, <2>1 DEF Session
  <1>6. /\ DOMAIN T = DOMAIN tasks /\ T[k] = {}
        /\ \A i \in DOMAIN tasks : i # k => T[i] = told[i]
    BY <1>2, <1>4
  <1> HIDE DEF x, T
  <1>7. Active(x) /\ TaskOf(x) = TaskOf(session) /\ StepOf(x) = StepOf(session)
    BY <1>1, <1>5 DEF Active, TaskOf, StepOf
  <1>8. Live(x)
    BY <1>3, <1>5, <1>7 DEF Live
  <1>9. Accounts(x, T, reached, jointly)
    <2>1. /\ session.supported \subseteq reached[k] /\ Len(session.done) = k - 1
          /\ session.joint <=> jointly # {}
          /\ \A i \in DOMAIN session.done : /\ tasks[i].required \subseteq session.done[i]
                                            /\ session.direct => tasks[i].note \subseteq told[i]
      BY <1>1, <1>3 DEF Accounts
    <2>2. \A i \in DOMAIN session.done : i \in DOMAIN tasks /\ i # k
      <3>1. DOMAIN session.done = 1 .. k - 1
        BY <1>4, <2>1
      <3> QED
        BY <1>2, <1>4, <3>1, TasksFit
    <2>3. \A i \in DOMAIN session.done : /\ tasks[i].required \subseteq session.done[i]
                                         /\ session.direct => tasks[i].note \subseteq T[i]
      BY <1>6, <2>1, <2>2
    <2> QED
      BY <1>5, <1>7, <2>1, <2>3 DEF Accounts
  <1>10. Sound(x, T, reached, jointly)
    BY <1>5, <1>7, <1>8, <1>9 DEF Sound
  <1>11. NoteFits(turn.note, Last(x), T, reached)
    <2>1. Last(x) = k - 1 /\ Last(session) = k - 1 /\ k - 1 # k
      BY <1>1, <1>4, <1>5, <1>7 DEF Last
    <2> QED
      BY <1>2, <1>6, <2>1 DEF NoteFits
  <1>12. /\ Sound(session, told, reached, jointly)' /\ Active(session)'
         /\ NoteFits(turn.note, Last(session), told, reached)'
    <2>1. \A s, U, R, J : Sound(s, U, R, J)' <=> Sound(s, U, R, J)
      BY <1>1, Frame
    <2>2. \A n, i, U, R : NoteFits(n, i, U, R)' <=> NoteFits(n, i, U, R)
      BY <1>1, Frame
    <2>3. \A s : (Active(s)' <=> Active(s)) /\ Last(s)' = Last(s)
      BY <1>1, Frame
    <2> QED
      BY <1>1, <1>7, <1>10, <1>11, <2>1, <2>2, <2>3
  <1>13. SentenceFits(turn)' /\ turn'.step = session'.step /\ turn'.help = session'.hint
    BY <1>1, <1>2, <1>5 DEF SentenceFits
  <1>14. (decision.act)' = "none"
    BY <1>1 DEF Undecided
  <1>15. DOMAIN told' = DOMAIN tasks' /\ DOMAIN reached' = DOMAIN tasks' /\ tasks' \in Lessons
    BY <1>1, <1>2, <1>6
  <1>16. LegacyInv'
    BY <1>1, <1>12, <1>13, <1>14, <1>15 DEF LegacyInv
  <1> QED
    BY <1>1, <1>16

\* A model's sentence asks what is open; a reviewed one nothing by name, or the open step.
Proper(source, asked, s) ==
    \/ source = "model" /\ asked = s.step.target \ s.verified
    \/ source = "reviewed" /\ (asked # {} => Active(s) /\ asked = s.step.target)

\* What the screen shows of a sound session (_turn_contract, _task_anchor).
LEMMA ContractShows ==
    ASSUME tasks \in Lessons, NEW s \in Session, Active(s) => Live(s), ~ Active(s) => Earned(s),
           NEW act, NEW source, NEW asked, Proper(source, asked, s), NEW note, NEW t,
           t = turn_contract(s, act, source, asked, note)
    PROVE  /\ t.act = act /\ t.note = note /\ SentenceFits(t)
           /\ Active(s) => t.step = s.step /\ t.help = s.hint
  <1>1. t.act = act /\ t.note = note /\ t.source = source /\ t.asked = asked
    BY DEF turn_contract
  <1>2. CASE Active(s)
    <2>1. s.step.target \ s.verified # {}
      BY <1>2, QuestionFits
    <2>2. task_anchor(s).target = s.step.target \ s.verified
      BY <2>1 DEF task_anchor
    <2>3. t.step = s.step /\ t.help = s.hint /\ t.anchor.target = s.step.target \ s.verified
      BY <1>2, <2>2 DEF turn_contract
    <2>4. SentenceFits(t)
      BY <1>1, <2>3 DEF SentenceFits, Proper
    <2> QED
      BY <1>1, <2>3, <2>4
  <1>3. CASE ~ Active(s)
    <2>1. asked = {}
      BY <1>3 DEF Earned, Proper
    <2>2. t.anchor.target = {}
      BY <1>3 DEF turn_contract
    <2>3. SentenceFits(t)
      BY <1>1, <2>1, <2>2 DEF SentenceFits
    <2> QED
      BY <1>1, <1>3, <2>3
  <1> QED
    BY <1>2, <1>3

LEMMA ComposeKeeps ==
    ASSUME LegacyInv, decision.act # "none", NEW source, NEW asked, Compose(source, asked),
           \/ source = "model" /\ asked = Required(decision)
           \/ source = "reviewed" /\ asked = decision.fallback
    PROVE  /\ LegacyInv'
           /\ turn'.act \in LoweringActs /\ turn.step.form # "joint" => turn'.step # turn.step
  <1> DEFINE x == decision.session
  <1>1. /\ session' = x /\ turn' = turn_contract(x, decision.act, source, asked, decision.note)
        /\ decision' = Undecided /\ UNCHANGED <<fixed, history>>
    BY DEF Compose
  <1>2. /\ Active(session) /\ Ready(session, decision, told, reached, jointly) /\ turn.step = session.step
        /\ tasks \in Lessons
    BY DEF LegacyInv
  <1>3. /\ Sound(x, told, reached, jointly) /\ NoteFits(decision.note, Last(x), told, reached)
        /\ decision.act \in LoweringActs /\ session.step.form # "joint" => Active(x) /\ x.step # session.step
        /\ Offers(decision)
    BY <1>2 DEF Ready
  <1>4. x \in Session /\ (Active(x) => Live(x)) /\ (~ Active(x) => Earned(x))
    BY <1>3 DEF Sound
  <1>5. Proper(source, asked, x)
    BY <1>3 DEF Required, Offers, Proper
  <1>6. /\ turn'.act = decision.act /\ turn'.note = decision.note /\ SentenceFits(turn')
        /\ Active(x) => turn'.step = x.step /\ turn'.help = x.hint
    BY <1>1, <1>2, <1>4, <1>5, ContractShows
  <1>7. turn'.act \in LoweringActs /\ turn.step.form # "joint" => turn'.step # turn.step
    BY <1>2, <1>3, <1>6
  <1>8. /\ tasks' = tasks /\ storage' = storage /\ told' = told /\ reached' = reached
        /\ jointly' = jointly /\ UNCHANGED fixed
    BY <1>1 DEF fixed, history
  <1>9. (decision.act)' = "none"
    BY <1>1 DEF Undecided
  <1> HIDE DEF x
  <1>10. Sound(session, told, reached, jointly)'
    BY <1>1, <1>3, <1>8, Frame
  <1>11. NoteFits(turn.note, Last(session), told, reached)'
    BY <1>1, <1>3, <1>6, <1>8, Frame
  <1>12. Active(session)' => turn'.step = session'.step /\ turn'.help = session'.hint
    BY <1>1, <1>6, <1>8, Frame
  <1>13. /\ tasks' \in Lessons /\ storage' \in BOOLEAN /\ DOMAIN told' = DOMAIN tasks'
         /\ DOMAIN reached' = DOMAIN tasks'
    BY <1>8 DEF LegacyInv
  <1>15. SentenceFits(turn)'
    BY <1>6 DEF SentenceFits
  <1>14. LegacyInv'
    BY <1>9, <1>10, <1>11, <1>12, <1>13, <1>15 DEF LegacyInv
  <1> QED
    BY <1>7, <1>14

\* An accepted output asks what is open; otherwise the reviewed sentence is said.
LEMMA SpeechComposes ==
    ASSUME Speak \/ SpeakReviewed
    PROVE  /\ decision.act # "none"
           /\ Compose("model", Required(decision)) \/ Compose("reviewed", decision.fallback)
  <1>1. CASE SpeakReviewed
    BY <1>1 DEF SpeakReviewed, ReviewedActs
  <1>2. CASE Speak
    <2>1. decision.act # "none"
      BY <1>2 DEF Speak
    <2>2. ASSUME NEW o, validate_speaker_output(o, decision), Compose("model", o.asked)
          PROVE  Compose("model", Required(decision))
      <3>1. o.asked = Required(decision)
        BY <2>2 DEF validate_speaker_output
      <3> QED
        BY <2>2, <3>1
    <2> QED
      BY <1>2, <2>1, <2>2 DEF Speak
  <1> QED
    BY <1>1, <1>2

LEMMA LegacyStarts ==
    ASSUME LegacyInit
    PROVE  LegacyInv
  <1>1. PICK starts \in [DOMAIN tasks -> StartLevels \cup {"L2"}],
             policy \in IF tasks[1].entry THEN {2, 3} ELSE {3} :
          LET menu == \A i \in DOMAIN tasks :
                          starts[i] \in IF tasks[i].id = "menu" THEN {"L2"} ELSE StartLevels
              opening == policy = 2 /\ tasks[1].entry /\ starts[1] = "L4"
              fresh == normalize_terminal_support(
                         [index |-> 1, starts |-> starts, policy |-> policy, level |-> starts[1],
                          hint |-> "H0", max |-> "H0", verified |-> {}, vague |-> 0,
                          phase |-> IF opening THEN "entry" ELSE "resolved",
                          evidence |-> {}, supported |-> {}, joint |-> FALSE, direct |-> TRUE,
                          done |-> <<>>, status |-> "active", outcome |-> "none", reward |-> FALSE,
                          step |-> Step("none", {})])
          IN  /\ menu
              /\ session = [fresh EXCEPT !.step = StepOf(fresh)]
    BY DEF LegacyInit
  <1> DEFINE phase == IF policy = 2 /\ tasks[1].entry /\ starts[1] = "L4" THEN "entry" ELSE "resolved"
             x == [index |-> 1, starts |-> starts, policy |-> policy, level |-> starts[1],
                   hint |-> "H0", max |-> "H0", verified |-> {}, vague |-> 0,
                   phase |-> phase,
                   evidence |-> {}, supported |-> {}, joint |-> FALSE, direct |-> TRUE,
                   done |-> <<>>, status |-> "active", outcome |-> "none", reward |-> FALSE,
                   step |-> Step("none", {})]
  <1>2. session = Asked(x)
    BY <1>1 DEF Asked
  <1>3. /\ tasks \in Lessons /\ storage \in BOOLEAN /\ decision = Undecided /\ jointly = {}
        /\ turn = turn_contract(session, "initial", "reviewed", session.step.target, "none")
        /\ told = [i \in DOMAIN tasks |-> {}] /\ reached = told
    BY DEF LegacyInit
  <1>4. 1 \in DOMAIN tasks /\ Fits(tasks[1])
    BY <1>3, TasksFit
  <1>5. /\ starts \in [DOMAIN tasks -> Levels] /\ policy \in {2, 3} /\ starts[1] \in Levels
        /\ phase \in Phases /\ (phase = "entry" => starts[1] = "L4")
    BY <1>4, ContentAssumption DEF Phases, Levels
  <1> HIDE DEF phase
  <1>6. x \in Session
    <2>1. "H0" \in HintNames /\ {} \in SUBSET Slots /\ <<>> \in Seq(SUBSET Slots)
          /\ Step("none", {}) \in [form : Forms, target : SUBSET Slots]
      BY DEF HintNames, Forms, Step
    <2> QED
      BY <1>4, <1>5, <2>1 DEF Session
  <1>7. /\ x.index = 1 /\ x.evidence = {} /\ x.supported = {} /\ x.done = <<>> /\ x.joint = FALSE
        /\ x.status = "active" /\ x.verified = {} /\ x.phase = phase /\ x.level = starts[1]
        /\ x.hint = "H0"
    OBVIOUS
  <1> HIDE DEF x
  <1>8. Active(x) /\ Accounts(x, told, reached, jointly)
    <2>1. Active(x)
      BY <1>7 DEF Active
    <2>2. Len(x.done) = x.index - 1 /\ DOMAIN x.done = {}
      BY <1>7
    <2> QED
      BY <1>3, <1>7, <2>1, <2>2 DEF Accounts
  <1>9. ~ complete(TaskOf(x), x.verified)
    BY <1>4, <1>7 DEF complete, TaskOf, Fits
  <1>10. Sound(session, told, reached, jointly) /\ Active(session)
    BY <1>2, <1>3, <1>5, <1>6, <1>7, <1>8, <1>9, AskSound
  <1>11. session \in Session /\ Live(session)
    BY <1>10 DEF Sound
  <1>13. /\ turn.note = "none" /\ SentenceFits(turn)
         /\ turn.step = session.step /\ turn.help = session.hint
    <2> DEFINE asked == session.step.target
    <2> HIDE DEF asked
    <2>1. turn = turn_contract(session, "initial", "reviewed", asked, "none")
      BY <1>3 DEF asked
    <2>2. Proper("reviewed", asked, session)
      BY <1>10 DEF Proper, asked
    <2> QED
      BY <1>3, <1>10, <1>11, <2>1, <2>2, ContractShows
  <1>14. decision.act = "none"
    BY <1>3 DEF Undecided
  <1>15. NoteFits(turn.note, Last(session), told, reached)
    BY <1>13 DEF NoteFits
  <1> QED
    BY <1>3, <1>10, <1>13, <1>14, <1>15 DEF LegacyInv

LEMMA LegacyStep ==
    ASSUME LegacyInv, [LegacyNext]_legacyVars
    PROVE  /\ LegacyInv'
           /\ turn'.act \in LoweringActs /\ turn' # turn /\ turn.step.form # "joint" => turn'.step # turn.step
  <1>1. CASE TextAnswer \/ ChoiceAnswer \/ JointAnswer \/ NoResponse
    <2>1. LegacyInv' /\ UNCHANGED <<fixed, turn>>
      BY <1>1, TextKeeps, TapKeeps, ButtonKeeps
    <2> QED
      BY <2>1
  <1>4. CASE RawExpires
    BY <1>4, ExpiryKeeps
  <1>2. CASE Speak \/ SpeakReviewed
    BY <1>2, SpeechComposes, ComposeKeeps
  <1>3. CASE UNCHANGED legacyVars
    <2>1. /\ tasks' = tasks /\ storage' = storage /\ session' = session /\ turn' = turn
          /\ decision' = decision /\ told' = told /\ reached' = reached /\ jointly' = jointly
          /\ UNCHANGED fixed
      BY <1>3 DEF legacyVars, fixed, history
    <2>2. /\ Sound(session, told, reached, jointly)' <=> Sound(session, told, reached, jointly)
          /\ Live(session)' <=> Live(session) /\ (Active(session)' <=> Active(session))
          /\ Ready(session, decision, told, reached, jointly)' <=>
                 Ready(session, decision, told, reached, jointly)
          /\ NoteFits(turn.note, Last(session), told, reached)' <=>
                 NoteFits(turn.note, Last(session), told, reached)
      BY <2>1, Frame
    <2>4. SentenceFits(turn)' <=> SentenceFits(turn)
      BY <2>1 DEF SentenceFits
    <2>3. LegacyInv'
      BY <2>1, <2>2, <2>4 DEF LegacyInv
    <2> QED
      BY <2>1, <2>3
  <1> QED
    BY <1>1, <1>2, <1>3, <1>4 DEF LegacyNext

\* The invariant holds in every reachable state of the legacy engine.
THEOREM LegacyInvariance == LegacySpec => []LegacyInv
  <1>1. LegacyInit => LegacyInv
    BY LegacyStarts
  <1>2. LegacyInv /\ [LegacyNext]_legacyVars => LegacyInv'
    BY LegacyStep
  <1> QED
    BY <1>1, <1>2, PTL DEF LegacySpec

\* A note in the child's name rests on kept words of that task, a shared note on
\* what the child said or did there (_record_note_provenance, _complete_task).
THEOREM NoteIsTheChildsHolds == LegacySpec => []NoteIsTheChilds
  <1>1. LegacyInv => NoteIsTheChilds
    BY DEF LegacyInv, NoteIsTheChilds, NoteFits, Finished, Last
  <1> QED
    BY <1>1, LegacyInvariance, PTL

\* Reward, outcome and completion evidence speak of the whole session
\* (_complete_task, _completion_facts).
THEOREM EndIsEarnedHolds == LegacySpec => []EndIsEarned
  <1>1. LegacyInv => EndIsEarned
    <2> SUFFICES ASSUME LegacyInv, ~ Active(session)
                 PROVE  /\ session.reward <=> jointly = {}
                        /\ session.outcome = "taught" => \A i \in DOMAIN tasks : tasks[i].note \subseteq told[i]
                        /\ Len(session.done) = Len(tasks)
                        /\ \A i \in DOMAIN tasks : tasks[i].required \subseteq session.done[i]
      BY DEF EndIsEarned
    <2>1. tasks \in Lessons /\ Sound(session, told, reached, jointly)
      BY DEF LegacyInv
    <2>2. session \in Session /\ Accounts(session, told, reached, jointly) /\ Earned(session)
      BY <2>1 DEF Sound
    <2>3. /\ Len(session.done) = Len(tasks) /\ (session.joint <=> jointly # {})
          /\ \A i \in DOMAIN session.done : /\ tasks[i].required \subseteq session.done[i]
                                            /\ session.direct => tasks[i].note \subseteq told[i]
      BY <2>2 DEF Accounts
    <2>4. (session.reward <=> ~ session.joint) /\ (session.outcome = "taught" => session.direct)
      BY <2>2 DEF Earned
    <2>5. session.done \in Seq(SUBSET Slots)
      BY <2>2 DEF Session
    <2>6. DOMAIN session.done = DOMAIN tasks
      BY <2>1, <2>3, <2>5, TasksFit
    <2> QED
      BY <2>3, <2>4, <2>6
  <1> QED
    BY <1>1, LegacyInvariance, PTL

\* The question on the screen is open, its form and the help card agree, a generated
\* sentence asks exactly what the anchor shows, and a reviewed one that names slots
\* names all of those and none of another step (_decision_for_current_step,
\* _task_anchor, validate_speaker_output).
THEOREM TurnIsCoherentHolds == LegacySpec => []TurnIsCoherent
  <1>1. LegacyInv => TurnIsCoherent
    <2> SUFFICES ASSUME LegacyInv PROVE TurnIsCoherent
      OBVIOUS
    <2>1. SentenceFits(turn)
      BY DEF LegacyInv
    <2>2. ASSUME Active(session)
          PROVE  ~ turn.step.target \subseteq session.verified /\ (turn.step.form = "joint" <=> turn.help = "H3")
      <3>1. /\ tasks \in Lessons /\ Live(session) /\ turn.step = session.step /\ turn.help = session.hint
        BY <2>2 DEF LegacyInv, Sound
      <3>2. session \in Session /\ (session.level = "L0" <=> session.hint = "H3")
        BY <3>1 DEF Live
      <3>3. (session.step.form = "joint" <=> session.level = "L0") /\ ~ session.step.target \subseteq session.verified
        BY <3>1, <3>2, QuestionFits
      <3> QED
        BY <3>1, <3>2, <3>3
    <2> QED
      BY <2>1, <2>2 DEF TurnIsCoherent, SentenceFits
  <1> QED
    BY <1>1, LegacyInvariance, PTL

\* An understood answer that brought nothing new never meets the same interaction
\* again, short of joint work (_lower_until_visible_contract_changes).
THEOREM VisiblyNewHolds == LegacySpec => VisiblyNew
  <1>1. LegacyInv /\ [LegacyNext]_legacyVars =>
          [ turn'.act \in {"acknowledge_unstructured_partial", "support_vague_response"} /\ turn' # turn
            /\ turn.step.form # "joint"
              => turn'.step # turn.step ]_legacyVars
    BY LegacyStep DEF LoweringActs
  <1> QED
    BY <1>1, LegacyInvariance, PTL DEF LegacySpec, VisiblyNew


=============================================================================
