--------------------------- MODULE MCLegacyTurn ---------------------------
(* Small instances of LegacyTurn for TLC. *)
EXTENDS LegacyTurn

\* A lesson with an opening guess, one whose note keeps the answer, the queues and amounts of the cafe, a menu
\* within a budget, and a park scenario of two problems.
MCScenarios ==
    {<<home_teaching_task(TRUE, TRUE)>>, <<number_compare_task(FALSE)>>,
     <<queue_task>>, <<simple_calculation_task>>,
     <<menu_selection_task(TRUE, TRUE)>>,
     <<park_primary_task("ticket"), park_transfer_task("ticket")>>}

Says(category, claims) ==
    [safety |-> "normal", category |-> category, relation |-> "current", stance |-> "none",
     truth |-> "none", concept |-> FALSE, quote |-> FALSE, claims |-> claims]

TasksOf(sc) == {sc[i] : i \in DOMAIN sc}
InSequence(task) == \E sc \in MCScenarios : Len(sc) > 1 /\ task \in TasksOf(sc)

\* Every kind of claim, alone and beside plain ones.  The four slots of the queue
\* are told or not; a task in a sequence meets one claim of each worth.
ClaimsOf(task, slot) ==
    CASE Cardinality(task.required) > 3 -> IF slot \in task.semantic THEN {"none", "argued"} ELSE {"none", "quotable"}
      [] InSequence(task) -> IF slot \in task.semantic THEN {"none", "argued", "unsupported"}
                             ELSE {"none", "quotable", "wrong"}
      [] OTHER -> IF slot \in task.semantic THEN SemanticClaims ELSE ClosedClaims

ClaimSets(task) ==
    {c \in [task.required -> ClosedClaims \cup SemanticClaims] :
        /\ \A slot \in task.required : c[slot] \in ClaimsOf(task, slot)
        /\ Cardinality({slot \in task.required :
                          c[slot] \notin {"none", "quotable", "argued"}}) <= 1}

Silence(task) == [slot \in task.required |-> "none"]

\* The labels a model may put on the same claims, and each conversational axis; a
\* stance is taken only towards an opening guess.  Of a large task the claims come
\* in a quotable text and under one label.
Large(task) == InSequence(task) \/ Cardinality(task.required) > 3

TaskAnalyses(task) ==
    LET claims == ClaimSets(task)
        quiet == Silence(task)
        said == IF Large(task) THEN {quiet} ELSE claims
        labels == IF Large(task) THEN {"full"} ELSE {"full", "help", "unrelated"}
        stances == IF task.entry THEN {"accept", "reject"} ELSE {"none"}
        says(g, c) == [Says(g, c) EXCEPT !.quote = Large(task)]
    IN  {says(g, c) : g \in labels, c \in claims}
        \cup {says(g, quiet) : g \in Categories}
        \cup {[says("unrelated", quiet) EXCEPT !.concept = TRUE]}
        \cup {[Says("unrelated", c) EXCEPT !.relation = r, !.quote = TRUE] :
                  c \in said, r \in Relations \ {"current"}}
        \cup {[Says("full", c) EXCEPT !.truth = t, !.quote = TRUE] : c \in said, t \in {"true", "false"}}
        \cup {[says("partial", c) EXCEPT !.stance = st] : c \in said, st \in stances}
        \cup {[Says("unrelated", quiet) EXCEPT !.safety = y, !.quote = TRUE] :
                  y \in {"unsafe", "playful"}}

\* A constant, so that TLC computes it once.
AnalysesOf == [task \in UNION {TasksOf(sc) : sc \in MCScenarios} |-> TaskAnalyses(task)]
MCAnalyses(task) == AnalysesOf[task]

\* A sentence that quotes the child, and one flaw at a time: a wrong act, too many
\* questions, an unverified fact, an invented quotation.
MCOutputs(task, d) ==
    LET good == [act |-> d.act, asked |-> Required(d), used |-> {}, span |-> "exact"]
    IN  {good, [good EXCEPT !.act = "other"], [good EXCEPT !.asked = task.required],
         [good EXCEPT !.used = task.required], [good EXCEPT !.span = "invented"],
         [good EXCEPT !.span = "none", !.asked = task.required]}

===========================================================================
