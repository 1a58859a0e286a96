---------------------------- MODULE MCLifeTurn ----------------------------
(* Small instances of LifeTurn for TLC. *)
EXTENDS LifeTurn

MenusInOrder == <<"tea", "cake">>

Reading(source, move, need, asks, wrong, F, R, half) ==
    [source |-> source, move |-> move, need |-> need, asks |-> asks, wrong |-> wrong,
     facts |-> F, relations |-> R, partials |-> half]
Admitted(move, need, wrong, F, R, half) == Reading("sonnet_low", move, need, FALSE, wrong, F, R, half)

\* Any right facts and relations together, a half-told method, a wrong claim, and
\* each conversational axis alone; or the understanding model fails.
PackReadings(pack) ==
    {Admitted("none", "none", FALSE, F, R, {}) : F \in SUBSET pack.facts, R \in SUBSET pack.relations}
    \cup {Admitted("none", "none", FALSE, {}, {}, pack.relations)}
    \cup {Admitted("none", "none", TRUE, {}, {}, {})}
    \cup {Admitted("task_question", "none", FALSE, F, {}, {}) : F \in {{}, pack.facts}}
    \cup {Admitted("social", "none", FALSE, {}, {}, {})}
    \cup {Admitted("none", n, FALSE, {}, {}, {}) : n \in {"expression", "general_help", "concept"}}
    \cup {Reading("deterministic_fallback", "none", "none", FALSE, FALSE, {}, {}, {})}

===========================================================================
