-------------------------- MODULE MCTeachingTurn --------------------------
(* Small instances of TeachingTurn for TLC. *)
EXTENDS TeachingTurn

CONSTANTS answer, method, substep, aux, c1, c2

\* The catalogue's packs ask for the answer first, then for the method.
AnswerThenMethod == <<answer, method>>
MethodThenAnswer == <<method, answer>>

Claim(id, target, verdict, literal) ==
    [id |-> id, target |-> target, verdict |-> verdict, literal |-> literal]

Response(move, need, ui, grounded, claims) ==
    [unsafe |-> FALSE, move |-> move, need |-> need, ui |-> ui, grounded |-> grounded,
     claims |-> claims]

Unsafe == [unsafe |-> TRUE, move |-> "none", need |-> "none", ui |-> "none",
           grounded |-> FALSE, claims |-> {}]

\* One claim of every kind the guard and the ledger tell apart.
Singles(id) ==
    {Claim(id, t, v, TRUE) : t \in Facts, v \in {"correct", "incorrect"}}
    \cup {Claim(id, t, v, TRUE) : t \in Relations, v \in Verdicts}
    \cup {Claim(id, t, "correct", FALSE) : t \in {answer, method}}
    \cup {Claim(id, Auxiliary, "correct", TRUE)}

\* One claim alone, or a right claim beside one that needs repair or beside
\* another right one; and each conversational axis.
PackCandidates ==
    LET right == {Claim(c1, t, "correct", TRUE) : t \in {answer, method, substep}}
        other == {Claim(c2, method, "correct", l) : l \in BOOLEAN}
                 \cup {Claim(c2, substep, "partial", TRUE)}
    IN  {Response("none", "none", "none", FALSE, s) :
             s \in {{}} \cup {{x} : x \in Singles(c1)} \cup {{x, y} : x \in right, y \in other}}
        \cup {Response("none", n, "none", FALSE, {}) : n \in Needs \ {"none"}}
        \cup {Response("task_question", "none", "none", FALSE, {x}) : x \in right}
        \cup {Response("social", "none", u, TRUE, {}) : u \in UiReferences}
        \cup {Response("request_mormi_answer", "general_help", "none", FALSE, {}), Unsafe}

===========================================================================
