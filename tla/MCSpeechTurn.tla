--------------------------- MODULE MCSpeechTurn ---------------------------
(* A small instance of SpeechTurn for TLC. *)
EXTENDS SpeechTurn

CONSTANTS answer, method, count, stray

AnswerThenMethod == <<answer, method>>

Said(move, need, ui, wrong, evidence, F, R, half) ==
    [source |-> "sonnet_low", move |-> move, need |-> need, ui |-> ui, unsafe |-> FALSE,
     wrong |-> wrong, evidence |-> evidence, facts |-> F, relations |-> R, partials |-> half]

Unread == [Said("none", "none", "none", FALSE, FALSE, {}, {}, {})
              EXCEPT !.source = "deterministic_fallback"]
Unsafe == [Said("none", "none", "none", FALSE, FALSE, {}, {}, {}) EXCEPT !.unsafe = TRUE]

Questions == {"task_question", "request_mormi_answer"}
NeedOf(move) == IF move = "request_mormi_answer" THEN "general_help" ELSE "none"

\* A plain statement and each question with nothing, the answer, the method or
\* half of the method beside it; the social moves; each need; a mistake; and
\* remarks about the card.
Texts ==
    {Said(m, NeedOf(m), "none", FALSE, c # <<{}, {}, {}>>, c[1], c[2], c[3]) :
         m \in {"none"} \cup Questions,
         c \in {<<{}, {}, {}>>, <<{answer}, {}, {}>>, <<{}, {method}, {}>>, <<{}, {}, {method}>>,
                <<{answer}, {}, {method}>>}}
    \cup {Said(m, "none", "none", FALSE, FALSE, {}, {}, {}) : m \in Social}
    \cup {Said("refusal", "none", "none", FALSE, TRUE, {}, {method}, {})}
    \cup {Said("none", n, "none", FALSE, FALSE, {}, {}, {}) :
              n \in {"expression", "general_help", "concept"}}
    \cup {Said("none", "general_help", "none", FALSE, TRUE, {}, {}, {method}),
          Said("none", "general_help", "none", FALSE, TRUE, {answer}, {}, {})}
    \cup {Said("none", "none", "none", TRUE, TRUE, {}, {}, {})}
    \cup {Said(m, "none", ui, FALSE, FALSE, {}, {}, {}) :
              m \in {"none", "safe_play"}, ui \in {"asks", "remarks"}}
    \cup {Unread, Unsafe}

\* A label that names a number of the problem.
NamesCount == [r \in {method} |-> {count}]

Reply(flaw, names, words) == [flaw |-> flaw, names |-> names, words |-> words]

\* One thing at a time: a flaw, a leak, words about the card.
Replies ==
    {Reply(f, {}, {}) : f \in {"none", "empty", "question"}}
    \cup {Reply("none", n, {}) : n \in {{answer}, {method}, {answer, method}, {count}, {stray}}}
    \cup {Reply("none", {}, w) : w \in {{"card"}, {"opened"}, CardWords}}

===========================================================================
