--------------------------- MODULE LadderPolicy ---------------------------
(***************************************************************************)
(* The recommendation policy of the expression ladder, as the pure         *)
(* functions of ladder_model/policy.py and ladder_analysis.py.  Accuracy   *)
(* is compared as a fraction of integers: Python's division is correctly   *)
(* rounded, so the thresholds 0.70 and 0.90 fall on the same side.         *)
(***************************************************************************)
EXTENDS Integers, Sequences

Levels == {"L0", "L2", "L3", "L4"}
SpeechLevels == Levels \ {"L0"}   \* L0 is policy-only, no model predicts it

ladder_rank == [l \in Levels |-> CASE l = "L0" -> 0 [] l = "L2" -> 1
                                   [] l = "L3" -> 2 [] l = "L4" -> 3]
one_step_lower == [l \in Levels |-> CASE l = "L4" -> "L3" [] l = "L3" -> "L2"
                                      [] OTHER -> "L0"]
one_step_higher == [l \in Levels |-> CASE l = "L0" -> "L2" [] l = "L2" -> "L3"
                                       [] OTHER -> "L4"]

\* What a job and the last two utterances say.  valid_speech_count is left out:
\* where the code asks for two, two predictions are there.
Evidence ==
    [current : Levels, correct : Nat, attempts : Nat,
     predictions : {<<>>} \cup {<<p>> : p \in SpeechLevels} \cup (SpeechLevels \X SpeechLevels),
     rules : Nat, sessions : Nat]

Sound(e) == e.correct <= e.attempts

\* Mutant: any other level counts as a lower one.
Differs(e, p) == p # e.current

Lower(e, p) == ladder_rank[p] < ladder_rank[e.current]

TwoRecentLower(e) ==
    Len(e.predictions) = 2 /\ Lower(e, e.predictions[1]) /\ Lower(e, e.predictions[2])

SomeLower(e) == e.rules > 0 \/ \E i \in DOMAIN e.predictions : Lower(e, e.predictions[i])

LowAccuracy(e) == e.attempts > 0 /\ 10 * e.correct < 7 * e.attempts

\* Mutant: low accuracy alone lowers a child.
DescendsOnAccuracy(e) ==
    /\ e.current # "L0"
    /\ TwoRecentLower(e) \/ LowAccuracy(e) \/ (e.current = "L2" /\ e.rules >= 2)

\* L2 goes down to L0 only on rule evidence, twice if nothing else speaks for it.
Descends(e) ==
    /\ e.current # "L0"
    /\ \/ /\ e.current # "L2" \/ e.rules > 0
          /\ TwoRecentLower(e) \/ (LowAccuracy(e) /\ SomeLower(e))
       \/ e.current = "L2" /\ e.rules >= 2

Ascends(e) ==
    /\ e.current \notin {"L0", "L4"}
    /\ e.sessions >= 2 /\ e.attempts >= 4 /\ 10 * e.correct >= 9 * e.attempts
    /\ Len(e.predictions) = 2
    /\ \A i \in 1 .. 2 :
        ladder_rank[e.predictions[i]] >= ladder_rank[one_step_higher[e.current]]

decide_ladder_adjustment(e) ==
    CASE Descends(e) -> [action |-> "ADJUST_DOWN", current |-> e.current,
                         recommended |-> one_step_lower[e.current]]
      [] ~ Descends(e) /\ Ascends(e) -> [action |-> "UPGRADE", current |-> e.current,
                                         recommended |-> one_step_higher[e.current]]
      [] OTHER -> [action |-> IF e.sessions < 2 \/ e.attempts < 4
                              THEN "INSUFFICIENT_EVIDENCE" ELSE "MAINTAIN",
                   current |-> e.current, recommended |-> e.current]

Decisions == [action : {"ADJUST_DOWN", "UPGRADE", "MAINTAIN", "INSUFFICIENT_EVIDENCE"},
              current : Levels, recommended : Levels]

\* approve accepts only these.
Moves(d) == d.action \in {"ADJUST_DOWN", "UPGRADE"}
OneStep(d) == ladder_rank[d.recommended] - ladder_rank[d.current] \in {1, -1}

===========================================================================
