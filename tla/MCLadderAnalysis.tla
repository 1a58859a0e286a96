------------------------- MODULE MCLadderAnalysis -------------------------
(* Small instances of LadderAnalysis for TLC. *)
EXTENDS LadderAnalysis

CONSTANTS add, money

Registration(skill, current, correct, rules) ==
    [skill |-> skill, current |-> current, correct |-> correct, attempts |-> 4, rules |-> rules]

\* A job about a skill at the level of a new learner, and one for when that was
\* raised.
NewLearner == {Registration(add, "L2", 4, 0), Registration(add, "L3", 4, 0)}
\* A skill on which the jobs disagree.
OneSkill == {Registration(add, "L3", 4, 0), Registration(add, "L3", 2, 1)}

Known == [s \in Skills |-> IF s = add THEN "L3" ELSE None]
Unknown == [s \in Skills |-> None]

===========================================================================
