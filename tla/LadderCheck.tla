---------------------------- MODULE LadderCheck ----------------------------
(***************************************************************************)
(* decide_ladder_adjustment on every bounded piece of evidence.            *)
(***************************************************************************)
EXTENDS LadderPolicy

CONSTANTS MaxAnswers, MaxRules, MaxSessions
ASSUME BoundsAssumption == {MaxAnswers, MaxRules, MaxSessions} \subseteq Nat

VARIABLES evidence, verdict
policyVars == <<evidence, verdict>>

Bounded ==
    {e \in [current : Levels, correct : 0 .. MaxAnswers, attempts : 0 .. MaxAnswers,
            predictions : {<<>>} \cup {<<p>> : p \in SpeechLevels}
                          \cup (SpeechLevels \X SpeechLevels),
            rules : 0 .. MaxRules, sessions : 0 .. MaxSessions] : Sound(e)}

Rank(e) == ladder_rank[decide_ladder_adjustment(e).recommended]

Given == evidence \in Bounded /\ verdict = <<>>

Decide ==
    /\ verdict = <<>>
    /\ verdict' = decide_ladder_adjustment(evidence)
    /\ UNCHANGED evidence

PolicySpec == Given /\ [][Decide]_policyVars

\* A recommendation that asks for a change moves exactly one step, in the
\* direction it names, so approve never refuses it as too far.
MovesOneStep ==
    verdict # <<>> =>
        /\ Moves(verdict) <=> OneStep(verdict)
        /\ Moves(verdict) =>
             (verdict.action = "UPGRADE"
                <=> ladder_rank[verdict.recommended] > ladder_rank[verdict.current])
        /\ ~ Moves(verdict) => verdict.recommended = verdict.current

\* Doing better never lowers the recommendation: one more answer right, a
\* higher prediction in either place, or one piece of rule evidence less.
BetterIsNotLower ==
    verdict # <<>> =>
        /\ evidence.correct < evidence.attempts =>
             Rank([evidence EXCEPT !.correct = @ + 1]) >= Rank(evidence)
        /\ \A i \in DOMAIN evidence.predictions, p \in SpeechLevels :
             ladder_rank[p] >= ladder_rank[evidence.predictions[i]] =>
                Rank([evidence EXCEPT !.predictions[i] = p]) >= Rank(evidence)
        /\ evidence.rules > 0 => Rank([evidence EXCEPT !.rules = @ - 1]) >= Rank(evidence)

\* Nobody is lowered without a sign of lower speech, nor to solving together
\* without rule evidence, whatever the speech and the accuracy; and nobody is
\* raised who gave such a sign in the last two utterances.
NoUnsupportedMove ==
    verdict # <<>> =>
        /\ verdict.action = "ADJUST_DOWN" =>
             SomeLower(evidence) /\ (verdict.recommended = "L0" => evidence.rules > 0)
        /\ verdict.action = "UPGRADE" =>
             \A i \in DOMAIN evidence.predictions : ~ Lower(evidence, evidence.predictions[i])

\* Every recommendation is one supported step, or no step.
OneSupportedStep == MovesOneStep /\ NoUnsupportedMove

===========================================================================
