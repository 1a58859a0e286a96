--------------------------- MODULE LadderProofs ---------------------------
(***************************************************************************)
(* Proofs about the expression ladder: the recommendation policy on any    *)
(* evidence, and the analysis jobs with any number of workers, approvals   *)
(* and dialogues.                                                          *)
(***************************************************************************)
EXTENDS LadderAnalysis, LadderCheck, TLAPS

(* The policy. *)

LEMMA LadderTable ==
  /\ ladder_rank["L0"] = 0 /\ ladder_rank["L2"] = 1
  /\ ladder_rank["L3"] = 2 /\ ladder_rank["L4"] = 3
  /\ one_step_lower["L4"] = "L3" /\ one_step_lower["L3"] = "L2"
  /\ one_step_lower["L2"] = "L0" /\ one_step_lower["L0"] = "L0"
  /\ one_step_higher["L0"] = "L2" /\ one_step_higher["L2"] = "L3"
  /\ one_step_higher["L3"] = "L4" /\ one_step_higher["L4"] = "L4"
BY DEF ladder_rank, one_step_lower, one_step_higher, Levels

\* The three outcomes of decide_ladder_adjustment.
LEMMA Outcomes ==
  ASSUME NEW e \in Evidence
  PROVE  /\ Descends(e) => decide_ladder_adjustment(e) =
                [action |-> "ADJUST_DOWN", current |-> e.current,
                 recommended |-> one_step_lower[e.current]]
         /\ ~ Descends(e) /\ Ascends(e) => decide_ladder_adjustment(e) =
                [action |-> "UPGRADE", current |-> e.current,
                 recommended |-> one_step_higher[e.current]]
         /\ ~ Descends(e) /\ ~ Ascends(e) => decide_ladder_adjustment(e) =
                [action |-> IF e.sessions < 2 \/ e.attempts < 4
                            THEN "INSUFFICIENT_EVIDENCE" ELSE "MAINTAIN",
                 current |-> e.current, recommended |-> e.current]
BY DEF decide_ladder_adjustment

\* A decision is about the level the evidence was collected at.
LEMMA DecisionType ==
  ASSUME NEW e \in Evidence
  PROVE  /\ decide_ladder_adjustment(e) \in Decisions
         /\ decide_ladder_adjustment(e).current = e.current
<1>1. e.current \in Levels
  BY DEF Evidence
<1>2. one_step_lower[e.current] \in Levels /\ one_step_higher[e.current] \in Levels
  BY <1>1, LadderTable DEF Levels
<1> QED
  BY <1>1, <1>2, Outcomes DEF Decisions

\* A decision that moves is one step in the direction it names, and only such
\* a decision is a step: approve's second test never refuses a move.
LEMMA DecisionStep ==
  ASSUME NEW e \in Evidence
  PROVE  LET d == decide_ladder_adjustment(e) IN
         /\ Moves(d) <=> OneStep(d)
         /\ Moves(d) => (d.action = "UPGRADE"
                           <=> ladder_rank[d.recommended] > ladder_rank[d.current])
         /\ ~ Moves(d) => d.recommended = d.current
<1> DEFINE d == decide_ladder_adjustment(e)
<1>1. e.current \in Levels
  BY DEF Evidence
<1>2. CASE Descends(e)
  <2>1. d = [action |-> "ADJUST_DOWN", current |-> e.current,
             recommended |-> one_step_lower[e.current]]
    BY <1>2, Outcomes
  <2>2. e.current \in {"L2", "L3", "L4"}
    BY <1>1, <1>2 DEF Descends, Levels
  <2> HIDE DEF d
  <2>3. /\ d.action = "ADJUST_DOWN"
        /\ ladder_rank[d.recommended] - ladder_rank[d.current] = -1
        /\ ~ ladder_rank[d.recommended] > ladder_rank[d.current]
    BY <2>1, <2>2, LadderTable
  <2>4. Moves(d) /\ OneStep(d)
    BY <2>3 DEF Moves, OneStep
  <2> QED
    BY <2>3, <2>4 DEF d
<1>3. CASE ~ Descends(e) /\ Ascends(e)
  <2>1. d = [action |-> "UPGRADE", current |-> e.current,
             recommended |-> one_step_higher[e.current]]
    BY <1>3, Outcomes
  <2>2. e.current \in {"L2", "L3"}
    BY <1>1, <1>3 DEF Ascends, Levels
  <2> HIDE DEF d
  <2>3. /\ d.action = "UPGRADE"
        /\ ladder_rank[d.recommended] - ladder_rank[d.current] = 1
        /\ ladder_rank[d.recommended] > ladder_rank[d.current]
    BY <2>1, <2>2, LadderTable
  <2>4. Moves(d) /\ OneStep(d)
    BY <2>3 DEF Moves, OneStep
  <2> QED
    BY <2>3, <2>4 DEF d
<1>4. CASE ~ Descends(e) /\ ~ Ascends(e)
  <2>1. d.action \in {"INSUFFICIENT_EVIDENCE", "MAINTAIN"} /\ d.recommended = d.current
        /\ d.current \in Levels
    BY <1>1, <1>4, Outcomes
  <2> HIDE DEF d
  <2>2. ~ Moves(d) /\ ~ OneStep(d)
    BY <2>1, LadderTable DEF Moves, OneStep, Levels
  <2> QED
    BY <2>1, <2>2 DEF d
<1> QED
  BY <1>2, <1>3, <1>4

\* Evidence that descends only where the other does, and ascends where it
\* does, is answered with no lower a recommendation.
LEMMA RankOrder ==
  ASSUME NEW e \in Evidence, NEW f \in Evidence, f.current = e.current,
         Descends(f) => Descends(e), Ascends(e) => Ascends(f)
  PROVE  Rank(f) >= Rank(e)
<1>1. e.current \in Levels
  BY DEF Evidence
<1>2. /\ decide_ladder_adjustment(e).recommended =
            IF Descends(e) THEN one_step_lower[e.current]
            ELSE IF Ascends(e) THEN one_step_higher[e.current] ELSE e.current
      /\ decide_ladder_adjustment(f).recommended =
            IF Descends(f) THEN one_step_lower[e.current]
            ELSE IF Ascends(f) THEN one_step_higher[e.current] ELSE e.current
  BY Outcomes
<1> QED
  BY <1>1, <1>2, LadderTable DEF Rank, Levels

LEMMA MoreCorrect ==
  ASSUME NEW e \in Evidence
  PROVE  Rank([e EXCEPT !.correct = @ + 1]) >= Rank(e)
<1> DEFINE f == [e EXCEPT !.correct = @ + 1]
<1>1. /\ f \in Evidence /\ f.current = e.current /\ f.correct = e.correct + 1
      /\ f.attempts = e.attempts /\ f.predictions = e.predictions
      /\ f.rules = e.rules /\ f.sessions = e.sessions
      /\ e.correct \in Nat /\ e.attempts \in Nat
  BY DEF Evidence
<1> HIDE DEF f
<1>2. LowAccuracy(f) => LowAccuracy(e)
  BY <1>1 DEF LowAccuracy
<1>3. TwoRecentLower(f) = TwoRecentLower(e) /\ SomeLower(f) = SomeLower(e)
  BY <1>1 DEF TwoRecentLower, SomeLower, Lower
<1>4. Descends(f) => Descends(e)
  BY <1>1, <1>2, <1>3 DEF Descends
<1>5. Ascends(e) => Ascends(f)
  BY <1>1 DEF Ascends
<1> QED
  BY <1>1, <1>4, <1>5, RankOrder DEF f

LEMMA FewerRules ==
  ASSUME NEW e \in Evidence, e.rules > 0
  PROVE  Rank([e EXCEPT !.rules = @ - 1]) >= Rank(e)
<1> DEFINE f == [e EXCEPT !.rules = @ - 1]
<1>1. /\ f \in Evidence /\ f.current = e.current /\ f.correct = e.correct
      /\ f.attempts = e.attempts /\ f.predictions = e.predictions
      /\ f.rules = e.rules - 1 /\ f.sessions = e.sessions /\ e.rules \in Nat
  BY DEF Evidence
<1> HIDE DEF f
<1>2. /\ TwoRecentLower(f) = TwoRecentLower(e) /\ LowAccuracy(f) = LowAccuracy(e)
      /\ SomeLower(f) => SomeLower(e)
  BY <1>1 DEF TwoRecentLower, SomeLower, LowAccuracy, Lower
<1>3. Descends(f) => Descends(e)
  BY <1>1, <1>2 DEF Descends
<1>4. Ascends(e) => Ascends(f)
  BY <1>1 DEF Ascends
<1> QED
  BY <1>1, <1>3, <1>4, RankOrder DEF f

\* The last two predictions, one, or none.
LEMMA PredictionCases ==
  ASSUME NEW e \in Evidence
  PROVE  /\ e.predictions \in Seq(SpeechLevels)
         /\ Len(e.predictions) \in 0 .. 2
         /\ \A q \in Seq(SpeechLevels) : Len(q) = Len(e.predictions) =>
              q \in {<<>>} \cup {<<p>> : p \in SpeechLevels} \cup (SpeechLevels \X SpeechLevels)
<1>1. e.predictions \in
        {<<>>} \cup {<<p>> : p \in SpeechLevels} \cup (SpeechLevels \X SpeechLevels)
  BY DEF Evidence
<1>2. e.predictions \in Seq(SpeechLevels) /\ Len(e.predictions) \in 0 .. 2
  <2>1. CASE e.predictions = <<>>
    BY <2>1
  <2>2. CASE \E p \in SpeechLevels : e.predictions = <<p>>
    BY <2>2
  <2>3. CASE e.predictions \in SpeechLevels \X SpeechLevels
    <3>1. PICK p, r \in SpeechLevels : e.predictions = <<p, r>>
      BY <2>3
    <3> QED
      BY <3>1
  <2> QED
    BY <1>1, <2>1, <2>2, <2>3
<1>3. ASSUME NEW q \in Seq(SpeechLevels), Len(q) \in 0 .. 2
      PROVE  q \in {<<>>} \cup {<<p>> : p \in SpeechLevels} \cup (SpeechLevels \X SpeechLevels)
  <2>1. CASE Len(q) = 0
    BY <1>3, <2>1
  <2>2. CASE Len(q) = 1
    BY <1>3, <2>2
  <2>3. CASE Len(q) = 2
    BY <1>3, <2>3
  <2> QED
    BY <1>3, <2>1, <2>2, <2>3
<1> QED
  BY <1>2, <1>3

LEMMA HigherPrediction ==
  ASSUME NEW e \in Evidence, NEW i \in DOMAIN e.predictions, NEW p \in SpeechLevels,
         ladder_rank[p] >= ladder_rank[e.predictions[i]]
  PROVE  Rank([e EXCEPT !.predictions[i] = p]) >= Rank(e)
<1> DEFINE f == [e EXCEPT !.predictions[i] = p]
           q == [e.predictions EXCEPT ![i] = p]
<1>1. /\ e.predictions \in Seq(SpeechLevels) /\ Len(e.predictions) \in 0 .. 2
      /\ i \in 1 .. Len(e.predictions)
  BY PredictionCases
<1>2. /\ q \in Seq(SpeechLevels) /\ Len(q) = Len(e.predictions)
      /\ \A k \in 1 .. Len(q) : q[k] = IF k = i THEN p ELSE e.predictions[k]
  BY <1>1
<1>3. q \in {<<>>} \cup {<<r>> : r \in SpeechLevels} \cup (SpeechLevels \X SpeechLevels)
  BY <1>2, PredictionCases
<1> HIDE DEF q
<1>4. /\ f \in Evidence /\ f.current = e.current /\ f.correct = e.correct
      /\ f.attempts = e.attempts /\ f.predictions = q
      /\ f.rules = e.rules /\ f.sessions = e.sessions /\ e.current \in Levels
  <2>1. f = [e EXCEPT !.predictions = q]
    BY DEF q, Evidence
  <2> QED
    BY <1>3, <2>1 DEF Evidence
<1> HIDE DEF f
<1>5. \A k \in 1 .. Len(q) :
        /\ q[k] \in Levels /\ e.predictions[k] \in Levels
        /\ ladder_rank[q[k]] >= ladder_rank[e.predictions[k]]
        /\ ladder_rank[q[k]] \in Nat /\ ladder_rank[e.predictions[k]] \in Nat
  BY <1>1, <1>2, LadderTable DEF SpeechLevels, Levels
<1>6. \A k \in 1 .. Len(q) : Lower(f, q[k]) => Lower(e, e.predictions[k])
  BY <1>4, <1>5, LadderTable DEF Lower, Levels
<1>7. /\ TwoRecentLower(f) => TwoRecentLower(e)
      /\ SomeLower(f) => SomeLower(e)
      /\ LowAccuracy(f) = LowAccuracy(e)
  BY <1>1, <1>2, <1>4, <1>6 DEF TwoRecentLower, SomeLower, LowAccuracy
<1>8. Descends(f) => Descends(e)
  BY <1>4, <1>7 DEF Descends
<1>9. Ascends(e) => Ascends(f)
  <2>1. ladder_rank[one_step_higher[e.current]] \in Nat
    BY <1>4, LadderTable DEF Levels
  <2> QED
    BY <1>2, <1>4, <1>5, <2>1 DEF Ascends
<1> QED
  BY <1>4, <1>8, <1>9, RankOrder DEF f

LEMMA BoundedEvidence == ASSUME NEW e \in Bounded PROVE e \in Evidence
BY BoundsAssumption DEF Bounded, Evidence

\* Every decision the policy makes, however many answers, sessions and pieces
\* of rule evidence there are.
PolicyInv ==
    /\ evidence \in Bounded
    /\ verdict # <<>> => verdict = decide_ladder_adjustment(evidence)

LEMMA PolicySafe == PolicySpec => []PolicyInv
<1>1. Given => PolicyInv
  BY DEF Given, PolicyInv
<1>2. PolicyInv /\ [Decide]_policyVars => PolicyInv'
  BY DEF PolicyInv, Decide, policyVars
<1> QED
  BY <1>1, <1>2, PTL DEF PolicySpec

\* Doing better is never answered with a lower level: decide_ladder_adjustment
\* is monotone in correct answers, predictions and the absence of rule evidence.
THEOREM BetterIsNotLowerHolds == PolicySpec => []BetterIsNotLower
<1>1. PolicyInv => BetterIsNotLower
  BY BoundedEvidence, MoreCorrect, HigherPrediction, FewerRules
  DEF PolicyInv, BetterIsNotLower
<1> QED
  BY <1>1, PolicySafe, PTL

LEMMA SupportedMove ==
  ASSUME NEW e \in Evidence
  PROVE  LET d == decide_ladder_adjustment(e) IN
         /\ d.action = "ADJUST_DOWN" => SomeLower(e) /\ (d.recommended = "L0" => e.rules > 0)
         /\ d.action = "UPGRADE" =>
              \A i \in DOMAIN e.predictions : ~ Lower(e, e.predictions[i])
<1> DEFINE d == decide_ladder_adjustment(e)
<1>1. e.current \in Levels /\ e.rules \in Nat
  BY DEF Evidence
<1>2. /\ d.action = "ADJUST_DOWN" => Descends(e) /\ d.recommended = one_step_lower[e.current]
      /\ d.action = "UPGRADE" => Ascends(e)
  BY Outcomes
<1>3. ASSUME Descends(e)
      PROVE  SomeLower(e) /\ (one_step_lower[e.current] = "L0" => e.rules > 0)
  <2>1. TwoRecentLower(e) => SomeLower(e)
    BY PredictionCases DEF TwoRecentLower, SomeLower
  <2>2. SomeLower(e)
    BY <1>1, <1>3, <2>1 DEF Descends, SomeLower
  <2>3. one_step_lower[e.current] = "L0" => e.current = "L2"
    BY <1>1, <1>3, LadderTable DEF Descends, Levels
  <2> QED
    BY <1>1, <1>3, <2>2, <2>3 DEF Descends
<1>4. ASSUME Ascends(e), NEW i \in DOMAIN e.predictions
      PROVE  ~ Lower(e, e.predictions[i])
  <2>1. i \in 1 .. 2 /\ e.predictions[i] \in Levels
    BY <1>4, PredictionCases DEF Ascends, SpeechLevels
  <2>2. ladder_rank[e.predictions[i]] >= ladder_rank[one_step_higher[e.current]]
    BY <1>4, <2>1 DEF Ascends
  <2> QED
    BY <1>1, <2>1, <2>2, LadderTable DEF Lower, Levels
<1> HIDE DEF d
<1>5. QED
  BY <1>2, <1>3, <1>4 DEF d

\* Every recommendation is one step that the evidence supports, or no step.
THEOREM OneSupportedStepHolds == PolicySpec => []OneSupportedStep
<1>1. PolicyInv => OneSupportedStep
  <2> SUFFICES ASSUME PolicyInv, verdict # <<>> PROVE OneSupportedStep
    BY DEF OneSupportedStep, MovesOneStep, NoUnsupportedMove
  <2>1. evidence \in Evidence /\ verdict = decide_ladder_adjustment(evidence)
    BY BoundedEvidence DEF PolicyInv
  <2>2. MovesOneStep
    BY <2>1, DecisionStep DEF MovesOneStep
  <2>3. NoUnsupportedMove
    BY <2>1, SupportedMove DEF NoUnsupportedMove
  <2> QED
    BY <2>2, <2>3 DEF OneSupportedStep
<1> QED
  BY <1>1, PolicySafe, PTL

---------------------------------------------------------------------------
(* The analysis jobs. *)

\* The recommendation stored for a job is a decision about its level.
LEMMA DecisionFacts ==
  ASSUME NEW b \in Bodies,
         NEW ps \in {<<>>} \cup {<<p>> : p \in SpeechLevels} \cup (SpeechLevels \X SpeechLevels)
  PROVE  /\ Decision(b, ps) \in Decisions /\ Decision(b, ps).current = b.current
         /\ Moves(Decision(b, ps)) <=> OneStep(Decision(b, ps))
<1> DEFINE e == [current |-> b.current, correct |-> b.correct, attempts |-> b.attempts,
                 predictions |-> ps, rules |-> b.rules, sessions |-> 2]
<1>1. e \in Evidence /\ e.current = b.current /\ Decision(b, ps) = decide_ladder_adjustment(e)
  BY JobsAssumption DEF Evidence, Decision
<1> HIDE DEF e
<1> QED
  BY <1>1, DecisionType, DecisionStep

LEMMA StableLevelType ==
  ASSUME NEW p \in Profiles, NEW s \in Skills
  PROVE  StableLevel(p, s) \in Levels /\ update_skill_profile(p, s) \in Profiles
BY DEF StableLevel, Default, Levels, Profiles, update_skill_profile

LEMMA InitJobs == Init => TypeOK /\ AnalysisInv
<1> SUFFICES ASSUME Init PROVE TypeOK /\ AnalysisInv
  OBVIOUS
<1>1. TypeOK
  BY JobsAssumption DEF Init, TypeOK, Profiles, Blank
<1>2. ShownIsApprovable /\ LeasesAreOld /\ OneAnalyst
  BY DEF Init, ShownIsApprovable, LeasesAreOld, OneAnalyst
<1>3. RowsAreLocked
  BY DEF Init, RowsAreLocked, ApprovalInv, Holding
<1> QED
  BY <1>1, <1>2, <1>3 DEF AnalysisInv

\* What the approvals rely on, as long as nobody touches the profile or the
\* approvals, and completed jobs stay what they are.
CompletedKept ==
    \A j \in Jobs : status[j] = "completed" =>
        status'[j] = "completed" /\ decision'[j] = decision[j] /\ body'[j] = body[j]

LEMMA RowsKept ==
  ASSUME RowsAreLocked, CompletedKept, UNCHANGED <<profile, reader>>
  PROVE  RowsAreLocked'
<1> USE DEF profile, reader
<1>1. ASSUME NEW a \in Approvers PROVE ApprovalInv(a)'
  BY DEF RowsAreLocked, ApprovalInv, CompletedKept, StableLevel
<1> QED
  BY <1>1 DEF RowsAreLocked, Holding

LEMMA EnqueueJobs ==
  ASSUME TypeOK, AnalysisInv, NEW j \in Jobs, enqueue(j)
  PROVE  TypeOK' /\ AnalysisInv'
<1> USE DEF workVars, profile, reader
<1>1. TypeOK'
  BY DEF TypeOK, enqueue
<1>2. ShownIsApprovable'
  BY DEF TypeOK, enqueue, AnalysisInv, ShownIsApprovable
<1>3. LeasesAreOld' /\ OneAnalyst'
  BY DEF enqueue, AnalysisInv, LeasesAreOld, OneAnalyst
<1>4. CompletedKept
  BY DEF TypeOK, enqueue, CompletedKept
<1>5. RowsAreLocked'
  BY <1>4, RowsKept DEF enqueue, AnalysisInv
<1> QED
  BY <1>1, <1>2, <1>3, <1>5 DEF AnalysisInv

LEMMA ElapseJobs ==
  ASSUME TypeOK, AnalysisInv, NEW j \in Jobs, Elapse(j)
  PROVE  TypeOK' /\ AnalysisInv'
<1> USE DEF workVars, profile, reader
<1>1. TypeOK'
  BY DEF TypeOK, Elapse
<1>2. ShownIsApprovable' /\ LeasesAreOld' /\ OneAnalyst'
  BY DEF Elapse, AnalysisInv, ShownIsApprovable, LeasesAreOld, OneAnalyst
<1>3. RowsAreLocked'
  BY RowsKept DEF Elapse, AnalysisInv, CompletedKept
<1> QED
  BY <1>1, <1>2, <1>3 DEF AnalysisInv

\* A claim gives its jobs a new attempt, which no other worker has a lease for.
LEMMA ClaimJobs ==
  ASSUME TypeOK, AnalysisInv, NEW w \in Workers, claim_pending(w)
  PROVE  TypeOK' /\ AnalysisInv'
<1> USE DEF workVars, profile, reader
<1>0. PICK q \in UNION {[1 .. n -> Claimable] : n \in 1 .. BatchSize} :
        LET taken == {q[i] : i \in DOMAIN q} IN
        /\ batch' = [batch EXCEPT ![w] = q]
        /\ status' = [j \in Jobs |-> IF j \in taken THEN "running" ELSE status[j]]
        /\ attempts' = [j \in Jobs |-> IF j \in taken THEN NextAttempt(j) ELSE attempts[j]]
        /\ due' = [j \in Jobs |-> IF j \in taken THEN FALSE ELSE due[j]]
        /\ error' = [j \in Jobs |-> IF j \in taken THEN None ELSE error[j]]
        /\ lease' = [lease EXCEPT ![w] =
                        [j \in Jobs |-> IF j \in taken THEN NextAttempt(j) ELSE 0]]
  BY DEF claim_pending
<1> DEFINE taken == {q[i] : i \in DOMAIN q}
<1>1. q \in Seq(Jobs) /\ taken \subseteq Claimable
  <2>1. PICK n \in 1 .. BatchSize : q \in [1 .. n -> Claimable]
    OBVIOUS
  <2>2. n \in Nat /\ Claimable \subseteq Jobs
    BY JobsAssumption DEF Claimable
  <2> QED
    BY <2>1, <2>2
<1>2. /\ batch' = [batch EXCEPT ![w] = q]
      /\ status' = [j \in Jobs |-> IF j \in taken THEN "running" ELSE status[j]]
      /\ attempts' = [j \in Jobs |-> IF j \in taken THEN NextAttempt(j) ELSE attempts[j]]
      /\ due' = [j \in Jobs |-> IF j \in taken THEN FALSE ELSE due[j]]
      /\ error' = [j \in Jobs |-> IF j \in taken THEN None ELSE error[j]]
      /\ lease' = [lease EXCEPT ![w] =
                      [j \in Jobs |-> IF j \in taken THEN NextAttempt(j) ELSE 0]]
      /\ UNCHANGED <<body, decision, approved, profile, reader, requeues>>
  BY <1>0 DEF claim_pending
<1>3. \A j \in taken : /\ j \in Jobs /\ status[j] \in {"pending", "running"}
                       /\ NextAttempt(j) \in 1 .. MaxAttempts /\ NextAttempt(j) = attempts[j] + 1
  BY <1>1, JobsAssumption DEF Claimable, NextAttempt, TypeOK
<1> HIDE DEF taken
<1>4. /\ batch' \in [Workers -> Seq(Jobs)]
      /\ status' \in [Jobs -> {"absent", "pending", "running", "completed", "failed"}]
      /\ due' \in [Jobs -> BOOLEAN]
      /\ error' \in [Jobs -> Errors \cup {None}]
  BY <1>1, <1>2 DEF TypeOK
<1>5. attempts' \in [Jobs -> 0 .. MaxAttempts]
  BY <1>2, <1>3, JobsAssumption DEF TypeOK
<1>6. lease' \in [Workers -> [Jobs -> 0 .. MaxAttempts]]
  BY <1>2, <1>3, JobsAssumption DEF TypeOK
<1>7. TypeOK'
  BY <1>2, <1>4, <1>5, <1>6 DEF TypeOK
<1>8. ShownIsApprovable' /\ CompletedKept
  BY <1>2, <1>3 DEF AnalysisInv, ShownIsApprovable, CompletedKept, TypeOK
<1>9. /\ \A j \in Jobs : lease'[w][j] = IF j \in taken THEN attempts[j] + 1 ELSE 0
      /\ \A v \in Workers, j \in Jobs : v # w => lease'[v][j] = lease[v][j]
      /\ \A j \in Jobs : attempts'[j] = IF j \in taken THEN attempts[j] + 1 ELSE attempts[j]
      /\ \A j \in Jobs : attempts[j] \in Nat
      /\ \A v \in Workers, j \in Jobs : lease[v][j] \in Nat /\ lease[v][j] <= attempts[j]
  BY <1>2, <1>3, JobsAssumption DEF TypeOK, AnalysisInv, LeasesAreOld
<1>10. LeasesAreOld'
  BY <1>9 DEF LeasesAreOld
<1>11. OneAnalyst'
  <2> SUFFICES ASSUME NEW u \in Workers, NEW v \in Workers, NEW j \in Jobs,
                      u # v, lease'[u][j] # 0
               PROVE  lease'[u][j] # lease'[v][j]
    BY DEF OneAnalyst
  <2> QED
    BY <1>9 DEF AnalysisInv, OneAnalyst
<1> QED
  BY <1>2, <1>7, <1>8, <1>10, <1>11, RowsKept DEF AnalysisInv

\* Letting go of a job: the lease is dropped, the batch gets shorter.
LEMMA AdvanceLeases ==
  ASSUME TypeOK, AnalysisInv, NEW w \in Workers, batch[w] # <<>>, Advance(w),
         UNCHANGED attempts
  PROVE  /\ Head(batch[w]) \in Jobs
         /\ batch' \in [Workers -> Seq(Jobs)]
         /\ lease' \in [Workers -> [Jobs -> 0 .. MaxAttempts]]
         /\ LeasesAreOld' /\ OneAnalyst'
<1>1. batch[w] \in Seq(Jobs) /\ Head(batch[w]) \in Jobs /\ Tail(batch[w]) \in Seq(Jobs)
  BY DEF TypeOK
<1>2. batch' \in [Workers -> Seq(Jobs)]
  BY <1>1 DEF Advance, TypeOK
<1> DEFINE h == Head(batch[w])
<1>3. lease' = [lease EXCEPT ![w][h] = 0] /\ h \in Jobs
  BY <1>1 DEF Advance
<1> HIDE DEF h
<1>4. \A v \in Workers, j \in Jobs :
        lease'[v][j] = IF v = w /\ j = h THEN 0 ELSE lease[v][j]
  BY <1>3 DEF TypeOK
<1>5. lease' \in [Workers -> [Jobs -> 0 .. MaxAttempts]]
  BY <1>3, JobsAssumption DEF TypeOK
<1>6. LeasesAreOld'
  <2>1. \A v \in Workers, j \in Jobs : lease[v][j] <= attempts[j] /\ 0 <= attempts[j]
    BY JobsAssumption DEF TypeOK, AnalysisInv, LeasesAreOld
  <2> QED
    BY <1>4, <2>1 DEF LeasesAreOld
<1>7. OneAnalyst'
  BY <1>4 DEF AnalysisInv, OneAnalyst
<1> QED
  BY <1>1, <1>2, <1>5, <1>6, <1>7

LEMMA CompleteJobs ==
  ASSUME TypeOK, AnalysisInv, NEW w \in Workers, complete(w)
  PROVE  TypeOK' /\ AnalysisInv'
<1> DEFINE j == Head(batch[w])
<1>1. /\ batch[w] # <<>> /\ Advance(w)
      /\ UNCHANGED <<body, attempts, error, approved, profile, reader, requeues>>
      /\ \/ /\ status[j] = "running"
            /\ status' = [status EXCEPT ![j] = "completed"]
            /\ due' = [due EXCEPT ![j] = TRUE]
            /\ \E ps \in {<<>>} \cup {<<p>> : p \in SpeechLevels}
                          \cup (SpeechLevels \X SpeechLevels) :
                  decision' = [decision EXCEPT ![j] = Decision(body[j], ps)]
         \/ UNCHANGED <<status, due, decision>>
  BY DEF complete, Fenced
<1>2. /\ j \in Jobs /\ batch' \in [Workers -> Seq(Jobs)]
      /\ lease' \in [Workers -> [Jobs -> 0 .. MaxAttempts]]
      /\ LeasesAreOld' /\ OneAnalyst'
  BY <1>1, AdvanceLeases
<1> HIDE DEF j
<1>3. CASE UNCHANGED <<status, due, decision>>
  <2>1. TypeOK'
    BY <1>1, <1>2, <1>3 DEF TypeOK, profile, reader
  <2>2. ShownIsApprovable' /\ CompletedKept
    BY <1>1, <1>3 DEF AnalysisInv, ShownIsApprovable, CompletedKept
  <2> QED
    BY <1>1, <1>2, <2>1, <2>2, RowsKept DEF AnalysisInv
<1>4. CASE /\ status[j] = "running"
           /\ status' = [status EXCEPT ![j] = "completed"]
           /\ due' = [due EXCEPT ![j] = TRUE]
           /\ \E ps \in {<<>>} \cup {<<p>> : p \in SpeechLevels}
                         \cup (SpeechLevels \X SpeechLevels) :
                 decision' = [decision EXCEPT ![j] = Decision(body[j], ps)]
  <2>1. PICK ps \in {<<>>} \cup {<<p>> : p \in SpeechLevels}
                        \cup (SpeechLevels \X SpeechLevels) :
           decision' = [decision EXCEPT ![j] = Decision(body[j], ps)]
    BY <1>4
  <2>2. body[j] \in Bodies
    BY <1>2, <1>4 DEF AnalysisInv, ShownIsApprovable
  <2>3. /\ Decision(body[j], ps) \in Decisions /\ Decision(body[j], ps).current = body[j].current
        /\ Moves(Decision(body[j], ps)) <=> OneStep(Decision(body[j], ps))
    BY <2>2, DecisionFacts
  <2>4. /\ decision' \in [Jobs -> Decisions \cup {None}] /\ decision'[j] = Decision(body[j], ps)
        /\ \A i \in Jobs : i # j => decision'[i] = decision[i] /\ status'[i] = status[i]
        /\ status' \in [Jobs -> {"absent", "pending", "running", "completed", "failed"}]
        /\ due' \in [Jobs -> BOOLEAN]
    BY <1>2, <1>4, <2>1, <2>3 DEF TypeOK
  <2>5. TypeOK'
    BY <1>1, <1>2, <2>4 DEF TypeOK, profile, reader
  <2>6. ShownIsApprovable'
    <3> SUFFICES ASSUME NEW i \in Jobs
                 PROVE  /\ status'[i] # "absent" => body'[i] \in Bodies
                        /\ status'[i] = "completed" =>
                             /\ decision'[i] \in Decisions
                             /\ decision'[i].current = body'[i].current
                             /\ Moves(decision'[i]) <=> OneStep(decision'[i])
      BY DEF ShownIsApprovable
    <3>1. CASE i = j
      BY <1>1, <2>2, <2>3, <2>4, <3>1
    <3>2. CASE i # j
      BY <1>1, <2>4, <3>2 DEF AnalysisInv, ShownIsApprovable
    <3> QED
      BY <3>1, <3>2
  <2>7. CompletedKept
    BY <1>1, <1>4, <2>4 DEF CompletedKept
  <2> QED
    BY <1>1, <1>2, <2>5, <2>6, <2>7, RowsKept DEF AnalysisInv
<1> QED
  BY <1>1, <1>3, <1>4

LEMMA FailJobs ==
  ASSUME TypeOK, AnalysisInv, NEW w \in Workers, fail(w)
  PROVE  TypeOK' /\ AnalysisInv'
<1> DEFINE j == Head(batch[w])
<1>1. /\ batch[w] # <<>> /\ Advance(w)
      /\ UNCHANGED <<body, attempts, decision, approved, profile, reader, requeues>>
      /\ \/ /\ status[j] = "running"
            /\ status' = [status EXCEPT ![j] = "failed"]
            /\ due' = [due EXCEPT ![j] = TRUE]
            /\ \E e \in Errors : error' = [error EXCEPT ![j] = e]
         \/ UNCHANGED <<status, due, error>>
  BY DEF fail, Fenced
<1>2. /\ j \in Jobs /\ batch' \in [Workers -> Seq(Jobs)]
      /\ lease' \in [Workers -> [Jobs -> 0 .. MaxAttempts]]
      /\ LeasesAreOld' /\ OneAnalyst'
  BY <1>1, AdvanceLeases
<1> HIDE DEF j
<1>3. TypeOK'
  <2>1. /\ status' \in [Jobs -> {"absent", "pending", "running", "completed", "failed"}]
        /\ due' \in [Jobs -> BOOLEAN]
    BY <1>1 DEF TypeOK
  <2>2. error' \in [Jobs -> Errors \cup {None}]
    BY <1>1 DEF TypeOK
  <2> QED
    BY <1>1, <1>2, <2>1, <2>2 DEF TypeOK, profile, reader
<1>4. ShownIsApprovable' /\ CompletedKept
  BY <1>1, <1>2 DEF TypeOK, AnalysisInv, ShownIsApprovable, CompletedKept
<1> QED
  BY <1>1, <1>2, <1>3, <1>4, RowsKept DEF AnalysisInv

LEMMA CycleFailsJobs ==
  ASSUME TypeOK, AnalysisInv, NEW w \in Workers, CycleFails(w)
  PROVE  TypeOK' /\ AnalysisInv'
<1> USE DEF jobVars, profile, reader
<1>1. TypeOK'
  <2>1. 0 \in 0 .. MaxAttempts /\ <<>> \in Seq(Jobs)
    BY JobsAssumption
  <2>2. [j \in Jobs |-> 0] \in [Jobs -> 0 .. MaxAttempts]
    BY <2>1
  <2>3. /\ batch' \in [Workers -> Seq(Jobs)]
        /\ lease' \in [Workers -> [Jobs -> 0 .. MaxAttempts]]
    BY <2>1, <2>2 DEF TypeOK, CycleFails
  <2>4. UNCHANGED <<body, status, attempts, due, error, decision, approved, stored, level,
                   step, saw, approving, copy, requeues>>
    BY DEF CycleFails
  <2> QED
    BY <2>3, <2>4 DEF TypeOK
<1>2. LeasesAreOld' /\ OneAnalyst'
  BY JobsAssumption DEF TypeOK, CycleFails, AnalysisInv, LeasesAreOld, OneAnalyst
<1>3. ShownIsApprovable' /\ CompletedKept
  BY DEF CycleFails, AnalysisInv, ShownIsApprovable, CompletedKept
<1> QED
  BY <1>1, <1>2, <1>3, RowsKept DEF AnalysisInv, CycleFails

LEMMA RequeueJobs ==
  ASSUME TypeOK, AnalysisInv, requeue_model_failures
  PROVE  TypeOK' /\ AnalysisInv'
<1> USE DEF workVars, profile, reader
<1>1. TypeOK'
  <2>1. requeues' \in 0 .. MaxRequeues
    BY JobsAssumption DEF TypeOK, requeue_model_failures
  <2>2. /\ status' \in [Jobs -> {"absent", "pending", "running", "completed", "failed"}]
        /\ due' \in [Jobs -> BOOLEAN]
        /\ error' \in [Jobs -> Errors \cup {None}]
    BY DEF TypeOK, requeue_model_failures
  <2>3. UNCHANGED <<body, attempts, decision, approved, batch, lease, stored, level,
                   step, saw, approving, copy>>
    BY DEF requeue_model_failures
  <2> QED
    BY <2>1, <2>2, <2>3 DEF TypeOK
<1>2. LeasesAreOld' /\ OneAnalyst'
  BY DEF requeue_model_failures, AnalysisInv, LeasesAreOld, OneAnalyst
<1>3. ShownIsApprovable' /\ CompletedKept
  BY DEF TypeOK, requeue_model_failures, Requeueable, AnalysisInv, ShownIsApprovable,
         CompletedKept
<1> QED
  BY <1>1, <1>2, <1>3, RowsKept DEF AnalysisInv, requeue_model_failures

\* Steps of approvals and dialogues leave jobs and leases alone.
LEMMA LeasesKept ==
  ASSUME AnalysisInv, UNCHANGED <<body, status, attempts, decision, workVars>>
  PROVE  ShownIsApprovable' /\ LeasesAreOld' /\ OneAnalyst'
BY DEF AnalysisInv, ShownIsApprovable, LeasesAreOld, OneAnalyst, workVars

\* An approval takes the job row when nobody has it, and the profile row when
\* there is one and nobody has it.
LEMMA ApproveReadJobs ==
  ASSUME TypeOK, AnalysisInv, NEW a \in Approvers, NEW j \in Jobs, approve_read(a, j)
  PROVE  TypeOK' /\ AnalysisInv'
<1> USE DEF workVars, profile, reader
<1>1. /\ step[a] = "idle" /\ JobFree(j) /\ ProfileFree
      /\ status[j] = "completed" /\ Moves(decision[j])
      /\ UNCHANGED <<body, status, attempts, due, error, decision, workVars, profile, copy,
                     requeues>>
  BY DEF approve_read
<1>2. ShownIsApprovable' /\ LeasesAreOld' /\ OneAnalyst'
  BY <1>1, LeasesKept
<1>3. CASE approved' = [approved EXCEPT ![j] = TRUE] /\ UNCHANGED <<approving, saw, step>>
  <2>1. TypeOK'
    BY <1>1, <1>3 DEF TypeOK
  <2>2. RowsAreLocked'
    BY <1>1, <1>3, RowsKept DEF AnalysisInv, CompletedKept
  <2> QED
    BY <1>2, <2>1, <2>2 DEF AnalysisInv
<1>4. CASE /\ StableLevel(level, body[j].skill) = decision[j].current
           /\ approving' = [approving EXCEPT ![a] = j]
           /\ saw' = [saw EXCEPT ![a] = stored]
           /\ step' = [step EXCEPT ![a] = "write"]
           /\ UNCHANGED approved
  <2>1. TypeOK'
    BY <1>1, <1>4 DEF TypeOK
  <2>2. /\ approving'[a] = j /\ saw'[a] = stored /\ step'[a] = "write"
        /\ \A b \in Approvers : b # a =>
             approving'[b] = approving[b] /\ saw'[b] = saw[b] /\ step'[b] = step[b]
    BY <1>4 DEF TypeOK
  <2>3. ApprovalInv(a)'
    BY <1>1, <1>4, <2>2 DEF ApprovalInv, StableLevel
  <2>4. ASSUME NEW b \in Approvers, b # a PROVE ApprovalInv(b)'
    BY <1>1, <2>2, <2>4 DEF AnalysisInv, RowsAreLocked, ApprovalInv, StableLevel
  <2>5. \A b, c \in Approvers : approving'[b] = approving'[c] /\ approving'[b] # None => b = c
    BY <1>1, <2>2 DEF JobFree, AnalysisInv, RowsAreLocked
  <2>6. \A b, c \in Approvers : Holding(b)' /\ Holding(c)' => b = c
    BY <1>1, <2>2 DEF ProfileFree, Holding, AnalysisInv, RowsAreLocked
  <2>7. RowsAreLocked'
    BY <2>3, <2>4, <2>5, <2>6 DEF RowsAreLocked
  <2> QED
    BY <1>2, <2>1, <2>7 DEF AnalysisInv
<1> QED
  BY <1>3, <1>4 DEF approve_read

LEMMA ReleaseFacts ==
  ASSUME TypeOK, NEW a \in Approvers, Release(a)
  PROVE  /\ approving' \in [Approvers -> Jobs \cup {None}]
         /\ saw' \in [Approvers \cup Dialogues -> BOOLEAN]
         /\ step' \in [Approvers \cup Dialogues -> {"idle", "write", "get", "put"}]
         /\ approving'[a] = None /\ step'[a] = "idle"
         /\ \A b \in Approvers : b # a =>
              approving'[b] = approving[b] /\ saw'[b] = saw[b] /\ step'[b] = step[b]
BY DEF TypeOK, Release

\* The commit replaces the level it checked: nobody else holds the profile
\* row, and the others that saw none find one now.
LEMMA ApproveCommitJobs ==
  ASSUME TypeOK, AnalysisInv, NEW a \in Approvers, approve_commit(a)
  PROVE  TypeOK' /\ AnalysisInv'
<1> USE DEF workVars, profile, reader
<1> DEFINE j == approving[a]
<1>1. /\ step[a] = "write" /\ (saw[a] \/ ~ stored) /\ stored' = TRUE /\ Release(a)
      /\ level' = [level EXCEPT ![body[j].skill] = decision[j].recommended]
      /\ approved' = [approved EXCEPT ![j] = TRUE]
      /\ UNCHANGED <<body, status, attempts, due, error, decision, workVars, copy, requeues>>
  BY DEF approve_commit
<1>2. ShownIsApprovable' /\ LeasesAreOld' /\ OneAnalyst'
  BY <1>1, LeasesKept
<1>3. /\ j \in Jobs /\ status[j] = "completed" /\ saw[a] => stored
      /\ body[j] \in Bodies /\ decision[j] \in Decisions
  BY <1>1 DEF AnalysisInv, RowsAreLocked, ApprovalInv, ShownIsApprovable
<1> HIDE DEF j
<1>4. TypeOK'
  <2>1. level' \in Profiles
    BY <1>1, <1>3 DEF TypeOK, Profiles, Decisions
  <2>2. approved' \in [Jobs -> BOOLEAN]
    BY <1>1 DEF TypeOK
  <2> QED
    BY <1>1, <2>1, <2>2, ReleaseFacts DEF TypeOK
<1>5. ASSUME NEW b \in Approvers, b # a PROVE ApprovalInv(b)' /\ ~ Holding(b)'
  <2>1. ~ Holding(b)
    BY <1>1, <1>5 DEF Holding, AnalysisInv, RowsAreLocked, ApprovalInv
  <2>2. approving'[b] = approving[b] /\ saw'[b] = saw[b] /\ step'[b] = step[b]
    BY <1>1, <1>5, ReleaseFacts
  <2>3. ApprovalInv(b)
    BY DEF AnalysisInv, RowsAreLocked
  <2> QED
    BY <1>1, <2>1, <2>2, <2>3 DEF ApprovalInv, Holding
<1>6. ApprovalInv(a)' /\ approving'[a] = None /\ step'[a] = "idle"
  BY <1>1, ReleaseFacts DEF ApprovalInv
<1>7. \A b, c \in Approvers : approving'[b] = approving'[c] /\ approving'[b] # None => b = c
  BY <1>1, ReleaseFacts DEF AnalysisInv, RowsAreLocked
<1>8. RowsAreLocked'
  BY <1>5, <1>6, <1>7 DEF RowsAreLocked, Holding
<1> QED
  BY <1>2, <1>4, <1>8 DEF AnalysisInv

LEMMA ApproveFailJobs ==
  ASSUME TypeOK, AnalysisInv, NEW a \in Approvers, approve_fail(a)
  PROVE  TypeOK' /\ AnalysisInv'
<1> USE DEF jobVars, workVars, profile, reader
<1>1. Release(a) /\ UNCHANGED <<jobVars, workVars, profile, copy, requeues>>
  BY DEF approve_fail
<1>2. TypeOK'
  BY <1>1, ReleaseFacts DEF TypeOK
<1>3. ShownIsApprovable' /\ LeasesAreOld' /\ OneAnalyst'
  BY <1>1, LeasesKept
<1>4. ASSUME NEW b \in Approvers PROVE ApprovalInv(b)'
  BY <1>1, ReleaseFacts DEF AnalysisInv, RowsAreLocked, ApprovalInv, StableLevel
<1>5. RowsAreLocked'
  BY <1>1, <1>4, ReleaseFacts DEF AnalysisInv, RowsAreLocked, Holding
<1> QED
  BY <1>2, <1>3, <1>5 DEF AnalysisInv

\* A dialogue's step that leaves the profile as it is.
LEMMA DialogueQuiet ==
  ASSUME TypeOK, AnalysisInv, TypeOK', NEW d \in Dialogues,
         UNCHANGED <<jobVars, workVars, profile, approving>>,
         \A a \in Approvers : saw'[a] = saw[a] /\ step'[a] = step[a]
  PROVE  AnalysisInv'
<1> USE DEF jobVars, workVars, profile
<1>1. ShownIsApprovable' /\ LeasesAreOld' /\ OneAnalyst'
  BY LeasesKept
<1>2. ASSUME NEW b \in Approvers PROVE ApprovalInv(b)'
  BY DEF AnalysisInv, RowsAreLocked, ApprovalInv, StableLevel
<1>3. RowsAreLocked'
  BY <1>2 DEF AnalysisInv, RowsAreLocked, Holding
<1> QED
  BY <1>1, <1>3 DEF AnalysisInv

\* The whole-profile write waits for a locked row; an insert finds no row, so
\* that no approval can have locked one.
LEMMA SaveProfileJobs ==
  ASSUME TypeOK, AnalysisInv, NEW d \in Dialogues, save_profile_put(d)
  PROVE  TypeOK' /\ AnalysisInv'
<1> USE DEF jobVars, workVars, profile
<1>1. /\ saw[d] => ProfileFree
      /\ step' = [step EXCEPT ![d] = "idle"]
      /\ copy' = [copy EXCEPT ![d] = Blank]
      /\ saw' = [saw EXCEPT ![d] = FALSE]
      /\ UNCHANGED <<jobVars, workVars, approving, requeues>>
      /\ \/ /\ saw[d] \/ ~ stored
            /\ \E s \in Skills : level' = update_skill_profile(copy[d], s)
            /\ stored' = TRUE
         \/ UNCHANGED profile
  BY DEF save_profile_put
<1>2. \A a \in Approvers : saw'[a] = saw[a] /\ step'[a] = step[a]
  BY <1>1, JobsAssumption DEF TypeOK
<1>3. TypeOK'
  <2>0. copy[d] \in Profiles /\ level \in Profiles /\ stored \in BOOLEAN
    BY DEF TypeOK
  <2>1. level' \in Profiles /\ stored' \in BOOLEAN
    <3>1. CASE UNCHANGED profile
      BY <2>0, <3>1
    <3>2. CASE (\E s \in Skills : level' = update_skill_profile(copy[d], s)) /\ stored' = TRUE
      BY <2>0, <3>2, StableLevelType
    <3> QED
      BY <1>1, <3>1, <3>2
  <2>2. copy' \in [Dialogues -> Profiles]
    BY <1>1 DEF TypeOK, Profiles, Blank
  <2> QED
    BY <1>1, <2>1, <2>2 DEF TypeOK
<1>4. CASE UNCHANGED profile
  BY <1>1, <1>2, <1>3, <1>4, DialogueQuiet
<1>5. CASE (saw[d] \/ ~ stored) /\ stored' = TRUE
  <2>1. \A a \in Approvers : ~ Holding(a)
    BY <1>1, <1>5 DEF ProfileFree, Holding, AnalysisInv, RowsAreLocked, ApprovalInv
  <2>2. ShownIsApprovable' /\ LeasesAreOld' /\ OneAnalyst'
    BY <1>1, LeasesKept
  <2>3. ASSUME NEW b \in Approvers PROVE ApprovalInv(b)' /\ ~ Holding(b)'
    <3>1. ApprovalInv(b) /\ ~ Holding(b) /\ approving' = approving
      BY <1>1, <2>1 DEF AnalysisInv, RowsAreLocked
    <3> QED
      BY <1>1, <1>2, <1>5, <3>1 DEF ApprovalInv, Holding
  <2>4. RowsAreLocked'
    BY <1>1, <2>3 DEF AnalysisInv, RowsAreLocked
  <2> QED
    BY <1>3, <2>2, <2>4 DEF AnalysisInv
<1> QED
  BY <1>1, <1>4, <1>5

LEMMA DialogueJobs ==
  ASSUME TypeOK, AnalysisInv, NEW d \in Dialogues,
         get_profile(d) \/ save_profile_get(d) \/ DialogueFails(d)
  PROVE  TypeOK' /\ AnalysisInv'
<1> USE DEF jobVars, workVars, profile
<1>1. TypeOK'
  <2>1. /\ saw' \in [Approvers \cup Dialogues -> BOOLEAN]
        /\ step' \in [Approvers \cup Dialogues -> {"idle", "write", "get", "put"}]
    BY DEF TypeOK, get_profile, save_profile_get, DialogueFails
  <2>2. copy' \in [Dialogues -> Profiles]
    <3>1. copy \in [Dialogues -> Profiles] /\ level \in Profiles
      BY DEF TypeOK
    <3>2. Blank \in Profiles
      BY DEF Profiles, Blank
    <3>3. PICK p \in Profiles : copy' = copy \/ copy' = [copy EXCEPT ![d] = p]
      BY <3>1, <3>2 DEF get_profile, save_profile_get, DialogueFails
    <3> QED
      BY <3>1, <3>3
  <2>3. UNCHANGED <<body, status, attempts, due, error, decision, approved, batch, lease,
                   stored, level, approving, requeues>>
    BY DEF get_profile, save_profile_get, DialogueFails
  <2> QED
    BY <2>1, <2>2, <2>3 DEF TypeOK
<1>2. \A a \in Approvers : saw'[a] = saw[a] /\ step'[a] = step[a]
  BY JobsAssumption DEF TypeOK, get_profile, save_profile_get, DialogueFails
<1>3. UNCHANGED <<jobVars, workVars, profile, approving>>
  BY DEF get_profile, save_profile_get, DialogueFails
<1> QED
  BY <1>1, <1>2, <1>3, DialogueQuiet

LEMMA StutterJobs == ASSUME TypeOK, AnalysisInv, UNCHANGED vars PROVE TypeOK' /\ AnalysisInv'
<1> USE DEF vars, jobVars, workVars, profile, reader
<1>1. TypeOK'
  BY DEF TypeOK
<1>2. ShownIsApprovable' /\ LeasesAreOld' /\ OneAnalyst'
  BY LeasesKept
<1>3. RowsAreLocked'
  BY RowsKept DEF AnalysisInv, CompletedKept
<1> QED
  BY <1>1, <1>2, <1>3 DEF AnalysisInv

LEMMA NextJobs == TypeOK /\ AnalysisInv /\ [Next]_vars => TypeOK' /\ AnalysisInv'
<1> SUFFICES ASSUME TypeOK, AnalysisInv, [Next]_vars PROVE TypeOK' /\ AnalysisInv'
  OBVIOUS
<1>1. CASE \E j \in Jobs : enqueue(j) \/ Elapse(j)
  BY <1>1, EnqueueJobs, ElapseJobs
<1>2. CASE \E w \in Workers : WorkerStep(w) \/ CycleFails(w)
  BY <1>2, ClaimJobs, CompleteJobs, FailJobs, CycleFailsJobs DEF WorkerStep
<1>3. CASE requeue_model_failures
  BY <1>3, RequeueJobs
<1>4. CASE \E a \in Approvers : (\E j \in Jobs : approve_read(a, j)) \/ approve_commit(a)
                                 \/ approve_fail(a)
  BY <1>4, ApproveReadJobs, ApproveCommitJobs, ApproveFailJobs
<1>5. CASE \E d \in Dialogues : \/ get_profile(d) \/ save_profile_get(d) \/ save_profile_put(d)
                                 \/ DialogueFails(d)
  BY <1>5, DialogueJobs, SaveProfileJobs
<1>6. CASE UNCHANGED vars
  BY <1>6, StutterJobs
<1> QED
  BY <1>1, <1>2, <1>3, <1>4, <1>5, <1>6 DEF Next

\* Leases, recommendations and row locks are what workers and approvals rely
\* on, for any number of jobs, workers, approvals, dialogues and deployments.
THEOREM JobsSafe == Spec => [](TypeOK /\ AnalysisInv)
<1>1. Init => TypeOK /\ AnalysisInv
  BY InitJobs
<1>2. TypeOK /\ AnalysisInv /\ [Next]_vars => (TypeOK /\ AnalysisInv)'
  BY NextJobs
<1> QED
  BY <1>1, <1>2, PTL DEF Spec

\* A completed job's recommendation is a decision about the level the job was
\* registered at, and approve's test on its size never refuses a move.
THEOREM ShownIsApprovableHolds == Spec => []ShownIsApprovable
<1>1. TypeOK /\ AnalysisInv => ShownIsApprovable
  BY DEF AnalysisInv
<1> QED
  BY <1>1, JobsSafe, PTL

LEMMA LeaseProtectsStep ==
  ASSUME TypeOK, AnalysisInv, [Next]_vars, NEW j \in Jobs,
         status[j] = "running", status'[j] # "running"
  PROVE  \E w \in Workers : /\ lease[w][j] = attempts[j]
                            /\ batch[w] # <<>> /\ Head(batch[w]) = j
<1> USE DEF jobVars, workVars, profile, reader
<1>1. CASE \E i \in Jobs : enqueue(i) \/ Elapse(i)
  BY <1>1 DEF enqueue, Elapse, TypeOK
<1>2. ASSUME NEW w \in Workers, WorkerStep(w) \/ CycleFails(w)
      PROVE  lease[w][j] = attempts[j] /\ batch[w] # <<>> /\ Head(batch[w]) = j
  <2>1. CASE claim_pending(w) \/ CycleFails(w)
    BY <2>1 DEF claim_pending, CycleFails
  <2>2. CASE complete(w) \/ fail(w)
    <3> DEFINE h == Head(batch[w])
    <3>1. /\ batch[w] # <<>>
          /\ \/ UNCHANGED status
             \/ /\ attempts[h] = lease[w][h]
                /\ \E x \in {"completed", "failed"} : status' = [status EXCEPT ![h] = x]
      BY <2>2 DEF complete, fail, Fenced
    <3> HIDE DEF h
    <3>2. h = j
      BY <3>1 DEF TypeOK
    <3> QED
      BY <3>1, <3>2 DEF h
  <2> QED
    BY <1>2, <2>1, <2>2 DEF WorkerStep
<1>3. CASE requeue_model_failures
  BY <1>3 DEF requeue_model_failures, Requeueable
<1>4. CASE UNCHANGED status
  BY <1>4
<1>5. CASE \/ \E a \in Approvers : (\E i \in Jobs : approve_read(a, i)) \/ approve_commit(a)
                                    \/ approve_fail(a)
           \/ \E d \in Dialogues : \/ get_profile(d) \/ save_profile_get(d)
                                    \/ save_profile_put(d) \/ DialogueFails(d)
  BY <1>5 DEF approve_read, approve_commit, approve_fail, get_profile, save_profile_get,
              save_profile_put, DialogueFails
<1> QED
  BY <1>1, <1>2, <1>3, <1>4, <1>5 DEF Next, vars

LEMMA CompletedStep ==
  ASSUME TypeOK, AnalysisInv, [Next]_vars
  PROVE  CompletedKept /\ \A j \in Jobs : approved[j] => approved'[j]
<1> USE DEF jobVars, workVars, profile, reader
<1>1. CASE \E i \in Jobs : enqueue(i) \/ Elapse(i)
  BY <1>1 DEF enqueue, Elapse, TypeOK, CompletedKept
<1>2. ASSUME NEW w \in Workers, WorkerStep(w) \/ CycleFails(w)
      PROVE  CompletedKept /\ approved' = approved
  <2>1. CASE claim_pending(w)
    <3>1. PICK taken \in SUBSET Claimable :
             status' = [j \in Jobs |-> IF j \in taken THEN "running" ELSE status[j]]
      <4>1. PICK q \in UNION {[1 .. n -> Claimable] : n \in 1 .. BatchSize} :
               status' = [j \in Jobs |-> IF j \in {q[i] : i \in DOMAIN q}
                                         THEN "running" ELSE status[j]]
        BY <2>1 DEF claim_pending
      <4>2. {q[i] : i \in DOMAIN q} \subseteq Claimable
        OBVIOUS
      <4> QED
        BY <4>1, <4>2
    <3>2. UNCHANGED <<body, decision, approved>>
      BY <2>1 DEF claim_pending
    <3> QED
      BY <3>1, <3>2 DEF Claimable, CompletedKept
  <2>2. CASE CycleFails(w)
    BY <2>2 DEF CycleFails, CompletedKept
  <2>3. CASE complete(w)
    <3> DEFINE h == Head(batch[w])
    <3>1. /\ UNCHANGED <<body, approved>>
          /\ \/ UNCHANGED <<status, decision>>
             \/ /\ status[h] = "running"
                /\ status' = [status EXCEPT ![h] = "completed"]
                /\ \E x : decision' = [decision EXCEPT ![h] = x]
      BY <2>3 DEF complete, Fenced
    <3> HIDE DEF h
    <3> QED
      BY <3>1 DEF CompletedKept, TypeOK
  <2>4. CASE fail(w)
    <3> DEFINE h == Head(batch[w])
    <3>1. /\ UNCHANGED <<body, approved, decision>>
          /\ \/ UNCHANGED status
             \/ status[h] = "running" /\ status' = [status EXCEPT ![h] = "failed"]
      BY <2>4 DEF fail, Fenced
    <3> HIDE DEF h
    <3> QED
      BY <3>1 DEF CompletedKept, TypeOK
  <2> QED
    BY <1>2, <2>1, <2>2, <2>3, <2>4 DEF WorkerStep
<1>3. CASE requeue_model_failures
  BY <1>3 DEF requeue_model_failures, Requeueable, CompletedKept
<1>4. CASE UNCHANGED vars
  BY <1>4 DEF vars, CompletedKept
<1>5. CASE \/ \E a \in Approvers : (\E i \in Jobs : approve_read(a, i)) \/ approve_commit(a)
                                    \/ approve_fail(a)
           \/ \E d \in Dialogues : \/ get_profile(d) \/ save_profile_get(d)
                                    \/ save_profile_put(d) \/ DialogueFails(d)
  <2>1. UNCHANGED <<body, status, decision>>
    BY <1>5 DEF approve_read, approve_commit, approve_fail, get_profile, save_profile_get,
                save_profile_put, DialogueFails
  <2>2. approved' = approved \/ \E i : approved' = [approved EXCEPT ![i] = TRUE]
    BY <1>5 DEF approve_read, approve_commit, approve_fail, get_profile, save_profile_get,
                save_profile_put, DialogueFails
  <2> QED
    BY <2>1, <2>2 DEF CompletedKept, TypeOK
<1> QED
  BY <1>1, <1>2, <1>3, <1>4, <1>5 DEF Next

\* At most one live worker can store the result of an attempt, a leased job is
\* ended only by the worker that holds its lease, and what a reader was shown
\* is never replaced: with any number of workers whose leases end under them.
THEOREM AnalysisIsFencedHolds == Spec => AnalysisIsFenced
<1>1. TypeOK /\ AnalysisInv => OneAnalyst
  BY DEF AnalysisInv
<1>2. TypeOK /\ AnalysisInv /\ [Next]_vars =>
        [\A j \in Jobs : status[j] = "running" /\ ~ due[j] /\ status'[j] # "running" =>
            \E w \in Workers : /\ lease[w][j] = attempts[j]
                               /\ batch[w] # <<>> /\ Head(batch[w]) = j]_vars
  BY LeaseProtectsStep
<1>3. TypeOK /\ AnalysisInv /\ [Next]_vars =>
        [\A j \in Jobs : status[j] = "completed" =>
            /\ status'[j] = "completed" /\ decision'[j] = decision[j]
            /\ approved[j] => approved'[j]]_vars
  BY CompletedStep DEF CompletedKept
<1> QED
  BY <1>1, <1>2, <1>3, JobsSafe, PTL
  DEF Spec, AnalysisIsFenced, LeaseProtects, RecommendationIsFinal

LEMMA ApprovalStep ==
  ASSUME TypeOK, AnalysisInv, [Next]_vars, NEW j \in Jobs, approved'[j], ~ approved[j]
  PROVE  /\ StableLevel(level, body[j].skill) \in {decision[j].current, decision[j].recommended}
         /\ StableLevel(level', body[j].skill) = decision[j].recommended
         /\ \A s \in Skills \ {body[j].skill} : level'[s] = level[s]
<1> USE DEF jobVars, workVars, profile, reader
<1>1. ASSUME NEW a \in Approvers, NEW i \in Jobs, approve_read(a, i)
      PROVE  /\ level' = level
             /\ StableLevel(level, body[j].skill) = decision[j].recommended
  <2>1. /\ level' = level
        /\ approved' = [approved EXCEPT ![i] = TRUE]
        /\ StableLevel(level, body[i].skill) = decision[i].recommended
    BY <1>1 DEF approve_read
  <2>2. i = j
    BY <2>1 DEF TypeOK
  <2> QED
    BY <2>1, <2>2
<1>2. ASSUME NEW a \in Approvers, approve_commit(a)
      PROVE  /\ StableLevel(level, body[j].skill) = decision[j].current
             /\ StableLevel(level', body[j].skill) = decision[j].recommended
             /\ \A s \in Skills \ {body[j].skill} : level'[s] = level[s]
  <2>1. /\ step[a] = "write" /\ (saw[a] \/ ~ stored)
        /\ level' = [level EXCEPT ![body[approving[a]].skill] = decision[approving[a]].recommended]
        /\ approved' = [approved EXCEPT ![approving[a]] = TRUE]
    BY <1>2 DEF approve_commit
  <2>2. approving[a] = j
    BY <2>1 DEF TypeOK
  <2>3. /\ status[j] = "completed" /\ StableLevel(level, body[j].skill) = decision[j].current
        /\ body[j] \in Bodies /\ decision[j] \in Decisions
    BY <2>1, <2>2 DEF AnalysisInv, RowsAreLocked, ApprovalInv, ShownIsApprovable
  <2>4. body[j].skill \in Skills /\ decision[j].recommended \in Levels /\ level \in Profiles
    BY <2>3, JobsAssumption DEF Decisions, TypeOK
  <2>5. /\ level'[body[j].skill] = decision[j].recommended
        /\ \A s \in Skills \ {body[j].skill} : level'[s] = level[s]
    BY <2>1, <2>2, <2>4 DEF Profiles
  <2> QED
    BY <2>3, <2>4, <2>5, NoneAssumption DEF StableLevel
<1>3. ASSUME approved' = approved PROVE FALSE
  BY <1>3
<1>4. ASSUME NEW a \in Approvers, approve_fail(a) PROVE FALSE
  BY <1>3, <1>4 DEF approve_fail
<1>5. ASSUME \/ \E i \in Jobs : enqueue(i) \/ Elapse(i)
             \/ \E w \in Workers : WorkerStep(w) \/ CycleFails(w)
             \/ requeue_model_failures
             \/ \E d \in Dialogues : \/ get_profile(d) \/ save_profile_get(d)
                                      \/ save_profile_put(d) \/ DialogueFails(d)
             \/ UNCHANGED vars
      PROVE  FALSE
  BY <1>3, <1>5 DEF enqueue, Elapse, WorkerStep, claim_pending, complete, fail, CycleFails,
                    requeue_model_failures, get_profile, save_profile_get, save_profile_put,
                    DialogueFails, vars
<1> QED
  BY <1>1, <1>2, <1>4, <1>5 DEF Next

\* An approval moves exactly its own skill, from the level it was made for to
\* the one it recommends, whatever other approvals and profile writes of
\* finishing dialogues do, and whether or not the profile row exists yet.
THEOREM ApprovalAppliesHolds == Spec => ApprovalAppliesToItsLevel
<1>1. TypeOK /\ AnalysisInv /\ [Next]_vars =>
        [\A j \in Jobs : approved'[j] /\ ~ approved[j] =>
            /\ StableLevel(level, body[j].skill) \in {decision[j].current, decision[j].recommended}
            /\ StableLevel(level', body[j].skill) = decision[j].recommended
            /\ \A s \in Skills \ {body[j].skill} : level'[s] = level[s]]_vars
  BY ApprovalStep
<1> QED
  BY <1>1, JobsSafe, PTL DEF Spec, ApprovalAppliesToItsLevel

===========================================================================
