------------------------ MODULE TeachingTurnProofs ------------------------
(***************************************************************************)
(* TeachingTurn for every content pack, every start level and whatever the *)
(* understanding model returns.                                            *)
(***************************************************************************)
EXTENDS TeachingTurn, FiniteSetTheorems, WellFoundedInduction, TLAPS

Ladders == [level : Levels, hint : Hints, max : Hints]
Paired(p) == p.level = "L0" <=> p.hint = "H3"
Grows(p, q) ==
    /\ Support[q.level] >= Support[p.level]
    /\ Rank[q.hint] >= Rank[p.hint]
    /\ Rank[q.max] >= Rank[p.max]

Origins == {"none", "told", "helped"}
Outcomes == {"active", "taught", "supported"}

(* The inductive invariant.  The provenance fields are tied to the history  *)
(* of how each relation was verified; while the session is active a note    *)
(* relation can be marked supported ahead of its verification only under a  *)
(* guiding card, and the card on the screen is the strongest ever shown.    *)
LadderInv == ladder \in Ladders /\ Paired(ladder)

LedgerInv ==
    /\ relations \subseteq Relations
    /\ first \in [Relations -> Origins]
    /\ \A r \in Relations : first[r] = "none" <=> r \notin relations

ProvenanceInv ==
    /\ childEvidence \subseteq NoteRelations
    /\ \A r \in NoteRelations : r \in childEvidence <=> first[r] = "told"

ActiveInv ==
    Active => /\ shown = ladder.hint
              /\ \A r \in supported : r \notin relations => Guided(shown)

EndedInv ==
    /\ result.outcome \in Outcomes
    /\ ~Active => /\ frame.attempt = 0
                  /\ (result.outcome = "taught") <=>
                         (ended # "structured_joint" /\ NoteRelations \subseteq childEvidence)
                  /\ (result.note = "child") <=> (NoteRelations \subseteq childEvidence)
                  /\ (result.note = "none") <=> ~(NoteRelations \subseteq relations)

Inv == LadderInv /\ LedgerInv /\ ProvenanceInv /\ ActiveInv /\ EndedInv

-----------------------------------------------------------------------------
(* The ladders. *)

\* One raise keeps the pair and withdraws nothing (_raise_hint).
LEMMA RaiseGrows ==
    ASSUME NEW p \in Ladders, Paired(p)
    PROVE  /\ raise_hint(p) \in Ladders
           /\ Paired(raise_hint(p))
           /\ Grows(p, raise_hint(p))
  BY DEF Ladders, Levels, Hints, Paired, Grows, raise_hint, MaxHint, Rank, Support

\* One step down the expression ladder too (_lower_expression).
LEMMA LowerGrows ==
    ASSUME NEW p \in Ladders, Paired(p)
    PROVE  /\ lower_expression(p) \in Ladders
           /\ Paired(lower_expression(p))
           /\ Grows(p, lower_expression(p))
  BY DEF Ladders, Levels, Hints, Paired, Grows, lower_expression, Rank, Support

\* More support is an order on the ladders.
LEMMA GrowsOrder ==
    ASSUME NEW p \in Ladders, NEW q \in Ladders, NEW r \in Ladders
    PROVE  /\ Grows(p, p)
           /\ Grows(p, q) /\ Grows(q, r) => Grows(p, r)
  BY DEF Ladders, Levels, Hints, Grows, Rank, Support

\* Whatever branch a turn takes, the pair holds and support does not shrink.
LEMMA PolicyGrows ==
    ASSUME LadderInv, NEW s
    PROVE  /\ apply_ladder_policy(s) \in Ladders
           /\ Paired(apply_ladder_policy(s))
           /\ Grows(ladder, apply_ladder_policy(s))
  <1>1. ladder \in Ladders /\ Paired(ladder)
    BY DEF LadderInv
  <1>2. /\ raise_hint(ladder) \in Ladders /\ Paired(raise_hint(ladder))
        /\ Grows(ladder, raise_hint(ladder))
    BY <1>1, RaiseGrows
  <1>3. /\ lower_expression(ladder) \in Ladders /\ Paired(lower_expression(ladder))
        /\ Grows(ladder, lower_expression(ladder))
    BY <1>1, LowerGrows
  <1>4. /\ raise_hint(lower_expression(ladder)) \in Ladders
        /\ Paired(raise_hint(lower_expression(ladder)))
        /\ Grows(lower_expression(ladder), raise_hint(lower_expression(ladder)))
    BY <1>3, RaiseGrows
  <1>5. Grows(ladder, raise_hint(lower_expression(ladder)))
    BY <1>1, <1>3, <1>4, GrowsOrder
  <1>6. Grows(ladder, ladder)
    BY <1>1, GrowsOrder
  <1>7. ASSUME ladder.level = "L4"
        PROVE  LET q == [level |-> "L3", hint |-> ladder.hint, max |-> ladder.max]
               IN  q \in Ladders /\ Paired(q) /\ Grows(ladder, q)
    BY <1>1, <1>7 DEF Ladders, Levels, Hints, Paired, Grows, Rank, Support
  <1> QED
    BY <1>1, <1>2, <1>3, <1>4, <1>5, <1>6, <1>7 DEF apply_ladder_policy

\* Emitting the turn changes nothing in a paired ladder (_question_contract).
LEMMA DisplayedSame ==
    ASSUME NEW p \in Ladders, Paired(p)
    PROVE  Displayed(p) = p
  BY DEF Ladders, Paired, Displayed

-----------------------------------------------------------------------------
(* A concluded turn. *)

\* Concluding a turn leaves the ladder the policy chose, and its hint is then
\* the strongest card shown.
LEMMA ConcludeLadder ==
    ASSUME Inv, NEW s, Conclude(s)
    PROVE  LadderInv' /\ Grows(ladder, ladder') /\ ladder' = apply_ladder_policy(s)
  <1>1. LadderInv
    BY DEF Inv
  <1>2. /\ apply_ladder_policy(s) \in Ladders
        /\ Paired(apply_ladder_policy(s))
        /\ Grows(ladder, apply_ladder_policy(s))
    BY <1>1, PolicyGrows
  <1>3. Displayed(apply_ladder_policy(s)) = apply_ladder_policy(s)
    BY <1>2, DisplayedSame
  <1>4. ladder' = apply_ladder_policy(s)
    BY <1>3 DEF Conclude
  <1> QED
    BY <1>2, <1>4 DEF LadderInv, Paired

\* Concluding a turn keeps the invariant, whatever the turn carried.
LEMMA ConcludeInv ==
    ASSUME Inv, Active, NEW s, s.relations \subseteq Relations, Conclude(s)
    PROVE  Inv'
  <1> DEFINE R == relations \cup s.relations
             new == (s.relations \ relations) \cap NoteRelations
             direct == s.source = "sonnet_low" /\ ~Guided(ladder.hint)
             own == IF direct THEN new \ supported ELSE {}
             done == Complete(facts \cup s.facts, R)
  <1>1. LadderInv' /\ Grows(ladder, ladder') /\ ladder' = apply_ladder_policy(s)
    BY ConcludeLadder
  <1>2. /\ shown = ladder.hint /\ ladder \in Ladders /\ ladder' \in Ladders
        /\ \A r \in supported : r \notin relations => Guided(shown)
        /\ relations \subseteq Relations
        /\ first \in [Relations -> Origins]
        /\ \A r \in Relations : first[r] = "none" <=> r \notin relations
        /\ NoteRelations \subseteq Relations
        /\ childEvidence \subseteq NoteRelations
        /\ \A r \in NoteRelations : r \in childEvidence <=> first[r] = "told"
    BY <1>1, PackAssumption DEF Inv, LadderInv, LedgerInv, ProvenanceInv, ActiveInv
  <1>3. /\ relations' = R
        /\ childEvidence' = childEvidence \cup own
        /\ supported' = supported \cup (new \ (childEvidence \cup own))
                \cup (IF Guided(ladder.hint) \/ Guided(apply_ladder_policy(s).hint)
                      THEN NoteRelations \ (relations \cup s.relations) ELSE {})
        /\ frame' = Idle /\ ended' = s.source
    BY DEF Conclude, track_note_provenance
  <1>4. /\ first' \in [Relations -> Origins]
        /\ \A r \in Relations :
               first'[r] = IF r \notin R \ relations THEN first[r]
                           ELSE IF direct THEN "told" ELSE "helped"
    <2>1. first' = [r \in Relations |->
                        IF r \notin R \ relations THEN first[r]
                        ELSE IF s.source = "sonnet_low" /\ ~Guided(shown) THEN "told"
                        ELSE "helped"]
      BY DEF Conclude
    <2> QED
      BY <1>2, <2>1 DEF Origins
  <1>5. LedgerInv'
    <2>1. relations' \subseteq Relations
      BY <1>2, <1>3
    <2>2. \A r \in Relations : first'[r] = "none" <=> r \notin relations'
      BY <1>2, <1>3, <1>4
    <2> QED
      BY <1>4, <2>1, <2>2 DEF LedgerInv
  <1>6. direct => new \cap supported = {}
    BY <1>2
  <1>7. ProvenanceInv'
    <2>1. childEvidence' \subseteq NoteRelations
      BY <1>2, <1>3
    <2>2. ASSUME NEW r \in NoteRelations
          PROVE  r \in childEvidence' <=> first'[r] = "told"
      <3>1. r \in Relations
        BY <1>2, <2>2
      <3>2. CASE r \in R \ relations
        <4>1. r \notin childEvidence
          BY <1>2, <3>1, <3>2
        <4>2. r \in childEvidence' <=> direct
          BY <1>3, <1>6, <2>2, <3>2, <4>1
        <4> QED
          BY <1>4, <3>1, <3>2, <4>2
      <3>3. CASE r \notin R \ relations
        <4>1. first'[r] = first[r]
          BY <1>4, <3>1, <3>3
        <4>2. r \in childEvidence' <=> r \in childEvidence
          BY <1>3, <3>3
        <4> QED
          BY <1>2, <2>2, <4>1, <4>2
      <3> QED
        BY <3>2, <3>3
    <2> QED
      BY <2>1, <2>2 DEF ProvenanceInv
  <1>8. CASE ~done
    <2>1. result' = result
      BY <1>8 DEF Conclude
    <2>2. shown' = ladder'.hint
      <3>1. Displayed(apply_ladder_policy(s)) = ladder'
        BY <1>1, DisplayedSame DEF LadderInv, Paired
      <3>2. shown' = MaxHint(ladder.hint, ladder'.hint)
        BY <1>2, <1>8, <3>1 DEF Conclude
      <3> QED
        BY <1>1, <1>2, <3>2 DEF Grows, MaxHint, Rank, Ladders, Hints
    <2>3. Guided(ladder.hint) => Guided(ladder'.hint)
      BY <1>1, <1>2 DEF Grows, Guided, Rank, Ladders, Hints
    <2>4. \A r \in supported' : r \notin relations' => Guided(shown')
      BY <1>1, <1>2, <1>3, <2>2, <2>3
    <2>5. ActiveInv'
      BY <2>2, <2>4 DEF ActiveInv
    <2>6. EndedInv'
      BY <2>1 DEF EndedInv, Inv, Active
    <2> QED
      BY <1>1, <1>5, <1>7, <2>5, <2>6 DEF Inv
  <1>9. CASE done
    <2>1. result' = complete_state(s, R, childEvidence')
      BY <1>9 DEF Conclude
    <2>2. /\ result'.outcome = IF NoteRelations \subseteq childEvidence'
                                  /\ s.source # "structured_joint"
                               THEN "taught" ELSE "supported"
          /\ result'.note = note_update(R, childEvidence')
      BY <2>1 DEF complete_state
    <2>3. NoteRelations \subseteq childEvidence' => NoteRelations \subseteq R
      BY <1>2, <1>3, <1>5, <1>7 DEF LedgerInv, ProvenanceInv
    <2>4. ~Active' /\ result'.outcome \in Outcomes
      BY <2>2 DEF Active, Outcomes
    <2>5. /\ (result'.note = "child") <=> (NoteRelations \subseteq childEvidence')
          /\ (result'.note = "none") <=> ~(NoteRelations \subseteq R)
      BY <2>2, <2>3 DEF note_update
    <2>6. frame'.attempt = 0
      BY <1>3 DEF Idle
    <2>7. (result'.outcome = "taught") <=>
              (ended' # "structured_joint" /\ NoteRelations \subseteq childEvidence')
      BY <1>3, <2>2
    <2>8. EndedInv'
      BY <1>3, <2>4, <2>5, <2>6, <2>7 DEF EndedInv
    <2>9. ActiveInv'
      BY <2>4 DEF ActiveInv
    <2> QED
      BY <1>1, <1>5, <1>7, <2>8, <2>9 DEF Inv
  <1> QED
    BY <1>8, <1>9

-----------------------------------------------------------------------------
(* The theorems. *)

\* The first turn satisfies the invariant at every stable level.
LEMMA InitInv == Init => Inv
  <1> SUFFICES ASSUME Init PROVE Inv
    OBVIOUS
  <1> PICK start \in StartLevels : ladder = Displayed([level |-> start, hint |-> "H0", max |-> "H0"])
    BY DEF Init
  <1>1. /\ relations = {} /\ childEvidence = {} /\ supported = {} /\ frame = Idle
        /\ result.outcome = "active" /\ shown = ladder.hint
        /\ first = [r \in Relations |-> "none"]
    BY DEF Init
  <1>2. LadderInv
    BY StartLevelsAssumption DEF LadderInv, Displayed, Ladders, Levels, Hints, Paired
  <1>3. LedgerInv
    BY <1>1 DEF LedgerInv, Origins
  <1>4. ProvenanceInv
    BY <1>1, PackAssumption DEF ProvenanceInv
  <1>5. ActiveInv
    BY <1>1 DEF ActiveInv
  <1>6. EndedInv
    BY <1>1 DEF EndedInv, Active, Outcomes
  <1> QED
    BY <1>2, <1>3, <1>4, <1>5, <1>6 DEF Inv

\* What a turn may do: end with a conclusion drawn from an active session, or
\* only move the frame of the response being understood.
Concluded == \E s : Active /\ s.relations \subseteq Relations /\ Conclude(s)
Framed == Active /\ UNCHANGED <<pedagogy, supported, shown, first>>

\* Every step of the conversation is one or the other: the understanding model,
\* the buttons and the timers change the pedagogy only by concluding a turn.
LEMMA StepShape == ASSUME Inv, Next PROVE Concluded \/ Framed
  <1>1. frame.attempt > 0 => Active
    BY DEF Inv, EndedInv
  <1>2. CASE Listen
    BY <1>2 DEF Listen, Framed, pedagogy, ledger
  <1>3. CASE Abandon
    BY <1>1, <1>3 DEF Abandon, Framed, pedagogy, ledger
  <1>4. Unread.relations \subseteq Relations
    BY DEF Unread, Semantics
  <1>5. ASSUME NEW g PROVE admitted_semantics(g).relations \subseteq Relations
    BY DEF admitted_semantics, Semantics, Verified
  <1>6. CASE AttemptFails
    BY <1>1, <1>4, <1>5, <1>6 DEF AttemptFails, Concluded
  <1>7. ASSUME NEW c \in Candidates, understand_attempt(c)
        PROVE  Concluded \/ Framed
    <2> DEFINE g == merge_admitted(frame.admitted, admit(c))
    <2> HIDE DEF g
    <2>1. Active
      BY <1>1, <1>7 DEF understand_attempt
    <2>2. \/ Conclude(admitted_semantics(c)) \/ Conclude(Unread) \/ Conclude(admitted_semantics(g))
          \/ UNCHANGED <<pedagogy, supported, asked, ended, shown, first>>
      BY <1>7 DEF understand_attempt, g
    <2> QED
      BY <1>4, <1>5, <2>1, <2>2 DEF Concluded, Framed, pedagogy, ledger
  <1>8. ASSUME NEW kind, NoResponse(kind)
        PROVE  Concluded
    <2> DEFINE s == Semantics(kind, "none",
                          CASE kind = "explicit_no_response" -> "general_help"
                            [] kind = "silence_timeout" -> "expression"
                            [] OTHER -> "none",
                          FALSE, FALSE, {}, {}, {})
    <2>1. s.relations \subseteq Relations
      BY DEF Semantics
    <2>2. Active /\ Conclude(s)
      BY <1>8 DEF NoResponse
    <2> HIDE DEF s
    <2> QED
      BY <2>1, <2>2 DEF Concluded
  <1>9. ASSUME NEW correct \in BOOLEAN, Choose(correct)
        PROVE  Concluded
    <2> PICK t \in question.targets :
           Conclude(apply_structured_progress("structured_choice", ~correct,
               IF correct THEN {t} \cap Facts ELSE {},
               IF correct /\ t \in Relations THEN {t} \cup NoteRelations ELSE {}))
      BY <1>9 DEF Choose
    <2> DEFINE s == apply_structured_progress("structured_choice", ~correct,
               IF correct THEN {t} \cap Facts ELSE {},
               IF correct /\ t \in Relations THEN {t} \cup NoteRelations ELSE {})
    <2>1. s.relations \subseteq Relations
      BY PackAssumption DEF apply_structured_progress, Semantics
    <2>2. Active /\ Conclude(s)
      BY <1>9 DEF Choose
    <2> HIDE DEF s
    <2> QED
      BY <2>1, <2>2 DEF Concluded
  <1>10. CASE JointAction
    <2> DEFINE s == apply_structured_progress("structured_joint", FALSE, RequiredFacts,
                                              RequiredRelations \cup NoteRelations)
    <2>1. s.relations \subseteq Relations
      BY PackAssumption DEF apply_structured_progress, Semantics
    <2>2. Active /\ Conclude(s)
      BY <1>10 DEF JointAction
    <2> HIDE DEF s
    <2> QED
      BY <2>1, <2>2 DEF Concluded
  <1> QED
    BY <1>2, <1>3, <1>6, <1>7, <1>8, <1>9, <1>10 DEF Next

\* A step that only moves the frame keeps the invariant.
LEMMA FramedInv == ASSUME Inv, Framed PROVE Inv'
  <1> USE DEF pedagogy, ledger
  <1>1. LadderInv' /\ LedgerInv' /\ ProvenanceInv'
    BY DEF Inv, Framed, LadderInv, LedgerInv, ProvenanceInv
  <1>2. ActiveInv'
    BY DEF Inv, Framed, ActiveInv, Active
  <1>3. EndedInv'
    BY DEF Inv, Framed, EndedInv, Active
  <1> QED
    BY <1>1, <1>2, <1>3 DEF Inv

\* The invariant holds in every reachable state.
THEOREM Invariance == Spec => []Inv
  <1>1. ASSUME Inv, [Next]_vars PROVE Inv'
    <2>1. CASE Next
      BY <1>1, <2>1, StepShape, FramedInv, ConcludeInv DEF Concluded
    <2>2. CASE UNCHANGED vars
      <3>1. LadderInv' /\ LedgerInv' /\ ProvenanceInv'
        BY <1>1, <2>2 DEF Inv, LadderInv, LedgerInv, ProvenanceInv, vars, pedagogy, ledger
      <3>2. ActiveInv' /\ EndedInv'
        BY <1>1, <2>2 DEF Inv, ActiveInv, EndedInv, Active, vars, pedagogy, ledger
      <3> QED
        BY <3>1, <3>2 DEF Inv
    <2> QED
      BY <1>1, <2>1, <2>2
  <1> QED
    BY InitInv, <1>1, PTL DEF Spec

\* No turn is emitted at L0 without H3, or at H3 above L0 (_raise_hint,
\* _lower_expression, _question_contract).
THEOREM LadderPairTheorem == Spec => []TerminalLadderPair
  <1>1. Inv => TerminalLadderPair
    BY DEF Inv, LadderInv, Paired, TerminalLadderPair
  <1> QED
    BY Invariance, <1>1, PTL

\* A session is taught exactly when the child stated every note relation
\* unguided and did not finish jointly (_track_note_provenance, _complete_state).
THEOREM TaughtTheorem == Spec => []TaughtIffIndependent
  <1>1. ASSUME Inv PROVE TaughtIffIndependent
    <2>1. NoteRelations \subseteq childEvidence <=> \A r \in NoteRelations : first[r] = "told"
      BY <1>1 DEF Inv, ProvenanceInv
    <2> QED
      BY <1>1, <2>1 DEF Inv, EndedInv, TaughtIffIndependent
  <1> QED
    BY Invariance, <1>1, PTL

\* The star note is signed for exactly what the child stated (_note_update).
THEOREM NoteTheorem == Spec => []NoteAttribution
  <1>1. ASSUME Inv PROVE NoteAttribution
    <2>1. NoteRelations \subseteq childEvidence <=> \A r \in NoteRelations : first[r] = "told"
      BY <1>1 DEF Inv, ProvenanceInv
    <2>2. ~(NoteRelations \subseteq relations) <=> \E r \in NoteRelations : first[r] = "none"
      BY <1>1, PackAssumption DEF Inv, LedgerInv
    <2> QED
      BY <1>1, <2>1, <2>2 DEF Inv, EndedInv, NoteAttribution
  <1> QED
    BY Invariance, <1>1, PTL

\* Support is never withdrawn within a task (_apply_ladder_policy).
THEOREM SupportTheorem == Spec => SupportOnlyGrows
  <1>1. ASSUME Inv, Next PROVE Grows(ladder, ladder')
    <2>1. CASE Concluded
      BY <1>1, <2>1, ConcludeLadder DEF Concluded
    <2>2. CASE Framed
      <3>1. ladder' = ladder /\ ladder \in Ladders
        BY <1>1, <2>2 DEF Framed, Inv, LadderInv, pedagogy
      <3> QED
        BY <3>1, GrowsOrder
    <2> QED
      BY <1>1, <2>1, <2>2, StepShape
  <1>2. Inv /\ [Next]_vars =>
            [/\ Support[ladder'.level] >= Support[ladder.level]
             /\ Rank[ladder'.hint] >= Rank[ladder.hint]
             /\ Rank[ladder'.max] >= Rank[ladder.max]]_vars
    BY <1>1 DEF Grows
  <1> QED
    BY Invariance, <1>2, PTL DEF Spec, SupportOnlyGrows

\* Outcome and star note of a finished session credit the child exactly with
\* what it taught unguided (_complete_state, _note_update).
THEOREM CreditTheorem == Spec => []CreditIsTheChilds
  <1>1. TaughtIffIndependent /\ NoteAttribution => CreditIsTheChilds
    BY DEF CreditIsTheChilds
  <1> QED
    BY <1>1, TaughtTheorem, NoteTheorem, PTL

-----------------------------------------------------------------------------
(* The question of the turn. *)

\* Every nonempty set of positions has a least one.
LEMMA LeastPosition ==
    ASSUME NEW T \in SUBSET Nat, T # {}
    PROVE  \E m \in T : \A k \in T : m <= k
  <1>1. PICK m \in T : \A k \in T : ~(<<k, m>> \in OpToRel(<, Nat))
    BY WFMin, NatLessThanWellFounded
  <1>2. \A k \in T : ~(k < m)
    BY <1>1 DEF OpToRel
  <1> QED
    BY <1>2

\* The first open plan asks for something that is open.
LEMMA FirstOpenIsOpen ==
    ASSUME NEW plans \in {InitialTargets, L3Plans, L2Plans},
           NEW open, open \subseteq Required, open # {}
    PROVE  FirstOpen(plans, open) \in open
  <1>1. plans \in Seq(Required) /\ Elements(plans) = Required
    BY PackAssumption
  <1> DEFINE T == {i \in DOMAIN plans : plans[i] \in open}
  <1>2. T \subseteq Nat /\ T # {}
    BY <1>1 DEF Elements
  <1>3. PICK m \in T : \A k \in T : m <= k
    BY <1>2, LeastPosition
  <1>4. m \in DOMAIN plans /\ plans[m] \in open /\ \A j \in DOMAIN plans : plans[j] \in open => m <= j
    BY <1>3
  <1> QED
    BY <1>4 DEF FirstOpen

\* The completion contract is finite, since a plan list asks for all of it.
LEMMA RequiredFinite == IsFiniteSet(Required)
  <1>1. L3Plans \in Seq(Required) /\ Elements(L3Plans) = Required
    BY PackAssumption
  <1>2. L3Plans \in Surjection(1 .. Len(L3Plans), Required)
    BY <1>1 DEF Surjection, Elements
  <1>3. IsFiniteSet(1 .. Len(L3Plans))
    BY <1>1, FS_Interval
  <1> QED
    BY <1>2, <1>3, FS_Surjection

\* _question_contract on an incomplete ledger: it asks for open targets only,
\* and in the form of its level.
LEMMA ContractIsOpen ==
    ASSUME NEW level \in Levels, NEW F, NEW R, NEW half, ~Complete(F, R)
    PROVE  LET q == question_contract(level, F, R, half)
           IN  /\ q.targets # {} /\ q.targets \subseteq Remaining(F, R)
               /\ q.plan \in PlansAt(level)
               /\ q.plan # "initial" /\ q.plan # "l0" => Cardinality(q.targets) = 1
  <1> DEFINE open == Remaining(F, R)
             q == question_contract(level, F, R, half)
  <1>1. open # {} /\ open \subseteq Required
    BY DEF Complete, Remaining, Required
  <1>2. IsFiniteSet(open)
    BY <1>1, RequiredFinite, FS_Subset
  <1>3. Cardinality(open) \in Nat /\ Cardinality(open) # 0
    BY <1>1, <1>2, FS_CardinalityType, FS_EmptySet
  <1>4. level \in {"L3", "L2"} => Focus(level, F, R, half) \in open
    <2> DEFINE started == (half \ R) \cap open
    <2>1. started \subseteq open /\ started \subseteq Required
      BY <1>1
    <2>2. CASE started # {}
      <3>1. FirstOpen(InitialTargets, started) \in started
        BY <2>1, <2>2, FirstOpenIsOpen
      <3> QED
        BY <2>1, <2>2, <3>1 DEF Focus
    <2>3. CASE started = {}
      <3>1. FirstOpen(L3Plans, open) \in open /\ FirstOpen(L2Plans, open) \in open
        BY <1>1, FirstOpenIsOpen
      <3> QED
        BY <2>3, <3>1 DEF Focus
    <2> QED
      BY <2>2, <2>3
  <1>5. Cardinality({Focus(level, F, R, half)}) = 1
    BY FS_Singleton
  <1>11. /\ PlansAt("L4") = {"initial", "l3"} /\ PlansAt("L3") = {"l3"}
         /\ PlansAt("L2") = {"l2"} /\ PlansAt("L0") = {"l0"}
    BY DEF PlansAt
  <1> HIDE DEF open
  <1>6. CASE level = "L0"
    <2>1. q = [plan |-> "l0", targets |-> open]
      BY <1>6 DEF question_contract, open
    <2> HIDE DEF q
    <2> QED
      BY <1>1, <1>6, <1>11, <2>1 DEF q, open
  <1>7. CASE level = "L4" /\ Cardinality(open) > 1
    <2>1. q = [plan |-> "initial", targets |-> open]
      BY <1>7 DEF question_contract, open
    <2> HIDE DEF q
    <2> QED
      BY <1>1, <1>7, <1>11, <2>1 DEF q, open
  <1>8. CASE level = "L4" /\ ~(Cardinality(open) > 1)
    <2>1. Cardinality(open) = 1
      BY <1>3, <1>8
    <2>2. q = [plan |-> "l3", targets |-> open]
      BY <1>8, <2>1 DEF question_contract, open
    <2> HIDE DEF q
    <2> QED
      BY <1>1, <1>8, <1>11, <2>1, <2>2 DEF q, open
  <1>9. CASE level = "L3"
    <2>1. q = [plan |-> "l3", targets |-> {Focus(level, F, R, half)}]
      BY <1>9 DEF question_contract
    <2> HIDE DEF q
    <2> QED
      BY <1>4, <1>5, <1>9, <1>11, <2>1 DEF q, open
  <1>10. CASE level = "L2"
    <2>1. q = [plan |-> "l2", targets |-> {Focus(level, F, R, half)}]
      BY <1>10 DEF question_contract
    <2> HIDE DEF q
    <2> QED
      BY <1>4, <1>5, <1>10, <1>11, <2>1 DEF q, open
  <1> QED
    BY <1>6, <1>7, <1>8, <1>9, <1>10 DEF Levels

(* The rest of the invariant.  The question is the one the state calls for; *)
(* a card above L0 is on record; and only a first attempt that admitted     *)
(* something leaves anything for the second.                                *)
Responses ==
    [unsafe : BOOLEAN, move : Moves, need : Needs, ui : UiReferences, grounded : BOOLEAN,
     claims : SUBSET Claims]

QuestionInv ==
    Active => /\ ~Complete(facts, relations)
              /\ question = question_contract(ladder.level, facts, relations, partials)

Recorded(p) == p.level # "L0" => Rank[p.hint] <= Rank[p.max]

HelpInv ==
    /\ Active => Recorded(ladder) /\ result.credit = "none"
    /\ H0SuccessIsUnaided

FrameInv ==
    /\ frame.attempt \in 0 .. 2 /\ frame.admitted \subseteq Responses
    /\ frame.attempt < 2 => frame.admitted = {}
    /\ \A g, h \in frame.admitted : g = h

TurnInv == QuestionInv /\ HelpInv /\ FrameInv

\* Whatever branch a turn takes, help above L0 is on record.
LEMMA PolicyRecords ==
    ASSUME LadderInv, Recorded(ladder), NEW s
    PROVE  Recorded(apply_ladder_policy(s))
  <1>1. ladder \in Ladders /\ Paired(ladder) /\ Recorded(ladder)
    BY DEF LadderInv
  <1>2. ASSUME NEW p \in Ladders, Paired(p), Recorded(p)
        PROVE  Recorded(raise_hint(p)) /\ Recorded(lower_expression(p))
    BY <1>2 DEF Recorded, Ladders, Levels, Hints, Paired, raise_hint, lower_expression, MaxHint,
                Rank
  <1>3. lower_expression(ladder) \in Ladders /\ Paired(lower_expression(ladder))
    BY <1>1, LowerGrows
  <1>4. /\ Recorded(raise_hint(ladder)) /\ Recorded(lower_expression(ladder))
        /\ Recorded(raise_hint(lower_expression(ladder)))
    BY <1>1, <1>2, <1>3
  <1>5. ladder.level = "L4" =>
            Recorded([level |-> "L3", hint |-> ladder.hint, max |-> ladder.max])
    BY <1>1 DEF Recorded
  <1> QED
    BY <1>1, <1>4, <1>5 DEF apply_ladder_policy

LEMMA ConcludeFrame == ASSUME NEW s, Conclude(s) PROVE frame' = Idle /\ ended' = s.source
  BY DEF Conclude

\* Concluding a turn: the session is over, or the next question is for what is
\* still open.
LEMMA ConcludeTurn ==
    ASSUME Inv, TurnInv, Active, NEW s, Conclude(s)
    PROVE  TurnInv'
  <1> DEFINE F == facts \cup s.facts
             R == relations \cup s.relations
             half == partials \cup (s.partials \ relations)
  <1>1. /\ ladder' = apply_ladder_policy(s) /\ ladder \in Ladders /\ ladder' \in Ladders
        /\ Paired(ladder') /\ Grows(ladder, ladder') /\ shown = ladder.hint
    BY ConcludeLadder DEF Inv, LadderInv, ActiveInv, Paired
  <1>2. Recorded(ladder) /\ Recorded(ladder') /\ result.credit = "none"
    BY <1>1, PolicyRecords DEF Inv, TurnInv, HelpInv, Recorded
  <1>3. facts' = F /\ relations' = R /\ partials' = half /\ frame' = Idle
    BY DEF Conclude
  <1>4. FrameInv'
    BY <1>3 DEF FrameInv, Idle
  <1>5. CASE Complete(F, R)
    <2>1. result' = complete_state(s, R, childEvidence') /\ shown' = shown
      BY <1>5 DEF Conclude
    <2>2. /\ result'.outcome \in {"taught", "supported"}
          /\ result'.credit = "h0_success" => ladder.max = "H0"
      BY <2>1 DEF complete_state, update_skill_profile
    <2>3. ~Active'
      BY <2>2 DEF Active
    <2>4. H0SuccessIsUnaided'
      <3> SUFFICES ASSUME ladder.max = "H0", ladder'.level # "L0" PROVE shown' = "H0"
        BY <2>2 DEF H0SuccessIsUnaided
      <3>1. ladder.level # "L0"
        BY <1>1 DEF Grows, Support, Ladders, Levels
      <3>2. ladder.hint = "H0"
        BY <1>1, <1>2, <3>1 DEF Recorded, Rank, Ladders, Hints
      <3> QED
        BY <1>1, <2>1, <3>2
    <2> QED
      BY <1>4, <2>3, <2>4 DEF TurnInv, QuestionInv, HelpInv
  <1>6. CASE ~Complete(F, R)
    <2>1. /\ result' = result
          /\ question' = question_contract(Displayed(apply_ladder_policy(s)).level, F, R, half)
      BY <1>6 DEF Conclude
    <2>2. Displayed(apply_ladder_policy(s)) = ladder'
      BY <1>1, DisplayedSame
    <2>3. QuestionInv'
      BY <1>3, <1>6, <2>1, <2>2 DEF QuestionInv
    <2>4. HelpInv'
      BY <1>2, <2>1 DEF HelpInv, Recorded, H0SuccessIsUnaided
    <2> QED
      BY <1>4, <2>3, <2>4 DEF TurnInv
  <1> QED
    BY <1>5, <1>6

LEMMA AdmitType ==
    ASSUME NEW c \in Candidates
    PROVE  /\ c \in Responses /\ admit(c) \in Responses
           /\ admit(c).claims = Admissible(c) /\ Admissible(c) \subseteq Claims
  BY CandidatesAssumption DEF Responses, admit, Admissible, UiReferences

\* A step between two turns keeps the rest of the invariant.
LEMMA FramedTurn ==
    ASSUME Inv, TurnInv, Framed, FrameInv'
    PROVE  TurnInv'
  <1> USE DEF pedagogy, ledger
  <1>1. QuestionInv'
    BY DEF TurnInv, QuestionInv, Framed, Active
  <1>2. HelpInv'
    BY DEF TurnInv, HelpInv, H0SuccessIsUnaided, Recorded, Framed, Active
  <1> QED
    BY <1>1, <1>2 DEF TurnInv

LEMMA NextTurn == ASSUME Inv, TurnInv, Next PROVE TurnInv'
  <1>1. CASE Concluded
    BY <1>1, ConcludeTurn DEF Concluded
  <1>2. CASE ~Concluded
    <2>1. Framed
      BY <1>2, StepShape
    <2>2. frame.attempt > 0 => Active
      BY DEF Inv, EndedInv
    <2>3. Unread.relations \subseteq Relations
      BY DEF Unread, Semantics
    <2>4. ASSUME NEW g PROVE admitted_semantics(g).relations \subseteq Relations
      BY DEF admitted_semantics, Semantics, Verified
    <2>5. ASSUME Listen PROVE FrameInv'
      BY <2>5 DEF Listen, FrameInv
    <2>6. ASSUME Abandon PROVE FrameInv'
      BY <2>6 DEF Abandon, FrameInv, Idle
    <2>7. ASSUME AttemptFails PROVE FALSE
      BY <1>2, <2>2, <2>3, <2>4, <2>7 DEF AttemptFails, Concluded
    <2>8. ASSUME NEW c \in Candidates, understand_attempt(c) PROVE FrameInv'
      <3> DEFINE g == merge_admitted(frame.admitted, admit(c))
      <3> HIDE DEF g
      <3>1. Active
        BY <2>2, <2>8 DEF understand_attempt
      <3>2. /\ frame.attempt = 1
            /\ frame' = [attempt |-> 2, admitted |-> IF g.claims = {} THEN {} ELSE {g}]
        BY <1>2, <2>3, <2>4, <2>8, <3>1 DEF understand_attempt, Concluded, g
      <3>3. frame.admitted = {}
        BY <3>2 DEF TurnInv, FrameInv
      <3>4. g \in Responses
        BY <3>3, AdmitType DEF g, merge_admitted
      <3> QED
        BY <3>2, <3>4 DEF FrameInv
    <2>9. ASSUME \/ \E kind \in {"explicit_no_response", "silence_timeout", "asr_empty"} :
                        NoResponse(kind)
                 \/ \E correct \in BOOLEAN : Choose(correct)
                 \/ JointAction
          PROVE  FrameInv'
      <3>1. frame' = Idle
        BY <2>9, ConcludeFrame DEF NoResponse, Choose, JointAction
      <3> QED
        BY <3>1 DEF FrameInv, Idle
    <2>10. FrameInv'
      BY <2>5, <2>6, <2>7, <2>8, <2>9 DEF Next
    <2> QED
      BY <2>1, <2>10, FramedTurn
  <1> QED
    BY <1>1, <1>2

\* The question, the record of help and the frame are sound in every reachable
\* state.
THEOREM TurnInvariance == Spec => []TurnInv
  <1>1. Init => TurnInv
    <2> SUFFICES ASSUME Init PROVE TurnInv
      OBVIOUS
    <2> PICK start \in StartLevels :
            /\ ladder = Displayed([level |-> start, hint |-> "H0", max |-> "H0"])
            /\ question = question_contract(start, {}, {}, {})
      BY DEF Init
    <2>1. /\ facts = {} /\ relations = {} /\ partials = {} /\ frame = Idle
          /\ result.outcome = "active" /\ result.credit = "none"
      BY DEF Init
    <2>2. ladder.level = start /\ Recorded(ladder)
      BY DEF Displayed, Recorded, Rank
    <2>3. ~Complete({}, {})
      BY PackAssumption DEF Complete
    <2>4. QuestionInv
      BY <2>1, <2>2, <2>3 DEF QuestionInv
    <2>5. HelpInv
      BY <2>1, <2>2 DEF HelpInv, H0SuccessIsUnaided
    <2>6. FrameInv
      BY <2>1 DEF FrameInv, Idle
    <2> QED
      BY <2>4, <2>5, <2>6 DEF TurnInv
  <1>2. ASSUME Inv, TurnInv, [Next]_vars PROVE TurnInv'
    <2>1. CASE Next
      BY <1>2, <2>1, NextTurn
    <2>2. CASE UNCHANGED vars
      <3> USE DEF vars, pedagogy, ledger
      <3>1. QuestionInv'
        BY <1>2, <2>2 DEF TurnInv, QuestionInv, Active
      <3>2. HelpInv'
        BY <1>2, <2>2 DEF TurnInv, HelpInv, H0SuccessIsUnaided, Recorded, Active
      <3>3. FrameInv'
        BY <1>2, <2>2 DEF TurnInv, FrameInv
      <3> QED
        BY <3>1, <3>2, <3>3 DEF TurnInv
    <2> QED
      BY <1>2, <2>1, <2>2
  <1> QED
    BY <1>1, <1>2, Invariance, PTL DEF Spec

\* In every turn the ladders are paired, the question asks for open targets in
\* the form of its level, a profile success at H0 had no card, and no turn
\* takes support back (_apply_execution, _question_contract, _complete_state).
THEOREM SupportIsCoherentHolds == Spec => SupportIsCoherent
  <1>1. Inv /\ TurnInv => TerminalLadderPair /\ QuestionIsOpen /\ H0SuccessIsUnaided
    <2> SUFFICES ASSUME Inv, TurnInv
                 PROVE  TerminalLadderPair /\ QuestionIsOpen /\ H0SuccessIsUnaided
      OBVIOUS
    <2>1. TerminalLadderPair
      BY DEF Inv, LadderInv, Paired, TerminalLadderPair
    <2>2. ladder.level \in Levels
      BY DEF Inv, LadderInv, Ladders
    <2>3. QuestionIsOpen
      <3> SUFFICES ASSUME Active PROVE QuestionIsOpen
        BY DEF QuestionIsOpen
      <3>1. /\ ~Complete(facts, relations)
            /\ question = question_contract(ladder.level, facts, relations, partials)
        BY DEF TurnInv, QuestionInv
      <3> QED
        BY <2>2, <3>1, ContractIsOpen DEF QuestionIsOpen
    <2> QED
      BY <2>1, <2>3 DEF TurnInv, HelpInv
  <1> QED
    BY <1>1, Invariance, TurnInvariance, SupportTheorem, PTL DEF SupportIsCoherent

-----------------------------------------------------------------------------
(* The two attempts at understanding. *)

\* What merge_admitted keeps of the first attempt.
LEMMA MergeKeeps ==
    ASSUME TurnInv, NEW k \in frame.admitted, NEW g
    PROVE  /\ k \in Responses /\ (CHOOSE h \in frame.admitted : TRUE) = k
           /\ k.claims \subseteq merge_admitted(frame.admitted, g).claims
  <1>1. k \in Responses /\ \A h \in frame.admitted : h = k
    BY DEF TurnInv, FrameInv
  <1>2. (CHOOSE h \in frame.admitted : TRUE) = k
    BY <1>1
  <1>3. merge_admitted(frame.admitted, g) =
            [k EXCEPT !.claims = k.claims \cup {x \in g.claims : x.id \notin {y.id : y \in k.claims}},
                      !.ui = IF k.ui # "none" THEN k.ui ELSE g.ui]
    BY <1>2 DEF merge_admitted
  <1> QED
    BY <1>1, <1>2, <1>3 DEF Responses

\* A right claim of a concluded response is in the ledger, unless it was about
\* nothing the pack asks for.
LEMMA ClaimReaches ==
    ASSUME NEW g, NEW x \in g.claims, x \in Claims, x.verdict = "correct",
           Conclude(admitted_semantics(g))
    PROVE  x.target \in facts' \cup relations' \cup {Auxiliary}
  <1>1. /\ facts' = facts \cup admitted_semantics(g).facts
        /\ relations' = relations \cup admitted_semantics(g).relations
    BY DEF Conclude
  <1>2. /\ admitted_semantics(g).facts = Verified(g.claims, Facts)
        /\ admitted_semantics(g).relations = Verified(g.claims, Relations)
    BY DEF admitted_semantics, Semantics
  <1>3. x.target \in Facts \/ x.target \in Relations \/ x.target = Auxiliary
    BY DEF Claims, Targets
  <1>4. ASSUME NEW ids, x.target \in ids PROVE x.target \in Verified(g.claims, ids)
    BY <1>4 DEF Verified
  <1> QED
    BY <1>1, <1>2, <1>3, <1>4

\* A turn that was not understood asks the same question of the same state
\* (the deterministic fallback of _understand_execution).
LEMMA UnreadSame ==
    ASSUME Inv, TurnInv, Active, Conclude(Unread)
    PROVE  UNCHANGED pedagogy
  <1>1. /\ Unread.facts = {} /\ Unread.relations = {} /\ Unread.partials = {}
        /\ Unread.source = "deterministic_fallback"
    BY DEF Unread, Semantics
  <1>2. Reading(Unread) = "unread"
    BY <1>1 DEF Reading
  <1>3. apply_ladder_policy(Unread) = ladder /\ NextVague(Unread) = vague
    BY <1>2 DEF apply_ladder_policy, NextVague
  <1>4. Displayed(ladder) = ladder
    BY DisplayedSame DEF Inv, LadderInv
  <1>5. /\ ~Complete(facts, relations)
        /\ question = question_contract(ladder.level, facts, relations, partials)
    BY DEF TurnInv, QuestionInv
  <1>6. UNCHANGED <<ledger, ladder, vague>>
    BY <1>1, <1>3, <1>4 DEF Conclude, ledger
  <1>7. childEvidence' = childEvidence
    BY <1>1 DEF Conclude, track_note_provenance
  <1>8. facts \cup Unread.facts = facts /\ relations \cup Unread.relations = relations
        /\ partials \cup (Unread.partials \ relations) = partials
    BY <1>1
  <1>9. question' = question /\ result' = result
    BY <1>3, <1>4, <1>5, <1>8 DEF Conclude
  <1> QED
    BY <1>6, <1>7, <1>9 DEF pedagogy

\* A turn in which the model was asked ends unread, with what was admitted, with
\* a bridge, or with nothing.
LEMMA AttemptShape ==
    ASSUME Inv, TurnInv, Next, frame.attempt > 0, frame'.attempt = 0
    PROVE  \/ ended' = "abandoned"
           \/ /\ Conclude(Unread)
              /\ \A k \in frame.admitted : k.claims = {}
           \/ \E g : /\ Conclude(admitted_semantics(g))
                     /\ \A k \in frame.admitted : k.claims \subseteq g.claims
  <1>1. frame # Idle
    BY DEF Idle
  <1>2. CASE Abandon
    BY <1>2 DEF Abandon
  <1>3. CASE AttemptFails
    <2>1. CASE frame.admitted = {}
      BY <1>3, <2>1 DEF AttemptFails
    <2>2. CASE frame.admitted # {}
      <3>1. PICK k \in frame.admitted : TRUE
        BY <2>2
      <3>2. (CHOOSE h \in frame.admitted : TRUE) = k /\ \A h \in frame.admitted : h = k
        BY MergeKeeps DEF TurnInv, FrameInv
      <3> QED
        BY <1>3, <2>2, <3>2 DEF AttemptFails
    <2> QED
      BY <2>1, <2>2
  <1>4. ASSUME NEW c \in Candidates, understand_attempt(c)
        PROVE  \/ /\ Conclude(Unread)
                  /\ \A k \in frame.admitted : k.claims = {}
               \/ \E g : /\ Conclude(admitted_semantics(g))
                         /\ \A k \in frame.admitted : k.claims \subseteq g.claims
    <2> DEFINE g == merge_admitted(frame.admitted, admit(c))
    <2>1. \A k \in frame.admitted : k.claims \subseteq g.claims
      BY MergeKeeps
    <2> HIDE DEF g
    <2>2. \/ Conclude(admitted_semantics(c)) /\ frame.admitted = {}
          \/ frame' = [attempt |-> 2, admitted |-> IF g.claims = {} THEN {} ELSE {g}]
          \/ Conclude(Unread) /\ g.claims = {}
          \/ Conclude(admitted_semantics(g))
      BY <1>4 DEF understand_attempt, g
    <2> QED
      BY <2>1, <2>2
  <1> QED
    BY <1>1, <1>2, <1>3, <1>4 DEF Next, Listen, NoResponse, Choose, JointAction

\* Whatever becomes of the two attempts, what the first admitted is in the
\* ledger, and a turn nobody understood changes nothing (understand_attempt,
\* merge_admitted, the deterministic fallback).
THEOREM UnderstandingIsFairHolds == Spec => UnderstandingIsFair
  <1>1. ASSUME Inv, TurnInv, Next, frame.attempt = 2, frame'.attempt = 0, ended' # "abandoned",
               NEW k \in frame.admitted, NEW x \in k.claims, x.verdict = "correct"
        PROVE  x.target \in facts' \cup relations' \cup {Auxiliary}
    <2>1. x \in Claims
      BY <1>1 DEF TurnInv, FrameInv, Responses
    <2>2. PICK g : Conclude(admitted_semantics(g)) /\ x \in g.claims
      BY <1>1, AttemptShape
    <2> QED
      BY <1>1, <2>1, <2>2, ClaimReaches
  <1>2. ASSUME Inv, TurnInv, Next, frame.attempt > 0, frame'.attempt = 0,
               ended' = "deterministic_fallback"
        PROVE  UNCHANGED pedagogy
    <2>1. Active
      BY <1>2 DEF Inv, EndedInv
    <2>2. ASSUME NEW g PROVE ~Conclude(admitted_semantics(g))
      BY <1>2, ConcludeFrame DEF admitted_semantics, Semantics
    <2>3. Conclude(Unread)
      BY <1>2, <2>2, AttemptShape
    <2> QED
      BY <1>2, <2>1, <2>3, UnreadSame
  <1>3. Inv /\ TurnInv /\ [Next]_vars =>
            [(frame.attempt = 2 /\ frame'.attempt = 0 /\ ended' # "abandoned") =>
                 \A g \in frame.admitted : \A x \in g.claims :
                     x.verdict = "correct" => x.target \in facts' \cup relations' \cup {Auxiliary}]_vars
    BY <1>1
  <1>4. Inv /\ TurnInv /\ [Next]_vars =>
            [(frame.attempt > 0 /\ frame'.attempt = 0 /\ ended' = "deterministic_fallback") =>
                 UNCHANGED pedagogy]_vars
    BY <1>2
  <1> QED
    BY <1>3, <1>4, Invariance, TurnInvariance, PTL
    DEF Spec, UnderstandingIsFair, AdmittedReachesLedger, UnreadIsNeutral

===========================================================================
