-------------------------- MODULE TurnGraphProofs --------------------------
(***************************************************************************)
(* The two graphs a turn runs through.                                     *)
(*                                                                         *)
(* SessionParent, the graph around the turn service, for every set of      *)
(* requests: ParentInv is inductive, and from it the turn service runs     *)
(* once per request, answers are the committed turns and the cursor only   *)
(* advances.                                                               *)
(*                                                                         *)
(* SpeechTurn, the graph from understanding to the sentence, for every     *)
(* pack, whatever a turn was understood as and whatever the speaker models *)
(* return.                                                                 *)
(***************************************************************************)
EXTENDS SessionParent, SpeechTurn, TLAPS

-----------------------------------------------------------------------------
(* The session parent. *)

\* Every request has a response, and copies of a response answer one turn.
LEMMA CopiesAnswerOneTurn ==
    /\ \A q \in Requests : ResponseOf[q] \in Responses /\ TurnOf[q] \in Nat \ {0}
    /\ \A q, p \in Requests : ResponseOf[q] = ResponseOf[p] => TurnOf[q] = TurnOf[p]
  BY ParentAssumption DEF Responses

\* The row that no conversation has is none of the rows, and a pointer is a packet.
LEMMA RowFacts ==
    /\ NoRow \notin Rows
    /\ \A x \in Rows : x.generation \in Nat \ {0} /\ x.version \in Nat
    /\ \A v \in Nat : Phase(v) \in PhaseNames
    /\ \A g \in Nat, v \in Nat :
          [generation |-> g + 1, version |-> v, phase |-> Phase(v), packet |-> Pointer(v)] \in Rows
  <1>1. NoRow \notin Rows
    BY DEF NoRow, Rows
  <1>2. \A x \in Rows : x.generation \in Nat \ {0} /\ x.version \in Nat
    BY DEF Rows
  <1>3. \A v \in Nat : Phase(v) \in PhaseNames
    BY DEF Phase, PhaseNames
  <1>4. \A v \in Nat : Pointer(v) \in [version : Nat, phase : PhaseNames]
    BY <1>3 DEF Pointer
  <1> QED
    BY <1>1, <1>2, <1>3, <1>4 DEF Rows

\* Nobody has a turn or a cursor at the start.
LEMMA InitParent == ParentInit => ParentInv
  BY CopiesAnswerOneTurn DEF ParentInit, ParentInv, TypeOK, TablesInv, PlaceInv, Places, Ended

\* A step before the turn service runs, or a step of the stream, leaves the
\* tables and the results alone.
LEMMA QuietSteps ==
    ASSUME ParentInv, NEW r \in Requests,
           \/ ReadState(r) \/ LoadCursor(r) \/ Restore(r) \/ Rebuild(r) \/ Accept(r) \/ Emit(r)
           \/ Yield(r) \/ Acknowledge(r) \/ Compose(r) \/ Export(r)
    PROVE  ParentInv'
  <1> USE CopiesAnswerOneTurn, RowFacts DEF ParentInv, TypeOK, TablesInv, PlaceInv, Places, Ended, db, Go
  <1>1. CASE ReadState(r)
    BY <1>1 DEF ReadState
  <1>2. CASE LoadCursor(r)
    BY <1>2 DEF LoadCursor
  <1>3. CASE Restore(r) \/ Rebuild(r)
    BY <1>3 DEF Restore, Rebuild, Pointer
  <1>4. CASE Accept(r)
    BY <1>4 DEF Accept
  <1>5. CASE Emit(r)
    BY <1>5 DEF Emit
  <1>6. CASE Yield(r)
    BY <1>6 DEF Yield
  <1>7. CASE Acknowledge(r)
    BY <1>7 DEF Acknowledge
  <1>8. CASE Compose(r)
    BY <1>8 DEF Compose
  <1>9. CASE Export(r)
    BY <1>9 DEF Export
  <1> QED
    BY <1>1, <1>2, <1>3, <1>4, <1>5, <1>6, <1>7, <1>8, <1>9

\* A request that ends, or whose client leaves, keeps what it holds.
LEMMA EndingSteps ==
    ASSUME ParentInv, NEW r \in Requests,
           Answer(r) \/ Fail(r) \/ Disconnect(r) \/ Cancel(r) \/ GraphRaises(r)
    PROVE  ParentInv'
  <1> USE CopiesAnswerOneTurn, RowFacts DEF ParentInv, TypeOK, TablesInv, PlaceInv, Places, Ended, db, Go, Here
  <1>1. CASE Answer(r)
    BY <1>1 DEF Answer
  <1>2. CASE Fail(r)
    BY <1>2 DEF Fail
  <1>3. CASE Disconnect(r)
    BY <1>3 DEF Disconnect
  <1>4. CASE Cancel(r)
    BY <1>4 DEF Cancel
  <1>5. CASE GraphRaises(r)
    <2>1. CASE ran[r] = 0
      BY <1>5, <2>1 DEF GraphRaises, Recover
    <2>2. CASE ran[r] # 0 /\ result[r] = 0
      BY <1>5, <2>2 DEF GraphRaises, Recover
    <2>3. CASE ran[r] # 0 /\ result[r] # 0
      BY <1>5, <2>3 DEF GraphRaises, Recover
    <2> QED
      BY <2>1, <2>2, <2>3
  <1> QED
    BY <1>1, <1>2, <1>3, <1>4, <1>5

\* A replay, and a run that finds its response answered, take the turn that is there.
LEMMA ReplaySteps ==
    ASSUME ParentInv, NEW r \in Requests, Replay(r) \/ RunTurn(r)
    PROVE  ParentInv'
  <1> USE CopiesAnswerOneTurn, RowFacts DEF ParentInv, TypeOK, TablesInv, PlaceInv, Places, Ended, db, Go
  <1>1. CASE Replay(r)
    BY <1>1 DEF Replay
  <1>2. CASE RunTurn(r)
    BY <1>2 DEF RunTurn, Finish
  <1> QED
    BY <1>1, <1>2

\* A commit finds its response without a turn: any copy that committed before has
\* moved the version past the turn both of them answer.
LEMMA CommitStep ==
    ASSUME ParentInv, NEW r \in Requests, Commit(r)
    PROVE  ParentInv'
  <1> USE CopiesAnswerOneTurn, RowFacts DEF ParentInv, TypeOK, TablesInv, PlaceInv, Places, Ended, Go
  <1>1. CASE version # seen[r]
    BY <1>1 DEF Commit
  <1>2. CASE version = seen[r]
    <2>1. commits[ResponseOf[r]] = 0 /\ version = TurnOf[r]
      BY <1>2 DEF Commit
    <2>2. /\ version' = version + 1
          /\ commits' = [commits EXCEPT ![ResponseOf[r]] = version + 1]
          /\ UNCHANGED <<row, cursor, seen, client, at, ran>>
          /\ \/ result' = [result EXCEPT ![r] = version + 1]
                /\ pc' = [pc EXCEPT ![r] = IF cursor[r] = NoRow THEN "answer" ELSE "export"]
             \/ result' = result /\ pc' = [pc EXCEPT ![r] = "failing"]
      BY <1>2 DEF Commit, Finish
    <2>3. TypeOK' /\ TablesInv'
      BY <2>1, <2>2
    <2>4. ASSUME NEW q \in Requests PROVE PlaceInv(q)'
      <3>1. CASE q = r
        BY <2>1, <2>2, <3>1 DEF Commit
      <3>2. CASE q # r
        BY <2>1, <2>2, <3>2
      <3> QED
        BY <3>1, <3>2
    <2> QED
      BY <2>3, <2>4 DEF ParentInv
  <1> QED
    BY <1>1, <1>2

\* A publication writes the version it has just compared.
LEMMA PublishStep ==
    ASSUME ParentInv, NEW r \in Requests, publish(r)
    PROVE  ParentInv'
  BY CopiesAnswerOneTurn, RowFacts
     DEF ParentInv, TypeOK, TablesInv, PlaceInv, Places, Ended, Go, publish, CanPublish

\* Enrolment points at the first turn, whatever was answered since.
LEMMA EnrollStep == ParentInv /\ enroll => ParentInv'
  <1> SUFFICES ASSUME ParentInv, enroll PROVE ParentInv'
    OBVIOUS
  <1>1. row' \in Rows /\ row'.version = 1
    BY DEF enroll, Rows, PhaseNames
  <1> QED
    BY <1>1 DEF ParentInv, TypeOK, TablesInv, PlaceInv, enroll

\* ParentInv is inductive: every step of a request, of the graph or of a client keeps it.
THEOREM ParentStep == ParentInv /\ [ParentNext]_parentVars => ParentInv'
  <1> SUFFICES ASSUME ParentInv, [ParentNext]_parentVars PROVE ParentInv'
    OBVIOUS
  <1>1. CASE enroll
    BY <1>1, EnrollStep
  <1>2. ASSUME NEW r \in Requests, Step(r) \/ GraphRaises(r) \/ Disconnect(r) PROVE ParentInv'
    BY <1>2, QuietSteps, EndingSteps, ReplaySteps, CommitStep, PublishStep DEF Step
  <1>3. CASE UNCHANGED parentVars
    BY <1>3 DEF ParentInv, TypeOK, TablesInv, PlaceInv, parentVars, db
  <1> QED
    BY <1>1, <1>2, <1>3 DEF ParentNext

\* Every reachable state of the parent, its cursor and its requests satisfies ParentInv.
THEOREM ParentHolds == ParentSpec => []ParentInv
  BY InitParent, ParentStep, PTL DEF ParentSpec

\* The turn service runs at most once for a request, and only in a parent graph
\* that waits at the state the request read, whatever the graph, its checkpoints
\* or its store do (SessionParentCoordinator.stream).
THEOREM RunsOnceHolds == ParentSpec => []RunsOnce
  <1>1. ParentInv => RunsOnce
    BY DEF ParentInv, PlaceInv, RunsOnce
  <1> QED
    BY <1>1, ParentHolds, PTL

\* A request is answered with its own turn, and no failure of the parent turns a
\* committed turn into an error (_respond_stream_scoped, invoke).
THEOREM AnswerIsItsTurnHolds == ParentSpec => []AnswerIsItsTurn
  <1>1. ParentInv => AnswerIsItsTurn
    BY DEF ParentInv, PlaceInv, AnswerIsItsTurn
  <1> QED
    BY <1>1, ParentHolds, PTL

\* Publications carry the version of the conversation, one generation on, and
\* never lead the cursor back (SessionParentStore.publish).
THEOREM CursorAdvancesHolds == ParentSpec => CursorAdvances
  <1> DEFINE Advance == row' # row =>
        \/ row = NoRow /\ row'.version <= version /\ row'.packet = NoPacket
        \/ /\ row # NoRow /\ row'.generation = row.generation + 1
           /\ row'.version = version /\ row'.version >= row.version
           /\ row'.packet = Pointer(version) /\ row'.phase = Phase(version)
  <1>1. ASSUME ParentInv, ParentNext PROVE Advance
    <2>1. CASE enroll
      BY <1>1, <2>1 DEF enroll, ParentInv, TypeOK
    <2>2. ASSUME NEW r \in Requests, publish(r) PROVE Advance
      <3>1. row \in {NoRow} \cup Rows /\ cursor[r] \in Rows /\ version \in Nat
        BY <1>1, <2>2 DEF ParentInv, TypeOK, PlaceInv, publish
      <3>2. row # NoRow => row.version <= version
        BY <1>1 DEF ParentInv, TablesInv
      <3>3. NoRow.generation = 0 /\ row \in Rows => row.version \in Nat
        BY RowFacts DEF NoRow
      <3>4. CASE CanPublish(r)
        BY <2>2, <3>1, <3>2, <3>3, <3>4, RowFacts DEF publish, CanPublish, NoRow
      <3>5. CASE row' = row
        BY <3>5
      <3> QED
        BY <2>2, <3>4, <3>5 DEF publish
    <2>3. ASSUME NEW r \in Requests, (Step(r) /\ ~publish(r)) \/ GraphRaises(r) \/ Disconnect(r)
          PROVE  row' = row
      BY <2>3 DEF Step, Replay, ReadState, LoadCursor, Restore, Rebuild, RunTurn, Accept, Emit, Yield,
                  Acknowledge, Compose, Commit, Export, Answer, Fail, Cancel, GraphRaises,
                  Disconnect, db
    <2> QED
      BY <1>1, <2>1, <2>2, <2>3 DEF ParentNext, Step
  <1>2. ASSUME ParentInv, [ParentNext]_parentVars PROVE [Advance]_parentVars
    BY <1>1, <1>2
  <1> QED
    BY <1>2, ParentHolds, PTL DEF ParentSpec, CursorAdvances

-----------------------------------------------------------------------------
(* The sentence of a turn. *)

Rungs == {"L4", "L3", "L2", "L0"}

\* A turn is carried to its commit as it was prepared, attempts aside.
Carried(u, n) ==
    [stage |-> Channel(u), turn |-> u, attempt |-> n, speech |-> PreparedSpeech(u),
     next |-> [facts |-> Verified(u), relations |-> Established(u), partials |-> Started(u),
               ladder |-> After(u), vague |-> Home!NextVague(Meaning(u)),
               concept |-> NextConcept(u), unrelated |-> NextUnrelated(u)]]

\* What understanding admits of a response.
Admitted(u) == (u.unsafe => u.move = "none") /\ (u.ui # "none" => ladder.hint # "H0")

(* The inductive invariant.  The state does not move while a turn is carried, *)
(* so the job is what the current state makes of some admitted response; and  *)
(* the sentence on the screen fits the state it was committed with.           *)
JobInv == job # Idle => \E u, n : job = Carried(u, n) /\ Admitted(u)

ScreenInv ==
    /\ ladder.level \in Rungs /\ concept \in Nat /\ unrelated \in Nat
    /\ said.card => ladder.hint # "H0"
    /\ Active => (said.joint <=> ladder.level = "L0")

SpeechInv == JobInv /\ ScreenInv /\ AsksForItsInput /\ AnswerStaysWithTheChild

-----------------------------------------------------------------------------
(* The ladders. *)

\* No turn puts the card away, and from L4 without a card one turn leads at most
\* to the first card (_apply_ladder_policy).
LEMMA PolicyMoves ==
    ASSUME ladder.level \in Rungs, NEW s
    PROVE  LET p == Home!apply_ladder_policy(s)
           IN  /\ p.level \in Rungs
               /\ ladder.hint # "H0" => p.hint # "H0"
               /\ ladder.level = "L4" /\ ladder.hint = "H0" =>
                      p.level \in {"L4", "L3"} /\ p.hint \in {"H0", "H1"}
  BY DEF Rungs, Home!apply_ladder_policy, Home!raise_hint, Home!lower_expression

\* A question is answered with a card, unless half of a method came with it.
LEMMA QuestionRaises ==
    ASSUME NEW s, Home!Asks(s), s.source # "deterministic_fallback",
           Home!apply_ladder_policy(s).hint = "H0"
    PROVE  s.partials # {} /\ ladder.hint = "H0"
  <1>1. Home!raise_hint(ladder).hint # "H0"
    BY DEF Home!raise_hint
  <1>2. Home!Reading(s) \in {"progress", "partial", "question"}
    BY DEF Home!Reading
  <1>3. Home!Reading(s) = "partial"
    BY <1>1, <1>2 DEF Home!apply_ladder_policy
  <1>4. Home!NewPartial(s)
    BY <1>3 DEF Home!Reading
  <1>5. s.partials # {}
    BY <1>4 DEF Home!NewPartial
  <1>6. ladder.hint = "H0"
    BY <1>3 DEF Home!apply_ladder_policy
  <1> QED
    BY <1>5, <1>6

\* What a turn carries is a function of the state it was prepared in.
LEMMA CarriedSame ==
    ASSUME UNCHANGED state, NEW u, NEW n
    PROVE  Carried(u, n)' = Carried(u, n) /\ Admitted(u)' = Admitted(u)
  <1> USE DEF state, ledger
  <1> DEFINE s == Meaning(u)
  <1>1. /\ Meaning(u)' = Meaning(u)
        /\ Verified(u)' = Verified(u) /\ Established(u)' = Established(u)
        /\ Started(u)' = Started(u) /\ Admitted(u)' = Admitted(u)
    BY DEF Meaning, Home!Semantics, Verified, Established, Started, Admitted
  <1>2. Finishes(u)' = Finishes(u)
    BY <1>1 DEF Finishes, Complete
  <1>3. /\ Home!NewCanonical(Meaning(u))' = Home!NewCanonical(Meaning(u))
        /\ Home!NewPartial(Meaning(u))' = Home!NewPartial(Meaning(u))
        /\ Home!Asks(Meaning(u))' = Home!Asks(Meaning(u))
        /\ initial_help(u)' = initial_help(u)
    BY <1>1 DEF Home!NewCanonical, Home!NewPartial, Home!Asks, Home!initial_help, initial_help
  <1>4. Home!Reading(Meaning(u))' = Home!Reading(Meaning(u))
    BY <1>1, <1>3 DEF Home!Reading
  <1>5. Home!apply_ladder_policy(Meaning(u))' = Home!apply_ladder_policy(Meaning(u))
    BY <1>3, <1>4 DEF Home!apply_ladder_policy, Home!raise_hint, Home!lower_expression,
                      Home!MaxHint, Home!Rank
  <1>6. After(u)' = After(u)
    BY <1>2, <1>5 DEF After, Home!Displayed
  <1>7. /\ NextConcept(u)' = NextConcept(u) /\ NextUnrelated(u)' = NextUnrelated(u)
        /\ Home!NextVague(Meaning(u))' = Home!NextVague(Meaning(u))
    BY <1>4 DEF NextConcept, NextUnrelated, Home!NextVague
  <1>8. Input(u)' = Input(u)
    BY <1>1, <1>6 DEF Input, Home!question_contract, Home!Focus, Home!FirstOpen, Home!Remaining
  <1>9. Question(u)' = Question(u)
    BY <1>3, <1>8 DEF Question
  <1>10. /\ CardVisible(u)' = CardVisible(u) /\ CardStronger(u)' = CardStronger(u)
    BY <1>6 DEF CardVisible, CardStronger
  <1>11. /\ response_mode(u)' = response_mode(u)
    BY <1>10 DEF response_mode
  <1>12. reask_mode(u)' = reask_mode(u)
    BY <1>6, <1>11 DEF reask_mode
  <1>13. route_for_understanding(u)' = route_for_understanding(u)
    BY <1>3 DEF route_for_understanding
  <1>14. stable_fallback(u)' = stable_fallback(u)
    BY <1>6, <1>9 DEF stable_fallback, transition_for_purpose
  <1>15. uses_reviewed_expression_support(u)' = uses_reviewed_expression_support(u)
    BY <1>3, <1>13 DEF uses_reviewed_expression_support
  <1>16. answer_only(u)' = answer_only(u)
    BY <1>3 DEF answer_only
  <1>17. Channel(u)' = Channel(u)
    BY <1>2, <1>9, <1>13, <1>14, <1>15, <1>16 DEF Channel
  <1>18. validate_public_support_context(u)' = validate_public_support_context(u)
    BY <1>6, <1>9, <1>10, <1>12 DEF validate_public_support_context
  <1>19. Plannable(u)' = Plannable(u)
    BY <1>7, <1>10, <1>17, <1>18 DEF Plannable
  <1>20. conversational_fallback(u)' = conversational_fallback(u)
    BY <1>8, <1>9, <1>10 DEF conversational_fallback, Sentence
  <1>21. card_licence(u)' = card_licence(u)
    BY <1>10, <1>17 DEF card_licence
  <1>22. PreparedSpeech(u)' = PreparedSpeech(u)
    BY <1>2, <1>9, <1>12, <1>19, <1>20, <1>21 DEF PreparedSpeech
  <1> QED
    BY <1>1, <1>6, <1>7, <1>17, <1>22 DEF Carried

\* The ladder a prepared turn commits: a joint action comes with its card.
LEMMA AfterMoves ==
    ASSUME ladder.level \in Rungs, NEW u
    PROVE  /\ After(u).level \in Rungs
           /\ ladder.hint # "H0" => After(u).hint # "H0"
           /\ ~Finishes(u) /\ After(u).level = "L0" => After(u).hint = "H3"
           /\ ladder.level = "L4" /\ ladder.hint = "H0" =>
                  After(u).level # "L0" /\ After(u).hint \in {"H0", "H1"}
  <1> DEFINE moved == Home!apply_ladder_policy(Meaning(u))
  <1>1. /\ moved.level \in Rungs
        /\ ladder.hint # "H0" => moved.hint # "H0"
        /\ ladder.level = "L4" /\ ladder.hint = "H0" =>
               moved.level \in {"L4", "L3"} /\ moved.hint \in {"H0", "H1"}
    BY PolicyMoves
  <1>2. After(u) = IF Finishes(u) THEN moved
                   ELSE IF moved.level = "L0" THEN [level |-> "L0", hint |-> "H3", max |-> moved.max]
                   ELSE moved
    BY DEF After, Home!Displayed
  <1> HIDE DEF moved
  <1> QED
    BY <1>1, <1>2 DEF Rungs

-----------------------------------------------------------------------------
(* The question. *)

\* _question_contract on an incomplete ledger asks for something, and for the
\* joint action exactly at L0.
LEMMA ContractAsks ==
    ASSUME NEW level \in Rungs, NEW F, NEW R, NEW half, ~Complete(F, R)
    PROVE  LET q == Home!question_contract(level, F, R, half)
           IN  /\ q.targets # {} /\ (q.plan = "l0" <=> level = "L0")
               /\ level = "L4" => q.targets = Home!Remaining(F, R)
  <1> DEFINE open == Home!Remaining(F, R)
             q == Home!question_contract(level, F, R, half)
  <1>1. open # {}
    BY DEF Complete, Home!Remaining
  <1> HIDE DEF open
  <1>4. CASE level = "L0"
    <2>1. q = [plan |-> "l0", targets |-> open]
      BY <1>4 DEF Home!question_contract, open
    <2> QED
      BY <1>1, <1>4, <2>1
  <1>5. CASE level = "L4"
    <2> DEFINE plan == IF Home!Cardinality(open) > 1 THEN "initial" ELSE "l3"
    <2>1. q = [plan |-> plan, targets |-> open]
      BY <1>5 DEF Home!question_contract, open
    <2>2. plan # "l0"
      OBVIOUS
    <2> HIDE DEF plan, q
    <2> QED
      BY <1>1, <1>5, <2>1, <2>2 DEF q, open
  <1>6. CASE level = "L3"
    <2>1. q = [plan |-> "l3", targets |-> {Home!Focus(level, F, R, half)}]
      BY <1>6 DEF Home!question_contract
    <2> QED
      BY <1>6, <2>1
  <1>7. CASE level = "L2"
    <2>1. q = [plan |-> "l2", targets |-> {Home!Focus(level, F, R, half)}]
      BY <1>7 DEF Home!question_contract
    <2> QED
      BY <1>7, <2>1
  <1> QED
    BY <1>4, <1>5, <1>6, <1>7 DEF Rungs

\* The question a prepared turn puts: the offer of help belongs to the first
\* card, and the slot of the joint action to L0.
LEMMA QuestionFits ==
    ASSUME ladder.level \in Rungs, NEW u, ~Finishes(u)
    PROVE  /\ Question(u).targets # {}
           /\ Question(u).plan = "l0" <=> After(u).level = "L0"
           /\ Input(u).plan = "l0" <=> After(u).level = "L0"
           /\ \/ Question(u).targets = Input(u).targets
              \/ After(u).hint \in {"H0", "H1"} /\ Question(u).targets = {HelpTarget}
  <1>1. /\ Input(u).targets # {} /\ (Input(u).plan = "l0" <=> After(u).level = "L0")
    BY AfterMoves, ContractAsks DEF Input, Finishes
  <1>2. CASE initial_help(u)
    <2>1. ladder.level = "L4" /\ ladder.hint = "H0"
      BY <1>2 DEF initial_help, Home!initial_help
    <2>2. Question(u) = [plan |-> "help", targets |-> {HelpTarget}]
      BY <1>2 DEF Question
    <2> QED
      BY <1>1, <2>1, <2>2, AfterMoves
  <1>3. CASE ~initial_help(u)
    BY <1>1, <1>3 DEF Question
  <1> QED
    BY <1>2, <1>3

-----------------------------------------------------------------------------
(* The sentence. *)

\* The numbers that are the child's: its answers, and those in the names of the
\* methods it has taught.
Sayable(u) == Verified(u) \cup UNION {Labels[r] : r \in Established(u)}

\* What a sentence must be for the turn it is said in.
Fits(u, x) ==
    /\ ~Finishes(u) => /\ x.questions = 1 /\ x.asks = Question(u).targets
                       /\ x.joint <=> After(u).level = "L0"
    /\ x.card => After(u).hint # "H0"
    /\ x.opened => After(u).hint # ladder.hint
    /\ x.names \cap x.asks \subseteq Verified(u) /\ Numbers(x.names) \subseteq Sayable(u)

\* How a turn reaches its channel.
LEMMA ChannelFacts ==
    ASSUME NEW u
    PROVE  /\ Channel(u) # "idle"
           /\ Channel(u) = "closing" <=> Finishes(u)
           /\ Channel(u) = "copy" => Question(u).plan # "l0"
           /\ Channel(u) \in {"acknowledge", "speaker", "bridge"} =>
                  u.source # "deterministic_fallback"
  <1>1. CASE Finishes(u)
    <2>1. Channel(u) = "closing"
      BY <1>1 DEF Channel
    <2> QED
      BY <1>1, <2>1
  <1>2. CASE ~Finishes(u)
    <2>1. u.source = "deterministic_fallback" => route_for_understanding(u) = "understanding_fallback"
      BY DEF route_for_understanding
    <2>2. CASE route_for_understanding(u) = "understanding_fallback"
      <3>1. uses_reviewed_expression_support(u) = FALSE
        BY <2>2 DEF uses_reviewed_expression_support
      <3>2. Channel(u) = "fallback"
        BY <1>2, <2>2, <3>1 DEF Channel
      <3> QED
        BY <1>2, <3>2
    <2>3. CASE route_for_understanding(u) # "understanding_fallback"
      <3>1. Channel(u) \in {"reviewed", "copy", "bridge", "acknowledge", "speaker"}
        BY <1>2, <2>3 DEF Channel, uses_reviewed_expression_support
      <3>2. Channel(u) = "copy" => Question(u).plan # "l0"
        BY <1>2, <2>3 DEF Channel, uses_reviewed_expression_support
      <3> QED
        BY <1>2, <2>1, <2>3, <3>1, <3>2
    <2> QED
      BY <2>2, <2>3
  <1> QED
    BY <1>1, <1>2

\* What a turn that is not over carries to its sentence.
LEMMA CarriedSpeech ==
    ASSUME NEW u, NEW n, job = Carried(u, n)
    PROVE  /\ job # Idle /\ job.stage = Channel(u) /\ job.turn = u
           /\ ~Finishes(u) =>
                  /\ job.speech.question = Question(u) /\ job.speech.reask = reask_mode(u)
                  /\ job.speech.planned = Plannable(u) /\ job.speech.licence = card_licence(u)
                  /\ job.speech.fallback = conversational_fallback(u)
  <1>1. job.stage = Channel(u) /\ job.turn = u /\ job.speech = PreparedSpeech(u)
    BY DEF Carried
  <1>2. job # Idle
    BY <1>1, ChannelFacts DEF Idle
  <1> QED
    BY <1>1, <1>2 DEF PreparedSpeech

\* The reviewed fallback knows the card of its own turn.
LEMMA FallbackFits ==
    ASSUME ladder.level \in Rungs, NEW u, ~Finishes(u)
    PROVE  Fits(u, conversational_fallback(u))
  <1> DEFINE joint == Input(u).plan = "l0"
             refusal == u.ui = "none" /\ u.move = "refusal"
             card == joint \/ (CardVisible(u) /\ ~refusal)
             opened == CardStronger(u) /\ (u.ui # "none" \/ u.move = "task_question")
  <1>1. conversational_fallback(u) =
            [names |-> {}, asks |-> Question(u).targets, questions |-> 1, card |-> card,
             joint |-> joint, opened |-> opened, strays |-> {}]
    BY DEF conversational_fallback, Sentence
  <1>2. joint <=> After(u).level = "L0"
    BY QuestionFits
  <1>3. card => After(u).hint # "H0"
    BY <1>2, AfterMoves DEF CardVisible
  <1>4. opened => After(u).hint # ladder.hint
    BY DEF CardStronger
  <1>5. Numbers({}) = {}
    BY DEF Numbers
  <1> HIDE DEF joint, card, opened
  <1> QED
    BY <1>1, <1>2, <1>3, <1>4, <1>5 DEF Fits

\* So does the reviewed text of the question's own slot.
LEMMA ReviewedFits ==
    ASSUME ladder.level \in Rungs, NEW u, NEW n, job = Carried(u, n), ~Finishes(u)
    PROVE  Fits(u, Reviewed)
  <1> DEFINE joint == Question(u).plan = "l0"
  <1>0. job.speech.question = Question(u)
    BY CarriedSpeech
  <1>1. Reviewed = [names |-> {}, asks |-> Question(u).targets, questions |-> 1, card |-> joint,
                    joint |-> joint, opened |-> FALSE, strays |-> {}]
    BY <1>0 DEF Reviewed, Sentence
  <1>2. joint <=> After(u).level = "L0"
    BY QuestionFits
  <1>3. joint => After(u).hint # "H0"
    BY <1>2, AfterMoves
  <1>4. Numbers({}) = {}
    BY DEF Numbers
  <1> HIDE DEF joint
  <1> QED
    BY <1>1, <1>2, <1>3, <1>4 DEF Fits

\* The plan tells the reaction model of a card that is up, and of a new one only
\* in the turn that brings it.
LEMMA LicenceFits ==
    ASSUME NEW u
    PROVE  /\ "card" \in card_licence(u) => CardVisible(u)
           /\ "opened" \in card_licence(u) => CardStronger(u)
  BY DEF card_licence

\* A reaction before the server's own question fits if it names only what the
\* child has just got right; what it says of the card by licence is true.
LEMMA ReactionFits ==
    ASSUME ladder.level \in Rungs, NEW u, NEW n, job = Carried(u, n), ~Finishes(u),
           Plannable(u), NEW o,
           o.names \cap Question(u).targets \subseteq Verified(u), Numbers(o.names) \subseteq Sayable(u)
    PROVE  Fits(u, compose_reaction_and_reask(o))
  <1> DEFINE licensed == o.words \cap card_licence(u)
             card == reask_mode(u) # "remaining_targets" \/ "card" \in licensed
             joint == reask_mode(u) = "joint_action"
             opened == "opened" \in licensed
             strays == o.words \ licensed
  <1>0. /\ job.speech.question = Question(u) /\ job.speech.reask = reask_mode(u)
        /\ job.speech.licence = card_licence(u)
    BY CarriedSpeech
  <1>1. compose_reaction_and_reask(o) =
            [names |-> o.names, asks |-> Question(u).targets, questions |-> 1, card |-> card,
             joint |-> joint, opened |-> opened, strays |-> strays]
    BY <1>0 DEF compose_reaction_and_reask, Sentence
  <1>2. joint <=> After(u).level = "L0"
    BY DEF reask_mode
  <1>3. card => After(u).hint # "H0"
    <2>1. reask_mode(u) \in {"joint_action", "help_guided_targets", "remaining_targets"}
      BY DEF reask_mode
    <2>2. reask_mode(u) = "help_guided_targets" => CardVisible(u)
      BY DEF Plannable, validate_public_support_context
    <2>3. "card" \in licensed => CardVisible(u)
      BY LicenceFits
    <2> QED
      BY <1>2, <2>1, <2>2, <2>3, AfterMoves DEF CardVisible
  <1>4. opened => After(u).hint # ladder.hint
    BY LicenceFits DEF CardStronger
  <1> HIDE DEF licensed, card, joint, opened, strays
  <1> QED
    BY <1>1, <1>2, <1>3, <1>4 DEF Fits

\* Every sentence that is said fits its turn.
Speaks == \E u, n, x : job = Carried(u, n) /\ Admitted(u) /\ Say(x) /\ Fits(u, x)

Waits == UNCHANGED state /\ JobInv'

\* What the guard lets pass names no answer that is asked for and no number that
\* is not the child's.
LEMMA PassedFits ==
    ASSUME ladder.level \in Rungs, NEW u, NEW n, job = Carried(u, n), ~Finishes(u),
           Plannable(u), NEW o, Passes(o)
    PROVE  Fits(u, compose_reaction_and_reask(o))
  <1>1. job.turn = u /\ job.speech.question = Question(u)
    BY CarriedSpeech
  <1>2. o.names \cap Question(u).targets = {}
    BY <1>1 DEF Passes, unresolved_answer_firewall
  <1>3. allowed_facts \subseteq Verified(u) /\ accepted_relations \subseteq Established(u)
    BY <1>1 DEF allowed_facts, accepted_relations, Verified, Established
  <1>4. Numbers(o.names) \subseteq Sayable(u)
    BY <1>3 DEF Passes, Sayable
  <1> QED
    BY <1>2, <1>4, ReactionFits

\* The copy resolver's text, checked once more, is the question itself.
LEMMA CopyFits ==
    ASSUME ladder.level \in Rungs, NEW u, NEW n, job = Carried(u, n), job.stage = "copy", NEW o,
           CopyPasses(o)
    PROVE  Fits(u, Sentence(o.names, job.speech.question.targets, 1, FALSE, FALSE, FALSE, o.words))
  <1>1. ~Finishes(u) /\ Question(u).plan # "l0"
    BY CarriedSpeech, ChannelFacts
  <1>2. job.speech.question = Question(u)
    BY <1>1, CarriedSpeech
  <1>3. Sentence(o.names, job.speech.question.targets, 1, FALSE, FALSE, FALSE, o.words) =
            [names |-> o.names, asks |-> Question(u).targets, questions |-> 1, card |-> FALSE,
             joint |-> FALSE, opened |-> FALSE, strays |-> o.words]
    BY <1>2 DEF Sentence
  <1>4. o.names \cap Question(u).targets = {} /\ Numbers(o.names) = {}
    BY <1>2 DEF CopyPasses
  <1>5. After(u).level # "L0"
    BY <1>1, QuestionFits
  <1>6. Fits(u, [names |-> o.names, asks |-> Question(u).targets, questions |-> 1, card |-> FALSE,
                 joint |-> FALSE, opened |-> FALSE, strays |-> o.words])
    BY <1>4, <1>5 DEF Fits
  <1> QED
    BY <1>3, <1>6

\* The turn in execution, once it has a stage.
LEMMA Turn ==
    ASSUME SpeechInv, job # Idle
    PROVE  \E u, n : job = Carried(u, n) /\ Admitted(u) /\ job.stage = Channel(u)
  BY CarriedSpeech DEF SpeechInv, JobInv

\* A turn that is put off or dropped leaves the state alone.
LEMMA KeptJob ==
    ASSUME NEW u, NEW n, job' = Carried(u, n), Admitted(u), UNCHANGED state
    PROVE  Waits
  BY CarriedSame DEF Waits, JobInv

LEMMA DroppedJob == ASSUME job' = Idle, UNCHANGED state PROVE Waits
  BY DEF Waits, JobInv, Idle

\* One failed attempt: another one, or the reviewed fallback.
LEMMA RetryStep ==
    ASSUME SpeechInv, job.stage = "speaker", retry_or_exhausted
    PROVE  Speaks \/ Waits
  <1>1. job # Idle
    BY DEF Idle
  <1>2. PICK u, n : job = Carried(u, n) /\ Admitted(u) /\ Channel(u) = "speaker"
    BY <1>1, Turn
  <1>3. ~Finishes(u) /\ ladder.level \in Rungs
    BY <1>2, ChannelFacts DEF SpeechInv, ScreenInv
  <1>4. CASE job.attempt < 2
    <2>1. job' = Carried(u, n + 1) /\ UNCHANGED state
      BY <1>2, <1>4 DEF retry_or_exhausted, Carried
    <2> QED
      BY <1>2, <2>1, KeptJob
  <1>5. CASE ~(job.attempt < 2)
    <2>1. Say(job.speech.fallback) /\ job.speech.fallback = conversational_fallback(u)
      BY <1>2, <1>3, <1>5, CarriedSpeech DEF retry_or_exhausted
    <2>2. Say(conversational_fallback(u))
      BY <2>1
    <2> QED
      BY <1>2, <1>3, <2>2, FallbackFits DEF Speaks
  <1> QED
    BY <1>4, <1>5

\* Every step of the turn graph commits a fitting sentence or moves only the job.
LEMMA SpeechStep == ASSUME SpeechInv, Next PROVE Speaks \/ Waits
  <1>0. ladder.level \in Rungs
    BY DEF SpeechInv, ScreenInv
  <1>1. ASSUME NEW u \in Utterances \cup Buttons, Understand(u) PROVE Waits
    <2>1. u.unsafe => u.move = "none"
      <3>1. CASE u \in Utterances
        BY <3>1, SpeechAssumption
      <3>2. CASE u \in Buttons
        BY <3>2 DEF Buttons, Utterance
      <3> QED
        BY <3>1, <3>2
    <2>2. Admitted(u) /\ UNCHANGED state
      BY <1>1, <2>1 DEF Admitted, Understand
    <2>3. job' = Carried(u, 1)
      BY <1>1 DEF Understand, Prepared, Carried
    <2> QED
      BY <2>2, <2>3, KeptJob
  <1>2. CASE SayReviewed
    <2>1. job # Idle
      BY <1>2 DEF SayReviewed, Idle
    <2>2. PICK u, n : job = Carried(u, n) /\ Admitted(u) /\ job.stage = Channel(u)
      BY <2>1, Turn
    <2>3. CASE job.stage = "closing" /\ Say(Closing)
      <3>1. Finishes(u)
        BY <2>2, <2>3, ChannelFacts
      <3>2. Fits(u, Closing)
        BY <3>1 DEF Fits, Closing, Sentence, Numbers
      <3> QED
        BY <2>2, <2>3, <3>2 DEF Speaks
    <2>4. CASE job.stage # "closing"
      <3>1. ~Finishes(u)
        BY <2>2, <2>4, ChannelFacts
      <3>2. CASE job.stage = "fallback" /\ Say(job.speech.fallback)
        <4>1. Say(conversational_fallback(u))
          BY <2>2, <3>1, <3>2, CarriedSpeech
        <4> QED
          BY <1>0, <2>2, <3>1, <4>1, FallbackFits DEF Speaks
      <3>3. CASE job.stage = "reviewed" /\ Say(Reviewed)
        BY <1>0, <2>2, <3>1, <3>3, ReviewedFits DEF Speaks
      <3>4. CASE /\ job.stage = "acknowledge" /\ job.speech.planned
                 /\ Say(compose_reaction_and_reask(reviewed_fact_acknowledgement))
        <4>1. Plannable(u) /\ job.turn = u
          BY <2>2, <3>1, <3>4, CarriedSpeech
        <4>2. reviewed_fact_acknowledgement.names \subseteq Verified(u)
          BY <4>1 DEF reviewed_fact_acknowledgement, Verified
        <4>3. Numbers(reviewed_fact_acknowledgement.names) \subseteq Sayable(u)
          BY <4>2 DEF Numbers, Sayable
        <4>4. Fits(u, compose_reaction_and_reask(reviewed_fact_acknowledgement))
          BY <1>0, <2>2, <3>1, <4>1, <4>2, <4>3, ReactionFits
        <4> QED
          BY <2>2, <3>4, <4>4 DEF Speaks
      <3> QED
        BY <1>2, <2>4, <3>2, <3>3, <3>4 DEF SayReviewed
    <2> QED
      BY <1>2, <2>3, <2>4 DEF SayReviewed
  <1>3. CASE SpeakerFails
    BY <1>3, RetryStep DEF SpeakerFails
  <1>4. CASE BridgeFails
    <2>1. job # Idle
      BY <1>4 DEF BridgeFails, Idle
    <2>2. PICK u, n : job = Carried(u, n) /\ Admitted(u) /\ job.stage = Channel(u)
      BY <2>1, Turn
    <2>3. ~Finishes(u)
      BY <1>4, <2>2, ChannelFacts DEF BridgeFails
    <2>4. Say(conversational_fallback(u))
      BY <1>4, <2>2, <2>3, CarriedSpeech DEF BridgeFails
    <2> QED
      BY <1>0, <2>2, <2>3, <2>4, FallbackFits DEF Speaks
  <1>5. CASE PlanFails \/ TurnCancelled
    BY <1>5, DroppedJob DEF PlanFails, TurnCancelled
  <1>6. ASSUME NEW o \in Outputs, SayCopy(o) PROVE Speaks
    <2>1. job # Idle /\ job.stage = "copy"
      BY <1>6 DEF SayCopy, Idle
    <2>2. PICK u, n : job = Carried(u, n) /\ Admitted(u) /\ job.stage = Channel(u)
      BY <2>1, Turn
    <2>3. ~Finishes(u)
      BY <2>1, <2>2, ChannelFacts
    <2>4. CASE CopyPasses(o)
      <3>1. Say(Sentence(o.names, job.speech.question.targets, 1, FALSE, FALSE, FALSE, o.words))
        BY <1>6, <2>4 DEF SayCopy
      <3>2. Fits(u, Sentence(o.names, job.speech.question.targets, 1, FALSE, FALSE, FALSE, o.words))
        BY <1>0, <2>1, <2>2, <2>4, CopyFits
      <3> QED
        BY <2>2, <3>1, <3>2 DEF Speaks
    <2>5. CASE ~CopyPasses(o)
      <3>1. Say(Reviewed)
        BY <1>6, <2>5 DEF SayCopy
      <3> QED
        BY <1>0, <2>2, <2>3, <3>1, ReviewedFits DEF Speaks
    <2> QED
      BY <2>4, <2>5
  <1>7. ASSUME NEW o \in Outputs, speak_attempt(o) PROVE Speaks \/ Waits
    <2>1. CASE ~Passes(o)
      BY <1>7, <2>1, RetryStep DEF speak_attempt
    <2>2. CASE Passes(o)
      <3>1. /\ job # Idle /\ job.stage = "speaker" /\ job.speech.planned
            /\ Say(compose_reaction_and_reask(o))
        BY <1>7, <2>2 DEF speak_attempt, Idle
      <3>2. PICK u, n : job = Carried(u, n) /\ Admitted(u) /\ job.stage = Channel(u)
        BY <3>1, Turn
      <3>3. ~Finishes(u)
        BY <3>1, <3>2, ChannelFacts
      <3>4. Plannable(u)
        BY <3>1, <3>2, <3>3, CarriedSpeech
      <3> QED
        BY <1>0, <2>2, <3>1, <3>2, <3>3, <3>4, PassedFits DEF Speaks
    <2> QED
      BY <2>1, <2>2
  <1>8. ASSUME NEW o \in Outputs, bridge(o) PROVE Speaks
    <2>1. job # Idle /\ job.stage = "bridge" /\ job.speech.planned
      BY <1>8 DEF bridge, Idle
    <2>2. PICK u, n : job = Carried(u, n) /\ Admitted(u) /\ job.stage = Channel(u)
      BY <2>1, Turn
    <2>3. ~Finishes(u)
      BY <2>1, <2>2, ChannelFacts
    <2>4. Plannable(u) /\ job.speech.fallback = conversational_fallback(u)
      BY <2>1, <2>2, <2>3, CarriedSpeech
    <2>5. CASE Passes(o)
      <3>1. Say(compose_reaction_and_reask(o))
        BY <1>8, <2>5 DEF bridge
      <3> QED
        BY <1>0, <2>2, <2>3, <2>4, <2>5, <3>1, PassedFits DEF Speaks
    <2>6. CASE ~Passes(o)
      <3>1. Say(conversational_fallback(u))
        BY <1>8, <2>4, <2>6 DEF bridge
      <3> QED
        BY <1>0, <2>2, <2>3, <3>1, FallbackFits DEF Speaks
    <2> QED
      BY <2>5, <2>6
  <1> QED
    BY <1>1, <1>2, <1>3, <1>4, <1>5, <1>6, <1>7, <1>8 DEF Next

\* A committed turn with a fitting sentence: the screen holds together, and words
\* about a card that came out are true of this turn.
LEMMA SpeaksInv ==
    ASSUME SpeechInv, Speaks
    PROVE  SpeechInv' /\ (said'.opened => ladder'.hint # ladder.hint)
  <1> PICK u, n, x : job = Carried(u, n) /\ Admitted(u) /\ Say(x) /\ Fits(u, x)
    BY DEF Speaks
  <1>1. /\ facts' = Verified(u) /\ relations' = Established(u) /\ partials' = Started(u)
        /\ ladder' = After(u) /\ concept' = NextConcept(u) /\ unrelated' = NextUnrelated(u)
        /\ said' = x /\ job' = Idle
    BY DEF Say, Carried
  <1>2. ladder.level \in Rungs /\ concept \in Nat /\ unrelated \in Nat
    BY DEF SpeechInv, ScreenInv
  <1>3. Active' <=> ~Finishes(u)
    BY <1>1 DEF Active, Finishes, Complete
  <1>4. JobInv'
    BY <1>1 DEF JobInv, Idle
  <1>5. NextConcept(u) \in Nat /\ NextUnrelated(u) \in Nat
    BY <1>2 DEF NextConcept, NextUnrelated
  <1>6. ScreenInv'
    <2>1. ladder'.level \in Rungs /\ concept' \in Nat /\ unrelated' \in Nat
      BY <1>1, <1>2, <1>5, AfterMoves
    <2>2. said'.card => ladder'.hint # "H0"
      BY <1>1 DEF Fits
    <2>3. Active' => (said'.joint <=> ladder'.level = "L0")
      BY <1>1, <1>3 DEF Fits
    <2> QED
      BY <2>1, <2>2, <2>3 DEF ScreenInv
  <1>7. AsksForItsInput'
    <2> SUFFICES ASSUME Active' PROVE AsksForItsInput'
      BY DEF AsksForItsInput
    <2>1. ~Finishes(u) /\ said'.questions = 1 /\ said'.asks = Question(u).targets
      BY <1>1, <1>3 DEF Fits
    <2>2. Home!question_contract(ladder.level, facts, relations, partials)' = Input(u)
      BY <1>1 DEF Input, Home!question_contract, Home!Focus, Home!FirstOpen, Home!Remaining
    <2>3. \/ said'.asks = Input(u).targets
          \/ ladder'.hint \in {"H0", "H1"} /\ said'.asks = {HelpTarget}
      BY <1>1, <1>2, <2>1, QuestionFits
    <2> QED
      BY <2>1, <2>2, <2>3 DEF AsksForItsInput
  <1>8. AnswerStaysWithTheChild'
    BY <1>1 DEF AnswerStaysWithTheChild, Fits, Numbers, Sayable
  <1>9. said'.opened => ladder'.hint # ladder.hint
    BY <1>1 DEF Fits
  <1> QED
    BY <1>4, <1>6, <1>7, <1>8, <1>9 DEF SpeechInv

\* A step without a sentence keeps the one on the screen and what it fits.
LEMMA WaitsInv == ASSUME SpeechInv, Waits PROVE SpeechInv'
  <1> USE DEF state, ledger
  <1>1. JobInv' /\ UNCHANGED state
    BY DEF Waits
  <1>2. Active' = Active
    BY <1>1 DEF Active, Complete
  <1>3. ScreenInv'
    BY <1>1, <1>2 DEF SpeechInv, ScreenInv
  <1>4. Home!question_contract(ladder.level, facts, relations, partials)'
            = Home!question_contract(ladder.level, facts, relations, partials)
    BY <1>1 DEF Home!question_contract, Home!Focus, Home!FirstOpen, Home!Remaining
  <1>5. AsksForItsInput'
    BY <1>1, <1>2, <1>4 DEF SpeechInv, AsksForItsInput
  <1>6. AnswerStaysWithTheChild'
    BY <1>1 DEF SpeechInv, AnswerStaysWithTheChild, Numbers
  <1> QED
    BY <1>1, <1>3, <1>5, <1>6 DEF SpeechInv

LEMMA InitSpeech == Init => SpeechInv
  <1> SUFFICES ASSUME Init PROVE SpeechInv
    OBVIOUS
  <1>1. /\ facts = {} /\ relations = {} /\ partials = {} /\ ladder.level = "L4"
        /\ ladder.hint = "H0" /\ concept = 0 /\ unrelated = 0 /\ job = Idle
        /\ said = [names |-> {}, asks |-> RequiredFacts \cup RequiredRelations, questions |-> 1,
                   card |-> FALSE, joint |-> FALSE, opened |-> FALSE, strays |-> {}]
    BY DEF Init, Sentence
  <1>2. JobInv /\ ScreenInv
    BY <1>1 DEF JobInv, ScreenInv, Rungs
  <1>3. AsksForItsInput
    <2> SUFFICES ASSUME Active PROVE AsksForItsInput
      BY DEF AsksForItsInput
    <2>1. ~Complete({}, {})
      BY <1>1 DEF Active
    <2>2. Home!question_contract("L4", {}, {}, {}).targets = Home!Remaining({}, {})
      BY <2>1, ContractAsks DEF Rungs
    <2>3. Home!Remaining({}, {}) = RequiredFacts \cup RequiredRelations
      BY DEF Home!Remaining
    <2> QED
      BY <1>1, <2>2, <2>3 DEF AsksForItsInput
  <1>4. AnswerStaysWithTheChild
    BY <1>1 DEF AnswerStaysWithTheChild, Numbers
  <1> QED
    BY <1>2, <1>3, <1>4 DEF SpeechInv

\* Whatever the models return and wherever a turn is cut off, what a turn
\* carries is what its state calls for and the sentence on the screen fits.
THEOREM SpeechInvariance == Spec => []SpeechInv
  <1>1. SpeechInv /\ [Next]_vars => SpeechInv'
    <2> SUFFICES ASSUME SpeechInv, [Next]_vars PROVE SpeechInv'
      OBVIOUS
    <2>1. CASE Next
      BY <2>1, SpeechStep, SpeaksInv, WaitsInv
    <2>2. CASE UNCHANGED vars
      <3>1. UNCHANGED state /\ job' = job
        BY <2>2 DEF vars
      <3>2. Waits
        <4>1. CASE job = Idle
          BY <3>1, <4>1, DroppedJob DEF Idle
        <4>2. CASE job # Idle
          <5> PICK u, n : job = Carried(u, n) /\ Admitted(u)
            BY <4>2, Turn
          <5> QED
            BY <3>1, KeptJob
        <4> QED
          BY <4>1, <4>2
      <3> QED
        BY <3>2, WaitsInv
    <2> QED
      BY <2>1, <2>2
  <1> QED
    BY InitSpeech, <1>1, PTL DEF Spec

\* The sentence of an active turn asks one question, for its input
\* (_render_execution_speech, _compose_reaction_and_reask).
THEOREM AsksForItsInputHolds == Spec => []AsksForItsInput
  <1>1. SpeechInv => AsksForItsInput
    BY DEF SpeechInv
  <1> QED
    BY <1>1, SpeechInvariance, PTL

\* No sentence gives an answer away, whatever the models return, and a number is
\* the child's own or stands in the name of a method it has taught
\* (speaker_output_violation, stable_copy_output_violation, the reviewed texts).
THEOREM AnswerStaysHolds == Spec => []AnswerStaysWithTheChild
  <1>1. SpeechInv => AnswerStaysWithTheChild
    BY DEF SpeechInv
  <1> QED
    BY <1>1, SpeechInvariance, PTL

\* The server's words about the help card, and those for which its plan gave a
\* model the licence, are true of the screen they appear on; a model's other words
\* are its strays, which no guard looks at (validate_public_support_context,
\* _speaker_response_signal, conversational_fallback).
THEOREM CardWordsHold == Spec => CardWordsMatchTheScreen
  <1>1. SpeechInv /\ Next => (said' # said /\ said'.opened => ladder'.hint # ladder.hint)
    <2> SUFFICES ASSUME SpeechInv, Next, said' # said, said'.opened PROVE ladder'.hint # ladder.hint
      OBVIOUS
    <2>1. Speaks
      BY SpeechStep DEF Waits, state
    <2> QED
      BY <2>1, SpeaksInv
  <1>2. SpeechInv' => (said'.card => ladder'.hint # "H0") /\ (Active' => (said'.joint <=> ladder'.level = "L0"))
    BY DEF SpeechInv, ScreenInv
  <1>3. SpeechInv /\ SpeechInv' /\ [Next]_vars =>
            [/\ said'.card => ladder'.hint # "H0"
             /\ Active' => (said'.joint <=> ladder'.level = "L0")
             /\ said' # said /\ said'.opened => ladder'.hint # ladder.hint]_vars
    BY <1>1, <1>2
  <1> QED
    BY <1>3, SpeechInvariance, PTL DEF Spec, CardWordsMatchTheScreen

\* A turn whose plan breaks its contract is one of the two kinds that are known
\* (ConversationResponsePlanV2, repeat_count).
THEOREM LostTurnsHold == Spec => LostTurnsAreKnown
  <1>1. ASSUME SpeechInv, PlanFails
        PROVE  \/ /\ job.turn.move \in {"task_question", "request_mormi_answer"}
                  /\ job.turn.partials # {} /\ ladder.hint = "H0"
               \/ unrelated >= RepeatLimit \/ concept >= RepeatLimit
    <2>1. job # Idle /\ job.stage \in {"acknowledge", "speaker", "bridge"}
      BY <1>1 DEF PlanFails, Idle
    <2> PICK u, n : job = Carried(u, n) /\ Admitted(u) /\ job.stage = Channel(u)
      BY <1>1, <2>1, Turn
    <2>2. ~Finishes(u) /\ u.source # "deterministic_fallback"
      BY <2>1, ChannelFacts
    <2>3. job.turn = u /\ ~Plannable(u)
      BY <1>1, <2>2, CarriedSpeech DEF PlanFails
    <2>4. /\ ladder.level \in Rungs /\ concept \in Nat /\ unrelated \in Nat /\ RepeatLimit \in Nat
      BY <1>1, SpeechAssumption DEF SpeechInv, ScreenInv
    <2>5. u.ui # "none" => CardVisible(u)
      BY <2>4, AfterMoves DEF Admitted, CardVisible
    <2>6. NextUnrelated(u) > RepeatLimit => unrelated >= RepeatLimit
      BY <2>4 DEF NextUnrelated
    <2>7. NextConcept(u) > RepeatLimit => concept >= RepeatLimit
      BY <2>4 DEF NextConcept
    <2>8. NextConcept(u) \in Nat /\ NextUnrelated(u) \in Nat
      BY <2>4 DEF NextConcept, NextUnrelated
    <2>9. CASE validate_public_support_context(u)
      BY <2>3, <2>4, <2>5, <2>6, <2>7, <2>8, <2>9 DEF Plannable
    <2>10. CASE ~validate_public_support_context(u)
      <3>1. Question(u).targets # {}
        BY <2>2, <2>4, QuestionFits
      <3>2. reask_mode(u) = "joint_action" => After(u).hint = "H3"
        BY <2>2, <2>4, AfterMoves DEF reask_mode
      <3>3. reask_mode(u) = "help_guided_targets" /\ ~CardVisible(u)
        BY <2>10, <3>1, <3>2 DEF validate_public_support_context
      <3>4. response_mode(u) \in {"redirect_to_help_card", "decline_answer_and_ask"}
        BY <3>3 DEF reask_mode
      <3>5. u.move \in {"task_question", "request_mormi_answer"}
        BY <2>5, <3>3, <3>4 DEF response_mode, Social
      <3>6. /\ Home!Asks(Meaning(u)) /\ Meaning(u).source # "deterministic_fallback"
            /\ Meaning(u).partials = u.partials
        <4>1. ~u.unsafe /\ u.move \notin Social
          BY <3>5 DEF Admitted, Social
        <4>2. Meaning(u).move = u.move
          BY <4>1 DEF Meaning, Home!Semantics
        <4> QED
          BY <2>2, <3>5, <4>2 DEF Meaning, Home!Semantics, Home!Asks
      <3>7. Home!apply_ladder_policy(Meaning(u)).hint = "H0"
        BY <2>2, <3>3 DEF CardVisible, After, Home!Displayed
      <3> QED
        BY <2>3, <3>5, <3>6, <3>7, QuestionRaises
    <2> QED
      BY <2>9, <2>10
  <1>2. SpeechInv /\ [Next]_vars =>
            [PlanFails =>
               \/ /\ job.turn.move \in {"task_question", "request_mormi_answer"}
                  /\ job.turn.partials # {} /\ ladder.hint = "H0"
               \/ unrelated >= RepeatLimit \/ concept >= RepeatLimit]_vars
    BY <1>1
  <1> QED
    BY <1>2, SpeechInvariance, PTL DEF Spec, LostTurnsAreKnown

============================================================================
