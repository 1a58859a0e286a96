--------------------------- MODULE OutboxProofs ---------------------------
(***************************************************************************)
(* Proofs about Outbox for every number of events, dispatchers, claims and *)
(* faults.  The invariant is proved action by action; the two action       *)
(* properties follow from it.                                              *)
(***************************************************************************)
EXTENDS Outbox, TLAPS

USE EventsAssumption, AttemptsAssumption

Inv == TypeOK /\ OutboxInv

LEMMA InitInv == Init => Inv
  <1> SUFFICES ASSUME Init PROVE Inv
    OBVIOUS
  <1>1. TypeOK
    <2>1. applied \in SUBSET Events
      BY DEF Init
    <2>2. /\ attempts \in [Events -> 0 .. MaxAttempts]
          /\ attempt \in [Workers -> 0 .. MaxAttempts]
          /\ faults \in 0 .. MaxFaults
      BY DEF Init
    <2>3. due \in [Events -> BOOLEAN] /\ contract \in BOOLEAN /\ enabled \in BOOLEAN
      BY DEF Init
    <2> QED
      BY <2>1, <2>2, <2>3 DEF Init, TypeOK, Decisions
  <1>2. OutboxInv
    BY DEF Init, OutboxInv, WorkerInv, OneOwner, SentMeansStored, FailedIsHopeless
  <1> QED
    BY <1>1, <1>2 DEF Inv

LEMMA EnqueueInv == ASSUME Inv, NEW e \in Events, Enqueue(e) PROVE Inv'
  <1>1. TypeOK'
    BY DEF Inv, Enqueue, TypeOK, Decisions, workerVars, worldVars
  <1>2. OutboxInv'
    BY DEF Inv, Enqueue, TypeOK, OutboxInv, WorkerInv, OneOwner, SentMeansStored,
           FailedIsHopeless, workerVars, worldVars
  <1> QED
    BY <1>1, <1>2 DEF Inv

LEMMA ElapseInv == ASSUME Inv, NEW e \in Events, Elapse(e) PROVE Inv'
  <1>1. TypeOK'
    <2>1. faults' \in 0 .. MaxFaults
      BY DEF Inv, Elapse, Fault, TypeOK
    <2> QED
      BY <2>1 DEF Inv, Elapse, TypeOK, Decisions, workerVars
  <1>2. OutboxInv'
    BY DEF Inv, Elapse, OutboxInv, WorkerInv, OneOwner, SentMeansStored,
           FailedIsHopeless, workerVars
  <1> QED
    BY <1>1, <1>2 DEF Inv

LEMMA ClaimInv ==
    ASSUME Inv, NEW w \in Workers, NEW e \in Events, Claim(w, e)
    PROVE  Inv'
  <1>1. TypeOK'
    <2>1. NextAttempt(e) \in 0 .. MaxAttempts
      BY DEF Inv, Claim, NextAttempt, TypeOK
    <2> QED
      BY <2>1 DEF Inv, Claim, TypeOK, Decisions, worldVars
  <1>2. ASSUME NEW v \in Workers PROVE WorkerInv(v)'
    <2>1. CASE v = w
      BY <2>1 DEF Inv, Claim, Claimable, Blocked, NextAttempt, TypeOK, OutboxInv, WorkerInv,
                  worldVars
    <2>2. CASE v # w
      BY <2>2 DEF Inv, Claim, NextAttempt, TypeOK, OutboxInv, WorkerInv, worldVars
    <2> QED
      BY <2>1, <2>2
  <1>3. OneOwner'
    <2> SUFFICES ASSUME NEW u \in Workers, NEW v \in Workers, u # v,
                        pc'[u] \in {"deliver", "mark"}, pc'[v] \in {"deliver", "mark"},
                        event'[u] = event'[v], attempt'[u] = attempt'[v]
                 PROVE  FALSE
      BY DEF OneOwner
    \* the claims that were there are all older than the new one
    <2>1. ASSUME NEW x \in Workers, x # w, pc'[x] \in {"deliver", "mark"}, event'[x] = e
          PROVE  attempt'[x] # NextAttempt(e)
      BY <2>1 DEF Inv, Claim, NextAttempt, TypeOK, OutboxInv, WorkerInv
    <2>2. event'[w] = e /\ attempt'[w] = NextAttempt(e)
      BY DEF Inv, Claim, TypeOK
    <2>3. CASE u = w
      BY <2>1, <2>2, <2>3
    <2>4. CASE v = w
      BY <2>1, <2>2, <2>4
    <2>5. CASE u # w /\ v # w
      BY <2>5 DEF Inv, Claim, TypeOK, OutboxInv, OneOwner
    <2> QED
      BY <2>3, <2>4, <2>5
  <1>4. SentMeansStored' /\ FailedIsHopeless' /\ (enabled => contract)'
    BY DEF Inv, Claim, TypeOK, OutboxInv, SentMeansStored, FailedIsHopeless, worldVars
  <1> QED
    BY <1>1, <1>2, <1>3, <1>4 DEF Inv, OutboxInv

\* The four ways a delivery ends leave the rows alone and record a decision
\* that Spring's behaviour justifies.
LEMMA DecidedInv ==
    ASSUME Inv, NEW w \in Workers, NEW d \in Decisions \ {"none"},
           pc[w] = "deliver", Decide(w, d),
           applied \subseteq applied', applied' \in SUBSET Events,
           faults' \in 0 .. MaxFaults,
           d = "sent" => event[w] \in applied',
           d = "failed" => event[w] \in Poison,
           UNCHANGED <<rowVars, event, attempt, contract, enabled>>
    PROVE  Inv'
  <1>1. TypeOK'
    BY DEF Inv, Decide, TypeOK, Decisions, rowVars
  <1>2. ASSUME NEW v \in Workers PROVE WorkerInv(v)'
    <2>1. CASE v = w
      BY <2>1 DEF Inv, Decide, TypeOK, OutboxInv, WorkerInv, rowVars
    <2>2. CASE v # w
      BY <2>2 DEF Inv, Decide, TypeOK, OutboxInv, WorkerInv, rowVars
    <2> QED
      BY <2>1, <2>2
  <1>3. OneOwner'
    BY DEF Inv, Decide, TypeOK, OutboxInv, OneOwner, rowVars
  <1>4. SentMeansStored' /\ FailedIsHopeless' /\ (enabled => contract)'
    BY DEF Inv, OutboxInv, SentMeansStored, FailedIsHopeless, rowVars
  <1> QED
    BY <1>1, <1>2, <1>3, <1>4 DEF Inv, OutboxInv

LEMMA AcceptedInv == ASSUME Inv, NEW w \in Workers, Accepted(w) PROVE Inv'
  <1>1. event[w] \in Events
    BY DEF Inv, Accepted, OutboxInv, WorkerInv
  <1> QED
    BY <1>1, DecidedInv DEF Inv, Accepted, Decisions, TypeOK

LEMMA RejectedInv == ASSUME Inv, NEW w \in Workers, Rejected(w) PROVE Inv'
  \* a star note is in flight only if the contract for it is deployed
  <1>1. event[w] \in Poison
    BY DEF Inv, Rejected, Refused, OutboxInv, WorkerInv
  <1> QED
    BY <1>1, DecidedInv DEF Inv, Rejected, Decisions, TypeOK, worldVars

LEMMA UnansweredInv ==
    ASSUME Inv, NEW w \in Workers, NEW stored \in BOOLEAN, Unanswered(w, stored)
    PROVE  Inv'
  <1>1. event[w] \in Events
    BY DEF Inv, Unanswered, OutboxInv, WorkerInv
  <1>2. faults' \in 0 .. MaxFaults
    BY DEF Inv, Unanswered, Fault, TypeOK
  <1>3. applied \subseteq applied' /\ applied' \in SUBSET Events
    BY <1>1 DEF Inv, Unanswered, TypeOK
  <1>4. Decide(w, "retry") /\ UNCHANGED <<rowVars, event, attempt, contract, enabled>>
    BY DEF Unanswered
  <1> QED
    BY <1>2, <1>3, <1>4, DecidedInv DEF Unanswered, Decisions

LEMMA UnauthorizedInv == ASSUME Inv, NEW w \in Workers, Unauthorized(w) PROVE Inv'
  <1>1. faults' \in 0 .. MaxFaults
    BY DEF Inv, Unauthorized, Fault, TypeOK
  <1> QED
    BY <1>1, DecidedInv DEF Inv, Unauthorized, Decisions, TypeOK

LEMMA MarkInv == ASSUME Inv, NEW w \in Workers, Mark(w) PROVE Inv'
  <1>1. event[w] \in Events
    BY DEF Inv, Mark, OutboxInv, WorkerInv
  <1>2. TypeOK'
    BY <1>1 DEF Inv, Mark, MarkedStatus, TypeOK, Decisions, worldVars
  <1>3. \A v \in Workers : WorkerInv(v)'
    BY DEF Inv, Mark, TypeOK, OutboxInv, WorkerInv, worldVars
  <1>4. OneOwner'
    BY DEF Inv, Mark, TypeOK, OutboxInv, OneOwner
  <1>5. SentMeansStored'
    BY <1>1 DEF Inv, Mark, MarkedStatus, TypeOK, OutboxInv, WorkerInv, SentMeansStored, worldVars
  <1>6. FailedIsHopeless'
    BY <1>1 DEF Inv, Mark, MarkedStatus, TypeOK, OutboxInv, WorkerInv, FailedIsHopeless, worldVars
  <1>7. (enabled => contract)'
    BY DEF Inv, Mark, OutboxInv, worldVars
  <1> QED
    BY <1>2, <1>3, <1>4, <1>5, <1>6, <1>7 DEF Inv, OutboxInv

\* A dispatcher that gives up its delivery, dies or comes back leaves its
\* claim to whoever claims the row next.
LEMMA LetGoInv ==
    ASSUME Inv, NEW w \in Workers, NEW step \in {"poll", "crashed"},
           pc' = [pc EXCEPT ![w] = step],
           faults' \in 0 .. MaxFaults,
           UNCHANGED <<rowVars, event, attempt, decision, applied, contract, enabled>>
    PROVE  Inv'
  <1>1. TypeOK'
    BY DEF Inv, TypeOK, Decisions, rowVars
  <1>2. \A v \in Workers : WorkerInv(v)'
    BY DEF Inv, TypeOK, OutboxInv, WorkerInv, rowVars
  <1>3. OneOwner'
    BY DEF Inv, TypeOK, OutboxInv, OneOwner, rowVars
  <1>4. SentMeansStored' /\ FailedIsHopeless' /\ (enabled => contract)'
    BY DEF Inv, OutboxInv, SentMeansStored, FailedIsHopeless, rowVars
  <1> QED
    BY <1>1, <1>2, <1>3, <1>4 DEF Inv, OutboxInv

LEMMA CycleFailsInv == ASSUME Inv, NEW w \in Workers, CycleFails(w) PROVE Inv'
  <1>1. faults' \in 0 .. MaxFaults
    BY DEF Inv, CycleFails, Fault, TypeOK
  <1> QED
    BY <1>1, LetGoInv DEF CycleFails

LEMMA CrashInv == ASSUME Inv, NEW w \in Workers, Crash(w) PROVE Inv'
  <1>1. faults' \in 0 .. MaxFaults
    BY DEF Inv, Crash, Fault, TypeOK
  <1> QED
    BY <1>1, LetGoInv DEF Crash

LEMMA RestartInv == ASSUME Inv, NEW w \in Workers, Restart(w) PROVE Inv'
  <1>1. faults' \in 0 .. MaxFaults
    BY DEF Inv, Restart, worldVars, TypeOK
  <1> QED
    BY <1>1, LetGoInv DEF Restart, worldVars

LEMMA RollOutInv == ASSUME Inv, DeployContract \/ EnableStarNotes PROVE Inv'
  <1>1. TypeOK'
    BY DEF Inv, DeployContract, EnableStarNotes, TypeOK, Decisions, rowVars, workerVars
  <1>2. \A v \in Workers : WorkerInv(v)'
    BY DEF Inv, DeployContract, EnableStarNotes, OutboxInv, WorkerInv, rowVars, workerVars
  <1>3. OneOwner' /\ SentMeansStored' /\ FailedIsHopeless'
    BY DEF Inv, DeployContract, EnableStarNotes, OutboxInv, OneOwner, SentMeansStored,
           FailedIsHopeless, rowVars, workerVars
  <1>4. (enabled => contract)'
    BY DEF Inv, DeployContract, EnableStarNotes, OutboxInv
  <1> QED
    BY <1>1, <1>2, <1>3, <1>4 DEF Inv, OutboxInv

LEMMA StutterInv == ASSUME Inv, UNCHANGED vars PROVE Inv'
  <1>1. TypeOK'
    BY DEF Inv, vars, TypeOK, Decisions
  <1>2. OutboxInv'
    BY DEF Inv, vars, OutboxInv, WorkerInv, OneOwner, SentMeansStored, FailedIsHopeless
  <1> QED
    BY <1>1, <1>2 DEF Inv

LEMMA NextInv == Inv /\ [Next]_vars => Inv'
  <1> SUFFICES ASSUME Inv, [Next]_vars PROVE Inv'
    OBVIOUS
  <1>1. CASE UNCHANGED vars
    BY <1>1, StutterInv
  <1>2. CASE Next
    <2>1. ASSUME NEW e \in Events, Enqueue(e) \/ Elapse(e) PROVE Inv'
      BY <2>1, EnqueueInv, ElapseInv
    <2>2. ASSUME NEW w \in Workers, NEW e \in Events, Claim(w, e) PROVE Inv'
      BY <2>2, ClaimInv
    <2>3. ASSUME NEW w \in Workers, NEW stored \in BOOLEAN, Unanswered(w, stored) PROVE Inv'
      BY <2>3, UnansweredInv
    <2>4. ASSUME NEW w \in Workers, Accepted(w) \/ Rejected(w) \/ Unauthorized(w) \/ Mark(w)
          PROVE  Inv'
      BY <2>4, AcceptedInv, RejectedInv, UnauthorizedInv, MarkInv
    <2>5. ASSUME NEW w \in Workers, CycleFails(w) \/ Crash(w) \/ Restart(w) PROVE Inv'
      BY <2>5, CycleFailsInv, CrashInv, RestartInv
    <2>6. ASSUME DeployContract \/ EnableStarNotes PROVE Inv'
      BY <2>6, RollOutInv
    <2> QED
      BY <1>2, <2>1, <2>2, <2>3, <2>4, <2>5, <2>6 DEF Next
  <1> QED
    BY <1>1, <1>2

\* Types, the numbering of claims and the meaning of decisions hold in every
\* reachable state, for any number of events, dispatchers and faults.
THEOREM OutboxSafe == Spec => []Inv
  <1>1. Init => Inv
    BY InitInv
  <1>2. Inv /\ [Next]_vars => Inv'
    BY NextInv
  <1> QED
    BY <1>1, <1>2, PTL DEF Spec

\* A row is marked sent only if Spring has stored the event (mark_sent).
THEOREM SentMeansStoredHolds == Spec => []SentMeansStored
  <1>1. Inv => SentMeansStored
    BY DEF Inv, OutboxInv
  <1> QED
    BY <1>1, OutboxSafe, PTL

\* No two live dispatchers hold the same claim of a row (claim_due).
THEOREM OneOwnerHolds == Spec => []OneOwner
  <1>1. Inv => OneOwner
    BY DEF Inv, OutboxInv
  <1> QED
    BY <1>1, OutboxSafe, PTL

\* Only events that Spring can never accept are given up (mark_failed).
THEOREM FailedIsHopelessHolds == Spec => []FailedIsHopeless
  <1>1. Inv => FailedIsHopeless
    BY DEF Inv, OutboxInv
  <1> QED
    BY <1>1, OutboxSafe, PTL

\* Sent and failed rows never change again, whatever late dispatchers report
\* (_transition).
THEOREM FinalStaysHolds == Spec => FinalStays
  <1> DEFINE Step == \A e \in Events : status[e] \in {"sent", "failed"} => status'[e] = status[e]
  <1>1. ASSUME Inv, [Next]_vars PROVE [Step]_vars
    <2>1. CASE UNCHANGED vars
      BY <2>1
    <2>2. CASE Next
      <3>1. ASSUME NEW e \in Events, Enqueue(e) PROVE Step
        BY <3>1, <1>1 DEF Inv, TypeOK, Enqueue
      <3>2. ASSUME NEW w \in Workers, NEW e \in Events, Claim(w, e) PROVE Step
        BY <3>2, <1>1 DEF Inv, TypeOK, Claim, Claimable
      <3>3. ASSUME NEW w \in Workers, Mark(w) PROVE Step
        <4>1. event[w] \in Events
          BY <1>1, <3>3 DEF Inv, Mark, OutboxInv, WorkerInv
        <4> QED
          BY <1>1, <3>3, <4>1 DEF Inv, TypeOK, Mark, Current
      <3>4. ASSUME NEW e \in Events, Elapse(e) PROVE Step
        BY <3>4 DEF Elapse
      <3>5. ASSUME NEW w \in Workers, NEW stored \in BOOLEAN, Unanswered(w, stored) PROVE Step
        BY <3>5 DEF Unanswered, rowVars
      <3>6. ASSUME NEW w \in Workers,
                   Accepted(w) \/ Rejected(w) \/ Unauthorized(w)
                   \/ CycleFails(w) \/ Crash(w) \/ Restart(w)
            PROVE  Step
        BY <3>6 DEF Accepted, Rejected, Unauthorized, CycleFails, Crash, Restart, rowVars
      <3>7. ASSUME DeployContract \/ EnableStarNotes PROVE Step
        BY <3>7 DEF DeployContract, EnableStarNotes, rowVars
      <3> HIDE DEF Step
      <3> QED
        BY <2>2, <3>1, <3>2, <3>3, <3>4, <3>5, <3>6, <3>7 DEF Next
    <2> QED
      BY <1>1, <2>1, <2>2
  <1> QED
    BY <1>1, OutboxSafe, PTL DEF Spec, FinalStays

\* Until its lease is over, a claimed row moves only by the dispatcher that
\* owns the claim (claim_due, _transition).
THEOREM LeaseProtectsHolds == Spec => LeaseProtects
  <1> DEFINE Kept(w) == /\ status'[event[w]] = status[event[w]]
                        /\ attempts'[event[w]] = attempts[event[w]]
  <1> DEFINE Step == \A w \in Workers :
                        Owns(w) /\ ~due[event[w]] /\ pc'[w] = pc[w] => Kept(w)
  <1>1. ASSUME Inv, [Next]_vars PROVE [Step]_vars
    <2>1. CASE UNCHANGED vars
      BY <2>1
    <2>2. CASE Next
      <3> SUFFICES ASSUME NEW w \in Workers, Owns(w), ~due[event[w]], pc'[w] = pc[w]
                   PROVE  Kept(w)
        OBVIOUS
      <3>0. event[w] \in Events /\ status[event[w]] = "processing"
        BY <1>1 DEF Inv, Owns, OutboxInv, WorkerInv
      <3>1. ASSUME NEW e \in Events, Enqueue(e) PROVE Kept(w)
        BY <3>0, <3>1, <1>1 DEF Inv, TypeOK, Enqueue
      <3>2. ASSUME NEW v \in Workers, NEW e \in Events, Claim(v, e) PROVE Kept(w)
        BY <3>0, <3>2, <1>1 DEF Inv, TypeOK, Claim, Claimable
      <3>3. ASSUME NEW v \in Workers, Mark(v) PROVE Kept(w)
        <4>1. v # w
          BY <1>1, <3>3 DEF Inv, TypeOK, Mark
        \* the reporting dispatcher would hold the same claim
        <4>2. ~(event[v] = event[w] /\ Current(v))
          BY <1>1, <4>1, <3>3 DEF Inv, OutboxInv, OneOwner, Owns, Current, Mark
        <4> QED
          BY <1>1, <3>0, <3>3, <4>2 DEF Inv, TypeOK, Mark
      <3>4. ASSUME NEW e \in Events, Elapse(e) PROVE Kept(w)
        BY <3>4 DEF Elapse
      <3>5. ASSUME NEW v \in Workers, NEW stored \in BOOLEAN, Unanswered(v, stored)
            PROVE  Kept(w)
        BY <3>5 DEF Unanswered, rowVars
      <3>6. ASSUME NEW v \in Workers,
                   Accepted(v) \/ Rejected(v) \/ Unauthorized(v)
                   \/ CycleFails(v) \/ Crash(v) \/ Restart(v)
            PROVE  Kept(w)
        BY <3>6 DEF Accepted, Rejected, Unauthorized, CycleFails, Crash, Restart, rowVars
      <3>7. ASSUME DeployContract \/ EnableStarNotes PROVE Kept(w)
        BY <3>7 DEF DeployContract, EnableStarNotes, rowVars
      <3> HIDE DEF Kept
      <3> QED
        BY <2>2, <3>1, <3>2, <3>3, <3>4, <3>5, <3>6, <3>7 DEF Next
    <2> QED
      BY <1>1, <2>1, <2>2
  <1> QED
    BY <1>1, OutboxSafe, PTL DEF Spec, LeaseProtects

\* The fence of _claim and _mark as a whole: one owner of a claim, final rows
\* that stay, and no interference under a live lease.
THEOREM ClaimIsFencedHolds == Spec => ClaimIsFenced
  BY OneOwnerHolds, FinalStaysHolds, LeaseProtectsHolds, PTL DEF ClaimIsFenced

===========================================================================
