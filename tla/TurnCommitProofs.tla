------------------------- MODULE TurnCommitProofs -------------------------
(***************************************************************************)
(* Proofs about TurnCommit, for any number of requests, response ids and   *)
(* turns: the protocol invariant and what follows from it.                 *)
(***************************************************************************)
EXTENDS TurnCommit, FiniteSetTheorems, TLAPS

USE DEF Never

\* The type invariant and the protocol invariant are inductive together: a
\* new turn id is in range because the committing request holds the lock.
IInv == TypeOK /\ ProtocolInv

LEMMA InitIInv == Init => IInv
<1> SUFFICES ASSUME Init PROVE IInv
  OBVIOUS
<1> USE NoResponseAssumption, PolicyAssumption, BoundsAssumption
<1>1. InitialState \in SessionState
  BY DEF InitialState, SessionState, TurnIds, Deadlines
<1>2. TypeOK
  <2>1. conv \in [json : SessionState, version : Nat,
                  status : {"active", "completed"}, until : Deadlines]
    BY <1>1 DEF Init, SessionState
  <2>2. turns \in [TurnIds -> TurnRow] /\ last \in TurnIds
    BY DEF Init, TurnIds, TurnRow, EmptyTurn, Deadlines
  <2>3. /\ pc \in [Requests -> Steps]
        /\ rid \in [Requests -> ResponseIds \cup {NoResponse}]
        /\ tid \in [Requests -> TurnIds]
        /\ snap \in [Requests -> SessionState]
    BY <1>1 DEF Init, TurnIds, Steps
  <2>4. /\ next \in [Requests -> EngineResult]
        /\ at \in [Requests -> Nat]
        /\ seen \in [Requests -> Nat]
        /\ out \in [Requests -> [kind : Answers, turn : TurnIds \cup {0}]]
    BY DEF Init, EngineResult, Answers
  <2>5. now \in 0 .. MaxTime /\ profile \in Nat /\ pnow \in Nat
    BY DEF Init
  <2>6. obs \in SUBSET [turn : TurnIds, rid : ResponseIds, note : BOOLEAN]
    BY DEF Init
  <2>7. /\ ppc \in {"idle", "selected", "cleared"}
        /\ pstate \in SessionState
        /\ due \in BOOLEAN
        /\ purged \in BOOLEAN
    BY <1>1 DEF Init
  <2> QED
    BY <2>1, <2>2, <2>3, <2>4, <2>5, <2>6, <2>7 DEF TypeOK
<1>3. ProtocolInv
  BY DEF Init, ProtocolInv, TableInv, MutualExclusion, RequestInv, Copy, InitialState,
         HoldsConversation, EmptyTurn, TurnIds
<1> QED
  BY <1>2, <1>3 DEF IInv

\* Clearing raw wording keeps a state a state and a copy a copy.
LEMMA RawClearedState ==
  ASSUME NEW s \in SessionState
  PROVE  /\ RawCleared(s) \in SessionState
         /\ RawCleared(s).version = s.version
         /\ RawCleared(s).turn = s.turn
         /\ RawCleared(s).status = s.status
         /\ RawCleared(s).raw = FALSE
         /\ RawCleared(s).until = Never
         /\ RawCleared(s).evidence = FALSE
BY DEF RawCleared, SessionState, Deadlines

LEMMA LoadedState ==
  ASSUME NEW s \in SessionState
  PROVE  /\ LoadState(s) \in SessionState
         /\ LoadState(s).version = s.version
         /\ LoadState(s).turn = s.turn
         /\ LoadState(s).status = s.status
BY RawClearedState DEF LoadState

\* Forgetting an expired idempotency result keeps a row a row, and what is
\* left of the row is either untouched or empty.
LEMMA ForgottenRow ==
  ASSUME NEW row \in TurnRow, NEW t
  PROVE  /\ Forget(row, t) \in TurnRow
         /\ Forget(row, t).raw = row.raw
         /\ Forget(row, t).rid # NoResponse =>
              Forget(row, t).rid = row.rid /\ Forget(row, t).result = row.result
BY DEF Forget, TurnRow, Deadlines

---------------------------------------------------------------------------
(* What a step leaves alone keeps its part of the invariant. *)

LEMMA TablesKept ==
  ASSUME TableInv, UNCHANGED <<tableVars, pstate>>
  PROVE  TableInv'
BY DEF TableInv, Copy, tableVars

\* The variables of one request.
Kept(p) ==
    /\ pc'[p] = pc[p] /\ rid'[p] = rid[p] /\ tid'[p] = tid[p]
    /\ snap'[p] = snap[p] /\ out'[p] = out[p]

LEMMA RequestKept ==
  ASSUME NEW p \in Requests, RequestInv(p), Kept(p), UNCHANGED <<tableVars>>
  PROVE  RequestInv(p)'
BY DEF RequestInv, Kept, Copy, HoldsConversation, tableVars

\* The lock has one holder as long as nobody joins.
LEMMA MutexKept ==
  ASSUME MutualExclusion,
         \A p \in Requests : pc'[p] \in {"locked", "flushed"} => HoldsConversation(p)
  PROVE  MutualExclusion'
BY DEF MutualExclusion, HoldsConversation

\* A step of request q that only moves q itself.
LEMMA LocalStep ==
  ASSUME IInv, TypeOK', NEW q \in Requests,
         UNCHANGED <<tableVars, pstate>>,
         \A p \in Requests : p # q => Kept(p),
         RequestInv(q)',
         pc'[q] \in {"locked", "flushed"} => HoldsConversation(q)
  PROVE  IInv'
<1>1. TableInv'
  BY TablesKept DEF IInv, ProtocolInv
<1>2. \A p \in Requests : pc'[p] \in {"locked", "flushed"} => HoldsConversation(p)
  BY DEF Kept, HoldsConversation
<1>3. MutualExclusion'
  BY <1>2, MutexKept DEF IInv, ProtocolInv
<1>4. ASSUME NEW p \in Requests PROVE RequestInv(p)'
  BY RequestKept DEF IInv, ProtocolInv
<1> QED
  BY <1>1, <1>3, <1>4 DEF IInv, ProtocolInv

---------------------------------------------------------------------------
(* The steps of a request that touch no table. *)

LEMMA ResponseExistsStep ==
  ASSUME IInv, NEW q \in Requests, NEW r \in ResponseIds, NEW t \in TurnIds,
         ResponseExists(q, r, t)
  PROVE  IInv'
<1> USE DEF ResponseExists, Goto, Answer, Replayable, tableVars, purgeVars
<1>1. TypeOK'
  <2>1. pc' \in [Requests -> Steps]
    BY DEF IInv, TypeOK, Steps
  <2>2. out' \in [Requests -> [kind : Answers, turn : TurnIds \cup {0}]]
    BY DEF IInv, TypeOK, Answers, TurnRow
  <2>3. rid' \in [Requests -> ResponseIds \cup {NoResponse}] /\ tid' \in [Requests -> TurnIds]
    BY DEF IInv, TypeOK
  <2> QED
    BY <2>1, <2>2, <2>3 DEF IInv, TypeOK
<1>2. \A p \in Requests : p # q => Kept(p)
  BY DEF IInv, TypeOK, Kept
<1>3. RequestInv(q)'
  <2>1. \A u \in TurnIds : Replayable(r, u) =>
           \E o \in obs : o.rid = r /\ turns[u].result = o.turn + 1
    BY NoResponseAssumption DEF IInv, ProtocolInv, TableInv
  <2> QED
    BY <2>1 DEF IInv, ProtocolInv, TypeOK, RequestInv, Copy, HoldsConversation
<1>4. pc'[q] \notin {"locked", "flushed"}
  BY DEF IInv, TypeOK
<1> QED
  BY <1>1, <1>2, <1>3, <1>4, LocalStep

LEMMA GetStateStep ==
  ASSUME IInv, NEW q \in Requests, GetState(q)
  PROVE  IInv'
<1> USE DEF GetState, Goto, Answer, tableVars, purgeVars
<1> DEFINE s == LoadState(conv.json)
<1>0. /\ s \in SessionState /\ Copy(s)
      /\ s.turn \in TurnIds /\ s.status \in {"active", "completed"}
  <2>1. conv.json \in SessionState
    BY DEF IInv, TypeOK
  <2> QED
    BY <2>1, LoadedState DEF IInv, ProtocolInv, TableInv, Copy, SessionState
<1> HIDE DEF s
<1>a. snap' = [snap EXCEPT ![q] = s]
  BY DEF s
<1>1. TypeOK'
  <2>1. pc' \in [Requests -> Steps]
    BY DEF IInv, TypeOK, Steps
  <2>2. out' \in [Requests -> [kind : Answers, turn : TurnIds \cup {0}]]
    BY DEF IInv, TypeOK, Answers
  <2>3. snap' \in [Requests -> SessionState]
    BY <1>0, <1>a DEF IInv, TypeOK
  <2> QED
    BY <2>1, <2>2, <2>3 DEF IInv, TypeOK
<1>2. \A p \in Requests : p # q => Kept(p)
  BY <1>a DEF IInv, TypeOK, Kept
<1>3. RequestInv(q)'
  <2>1. snap'[q] = s
    BY <1>a DEF IInv, TypeOK
  <2>2. /\ pc'[q] \in {"done", "engine"}
        /\ pc'[q] = "engine" => s.turn = tid[q] /\ s.status = "active"
        /\ out'[q].kind \in {"stale", "invalid"} \/ out'[q] = out[q]
    BY DEF IInv, TypeOK, s
  <2> QED
    BY <1>0, <2>1, <2>2 DEF IInv, ProtocolInv, TypeOK, RequestInv, Copy, HoldsConversation
<1>4. pc'[q] \notin {"locked", "flushed"}
  BY DEF IInv, TypeOK
<1> QED
  BY <1>1, <1>2, <1>3, <1>4, LocalStep

LEMMA RunEngineStep ==
  ASSUME IInv, NEW q \in Requests, NEW status \in {"active", "completed"},
         NEW note \in BOOLEAN, NEW evidence \in BOOLEAN,
         RunEngine(q, status, note, evidence)
  PROVE  IInv'
<1> USE DEF RunEngine, Goto, tableVars, purgeVars
<1>1. TypeOK'
  <2>1. pc' \in [Requests -> Steps] /\ next' \in [Requests -> EngineResult]
    BY DEF IInv, TypeOK, Steps, EngineResult
  <2> QED
    BY <2>1 DEF IInv, TypeOK
<1>2. \A p \in Requests : p # q => Kept(p)
  BY DEF IInv, TypeOK, Kept
<1>3. RequestInv(q)'
  <2>1. snap[q].turn \in TurnIds /\ last \in TurnIds
    BY DEF IInv, TypeOK, SessionState
  <2> QED
    BY <2>1, BoundsAssumption
    DEF IInv, ProtocolInv, TypeOK, RequestInv, Copy, HoldsConversation, TurnIds
<1>4. pc'[q] \notin {"locked", "flushed"}
  BY DEF IInv, TypeOK
<1> QED
  BY <1>1, <1>2, <1>3, <1>4, LocalStep

\* Every way a request ends without a turn: it answers, and nothing else
\* changes.
LEMMA AnswerStep ==
  ASSUME IInv, NEW q \in Requests, NEW kind \in Answers \ {"turn", "replayed"},
         pc[q] # "idle", Answer(q, kind, 0),
         UNCHANGED <<now, tableVars, profile, rid, tid, snap, next, at, seen, purgeVars>>
  PROVE  IInv'
<1> USE DEF Goto, Answer, tableVars, purgeVars
<1>1. TypeOK'
  BY DEF IInv, TypeOK, Steps
<1>2. \A p \in Requests : p # q => Kept(p)
  BY DEF IInv, TypeOK, Kept
<1>3. RequestInv(q)'
  BY DEF IInv, ProtocolInv, TypeOK, RequestInv, Copy, HoldsConversation
<1>4. pc'[q] \notin {"locked", "flushed"}
  BY DEF IInv, TypeOK
<1> QED
  BY <1>1, <1>2, <1>3, <1>4, LocalStep

LEMMA EngineFailsStep ==
  ASSUME IInv, NEW q \in Requests, EngineFails(q) PROVE IInv'
BY AnswerStep DEF EngineFails, Answers

LEMMA CommitFailStep ==
  ASSUME IInv, NEW q \in Requests, CommitFail(q) PROVE IInv'
BY AnswerStep DEF CommitFail, HoldsConversation, Answers

LEMMA AbandonStep ==
  ASSUME IInv, NEW q \in Requests, Abandon(q) PROVE IInv'
BY AnswerStep DEF Abandon, Answers

LEMMA ReplayDuplicateStep ==
  ASSUME IInv, NEW q \in Requests, ReplayDuplicate(q)
  PROVE  IInv'
<1> USE DEF ReplayDuplicate, Goto, Answer, Replayable, tableVars, purgeVars
<1>1. TypeOK'
  <2>1. pc' \in [Requests -> Steps]
    BY DEF IInv, TypeOK, Steps
  <2>2. \E turn \in TurnIds \cup {0}, kind \in Answers :
           out' = [out EXCEPT ![q] = [kind |-> kind, turn |-> turn]]
    <3>1. \A u \in TurnIds : turns[u].result \in TurnIds \cup {0}
      BY DEF IInv, TypeOK, TurnRow
    <3>2. {"replayed", "persistence"} \subseteq Answers
      BY DEF Answers
    <3>3. 0 \in TurnIds \cup {0}
      OBVIOUS
    <3> QED
      BY <3>1, <3>2, <3>3
  <2>3. out' \in [Requests -> [kind : Answers, turn : TurnIds \cup {0}]]
    BY <2>2 DEF IInv, TypeOK
  <2> QED
    BY <2>1, <2>3 DEF IInv, TypeOK
<1>2. \A p \in Requests : p # q => Kept(p)
  BY DEF IInv, TypeOK, Kept
<1>3. RequestInv(q)'
  <2>1. rid[q] \in ResponseIds
    BY DEF IInv, ProtocolInv, RequestInv
  <2>2. \A u \in TurnIds : Replayable(rid[q], u) =>
           \E o \in obs : o.rid = rid[q] /\ turns[u].result = o.turn + 1
    BY <2>1, NoResponseAssumption DEF IInv, ProtocolInv, TableInv
  <2> QED
    BY <2>2 DEF IInv, ProtocolInv, TypeOK, RequestInv, Copy, HoldsConversation
<1>4. pc'[q] \notin {"locked", "flushed"}
  BY DEF IInv, TypeOK
<1> QED
  BY <1>1, <1>2, <1>3, <1>4, LocalStep

\* A step of q that changes pc[q] alone, or a profile variable with it.
LEMMA MoveStep ==
  ASSUME IInv, NEW q \in Requests, NEW step \in {"duplicate", "flushed", "save", "done"},
         pc[q] # "idle", Goto(q, step), TypeOK',
         step = "flushed" => pc[q] = "locked" /\ \A o \in obs : o.rid # rid[q],
         UNCHANGED <<tableVars, rid, tid, snap, out, pstate>>
  PROVE  IInv'
<1> USE DEF Goto, tableVars
<1>1. \A p \in Requests : p # q => Kept(p)
  BY DEF IInv, TypeOK, Kept
<1>2. RequestInv(q)'
  BY DEF IInv, ProtocolInv, TypeOK, RequestInv, Copy, HoldsConversation
<1>3. pc'[q] \in {"locked", "flushed"} => HoldsConversation(q)
  BY DEF IInv, TypeOK, HoldsConversation
<1> QED
  BY <1>1, <1>2, <1>3, LocalStep

LEMMA CommitDuplicateStep ==
  ASSUME IInv, NEW q \in Requests, CommitDuplicate(q) PROVE IInv'
<1>1. TypeOK'
  BY DEF IInv, TypeOK, CommitDuplicate, Goto, Steps, tableVars, purgeVars
<1> QED
  BY <1>1, MoveStep DEF CommitDuplicate, tableVars, purgeVars

LEMMA CommitFlushStep ==
  ASSUME IInv, NEW q \in Requests, CommitFlush(q) PROVE IInv'
<1>1. TypeOK'
  BY DEF IInv, TypeOK, CommitFlush, Goto, Steps, tableVars, purgeVars
<1> QED
  BY <1>1, MoveStep DEF CommitFlush, UniqueViolation, tableVars, purgeVars

LEMMA ReadProfileStep ==
  ASSUME IInv, NEW q \in Requests, ReadProfile(q) PROVE IInv'
<1>1. TypeOK'
  BY DEF IInv, TypeOK, ReadProfile, Goto, Steps, tableVars, purgeVars
<1> QED
  BY <1>1, MoveStep DEF ReadProfile, tableVars, purgeVars

LEMMA SaveProfileStep ==
  ASSUME IInv, NEW q \in Requests, SaveProfile(q) PROVE IInv'
<1>1. TypeOK'
  BY DEF IInv, TypeOK, SaveProfile, Goto, Steps, tableVars, purgeVars
<1> QED
  BY <1>1, MoveStep DEF SaveProfile, tableVars, purgeVars

---------------------------------------------------------------------------
(* Taking the lock: the version check makes the loaded turn the last one.  *)

LEMMA CommitLockStep ==
  ASSUME IInv, NEW q \in Requests, CommitLock(q)
  PROVE  IInv'
<1> USE DEF Goto, Answer, tableVars, purgeVars
<1>1. CASE CommitVerdict(q) = "ok"
  <2> USE <1>1
  <2>1. TypeOK'
    <3>1. now \in Nat
      BY DEF IInv, TypeOK
    <3>2. pc' \in [Requests -> Steps] /\ at' \in [Requests -> Nat]
      BY <3>1 DEF CommitLock, IInv, TypeOK, Steps
    <3> QED
      BY <3>2 DEF CommitLock, IInv, TypeOK
  <2>2. \A p \in Requests : p # q => Kept(p)
    BY DEF CommitLock, IInv, TypeOK, Kept
  <2>3. snap[q].turn = last
    BY DEF CommitVerdict, IInv, ProtocolInv, TableInv, RequestInv, Copy
  <2>4. RequestInv(q)'
    BY <2>3 DEF CommitLock, IInv, ProtocolInv, TypeOK, RequestInv, Copy, HoldsConversation
  <2>5. \A p \in Requests : RequestInv(p)'
    BY <2>2, <2>4, RequestKept DEF CommitLock, IInv, ProtocolInv
  <2>6. MutualExclusion'
    BY <2>2 DEF CommitLock, ConversationFree, HoldsConversation, MutualExclusion, Kept
  <2>7. TableInv'
    BY TablesKept DEF CommitLock, IInv, ProtocolInv
  <2> QED
    BY <2>1, <2>5, <2>6, <2>7 DEF IInv, ProtocolInv
<1>2. CASE CommitVerdict(q) = "stale"
  BY <1>2, AnswerStep DEF CommitLock, Answers
<1>3. CASE CommitVerdict(q) \notin {"ok", "stale"}
  <2>1. TypeOK'
    BY <1>3 DEF CommitLock, IInv, TypeOK, Steps
  <2> QED
    BY <1>3, <2>1, MoveStep DEF CommitLock
<1> QED
  BY <1>1, <1>2, <1>3

---------------------------------------------------------------------------
(* The commit: the one step that writes a turn.                            *)

\* What a request knows when it commits.
LEMMA CommitFacts ==
  ASSUME IInv, NEW q \in Requests, pc[q] = "flushed"
  PROVE  /\ last \in Nat /\ last + 1 \in TurnIds
         /\ tid[q] = last /\ snap[q].version = last /\ snap[q].status = "active"
         /\ rid[q] \in ResponseIds
         /\ conv.status = "active"
         /\ \A o \in obs : o.rid # rid[q] /\ o.turn # tid[q]
         /\ \A p \in Requests : p # q => ~HoldsConversation(p)
<1>1. last \in TurnIds /\ snap[q].turn \in TurnIds /\ HoldsConversation(q)
  BY DEF IInv, TypeOK, SessionState, HoldsConversation
<1>2. RequestInv(q)
  BY DEF IInv, ProtocolInv
<1>3. snap[q].turn = last /\ last < MaxTurns
  BY <1>1, <1>2 DEF RequestInv
<1>4. last \in Nat /\ last + 1 \in TurnIds
  BY <1>1, <1>3, BoundsAssumption DEF TurnIds
<1>5. tid[q] = last /\ snap[q].version = last /\ snap[q].status = "active"
  BY <1>2, <1>3 DEF RequestInv, Copy
<1>6. conv.status = "active"
  BY <1>2, <1>3, <1>5 DEF RequestInv, Copy
<1>7. \A o \in obs : o.rid # rid[q] /\ o.turn # tid[q]
  BY <1>2, <1>4, <1>5 DEF IInv, ProtocolInv, TableInv, RequestInv, TypeOK
<1>8. \A p \in Requests : p # q => ~HoldsConversation(p)
  BY <1>1 DEF IInv, ProtocolInv, MutualExclusion
<1> QED
  BY <1>2, <1>4, <1>5, <1>6, <1>7, <1>8 DEF RequestInv

LEMMA NextStateFacts ==
  ASSUME IInv, NEW q \in Requests, pc[q] = "flushed"
  PROVE  /\ NextState(q) \in SessionState
         /\ NextState(q).version = last + 1
         /\ NextState(q).turn = last + 1
         /\ NextState(q).status = next[q].status
<1> DEFINE s == [version |-> snap[q].version + 1, turn |-> last + 1,
                 status |-> next[q].status, raw |-> snap[q].raw,
                 until |-> snap[q].until, evidence |-> next[q].evidence]
<1>1. /\ snap[q] \in SessionState /\ next[q] \in EngineResult
      /\ last \in Nat /\ last + 1 \in TurnIds /\ snap[q].version = last
  BY CommitFacts DEF IInv, TypeOK
<1>2. /\ s \in SessionState /\ s.version = last + 1 /\ s.turn = last + 1
      /\ s.status = next[q].status
  <2>1. /\ next[q].status \in {"active", "completed"} /\ next[q].evidence \in BOOLEAN
        /\ snap[q].version + 1 = last + 1 /\ last + 1 \in Nat
    BY <1>1 DEF EngineResult
  <2>2. snap[q].raw \in BOOLEAN /\ snap[q].until \in Deadlines
    BY <1>1 DEF SessionState
  <2> QED
    BY <1>1, <2>1, <2>2 DEF SessionState
<1>3. NextState(q) = IF RetentionExpired(q) THEN RawCleared(s) ELSE s
  BY DEF NextState
<1> HIDE DEF s
<1> QED
  BY <1>2, <1>3, RawClearedState

\* The committing request's row.
LEMMA AnsweredTurnFacts ==
  ASSUME IInv, NEW q \in Requests, pc[q] = "flushed"
  PROVE  /\ AnsweredTurn(q) \in TurnRow
         /\ AnsweredTurn(q).rid = rid[q]
         /\ AnsweredTurn(q).result = tid[q] + 1
<1>1. /\ snap[q] \in SessionState /\ at[q] \in Nat
      /\ last \in Nat /\ last + 1 \in TurnIds /\ tid[q] = last /\ rid[q] \in ResponseIds
  BY CommitFacts DEF IInv, TypeOK
<1>2. at[q] + IdemTTL \in Nat
  BY <1>1, BoundsAssumption
<1>3. (snap[q].raw /\ ~RetentionExpired(q)) \in BOOLEAN
  OBVIOUS
<1> QED
  BY <1>1, <1>2, <1>3 DEF AnsweredTurn, TurnRow, Deadlines

LEMMA CommitDoneStep ==
  ASSUME IInv, NEW q \in Requests, NEW acknowledged \in BOOLEAN,
         CommitDone(q, acknowledged)
  PROVE  IInv'
<1> DEFINE o == [turn |-> tid[q], rid |-> rid[q], note |-> next[q].note]
<1>0. pc[q] = "flushed"
  BY DEF CommitDone
<1>f. /\ last \in Nat /\ last + 1 \in TurnIds
      /\ tid[q] = last /\ snap[q].version = last /\ snap[q].status = "active"
      /\ rid[q] \in ResponseIds
      /\ \A x \in obs : x.rid # rid[q] /\ x.turn # tid[q]
      /\ \A p \in Requests : p # q => ~HoldsConversation(p)
  BY <1>0, CommitFacts
<1>n. /\ NextState(q) \in SessionState
      /\ NextState(q).version = last + 1 /\ NextState(q).turn = last + 1
      /\ NextState(q).status = next[q].status
  BY <1>0, NextStateFacts
<1>a. /\ AnsweredTurn(q) \in TurnRow /\ AnsweredTurn(q).rid = rid[q]
      /\ AnsweredTurn(q).result = tid[q] + 1
  BY <1>0, AnsweredTurnFacts
<1>c. /\ conv' = [json |-> NextState(q), version |-> NextState(q).version,
                  status |-> next[q].status, until |-> NextState(q).until]
      /\ turns' = [turns EXCEPT ![tid[q]] = AnsweredTurn(q)]
      /\ last' = last + 1
      /\ obs' = obs \cup {o}
      /\ UNCHANGED <<now, profile, rid, tid, snap, next, at, seen, purgeVars>>
  BY DEF CommitDone
<1>p. /\ \E step \in {"profile", "done"} : pc' = [pc EXCEPT ![q] = step]
      /\ \/ out' = [out EXCEPT ![q] = [kind |-> "turn", turn |-> last + 1]]
         \/ out' = [out EXCEPT ![q] = [kind |-> "persistence", turn |-> 0]]
  BY DEF CommitDone, Goto, Answer
<1>1. TypeOK'
  <2>1. conv' \in [json : SessionState, version : Nat,
                   status : {"active", "completed"}, until : Deadlines]
    <3>1. next[q].status \in {"active", "completed"}
      BY DEF IInv, TypeOK, EngineResult
    <3>2. NextState(q).until \in Deadlines
      BY <1>n DEF SessionState
    <3> QED
      BY <1>c, <1>n, <1>f, <3>1, <3>2
  <2>2. turns' \in [TurnIds -> TurnRow] /\ last' \in TurnIds
    BY <1>c, <1>a, <1>f DEF IInv, TypeOK
  <2>3. obs' \in SUBSET [turn : TurnIds, rid : ResponseIds, note : BOOLEAN]
    <3>1. next[q].note \in BOOLEAN /\ tid[q] \in TurnIds
      BY DEF IInv, TypeOK, EngineResult
    <3> QED
      BY <1>c, <1>f, <3>1 DEF IInv, TypeOK
  <2>4. pc' \in [Requests -> Steps]
    BY <1>p DEF IInv, TypeOK, Steps
  <2>5. out' \in [Requests -> [kind : Answers, turn : TurnIds \cup {0}]]
    BY <1>p, <1>f DEF IInv, TypeOK, Answers
  <2> QED
    BY <1>c, <2>1, <2>2, <2>3, <2>4, <2>5 DEF IInv, TypeOK, purgeVars
<1>2. \A s \in SessionState : Copy(s) => Copy(s)' /\ s.turn < last'
  BY <1>c, <1>f DEF Copy, SessionState, TurnIds
<1>3. TableInv'
  <2>1. (conv.version = last)' /\ Copy(conv.json)'
    BY <1>c, <1>n, <1>f DEF Copy
  <2>2. Copy(pstate)'
    BY <1>2, <1>c DEF IInv, TypeOK, ProtocolInv, TableInv, purgeVars, Copy
  <2>3. \A x \in obs' : x.turn < last'
    BY <1>c, <1>f DEF IInv, TypeOK, ProtocolInv, TableInv, TurnIds
  <2>4. \A x, y \in obs' : x.turn = y.turn \/ x.rid = y.rid => x = y
    BY <1>c, <1>f DEF IInv, ProtocolInv, TableInv
  <2>5. ASSUME NEW t \in TurnIds, turns'[t].rid # NoResponse
        PROVE  turns'[t].result = t + 1 /\ \E x \in obs' : x.turn = t /\ x.rid = turns'[t].rid
    <3>1. CASE t = tid[q]
      <4>1. turns'[t] = AnsweredTurn(q)
        BY <3>1, <1>c DEF IInv, TypeOK
      <4>2. o \in obs' /\ o.turn = t /\ o.rid = turns'[t].rid
        BY <3>1, <4>1, <1>c, <1>a
      <4> QED
        BY <3>1, <4>1, <4>2, <1>a
    <3>2. CASE t # tid[q]
      BY <3>2, <2>5, <1>c DEF IInv, TypeOK, ProtocolInv, TableInv
    <3> QED
      BY <3>1, <3>2
  <2> QED
    BY <2>1, <2>2, <2>3, <2>4, <2>5 DEF TableInv
<1>4. MutualExclusion'
  BY <1>f, <1>p DEF IInv, TypeOK, MutualExclusion, HoldsConversation
<1>5. ASSUME NEW p \in Requests PROVE RequestInv(p)'
  <2>1. Copy(snap[p])'
    BY <1>2, <1>c DEF IInv, TypeOK, ProtocolInv, RequestInv, Copy
  <2>2. CASE p = q
    <3>1. pc'[q] \in {"profile", "done"} /\ rid'[q] = rid[q]
      BY <1>c, <1>p DEF IInv, TypeOK
    <3>2. out'[q].kind \in {"turn", "replayed"} => out'[q].turn = last + 1
      BY <1>p DEF IInv, TypeOK
    <3>3. o \in obs' /\ o.rid = rid'[q] /\ last + 1 = o.turn + 1
      BY <1>c, <1>f
    <3> QED
      BY <2>1, <2>2, <3>1, <3>2, <3>3, <1>f DEF RequestInv, HoldsConversation
  <2>3. CASE p # q
    <3>1. pc'[p] = pc[p] /\ out'[p] = out[p] /\ ~HoldsConversation(p)
      BY <2>3, <1>p, <1>f DEF IInv, TypeOK
    <3>2. RequestInv(p)
      BY DEF IInv, ProtocolInv
    <3>3. out[p].kind \in {"turn", "replayed"} =>
             \E x \in obs' : x.rid = rid'[p] /\ out'[p].turn = x.turn + 1
      BY <3>1, <3>2, <1>c DEF RequestInv
    <3> QED
      BY <2>1, <3>1, <3>2, <3>3, <1>c DEF RequestInv, HoldsConversation
  <2> QED
    BY <2>2, <2>3
<1> QED
  BY <1>1, <1>3, <1>4, <1>5 DEF IInv, ProtocolInv

---------------------------------------------------------------------------
(* The purge and the clock.                                                *)

\* A purge step that keeps or forgets the idempotency results of rows,
\* rewrites the state with an older copy, and leaves the rest alone.
LEMMA PurgeKeeps ==
  ASSUME IInv, TypeOK',
         UNCHANGED <<last, obs, requestVars>>,
         conv'.version = conv.version, conv'.status = conv.status,
         Copy(conv.json)', Copy(pstate)',
         \A t \in TurnIds : turns'[t].rid # NoResponse =>
            turns'[t].rid = turns[t].rid /\ turns'[t].result = turns[t].result
  PROVE  IInv'
<1>1. TableInv'
  BY DEF IInv, ProtocolInv, TableInv
<1>2. MutualExclusion'
  BY DEF IInv, ProtocolInv, MutualExclusion, HoldsConversation, requestVars
<1>3. \A p \in Requests : RequestInv(p)'
  BY DEF IInv, ProtocolInv, RequestInv, Copy, HoldsConversation, requestVars
<1> QED
  BY <1>1, <1>2, <1>3 DEF IInv, ProtocolInv

LEMMA PurgeStartStep ==
  ASSUME IInv, PurgeStart PROVE IInv'
<1>1. CASE Passed(conv.until, now)
  <2>1. TypeOK'
    BY <1>1 DEF PurgeStart, IInv, TypeOK, requestVars
  <2>2. Copy(conv.json)' /\ Copy(pstate)'
    BY <1>1 DEF PurgeStart, IInv, ProtocolInv, TableInv, Copy
  <2> QED
    BY <1>1, <2>1, <2>2, PurgeKeeps DEF PurgeStart, requestVars
<1>2. CASE ~Passed(conv.until, now)
  <2>1. turns' = [t \in TurnIds |-> Forget(turns[t], now)] /\ turns' \in [TurnIds -> TurnRow]
    <3>1. turns' = [t \in TurnIds |-> Forget(turns[t], now)]
      BY <1>2 DEF PurgeStart
    <3>2. \A t \in TurnIds : Forget(turns[t], now) \in TurnRow
      BY ForgottenRow DEF IInv, TypeOK
    <3> QED
      BY <3>1, <3>2
  <2>2. TypeOK'
    <3>1. now \in Nat
      BY DEF IInv, TypeOK
    <3>2. purged' \in BOOLEAN /\ due' \in BOOLEAN /\ pnow' \in Nat
      BY <1>2, <3>1 DEF PurgeStart, IInv, TypeOK
    <3> QED
      BY <1>2, <2>1, <3>2 DEF PurgeStart, IInv, TypeOK, requestVars
  <2>3. Copy(conv.json)' /\ Copy(pstate)'
    BY <1>2 DEF PurgeStart, IInv, ProtocolInv, TableInv, Copy
  <2>4. \A t \in TurnIds : turns'[t].rid # NoResponse =>
           turns'[t].rid = turns[t].rid /\ turns'[t].result = turns[t].result
    BY <2>1, ForgottenRow DEF IInv, TypeOK
  <2> QED
    BY <1>2, <2>2, <2>3, <2>4, PurgeKeeps DEF PurgeStart, requestVars
<1> QED
  BY <1>1, <1>2

LEMMA PurgeFinishStep ==
  ASSUME IInv, PurgeFinish PROVE IInv'
<1> DEFINE row(t) == [Forget(turns[t], pnow) EXCEPT !.raw = FALSE]
<1>1. \A t \in TurnIds : /\ row(t) \in TurnRow
                         /\ row(t).rid # NoResponse =>
                              row(t).rid = turns[t].rid /\ row(t).result = turns[t].result
  <2> SUFFICES ASSUME NEW t \in TurnIds
               PROVE  /\ row(t) \in TurnRow
                      /\ row(t).rid # NoResponse =>
                           row(t).rid = turns[t].rid /\ row(t).result = turns[t].result
    OBVIOUS
  <2>1. turns[t] \in TurnRow
    BY DEF IInv, TypeOK
  <2>2. Forget(turns[t], pnow) \in TurnRow
    BY <2>1, ForgottenRow
  <2>3. /\ row(t) \in TurnRow
        /\ row(t).rid = Forget(turns[t], pnow).rid
        /\ row(t).result = Forget(turns[t], pnow).result
    BY <2>2 DEF TurnRow
  <2> QED
    BY <2>1, <2>3, ForgottenRow
<1>2. turns' = [t \in TurnIds |-> row(t)]
  BY DEF PurgeFinish
<1> HIDE DEF row
<1>3. /\ conv'.json = RawCleared(pstate) /\ conv'.version = conv.version
      /\ conv'.status = conv.status
      /\ conv' \in [json : SessionState, version : Nat,
                    status : {"active", "completed"}, until : Deadlines]
  <2>1. RawCleared(pstate) \in SessionState
    BY RawClearedState DEF IInv, TypeOK
  <2> QED
    BY <2>1 DEF PurgeFinish, IInv, TypeOK, Deadlines
<1>4. TypeOK'
  <2>1. turns' \in [TurnIds -> TurnRow]
    BY <1>1, <1>2
  <2> QED
    BY <1>3, <2>1 DEF PurgeFinish, IInv, TypeOK, requestVars
<1>5. Copy(conv.json)' /\ Copy(pstate)'
  <2>1. pstate \in SessionState
    BY DEF IInv, TypeOK
  <2> QED
    BY <2>1, <1>3, RawClearedState DEF PurgeFinish, IInv, ProtocolInv, TableInv, Copy
<1> QED
  BY <1>1, <1>2, <1>3, <1>4, <1>5, PurgeKeeps DEF PurgeFinish

\* Steps that change no table and no request.
LEMMA IdleStep ==
  ASSUME IInv, TypeOK', UNCHANGED <<tableVars, requestVars, pstate>> PROVE IInv'
<1>1. Copy(conv.json)' /\ Copy(pstate)'
  BY DEF IInv, ProtocolInv, TableInv, Copy, tableVars
<1> QED
  BY <1>1, PurgeKeeps DEF tableVars

LEMMA PurgeTurnsStep ==
  ASSUME IInv, PurgeTurns PROVE IInv'
<1>1. TypeOK'
  BY DEF PurgeTurns, IInv, TypeOK, tableVars, requestVars
<1> QED
  BY <1>1, IdleStep DEF PurgeTurns, tableVars

LEMMA PurgeFailStep ==
  ASSUME IInv, PurgeFail PROVE IInv'
<1>1. TypeOK'
  BY DEF PurgeFail, IInv, TypeOK, tableVars, requestVars
<1> QED
  BY <1>1, IdleStep DEF PurgeFail, tableVars

LEMMA TickStep ==
  ASSUME IInv, Tick PROVE IInv'
<1>1. now' \in 0 .. MaxTime
  BY BoundsAssumption DEF Tick, IInv, TypeOK
<1>2. TypeOK'
  BY <1>1 DEF Tick, IInv, TypeOK, tableVars, requestVars
<1> QED
  BY <1>2, IdleStep DEF Tick, tableVars

---------------------------------------------------------------------------

LEMMA NextIInv ==
  ASSUME IInv, [Next]_vars PROVE IInv'
<1>1. CASE Tick
  BY <1>1, TickStep
<1>2. CASE PurgeStep
  BY <1>2, PurgeStartStep, PurgeTurnsStep, PurgeFinishStep, PurgeFailStep DEF PurgeStep
<1>3. ASSUME NEW q \in Requests, RequestStep(q) PROVE IInv'
  BY <1>3, ResponseExistsStep, GetStateStep, RunEngineStep, EngineFailsStep, CommitLockStep,
     CommitDuplicateStep, CommitFlushStep, CommitDoneStep, CommitFailStep,
     ReplayDuplicateStep, ReadProfileStep, SaveProfileStep, AbandonStep
  DEF RequestStep
<1>4. CASE UNCHANGED vars
  <2>1. TypeOK'
    BY <1>4 DEF vars, IInv, TypeOK
  <2> QED
    BY <1>4, <2>1, IdleStep DEF vars, tableVars, requestVars
<1> QED
  BY <1>1, <1>2, <1>3, <1>4 DEF Next

\* The protocol invariant holds in every reachable state, whatever the number
\* of requests, response ids and turns: requests take the row lock one at a
\* time, a committing request answers the last turn, the observations hold
\* one accepted response per answered turn, and stored results are theirs.
THEOREM ProtocolSafe == Spec => [](TypeOK /\ ProtocolInv)
<1>1. IInv /\ [Next]_vars => IInv'
  BY NextIInv
<1>2. Spec => []IInv
  BY <1>1, InitIInv, PTL DEF Spec
<1> QED
  BY <1>2 DEF IInv

\* Type correctness of the tables, the requests and the purge: in particular
\* no commit inserts a turn beyond the ones the engine was run for.
THEOREM TypeCorrect == Spec => []TypeOK
BY ProtocolSafe, PTL

\* The same response_id is answered with the same turn, by the first answer,
\* by a replay before the state is read and by the replay after a commit that
\* lost the race.
THEOREM SameIdSameTurnHolds == Spec => []SameIdSameTurn
<1>1. IInv => SameIdSameTurn
  <2> SUFFICES ASSUME IInv, NEW p \in Requests, NEW q \in Requests,
                      rid[p] = rid[q],
                      out[p].kind \in {"turn", "replayed"},
                      out[q].kind \in {"turn", "replayed"}
               PROVE  out[p].turn = out[q].turn
    BY DEF SameIdSameTurn
  <2>1. PICK x \in obs : x.rid = rid[p] /\ out[p].turn = x.turn + 1
    BY DEF IInv, ProtocolInv, RequestInv
  <2>2. PICK y \in obs : y.rid = rid[q] /\ out[q].turn = y.turn + 1
    BY DEF IInv, ProtocolInv, RequestInv
  <2>3. x = y
    BY <2>1, <2>2 DEF IInv, ProtocolInv, TableInv
  <2> QED
    BY <2>1, <2>2, <2>3
<1>2. Spec => []IInv
  BY ProtocolSafe DEF IInv
<1> QED
  BY <1>1, <1>2, PTL

\* The version column counts the turns of the conversation: the optimistic
\* check of commit_turn compares against nothing else.
THEOREM VersionCountsTurnsHolds == Spec => []VersionCountsTurns
<1>1. IInv => VersionCountsTurns
  BY DEF IInv, ProtocolInv, TableInv, VersionCountsTurns
<1>2. Spec => []IInv
  BY ProtocolSafe DEF IInv
<1> QED
  BY <1>1, <1>2, PTL

---------------------------------------------------------------------------
(* TurnCommit implements ConversationLog.                                  *)

Accepted == {[turn |-> o.turn, rid |-> o.rid] : o \in obs}

LEMMA CommitAccepts ==
  ASSUME IInv, NEW q \in Requests, NEW acknowledged \in BOOLEAN,
         CommitDone(q, acknowledged)
  PROVE  Log!Accept(rid[q], next[q].status)
<1>1. /\ last \in Nat /\ last + 1 \in TurnIds /\ tid[q] = last
      /\ conv.status = "active"
      /\ \A o \in obs : o.rid # rid[q]
  BY CommitFacts DEF CommitDone
<1>2. last < MaxTurns
  BY <1>1, BoundsAssumption DEF TurnIds
<1>3. \A a \in Accepted : a.rid # rid[q]
  BY <1>1 DEF Accepted
<1>4. /\ obs' = obs \cup {[turn |-> last, rid |-> rid[q], note |-> next[q].note]}
      /\ last' = last + 1
      /\ conv'.status = next[q].status
  BY <1>1 DEF CommitDone
<1>5. Accepted' = Accepted \cup {[turn |-> last, rid |-> rid[q]]}
  <2> DEFINE new == [turn |-> last, rid |-> rid[q], note |-> next[q].note]
  <2>1. obs' = obs \cup {new} /\ [turn |-> new.turn, rid |-> new.rid] = [turn |-> last, rid |-> rid[q]]
    BY <1>4
  <2> HIDE DEF new
  <2>2. \A a \in Accepted' : a \in Accepted \cup {[turn |-> last, rid |-> rid[q]]}
    BY <2>1, Zenon DEF Accepted
  <2>3. \A a \in Accepted \cup {[turn |-> last, rid |-> rid[q]]} : a \in Accepted'
    BY <2>1, Zenon DEF Accepted
  <2> QED
    BY <2>2, <2>3
<1> QED
  BY <1>1, <1>2, <1>3, <1>4, <1>5 DEF Log!Accept, Accepted

LEMMA OthersKeepLog ==
  ASSUME IInv, [Next]_vars,
         ~ \E q \in Requests, acknowledged \in BOOLEAN : CommitDone(q, acknowledged)
  PROVE  obs' = obs /\ last' = last /\ conv'.status = conv.status
<1>1. CASE Tick
  BY <1>1 DEF Tick, tableVars
<1>2. CASE PurgeStep
  BY <1>2 DEF PurgeStep, PurgeStart, PurgeTurns, PurgeFinish, PurgeFail, tableVars, IInv, TypeOK
<1>3. ASSUME NEW q \in Requests, RequestStep(q)
      PROVE  obs' = obs /\ last' = last /\ conv'.status = conv.status
  BY <1>3 DEF RequestStep, ResponseExists, GetState, RunEngine, EngineFails, CommitLock,
              CommitDuplicate, CommitFlush, CommitFail, ReplayDuplicate, ReadProfile,
              SaveProfile, Abandon, tableVars
<1>4. CASE UNCHANGED vars
  BY <1>4 DEF vars
<1> QED
  BY <1>1, <1>2, <1>3, <1>4 DEF Next

\* Answering the stored conversation implements the abstract log: every step
\* of requests, retries, failures and purges accepts one response or leaves
\* the log alone.
THEOREM ImplementsLog == Spec => LogSpec
<1>1. Init => Log!Init
  BY DEF Init, Log!Init
<1>2. ASSUME IInv, [Next]_vars PROVE [Log!Next]_(Log!logVars)
  <2>1. CASE \E q \in Requests, acknowledged \in BOOLEAN : CommitDone(q, acknowledged)
    <3>1. PICK q \in Requests : \E acknowledged \in BOOLEAN : CommitDone(q, acknowledged)
      BY <2>1
    <3>2. Log!Accept(rid[q], next[q].status)
      BY <1>2, <3>1, CommitAccepts
    <3>3. rid[q] \in ResponseIds /\ next[q].status \in {"active", "completed"}
      BY <1>2, <3>1, CommitFacts DEF CommitDone, IInv, TypeOK, EngineResult
    <3>4. Log!Next
      BY <3>2, <3>3, Zenon DEF Log!Next, Log!Accept
    <3> QED
      BY <3>4
  <2>2. CASE ~ \E q \in Requests, acknowledged \in BOOLEAN : CommitDone(q, acknowledged)
    <3>1. obs' = obs /\ last' = last /\ conv'.status = conv.status
      BY <1>2, <2>2, OthersKeepLog
    <3>2. Accepted' = Accepted
      BY <3>1 DEF Accepted
    <3> QED
      BY <3>1, <3>2 DEF Log!logVars, Accepted
  <2> QED
    BY <2>1, <2>2
<1>3. Spec => []IInv
  BY ProtocolSafe DEF IInv
<1> QED
  BY <1>1, <1>2, <1>3, PTL DEF Spec, LogSpec, Log!Spec

---------------------------------------------------------------------------
(* Retention: what the purge and a turn in flight can do to child wording, *)
(* and why a conversation without a deadline always shows its newest turn. *)

LEMMA InitRetention == Init => RetentionInv
<1> SUFFICES ASSUME Init PROVE RetentionInv
  OBVIOUS
<1>1. CASE Policy = "days"
  BY <1>1, BoundsAssumption
  DEF Init, InitialState, RetentionInv, DeadlineInv, RawCopy, HoldsConversation
<1>2. CASE Policy # "days"
  BY <1>2 DEF Init, InitialState, RetentionInv, NoDeadlineInv, SnapshotCurrent
<1> QED
  BY <1>1, <1>2

\* Steps that leave the stored and loaded states and the clocks alone.
LEMMA DeadlineKept ==
  ASSUME IInv, DeadlineInv, Policy = "days", NEW q \in Requests,
         UNCHANGED <<now, tableVars, snap, next, at, purgeVars>>,
         \A p \in Requests : p # q => pc'[p] = pc[p],
         pc'[q] \in {"commit", "locked", "flushed"} => HoldsConversation(q)
  PROVE  DeadlineInv'
BY DEF DeadlineInv, RawCopy, HoldsConversation, tableVars, purgeVars

LEMMA DeadlineLoad ==
  ASSUME IInv, DeadlineInv, Policy = "days"
  PROVE  RawCopy(LoadState(conv.json))
<1>1. conv.json \in SessionState
  BY DEF IInv, TypeOK
<1>2. CASE Passed(conv.json.until, now)
  <2>1. RawDeadline <= now
    BY <1>2 DEF DeadlineInv, RawCopy, Passed
  <2> QED
    BY <1>1, <1>2, <2>1, RawClearedState DEF LoadState, RawCopy
<1>3. CASE ~Passed(conv.json.until, now)
  BY <1>3 DEF LoadState, DeadlineInv
<1> QED
  BY <1>2, <1>3

\* The state a commit writes: wording only with a deadline still to come.
LEMMA DeadlineCommit ==
  ASSUME IInv, DeadlineInv, Policy = "days", NEW q \in Requests, pc[q] = "flushed"
  PROVE  /\ RawCopy(NextState(q))
         /\ purged => NextState(q).until = Never
         /\ purged => ~NextState(q).evidence /\ ~AnsweredTurn(q).raw
<1> DEFINE s == [version |-> snap[q].version + 1, turn |-> last + 1,
                 status |-> next[q].status, raw |-> snap[q].raw,
                 until |-> snap[q].until, evidence |-> next[q].evidence]
<1>0. /\ RawCopy(snap[q]) /\ at[q] <= now /\ at[q] \in Nat /\ now \in Nat /\ RawDeadline \in Nat
      /\ next[q].evidence => snap[q].evidence \/ snap[q].raw
      /\ purged => RawDeadline <= at[q]
  BY BoundsAssumption DEF DeadlineInv, HoldsConversation, IInv, TypeOK
<1>1. s \in SessionState
  <2>1. snap[q] \in SessionState /\ next[q] \in EngineResult /\ last + 1 \in TurnIds
    BY CommitFacts DEF IInv, TypeOK
  <2>2. snap[q].version + 1 \in Nat
    BY <2>1 DEF SessionState
  <2> QED
    BY <2>1, <2>2 DEF SessionState, EngineResult
<1>2. NextState(q) = IF RetentionExpired(q) THEN RawCleared(s) ELSE s
  BY DEF NextState
<1>3. CASE RetentionExpired(q)
  <2>1. RawDeadline <= now
    BY <1>0, <1>3 DEF RetentionExpired, Passed, RawCopy
  <2>2. ~AnsweredTurn(q).raw
    BY <1>3 DEF AnsweredTurn
  <2> HIDE DEF s
  <2> QED
    BY <1>1, <1>2, <1>3, <2>1, <2>2, RawClearedState DEF RawCopy
<1>4. CASE ~RetentionExpired(q)
  <2>1. NextState(q) = s
    BY <1>2, <1>4
  <2>2. CASE snap[q].until = RawDeadline
    <3>0. ~(RawDeadline <= at[q])
      BY <1>0, <1>4, <2>2 DEF RetentionExpired, Passed
    <3>1. ~purged
      BY <1>0, <3>0
    <3> QED
      BY <2>1, <2>2, <3>1 DEF RawCopy
  <2>3. CASE snap[q].until # RawDeadline
    <3>1. snap[q].until = Never /\ ~snap[q].raw /\ ~next[q].evidence /\ RawDeadline <= now
      BY <1>0, <2>3 DEF RawCopy
    <3>2. ~AnsweredTurn(q).raw
      BY <3>1 DEF AnsweredTurn
    <3> QED
      BY <2>1, <3>1, <3>2 DEF RawCopy
  <2> QED
    BY <2>2, <2>3
<1> QED
  BY <1>3, <1>4

---------------------------------------------------------------------------
(* Every step keeps the deadline invariant.                                *)

LEMMA DeadlineRequest ==
  ASSUME IInv, DeadlineInv, Policy = "days", NEW q \in Requests, RequestStep(q)
  PROVE  DeadlineInv'
<1> USE DEF Goto, Answer
<1>t. /\ now \in Nat /\ RawDeadline \in Nat /\ pc \in [Requests -> Steps]
      /\ snap \in [Requests -> SessionState] /\ next \in [Requests -> EngineResult]
      /\ at \in [Requests -> Nat]
  BY BoundsAssumption DEF IInv, TypeOK
<1>1. CASE \E r \in ResponseIds, t \in TurnIds : ResponseExists(q, r, t)
  BY <1>t, <1>1, DeadlineKept DEF ResponseExists
<1>2. CASE GetState(q)
  <2>1. snap' = [snap EXCEPT ![q] = LoadState(conv.json)]
    BY <1>2 DEF GetState
  <2>2. RawCopy(LoadState(conv.json))
    BY DeadlineLoad
  <2>3. /\ UNCHANGED <<now, tableVars, next, at, purgeVars>>
        /\ pc'[q] \in {"done", "engine"}
        /\ \A p \in Requests : p # q => pc'[p] = pc[p]
    BY <1>t, <1>2 DEF GetState
  <2>4. \A p \in Requests : RawCopy(snap'[p])
    BY <1>t, <2>1, <2>2 DEF DeadlineInv
  <2>5. (\A p \in Requests : RawCopy(snap[p]))'
    BY <2>3, <2>4 DEF RawCopy
  <2>6. \A p \in Requests : pc'[p] \in {"commit", "locked", "flushed"} => snap'[p] = snap[p]
    BY <1>t, <2>1, <2>3
  <2> QED
    BY <2>3, <2>5, <2>6 DEF DeadlineInv, RawCopy, HoldsConversation, tableVars, purgeVars
<1>3. CASE \E status \in {"active", "completed"}, note, evidence \in BOOLEAN :
              RunEngine(q, status, note, evidence)
  <2>1. PICK status \in {"active", "completed"}, note \in BOOLEAN, evidence \in BOOLEAN :
           RunEngine(q, status, note, evidence)
    BY <1>3
  <2>2. /\ UNCHANGED <<now, tableVars, snap, at, purgeVars>>
        /\ pc' = [pc EXCEPT ![q] = "commit"]
        /\ next' = [next EXCEPT ![q] = [status |-> status, note |-> note, evidence |-> evidence]]
        /\ evidence => snap[q].evidence \/ snap[q].raw
    BY <2>1 DEF RunEngine
  <2>3. ASSUME NEW p \in Requests, pc'[p] \in {"commit", "locked", "flushed"}, next'[p].evidence
        PROVE  snap[p].evidence \/ snap[p].raw
    BY <1>t, <2>2, <2>3 DEF DeadlineInv
  <2>4. \A p \in Requests : pc'[p] \in {"locked", "flushed"} => HoldsConversation(p)
    BY <1>t, <2>2 DEF HoldsConversation
  <2> QED
    BY <2>2, <2>3, <2>4 DEF DeadlineInv, RawCopy, HoldsConversation, tableVars, purgeVars
<1>4. CASE EngineFails(q)
  BY <1>t, <1>4, DeadlineKept DEF EngineFails
<1>5. CASE CommitLock(q)
  <2>1. CASE CommitVerdict(q) = "ok"
    <3>1. /\ UNCHANGED <<now, tableVars, snap, next, purgeVars>>
          /\ pc' = [pc EXCEPT ![q] = "locked"] /\ pc[q] = "commit"
          /\ at' = [at EXCEPT ![q] = now]
      BY <1>5, <2>1 DEF CommitLock
    <3>2. conv.until = Never => RawDeadline <= now
      BY <1>t DEF DeadlineInv, RawCopy
    <3>3. ASSUME NEW p \in Requests
          PROVE  /\ at'[p] <= now
                 /\ pc'[p] \in {"locked", "flushed"} /\ conv.until = Never => RawDeadline <= at'[p]
                 /\ pc'[p] \in {"commit", "locked", "flushed"} =>
                      pc[p] \in {"commit", "locked", "flushed"}
      BY <1>t, <3>1, <3>2 DEF DeadlineInv, HoldsConversation
    <3> QED
      BY <3>1, <3>3 DEF DeadlineInv, RawCopy, HoldsConversation, tableVars, purgeVars
  <2>2. CASE CommitVerdict(q) # "ok"
    BY <1>t, <1>5, <2>2, DeadlineKept DEF CommitLock
  <2> QED
    BY <2>1, <2>2
<1>6. CASE CommitDuplicate(q)
  BY <1>t, <1>6, DeadlineKept DEF CommitDuplicate
<1>7. CASE CommitFlush(q)
  BY <1>t, <1>7, DeadlineKept DEF CommitFlush, HoldsConversation
<1>8. CASE \E acknowledged \in BOOLEAN : CommitDone(q, acknowledged)
  <2>1. /\ pc[q] = "flushed"
        /\ conv' = [json |-> NextState(q), version |-> NextState(q).version,
                    status |-> next[q].status, until |-> NextState(q).until]
        /\ UNCHANGED <<now, snap, next, at, purgeVars>>
    BY <1>8 DEF CommitDone
  <2>2. pc'[q] \in {"profile", "done"} /\ \A p \in Requests : p # q => pc'[p] = pc[p]
    BY <1>t, <1>8 DEF CommitDone
  <2>3. RawCopy(NextState(q)) /\ (purged => NextState(q).until = Never)
    BY <2>1, DeadlineCommit
  <2>4. conv'.json = NextState(q) /\ conv'.until = conv'.json.until
    BY <2>1
  <2>5. (RawCopy(conv.json))' /\ (purged => conv.until = Never)'
    BY <2>1, <2>3, <2>4 DEF RawCopy, purgeVars
  <2>6. \A p \in Requests : pc'[p] \notin {"locked", "flushed"}
    BY <2>1, <2>2, CommitFacts DEF HoldsConversation
  <2>7. \A p \in Requests : pc'[p] = "commit" => pc[p] = "commit"
    BY <2>2
  <2> QED
    BY <2>1, <2>4, <2>5, <2>6, <2>7 DEF DeadlineInv, RawCopy, HoldsConversation, purgeVars
<1>9. CASE CommitFail(q)
  BY <1>t, <1>9, DeadlineKept DEF CommitFail
<1>10. CASE ReplayDuplicate(q)
  BY <1>t, <1>10, DeadlineKept DEF ReplayDuplicate
<1>11. CASE ReadProfile(q)
  BY <1>t, <1>11, DeadlineKept DEF ReadProfile
<1>12. CASE SaveProfile(q)
  BY <1>t, <1>12, DeadlineKept DEF SaveProfile
<1>13. CASE Abandon(q)
  BY <1>t, <1>13, DeadlineKept DEF Abandon
<1> QED
  BY <1>1, <1>2, <1>3, <1>4, <1>5, <1>6, <1>7, <1>8, <1>9, <1>10, <1>11, <1>12, <1>13
  DEF RequestStep

LEMMA DeadlinePurge ==
  ASSUME IInv, DeadlineInv, Policy = "days", PurgeStep
  PROVE  DeadlineInv'
<1>t. now \in Nat /\ pnow \in Nat /\ RawDeadline \in Nat
  BY BoundsAssumption DEF IInv, TypeOK
<1>1. CASE PurgeStart
  <2>1. CASE Passed(conv.until, now)
    <3>1. RawDeadline <= now
      BY <2>1 DEF DeadlineInv, RawCopy, Passed
    <3>2. /\ pstate' = conv.json /\ pnow' = now
          /\ UNCHANGED <<now, conv, purged, requestVars>>
      BY <1>1, <2>1 DEF PurgeStart
    <3> QED
      BY <1>t, <3>1, <3>2 DEF DeadlineInv, RawCopy, HoldsConversation, requestVars
  <2>2. CASE ~Passed(conv.until, now)
    <3>1. /\ UNCHANGED <<now, conv, ppc, pstate, requestVars>> /\ ppc = "idle"
          /\ purged' = (purged \/ (Policy = "days" /\ RawDeadline <= now))
      BY <1>1, <2>2 DEF PurgeStart
    <3>2. RawDeadline <= now => conv.until = Never
      BY <1>t, <2>2 DEF DeadlineInv, RawCopy, Passed
    <3>3. (purged => conv.until = Never)'
      BY <3>1, <3>2 DEF DeadlineInv
    <3> QED
      BY <3>1, <3>3 DEF DeadlineInv, RawCopy, HoldsConversation, requestVars
  <2> QED
    BY <2>1, <2>2
<1>2. CASE PurgeTurns
  BY <1>2 DEF PurgeTurns, DeadlineInv, RawCopy, HoldsConversation, requestVars, tableVars
<1>3. CASE PurgeFinish
  <2>1. RawDeadline <= now
    BY <1>t, <1>3 DEF PurgeFinish, DeadlineInv
  <2>2. /\ conv'.json = RawCleared(pstate) /\ conv'.until = Never
        /\ UNCHANGED <<now, pstate, requestVars>> /\ ppc' = "idle"
    BY <1>3 DEF PurgeFinish, IInv, TypeOK
  <2>3. /\ RawCleared(pstate).until = Never /\ RawCleared(pstate).raw = FALSE
        /\ RawCleared(pstate).evidence = FALSE
    BY RawClearedState DEF IInv, TypeOK
  <2>4. \A q \in Requests : ~HoldsConversation(q)
    BY <1>3 DEF PurgeFinish, ConversationFree
  <2> QED
    BY <2>1, <2>2, <2>3, <2>4 DEF DeadlineInv, RawCopy, HoldsConversation, requestVars
<1>4. CASE PurgeFail
  BY <1>4 DEF PurgeFail, DeadlineInv, RawCopy, HoldsConversation, requestVars, tableVars
<1> QED
  BY <1>1, <1>2, <1>3, <1>4 DEF PurgeStep

LEMMA DeadlineTick ==
  ASSUME IInv, DeadlineInv, Tick
  PROVE  DeadlineInv'
<1>1. now \in Nat /\ pnow \in Nat /\ RawDeadline \in Nat /\ at \in [Requests -> Nat]
  BY BoundsAssumption DEF IInv, TypeOK
<1>2. now' = now + 1 /\ UNCHANGED <<tableVars, requestVars, ppc, pnow, pstate, purged>>
  BY DEF Tick
<1>3. \A q \in Requests : at[q] <= now => at[q] <= now + 1
  BY <1>1
<1> QED
  BY <1>1, <1>2, <1>3 DEF DeadlineInv, RawCopy, HoldsConversation, requestVars, tableVars

LEMMA NextDeadline ==
  ASSUME IInv, DeadlineInv, Policy = "days", [Next]_vars
  PROVE  DeadlineInv'
<1>1. CASE UNCHANGED vars
  BY <1>1 DEF vars, DeadlineInv, RawCopy, HoldsConversation
<1> QED
  BY <1>1, DeadlineRequest, DeadlinePurge, DeadlineTick DEF Next

---------------------------------------------------------------------------
(* Without a deadline.                                                     *)

LEMMA NextNoDeadline ==
  ASSUME IInv, NoDeadlineInv, Policy # "days", [Next]_vars
  PROVE  NoDeadlineInv'
<1>1. CASE UNCHANGED vars
  BY <1>1 DEF vars, NoDeadlineInv, SnapshotCurrent
<1>2. CASE Tick
  BY <1>2 DEF Tick, NoDeadlineInv, SnapshotCurrent, tableVars, requestVars
<1>3. CASE PurgeStep
  <2>1. PurgeStart /\ ~Passed(conv.until, now)
    BY <1>3 DEF PurgeStep, PurgeTurns, PurgeFinish, PurgeFail, NoDeadlineInv, Passed
  <2>2. UNCHANGED <<conv, last, ppc, requestVars>>
    BY <2>1 DEF PurgeStart
  <2>3. ~purged'
    BY <2>1 DEF PurgeStart, NoDeadlineInv
  <2> QED
    BY <2>2, <2>3 DEF NoDeadlineInv, SnapshotCurrent, requestVars
<1>4. ASSUME NEW q \in Requests, RequestStep(q) PROVE NoDeadlineInv'
  <2>1. CASE \E acknowledged \in BOOLEAN : CommitDone(q, acknowledged)
    <3>1. /\ pc[q] = "flushed" /\ last' = last + 1
          /\ conv' = [json |-> NextState(q), version |-> NextState(q).version,
                      status |-> next[q].status, until |-> NextState(q).until]
          /\ UNCHANGED <<snap, ppc, purged>>
      BY <2>1 DEF CommitDone, purgeVars
    <3>2. /\ NextState(q).version = last + 1 /\ NextState(q).turn = last + 1
          /\ NextState(q).status = next[q].status
      BY <3>1, NextStateFacts
    <3>3. NextState(q).until = Never
      BY DEF NextState, RetentionExpired, Passed, NoDeadlineInv
    <3> QED
      BY <3>1, <3>2, <3>3 DEF NoDeadlineInv, SnapshotCurrent
  <2>2. CASE GetState(q)
    <3>1. snap' = [snap EXCEPT ![q] = conv.json] /\ UNCHANGED <<conv, last, ppc, purged>>
      BY <2>2 DEF GetState, LoadState, Passed, NoDeadlineInv, tableVars, purgeVars
    <3>2. \A p \in Requests : snap'[p].until = Never
      BY <3>1 DEF NoDeadlineInv, IInv, TypeOK
    <3> QED
      BY <3>1, <3>2 DEF NoDeadlineInv, SnapshotCurrent
  <2>3. CASE /\ ~ \E acknowledged \in BOOLEAN : CommitDone(q, acknowledged)
             /\ ~ GetState(q)
    <3>1. UNCHANGED <<conv, last, snap, ppc, purged>>
      BY <1>4, <2>3
      DEF RequestStep, ResponseExists, RunEngine, EngineFails, CommitLock, CommitDuplicate,
          CommitFlush, CommitFail, ReplayDuplicate, ReadProfile, SaveProfile, Abandon,
          tableVars, purgeVars
    <3> QED
      BY <3>1 DEF NoDeadlineInv, SnapshotCurrent
  <2> QED
    BY <2>1, <2>2, <2>3
<1> QED
  BY <1>1, <1>2, <1>3, <1>4 DEF Next

---------------------------------------------------------------------------

\* The retention invariant holds in every reachable state.
THEOREM RetentionSafe == Spec => []RetentionInv
<1>1. ASSUME IInv, RetentionInv, [Next]_vars PROVE RetentionInv'
  BY <1>1, NextDeadline, NextNoDeadline DEF RetentionInv
<1>2. Spec => []IInv
  BY ProtocolSafe DEF IInv
<1> QED
  BY <1>1, <1>2, InitRetention, PTL DEF Spec

\* After a purge past the deadline no step writes child wording into a turn,
\* its claims or the state, however long before the deadline the turn in
\* flight was read, and however the purge and the commit interleave.
THEOREM RawNeverRecreated == Spec => NoRawRecreated
<1> DEFINE Keeps == purged => /\ \A t \in TurnIds : turns'[t].raw => turns[t].raw
                              /\ conv'.json.evidence => conv.json.evidence
<1>1. ASSUME IInv, RetentionInv, [Next]_vars PROVE Keeps
  <2> SUFFICES ASSUME purged
               PROVE  /\ \A t \in TurnIds : turns'[t].raw => turns[t].raw
                      /\ conv'.json.evidence => conv.json.evidence
    OBVIOUS
  <2>0. Policy = "days" /\ DeadlineInv
    BY <1>1 DEF RetentionInv, NoDeadlineInv
  <2>1. CASE \E q \in Requests, acknowledged \in BOOLEAN : CommitDone(q, acknowledged)
    <3>1. PICK q \in Requests : \E acknowledged \in BOOLEAN : CommitDone(q, acknowledged)
      BY <2>1
    <3>2. /\ pc[q] = "flushed" /\ conv'.json = NextState(q)
          /\ turns' = [turns EXCEPT ![tid[q]] = AnsweredTurn(q)]
      BY <3>1 DEF CommitDone
    <3>3. ~NextState(q).evidence /\ ~AnsweredTurn(q).raw
      BY <1>1, <2>0, <3>2, DeadlineCommit
    <3> QED
      BY <1>1, <3>2, <3>3 DEF IInv, TypeOK
  <2>2. CASE PurgeFinish
    <3>1. ~conv'.json.evidence
      <4>1. conv'.json = RawCleared(pstate)
        BY <1>1, <2>2 DEF PurgeFinish, IInv, TypeOK
      <4> QED
        BY <1>1, <4>1, RawClearedState DEF IInv, TypeOK
    <3>2. ASSUME NEW t \in TurnIds PROVE ~turns'[t].raw
      <4>1. Forget(turns[t], pnow) \in TurnRow
        BY <1>1, ForgottenRow DEF IInv, TypeOK
      <4> QED
        BY <2>2, <4>1 DEF PurgeFinish, TurnRow
    <3> QED
      BY <3>1, <3>2
  <2>3. CASE PurgeStart
    <3>1. conv' = conv /\ \A t \in TurnIds : turns'[t] \in {turns[t], Forget(turns[t], now)}
      BY <1>1, <2>3 DEF PurgeStart, IInv, TypeOK
    <3>2. \A t \in TurnIds : Forget(turns[t], now).raw = turns[t].raw
      BY <1>1, ForgottenRow DEF IInv, TypeOK
    <3> QED
      BY <3>1, <3>2
  <2>4. CASE /\ ~ \E q \in Requests, acknowledged \in BOOLEAN : CommitDone(q, acknowledged)
             /\ ~PurgeFinish /\ ~PurgeStart
    <3>1. UNCHANGED <<conv, turns>>
      BY <1>1, <2>4
      DEF Next, Tick, PurgeStep, PurgeTurns, PurgeFail, RequestStep, ResponseExists, GetState,
          RunEngine, EngineFails, CommitLock, CommitDuplicate, CommitFlush, CommitFail,
          ReplayDuplicate, ReadProfile, SaveProfile, Abandon, tableVars, vars
    <3> QED
      BY <3>1
  <2> QED
    BY <2>1, <2>2, <2>3, <2>4
<1>2. Spec => []IInv
  BY ProtocolSafe DEF IInv
<1> QED
  BY <1>1, <1>2, RetentionSafe, PTL DEF Spec, NoRawRecreated

\* A conversation that keeps its wording for ever, or never stores any,
\* always shows its newest turn: the state a client reads back is the one the
\* next commit is checked against.
THEOREM SnapshotCurrentHolds ==
  ASSUME Policy # "days"
  PROVE  Spec => []SnapshotCurrent
<1>1. RetentionInv => SnapshotCurrent
  BY DEF RetentionInv, NoDeadlineInv
<1> QED
  BY <1>1, RetentionSafe, PTL

---------------------------------------------------------------------------
(* Credits: the profile against the star notes. *)

LEMMA SettledFacts ==
  ASSUME CreditInv
  PROVE  /\ Settled \subseteq obs /\ IsFiniteSet(Settled) /\ Cardinality(Settled) \in Nat
         /\ Settled \subseteq {o \in obs : o.note} /\ IsFiniteSet({o \in obs : o.note})
<1>1. Settled \subseteq {o \in obs : o.note} /\ {o \in obs : o.note} \subseteq obs
  BY DEF Settled
<1>2. IsFiniteSet(obs)
  BY DEF CreditInv
<1>3. IsFiniteSet({o \in obs : o.note})
  BY <1>1, <1>2, FS_Subset
<1>4. IsFiniteSet(Settled)
  BY <1>1, <1>3, FS_Subset
<1> QED
  BY <1>1, <1>3, <1>4, FS_CardinalityType

\* Steps that write no observation and no profile, and begin no update: what
\* is settled stays settled.
LEMMA CreditKept ==
  ASSUME IInv, CreditInv, obs' = obs, profile' = profile, NEW q \in Requests,
         \A p \in Requests : p # q => pc'[p] = pc[p] /\ rid'[p] = rid[p] /\ seen'[p] = seen[p],
         Crediting(q)' => /\ Crediting(q) /\ rid'[q] = rid[q]
                          /\ pc'[q] = "save" =>
                                \/ seen'[q] = profile
                                \/ pc[q] = "save" /\ seen'[q] = seen[q]
  PROVE  CreditInv'
<1>1. Settled \subseteq Settled'
  BY DEF Settled, Crediting
<1>2. IsFiniteSet(obs') /\ IsFiniteSet(Settled')
  <2>1. IsFiniteSet(obs') /\ Settled' \subseteq obs'
    BY DEF CreditInv, Settled
  <2> QED
    BY <2>1, FS_Subset
<1>3. /\ Cardinality(Settled) <= Cardinality(Settled')
      /\ Cardinality(Settled) \in Nat /\ Cardinality(Settled') \in Nat
  BY <1>1, <1>2, SettledFacts, FS_Subset, FS_CardinalityType
<1>4. profile \in Nat /\ \A p \in Requests : seen[p] \in Nat
  BY DEF IInv, TypeOK
<1>5. \A p \in Requests : Crediting(p)' => Crediting(p) /\ rid'[p] = rid[p]
  BY DEF Crediting
<1>6. \A p \in Requests : pc'[p] = "save" => seen'[p] <= Cardinality(Settled')
  <2> SUFFICES ASSUME NEW p \in Requests, pc'[p] = "save"
               PROVE  seen'[p] <= Cardinality(Settled')
    OBVIOUS
  <2>1. seen'[p] = profile \/ (pc[p] = "save" /\ seen'[p] = seen[p])
    BY DEF Crediting
  <2>2. seen'[p] <= Cardinality(Settled)
    BY <2>1 DEF CreditInv
  <2> QED
    BY <1>3, <1>4, <2>1, <2>2
<1>7. profile' <= Cardinality(Settled')
  BY <1>3, <1>4 DEF CreditInv
<1>8. /\ \A p, r \in Requests : Crediting(p)' /\ Crediting(r)' /\ rid'[p] = rid'[r] => p = r
      /\ \A p \in Requests : Crediting(p)' => \E o \in obs' : o.note /\ o.rid = rid'[p]
  BY <1>5 DEF CreditInv
<1> QED
  BY <1>2, <1>6, <1>7, <1>8 DEF CreditInv

\* The steps of the purge and of the clock.
LEMMA CreditIdle ==
  ASSUME CreditInv, UNCHANGED <<obs, profile, pc, rid, seen>>
  PROVE  CreditInv'
BY DEF CreditInv, Settled, Crediting

\* A commit adds an observation under a response id that had none, and at
\* most its own request begins to credit it.
LEMMA CreditCommit ==
  ASSUME IInv, CreditInv, NEW q \in Requests, NEW acknowledged \in BOOLEAN,
         CommitDone(q, acknowledged)
  PROVE  CreditInv'
<1> DEFINE o == [turn |-> tid[q], rid |-> rid[q], note |-> next[q].note]
<1>1. obs' = obs \cup {o} /\ UNCHANGED <<profile, rid, seen>> /\ o.rid = rid[q]
  BY DEF CommitDone
<1>2. /\ \A p \in Requests : p # q => pc'[p] = pc[p]
      /\ pc'[q] \in {"profile", "done"}
      /\ pc'[q] = "profile" => o.note
  BY DEF CommitDone, Goto, Answer, IInv, TypeOK
<1>3. pc[q] = "flushed"
  BY DEF CommitDone
<1>4. \A a \in obs : a.rid # rid[q]
  BY <1>3, CommitFacts
<1> HIDE DEF o
<1>5. Settled \subseteq Settled'
  BY <1>1, <1>2, <1>3, <1>4 DEF Settled, Crediting
<1>6. IsFiniteSet(obs') /\ IsFiniteSet(Settled')
  <2>1. IsFiniteSet(obs')
    BY <1>1, FS_AddElement DEF CreditInv
  <2>2. Settled' \subseteq obs'
    BY DEF Settled
  <2> QED
    BY <2>1, <2>2, FS_Subset
<1>7. /\ Cardinality(Settled) <= Cardinality(Settled')
      /\ Cardinality(Settled) \in Nat /\ Cardinality(Settled') \in Nat
  BY <1>5, <1>6, SettledFacts, FS_Subset, FS_CardinalityType
<1>8. profile \in Nat /\ \A p \in Requests : seen[p] \in Nat
  BY DEF IInv, TypeOK
<1>9. \A p \in Requests : pc'[p] = "save" => seen'[p] <= Cardinality(Settled')
  BY <1>1, <1>2, <1>7, <1>8 DEF CreditInv
<1>10. profile' <= Cardinality(Settled')
  BY <1>1, <1>7, <1>8 DEF CreditInv
<1>11. \A p \in Requests : Crediting(p)' => \E a \in obs' : a.note /\ a.rid = rid'[p]
  BY <1>1, <1>2 DEF CreditInv, Crediting
<1>12. \A p, r \in Requests : Crediting(p)' /\ Crediting(r)' /\ rid'[p] = rid'[r] => p = r
  BY <1>1, <1>2, <1>4 DEF CreditInv, Crediting
<1> QED
  BY <1>6, <1>9, <1>10, <1>11, <1>12 DEF CreditInv

\* A save adds one credit and settles the note it belongs to.
LEMMA CreditSave ==
  ASSUME IInv, CreditInv, NEW q \in Requests, SaveProfile(q)
  PROVE  CreditInv'
<1>1. /\ pc[q] = "save" /\ profile' = seen[q] + 1 /\ UNCHANGED <<obs, rid, seen>>
      /\ pc'[q] = "done" /\ \A p \in Requests : p # q => pc'[p] = pc[p]
  BY DEF SaveProfile, Goto, IInv, TypeOK, tableVars
<1>2. PICK o \in obs : o.note /\ o.rid = rid[q]
  BY <1>1 DEF CreditInv, Crediting
<1>3. o \notin Settled
  BY <1>1, <1>2 DEF Settled, Crediting
<1>4. Settled \cup {o} \subseteq Settled'
  BY <1>1, <1>2 DEF Settled, Crediting, CreditInv
<1>5. IsFiniteSet(obs') /\ IsFiniteSet(Settled')
  <2>1. IsFiniteSet(obs') /\ Settled' \subseteq obs'
    BY <1>1 DEF CreditInv, Settled
  <2> QED
    BY <2>1, FS_Subset
<1>6. /\ Cardinality(Settled \cup {o}) = Cardinality(Settled) + 1
      /\ IsFiniteSet(Settled \cup {o})
  BY <1>3, SettledFacts, FS_AddElement
<1>7. /\ Cardinality(Settled) + 1 <= Cardinality(Settled')
      /\ Cardinality(Settled) \in Nat /\ Cardinality(Settled') \in Nat
  BY <1>4, <1>5, <1>6, SettledFacts, FS_Subset, FS_CardinalityType
<1>8. profile \in Nat /\ \A p \in Requests : seen[p] \in Nat
  BY DEF IInv, TypeOK
<1>9. profile' <= Cardinality(Settled')
  BY <1>1, <1>7, <1>8 DEF CreditInv
<1>10. \A p \in Requests : pc'[p] = "save" => seen'[p] <= Cardinality(Settled')
  BY <1>1, <1>7, <1>8 DEF CreditInv
<1>11. /\ \A p, r \in Requests : Crediting(p)' /\ Crediting(r)' /\ rid'[p] = rid'[r] => p = r
       /\ \A p \in Requests : Crediting(p)' => \E a \in obs' : a.note /\ a.rid = rid'[p]
  BY <1>1 DEF CreditInv, Crediting
<1> QED
  BY <1>5, <1>9, <1>10, <1>11 DEF CreditInv

LEMMA CreditStep ==
  ASSUME IInv, CreditInv, [Next]_vars
  PROVE  CreditInv'
<1>1. CASE Tick \/ PurgeStep \/ UNCHANGED vars
  BY <1>1, CreditIdle DEF Tick, PurgeStep, PurgeStart, PurgeTurns, PurgeFinish, PurgeFail,
                          vars, tableVars, requestVars
<1>2. ASSUME NEW q \in Requests, RequestStep(q) PROVE CreditInv'
  <2>1. CASE \E acknowledged \in BOOLEAN : CommitDone(q, acknowledged)
    BY <2>1, CreditCommit
  <2>2. CASE SaveProfile(q)
    BY <2>2, CreditSave
  <2>3. CASE ReadProfile(q)
    <3>1. /\ pc[q] = "profile" /\ pc'[q] = "save" /\ seen'[q] = profile /\ rid' = rid
          /\ obs' = obs /\ profile' = profile
          /\ \A p \in Requests : p # q => pc'[p] = pc[p] /\ seen'[p] = seen[p]
      BY <2>3 DEF ReadProfile, Goto, IInv, TypeOK, tableVars
    <3> QED
      BY <3>1, CreditKept DEF Crediting
  <2>4. CASE \/ \E r \in ResponseIds, t \in TurnIds : ResponseExists(q, r, t)
             \/ GetState(q)
             \/ \E status \in {"active", "completed"}, note, evidence \in BOOLEAN :
                   RunEngine(q, status, note, evidence)
             \/ EngineFails(q) \/ CommitLock(q) \/ CommitDuplicate(q) \/ CommitFlush(q)
             \/ CommitFail(q) \/ ReplayDuplicate(q) \/ Abandon(q)
    <3>1. /\ pc'[q] \notin {"profile", "save"}
          /\ obs' = obs /\ profile' = profile /\ seen' = seen
          /\ \A p \in Requests : p # q => pc'[p] = pc[p] /\ rid'[p] = rid[p]
      BY <2>4 DEF ResponseExists, GetState, RunEngine, EngineFails, CommitLock,
                  CommitDuplicate, CommitFlush, CommitFail, ReplayDuplicate, Abandon,
                  Goto, Answer, IInv, TypeOK, tableVars
    <3> QED
      BY <3>1, CreditKept DEF Crediting
  <2> QED
    BY <1>2, <2>1, <2>2, <2>3, <2>4 DEF RequestStep
<1> QED
  BY <1>1, <1>2 DEF Next

\* The accounting of credits holds in every reachable state.
THEOREM CreditSafe == Spec => []CreditInv
<1>1. Init => CreditInv
  <2> SUFFICES ASSUME Init PROVE CreditInv
    OBVIOUS
  <2>1. obs = {} /\ Settled = {} /\ profile = 0 /\ \A q \in Requests : pc[q] = "idle"
    BY DEF Init, Settled
  <2>2. IsFiniteSet(obs) /\ Cardinality(Settled) = 0
    BY <2>1, FS_EmptySet
  <2> QED
    BY <2>1, <2>2 DEF CreditInv, Crediting
<1>2. IInv /\ CreditInv /\ [Next]_vars => CreditInv'
  BY CreditStep
<1>3. Spec => []IInv
  BY ProtocolSafe DEF IInv
<1> QED
  BY <1>1, <1>2, <1>3, PTL DEF Spec

\* The learner's profile never counts more successes than star notes were
\* committed, with any number of requests, retries, lost connections and
\* unlocked profile updates.
THEOREM CreditsBoundedHolds == Spec => []CreditsBounded
<1>1. IInv /\ CreditInv => CreditsBounded
  <2> SUFFICES ASSUME IInv, CreditInv PROVE CreditsBounded
    OBVIOUS
  <2>1. /\ Cardinality(Settled) <= Cardinality({o \in obs : o.note})
        /\ Cardinality(Settled) \in Nat /\ Cardinality({o \in obs : o.note}) \in Nat
    BY SettledFacts, FS_Subset, FS_CardinalityType
  <2>2. profile \in Nat /\ profile <= Cardinality(Settled)
    BY DEF IInv, TypeOK, CreditInv
  <2> QED
    BY <2>1, <2>2 DEF CreditsBounded
<1>2. Spec => []IInv
  BY ProtocolSafe DEF IInv
<1> QED
  BY <1>1, <1>2, CreditSafe, PTL

===========================================================================
