---------------------------- MODULE TurnCommit ----------------------------
(***************************************************************************)
(* One conversation and the requests that answer its turns.                *)
(*                                                                         *)
(* A request (service.py, _respond_stream_turn_only) is a chain of         *)
(* separate database transactions with a model call in the middle: replay  *)
(* look-up, state load, engine, commit_turn, profile update.  Next to the  *)
(* requests runs the hourly retention purge (repository.py,                *)
(* purge_expired_raw_data).  The database is PostgreSQL at READ COMMITTED: *)
(* a transaction's writes become visible when it commits, a row lock is    *)
(* held until then, and a cycle of lock waits is broken by failing one     *)
(* transaction.                                                            *)
(*                                                                         *)
(* Time is a small counter.  Turn ids are numbered in the order in which   *)
(* the rows are inserted (the code draws a fresh uuid per turn).           *)
(***************************************************************************)
EXTENDS Integers, FiniteSets

CONSTANTS
    Requests,      \* HTTP requests that answer a turn (a retry is one more)
    ResponseIds,   \* client-made idempotency keys
    NoResponse,    \* the NULL of turns.response_id
    Policy,        \* retention_policy of the conversation
    RawDeadline,   \* started_at + 30 or 90 days, for the "days" policy
    IdemTTL,       \* idempotency_retention_days
    MaxTime,       \* bound on the clock
    MaxTurns       \* bound on the turns of the conversation

ASSUME NoResponseAssumption == NoResponse \notin ResponseIds
ASSUME PolicyAssumption == Policy \in {"no_raw", "days", "permanent"}
ASSUME BoundsAssumption ==
    /\ RawDeadline \in Nat
    /\ IdemTTL \in Nat \ {0}
    /\ MaxTime \in Nat
    /\ MaxTurns \in Nat \ {0}

\* The NULL of a deadline column.
Never == -1

TurnIds == 1 .. MaxTurns
Deadlines == Nat \cup {Never}

Passed(deadline, t) == deadline # Never /\ deadline <= t

\* What SessionState carries that the properties tell apart.  "evidence" is
\* child wording kept as note evidence: only legacy conversations have any.
SessionState ==
    [version : Nat, turn : TurnIds, status : {"active", "completed"},
     raw : BOOLEAN, until : Deadlines, evidence : BOOLEAN]

\* "raw" stands for response_raw_encrypted, response_structured and the
\* evidence spans of the turn's claims, which are written and purged together.
TurnRow ==
    [rid : ResponseIds \cup {NoResponse}, expires : Deadlines,
     result : TurnIds \cup {0}, raw : BOOLEAN]

EmptyTurn == [rid |-> NoResponse, expires |-> Never, result |-> 0, raw |-> FALSE]

InitialState ==
    [version  |-> 1,
     turn     |-> 1,
     status   |-> "active",
     raw      |-> Policy # "no_raw",
     until    |-> IF Policy = "days" THEN RawDeadline ELSE Never,
     evidence |-> FALSE]

EngineResult == [status : {"active", "completed"}, note : BOOLEAN, evidence : BOOLEAN]

Steps == {"idle", "read", "engine", "commit", "locked", "flushed",
          "duplicate", "profile", "save", "done"}

Answers == {"none", "turn", "replayed", "stale", "invalid", "model_error",
            "persistence", "lost"}

VARIABLES
    now,       \* the clock
    conv,      \* row of conversations: state_json and its own columns
               \* state_version, status, raw_retention_until
    turns,     \* rows of turns
    last,      \* number of turn rows inserted so far
    obs,       \* rows of dialogue_turn_observations, never deleted
    profile,   \* successes credited to the learner's profile
    pc, rid, tid,      \* where each request is, and what it asks
    snap,      \* the state it loaded
    next,      \* what the engine decided
    at,        \* committed_at
    seen,      \* the profile it loaded
    out,       \* what it answered
    ppc, pnow, pstate, \* the purge: step, its "now", the state_json it selected
    due,       \* the hourly timer has fired
    purged     \* history: a purge past the raw deadline has committed

requestVars == <<pc, rid, tid, snap, next, at, seen, out>>
purgeVars == <<ppc, pnow, pstate, due, purged>>
tableVars == <<conv, turns, last, obs>>
vars == <<now, conv, turns, last, obs, profile, pc, rid, tid, snap, next, at,
          seen, out, ppc, pnow, pstate, due, purged>>

TypeOK ==
    /\ now \in 0 .. MaxTime
    /\ conv \in [json : SessionState, version : Nat,
                 status : {"active", "completed"}, until : Deadlines]
    /\ turns \in [TurnIds -> TurnRow]
    /\ last \in TurnIds
    /\ obs \in SUBSET [turn : TurnIds, rid : ResponseIds, note : BOOLEAN]
    /\ profile \in Nat
    /\ pc \in [Requests -> Steps]
    /\ rid \in [Requests -> ResponseIds \cup {NoResponse}]
    /\ tid \in [Requests -> TurnIds]
    /\ snap \in [Requests -> SessionState]
    /\ next \in [Requests -> EngineResult]
    /\ at \in [Requests -> Nat]
    /\ seen \in [Requests -> Nat]
    /\ out \in [Requests -> [kind : Answers, turn : TurnIds \cup {0}]]
    /\ ppc \in {"idle", "selected", "cleared"}
    /\ pnow \in Nat
    /\ pstate \in SessionState
    /\ due \in BOOLEAN
    /\ purged \in BOOLEAN

Init ==
    /\ now = 0
    /\ conv = [json |-> InitialState, version |-> 1, status |-> "active",
               until |-> InitialState.until]
    /\ turns = [t \in TurnIds |-> EmptyTurn]
    /\ last = 1
    /\ obs = {}
    /\ profile = 0
    /\ pc = [q \in Requests |-> "idle"]
    /\ rid = [q \in Requests |-> NoResponse]
    /\ tid = [q \in Requests |-> 1]
    /\ snap = [q \in Requests |-> InitialState]
    /\ next = [q \in Requests |-> [status |-> "active", note |-> FALSE, evidence |-> FALSE]]
    /\ at = [q \in Requests |-> 0]
    /\ seen = [q \in Requests |-> 0]
    /\ out = [q \in Requests |-> [kind |-> "none", turn |-> 0]]
    /\ ppc = "idle"
    /\ pnow = 0
    /\ pstate = InitialState
    /\ due = FALSE
    /\ purged = FALSE

---------------------------------------------------------------------------
(* Requests *)

Goto(q, step) == pc' = [pc EXCEPT ![q] = step]

Answer(q, kind, turn) ==
    /\ Goto(q, "done")
    /\ out' = [out EXCEPT ![q] = [kind |-> kind, turn |-> turn]]

\* The row response_exists finds: same response_id, not past its expiry.
Replayable(r, t) ==
    /\ turns[t].rid = r
    /\ ~Passed(turns[t].expires, now)
    /\ turns[t].result # 0

\* The request arrives with its response_id and turn_id; a live earlier
\* result is replayed before anything else is looked at.
ResponseExists(q, r, t) ==
    /\ pc[q] = "idle"
    /\ t <= last
    /\ rid' = [rid EXCEPT ![q] = r]
    /\ tid' = [tid EXCEPT ![q] = t]
    /\ \/ \E u \in TurnIds :
            /\ Replayable(r, u)
            /\ Answer(q, "replayed", turns[u].result)
       \/ /\ \A u \in TurnIds : ~Replayable(r, u)
          /\ Goto(q, "read")
          /\ UNCHANGED out
    /\ UNCHANGED <<now, tableVars, profile, snap, next, at, seen, purgeVars>>

\* raw storage is over: no deadline left, no raw wording in the state
RawCleared(s) == [s EXCEPT !.raw = FALSE, !.until = Never, !.evidence = FALSE]

\* _load_state enforces the deadline on every load.
LoadState(s) == IF Passed(s.until, now) THEN RawCleared(s) ELSE s

\* get_state and active_turn, then the checks on the request.  A completed
\* conversation's turn takes no input, so no response type matches it.
GetState(q) ==
    /\ pc[q] = "read"
    /\ LET s == LoadState(conv.json) IN
         /\ snap' = [snap EXCEPT ![q] = s]
         /\ \/ /\ s.turn # tid[q]
               /\ Answer(q, "stale", 0)
            \/ /\ s.turn = tid[q]
               /\ Answer(q, "invalid", 0)
            \/ /\ s.turn = tid[q]
               /\ s.status = "active"
               /\ Goto(q, "engine")
               /\ UNCHANGED out
    /\ UNCHANGED <<now, tableVars, profile, rid, tid, next, at, seen, purgeVars>>

\* The engine works on a deep copy of the state; legacy conversations keep
\* child wording as evidence only while raw storage is on.
RunEngine(q, status, note, evidence) ==
    /\ pc[q] = "engine"
    /\ last < MaxTurns
    /\ evidence => snap[q].evidence \/ snap[q].raw
    /\ next' = [next EXCEPT ![q] = [status |-> status, note |-> note, evidence |-> evidence]]
    /\ Goto(q, "commit")
    /\ UNCHANGED <<now, tableVars, profile, rid, tid, snap, at, seen, out, purgeVars>>

\* ModelUnavailableError, ModelOutputError: 503, nothing written.
EngineFails(q) ==
    /\ pc[q] = "engine"
    /\ Answer(q, "model_error", 0)
    /\ UNCHANGED <<now, tableVars, profile, rid, tid, snap, next, at, seen, purgeVars>>

\* Row lock on the conversation (SELECT ... FOR UPDATE in commit_turn).
HoldsConversation(q) == pc[q] \in {"locked", "flushed"}
\* Mutant: a second session of the same request holds the row commit_turn waits for.
HeldByOwnSession == \A q \in Requests : pc[q] \notin {"commit", "locked", "flushed"}

ConversationFree == \A q \in Requests : ~HoldsConversation(q)

\* commit_turn's checks, in the order the code makes them.
CommitVerdict(q) ==
    IF conv.version # snap[q].version THEN "stale"
    ELSE IF turns[tid[q]].rid = rid[q] THEN "duplicate"
    ELSE IF turns[tid[q]].rid # NoResponse THEN "stale"
    ELSE "ok"

CommitLock(q) ==
    /\ pc[q] = "commit"
    /\ ConversationFree
    /\ \/ /\ CommitVerdict(q) = "ok"
          /\ at' = [at EXCEPT ![q] = now]
          /\ Goto(q, "locked")
          /\ UNCHANGED out
       \/ /\ CommitVerdict(q) # "ok"
          /\ IF CommitVerdict(q) = "stale"
               THEN Answer(q, "stale", 0)
               ELSE Goto(q, "duplicate") /\ UNCHANGED out
          /\ UNCHANGED at
    /\ UNCHANGED <<now, tableVars, profile, rid, tid, snap, next, seen, purgeVars>>

\* Mutant: only the turn row's response_id is unique, which the purge forgets.
UniqueTurnOnly(q) == \E t \in TurnIds : turns[t].rid = rid[q]

\* uq_observation_conversation_response, uq_observation_source_turn: the
\* observation is flushed first, and observations outlive the response_id
\* that the purge removes from the turn row.
UniqueViolation(q) == \E o \in obs : o.rid = rid[q] \/ o.turn = tid[q]

CommitDuplicate(q) ==
    /\ pc[q] = "locked"
    /\ UniqueViolation(q)
    /\ Goto(q, "duplicate")
    /\ UNCHANGED <<now, tableVars, profile, rid, tid, snap, next, at, seen, out, purgeVars>>

\* The UPDATE of the answered turn waits for the purge's lock on that row.
CommitFlush(q) ==
    /\ pc[q] = "locked"
    /\ ~UniqueViolation(q)
    /\ ppc # "cleared"
    /\ Goto(q, "flushed")
    /\ UNCHANGED <<now, tableVars, profile, rid, tid, snap, next, at, seen, out, purgeVars>>

\* Mutant: the deadline is not checked again inside the transaction.
DeadlineNotRechecked(q) == FALSE

\* committed_at is taken under the row lock and the deadline checked again.
RetentionExpired(q) == Passed(snap[q].until, at[q])

\* The state the commit stores: the engine's, one version and one turn on.
NextState(q) ==
    LET s == [version |-> snap[q].version + 1, turn |-> last + 1,
              status |-> next[q].status, raw |-> snap[q].raw,
              until |-> snap[q].until, evidence |-> next[q].evidence]
    IN  IF RetentionExpired(q) THEN RawCleared(s) ELSE s

\* Mutant: result_turn_id is the turn that was answered.
ResultIsAnsweredTurn(q) ==
    [rid |-> rid[q], expires |-> IF Policy = "permanent" THEN Never ELSE at[q] + IdemTTL,
     result |-> tid[q], raw |-> snap[q].raw /\ ~RetentionExpired(q)]

\* The answered turn's row: idempotency key, its expiry, result and wording.
AnsweredTurn(q) ==
    [rid     |-> rid[q],
     expires |-> IF Policy = "permanent" THEN Never ELSE at[q] + IdemTTL,
     result  |-> last + 1,
     raw     |-> snap[q].raw /\ ~RetentionExpired(q)]

\* The commit makes every row of the turn visible at once.  If the
\* connection breaks while COMMIT is answered, the rows are there and the
\* request still reports a persistence error.
CommitDone(q, acknowledged) ==
    /\ pc[q] = "flushed"
    /\ conv' = [json |-> NextState(q), version |-> NextState(q).version,
                status |-> next[q].status, until |-> NextState(q).until]
    /\ turns' = [turns EXCEPT ![tid[q]] = AnsweredTurn(q)]
    /\ last' = last + 1
    /\ obs' = obs \cup {[turn |-> tid[q], rid |-> rid[q], note |-> next[q].note]}
    /\ IF acknowledged
         THEN /\ Goto(q, IF next[q].note THEN "profile" ELSE "done")
              /\ out' = [out EXCEPT ![q] = [kind |-> "turn", turn |-> last + 1]]
         ELSE Answer(q, "persistence", 0)
    /\ UNCHANGED <<now, profile, rid, tid, snap, next, at, seen, purgeVars>>

\* Any SQLAlchemyError inside the transaction, a deadlock among them.
CommitFail(q) ==
    /\ HoldsConversation(q)
    /\ Answer(q, "persistence", 0)
    /\ UNCHANGED <<now, tableVars, profile, rid, tid, snap, next, at, seen, purgeVars>>

\* Mutant: a replayed duplicate goes on to the profile update.
ReplayCreditsProfile(q) ==
    /\ pc[q] = "duplicate"
    /\ Goto(q, "profile")
    /\ UNCHANGED <<now, tableVars, profile, rid, tid, snap, next, at, seen, out, purgeVars>>

\* DuplicateResponseError: look the first result up again.
ReplayDuplicate(q) ==
    /\ pc[q] = "duplicate"
    /\ \/ \E u \in TurnIds :
            /\ Replayable(rid[q], u)
            /\ Answer(q, "replayed", turns[u].result)
       \/ /\ \A u \in TurnIds : ~Replayable(rid[q], u)
          /\ Answer(q, "persistence", 0)
    /\ UNCHANGED <<now, tableVars, profile, rid, tid, snap, next, at, seen, purgeVars>>

\* get_profile and save_profile are two transactions without a lock.
ReadProfile(q) ==
    /\ pc[q] = "profile"
    /\ seen' = [seen EXCEPT ![q] = profile]
    /\ Goto(q, "save")
    /\ UNCHANGED <<now, tableVars, profile, rid, tid, snap, next, at, out, purgeVars>>

SaveProfile(q) ==
    /\ pc[q] = "save"
    /\ profile' = seen[q] + 1
    /\ Goto(q, "done")
    /\ UNCHANGED <<now, tableVars, rid, tid, snap, next, at, seen, out, purgeVars>>

\* The process dies, the client disconnects or an unclassified error escapes:
\* an open transaction is rolled back, committed rows stay.
Abandon(q) ==
    /\ pc[q] \notin {"idle", "done"}
    /\ Answer(q, "lost", 0)
    /\ UNCHANGED <<now, tableVars, profile, rid, tid, snap, next, at, seen, purgeVars>>

---------------------------------------------------------------------------
(* Retention purge *)

\* The first UPDATE: idempotency results past their expiry are forgotten.
Forget(row, t) ==
    IF Passed(row.expires, t)
      THEN [row EXCEPT !.rid = NoResponse, !.expires = Never, !.result = 0]
      ELSE row

\* The conversation row is read without a lock.  Nothing else to do when its
\* deadline has not passed.
PurgeStart ==
    /\ ppc = "idle"
    /\ due
    /\ pnow' = now
    /\ \/ /\ Passed(conv.until, now)
          /\ pstate' = conv.json
          /\ ppc' = "selected"
          /\ UNCHANGED <<turns, due, purged>>
       \/ /\ ~Passed(conv.until, now)
          /\ turns' = [t \in TurnIds |-> Forget(turns[t], now)]
          /\ due' = FALSE
          /\ purged' = (purged \/ (Policy = "days" /\ RawDeadline <= now))
          /\ UNCHANGED <<ppc, pstate>>
    /\ UNCHANGED <<now, conv, last, obs, profile, requestVars>>

\* UPDATE turns SET response_raw_encrypted = NULL ... waits for a commit that
\* has written its turn row, and holds the rows from then on.
PurgeTurns ==
    /\ ppc = "selected"
    /\ \A q \in Requests : pc[q] # "flushed"
    /\ ppc' = "cleared"
    /\ UNCHANGED <<now, tableVars, profile, requestVars, pnow, pstate, due, purged>>

\* The whole state_json that was selected is written back, without touching
\* state_version; the UPDATE waits for the conversation's row lock.
PurgeFinish ==
    /\ ppc = "cleared"
    /\ ConversationFree
    /\ turns' = [t \in TurnIds |-> [Forget(turns[t], pnow) EXCEPT !.raw = FALSE]]
    /\ conv' = [conv EXCEPT !.json = RawCleared(pstate), !.until = Never]
    /\ ppc' = "idle"
    /\ due' = FALSE
    /\ purged' = TRUE
    /\ UNCHANGED <<now, last, obs, profile, requestVars, pnow, pstate>>

\* Rolled back and logged; the next attempt is an hour away.
PurgeFail ==
    /\ ppc # "idle"
    /\ ppc' = "idle"
    /\ due' = FALSE
    /\ UNCHANGED <<now, tableVars, profile, requestVars, pnow, pstate, purged>>

Tick ==
    /\ now < MaxTime
    /\ now' = now + 1
    /\ due' = TRUE
    /\ UNCHANGED <<tableVars, profile, requestVars, ppc, pnow, pstate, purged>>

---------------------------------------------------------------------------

RequestStep(q) ==
    \/ \E r \in ResponseIds, t \in TurnIds : ResponseExists(q, r, t)
    \/ GetState(q)
    \/ \E status \in {"active", "completed"}, note, evidence \in BOOLEAN :
          RunEngine(q, status, note, evidence)
    \/ EngineFails(q)
    \/ CommitLock(q)
    \/ CommitDuplicate(q)
    \/ CommitFlush(q)
    \/ \E acknowledged \in BOOLEAN : CommitDone(q, acknowledged)
    \/ CommitFail(q)
    \/ ReplayDuplicate(q)
    \/ ReadProfile(q)
    \/ SaveProfile(q)
    \/ Abandon(q)

PurgeStep == PurgeStart \/ PurgeTurns \/ PurgeFinish \/ PurgeFail

Next == Tick \/ PurgeStep \/ \E q \in Requests : RequestStep(q)

Spec == Init /\ [][Next]_vars

---------------------------------------------------------------------------
(* Properties *)

\* The observations are the log of accepted responses: they are written in
\* the transaction that accepts a response and no step removes them.
Log == INSTANCE ConversationLog WITH
    accepted <- {[turn |-> o.turn, rid |-> o.rid] : o \in obs},
    open <- last,
    status <- conv.status

\* Whatever the interleaving of requests, retries, failures and purges, the
\* stored conversation advances as the abstract log does: one turn per
\* accepted response, no response id accepted twice, nothing after the end.
LogSpec == Log!Spec

\* Requests that carry the same response_id and are answered with a turn are
\* answered with the same turn, first answer or replay, at any time.
SameIdSameTurn ==
    \A p, q \in Requests :
        (/\ rid[p] = rid[q]
         /\ out[p].kind \in {"turn", "replayed"}
         /\ out[q].kind \in {"turn", "replayed"}) => out[p].turn = out[q].turn

\* state_version counts the turns: it moves by one with each inserted turn
\* and no other writer (purge included) moves it.
VersionCountsTurns == conv.version = last

\* The state a client reads back is the one the next commit is checked
\* against, and its turn is the newest one: a client that follows a 409 to
\* the latest turn can go on.
SnapshotCurrent ==
    /\ conv.json.version = conv.version
    /\ conv.json.turn = last
    /\ conv.json.status = conv.status

\* Once a purge has committed past the deadline, no turn that was in flight
\* brings child wording back: the deadline is checked again when the state
\* is loaded and when the turn is committed.
NoRawRecreated ==
    [][purged => /\ \A t \in TurnIds : turns'[t].raw => turns[t].raw
                 /\ conv'.json.evidence => conv.json.evidence]_vars

\* The profile is credited at most once per star note: a replay, a retry or
\* a failed commit credits nothing.
CreditsBounded == profile <= Cardinality({o \in obs : o.note})

---------------------------------------------------------------------------
(* Why the properties hold: the inductive invariant. *)

\* A stored or loaded copy of the state is some past state of the
\* conversation, and the newest one carries the conversation's status.
Copy(s) ==
    /\ s.version = s.turn
    /\ s.turn <= last
    /\ s.turn = last => s.status = conv.status

\* What each request may rely on between its transactions.
RequestInv(q) ==
    /\ Copy(snap[q])
    /\ pc[q] = "idle" => out[q].kind = "none"
    /\ pc[q] # "idle" => rid[q] \in ResponseIds
    /\ pc[q] \in {"engine", "commit", "locked", "flushed"} =>
          snap[q].turn = tid[q] /\ snap[q].status = "active"
    /\ pc[q] \in {"commit", "locked", "flushed"} => snap[q].turn < MaxTurns
    /\ HoldsConversation(q) => snap[q].turn = last
    /\ pc[q] = "flushed" => \A o \in obs : o.rid # rid[q]
    /\ out[q].kind \in {"turn", "replayed"} =>
          \E o \in obs : o.rid = rid[q] /\ out[q].turn = o.turn + 1

\* Every turn but the last has one observation, response ids do not repeat,
\* and an answer that can still be replayed is the one that was observed.
TableInv ==
    /\ conv.version = last
    /\ Copy(conv.json)
    /\ Copy(pstate)
    /\ \A o \in obs : o.turn < last
    /\ \A o1, o2 \in obs : o1.turn = o2.turn \/ o1.rid = o2.rid => o1 = o2
    /\ \A t \in TurnIds : turns[t].rid # NoResponse =>
          /\ turns[t].result = t + 1
          /\ \E o \in obs : o.turn = t /\ o.rid = turns[t].rid

MutualExclusion ==
    \A p, q \in Requests : HoldsConversation(p) /\ HoldsConversation(q) => p = q

\* The protocol invariant: with TypeOK it is preserved by every step.
ProtocolInv ==
    /\ TableInv
    /\ MutualExclusion
    /\ \A q \in Requests : RequestInv(q)

\* A copy of the state under a time-limited policy: either the deadline is
\* still on it, or it has passed and the copy carries no child wording.
RawCopy(s) ==
    \/ s.until = RawDeadline
    \/ s.until = Never /\ ~s.raw /\ ~s.evidence /\ RawDeadline <= now

\* Under a time-limited policy: a commit in flight can
\* hold wording only if it read the clock before the deadline, and then no
\* purge can have committed before it lets the row lock go.
DeadlineInv ==
    /\ RawCopy(conv.json)
    /\ RawCopy(pstate)
    /\ conv.until = conv.json.until
    /\ purged => conv.until = Never
    /\ \A q \in Requests :
          /\ RawCopy(snap[q])
          /\ pc[q] \in {"commit", "locked", "flushed"} =>
                (next[q].evidence => snap[q].evidence \/ snap[q].raw)
          /\ at[q] <= now
          /\ HoldsConversation(q) /\ conv.until = Never => RawDeadline <= at[q]
    /\ ppc # "idle" => RawDeadline <= pnow /\ pnow <= now

\* Without a deadline the purge never selects the conversation, so no writer
\* but commit_turn touches its state.
NoDeadlineInv ==
    /\ conv.until = Never
    /\ conv.json.until = Never
    /\ \A q \in Requests : snap[q].until = Never
    /\ ppc = "idle"
    /\ ~purged
    /\ SnapshotCurrent

\* The retention invariant, by policy.
RetentionInv == IF Policy = "days" THEN DeadlineInv ELSE NoDeadlineInv

\* A request between its commit and the end of its profile update.
Crediting(q) == pc[q] \in {"profile", "save"}

\* The star notes whose profile update is over, done or lost.
Settled == {o \in obs : o.note /\ \A q \in Requests : Crediting(q) => rid[q] # o.rid}

\* Each profile update under way belongs to a star note of its own, and no
\* count of credits, stored or loaded, exceeds the notes settled so far: the
\* save that adds one settles one more.
CreditInv ==
    /\ IsFiniteSet(obs)
    /\ \A p, q \in Requests : Crediting(p) /\ Crediting(q) /\ rid[p] = rid[q] => p = q
    /\ \A q \in Requests : Crediting(q) => \E o \in obs : o.note /\ o.rid = rid[q]
    /\ profile <= Cardinality(Settled)
    /\ \A q \in Requests : pc[q] = "save" => seen[q] <= Cardinality(Settled)

---------------------------------------------------------------------------
(* Fairness: the event loop runs every request that can go on, the model   *)
(* call ends in a result or in a timeout, and the database breaks a cycle  *)
(* of lock waits by failing one of the transactions.                       *)

DeadlockVictim ==
    /\ ppc = "cleared"
    /\ ~ConversationFree
    /\ PurgeFail \/ \E q \in Requests : CommitFail(q)

RequestProgress(q) ==
    \/ GetState(q)
    \/ \E status \in {"active", "completed"}, note, evidence \in BOOLEAN :
          RunEngine(q, status, note, evidence)
    \/ EngineFails(q)
    \/ CommitLock(q)
    \/ CommitDuplicate(q)
    \/ CommitFlush(q)
    \/ \E acknowledged \in BOOLEAN : CommitDone(q, acknowledged)
    \/ ReplayDuplicate(q)
    \/ ReadProfile(q)
    \/ SaveProfile(q)

FairSpec ==
    /\ Spec
    /\ \A q \in Requests : WF_vars(RequestProgress(q))
    /\ WF_vars(PurgeStart)
    /\ WF_vars(PurgeTurns)
    /\ WF_vars(PurgeFinish)
    /\ WF_vars(DeadlockVictim)

\* Every request that was accepted for processing is answered, although the
\* commit takes the conversation's lock before the turn's and the purge takes
\* them the other way round.
EveryRequestAnswered == \A q \in Requests : (pc[q] = "read") ~> (pc[q] = "done")

===========================================================================
