--------------------------- MODULE SessionParent ---------------------------
(***************************************************************************)
(* Requests that answer the turns of one conversation through the session  *)
(* parent graph: a cursor row in the database that is published after the  *)
(* domain commit, checkpoints that are restored or rebuilt from it, a      *)
(* worker task that hands progress events to the response generator, and   *)
(* clients that go away.                                                   *)
(*                                                                         *)
(* The turn at version v has id v.  What a turn decides, and what a commit *)
(* writes beside the version, is the subject of TurnCommit.                *)
(***************************************************************************)
EXTENDS Naturals, FiniteSets

CONSTANTS
    Requests,     \* requests in flight
    ResponseOf,   \* the response id of each
    TurnOf,       \* the turn each answers
    Last,         \* the version whose turn completes the conversation
    Stages        \* progress events of a turn

ASSUME ParentAssumption ==
    /\ TurnOf \in [Requests -> Nat \ {0}]
    /\ \A r, q \in Requests : ResponseOf[r] = ResponseOf[q] => TurnOf[r] = TurnOf[q]
    /\ Last \in Nat /\ Last > 1 /\ Stages \in Nat \ {0}

Responses == {ResponseOf[r] : r \in Requests}

NoRow == [generation |-> 0]
NoPacket == [version |-> 0]

VARIABLES
    version,    \* state_version of the conversation row
    commits,    \* the turn each response produced, 0 before
    row,        \* SessionParentRecord, or NoRow
    pc,         \* where the handler of a request, or its worker, is
    cursor,     \* the ParentCursor a request loaded
    seen,       \* the state version it read
    left,       \* progress events still to emit
    event,      \* the rendezvous: none, queued or yielded
    result,     \* the turn it holds, 0 before
    client,     \* waiting, answered, error or gone
    at,         \* the version its parent graph waits at, 0 if it does not
    ran         \* history: how often it ran the turn service

db == <<version, commits, row>>
parentVars == <<db, pc, cursor, seen, left, event, result, client, at, ran>>

Phase(v) == IF v = Last THEN "completed" ELSE "waiting"
Pointer(v) == [version |-> v, phase |-> Phase(v)]
Ended == {"answered", "failed", "cancelled"}

ParentInit ==
    /\ version = 1 /\ commits = [p \in Responses |-> 0] /\ row = NoRow
    /\ pc = [r \in Requests |-> "idle"]
    /\ cursor = [r \in Requests |-> NoRow] /\ seen = [r \in Requests |-> 0]
    /\ left = [r \in Requests |-> 0] /\ event = [r \in Requests |-> "none"]
    /\ result = [r \in Requests |-> 0] /\ client = [r \in Requests |-> "waiting"]
    /\ at = [r \in Requests |-> 0] /\ ran = [r \in Requests |-> 0]

Go(r, place) == pc' = [pc EXCEPT ![r] = place]
Here(r) == client[r] = "waiting"

\* The winner of a creation enrolls the conversation it created, perhaps when the
\* first turns of it were already answered; a row that is there stays.
enroll ==
    /\ row = NoRow
    /\ row' = [generation |-> 1, version |-> 1, phase |-> "waiting", packet |-> NoPacket]
    /\ UNCHANGED <<version, commits, pc, cursor, seen, left, event, result, client, ran, at>>

-----------------------------------------------------------------------------
(* _respond_stream_scoped: replay first, then the state, then the cursor. *)

Replay(r) ==
    /\ pc[r] = "idle" /\ Here(r)
    /\ IF commits[ResponseOf[r]] # 0
       THEN result' = [result EXCEPT ![r] = commits[ResponseOf[r]]] /\ Go(r, "answer")
       ELSE UNCHANGED result /\ Go(r, "fresh")
    /\ UNCHANGED <<db, cursor, seen, left, event, client, ran, at>>

ReadState(r) ==
    /\ pc[r] = "fresh" /\ Here(r)
    /\ seen' = [seen EXCEPT ![r] = version] /\ Go(r, "read")
    /\ UNCHANGED <<db, cursor, left, event, result, client, ran, at>>

\* No row, a completed conversation or an unavailable store: the turn service alone.
LoadCursor(r) ==
    /\ pc[r] = "read" /\ Here(r)
    /\ \/ /\ row # NoRow /\ seen[r] # Last
          /\ cursor' = [cursor EXCEPT ![r] = row] /\ Go(r, "parent")
       \/ UNCHANGED cursor /\ Go(r, "run")
    /\ UNCHANGED <<db, seen, left, event, result, client, ran, at>>

-----------------------------------------------------------------------------
(* The worker: invoke() of the coordinator. *)

\* A mutant: the packet of the cursor is restored as it is.
RestoreAny(r) ==
    /\ pc[r] = "parent" /\ Here(r) /\ cursor[r].packet # NoPacket
    /\ at' = [at EXCEPT ![r] = cursor[r].packet.version] /\ Go(r, "run")
    /\ UNCHANGED <<db, cursor, seen, left, event, result, client, ran>>

\* A packet is restored if it is at the pointer of the state that was read.
Restore(r) ==
    /\ pc[r] = "parent" /\ Here(r) /\ cursor[r].packet = Pointer(seen[r])
    /\ at' = [at EXCEPT ![r] = cursor[r].packet.version] /\ Go(r, "run")
    /\ UNCHANGED <<db, cursor, seen, left, event, result, client, ran>>

\* Without a packet, with an old one or one that cannot be decoded, the graph is
\* started anew from that pointer and waits there for its input.
Rebuild(r) ==
    /\ pc[r] = "parent" /\ Here(r)
    /\ at' = [at EXCEPT ![r] = seen[r]] /\ Go(r, "run")
    /\ UNCHANGED <<db, cursor, seen, left, event, result, client, ran>>

\* A mutant: whatever went wrong, the turn is run once more.
RerunWhenUnanswered(r) ==
    /\ pc' = [pc EXCEPT ![r] = IF result[r] = 0 THEN "run" ELSE "answer"]
    /\ cursor' = [cursor EXCEPT ![r] = NoRow]

\* A mutant: a turn whose checkpoint fails is an error.
FailAfterCommit(r) ==
    /\ pc' = [pc EXCEPT ![r] = IF ran[r] = 0 THEN "run" ELSE "failing"]
    /\ cursor' = [cursor EXCEPT ![r] = NoRow]

\* An exception inside invoke(): before the turn service ran it is bypassed, after
\* it produced a result that result is kept, and in between the error is raised.
Recover(r) ==
    /\ pc' = [pc EXCEPT ![r] = CASE ran[r] = 0 -> "run"
                                 [] ran[r] # 0 /\ result[r] = 0 -> "failing"
                                 [] OTHER -> "answer"]
    /\ cursor' = [cursor EXCEPT ![r] = NoRow]

GraphRaises(r) ==
    /\ pc[r] \in {"parent", "accept", "emit", "export"} /\ cursor[r] # NoRow /\ Here(r)
    /\ event[r] = "none"
    /\ Recover(r)
    /\ UNCHANGED <<db, seen, left, event, result, client, ran, at>>

\* Where a request goes with its result: to the publication if it has a cursor.
Finish(r, v) ==
    /\ result' = [result EXCEPT ![r] = v]
    /\ Go(r, IF cursor[r] = NoRow THEN "answer" ELSE "export")

\* _respond_stream_turn_only: it looks for a replay itself, and then reads the
\* state in a transaction of its own, up to the acceptance of the response.
RunTurn(r) ==
    /\ pc[r] = "run" /\ Here(r)
    /\ ran' = [ran EXCEPT ![r] = @ + 1] /\ at' = [at EXCEPT ![r] = 0]
    /\ IF commits[ResponseOf[r]] # 0 THEN Finish(r, commits[ResponseOf[r]])
       ELSE Go(r, "accept") /\ UNCHANGED result
    /\ UNCHANGED <<db, cursor, seen, left, event, client>>

Accept(r) ==
    /\ pc[r] = "accept" /\ Here(r)
    /\ IF TurnOf[r] # version \/ version = Last
       THEN Go(r, "failing") /\ UNCHANGED <<seen, left>>
       ELSE /\ seen' = [seen EXCEPT ![r] = version]
            /\ left' = [left EXCEPT ![r] = Stages]
            /\ Go(r, "emit")
    /\ UNCHANGED <<db, cursor, event, result, client, ran, at>>

\* emit(): the event waits in the queue of one, and work for its acknowledgement.
Emit(r) ==
    /\ pc[r] = "emit" /\ left[r] > 0 /\ event[r] = "none" /\ Here(r)
    /\ event' = [event EXCEPT ![r] = "queued"]
    /\ UNCHANGED <<db, pc, cursor, seen, left, result, client, ran, at>>

Yield(r) ==
    /\ event[r] = "queued" /\ Here(r)
    /\ event' = [event EXCEPT ![r] = "yielded"]
    /\ UNCHANGED <<db, pc, cursor, seen, left, result, client, ran, at>>

\* The consumer asks for the next event: only now does the work go on.
Acknowledge(r) ==
    /\ event[r] = "yielded" /\ Here(r)
    /\ event' = [event EXCEPT ![r] = "none"]
    /\ left' = [left EXCEPT ![r] = @ - 1]
    /\ UNCHANGED <<db, pc, cursor, seen, result, client, ran, at>>

\* The turn is composed, or understanding, policy or storage fail.
Compose(r) ==
    /\ pc[r] = "emit" /\ left[r] = 0 /\ Here(r)
    /\ Go(r, "commit") \/ Go(r, "failing")
    /\ UNCHANGED <<db, cursor, seen, left, event, result, client, ran, at>>

\* commit_turn compares the version first, so the slower copy of a response fails;
\* a turn whose COMMIT was not acknowledged is stored and its request fails too.
Commit(r) ==
    /\ pc[r] = "commit"
    /\ IF version # seen[r]
       THEN Go(r, "failing") /\ UNCHANGED <<result, version, commits>>
       ELSE /\ version' = version + 1
            /\ commits' = [commits EXCEPT ![ResponseOf[r]] = version + 1]
            /\ \/ Finish(r, version + 1)
               \/ Go(r, "failing") /\ UNCHANGED result
    /\ UNCHANGED <<row, cursor, seen, left, event, client, ran, at>>

\* export_boundary: the packet of the turn that was produced.
Export(r) ==
    /\ pc[r] = "export" /\ Here(r)
    /\ Go(r, "publish")
    /\ UNCHANGED <<db, cursor, seen, left, event, result, client, ran, at>>

\* A mutant: the generation alone is compared.
CanPublishFenced(r) == row.generation = cursor[r].generation

CanPublish(r) == version = result[r] /\ row.generation = cursor[r].generation

\* publish: one short transaction.  The store may time out before or after it.
publish(r) ==
    /\ pc[r] = "publish"
    /\ \/ /\ CanPublish(r)
          /\ row' = [generation |-> cursor[r].generation + 1, version |-> result[r],
                     phase |-> Phase(result[r]), packet |-> Pointer(result[r])]
       \/ UNCHANGED row
    /\ Go(r, "answer")
    /\ UNCHANGED <<version, commits, cursor, seen, left, event, result, client, ran, at>>

-----------------------------------------------------------------------------
(* How a request ends. *)

Answer(r) ==
    /\ pc[r] = "answer" /\ Here(r)
    /\ client' = [client EXCEPT ![r] = "answered"] /\ Go(r, "answered")
    /\ UNCHANGED <<db, cursor, seen, left, event, result, ran, at>>

Fail(r) ==
    /\ pc[r] = "failing" /\ Here(r)
    /\ client' = [client EXCEPT ![r] = "error"] /\ Go(r, "failed")
    /\ UNCHANGED <<db, cursor, seen, left, event, result, ran, at>>

\* The client disconnects: the generator is closed wherever it is suspended.
Disconnect(r) ==
    /\ pc[r] \notin Ended /\ Here(r)
    /\ client' = [client EXCEPT ![r] = "gone"]
    /\ UNCHANGED <<db, pc, cursor, seen, left, event, result, ran, at>>

\* A mutant: a closed stream leaves a worker that waits for its acknowledgement.
CancelIdle(r) ==
    /\ client[r] = "gone" /\ pc[r] \notin Ended /\ event[r] = "none"
    /\ Go(r, "cancelled")
    /\ UNCHANGED <<db, cursor, seen, left, event, result, client, ran, at>>

\* Its finally block cancels the worker and waits for it; a transaction that was
\* already sent may still land before that.
Cancel(r) ==
    /\ client[r] = "gone" /\ pc[r] \notin Ended
    /\ Go(r, "cancelled")
    /\ UNCHANGED <<db, cursor, seen, left, event, result, client, ran, at>>

Step(r) ==
    \/ Replay(r) \/ ReadState(r) \/ LoadCursor(r) \/ Restore(r) \/ Rebuild(r) \/ RunTurn(r)
    \/ Accept(r) \/ Emit(r) \/ Yield(r) \/ Acknowledge(r) \/ Compose(r) \/ Commit(r) \/ Export(r) \/ publish(r)
    \/ Answer(r) \/ Fail(r) \/ Cancel(r)

ParentNext ==
    \/ enroll
    \/ \E r \in Requests : Step(r) \/ GraphRaises(r) \/ Disconnect(r)

\* The event loop runs every ready task, and every wait has a timeout.  A client
\* reads the next event or goes away: both are steps of Step after Disconnect.
ParentFairness == \A r \in Requests : WF_parentVars(Step(r))

ParentSpec == ParentInit /\ [][ParentNext]_parentVars /\ ParentFairness

-----------------------------------------------------------------------------
(* Properties. *)

\* The turn service runs at most once for a request, whatever the parent graph,
\* its checkpoints or its store do ("Execute ONCE", session_parent_graph.py), and
\* in a parent graph that waits at the state the request read, also when the last
\* publication was lost and the stored packet is an old one.
RunsOnce ==
    \A r \in Requests :
        /\ ran[r] <= 1
        /\ pc[r] = "run" /\ cursor[r] # NoRow => at[r] = seen[r]

\* Every publication describes the conversation as it is at that moment, by a
\* generation of its own, and never leads the cursor back, in whatever order
\* concurrent turns commit and publish.
CursorAdvances ==
    [][row' # row =>
        \/ row = NoRow /\ row'.version <= version /\ row'.packet = NoPacket
        \/ /\ row # NoRow /\ row'.generation = row.generation + 1
           /\ row'.version = version /\ row'.version >= row.version
           /\ row'.packet = Pointer(version) /\ row'.phase = Phase(version)]_parentVars

\* A request is answered with the turn of its own response, also by replay, and
\* one that has that turn is not answered with an error because of the parent.
AnswerIsItsTurn ==
    \A r \in Requests :
        /\ client[r] = "answered" => result[r] # 0 /\ result[r] = commits[ResponseOf[r]]
        /\ result[r] # 0 => client[r] # "error"

\* No request and no worker is left behind, with events undelivered or the client
\* gone (the rendezvous of emit and the finally blocks of both streams).
RequestsSettle == <>[](\A r \in Requests : pc[r] \in Ended)

-----------------------------------------------------------------------------
(* Why the safety properties hold: the inductive invariant. *)

Places == {"idle", "fresh", "read", "parent", "run", "accept", "emit", "commit", "export",
           "publish", "answer", "failing"} \cup Ended
PhaseNames == {"waiting", "completed"}
Rows == [generation : Nat \ {0}, version : Nat, phase : PhaseNames,
         packet : {NoPacket} \cup [version : Nat, phase : PhaseNames]]

\* The types of the state of the requests and of the cursor row.
TypeOK ==
    /\ version \in Nat \ {0} /\ commits \in [Responses -> Nat] /\ row \in {NoRow} \cup Rows
    /\ pc \in [Requests -> Places] /\ cursor \in [Requests -> {NoRow} \cup Rows]
    /\ seen \in [Requests -> Nat] /\ result \in [Requests -> Nat] /\ ran \in [Requests -> Nat]
    /\ at \in [Requests -> Nat]
    /\ client \in [Requests -> {"waiting", "answered", "error", "gone"}]

\* A response has at most one turn, the one after the turn it answers, and the
\* cursor is never ahead of the conversation.
TablesInv ==
    /\ \A q \in Requests : commits[ResponseOf[q]] # 0 =>
           commits[ResponseOf[q]] = TurnOf[q] + 1 /\ commits[ResponseOf[q]] <= version
    /\ row # NoRow => row.version <= version

\* What a request knows at each place: it has not run the service before "run",
\* composes for the turn it answers, and holds its own turn or none.
PlaceInv(q) ==
    /\ ran[q] <= 1
    /\ pc[q] \in {"idle", "fresh", "read", "parent", "run"} => ran[q] = 0
    /\ pc[q] \in {"idle", "fresh", "read"} => cursor[q] = NoRow
    /\ pc[q] = "run" /\ cursor[q] # NoRow => at[q] = seen[q]
    /\ pc[q] \in {"accept", "emit", "commit", "export", "publish"} => ran[q] = 1
    /\ pc[q] \in {"emit", "commit"} => seen[q] = TurnOf[q]
    /\ pc[q] \in {"export", "publish"} => cursor[q] # NoRow
    /\ pc[q] \in {"export", "publish", "answer", "answered"} => result[q] # 0
    /\ result[q] # 0 => /\ pc[q] \in {"export", "publish", "answer", "answered", "cancelled"}
                        /\ result[q] = commits[ResponseOf[q]]
    /\ client[q] = "answered" => pc[q] = "answered"
    /\ client[q] = "error" => pc[q] = "failed"

ParentInv == TypeOK /\ TablesInv /\ \A q \in Requests : PlaceInv(q)

===========================================================================
