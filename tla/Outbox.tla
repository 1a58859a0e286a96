------------------------------ MODULE Outbox ------------------------------
(***************************************************************************)
(* The transactional outbox (outbox.py) and the dispatchers that deliver   *)
(* its events to the Spring backend, one event at a time, at least once.   *)
(*                                                                         *)
(* available_at is abstracted to whether it has been reached ("due"): the  *)
(* lease of a claimed event and the back-off of a retried one end by Elapse.*)
(* Spring is external and modelled by how the dispatcher reads its replies.*)
(***************************************************************************)
EXTENDS Integers, FiniteSets

CONSTANTS
    Events,          \* event ids of ai_outbox_events
    StarNotes,       \* the ones of type mormi.star_note.created
    Poison,          \* the ones Spring can never accept (unknown type, 422)
    Workers,         \* dispatchers, one per API process
    NoEvent,
    OverflowAttempt, \* first attempt whose back-off overflows a float
    MaxAttempts,     \* bound on claims of one event
    MaxFaults        \* bound on faults of processes, network and Spring

ASSUME EventsAssumption ==
    /\ StarNotes \subseteq Events
    /\ Poison \subseteq Events
    /\ NoEvent \notin Events
ASSUME AttemptsAssumption ==
    MaxAttempts \in Nat /\ MaxFaults \in Nat /\ OverflowAttempt \in Nat

Decisions == {"none", "sent", "retry", "auth_failed", "failed"}

VARIABLES
    status, attempts, due,   \* the rows
    pc, event, attempt, decision,  \* each dispatcher: its delivery and decision
    applied,    \* events Spring has stored
    contract,   \* Spring accepts star notes
    enabled,    \* MORMI_STAR_NOTE_EVENTS_ENABLED
    faults      \* faults so far

rowVars == <<status, attempts, due>>
workerVars == <<pc, event, attempt, decision>>
worldVars == <<applied, contract, enabled, faults>>
vars == <<status, attempts, due, pc, event, attempt, decision,
          applied, contract, enabled, faults>>

TypeOK ==
    /\ status \in [Events -> {"absent", "pending", "processing", "retry", "sent", "failed"}]
    /\ attempts \in [Events -> 0 .. MaxAttempts]
    /\ due \in [Events -> BOOLEAN]
    /\ pc \in [Workers -> {"poll", "deliver", "mark", "stopped", "crashed"}]
    /\ event \in [Workers -> Events \cup {NoEvent}]
    /\ attempt \in [Workers -> 0 .. MaxAttempts]
    /\ decision \in [Workers -> Decisions]
    /\ applied \in SUBSET Events
    /\ contract \in BOOLEAN
    /\ enabled \in BOOLEAN
    /\ faults \in 0 .. MaxFaults

Init ==
    /\ status = [e \in Events |-> "absent"]
    /\ attempts = [e \in Events |-> 0]
    /\ due = [e \in Events |-> FALSE]
    /\ pc = [w \in Workers |-> "poll"]
    /\ event = [w \in Workers |-> NoEvent]
    /\ attempt = [w \in Workers |-> 0]
    /\ decision = [w \in Workers |-> "none"]
    /\ applied = {}
    /\ contract = FALSE
    /\ enabled = FALSE
    /\ faults = 0

Fault == faults < MaxFaults /\ faults' = faults + 1

---------------------------------------------------------------------------
(* Rows *)

\* commit_turn inserts the observation event, and the star note's with it.
Enqueue(e) ==
    /\ status[e] = "absent"
    /\ status' = [status EXCEPT ![e] = "pending"]
    /\ due' = [due EXCEPT ![e] = TRUE]
    /\ UNCHANGED <<attempts, workerVars, worldVars>>

\* Mutant: the flag is ignored.
NothingBlocked(e) == FALSE

\* blocked_event_types
Blocked(e) == e \in StarNotes /\ ~enabled

\* Mutant: a processing row is never reclaimed.
ClaimableOnce(e) == status[e] \in {"pending", "retry"} /\ due[e] /\ ~Blocked(e)

\* claim_due's query: a processing row is due again when its lease is over.
Claimable(e) ==
    /\ status[e] \in {"pending", "retry", "processing"}
    /\ due[e]
    /\ ~Blocked(e)

\* A claim raises the row's attempts: the number is its generation token.
NextAttempt(e) == attempts[e] + 1

Claim(w, e) ==
    /\ pc[w] = "poll"
    /\ Claimable(e)
    /\ attempts[e] < MaxAttempts
    /\ status' = [status EXCEPT ![e] = "processing"]
    /\ attempts' = [attempts EXCEPT ![e] = NextAttempt(e)]
    /\ due' = [due EXCEPT ![e] = FALSE]
    /\ pc' = [pc EXCEPT ![w] = "deliver"]
    /\ event' = [event EXCEPT ![w] = e]
    /\ attempt' = [attempt EXCEPT ![w] = NextAttempt(e)]
    /\ decision' = [decision EXCEPT ![w] = "none"]
    /\ UNCHANGED worldVars

\* A live dispatcher still holds the newest claim of e.
Held(e) ==
    \E w \in Workers : pc[w] \in {"deliver", "mark"} /\ event[w] = e /\ attempt[w] = attempts[e]

\* The back-off or the lease is over.  settings.py keeps the lease longer
\* than the request timeout: that it ends under a live delivery (a paused
\* process, a slow database) counts as a fault.
Elapse(e) ==
    /\ status[e] \in {"retry", "processing"}
    /\ ~due[e]
    /\ IF status[e] = "processing" /\ Held(e) THEN Fault ELSE UNCHANGED faults
    /\ due' = [due EXCEPT ![e] = TRUE]
    /\ UNCHANGED <<status, attempts, workerVars, applied, contract, enabled>>

---------------------------------------------------------------------------
(* Delivery: _deliver and the reply of Spring *)

Decide(w, d) ==
    /\ pc' = [pc EXCEPT ![w] = "mark"]
    /\ decision' = [decision EXCEPT ![w] = d]

\* Spring refuses what it can never accept, and star notes before its
\* contract for them is deployed.
Refused(e) == e \in Poison \/ (e \in StarNotes /\ ~contract)

\* 2xx, also for an event_id it has already stored.
Accepted(w) ==
    /\ pc[w] = "deliver"
    /\ ~Refused(event[w])
    /\ applied' = applied \cup {event[w]}
    /\ Decide(w, "sent")
    /\ UNCHANGED <<rowVars, event, attempt, contract, enabled, faults>>

\* 422, a non-retriable 409 or another 4xx; an unsupported event type fails
\* without being sent.
Rejected(w) ==
    /\ pc[w] = "deliver"
    /\ Refused(event[w])
    /\ Decide(w, "failed")
    /\ UNCHANGED <<rowVars, event, attempt, worldVars>>

\* A network error, a timeout, 429, 5xx or a retriable 409: Spring may or may
\* not have stored the event.
Unanswered(w, stored) ==
    /\ pc[w] = "deliver"
    /\ Fault
    /\ stored => ~Refused(event[w])
    /\ applied' = IF stored THEN applied \cup {event[w]} ELSE applied
    /\ Decide(w, "retry")
    /\ UNCHANGED <<rowVars, event, attempt, contract, enabled>>

\* 401 or 403
Unauthorized(w) ==
    /\ pc[w] = "deliver"
    /\ Fault
    /\ Decide(w, "auth_failed")
    /\ UNCHANGED <<rowVars, event, attempt, applied, contract, enabled>>

---------------------------------------------------------------------------
(* Recording the decision *)

\* Mutant: a transition is not fenced by the generation.
NotFenced(w) == status[event[w]] = "processing"

\* _transition: only the newest claim of a row still processing may move it.
Current(w) == status[event[w]] = "processing" /\ attempts[event[w]] = attempt[w]

\* Mutant: only a rejection keeps a row from being marked sent.
MarkedOptimistic(d) == IF d = "failed" THEN "failed" ELSE "sent"

\* mark_sent, mark_failed, and mark_retry for the other two decisions
MarkedStatus(d) == IF d \in {"sent", "failed"} THEN d ELSE "retry"

\* _retry_delay raises OverflowError from OverflowAttempt on: the cycle ends
\* in an exception, and the row waits for its lease instead of a back-off.
DelayOverflows(w) ==
    decision[w] \in {"retry", "auth_failed"} /\ attempt[w] >= OverflowAttempt

\* A retry is due after its back-off, a final row's available_at is now.  An
\* authentication failure also ends the dispatcher, for good.
Mark(w) ==
    /\ pc[w] = "mark"
    /\ ~DelayOverflows(w)
    /\ IF Current(w)
         THEN /\ status' = [status EXCEPT ![event[w]] = MarkedStatus(decision[w])]
              /\ due' = [due EXCEPT ![event[w]] = MarkedStatus(decision[w]) # "retry"]
         ELSE UNCHANGED <<status, due>>
    /\ pc' = [pc EXCEPT ![w] = IF decision[w] = "auth_failed" THEN "stopped" ELSE "poll"]
    /\ UNCHANGED <<attempts, event, attempt, decision, worldVars>>

\* Any exception in the cycle: it is logged and the next poll starts over.
\* An overflow always takes this way, the rest are faults of the database.
CycleFails(w) ==
    /\ pc[w] \in {"deliver", "mark"}
    /\ IF pc[w] = "mark" /\ DelayOverflows(w) THEN UNCHANGED faults ELSE Fault
    /\ pc' = [pc EXCEPT ![w] = "poll"]
    /\ UNCHANGED <<rowVars, event, attempt, decision, applied, contract, enabled>>

Crash(w) ==
    /\ pc[w] # "crashed"
    /\ Fault
    /\ pc' = [pc EXCEPT ![w] = "crashed"]
    /\ UNCHANGED <<rowVars, event, attempt, decision, applied, contract, enabled>>

Restart(w) ==
    /\ pc[w] = "crashed"
    /\ pc' = [pc EXCEPT ![w] = "poll"]
    /\ UNCHANGED <<rowVars, event, attempt, decision, worldVars>>

---------------------------------------------------------------------------
(* Roll-out: Spring first, then the flag *)

DeployContract ==
    /\ ~contract
    /\ contract' = TRUE
    /\ UNCHANGED <<rowVars, workerVars, applied, enabled, faults>>

EnableStarNotes ==
    /\ contract
    /\ ~enabled
    /\ enabled' = TRUE
    /\ UNCHANGED <<rowVars, workerVars, applied, contract, faults>>

Next ==
    \/ \E e \in Events : Enqueue(e) \/ Elapse(e)
    \/ \E w \in Workers :
          \/ \E e \in Events : Claim(w, e)
          \/ Accepted(w)
          \/ Rejected(w)
          \/ \E stored \in BOOLEAN : Unanswered(w, stored)
          \/ Unauthorized(w)
          \/ Mark(w)
          \/ CycleFails(w)
          \/ Crash(w)
          \/ Restart(w)
    \/ DeployContract
    \/ EnableStarNotes

Spec == Init /\ [][Next]_vars

---------------------------------------------------------------------------
(* Properties *)

\* A row is marked sent only if Spring has stored the event, also when the
\* reply that said so belonged to an older claim of the row.
SentMeansStored == \A e \in Events : status[e] = "sent" => e \in applied

\* The generation token has one owner: two live dispatchers never hold the
\* same claim of a row, however often leases run out under them.
OneOwner ==
    \A v, w \in Workers :
        (/\ pc[v] \in {"deliver", "mark"} /\ pc[w] \in {"deliver", "mark"}
         /\ event[v] = event[w] /\ attempt[v] = attempt[w]) => v = w

\* Events are given up only if Spring can never accept them: an expired
\* lease, an authentication failure, or a star note before Spring's contract
\* for it is deployed, never ends in a permanent failure.
FailedIsHopeless == \A e \in Events : status[e] = "failed" => e \in Poison

\* A sent or failed row is final, whatever late dispatchers report.
FinalStays ==
    [][\A e \in Events : status[e] \in {"sent", "failed"} => status'[e] = status[e]]_vars

\* A dispatcher holds the newest claim of the row it is delivering.
Owns(w) ==
    /\ pc[w] \in {"deliver", "mark"}
    /\ status[event[w]] = "processing"
    /\ attempt[w] = attempts[event[w]]

\* Until its lease is over, a row moves only by the dispatcher that owns it: no
\* late answer to an older claim ends, retries or steals the delivery.
LeaseProtects ==
    [][\A w \in Workers :
          Owns(w) /\ ~due[event[w]] /\ pc'[w] = pc[w] =>
              /\ status'[event[w]] = status[event[w]]
              /\ attempts'[event[w]] = attempts[event[w]]]_vars

\* The fence of a claim holds in all three directions: one owner, no end of a
\* row that is final, and no interference before the lease is over.
ClaimIsFenced == []OneOwner /\ FinalStays /\ LeaseProtects

---------------------------------------------------------------------------
(* Why the properties hold: the inductive invariant. *)

WorkerInv(w) ==
    pc[w] \in {"deliver", "mark"} =>
        /\ event[w] \in Events
        /\ attempt[w] <= attempts[event[w]]
        /\ event[w] \in StarNotes => enabled
        /\ pc[w] = "mark" /\ decision[w] = "sent" => event[w] \in applied
        /\ pc[w] = "mark" /\ decision[w] = "failed" => event[w] \in Poison

\* Claims are numbered by their row, decisions are about what Spring did, and
\* the flag comes after the contract.
OutboxInv ==
    /\ \A w \in Workers : WorkerInv(w)
    /\ enabled => contract
    /\ OneOwner
    /\ SentMeansStored
    /\ FailedIsHopeless

---------------------------------------------------------------------------
(* Fairness: dispatchers run, a crashed process is restarted, leases and   *)
(* back-offs end, and a due row is claimed sooner or later because rows    *)
(* are claimed in the order of available_at.                               *)

FairSpec ==
    /\ Spec
    /\ \A e \in Events : /\ WF_vars(Elapse(e))
                         /\ SF_vars(\E w \in Workers : Claim(w, e))
    /\ \A w \in Workers : /\ WF_vars(Accepted(w) \/ Rejected(w))
                          /\ WF_vars(Mark(w) \/ CycleFails(w))
                          /\ WF_vars(Restart(w))

\* An event that Spring can accept is stored and marked sent, through
\* crashes, lost replies, stale dispatchers and overflowing back-offs, as
\* long as some dispatcher has not been stopped by an authentication failure.
EventuallySent ==
    \A e \in Events \ Poison :
        (status[e] = "pending" /\ (e \in StarNotes => enabled))
            ~> (status[e] = "sent" \/ \A w \in Workers : pc[w] = "stopped")

===========================================================================
