-------------------------- MODULE LadderAnalysis --------------------------
(***************************************************************************)
(* The ladder analysis jobs of one learner: Spring registers a job per     *)
(* finished subunit, workers claim batches under one lease, load the       *)
(* speech, run the local model and store a recommendation; Spring approves *)
(* it, which moves the learner's stable level; a deployment requeues what  *)
(* failed for want of a model.  Dialogues that finish a task read the      *)
(* learner's whole profile and later write it back without a lock.         *)
(*                                                                         *)
(* available_at is abstracted to "due".  A second registration of a job    *)
(* changes nothing, whether it finds the row or loses on the primary key.  *)
(***************************************************************************)
EXTENDS LadderPolicy, FiniteSets

CONSTANTS
    Jobs, Workers,
    Approvers,      \* approval requests in flight
    Dialogues,      \* finished tasks whose profile update is under way
    Skills,
    Bodies,         \* what Spring registers: skill, level, performance, rule evidence
    BatchSize,
    InitialLevel,   \* the learner's levels so far, None for a skill never finished
    Errors,         \* the codes with which an analysis fails
    None,           \* NULL, a missing skill
    MaxAttempts,    \* bound on the claims of a job
    MaxRequeues     \* bound on deployments

\* The model is not there, or it or the speech could not be read.
ModelErrors == {"MODEL_NOT_FOUND", "MODEL_DEPENDENCY_MISSING", "MODEL_LOAD_FAILED"}
OtherErrors == {"MODEL_INFERENCE_FAILED", "SPEECH_LOAD_FAILED"}

ASSUME JobsAssumption ==
    /\ Bodies \subseteq [skill : Skills, current : Levels, correct : Nat, attempts : Nat,
                         rules : Nat]
    /\ InitialLevel \in [Skills -> Levels \cup {None}]
    /\ BatchSize \in Nat /\ MaxAttempts \in Nat /\ MaxRequeues \in Nat
    /\ Approvers \cap Dialogues = {}
ASSUME ErrorsAssumption == Errors \subseteq ModelErrors \cup OtherErrors
ASSUME NoneAssumption ==
    None \notin Levels /\ None \notin Jobs /\ None \notin Bodies /\ None \notin Decisions

REQUEUEABLE_MODEL_ERRORS == {"MODEL_NOT_FOUND", "MODEL_DEPENDENCY_MISSING", "MODEL_LOAD_FAILED"}

VARIABLES
    body, status, attempts, due, error, decision, approved,  \* ladder_analysis_jobs
    batch, lease,   \* each worker: jobs still to do, the attempt it claimed each with
    stored, level,  \* is there a profile row; the stable level of each skill in it
    step, saw,      \* approvers and dialogues: what is next, was there a profile row
    approving,      \* each approver: the job whose row it holds
    copy,           \* each dialogue: the levels it read
    requeues

jobVars == <<body, status, attempts, due, error, decision, approved>>
workVars == <<batch, lease>>
profile == <<stored, level>>
reader == <<step, saw, approving, copy>>
vars == <<jobVars, workVars, profile, reader, requeues>>

Profiles == [Skills -> Levels \cup {None}]

TypeOK ==
    /\ body \in [Jobs -> Bodies \cup {None}]
    /\ status \in [Jobs -> {"absent", "pending", "running", "completed", "failed"}]
    /\ attempts \in [Jobs -> 0 .. MaxAttempts]
    /\ due \in [Jobs -> BOOLEAN]
    /\ error \in [Jobs -> Errors \cup {None}]
    /\ decision \in [Jobs -> Decisions \cup {None}]
    /\ approved \in [Jobs -> BOOLEAN]
    /\ batch \in [Workers -> Seq(Jobs)]
    /\ lease \in [Workers -> [Jobs -> 0 .. MaxAttempts]]
    /\ stored \in BOOLEAN
    /\ level \in Profiles
    /\ approving \in [Approvers -> Jobs \cup {None}]
    /\ saw \in [Approvers \cup Dialogues -> BOOLEAN]
    /\ copy \in [Dialogues -> Profiles]
    /\ step \in [Approvers \cup Dialogues -> {"idle", "write", "get", "put"}]
    /\ requeues \in 0 .. MaxRequeues

Blank == [s \in Skills |-> None]

\* A learner without any level may still lack a profile row.
Init ==
    /\ body = [j \in Jobs |-> None]
    /\ status = [j \in Jobs |-> "absent"]
    /\ attempts = [j \in Jobs |-> 0]
    /\ due = [j \in Jobs |-> FALSE]
    /\ error = [j \in Jobs |-> None]
    /\ decision = [j \in Jobs |-> None]
    /\ approved = [j \in Jobs |-> FALSE]
    /\ batch = [w \in Workers |-> <<>>]
    /\ lease = [w \in Workers |-> [j \in Jobs |-> 0]]
    /\ stored = (InitialLevel # Blank)
    /\ level = InitialLevel
    /\ approving = [a \in Approvers |-> None]
    /\ saw = [x \in Approvers \cup Dialogues |-> FALSE]
    /\ copy = [d \in Dialogues |-> Blank]
    /\ step = [x \in Approvers \cup Dialogues |-> "idle"]
    /\ requeues = 0

---------------------------------------------------------------------------
\* Spring and the workers.

enqueue(j) ==
    /\ status[j] = "absent"
    /\ \E b \in Bodies : body' = [body EXCEPT ![j] = b]
    /\ status' = [status EXCEPT ![j] = "pending"]
    /\ due' = [due EXCEPT ![j] = TRUE]
    /\ UNCHANGED <<attempts, error, decision, approved, workVars, profile, reader, requeues>>

\* Mutant: what a dead worker left running is not claimed again.
ClaimableOnce == {j \in Jobs : status[j] = "pending" /\ due[j] /\ attempts[j] < MaxAttempts}

Claimable ==
    {j \in Jobs : status[j] \in {"pending", "running"} /\ due[j] /\ attempts[j] < MaxAttempts}

NextAttempt(j) == attempts[j] + 1

\* One transaction claims up to a batch of jobs, all under one lease.  The
\* batch is done in the order of available_at, which is any order here.
claim_pending(w) ==
    /\ batch[w] = <<>>
    /\ \E q \in UNION {[1 .. n -> Claimable] : n \in 1 .. BatchSize} :
        LET taken == {q[i] : i \in DOMAIN q} IN
        /\ Cardinality(taken) = Len(q)
        /\ Len(q) = BatchSize \/ taken = Claimable
        /\ batch' = [batch EXCEPT ![w] = q]
        /\ status' = [j \in Jobs |-> IF j \in taken THEN "running" ELSE status[j]]
        /\ attempts' = [j \in Jobs |-> IF j \in taken THEN NextAttempt(j) ELSE attempts[j]]
        /\ due' = [j \in Jobs |-> IF j \in taken THEN FALSE ELSE due[j]]
        /\ error' = [j \in Jobs |-> IF j \in taken THEN None ELSE error[j]]
        /\ lease' = [lease EXCEPT ![w] =
                        [j \in Jobs |-> IF j \in taken THEN NextAttempt(j) ELSE 0]]
    /\ UNCHANGED <<body, decision, approved, profile, reader, requeues>>

\* The lease of a running job ends: after a crash, or because the batch took
\* longer than the lease.
Elapse(j) ==
    /\ status[j] = "running" /\ ~ due[j]
    /\ due' = [due EXCEPT ![j] = TRUE]
    /\ UNCHANGED <<body, status, attempts, error, decision, approved, workVars, profile, reader,
                   requeues>>

\* Mutant: whoever finishes writes.
Unfenced(w, j) == TRUE

\* The row lock and the test under it, in complete and in fail.
Fenced(w, j) == status[j] = "running" /\ attempts[j] = lease[w][j]

Advance(w) ==
    /\ batch' = [batch EXCEPT ![w] = Tail(@)]
    /\ lease' = [lease EXCEPT ![w][Head(batch[w])] = 0]

\* The decision for a job is a function of its registration and of the last
\* two predictions; both sessions are finished when Spring registers it.
Decision(b, predictions) ==
    decide_ladder_adjustment([current |-> b.current, correct |-> b.correct,
                              attempts |-> b.attempts, predictions |-> predictions,
                              rules |-> b.rules, sessions |-> 2])

complete(w) ==
    LET j == Head(batch[w]) IN
    /\ batch[w] # <<>>
    /\ IF Fenced(w, j)
         THEN /\ status' = [status EXCEPT ![j] = "completed"]
              /\ due' = [due EXCEPT ![j] = TRUE]
              /\ \E ps \in {<<>>} \cup {<<p>> : p \in SpeechLevels}
                            \cup (SpeechLevels \X SpeechLevels) :
                    decision' = [decision EXCEPT ![j] = Decision(body[j], ps)]
         ELSE UNCHANGED <<status, due, decision>>
    /\ Advance(w)
    /\ UNCHANGED <<body, attempts, error, approved, profile, reader, requeues>>

\* The speech could not be read, or the model is not there or broke.
fail(w) ==
    LET j == Head(batch[w]) IN
    /\ batch[w] # <<>>
    /\ IF Fenced(w, j)
         THEN /\ status' = [status EXCEPT ![j] = "failed"]
              /\ due' = [due EXCEPT ![j] = TRUE]
              /\ \E e \in Errors : error' = [error EXCEPT ![j] = e]
         ELSE UNCHANGED <<status, due, error>>
    /\ Advance(w)
    /\ UNCHANGED <<body, attempts, decision, approved, profile, reader, requeues>>

\* The process dies or a statement of the cycle raises: the rest of the
\* batch waits for its lease to end.
CycleFails(w) ==
    /\ batch[w] # <<>>
    /\ batch' = [batch EXCEPT ![w] = <<>>]
    /\ lease' = [lease EXCEPT ![w] = [j \in Jobs |-> 0]]
    /\ UNCHANGED <<jobVars, profile, reader, requeues>>

Requeueable(j) == status[j] = "failed" /\ error[j] \in REQUEUEABLE_MODEL_ERRORS

requeue_model_failures ==
    /\ requeues < MaxRequeues
    /\ \E j \in Jobs : Requeueable(j)
    /\ requeues' = requeues + 1
    /\ status' = [j \in Jobs |-> IF Requeueable(j) THEN "pending" ELSE status[j]]
    /\ error' = [j \in Jobs |-> IF Requeueable(j) THEN None ELSE error[j]]
    /\ due' = [j \in Jobs |-> IF Requeueable(j) THEN TRUE ELSE due[j]]
    /\ UNCHANGED <<body, attempts, decision, approved, workVars, profile, reader>>

---------------------------------------------------------------------------
\* The learner's profile.

Default == "L2"   \* SkillProfile.highest_stable_expression_level

StableLevel(p, s) == IF p[s] = None THEN Default ELSE p[s]

Holding(a) == step[a] = "write" /\ saw[a]

\* Mutant: the profile is read without FOR UPDATE.
ProfileNeverLocked == TRUE

\* An approver keeps the row it read locked until it commits; there is
\* nothing to lock as long as the row is missing.
ProfileFree == \A a \in Approvers : ~ Holding(a)

JobFree(j) == \A a \in Approvers : approving[a] # j

\* approve up to its writes, both rows locked.  Everything that is refused
\* or is approved already leaves the tables alone.
approve_read(a, j) ==
    /\ step[a] = "idle" /\ JobFree(j) /\ ProfileFree
    /\ status[j] = "completed" /\ ~ approved[j]
    /\ Moves(decision[j]) /\ OneStep(decision[j])
    /\ LET now == StableLevel(level, body[j].skill) IN
        \/ /\ now = decision[j].recommended      \* already there
           /\ approved' = [approved EXCEPT ![j] = TRUE]
           /\ UNCHANGED <<approving, saw, step>>
        \/ /\ now = decision[j].current
           /\ approving' = [approving EXCEPT ![a] = j]
           /\ saw' = [saw EXCEPT ![a] = stored]
           /\ step' = [step EXCEPT ![a] = "write"]
           /\ UNCHANGED approved
    /\ UNCHANGED <<body, status, attempts, due, error, decision, workVars, profile, copy,
                   requeues>>

Release(a) ==
    /\ step' = [step EXCEPT ![a] = "idle"]
    /\ saw' = [saw EXCEPT ![a] = FALSE]
    /\ approving' = [approving EXCEPT ![a] = None]

\* Mutant: the row is written whether or not it was there when it was read.
approve_upsert(a) ==
    LET j == approving[a] IN
    /\ step[a] = "write"
    /\ level' = [level EXCEPT ![body[j].skill] = decision[j].recommended]
    /\ stored' = TRUE
    /\ approved' = [approved EXCEPT ![j] = TRUE]
    /\ Release(a)
    /\ UNCHANGED <<body, status, attempts, due, error, decision, workVars, copy, requeues>>

\* The approved level, the profile row and the job in one commit.  A missing
\* row is inserted, which works only as long as nobody else has done so.
approve_commit(a) ==
    LET j == approving[a] IN
    /\ step[a] = "write"
    /\ saw[a] \/ ~ stored
    /\ level' = [level EXCEPT ![body[j].skill] = decision[j].recommended]
    /\ stored' = TRUE
    /\ approved' = [approved EXCEPT ![j] = TRUE]
    /\ Release(a)
    /\ UNCHANGED <<body, status, attempts, due, error, decision, workVars, copy, requeues>>

\* The transaction fails and is rolled back.
approve_fail(a) ==
    /\ step[a] = "write"
    /\ Release(a)
    /\ UNCHANGED <<jobVars, workVars, profile, copy, requeues>>

\* A dialogue that has finished a task: get_profile ...
get_profile(d) ==
    /\ step[d] = "idle"
    /\ copy' = [copy EXCEPT ![d] = level]
    /\ step' = [step EXCEPT ![d] = "get"]
    /\ UNCHANGED <<jobVars, workVars, profile, approving, saw, requeues>>

\* ... save_profile's own look at the row ...
save_profile_get(d) ==
    /\ step[d] = "get"
    /\ saw' = [saw EXCEPT ![d] = stored]
    /\ step' = [step EXCEPT ![d] = "put"]
    /\ UNCHANGED <<jobVars, workVars, profile, approving, copy, requeues>>

\* update_skill_profile keeps the level of the skill, L2 for a new one.
update_skill_profile(p, s) == [p EXCEPT ![s] = StableLevel(p, s)]

\* ... and the write of the profile as it was read, with the finished skill
\* in it.  An insert loses against a row that appeared meanwhile.
save_profile_put(d) ==
    /\ step[d] = "put"
    /\ saw[d] => ProfileFree
    /\ IF saw[d] \/ ~ stored
         THEN /\ \E s \in Skills : level' = update_skill_profile(copy[d], s)
              /\ stored' = TRUE
         ELSE UNCHANGED profile
    /\ step' = [step EXCEPT ![d] = "idle"]
    /\ copy' = [copy EXCEPT ![d] = Blank]
    /\ saw' = [saw EXCEPT ![d] = FALSE]
    /\ UNCHANGED <<jobVars, workVars, approving, requeues>>

\* The dialogue's process dies between its commit and the profile.
DialogueFails(d) ==
    /\ step[d] # "idle"
    /\ step' = [step EXCEPT ![d] = "idle"]
    /\ copy' = [copy EXCEPT ![d] = Blank]
    /\ saw' = [saw EXCEPT ![d] = FALSE]
    /\ UNCHANGED <<jobVars, workVars, profile, approving, requeues>>

WorkerStep(w) == claim_pending(w) \/ complete(w) \/ fail(w)

Next ==
    \/ \E j \in Jobs : enqueue(j) \/ Elapse(j)
    \/ \E w \in Workers : WorkerStep(w) \/ CycleFails(w)
    \/ requeue_model_failures
    \/ \E a \in Approvers : (\E j \in Jobs : approve_read(a, j)) \/ approve_commit(a) \/ approve_fail(a)
    \/ \E d \in Dialogues : \/ get_profile(d) \/ save_profile_get(d) \/ save_profile_put(d)
                             \/ DialogueFails(d)

Spec == Init /\ [][Next]_vars

\* The worker's loop goes on after a failed cycle, and clocks advance.
FairSpec ==
    /\ Spec
    /\ \A w \in Workers : WF_vars(WorkerStep(w))
    /\ \A j \in Jobs : WF_vars(Elapse(j))

---------------------------------------------------------------------------

\* Two workers never work on a job under the same attempt, so at most one of
\* them can store a result, although leases end under live workers.
OneAnalyst ==
    \A v, w \in Workers, j \in Jobs :
        v # w /\ lease[v][j] # 0 => lease[v][j] # lease[w][j]

\* What a reader was shown stays: a completed job keeps its recommendation
\* and an approval is never withdrawn, whatever late workers, deployments and
\* repeated approvals do.
RecommendationIsFinal ==
    [][\A j \in Jobs : status[j] = "completed" =>
        /\ status'[j] = "completed" /\ decision'[j] = decision[j]
        /\ approved[j] => approved'[j]]_vars

\* Before its lease is over a running job is ended only by the worker that
\* holds the lease and has come to it.
LeaseProtects ==
    [][\A j \in Jobs : status[j] = "running" /\ ~ due[j] /\ status'[j] # "running" =>
        \E w \in Workers : /\ lease[w][j] = attempts[j]
                           /\ batch[w] # <<>> /\ Head(batch[w]) = j]_vars

\* The fence of an attempt: one analyst per attempt, no early end of a leased
\* job, and no change of a recommendation that was shown.
AnalysisIsFenced == []OneAnalyst /\ LeaseProtects /\ RecommendationIsFinal

\* An approval applies its own recommendation to the level it was made for:
\* concurrent approvals and profile updates never slip in between the level
\* approve checked and the one it replaces, nor does it touch another skill.
ApprovalAppliesToItsLevel ==
    [][\A j \in Jobs : approved'[j] /\ ~ approved[j] =>
        /\ StableLevel(level, body[j].skill) \in {decision[j].current, decision[j].recommended}
        /\ StableLevel(level', body[j].skill) = decision[j].recommended
        /\ \A s \in Skills \ {body[j].skill} : level'[s] = level[s]]_vars

\* A registered job is analysed or fails, unless its claims are used up.
JobSettles ==
    \A j \in Jobs : status[j] = "pending" ~>
        status[j] \in {"completed", "failed"} \/ attempts[j] = MaxAttempts

---------------------------------------------------------------------------
(* Why the properties hold: the inductive invariant. *)

\* What a reader is shown is about the registered job, and approve never has
\* to refuse a move of the policy as too far.
ShownIsApprovable ==
    \A j \in Jobs :
        /\ status[j] # "absent" => body[j] \in Bodies
        /\ status[j] = "completed" =>
             /\ decision[j] \in Decisions /\ decision[j].current = body[j].current
             /\ Moves(decision[j]) <=> OneStep(decision[j])

\* A lease is for an attempt that was made; a new attempt outdates them all.
LeasesAreOld == \A w \in Workers, j \in Jobs : lease[w][j] <= attempts[j]

\* What an approval between its read and its commit may rely on: it holds the
\* job row alone, and the profile row too if there was one.
ApprovalInv(a) ==
    /\ step[a] \in {"idle", "write"}
    /\ step[a] = "idle" => approving[a] = None
    /\ step[a] = "write" =>
         LET j == approving[a] IN
         /\ j \in Jobs /\ status[j] = "completed" /\ Moves(decision[j])
         /\ saw[a] => stored
         /\ saw[a] \/ ~ stored =>
              StableLevel(level, body[j].skill) = decision[j].current

RowsAreLocked ==
    /\ \A a \in Approvers : ApprovalInv(a)
    /\ \A a, b \in Approvers : approving[a] = approving[b] /\ approving[a] # None => a = b
    /\ \A a, b \in Approvers : Holding(a) /\ Holding(b) => a = b

\* With TypeOK it is preserved by every step.
AnalysisInv == ShownIsApprovable /\ LeasesAreOld /\ OneAnalyst /\ RowsAreLocked

===========================================================================
