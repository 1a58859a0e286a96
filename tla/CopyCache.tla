----------------------------- MODULE CopyCache -----------------------------
(***************************************************************************)
(* Stable copy: one reviewed slot of wording, generated by a model at most *)
(* once and shared by every conversation.  copy_cache.py keeps the row     *)
(* (one cache key here) and hands out generation leases; the resolver of   *)
(* dialogue_v2_copy.py never lets a turn wait for the cache: whatever goes *)
(* wrong, it shows the reviewed fallback.  What it showed is pinned in the *)
(* conversation when its turn is committed.                                *)
(*                                                                         *)
(* available_at is abstracted to "due"; a lease may end at any time, as no *)
(* setting ties its length to the model's timeout.  A lease token is named *)
(* after the resolver that drew it.                                        *)
(***************************************************************************)
EXTENDS Integers

CONSTANTS
    Conversations,  \* each resolves the slot, again and again
    Texts,          \* what the model may answer
    Safe,           \* the ones that pass the slot's output guard
    Fallback,       \* the slot's reviewed wording
    None,           \* NULL of a column, no text
    MaxAttempts     \* bound on leases

ASSUME TextsAssumption ==
    /\ Safe \subseteq Texts
    /\ Fallback \notin Texts
    /\ None \notin Texts \cup {Fallback}
    /\ None \notin Conversations
ASSUME BoundAssumption == MaxAttempts \in Nat

\* A plan for a model's wording; one of the L0 purposes, for which only reviewed
\* wording is stored when a draft is refused; or an L0 plan of an old
\* conversation, which still holds the answers of the card.
Plans == {"model", "l0", "legacy_l0"}

Copies == Safe \cup {Fallback}
Statuses == {"none", "hit", "pinned", "generated", "contended_fallback",
             "generation_fallback", "reviewed_fallback"}

VARIABLES
    plan,                   \* the slot's plan, see Plans
    status, attempts, due, token, artifact,  \* the row
    pc, lease, candidate,   \* each resolver: step, attempt it leased, draft
    shown, how,             \* the text it returned and its status
    pinned                  \* copy_snapshots of the stored conversation

rowVars == <<plan, status, attempts, due, token, artifact>>
vars == <<plan, status, attempts, due, token, artifact, pc, lease, candidate, shown, how, pinned>>

TypeOK ==
    /\ plan \in Plans
    /\ status \in {"absent", "generating", "retry", "ready"}
    /\ attempts \in 0 .. MaxAttempts
    /\ due \in BOOLEAN
    /\ token \in Conversations \cup {None}
    /\ artifact \in Copies \cup {None}
    /\ pc \in [Conversations -> {"idle", "lookup", "acquire", "insert", "existing", "generate",
                                 "complete", "winner", "fail", "shown"}]
    /\ lease \in [Conversations -> 0 .. MaxAttempts]
    /\ candidate \in [Conversations -> Texts \cup {Fallback, None}]
    /\ shown \in [Conversations -> Texts \cup {Fallback, None}]
    /\ how \in [Conversations -> Statuses]
    /\ pinned \in [Conversations -> Texts \cup {Fallback, None}]

\* A conversation may carry a text pinned under an older, weaker guard.
Init ==
    /\ plan \in Plans
    /\ status = "absent"
    /\ attempts = 0
    /\ due = FALSE
    /\ token = None
    /\ artifact = None
    /\ pc = [c \in Conversations |-> "idle"]
    /\ lease = [c \in Conversations |-> 0]
    /\ candidate = [c \in Conversations |-> None]
    /\ shown = [c \in Conversations |-> None]
    /\ how = [c \in Conversations |-> "none"]
    /\ pinned \in [Conversations -> Texts \cup {None}]

Goto(c, step) == pc' = [pc EXCEPT ![c] = step]

Show(c, text, why) ==
    /\ Goto(c, "shown")
    /\ shown' = [shown EXCEPT ![c] = text]
    /\ how' = [how EXCEPT ![c] = why]

Quiet == UNCHANGED <<shown, how>>

---------------------------------------------------------------------------
(* resolve *)

\* A legacy L0 plan goes neither to the cache nor to the model, whatever is
\* pinned; otherwise a pinned snapshot is checked again and returned without
\* asking the cache.
Resolve(c) ==
    /\ pc[c] \in {"idle", "shown"}
    /\ IF plan = "legacy_l0" THEN Show(c, Fallback, "reviewed_fallback")
       ELSE \/ pinned[c] \in Copies /\ Show(c, pinned[c], "pinned")
            \/ pinned[c] \notin Copies \cup {None} /\ Show(c, Fallback, "reviewed_fallback")
            \/ pinned[c] = None /\ Goto(c, "lookup") /\ Quiet
    /\ UNCHANGED <<rowVars, lease, candidate, pinned>>

GetReady(c) ==
    /\ pc[c] = "lookup"
    /\ IF status = "ready"
         THEN Show(c, artifact, "hit")
         ELSE Goto(c, "acquire") /\ Quiet
    /\ UNCHANGED <<rowVars, lease, candidate, pinned>>

\* CACHE_LOOKUP_FAILED, CACHE_ACQUIRE_FAILED
CacheFails(c) ==
    /\ pc[c] \in {"lookup", "acquire", "insert", "existing"}
    /\ Show(c, Fallback, "reviewed_fallback")
    /\ UNCHANGED <<rowVars, lease, candidate, pinned>>

\* acquire first looks whether the row is there, in a transaction of its own.
AcquireRead(c) ==
    /\ pc[c] = "acquire"
    /\ Goto(c, IF status = "absent" THEN "insert" ELSE "existing")
    /\ Quiet
    /\ UNCHANGED <<rowVars, lease, candidate, pinned>>

NextAttempt == attempts + 1

\* The row is leased to c.  The answer of the COMMIT may get lost: then
\* nobody works under the lease until it ends.
Lease(c, acknowledged) ==
    /\ attempts < MaxAttempts
    /\ status' = "generating"
    /\ attempts' = NextAttempt
    /\ due' = FALSE
    /\ token' = c
    /\ IF acknowledged
         THEN /\ Goto(c, "generate")
              /\ lease' = [lease EXCEPT ![c] = NextAttempt]
              /\ Quiet
         ELSE /\ Show(c, Fallback, "reviewed_fallback")
              /\ UNCHANGED lease
    /\ UNCHANGED <<plan, artifact, candidate, pinned>>

\* The insert loses against another resolver's: go on with the existing row.
Insert(c, acknowledged) ==
    /\ pc[c] = "insert"
    /\ \/ status = "absent" /\ Lease(c, acknowledged)
       \/ /\ status # "absent"
          /\ Goto(c, "existing")
          /\ Quiet
          /\ UNCHANGED <<rowVars, lease, candidate, pinned>>

\* Mutant: a busy row is waited for.
AcquireWaits(c, acknowledged) ==
    /\ pc[c] = "existing"
    /\ \/ /\ status = "ready"
          /\ Show(c, artifact, "hit")
          /\ UNCHANGED <<rowVars, lease, candidate, pinned>>
       \/ due /\ status # "ready" /\ Lease(c, acknowledged)

\* _acquire_existing, under the row lock
AcquireExisting(c, acknowledged) ==
    /\ pc[c] = "existing"
    /\ \/ /\ status = "ready"
          /\ Show(c, artifact, "hit")
          /\ UNCHANGED <<rowVars, lease, candidate, pinned>>
       \/ /\ status \in {"generating", "retry"}
          /\ ~due
          /\ Show(c, Fallback, "contended_fallback")
          /\ UNCHANGED <<rowVars, lease, candidate, pinned>>
       \/ /\ status \in {"generating", "retry"}
          /\ due
          /\ Lease(c, acknowledged)

\* Mutant: the model's draft goes to the cache unchecked.
Unguarded(t) == TRUE

\* stable_copy_output_violation_v2 is None
Guarded(t) == t \in Safe

\* A draft that violates the slot's plan is retried later, or replaced for
\* good by the reviewed wording where only that may be shown.
Generate(c, t) ==
    /\ pc[c] = "generate"
    /\ candidate' = [candidate EXCEPT ![c] = IF Guarded(t) THEN t ELSE Fallback]
    /\ Goto(c, IF Guarded(t) \/ plan = "l0" THEN "complete" ELSE "fail")
    /\ Quiet
    /\ UNCHANGED <<rowVars, lease, pinned>>

\* MODEL_TIMEOUT, GENERATION_FAILED
GenerationFails(c) ==
    /\ pc[c] = "generate"
    /\ Goto(c, "fail")
    /\ candidate' = [candidate EXCEPT ![c] = None]
    /\ Quiet
    /\ UNCHANGED <<rowVars, lease, pinned>>

\* Mutant: complete and fail trust every lease.
Unfenced(c) == lease[c] <= attempts

\* The fence of complete and fail.
Current(c) == status = "generating" /\ attempts = lease[c] /\ token = c

Store(c) ==
    /\ status' = "ready"
    /\ artifact' = candidate[c]
    /\ due' = TRUE
    /\ token' = None
    /\ UNCHANGED <<plan, attempts>>

\* complete.  An exception, also one after the COMMIT, counts as a lost lease.
Complete(c) ==
    /\ pc[c] = "complete"
    /\ \/ Current(c) /\ Store(c) /\ Show(c, candidate[c], "generated")
       \/ Current(c) /\ Store(c) /\ Goto(c, "winner") /\ Quiet
       \/ UNCHANGED rowVars /\ Goto(c, "winner") /\ Quiet
    /\ UNCHANGED <<lease, candidate, pinned>>

WinnerText(c) == artifact

\* Lease lost: show what the winner stored, or the reviewed wording; a refused
\* draft is then a failure of the lease.  The second look-up may fail as well.
Winner(c) ==
    /\ pc[c] = "winner"
    /\ \/ status = "ready" /\ Show(c, WinnerText(c), "hit")
       \/ candidate[c] # Fallback /\ Show(c, Fallback, "contended_fallback")
       \/ candidate[c] = Fallback /\ Goto(c, "fail") /\ Quiet
    /\ UNCHANGED <<rowVars, lease, candidate, pinned>>

\* _mark_failure: recorded under the same fence, errors ignored.
MarkFailure(c, recorded) ==
    /\ pc[c] = "fail"
    /\ IF recorded /\ Current(c)
         THEN /\ status' = "retry"
              /\ due' = FALSE
              /\ token' = None
              /\ UNCHANGED <<plan, attempts, artifact>>
         ELSE UNCHANGED rowVars
    /\ Show(c, Fallback, "generation_fallback")
    /\ UNCHANGED <<lease, candidate, pinned>>

---------------------------------------------------------------------------
(* Around the resolver *)

\* The turn that shows the text is committed, with the snapshot.
Pin(c) ==
    /\ pc[c] = "shown"
    /\ pinned' = [pinned EXCEPT ![c] = shown[c]]
    /\ Goto(c, "idle")
    /\ Quiet
    /\ UNCHANGED <<rowVars, lease, candidate>>

\* The turn fails, the client disconnects or the process dies.
Drop(c) ==
    /\ pc[c] # "idle"
    /\ Goto(c, "idle")
    /\ Quiet
    /\ UNCHANGED <<rowVars, lease, candidate, pinned>>

\* The lease or the back-off ends (the last lease of the bound does not).
Elapse ==
    /\ attempts < MaxAttempts
    /\ status \in {"generating", "retry"}
    /\ ~due
    /\ due' = TRUE
    /\ UNCHANGED <<plan, status, attempts, token, artifact, pc, lease, candidate, shown, how,
                   pinned>>

Work(c) ==
    \/ GetReady(c)
    \/ AcquireRead(c)
    \/ \E acknowledged \in BOOLEAN : Insert(c, acknowledged) \/ AcquireExisting(c, acknowledged)
    \/ \E t \in Texts : Generate(c, t)
    \/ GenerationFails(c)
    \/ Complete(c)
    \/ Winner(c)
    \/ \E recorded \in BOOLEAN : MarkFailure(c, recorded)

Next ==
    \/ \E c \in Conversations : Resolve(c) \/ Work(c) \/ CacheFails(c) \/ Pin(c) \/ Drop(c)
    \/ Elapse

Spec == Init /\ [][Next]_vars

---------------------------------------------------------------------------
(* Properties *)

\* A ready artifact is never replaced, whatever late generators bring: the
\* repository's "once a row reaches ready no method can alter its artifact".
ReadyIsFinal == [][status = "ready" => status' = "ready" /\ artifact' = artifact]_vars

\* Nothing a child sees has bypassed the output guard: fresh drafts, cached
\* artifacts, winners' artifacts and pinned snapshots alike.
ShownIsSafe == \A c \in Conversations : pc[c] = "shown" => shown[c] \in Copies

\* Two conversations that show shared copy show the same text, even if both
\* generated: the slower one drops its draft for the winner's.
SharedCopyAgrees ==
    \A c \in Conversations :
        pc[c] = "shown" /\ how[c] \in {"hit", "generated"} =>
            status = "ready" /\ shown[c] = artifact

\* The text of a conversation that has stored one for the slot; the plan of an
\* old conversation is answered with the reviewed wording, never with a draft.
Kept(c) == IF plan = "legacy_l0" THEN Fallback ELSE pinned[c]

\* A conversation that has stored a text for the slot keeps showing it, also
\* when the cache has another one by then.
PinnedIsShown ==
    \A c \in Conversations :
        pc[c] = "shown" /\ pinned[c] \in Copies => shown[c] = Kept(c)

\* A text once fixed stays: shared copy is the ready artifact, a ready artifact
\* is never altered, and a conversation's own pinned text goes before both.
TextOnceFixedStays == []SharedCopyAgrees /\ ReadyIsFinal /\ []PinnedIsShown

\* Two generators never both believe in a live lease: at most one of them can
\* still store its draft.
OneGenerator ==
    \A c, d \in Conversations :
        (/\ pc[c] \in {"generate", "complete"} /\ pc[d] \in {"generate", "complete"}
         /\ lease[c] = lease[d]) => c = d

---------------------------------------------------------------------------
(* Why the properties hold: the inductive invariant. *)

\* What a resolver may rely on while it works under its lease.
ResolverInv(c) ==
    /\ pc[c] \in {"generate", "complete"} => lease[c] \in 1 .. attempts
    /\ pc[c] = "complete" => candidate[c] \in Copies

\* A ready row has a safe artifact, and only a ready row has one.
CopyInv ==
    /\ status = "ready" <=> artifact # None
    /\ \A c \in Conversations : ResolverInv(c)
    /\ OneGenerator
    /\ ShownIsSafe
    /\ SharedCopyAgrees

\* A resolver at work has nothing pinned, and a pinned text is what is shown.
PinnedInv ==
    \A c \in Conversations :
        /\ pc[c] \notin {"idle", "shown"} => pinned[c] = None
        /\ pc[c] = "shown" /\ pinned[c] \in Copies => shown[c] = Kept(c)

---------------------------------------------------------------------------
(* Fairness: a started resolution goes on.  Nothing is assumed of leases.  *)

FairSpec == Spec /\ \A c \in Conversations : WF_vars(Work(c))

\* The cache never keeps a turn waiting: every resolution that is not dropped
\* with its turn shows something, with the row leased to a dead process too.
ResolveEnds ==
    \A c \in Conversations : (pc[c] = "lookup") ~> (pc[c] \in {"shown", "idle"})

============================================================================
