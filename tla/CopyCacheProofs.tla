-------------------------- MODULE CopyCacheProofs --------------------------
(***************************************************************************)
(* Proofs about CopyCache for any number of conversations, texts and       *)
(* leases, for generated and for reviewed-only slots.                      *)
(***************************************************************************)
EXTENDS CopyCache, TLAPS

USE TextsAssumption, BoundAssumption

Inv == TypeOK /\ CopyInv

LEMMA InitInv == Init => Inv
  <1> SUFFICES ASSUME Init PROVE Inv
    OBVIOUS
  <1>1. TypeOK
    <2>1. lease \in [Conversations -> 0 .. MaxAttempts] /\ attempts \in 0 .. MaxAttempts
      BY DEF Init
    <2> QED
      BY <2>1 DEF Init, TypeOK, Statuses
  <1>2. CopyInv
    BY DEF Init, CopyInv, ResolverInv, OneGenerator, ShownIsSafe, SharedCopyAgrees
  <1> QED
    BY <1>1, <1>2 DEF Inv

\* A step that leaves the row alone and ends in one of the quiet places of
\* the resolver: no lease is taken up, nothing is shown.
LEMMA MoveInv ==
    ASSUME Inv, NEW c \in Conversations,
           NEW step \in {"idle", "lookup", "acquire", "insert", "existing", "winner", "fail"},
           Goto(c, step), Quiet,
           UNCHANGED <<rowVars, lease>>,
           candidate' \in [Conversations -> Texts \cup {Fallback, None}],
           \A d \in Conversations \ {c} : candidate'[d] = candidate[d],
           pinned' \in [Conversations -> Texts \cup {Fallback, None}]
    PROVE  Inv'
  <1>1. TypeOK'
    BY DEF Inv, TypeOK, Goto, Quiet, rowVars
  <1>2. \A d \in Conversations : ResolverInv(d)'
    BY DEF Inv, TypeOK, CopyInv, ResolverInv, Goto, rowVars
  <1>3. OneGenerator'
    BY DEF Inv, TypeOK, CopyInv, OneGenerator, Goto
  <1>4. ShownIsSafe' /\ SharedCopyAgrees'
    BY DEF Inv, TypeOK, CopyInv, ShownIsSafe, SharedCopyAgrees, Goto, Quiet, rowVars
  <1> QED
    BY <1>1, <1>2, <1>3, <1>4 DEF Inv, CopyInv, rowVars

\* A resolver that shows the artifact of a ready row, or a safe text of its
\* own, without touching the row.
LEMMA ShowInv ==
    ASSUME Inv, NEW c \in Conversations, NEW text \in Copies, NEW why \in Statuses,
           Show(c, text, why),
           why \in {"hit", "generated"} => status = "ready" /\ text = artifact,
           UNCHANGED <<rowVars, lease, candidate, pinned>>
    PROVE  Inv'
  <1>1. TypeOK'
    BY DEF Inv, TypeOK, Show, Goto, rowVars, Copies
  <1>2. \A d \in Conversations : ResolverInv(d)'
    BY DEF Inv, TypeOK, CopyInv, ResolverInv, Show, Goto, rowVars
  <1>3. OneGenerator'
    BY DEF Inv, TypeOK, CopyInv, OneGenerator, Show, Goto
  <1>4. ShownIsSafe'
    BY DEF Inv, TypeOK, CopyInv, ShownIsSafe, Show, Goto
  <1>5. SharedCopyAgrees'
    BY DEF Inv, TypeOK, CopyInv, SharedCopyAgrees, Show, Goto, rowVars
  <1> QED
    BY <1>1, <1>2, <1>3, <1>4, <1>5 DEF Inv, CopyInv, rowVars

\* The artifact of a ready row is a text that may be shown.
LEMMA ReadyArtifact == ASSUME Inv, status = "ready" PROVE artifact \in Copies
  BY DEF Inv, TypeOK, CopyInv

LEMMA ResolveInv == ASSUME Inv, NEW c \in Conversations, Resolve(c) PROVE Inv'
  <1>1. CASE pinned[c] \in Copies /\ Show(c, pinned[c], "pinned")
    BY <1>1, ShowInv DEF Resolve, Statuses
  <1>2. CASE Show(c, Fallback, "reviewed_fallback")
    BY <1>2, ShowInv DEF Resolve, Statuses, Copies
  <1>3. CASE Goto(c, "lookup") /\ Quiet
    BY <1>3, MoveInv DEF Resolve, Inv, TypeOK
  <1> QED
    BY <1>1, <1>2, <1>3 DEF Resolve

LEMMA GetReadyInv == ASSUME Inv, NEW c \in Conversations, GetReady(c) PROVE Inv'
  <1>1. CASE status = "ready"
    BY <1>1, ShowInv, ReadyArtifact DEF GetReady, Statuses
  <1>2. CASE status # "ready"
    BY <1>2, MoveInv DEF GetReady, Inv, TypeOK
  <1> QED
    BY <1>1, <1>2

LEMMA CacheFailsInv == ASSUME Inv, NEW c \in Conversations, CacheFails(c) PROVE Inv'
  BY ShowInv DEF CacheFails, Statuses, Copies

LEMMA AcquireReadInv == ASSUME Inv, NEW c \in Conversations, AcquireRead(c) PROVE Inv'
  <1>1. CASE status = "absent"
    BY <1>1, MoveInv DEF AcquireRead, Inv, TypeOK
  <1>2. CASE status # "absent"
    BY <1>2, MoveInv DEF AcquireRead, Inv, TypeOK
  <1> QED
    BY <1>1, <1>2

\* The new lease is numbered above all leases that are out.
LEMMA LeaseInv ==
    ASSUME Inv, NEW c \in Conversations, NEW acknowledged \in BOOLEAN,
           status # "ready", Lease(c, acknowledged)
    PROVE  Inv'
  <1>1. NextAttempt \in 1 .. MaxAttempts /\ NextAttempt = attempts + 1
    BY DEF Inv, TypeOK, Lease, NextAttempt
  <1>2. attempts' = NextAttempt /\ status' = "generating" /\ artifact' = artifact
    BY DEF Lease
  <1>3. artifact = None
    BY DEF Inv, CopyInv
  <1>4. CASE acknowledged
    <2>1. Goto(c, "generate") /\ lease' = [lease EXCEPT ![c] = NextAttempt] /\ Quiet
      BY <1>4 DEF Lease
    <2>2. TypeOK'
      <3>1. attempts' \in 0 .. MaxAttempts /\ lease' \in [Conversations -> 0 .. MaxAttempts]
        BY <1>1, <1>2, <2>1 DEF Inv, TypeOK
      <3> QED
        BY <1>2, <2>1, <3>1 DEF Inv, TypeOK, Lease, Goto, Quiet
    <2>3. ASSUME NEW d \in Conversations PROVE ResolverInv(d)'
      BY <1>1, <1>2, <2>1 DEF Inv, TypeOK, CopyInv, ResolverInv, Goto, Lease
    <2>4. OneGenerator'
      <3> SUFFICES ASSUME NEW d \in Conversations, NEW e \in Conversations, d # e,
                          pc'[d] \in {"generate", "complete"},
                          pc'[e] \in {"generate", "complete"},
                          lease'[d] = lease'[e]
                   PROVE  FALSE
        BY DEF OneGenerator
      <3>1. ASSUME NEW x \in Conversations, x # c, pc'[x] \in {"generate", "complete"}
            PROVE  lease'[x] # NextAttempt
        BY <1>1, <2>1, <3>1 DEF Inv, TypeOK, CopyInv, ResolverInv, Goto
      <3>2. lease'[c] = NextAttempt
        BY <2>1 DEF Inv, TypeOK
      <3>3. CASE d = c \/ e = c
        BY <3>1, <3>2, <3>3
      <3>4. CASE d # c /\ e # c
        BY <2>1, <3>4 DEF Inv, TypeOK, CopyInv, OneGenerator, Goto
      <3> QED
        BY <3>3, <3>4
    <2>5. ShownIsSafe' /\ SharedCopyAgrees'
      BY <1>3, <2>1 DEF Inv, TypeOK, CopyInv, ShownIsSafe, SharedCopyAgrees, Goto, Quiet
    <2> QED
      BY <1>2, <1>3, <2>2, <2>3, <2>4, <2>5 DEF Inv, CopyInv
  <1>5. CASE ~acknowledged
    <2>1. Show(c, Fallback, "reviewed_fallback") /\ lease' = lease
      BY <1>5 DEF Lease
    <2>2. TypeOK'
      <3>1. attempts' \in 0 .. MaxAttempts
        BY <1>1, <1>2
      <3> QED
        BY <1>2, <2>1, <3>1 DEF Inv, TypeOK, Lease, Show, Goto, Statuses
    <2>3. ASSUME NEW d \in Conversations PROVE ResolverInv(d)'
      BY <1>1, <1>2, <2>1 DEF Inv, TypeOK, CopyInv, ResolverInv, Show, Goto, Lease
    <2>4. OneGenerator'
      BY <2>1 DEF Inv, TypeOK, CopyInv, OneGenerator, Show, Goto
    <2>5. ShownIsSafe' /\ SharedCopyAgrees'
      BY <1>3, <2>1 DEF Inv, TypeOK, CopyInv, ShownIsSafe, SharedCopyAgrees, Show, Goto, Copies
    <2> QED
      BY <1>2, <1>3, <2>2, <2>3, <2>4, <2>5 DEF Inv, CopyInv
  <1> QED
    BY <1>4, <1>5

LEMMA InsertInv ==
    ASSUME Inv, NEW c \in Conversations, NEW acknowledged \in BOOLEAN, Insert(c, acknowledged)
    PROVE  Inv'
  <1>1. CASE status = "absent" /\ Lease(c, acknowledged)
    BY <1>1, LeaseInv
  <1>2. CASE Goto(c, "existing") /\ Quiet /\ UNCHANGED <<rowVars, lease, candidate, pinned>>
    BY <1>2, MoveInv DEF Inv, TypeOK
  <1> QED
    BY <1>1, <1>2 DEF Insert

LEMMA AcquireExistingInv ==
    ASSUME Inv, NEW c \in Conversations, NEW acknowledged \in BOOLEAN,
           AcquireExisting(c, acknowledged)
    PROVE  Inv'
  <1>1. CASE /\ status = "ready"
             /\ Show(c, artifact, "hit")
             /\ UNCHANGED <<rowVars, lease, candidate, pinned>>
    BY <1>1, ShowInv, ReadyArtifact DEF Statuses
  <1>2. CASE /\ Show(c, Fallback, "contended_fallback")
             /\ UNCHANGED <<rowVars, lease, candidate, pinned>>
    BY <1>2, ShowInv DEF Statuses, Copies
  <1>3. CASE status \in {"generating", "retry"} /\ Lease(c, acknowledged)
    BY <1>3, LeaseInv
  <1> QED
    BY <1>1, <1>2, <1>3 DEF AcquireExisting

LEMMA GenerateInv ==
    ASSUME Inv, NEW c \in Conversations, NEW t \in Texts, Generate(c, t)
    PROVE  Inv'
  <1>1. candidate' \in [Conversations -> Texts \cup {Fallback, None}]
    BY DEF Inv, TypeOK, Generate
  <1>2. CASE Guarded(t) \/ plan = "l0"
    <2>1. Goto(c, "complete") /\ candidate'[c] \in Copies
      BY <1>2 DEF Inv, TypeOK, Generate, Guarded, Copies
    <2>2. TypeOK'
      BY <1>1, <2>1 DEF Inv, TypeOK, Generate, Goto, Quiet, rowVars
    <2>3. ASSUME NEW d \in Conversations PROVE ResolverInv(d)'
      BY <2>1 DEF Inv, TypeOK, CopyInv, ResolverInv, Generate, Goto, rowVars
    <2>4. OneGenerator'
      BY <2>1 DEF Inv, TypeOK, CopyInv, OneGenerator, Generate, Goto
    <2>5. ShownIsSafe' /\ SharedCopyAgrees'
      BY <2>1 DEF Inv, TypeOK, CopyInv, ShownIsSafe, SharedCopyAgrees, Generate, Goto, Quiet,
                  rowVars
    <2> QED
      BY <2>2, <2>3, <2>4, <2>5 DEF Inv, CopyInv, Generate, rowVars
  <1>3. CASE ~(Guarded(t) \/ plan = "l0")
    BY <1>1, <1>3, MoveInv DEF Generate, Inv, TypeOK
  <1> QED
    BY <1>2, <1>3

LEMMA GenerationFailsInv ==
    ASSUME Inv, NEW c \in Conversations, GenerationFails(c)
    PROVE  Inv'
  BY MoveInv DEF GenerationFails, Inv, TypeOK

\* The only step that makes the row ready: no resolver showed shared copy
\* before, because the row was not ready.
LEMMA CompleteInv == ASSUME Inv, NEW c \in Conversations, Complete(c) PROVE Inv'
  <1>1. candidate[c] \in Copies
    BY DEF Inv, CopyInv, ResolverInv, Complete
  <1>2. ASSUME Current(c), Store(c),
               \/ Show(c, candidate[c], "generated")
               \/ Goto(c, "winner") /\ Quiet
        PROVE  Inv'
    <2>1. status # "ready" /\ status' = "ready" /\ artifact' = candidate[c]
      BY <1>2 DEF Current, Store
    <2>2. TypeOK'
      BY <1>1, <1>2 DEF Inv, TypeOK, Complete, Store, Show, Goto, Quiet, Statuses, Copies
    <2>3. ASSUME NEW d \in Conversations PROVE ResolverInv(d)'
      BY <1>2 DEF Inv, TypeOK, CopyInv, ResolverInv, Complete, Store, Show, Goto
    <2>4. OneGenerator'
      BY <1>2 DEF Inv, TypeOK, CopyInv, OneGenerator, Complete, Show, Goto
    <2>5. ShownIsSafe'
      BY <1>1, <1>2 DEF Inv, TypeOK, CopyInv, ShownIsSafe, Show, Goto, Quiet
    <2>6. SharedCopyAgrees'
      BY <1>2, <2>1 DEF Inv, TypeOK, CopyInv, SharedCopyAgrees, Show, Goto, Quiet
    <2>7. artifact' # None
      BY <1>1, <2>1 DEF Copies
    <2> QED
      BY <2>1, <2>2, <2>3, <2>4, <2>5, <2>6, <2>7 DEF Inv, CopyInv
  <1>3. ASSUME UNCHANGED rowVars, Goto(c, "winner"), Quiet PROVE Inv'
    BY <1>3, MoveInv DEF Complete, Inv, TypeOK
  <1> QED
    BY <1>2, <1>3 DEF Complete

LEMMA WinnerInv == ASSUME Inv, NEW c \in Conversations, Winner(c) PROVE Inv'
  <1>1. CASE status = "ready" /\ Show(c, WinnerText(c), "hit")
    BY <1>1, ShowInv, ReadyArtifact DEF Winner, WinnerText, Statuses
  <1>2. CASE Show(c, Fallback, "contended_fallback")
    BY <1>2, ShowInv DEF Winner, Statuses, Copies
  <1>3. CASE Goto(c, "fail") /\ Quiet
    BY <1>3, MoveInv DEF Winner, Inv, TypeOK
  <1> QED
    BY <1>1, <1>2, <1>3 DEF Winner

LEMMA MarkFailureInv ==
    ASSUME Inv, NEW c \in Conversations, NEW recorded \in BOOLEAN, MarkFailure(c, recorded)
    PROVE  Inv'
  <1>1. CASE recorded /\ Current(c)
    <2>1. /\ status = "generating" /\ status' = "retry" /\ due' = FALSE /\ token' = None
          /\ plan' = plan /\ attempts' = attempts /\ artifact' = artifact
          /\ Show(c, Fallback, "generation_fallback")
          /\ UNCHANGED <<lease, candidate, pinned>>
      BY <1>1 DEF MarkFailure, Current
    <2>2. TypeOK'
      BY <2>1 DEF Inv, TypeOK, Show, Goto, Statuses
    <2>3. ASSUME NEW d \in Conversations PROVE ResolverInv(d)'
      BY <2>1 DEF Inv, TypeOK, CopyInv, ResolverInv, Show, Goto
    <2>4. OneGenerator'
      BY <2>1 DEF Inv, TypeOK, CopyInv, OneGenerator, Show, Goto
    <2>5. ShownIsSafe' /\ SharedCopyAgrees'
      BY <2>1 DEF Inv, TypeOK, CopyInv, ShownIsSafe, SharedCopyAgrees, Show, Goto, Copies
    <2> QED
      BY <2>1, <2>2, <2>3, <2>4, <2>5 DEF Inv, CopyInv
  <1>2. CASE ~(recorded /\ Current(c))
    BY <1>2, ShowInv DEF MarkFailure, Statuses, Copies
  <1> QED
    BY <1>1, <1>2

LEMMA PinInv == ASSUME Inv, NEW c \in Conversations, Pin(c) PROVE Inv'
  <1>1. pinned' \in [Conversations -> Texts \cup {Fallback, None}]
    BY DEF Inv, TypeOK, Pin
  <1> QED
    BY <1>1, MoveInv DEF Pin, Inv, TypeOK

LEMMA DropInv == ASSUME Inv, NEW c \in Conversations, Drop(c) PROVE Inv'
  BY MoveInv DEF Drop, Inv, TypeOK

LEMMA ElapseInv == ASSUME Inv, Elapse PROVE Inv'
  <1>1. TypeOK'
    BY DEF Inv, TypeOK, Elapse
  <1>2. CopyInv'
    BY DEF Inv, CopyInv, ResolverInv, OneGenerator, ShownIsSafe, SharedCopyAgrees, Elapse
  <1> QED
    BY <1>1, <1>2 DEF Inv

LEMMA StutterInv == ASSUME Inv, UNCHANGED vars PROVE Inv'
  <1>1. TypeOK'
    BY DEF Inv, TypeOK, vars
  <1>2. CopyInv'
    BY DEF Inv, CopyInv, ResolverInv, OneGenerator, ShownIsSafe, SharedCopyAgrees, vars
  <1> QED
    BY <1>1, <1>2 DEF Inv

LEMMA NextInv == Inv /\ [Next]_vars => Inv'
  <1> SUFFICES ASSUME Inv, [Next]_vars PROVE Inv'
    OBVIOUS
  <1>1. ASSUME NEW c \in Conversations, Work(c) PROVE Inv'
    BY <1>1, GetReadyInv, AcquireReadInv, InsertInv, AcquireExistingInv, GenerateInv,
       GenerationFailsInv, CompleteInv, WinnerInv, MarkFailureInv DEF Work
  <1>2. ASSUME NEW c \in Conversations, Resolve(c) \/ CacheFails(c) \/ Pin(c) \/ Drop(c)
        PROVE  Inv'
    BY <1>2, ResolveInv, CacheFailsInv, PinInv, DropInv
  <1> QED
    BY <1>1, <1>2, ElapseInv, StutterInv DEF Next

\* The row and its resolvers stay consistent, for any number of resolvers
\* and leases.
THEOREM CopyCacheSafe == Spec => []Inv
  <1>1. Init => Inv
    BY InitInv
  <1>2. Inv /\ [Next]_vars => Inv'
    BY NextInv
  <1> QED
    BY <1>1, <1>2, PTL DEF Spec

\* No text that a child sees has bypassed the output guard (resolve).
THEOREM ShownIsSafeHolds == Spec => []ShownIsSafe
  <1>1. Inv => ShownIsSafe
    BY DEF Inv, CopyInv
  <1> QED
    BY <1>1, CopyCacheSafe, PTL

\* All conversations that show shared copy show the ready artifact (resolve).
THEOREM SharedCopyAgreesHolds == Spec => []SharedCopyAgrees
  <1>1. Inv => SharedCopyAgrees
    BY DEF Inv, CopyInv
  <1> QED
    BY <1>1, CopyCacheSafe, PTL

\* A ready artifact is never altered (complete, fail, _acquire_existing).
THEOREM ReadyIsFinalHolds == Spec => ReadyIsFinal
  <1> DEFINE Step == status = "ready" => status' = "ready" /\ artifact' = artifact
  <1>1. ASSUME NEW c \in Conversations, Work(c) PROVE Step
    BY <1>1 DEF Work, GetReady, AcquireRead, Insert, AcquireExisting, Lease, Generate,
       GenerationFails, Complete, Store, Current, Winner, MarkFailure, rowVars
  <1>2. ASSUME NEW c \in Conversations, Resolve(c) \/ CacheFails(c) \/ Pin(c) \/ Drop(c)
        PROVE  Step
    BY <1>2 DEF Resolve, CacheFails, Pin, Drop, rowVars
  <1>3. ASSUME [Next]_vars PROVE [Step]_vars
    <2> HIDE DEF Step
    <2>1. Elapse => Step
      BY DEF Elapse, Step
    <2> QED
      BY <1>1, <1>2, <1>3, <2>1 DEF Next
  <1> QED
    BY <1>3, PTL DEF Spec, ReadyIsFinal

\* One resolver moves on or shows a text while nothing is pinned, or shows what
\* is pinned or, for a legacy plan, the reviewed wording; the others stay where
\* they are.
LEMMA PinnedStep ==
    ASSUME Inv, PinnedInv, NEW c \in Conversations,
           Resolve(c) \/ Work(c) \/ CacheFails(c) \/ Pin(c) \/ Drop(c)
    PROVE  PinnedInv'
  <1> SUFFICES ASSUME NEW d \in Conversations
               PROVE  /\ pc'[d] \notin {"idle", "shown"} => pinned'[d] = None
                      /\ pc'[d] = "shown" /\ pinned'[d] \in Copies => shown'[d] = Kept(d)'
    BY DEF PinnedInv
  <1> USE DEF Kept, rowVars
  <1>0. None \notin Copies
    BY DEF Copies
  <1>1. CASE Resolve(c)
    <2>1. CASE plan = "legacy_l0"
      BY <1>1, <2>1 DEF Resolve, Show, Goto, Inv, TypeOK, PinnedInv
    <2>2. CASE plan # "legacy_l0"
      BY <1>0, <1>1, <2>2 DEF Resolve, Show, Goto, Quiet, Inv, TypeOK, PinnedInv
    <2> QED
      BY <2>1, <2>2
  <1>2. CASE Work(c)
    <2>1. pinned' = pinned /\ pinned[c] = None /\ plan' = plan
      BY <1>2 DEF Work, GetReady, AcquireRead, Insert, AcquireExisting, Lease, Generate,
                  GenerationFails, Complete, Store, Winner, MarkFailure, PinnedInv
    <2>2. d # c => pc'[d] = pc[d] /\ shown'[d] = shown[d]
      BY <1>2 DEF Work, GetReady, AcquireRead, Insert, AcquireExisting, Lease, Generate,
                  GenerationFails, Complete, Winner, MarkFailure, Show, Goto, Quiet, Inv, TypeOK
    <2> QED
      BY <1>0, <2>1, <2>2 DEF PinnedInv
  <1>3. CASE CacheFails(c)
    BY <1>0, <1>3 DEF CacheFails, Show, Goto, Inv, TypeOK, PinnedInv
  <1>4. CASE Pin(c)
    BY <1>4 DEF Pin, Goto, Quiet, Inv, TypeOK, PinnedInv
  <1>5. CASE Drop(c)
    BY <1>5 DEF Drop, Goto, Quiet, Inv, TypeOK, PinnedInv
  <1> QED
    BY <1>1, <1>2, <1>3, <1>4, <1>5

\* A conversation keeps showing the text it has stored (resolve).
THEOREM PinnedIsShownHolds == Spec => []PinnedIsShown
  <1>1. Init => PinnedInv
    BY DEF Init, PinnedInv
  <1>2. Inv /\ PinnedInv /\ [Next]_vars => PinnedInv'
    <2> SUFFICES ASSUME Inv, PinnedInv, [Next]_vars PROVE PinnedInv'
      OBVIOUS
    <2>1. CASE Elapse \/ UNCHANGED vars
      BY <2>1 DEF Elapse, vars, PinnedInv, Kept
    <2> QED
      BY <2>1, PinnedStep DEF Next
  <1>3. PinnedInv => PinnedIsShown
    BY DEF PinnedInv, PinnedIsShown
  <1> QED
    BY <1>1, <1>2, <1>3, CopyCacheSafe, PTL DEF Spec

\* A text once fixed stays (complete, resolve, the snapshot of the turn).
THEOREM TextOnceFixedStaysHolds == Spec => TextOnceFixedStays
  BY SharedCopyAgreesHolds, ReadyIsFinalHolds, PinnedIsShownHolds, PTL DEF TextOnceFixedStays

============================================================================
