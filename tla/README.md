# Mormi-AI in TLA+

Mormi-AI is the dialogue service of a learning app: a child teaches the
character Mormi, the service reads what the child says with a language model,
keeps a ledger of what was really taught, and answers with the next turn. It is
a FastAPI process (several of them in production) over PostgreSQL. The hard
part is that every operation is a chain of short transactions with model calls
or HTTP calls between them, repeated by impatient clients, next to three
background loops that write to the same rows.

This directory models that control, checks it with TLC and proves the main
results with TLAPS. Paths below are relative to the repository; the code is in
`src/mormi_api/`. `PROJECT.json` maps every definition to the lines it models.

## 1. Inventory

| Component | State it keeps | Operations | Hard behaviour |
|---|---|---|---|
| Turn commit and retention (`service.py`, `repository.py`) | `conversations` (state JSON, version, deadline), `turns`, `dialogue_turn_observations`, learner profile | respond, replay, commit_turn, profile update, hourly purge | concurrent duplicates, lost acknowledgements, purge against a commit in flight, opposite lock orders |
| Conversation creation (`service.py`, `repository.py`) | `practice_results`, `conversations`, `dialogue_session_parents` | create, save practice, read the winner | look-up then insert, two unique keys during a rollout |
| Integration outbox (`outbox.py`) | `ai_outbox_events` | claim, deliver, mark sent, retry, fail, stop | leases that end under a live worker, lost replies, crash, overflow of the back-off |
| Stable copy (`copy_cache.py`, `dialogue_v2_copy.py`) | one cache row per slot, copy pinned in conversations | resolve, acquire, complete, fail | late generators, lost COMMIT answer, text pinned under an older guard |
| Ladder analysis (`ladder_analysis*.py`, `ladder_model/policy.py`) | `ladder_analysis_jobs`, stable level in the profile | enqueue, claim a batch, analyse, fail, requeue, approve | one lease for a batch, approval against a profile write |
| V2 home-teaching engine (`dialogue_v2_runtime.py`, `_ledger`, `_evidence`, `_attempt_graph`) | ledger, expression and hint ladder, provenance, ending | text, help, silence, choice, joint action | partial model failures, order of support and explanation |
| V2 life engine (`dialogue_v2_life_runtime.py`, `_life_content`, `_cafe_content`, `_amusement_content`, `_scenario_snapshot`) | the same per task, scenario snapshot, task variants | the same, creation and task transitions | provenance, variants and outcome across tasks |
| Legacy engine (`engine.py`, `content.py`) | slots, entry phase, task index, note spans | the v1 turn: understand, decide, speak, compose | claims of a model that must be the child's, long sequences of legal calls |
| Session parent (`session_parent_*.py`) | cursor with generation, checkpoint | enroll, load, restore, rebuild, publish, bypass | checkpoint published after the domain commit, store time-outs on either side of the write |
| Response stream (`dialogue_v2_graph.py`, `main.py`) | queue and acknowledgement of one response | emit, cancel | disconnects |
| Speaker plan and guard (`dialogue_v2_speaker.py`, `dialogue_v2_runtime.py`) | the sentence of the turn, repeat counters | plan, reaction, bridge, guard, reviewed fallback | two attempts under a time-out, a sentence that fits the next question and not the last |
| Gateway (`llm.py`) | none | model calls | timeouts, invalid output |
| Startup and migrations (`migrations.py`, `main.py`) | schema phase | upgrade, rewrite stored rows | rewriting while an old process serves |
| Reports, dictionary, training, codec, settings | none of their own | reads, offline work | none |

How they meet: a request goes through *service* to an *engine*, which asks the
*gateway* and, for reviewed wording, the *copy resolver*; the result is stored
by `commit_turn` with its observation and its outbox event in one transaction;
afterwards the *profile* is updated in a transaction of its own. Dispatcher,
ladder worker and retention loop run beside the requests in each process. The
profile's stable level, moved by the approval of a ladder analysis, is the level
the next conversation starts at.

What makes each part correct: an accepted response advances the conversation
once and is answered the same way for ever; child wording disappears at its
deadline and does not come back; one identity has one conversation; an event is
marked sent only if Spring has it and given up only if it is hopeless; the child
sees only guarded text, and two children who see shared text see the same one;
a recommendation is stored once and applied to the level it was made for; a
session counts as the child's own teaching exactly if it was; Mormi asks for what
is missing and never says the answer first; the session parent adds nothing to
what a request is answered with, and leaves nobody waiting.

## 2. Modules

| Module | Models |
|---|---|
| `ConversationLog` | abstract: an append-only log of accepted responses |
| `TurnCommit` | requests, commit, replay, profile, purge; implements `ConversationLog` |
| `TurnCommitProofs` | its proofs: protocol, retention, credits |
| `ConversationCreate`, `MCConversationCreate`, `ConversationCreateProofs` | creation and practice results |
| `Outbox`, `OutboxProofs` | outbox and dispatchers |
| `CopyCache`, `CopyCacheProofs` | copy cache and resolver |
| `LadderPolicy`, `LadderCheck` | `decide_ladder_adjustment` as operators, and its checks |
| `LadderAnalysis`, `MCLadderAnalysis` | jobs, workers, approval, profile; uses `LadderPolicy` |
| `LadderProofs` | proofs about policy and jobs |
| `TeachingTurn`, `MCTeachingTurn`, `TeachingTurnProofs` | one V2 home-teaching conversation |
| `SpeechTurn`, `MCSpeechTurn` | what Mormi says in such a turn; instantiates `TeachingTurn` for ledger, ladder and question |
| `LifeContent`, `LifeTurn`, `MCLifeTurn` | the packs of cafe and park, and one life conversation over several tasks; instantiates `TeachingTurn` for ladders and guidance |
| `TaskContent`, `LegacyTurn`, `MCLegacyTurn` | the task shapes of `content.py`, and one conversation of the v1 engine |
| `EngineProofs` | proofs about `LifeTurn` and `LegacyTurn`, the engines of several tasks |
| `SessionParent`, `MCSessionParent` | parent graph, cursor, progress rendezvous, clients that leave |
| `TurnGraphProofs` | proofs about the two graphs around a turn, `SessionParent` and `SpeechTurn` |

`TurnCommit` treats the engine as a choice of what a turn may produce;
`TeachingTurn` treats a turn as one committed response. Each abstracts from the
other's subject, and the interface between them (the engine runs on a deep copy,
the copy is stored whole or not at all) is an action of both: `RunEngine` and
`Abandon`. `LifeTurn` and `SpeechTurn` do not repeat the ladders: they take them
from `TeachingTurn` by INSTANCE, with their own ledger and question in place of
its variables, as the code inherits or calls them.

### TurnCommit

One conversation. A request walks through `ResponseExists` (replay),
`GetState`, `RunEngine` or `EngineFails`, `CommitLock` (SELECT FOR UPDATE and
the checks in their order), `CommitFlush`, `CommitDone`, then `ReadProfile` and
`SaveProfile`; `CommitDuplicate` and `ReplayDuplicate` are the IntegrityError
path; `Abandon` is a crash or disconnect anywhere. `CommitDone(q, FALSE)` is a
COMMIT whose acknowledgement is lost. The purge is three steps because it reads
without a lock, locks turn rows, then the conversation. `raw` stands for the
three encrypted columns that are written and cleared together. Time is a
counter; a deadline is a number.

### ConversationCreate

Several bodies, any of them copies. Learning session and round are one value, as
both unique keys contain both. `Transition` says whether the key without the
scenario still exists (`migrations.py`, `conversation_identity_schema_phase`).
A row may be committed and its answer lost, and a request may die after any
transaction.

### Outbox, CopyCache, LadderAnalysis

`available_at` is abstracted to whether it has been reached: a lease or back-off
may end at any moment, also under a live worker, because no setting ties its
length to the time-outs of the work it covers. Spring, the draft generator and
the classifier are environments that may answer anything the code distinguishes.
`OverflowAttempt` is the attempt whose back-off no longer fits a float: the
cycle fails and the lease ends the claim. A slot of `CopyCache` has one of three
plans: for a model's wording; for L0, where a refused draft is replaced for good by
the reviewed wording; or an L0 plan of an old conversation, which `Resolve` answers
with the reviewed wording before it looks at anything pinned. `LadderAnalysis` includes the profile
write of a finishing dialogue because it meets the approval on one row.

### TeachingTurn

The state is the reasoning ledger (`facts`, `relations`, `partials`), `ladder`
(level, hint, recorded maximum), the provenance of the note, the `question`
(input contract) and `asked` (what Mormi's sentence asks for), and `result`.
Histories: `shown` the strongest card shown with a question, `first` how each
relation was first verified, `ended` how the last request ended.

`Conclude(s)` is the whole of a turn after understanding: ledger, ladder policy,
provenance, completion or next question. Text goes through `Listen` and up to
two `understand_attempt` or `AttemptFails` steps with the literal evidence guard
(`Admissible`) and the immutable merge (`merge_admitted`). The model returns any
member of `Candidates`, which `Normalised` restricts as the gateway does.

Left out: wording, the speaker, and the counters that only choose between
sentences (`expression_failures`, `concept_failures`, `unrelated_count`).
CONCEPT and BOTH are one need, and meta talk, refusal and play one move, because
every branch treats them alike. A claim keeps its id, which the merge compares.
`_understanding_exhausted` is unreachable, as the operation returns nothing only
after attempt 1. Required targets are distinct per pack, as
`validate_pack_contract` demands.

### SpeechTurn

`Understand(u)` takes a turn understood as `u` and prepares, like the engine, the next
state on a copy (`Prepared`) and the question and fallback that belong to it
(`PreparedSpeech`). From there the route is the code's: a reviewed sentence, the
stable copy, a reaction with up to two attempts (`speak_attempt`,
`SpeakerFails`), a bridge in front of the question, or `PlanFails` where the
response plan refuses itself. A sentence is a record of what a child could learn
or do from it: the answers it names, the targets it asks for, the number of
questions, and what it says about the help card. The models return any member of
`Outputs`, flaws, numbers and words about the card included; what the guard does
about each is the model. Numbers may pass as values the child has got right or as
part of the name of a method it has taught (`Labels`, the `speaker_label`s).

Words of a model about the card pass unseen, as no guard looks for them. What the
code does own is what the plan tells the model of the card (`card_licence`:
`help_card_visible`, and `card_event` on a remark about the card). `compose` counts
words under that licence as the sentence's own, together with those of the reask;
all others are kept in `strays`, on which no property depends.

### LifeContent and LifeTurn

A pack is its facts with the values they accept, its relations, the order in
which they are asked at each level, the effects of the choices and the joint
values; `ValidPack` and `ValidScenario` are the validators, and creation is
refused where they or `_entry_level` refuse it. `pinned_menu_total` is a
conversation pinned when `cafe_menu_total` still had its selection stage
(`_menu_selection_pack` still knows that phase): no current scenario uses a
variant selector, but `_complete_state` serves pinned ones. `Conclude` is a turn
after understanding; `complete_state` closes a task and either ends the session
or opens the next task. Histories: `first`, `closer`, `picked`, `signed`.

### TaskContent and LegacyTurn

A task is its slots (closed values or slots judged by meaning), the steps per
level and the slots the note is about; `active_step` and the phases are the
code's. What the understanding model says is any analysis of the given sets; a
claim is given by what it rests on (the child's words, words that do not name
the value, another number, nothing), because that is what the guards
distinguish. `Surviving`, the category rules and the verification decide what is
left of it. A turn is two steps, the decision (`TextAnswer`, `ChoiceAnswer`,
`JointAnswer`, `NoResponse`) and the speech (`Speak`, `SpeakReviewed`), as the
speaker models run between them. A decision carries what its reviewed sentence
would name (`fallback`): the prompt of the whole step, or nothing where the branch
has a sentence of its own (`Reframed`, `SmoothLadder`); a turn keeps whether its
sentence is a model's or the reviewed one (`source`). `RawExpires` is the deadline
for the child's wording, which passes between two turns and takes the wording of
the open task along. In no scenario of the catalogue are two tasks noted, so that
notes of one task do not leak into the next is exercised only by the theorem.

### SessionParent

One conversation, several requests that answer its turns. `pc` follows one
request through replay, state, cursor, restore or rebuild, the run of the turn
service, export and publication; the store may time out before or after its
transaction at each of these, and a client may leave at any await. `Restore` takes
the packet of the cursor if it is at the state that was read, `Rebuild` starts the
graph there (also for a packet that cannot be decoded), and `at` is where the graph
then waits. The turn service is one step here, with `TurnCommit`'s outcome: the turn of the response,
once. `ran` counts how often a request ran it.

## 3. Runs

The `MC` modules define the values a `.cfg` cannot write (request bodies, model
outputs); the other components are run as they are. Passing runs:

| Run | Bounds | Shows |
|---|---|---|
| `turn` | 2 requests, 2 ids, 3 turns, deadline 1, keys that last 1, clock to 1 | refinement of the log (`LogSpec`), `SameIdSameTurn`, `CreditsBounded`; nothing in flight brings purged wording back (`NoRawRecreated`); each request is answered although the lock orders cross |
| `outbox` | 2 dispatchers, 3 kinds of event, 4 claims, 2 faults, overflow at the second claim | `SentMeansStored`, `FailedIsHopeless`, `ClaimIsFenced`; acceptable events get sent |
| `copy_cache` | 2 conversations, 2 safe and 1 refused text, 3 leases, each kind of plan | `ShownIsSafe`, `TextOnceFixedStays`; a resolution always ends |
| `create` | 2 requests with every valid body, 2 learners, both keys | `SameIdentitySameConversation`, `AnswerIsRight`; each request is answered |
| `ladder_policy` | all evidence around the thresholds | `BetterIsNotLower`, `OneSupportedStep` |
| `ladder` | 2 workers, 2 jobs, 2 claims, one error of either kind, 1 deployment, 1 approver, 1 dialogue, a learner without a profile row | `AnalysisIsFenced`, `ApprovalAppliesToItsLevel`; jobs settle although cycles die |
| `teach` | 2 relations in the note, 1 of them and a fact required; all start levels | `CreditIsTheChilds`, `SupportIsCoherent`, `UnderstandingIsFair`; a silent child gets to the end |
| `speech` | 1 answer, 1 method, repeat limit 1, every flaw of a model's sentence, a number of its own, any words about the card | `AsksForItsInput`, `AnswerStaysWithTheChild`, `CardWordsMatchTheScreen`; every understood turn is answered but for two known cases |
| `life` | every cafe scenario, the pinned one, two park scenarios of two tasks, 3 menus, profiles at L4, L3 and L2 | `NotesAreTheTasks`, `TaughtInEveryTask`, `TaskRecordIsFinal`; a silent child is led through every task |
| `legacy` | 6 scenarios of 1 or 2 tasks, start levels L4 and L0 (L2 for a menu), stored wording or not, a deadline at any time | `NoteIsTheChilds`, `EndIsEarned`, `TurnIsCoherent`, `VisiblyNew` |
| `session` | 2 copies of one response and the answer to the turn after it, which ends the conversation; 1 progress event | `RunsOnce`, `AnswerIsItsTurn`, `CursorAdvances`; no request and no worker is left behind |

Several properties are conjunctions of parts that belong to one promise; the
parts are definitions of their own, with their own comments and, in section 5,
their own theorems:

| Property | Parts |
|---|---|
| `Outbox!ClaimIsFenced` | `OneOwner`, `FinalStays`, `LeaseProtects` |
| `CopyCache!TextOnceFixedStays` | `SharedCopyAgrees`, `ReadyIsFinal`, `PinnedIsShown` |
| `ConversationCreate!AnswerIsRight` | `AnswerIsTheRequested`, `FirstPracticeCounts`, `ConflictsExplained` |
| `LadderAnalysis!AnalysisIsFenced` | `OneAnalyst`, `LeaseProtects`, `RecommendationIsFinal` |
| `LadderCheck!OneSupportedStep` | `MovesOneStep`, `NoUnsupportedMove` |
| `TeachingTurn!CreditIsTheChilds` | `TaughtIffIndependent`, `NoteAttribution` |
| `TeachingTurn!SupportIsCoherent` | `TerminalLadderPair`, `QuestionIsOpen`, `H0SuccessIsUnaided`, `SupportOnlyGrows` |
| `TeachingTurn!UnderstandingIsFair` | `AdmittedReachesLedger`, `UnreadIsNeutral` |
| `SpeechTurn!EveryTurnIsAnswered` | `EveryTurnEnds`, `LostTurnsAreKnown` |

Each run checks safety and liveness together, under the fairness of section 4
and so without symmetry; `legacy` and `ladder_policy` are safety only.

Why the bounds are enough. Two requests, workers or resolvers are what every
hazard of section 1 needs; that nothing changes with more is what the theorems
of section 5 say. Three turns let a late request meet a turn two versions on.
The clock has a state before and one at the deadline, which is also where the
idempotency keys of early turns end. A row has a first claim and a takeover, and
in `outbox` two more for the faults. In `ladder` the second job can be about the
level the first approval sets, so that a dialogue's older copy of the profile
differs from what the approver has read. `teach` has the shape of
`home.multiply-easy-tables`, the one catalogue pack whose note holds a relation
that completion does not require; its behaviours with that relation told include
those of the other eight. The policy run covers attempts up to and over each
threshold. `speech` needs one target of each kind, since every rule of the plan,
the guard and the firewall is about the asked target, the other one, or a number
that is neither or belongs to the method's name; the repeat limit is 100 in the code and 1 in the run, as the
counters only meet it by growing one at a time. `life` has a scenario of each
pack constructor, one with a second task of the same pack and one whose second
task depends on the first answer. `legacy` has one task of each constructor that
steps, slots or notes tell apart. Its single tasks of up to three slots meet every
kind of claim, alone and beside plain ones, and every label and aside that the
code treats differently; the four slots of the queue are told or not, and the two
problems of the park meet one claim of each worth. L3 and L2 are reached from L4
by lowering. `session` needs two
copies for replay and a later turn for publications in the wrong order. Between
them the runs fire every action.

Deadlock checking is off where the system may stop: all requests answered, all
claims of the bound used, the session completed.

Disagreements with the documents (quotations in `PROJECT.json`, `findings`):

- `turn_snapshot` fails: the purge writes back a state JSON older than a commit,
  so that every later response is a 409.
- `teach`: `docs/ARCHITECTURE.md` (323-325, 660-661) says that a violation of the
  evidence guard discards the whole understanding result, and that a failed repair
  changes no ledger and returns an error. The code keeps what the first attempt
  admitted and goes on with it; a turn in which nothing was admitted is answered
  with the same question, without an error. `UnderstandingIsFair` states what the
  code does, as does the repository's own test of it
  (`tests/test_dialogue_v2_runtime.py:811`); the documented policy is its mutant.
- `legacy`: `README.md:54` and `docs/ARCHITECTURE.md:562-563` say that only what is
  missing is asked for again. A reviewed sentence ends with the prompt of the whole
  step (`engine.py:1486`), so after half an answer, or after a digression at L4, it
  asks again for what is verified. `TurnIsCoherent` demands equality with the anchor
  of generated sentences only; of a reviewed one that names anything it demands all
  that is missing and nothing from another step.
- `speech`: the prompt (`llm.py:1520-1521`) forbids a model to announce a card when
  none has come out, and no guard enforces it (`dialogue_v2_speaker.py:855-891`).
  `CardWordsMatchTheScreen` is about the words the server writes or licenses.

Every property of a passing run has a mutant of the code in `PROJECT.json` that
breaks it; the mutants are defined next to the definitions they change.

### Observations

What the models show of the code beside the findings, found as counterexamples of
properties that were then restated or excepted:

- A turn committed after the raw deadline and before the hourly purge stores
  `raw_retention_until = NULL` (`repository.py:433`), and the purge selects only
  rows with a deadline (`repository.py:1678`): the wording of earlier turns stays.
  `docs/API_SPEC.md:441` promises 30 days.
- `save_practice_summary` looks up and inserts (`repository.py:196`). Two copies
  of a creation both miss the row, and the loser's `IntegrityError` is caught
  nowhere: a 500, where `docs/ARCHITECTURE.md:202` says losers converge.
- `save_profile` writes back a whole profile read earlier (`repository.py:305`),
  so a finishing dialogue can undo an ADJUST_DOWN approved in between.
- A request for help at L4-H0 swaps the question for `initial_help`, whose target
  is always the answer (`dialogue_v2_runtime.py:529`), also when the answer has
  been given, even in the same utterance; `docs/API_SPEC.md:498` says an answer
  is not asked for again. `AsksForItsInput` excepts that sentence.
- `_entry_level` accepts only L4 and L2 (`dialogue_v2_amusement_content.py:137`).
  A learner whose stable level is L3 or L0 cannot start a park conversation; in
  `life` that is the status `refused`.
- The response plan is built outside any `try` (`dialogue_v2_runtime.py:2042`).
  A question or a request to be told the answer, put while half-explaining a
  method at H0, breaks the plan's own contract (`:1425`), and the understood turn
  is a 500; `docs/ARCHITECTURE.md:662` promises a reviewed fallback. The same
  happens to the 101st aside or mistake in a row (`repeat_count` is at most
  100). `LostTurnsAreKnown` says that nothing else is lost.
- The answer firewall covers the targets asked for (`dialogue_v2_runtime.py:2483`);
  the value of another open target is kept out only if it is a number. That is
  what `AnswerStaysWithTheChild` states.
- The slower of two simultaneous copies of a response gets a 409 and not the
  first result, as `commit_turn` looks at the version before the response id
  (`repository.py:375`; `docs/ARCHITECTURE.md:668` promises the first result).
- A learner whose stable level is L0 opens at L0-H3 with `task_max_hint` H0, so
  the profile counts the joint session as an H0 success
  (`dialogue_v2_runtime.py:1661`); `H0SuccessIsUnaided` excepts that case.
- A session completed under H1 or H2 is never reward-eligible
  (`dialogue_v2_runtime.py:1575`; `docs/API_SPEC.md:735` allows it).

## 4. Fairness

- `TurnCommit`: the event loop runs a request that can go on, a model call ends
  (the gateway has time-outs), the purge loop runs, and PostgreSQL breaks a
  cycle of lock waits by failing a transaction (`DeadlockVictim`).
- `Outbox`: leases and back-offs end, a working dispatcher goes on, a crashed
  process is restarted, and a due row is claimed eventually: rows are claimed in
  the order of `available_at`, so strong fairness of `Claim` is justified. No
  fairness for Spring's good will: faults are bounded by `MaxFaults`, and the
  property excuses the case in which authentication failures stopped everyone.
- `CopyCache`: a started resolution goes on; nothing about leases.
- `ConversationCreate`: a received request goes on.
- `LadderAnalysis`: workers go on and leases end.
- `TeachingTurn`: `classifier_timeout_seconds` ends every attempt. The child is
  the environment: it falls silent again and again and presses the joint button
  when it keeps being offered. Without that a conversation may go on for ever,
  as it should.
- `LifeTurn`: the same child, for every task.
- `SpeechTurn`: the graph runs on, `speaker_timeout_seconds` and
  `bridge_timeout_seconds` end a call, and the copy resolver ends
  (`CopyCache!ResolveEnds`). No fairness for a model that answers.
- `SessionParent`: the event loop runs every handler and worker that can go on;
  store calls end by their time-out. Clients owe nothing.

## 5. Proofs

All theorems hold for every value of the constants under the named assumptions
of the modules (sets disjoint from their null value, bounds natural numbers, a
pack as its validators leave it, scenarios of the catalogue, at least one menu
within the budget). The numeric bounds are constants of the theorems like all
others. Every safety property that a passing run checks, invariant or action
property, is a theorem here; TLC checked each inductive invariant on the run's
instance before it was proved.

- **TurnCommitProofs.** `IInv == TypeOK /\ ProtocolInv` is inductive. It needs
  `TypeOK`, since a new turn id is in range only because the committing request
  holds the lock and its snapshot is the newest turn; `ProtocolInv` says that
  any stored or loaded copy of the state is a past state of the conversation
  (`Copy`), that each turn but the last has one observation, and that a lock
  holder's snapshot is current. From it: `SameIdSameTurn`,
  `VersionCountsTurns`, and `ImplementsLog`, the refinement of
  `ConversationLog` (only `CommitDone` is a log step).
  *Retention*: `RetentionInv` on top of `IInv`. With a deadline, each copy of the
  state either still carries it or carries no wording; a lock holder that took
  its clock before the deadline excludes a committed purge. From it
  `NoRawRecreated`. Without a deadline the purge never selects the row, from
  which `SnapshotCurrent` follows for those policies.
  *Credits*: each profile update under way belongs to a star note of its own, and
  no count of credits, stored or loaded, exceeds the notes whose update is over
  (`CreditInv`): the save that adds one settles one more. From it
  `CreditsBounded` for any number of requests.
- **OutboxProofs.** `OutboxInv`: claims are numbered by their row, so two live
  workers never hold the same number, and a decision is about what Spring did.
  `ClaimIsFenced`, the property of the run, is the conjunction of its parts.
- **CopyCacheProofs.** `CopyInv`: a ready row, and only that, has a safe
  artifact; a completing resolver holds a guarded draft. `PinnedInv` on top of
  it: a resolver at work has nothing pinned, and one that shows pinned text shows
  its conversation's, or for a legacy plan the reviewed wording; from both `TextOnceFixedStays`.
- **ConversationCreateProofs.** A row is written by the request it is named
  after, under that request's identity, and two rows never share the key. From
  it `SameIdentitySameConversation` and all parts of `AnswerIsRight`.
- **LadderProofs.** The policy first: better evidence never leads to a lower
  recommendation, and a move is one supported step, for all numbers of attempts,
  rules and sessions, where the run stops behind the thresholds. Then the jobs:
  `AnalysisInv == ShownIsApprovable /\ LeasesAreOld /\ OneAnalyst /\ RowsAreLocked`.
  `LeasesAreOld` (no lease is for an attempt not yet made) is what keeps two
  workers off the same attempt; `RowsAreLocked` says that an approver between
  its read and its commit owns the job row and, if there was one, the profile
  row, so that the level it compared is the level it replaces. From it
  `AnalysisIsFenced` and `ApprovalAppliesToItsLevel`.
- **TeachingTurnProofs.** `Inv` ties the provenance fields to the history of how
  relations were verified. The point of the strengthening is `ActiveInv`: a note
  relation is marked supported ahead of its verification only under a guiding
  card, and the card on the screen is the strongest ever shown; without it a
  relation could be both told and supported. `StepShape` reduces all actions to
  a concluded turn or a step that only moves the frame. From it
  `CreditIsTheChilds`. `TurnInv` on top of it says that the question is the one
  the ledger calls for at its level, that a card above L0 is on record, and that
  only a first attempt that admitted something leaves anything for the second;
  that a plan has a first open target is the least-number argument of the
  library. From it `SupportIsCoherent` and `UnderstandingIsFair`.
- **TurnGraphProofs.** For the parent graph
  `ParentInv == TypeOK /\ TablesInv /\ PlaceInv`, for all requests. `TablesInv`
  says that a response has no turn but the one after the turn it answers, so a
  copy that committed has moved the version past what a slower copy compares;
  `PlaceInv` says what a request holds at each place and where its graph waits.
  Without the first, a second
  commit could replace the turn a request already holds. From it `RunsOnce`,
  `AnswerIsItsTurn` and `CursorAdvances`. For the speech graph: the turn in
  preparation is what the state before it makes of an admitted response, and the
  screen is the last prepared one, whatever the models return; every sentence
  `Fits` its turn, a model's reaction because the guard keeps its numbers to the
  child's and `card_licence` is computed from the card of the turn itself. From it
  `AsksForItsInput`, `AnswerStaysWithTheChild`, `CardWordsMatchTheScreen` and
  `LostTurnsAreKnown`, the safety half of `EveryTurnIsAnswered`.
- **EngineProofs.** `LifeInv`, for every menu, stage, profile and admitted text
  (`LifeAssumption`, `ReadingsAssumption`): tasks not begun are empty, the note
  state of the current task agrees with the history of its relations (the
  argument of `TeachingTurnProofs`, per task), signatures and the flag of direct
  teaching speak of the closed tasks, and while a pinned menu is still to be
  picked only the screen can pick it (`PinnedInv`; without it a text could close
  the first task with no menu to select the second by). From it `NotesAreTheTasks`,
  `TaughtInEveryTask` and `TaskRecordIsFinal`.
  `LegacyInv`, for every scenario of `content.py`: the record of a session agrees
  with what the child told and did (`Sound`), and so does the session that a
  decision hands to the speaker (`Ready`), together with the histories as they
  are after the decision; that has to be part of the invariant because the stored
  session is a step behind while the speaker runs. A decision's reviewed sentence
  names nothing or all of its step (`Proper`), and the sentence on the screen fits
  the anchor (`SentenceFits`). `CatalogueFits` shows of each
  task constructor that every level asks for every slot and that only L0 is joint
  work, which is why a lowered question exists and differs (`LoweringIsVisible`,
  `LoweredReasks`). From it `NoteIsTheChilds`, `EndIsEarned`, `TurnIsCoherent` and
  `VisiblyNew`.

Type correctness is part of each inductive invariant and so proved wherever the
module states it. The inductive invariants themselves and `VersionCountsTurns`,
`SnapshotCurrent` (where there is no deadline) and `OneGenerator` are left to the
proofs.

Only model-checked: the liveness properties (each request is answered, events
get sent, a resolution ends, jobs settle, a silent child gets to the end, every
turn ends, no worker is left behind), since TLAPS proves none under fairness; and
the disagreement of `turn_snapshot`, which is a counterexample.

## 6. Plan

In this order:

1. Startup maintenance against a serving process, in the shape of the purge of
   `TurnCommit`, with its invariant and proof: the one hazard of `PROJECT.json`
   without a property.
2. Refinement: that `SessionParent`'s turn service, as it is used there,
   implements `ConversationLog` for its conversation.

## 7. Not modelled

Reports and dictionary (reads and static data), the wording and the numbers in
the content modules, the string functions behind the guards (number extraction,
forbidden surfaces, quotation spans: their verdicts are inputs), training and
its datasets (offline), cryptography and settings, runtime selection (a pure hash
of the request; the engine is fixed at creation), event framing and rate limits
of the HTTP layer, and the one-off rewriting of stored rows at startup.
