--------------------- MODULE ConversationCreateProofs ---------------------
(***************************************************************************)
(* The safety properties of ConversationCreate for any number of requests, *)
(* learners, sessions, scenarios and drills, in both schemas.              *)
(***************************************************************************)
EXTENDS ConversationCreate, TLAPS

\* A request that has started has a body, and one that saves a drill has an
\* id and a summary in it.
Received ==
    \A r \in Requests :
        /\ pc[r] # "idle" => input[r] # None
        /\ pc[r] \in {"get", "put"} => input[r].practice # None /\ input[r].payload # None
        /\ pc[r] = "read" => input[r].practice # None
        /\ reply[r] # "none" => pc[r] = "done"

\* A row was written by a request that is past its insert, under the
\* identity of that request.
OwnRow ==
    \A c \in Requests :
        /\ conversation[c] # None => /\ pc[c] \in {"enroll", "done"}
                                     /\ input[c] # None
                                     /\ Key(conversation[c]) = Key(input[c])
        /\ pc[c] = "enroll" => conversation[c] # None

\* The database elects one conversation per identity.
OneWinner ==
    \A c, d \in Requests :
        /\ conversation[c] # None /\ conversation[d] # None
        /\ conversation[c].session # None
        /\ Key(conversation[c]) = Key(conversation[d])
        => c = d

\* A request about to insert holds the stored summary of its own learner.
Prepared ==
    \A r \in Requests : pc[r] \in {"prepare", "insert"} /\ input[r].practice # None =>
        practice[input[r].practice] = [learner |-> input[r].learner, payload |-> summary[r]]

\* The row a loser collided with stays.
LoserCollides == \A r \in Requests : pc[r] = "winner" => Collides(input[r])

CreateInv ==
    /\ TypeOK /\ Received /\ OwnRow /\ OneWinner /\ Prepared /\ LoserCollides
    /\ AnswerIsTheRequested /\ FirstPracticeCounts /\ ConflictsExplained

LEMMA BodyTyped ==
    ASSUME TypeOK, NEW r \in Requests, input[r] # None
    PROVE  /\ input[r] \in Inputs
           /\ input[r] \in Bodies
           /\ Valid(input[r])
           /\ input[r].learner \in Learners
           /\ input[r].session \in Sessions \cup {None}
           /\ input[r].scenario \in Scenarios
           /\ input[r].practice \in Practices \cup {None}
           /\ input[r].payload \in Payloads \cup {None}
  <1>1. input[r] \in Inputs
    BY DEF TypeOK
  <1>2. input[r] \in Bodies /\ Valid(input[r])
    BY <1>1, InputsAssumption
  <1>. QED
    BY <1>1, <1>2 DEF Bodies

\* A record is not a missing row.
LEMMA ResultPresent ==
    ASSUME NEW l \in Learners, NEW w \in Payloads \cup {None}
    PROVE  [learner |-> l, payload |-> w] # None
  <1>1. [learner |-> l, payload |-> w] \in [learner : Learners, payload : Payloads \cup {None}]
    OBVIOUS
  <1>. QED
    BY <1>1, NoneAssumption

LEMMA InitHolds == Init => CreateInv
  <1>. SUFFICES ASSUME Init PROVE CreateInv
    OBVIOUS
  <1>1. TypeOK
    BY DEF Init, TypeOK, Steps, Replies
  <1>. QED
    BY <1>1 DEF Init, CreateInv, Received, OwnRow, OneWinner, Prepared, LoserCollides,
                AnswerIsTheRequested, FirstPracticeCounts, ConflictsExplained

\* A step of request r that leaves the tables alone and goes on.
LEMMA MovePreserves ==
    ASSUME CreateInv, NEW r \in Requests, NEW step, Goto(r, step),
           UNCHANGED tables, UNCHANGED input,
           pc[r] \notin {"idle", "done", "enroll"},
           summary' \in [Requests -> Payloads \cup {None}],
           \A q \in Requests \ {r} : summary'[q] = summary[q],
           step \in {"put", "read", "prepare", "insert", "get", "winner"},
           step = "read" => input[r].practice # None,
           step \in {"get", "put"} => input[r].practice # None /\ input[r].payload # None,
           step = "winner" => Collides(input[r]),
           step \in {"prepare", "insert"} /\ input[r].practice # None =>
               practice[input[r].practice] =
                   [learner |-> input[r].learner, payload |-> summary'[r]]
    PROVE  CreateInv'
  <1>1. /\ pc' = [pc EXCEPT ![r] = step]
        /\ UNCHANGED <<practice, conversation, parents, input, reply, answered>>
    BY DEF Goto, tables
  <1>2. TypeOK'
    BY <1>1 DEF CreateInv, TypeOK, Steps, Replies
  <1>3. pc \in [Requests -> Steps]
    BY DEF CreateInv, TypeOK
  <1>4. Received'
    BY <1>1, <1>3 DEF CreateInv, Received, Steps, Replies
  <1>5. OwnRow'
    BY <1>1, <1>3 DEF CreateInv, OwnRow, Key
  <1>6. OneWinner'
    BY <1>1 DEF CreateInv, OneWinner, Key
  <1>7. Prepared'
    BY <1>1, <1>3 DEF CreateInv, Prepared
  <1>8. LoserCollides'
    BY <1>1, <1>3 DEF CreateInv, LoserCollides, Collides, Key, OldKey
  <1>9. AnswerIsTheRequested' /\ ConflictsExplained' /\ FirstPracticeCounts'
    BY <1>1 DEF CreateInv, AnswerIsTheRequested, ConflictsExplained, FirstPracticeCounts,
                Key, OldKey
  <1>. QED
    BY <1>2, <1>4, <1>5, <1>6, <1>7, <1>8, <1>9 DEF CreateInv

\* A step of request r that ends it and leaves the tables alone.
LEMMA ReplyPreserves ==
    ASSUME CreateInv, NEW r \in Requests, NEW what, NEW c, Reply(r, what, c),
           practice' = practice, conversation' = conversation, parents' \subseteq Requests,
           UNCHANGED <<input, summary>>,
           pc[r] # "idle",
           what \in {"created", "saved", "rejected", "conflict", "failed"},
           c \in Requests \cup {None},
           what = "created" =>
               c \in Requests /\ conversation[c] # None /\ Key(conversation[c]) = Key(input[r]),
           what = "conflict" =>
               \/ input[r].practice # None /\ input[r].payload # None
               \/ /\ Transition
                  /\ \E d \in Requests : /\ conversation[d] # None
                                         /\ OldKey(conversation[d]) = OldKey(input[r])
                                         /\ Key(conversation[d]) # Key(input[r])
    PROVE  CreateInv'
  <1>1. /\ pc' = [pc EXCEPT ![r] = "done"]
        /\ reply' = [reply EXCEPT ![r] = what]
        /\ answered' = [answered EXCEPT ![r] = c]
        /\ UNCHANGED <<practice, conversation, input, summary>>
    BY DEF Reply
  <1>2. TypeOK'
    BY <1>1 DEF CreateInv, TypeOK, Steps, Replies
  <1>3. /\ pc \in [Requests -> Steps]
        /\ reply \in [Requests -> Replies]
        /\ answered \in [Requests -> Requests \cup {None}]
    BY DEF CreateInv, TypeOK
  <1>4. Received'
    BY <1>1, <1>3 DEF CreateInv, Received, Steps, Replies
  <1>5. OwnRow'
    BY <1>1, <1>3 DEF CreateInv, OwnRow, Key
  <1>6. OneWinner'
    BY <1>1 DEF CreateInv, OneWinner, Key
  <1>7. Prepared'
    BY <1>1, <1>3 DEF CreateInv, Prepared
  <1>8. LoserCollides'
    BY <1>1, <1>3 DEF CreateInv, LoserCollides, Collides, Key, OldKey
  <1>9. AnswerIsTheRequested'
    BY <1>1, <1>3 DEF CreateInv, AnswerIsTheRequested, Key
  <1>10. ConflictsExplained'
    BY <1>1, <1>3 DEF CreateInv, ConflictsExplained, Key, OldKey
  <1>11. FirstPracticeCounts'
    BY <1>1 DEF CreateInv, FirstPracticeCounts
  <1>. QED
    BY <1>2, <1>4, <1>5, <1>6, <1>7, <1>8, <1>9, <1>10, <1>11 DEF CreateInv

LEMMA ReceivePreserves ==
    ASSUME CreateInv, NEW r \in Requests, Receive(r)
    PROVE  CreateInv'
  <1>1. PICK i \in Inputs :
        /\ input' = [input EXCEPT ![r] = i]
        /\ summary' = [summary EXCEPT ![r] = i.payload]
        /\ Goto(r, CASE i.kind = "practice" -> "get"
                     [] i.kind = "create" /\ i.session # None -> "lookup"
                     [] OTHER -> PracticeStep(i))
    BY DEF Receive
  <1>2. PICK step \in {"get", "lookup", "prepare", "read"} :
        /\ pc' = [pc EXCEPT ![r] = step]
        /\ step = "get" => i.kind = "practice" \/ (i.practice # None /\ i.payload # None)
        /\ step = "read" => i.practice # None
        /\ step = "prepare" => i.practice = None
    BY <1>1 DEF Goto, PracticeStep
  <1>3. UNCHANGED <<practice, conversation, parents, reply, answered>> /\ pc[r] = "idle"
    BY <1>1 DEF Receive, tables, Goto
  <1>4. i \in Bodies /\ Valid(i) /\ i # None
    BY InputsAssumption, NoneAssumption
  <1>5. i.payload \in Payloads \cup {None}
    BY <1>4 DEF Bodies
  <1>6. TypeOK'
    BY <1>1, <1>2, <1>3, <1>5 DEF CreateInv, TypeOK, Steps
  <1>7. /\ pc \in [Requests -> Steps] /\ input \in [Requests -> Inputs \cup {None}]
        /\ summary \in [Requests -> Payloads \cup {None}]
    BY DEF CreateInv, TypeOK
  <1>8. conversation[r] = None /\ reply[r] = "none" /\ input'[r] = i /\ pc'[r] = step
    BY <1>1, <1>2, <1>3, <1>7 DEF CreateInv, OwnRow, Received
  <1>9. \A q \in Requests \ {r} :
            pc'[q] = pc[q] /\ input'[q] = input[q] /\ summary'[q] = summary[q]
    BY <1>1, <1>2, <1>7
  <1>10. Received'
    BY <1>2, <1>3, <1>4, <1>8, <1>9 DEF CreateInv, Received, Valid
  <1>11. OwnRow'
    BY <1>2, <1>3, <1>8, <1>9 DEF CreateInv, OwnRow, Key
  <1>12. OneWinner' /\ FirstPracticeCounts'
    BY <1>3 DEF CreateInv, OneWinner, FirstPracticeCounts, Key
  <1>13. Prepared'
    BY <1>2, <1>3, <1>8, <1>9 DEF CreateInv, Prepared
  <1>14. LoserCollides'
    BY <1>2, <1>3, <1>8, <1>9 DEF CreateInv, LoserCollides, Collides, Key, OldKey
  <1>15. AnswerIsTheRequested'
    BY <1>3, <1>8, <1>9 DEF CreateInv, AnswerIsTheRequested, Key
  <1>16. ConflictsExplained'
    BY <1>3, <1>8, <1>9 DEF CreateInv, ConflictsExplained, Key, OldKey
  <1>. QED
    BY <1>6, <1>10, <1>11, <1>12, <1>13, <1>14, <1>15, <1>16 DEF CreateInv

LEMMA PutPreserves ==
    ASSUME CreateInv, NEW r \in Requests, PutPractice(r)
    PROVE  CreateInv'
  <1>. DEFINE p == input[r].practice
  <1>1. pc[r] = "put" /\ input[r] # None /\ p # None /\ input[r].payload # None
    BY DEF PutPractice, CreateInv, Received
  <1>2. p \in Practices /\ input[r].payload \in Payloads /\ input[r].learner \in Learners
    BY <1>1, BodyTyped DEF CreateInv
  <1>3. CASE practice[p] # None
    <2>1. Reply(r, "conflict", None) /\ UNCHANGED <<practice, conversation, parents, input, summary>>
      BY <1>3 DEF PutPractice
    <2>. QED
      BY <1>1, <2>1, ReplyPreserves DEF CreateInv, TypeOK
  <1>4. CASE practice[p] = None
    <2>. DEFINE new == [learner |-> input[r].learner, payload |-> input[r].payload]
    <2>1. /\ practice' = [practice EXCEPT ![p] = new]
          /\ UNCHANGED <<conversation, parents, input, summary>>
          /\ Saved(r)
      BY <1>4 DEF PutPractice
    <2>2. new \in Results
      BY <1>2 DEF Results
    <2>3. practice' \in [Practices -> Results \cup {None}]
      BY <2>1, <2>2 DEF CreateInv, TypeOK
    <2>4. /\ pc' \in {[pc EXCEPT ![r] = "read"], [pc EXCEPT ![r] = "done"]}
          /\ reply' \in {reply, [reply EXCEPT ![r] = "saved"]}
          /\ answered' \in {answered, [answered EXCEPT ![r] = None]}
          /\ reply' # reply => pc' = [pc EXCEPT ![r] = "done"]
      BY <2>1 DEF Saved, Reply, Goto
    <2>5. TypeOK'
      BY <2>1, <2>3, <2>4 DEF CreateInv, TypeOK, Steps, Replies
    <2>6. \A x \in Practices : practice[x] # None => practice'[x] = practice[x]
      BY <2>1, <1>4 DEF CreateInv, TypeOK
    <2>7. /\ pc \in [Requests -> Steps] /\ reply \in [Requests -> Replies]
          /\ answered \in [Requests -> Requests \cup {None}]
      BY DEF CreateInv, TypeOK
    <2>8. reply[r] = "none"
      BY <1>1 DEF CreateInv, Received
    <2>9. Received'
      BY <1>1, <2>1, <2>4, <2>7 DEF CreateInv, Received
    <2>10. OwnRow' /\ OneWinner' /\ LoserCollides'
      BY <1>1, <2>1, <2>4, <2>7
         DEF CreateInv, OwnRow, OneWinner, LoserCollides, Collides, Key, OldKey
    <2>11. AnswerIsTheRequested' /\ ConflictsExplained'
      BY <2>1, <2>4, <2>7, <2>8 DEF CreateInv, AnswerIsTheRequested, ConflictsExplained, Key, OldKey
    <2>12. Prepared'
      <3>. SUFFICES ASSUME NEW q \in Requests, pc'[q] \in {"prepare", "insert"},
                           input[q].practice # None
                    PROVE  practice'[input[q].practice] =
                             [learner |-> input[q].learner, payload |-> summary[q]]
        BY <2>1 DEF Prepared
      <3>1. pc[q] \in {"prepare", "insert"}
        BY <2>4, <2>7
      <3>2. practice[input[q].practice] = [learner |-> input[q].learner, payload |-> summary[q]]
        BY <3>1 DEF CreateInv, Prepared
      <3>3. /\ input[q].practice \in Practices
            /\ input[q].learner \in Learners /\ summary[q] \in Payloads \cup {None}
        BY <3>1, BodyTyped DEF CreateInv, Received, TypeOK
      <3>4. practice[input[q].practice] # None
        BY <3>2, <3>3, ResultPresent
      <3>. QED
        BY <2>6, <3>2, <3>3, <3>4
    <2>13. FirstPracticeCounts'
      <3>. SUFFICES ASSUME NEW c \in Requests, conversation[c] # None,
                           conversation[c].practice # None
                    PROVE  practice'[conversation[c].practice] =
                             [learner |-> conversation[c].learner,
                              payload |-> conversation[c].payload]
        BY <2>1 DEF FirstPracticeCounts
      <3>1. /\ conversation[c].practice \in Practices
            /\ conversation[c].learner \in Learners
            /\ conversation[c].payload \in Payloads \cup {None}
            /\ practice[conversation[c].practice] =
                 [learner |-> conversation[c].learner, payload |-> conversation[c].payload]
        BY DEF CreateInv, TypeOK, FirstPracticeCounts, Rows
      <3>2. practice[conversation[c].practice] # None
        BY <3>1, ResultPresent
      <3>. QED
        BY <2>6, <3>1, <3>2
    <2>. QED
      BY <2>5, <2>9, <2>10, <2>11, <2>12, <2>13 DEF CreateInv
  <1>. QED
    BY <1>3, <1>4

\* The row request r inserts is the only one of its identity.
LEMMA StorePreserves ==
    ASSUME CreateInv, NEW r \in Requests, pc[r] = "insert", Store(r),
           Goto(r, "enroll") \/ Reply(r, "failed", None),
           UNCHANGED <<practice, parents, input, summary>>
    PROVE  CreateInv'
  <1>1. /\ conversation' = [conversation EXCEPT ![r] = NewRow(r)]
        /\ ~ Collides(input[r])
        /\ conversation \in [Requests -> Rows \cup {None}]
    BY DEF Store, CreateInv, TypeOK
  <1>2. input[r] # None /\ conversation[r] = None /\ reply[r] = "none"
    BY DEF CreateInv, Received, OwnRow
  <1>3. NewRow(r) \in Rows
    BY <1>2, BodyTyped DEF CreateInv, TypeOK, NewRow, Rows
  <1>4. NewRow(r) # None /\ Key(NewRow(r)) = Key(input[r]) /\ OldKey(NewRow(r)) = OldKey(input[r])
    BY <1>3, NoneAssumption DEF NewRow, Key, OldKey
  <1>5. /\ conversation'[r] = NewRow(r)
        /\ \A c \in Requests \ {r} : conversation'[c] = conversation[c]
    BY <1>1
  <1>6. /\ pc' \in {[pc EXCEPT ![r] = "enroll"], [pc EXCEPT ![r] = "done"]}
        /\ reply' \in {reply, [reply EXCEPT ![r] = "failed"]}
        /\ answered' \in {answered, [answered EXCEPT ![r] = None]}
        /\ reply' # reply => pc' = [pc EXCEPT ![r] = "done"]
    BY DEF Goto, Reply
  <1>7. conversation' \in [Requests -> Rows \cup {None}]
    BY <1>1, <1>3
  <1>8. TypeOK'
    BY <1>6, <1>7 DEF CreateInv, TypeOK, Steps, Replies
  <1>9. /\ pc \in [Requests -> Steps] /\ reply \in [Requests -> Replies]
        /\ answered \in [Requests -> Requests \cup {None}]
    BY DEF CreateInv, TypeOK
  <1>10. Received'
    BY <1>2, <1>6, <1>9 DEF CreateInv, Received
  <1>11. OwnRow'
    BY <1>2, <1>4, <1>5, <1>6, <1>9 DEF CreateInv, OwnRow, Key
  <1>12. OneWinner'
    <2>. SUFFICES ASSUME NEW c \in Requests, NEW d \in Requests,
                         conversation'[c] # None, conversation'[d] # None,
                         conversation'[c].session # None,
                         Key(conversation'[c]) = Key(conversation'[d])
                  PROVE  c = d
      BY DEF OneWinner, Key
    <2>1. conversation'[d].session # None
      BY DEF Key
    <2>2. CASE c # r /\ d # r
      BY <2>2, <1>5 DEF CreateInv, OneWinner
    <2>3. CASE c = r /\ d # r
      BY <2>3, <1>1, <1>4, <1>5 DEF Collides, NewRow
    <2>4. CASE c # r /\ d = r
      BY <2>1, <2>4, <1>1, <1>4, <1>5 DEF Collides, NewRow
    <2>. QED
      BY <2>2, <2>3, <2>4
  <1>13. Prepared'
    BY <1>6, <1>9 DEF CreateInv, Prepared
  <1>14. LoserCollides'
    <2>. SUFFICES ASSUME NEW q \in Requests, pc'[q] = "winner"
                  PROVE  Collides(input[q])'
      BY DEF LoserCollides
    <2>1. Collides(input[q])
      BY <1>6, <1>9 DEF CreateInv, LoserCollides
    <2>2. \A c \in Requests : conversation[c] # None => conversation'[c] = conversation[c]
      BY <1>2, <1>5
    <2>. QED
      BY <2>1, <2>2 DEF Collides, Key, OldKey
  <1>15. AnswerIsTheRequested'
    BY <1>2, <1>5, <1>6, <1>9 DEF CreateInv, AnswerIsTheRequested, Key
  <1>16. ConflictsExplained'
    BY <1>2, <1>5, <1>6, <1>9 DEF CreateInv, ConflictsExplained, Key, OldKey
  <1>17. FirstPracticeCounts'
    <2>1. input[r].practice # None =>
            practice[input[r].practice] = [learner |-> input[r].learner, payload |-> summary[r]]
      BY DEF CreateInv, Prepared
    <2>. QED
      BY <1>5, <2>1 DEF CreateInv, FirstPracticeCounts, NewRow
  <1>. QED
    BY <1>8, <1>10, <1>11, <1>12, <1>13, <1>14, <1>15, <1>16, <1>17 DEF CreateInv

LEMMA StepPreserves ==
    ASSUME CreateInv, NEW r \in Requests, Step(r)
    PROVE  CreateInv'
  <1>0. /\ summary \in [Requests -> Payloads \cup {None}] /\ parents \subseteq Requests
        /\ tables' = tables => /\ practice' = practice /\ conversation' = conversation
                               /\ parents' = parents
    BY DEF CreateInv, TypeOK, tables
  <1>1. CASE Lookup(r)
    <2>1. CASE \E c \in Existing(input[r]) : Reply(r, "created", c)
      BY <1>0, <1>1, <2>1, ReplyPreserves DEF Lookup, Existing
    <2>2. CASE Goto(r, PracticeStep(input[r]))
      <3>1. PracticeStep(input[r]) \in {"prepare", "get", "read"}
        BY DEF PracticeStep
      <3>. QED
        BY <1>0, <1>1, <2>2, <3>1, MovePreserves DEF Lookup, PracticeStep
    <2>. QED
      BY <1>1, <2>1, <2>2 DEF Lookup
  <1>2. CASE GetPractice(r)
    <2>1. input[r].practice # None /\ input[r].payload # None
      BY <1>2 DEF GetPractice, CreateInv, Received
    <2>2. CASE Goto(r, "put") \/ Goto(r, "read")
      BY <1>0, <1>2, <2>1, <2>2, MovePreserves DEF GetPractice
    <2>3. CASE Reply(r, "saved", None)
      BY <1>0, <1>2, <2>3, ReplyPreserves DEF GetPractice
    <2>. QED
      BY <1>2, <2>2, <2>3 DEF GetPractice, Saved
  <1>3. CASE PutPractice(r)
    BY <1>3, PutPreserves
  <1>4. CASE ReadPractice(r)
    <2>. DEFINE stored == practice[input[r].practice]
    <2>1. CASE Reply(r, "rejected", None) /\ UNCHANGED summary
      BY <1>0, <1>4, <2>1, ReplyPreserves DEF ReadPractice
    <2>2. CASE /\ stored # None /\ stored.learner = input[r].learner
               /\ Goto(r, "prepare") /\ summary' = [summary EXCEPT ![r] = stored.payload]
      <3>1. input[r] # None /\ input[r].practice # None
        BY <1>4 DEF ReadPractice, CreateInv, Received
      <3>2. stored \in Results
        BY <2>2, <3>1, BodyTyped DEF CreateInv, TypeOK
      <3>3. stored = [learner |-> input[r].learner, payload |-> stored.payload]
        BY <2>2, <3>2 DEF Results
      <3>4. /\ summary' \in [Requests -> Payloads \cup {None}]
            /\ summary'[r] = stored.payload
            /\ \A q \in Requests \ {r} : summary'[q] = summary[q]
        BY <1>0, <2>2, <3>2 DEF Results
      <3>. QED
        BY <1>4, <2>2, <3>3, <3>4, MovePreserves DEF ReadPractice
    <2>. QED
      BY <1>4, <2>1, <2>2 DEF ReadPractice
  <1>5. CASE Prepare(r)
    <2>1. CASE Goto(r, "insert")
      <3>1. input[r].practice # None =>
              practice[input[r].practice] = [learner |-> input[r].learner, payload |-> summary[r]]
        BY <1>5 DEF Prepare, CreateInv, Prepared
      <3>. QED
        BY <1>0, <1>5, <2>1, <3>1, MovePreserves DEF Prepare
    <2>2. CASE Reply(r, "rejected", None)
      BY <1>0, <1>5, <2>2, ReplyPreserves DEF Prepare
    <2>. QED
      BY <1>5, <2>1, <2>2 DEF Prepare
  <1>6. CASE Insert(r)
    <2>1. CASE Store(r) /\ (Goto(r, "enroll") \/ Reply(r, "failed", None))
      BY <1>6, <2>1, StorePreserves DEF Insert
    <2>2. CASE Collides(input[r]) /\ Goto(r, "winner") /\ UNCHANGED conversation
      <3>1. UNCHANGED tables
        BY <1>6, <2>2 DEF Insert, tables
      <3>. QED
        BY <1>0, <1>6, <2>2, <3>1, MovePreserves DEF Insert
    <2>. QED
      BY <1>6, <2>1, <2>2 DEF Insert
  <1>7. CASE ReadWinner(r)
    <2>1. CASE \E c \in Existing(input[r]) : Reply(r, "created", c)
      BY <1>0, <1>7, <2>1, ReplyPreserves DEF ReadWinner, Existing
    <2>2. CASE Existing(input[r]) = {} /\ Reply(r, "conflict", None)
      <3>1. PICK c \in Requests :
              /\ conversation[c] # None
              /\ \/ Key(conversation[c]) = Key(input[r])
                 \/ Transition /\ OldKey(conversation[c]) = OldKey(input[r])
        BY <1>7 DEF ReadWinner, CreateInv, LoserCollides, Collides
      <3>2. Key(conversation[c]) # Key(input[r])
        BY <2>2, <3>1 DEF Existing
      <3>. QED
        BY <1>0, <1>7, <2>2, <3>1, <3>2, ReplyPreserves DEF ReadWinner
    <2>. QED
      BY <1>7, <2>1, <2>2 DEF ReadWinner
  <1>8. CASE Enroll(r)
    <2>1. parents' \subseteq Requests
      BY <1>0, <1>8 DEF Enroll
    <2>2. conversation[r] # None /\ Key(conversation[r]) = Key(input[r])
      BY <1>8 DEF Enroll, CreateInv, OwnRow
    <2>. QED
      BY <1>8, <2>1, <2>2, ReplyPreserves DEF Enroll
  <1>. QED
    BY <1>1, <1>2, <1>3, <1>4, <1>5, <1>6, <1>7, <1>8 DEF Step

\* The inductive invariant of the creation protocol.
THEOREM CreateSafe == Spec => []CreateInv
  <1>1. CreateInv /\ [Next]_vars => CreateInv'
    <2>. SUFFICES ASSUME CreateInv, [Next]_vars PROVE CreateInv'
      OBVIOUS
    <2>1. ASSUME NEW r \in Requests, Receive(r) PROVE CreateInv'
      BY <2>1, ReceivePreserves
    <2>2. ASSUME NEW r \in Requests, Step(r) PROVE CreateInv'
      BY <2>2, StepPreserves
    <2>3. ASSUME NEW r \in Requests, Fail(r) PROVE CreateInv'
      <3>1. parents' = parents /\ parents \subseteq Requests /\ practice' = practice
            /\ conversation' = conversation
        BY <2>3 DEF Fail, tables, CreateInv, TypeOK
      <3>. QED
        BY <2>3, <3>1, ReplyPreserves DEF Fail
    <2>4. CASE UNCHANGED vars
      BY <2>4 DEF vars, CreateInv, TypeOK, Received, OwnRow, OneWinner, Prepared, LoserCollides,
                  Collides, Key, OldKey, AnswerIsTheRequested, FirstPracticeCounts,
                  ConflictsExplained
    <2>. QED
      BY <2>1, <2>2, <2>3, <2>4 DEF Next
  <1>. QED
    BY InitHolds, <1>1, PTL DEF Spec

\* Whatever requests race, retries of one creation are given one conversation.
THEOREM SameIdentitySameConversationHolds == Spec => []SameIdentitySameConversation
  <1>1. CreateInv => SameIdentitySameConversation
    <2>. SUFFICES ASSUME CreateInv, NEW r \in Requests, NEW q \in Requests,
                         reply[r] = "created", reply[q] = "created",
                         input[r].session # None, Key(input[r]) = Key(input[q])
                  PROVE  answered[r] = answered[q]
      BY DEF SameIdentitySameConversation
    <2>1. /\ answered[r] \in Requests /\ conversation[answered[r]] # None
          /\ answered[q] \in Requests /\ conversation[answered[q]] # None
          /\ Key(conversation[answered[r]]) = Key(input[r])
          /\ Key(conversation[answered[q]]) = Key(input[q])
      BY DEF CreateInv, AnswerIsTheRequested
    <2>2. conversation[answered[r]].session # None
      BY <2>1 DEF Key
    <2>. QED
      BY <2>1, <2>2 DEF CreateInv, OneWinner
  <1>. QED
    BY CreateSafe, <1>1, PTL

\* No request is answered with a conversation that is not the one it asked for.
THEOREM AnswerIsTheRequestedHolds == Spec => []AnswerIsTheRequested
  <1>1. CreateInv => AnswerIsTheRequested
    BY DEF CreateInv
  <1>. QED
    BY CreateSafe, <1>1, PTL

\* A drill is taught from the first summary stored for it, to its own learner.
THEOREM FirstPracticeCountsHolds == Spec => []FirstPracticeCounts
  <1>1. CreateInv => FirstPracticeCounts
    BY DEF CreateInv
  <1>. QED
    BY CreateSafe, <1>1, PTL

\* The two ways a creation can end in an uncaught IntegrityError.
THEOREM ConflictsExplainedHolds == Spec => []ConflictsExplained
  <1>1. CreateInv => ConflictsExplained
    BY DEF CreateInv
  <1>. QED
    BY CreateSafe, <1>1, PTL

\* Every answer of create_conversation is right in all it says.
THEOREM AnswerIsRightHolds == Spec => []AnswerIsRight
  <1>1. CreateInv => AnswerIsRight
    BY DEF CreateInv, AnswerIsRight
  <1>. QED
    BY <1>1, CreateSafe, PTL

===========================================================================
