------------------------- MODULE NotificationProofs -------------------------
(***************************************************************************)
(* Theorems about Telegram notifications: AlertDelivery, for every set of  *)
(* alerts and tests, every attempt limit, batch size and number of         *)
(* interruptions; and TelegramPairing, for any number of saves.            *)
(***************************************************************************)
EXTENDS AlertDelivery, TelegramPairing, FiniteSetTheorems, TLAPS

\* TypeOK without the bound on attempts, which is a result and not a type.
Shape ==
  /\ status \in [Items -> Queued \cup Final \cup {"absent", "deleted"}]
  /\ attempts \in [Items -> Nat]
  /\ due \in SUBSET Items
  /\ created \in [Items -> Nat]
  /\ connected \in BOOLEAN
  /\ camera \in {"loud", "silenced", "gone"}
  /\ work \in [Workers -> [batch : SUBSET Items, item : Items \cup {NoItem},
                           answer : Answers \cup {"none"}, attempt : Nat]]
  /\ accepted \in [Items -> 0..2]
  /\ unrecorded \in SUBSET Items
  /\ refusals \in SUBSET Items
  /\ mishaps \in 0..MaxMishaps

\* What a worker holds was read from the outbox, and the answer it is about
\* to record is the one Telegram gave for a row of its batch.
Holding ==
  /\ work["request"].batch \subseteq TestAlerts
  /\ \A a \in Alerts : a \in work["loop"].batch => status[a] \in Queued \cup {"deleted"}
  /\ \A t \in TestAlerts : status[t] # "deleted"
  /\ \A w \in Workers : \A i \in work[w].batch : status[i] # "absent"
  /\ \A w \in Workers :
       /\ work[w].answer # "none" => work[w].item \in work[w].batch
       /\ work[w].answer = "ok" => accepted[work[w].item] > 0
       /\ work[w].answer = "refused" => work[w].item \in refusals
       /\ work[w].attempt # 0 => work[w].answer \in {"later", "refused"}

\* Attempts counted, plus those the holders of a row have still to count.
Owed(w, i) == IF i \in work[w].batch THEN 1 ELSE 0
Counted ==
  \A i \in Items :
    /\ status[i] = "absent" => attempts[i] = 0
    /\ status[i] \in Queued => attempts[i] < MaxAttempts
    /\ i \in Alerts => attempts[i] <= MaxAttempts
    /\ attempts[i] + Owed("loop", i) + Owed("request", i) <= MaxAttempts + 1

\* A count read for a failure is within the limit still when it is written, although
\* the other holder of a test may count in between.
ReadInLimit ==
  \A w \in Workers : \A i \in Items : work[w].attempt # 0 /\ i = work[w].item =>
    /\ i \in Alerts \/ status[i] \in Queued => work[w].attempt <= MaxAttempts
    /\ \A v \in Workers \ {w} : work[w].attempt + Owed(v, i) <= MaxAttempts + 1

\* An alert that arrived, and not unrecorded, will not be sent again.
Delivered ==
  \A a \in Alerts : accepted[a] > 0 /\ a \notin unrecorded =>
    /\ accepted[a] = 1
    /\ \/ work["loop"].answer = "ok" /\ work["loop"].item = a
       \/ a \notin work["loop"].batch /\ status[a] \notin Queued

Absent == \A i \in Items : status[i] = "absent" => accepted[i] = 0

DeliveryInv ==
  Shape /\ Holding /\ Counted /\ ReadInLimit /\ Delivered /\ Absent /\ SettledForCause

-----------------------------------------------------------------------------
LEMMA OldestIn ==
  ASSUME NEW n, NEW rows
  PROVE  Oldest(n, rows) \subseteq rows
BY DEF Oldest

LEMMA ConstantFacts ==
  /\ Alerts \cap TestAlerts = {} /\ NoItem \notin Items
  /\ Items = Alerts \cup TestAlerts
  /\ CameraAlerts \subseteq Alerts
  /\ MaxAttempts \in Nat /\ MaxAttempts >= 1 /\ MaxMishaps \in Nat
  /\ "loop" \in Workers /\ "request" \in Workers
  /\ Workers = {"loop", "request"}
BY AlertDeliveryAssumption DEF Items, Alerts, Workers

LEMMA InitInv == Init => DeliveryInv
<1> SUFFICES ASSUME Init PROVE DeliveryInv
  OBVIOUS
<1>1. \A w \in Workers : /\ work[w].batch = {} /\ work[w].answer = "none"
                         /\ work[w].item = NoItem /\ work[w].attempt = 0
  BY DEF Init, Resting
<1>2. Shape
  <2>1. work \in [Workers -> [batch : SUBSET Items, item : Items \cup {NoItem},
                              answer : Answers \cup {"none"}, attempt : Nat]]
    BY DEF Init, Resting
  <2>2. mishaps \in 0..MaxMishaps
    BY ConstantFacts DEF Init
  <2>3. status \in [Items -> Queued \cup Final \cup {"absent", "deleted"}]
    BY DEF Init
  <2>4. accepted \in [Items -> 0..2]
    BY DEF Init
  <2> QED  BY <2>1, <2>2, <2>3, <2>4 DEF Init, Shape
<1>3. Holding
  BY <1>1, ConstantFacts DEF Init, Holding
<1>4. Counted /\ ReadInLimit
  BY <1>1, ConstantFacts DEF Init, Counted, Owed, Queued, ReadInLimit
<1>5. Delivered /\ Absent /\ SettledForCause
  BY ConstantFacts DEF Init, Delivered, Absent, SettledForCause
<1> QED  BY <1>2, <1>3, <1>4, <1>5 DEF DeliveryInv

\* Steps that only insert, delete or time rows, or change settings.
LEMMA EnqueueInv ==
  ASSUME DeliveryInv, NEW a \in Alerts, EnqueueAlert(a)
  PROVE  DeliveryInv'
<1>1. Cardinality(Present) \in Nat
  BY AlertDeliveryAssumption, FS_Subset, FS_CardinalityType DEF Present
<1>2. /\ status[a] = "absent" /\ a \in Items
      /\ status' = [status EXCEPT ![a] = "pending"]
      /\ due' = due \cup {a}
      /\ created' = [created EXCEPT ![a] = Cardinality(Present)]
      /\ UNCHANGED <<attempts, connected, camera, work, accepted, unrecorded, refusals, mishaps>>
  BY ConstantFacts DEF EnqueueAlert, Insert, outside
<1>3. Shape'
  BY <1>1, <1>2 DEF DeliveryInv, Shape, Queued
<1>4. Holding'
  BY <1>2, ConstantFacts DEF DeliveryInv, Shape, Holding, Queued
<1>5. Counted' /\ ReadInLimit'
  <2>1. Counted'
    BY <1>2, ConstantFacts DEF DeliveryInv, Shape, Counted, Owed, Queued
  <2>2. \A w \in Workers : work[w].attempt # 0 => work[w].item # a
    BY <1>2 DEF DeliveryInv, Holding
  <2>3. ReadInLimit'
    BY <1>2, <2>2 DEF DeliveryInv, Shape, ReadInLimit, Owed
  <2> QED  BY <2>1, <2>3
<1>6. Delivered' /\ Absent' /\ SettledForCause'
  BY <1>2, ConstantFacts
  DEF DeliveryInv, Shape, Delivered, Absent, SettledForCause, Queued
<1> QED  BY <1>3, <1>4, <1>5, <1>6 DEF DeliveryInv

LEMMA RequestTestInv ==
  ASSUME DeliveryInv, NEW t \in TestAlerts, RequestTest(t)
  PROVE  DeliveryInv'
<1>1. Cardinality(Present) \in Nat
  BY AlertDeliveryAssumption, FS_Subset, FS_CardinalityType DEF Present
<1>2. /\ status[t] = "absent" /\ t \in Items /\ t \notin Alerts
      /\ status' = [status EXCEPT ![t] = "pending"]
      /\ due' = due \cup {t}
      /\ created' = [created EXCEPT ![t] = Cardinality(Present)]
      /\ work["request"].batch = {}
      /\ work' = [work EXCEPT !["request"].batch = {t}]
      /\ UNCHANGED <<attempts, connected, camera, accepted, unrecorded, refusals, mishaps>>
  BY ConstantFacts DEF RequestTest, Insert, outside, Idle
<1>3. /\ work'["loop"] = work["loop"]
      /\ work'["request"].batch = {t}
      /\ work'["request"].answer = work["request"].answer
      /\ work'["request"].item = work["request"].item
      /\ work'["request"].attempt = 0
  BY <1>2, ConstantFacts DEF DeliveryInv, Shape, Holding
<1>4. Shape'
  BY <1>1, <1>2, ConstantFacts DEF DeliveryInv, Shape, Queued
<1>5. Holding'
  BY <1>2, <1>3, ConstantFacts DEF DeliveryInv, Shape, Holding, Queued
<1>6. Counted' /\ ReadInLimit'
  <2>1. Counted'
    BY <1>2, <1>3, ConstantFacts DEF DeliveryInv, Shape, Holding, Counted, Owed, Queued
  <2>2. work["loop"].attempt # 0 => work["loop"].item # t
    BY <1>2, ConstantFacts DEF DeliveryInv, Holding
  <2>3. ReadInLimit'
    BY <1>2, <1>3, <2>2, ConstantFacts DEF DeliveryInv, Shape, ReadInLimit, Owed
  <2> QED  BY <2>1, <2>3
<1>7. Delivered' /\ Absent' /\ SettledForCause'
  BY <1>2, <1>3, ConstantFacts
  DEF DeliveryInv, Shape, Delivered, Absent, SettledForCause, Queued
<1> QED  BY <1>4, <1>5, <1>6, <1>7 DEF DeliveryInv

LEMMA SilenceInv ==
  ASSUME DeliveryInv, NEW quiet \in BOOLEAN, SetSilenced(quiet)
  PROVE  DeliveryInv'
<1>1. /\ \A i \in Items : \/ status'[i] = status[i]
                          \/ i \in CameraAlerts /\ status[i] \in Queued /\ status'[i] = "deleted"
      /\ status' \in [Items -> Queued \cup Final \cup {"absent", "deleted"}]
      /\ camera' \in {"loud", "silenced", "gone"}
      /\ UNCHANGED <<attempts, due, created, connected, work, accepted, unrecorded,
                     refusals, mishaps>>
  BY DEF SetSilenced, outside, DeliveryInv, Shape
<1>2. Shape'
  BY <1>1 DEF DeliveryInv, Shape
<1>3. Holding'
  BY <1>1, ConstantFacts DEF DeliveryInv, Shape, Holding, Queued
<1>4. Counted' /\ ReadInLimit'
  BY <1>1, ConstantFacts DEF DeliveryInv, Shape, Counted, ReadInLimit, Owed, Queued
<1>5. Delivered' /\ Absent' /\ SettledForCause'
  BY <1>1, ConstantFacts DEF DeliveryInv, Shape, Delivered, Absent, SettledForCause, Queued
<1> QED  BY <1>2, <1>3, <1>4, <1>5 DEF DeliveryInv

\* The loop reads rows that are queued, so within their attempts.
LEMMA ReadBatchInv ==
  ASSUME DeliveryInv, ReadBatch
  PROVE  DeliveryInv'
<1> DEFINE batch == Oldest(Limit, DueRows)
<1>1. batch \subseteq Items /\ \A i \in batch : status[i] \in Queued
  BY OldestIn DEF DueRows, DeliveryInv, Shape
<1>2. /\ work["loop"].batch = {}
      /\ work' = [work EXCEPT !["loop"].batch = batch]
      /\ UNCHANGED <<status, attempts, due, created, connected, camera, accepted,
                     unrecorded, refusals, mishaps>>
  BY DEF ReadBatch, Idle, outbox, outside
<1> HIDE DEF batch
<1>3. /\ work'["request"] = work["request"]
      /\ work'["loop"].batch = batch
      /\ work'["loop"].answer = work["loop"].answer
      /\ work'["loop"].item = work["loop"].item
      /\ work'["loop"].attempt = work["loop"].attempt
  BY <1>2, ConstantFacts DEF DeliveryInv, Shape
<1>4. work["loop"].answer = "none" /\ work["loop"].attempt = 0
  BY <1>2, ConstantFacts DEF DeliveryInv, Holding
<1>5. Shape'
  BY <1>1, <1>2, ConstantFacts DEF DeliveryInv, Shape
<1>6. Holding'
  BY <1>1, <1>2, <1>3, <1>4, ConstantFacts DEF DeliveryInv, Shape, Holding, Queued
<1>7. Counted' /\ ReadInLimit'
  <2>1. Counted'
    BY <1>1, <1>2, <1>3, ConstantFacts DEF DeliveryInv, Shape, Counted, Owed
  <2>2. ReadInLimit'
    BY <1>1, <1>2, <1>3, <1>4, ConstantFacts DEF DeliveryInv, Shape, ReadInLimit, Owed
  <2> QED  BY <2>1, <2>2
<1>8. Delivered' /\ Absent' /\ SettledForCause'
  BY <1>1, <1>2, <1>3, <1>4, ConstantFacts
  DEF DeliveryInv, Shape, Delivered, Absent, SettledForCause
<1> QED  BY <1>5, <1>6, <1>7, <1>8 DEF DeliveryInv

\* Telegram answers for a row of the batch.
LEMMA SendInv ==
  ASSUME DeliveryInv, NEW w \in Workers, NEW i \in Items, Send(w, i)
  PROVE  DeliveryInv'
<1>1. /\ i \in work[w].batch /\ work[w].answer = "none"
      /\ UNCHANGED <<status, attempts, due, created, connected, camera, mishaps>>
  BY OldestIn DEF Send, outbox
<1>2. PICK answer \in Answers :
        /\ work' = [work EXCEPT ![w].item = i, ![w].answer = answer]
        /\ \/ accepted' = [accepted EXCEPT ![i] = IF @ < 2 THEN @ + 1 ELSE 2]
              /\ \/ answer = "ok" /\ unrecorded' = unrecorded
                 \/ answer = "later" /\ unrecorded' = unrecorded \cup {i}
              /\ refusals' = refusals
           \/ /\ answer \in {"later", "refused"}
              /\ UNCHANGED <<accepted, unrecorded>>
              /\ refusals' = IF answer = "refused" THEN refusals \cup {i} ELSE refusals
  BY DEF Send, Answer, Take, Answers, outside
<1>3. /\ \A v \in Workers \ {w} : work'[v] = work[v]
      /\ work'[w].batch = work[w].batch
      /\ work'[w].item = i /\ work'[w].answer = answer
      /\ work'[w].attempt = 0
  BY <1>1, <1>2 DEF DeliveryInv, Shape, Holding
<1>4. /\ accepted' \in [Items -> 0..2]
      /\ accepted'[i] = accepted[i] \/ accepted'[i] > 0
      /\ answer = "ok" => accepted'[i] > 0
      /\ \A j \in Items \ {i} : accepted'[j] = accepted[j]
      /\ \A j \in Items : accepted[j] > 0 => accepted'[j] > 0
      /\ answer = "refused" => i \in refusals'
      /\ refusals \subseteq refusals' /\ refusals' \subseteq Items
      /\ unrecorded \subseteq unrecorded' /\ unrecorded' \subseteq Items
  BY <1>2 DEF DeliveryInv, Shape
<1>5. Shape'
  BY <1>1, <1>2, <1>4 DEF DeliveryInv, Shape
<1>6. Holding'
  BY <1>1, <1>3, <1>4, ConstantFacts DEF DeliveryInv, Shape, Holding
<1>7. Counted' /\ ReadInLimit'
  BY <1>1, <1>3, ConstantFacts DEF DeliveryInv, Counted, ReadInLimit, Owed
<1>8. Delivered'
  <2> SUFFICES ASSUME NEW a \in Alerts, accepted'[a] > 0, a \notin unrecorded'
               PROVE  /\ accepted'[a] = 1
                      /\ \/ work'["loop"].answer = "ok" /\ work'["loop"].item = a
                         \/ a \notin work'["loop"].batch /\ status'[a] \notin Queued
    BY DEF Delivered
  <2>1. a \in Items /\ a \notin unrecorded
    BY <1>4, ConstantFacts
  <2>2. CASE a = i
    <3>1. w = "loop"
      BY <1>1, <2>2, ConstantFacts DEF DeliveryInv, Holding
    <3>2. accepted[a] = 0
      BY <1>1, <2>1, <2>2, <3>1 DEF DeliveryInv, Delivered, Shape
    <3>3. accepted'[a] = 1 /\ answer = "ok"
      BY <1>2, <2>1, <2>2, <3>2 DEF DeliveryInv, Shape
    <3> QED  BY <1>3, <2>2, <3>1, <3>3
  <2>3. CASE a # i
    <3>1. accepted[a] > 0 /\ accepted'[a] = accepted[a]
      BY <1>4, <2>1, <2>3
    <3>2. /\ accepted[a] = 1
          /\ \/ work["loop"].answer = "ok" /\ work["loop"].item = a
             \/ a \notin work["loop"].batch /\ status[a] \notin Queued
      BY <2>1, <3>1 DEF DeliveryInv, Delivered
    <3> QED  BY <1>1, <1>3, <3>1, <3>2, ConstantFacts
  <2> QED  BY <2>2, <2>3
<1>9. Absent' /\ SettledForCause'
  BY <1>1, <1>4 DEF DeliveryInv, Shape, Holding, Absent, SettledForCause
<1> QED  BY <1>5, <1>6, <1>7, <1>8, <1>9 DEF DeliveryInv

\* The UPDATE by outbox_uuid, which does not look at the status it replaces.
LEMMA RecordInv ==
  ASSUME DeliveryInv, NEW w \in Workers, Record(w)
  PROVE  DeliveryInv'
<1>0. PICK i \in Items : i = work[w].item
  BY DEF Record, DeliveryInv, Shape, Holding
<1> DEFINE answer == work[w].answer
           n == IF answer = "ok" THEN attempts[i] + 1 ELSE work[w].attempt
<1>1. /\ answer \in Answers /\ i \in work[w].batch /\ i \in Items
      /\ answer = "ok" => accepted[i] > 0
      /\ answer = "refused" => i \in refusals
      /\ status[i] # "absent"
      /\ status[i] # "deleted" /\ answer # "ok" => work[w].attempt # 0
  BY <1>0 DEF Record, DeliveryInv, Shape, Holding, Answers
<1>2. /\ UNCHANGED <<created, connected, camera, accepted, unrecorded, refusals, mishaps>>
      /\ work' = [work EXCEPT ![w] = [Resting EXCEPT !.batch = work[w].batch \ {i}]]
      /\ status' = IF status[i] # "deleted"
                   THEN [status EXCEPT ![i] = Outcome(answer, n)] ELSE status
      /\ attempts' = IF status[i] # "deleted" THEN [attempts EXCEPT ![i] = n] ELSE attempts
      /\ due' = IF status[i] # "deleted" /\ answer # "ok" THEN due \ {i} ELSE due
  BY <1>0 DEF Record, outside
<1>3. /\ \A v \in Workers \ {w} : work'[v] = work[v]
      /\ work'[w].batch = work[w].batch \ {i}
      /\ work'[w].answer = "none" /\ work'[w].item = NoItem /\ work'[w].attempt = 0
  BY <1>2 DEF DeliveryInv, Shape, Resting
<1>4. /\ Outcome(answer, n) \in {"retry", "sent", "failed"}
      /\ Outcome(answer, n) = "sent" => answer = "ok"
      /\ Outcome(answer, n) = "retry" => answer = "later" /\ n < MaxAttempts
      /\ Outcome(answer, n) = "failed" => answer = "refused" \/ n >= MaxAttempts
      /\ answer = "ok" => Outcome(answer, n) = "sent"
      /\ n \in Nat
  BY <1>1, ConstantFacts DEF Outcome, Answers, DeliveryInv, Shape
<1>5. /\ \A j \in Items \ {i} : status'[j] = status[j] /\ attempts'[j] = attempts[j]
      /\ \/ status[i] = "deleted" /\ status'[i] = "deleted" /\ attempts'[i] = attempts[i]
         \/ /\ status[i] # "deleted" /\ status'[i] = Outcome(answer, n)
            /\ attempts'[i] = n
  BY <1>1, <1>2 DEF DeliveryInv, Shape
<1>6. w = "request" => i \in TestAlerts
  BY <1>1 DEF DeliveryInv, Holding
<1> HIDE DEF n, answer
<1>7. Shape'
  <2>1. work' \in [Workers -> [batch : SUBSET Items, item : Items \cup {NoItem},
                               answer : Answers \cup {"none"}, attempt : Nat]]
    BY <1>2 DEF DeliveryInv, Shape, Resting
  <2>2. status' \in [Items -> Queued \cup Final \cup {"absent", "deleted"}]
    BY <1>2, <1>4 DEF DeliveryInv, Shape, Queued, Final
  <2> QED  BY <1>2, <1>4, <2>1, <2>2 DEF DeliveryInv, Shape
<1>8. Holding'
  <2>1. work'["request"].batch \subseteq TestAlerts
    BY <1>3, ConstantFacts DEF DeliveryInv, Holding
  <2>2. \A a \in Alerts : a \in work'["loop"].batch => status'[a] \in Queued \cup {"deleted"}
    <3>1. SUFFICES ASSUME NEW a \in Alerts, a \in work'["loop"].batch
                   PROVE  status'[a] \in Queued \cup {"deleted"}
      OBVIOUS
    <3>2. a \in work["loop"].batch /\ a \in Items /\ a # i
      BY <1>3, <1>6, <3>1, ConstantFacts
    <3> QED  BY <1>5, <3>2 DEF DeliveryInv, Holding
  <2>3. \A t \in TestAlerts : status'[t] # "deleted"
    BY <1>4, <1>5, ConstantFacts DEF DeliveryInv, Holding
  <2>4. \A v \in Workers : \A j \in work'[v].batch : status'[j] # "absent"
    BY <1>1, <1>3, <1>4, <1>5 DEF DeliveryInv, Holding, Shape
  <2>5. \A v \in Workers :
          /\ work'[v].answer # "none" => work'[v].item \in work'[v].batch
          /\ work'[v].answer = "ok" => accepted'[work'[v].item] > 0
          /\ work'[v].answer = "refused" => work'[v].item \in refusals'
          /\ work'[v].attempt # 0 => work'[v].answer \in {"later", "refused"}
    BY <1>2, <1>3 DEF DeliveryInv, Holding
  <2> QED  BY <2>1, <2>2, <2>3, <2>4, <2>5 DEF Holding
<1>9. Counted'
  <2> SUFFICES ASSUME NEW j \in Items
               PROVE  /\ status'[j] = "absent" => attempts'[j] = 0
                      /\ status'[j] \in Queued => attempts'[j] < MaxAttempts
                      /\ j \in Alerts => attempts'[j] <= MaxAttempts
                      /\ attempts'[j] + Owed("loop", j)' + Owed("request", j)' <= MaxAttempts + 1
    BY DEF Counted, Owed
  <2>1. CASE j # i
    BY <1>3, <1>5, <2>1, ConstantFacts DEF DeliveryInv, Counted, Owed
  <2>2. CASE j = i
    <3>1. /\ i \in Items /\ attempts[i] \in Nat
          /\ n = IF answer = "ok" THEN attempts[i] + 1 ELSE work[w].attempt
          /\ i \in work[w].batch /\ i \notin work'[w].batch
      BY <1>1, <1>3 DEF DeliveryInv, Shape, n
    <3>2. Owed("loop", i)' + Owed("request", i)' + 1 = Owed("loop", i) + Owed("request", i)
      <4>1. CASE w = "loop"
        BY <1>1, <1>3, <4>1, ConstantFacts DEF Owed
      <4>2. CASE w = "request"
        BY <1>1, <1>3, <4>2, ConstantFacts DEF Owed
      <4> QED  BY <4>1, <4>2, ConstantFacts
    <3>3. /\ Owed("loop", i) \in 0..1 /\ Owed("request", i) \in 0..1
          /\ Owed("loop", i)' \in 0..1 /\ Owed("request", i)' \in 0..1
      BY DEF Owed
    <3>4. attempts'[i] + Owed("loop", i)' + Owed("request", i)' <= MaxAttempts + 1
      <4>1. CASE answer = "ok" \/ status[i] = "deleted"
        BY <1>5, <3>1, <3>2, <3>3, <4>1, ConstantFacts DEF DeliveryInv, Counted
      <4>2. CASE answer # "ok" /\ status[i] # "deleted"
        <5>1. attempts'[i] = work[w].attempt /\ work[w].attempt # 0
          BY <1>1, <1>5, <3>1, <4>2
        <5>2. \A v \in Workers \ {w} :
                /\ work[w].attempt + Owed(v, i) <= MaxAttempts + 1
                /\ Owed(v, i)' = Owed(v, i)
          BY <1>0, <1>3, <5>1 DEF DeliveryInv, ReadInLimit, Owed
        <5>3. Owed(w, i)' = 0 /\ work[w].attempt \in Nat
          BY <3>1 DEF DeliveryInv, Shape, Owed
        <5> QED  BY <3>3, <5>1, <5>2, <5>3, ConstantFacts
      <4> QED  BY <4>1, <4>2
    <3>5. i \in Alerts => attempts'[i] <= MaxAttempts
      <4>1. i \in Alerts => w = "loop"
        BY <1>6, ConstantFacts
      <4>2. i \in Alerts /\ status[i] # "deleted" => attempts[i] < MaxAttempts
        BY <1>1, <4>1 DEF DeliveryInv, Holding, Counted
      <4>3. i \in Alerts /\ work[w].attempt # 0 => work[w].attempt <= MaxAttempts
        BY <1>0 DEF DeliveryInv, ReadInLimit
      <4> QED  BY <1>1, <1>5, <3>1, <4>2, <4>3, ConstantFacts DEF DeliveryInv, Counted
    <3>6. status'[i] \in Queued => attempts'[i] < MaxAttempts
      BY <1>4, <1>5, <3>1 DEF Queued
    <3>7. status'[i] # "absent"
      BY <1>4, <1>5
    <3> QED  BY <2>2, <3>4, <3>5, <3>6, <3>7
  <2> QED  BY <2>1, <2>2
<1>10. ReadInLimit'
  <2> SUFFICES ASSUME NEW v \in Workers, NEW j \in Items,
                      work'[v].attempt # 0, j = work'[v].item
               PROVE  /\ j \in Alerts \/ status'[j] \in Queued => work'[v].attempt <= MaxAttempts
                      /\ \A x \in Workers \ {v} :
                           work'[v].attempt + Owed(x, j)' <= MaxAttempts + 1
    BY DEF ReadInLimit, Owed
  <2>1. v # w /\ work'[v] = work[v]
    BY <1>3
  <2>2. /\ j \in Alerts \/ status[j] \in Queued => work[v].attempt <= MaxAttempts
        /\ \A x \in Workers \ {v} : work[v].attempt + Owed(x, j) <= MaxAttempts + 1
    BY <2>1 DEF DeliveryInv, ReadInLimit
  <2>3. work[v].attempt \in Nat
    BY DEF DeliveryInv, Shape
  <2>4. \A x \in Workers : /\ Owed(x, j) \in 0..1 /\ Owed(x, j)' \in 0..1
                           /\ Owed(x, j)' <= Owed(x, j)
    BY <1>3 DEF Owed
  <2>5. \A x \in Workers \ {v} : work[v].attempt + Owed(x, j)' <= MaxAttempts + 1
    BY <2>2, <2>3, <2>4, ConstantFacts
  <2>6. j = i => work[v].attempt <= MaxAttempts
    BY <1>1, <2>1, <2>2, <2>3, ConstantFacts DEF Owed
  <2> QED  BY <1>5, <2>1, <2>2, <2>5, <2>6
<1>11. Delivered'
  <2> SUFFICES ASSUME NEW a \in Alerts, accepted[a] > 0, a \notin unrecorded
               PROVE  /\ accepted'[a] = 1
                      /\ \/ work'["loop"].answer = "ok" /\ work'["loop"].item = a
                         \/ a \notin work'["loop"].batch /\ status'[a] \notin Queued
    BY <1>2 DEF Delivered
  <2>1. a \in Items /\ (w = "request" => a # i)
    BY <1>6, ConstantFacts
  <2>2. /\ accepted[a] = 1
        /\ \/ work["loop"].answer = "ok" /\ work["loop"].item = a
           \/ a \notin work["loop"].batch /\ status[a] \notin Queued
    BY DEF DeliveryInv, Delivered
  <2>3. CASE w = "request"
    BY <1>2, <1>3, <1>5, <2>1, <2>2, <2>3, ConstantFacts
  <2>4. CASE w = "loop" /\ a = i
    <3>1. answer = "ok"
      BY <1>0, <1>1, <2>2, <2>4 DEF answer
    <3>2. status'[a] \in {"sent", "deleted"}
      BY <1>4, <1>5, <2>4, <3>1
    <3> QED  BY <1>2, <1>3, <2>2, <2>4, <3>2 DEF Queued
  <2>5. CASE w = "loop" /\ a # i
    <3>1. a \notin work["loop"].batch /\ status[a] \notin Queued
      BY <1>0, <2>2, <2>5
    <3> QED  BY <1>2, <1>3, <1>5, <2>1, <2>2, <2>5, <3>1
  <2> QED  BY <2>3, <2>4, <2>5, ConstantFacts
<1>12. Absent' /\ SettledForCause'
  <2>1. Absent'
    BY <1>1, <1>2, <1>4, <1>5 DEF DeliveryInv, Absent
  <2>2. SettledForCause'
    BY <1>1, <1>2, <1>4, <1>5 DEF DeliveryInv, SettledForCause
  <2> QED  BY <2>1, <2>2
<1> QED  BY <1>7, <1>8, <1>9, <1>10, <1>11, <1>12 DEF DeliveryInv

\* The count a failure will write is taken from a row still within its limit.
LEMMA ReadAttemptsInv ==
  ASSUME DeliveryInv, NEW w \in Workers, ReadAttempts(w)
  PROVE  DeliveryInv'
<1>0. PICK i \in Items : i = work[w].item /\ i \in work[w].batch
  BY DEF ReadAttempts, DeliveryInv, Shape, Holding
<1>1. /\ UNCHANGED <<status, attempts, due, created, connected, camera, accepted, unrecorded,
                     refusals, mishaps>>
      /\ work[w].answer \in {"later", "refused"}
      /\ status[i] # "deleted"
      /\ work' = [work EXCEPT ![w].attempt = attempts[i] + 1]
  BY <1>0 DEF ReadAttempts, outbox, outside
<1>2. /\ \A v \in Workers \ {w} : work'[v] = work[v]
      /\ work'[w].batch = work[w].batch /\ work'[w].answer = work[w].answer
      /\ work'[w].item = i /\ work'[w].attempt = attempts[i] + 1
      /\ attempts[i] \in Nat
  BY <1>0, <1>1 DEF DeliveryInv, Shape
<1>3. Shape'
  BY <1>1, <1>2 DEF DeliveryInv, Shape
<1>4. Holding'
  BY <1>0, <1>1, <1>2 DEF DeliveryInv, Holding
<1>5. Counted'
  BY <1>1, <1>2 DEF DeliveryInv, Counted, Owed
<1>6. ReadInLimit'
  <2>1. \A v \in Workers, j \in Items : Owed(v, j)' = Owed(v, j) /\ Owed(v, j) \in 0..1
    BY <1>2 DEF Owed
  <2>2. i \in Alerts => status[i] \in Queued
    <3>1. i \in Alerts => w = "loop"
      BY <1>0, ConstantFacts DEF DeliveryInv, Holding
    <3> QED  BY <1>0, <1>1, <3>1 DEF DeliveryInv, Holding
  <2>3. i \in Alerts \/ status[i] \in Queued => attempts[i] + 1 <= MaxAttempts
    BY <1>2, <2>2, ConstantFacts DEF DeliveryInv, Counted
  <2>4. \A v \in Workers \ {w} : attempts[i] + 1 + Owed(v, i) <= MaxAttempts + 1
    <3>1. Owed(w, i) = 1
      BY <1>0 DEF Owed
    <3>2. attempts[i] + Owed("loop", i) + Owed("request", i) <= MaxAttempts + 1
      BY DEF DeliveryInv, Counted
    <3> QED  BY <1>2, <2>1, <3>1, <3>2, ConstantFacts
  <2> QED  BY <1>0, <1>1, <1>2, <2>1, <2>3, <2>4 DEF DeliveryInv, ReadInLimit
<1>7. Delivered' /\ Absent' /\ SettledForCause'
  BY <1>1, <1>2, ConstantFacts DEF DeliveryInv, Delivered, Absent, SettledForCause
<1> QED  BY <1>3, <1>4, <1>5, <1>6, <1>7 DEF DeliveryInv

\* Work that is lost was at most accepted without being recorded.
LEMMA InterruptInv ==
  ASSUME DeliveryInv, NEW ws \in SUBSET Workers, Interrupt(ws)
  PROVE  DeliveryInv'
<1>1. /\ UNCHANGED <<status, attempts, due, created, connected, camera, accepted, refusals>>
      /\ \A w \in Workers : work'[w] = IF w \in ws THEN Resting ELSE work[w]
      /\ unrecorded' = unrecorded \cup
           {work[w].item : w \in {x \in ws : work[x].answer = "ok"}}
      /\ mishaps' = mishaps + 1 /\ mishaps < MaxMishaps
  BY DEF Interrupt, outbox
<1>2. /\ Resting.batch = {} /\ Resting.answer = "none" /\ Resting.item = NoItem
      /\ Resting.attempt = 0
  BY DEF Resting
<1>3. unrecorded \subseteq unrecorded' /\ unrecorded' \subseteq Items
  BY <1>1 DEF DeliveryInv, Shape, Holding
<1>4. mishaps' \in 0..MaxMishaps
  BY <1>1, ConstantFacts DEF DeliveryInv, Shape
<1>5. Shape'
  <2>1. work' \in [Workers -> [batch : SUBSET Items, item : Items \cup {NoItem},
                               answer : Answers \cup {"none"}, attempt : Nat]]
    BY DEF Interrupt, DeliveryInv, Shape, Resting
  <2> QED  BY <1>1, <1>3, <1>4, <2>1 DEF DeliveryInv, Shape
<1>6. Holding'
  BY <1>1, <1>2, ConstantFacts DEF DeliveryInv, Holding
<1>7. Counted' /\ ReadInLimit'
  <2>1. Counted'
    BY <1>1, <1>2, ConstantFacts DEF DeliveryInv, Shape, Counted, Owed
  <2>2. \A v \in Workers, j \in Items : /\ Owed(v, j) \in 0..1 /\ Owed(v, j)' \in 0..1
                                       /\ Owed(v, j)' <= Owed(v, j)
    BY <1>1, <1>2 DEF Owed
  <2>3. \A w \in Workers : work'[w].attempt # 0 => work'[w] = work[w] /\ work[w].attempt \in Nat
    BY <1>1, <1>2 DEF DeliveryInv, Shape
  <2>4. ReadInLimit'
    BY <1>1, <2>2, <2>3, ConstantFacts DEF DeliveryInv, ReadInLimit
  <2> QED  BY <2>1, <2>4
<1>8. Delivered'
  BY <1>1, <1>2, <1>3, ConstantFacts DEF DeliveryInv, Delivered
<1>9. Absent' /\ SettledForCause'
  BY <1>1 DEF DeliveryInv, Absent, SettledForCause
<1> QED  BY <1>5, <1>6, <1>7, <1>8, <1>9 DEF DeliveryInv

-----------------------------------------------------------------------------
LEMMA NextInv == DeliveryInv /\ [Next]_vars => DeliveryInv'
<1> SUFFICES ASSUME DeliveryInv, [Next]_vars
             PROVE  DeliveryInv'
  OBVIOUS
<1>1. CASE Unadopt \/ (\E on \in BOOLEAN : SetConnected(on)) \/ (\E i \in Items : Elapse(i))
            \/ UNCHANGED vars
  <2>1. /\ UNCHANGED <<status, attempts, created, work, accepted, unrecorded, refusals,
                       mishaps>>
        /\ Shape'
    BY <1>1 DEF Unadopt, SetConnected, Elapse, vars, outbox, outside, DeliveryInv, Shape
  <2> QED  BY <2>1 DEF DeliveryInv, Holding, Counted, ReadInLimit, Owed, Delivered, Absent,
                       SettledForCause
<1> QED
  BY <1>1, EnqueueInv, SilenceInv, ReadBatchInv, RequestTestInv, SendInv, ReadAttemptsInv, RecordInv,
     InterruptInv
  DEF Next

LEMMA DeliveryInvariant == Spec => []DeliveryInv
BY InitInv, NextInv, PTL DEF Spec

LEMMA CountedBounds == DeliveryInv => AttemptsBounded
<1> SUFFICES ASSUME DeliveryInv, NEW i \in Items
             PROVE  attempts[i] <= IF i \in Alerts THEN MaxAttempts ELSE MaxAttempts + 1
  BY DEF AttemptsBounded
<1>1. Owed("loop", i) \in 0..1 /\ Owed("request", i) \in 0..1 /\ attempts[i] \in Nat
  BY DEF Owed, DeliveryInv, Shape
<1> QED  BY <1>1, ConstantFacts DEF DeliveryInv, Counted

\* Every variable of the delivery keeps its type, attempt counters included.
THEOREM TypeCorrect == Spec => []TypeOK
<1>1. DeliveryInv => TypeOK
  <2> SUFFICES ASSUME DeliveryInv PROVE TypeOK
    OBVIOUS
  <2>1. \A i \in Items : attempts[i] \in 0..(MaxAttempts + 1)
    BY CountedBounds, ConstantFacts DEF AttemptsBounded, DeliveryInv, Shape
  <2>2. \A w \in Workers : work[w].attempt \in 0..(MaxAttempts + 1)
    <3> SUFFICES ASSUME NEW w \in Workers, work[w].attempt # 0
                 PROVE  work[w].attempt <= MaxAttempts + 1 /\ work[w].attempt \in Nat
      BY ConstantFacts DEF DeliveryInv, Shape
    <3>1. PICK v \in Workers : v # w
      BY ConstantFacts
    <3>2. work[w].item \in Items
      BY DEF DeliveryInv, Shape, Holding
    <3>3. work[w].attempt + Owed(v, work[w].item) <= MaxAttempts + 1
      BY <3>1, <3>2 DEF DeliveryInv, ReadInLimit
    <3> QED  BY <3>3, ConstantFacts DEF Owed, DeliveryInv, Shape
  <2>3. work \in [Workers -> [batch : SUBSET Items, item : Items \cup {NoItem},
                              answer : Answers \cup {"none"}, attempt : 0..(MaxAttempts + 1)]]
    BY <2>2 DEF DeliveryInv, Shape
  <2> QED  BY <2>1, <2>3 DEF DeliveryInv, Shape, TypeOK
<1> QED  BY <1>1, DeliveryInvariant, PTL

\* No row is "sent" that Telegram did not take, none "failed" without a
\* refusal or the last attempt.
THEOREM Settled == Spec => []SettledForCause
<1>1. DeliveryInv => SettledForCause
  BY DEF DeliveryInv
<1> QED  BY <1>1, DeliveryInvariant, PTL

\* The attempt limit holds across retries, races and restarts.
THEOREM Bounded == Spec => []AttemptsBounded
BY CountedBounds, DeliveryInvariant, PTL

\* Without a lost answer or an interruption an alert arrives at most once.
THEOREM AtMostOnce == Spec => []DuplicatesOnlyAfterLoss
<1>1. DeliveryInv => DuplicatesOnlyAfterLoss
  BY ConstantFacts DEF DeliveryInv, Delivered, DuplicatesOnlyAfterLoss, Shape
<1> QED  BY <1>1, DeliveryInvariant, PTL

\* Only one worker ever records an alert, and only while it is queued.
THEOREM SettledStay == Spec => SettledAlertsStay
<1>1. DeliveryInv /\ [Next]_vars =>
        [\A a \in Alerts : status[a] \in Final =>
           status'[a] = status[a] /\ attempts'[a] = attempts[a]]_vars
  <2> SUFFICES ASSUME DeliveryInv, [Next]_vars, NEW a \in Alerts, status[a] \in Final
               PROVE  status'[a] = status[a] /\ attempts'[a] = attempts[a]
    OBVIOUS
  <2>1. a \in Items /\ a \notin TestAlerts /\ status[a] \notin Queued \cup {"absent", "deleted"}
    BY ConstantFacts DEF Final, Queued
  <2>2. ASSUME NEW i \in Items, Insert(i)
        PROVE  status'[a] = status[a] /\ attempts'[a] = attempts[a]
    BY <2>1, <2>2 DEF Insert, DeliveryInv, Shape
  <2>3. ASSUME NEW w \in Workers, Record(w)
        PROVE  status'[a] = status[a] /\ attempts'[a] = attempts[a]
    <3>1. work[w].item \in work[w].batch
      BY <2>3 DEF Record, DeliveryInv, Holding
    <3>2. a \notin work[w].batch
      BY <2>1, ConstantFacts DEF DeliveryInv, Holding
    <3> QED  BY <2>1, <2>3, <3>1, <3>2 DEF Record, DeliveryInv, Shape
  <2>4. ASSUME NEW quiet \in BOOLEAN, SetSilenced(quiet)
        PROVE  status'[a] = status[a] /\ attempts'[a] = attempts[a]
    BY <2>1, <2>4 DEF SetSilenced
  <2> QED
    BY <2>2, <2>3, <2>4, ConstantFacts
    DEF Next, EnqueueAlert, Unadopt, SetConnected, Elapse, ReadBatch, RequestTest, Send,
        ReadAttempts, Interrupt, vars, outbox
<1> QED  BY <1>1, DeliveryInvariant, PTL DEF Spec, SettledAlertsStay

-----------------------------------------------------------------------------
(* Pairing: a poll and the settings it read drift apart while Telegram     *)
(* answers; what still holds between them is the invariant Pending.         *)

\* What a request and a poll under way can rely on. No chat is stored while a
\* poll looks for one, because only the poll's own end stores a chat. A request
\* writes back a chat only if it is still stored. One that brings no new secret
\* was begun while a chat was stored, and only its own end takes that away.
Pending ==
  /\ request.step # "idle" => saves < MaxSaves
  /\ poll.step # "idle" => settings.chat = NoChat
  /\ poll.step = "found" => <<poll.bot, poll.secret>> \in pressed
  /\ request.step = "writing" /\ request.row.chat # NoChat =>
       settings.chat = request.row.chat
  /\ request.step # "idle" /\ ~request.fresh =>
       /\ ~request.replacing /\ settings.chat # NoChat
       /\ request.step = "writing" => settings.chat = request.row.chat

PInv == PairingTypeOK /\ Pending /\ ChatWasPaired

LEMMA PInvInit == PairingInit => PInv
  BY PairingAssumption
  DEF PairingInit, PInv, PairingTypeOK, Pending, ChatWasPaired, SettingsRow, NoSettings,
      Saves, None, NoChat, NoRequest, NoPoll

\* The row a save leaves is one of the type, and its secret goes with its expiry.
LEMMA SavedRow ==
  ASSUME PairingAssumption, NEW old \in SettingsRow, NEW replacing \in BOOLEAN,
         NEW fresh \in BOOLEAN, NEW n \in Saves, n # None
  PROVE  LET row == Saved(old, replacing, fresh, n)
         IN  /\ row \in SettingsRow
             /\ row.chat = IF replacing THEN NoChat ELSE old.chat
             /\ fresh => row.live /\ row.secret = n
  BY DEF SettingsRow, Saved, Saves, None, NoChat

\* What the end of a save does to the stored chat.
LEMMA CommitSaveFacts ==
  ASSUME PInv, CommitSave
  PROVE  /\ settings' \in SettingsRow
         /\ saves' = saves + 1 /\ saves' \in Saves
         /\ settings'.chat = NoChat \/ settings'.chat = settings.chat
         /\ \/ settings'.chat = settings.chat
            \/ settings'.live /\ settings'.secret = saves'
<1>1. /\ request.row \in SettingsRow
      /\ request.replacing \in BOOLEAN /\ request.fresh \in BOOLEAN
  BY DEF PInv, PairingTypeOK
<1>2. saves' = saves + 1 /\ saves + 1 \in Saves /\ saves + 1 # None
  BY PairingAssumption DEF CommitSave, PInv, PairingTypeOK, Pending, Saves, None
<1>3. settings' = Saved(request.row, request.replacing, request.fresh, saves + 1)
  BY DEF CommitSave
<1>4. /\ settings' \in SettingsRow
      /\ settings'.chat = IF request.replacing THEN NoChat ELSE request.row.chat
      /\ request.fresh => settings'.live /\ settings'.secret = saves'
  BY <1>1, <1>2, <1>3, SavedRow, PairingAssumption
<1>5. request.row.chat # NoChat => settings.chat = request.row.chat
  BY DEF CommitSave, PInv, Pending
<1>6. ~request.fresh => ~request.replacing /\ settings.chat = request.row.chat
  BY DEF CommitSave, PInv, Pending
<1> QED  BY <1>1, <1>2, <1>4, <1>5, <1>6

LEMMA PInvStep == PInv /\ [PairingNext]_pairingVars => PInv'
<1> SUFFICES ASSUME PInv, [PairingNext]_pairingVars PROVE PInv'
  OBVIOUS
<1> USE PairingAssumption DEF PInv, PairingTypeOK, Pending, ChatWasPaired
<1>1. CASE \E replacing \in BOOLEAN : BeginSave(replacing)
  <2>1. PICK replacing \in BOOLEAN : BeginSave(replacing)
    BY <1>1
  <2>2. NoSettings \in SettingsRow /\ NoSettings.chat = NoChat
    BY DEF NoSettings, SettingsRow, Saves, None, NoChat
  <2>3. request' = [step |-> "saving", replacing |-> replacing,
                    fresh |-> (replacing \/ settings.chat = NoChat), row |-> NoSettings]
    BY <2>1 DEF BeginSave, NoRequest
  <2>4. saves < MaxSaves /\ UNCHANGED <<settings, saves, poll, pressed>>
    BY <2>1 DEF BeginSave
  <2> QED  BY <2>2, <2>3, <2>4
<1>2. CASE AbandonSave
  BY <1>2 DEF AbandonSave, NoRequest, NoSettings, SettingsRow, Saves, None, NoChat
<1>3. CASE ReadRow
  BY <1>3 DEF ReadRow
<1>4. CASE CommitSave
  <2>1. NoRequest \in [step : {"idle", "saving", "writing"}, replacing : BOOLEAN,
                       fresh : BOOLEAN, row : SettingsRow] /\ NoRequest.step = "idle"
    BY DEF NoRequest, NoSettings, SettingsRow, Saves, None, NoChat
  <2>2. request' = NoRequest /\ UNCHANGED <<poll, pressed>>
    BY <1>4 DEF CommitSave
  <2> QED  BY <1>4, <2>1, <2>2, CommitSaveFacts
<1>5. CASE Expire
  BY <1>5 DEF Expire, SettingsRow
<1>6. CASE PressStart
  BY <1>6 DEF PressStart, SettingsRow
<1>7. CASE BeginPoll
  BY <1>7 DEF BeginPoll, SettingsRow
<1>8. CASE AnswerPoll
  BY <1>8 DEF AnswerPoll, Match, NoPoll, Saves, None
<1>9. CASE CommitPairing
  <2>1. settings' \in SettingsRow /\ settings'.chat = <<poll.bot, poll.secret>>
    <3>1. settings' = [bot |-> settings.bot, secret |-> None, live |-> FALSE,
                       chat |-> <<poll.bot, poll.secret>>, offset |-> poll.bot]
      BY <1>9 DEF CommitPairing, SettingsRow
    <3>2. /\ settings.bot \in Saves /\ poll.bot \in Saves
          /\ poll.secret \in Saves /\ None \in Saves
      BY DEF SettingsRow, Saves, None
    <3> QED  BY <3>1, <3>2 DEF SettingsRow
  <2>2. settings.chat = NoChat /\ <<poll.bot, poll.secret>> \in pressed
    BY <1>9 DEF CommitPairing
  <2>3. poll' = NoPoll /\ UNCHANGED <<saves, request, pressed>>
    BY <1>9 DEF CommitPairing
  <2> QED  BY <2>1, <2>2, <2>3 DEF NoPoll, Saves, None
<1>10. CASE CommitOffset
  BY <1>10 DEF CommitOffset, NoPoll, SettingsRow, Saves, None
<1>11. CASE UNCHANGED pairingVars
  BY <1>11 DEF pairingVars
<1> HIDE DEF PInv, PairingTypeOK, Pending, ChatWasPaired
<1> QED
  BY <1>1, <1>2, <1>3, <1>4, <1>5, <1>6, <1>7, <1>8, <1>9, <1>10, <1>11 DEF PairingNext

LEMMA PInvAlways == PairingSpec => []PInv
  BY PInvInit, PInvStep, PTL DEF PairingSpec

\* The settings row is always one that saves and polls agree on: its type,
\* and an expiry only beside a secret (save_telegram_settings and
\* complete_telegram_pairing).
THEOREM PairingTypeCorrect == PairingSpec => []PairingTypeOK
  BY PInvAlways, PTL DEF PInv

\* The stored chat was always opened by the operator with a pairing link
\* (_poll_telegram_pairing and pairing_message).
THEOREM PairedChat == PairingSpec => []ChatWasPaired
  BY PInvAlways, PTL DEF PInv

\* A connected chat is never exchanged: a poll never finds one stored. A save
\* takes it away only together with a new pairing link, also where it writes
\* back the row it read before the pairing (save_telegram_settings).
THEOREM ChatYields == PairingSpec => ChatYieldsToPairing
<1> DEFINE Yields == settings.chat # NoChat /\ settings'.chat # settings.chat =>
                       settings'.chat = NoChat /\ settings'.live /\ settings'.secret = saves'
<1>1. PInv /\ [PairingNext]_pairingVars => [Yields]_pairingVars
  <2> SUFFICES ASSUME PInv, PairingNext PROVE Yields
    OBVIOUS
  <2>1. ASSUME NEW replacing \in BOOLEAN, BeginSave(replacing) PROVE Yields
    BY <2>1 DEF BeginSave
  <2>2. CASE AbandonSave \/ ReadRow \/ PressStart \/ BeginPoll \/ AnswerPoll
    BY <2>2 DEF AbandonSave, ReadRow, PressStart, BeginPoll, AnswerPoll
  <2>3. CASE CommitSave
    BY <2>3, CommitSaveFacts
  <2>4. CASE Expire
    BY <2>4 DEF Expire, PInv, PairingTypeOK, SettingsRow
  <2>5. CASE CommitPairing
    BY <2>5 DEF CommitPairing, PInv, Pending
  <2>6. CASE CommitOffset
    BY <2>6 DEF CommitOffset, PInv, PairingTypeOK, SettingsRow
  <2> QED BY <2>1, <2>2, <2>3, <2>4, <2>5, <2>6 DEF PairingNext
<1> QED BY <1>1, PInvAlways, PTL DEF PairingSpec, ChatYieldsToPairing
=============================================================================
