---------------------------- MODULE AlertDelivery ----------------------------
(***************************************************************************)
(* Delivery of the notification outbox to Telegram: _notification_loop and *)
(* the test request of src/camadmiral/app.py, which share                  *)
(* _deliver_notification, and the outbox half of CameraRepository          *)
(* (src/camadmiral/storage.py). A delivery is steps with nothing held      *)
(* between them: the call to Telegram, after a failure the reading of the  *)
(* row, and the transaction that records the outcome. The loop works       *)
(* through a batch of rows it read earlier, while requests silence the     *)
(* camera, unadopt it, replace the bot or send a test themselves.          *)
(***************************************************************************)
EXTENDS Naturals, FiniteSets

CONSTANTS
  CameraAlerts,  \* alerts about the incidents of one camera
  RelayAlerts,   \* alerts about relay restarts, which belong to no camera
  TestAlerts,    \* test notifications
  NoItem,        \* no delivery under way
  MaxAttempts,   \* attempts before a row is given up; 8 in the code
  Limit,         \* rows the loop reads at once; 10 in the code
  MaxMishaps     \* bound: interruptions of a worker

Alerts == CameraAlerts \cup RelayAlerts
Items  == Alerts \cup TestAlerts

ASSUME AlertDeliveryAssumption ==
  /\ Alerts \cap TestAlerts = {}
  /\ CameraAlerts \cap RelayAlerts = {}
  /\ IsFiniteSet(Items)
  /\ NoItem \notin Items
  /\ MaxAttempts \in Nat \ {0}
  /\ Limit \in Nat \ {0}
  /\ MaxMishaps \in Nat

Workers == {"loop", "request"}
\* What send() gives its caller: a message id, a TelegramError with a delay
\* to retry after, or one without.
Answers == {"ok", "later", "refused"}
Queued == {"pending", "retry"}
Final  == {"sent", "failed"}

VARIABLES
  status,     \* outbox status; "absent" before the INSERT, "deleted" after a DELETE
  attempts,   \* attempt_count
  due,        \* rows whose next_attempt_at has passed
  created,    \* created_at: how many rows were inserted before
  connected,  \* a bot token and a chat_id are stored
  camera,     \* the camera: "loud", "silenced" or "gone"
  work,       \* of each worker: rows in memory, the row sent, the answer to record,
              \* the attempt a failure is, 0 until the row was read for it
  accepted,   \* messages Telegram took, counted up to two (external)
  unrecorded, \* items Telegram took without the outbox hearing of it
  refusals,   \* items Telegram refused for good
  mishaps     \* interruptions so far

outbox  == <<status, attempts, due, created>>
outside == <<accepted, unrecorded, refusals>>
vars == <<outbox, connected, camera, work, outside, mishaps>>

Resting == [batch |-> {}, item |-> NoItem, answer |-> "none", attempt |-> 0]

\* Type invariant: the columns of the outbox rows and of the work in hand of
\* the notification loop and of test requests.
TypeOK ==
  /\ status \in [Items -> Queued \cup Final \cup {"absent", "deleted"}]
  /\ attempts \in [Items -> 0..(MaxAttempts + 1)]
  /\ due \in SUBSET Items
  /\ created \in [Items -> Nat]
  /\ connected \in BOOLEAN
  /\ camera \in {"loud", "silenced", "gone"}
  /\ work \in [Workers -> [batch : SUBSET Items, item : Items \cup {NoItem},
                           answer : Answers \cup {"none"},
                           attempt : 0..(MaxAttempts + 1)]]
  /\ accepted \in [Items -> 0..2]
  /\ unrecorded \in SUBSET Items
  /\ refusals \in SUBSET Items
  /\ mishaps \in 0..MaxMishaps

Init ==
  /\ status = [i \in Items |-> "absent"]
  /\ attempts = [i \in Items |-> 0]
  /\ due = {} /\ created = [i \in Items |-> 0]
  /\ connected = FALSE
  /\ camera = "loud"
  /\ work = [w \in Workers |-> Resting]
  /\ accepted = [i \in Items |-> 0]
  /\ unrecorded = {} /\ refusals = {}
  /\ mishaps = 0

-----------------------------------------------------------------------------
(* Rows enter and leave the outbox. *)

Present == {i \in Items : status[i] # "absent"}

Insert(i) ==
  /\ status[i] = "absent"
  /\ status' = [status EXCEPT ![i] = "pending"]
  /\ due' = due \cup {i}
  /\ created' = [created EXCEPT ![i] = Cardinality(Present)]
  /\ UNCHANGED attempts

\* _enqueue_incident_notification and enqueue_relay_restart_notification.
EnqueueAlert(a) ==
  /\ connected
  /\ a \in CameraAlerts => camera = "loud"
  /\ Insert(a)
  /\ UNCHANGED <<connected, camera, work, outside, mishaps>>

\* set_camera_notifications_silenced: silencing deletes what is queued.
SetSilenced(quiet) ==
  /\ camera # "gone"
  /\ camera' = IF quiet THEN "silenced" ELSE "loud"
  /\ status' = [i \in Items |->
                  IF quiet /\ i \in CameraAlerts /\ status[i] \in Queued
                  THEN "deleted" ELSE status[i]]
  /\ UNCHANGED <<attempts, due, created, connected, work, outside, mishaps>>

\* unadopt_camera: the rows lose their incident and stay.
Unadopt ==
  /\ camera # "gone"
  /\ camera' = "gone"
  /\ UNCHANGED <<outbox, connected, work, outside, mishaps>>

\* complete_telegram_pairing, and save_telegram_settings with a new bot token.
SetConnected(on) ==
  /\ connected' = on
  /\ UNCHANGED <<outbox, camera, work, outside, mishaps>>

\* A retry delay runs out.
Elapse(i) ==
  /\ status[i] = "retry" /\ i \notin due
  /\ due' = due \cup {i}
  /\ UNCHANGED <<status, attempts, created, connected, camera, work, outside, mishaps>>

-----------------------------------------------------------------------------
(* Workers: the notification loop and one test request. *)

Idle(w) == work[w].batch = {}

\* Wrong on purpose: rows that were given up or sent are read again; rows to
\* be retried are not.
DueAtAnyStatus == due
DuePending == {i \in due : status[i] = "pending"}

\* due_notifications before its LIMIT.
DueRows == {i \in due : status[i] \in Queued}

\* The n rows of a set that were created first.
Oldest(n, rows) == {i \in rows : Cardinality({j \in rows : created[j] < created[i]}) < n}

\* _notification_loop wakes up and reads a batch.
ReadBatch ==
  /\ Idle("loop")
  /\ connected
  /\ DueRows # {}
  /\ work' = [work EXCEPT !["loop"].batch = Oldest(Limit, DueRows)]
  /\ UNCHANGED <<outbox, connected, camera, outside, mishaps>>

\* test_notification_settings: the request inserts the row and delivers it.
RequestTest(t) ==
  /\ Idle("request")
  /\ connected
  /\ Insert(t)
  /\ work' = [work EXCEPT !["request"].batch = {t}]
  /\ UNCHANGED <<connected, camera, outside, mishaps>>

Take(i) == accepted' = [accepted EXCEPT ![i] = IF @ < 2 THEN @ + 1 ELSE 2]

Answer(w, i, answer) == work' = [work EXCEPT ![w].item = i, ![w].answer = answer]

\* TelegramClient.send of the next row, with the credentials the worker read:
\* the message is taken; it is taken but the answer is lost; it is not taken
\* but may be tried again; it is refused.
Send(w, i) ==
  /\ work[w].answer = "none"
  /\ i \in Oldest(1, work[w].batch)
  /\ \/ /\ Take(i)
        /\ Answer(w, i, "ok")
        /\ UNCHANGED <<unrecorded, refusals>>
     \/ /\ Take(i)
        /\ unrecorded' = unrecorded \cup {i}
        /\ Answer(w, i, "later")
        /\ UNCHANGED refusals
     \/ /\ Answer(w, i, "later")
        /\ UNCHANGED outside
     \/ /\ refusals' = refusals \cup {i}
        /\ Answer(w, i, "refused")
        /\ UNCHANGED <<accepted, unrecorded>>
  /\ UNCHANGED <<outbox, connected, camera, mishaps>>

\* Wrong on purpose: a delay is taken for a refusal.
OutcomeNoDelay(answer, n) == IF answer = "ok" THEN "sent" ELSE "failed"

\* The status a delivery leaves: complete_notification_delivery, or
\* fail_notification_delivery after n attempts.
Outcome(answer, n) ==
  IF answer = "ok" THEN "sent"
  ELSE IF answer = "later" /\ n < MaxAttempts THEN "retry" ELSE "failed"

\* fail_notification_delivery reads the count before its transaction begins.
ReadAttempts(w) ==
  /\ work[w].answer \in {"later", "refused"} /\ work[w].attempt = 0
  /\ status[work[w].item] # "deleted"
  /\ work' = [work EXCEPT ![w].attempt = attempts[work[w].item] + 1]
  /\ UNCHANGED <<outbox, connected, camera, outside, mishaps>>

\* The UPDATE by outbox_uuid, whatever the status and the count are now; a row
\* deleted meanwhile is not found.
Record(w) ==
  /\ \/ work[w].answer = "ok"
     \/ work[w].answer # "none" /\ (work[w].attempt # 0 \/ status[work[w].item] = "deleted")
  /\ LET i == work[w].item
         n == IF work[w].answer = "ok" THEN attempts[i] + 1 ELSE work[w].attempt
         found == status[i] # "deleted"
     IN  /\ status' = IF found THEN [status EXCEPT ![i] = Outcome(work[w].answer, n)]
                      ELSE status
         /\ attempts' = IF found THEN [attempts EXCEPT ![i] = n] ELSE attempts
         /\ due' = IF found /\ work[w].answer # "ok" THEN due \ {i} ELSE due
  /\ work' = [work EXCEPT ![w] = [Resting EXCEPT !.batch = work[w].batch \ {work[w].item}]]
  /\ UNCHANGED <<created, connected, camera, outside, mishaps>>

\* Workers lose what they hold: all of them when the process dies, one when
\* the database raises (the loop defers to its next round).
Interrupt(ws) ==
  /\ mishaps < MaxMishaps
  /\ \E w \in ws : ~Idle(w)
  /\ mishaps' = mishaps + 1
  /\ work' = [w \in Workers |-> IF w \in ws THEN Resting ELSE work[w]]
  /\ unrecorded' = unrecorded \cup
       {work[w].item : w \in {x \in ws : work[x].answer = "ok"}}
  /\ UNCHANGED <<outbox, connected, camera, accepted, refusals>>

Next ==
  \/ \E a \in Alerts : EnqueueAlert(a)
  \/ \E quiet \in BOOLEAN : SetSilenced(quiet)
  \/ Unadopt
  \/ \E on \in BOOLEAN : SetConnected(on)
  \/ \E i \in Items : Elapse(i)
  \/ ReadBatch
  \/ \E t \in TestAlerts : RequestTest(t)
  \/ \E w \in Workers : ReadAttempts(w) \/ Record(w) \/ \E i \in Items : Send(w, i)
  \/ \E ws \in (SUBSET Workers) \ {{}} : Interrupt(ws)

\* The daemon thread keeps its rounds, a call to Telegram ends (it has a
\* timeout) and time passes. Requests owe nothing.
Fairness ==
  /\ WF_vars(ReadBatch)
  /\ WF_vars(\E i \in Items : Send("loop", i))
  /\ WF_vars(ReadAttempts("loop") \/ Record("loop"))
  /\ \A i \in Items : WF_vars(Elapse(i))

Spec == Init /\ [][Next]_vars
FairSpec == Spec /\ Fairness

-----------------------------------------------------------------------------
(* Properties. *)

\* No row is settled without cause: "sent" only if Telegram took the message,
\* "failed" only after a refusal or after the last attempt. Deliveries of a
\* test by the loop and by its own request may record in either order.
SettledForCause ==
  \A i \in Items :
    /\ status[i] = "sent" => accepted[i] > 0
    /\ status[i] = "failed" => i \in refusals \/ attempts[i] >= MaxAttempts

\* The attempt limit holds for every alert, across retries, dropped batches
\* and restarts; only a test, which has two deliverers, may exceed it by one,
\* though each of them counts from what it read.
AttemptsBounded ==
  \A i \in Items : attempts[i] <= IF i \in Alerts THEN MaxAttempts ELSE MaxAttempts + 1

\* An alert reaches the chat twice only if its first arrival went unrecorded:
\* the answer was lost or the worker was interrupted before its transaction.
DuplicatesOnlyAfterLoss ==
  \A a \in Alerts : accepted[a] > 1 => a \in unrecorded

\* A settled alert is history: no late result, retry or silencing touches it.
\* (A test may go from sent back to retry: see the README.)
SettledAlertsStay ==
  [][\A a \in Alerts : status[a] \in Final =>
       status'[a] = status[a] /\ attempts'[a] = attempts[a]]_vars

\* A queued row does not stay queued while a chat is connected: it is sent,
\* given up or dropped by silencing, however Telegram answers.
QueuedIsSettled ==
  \A i \in Items : status[i] \in Queued ~> (status[i] \notin Queued \/ ~connected)
=============================================================================
