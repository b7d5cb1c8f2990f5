------------------------------ MODULE Delivery ------------------------------
(***************************************************************************)
(* Notifications: the first attempt inside the request that caused them,   *)
(* retries by jobs of the maintenance queue, and what providers, database  *)
(* and Redis do to them.                                                   *)
(***************************************************************************)
EXTENDS Integers, Sequences

CONSTANTS
  Messages,     \* one message on one channel to one recipient
  Contacts,     \* what notifyContact is given: the email, then the SMS
  Optional,     \* messages on a channel a restart may find unconfigured
  Requests,     \* slots for requests that notify somebody
  Worker,       \* the queue's worker; it runs one job at a time
  MaxAttempts,
  NoMessage,
  MaxFaults, MaxStalls, MaxOutages   \* bounds

ASSUME DeliveryAssumption ==
  /\ Contacts \subseteq Seq(Messages) /\ Optional \subseteq Messages
  /\ Worker \notin Requests /\ NoMessage \notin Messages
  /\ MaxAttempts \in Nat \ {0}
  /\ MaxFaults \in Nat /\ MaxStalls \in Nat /\ MaxOutages \in Nat

(* Each call of notifyContact records rows of its own.                      *)
ASSUME OwnRows ==
  \A c, d \in Contacts : \A i \in DOMAIN c, j \in DOMAIN d :
    c[i] = d[j] => c = d /\ i = j

VARIABLES
  status, attempts,  \* the notification rows
  fresh, again,      \* retry jobs waiting: never stalled, stalled once
  slot,              \* what each request and the worker is doing
  channels,          \* messages whose channel has an adapter
  redis,             \* is Redis reachable
  taken,             \* contacts already notified
  got, calls,        \* history: messages accepted and calls made
  faults, stalls, outages

vars == <<status, attempts, fresh, again, slot, channels, redis, taken,
          got, calls, faults, stalls, outages>>

Slots == Requests \cup {Worker}
Idle  == [step |-> "idle", msg |-> NoMessage, no |-> 0, rest |-> <<>>,
          retry |-> FALSE]

At(s, step)   == slot[s].step = step
Goto(s, step) == slot' = [slot EXCEPT ![s].step = step]

(* The attempt is over: the worker's job is gone, a request goes on with    *)
(* what is left to send.                                                    *)
ReturnEarly(s) == slot' = [slot EXCEPT ![s] = Idle]
Return(s) == slot' = [slot EXCEPT ![s] =
  IF s = Worker THEN Idle
  ELSE [Idle EXCEPT !.step = "next", !.rest = slot[s].rest]]

Rows     == <<status, attempts>>
Jobs     == <<fresh, again>>
History  == <<got, calls>>
Bounds   == <<faults, stalls, outages>>

Fault == faults < MaxFaults /\ faults' = faults + 1
NoFault == UNCHANGED faults

Init ==
  /\ status = [m \in Messages |-> "none"]
  /\ attempts = [m \in Messages |-> 0]
  /\ fresh = [m \in Messages |-> 0] /\ again = [m \in Messages |-> 0]
  /\ slot = [s \in Slots |-> Idle]
  /\ channels = Messages /\ redis = "up" /\ taken = {}
  /\ got = [m \in Messages |-> 0] /\ calls = [m \in Messages |-> 0]
  /\ faults = 0 /\ stalls = 0 /\ outages = 0

-----------------------------------------------------------------------------
(* An adapter is registered only for a channel that is configured.          *)
IsChannelAvailable(m) == m \in channels

(* notifyContact: the email, then the SMS, each if its channel is there     *)
(* when its turn comes.                                                     *)
NotifyContact(r, c) ==
  /\ At(r, "idle") /\ c \in Contacts \ taken
  /\ taken' = taken \cup {c}
  /\ slot' = [slot EXCEPT ![r] =
       [Idle EXCEPT !.step = "next", !.rest = c]]
  /\ UNCHANGED <<Rows, Jobs, channels, redis, History, Bounds>>

Skip(r) ==
  /\ At(r, "next") /\ slot[r].rest # <<>> /\ ~IsChannelAvailable(Head(slot[r].rest))
  /\ slot' = [slot EXCEPT ![r].rest = Tail(@)]
  /\ UNCHANGED <<Rows, Jobs, channels, redis, taken, History, Bounds>>

(* dispatch: record the row; when that fails nothing is sent on this        *)
(* channel; when the settings the text needs cannot be read, on no other.   *)
Dispatch(r) ==
  /\ At(r, "next") /\ slot[r].rest # <<>> /\ IsChannelAvailable(Head(slot[r].rest))
  /\ LET m == Head(slot[r].rest)
         on == [slot EXCEPT ![r].rest = Tail(@)]
     IN  \/ /\ status' = [status EXCEPT ![m] = "queued"]
            /\ slot' = [on EXCEPT ![r].step = "read", ![r].msg = m]
            /\ NoFault
         \/ Fault /\ UNCHANGED status
            /\ slot' \in {on, [slot EXCEPT ![r] = Idle]}
  /\ UNCHANGED <<attempts, Jobs, channels, redis, taken, History, stalls, outages>>

Notified(r) ==
  /\ At(r, "next") /\ slot[r].rest = <<>>
  /\ slot' = [slot EXCEPT ![r] = Idle]
  /\ UNCHANGED <<Rows, Jobs, channels, redis, taken, History, Bounds>>

-----------------------------------------------------------------------------
(* attemptDelivery.  A row that is sent is left alone.                      *)
NeverOver(m) == FALSE
Over(m) == status[m] = "sent"

ReadRow(s) ==
  LET m == slot[s].msg
  IN  /\ At(s, "read")
      /\ IF Over(m) THEN Return(s)
         ELSE slot' = [slot EXCEPT
                ![s].step = IF IsChannelAvailable(m) THEN "send" ELSE "giveUp",
                ![s].no = attempts[m] + 1]
      /\ UNCHANGED <<Rows, Jobs, channels, redis, taken, History, Bounds>>

GiveUp(s) ==
  /\ At(s, "giveUp")
  /\ status' = [status EXCEPT ![slot[s].msg] = "failed"]
  /\ attempts' = [attempts EXCEPT ![slot[s].msg] = slot[s].no]
  /\ Return(s)
  /\ UNCHANGED <<Jobs, channels, redis, taken, History, Bounds>>

(* The provider takes the message, refuses it, or takes it and its answer   *)
(* is lost or comes after the timeout.                                      *)
Send(s) ==
  LET m == slot[s].msg
  IN  /\ At(s, "send")
      /\ calls' = [calls EXCEPT ![m] = @ + 1]
      /\ \/ got' = [got EXCEPT ![m] = @ + 1] /\ Goto(s, "sent") /\ NoFault
         \/ got' = got /\ Goto(s, "failed") /\ NoFault
         \/ got' = [got EXCEPT ![m] = @ + 1] /\ Goto(s, "failed") /\ Fault
      /\ UNCHANGED <<Rows, Jobs, channels, redis, taken, stalls, outages>>

(* A failing update of a sent message is caught like a failed send.         *)
MarkSent(s) ==
  /\ At(s, "sent")
  /\ \/ /\ status' = [status EXCEPT ![slot[s].msg] = "sent"]
        /\ attempts' = [attempts EXCEPT ![slot[s].msg] = slot[s].no]
        /\ Return(s) /\ NoFault
     \/ Fault /\ Goto(s, "failed") /\ UNCHANGED Rows
  /\ UNCHANGED <<Jobs, channels, redis, taken, History, stalls, outages>>

Retryable(no)  == no < MaxAttempts
AlwaysQueued(no) == "queued"
Outcome(no) == IF Retryable(no) THEN "queued" ELSE "failed"

MarkFailed(s) ==
  /\ At(s, "failed")
  /\ \/ /\ status' = [status EXCEPT ![slot[s].msg] = Outcome(slot[s].no)]
        /\ attempts' = [attempts EXCEPT ![slot[s].msg] = slot[s].no]
        /\ IF Retryable(slot[s].no) THEN Goto(s, "schedule") ELSE Return(s)
        /\ NoFault
     \/ Fault /\ Return(s) /\ UNCHANGED Rows
  /\ UNCHANGED <<Jobs, channels, redis, taken, History, stalls, outages>>

(* scheduleRetry: a queue command waits for Redis as long as it is away; an *)
(* error is logged and forgotten.                                           *)
EnqueueNotificationRetry(m) ==
  redis = "up" /\ fresh' = [fresh EXCEPT ![m] = @ + 1]

ScheduleRetry(s) ==
  /\ At(s, "schedule")
  /\ \/ EnqueueNotificationRetry(slot[s].msg) /\ NoFault
     \/ Fault /\ UNCHANGED fresh
  /\ Return(s)
  /\ UNCHANGED <<Rows, again, channels, redis, taken, History, stalls, outages>>

Attempt(s) ==
  \/ ReadRow(s) \/ GiveUp(s) \/ Send(s) \/ MarkSent(s) \/ MarkFailed(s)
  \/ ScheduleRetry(s)

-----------------------------------------------------------------------------
(* processNotificationJob, when the delay of a job is over.                 *)
Due(jobs, m) == jobs[m] > 0

TakeJob(m) ==
  /\ At(Worker, "idle") /\ redis = "up"
  /\ \/ /\ Due(fresh, m) /\ fresh' = [fresh EXCEPT ![m] = @ - 1]
        /\ UNCHANGED again
     \/ /\ Due(again, m) /\ again' = [again EXCEPT ![m] = @ - 1]
        /\ UNCHANGED fresh
  /\ slot' = [slot EXCEPT ![Worker] =
       [Idle EXCEPT !.step = "read", !.msg = m, !.retry = (again' # again)]]
  /\ UNCHANGED <<Rows, channels, redis, taken, History, Bounds>>

(* The worker is cut off from Redis for as long as its job's lock: the job  *)
(* is handed out again, once, while the handler runs on.                    *)
Stall ==
  /\ ~At(Worker, "idle") /\ ~slot[Worker].retry
  /\ stalls < MaxStalls /\ stalls' = stalls + 1
  /\ again' = [again EXCEPT ![slot[Worker].msg] = @ + 1]
  /\ slot' = [slot EXCEPT ![Worker].retry = TRUE]
  /\ UNCHANGED <<Rows, fresh, channels, redis, taken, History, faults, outages>>

(* The server dies and restarts, perhaps configured without a channel:      *)
(* requests are gone, the worker's job comes back.                          *)
Crash ==
  /\ Fault
  /\ slot' = [s \in Slots |-> Idle]
  /\ channels' \in {Messages, Messages \ Optional}
  /\ again' = IF At(Worker, "idle") \/ slot[Worker].retry THEN again
              ELSE [again EXCEPT ![slot[Worker].msg] = @ + 1]
  /\ UNCHANGED <<Rows, fresh, redis, taken, History, stalls, outages>>

RedisDown ==
  /\ redis = "up" /\ outages < MaxOutages
  /\ redis' = "down" /\ outages' = outages + 1
  /\ UNCHANGED <<Rows, Jobs, slot, channels, taken, History, faults, stalls>>

RedisUp ==
  /\ redis = "down" /\ redis' = "up"
  /\ UNCHANGED <<Rows, Jobs, slot, channels, taken, History, Bounds>>

RequestStep(r) == Skip(r) \/ Dispatch(r) \/ Notified(r) \/ Attempt(r)

Next ==
  \/ \E r \in Requests :
       \/ \E c \in Contacts : NotifyContact(r, c)
       \/ RequestStep(r)
  \/ Attempt(Worker) \/ \E m \in Messages : TakeJob(m)
  \/ Stall \/ Crash \/ RedisDown \/ RedisUp

(* Handlers and the worker run on, and Redis comes back.                    *)
Fairness ==
  /\ \A r \in Requests : WF_vars(RequestStep(r))
  /\ WF_vars(Attempt(Worker)) /\ WF_vars(\E m \in Messages : TakeJob(m))
  /\ WF_vars(RedisUp)

Spec == Init /\ [][Next]_vars /\ Fairness

-----------------------------------------------------------------------------
Steps == {"idle", "next", "read", "giveUp", "send", "sent", "failed",
          "schedule"}
NotificationStatus == {"queued", "sent", "failed"}

(* The variables have their types.                                         *)
TypeOK ==
  /\ status \in [Messages -> NotificationStatus \cup {"none"}]
  /\ attempts \in [Messages -> Nat] /\ got \in [Messages -> Nat]
  /\ calls \in [Messages -> Nat]
  /\ fresh \in [Messages -> Nat] /\ again \in [Messages -> Nat]
  /\ slot \in [Slots -> [step : Steps, msg : Messages \cup {NoMessage},
                         no : Nat, rest : Seq(Messages), retry : BOOLEAN]]
  /\ channels \subseteq Messages /\ redis \in {"up", "down"}
  /\ taken \subseteq Contacts
  /\ faults \in 0..MaxFaults /\ stalls \in 0..MaxStalls
  /\ outages \in 0..MaxOutages

(* A retry job that runs twice sends nothing twice: a recipient gets a      *)
(* message once, and once more only for each answer, update or process that *)
(* was lost after the provider had taken it (attemptDelivery's "Idempotent").*)
DeliveredOnce == \A m \in Messages : got[m] <= 1 + faults

(* The provider is called at most MAX_ATTEMPTS times for a message, and     *)
(* once more for each crash, lost update or job handed out again.           *)
CallsBounded == \A m \in Messages : calls[m] <= MaxAttempts + faults + stalls

(* No message waits for ever: while nothing is lost and there is a queue,   *)
(* each one is in the end sent or given up, across outages of Redis.        *)
Settles ==
  \A m \in Messages : status[m] = "queued"
                        ~> (status[m] \in {"sent", "failed"} \/ faults > 0)

(* A channel that fails does not keep the next one of the contact from      *)
(* being tried, and the request that notifies ends.                         *)
EveryChannelTried ==
  \A c \in Contacts : (c \in taken) ~>
    (faults > 0 \/ \A k \in DOMAIN c :
       status[c[k]] \in {"sent", "failed"})

(* Whatever is lost, repeated or refused, no recipient gets and no provider *)
(* is asked more than the faults explain.                                   *)
DeliveryInv == TypeOK /\ DeliveredOnce /\ CallsBounded
=============================================================================
