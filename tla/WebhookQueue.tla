---------------------------- MODULE WebhookQueue ----------------------------
(***************************************************************************)
(* The in-memory webhook queue of @dtu/webhooks, the SQLite dead letter     *)
(* store it shares with the twin's StateManager, and the operations of the  *)
(* twin that act on both: the DLQ admin endpoints, POST /admin/reset,       *)
(* graceful shutdown, and a restart of the process.                         *)
(*                                                                          *)
(* The program is one Node event loop: a handler runs alone until it awaits.*)
(* The only await of the queue is the HTTP POST of an attempt, so an attempt*)
(* is two steps: it begins (StartAttempt, inside whichever step schedules   *)
(* it) and it ends (Succeed or Fail), and anything may run between the two. *)
(*                                                                          *)
(* A job is identified with its jobId: WebhookDelivery.id is documented as  *)
(* unique and every caller in the twins passes a fresh randomUUID().        *)
(***************************************************************************)
EXTENDS Integers, Sequences, FiniteSets

CONSTANTS
  Jobs,         \* the jobs that can ever be created (bounds the model)
  None,         \* "this job was never created"
  RetryDelays,  \* WebhookQueueOptions.retryDelays
  TimeScale,    \* WebhookQueueOptions.timeScale
  Persistent,   \* DB_PATH names a file (TRUE) or is ':memory:' (FALSE)
  MaxResets,    \* bound on the number of POST /admin/reset
  MaxRestarts   \* bound on the number of process restarts

ASSUME NoneAssumption == None \notin Jobs
ASSUME DelaysAssumption == RetryDelays \in Seq(Nat) /\ TimeScale \in Nat
ASSUME ModeAssumption == Persistent \in BOOLEAN
ASSUME BoundsAssumption == MaxResets \in Nat /\ MaxRestarts \in Nat

VARIABLES
  syncMode,     \* WebhookQueueOptions.syncMode, chosen once
  origin,       \* origin[j]: the job that first carried j's delivery, or None
  attempt,      \* WebhookJob.attempt
  pending,      \* the keys of WebhookQueue.pending
  timer,        \* the jobs with an armed retry timer
  inflight,     \* the jobs whose executeAttempt awaits the HTTP response
  dlq,          \* the job_id column of dead_letter_queue
  storeOpen,    \* the connection of the store's prepared statements is open
  up,           \* the twin accepts requests
  posts,        \* history: how many POSTs were begun for a job
  delivered,    \* history: jobs that were answered with a 2xx
  excused,      \* history: jobs given up by an explicit act of somebody
  resets,       \* how many resets have happened
  restarts      \* how many restarts have happened

queueVars   == <<origin, attempt, pending, timer, inflight>>
storeVars   == <<dlq, storeOpen>>
historyVars == <<posts, delivered, excused>>
boundVars   == <<syncMode, resets, restarts>>
vars == <<queueVars, storeVars, up, historyVars, boundVars>>

-----------------------------------------------------------------------------
(* How often a job is attempted. *)

(* No attempt is left once n attempts have failed. *)
Exhausted(n) == n >= Len(RetryDelays)

(* The first failure of a queue without delays is final as well. *)
MaxAttempts == IF RetryDelays = <<>> THEN 1 ELSE Len(RetryDelays)

(* A delay of exactly 0 runs the attempt at once; an empty retryDelays makes *)
(* the delay NaN, which is not 0, and the attempt goes through a timer.      *)
Immediate(n) ==
  LET i == IF n < Len(RetryDelays) THEN n + 1 ELSE Len(RetryDelays)
  IN  i > 0 /\ RetryDelays[i] * TimeScale = 0

Init ==
  /\ syncMode  \in BOOLEAN
  /\ origin    = [j \in Jobs |-> None]
  /\ attempt   = [j \in Jobs |-> 0]
  /\ pending   = {}
  /\ timer     = {}
  /\ inflight  = {}
  /\ dlq       = {}
  /\ storeOpen = TRUE
  /\ up        = TRUE
  /\ posts     = [j \in Jobs |-> 0]
  /\ delivered = {}
  /\ excused   = {}
  /\ resets    = 0
  /\ restarts  = 0

-----------------------------------------------------------------------------
(* Scheduling. *)

(* executeAttempt up to its await: the POST leaves. *)
StartAttempt(j) ==
  /\ inflight' = inflight \cup {j}
  /\ posts' = [posts EXCEPT ![j] = @ + 1]

(* A slip in scheduleAttempt: the retry timer is never armed. *)
ScheduleNothing(j, n) ==
  \/ /\ Immediate(n)
     /\ StartAttempt(j)
     /\ UNCHANGED timer
  \/ /\ ~Immediate(n)
     /\ inflight' = inflight \ {j}
     /\ UNCHANGED <<timer, posts>>

(* scheduleAttempt for a job that is in pending and has n failed attempts.   *)
(* When it is called from a failing attempt, that attempt is over.           *)
ScheduleAttempt(j, n) ==
  \/ /\ Immediate(n)
     /\ StartAttempt(j)
     /\ UNCHANGED timer
  \/ /\ ~Immediate(n)
     /\ timer' = timer \cup {j}
     /\ inflight' = inflight \ {j}
     /\ UNCHANGED posts

(* A slip in enqueue: the sync branch does not return. *)
AcceptFallsThrough(j, o) ==
  /\ origin[j] = None
  /\ origin' = [origin EXCEPT ![j] = o]
  /\ StartAttempt(j)
  /\ pending' = pending \cup {j}
  /\ timer' = timer \cup {j}
  /\ UNCHANGED <<attempt, delivered>>

(* enqueue of a delivery first carried by job o, under the fresh jobId j.    *)
Accept(j, o) ==
  /\ origin[j] = None
  /\ origin' = [origin EXCEPT ![j] = o]
  /\ \/ /\ syncMode
        /\ StartAttempt(j)
        /\ UNCHANGED <<pending, timer>>
     \/ /\ ~syncMode
        /\ pending' = pending \cup {j}
        /\ ScheduleAttempt(j, 0)
  /\ UNCHANGED <<attempt, delivered>>

Enqueue(j) ==
  /\ up
  /\ Accept(j, j)
  /\ UNCHANGED <<storeVars, up, excused, boundVars>>

(* The retry timer of an entry goes off. *)
TimerFires(j) ==
  /\ j \in timer
  /\ timer' = timer \ {j}
  /\ StartAttempt(j)
  /\ UNCHANGED <<origin, attempt, pending, storeVars, up, delivered, excused, boundVars>>

-----------------------------------------------------------------------------
(* The end of an attempt. *)

(* A 2xx answer: the entry leaves the map, whatever happened meanwhile.      *)
Succeed(j) ==
  /\ j \in inflight
  /\ inflight' = inflight \ {j}
  /\ pending' = pending \ {j}
  /\ delivered' = delivered \cup {j}
  /\ UNCHANGED <<origin, attempt, timer, storeVars, up, posts, excused, boundVars>>

(* The final failure. deadLetterStore.add comes first: when its connection   *)
(* is closed it throws, pending.delete is never reached, and the rejection   *)
(* is swallowed by the .catch(() => {}) of scheduleAttempt.                  *)
Bury(j) ==
  /\ inflight' = inflight \ {j}
  /\ \/ /\ storeOpen
        /\ dlq' = dlq \cup {j}
        /\ pending' = pending \ {j}
     \/ /\ ~storeOpen
        /\ UNCHANGED <<dlq, pending>>
  /\ UNCHANGED <<timer, posts>>

(* A failure that leaves attempts: scheduleAttempt, which returns at once    *)
(* when the entry is gone (drained meanwhile, or a sync-mode job that never  *)
(* had one).                                                                 *)
Retry(j) ==
  /\ \/ /\ j \in pending
        /\ ScheduleAttempt(j, attempt[j] + 1)
     \/ /\ j \notin pending
        /\ inflight' = inflight \ {j}
        /\ UNCHANGED <<timer, posts>>
  /\ UNCHANGED <<dlq, pending>>

(* A non-2xx answer, a network error or the timeout of the POST. In sync     *)
(* mode the error reaches the caller of enqueue, who thereby knows.          *)
Fail(j) ==
  /\ j \in inflight
  /\ attempt' = [attempt EXCEPT ![j] = @ + 1]
  /\ \/ Exhausted(attempt[j] + 1) /\ Bury(j)
     \/ ~Exhausted(attempt[j] + 1) /\ Retry(j)
  /\ excused' = IF syncMode THEN excused \cup {j} ELSE excused
  /\ UNCHANGED <<origin, storeOpen, up, delivered, boundVars>>

-----------------------------------------------------------------------------
(* Drain, the DLQ endpoints, reset, shutdown and restart. *)

(* The body of drain() and shutdown(): attempts in flight go on. *)
ClearPending ==
  /\ timer' = timer \ pending
  /\ pending' = {}
  /\ excused' = excused \cup pending

Drain ==
  /\ ClearPending
  /\ UNCHANGED <<origin, attempt, inflight, storeVars, up, posts, delivered, boundVars>>

(* A slip: the row is removed and its delivery is not queued again. *)
DlqRetryDrops(r, j) ==
  /\ up /\ storeOpen
  /\ r \in dlq
  /\ origin[j] = None
  /\ dlq' = dlq \ {r}
  /\ UNCHANGED <<queueVars, storeOpen, up, historyVars, boundVars>>

(* POST /admin/dead-letter-queue/:id/retry: the row is removed and its       *)
(* delivery enqueued under a new jobId before the handler can be interrupted.*)
(* On a closed connection the first query throws and nothing changes.        *)
DlqRetry(r, j) ==
  /\ up /\ storeOpen
  /\ r \in dlq
  /\ dlq' = dlq \ {r}
  /\ Accept(j, origin[r])
  /\ UNCHANGED <<storeOpen, up, excused, boundVars>>

(* DELETE /admin/dead-letter-queue/:id *)
DlqRemove(r) ==
  /\ up /\ storeOpen
  /\ r \in dlq
  /\ dlq' = dlq \ {r}
  /\ excused' = excused \cup {r}
  /\ UNCHANGED <<queueVars, storeOpen, up, posts, delivered, boundVars>>

(* DELETE /admin/dead-letter-queue *)
DlqClear ==
  /\ up /\ storeOpen
  /\ dlq' = {}
  /\ excused' = excused \cup dlq
  /\ UNCHANGED <<queueVars, storeOpen, up, posts, delivered, boundVars>>

(* What is left of the table when the connection that held it is closed. *)
SurvivingRows == IF Persistent THEN dlq ELSE {}

(* POST /admin/reset: StateManager.reset() closes the connection and opens   *)
(* another, and the store keeps its statements of the closed one. The queue  *)
(* is not touched.                                                           *)
Reset ==
  /\ up
  /\ resets < MaxResets
  /\ resets' = resets + 1
  /\ storeOpen' = FALSE
  /\ dlq' = SurvivingRows
  /\ excused' = excused \cup (dlq \ SurvivingRows)
  /\ UNCHANGED <<queueVars, up, posts, delivered, syncMode, restarts>>

(* The onClose hook: shutdown(), the store's no-op close(), then the         *)
(* StateManager closes the connection. Attempts in flight are still running. *)
Close ==
  /\ up
  /\ up' = FALSE
  /\ timer' = timer \ pending
  /\ pending' = {}
  /\ storeOpen' = FALSE
  /\ dlq' = SurvivingRows
  /\ excused' = excused \cup pending \cup (dlq \ SurvivingRows)
  /\ UNCHANGED <<origin, attempt, inflight, posts, delivered, boundVars>>

(* The process ends, by process.exit() after Close or by a crash, and a new  *)
(* one builds the app: only what SQLite kept in a file is still there.       *)
Restart ==
  /\ restarts < MaxRestarts
  /\ restarts' = restarts + 1
  /\ pending' = {}
  /\ timer' = {}
  /\ inflight' = {}
  /\ storeOpen' = TRUE
  /\ up' = TRUE
  /\ dlq' = SurvivingRows
  /\ excused' = excused \cup pending \cup inflight \cup (dlq \ SurvivingRows)
  /\ UNCHANGED <<origin, attempt, posts, delivered, syncMode, resets>>

-----------------------------------------------------------------------------
JobStep(j) == Enqueue(j) \/ TimerFires(j) \/ Succeed(j) \/ Fail(j)

OperatorStep ==
  \/ Drain
  \/ \E r, j \in Jobs : DlqRetry(r, j)
  \/ \E r \in Jobs : DlqRemove(r)
  \/ DlqClear
  \/ Reset
  \/ Close
  \/ Restart

Next == (\E j \in Jobs : JobStep(j)) \/ OperatorStep

Spec == Init /\ [][Next]_vars

(* Every POST is bounded by AbortSignal.timeout and every armed timer goes   *)
(* off; nothing else is promised to happen.                                  *)
Fairness ==
  \A j \in Jobs : /\ WF_vars(TimerFires(j))
                  /\ WF_vars(Succeed(j) \/ Fail(j))

FairSpec == Spec /\ Fairness

-----------------------------------------------------------------------------
(* Properties. *)

(* Every variable keeps its type; WebhookJob.attempt and the number of POSTs *)
(* never exceed the number of attempts.                                      *)
TypeOK ==
  /\ syncMode \in BOOLEAN
  /\ origin \in [Jobs -> Jobs \cup {None}]
  /\ attempt \in [Jobs -> 0..MaxAttempts]
  /\ pending \subseteq Jobs
  /\ timer \subseteq Jobs
  /\ inflight \subseteq Jobs
  /\ dlq \subseteq Jobs
  /\ storeOpen \in BOOLEAN
  /\ up \in BOOLEAN
  /\ posts \in [Jobs -> 0..MaxAttempts]
  /\ delivered \subseteq Jobs
  /\ excused \subseteq Jobs
  /\ resets \in 0..MaxResets
  /\ restarts \in 0..MaxRestarts

(* "Clean shutdown without timer leaks": a timer is only ever armed for an   *)
(* entry of the map, so draining the map disarms them all, and never beside  *)
(* an attempt of the same job (a receiver is not posted to twice at once).   *)
NoTimerLeak ==
  /\ timer \subseteq pending
  /\ timer \cap inflight = {}

(* An entry of the map always has something that will take it out again, a   *)
(* timer or an attempt, as long as the store's connection is the open one.   *)
(* scheduleAttempt and executeAttempt hand the job from one to the other.    *)
NoStrandedJob == storeOpen => pending \subseteq timer \cup inflight

(* A job whose delivery is settled is settled for good: a delivered job is   *)
(* not in the map, not attempted and not dead-lettered, and a row of the DLQ *)
(* is a job that used up exactly its attempts, each one a POST, and has left *)
(* the map. Drained attempts that end late and store faults must keep this.  *)
SettledIsFinal ==
  /\ delivered \cap (pending \cup inflight \cup dlq) = {}
  /\ dlq \cap (pending \cup inflight) = {}
  /\ \A j \in dlq : posts[j] = MaxAttempts /\ attempt[j] = MaxAttempts

(* Every delivery that enqueue accepted is still being carried, was          *)
(* delivered, is in the DLQ, or was given up by somebody's act: draining,    *)
(* removing its row, restarting, or being told by a sync-mode error. An      *)
(* admin retry hands it from one job to the next. Resets are excluded here.  *)
Kept(o) ==
  \E k \in Jobs : /\ origin[k] = o
                  /\ k \in timer \cup inflight \cup delivered \cup dlq \cup excused

NoSilentLoss ==
  resets = 0 => \A j \in Jobs : origin[j] # None => Kept(origin[j])

(* "In sync mode: awaits delivery and throws on failure (no retry)": the     *)
(* failing attempt still calls scheduleAttempt, and must find no entry.      *)
SyncNeverRetries ==
  syncMode => pending = {} /\ timer = {} /\ \A j \in Jobs : posts[j] <= 1

(* "Get count of in-flight deliveries" (size): every entry of the map is one *)
(* that is in flight or waits for its retry, resets or not.                  *)
SizeCountsInFlight == pending \subseteq timer \cup inflight

-----------------------------------------------------------------------------
(* The promise of the queue, seen from the outside: see DeliveryPromise.     *)

status == [j \in Jobs |->
  IF origin[j] = None THEN "new"
  ELSE IF j \in delivered THEN "delivered"
  ELSE IF j \in dlq THEN "dead"
  ELSE IF j \in pending \/ (syncMode /\ j \in inflight) THEN "owed"
  ELSE IF j \in inflight THEN "orphaned"
  ELSE "gone"]

Promise == INSTANCE DeliveryPromise WITH tries <- posts, MaxTries <- MaxAttempts

(* The queue implements the promise of DeliveryPromise under this mapping. *)
PromiseSafety == Promise!Spec

(* And every owed job is settled or given up in the end, or the twin is reset. *)
PromiseKept ==
  \A j \in Jobs : status[j] \in {"owed", "orphaned"}
                  ~> resets > 0 \/ status[j] \in {"delivered", "dead", "gone"}

=============================================================================
