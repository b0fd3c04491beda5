--------------------------- MODULE PackagesProofs ---------------------------
(***************************************************************************)
(* What the two packages keep that the twins share: the webhook queue, for  *)
(* every set of jobs, every retryDelays and timeScale, both modes and both  *)
(* kinds of database; and the conformance framework, for every suite, every *)
(* comparison, every way of drifting and any number of sessions and throws. *)
(* The packages do not call one another, and neither do the proofs.         *)
(***************************************************************************)
EXTENDS WebhookQueue, Conformance, SequenceTheorems, FiniteSetTheorems, TLAPS

-----------------------------------------------------------------------------
(* THE WEBHOOK QUEUE                                                        *)


(***************************************************************************)
(* The inductive invariant. The properties alone are not inductive: that a  *)
(* job is never attempted too often needs the exact relation between its    *)
(* counter and its POSTs while it is being carried; that a job settled is   *)
(* settled for good needs that a job not created yet is nowhere; and that   *)
(* nothing is lost needs that an attempt outside the map was given up.      *)
(***************************************************************************)
Counting ==
  /\ \A j \in timer : posts[j] = attempt[j] /\ attempt[j] < MaxAttempts
  /\ \A j \in inflight : posts[j] = attempt[j] + 1 /\ attempt[j] < MaxAttempts

NotYet ==
  \A j \in Jobs : origin[j] = None =>
    /\ attempt[j] = 0 /\ posts[j] = 0
    /\ j \notin pending \cup inflight \cup delivered \cup dlq

Orphans == ~syncMode => inflight \subseteq pending \cup excused

ClosedStore == resets = 0 /\ ~storeOpen => ~up /\ pending = {}

IInv ==
  /\ TypeOK /\ NoTimerLeak /\ NoStrandedJob /\ SettledIsFinal
  /\ SyncNeverRetries
  /\ Counting /\ NotYet /\ Orphans /\ ClosedStore

-----------------------------------------------------------------------------
(* A queue makes at least one attempt. *)
LEMMA MaxAttemptsType == MaxAttempts \in Nat \ {0}
  BY DelaysAssumption DEF MaxAttempts

(* After at least one failure, no attempt is left exactly when all the       *)
(* attempts were made, a queue without delays included.                      *)
LEMMA ExhaustedMeaning ==
  ASSUME NEW n \in Nat \ {0}
  PROVE  Exhausted(n) <=> n >= MaxAttempts
  BY DelaysAssumption DEF Exhausted, MaxAttempts

(* What scheduleAttempt does to the carriers of a job and to its POSTs.      *)
LEMMA ScheduleEffect ==
  ASSUME TypeOK, NEW j \in Jobs, NEW n \in Nat, ScheduleAttempt(j, n)
  PROVE  \/ /\ inflight' = inflight \cup {j}
            /\ posts' = [posts EXCEPT ![j] = posts[j] + 1]
            /\ timer' = timer
         \/ /\ inflight' = inflight \ {j}
            /\ timer' = timer \cup {j}
            /\ posts' = posts
  BY DEF ScheduleAttempt, StartAttempt, TypeOK

-----------------------------------------------------------------------------
(* The initial state satisfies the invariant. *)
LEMMA InitIInv == Init => IInv
  BY MaxAttemptsType, BoundsAssumption
  DEF Init, IInv, TypeOK, NoTimerLeak, NoStrandedJob, SettledIsFinal,
      SyncNeverRetries, Counting, NotYet, Orphans, ClosedStore

(* Accepting a fresh job keeps the invariant, whatever row of the DLQ is     *)
(* taken out in the same step (none, for enqueue itself).                    *)
LEMMA AcceptIInv ==
  ASSUME IInv, NEW j \in Jobs, NEW o \in Jobs, Accept(j, o), up,
         dlq' \subseteq dlq,
         UNCHANGED <<storeOpen, up, excused, boundVars>>
  PROVE  IInv'
<1> USE MaxAttemptsType, NoneAssumption DEF boundVars
<1>1. j \notin pending \cup timer \cup inflight \cup delivered \cup dlq
      /\ attempt[j] = 0 /\ posts[j] = 0
  BY DEF IInv, NotYet, Accept, NoTimerLeak
<1>2. /\ origin' = [origin EXCEPT ![j] = o]
      /\ attempt' = attempt /\ delivered' = delivered
  BY DEF Accept
<1>3. \/ /\ syncMode
         /\ inflight' = inflight \cup {j}
         /\ posts' = [posts EXCEPT ![j] = posts[j] + 1]
         /\ timer' = timer /\ pending' = pending
      \/ /\ ~syncMode
         /\ pending' = pending \cup {j}
         /\ inflight' = inflight \cup {j}
         /\ posts' = [posts EXCEPT ![j] = posts[j] + 1]
         /\ timer' = timer
      \/ /\ ~syncMode
         /\ pending' = pending \cup {j}
         /\ inflight' = inflight \ {j}
         /\ timer' = timer \cup {j}
         /\ posts' = posts
  BY ScheduleEffect DEF Accept, StartAttempt, IInv, TypeOK
<1>4. TypeOK'
  BY <1>1, <1>2, <1>3 DEF IInv, TypeOK
<1>5. NoTimerLeak' /\ NoStrandedJob' /\ Orphans' /\ ClosedStore'
  BY <1>1, <1>2, <1>3
  DEF IInv, NoTimerLeak, NoStrandedJob, Orphans, ClosedStore
<1>6. SettledIsFinal'
  BY <1>1, <1>2, <1>3 DEF IInv, TypeOK, SettledIsFinal
<1>7. SyncNeverRetries'
  BY <1>1, <1>2, <1>3 DEF IInv, TypeOK, SyncNeverRetries
<1>8. Counting'
  BY <1>1, <1>2, <1>3 DEF IInv, TypeOK, NoTimerLeak, Counting
<1>9. NotYet'
  BY <1>1, <1>2, <1>3 DEF IInv, TypeOK, NotYet
<1>10. QED
  BY <1>4, <1>5, <1>6, <1>7, <1>8, <1>9 DEF IInv

(* The end of an attempt keeps the invariant. *)
LEMMA SucceedIInv ==
  ASSUME IInv, NEW j \in Jobs, Succeed(j)
  PROVE  IInv'
<1> USE MaxAttemptsType, NoneAssumption DEF storeVars, boundVars
<1>1. TypeOK' /\ NoTimerLeak' /\ NoStrandedJob' /\ Orphans' /\ ClosedStore'
  BY DEF Succeed, IInv, TypeOK, NoTimerLeak, NoStrandedJob, Orphans, ClosedStore
<1>2. SettledIsFinal' /\ SyncNeverRetries'
  BY DEF Succeed, IInv, TypeOK, SettledIsFinal, SyncNeverRetries
<1>3. Counting' /\ NotYet'
  BY DEF Succeed, IInv, TypeOK, Counting, NotYet
<1>4. QED
  BY <1>1, <1>2, <1>3 DEF IInv

LEMMA FailIInv ==
  ASSUME IInv, NEW j \in Jobs, Fail(j)
  PROVE  IInv'
<1> USE MaxAttemptsType, NoneAssumption DEF boundVars
<1>1. /\ j \in inflight /\ j \notin timer \cup delivered \cup dlq
      /\ attempt[j] \in Nat /\ posts[j] = attempt[j] + 1 /\ attempt[j] < MaxAttempts
      /\ origin[j] # None
  BY DEF Fail, IInv, TypeOK, NoTimerLeak, SettledIsFinal, Counting, NotYet
<1>2. /\ attempt' = [attempt EXCEPT ![j] = attempt[j] + 1]
      /\ excused' = IF syncMode THEN excused \cup {j} ELSE excused
      /\ UNCHANGED <<origin, storeOpen, up, delivered, syncMode, resets, restarts>>
  BY DEF Fail
<1>3. CASE Exhausted(attempt[j] + 1)
  <2>1. attempt[j] + 1 = MaxAttempts
    BY <1>1, <1>3, ExhaustedMeaning
  <2>2. /\ inflight' = inflight \ {j} /\ timer' = timer /\ posts' = posts
        /\ \/ storeOpen /\ dlq' = dlq \cup {j} /\ pending' = pending \ {j}
           \/ ~storeOpen /\ dlq' = dlq /\ pending' = pending
    BY <1>3 DEF Fail, Bury
  <2>3. TypeOK'
    BY <1>1, <1>2, <2>1, <2>2 DEF IInv, TypeOK
  <2>4. NoTimerLeak' /\ NoStrandedJob' /\ Orphans' /\ ClosedStore'
    BY <1>1, <1>2, <2>2
    DEF IInv, NoTimerLeak, NoStrandedJob, Orphans, ClosedStore
  <2>5. SettledIsFinal' /\ SyncNeverRetries'
    BY <1>1, <1>2, <2>1, <2>2 DEF IInv, TypeOK, SettledIsFinal, SyncNeverRetries
  <2>6. Counting' /\ NotYet'
    BY <1>1, <1>2, <2>2 DEF IInv, TypeOK, Counting, NotYet
  <2>7. QED
    BY <2>3, <2>4, <2>5, <2>6 DEF IInv
<1>4. CASE ~Exhausted(attempt[j] + 1)
  <2>1. attempt[j] + 1 < MaxAttempts
    BY <1>1, <1>4, ExhaustedMeaning
  <2>2. /\ dlq' = dlq /\ pending' = pending
        /\ \/ /\ j \in pending
              /\ inflight' = inflight \cup {j} /\ timer' = timer
              /\ posts' = [posts EXCEPT ![j] = posts[j] + 1]
           \/ /\ j \in pending
              /\ inflight' = inflight \ {j} /\ timer' = timer \cup {j}
              /\ posts' = posts
           \/ /\ j \notin pending
              /\ inflight' = inflight \ {j} /\ timer' = timer /\ posts' = posts
    BY <1>1, <1>4, ScheduleEffect DEF Fail, Retry, IInv
  <2>3. TypeOK'
    BY <1>1, <1>2, <2>1, <2>2 DEF IInv, TypeOK
  <2>4. NoTimerLeak' /\ NoStrandedJob' /\ Orphans' /\ ClosedStore'
    BY <1>1, <1>2, <2>2
    DEF IInv, NoTimerLeak, NoStrandedJob, Orphans, ClosedStore
  <2>5. SettledIsFinal' /\ SyncNeverRetries'
    BY <1>1, <1>2, <2>1, <2>2 DEF IInv, TypeOK, SettledIsFinal, SyncNeverRetries
  <2>6. Counting' /\ NotYet'
    BY <1>1, <1>2, <2>1, <2>2 DEF IInv, TypeOK, NoTimerLeak, Counting, NotYet
  <2>7. QED
    BY <2>3, <2>4, <2>5, <2>6 DEF IInv
<1>5. QED
  BY <1>3, <1>4

(* A timer that goes off hands its job to an attempt. *)
LEMMA TimerIInv ==
  ASSUME IInv, NEW j \in Jobs, TimerFires(j)
  PROVE  IInv'
<1> USE MaxAttemptsType, NoneAssumption DEF storeVars, boundVars
<1>1. /\ j \in timer /\ j \in pending /\ j \notin inflight \cup delivered \cup dlq
      /\ posts[j] = attempt[j] /\ attempt[j] < MaxAttempts /\ origin[j] # None
  BY DEF TimerFires, IInv, TypeOK, NoTimerLeak, SettledIsFinal, Counting, NotYet
<1>2. /\ inflight' = inflight \cup {j} /\ timer' = timer \ {j}
      /\ posts' = [posts EXCEPT ![j] = posts[j] + 1]
      /\ UNCHANGED <<origin, attempt, pending, dlq, storeOpen, up, delivered,
                     excused, syncMode, resets, restarts>>
  BY DEF TimerFires, StartAttempt
<1>3. TypeOK'
  BY <1>1, <1>2 DEF IInv, TypeOK
<1>4. NoTimerLeak' /\ NoStrandedJob' /\ Orphans' /\ ClosedStore'
  BY <1>1, <1>2 DEF IInv, NoTimerLeak, NoStrandedJob, Orphans, ClosedStore
<1>5. SettledIsFinal' /\ SyncNeverRetries'
  BY <1>1, <1>2 DEF IInv, TypeOK, SettledIsFinal, SyncNeverRetries
<1>6. Counting' /\ NotYet'
  BY <1>1, <1>2 DEF IInv, TypeOK, Counting, NotYet
<1>7. QED
  BY <1>3, <1>4, <1>5, <1>6 DEF IInv

-----------------------------------------------------------------------------
(* Drain, DLQ removals, reset, shutdown and restart keep the invariant: they *)
(* create nothing, they only take jobs out.                                  *)
LEMMA OperatorIInv ==
  ASSUME IInv, OperatorStep
  PROVE  IInv'
<1> USE MaxAttemptsType, BoundsAssumption, NoneAssumption
    DEF queueVars, storeVars, boundVars
<1>1. CASE Drain
  <2>1. TypeOK' /\ NoTimerLeak' /\ NoStrandedJob' /\ Orphans' /\ ClosedStore'
    BY <1>1 DEF Drain, ClearPending, IInv, TypeOK, NoTimerLeak, NoStrandedJob,
                Orphans, ClosedStore
  <2>2. SettledIsFinal' /\ SyncNeverRetries' /\ Counting' /\ NotYet'
    BY <1>1 DEF Drain, ClearPending, IInv, TypeOK, SettledIsFinal,
                SyncNeverRetries, Counting, NotYet
  <2>3. QED
    BY <2>1, <2>2 DEF IInv
<1>2. CASE \E r, j \in Jobs : DlqRetry(r, j)
  <2>1. PICK r \in Jobs, j \in Jobs : DlqRetry(r, j)
    BY <1>2
  <2>2. origin[r] \in Jobs
    BY <2>1 DEF DlqRetry, IInv, TypeOK, NotYet
  <2>3. QED
    BY <2>1, <2>2, AcceptIInv DEF DlqRetry
<1>3. CASE (\E r \in Jobs : DlqRemove(r)) \/ DlqClear
  <2>1. TypeOK' /\ NoTimerLeak' /\ NoStrandedJob' /\ Orphans' /\ ClosedStore'
    BY <1>3 DEF DlqRemove, DlqClear, IInv, TypeOK, NoTimerLeak, NoStrandedJob,
                Orphans, ClosedStore
  <2>2. SettledIsFinal' /\ SyncNeverRetries' /\ Counting' /\ NotYet'
    BY <1>3 DEF DlqRemove, DlqClear, IInv, TypeOK, SettledIsFinal,
                SyncNeverRetries, Counting, NotYet
  <2>3. QED
    BY <2>1, <2>2 DEF IInv
<1>4. CASE Reset
  <2>1. TypeOK'
    <3>1. resets' \in 0..MaxResets /\ dlq' \subseteq dlq /\ dlq' \subseteq Jobs
      BY <1>4 DEF Reset, SurvivingRows, IInv, TypeOK
    <3>2. QED
      BY <1>4, <3>1 DEF Reset, IInv, TypeOK
  <2>2. NoTimerLeak' /\ NoStrandedJob' /\ Orphans' /\ ClosedStore'
    <3>1. resets' # 0
      BY <1>4 DEF Reset, IInv, TypeOK
    <3>2. QED
      BY <1>4, <3>1 DEF Reset, IInv, NoTimerLeak, NoStrandedJob, Orphans, ClosedStore
  <2>3. SettledIsFinal' /\ SyncNeverRetries' /\ Counting' /\ NotYet'
    BY <1>4 DEF Reset, SurvivingRows, IInv, TypeOK, SettledIsFinal,
                SyncNeverRetries, Counting, NotYet
  <2>4. QED
    BY <2>1, <2>2, <2>3 DEF IInv
<1>5. CASE Close
  <2>1. TypeOK' /\ NoTimerLeak' /\ NoStrandedJob' /\ Orphans' /\ ClosedStore'
    BY <1>5 DEF Close, SurvivingRows, IInv, TypeOK, NoTimerLeak, NoStrandedJob,
                Orphans, ClosedStore
  <2>2. SettledIsFinal' /\ SyncNeverRetries' /\ Counting' /\ NotYet'
    BY <1>5 DEF Close, SurvivingRows, IInv, TypeOK, SettledIsFinal,
                SyncNeverRetries, Counting, NotYet
  <2>3. QED
    BY <2>1, <2>2 DEF IInv
<1>6. CASE Restart
  <2>1. TypeOK' /\ NoTimerLeak' /\ NoStrandedJob' /\ Orphans' /\ ClosedStore'
    BY <1>6 DEF Restart, SurvivingRows, IInv, TypeOK, NoTimerLeak, NoStrandedJob,
                Orphans, ClosedStore
  <2>2. SettledIsFinal' /\ SyncNeverRetries' /\ Counting' /\ NotYet'
    BY <1>6 DEF Restart, SurvivingRows, IInv, TypeOK, SettledIsFinal,
                SyncNeverRetries, Counting, NotYet
  <2>3. QED
    BY <2>1, <2>2 DEF IInv
<1>7. QED
  BY <1>1, <1>2, <1>3, <1>4, <1>5, <1>6 DEF OperatorStep

(* Every step keeps the invariant. *)
LEMMA StepIInv == IInv /\ [Next]_vars => IInv'
<1>1. ASSUME IInv, NEW j \in Jobs, JobStep(j)
      PROVE  IInv'
  <2>1. CASE Enqueue(j)
    BY <1>1, <2>1, AcceptIInv DEF Enqueue, storeVars
  <2>2. QED
    BY <1>1, <2>1, TimerIInv, SucceedIInv, FailIInv DEF JobStep
<1>2. ASSUME IInv, UNCHANGED vars
      PROVE  IInv'
  BY <1>2 DEF vars, queueVars, storeVars, historyVars, boundVars, IInv, TypeOK,
     NoTimerLeak, NoStrandedJob, SettledIsFinal, SyncNeverRetries, Counting,
     NotYet, Orphans, ClosedStore
<1>3. QED
  BY <1>1, <1>2, OperatorIInv DEF Next

LEMMA Invariance == Spec => []IInv
  BY InitIInv, StepIInv, PTL DEF Spec

(* The type invariant of the queue. *)
THEOREM TypeCorrect == Spec => []TypeOK
<1>1. IInv => TypeOK
  BY DEF IInv
<1>2. QED
  BY <1>1, Invariance, PTL

(* "Clean shutdown without timer leaks": no timer outlives its entry or runs *)
(* beside an attempt of its job.                                             *)
THEOREM NoTimerOutlivesItsEntry == Spec => []NoTimerLeak
<1>1. IInv => NoTimerLeak
  BY DEF IInv
<1>2. QED
  BY <1>1, Invariance, PTL

(* No entry is stranded while the connection of the store is open.           *)
THEOREM EntriesAreCarried == Spec => []NoStrandedJob
<1>1. IInv => NoStrandedJob
  BY DEF IInv
<1>2. QED
  BY <1>1, Invariance, PTL

(* What is settled stays settled, late attempts of drained jobs included.    *)
THEOREM SettledForGood == Spec => []SettledIsFinal
<1>1. IInv => SettledIsFinal
  BY DEF IInv
<1>2. QED
  BY <1>1, Invariance, PTL

(* "In sync mode: awaits delivery and throws on failure (no retry)".         *)
THEOREM SyncHasOneTry == Spec => []SyncNeverRetries
<1>1. IInv => SyncNeverRetries
  BY DEF IInv
<1>2. QED
  BY <1>1, Invariance, PTL

-----------------------------------------------------------------------------
(***************************************************************************)
(* No delivery is silently lost. A step other than an admin retry lets      *)
(* every job that accounts for a delivery go on accounting for it; an admin *)
(* retry lets the new job take over from the row it removes.                *)
(***************************************************************************)
Accounting == timer \cup inflight \cup delivered \cup dlq \cup excused

(* A job that accounts for its delivery goes on doing so, unless the twin is *)
(* reset or its row is retried.                                              *)
LEMMA AccountingGrows ==
  ASSUME IInv, NEW j \in Jobs, JobStep(j), resets = 0
  PROVE  /\ Accounting \subseteq Accounting'
         /\ \/ origin' = origin
            \/ /\ origin[j] = None /\ j \in Accounting'
               /\ origin' = [origin EXCEPT ![j] = j]
<1> USE DEF Accounting
<1>1. CASE Enqueue(j)
  <2>1. \/ inflight' = inflight \cup {j} /\ timer' = timer
        \/ inflight' = inflight \ {j} /\ timer' = timer \cup {j}
    BY <1>1 DEF Enqueue, Accept, ScheduleAttempt, StartAttempt
  <2>2. QED
    BY <1>1, <2>1 DEF Enqueue, Accept, storeVars
<1>2. CASE TimerFires(j) \/ Succeed(j)
  BY <1>2 DEF TimerFires, Succeed, StartAttempt, storeVars
<1>3. CASE Fail(j)
  <2>1. CASE Exhausted(attempt[j] + 1)
    <3>1. syncMode \/ j \in pending \/ j \in excused
      BY <1>3 DEF Fail, IInv, Orphans
    <3>2. storeOpen \/ j \in excused'
      BY <1>3, <3>1 DEF Fail, IInv, ClosedStore
    <3>3. QED
      BY <1>3, <2>1, <3>2 DEF Fail, Bury
  <2>2. CASE ~Exhausted(attempt[j] + 1)
    <3>1. j \in pending \/ j \in excused'
      BY <1>3 DEF Fail, IInv, Orphans
    <3>2. j \in timer' \cup inflight' \cup excused'
      BY <1>3, <2>2, <3>1 DEF Fail, Retry, ScheduleAttempt, StartAttempt
    <3>3. timer \subseteq timer' /\ inflight \subseteq inflight' \cup {j} /\ dlq' = dlq
      BY <1>3, <2>2 DEF Fail, Retry, ScheduleAttempt, StartAttempt
    <3>4. QED
      BY <1>3, <3>2, <3>3 DEF Fail
  <2>3. QED
    BY <2>1, <2>2
<1>4. QED
  BY <1>1, <1>2, <1>3 DEF JobStep

(* The same for the operator's steps; an admin retry passes the delivery on. *)
LEMMA AccountingHandedOn ==
  ASSUME IInv, OperatorStep, resets' = 0
  PROVE  \/ origin' = origin /\ Accounting \subseteq Accounting'
         \/ \E r, j \in Jobs :
              /\ Accounting \subseteq Accounting' \cup {r}
              /\ origin[j] = None /\ j \in Accounting'
              /\ origin[r] \in Jobs /\ origin' = [origin EXCEPT ![j] = origin[r]]
<1> USE DEF Accounting, queueVars, storeVars
<1>1. CASE Drain
  BY <1>1 DEF Drain, ClearPending
<1>2. CASE \E r, j \in Jobs : DlqRetry(r, j)
  <2>1. PICK r \in Jobs, j \in Jobs : DlqRetry(r, j)
    BY <1>2
  <2>2. \/ inflight' = inflight \cup {j} /\ timer' = timer
        \/ inflight' = inflight \ {j} /\ timer' = timer \cup {j}
    BY <2>1 DEF DlqRetry, Accept, ScheduleAttempt, StartAttempt
  <2>3. origin[r] \in Jobs
    BY <2>1 DEF DlqRetry, IInv, TypeOK, NotYet
  <2>4. Accounting \subseteq Accounting' \cup {r}
    BY <2>1, <2>2 DEF DlqRetry, Accept
  <2>5. origin[j] = None /\ j \in Accounting'
        /\ origin' = [origin EXCEPT ![j] = origin[r]]
    BY <2>1, <2>2 DEF DlqRetry, Accept
  <2>6. QED
    BY <2>3, <2>4, <2>5
<1>3. CASE (\E r \in Jobs : DlqRemove(r)) \/ DlqClear
  BY <1>3 DEF DlqRemove, DlqClear
<1>4. CASE Reset
  BY <1>4 DEF Reset, IInv, TypeOK
<1>5. CASE Close
  BY <1>5 DEF Close, IInv, NoTimerLeak
<1>6. CASE Restart
  BY <1>6 DEF Restart, IInv, NoTimerLeak
<1>7. QED
  BY <1>1, <1>2, <1>3, <1>4, <1>5, <1>6 DEF OperatorStep

(* In a twin that is not reset, an accepted delivery is being carried, was   *)
(* delivered, is dead-lettered, or was given up by somebody's act.           *)
THEOREM NothingSilentlyLost == Spec => []NoSilentLoss
<1>1. Init => NoSilentLoss
  BY DEF Init, NoSilentLoss
<1>2. ASSUME IInv, NoSilentLoss, [Next]_vars
      PROVE  NoSilentLoss'
  <2> USE DEF Accounting
  <2>1. SUFFICES ASSUME resets' = 0, NEW o \in Jobs, NEW i \in Jobs, origin'[i] = o
                 PROVE  \E k \in Jobs : origin'[k] = o /\ k \in Accounting'
    BY <1>2, StepIInv, NoneAssumption DEF NoSilentLoss, Kept, IInv, TypeOK
  <2>2. resets = 0
    BY <1>2, <2>1 DEF IInv, TypeOK, Next, JobStep, OperatorStep, Enqueue, TimerFires,
       Succeed, Fail, Drain, DlqRetry, DlqRemove, DlqClear, Reset, Close, Restart,
       vars, boundVars
  <2>3. \A c \in Jobs : origin[c] = o =>
          \E k \in Jobs : origin[k] = o /\ k \in Accounting
    BY <1>2, <2>2, NoneAssumption DEF NoSilentLoss, Kept
  <2>4. CASE \E j \in Jobs : JobStep(j)
    <3>1. PICK j \in Jobs : JobStep(j)
      BY <2>4
    <3>2. QED
      BY <1>2, <2>1, <2>2, <2>3, <3>1, AccountingGrows, NoneAssumption DEF IInv, TypeOK
  <2>5. CASE OperatorStep
    BY <1>2, <2>1, <2>3, <2>5, AccountingHandedOn, NoneAssumption DEF IInv, TypeOK
  <2>6. CASE UNCHANGED vars
    BY <2>1, <2>3, <2>6 DEF vars, queueVars, storeVars, historyVars
  <2>7. QED
    BY <1>2, <2>4, <2>5, <2>6 DEF Next
<1>3. QED
  BY <1>1, <1>2, Invariance, PTL DEF Spec

-----------------------------------------------------------------------------
(***************************************************************************)
(* The queue implements DeliveryPromise. Jobs move independently in the     *)
(* promise, so a step of the queue is checked job by job: PromiseMove(i) is *)
(* what the promise lets job i do in one step.                              *)
(***************************************************************************)
PromiseMove(i) ==
  \/ Promise!Accepted(i) \/ Promise!Tried(i) \/ Promise!Delivered(i)
  \/ Promise!Died(i) \/ Promise!GivenUp(i) \/ Promise!Dropped(i)
  \/ Promise!Idle(i)

(* Accepting job j is Accepted for j, and Dropped for a row taken out.       *)
LEMMA AcceptMoves ==
  ASSUME IInv, NEW j \in Jobs, NEW o \in Jobs, Accept(j, o),
         dlq' \subseteq dlq, syncMode' = syncMode, NEW i \in Jobs
  PROVE  PromiseMove(i)
<1> USE NoneAssumption
<1>1. origin[j] = None /\ posts[j] = 0
      /\ j \notin pending \cup timer \cup inflight \cup delivered \cup dlq
  BY DEF IInv, NotYet, Accept, NoTimerLeak
<1>2. /\ origin' = [origin EXCEPT ![j] = o] /\ delivered' = delivered
      /\ \/ posts' = [posts EXCEPT ![j] = posts[j] + 1]
         \/ posts' = posts
      /\ \/ ~syncMode /\ pending' = pending \cup {j}
         \/ syncMode /\ pending' = pending /\ j \in inflight'
      /\ inflight' \ {j} = inflight
  BY <1>1 DEF Accept, ScheduleAttempt, StartAttempt
<1>3. CASE i = j
  <2>1. status[i] = "new" /\ status'[i] = "owed" /\ posts'[i] \in 0..1
    BY <1>1, <1>2, <1>3 DEF status, IInv, TypeOK
  <2>2. QED
    BY <2>1 DEF PromiseMove, Promise!Accepted, Promise!Moves
<1>4. CASE i # j
  <2>1. posts'[i] = posts[i]
    BY <1>2, <1>4 DEF IInv, TypeOK
  <2>2. \/ status'[i] = status[i]
        \/ status[i] = "dead" /\ status'[i] = "gone"
    BY <1>1, <1>2, <1>4 DEF status, IInv, TypeOK, SettledIsFinal
  <2>3. QED
    BY <2>1, <2>2 DEF PromiseMove, Promise!Idle, Promise!Dropped, Promise!Moves,
       Promise!Keeps
<1>5. QED
  BY <1>3, <1>4

(* The steps of an attempt move their own job and leave the others idle.     *)
LEMMA AttemptMoves ==
  ASSUME IInv, NEW j \in Jobs, TimerFires(j) \/ Succeed(j) \/ Fail(j), NEW i \in Jobs
  PROVE  PromiseMove(i)
<1> USE NoneAssumption, MaxAttemptsType
<1>0. syncMode' = syncMode
  BY DEF TimerFires, Succeed, Fail, boundVars
<1>1. origin[j] # None /\ j \notin delivered \cup dlq
      /\ attempt[j] \in Nat /\ posts[j] \in Nat
  BY DEF TimerFires, Succeed, Fail, IInv, TypeOK, NotYet, NoTimerLeak, SettledIsFinal
<1>2. CASE TimerFires(j)
  <2>1. /\ j \in pending /\ posts[j] < MaxAttempts
        /\ posts' = [posts EXCEPT ![j] = posts[j] + 1]
        /\ inflight' = inflight \cup {j}
        /\ UNCHANGED <<origin, pending, dlq, delivered>>
    BY <1>1, <1>2 DEF TimerFires, StartAttempt, IInv, NoTimerLeak, Counting, storeVars
  <2>2. CASE i = j
    <3>1. status[i] = "owed" /\ status'[i] = "owed" /\ posts'[i] = posts[i] + 1
      BY <1>0, <1>1, <2>1, <2>2 DEF status, IInv, TypeOK
    <3>2. QED
      BY <2>1, <2>2, <3>1 DEF PromiseMove, Promise!Tried, Promise!Moves
  <2>3. CASE i # j
    <3>1. status'[i] = status[i] /\ posts'[i] = posts[i]
      BY <1>0, <2>1, <2>3 DEF status, IInv, TypeOK
    <3>2. QED
      BY <3>1 DEF PromiseMove, Promise!Idle, Promise!Keeps
  <2>4. QED
    BY <2>2, <2>3
<1>3. CASE Succeed(j)
  <2>1. /\ posts' = posts /\ posts[j] > 0
        /\ inflight' = inflight \ {j} /\ pending' = pending \ {j}
        /\ delivered' = delivered \cup {j} /\ dlq' = dlq /\ origin' = origin
    BY <1>1, <1>3 DEF Succeed, IInv, Counting, storeVars
  <2>2. CASE i = j
    <3>1. status[i] \in {"owed", "orphaned"} /\ status'[i] = "delivered"
      BY <1>0, <1>1, <1>3, <2>1, <2>2 DEF status, Succeed
    <3>2. QED
      BY <2>1, <2>2, <3>1 DEF PromiseMove, Promise!Delivered, Promise!Moves, Promise!Keeps
  <2>3. CASE i # j
    <3>1. status'[i] = status[i] /\ posts'[i] = posts[i]
      BY <1>0, <2>1, <2>3 DEF status
    <3>2. QED
      BY <3>1 DEF PromiseMove, Promise!Idle, Promise!Keeps
  <2>4. QED
    BY <2>2, <2>3
<1>4. CASE Fail(j)
  <2>1. j \in inflight /\ posts[j] = attempt[j] + 1 /\ attempt[j] < MaxAttempts
    BY <1>4 DEF Fail, IInv, Counting
  <2>2. /\ origin' = origin /\ delivered' = delivered
        /\ \A k \in Jobs \ {j} :
             /\ (k \in inflight') <=> (k \in inflight)
             /\ (k \in pending') <=> (k \in pending)
             /\ (k \in dlq') <=> (k \in dlq)
             /\ posts'[k] = posts[k]
    BY <1>4 DEF Fail, Bury, Retry, ScheduleAttempt, StartAttempt, IInv, TypeOK
  <2>3. CASE i # j
    <3>1. status'[i] = status[i] /\ posts'[i] = posts[i]
      BY <1>0, <2>2, <2>3 DEF status
    <3>2. QED
      BY <3>1 DEF PromiseMove, Promise!Idle, Promise!Keeps
  <2>4. CASE i = j /\ Exhausted(attempt[j] + 1)
    <3>1. posts[i] = MaxAttempts /\ posts'[i] = posts[i]
      BY <1>1, <1>4, <2>1, <2>4, ExhaustedMeaning DEF Fail, Bury
    <3>2. status[i] \in {"owed", "orphaned"}
          /\ status'[i] \in {"dead", "gone", status[i]}
      BY <1>0, <1>1, <1>4, <2>1, <2>4 DEF status, Fail, Bury, IInv, SyncNeverRetries
    <3>3. QED
      BY <3>1, <3>2 DEF PromiseMove, Promise!Died, Promise!Dropped, Promise!Idle,
         Promise!Moves, Promise!Keeps
  <2>5. CASE i = j /\ ~Exhausted(attempt[j] + 1) /\ j \in pending
    <3>1. attempt[j] + 1 < MaxAttempts
      BY <1>1, <2>5, ExhaustedMeaning
    <3>2. /\ pending' = pending /\ dlq' = dlq
          /\ posts'[i] = posts[i] \/ posts'[i] = posts[i] + 1
      BY <1>4, <2>5 DEF Fail, Retry, ScheduleAttempt, StartAttempt, IInv, TypeOK
    <3>3. status[i] = "owed" /\ status'[i] = "owed"
      BY <1>0, <1>1, <2>2, <2>5, <3>2 DEF status
    <3>4. QED
      BY <2>1, <2>5, <3>1, <3>2, <3>3 DEF PromiseMove, Promise!Tried, Promise!Idle,
         Promise!Moves, Promise!Keeps
  <2>6. CASE i = j /\ ~Exhausted(attempt[j] + 1) /\ j \notin pending
    <3>1. posts' = posts /\ inflight' = inflight \ {j} /\ pending' = pending /\ dlq' = dlq
      BY <1>4, <2>6 DEF Fail, Retry
    <3>2. status[i] \in {"owed", "orphaned"} /\ status'[i] = "gone"
      BY <1>0, <1>1, <2>1, <2>2, <2>6, <3>1 DEF status
    <3>3. QED
      BY <3>1, <3>2 DEF PromiseMove, Promise!Dropped, Promise!Moves, Promise!Keeps
  <2>7. QED
    BY <2>3, <2>4, <2>5, <2>6
<1>5. QED
  BY <1>2, <1>3, <1>4

(* The operator's steps only give jobs up.                                   *)
LEMMA OperatorMoves ==
  ASSUME IInv, OperatorStep, NEW i \in Jobs
  PROVE  PromiseMove(i)
<1> USE NoneAssumption, MaxAttemptsType DEF queueVars, storeVars
<1>1. CASE \E r, j \in Jobs : DlqRetry(r, j)
  <2>1. PICK r \in Jobs, j \in Jobs : DlqRetry(r, j)
    BY <1>1
  <2>2. origin[r] \in Jobs
    BY <2>1 DEF DlqRetry, IInv, TypeOK, NotYet
  <2>3. QED
    BY <2>1, <2>2, AcceptMoves DEF DlqRetry, boundVars
<1>2. CASE ~\E r, j \in Jobs : DlqRetry(r, j)
  <2>1. /\ posts' = posts /\ origin' = origin /\ delivered' = delivered
        /\ syncMode' = syncMode
        /\ \/ pending' = pending /\ inflight' = inflight
           \/ pending' = {} /\ inflight' = inflight
           \/ pending' = {} /\ inflight' = {}
        /\ dlq' \subseteq dlq
    BY <1>2 DEF OperatorStep, Drain, ClearPending, DlqRemove, DlqClear, Reset, Close,
                Restart, SurvivingRows, boundVars
  <2>2. CASE origin[i] = None \/ i \in delivered
    <3>1. status'[i] = status[i] /\ posts'[i] = posts[i]
      BY <2>1, <2>2 DEF status
    <3>2. QED
      BY <3>1 DEF PromiseMove, Promise!Idle, Promise!Keeps
  <2>3. CASE origin[i] # None /\ i \notin delivered
    <3>1. \/ status'[i] = status[i]
          \/ status[i] = "owed" /\ status'[i] = "orphaned" /\ posts[i] > 0
          \/ status[i] \in {"owed", "orphaned", "dead"} /\ status'[i] = "gone"
      BY <2>1, <2>3 DEF status, IInv, TypeOK, SettledIsFinal, Counting
    <3>2. QED
      BY <2>1, <3>1 DEF PromiseMove, Promise!Idle, Promise!GivenUp, Promise!Dropped,
         Promise!Moves, Promise!Keeps
  <2>4. QED
    BY <2>2, <2>3
<1>3. QED
  BY <1>1, <1>2

(* The queue, with its map, timers, attempts and store, implements the       *)
(* promise: bounded tries, final outcomes, no try after a drain.             *)
THEOREM QueueKeepsPromise == Spec => PromiseSafety
<1>1. Init => Promise!Init
  BY DEF Init, Promise!Init, status
<1>2. ASSUME IInv, [Next]_vars
      PROVE  [Promise!Next]_<<status, posts>>
  <2>1. CASE UNCHANGED vars
    BY <2>1 DEF vars, queueVars, storeVars, historyVars, boundVars, status
  <2>2. CASE Next
    <3>1. ASSUME NEW i \in Jobs
          PROVE  PromiseMove(i)
      <4>1. CASE OperatorStep
        BY <1>2, <4>1, OperatorMoves
      <4>2. CASE \E j \in Jobs : JobStep(j)
        <5>1. PICK j \in Jobs : JobStep(j)
          BY <4>2
        <5>2. CASE Enqueue(j)
          BY <1>2, <5>2, AcceptMoves DEF Enqueue, storeVars, boundVars
        <5>3. QED
          BY <1>2, <5>1, <5>2, AttemptMoves DEF JobStep
      <4>3. QED
        BY <2>2, <4>1, <4>2 DEF Next
    <3>2. QED
      BY <3>1 DEF Promise!Next, PromiseMove
  <2>3. QED
    BY <1>2, <2>1, <2>2
<1>3. QED
  BY <1>1, <1>2, Invariance, PTL DEF Spec, PromiseSafety, Promise!Spec

-----------------------------------------------------------------------------
(* THE CONFORMANCE FRAMEWORK                                                *)


-----------------------------------------------------------------------------
(* What has been done of a test                                             *)

\* What a session may do; only the first three report.
Modes == {"twin", "live", "offline", "record"}
Running == {"twin", "live", "offline"}

Calls == [side : {"twin", "live"}, op : Operations, role : {"setup", "answer", "base", "save", "teardown"}]

\* Of the plan of a test, the places of its answer and of its verdict.
AnswerAt(m, t) == (IF m = "live" THEN 2 * Len(t.setup) ELSE Len(t.setup)) + 1
JudgeAt(m, t) ==
  IF m = "record" THEN 0 ELSE IF m = "offline" THEN AnswerAt(m, t) + 1 ELSE AnswerAt(m, t) + 2

\* The plan of the test under way, how much of it is done, and how many tests
\* were taken from the suite.
Whole == FullPlan(mode, Test)
Done == Len(Whole) - Len(plan)
Started == Len(Suite) - Len(todo)

\* What a session reports, or will report, on.
Session == IF mode = "idle" THEN report.mode ELSE mode

\* What the first k of some calls leave of a side that was empty.
Net(side, calls, k) ==
  {x \in Things : \E i \in 1 .. k :
     /\ calls[i].side = side /\ Makes(side, calls[i].op, x)
     /\ \A j \in i + 1 .. k : calls[j].side = side => ~Removes(side, calls[j].op, x)}

\* The types of what is not a sequence.
Steps ==
  /\ mode \in Modes \cup {"idle"} /\ drift \in Drifts
  /\ twin \in Targets /\ live \in Targets
  /\ sessions \in 0 .. MaxSessions /\ throws \in 0 .. MaxThrows

\* The tests to come are the last of the suite, and the one under way is the
\* one before them; live mode has none that it skips.
Queue ==
  /\ todo \in Seq(Tests) /\ Len(todo) <= Len(Suite)
  /\ \A k \in 1 .. Len(todo) : todo[k] = Suite[Started + k]
  /\ mode = "idle" => todo = <<>> /\ current = <<>>
  /\ current = <<>> => plan = <<>>
  /\ current # <<>> =>
       /\ Started \in 1 .. Len(Suite) /\ current = <<Suite[Started]>>
       /\ mode = "live" => ~Suite[Started].liveSkip

\* What is left to do are the last calls of the plan.
Under ==
  /\ plan \in Seq(Calls \cup {Judge})
  /\ current # <<>> =>
       /\ Len(plan) <= Len(Whole)
       /\ \A k \in 1 .. Len(plan) : plan[k] = Whole[Done + k]

\* A test has at most two results, and room for them until its verdict.
Room ==
  /\ results \in Seq([test : Ids, passed : BOOLEAN])
  /\ Len(results) <= 2 * Started
  /\ current # <<>> =>
       Len(results) <= 2 * Started - IF Done < JudgeAt(mode, Test) \/ mode = "record" THEN 2 ELSE 1

\* A report is on the results of the session that ended last.
Reported ==
  \/ report = NoReport
  \/ mode = "idle" /\ report.mode \in Running /\ report.results = results

\* The results of a test, and when they are final: one, or one and the failure
\* of the teardown.
Mine(i) == {j \in DOMAIN results : results[j].test = Suite[i].id}

Settled(i) ==
  IF Suite[i].liveSkip /\ Session = "live" THEN Mine(i) = {}
  ELSE \E a, b \in DOMAIN results :
         Mine(i) = {a, b} /\ a <= b /\ (a < b => ~results[b].passed /\ throws > 0)

\* A test has no result before its verdict, and then one until it ends.
Tally ==
  Session \in Running =>
    \A i \in DOMAIN Suite :
      IF i > Started THEN Mine(i) = {}
      ELSE IF i < Started \/ current = <<>> THEN Settled(i)
      ELSE IF Done < JudgeAt(mode, Test) THEN Mine(i) = {}
      ELSE \E a \in DOMAIN results : Mine(i) = {a}

\* Until a call throws the targets keep what the test under way has left, and
\* nothing between tests.
Shelved ==
  throws = 0 =>
    IF current # <<>>
    THEN /\ DOMAIN live.things = Net("live", Whole, Done)
         /\ DOMAIN twin.things = Net("twin", Whole, Done)
    ELSE DOMAIN live.things = {} /\ (mode # "idle" => DOMAIN twin.things = {})

\* r is what the side answers to op when, if no call has thrown, it keeps what
\* the setup of a test leaves.
Seen(side, op, setup, r) ==
  \E a \in Targets :
    /\ r = Response(drift, side, op, a)
    /\ TidySuite /\ throws = 0 => DOMAIN a.things = Left(side, setup, Len(setup))

\* A fixture is what the service answered to a test of that name.
Recorded ==
  \A f \in DOMAIN fixtures : \E i \in DOMAIN Suite :
    f = SafeName[Suite[i].id] /\ Seen("live", Suite[i].op, Suite[i].setup, fixtures[f])

\* What the runner holds of a test under way.
AnswerSeen == Seen("twin", Test.op, Test.setup, answer)
BaseSeen == \E r : base = <<r>> /\ Seen("live", LiveOp(Test), Test.setup, r)

Answered ==
  current # <<>> =>
    /\ mode # "record" /\ AnswerAt(mode, Test) <= Done => AnswerSeen
    /\ mode = "live" /\ AnswerAt(mode, Test) < Done => BaseSeen
    /\ mode = "twin" /\ Test.op.kind = "list" /\ AnswerAt(mode, Test) = Done =>
         answer = Response(drift, "twin", Test.op, twin)
    /\ mode = "twin" /\ Test.op.kind = "list" /\ AnswerAt(mode, Test) < Done => base = <<answer>>

\* A list that passed against the service does not drift, but unseen.
Earned ==
  Session \in {"live", "offline"} =>
    \A j \in DOMAIN results : results[j].passed =>
      \A i \in DOMAIN Suite : results[j].test = Suite[i].id /\ Suite[i].op.kind = "list" =>
        drift \in Unseen(Session, Suite[i])

\* A twin that does not drift has passed, or could not be compared.
Fair ==
  Session \in Running /\ drift = "none" /\ throws = 0 =>
    \A j \in DOMAIN results : \A i \in DOMAIN Suite : results[j].test = Suite[i].id =>
      \/ results[j].passed
      \/ Session = "offline" /\ (PathFor(Suite[i].id) \notin DOMAIN fixtures \/ Suite[i].op.schema # "both")
      \/ Session = "twin" /\ Suite[i].op.kind # "list"

-----------------------------------------------------------------------------
(* The plan of a test                                                       *)

\* The calls of a plan.
Roles == {"setup", "answer", "base", "save", "teardown"}

LEMMA CallIsCall ==
  ASSUME NEW side \in {"twin", "live"}, NEW op \in Operations, NEW role \in Roles
  PROVE  /\ Call(side, op, role) \in Calls
         /\ Call(side, op, role).side = side /\ Call(side, op, role).op = op
         /\ Call(side, op, role).role = role
BY DEF Call, Calls, Roles

LEMMA RoleOfCall ==
  ASSUME NEW side, NEW op, NEW role
  PROVE  Call(side, op, role).role = role
BY DEF Call

LEMMA JudgeIsNoCall ==
  /\ Judge.side = "none" /\ Judge.op = NoOp /\ Judge.role = "judge"
  /\ Judge \notin Calls
BY DEF Judge, Calls

LEMMA TestFields ==
  ASSUME NEW t \in Tests
  PROVE  /\ t.setup \in Seq(Operations) /\ t.teardown \in Seq(Operations)
         /\ t.op \in Operations /\ LiveOp(t) \in Operations
         /\ t.id \in DOMAIN SafeName /\ t.exact \in BOOLEAN /\ t.liveSkip \in BOOLEAN
         /\ Len(t.setup) \in Nat /\ Len(t.teardown) \in Nat
BY DEF Tests, LiveOp

\* Calls of one side, and calls of both in turn.
LEMMA CallsOnTwin ==
  ASSUME NEW ops \in Seq(Operations), NEW role \in Roles
  PROVE  /\ OnTwin(ops, role) \in Seq(Calls) /\ Len(OnTwin(ops, role)) = Len(ops)
         /\ \A i \in 1 .. Len(ops) : OnTwin(ops, role)[i] = Call("twin", ops[i], role)
BY CallIsCall DEF OnTwin

LEMMA CallsOnBoth ==
  ASSUME NEW ops \in Seq(Operations), NEW role \in Roles
  PROVE  /\ OnBoth("live", ops, role) \in Seq(Calls)
         /\ Len(OnBoth("live", ops, role)) = 2 * Len(ops)
         /\ \A i \in 1 .. Len(ops) :
              /\ OnBoth("live", ops, role)[2 * i - 1] = Call("twin", ops[i], role)
              /\ OnBoth("live", ops, role)[2 * i] = Call("live", ops[i], role)
         /\ \A i \in 1 .. 2 * Len(ops) : OnBoth("live", ops, role)[i].role = role
<1> DEFINE s == OnBoth("live", ops, role)
           side(i) == IF i % 2 = 1 THEN "twin" ELSE "live"
<1>1. Len(ops) \in Nat
  OBVIOUS
<1>2. s = [i \in 1 .. 2 * Len(ops) |-> Call(side(i), ops[(i + 1) \div 2], role)]
  BY DEF OnBoth
<1>3. \A i \in 1 .. 2 * Len(ops) : (i + 1) \div 2 \in 1 .. Len(ops)
  BY <1>1
<1>4. \A i \in 1 .. 2 * Len(ops) : ops[(i + 1) \div 2] \in Operations
  BY <1>3
<1>5. ASSUME NEW i \in 1 .. 2 * Len(ops)
      PROVE  s[i] \in Calls /\ s[i].role = role
  <2> DEFINE sd == side(i)
             op == ops[(i + 1) \div 2]
  <2>1. s[i] = Call(sd, op, role)
    BY <1>2
  <2>2. sd \in {"twin", "live"} /\ op \in Operations
    BY <1>4
  <2> HIDE DEF s, sd, op
  <2> QED
    BY <2>1, <2>2, CallIsCall
<1>6. 2 * Len(ops) \in Nat
  BY <1>1
<1>7. s \in Seq(Calls) /\ Len(s) = 2 * Len(ops)
  <2>1. s \in [1 .. 2 * Len(ops) -> Calls]
    BY <1>2, <1>5
  <2> HIDE DEF s
  <2> QED
    BY <2>1, <1>6
<1>8. ASSUME NEW i \in 1 .. Len(ops)
      PROVE  s[2 * i - 1] = Call("twin", ops[i], role) /\ s[2 * i] = Call("live", ops[i], role)
  <2>1. 2 * i - 1 \in 1 .. 2 * Len(ops) /\ 2 * i \in 1 .. 2 * Len(ops)
    BY <1>1
  <2>2. (2 * i - 1) % 2 = 1 /\ (2 * i) % 2 = 0 /\ (2 * i - 1 + 1) \div 2 = i /\ (2 * i + 1) \div 2 = i
    BY <1>1
  <2> QED
    BY <2>1, <2>2, <1>2
<1> QED
  BY <1>5, <1>7, <1>8

\* p is A, then a, then B, then j, then C.
Layout(p, A, a, B, j, C) ==
  /\ Len(p) = Len(A) + Len(B) + Len(C) + 2
  /\ \A i \in 1 .. Len(A) : p[i] = A[i]
  /\ p[Len(A) + 1] = a
  /\ \A i \in 1 .. Len(B) : p[Len(A) + 1 + i] = B[i]
  /\ p[Len(A) + Len(B) + 2] = j
  /\ \A i \in 1 .. Len(C) : p[Len(A) + Len(B) + 2 + i] = C[i]

\* Four pieces put one behind the other, in numbers.
LEMMA Chained ==
  ASSUME NEW la \in Nat, NEW lb \in Nat, NEW lc \in Nat, NEW A, NEW B, NEW C, NEW a, NEW j,
         NEW p1, NEW p2, NEW p3, NEW p4,
         \A i \in 1 .. la : p1[i] = A[i],
         p1[la + 1] = a,
         \A i \in 1 .. la + 1 : p2[i] = p1[i],
         \A i \in 1 .. lb : p2[la + 1 + i] = B[i],
         \A i \in 1 .. la + 1 + lb : p3[i] = p2[i],
         p3[la + 1 + lb + 1] = j,
         \A i \in 1 .. la + 1 + lb + 1 : p4[i] = p3[i],
         \A i \in 1 .. lc : p4[la + 1 + lb + 1 + i] = C[i]
  PROVE  /\ \A i \in 1 .. la : p4[i] = A[i]
         /\ p4[la + 1] = a
         /\ \A i \in 1 .. lb : p4[la + 1 + i] = B[i]
         /\ p4[la + lb + 2] = j
         /\ \A i \in 1 .. lc : p4[la + lb + 2 + i] = C[i]
<1>1. \A i \in 1 .. la : p4[i] = A[i]
  OBVIOUS
<1>2. p4[la + 1] = a
  OBVIOUS
<1>3. \A i \in 1 .. lb : p4[la + 1 + i] = B[i]
  OBVIOUS
<1>4. la + 1 + lb + 1 = la + lb + 2
  OBVIOUS
<1>5. p4[la + lb + 2] = j
  BY <1>4
<1>6. \A i \in 1 .. lc : p4[la + lb + 2 + i] = C[i]
  BY <1>4
<1> QED
  BY <1>1, <1>2, <1>3, <1>5, <1>6

\* A sequence made of three with an element between each.
LEMMA Assembled ==
  ASSUME NEW S, NEW A \in Seq(S), NEW a \in S, NEW B \in Seq(S), NEW j \in S, NEW C \in Seq(S)
  PROVE  LET p == A \o <<a>> \o B \o <<j>> \o C IN p \in Seq(S) /\ Layout(p, A, a, B, j, C)
<1>1. PICK p1 \in Seq(S) : p1 = Append(A, a)
  <2>1. Append(A, a) \in Seq(S)
    OBVIOUS
  <2> QED
    BY <2>1
<1>2. Len(p1) = Len(A) + 1 /\ (\A i \in 1 .. Len(A) : p1[i] = A[i]) /\ p1[Len(A) + 1] = a
  BY <1>1
<1>3. PICK p2 \in Seq(S) : p2 = p1 \o B
  <2>1. p1 \o B \in Seq(S)
    OBVIOUS
  <2> QED
    BY <2>1
<1>4. Len(p2) = Len(p1) + Len(B)
  BY <1>3
<1>5. (\A i \in 1 .. Len(p1) : p2[i] = p1[i]) /\ (\A i \in 1 .. Len(B) : p2[Len(p1) + i] = B[i])
  <2>1. \A i \in 1 .. Len(p1) : p2[i] = p1[i]
    BY <1>3
  <2>2. \A i \in 1 .. Len(B) : p2[Len(p1) + i] = B[i]
    BY <1>3
  <2> QED
    BY <2>1, <2>2
<1>6. PICK p3 \in Seq(S) : p3 = Append(p2, j)
  <2>1. Append(p2, j) \in Seq(S)
    OBVIOUS
  <2> QED
    BY <2>1
<1>7. Len(p3) = Len(p2) + 1 /\ (\A i \in 1 .. Len(p2) : p3[i] = p2[i]) /\ p3[Len(p2) + 1] = j
  BY <1>6
<1>8. PICK p4 \in Seq(S) : p4 = p3 \o C
  <2>1. p3 \o C \in Seq(S)
    OBVIOUS
  <2> QED
    BY <2>1
<1>9. Len(p4) = Len(p3) + Len(C) /\ (\A i \in 1 .. Len(p3) : p4[i] = p3[i])
      /\ (\A i \in 1 .. Len(C) : p4[Len(p3) + i] = C[i])
  <2>1. Len(p4) = Len(p3) + Len(C)
    BY <1>8
  <2>2. \A i \in 1 .. Len(p3) : p4[i] = p3[i]
    BY <1>8
  <2>3. \A i \in 1 .. Len(C) : p4[Len(p3) + i] = C[i]
    BY <1>8
  <2> QED
    BY <2>1, <2>2, <2>3
<1>10. p4 = A \o <<a>> \o B \o <<j>> \o C
  <2>1. p1 = A \o <<a>> /\ p3 = p2 \o <<j>>
    BY <1>1, <1>6, AppendIsConcat, Zenon
  <2>2. p2 = A \o <<a>> \o B
    BY <1>3, <2>1, Zenon
  <2>3. p3 = A \o <<a>> \o B \o <<j>>
    BY <2>1, <2>2, Zenon
  <2> QED
    BY <2>3, <1>8, Zenon
<1>11. Len(A) \in Nat /\ Len(B) \in Nat /\ Len(C) \in Nat
  BY LenProperties
<1>12. Len(p1) = Len(A) + 1 /\ Len(p2) = Len(A) + 1 + Len(B) /\ Len(p3) = Len(A) + 1 + Len(B) + 1
  BY <1>2, <1>4, <1>7
<1>13. Len(p4) = Len(A) + Len(B) + Len(C) + 2
  BY <1>9, <1>11, <1>12
<1>14. /\ \A i \in 1 .. Len(A) : p4[i] = A[i]
       /\ p4[Len(A) + 1] = a
       /\ \A i \in 1 .. Len(B) : p4[Len(A) + 1 + i] = B[i]
       /\ p4[Len(A) + Len(B) + 2] = j
       /\ \A i \in 1 .. Len(C) : p4[Len(A) + Len(B) + 2 + i] = C[i]
  <2> DEFINE la == Len(A)
             lb == Len(B)
             lc == Len(C)
  <2>1. la \in Nat /\ lb \in Nat /\ lc \in Nat
    BY <1>11
  <2>2. (\A i \in 1 .. la : p1[i] = A[i]) /\ p1[la + 1] = a
    BY <1>2
  <2>3. (\A i \in 1 .. la + 1 : p2[i] = p1[i]) /\ (\A i \in 1 .. lb : p2[la + 1 + i] = B[i])
    BY <1>5, <1>12, Zenon
  <2>4. (\A i \in 1 .. la + 1 + lb : p3[i] = p2[i]) /\ p3[la + 1 + lb + 1] = j
    BY <1>7, <1>12, Zenon
  <2>5. /\ \A i \in 1 .. la + 1 + lb + 1 : p4[i] = p3[i]
        /\ \A i \in 1 .. lc : p4[la + 1 + lb + 1 + i] = C[i]
    BY <1>9, <1>12, Zenon
  <2> HIDE DEF la, lb, lc
  <2>6. /\ \A i \in 1 .. la : p4[i] = A[i]
        /\ p4[la + 1] = a
        /\ \A i \in 1 .. lb : p4[la + 1 + i] = B[i]
        /\ p4[la + lb + 2] = j
        /\ \A i \in 1 .. lc : p4[la + lb + 2 + i] = C[i]
    BY <2>1, <2>2, <2>3, <2>4, <2>5, Chained
  <2> QED
    BY <2>6 DEF la, lb, lc
<1>15. Layout(p4, A, a, B, j, C)
  BY <1>13, <1>14, Zenon DEF Layout
<1> QED
  BY <1>10, <1>15, Zenon

\* The plan of a run.
LEMMA Plans ==
  ASSUME NEW t \in Tests, NEW m \in Running
  PROVE  LET p == FullPlan(m, t)
             A == OnBoth(m, t.setup, "setup")
             B == BaselineCalls(m, t)
             C == OnBoth(m, t.teardown, "teardown")
         IN p \in Seq(Calls \cup {Judge}) /\ Layout(p, A, Call("twin", t.op, "answer"), B, Judge, C)
<1> DEFINE A == OnBoth(m, t.setup, "setup")
           B == BaselineCalls(m, t)
           C == OnBoth(m, t.teardown, "teardown")
           S == Calls \cup {Judge}
           a == Call("twin", t.op, "answer")
<1>1. "setup" \in Roles /\ "teardown" \in Roles /\ "answer" \in Roles /\ "base" \in Roles
  BY DEF Roles
<1>2. A \in Seq(Calls) /\ C \in Seq(Calls)
  <2>1. CASE m = "live"
    BY <2>1, <1>1, TestFields, CallsOnBoth
  <2>2. CASE m # "live"
    BY <2>2, <1>1, TestFields, CallsOnTwin DEF OnBoth
  <2> QED
    BY <2>1, <2>2
<1>3. B \in Seq(Calls)
  <2>1. Call("live", LiveOp(t), "base") \in Calls /\ Call("twin", t.op, "base") \in Calls
    BY <1>1, TestFields, CallIsCall
  <2> QED
    BY <2>1 DEF BaselineCalls, Running
<1>4. A \in Seq(S) /\ B \in Seq(S) /\ C \in Seq(S)
  BY <1>2, <1>3
<1>5. a \in S /\ Judge \in S
  BY <1>1, TestFields, CallIsCall
<1>6. FullPlan(m, t) = A \o <<a>> \o B \o <<Judge>> \o C
  BY DEF FullPlan, Plan, Running
<1> HIDE DEF A, B, C, S, a
<1>8. A \o <<a>> \o B \o <<Judge>> \o C \in Seq(S)
      /\ Layout(A \o <<a>> \o B \o <<Judge>> \o C, A, a, B, Judge, C)
  BY <1>4, <1>5, Assembled, Zenon
<1>9. FullPlan(m, t) \in Seq(S) /\ Layout(FullPlan(m, t), A, a, B, Judge, C)
  BY <1>6, <1>8, Zenon
<1> QED
  BY <1>9, Zenon DEF A, B, C, S, a

\* p is A, of n elements, then a, then C.
Around(p, A, n, a, C) ==
  /\ Len(p) = n + 1 + Len(C)
  /\ \A i \in 1 .. n : p[i] = A[i]
  /\ p[n + 1] = a
  /\ \A i \in 1 .. Len(C) : p[n + 1 + i] = C[i]

\* A sequence made of two with an element between them.
LEMMA Between ==
  ASSUME NEW S, NEW A \in Seq(S), NEW a \in S, NEW C \in Seq(S), NEW n \in Nat, n = Len(A)
  PROVE  A \o <<a>> \o C \in Seq(S) /\ Around(A \o <<a>> \o C, A, n, a, C)
<1>1. PICK p1 \in Seq(S) : p1 = Append(A, a)
  <2>1. Append(A, a) \in Seq(S)
    OBVIOUS
  <2> QED
    BY <2>1
<1>2. Len(p1) = n + 1 /\ (\A i \in 1 .. n : p1[i] = A[i]) /\ p1[n + 1] = a
  BY <1>1
<1>3. PICK p2 \in Seq(S) : p2 = p1 \o C
  <2>1. p1 \o C \in Seq(S)
    OBVIOUS
  <2> QED
    BY <2>1
<1>4. Len(p2) = n + 1 + Len(C)
  <2>1. Len(p2) = Len(p1) + Len(C)
    BY <1>3
  <2> QED
    BY <2>1, <1>2
<1>5. \A i \in 1 .. n + 1 : p2[i] = p1[i]
  BY <1>2, <1>3
<1>6. \A i \in 1 .. Len(C) : p2[n + 1 + i] = C[i]
  BY <1>2, <1>3
<1>7. p2 = A \o <<a>> \o C
  <2>1. p1 = A \o <<a>>
    BY <1>1, AppendIsConcat, Zenon
  <2> QED
    BY <2>1, <1>3, Zenon
<1>8. (\A i \in 1 .. n : i \in 1 .. n + 1) /\ n + 1 \in 1 .. n + 1
  OBVIOUS
<1>9. (\A i \in 1 .. n : p2[i] = A[i]) /\ p2[n + 1] = a
  BY <1>2, <1>5, <1>8, Zenon
<1>10. Around(p2, A, n, a, C)
  BY <1>4, <1>6, <1>9, Zenon DEF Around
<1> QED
  BY <1>7, <1>10, Zenon

\* The plan of a recording.
LEMMA Recordings ==
  ASSUME NEW t \in Tests
  PROVE  LET p == Recording(t)
             n == Len(t.setup)
         IN /\ p \in Seq(Calls) /\ Len(p) = n + 1 + Len(t.teardown)
            /\ \A i \in 1 .. n : p[i] = Call("live", t.setup[i], "setup")
            /\ p[n + 1] = Call("live", t.op, "save")
            /\ \A i \in 1 .. Len(t.teardown) : p[n + 1 + i] = Call("live", t.teardown[i], "setup")
<1> DEFINE on(ops) == [i \in DOMAIN ops |-> Call("live", ops[i], "setup")]
           save == Call("live", t.op, "save")
<1>1. /\ t.setup \in Seq(Operations) /\ t.teardown \in Seq(Operations) /\ t.op \in Operations
      /\ "setup" \in Roles /\ "save" \in Roles
  BY TestFields DEF Roles
<1>2. ASSUME NEW ops \in Seq(Operations)
      PROVE  on(ops) \in Seq(Calls) /\ Len(on(ops)) = Len(ops)
             /\ \A i \in 1 .. Len(ops) : on(ops)[i] = Call("live", ops[i], "setup")
  BY <1>1, CallIsCall
<1>3. save \in Calls
  BY <1>1, CallIsCall
<1>4. PICK A \in Seq(Calls) : A = on(t.setup)
  BY <1>1, <1>2
<1>5. PICK C \in Seq(Calls) : C = on(t.teardown)
  BY <1>1, <1>2
<1>6. PICK a \in Calls : a = save
  BY <1>3
<1>7. /\ Len(A) = Len(t.setup) /\ \A i \in 1 .. Len(t.setup) : A[i] = Call("live", t.setup[i], "setup")
      /\ Len(C) = Len(t.teardown)
      /\ \A i \in 1 .. Len(t.teardown) : C[i] = Call("live", t.teardown[i], "setup")
  BY <1>1, <1>2, <1>4, <1>5
<1>8. Recording(t) = A \o <<a>> \o C
  BY <1>4, <1>5, <1>6 DEF Recording
<1> HIDE DEF on, save
<1>9. PICK n \in Nat : n = Len(A)
  BY LenProperties
<1>10. PICK p \in Seq(Calls) : p = A \o <<a>> \o C /\ Around(p, A, n, a, C)
  BY <1>9, Between, Zenon
<1>11. p = Recording(t)
  BY <1>8, <1>10, Zenon
<1>12. n = Len(t.setup) /\ Len(p) = n + 1 + Len(t.teardown) /\ p[n + 1] = save
       /\ (\A i \in 1 .. n : p[i] = Call("live", t.setup[i], "setup"))
       /\ (\A i \in 1 .. Len(t.teardown) : p[n + 1 + i] = Call("live", t.teardown[i], "setup"))
  BY <1>6, <1>7, <1>9, <1>10, Zenon DEF Around
<1> QED
  BY <1>11, <1>12, Zenon DEF save

\* The operations of a test, with o for its own.
LEMMA OperationsOf ==
  ASSUME NEW t \in Tests, NEW o \in Operations
  PROVE  LET ops == t.setup \o <<o>> \o t.teardown
             n == Len(t.setup)
         IN /\ Len(ops) = n + 1 + Len(t.teardown)
            /\ \A i \in 1 .. n : ops[i] = t.setup[i]
            /\ ops[n + 1] = o
            /\ \A i \in 1 .. Len(t.teardown) : ops[n + 1 + i] = t.teardown[i]
<1>1. PICK A \in Seq(Operations) : A = t.setup
  BY TestFields
<1>2. PICK C \in Seq(Operations) : C = t.teardown
  BY TestFields
<1>3. PICK n \in Nat : n = Len(A)
  BY LenProperties
<1>4. PICK p \in Seq(Operations) : p = A \o <<o>> \o C /\ Around(p, A, n, o, C)
  BY <1>3, Between, Zenon
<1> QED
  BY <1>1, <1>2, <1>3, <1>4, Zenon DEF Around

\* The role of each call of a plan.
RoleAt(m, t, k) ==
  IF k = AnswerAt(m, t) THEN IF m = "record" THEN "save" ELSE "answer"
  ELSE IF k = JudgeAt(m, t) THEN "judge"
  ELSE IF k = AnswerAt(m, t) + 1 /\ m \in {"live", "twin"} THEN "base"
  ELSE IF k < AnswerAt(m, t) \/ m = "record" THEN "setup" ELSE "teardown"

LEMMA Places ==
  ASSUME NEW t \in Tests, NEW m \in Modes
  PROVE  /\ AnswerAt(m, t) \in Nat /\ JudgeAt(m, t) \in Nat /\ AnswerAt(m, t) >= 1
         /\ m \in {"live", "twin"} => JudgeAt(m, t) = AnswerAt(m, t) + 2
         /\ m = "offline" => JudgeAt(m, t) = AnswerAt(m, t) + 1
         /\ m = "record" => JudgeAt(m, t) = 0
BY TestFields DEF AnswerAt, JudgeAt, Modes

\* The role of a call is told by its place: in a run, in a recording, in both.
LEMMA RolesOfRun ==
  ASSUME NEW t \in Tests, NEW m \in Running
  PROVE  LET p == FullPlan(m, t) IN
         /\ p \in Seq(Calls \cup {Judge})
         /\ AnswerAt(m, t) \in 1 .. Len(p) /\ JudgeAt(m, t) \in 0 .. Len(p)
         /\ \A k \in 1 .. Len(p) : p[k].role = RoleAt(m, t, k)
         /\ p[AnswerAt(m, t)] = Call("twin", t.op, "answer")
         /\ m = "live" => p[AnswerAt(m, t) + 1] = Call("live", LiveOp(t), "base")
         /\ m = "twin" => p[AnswerAt(m, t) + 1] = Call("twin", t.op, "base")
<1>1. PICK A : A = OnBoth(m, t.setup, "setup")
  OBVIOUS
<1>2. PICK B : B = BaselineCalls(m, t)
  OBVIOUS
<1>3. PICK C : C = OnBoth(m, t.teardown, "teardown")
  OBVIOUS
<1>4. PICK p : p = FullPlan(m, t)
  OBVIOUS
<1>5. PICK n \in Nat : n = AnswerAt(m, t)
  BY Places DEF Running, Modes
<1>6. "setup" \in Roles /\ "teardown" \in Roles /\ "answer" \in Roles /\ "base" \in Roles
  BY DEF Roles
<1>7. /\ t.setup \in Seq(Operations) /\ t.teardown \in Seq(Operations)
      /\ t.op \in Operations /\ LiveOp(t) \in Operations
  BY TestFields
<1>8. PICK a : a = Call("twin", t.op, "answer")
  OBVIOUS
<1>9. p \in Seq(Calls \cup {Judge}) /\ Layout(p, A, a, B, Judge, C)
  BY <1>1, <1>2, <1>3, <1>4, <1>8, Plans, Zenon
<1>10. Len(A) + 1 = n /\ Len(A) \in Nat /\ \A i \in 1 .. Len(A) : A[i].role = "setup"
  <2>1. CASE m = "live"
    BY <2>1, <1>1, <1>5, <1>6, <1>7, CallsOnBoth DEF AnswerAt
  <2>2. CASE m # "live"
    <3>1. A = OnTwin(t.setup, "setup")
      BY <2>2, <1>1 DEF OnBoth
    <3>2. Len(A) = Len(t.setup) /\ Len(A) \in Nat
      BY <3>1, <1>6, <1>7, CallsOnTwin
    <3>3. \A i \in 1 .. Len(t.setup) : A[i] = Call("twin", t.setup[i], "setup")
      BY <3>1, <1>6, <1>7, CallsOnTwin
    <3>4. \A i \in 1 .. Len(A) : A[i].role = "setup"
      BY <3>2, <3>3, RoleOfCall
    <3> QED
      BY <2>2, <3>2, <3>4, <1>5 DEF AnswerAt
  <2> QED
    BY <2>1, <2>2
<1>11. Len(C) \in Nat /\ \A i \in 1 .. Len(C) : C[i].role = "teardown"
  <2>1. CASE m = "live"
    BY <2>1, <1>3, <1>6, <1>7, CallsOnBoth
  <2>2. CASE m # "live"
    <3>1. C = OnTwin(t.teardown, "teardown")
      BY <2>2, <1>3 DEF OnBoth
    <3>2. Len(C) = Len(t.teardown) /\ Len(C) \in Nat
      BY <3>1, <1>6, <1>7, CallsOnTwin
    <3>3. \A i \in 1 .. Len(t.teardown) : C[i] = Call("twin", t.teardown[i], "teardown")
      BY <3>1, <1>6, <1>7, CallsOnTwin
    <3> QED
      BY <3>2, <3>3, RoleOfCall
  <2> QED
    BY <2>1, <2>2
<1>12. a.role = "answer" /\ Judge.role = "judge"
  BY <1>8 DEF Call, Judge
<1>13. Len(p) = Len(A) + Len(B) + Len(C) + 2
  BY <1>9, Zenon DEF Layout
<1>14. /\ \A i \in 1 .. Len(A) : p[i] = A[i]
       /\ p[Len(A) + 1] = a
       /\ \A i \in 1 .. Len(B) : p[Len(A) + 1 + i] = B[i]
       /\ p[Len(A) + Len(B) + 2] = Judge
       /\ \A i \in 1 .. Len(C) : p[Len(A) + Len(B) + 2 + i] = C[i]
  BY <1>9, Zenon DEF Layout
<1>15. PICK lb \in {0, 1} :
         /\ lb = Len(B)
         /\ m = "offline" <=> lb = 0
         /\ m = "live" => B[1] = Call("live", LiveOp(t), "base")
         /\ m = "twin" => B[1] = Call("twin", t.op, "base")
  <2>1. CASE m = "offline"
    <3>1. B = <<>>
      BY <2>1, <1>2 DEF BaselineCalls
    <3> QED
      BY <2>1, <3>1
  <2>2. CASE m = "live"
    <3>1. B = <<Call("live", LiveOp(t), "base")>>
      BY <2>2, <1>2 DEF BaselineCalls
    <3> QED
      BY <2>2, <3>1
  <2>3. CASE m = "twin"
    <3>1. B = <<Call("twin", t.op, "base")>>
      BY <2>3, <1>2 DEF BaselineCalls
    <3> QED
      BY <2>3, <3>1
  <2> QED
    BY <2>1, <2>2, <2>3 DEF Running
<1>16. PICK lc \in Nat : lc = Len(C)
  BY <1>11
<1>17. Len(A) = n - 1 /\ Len(A) + Len(B) + 2 = n + lb + 1
  BY <1>10, <1>15
<1>18. /\ Len(p) = n + lb + 1 + lc
       /\ p[n] = a /\ p[n + lb + 1] = Judge
  BY <1>10, <1>13, <1>14, <1>16, <1>17
<1>19. \A i \in 1 .. n - 1 : p[i].role = "setup"
  BY <1>10, <1>14, <1>17, Zenon
<1>20. lb = 1 => p[n + 1] = B[1]
  <2>1. \A i \in 1 .. lb : p[n + i] = B[i]
    BY <1>10, <1>14, <1>15, Zenon
  <2>2. lb = 1 => 1 \in 1 .. lb
    OBVIOUS
  <2> QED
    BY <2>1, <2>2, Zenon
<1>21. \A i \in 1 .. lc : p[n + lb + 1 + i].role = "teardown"
  <2>1. ASSUME NEW i \in 1 .. lc
        PROVE  p[n + lb + 1 + i] = C[i] /\ C[i].role = "teardown"
    BY <1>11, <1>14, <1>16, <1>17
  <2> QED
    BY <2>1
<1>22. JudgeAt(m, t) = n + lb + 1
  <2>1. /\ m \in {"live", "twin"} => JudgeAt(m, t) = n + 2
        /\ m = "offline" => JudgeAt(m, t) = n + 1
    BY <1>5, Places DEF Running, Modes
  <2>2. (m \in {"live", "twin"} /\ lb = 1) \/ (m = "offline" /\ lb = 0)
    BY <1>15 DEF Running
  <2> QED
    BY <2>1, <2>2
<1>23. lb = 1 => p[n + 1].role = "base"
  BY <1>15, <1>20, RoleOfCall DEF Running
<1>24. ASSUME NEW k \in 1 .. Len(p)
       PROVE  p[k].role = RoleAt(m, t, k)
  <2>1. CASE k < n
    <3>1. k \in 1 .. n - 1 /\ k # n /\ k # n + lb + 1 /\ k # n + 1
      BY <2>1
    <3> QED
      BY <2>1, <3>1, <1>5, <1>19, <1>22 DEF RoleAt
  <2>2. CASE k = n
    BY <2>2, <1>5, <1>12, <1>18, <1>22 DEF RoleAt, Running
  <2>3. CASE k = n + lb + 1
    BY <2>3, <1>5, <1>12, <1>18, <1>22 DEF RoleAt, Running
  <2>4. CASE k = n + 1 /\ lb = 1
    <3>1. k # n /\ k # n + lb + 1 /\ k = n + 1
      BY <2>4
    <3>2. m \in {"live", "twin"}
      BY <2>4, <1>15 DEF Running
    <3> QED
      BY <2>4, <3>1, <3>2, <1>5, <1>22, <1>23 DEF RoleAt
  <2>5. CASE k > n + lb + 1
    <3>1. k - (n + lb + 1) \in 1 .. lc /\ n + lb + 1 + (k - (n + lb + 1)) = k
      BY <2>5, <1>18
    <3>2. p[k].role = "teardown"
      BY <3>1, <1>21
    <3>3. ~(k < n) /\ k # n /\ k # n + 1 /\ k # n + lb + 1
      BY <2>5
    <3> QED
      BY <3>2, <3>3, <1>5, <1>22 DEF RoleAt, Running
  <2> QED
    BY <2>1, <2>2, <2>3, <2>4, <2>5
<1>25. n \in 1 .. Len(p) /\ JudgeAt(m, t) \in 0 .. Len(p)
  BY <1>10, <1>18, <1>22
<1>26. /\ m = "live" => p[n + 1] = Call("live", LiveOp(t), "base")
       /\ m = "twin" => p[n + 1] = Call("twin", t.op, "base")
  <2>1. m # "offline" => lb = 1
    BY <1>15
  <2> QED
    BY <2>1, <1>15, <1>20
<1> QED
  BY <1>4, <1>5, <1>8, <1>9, <1>18, <1>24, <1>25, <1>26, Zenon

LEMMA RolesOfRecord ==
  ASSUME NEW t \in Tests
  PROVE  LET p == FullPlan("record", t) IN
         /\ p \in Seq(Calls \cup {Judge})
         /\ AnswerAt("record", t) \in 1 .. Len(p)
         /\ \A k \in 1 .. Len(p) : p[k].role = RoleAt("record", t, k)
         /\ p[AnswerAt("record", t)] = Call("live", t.op, "save")
<1>1. PICK p : p = Recording(t)
  OBVIOUS
<1>2. PICK n \in Nat : n = Len(t.setup)
  BY TestFields
<1>3. PICK k \in Nat : k = Len(t.teardown)
  BY TestFields
<1>4. /\ p \in Seq(Calls) /\ Len(p) = n + 1 + k
      /\ \A i \in 1 .. n : p[i] = Call("live", t.setup[i], "setup")
      /\ p[n + 1] = Call("live", t.op, "save")
      /\ \A i \in 1 .. k : p[n + 1 + i] = Call("live", t.teardown[i], "setup")
  BY <1>1, <1>2, <1>3, Recordings, Zenon
<1>5. FullPlan("record", t) = p /\ AnswerAt("record", t) = n + 1 /\ JudgeAt("record", t) = 0
  BY <1>1, <1>2 DEF FullPlan, AnswerAt, JudgeAt
<1>6. p \in Seq(Calls \cup {Judge})
  BY <1>4
<1>7. ASSUME NEW i \in 1 .. Len(p)
      PROVE  p[i].role = RoleAt("record", t, i)
  <2>1. CASE i <= n
    <3>1. p[i] = Call("live", t.setup[i], "setup")
      BY <2>1, <1>4
    <3> QED
      BY <2>1, <3>1, <1>5 DEF Call, RoleAt
  <2>2. CASE i = n + 1
    BY <2>2, <1>4, <1>5 DEF Call, RoleAt
  <2>3. CASE i > n + 1
    <3>1. i - (n + 1) \in 1 .. k /\ n + 1 + (i - (n + 1)) = i
      BY <2>3, <1>4
    <3>2. p[i] = Call("live", t.teardown[i - (n + 1)], "setup")
      BY <3>1, <1>4
    <3>3. p[i].role = "setup"
      BY <3>2 DEF Call
    <3> QED
      BY <2>3, <3>3, <1>5 DEF RoleAt
  <2> QED
    BY <2>1, <2>2, <2>3, <1>4
<1> QED
  BY <1>4, <1>5, <1>6, <1>7

LEMMA PlanRoles ==
  ASSUME NEW t \in Tests, NEW m \in Modes
  PROVE  LET p == FullPlan(m, t) IN
         /\ p \in Seq(Calls \cup {Judge}) /\ Len(p) \in Nat
         /\ AnswerAt(m, t) \in 1 .. Len(p)
         /\ \A k \in 1 .. Len(p) : p[k].role = RoleAt(m, t, k)
         /\ JudgeAt(m, t) \in 0 .. Len(p)
         /\ m # "record" => p[AnswerAt(m, t)] = Call("twin", t.op, "answer")
         /\ m = "record" => p[AnswerAt(m, t)] = Call("live", t.op, "save")
         /\ m = "live" => p[AnswerAt(m, t) + 1] = Call("live", LiveOp(t), "base")
         /\ m = "twin" => p[AnswerAt(m, t) + 1] = Call("twin", t.op, "base")
<1>1. CASE m = "record"
  <2>1. JudgeAt(m, t) = 0
    BY <1>1, Places
  <2>2. PICK p \in Seq(Calls \cup {Judge}) : p = FullPlan(m, t)
    BY <1>1, RolesOfRecord
  <2>3. Len(p) \in Nat
    BY LenProperties
  <2> QED
    BY <1>1, <2>1, <2>2, <2>3, RolesOfRecord
<1>2. CASE m \in Running
  <2>1. PICK p \in Seq(Calls \cup {Judge}) : p = FullPlan(m, t)
    BY <1>2, RolesOfRun
  <2>2. Len(p) \in Nat
    BY LenProperties
  <2>3. m # "record"
    BY <1>2 DEF Running
  <2> QED
    BY <1>2, <2>1, <2>2, <2>3, RolesOfRun
<1> QED
  BY <1>1, <1>2 DEF Modes, Running

-----------------------------------------------------------------------------
(* The targets                                                              *)

Leaves(side, op, S) ==
  {x \in Things : Makes(side, op, x) \/ (x \in S /\ ~Removes(side, op, x))}

LEMMA TargetFields ==
  ASSUME NEW t \in Targets
  PROVE  /\ t.things \in [DOMAIN t.things -> Nat] /\ DOMAIN t.things \subseteq Things
         /\ t.next \in Nat /\ t = [things |-> t.things, next |-> t.next]
BY DEF Targets

LEMMA TargetOf ==
  ASSUME NEW S \in SUBSET Things, NEW f \in [S -> Nat], NEW n \in Nat
  PROVE  [things |-> f, next |-> n] \in Targets
BY DEF Targets

LEMMA FreshTarget ==
  ASSUME NEW n \in Nat
  PROVE  Fresh(n) \in Targets /\ DOMAIN Fresh(n).things = {}
<1>1. <<>> \in [{} -> Nat] /\ {} \in SUBSET Things
  OBVIOUS
<1> QED
  BY <1>1, TargetOf DEF Fresh

\* What an operation leaves of a target.
LEMMA AfterTarget ==
  ASSUME NEW side \in {"twin", "live"}, NEW op \in Operations, NEW t \in Targets
  PROVE  /\ After(side, op, t) \in Targets
         /\ DOMAIN After(side, op, t).things = Leaves(side, op, DOMAIN t.things)
         /\ op.kind = "list" => After(side, op, t) = t
<1> DEFINE S == DOMAIN t.things
<1>1. /\ t.things \in [S -> Nat] /\ S \subseteq Things /\ t.next \in Nat
      /\ t = [things |-> t.things, next |-> t.next]
  BY TargetFields
<1>2. op.kind \in {"create", "delete", "list"} /\ (op.kind # "list" => op.thing \in Things)
  BY DEF Operations
<1>3. CASE op.kind = "list" \/ op.schema \notin {"both", side}
  <2>1. After(side, op, t) = t
    BY <1>3 DEF After, Accepted
  <2>2. Leaves(side, op, S) = S
    BY <1>1, <1>3 DEF Leaves, Makes, Removes
  <2> QED
    BY <2>1, <2>2
<1>4. CASE op.kind = "create" /\ op.schema \in {"both", side}
  <2>1. Leaves(side, op, S) = S \cup {op.thing}
    BY <1>1, <1>2, <1>4 DEF Leaves, Makes, Removes
  <2>2. CASE op.thing \in S
    <3>1. After(side, op, t) = t
      BY <1>4, <2>2 DEF After, Accepted
    <3> QED
      BY <1>4, <2>1, <2>2, <3>1
  <2>3. CASE op.thing \notin S
    <3> DEFINE f == [x \in S \cup {op.thing} |-> IF x = op.thing THEN t.next ELSE t.things[x]]
    <3>1. Accepted(side, op, t)
      BY <1>4, <2>3 DEF Accepted
    <3>2. After(side, op, t) = [things |-> f, next |-> t.next + 1]
      BY <1>4, <3>1 DEF After
    <3>3. f \in [S \cup {op.thing} -> Nat] /\ S \cup {op.thing} \in SUBSET Things /\ t.next + 1 \in Nat
      BY <1>1, <1>2, <1>4
    <3>4. DOMAIN f = S \cup {op.thing}
      OBVIOUS
    <3> HIDE DEF f
    <3>5. [things |-> f, next |-> t.next + 1] \in Targets
      BY <3>3, TargetOf
    <3> QED
      BY <1>4, <2>1, <3>2, <3>4, <3>5
  <2> QED
    BY <2>2, <2>3
<1>5. CASE op.kind = "delete" /\ op.schema \in {"both", side}
  <2>1. Leaves(side, op, S) = S \ {op.thing}
    BY <1>1, <1>2, <1>5 DEF Leaves, Makes, Removes
  <2>2. CASE op.thing \notin S
    <3>1. After(side, op, t) = t
      BY <1>5, <2>2 DEF After, Accepted
    <3> QED
      BY <1>5, <2>1, <2>2, <3>1
  <2>3. CASE op.thing \in S
    <3> DEFINE f == Restrict(t.things, S \ {op.thing})
    <3>1. Accepted(side, op, t)
      BY <1>5, <2>3 DEF Accepted
    <3>2. After(side, op, t) = [things |-> f, next |-> t.next]
      BY <1>5, <3>1 DEF After
    <3>3. f \in [S \ {op.thing} -> Nat] /\ S \ {op.thing} \in SUBSET Things
      BY <1>1 DEF Restrict
    <3>4. DOMAIN f = S \ {op.thing}
      BY DEF Restrict
    <3> HIDE DEF f
    <3>5. [things |-> f, next |-> t.next] \in Targets
      BY <1>1, <3>3, TargetOf
    <3> QED
      BY <1>5, <2>1, <3>2, <3>4, <3>5
  <2> QED
    BY <2>2, <2>3
<1> QED
  BY <1>2, <1>3, <1>4, <1>5

-----------------------------------------------------------------------------
(* The queue of tests and the plan of the one under way                     *)

Core == Steps /\ Queue /\ Under

\* The suite has tests, each with its own id.
LEMMA SuiteFacts ==
  /\ Suite \in Seq(Tests) /\ Len(Suite) \in Nat /\ DOMAIN Suite = 1 .. Len(Suite)
  /\ \A i \in 1 .. Len(Suite) : Suite[i] \in Tests /\ Suite[i].id \in Ids
  /\ \A i, j \in 1 .. Len(Suite) : Suite[i].id = Suite[j].id => i = j
<1>1. Suite \in Seq(Tests) /\ Len(Suite) \in Nat /\ DOMAIN Suite = 1 .. Len(Suite)
  BY SuiteAssumption
<1> QED
  BY <1>1, SuiteAssumption DEF Ids

\* A test is under way.
LEMMA UnderWay ==
  ASSUME Core, current # <<>>
  PROVE  /\ Started \in 1 .. Len(Suite) /\ Test = Suite[Started] /\ Test \in Tests /\ current = <<Test>>
         /\ mode \in Modes /\ Len(Whole) \in Nat /\ Done \in 0 .. Len(Whole)
         /\ Whole \in Seq(Calls \cup {Judge}) /\ Len(plan) = Len(Whole) - Done
<1>1. Started \in 1 .. Len(Suite) /\ current = <<Suite[Started]>>
  BY DEF Core, Queue
<1>2. Test = Suite[Started] /\ Test \in Tests
  BY <1>1, SuiteFacts DEF Test
<1>3. mode \in Modes
  BY DEF Core, Queue, Steps
<1>4. Whole \in Seq(Calls \cup {Judge}) /\ Len(Whole) \in Nat
  BY <1>2, <1>3, PlanRoles DEF Whole
<1>5. Len(plan) \in Nat /\ Len(plan) <= Len(Whole)
  <2>1. plan \in Seq(Calls \cup {Judge})
    BY DEF Core, Under
  <2> QED
    BY <2>1 DEF Core, Under
<1> QED
  BY <1>1, <1>2, <1>3, <1>4, <1>5 DEF Done

\* The next of its calls.
LEMMA NextCall ==
  ASSUME Core, plan # <<>>
  PROVE  /\ current # <<>> /\ Done + 1 \in 1 .. Len(Whole) /\ Head(plan) = Whole[Done + 1]
         /\ Head(plan).role = RoleAt(mode, Test, Done + 1)
         /\ Head(plan) \in Calls \cup {Judge}
         /\ Head(plan).role # "judge" => Head(plan) \in Calls
         /\ Tail(plan) \in Seq(Calls \cup {Judge}) /\ Len(Tail(plan)) = Len(plan) - 1
         /\ \A k \in 1 .. Len(plan) - 1 : Tail(plan)[k] = plan[k + 1]
<1>1. current # <<>>
  BY DEF Core, Queue
<1>2. plan \in Seq(Calls \cup {Judge})
  BY DEF Core, Under
<1>3. Len(plan) \in Nat /\ Len(plan) >= 1
  BY <1>2
<1>4. /\ Head(plan) = plan[1] /\ Head(plan) \in Calls \cup {Judge}
      /\ Tail(plan) \in Seq(Calls \cup {Judge}) /\ Len(Tail(plan)) = Len(plan) - 1
      /\ \A k \in 1 .. Len(plan) - 1 : Tail(plan)[k] = plan[k + 1]
  BY <1>2
<1>5. Done + 1 \in 1 .. Len(Whole)
  BY <1>1, <1>3, UnderWay
<1>6. plan[1] = Whole[Done + 1]
  BY <1>1, <1>3 DEF Core, Under
<1>7. Whole[Done + 1].role = RoleAt(mode, Test, Done + 1)
  BY <1>1, <1>5, UnderWay, PlanRoles DEF Whole
<1> QED
  BY <1>1, <1>4, <1>5, <1>6, <1>7, JudgeIsNoCall

\* One call of the plan is over.
LEMMA OneDone ==
  ASSUME Core, plan # <<>>, plan' = Tail(plan), UNCHANGED <<mode, todo, current>>
  PROVE  Whole' = Whole /\ Test' = Test /\ Done' = Done + 1 /\ Started' = Started
<1>1. Whole' = Whole /\ Test' = Test /\ Started' = Started
  BY DEF Whole, Test, Started
<1>2. Len(plan') = Len(plan) - 1
  BY NextCall
<1>3. Done = Len(Whole) - Len(plan) /\ Done' = Len(Whole) - Len(plan')
  BY <1>1 DEF Done
<1>4. Len(Whole) \in Nat /\ Len(plan) \in Int
  BY NextCall, UnderWay
<1> QED
  BY <1>1, <1>2, <1>3, <1>4

\* A test begins.
LEMMA TestBegins ==
  ASSUME Core, NextTest
  PROVE  /\ Started' = Started + 1 /\ Started' \in 1 .. Len(Suite) /\ Head(todo) = Suite[Started']
         /\ mode \in Modes /\ Head(todo) \in Tests
         /\ \/ current' = <<>> /\ plan' = <<>> /\ Head(todo).liveSkip /\ mode = "live"
            \/ /\ current' = <<Head(todo)>> /\ Test' = Head(todo) /\ plan' = FullPlan(mode, Head(todo))
               /\ Whole' = plan' /\ Done' = 0 /\ (mode = "live" => ~Head(todo).liveSkip)
<1>1. todo \in Seq(Tests) /\ todo # <<>> /\ todo' = Tail(todo) /\ current = <<>> /\ plan = <<>>
  BY DEF Core, Queue, NextTest
<1>2. Len(todo) \in Nat /\ Len(todo) >= 1 /\ Len(todo') = Len(todo) - 1 /\ Head(todo) = todo[1]
  BY <1>1
<1>3. Started' = Started + 1 /\ Started' \in 1 .. Len(Suite)
  BY <1>2, SuiteFacts DEF Started, Core, Queue
<1>4. Head(todo) = Suite[Started']
  BY <1>2, <1>3 DEF Core, Queue
<1>5. mode \in Modes /\ mode' = mode
  BY DEF NextTest, Core, Steps
<1>6. Head(todo) \in Tests
  BY <1>3, <1>4, SuiteFacts
<1>7. CASE Skipped(Head(todo))
  BY <1>1, <1>3, <1>4, <1>5, <1>6, <1>7 DEF NextTest, Skipped
<1>8. CASE ~Skipped(Head(todo))
  <2>1. current' = <<Head(todo)>> /\ plan' = FullPlan(mode, Head(todo))
    BY <1>8 DEF NextTest
  <2>2. Test' = Head(todo)
    BY <2>1 DEF Test
  <2>3. Whole' = plan'
    BY <1>5, <2>1, <2>2 DEF Whole
  <2>4. plan' \in Seq(Calls \cup {Judge}) /\ Len(plan') \in Nat
    BY <2>1, <1>5, <1>6, PlanRoles
  <2>5. Done' = 0
    BY <2>3, <2>4 DEF Done
  <2>6. mode = "live" => ~Head(todo).liveSkip
    BY <1>8 DEF Skipped
  <2> QED
    BY <1>3, <1>4, <1>5, <1>6, <2>1, <2>2, <2>3, <2>5, <2>6
<1> QED
  BY <1>7, <1>8

\* A call changes its own side only.
LEMMA EffectTargets ==
  ASSUME twin \in Targets, live \in Targets, NEW c \in Calls, Effect(c)
  PROVE  /\ twin' \in Targets /\ live' \in Targets
         /\ DOMAIN twin'.things = IF c.side = "twin" THEN Leaves("twin", c.op, DOMAIN twin.things) ELSE DOMAIN twin.things
         /\ DOMAIN live'.things = IF c.side = "live" THEN Leaves("live", c.op, DOMAIN live.things) ELSE DOMAIN live.things
<1>1. c.side \in {"twin", "live"} /\ c.op \in Operations
  BY DEF Calls
<1>2. twin' = IF c.side = "twin" THEN After("twin", c.op, twin) ELSE twin
  BY DEF Effect
<1>3. live' = IF c.side = "live" THEN After("live", c.op, live) ELSE live
  BY DEF Effect
<1>4. CASE c.side = "twin"
  <2>1. twin' = After("twin", c.op, twin) /\ live' = live
    BY <1>2, <1>3, <1>4
  <2>2. After("twin", c.op, twin) \in Targets
        /\ DOMAIN After("twin", c.op, twin).things = Leaves("twin", c.op, DOMAIN twin.things)
    BY <1>1, AfterTarget
  <2> QED
    BY <1>4, <2>1, <2>2
<1>5. CASE c.side = "live"
  <2>1. live' = After("live", c.op, live) /\ twin' = twin
    BY <1>2, <1>3, <1>5
  <2>2. After("live", c.op, live) \in Targets
        /\ DOMAIN After("live", c.op, live).things = Leaves("live", c.op, DOMAIN live.things)
    BY <1>1, AfterTarget
  <2>3. c.side # "twin" /\ twin' \in Targets /\ DOMAIN twin'.things = DOMAIN twin.things
    BY <1>5, <2>1
  <2>4. live' \in Targets /\ DOMAIN live'.things = Leaves("live", c.op, DOMAIN live.things)
    BY <2>1, <2>2, Zenon
  <2>5. DOMAIN twin'.things = IF c.side = "twin" THEN Leaves("twin", c.op, DOMAIN twin.things) ELSE DOMAIN twin.things
    BY <2>3, Zenon
  <2>6. DOMAIN live'.things = IF c.side = "live" THEN Leaves("live", c.op, DOMAIN live.things) ELSE DOMAIN live.things
    BY <1>5, <2>4, Zenon
  <2> QED
    BY <2>3, <2>4, <2>5, <2>6, Zenon
<1> QED
  BY <1>1, <1>4, <1>5

LEMMA CoreInit == SessionInit => Core
<1> SUFFICES ASSUME SessionInit PROVE Core
  OBVIOUS
<1>1. Steps
  BY FreshTarget, SessionAssumption DEF SessionInit, Steps
<1>2. Queue
  BY SuiteFacts DEF SessionInit, Queue, Started
<1>3. Under
  BY DEF SessionInit, Under
<1> QED
  BY <1>1, <1>2, <1>3 DEF Core

\* What every call that is done keeps.
LEMMA CoreAdvances ==
  ASSUME Core, plan # <<>>, plan' = Tail(plan), UNCHANGED <<mode, drift, todo, current, sessions>>,
         twin' \in Targets, live' \in Targets, throws' = throws
  PROVE  Core'
<1>1. Steps'
  BY DEF Core, Steps
<1>2. Whole' = Whole /\ Done' = Done + 1 /\ Started' = Started
  BY OneDone
<1>3. Queue'
  BY <1>2, NextCall DEF Core, Queue
<1>4. Under'
  <2>1. plan' \in Seq(Calls \cup {Judge}) /\ Len(plan') = Len(plan) - 1
    BY NextCall
  <2>2. Len(Whole) \in Nat /\ Len(plan) = Len(Whole) - Done /\ Done \in 0 .. Len(Whole)
    BY NextCall, UnderWay
  <2>3. ASSUME NEW k \in 1 .. Len(plan')
        PROVE  plan'[k] = Whole[Done + 1 + k]
    <3>1. k + 1 \in 1 .. Len(plan) /\ k \in 1 .. Len(plan) - 1 /\ Done + (k + 1) = Done + 1 + k
      BY <2>1, <2>2
    <3>2. plan'[k] = plan[k + 1]
      BY <3>1, NextCall
    <3>3. plan[k + 1] = Whole[Done + (k + 1)]
      BY <3>1, NextCall DEF Core, Under
    <3> QED
      BY <3>1, <3>2, <3>3
  <2>4. Len(plan') <= Len(Whole)
    BY <2>1, <2>2
  <2>5. \A k \in 1 .. Len(plan') : plan'[k] = Whole'[Done' + k]
    BY <1>2, <2>3
  <2> QED
    BY <1>2, <2>1, <2>4, <2>5 DEF Under
<1> QED
  BY <1>1, <1>3, <1>4 DEF Core

\* What leaves no test under way keeps, when nothing else of the queue changes.
LEMMA CoreIdles ==
  ASSUME Core, Steps', plan' = <<>>, current' = <<>>, todo' \in {todo, <<>>}, mode' = "idle" => todo' = <<>>
  PROVE  Core'
<1>1. Queue'
  <2>1. CASE todo' = todo
    BY <2>1, SuiteFacts DEF Core, Queue, Started
  <2>2. CASE todo' = <<>>
    BY <2>2, SuiteFacts DEF Core, Queue, Started
  <2> QED
    BY <2>1, <2>2
<1>2. Under'
  BY DEF Under
<1> QED
  BY <1>1, <1>2 DEF Core

LEMMA CoreThrow ==
  ASSUME Core, Throw
  PROVE  Core' /\ mode' = mode /\ throws' = throws + 1 /\ current' = <<>> /\ mode \in Modes
<1>1. Head(plan) \in Calls
  BY NextCall DEF Throw
<1>2. twin' \in Targets /\ live' \in Targets
  <2>1. CASE Effect(Head(plan))
    BY <1>1, <2>1, EffectTargets DEF Core, Steps
  <2>2. CASE UNCHANGED <<twin, live>>
    BY <2>2 DEF Core, Steps
  <2> QED
    BY <2>1, <2>2 DEF Throw
<1>3. throws' \in 0 .. MaxThrows
  BY SessionAssumption DEF Throw, Core, Steps
<1>4. Steps'
  BY <1>2, <1>3 DEF Core, Steps, Throw
<1>5. mode \in Modes
  BY NextCall, UnderWay DEF Throw
<1>6. mode' = mode /\ mode' # "idle" /\ plan' = <<>> /\ current' = <<>> /\ todo' \in {todo, <<>>}
  BY <1>5 DEF Throw, Modes
<1>7. Core'
  BY <1>4, <1>6, CoreIdles
<1> QED
  BY <1>5, <1>6, <1>7 DEF Throw

\* Every step keeps the queue and the plan in order.
LEMMA CoreNext == Core /\ [SessionNext]_sessionVars => Core'
<1> SUFFICES ASSUME Core, [SessionNext]_sessionVars PROVE Core'
  OBVIOUS
<1>1. ASSUME NEW m \in {"twin", "live", "offline", "record"}, Begin(m) PROVE Core'
  <2>1. Steps'
    BY <1>1, FreshTarget, SessionAssumption DEF Begin, Core, Steps, Modes
  <2>2. current = <<>> /\ plan = <<>>
    BY <1>1 DEF Begin, Core, Queue
  <2>3. Queue'
    BY <1>1, <2>2, SuiteFacts DEF Begin, Queue, Started
  <2>4. Under'
    BY <1>1, <2>2 DEF Begin, Under
  <2> QED
    BY <2>1, <2>3, <2>4 DEF Core
<1>2. CASE NextTest
  <2>1. Steps'
    BY <1>2 DEF NextTest, Core, Steps
  <2>2. todo' = Tail(todo) /\ todo \in Seq(Tests) /\ todo # <<>> /\ mode' = mode /\ mode # "idle"
    BY <1>2 DEF NextTest, Core, Queue
  <2>3. /\ Started' = Started + 1 /\ Started' \in 1 .. Len(Suite) /\ Head(todo) = Suite[Started']
        /\ mode \in Modes /\ Head(todo) \in Tests
    BY <1>2, TestBegins
  <2>4. \/ current' = <<>> /\ plan' = <<>>
        \/ /\ current' = <<Head(todo)>> /\ plan' = FullPlan(mode, Head(todo))
           /\ Whole' = plan' /\ Done' = 0 /\ (mode = "live" => ~Head(todo).liveSkip)
    BY <1>2, TestBegins
  <2>5. Queue'
    <3>1. todo' \in Seq(Tests) /\ Len(todo') = Len(todo) - 1 /\ Len(todo) \in Nat
          /\ \A k \in 1 .. Len(todo') : todo'[k] = todo[k + 1]
      BY <2>2
    <3>2. ASSUME NEW k \in 1 .. Len(todo') PROVE todo'[k] = Suite[Started' + k]
      <4>1. k + 1 \in 1 .. Len(todo) /\ Started + (k + 1) = Started' + k
        BY <2>3, <3>1, SuiteFacts DEF Started
      <4>2. todo[k + 1] = Suite[Started + (k + 1)]
        BY <4>1 DEF Core, Queue
      <4> QED
        BY <3>1, <4>1, <4>2
    <3>3. Len(todo') <= Len(Suite)
      BY <3>1 DEF Core, Queue
    <3>4. current' = <<>> => plan' = <<>>
      BY <2>4
    <3>5. current' # <<>> => current' = <<Suite[Started']>> /\ (mode = "live" => ~Suite[Started'].liveSkip)
      BY <2>3, <2>4
    <3> QED
      BY <2>2, <2>3, <3>1, <3>2, <3>3, <3>4, <3>5 DEF Queue
  <2>6. Under'
    <3>1. CASE current' = <<>> /\ plan' = <<>>
      BY <3>1 DEF Under
    <3>2. CASE /\ current' = <<Head(todo)>> /\ plan' = FullPlan(mode, Head(todo))
               /\ Whole' = plan' /\ Done' = 0
      <4>1. plan' \in Seq(Calls \cup {Judge}) /\ Len(plan') \in Nat
        BY <2>3, <3>2, PlanRoles
      <4> QED
        BY <3>2, <4>1 DEF Under
    <3> QED
      BY <2>4, <3>1, <3>2
  <2> QED
    BY <2>1, <2>5, <2>6 DEF Core
<1>3. CASE Execute
  <2>1. Head(plan) \in Calls /\ plan # <<>>
    BY <1>3, NextCall DEF Execute
  <2>2. Effect(Head(plan))
    BY <1>3 DEF Execute
  <2>3. twin' \in Targets /\ live' \in Targets
    BY <2>1, <2>2, EffectTargets DEF Core, Steps
  <2> QED
    BY <1>3, <2>1, <2>3, CoreAdvances DEF Execute
<1>4. CASE Compare
  BY <1>4, CoreAdvances DEF Compare, Core, Steps
<1>5. CASE EndTest
  <2>1. Steps'
    BY <1>5 DEF EndTest, Core, Steps
  <2>2. mode' # "idle"
    BY <1>5 DEF EndTest, Core, Queue
  <2> QED
    BY <1>5, <2>1, <2>2, CoreIdles DEF EndTest
<1>6. CASE Throw
  BY <1>6, CoreThrow
<1>7. CASE End
  <2>1. Steps'
    BY <1>7 DEF End, testVars, Core, Steps
  <2>2. plan' = <<>> /\ current' = <<>> /\ todo' = todo /\ todo = <<>>
    BY <1>7 DEF End, testVars, Core, Queue
  <2> QED
    BY <2>1, <2>2, CoreIdles
<1>8. CASE UNCHANGED sessionVars
  <2>1. Steps' /\ Whole' = Whole /\ Done' = Done /\ Started' = Started
    BY <1>8 DEF sessionVars, testVars, Core, Steps, Whole, Done, Started, Test
  <2>2. Queue'
    BY <1>8, <2>1 DEF sessionVars, testVars, Core, Queue
  <2>3. Under'
    BY <1>8, <2>1 DEF sessionVars, testVars, Core, Under
  <2> QED
    BY <2>1, <2>2, <2>3 DEF Core
<1> QED
  BY <1>1, <1>2, <1>3, <1>4, <1>5, <1>6, <1>7, <1>8 DEF SessionNext

-----------------------------------------------------------------------------
(* The results                                                              *)

Result == [test : Ids, passed : BOOLEAN]

LEMMA JudgeRole ==
  ASSUME NEW t \in Tests, NEW m \in Modes, NEW k \in Nat, k >= 1
  PROVE  RoleAt(m, t, k) = "judge" <=> k = JudgeAt(m, t)
<1>1. JudgeAt(m, t) # AnswerAt(m, t)
  BY Places DEF Modes
<1> QED
  BY <1>1 DEF RoleAt

\* Where a step finds and leaves the verdict of its test.
LEMMA ExecuteStep ==
  ASSUME Core, Execute
  PROVE  /\ current # <<>> /\ current' = current /\ mode' = mode
         /\ Whole' = Whole /\ Test' = Test /\ Done' = Done + 1 /\ Started' = Started
         /\ Head(plan) = Whole[Done + 1] /\ Head(plan) \in Calls
         /\ Head(plan).role = RoleAt(mode, Test, Done + 1)
         /\ Done + 1 # JudgeAt(mode, Test) /\ Done + 1 \in 1 .. Len(Whole)
         /\ Done' < JudgeAt(mode, Test) <=> Done < JudgeAt(mode, Test)
<1>1. /\ plan # <<>> /\ plan' = Tail(plan) /\ Head(plan).role # "judge"
      /\ UNCHANGED <<mode, todo, current>>
  BY DEF Execute
<1>2. /\ current # <<>> /\ Done + 1 \in 1 .. Len(Whole) /\ Head(plan) = Whole[Done + 1]
      /\ Head(plan).role = RoleAt(mode, Test, Done + 1) /\ Head(plan) \in Calls
  BY <1>1, NextCall
<1>3. Test \in Tests /\ mode \in Modes /\ Done \in Nat /\ Len(Whole) \in Nat
  BY <1>2, UnderWay
<1>4. Whole' = Whole /\ Test' = Test /\ Done' = Done + 1 /\ Started' = Started
  BY <1>1, OneDone
<1>5. Done + 1 # JudgeAt(mode, Test) /\ JudgeAt(mode, Test) \in Nat
  BY <1>1, <1>2, <1>3, JudgeRole, Places
<1>6. Done' < JudgeAt(mode, Test) <=> Done < JudgeAt(mode, Test)
  BY <1>3, <1>4, <1>5
<1> QED
  BY <1>1, <1>2, <1>4, <1>5, <1>6

\* The verdict of a test comes at its place.
LEMMA CompareStep ==
  ASSUME Core, Compare
  PROVE  /\ current # <<>> /\ current' = current /\ mode' = mode /\ mode \in Running
         /\ Whole' = Whole /\ Test' = Test /\ Done' = Done + 1 /\ Started' = Started
         /\ Done + 1 = JudgeAt(mode, Test)
         /\ Done < JudgeAt(mode, Test) /\ ~(Done' < JudgeAt(mode, Test))
<1>1. /\ plan # <<>> /\ plan' = Tail(plan) /\ Head(plan).role = "judge"
      /\ UNCHANGED <<mode, todo, current>>
  BY DEF Compare
<1>2. /\ current # <<>> /\ Done + 1 \in 1 .. Len(Whole)
      /\ Head(plan).role = RoleAt(mode, Test, Done + 1)
  BY <1>1, NextCall
<1>3. Test \in Tests /\ mode \in Modes /\ Done \in Nat /\ Len(Whole) \in Nat
  BY <1>2, UnderWay
<1>4. Whole' = Whole /\ Test' = Test /\ Done' = Done + 1 /\ Started' = Started
  BY <1>1, OneDone
<1>5. Done + 1 = JudgeAt(mode, Test)
  BY <1>1, <1>2, <1>3, JudgeRole
<1>6. mode \in Running
  BY <1>3, <1>5, Places DEF Modes, Running
<1> QED
  BY <1>1, <1>2, <1>3, <1>4, <1>5, <1>6

\* A test whose plan is done has its verdict.
LEMMA EndStep ==
  ASSUME Core, EndTest
  PROVE  /\ current # <<>> /\ current' = <<>> /\ mode' = mode /\ mode \in Modes /\ Started' = Started
         /\ Done = Len(Whole) /\ ~(Done < JudgeAt(mode, Test))
<1>1. current # <<>> /\ plan = <<>> /\ current' = <<>> /\ UNCHANGED <<mode, todo>>
  BY DEF EndTest
<1>2. Test \in Tests /\ mode \in Modes /\ Len(Whole) \in Nat /\ Len(plan) = Len(Whole) - Done /\ Done \in Nat
  BY <1>1, UnderWay
<1>3. Len(plan) = 0
  BY <1>1
<1>4. JudgeAt(mode, Test) \in 0 .. Len(Whole)
  BY <1>2, PlanRoles DEF Whole
<1> QED
  BY <1>1, <1>2, <1>3, <1>4 DEF Started

\* What a verdict adds.
LEMMA VerdictAdds ==
  ASSUME results \in Seq(Result), Test \in Tests, Test.id \in Ids, NEW b \in BOOLEAN, results' = Verdict(b)
  PROVE  /\ results' \in Seq(Result) /\ Len(results') = Len(results) + 1 /\ Len(results) \in Nat
         /\ DOMAIN results' = DOMAIN results \cup {Len(results) + 1}
         /\ \A j \in DOMAIN results : results'[j] = results[j]
         /\ results'[Len(results) + 1] = [test |-> Test.id, passed |-> b]
         /\ \A i \in DOMAIN Suite :
              Mine(i)' = IF Suite[i].id = Test.id THEN Mine(i) \cup {Len(results) + 1} ELSE Mine(i)
<1>1. PICK r \in Result : r = [test |-> Test.id, passed |-> b]
  BY DEF Result
<1>2. results' = Append(results, r)
  BY <1>1 DEF Verdict
<1>3. Len(results) \in Nat /\ DOMAIN results = 1 .. Len(results)
  OBVIOUS
<1>4. /\ results' \in Seq(Result) /\ Len(results') = Len(results) + 1
      /\ \A j \in 1 .. Len(results) : results'[j] = results[j]
      /\ results'[Len(results) + 1] = r
  BY <1>2
<1>5. DOMAIN results' = DOMAIN results \cup {Len(results) + 1}
  BY <1>3, <1>4
<1>6. ASSUME NEW i \in DOMAIN Suite
      PROVE  Mine(i)' = IF Suite[i].id = Test.id THEN Mine(i) \cup {Len(results) + 1} ELSE Mine(i)
  <2>1. Mine(i)' = {j \in DOMAIN results' : results'[j].test = Suite[i].id}
    BY DEF Mine
  <2>2. r.test = Test.id
    BY <1>1
  <2> QED
    BY <2>1, <2>2, <1>3, <1>4, <1>5 DEF Mine
<1> QED
  BY <1>1, <1>3, <1>4, <1>5, <1>6

LEMMA JudgedVerdict == \E b \in BOOLEAN : Judged = Verdict(b)
BY DEF Judged

LEMMA RoomInit == SessionInit => Room /\ Reported
BY SuiteFacts DEF SessionInit, Room, Reported, Started

\* How many results may still come of the test under way.
Ahead == IF current = <<>> THEN 0 ELSE IF Done < JudgeAt(mode, Test) \/ mode = "record" THEN 2 ELSE 1

LEMMA StartedBounds ==
  ASSUME Core
  PROVE  Started \in 0 .. Len(Suite) /\ Len(todo) \in Nat /\ Len(todo) <= Len(Suite)
<1>1. todo \in Seq(Tests) /\ Len(todo) <= Len(Suite)
  BY DEF Core, Queue
<1>2. Len(todo) \in Nat
  BY <1>1
<1> QED
  BY <1>1, <1>2, SuiteFacts DEF Started

\* What a throw does to the results.
LEMMA ThrowStep ==
  ASSUME Core, Throw
  PROVE  /\ current # <<>> /\ current' = <<>> /\ mode' = mode /\ mode \in Modes /\ throws' = throws + 1
         /\ Test \in Tests /\ Test = Suite[Started] /\ Started \in 1 .. Len(Suite) /\ Test.id \in Ids
         /\ mode = "record" => results' = results /\ todo' = <<>>
         /\ mode # "record" => results' = Verdict(FALSE) /\ Started' = Started
<1>1. current # <<>>
  BY NextCall DEF Throw
<1> QED
  BY <1>1, CoreThrow, UnderWay, SuiteFacts DEF Throw, Started

\* No test has more results than it may.
LEMMA RoomNext ==
  ASSUME Core, Core', Room, [SessionNext]_sessionVars
  PROVE  Room'
<1>1. results \in Seq(Result) /\ Len(results) \in Nat /\ Len(results) <= 2 * Started - Ahead
  <2>1. results \in Seq(Result)
    BY DEF Room, Result
  <2>2. Started \in Int
    BY StartedBounds, SuiteFacts
  <2> QED
    BY <2>1, <2>2 DEF Room, Ahead
<1>2. Started \in 0 .. Len(Suite) /\ Started' \in 0 .. Len(Suite) /\ Len(Suite) \in Nat /\ Ahead \in 0 .. 2
  <2>1. Started \in 0 .. Len(Suite)
    BY StartedBounds
  <2>2. Len(todo') \in Nat /\ Len(todo') <= Len(Suite)
    <3>1. todo' \in Seq(Tests) /\ Len(todo') <= Len(Suite)
      BY DEF Core, Queue
    <3> QED
      BY <3>1
  <2> QED
    BY <2>1, <2>2, SuiteFacts DEF Started, Ahead
<1>3. SUFFICES results' \in Seq(Result) /\ Len(results') <= 2 * Started' - Ahead'
  <2>1. ASSUME results' \in Seq(Result), Len(results') <= 2 * Started' - Ahead' PROVE Room'
    <3>1. Len(results') \in Nat
      BY <2>1
    <3> QED
      BY <2>1, <3>1, <1>2 DEF Room, Result, Ahead
  <2> QED
    BY <2>1
<1>4. ASSUME NEW m \in {"twin", "live", "offline", "record"}, Begin(m)
      PROVE  results' \in Seq(Result) /\ Len(results') <= 2 * Started' - Ahead'
  <2>1. results' = <<>> /\ Started' = 0
    BY <1>4, SuiteFacts DEF Begin, EmptyResults, Started
  <2>2. current' = <<>>
    BY <1>4 DEF Begin, Core, Queue
  <2> QED
    BY <2>1, <2>2 DEF Ahead
<1>5. ASSUME NextTest
      PROVE  results' \in Seq(Result) /\ Len(results') <= 2 * Started' - Ahead'
  <2>1. Started' = Started + 1 /\ results' = results /\ current = <<>>
    BY <1>5, TestBegins DEF NextTest
  <2>2. Ahead' <= 2 /\ Ahead' \in Nat /\ Ahead = 0
    BY <2>1 DEF Ahead
  <2> QED
    BY <1>1, <1>2, <2>1, <2>2
<1>6. ASSUME Execute
      PROVE  results' \in Seq(Result) /\ Len(results') <= 2 * Started' - Ahead'
  <2>1. Ahead' = Ahead /\ Started' = Started
    BY <1>6, ExecuteStep DEF Ahead
  <2> QED
    BY <1>1, <1>6, <2>1 DEF Execute
<1>7. ASSUME Compare
      PROVE  results' \in Seq(Result) /\ Len(results') <= 2 * Started' - Ahead'
  <2>1. Ahead = 2 /\ Ahead' = 1 /\ Started' = Started
    BY <1>7, CompareStep DEF Ahead, Running
  <2>2. PICK b \in BOOLEAN : results' = Verdict(b)
    BY <1>7, JudgedVerdict DEF Compare
  <2>3. Test \in Tests /\ Test.id \in Ids
    BY <1>7, CompareStep, UnderWay, SuiteFacts
  <2>4. results' \in Seq(Result) /\ Len(results') = Len(results) + 1
    BY <1>1, <2>2, <2>3, VerdictAdds
  <2> QED
    BY <1>1, <1>2, <2>1, <2>4
<1>8. ASSUME EndTest
      PROVE  results' \in Seq(Result) /\ Len(results') <= 2 * Started' - Ahead'
  <2>1. Ahead' = 0 /\ Started' = Started /\ results' = results
    BY <1>8, EndStep DEF Ahead, EndTest
  <2> QED
    BY <1>1, <1>2, <2>1
<1>9. ASSUME Throw
      PROVE  results' \in Seq(Result) /\ Len(results') <= 2 * Started' - Ahead'
  <2>1. Ahead >= 1 /\ Ahead' = 0
    BY <1>9, ThrowStep DEF Ahead
  <2>2. CASE mode = "record"
    <3>1. results' = results /\ todo' = <<>>
      BY <1>9, <2>2, ThrowStep
    <3>2. Started' = Len(Suite)
      BY <3>1, SuiteFacts DEF Started
    <3> QED
      BY <1>1, <1>2, <2>1, <3>1, <3>2
  <2>3. CASE mode # "record"
    <3>1. results' = Verdict(FALSE) /\ Started' = Started /\ Test \in Tests /\ Test.id \in Ids
      BY <1>9, <2>3, ThrowStep
    <3>2. results' \in Seq(Result) /\ Len(results') = Len(results) + 1
      BY <1>1, <3>1, VerdictAdds
    <3>3. Started' = Started
      BY <3>1
    <3> QED
      BY <1>1, <1>2, <2>1, <3>2, <3>3
  <2> QED
    BY <2>2, <2>3
<1>10. ASSUME End \/ UNCHANGED sessionVars
      PROVE  results' \in Seq(Result) /\ Len(results') <= 2 * Started' - Ahead'
  <2>1. results' = results /\ Started' = Started
    BY <1>10 DEF End, sessionVars, testVars, Started
  <2>2. Ahead' = Ahead
    <3>1. CASE End
      BY <3>1 DEF End, testVars, Ahead
    <3>2. CASE UNCHANGED sessionVars
      BY <3>2 DEF sessionVars, testVars, Ahead, Done, Whole, Test
    <3> QED
      BY <1>10, <3>1, <3>2
  <2> QED
    BY <1>1, <2>1, <2>2
<1> QED
  BY <1>4, <1>5, <1>6, <1>7, <1>8, <1>9, <1>10 DEF SessionNext

\* A report stays until the next session begins.
LEMMA ReportedNext ==
  ASSUME Core, Reported, [SessionNext]_sessionVars
  PROVE  Reported'
<1>1. mode # "idle" => report = NoReport
  BY DEF Reported
<1>2. ASSUME NEW m \in {"twin", "live", "offline", "record"}, Begin(m) PROVE Reported'
  BY <1>2 DEF Begin, Reported
<1>3. CASE NextTest
  BY <1>1, <1>3 DEF NextTest, Reported
<1>4. CASE Execute \/ Compare \/ EndTest \/ Throw
  <2>1. mode \in Modes /\ report' = report
    BY <1>4, ExecuteStep, CompareStep, EndStep, ThrowStep, UnderWay DEF Execute, Compare, EndTest, Throw
  <2> QED
    BY <1>1, <2>1 DEF Modes, Reported
<1>5. CASE End
  <2>1. CASE mode = "record"
    BY <1>5, <2>1 DEF End, Reported
  <2>2. CASE mode # "record"
    <3>1. mode \in Running
      BY <1>5, <2>2 DEF End, Core, Steps, Modes, Running
    <3>2. report' = [mode |-> mode, results |-> results] /\ mode' = "idle" /\ results' = results
      BY <1>5, <2>2 DEF End, testVars
    <3> QED
      BY <3>1, <3>2 DEF Reported
  <2> QED
    BY <2>1, <2>2
<1>6. CASE UNCHANGED sessionVars
  BY <1>6 DEF sessionVars, testVars, Reported
<1> QED
  BY <1>2, <1>3, <1>4, <1>5, <1>6 DEF SessionNext

-----------------------------------------------------------------------------
(* Every test has its verdict                                               *)

LEMMA TallyInit == SessionInit => Tally
<1> SUFFICES ASSUME SessionInit PROVE Tally
  OBVIOUS
<1>1. Session \notin Running
  BY DEF SessionInit, Session, NoReport, Running
<1> QED
  BY <1>1 DEF Tally

\* A test whose results are final stays so, whatever is added for others.
LEMMA SettledKept ==
  ASSUME NEW i \in DOMAIN Suite, Settled(i), Mine(i)' = Mine(i), Session' = Session,
         \A j \in DOMAIN results : j \in DOMAIN results' /\ results'[j] = results[j],
         throws > 0 => throws' > 0
  PROVE  Settled(i)'
<1>1. CASE Suite[i].liveSkip /\ Session = "live"
  BY <1>1 DEF Settled
<1>2. CASE ~(Suite[i].liveSkip /\ Session = "live")
  <2>1. PICK a, b \in DOMAIN results :
          Mine(i) = {a, b} /\ a <= b /\ (a < b => ~results[b].passed /\ throws > 0)
    BY <1>2 DEF Settled
  <2>2. /\ a \in DOMAIN results' /\ b \in DOMAIN results' /\ Mine(i)' = {a, b} /\ a <= b
        /\ (a < b => ~results'[b].passed /\ throws' > 0)
    BY <2>1
  <2> QED
    BY <1>2, <2>2 DEF Settled
<1> QED
  BY <1>1, <1>2

\* When the results stay as they are.
LEMMA MineKept ==
  ASSUME results' = results
  PROVE  \A i \in DOMAIN Suite : Mine(i)' = Mine(i)
BY DEF Mine

LEMMA SettledStays ==
  ASSUME NEW i \in DOMAIN Suite, Settled(i), results' = results, Session' = Session, throws > 0 => throws' > 0
  PROVE  Settled(i)'
BY MineKept, SettledKept

\* Every step keeps account of the results of every test.
LEMMA TallyNext ==
  ASSUME Core, Core', Room, Reported, Tally, [SessionNext]_sessionVars
  PROVE  Tally'
<1>1. Started \in 0 .. Len(Suite) /\ DOMAIN Suite = 1 .. Len(Suite) /\ Len(Suite) \in Nat
  BY StartedBounds, SuiteFacts
<1>2. results \in Seq(Result)
  BY DEF Room, Result
<1>3. mode # "idle" => Session = mode
  BY DEF Session
<1>4. SUFFICES ASSUME Session' \in Running, NEW i \in DOMAIN Suite
               PROVE  IF i > Started' THEN Mine(i)' = {}
                      ELSE IF i < Started' \/ current' = <<>> THEN Settled(i)'
                      ELSE IF Done' < JudgeAt(mode', Test') THEN Mine(i)' = {}
                      ELSE \E a \in DOMAIN results' : Mine(i)' = {a}
  <2>1. \A i \in DOMAIN Suite : JudgeAt(mode, Test)' = JudgeAt(mode', Test')
    BY DEF JudgeAt, AnswerAt
  <2> QED
    BY <2>1 DEF Tally
<1> DEFINE Goal == IF i > Started' THEN Mine(i)' = {}
                      ELSE IF i < Started' \/ current' = <<>> THEN Settled(i)'
                      ELSE IF Done' < JudgeAt(mode', Test') THEN Mine(i)' = {}
                      ELSE \E a \in DOMAIN results' : Mine(i)' = {a}
<1>5. ASSUME NEW m \in {"twin", "live", "offline", "record"}, Begin(m) PROVE Goal
  <2>1. results' = <<>> /\ Started' = 0
    BY <1>5, SuiteFacts DEF Begin, EmptyResults, Started
  <2>2. Mine(i)' = {}
    BY <2>1 DEF Mine
  <2> QED
    BY <1>1, <2>1, <2>2
<1>6. ASSUME Session = Session', Session \in Running
      PROVE  /\ i > Started => Mine(i) = {}
             /\ i < Started => Settled(i)
             /\ i = Started /\ current = <<>> => Settled(i)
             /\ i = Started /\ current # <<>> /\ Done < JudgeAt(mode, Test) => Mine(i) = {}
             /\ i = Started /\ current # <<>> /\ ~(Done < JudgeAt(mode, Test)) =>
                  \E a \in DOMAIN results : Mine(i) = {a}
  BY <1>1, <1>6 DEF Tally
<1>7. CASE NextTest
  <2>1. /\ Started' = Started + 1 /\ Started' \in 1 .. Len(Suite) /\ mode \in Modes
        /\ current = <<>> /\ results' = results /\ throws' = throws /\ mode' = mode /\ mode # "idle"
    BY <1>7, TestBegins DEF NextTest
  <2>2. Session' = mode /\ Session = mode
    BY <2>1 DEF Session
  <2>3. Mine(i)' = Mine(i)
    BY <2>1, MineKept
  <2>4. CASE i > Started'
    BY <1>1, <1>4, <1>6, <2>1, <2>2, <2>3, <2>4
  <2>5. CASE i < Started'
    <3>1. Settled(i)
      BY <1>1, <1>4, <1>6, <2>1, <2>2, <2>5
    <3>2. Settled(i)'
      BY <3>1, <2>1, <2>2, SettledStays
    <3> QED
      BY <1>1, <2>1, <2>5, <3>2
  <2>6. CASE i = Started'
    <3>1. Mine(i) = {} /\ Mine(i)' = {}
      BY <1>1, <1>4, <1>6, <2>1, <2>2, <2>3, <2>6
    <3>2. CASE current' = <<>>
      <4>1. Suite[i].liveSkip /\ mode = "live"
        BY <1>7, <2>6, <3>2, TestBegins
      <4>2. Settled(i)'
        BY <2>2, <3>1, <4>1 DEF Settled
      <4> QED
        BY <1>1, <2>1, <2>6, <3>2, <4>2
    <3>3. CASE current' # <<>>
      <4>1. Done' = 0 /\ Test' \in Tests
        BY <1>7, <3>3, TestBegins
      <4>2. 0 < JudgeAt(mode', Test')
        BY <1>4, <2>1, <2>2, <4>1, Places DEF Running, Modes
      <4> QED
        BY <1>1, <2>1, <2>6, <3>1, <3>3, <4>1, <4>2
    <3> QED
      BY <3>2, <3>3
  <2> QED
    BY <1>1, <2>1, <2>4, <2>5, <2>6
<1>8. CASE Execute
  <2>1. /\ current # <<>> /\ current' = current /\ mode' = mode /\ Test' = Test /\ Started' = Started
        /\ Done' < JudgeAt(mode, Test) <=> Done < JudgeAt(mode, Test)
        /\ results' = results /\ throws' = throws
    BY <1>8, ExecuteStep DEF Execute
  <2>2. Session' = Session /\ Session \in Running
    <3>1. mode # "idle"
      BY <2>1, UnderWay DEF Modes
    <3> QED
      BY <1>4, <2>1, <3>1 DEF Session
  <2>3. Mine(i)' = Mine(i)
    BY <2>1, MineKept
  <2>4. CASE i < Started
    <3>1. Settled(i)'
      BY <1>6, <2>1, <2>2, <2>4, SettledStays
    <3> QED
      BY <1>1, <2>1, <2>4, <3>1
  <2>5. CASE ~(i < Started)
    BY <1>1, <1>6, <2>1, <2>2, <2>3, <2>5
  <2> QED
    BY <2>4, <2>5
<1>9. CASE Compare
  <2>1. /\ current # <<>> /\ current' = current /\ mode' = mode /\ mode \in Running
        /\ Test' = Test /\ Started' = Started /\ throws' = throws
        /\ Done < JudgeAt(mode, Test) /\ ~(Done' < JudgeAt(mode, Test))
    BY <1>9, CompareStep DEF Compare
  <2>2. Test \in Tests /\ Test = Suite[Started] /\ Test.id \in Ids /\ Started \in 1 .. Len(Suite)
    BY <2>1, UnderWay, SuiteFacts
  <2>3. Session' = Session /\ Session \in Running
    BY <1>4, <2>1 DEF Session, Running
  <2>4. PICK b \in BOOLEAN : results' = Verdict(b)
    BY <1>9, JudgedVerdict DEF Compare
  <2>5. /\ DOMAIN results' = DOMAIN results \cup {Len(results) + 1}
        /\ \A j \in DOMAIN results : results'[j] = results[j]
        /\ Mine(i)' = IF Suite[i].id = Test.id THEN Mine(i) \cup {Len(results) + 1} ELSE Mine(i)
    BY <1>2, <2>2, <2>4, VerdictAdds
  <2>6. CASE i # Started
    <3>1. Mine(i)' = Mine(i)
      BY <1>1, <2>2, <2>5, <2>6, SuiteFacts
    <3>2. i < Started => Settled(i)'
      BY <1>6, <2>1, <2>3, <2>5, <3>1, SettledKept
    <3> QED
      BY <1>1, <1>6, <2>1, <2>3, <2>6, <3>1, <3>2
  <2>7. CASE i = Started
    <3>1. Mine(i)' = {Len(results) + 1}
      BY <1>6, <2>1, <2>2, <2>3, <2>5, <2>7
    <3> QED
      BY <1>1, <2>1, <2>5, <2>7, <3>1
  <2> QED
    BY <2>6, <2>7
<1>10. CASE EndTest
  <2>1. /\ current # <<>> /\ current' = <<>> /\ mode' = mode /\ mode \in Modes /\ Started' = Started
        /\ ~(Done < JudgeAt(mode, Test)) /\ results' = results /\ throws' = throws
    BY <1>10, EndStep DEF EndTest
  <2>2. Session' = Session /\ Session \in Running /\ Session = mode
    BY <1>4, <2>1 DEF Session, Modes
  <2>3. Mine(i)' = Mine(i)
    BY <2>1, MineKept
  <2>4. CASE i > Started
    BY <1>1, <1>6, <2>1, <2>2, <2>3, <2>4
  <2>5. CASE i < Started
    <3>1. Settled(i)'
      BY <1>6, <2>1, <2>2, <2>5, SettledStays
    <3> QED
      BY <1>1, <2>1, <2>5, <3>1
  <2>6. CASE i = Started
    <3>1. PICK a \in DOMAIN results : Mine(i) = {a}
      BY <1>6, <2>1, <2>2, <2>6
    <3>2. ~(Suite[i].liveSkip /\ Session = "live")
      BY <2>1, <2>2, <2>6 DEF Core, Queue
    <3>3. a \in DOMAIN results' /\ Mine(i)' = {a, a} /\ a <= a /\ ~(a < a)
      <4>1. a \in Nat
        BY <1>2, <3>1
      <4> QED
        BY <2>1, <2>3, <3>1, <4>1
    <3>4. Settled(i)'
      BY <2>2, <3>2, <3>3 DEF Settled
    <3> QED
      BY <1>1, <2>1, <2>6, <3>4
  <2> QED
    BY <1>1, <2>4, <2>5, <2>6
<1>11. CASE Throw
  <2>1. /\ current # <<>> /\ current' = <<>> /\ mode' = mode /\ mode \in Modes /\ throws' = throws + 1
        /\ Test \in Tests /\ Test = Suite[Started] /\ Started \in 1 .. Len(Suite) /\ Test.id \in Ids
    BY <1>11, ThrowStep
  <2>2. Session' = Session /\ Session \in Running /\ Session = mode /\ mode # "record"
    BY <1>4, <2>1 DEF Session, Modes, Running
  <2>3. results' = Verdict(FALSE) /\ Started' = Started
    BY <1>11, <2>2, ThrowStep
  <2>4. /\ DOMAIN results' = DOMAIN results \cup {Len(results) + 1}
        /\ \A j \in DOMAIN results : results'[j] = results[j]
        /\ results'[Len(results) + 1] = [test |-> Test.id, passed |-> FALSE]
        /\ Mine(i)' = IF Suite[i].id = Test.id THEN Mine(i) \cup {Len(results) + 1} ELSE Mine(i)
    BY <1>2, <2>1, <2>3, VerdictAdds
  <2>5. throws' > 0
    BY <2>1 DEF Core, Steps
  <2>6. CASE i # Started
    <3>1. Mine(i)' = Mine(i)
      BY <1>1, <2>1, <2>4, <2>6, SuiteFacts
    <3>2. i < Started => Settled(i)'
      BY <1>6, <2>2, <2>4, <2>5, <3>1, SettledKept
    <3> QED
      BY <1>1, <1>6, <2>1, <2>2, <2>3, <2>6, <3>1, <3>2
  <2>7. CASE i = Started
    <3>1. Mine(i) = {} \/ \E a \in DOMAIN results : Mine(i) = {a}
      BY <1>6, <2>1, <2>2, <2>7
    <3>2. ~(Suite[i].liveSkip /\ Session = "live")
      BY <2>1, <2>2, <2>7 DEF Core, Queue
    <3>3. PICK z \in Nat : z = Len(results) + 1
      BY <1>2
    <3>4. z \in DOMAIN results' /\ ~results'[z].passed /\ \A a \in DOMAIN results : a \in Nat /\ a < z
      BY <1>2, <2>4, <3>3
    <3>5. \E a \in DOMAIN results' : Mine(i)' = {a, z} /\ a <= z
      <4>1. Mine(i)' = Mine(i) \cup {z}
        BY <2>1, <2>4, <2>7, <3>3
      <4>2. CASE Mine(i) = {}
        BY <3>4, <4>1, <4>2
      <4>3. ASSUME NEW a \in DOMAIN results, Mine(i) = {a}
            PROVE  \E x \in DOMAIN results' : Mine(i)' = {x, z} /\ x <= z
        <5>1. a \in DOMAIN results'
          BY <2>4, Zenon
        <5>2. Mine(i)' = {a, z}
          BY <4>1, <4>3, Zenon
        <5>3. a <= z
          BY <3>4
        <5> QED
          BY <5>1, <5>2, <5>3, Zenon
      <4> QED
        BY <3>1, <4>2, <4>3
    <3>6. Settled(i)'
      BY <2>2, <2>5, <3>2, <3>4, <3>5 DEF Settled
    <3> QED
      BY <1>1, <2>1, <2>3, <2>7, <3>6
  <2> QED
    BY <2>6, <2>7
<1>12. CASE End
  <2>1. /\ mode # "idle" /\ current = <<>> /\ current' = <<>> /\ Started' = Started
        /\ results' = results /\ throws' = throws /\ mode' = "idle"
        /\ report' = IF mode = "record" THEN NoReport ELSE [mode |-> mode, results |-> results]
    BY <1>12 DEF End, testVars, Started
  <2>2. Session' = Session /\ Session \in Running
    BY <1>4, <2>1 DEF Session, NoReport, Running
  <2>3. Mine(i)' = Mine(i)
    BY <2>1, MineKept
  <2>4. ~(i > Started) => Settled(i)
    BY <1>1, <1>6, <2>1, <2>2
  <2>5. ~(i > Started) => Settled(i)'
    BY <2>1, <2>2, <2>4, SettledStays
  <2> QED
    BY <1>1, <1>6, <2>1, <2>2, <2>3, <2>5
<1>13. CASE UNCHANGED sessionVars
  <2>1. /\ Started' = Started /\ Done' = Done /\ Test' = Test /\ mode' = mode /\ current' = current
        /\ results' = results /\ throws' = throws /\ Session' = Session
    BY <1>13 DEF sessionVars, testVars, Started, Done, Whole, Test, Session
  <2>2. Mine(i)' = Mine(i)
    BY <2>1, MineKept
  <2>3. Settled(i) => Settled(i)'
    BY <2>1, SettledStays
  <2> QED
    BY <1>1, <1>4, <1>6, <2>1, <2>2, <2>3
<1> QED
  BY <1>5, <1>7, <1>8, <1>9, <1>10, <1>11, <1>12, <1>13 DEF SessionNext

-----------------------------------------------------------------------------
(* What a plan leaves of a target                                           *)

LEMMA NetNone ==
  ASSUME NEW side, NEW calls
  PROVE  Net(side, calls, 0) = {}
BY DEF Net

\* A call more.
LEMMA NetOne ==
  ASSUME NEW side, NEW calls, NEW k \in Nat
  PROVE  Net(side, calls, k + 1) =
           IF calls[k + 1].side = side THEN Leaves(side, calls[k + 1].op, Net(side, calls, k))
           ELSE Net(side, calls, k)
<1> DEFINE c == calls[k + 1]
<1>1. \A j \in 1 .. k + 1 : j = k + 1 \/ j \in 1 .. k
  OBVIOUS
<1>2. ASSUME NEW x \in Things, x \in Net(side, calls, k), c.side = side => ~Removes(side, c.op, x)
      PROVE  x \in Net(side, calls, k + 1)
  <2>1. PICK i \in 1 .. k :
          /\ calls[i].side = side /\ Makes(side, calls[i].op, x)
          /\ \A j \in i + 1 .. k : calls[j].side = side => ~Removes(side, calls[j].op, x)
    BY <1>2 DEF Net
  <2>2. i \in 1 .. k + 1 /\ \A j \in i + 1 .. k + 1 : j = k + 1 \/ j \in i + 1 .. k
    OBVIOUS
  <2>3. \A j \in i + 1 .. k + 1 : calls[j].side = side => ~Removes(side, calls[j].op, x)
    BY <1>2, <2>1, <2>2
  <2> QED
    BY <2>1, <2>2, <2>3 DEF Net
<1>3. ASSUME NEW x \in Things, c.side = side, Makes(side, c.op, x)
      PROVE  x \in Net(side, calls, k + 1)
  <2>1. k + 1 \in 1 .. k + 1 /\ \A j \in (k + 1) + 1 .. k + 1 : FALSE
    OBVIOUS
  <2> QED
    BY <1>3, <2>1 DEF Net
<1>4. ASSUME NEW x \in Things, x \in Net(side, calls, k + 1)
      PROVE  \/ c.side = side /\ Makes(side, c.op, x)
             \/ x \in Net(side, calls, k) /\ (c.side = side => ~Removes(side, c.op, x))
  <2>1. PICK i \in 1 .. k + 1 :
          /\ calls[i].side = side /\ Makes(side, calls[i].op, x)
          /\ \A j \in i + 1 .. k + 1 : calls[j].side = side => ~Removes(side, calls[j].op, x)
    BY <1>4 DEF Net
  <2>2. CASE i = k + 1
    BY <2>1, <2>2
  <2>3. CASE i \in 1 .. k
    <3>1. k + 1 \in i + 1 .. k + 1 /\ \A j \in i + 1 .. k : j \in i + 1 .. k + 1
      BY <2>3
    <3>2. x \in Net(side, calls, k)
      BY <2>1, <2>3, <3>1 DEF Net
    <3> QED
      BY <2>1, <3>1, <3>2
  <2> QED
    BY <1>1, <2>2, <2>3
<1>5. \A n \in Nat : Net(side, calls, n) \subseteq Things
  BY DEF Net
<1>6. Net(side, calls, k) \subseteq Things /\ Net(side, calls, k + 1) \subseteq Things
  BY <1>5
<1>7. CASE c.side = side
  <2>1. Net(side, calls, k + 1) = Leaves(side, c.op, Net(side, calls, k))
    BY <1>2, <1>3, <1>4, <1>6, <1>7 DEF Leaves
  <2> QED
    BY <1>7, <2>1
<1>8. CASE c.side # side
  <2>1. Net(side, calls, k + 1) = Net(side, calls, k)
    BY <1>2, <1>4, <1>6, <1>8
  <2> QED
    BY <1>8, <2>1
<1> QED
  BY <1>7, <1>8

\* Of the first K calls, those of one side make the first L operations: each
\* operation at its place q, or there and, repeated, before.
Makers(side, calls, K, ops, L, q) ==
  /\ \A i, j \in 1 .. L : i < j => q[i] < q[j]
  /\ \A j \in 1 .. L : calls[q[j]].side = side /\ calls[q[j]].op = ops[j]
  /\ \A i \in 1 .. K : calls[i].side = side => \E j \in 1 .. L : i <= q[j] /\ calls[i].op = ops[j]

\* Such calls leave what the operations leave.
LEMMA Replay ==
  ASSUME NEW side, NEW calls, NEW ops, NEW L \in Nat, NEW K \in Nat, NEW q \in [1 .. L -> 1 .. K],
         Makers(side, calls, K, ops, L, q)
  PROVE  Net(side, calls, K) = Left(side, ops, L)
<1>0. /\ \A i, j \in 1 .. L : i < j => q[i] < q[j]
      /\ \A j \in 1 .. L : calls[q[j]].side = side /\ calls[q[j]].op = ops[j]
      /\ \A i \in 1 .. K : calls[i].side = side => \E j \in 1 .. L : i <= q[j] /\ calls[i].op = ops[j]
  BY DEF Makers
<1>1. ASSUME NEW x \in Things, x \in Net(side, calls, K)
      PROVE  x \in Left(side, ops, L)
  <2>1. PICK i \in 1 .. K :
          /\ calls[i].side = side /\ Makes(side, calls[i].op, x)
          /\ \A j \in i + 1 .. K : calls[j].side = side => ~Removes(side, calls[j].op, x)
    BY <1>1 DEF Net
  <2>2. PICK j \in 1 .. L : i <= q[j] /\ calls[i].op = ops[j]
    BY <2>1, <1>0
  <2>3. ASSUME NEW h \in j + 1 .. L
        PROVE  ~Removes(side, ops[h], x)
    <3>1. h \in 1 .. L /\ j < h
      OBVIOUS
    <3>2. q[j] < q[h] /\ q[j] \in 1 .. K /\ q[h] \in 1 .. K
      BY <3>1, <1>0
    <3>3. q[h] \in i + 1 .. K
      BY <2>2, <3>2
    <3> QED
      BY <2>1, <3>1, <3>3, <1>0
  <2> QED
    BY <2>1, <2>2, <2>3 DEF Left
<1>2. ASSUME NEW x \in Things, x \in Left(side, ops, L)
      PROVE  x \in Net(side, calls, K)
  <2>1. PICK j \in 1 .. L :
          Makes(side, ops[j], x) /\ \A h \in j + 1 .. L : ~Removes(side, ops[h], x)
    BY <1>2 DEF Left
  <2>2. q[j] \in 1 .. K
    OBVIOUS
  <2>3. ASSUME NEW i \in q[j] + 1 .. K, calls[i].side = side
        PROVE  ~Removes(side, calls[i].op, x)
    <3>1. i \in 1 .. K /\ q[j] < i
      BY <2>2
    <3>2. PICK h \in 1 .. L : i <= q[h] /\ calls[i].op = ops[h]
      BY <2>3, <3>1, <1>0
    <3>3. q[h] \in 1 .. K /\ q[j] < q[h]
      BY <2>2, <3>1, <3>2
    <3>4. ~(h < j) /\ h # j
      BY <2>2, <3>3, <1>0
    <3>5. h \in j + 1 .. L
      BY <3>4
    <3> QED
      BY <2>1, <3>2, <3>5
  <2> QED
    BY <2>1, <2>2, <2>3, <1>0 DEF Net
<1>3. Net(side, calls, K) \subseteq Things /\ Left(side, ops, L) \subseteq Things
  BY DEF Net, Left
<1> QED
  BY <1>1, <1>2, <1>3

\* A plan without a call of one side leaves nothing on it.
LEMMA NetOfNone ==
  ASSUME NEW side, NEW calls, NEW K \in Nat, \A i \in 1 .. K : calls[i].side # side
  PROVE  Net(side, calls, K) = {}
BY DEF Net

\* The calls of a plan, one by one.
LEMMA CallsOfLive ==
  ASSUME NEW t \in Tests
  PROVE  LET p == FullPlan("live", t)
             n == Len(t.setup)
             k == Len(t.teardown)
         IN /\ Len(p) = 2 * n + 3 + 2 * k
            /\ \A i \in 1 .. n : p[2 * i - 1] = Call("twin", t.setup[i], "setup")
                                /\ p[2 * i] = Call("live", t.setup[i], "setup")
            /\ p[2 * n + 1] = Call("twin", t.op, "answer")
            /\ p[2 * n + 2] = Call("live", LiveOp(t), "base")
            /\ p[2 * n + 3] = Judge
            /\ \A i \in 1 .. k : p[2 * n + 3 + (2 * i - 1)] = Call("twin", t.teardown[i], "teardown")
                                /\ p[2 * n + 3 + 2 * i] = Call("live", t.teardown[i], "teardown")
<1>1. PICK A : A = OnBoth("live", t.setup, "setup")
  OBVIOUS
<1>2. PICK B : B = BaselineCalls("live", t)
  OBVIOUS
<1>3. PICK C : C = OnBoth("live", t.teardown, "teardown")
  OBVIOUS
<1>4. PICK p : p = FullPlan("live", t)
  OBVIOUS
<1>5. PICK n \in Nat : n = Len(t.setup)
  BY TestFields
<1>6. PICK k \in Nat : k = Len(t.teardown)
  BY TestFields
<1>7. PICK a : a = Call("twin", t.op, "answer")
  OBVIOUS
<1>8. Layout(p, A, a, B, Judge, C)
  <2>1. "live" \in Running
    BY DEF Running
  <2> QED
    BY <2>1, <1>1, <1>2, <1>3, <1>4, <1>7, Plans, Zenon
<1>9. "setup" \in Roles /\ "teardown" \in Roles /\ t.setup \in Seq(Operations) /\ t.teardown \in Seq(Operations)
  BY TestFields DEF Roles
<1>10. /\ Len(A) = 2 * n
       /\ \A i \in 1 .. n : A[2 * i - 1] = Call("twin", t.setup[i], "setup")
                           /\ A[2 * i] = Call("live", t.setup[i], "setup")
  <2>1. /\ Len(OnBoth("live", t.setup, "setup")) = 2 * Len(t.setup)
        /\ \A i \in 1 .. Len(t.setup) :
             /\ OnBoth("live", t.setup, "setup")[2 * i - 1] = Call("twin", t.setup[i], "setup")
             /\ OnBoth("live", t.setup, "setup")[2 * i] = Call("live", t.setup[i], "setup")
    BY <1>9, CallsOnBoth
  <2> QED
    BY <1>1, <1>5, <2>1, Zenon
<1>11. /\ Len(C) = 2 * k
       /\ \A i \in 1 .. k : C[2 * i - 1] = Call("twin", t.teardown[i], "teardown")
                           /\ C[2 * i] = Call("live", t.teardown[i], "teardown")
  <2>1. /\ Len(OnBoth("live", t.teardown, "teardown")) = 2 * Len(t.teardown)
        /\ \A i \in 1 .. Len(t.teardown) :
             /\ OnBoth("live", t.teardown, "teardown")[2 * i - 1] = Call("twin", t.teardown[i], "teardown")
             /\ OnBoth("live", t.teardown, "teardown")[2 * i] = Call("live", t.teardown[i], "teardown")
    BY <1>9, CallsOnBoth
  <2> QED
    BY <1>3, <1>6, <2>1, Zenon
<1>12. B = <<Call("live", LiveOp(t), "base")>>
  BY <1>2 DEF BaselineCalls
<1>13. Len(B) = 1 /\ B[1] = Call("live", LiveOp(t), "base")
  BY <1>12
<1>14. /\ Len(p) = 2 * n + 1 + 2 * k + 2
       /\ \A i \in 1 .. 2 * n : p[i] = A[i]
       /\ p[2 * n + 1] = a
       /\ \A i \in 1 .. 1 : p[2 * n + 1 + i] = B[i]
       /\ p[2 * n + 1 + 2] = Judge
       /\ \A i \in 1 .. 2 * k : p[2 * n + 1 + 2 + i] = C[i]
  BY <1>8, <1>10, <1>11, <1>13, Zenon DEF Layout
<1>15. 2 * n + 1 + 2 = 2 * n + 3 /\ 2 * n + 1 + 1 = 2 * n + 2 /\ 1 \in 1 .. 1
       /\ 2 * n + 1 + 2 * k + 2 = 2 * n + 3 + 2 * k
  OBVIOUS
<1>16. \A i \in 1 .. n : 2 * i - 1 \in 1 .. 2 * n /\ 2 * i \in 1 .. 2 * n
  OBVIOUS
<1>17. \A i \in 1 .. k : 2 * i - 1 \in 1 .. 2 * k /\ 2 * i \in 1 .. 2 * k
  OBVIOUS
<1>18. Len(p) = 2 * n + 3 + 2 * k /\ p[2 * n + 1] = a /\ p[2 * n + 3] = Judge
  BY <1>14, <1>15, Zenon
<1>19. p[2 * n + 2] = Call("live", LiveOp(t), "base")
  BY <1>13, <1>14, <1>15, Zenon
<1>20. \A i \in 1 .. n : p[2 * i - 1] = Call("twin", t.setup[i], "setup")
                       /\ p[2 * i] = Call("live", t.setup[i], "setup")
  BY <1>10, <1>14, <1>16, Zenon
<1>21. \A i \in 1 .. k : p[2 * n + 3 + (2 * i - 1)] = Call("twin", t.teardown[i], "teardown")
                       /\ p[2 * n + 3 + 2 * i] = Call("live", t.teardown[i], "teardown")
  BY <1>11, <1>14, <1>15, <1>17, Zenon
<1> QED
  BY <1>4, <1>5, <1>6, <1>7, <1>18, <1>19, <1>20, <1>21, Zenon

LEMMA CallsOfTwin ==
  ASSUME NEW t \in Tests, NEW m \in {"twin", "offline"}
  PROVE  LET p == FullPlan(m, t)
             n == Len(t.setup)
             k == Len(t.teardown)
             b == IF m = "twin" THEN 1 ELSE 0
         IN /\ Len(p) = n + b + 2 + k
            /\ \A i \in 1 .. n : p[i] = Call("twin", t.setup[i], "setup")
            /\ p[n + 1] = Call("twin", t.op, "answer")
            /\ m = "twin" => p[n + 2] = Call("twin", t.op, "base")
            /\ p[n + b + 2] = Judge
            /\ \A i \in 1 .. k : p[n + b + 2 + i] = Call("twin", t.teardown[i], "teardown")
<1>1. PICK A : A = OnBoth(m, t.setup, "setup")
  OBVIOUS
<1>2. PICK B : B = BaselineCalls(m, t)
  OBVIOUS
<1>3. PICK C : C = OnBoth(m, t.teardown, "teardown")
  OBVIOUS
<1>4. PICK p : p = FullPlan(m, t)
  OBVIOUS
<1>5. PICK n \in Nat : n = Len(t.setup)
  BY TestFields
<1>6. PICK k \in Nat : k = Len(t.teardown)
  BY TestFields
<1>7. PICK a : a = Call("twin", t.op, "answer")
  OBVIOUS
<1>8. Layout(p, A, a, B, Judge, C)
  <2>1. m \in Running
    BY DEF Running
  <2> QED
    BY <2>1, <1>1, <1>2, <1>3, <1>4, <1>7, Plans, Zenon
<1>9. "setup" \in Roles /\ "teardown" \in Roles /\ t.setup \in Seq(Operations) /\ t.teardown \in Seq(Operations)
  BY TestFields DEF Roles
<1>10. A = OnTwin(t.setup, "setup") /\ C = OnTwin(t.teardown, "teardown")
  BY <1>1, <1>3 DEF OnBoth
<1>11. Len(A) = n /\ \A i \in 1 .. n : A[i] = Call("twin", t.setup[i], "setup")
  BY <1>5, <1>9, <1>10, CallsOnTwin, Zenon
<1>12. Len(C) = k /\ \A i \in 1 .. k : C[i] = Call("twin", t.teardown[i], "teardown")
  BY <1>6, <1>9, <1>10, CallsOnTwin, Zenon
<1>13. PICK b \in {0, 1} : b = IF m = "twin" THEN 1 ELSE 0
  OBVIOUS
<1>14. Len(B) = b /\ (m = "twin" => b = 1 /\ B[1] = Call("twin", t.op, "base"))
  <2>1. CASE m = "twin"
    <3>1. B = <<Call("twin", t.op, "base")>>
      BY <2>1, <1>2 DEF BaselineCalls
    <3> QED
      BY <2>1, <3>1, <1>13
  <2>2. CASE m = "offline"
    <3>1. B = <<>>
      BY <2>2, <1>2 DEF BaselineCalls
    <3> QED
      BY <2>2, <3>1, <1>13
  <2> QED
    BY <2>1, <2>2
<1>15. /\ Len(p) = n + b + k + 2
       /\ \A i \in 1 .. n : p[i] = A[i]
       /\ p[n + 1] = a
       /\ \A i \in 1 .. b : p[n + 1 + i] = B[i]
       /\ p[n + b + 2] = Judge
       /\ \A i \in 1 .. k : p[n + b + 2 + i] = C[i]
  BY <1>8, <1>11, <1>12, <1>14, Zenon DEF Layout
<1>16. n + b + k + 2 = n + b + 2 + k /\ n + 1 + 1 = n + 2 /\ 1 \in 1 .. 1
  OBVIOUS
<1>17. m = "twin" => p[n + 2] = Call("twin", t.op, "base")
  BY <1>14, <1>15, <1>16, Zenon
<1>18. Len(p) = n + b + 2 + k
  BY <1>15, <1>16, Zenon
<1> QED
  BY <1>4, <1>5, <1>6, <1>7, <1>11, <1>12, <1>13, <1>15, <1>17, <1>18, Zenon

LEMMA Halves ==
  ASSUME NEW n \in Nat, NEW i \in 1 .. 2 * n
  PROVE  \E r \in 1 .. n : i = 2 * r - 1 \/ i = 2 * r
<1>1. i = 2 * ((i + 1) \div 2) - 1 \/ i = 2 * ((i + 1) \div 2)
  OBVIOUS
<1>2. (i + 1) \div 2 \in 1 .. n
  OBVIOUS
<1> QED
  BY <1>1, <1>2

LEMMA SidesOfCall ==
  ASSUME NEW side, NEW op, NEW role
  PROVE  Call(side, op, role).side = side /\ Call(side, op, role).op = op
BY DEF Call

\* What setting a test up leaves, in a session that calls both sides.
LEMMA SetupOfLive ==
  ASSUME NEW t \in Tests
  PROVE  LET p == FullPlan("live", t)
             n == Len(t.setup)
         IN /\ Net("twin", p, 2 * n) = Left("twin", t.setup, n)
            /\ Net("live", p, 2 * n + 1) = Left("live", t.setup, n)
<1>1. PICK p : p = FullPlan("live", t)
  OBVIOUS
<1>2. PICK n \in Nat : n = Len(t.setup)
  BY TestFields
<1>3. PICK ops : ops = t.setup
  OBVIOUS
<1>4. /\ \A i \in 1 .. n : p[2 * i - 1] = Call("twin", ops[i], "setup") /\ p[2 * i] = Call("live", ops[i], "setup")
      /\ p[2 * n + 1] = Call("twin", t.op, "answer")
  BY <1>1, <1>2, <1>3, CallsOfLive, Zenon
<1>5. \A i \in 1 .. n : p[2 * i - 1].side = "twin" /\ p[2 * i - 1].op = ops[i]
                      /\ p[2 * i].side = "live" /\ p[2 * i].op = ops[i]
  BY <1>4, SidesOfCall
<1>6. p[2 * n + 1].side = "twin"
  BY <1>4, SidesOfCall
<1>7. Net("twin", p, 2 * n) = Left("twin", ops, n)
  <2>1. PICK q \in [1 .. n -> 1 .. 2 * n] : \A j \in 1 .. n : q[j] = 2 * j - 1
    <3>1. [j \in 1 .. n |-> 2 * j - 1] \in [1 .. n -> 1 .. 2 * n]
      OBVIOUS
    <3> QED
      BY <3>1
  <2>2. \A i, j \in 1 .. n : i < j => q[i] < q[j]
    BY <2>1
  <2>3. \A j \in 1 .. n : p[q[j]].side = "twin" /\ p[q[j]].op = ops[j]
    BY <2>1, <1>5
  <2>4. ASSUME NEW i \in 1 .. 2 * n, p[i].side = "twin"
        PROVE  \E j \in 1 .. n : i <= q[j] /\ p[i].op = ops[j]
    <3>1. PICK r \in 1 .. n : i = 2 * r - 1 \/ i = 2 * r
      BY Halves
    <3>2. i = 2 * r - 1
      <4>1. p[2 * r].side = "live"
        BY <1>5
      <4> QED
        BY <2>4, <3>1, <4>1
    <3>3. q[r] = 2 * r - 1 /\ p[2 * r - 1].op = ops[r]
      BY <2>1, <1>5
    <3>4. i <= q[r] /\ p[i].op = ops[r]
      BY <3>2, <3>3
    <3> QED
      BY <3>4
  <2>5. 2 * n \in Nat
    OBVIOUS
  <2>6. Makers("twin", p, 2 * n, ops, n, q)
    BY <2>2, <2>3, <2>4, Zenon DEF Makers
  <2> QED
    BY <2>5, <2>6, Replay, Zenon
<1>8. Net("live", p, 2 * n + 1) = Left("live", ops, n)
  <2>1. PICK q \in [1 .. n -> 1 .. 2 * n + 1] : \A j \in 1 .. n : q[j] = 2 * j
    <3>1. [j \in 1 .. n |-> 2 * j] \in [1 .. n -> 1 .. 2 * n + 1]
      OBVIOUS
    <3> QED
      BY <3>1
  <2>2. \A i, j \in 1 .. n : i < j => q[i] < q[j]
    BY <2>1
  <2>3. \A j \in 1 .. n : p[q[j]].side = "live" /\ p[q[j]].op = ops[j]
    BY <2>1, <1>5
  <2>4. ASSUME NEW i \in 1 .. 2 * n + 1, p[i].side = "live"
        PROVE  \E j \in 1 .. n : i <= q[j] /\ p[i].op = ops[j]
    <3>0. i \in 1 .. 2 * n
      BY <2>4, <1>6
    <3>1. PICK r \in 1 .. n : i = 2 * r - 1 \/ i = 2 * r
      BY <3>0, Halves
    <3>2. i = 2 * r
      <4>1. p[2 * r - 1].side = "twin"
        BY <1>5
      <4> QED
        BY <2>4, <3>1, <4>1
    <3>3. q[r] = 2 * r /\ p[2 * r].op = ops[r]
      BY <2>1, <1>5
    <3>4. i <= q[r] /\ p[i].op = ops[r]
      BY <3>2, <3>3
    <3> QED
      BY <3>4
  <2>5. 2 * n + 1 \in Nat
    OBVIOUS
  <2>6. Makers("live", p, 2 * n + 1, ops, n, q)
    BY <2>2, <2>3, <2>4, Zenon DEF Makers
  <2> QED
    BY <2>5, <2>6, Replay, Zenon
<1> QED
  BY <1>1, <1>2, <1>3, <1>7, <1>8, Zenon

LEMMA SetupOfTwin ==
  ASSUME NEW t \in Tests, NEW m \in {"twin", "offline"}
  PROVE  LET n == Len(t.setup) IN Net("twin", FullPlan(m, t), n) = Left("twin", t.setup, n)
<1>1. PICK p : p = FullPlan(m, t)
  OBVIOUS
<1>2. PICK n \in Nat : n = Len(t.setup)
  BY TestFields
<1>3. PICK ops : ops = t.setup
  OBVIOUS
<1>4. \A i \in 1 .. n : p[i] = Call("twin", ops[i], "setup")
  BY <1>1, <1>2, <1>3, CallsOfTwin, Zenon
<1>5. \A i \in 1 .. n : p[i].side = "twin" /\ p[i].op = ops[i]
  BY <1>4, SidesOfCall
<1>6. PICK q \in [1 .. n -> 1 .. n] : \A j \in 1 .. n : q[j] = j
  <2>1. [j \in 1 .. n |-> j] \in [1 .. n -> 1 .. n]
    OBVIOUS
  <2> QED
    BY <2>1
<1>7. \A i, j \in 1 .. n : i < j => q[i] < q[j]
  BY <1>6
<1>8. \A j \in 1 .. n : p[q[j]].side = "twin" /\ p[q[j]].op = ops[j]
  BY <1>5, <1>6
<1>9. \A i \in 1 .. n : p[i].side = "twin" => \E j \in 1 .. n : i <= q[j] /\ p[i].op = ops[j]
  BY <1>5, <1>6
<1>10. Makers("twin", p, n, ops, n, q)
  BY <1>7, <1>8, <1>9, Zenon DEF Makers
<1>11. Net("twin", p, n) = Left("twin", ops, n)
  BY <1>10, Replay, Zenon
<1> QED
  BY <1>1, <1>2, <1>3, <1>11, Zenon

LEMMA SetupOfRecord ==
  ASSUME NEW t \in Tests
  PROVE  LET n == Len(t.setup) IN Net("live", FullPlan("record", t), n) = Left("live", t.setup, n)
<1>1. PICK p : p = FullPlan("record", t)
  OBVIOUS
<1>2. PICK n \in Nat : n = Len(t.setup)
  BY TestFields
<1>3. PICK ops : ops = t.setup
  OBVIOUS
<1>4. \A i \in 1 .. n : p[i] = Call("live", ops[i], "setup")
  BY <1>1, <1>2, <1>3, Recordings DEF FullPlan
<1>5. \A i \in 1 .. n : p[i].side = "live" /\ p[i].op = ops[i]
  BY <1>4, SidesOfCall
<1>6. PICK q \in [1 .. n -> 1 .. n] : \A j \in 1 .. n : q[j] = j
  <2>1. [j \in 1 .. n |-> j] \in [1 .. n -> 1 .. n]
    OBVIOUS
  <2> QED
    BY <2>1
<1>7. \A i, j \in 1 .. n : i < j => q[i] < q[j]
  BY <1>6
<1>8. \A j \in 1 .. n : p[q[j]].side = "live" /\ p[q[j]].op = ops[j]
  BY <1>5, <1>6
<1>9. \A i \in 1 .. n : p[i].side = "live" => \E j \in 1 .. n : i <= q[j] /\ p[i].op = ops[j]
  BY <1>5, <1>6
<1>10. Makers("live", p, n, ops, n, q)
  BY <1>7, <1>8, <1>9, Zenon DEF Makers
<1>11. Net("live", p, n) = Left("live", ops, n)
  BY <1>10, Replay, Zenon
<1> QED
  BY <1>1, <1>2, <1>3, <1>11, Zenon

\* The operation that a side is asked for.
OpOn(side, m, t) == IF side = "live" /\ m = "live" THEN LiveOp(t) ELSE t.op

\* What a whole plan leaves.
LEMMA WholeOfLive ==
  ASSUME NEW t \in Tests, NEW side \in {"twin", "live"}
  PROVE  LET p == FullPlan("live", t)
             ops == t.setup \o <<OpOn(side, "live", t)>> \o t.teardown
         IN Net(side, p, Len(p)) = Left(side, ops, Len(ops))
<1> DEFINE o == OpOn(side, "live", t)
<1>1. PICK p : p = FullPlan("live", t)
  OBVIOUS
<1>2. PICK n \in Nat : n = Len(t.setup)
  BY TestFields
<1>3. PICK k \in Nat : k = Len(t.teardown)
  BY TestFields
<1>4. PICK ops : ops = t.setup \o <<o>> \o t.teardown
  OBVIOUS
<1>5. o \in Operations /\ o = IF side = "live" THEN LiveOp(t) ELSE t.op
  BY TestFields DEF OpOn
<1> HIDE DEF o
<1>6. PICK L \in Nat : L = n + 1 + k
  OBVIOUS
<1>7. PICK K \in Nat : K = 2 * n + 3 + 2 * k
  OBVIOUS
<1>8. /\ Len(ops) = L /\ ops[n + 1] = o
      /\ \A i \in 1 .. n : ops[i] = t.setup[i]
      /\ \A i \in 1 .. k : ops[n + 1 + i] = t.teardown[i]
  BY <1>2, <1>3, <1>4, <1>5, <1>6, OperationsOf, Zenon
<1>9. /\ Len(p) = K
      /\ \A i \in 1 .. n : p[2 * i - 1] = Call("twin", ops[i], "setup") /\ p[2 * i] = Call("live", ops[i], "setup")
      /\ p[2 * n + 1] = Call("twin", t.op, "answer")
      /\ p[2 * n + 2] = Call("live", LiveOp(t), "base")
      /\ p[2 * n + 3] = Judge
      /\ \A i \in 1 .. k : p[2 * n + 3 + (2 * i - 1)] = Call("twin", ops[n + 1 + i], "teardown")
                          /\ p[2 * n + 3 + 2 * i] = Call("live", ops[n + 1 + i], "teardown")
  BY <1>1, <1>2, <1>3, <1>7, <1>8, CallsOfLive, Zenon
<1>10. PICK e \in {0, 1} : e = IF side = "twin" THEN 1 ELSE 0
  OBVIOUS
<1>11. \A i \in 1 .. n : p[2 * i - e].side = side /\ p[2 * i - e].op = ops[i] /\ p[2 * i - (1 - e)].side # side
  <2>1. \A i \in 1 .. n : p[2 * i - 1].side = "twin" /\ p[2 * i - 1].op = ops[i]
                          /\ p[2 * i].side = "live" /\ p[2 * i].op = ops[i]
    BY <1>9, SidesOfCall
  <2>2. ASSUME NEW i \in 1 .. n
        PROVE  p[2 * i - e].side = side /\ p[2 * i - e].op = ops[i] /\ p[2 * i - (1 - e)].side # side
    <3>1. 2 * i - 0 = 2 * i /\ 1 - 0 = 1 /\ 1 - 1 = 0
      OBVIOUS
    <3>2. CASE e = 0
      <4>1. side = "live"
        BY <1>10, <3>2
      <4> QED
        BY <2>1, <3>1, <3>2, <4>1
    <3>3. CASE e = 1
      <4>1. side = "twin"
        BY <1>10, <3>3
      <4> QED
        BY <2>1, <3>1, <3>3, <4>1
    <3> QED
      BY <3>2, <3>3
  <2> QED
    BY <2>2
<1>12. p[2 * n + 2 - e].side = side /\ p[2 * n + 2 - e].op = o /\ p[2 * n + 2 - (1 - e)].side # side
  <2>1. p[2 * n + 1].side = "twin" /\ p[2 * n + 1].op = t.op /\ p[2 * n + 2].side = "live" /\ p[2 * n + 2].op = LiveOp(t)
    BY <1>9, SidesOfCall
  <2>2. 2 * n + 2 - 0 = 2 * n + 2 /\ 2 * n + 2 - 1 = 2 * n + 1 /\ 1 - 0 = 1 /\ 1 - 1 = 0
    OBVIOUS
  <2>3. CASE e = 0
    <3>1. side = "live"
      BY <1>10, <2>3
    <3> QED
      BY <1>5, <2>1, <2>2, <2>3, <3>1
  <2>4. CASE e = 1
    <3>1. side = "twin"
      BY <1>10, <2>4
    <3> QED
      BY <1>5, <2>1, <2>2, <2>4, <3>1
  <2> QED
    BY <2>3, <2>4
<1>13. p[2 * n + 3].side # side
  BY <1>9, JudgeIsNoCall
<1>14. \A i \in 1 .. k : /\ p[2 * n + 3 + (2 * i - e)].side = side
         /\ p[2 * n + 3 + (2 * i - e)].op = ops[n + 1 + i]
         /\ p[2 * n + 3 + (2 * i - (1 - e))].side # side
  <2>1. \A i \in 1 .. k :
          p[2 * n + 3 + (2 * i - 1)].side = "twin" /\ p[2 * n + 3 + (2 * i - 1)].op = ops[n + 1 + i]
            /\ p[2 * n + 3 + 2 * i].side = "live" /\ p[2 * n + 3 + 2 * i].op = ops[n + 1 + i]
    BY <1>9, SidesOfCall
  <2>2. ASSUME NEW i \in 1 .. k
        PROVE  p[2 * n + 3 + (2 * i - e)].side = side /\ p[2 * n + 3 + (2 * i - e)].op = ops[n + 1 + i]
                 /\ p[2 * n + 3 + (2 * i - (1 - e))].side # side
    <3>1. 2 * i - 0 = 2 * i /\ 1 - 0 = 1 /\ 1 - 1 = 0
      OBVIOUS
    <3>2. CASE e = 0
      <4>1. side = "live"
        BY <1>10, <3>2
      <4> QED
        BY <2>1, <3>1, <3>2, <4>1
    <3>3. CASE e = 1
      <4>1. side = "twin"
        BY <1>10, <3>3
      <4> QED
        BY <2>1, <3>1, <3>3, <4>1
    <3> QED
      BY <3>2, <3>3
  <2> QED
    BY <2>2
<1>15. PICK q \in [1 .. L -> 1 .. K] : \A j \in 1 .. L : q[j] = IF j <= n + 1 THEN 2 * j - e ELSE 2 * j + 1 - e
  <2>1. \A j \in 1 .. L : (IF j <= n + 1 THEN 2 * j - e ELSE 2 * j + 1 - e) \in 1 .. K
    BY <1>6, <1>7
  <2>2. [j \in 1 .. L |-> IF j <= n + 1 THEN 2 * j - e ELSE 2 * j + 1 - e] \in [1 .. L -> 1 .. K]
    BY <2>1
  <2> QED
    BY <2>2
<1>16. \A i, j \in 1 .. L : i < j => q[i] < q[j]
  BY <1>15
<1>17. ASSUME NEW j \in 1 .. L
       PROVE  p[q[j]].side = side /\ p[q[j]].op = ops[j]
  <2>1. CASE j \in 1 .. n
    <3>1. q[j] = 2 * j - e
      BY <1>15, <2>1
    <3> QED
      BY <1>11, <2>1, <3>1
  <2>2. CASE j = n + 1
    <3>1. q[j] = 2 * n + 2 - e
      BY <1>15, <2>2
    <3> QED
      BY <1>8, <1>12, <2>2, <3>1
  <2>3. CASE j > n + 1
    <3>1. PICK r \in 1 .. k : j = n + 1 + r
      <4>1. j - (n + 1) \in 1 .. k /\ j = n + 1 + (j - (n + 1))
        BY <1>6, <2>3
      <4> QED
        BY <4>1
    <3>2. q[j] = 2 * n + 3 + (2 * r - e)
      BY <1>15, <2>3, <3>1
    <3> QED
      BY <1>14, <3>1, <3>2
  <2> QED
    BY <2>1, <2>2, <2>3
<1>18. ASSUME NEW i \in 1 .. K, p[i].side = side
       PROVE  \E j \in 1 .. L : i <= q[j] /\ p[i].op = ops[j]
  <2>1. SUFFICES ASSUME NEW j \in 1 .. L, i = q[j] PROVE \E h \in 1 .. L : i <= q[h] /\ p[i].op = ops[h]
    <3>1. \E j \in 1 .. L : i = q[j]
      <4>1. CASE i \in 1 .. 2 * n
        <5>1. PICK r \in 1 .. n : i = 2 * r - 1 \/ i = 2 * r
          BY <4>1, Halves
        <5>2. i = 2 * r - e \/ i = 2 * r - (1 - e)
          BY <5>1
        <5>3. i = 2 * r - e
          BY <1>11, <1>18, <5>2
        <5>4. r \in 1 .. L /\ q[r] = 2 * r - e
          BY <1>6, <1>15
        <5> QED
          BY <5>3, <5>4
      <4>2. CASE i \in {2 * n + 1, 2 * n + 2}
        <5>1. i = 2 * n + 2 - e \/ i = 2 * n + 2 - (1 - e)
          BY <4>2
        <5>2. i = 2 * n + 2 - e
          BY <1>12, <1>18, <5>1
        <5>3. n + 1 \in 1 .. L /\ q[n + 1] = 2 * n + 2 - e
          BY <1>6, <1>15
        <5> QED
          BY <5>2, <5>3
      <4>3. CASE i > 2 * n + 3
        <5>1. PICK h \in 1 .. 2 * k : i = 2 * n + 3 + h
          <6>1. i - (2 * n + 3) \in 1 .. 2 * k /\ i = 2 * n + 3 + (i - (2 * n + 3))
            BY <1>7, <4>3
          <6> QED
            BY <6>1
        <5>2. PICK r \in 1 .. k : h = 2 * r - 1 \/ h = 2 * r
          BY Halves
        <5>3. h = 2 * r - e \/ h = 2 * r - (1 - e)
          BY <5>2
        <5>4. h = 2 * r - e
          BY <1>14, <1>18, <5>1, <5>3
        <5>5. n + 1 + r \in 1 .. L /\ q[n + 1 + r] = 2 * n + 3 + (2 * r - e)
          BY <1>6, <1>15
        <5> QED
          BY <5>1, <5>4, <5>5
      <4>4. i # 2 * n + 3
        BY <1>13, <1>18
      <4> QED
        BY <1>7, <4>1, <4>2, <4>3, <4>4
    <3> QED
      BY <3>1
  <2>2. i <= q[j] /\ p[i].op = ops[j]
    BY <1>17, <2>1
  <2> QED
    BY <2>2
<1>17a. \A j \in 1 .. L : p[q[j]].side = side /\ p[q[j]].op = ops[j]
  BY <1>17, Zenon
<1>18a. \A i \in 1 .. K : p[i].side = side => \E j \in 1 .. L : i <= q[j] /\ p[i].op = ops[j]
  BY <1>18, Zenon
<1>19. Makers(side, p, K, ops, L, q)
  BY <1>16, <1>17a, <1>18a, Zenon DEF Makers
<1>20. Net(side, p, K) = Left(side, ops, L)
  <2>1. L \in Nat /\ K \in Nat /\ q \in [1 .. L -> 1 .. K]
    OBVIOUS
  <2> QED
    BY ONLY <1>19, <2>1, Replay, SMTT(30)
<1> QED
  BY <1>1, <1>4, <1>8, <1>9, <1>20, Zenon DEF o

LEMMA WholeOfTwin ==
  ASSUME NEW t \in Tests, NEW m \in {"twin", "offline"}
  PROVE  LET p == FullPlan(m, t)
             ops == t.setup \o <<t.op>> \o t.teardown
         IN Net("twin", p, Len(p)) = Left("twin", ops, Len(ops))
<1>1. PICK p : p = FullPlan(m, t)
  OBVIOUS
<1>2. PICK n \in Nat : n = Len(t.setup)
  BY TestFields
<1>3. PICK k \in Nat : k = Len(t.teardown)
  BY TestFields
<1>4. PICK ops : ops = t.setup \o <<t.op>> \o t.teardown
  OBVIOUS
<1>5. PICK b \in {0, 1} : b = IF m = "twin" THEN 1 ELSE 0
  OBVIOUS
<1>6. PICK L \in Nat : L = n + 1 + k
  OBVIOUS
<1>7. PICK K \in Nat : K = n + b + 2 + k
  OBVIOUS
<1>8. /\ Len(ops) = L /\ ops[n + 1] = t.op
      /\ \A i \in 1 .. n : ops[i] = t.setup[i]
      /\ \A i \in 1 .. k : ops[n + 1 + i] = t.teardown[i]
  <2>1. t.op \in Operations
    BY TestFields
  <2> QED
    BY <1>2, <1>3, <1>4, <1>6, <2>1, OperationsOf, Zenon
<1>9. /\ Len(p) = K
      /\ \A i \in 1 .. n : p[i] = Call("twin", ops[i], "setup")
      /\ p[n + 1] = Call("twin", t.op, "answer")
      /\ m = "twin" => p[n + 2] = Call("twin", t.op, "base")
      /\ p[n + b + 2] = Judge
      /\ \A i \in 1 .. k : p[n + b + 2 + i] = Call("twin", ops[n + 1 + i], "teardown")
  <2>1. /\ Len(p) = n + b + 2 + k
        /\ \A i \in 1 .. n : p[i] = Call("twin", t.setup[i], "setup")
        /\ p[n + 1] = Call("twin", t.op, "answer")
        /\ m = "twin" => p[n + 2] = Call("twin", t.op, "base")
        /\ p[n + b + 2] = Judge
        /\ \A i \in 1 .. k : p[n + b + 2 + i] = Call("twin", t.teardown[i], "teardown")
    <3> DEFINE c == IF m = "twin" THEN 1 ELSE 0
    <3>1. /\ Len(p) = n + c + 2 + k
          /\ \A i \in 1 .. n : p[i] = Call("twin", t.setup[i], "setup")
          /\ p[n + 1] = Call("twin", t.op, "answer")
          /\ m = "twin" => p[n + 2] = Call("twin", t.op, "base")
          /\ p[n + c + 2] = Judge
          /\ \A i \in 1 .. k : p[n + c + 2 + i] = Call("twin", t.teardown[i], "teardown")
      BY <1>1, <1>2, <1>3, CallsOfTwin, Zenon
    <3>2. c = b
      BY <1>5
    <3> HIDE DEF c
    <3> QED
      BY <3>1, <3>2, Zenon
  <2> QED
    BY <1>7, <1>8, <2>1, Zenon
<1>10. \A i \in 1 .. n : p[i].side = "twin" /\ p[i].op = ops[i]
  BY <1>9, SidesOfCall
<1>11. p[n + 1].side = "twin" /\ p[n + 1].op = ops[n + 1]
  BY <1>8, <1>9, SidesOfCall
<1>12. m = "twin" => p[n + 2].side = "twin" /\ p[n + 2].op = ops[n + 1]
  BY <1>8, <1>9, SidesOfCall
<1>13. p[n + b + 2].side # "twin"
  BY <1>9, JudgeIsNoCall
<1>14. \A i \in 1 .. k : p[n + b + 2 + i].side = "twin" /\ p[n + b + 2 + i].op = ops[n + 1 + i]
  BY <1>9, SidesOfCall
<1>15. p[n + 1 + b].side = "twin" /\ p[n + 1 + b].op = ops[n + 1]
  <2>1. CASE b = 0
    <3>1. n + 1 + b = n + 1
      BY <2>1
    <3> QED
      BY <1>11, <3>1
  <2>2. CASE b = 1
    <3>1. n + 1 + b = n + 2 /\ m = "twin"
      BY <1>5, <2>2
    <3> QED
      BY <1>12, <3>1
  <2> QED
    BY <2>1, <2>2
<1>16. PICK q \in [1 .. L -> 1 .. K] :
         \A j \in 1 .. L : q[j] = IF j <= n THEN j ELSE IF j = n + 1 THEN n + 1 + b ELSE j + b + 1
  <2>1. \A j \in 1 .. L : (IF j <= n THEN j ELSE IF j = n + 1 THEN n + 1 + b ELSE j + b + 1) \in 1 .. K
    BY <1>6, <1>7
  <2>2. [j \in 1 .. L |-> IF j <= n THEN j ELSE IF j = n + 1 THEN n + 1 + b ELSE j + b + 1] \in [1 .. L -> 1 .. K]
    BY <2>1
  <2> QED
    BY <2>2
<1>17. \A i, j \in 1 .. L : i < j => q[i] < q[j]
  BY <1>16
<1>18. ASSUME NEW j \in 1 .. L
       PROVE  p[q[j]].side = "twin" /\ p[q[j]].op = ops[j]
  <2>1. CASE j \in 1 .. n
    BY <1>10, <1>16, <2>1
  <2>2. CASE j = n + 1
    <3>1. q[j] = n + 1 + b
      BY <1>16, <2>2
    <3> QED
      BY <1>15, <2>2, <3>1
  <2>3. CASE j > n + 1
    <3>1. PICK r \in 1 .. k : j = n + 1 + r
      <4>1. j - (n + 1) \in 1 .. k /\ j = n + 1 + (j - (n + 1))
        BY <1>6, <2>3
      <4> QED
        BY <4>1
    <3>2. q[j] = n + b + 2 + r
      BY <1>16, <2>3, <3>1
    <3> QED
      BY <1>14, <3>1, <3>2
  <2> QED
    BY <2>1, <2>2, <2>3
<1>19. \A j \in 1 .. L : p[q[j]].side = "twin" /\ p[q[j]].op = ops[j]
  BY <1>18, Zenon
<1>20. ASSUME NEW i \in 1 .. K, p[i].side = "twin"
       PROVE  \E j \in 1 .. L : i <= q[j] /\ p[i].op = ops[j]
  <2>1. CASE i \in 1 .. n
    <3>1. i \in 1 .. L /\ q[i] = i
      BY <1>6, <1>16, <2>1
    <3> QED
      BY <1>10, <2>1, <3>1
  <2>2. CASE i \in {n + 1, n + 1 + b}
    <3>1. n + 1 \in 1 .. L /\ q[n + 1] = n + 1 + b /\ i <= n + 1 + b
      BY <1>6, <1>16, <2>2
    <3>2. p[i].op = ops[n + 1]
      BY <1>11, <1>15, <2>2
    <3> QED
      BY <3>1, <3>2
  <2>3. CASE i > n + b + 2
    <3>1. PICK r \in 1 .. k : i = n + b + 2 + r
      <4>1. i - (n + b + 2) \in 1 .. k /\ i = n + b + 2 + (i - (n + b + 2))
        BY <1>7, <2>3
      <4> QED
        BY <4>1
    <3>2. n + 1 + r \in 1 .. L /\ q[n + 1 + r] = n + b + 2 + r
      BY <1>6, <1>16
    <3>3. p[i].op = ops[n + 1 + r]
      BY <1>14, <3>1
    <3>4. i <= q[n + 1 + r]
      BY <3>1, <3>2
    <3> QED
      BY <3>2, <3>3, <3>4
  <2>4. i # n + b + 2
    BY <1>13, <1>20
  <2>5. i \in 1 .. n \/ i \in {n + 1, n + 1 + b} \/ i > n + b + 2
    BY <2>4
  <2> QED
    BY <2>1, <2>2, <2>3, <2>5
<1>21. \A i \in 1 .. K : p[i].side = "twin" => \E j \in 1 .. L : i <= q[j] /\ p[i].op = ops[j]
  BY <1>20, Zenon
<1>22. Makers("twin", p, K, ops, L, q)
  BY <1>17, <1>19, <1>21, Zenon DEF Makers
<1>23. Net("twin", p, K) = Left("twin", ops, L)
  BY ONLY <1>22, L \in Nat, K \in Nat, q \in [1 .. L -> 1 .. K], Replay, SMTT(30)
<1> QED
  BY <1>1, <1>4, <1>8, <1>9, <1>23, Zenon

LEMMA WholeOfRecord ==
  ASSUME NEW t \in Tests
  PROVE  LET p == FullPlan("record", t)
             ops == t.setup \o <<t.op>> \o t.teardown
         IN Net("live", p, Len(p)) = Left("live", ops, Len(ops))
<1>1. PICK p : p = FullPlan("record", t)
  OBVIOUS
<1>2. PICK n \in Nat : n = Len(t.setup)
  BY TestFields
<1>3. PICK k \in Nat : k = Len(t.teardown)
  BY TestFields
<1>4. PICK ops : ops = t.setup \o <<t.op>> \o t.teardown
  OBVIOUS
<1>5. PICK L \in Nat : L = n + 1 + k
  OBVIOUS
<1>6. /\ Len(ops) = L /\ ops[n + 1] = t.op
      /\ \A i \in 1 .. n : ops[i] = t.setup[i]
      /\ \A i \in 1 .. k : ops[n + 1 + i] = t.teardown[i]
  <2>1. t.op \in Operations
    BY TestFields
  <2> QED
    BY <1>2, <1>3, <1>4, <1>5, <2>1, OperationsOf, Zenon
<1>7. /\ Len(p) = L
      /\ \A i \in 1 .. n : p[i] = Call("live", ops[i], "setup")
      /\ p[n + 1] = Call("live", t.op, "save")
      /\ \A i \in 1 .. k : p[n + 1 + i] = Call("live", ops[n + 1 + i], "setup")
  <2>1. p = Recording(t)
    BY <1>1 DEF FullPlan
  <2> QED
    BY <1>2, <1>3, <1>5, <1>6, <2>1, Recordings, Zenon
<1>8. ASSUME NEW j \in 1 .. L
      PROVE  p[j].side = "live" /\ p[j].op = ops[j]
  <2>1. CASE j \in 1 .. n
    BY <1>7, <2>1, SidesOfCall
  <2>2. CASE j = n + 1
    BY <1>6, <1>7, <2>2, SidesOfCall
  <2>3. CASE j > n + 1
    <3>1. j - (n + 1) \in 1 .. k /\ j = n + 1 + (j - (n + 1))
      BY <1>5, <2>3
    <3>2. PICK r \in 1 .. k : j = n + 1 + r
      BY <3>1
    <3>3. p[n + 1 + r] = Call("live", ops[n + 1 + r], "setup")
      BY <1>7
    <3>4. p[j] = Call("live", ops[j], "setup")
      BY <3>2, <3>3
    <3> QED
      BY <3>4, SidesOfCall
  <2> QED
    BY <2>1, <2>2, <2>3
<1>9. PICK q \in [1 .. L -> 1 .. L] : \A j \in 1 .. L : q[j] = j
  <2>1. [j \in 1 .. L |-> j] \in [1 .. L -> 1 .. L]
    OBVIOUS
  <2> QED
    BY <2>1
<1>10. \A i, j \in 1 .. L : i < j => q[i] < q[j]
  BY <1>9
<1>11. \A j \in 1 .. L : p[q[j]].side = "live" /\ p[q[j]].op = ops[j]
  BY <1>8, <1>9
<1>12. \A i \in 1 .. L : p[i].side = "live" => \E j \in 1 .. L : i <= q[j] /\ p[i].op = ops[j]
  BY <1>8, <1>9
<1>13. Makers("live", p, L, ops, L, q)
  BY <1>10, <1>11, <1>12, Zenon DEF Makers
<1>14. Net("live", p, L) = Left("live", ops, L)
  BY ONLY <1>13, L \in Nat, q \in [1 .. L -> 1 .. L], Replay, SMTT(30)
<1> QED
  BY <1>1, <1>4, <1>6, <1>7, <1>14, Zenon

\* A side that a session does not call.
LEMMA SidesOfPlan ==
  ASSUME NEW t \in Tests
  PROVE  /\ \A m \in {"twin", "offline"} : \A i \in 1 .. Len(FullPlan(m, t)) : FullPlan(m, t)[i].side # "live"
         /\ \A i \in 1 .. Len(FullPlan("record", t)) : FullPlan("record", t)[i].side # "twin"
<1>1. PICK n \in Nat : n = Len(t.setup)
  BY TestFields
<1>2. PICK k \in Nat : k = Len(t.teardown)
  BY TestFields
<1>3. Judge.side = "none"
  BY DEF Judge
<1>4. ASSUME NEW m \in {"twin", "offline"}, NEW i \in 1 .. Len(FullPlan(m, t))
      PROVE  FullPlan(m, t)[i].side # "live"
  <2> DEFINE c == IF m = "twin" THEN 1 ELSE 0
  <2>1. PICK p : p = FullPlan(m, t)
    OBVIOUS
  <2>2. /\ Len(p) = n + c + 2 + k
        /\ \A j \in 1 .. n : p[j] = Call("twin", t.setup[j], "setup")
        /\ p[n + 1] = Call("twin", t.op, "answer")
        /\ m = "twin" => p[n + 2] = Call("twin", t.op, "base")
        /\ p[n + c + 2] = Judge
        /\ \A j \in 1 .. k : p[n + c + 2 + j] = Call("twin", t.teardown[j], "teardown")
    BY <1>1, <1>2, <2>1, CallsOfTwin, Zenon
  <2>3. c \in {0, 1} /\ (c = 1 => m = "twin")
    OBVIOUS
  <2> HIDE DEF c
  <2>4. i \in 1 .. n + c + 2 + k
    BY <2>1, <2>2
  <2>5. CASE i \in 1 .. n
    <3>1. p[i].side = "twin"
      BY <2>2, <2>5, SidesOfCall
    <3> QED
      BY <2>1, <3>1
  <2>6. CASE i = n + 1
    <3>1. p[i].side = "twin"
      BY <2>2, <2>6, SidesOfCall
    <3> QED
      BY <2>1, <3>1
  <2>7. CASE i = n + 2 /\ c = 1
    <3>1. p[i].side = "twin"
      BY <2>2, <2>3, <2>7, SidesOfCall
    <3> QED
      BY <2>1, <3>1
  <2>8. CASE i = n + c + 2
    <3>1. p[i].side = "none"
      BY <1>3, <2>2, <2>8
    <3> QED
      BY <2>1, <3>1
  <2>9. CASE i > n + c + 2
    <3>1. i - (n + c + 2) \in 1 .. k /\ i = n + c + 2 + (i - (n + c + 2))
      BY <2>3, <2>4, <2>9
    <3>2. PICK j \in 1 .. k : i = n + c + 2 + j
      BY <3>1
    <3>3. p[i] = Call("twin", t.teardown[j], "teardown")
      BY <2>2, <3>2
    <3>4. p[i].side = "twin"
      BY <3>3, SidesOfCall
    <3> QED
      BY <2>1, <3>4
  <2> QED
    BY <2>3, <2>4, <2>5, <2>6, <2>7, <2>8, <2>9
<1>5. ASSUME NEW i \in 1 .. Len(FullPlan("record", t))
      PROVE  FullPlan("record", t)[i].side # "twin"
  <2>1. PICK p : p = Recording(t)
    OBVIOUS
  <2>2. p = FullPlan("record", t)
    BY <2>1 DEF FullPlan
  <2>3. /\ Len(p) = n + 1 + k
        /\ \A j \in 1 .. n : p[j] = Call("live", t.setup[j], "setup")
        /\ p[n + 1] = Call("live", t.op, "save")
        /\ \A j \in 1 .. k : p[n + 1 + j] = Call("live", t.teardown[j], "setup")
    BY <1>1, <1>2, <2>1, Recordings, Zenon
  <2>4. i \in 1 .. n + 1 + k
    BY <2>2, <2>3
  <2>5. p[i].side = "live"
    <3>1. CASE i \in 1 .. n
      BY <2>3, <3>1, SidesOfCall
    <3>2. CASE i = n + 1
      BY <2>3, <3>2, SidesOfCall
    <3>3. CASE i > n + 1
      <4>1. i - (n + 1) \in 1 .. k /\ i = n + 1 + (i - (n + 1))
        BY <2>4, <3>3
      <4>2. PICK j \in 1 .. k : i = n + 1 + j
        BY <4>1
      <4>3. p[i] = Call("live", t.teardown[j], "setup")
        BY <2>3, <4>2
      <4> QED
        BY <4>3, SidesOfCall
    <3> QED
      BY <2>4, <3>1, <3>2, <3>3
  <2> QED
    BY <2>2, <2>5
<1> QED
  BY <1>4, <1>5

\* What a tidy test leaves: nothing.
LEMMA TidyEnds ==
  ASSUME NEW t \in Tests, Tidy(t), NEW m \in Modes, NEW side \in {"twin", "live"}
  PROVE  Net(side, FullPlan(m, t), Len(FullPlan(m, t))) = {}
<1> DEFINE all(o) == t.setup \o <<o>> \o t.teardown
<1>1. /\ Left("twin", all(t.op), Len(all(t.op))) = {}
      /\ Left("live", all(t.op), Len(all(t.op))) = {}
      /\ Left("live", all(LiveOp(t)), Len(all(LiveOp(t)))) = {}
  BY DEF Tidy
<1>2. Len(FullPlan(m, t)) \in Nat
  BY PlanRoles
<1>3. CASE m = "live"
  <2>1. Net(side, FullPlan(m, t), Len(FullPlan(m, t)))
          = Left(side, all(OpOn(side, "live", t)), Len(all(OpOn(side, "live", t))))
    BY <1>3, WholeOfLive, Zenon
  <2>2. CASE side = "live"
    <3>1. OpOn(side, "live", t) = LiveOp(t)
      BY <2>2 DEF OpOn
    <3> QED
      BY <1>1, <2>1, <2>2, <3>1, Zenon
  <2>3. CASE side = "twin"
    <3>1. OpOn(side, "live", t) = t.op
      BY <2>3 DEF OpOn
    <3> QED
      BY <1>1, <2>1, <2>3, <3>1, Zenon
  <2> QED
    BY <2>2, <2>3
<1>4. CASE m \in {"twin", "offline"}
  <2>1. CASE side = "live"
    BY <1>2, <1>4, <2>1, SidesOfPlan, NetOfNone, Zenon
  <2>2. CASE side = "twin"
    BY <1>1, <1>4, <2>2, WholeOfTwin, Zenon
  <2> QED
    BY <2>1, <2>2
<1>5. CASE m = "record"
  <2>1. CASE side = "twin"
    BY <1>2, <1>5, <2>1, SidesOfPlan, NetOfNone, Zenon
  <2>2. CASE side = "live"
    BY <1>1, <1>5, <2>2, WholeOfRecord, Zenon
  <2> QED
    BY <2>1, <2>2
<1> QED
  BY <1>3, <1>4, <1>5 DEF Modes

LEMMA ShelvedInit == SessionInit => Shelved
<1>1. DOMAIN Fresh(11).things = {}
  BY FreshTarget
<1> QED
  BY <1>1 DEF SessionInit, Shelved

\* Until a call throws, what a target keeps is what the calls of the test
\* under way have left.
LEMMA ShelvedNext ==
  ASSUME TidySuite, Core, Core', Shelved, [SessionNext]_sessionVars
  PROVE  Shelved'
<1> USE DEF Shelved
<1>1. ASSUME NEW m \in {"twin", "live", "offline", "record"}, Begin(m)
      PROVE  Shelved'
  <2>1. current = <<>> /\ current' = <<>> /\ live' = live /\ throws' = throws /\ twin' = Fresh(1)
    BY <1>1 DEF Begin, Core, Queue
  <2>2. DOMAIN twin'.things = {}
    BY <2>1, FreshTarget
  <2> QED
    BY <2>1, <2>2
<1>2. CASE NextTest
  <2>1. current = <<>> /\ live' = live /\ twin' = twin /\ throws' = throws /\ mode' = mode /\ mode # "idle"
    BY <1>2 DEF NextTest
  <2>2. \/ current' = <<>>
        \/ current' # <<>> /\ Done' = 0
    BY <1>2, TestBegins
  <2>3. CASE current' = <<>>
    BY <2>1, <2>3
  <2>4. CASE current' # <<>> /\ Done' = 0
    <3>1. Net("live", Whole', 0) = {} /\ Net("twin", Whole', 0) = {}
      BY NetNone
    <3> QED
      BY <2>1, <2>4, <3>1
  <2> QED
    BY <2>2, <2>3, <2>4
<1>3. CASE Execute
  <2>1. /\ current # <<>> /\ current' = current /\ Whole' = Whole /\ Done' = Done + 1
        /\ Head(plan) = Whole[Done + 1] /\ Head(plan) \in Calls /\ throws' = throws /\ Done \in Nat
    <3>1. throws' = throws
      BY <1>3 DEF Execute
    <3>2. Done \in Nat
      BY <1>3, ExecuteStep, UnderWay
    <3> QED
      BY <1>3, <3>1, <3>2, ExecuteStep
  <2>2. PICK c \in Calls : c = Whole[Done + 1]
    BY <2>1
  <2>3. Effect(c)
    BY <1>3, <2>1, <2>2 DEF Execute
  <2>4. /\ DOMAIN twin'.things = IF c.side = "twin" THEN Leaves("twin", c.op, DOMAIN twin.things) ELSE DOMAIN twin.things
        /\ DOMAIN live'.things = IF c.side = "live" THEN Leaves("live", c.op, DOMAIN live.things) ELSE DOMAIN live.things
    BY <2>3, EffectTargets DEF Core, Steps
  <2>5. ASSUME NEW side
        PROVE  Net(side, Whole, Done + 1) =
                 IF c.side = side THEN Leaves(side, c.op, Net(side, Whole, Done)) ELSE Net(side, Whole, Done)
    <3>1. PICK w : w = Whole
      OBVIOUS
    <3>2. PICK d \in Nat : d = Done
      BY <2>1
    <3>3. Net(side, w, d + 1) = IF w[d + 1].side = side THEN Leaves(side, w[d + 1].op, Net(side, w, d)) ELSE Net(side, w, d)
      BY ONLY d \in Nat, NetOne, SMTT(30)
    <3> QED
      BY <2>2, <3>1, <3>2, <3>3, Zenon
  <2>6. ASSUME throws = 0
        PROVE  /\ DOMAIN live'.things = Net("live", Whole, Done + 1)
               /\ DOMAIN twin'.things = Net("twin", Whole, Done + 1)
    <3>1. DOMAIN live.things = Net("live", Whole, Done) /\ DOMAIN twin.things = Net("twin", Whole, Done)
      BY <2>1, <2>6
    <3> QED
      BY <2>4, <2>5, <3>1, Zenon
  <2> QED
    BY <2>1, <2>6
<1>4. CASE Compare
  <2>1. /\ current # <<>> /\ current' = current /\ Whole' = Whole /\ Done' = Done + 1 /\ Done \in Nat
        /\ live' = live /\ twin' = twin /\ throws' = throws
    <3>1. live' = live /\ twin' = twin /\ throws' = throws
      BY <1>4 DEF Compare
    <3>2. Done \in Nat
      BY <1>4, CompareStep, UnderWay
    <3> QED
      BY <1>4, <3>1, <3>2, CompareStep
  <2>2. Whole[Done + 1].side = "none"
    <3>1. plan # <<>> /\ Head(plan).role = "judge"
      BY <1>4 DEF Compare
    <3>2. Head(plan) \in Calls \cup {Judge} /\ Head(plan) = Whole[Done + 1]
      BY <3>1, NextCall
    <3>3. Head(plan) \notin Calls
      BY <3>1 DEF Calls
    <3> QED
      BY <3>2, <3>3 DEF Judge
  <2>3. ASSUME NEW side \in {"twin", "live"}
        PROVE  Net(side, Whole, Done + 1) = Net(side, Whole, Done)
    <3>1. Whole[Done + 1].side # side
      BY <2>2
    <3> QED
      <4>1. PICK w : w = Whole
        OBVIOUS
      <4>2. PICK d \in Nat : d = Done
        BY <2>1
      <4>3. w[d + 1].side # side
        BY <3>1, <4>1, <4>2, Zenon
      <4>4. Net(side, w, d + 1) = Net(side, w, d)
        BY ONLY <4>3, d \in Nat, NetOne, SMTT(30)
      <4> QED
        BY <4>1, <4>2, <4>4, Zenon
  <2> QED
    BY <2>1, <2>3
<1>5. CASE EndTest
  <2>1. /\ current # <<>> /\ current' = <<>> /\ Done = Len(Whole)
        /\ live' = live /\ twin' = twin /\ throws' = throws
    <3>1. live' = live /\ twin' = twin /\ throws' = throws
      BY <1>5 DEF EndTest
    <3> QED
      BY <1>5, <3>1, EndStep
  <2>2. Started \in 1 .. Len(Suite) /\ Test = Suite[Started] /\ Test \in Tests /\ mode \in Modes
    BY <2>1, UnderWay
  <2>3. Tidy(Test)
    BY <2>2, SuiteFacts DEF TidySuite
  <2>4. Net("live", Whole, Done) = {} /\ Net("twin", Whole, Done) = {}
    BY <2>1, <2>2, <2>3, TidyEnds DEF Whole
  <2> QED
    BY <2>1, <2>4
<1>6. CASE Throw
  <2>1. throws' # 0
    BY <1>6 DEF Throw, Core, Steps
  <2> QED
    BY <2>1
<1>7. CASE End
  BY <1>7 DEF End, testVars
<1>8. CASE UNCHANGED sessionVars
  BY <1>8 DEF sessionVars, testVars, Whole, Done, Test
<1> QED
  BY <1>1, <1>2, <1>3, <1>4, <1>5, <1>6, <1>7, <1>8 DEF SessionNext

-----------------------------------------------------------------------------
(* What is compared                                                         *)

\* What was seen remains so; a call that throws asks nothing of it any more.
LEMMA SeenStays ==
  ASSUME NEW side, NEW op, NEW setup, NEW r, Seen(side, op, setup, r),
         drift' = drift, throws' = 0 => throws = 0
  PROVE  Seen(side, op, setup, r)'
<1>1. PICK a \in Targets :
        /\ r = Response(drift, side, op, a)
        /\ TidySuite /\ throws = 0 => DOMAIN a.things = Left(side, setup, Len(setup))
  BY DEF Seen
<1>2. r = Response(drift', side, op, a)
  BY <1>1
<1>3. TidySuite /\ throws' = 0 => DOMAIN a.things = Left(side, setup, Len(setup))
  BY <1>1
<1>4. Seen(side, op, setup, r)' <=> \E b \in Targets :
        /\ r = Response(drift', side, op, b)
        /\ TidySuite /\ throws' = 0 => DOMAIN b.things = Left(side, setup, Len(setup))
  BY DEF Seen, Response
<1> QED
  BY <1>1, <1>2, <1>3, <1>4

LEMMA BothSeenStay ==
  ASSUME drift' = drift, throws' = 0 => throws = 0, Test' = Test, answer' = answer, base' = base
  PROVE  (AnswerSeen => AnswerSeen') /\ (BaseSeen => BaseSeen')
<1>1. PICK o, l, s : o = Test.op /\ l = LiveOp(Test) /\ s = Test.setup
  OBVIOUS
<1>2. o = Test'.op /\ l = LiveOp(Test') /\ s = Test'.setup
  BY <1>1
<1>3. ASSUME AnswerSeen PROVE AnswerSeen'
  <2>1. PICK x : x = answer
    OBVIOUS
  <2>2. Seen("twin", o, s, x)
    BY <1>1, <1>3, <2>1, Zenon DEF AnswerSeen
  <2>3. Seen("twin", o, s, x)'
    BY <2>2, SeenStays
  <2> QED
    BY <1>2, <2>1, <2>3, Zenon DEF AnswerSeen
<1>4. ASSUME BaseSeen PROVE BaseSeen'
  <2>1. PICK x : base = <<x>> /\ Seen("live", l, s, x)
    BY <1>1, <1>4, Zenon DEF BaseSeen
  <2>2. Seen("live", l, s, x)'
    BY <2>1, SeenStays
  <2>3. base' = <<x>>
    BY <2>1
  <2> QED
    BY <1>2, <2>2, <2>3, Zenon DEF BaseSeen
<1> QED
  BY <1>3, <1>4

\* What a target answers now is seen.
LEMMA SeenNow ==
  ASSUME NEW side, NEW op, NEW setup, NEW a \in Targets,
         TidySuite /\ throws = 0 => DOMAIN a.things = Left(side, setup, Len(setup))
  PROVE  Seen(side, op, setup, Response(drift, side, op, a))
BY Zenon DEF Seen

\* The drift of a twin stays, and throws are never forgotten.
LEMMA ThrowsGrow ==
  ASSUME Core, [SessionNext]_sessionVars
  PROVE  drift' = drift /\ (throws' = 0 => throws = 0)
<1>1. throws \in 0 .. MaxThrows
  BY DEF Core, Steps
<1>2. ASSUME NEW m \in {"twin", "live", "offline", "record"}, Begin(m) PROVE drift' = drift /\ throws' = throws
  BY <1>2 DEF Begin
<1>3. CASE NextTest
  BY <1>3 DEF NextTest
<1>4. CASE Execute
  BY <1>4 DEF Execute
<1>5. CASE Compare
  BY <1>5 DEF Compare
<1>6. CASE EndTest
  BY <1>6 DEF EndTest
<1>7. CASE Throw
  <2>1. drift' = drift /\ throws' = throws + 1
    BY <1>7 DEF Throw
  <2> QED
    BY <1>1, <2>1
<1>8. CASE End
  BY <1>8 DEF End, testVars
<1>9. CASE UNCHANGED sessionVars
  BY <1>9 DEF sessionVars
<1> QED
  BY <1>2, <1>3, <1>4, <1>5, <1>6, <1>7, <1>8, <1>9 DEF SessionNext

\* What the targets keep when the test's own operation is called.
LEMMA SetUp ==
  ASSUME Core, TidySuite => Shelved, current # <<>>, TidySuite, throws = 0
  PROVE  /\ mode # "record" /\ Done + 1 = AnswerAt(mode, Test) =>
              DOMAIN twin.things = Left("twin", Test.setup, Len(Test.setup))
         /\ mode = "live" /\ Done = AnswerAt(mode, Test) =>
              DOMAIN live.things = Left("live", Test.setup, Len(Test.setup))
         /\ mode = "record" /\ Done + 1 = AnswerAt(mode, Test) =>
              DOMAIN live.things = Left("live", Test.setup, Len(Test.setup))
<1>1. PICK t \in Tests : t = Test
  BY UnderWay
<1>2. PICK m \in Modes : m = mode
  BY UnderWay
<1>3. PICK p : p = FullPlan(m, t)
  OBVIOUS
<1>4. PICK d \in Nat : d = Done
  BY UnderWay
<1>5. DOMAIN live.things = Net("live", p, d) /\ DOMAIN twin.things = Net("twin", p, d)
  BY <1>1, <1>2, <1>3, <1>4 DEF Shelved, Whole
<1>6. PICK n \in Nat : n = Len(t.setup)
  BY TestFields
<1>7. ASSUME m # "record", d + 1 = AnswerAt(m, t)
      PROVE  Net("twin", p, d) = Left("twin", t.setup, n)
  <2>1. CASE m = "live"
    <3>1. d = 2 * n
      BY <1>4, <1>6, <1>7, <2>1 DEF AnswerAt
    <3> QED
      BY <1>3, <1>6, <2>1, <3>1, SetupOfLive, Zenon
  <2>2. CASE m \in {"twin", "offline"}
    <3>1. d = n
      BY <1>4, <1>6, <1>7, <2>2 DEF AnswerAt
    <3> QED
      BY <1>3, <1>6, <2>2, <3>1, SetupOfTwin, Zenon
  <2> QED
    BY <1>7, <2>1, <2>2 DEF Modes
<1>8. ASSUME m = "live", d = AnswerAt(m, t)
      PROVE  Net("live", p, d) = Left("live", t.setup, n)
  <2>1. d = 2 * n + 1
    BY <1>4, <1>6, <1>8 DEF AnswerAt
  <2> QED
    BY <1>3, <1>6, <1>8, <2>1, SetupOfLive, Zenon
<1>9. ASSUME m = "record", d + 1 = AnswerAt(m, t)
      PROVE  Net("live", p, d) = Left("live", t.setup, n)
  <2>1. d = n
    BY <1>4, <1>6, <1>9 DEF AnswerAt
  <2> QED
    BY <1>3, <1>6, <1>9, <2>1, SetupOfRecord, Zenon
<1> QED
  BY <1>1, <1>2, <1>4, <1>5, <1>6, <1>7, <1>8, <1>9, Zenon

\* What a call of a plan was for.
LEMMA CalledFor ==
  ASSUME Core, Execute
  PROVE  LET d == Done + 1
             k == AnswerAt(mode, Test)
             c == Whole[d]
         IN /\ c.role = "answer" <=> mode # "record" /\ d = k
            /\ c.role = "save" <=> mode = "record" /\ d = k
            /\ c.role = "base" <=> mode \in {"live", "twin"} /\ d = k + 1
            /\ c.role = "answer" => c.side = "twin" /\ c.op = Test.op
            /\ c.role = "save" => c.side = "live" /\ c.op = Test.op
            /\ c.role = "base" /\ mode = "live" => c.side = "live" /\ c.op = LiveOp(Test)
            /\ c.role = "base" /\ mode = "twin" => c.side = "twin" /\ c.op = Test.op
<1>1. PICK t \in Tests : t = Test
  BY ExecuteStep, UnderWay
<1>2. PICK m \in Modes : m = mode
  BY ExecuteStep, UnderWay
<1>3. PICK d \in Nat : d = Done + 1 /\ d \in 1 .. Len(Whole) /\ Whole[d].role = RoleAt(m, t, d)
                       /\ d # JudgeAt(m, t)
  BY <1>1, <1>2, ExecuteStep
<1>4. PICK k \in Nat : k = AnswerAt(m, t) /\ k >= 1
  BY Places
<1>5. PICK w : w = Whole /\ w = FullPlan(m, t)
  BY <1>1, <1>2 DEF Whole
<1>6. PICK c : c = w[d]
  OBVIOUS
<1>7. /\ m # "record" => w[k] = Call("twin", t.op, "answer")
      /\ m = "record" => w[k] = Call("live", t.op, "save")
      /\ m = "live" => w[k + 1] = Call("live", LiveOp(t), "base")
      /\ m = "twin" => w[k + 1] = Call("twin", t.op, "base")
  BY <1>4, <1>5, PlanRoles, Zenon
<1>8. c.role = IF d = k THEN IF m = "record" THEN "save" ELSE "answer"
               ELSE IF d = k + 1 /\ m \in {"live", "twin"} THEN "base"
               ELSE IF d < k \/ m = "record" THEN "setup" ELSE "teardown"
  <2>1. c.role = RoleAt(m, t, d)
    BY <1>3, <1>5, <1>6
  <2> QED
    BY <1>3, <1>4, <2>1 DEF RoleAt
<1>9. /\ c.role = "answer" <=> m # "record" /\ d = k
      /\ c.role = "save" <=> m = "record" /\ d = k
      /\ c.role = "base" <=> m \in {"live", "twin"} /\ d = k + 1
  BY <1>8
<1>10. c.role = "answer" => c.side = "twin" /\ c.op = t.op
  BY <1>6, <1>7, <1>9, SidesOfCall
<1>11. c.role = "save" => c.side = "live" /\ c.op = t.op
  BY <1>6, <1>7, <1>9, SidesOfCall
<1>12. c.role = "base" /\ m = "live" => c.side = "live" /\ c.op = LiveOp(t)
  BY <1>6, <1>7, <1>9, SidesOfCall
<1>13. c.role = "base" /\ m = "twin" => c.side = "twin" /\ c.op = t.op
  BY <1>6, <1>7, <1>9, SidesOfCall
<1> QED
  BY <1>1, <1>2, <1>3, <1>4, <1>5, <1>6, <1>9, <1>10, <1>11, <1>12, <1>13, Zenon

\* What Execute keeps of the response.
LEMMA ExecuteKeeps ==
  ASSUME Core, Execute
  PROVE  LET c == Whole[Done + 1]
             r == Response(drift, c.side, c.op, IF c.side = "twin" THEN twin ELSE live)
         IN /\ answer' = IF c.role = "answer" THEN r ELSE answer
            /\ base' = IF c.role = "base" THEN <<r>> ELSE base
            /\ fixtures' = IF c.role # "save" THEN fixtures ELSE Saved(Test.id, r)
            /\ twin' = IF c.side = "twin" THEN After("twin", c.op, twin) ELSE twin
<1>1. Head(plan) = Whole[Done + 1]
  BY ExecuteStep
<1> QED
  BY <1>1, Zenon DEF Execute, Effect

\* The runner holds what the two sides answered to the test's own operation.
LEMMA AnsweredNext ==
  ASSUME Core, Core', TidySuite => Shelved, Answered, [SessionNext]_sessionVars
  PROVE  Answered'
<1>1. drift' = drift /\ (throws' = 0 => throws = 0)
  BY ThrowsGrow
<1>2. ASSUME current' = <<>> PROVE Answered'
  BY <1>2 DEF Answered
<1>3. ASSUME NEW m \in {"twin", "live", "offline", "record"}, Begin(m) PROVE Answered'
  BY <1>2, <1>3 DEF Begin, Core, Queue
<1>4. ASSUME NextTest, current' # <<>> PROVE Answered'
  <2>1. Done' = 0 /\ Test' = Head(todo) /\ mode' = mode /\ mode \in Modes /\ Head(todo) \in Tests
    BY <1>4, TestBegins DEF NextTest
  <2>2. PICK k \in Nat : k = AnswerAt(mode', Test') /\ k >= 1
    BY <2>1, Places
  <2>3. ~(k <= 0) /\ ~(k < 0) /\ ~(k = 0)
    BY <2>2
  <2>4. AnswerAt(mode, Test)' = k
    BY <2>2 DEF AnswerAt
  <2> QED
    BY <2>1, <2>3, <2>4 DEF Answered
<1>5. CASE Execute
  <2>1. /\ current # <<>> /\ mode' = mode /\ Test' = Test /\ Done' = Done + 1 /\ Done \in Nat
        /\ mode \in Modes /\ Test \in Tests
    BY <1>5, ExecuteStep, UnderWay
  <2>2. PICK k \in Nat : k = AnswerAt(mode, Test)
    BY <2>1, Places
  <2>3. AnswerAt(mode, Test)' = k
    BY <2>1, <2>2 DEF AnswerAt
  <2>4. PICK d \in Nat : d = Done
    BY <2>1
  <2>5. PICK c : c = Whole[d + 1]
    OBVIOUS
  <2>6. /\ c.role = "answer" <=> mode # "record" /\ d + 1 = k
        /\ c.role = "base" <=> mode \in {"live", "twin"} /\ d + 1 = k + 1
        /\ c.role = "answer" => c.side = "twin" /\ c.op = Test.op
        /\ c.role = "base" /\ mode = "live" => c.side = "live" /\ c.op = LiveOp(Test)
        /\ c.role = "base" /\ mode = "twin" => c.side = "twin" /\ c.op = Test.op
    BY <1>5, <2>2, <2>4, <2>5, CalledFor, Zenon
  <2> DEFINE r == Response(drift, c.side, c.op, IF c.side = "twin" THEN twin ELSE live)
  <2>7. /\ answer' = IF c.role = "answer" THEN r ELSE answer
        /\ base' = IF c.role = "base" THEN <<r>> ELSE base
        /\ twin' = IF c.side = "twin" THEN After("twin", c.op, twin) ELSE twin
    BY <1>5, <2>4, <2>5, ExecuteKeeps, Zenon
  <2>8. c.side = "twin" /\ c.op = Test.op => r = Response(drift, "twin", Test.op, twin)
    OBVIOUS
  <2>9. c.side = "live" /\ c.op = LiveOp(Test) => r = Response(drift, "live", LiveOp(Test), live)
    OBVIOUS
  <2> HIDE DEF r
  <2>10. twin \in Targets /\ live \in Targets
    BY DEF Core, Steps
  <2>11. ASSUME mode # "record", k <= d + 1 PROVE AnswerSeen'
    <3>1. CASE k = d + 1
      <4>1. answer' = Response(drift, "twin", Test.op, twin)
        BY <2>6, <2>7, <2>8, <2>11, <3>1
      <4>2. TidySuite /\ throws = 0 => DOMAIN twin.things = Left("twin", Test.setup, Len(Test.setup))
        BY <2>1, <2>2, <2>4, <2>11, <3>1, SetUp
      <4>3. Seen("twin", Test.op, Test.setup, Response(drift, "twin", Test.op, twin))
        BY <2>10, <4>2, SeenNow
      <4>4. PICK x, o, s : x = answer' /\ o = Test.op /\ s = Test.setup
        OBVIOUS
      <4>5. Seen("twin", o, s, x)
        BY <4>1, <4>3, <4>4, Zenon
      <4>6. Seen("twin", o, s, x)'
        BY <1>1, <4>5, SeenStays
      <4>7. x = answer' /\ o = Test'.op /\ s = Test'.setup
        BY <2>1, <4>4
      <4> QED
        BY <4>6, <4>7, Zenon DEF AnswerSeen
    <3>2. CASE k <= d
      <4>1. answer' = answer
        BY <2>6, <2>7, <3>2
      <4>2. AnswerSeen
        BY <2>1, <2>2, <2>4, <2>11, <3>2 DEF Answered
      <4>3. PICK x, o, s : x = answer /\ o = Test.op /\ s = Test.setup
        OBVIOUS
      <4>4. Seen("twin", o, s, x)
        BY <4>2, <4>3, Zenon DEF AnswerSeen
      <4>5. Seen("twin", o, s, x)'
        BY <1>1, <4>4, SeenStays
      <4>6. x = answer' /\ o = Test'.op /\ s = Test'.setup
        BY <2>1, <4>1, <4>3
      <4> QED
        BY <4>5, <4>6, Zenon DEF AnswerSeen
    <3> QED
      BY <2>11, <3>1, <3>2
  <2>12. ASSUME mode = "live", k < d + 1 PROVE BaseSeen'
    <3>1. PICK x, o, s : base' = <<x>> /\ o = LiveOp(Test) /\ s = Test.setup /\ Seen("live", o, s, x)
      <4>1. CASE k = d
        <5>1. base' = <<Response(drift, "live", LiveOp(Test), live)>>
          BY <2>6, <2>7, <2>9, <2>12, <4>1
        <5>2. TidySuite /\ throws = 0 => DOMAIN live.things = Left("live", Test.setup, Len(Test.setup))
          BY <2>1, <2>2, <2>4, <2>12, <4>1, SetUp
        <5>3. Seen("live", LiveOp(Test), Test.setup, Response(drift, "live", LiveOp(Test), live))
          BY <2>10, <5>2, SeenNow
        <5> QED
          BY <5>1, <5>3, Zenon
      <4>2. CASE k < d
        <5>1. base' = base
          BY <2>6, <2>7, <4>2
        <5>2. BaseSeen
          BY <2>1, <2>2, <2>4, <2>12, <4>2 DEF Answered
        <5> QED
          BY <5>1, <5>2, Zenon DEF BaseSeen
      <4> QED
        BY <2>12, <4>1, <4>2
    <3>2. Seen("live", o, s, x)'
      BY <1>1, <3>1, SeenStays
    <3>3. o = LiveOp(Test)' /\ s = Test'.setup
      BY <2>1, <3>1 DEF LiveOp
    <3> QED
      BY <3>1, <3>2, <3>3, Zenon DEF BaseSeen
  <2>13. ASSUME mode = "twin", Test.op.kind = "list", k = d + 1
         PROVE  answer' = Response(drift, "twin", Test.op, twin) /\ twin' = twin
    <3>1. answer' = Response(drift, "twin", Test.op, twin)
      BY <2>6, <2>7, <2>8, <2>13
    <3>2. Test.op \in Operations
      BY <2>1, TestFields
    <3>3. After("twin", Test.op, twin) = twin
      BY <2>10, <2>13, <3>2, AfterTarget
    <3>4. twin' = twin
      BY <2>6, <2>7, <2>13, <3>3
    <3> QED
      BY <3>1, <3>4
  <2>14. ASSUME mode = "twin", Test.op.kind = "list", k < d + 1
         PROVE  base' = <<answer'>>
    <3>1. answer' = answer
      BY <2>6, <2>7, <2>14
    <3>2. CASE k = d
      <4>1. base' = <<Response(drift, "twin", Test.op, twin)>>
        BY <2>6, <2>7, <2>8, <2>14, <3>2
      <4>2. answer = Response(drift, "twin", Test.op, twin)
        BY <2>1, <2>2, <2>4, <2>14, <3>2 DEF Answered
      <4> QED
        BY <3>1, <4>1, <4>2
    <3>3. CASE k < d
      <4>1. base' = base
        BY <2>6, <2>7, <3>3
      <4>2. base = <<answer>>
        BY <2>1, <2>2, <2>4, <2>14, <3>3 DEF Answered
      <4> QED
        BY <3>1, <4>1, <4>2
    <3> QED
      BY <2>14, <3>2, <3>3
  <2>15. ASSUME mode = "twin", Test.op.kind = "list", k = d + 1
         PROVE  answer' = Response(drift, "twin", Test.op, twin)'
    <3>1. drift' = drift /\ twin' = twin /\ Test' = Test
      BY <1>1, <2>1, <2>13, <2>15
    <3>2. Response(drift, "twin", Test.op, twin)' = Response(drift', "twin", Test'.op, twin')
      OBVIOUS
    <3>3. answer' = Response(drift, "twin", Test.op, twin)
      BY <2>13, <2>15
    <3> QED
      BY <3>1, <3>2, <3>3, Zenon
  <2>16. Done' = d + 1 /\ mode' = mode /\ Test'.op.kind = Test.op.kind
    BY <2>1, <2>4
  <2> QED
    BY <2>3, <2>11, <2>12, <2>14, <2>15, <2>16, Zenon DEF Answered
<1>6. CASE Compare
  <2>1. /\ mode' = mode /\ Test' = Test /\ Done' = Done + 1 /\ Done \in Nat
        /\ mode \in Running /\ Test \in Tests /\ Done + 1 = JudgeAt(mode, Test) /\ current # <<>>
    BY <1>6, CompareStep, UnderWay
  <2>2. answer' = answer /\ base' = base
    BY <1>6 DEF Compare
  <2>3. PICK k \in Nat : k = AnswerAt(mode, Test)
    BY <2>1, Places DEF Running, Modes
  <2>4. AnswerAt(mode, Test)' = k
    BY <2>1, <2>3 DEF AnswerAt
  <2>5. /\ mode = "offline" => Done' = k + 1 /\ Done = k
        /\ mode \in {"live", "twin"} => Done' = k + 2 /\ Done = k + 1
    BY <2>1, <2>3, Places DEF Running, Modes
  <2>6. AnswerSeen
    BY <2>1, <2>3, <2>5 DEF Answered, Running
  <2>7. mode = "live" => BaseSeen
    BY <2>1, <2>3, <2>5 DEF Answered
  <2>8. mode = "twin" /\ Test.op.kind = "list" => base' = <<answer'>>
    BY <2>1, <2>2, <2>3, <2>5 DEF Answered
  <2>9. AnswerSeen' /\ (mode' = "live" => BaseSeen')
    BY <1>1, <2>1, <2>2, <2>6, <2>7, BothSeenStay
  <2>10. mode' = "twin" => Done' # k
    BY <2>1, <2>5
  <2>11. mode' = "twin" /\ Test'.op.kind = "list" => base' = <<answer'>>
    BY <2>1, <2>8
  <2> QED
    BY <2>4, <2>9, <2>10, <2>11, Zenon DEF Answered
<1>7. CASE EndTest
  BY <1>2, <1>7 DEF EndTest
<1>8. CASE Throw
  BY <1>2, <1>8 DEF Throw
<1>9. CASE End
  BY <1>2, <1>9 DEF End, testVars
<1>10. CASE UNCHANGED sessionVars
  <2>1. mode' = mode /\ current' = current /\ Test' = Test /\ Done' = Done /\ answer' = answer /\ base' = base
        /\ twin' = twin
    BY <1>10 DEF sessionVars, testVars, Test, Done, Whole
  <2>2. AnswerAt(mode, Test)' = AnswerAt(mode, Test)
    BY <2>1 DEF AnswerAt
  <2>3. (AnswerSeen => AnswerSeen') /\ (BaseSeen => BaseSeen')
    BY <1>1, <2>1, BothSeenStay
  <2>4. Response(drift, "twin", Test.op, twin)' = Response(drift, "twin", Test.op, twin)
    <3>1. Response(drift, "twin", Test.op, twin)' = Response(drift', "twin", Test'.op, twin')
      OBVIOUS
    <3> QED
      BY <1>1, <2>1, <3>1, Zenon
  <2> QED
    BY <2>1, <2>2, <2>3, <2>4, Zenon DEF Answered
<1> QED
  BY <1>2, <1>3, <1>4, <1>5, <1>6, <1>7, <1>8, <1>9, <1>10 DEF SessionNext

LEMMA RecordedStays ==
  ASSUME Recorded, drift' = drift, throws' = 0 => throws = 0, fixtures' = fixtures
  PROVE  Recorded'
<1>1. ASSUME NEW f \in DOMAIN fixtures
      PROVE  \E i \in DOMAIN Suite :
               f = SafeName[Suite[i].id] /\ Seen("live", Suite[i].op, Suite[i].setup, fixtures[f])'
  <2>1. PICK i \in DOMAIN Suite :
          f = SafeName[Suite[i].id] /\ Seen("live", Suite[i].op, Suite[i].setup, fixtures[f])
    BY DEF Recorded
  <2>2. PICK x : x = fixtures[f] /\ x = fixtures'[f]
    OBVIOUS
  <2>3. PICK o, s : o = Suite[i].op /\ s = Suite[i].setup
    OBVIOUS
  <2>4. Seen("live", o, s, x)
    BY <2>1, <2>2, <2>3, Zenon
  <2>5. Seen("live", o, s, x)'
    BY <2>4, SeenStays
  <2>6. Seen("live", Suite[i].op, Suite[i].setup, fixtures[f])'
    BY <2>2, <2>3, <2>5, Zenon
  <2> QED
    BY <2>1, <2>6
<1> QED
  BY <1>1 DEF Recorded

\* A recording saves what the service answered, and nothing else changes it.
LEMMA RecordedNext ==
  ASSUME Core, TidySuite => Shelved, Recorded, [SessionNext]_sessionVars
  PROVE  Recorded'
<1>1. drift' = drift /\ (throws' = 0 => throws = 0)
  BY ThrowsGrow
<1>2. ASSUME fixtures' = fixtures PROVE Recorded'
  BY <1>1, <1>2, RecordedStays
<1>3. CASE Execute
  <2>1. PICK c : c = Whole[Done + 1]
    OBVIOUS
  <2> DEFINE r == Response(drift, c.side, c.op, IF c.side = "twin" THEN twin ELSE live)
  <2>2. fixtures' = IF c.role # "save" THEN fixtures ELSE Saved(Test.id, r)
    BY <1>3, <2>1, ExecuteKeeps, Zenon
  <2>3. CASE c.role # "save"
    BY <1>2, <2>2, <2>3
  <2>4. CASE c.role = "save"
    <3>1. mode = "record" /\ Done + 1 = AnswerAt(mode, Test) /\ c.side = "live" /\ c.op = Test.op
      BY <1>3, <2>1, <2>4, CalledFor
    <3>2. r = Response(drift, "live", Test.op, live)
      BY <3>1
    <3> HIDE DEF r
    <3>3. current # <<>> /\ Started \in DOMAIN Suite /\ Test = Suite[Started]
      BY <1>3, ExecuteStep, UnderWay, SuiteFacts
    <3>4. live \in Targets
      BY DEF Core, Steps
    <3>5. TidySuite /\ throws = 0 => DOMAIN live.things = Left("live", Test.setup, Len(Test.setup))
      BY <3>1, <3>3, SetUp
    <3>6. Seen("live", Test.op, Test.setup, Response(drift, "live", Test.op, live))
      BY <3>4, <3>5, SeenNow
    <3>7. PICK x, n, o, s : x = r /\ n = SafeName[Test.id] /\ o = Test.op /\ s = Test.setup
      OBVIOUS
    <3>8. Seen("live", o, s, x)
      BY <3>2, <3>6, <3>7, Zenon
    <3>9. Seen("live", o, s, x)'
      BY <1>1, <3>8, SeenStays
    <3>10. fixtures' = [f \in DOMAIN fixtures \cup {n} |-> IF f = n THEN x ELSE fixtures[f]]
      BY <2>2, <2>4, <3>7 DEF Saved, PathFor
    <3>11. ASSUME NEW f \in DOMAIN fixtures'
           PROVE  \E i \in DOMAIN Suite :
                    f = SafeName[Suite[i].id] /\ Seen("live", Suite[i].op, Suite[i].setup, fixtures[f])'
      <4>1. CASE f = n
        <5>1. fixtures'[f] = x
          BY <3>10, <3>11, <4>1
        <5>2. PICK i \in DOMAIN Suite : i = Started
          BY <3>3
        <5>3. f = SafeName[Suite[i].id] /\ o = Suite[i].op /\ s = Suite[i].setup
          BY <3>3, <3>7, <4>1, <5>2
        <5>4. Seen("live", Suite[i].op, Suite[i].setup, fixtures[f])'
          BY <3>9, <5>1, <5>3, Zenon
        <5> QED
          BY <5>3, <5>4
      <4>2. CASE f # n
        <5>1. f \in DOMAIN fixtures /\ fixtures'[f] = fixtures[f]
          BY <3>10, <3>11, <4>2
        <5>2. PICK i \in DOMAIN Suite :
                f = SafeName[Suite[i].id] /\ Seen("live", Suite[i].op, Suite[i].setup, fixtures[f])
          BY <5>1 DEF Recorded
        <5>3. PICK y, u, v : y = fixtures[f] /\ u = Suite[i].op /\ v = Suite[i].setup
          OBVIOUS
        <5>4. Seen("live", u, v, y)
          BY <5>2, <5>3, Zenon
        <5>5. Seen("live", u, v, y)'
          BY <1>1, <5>4, SeenStays
        <5>6. y = fixtures'[f]
          BY <5>1, <5>3
        <5>7. Seen("live", Suite[i].op, Suite[i].setup, fixtures[f])'
          BY <5>3, <5>5, <5>6, Zenon
        <5> QED
          BY <5>2, <5>7
      <4> QED
        BY <4>1, <4>2
    <3> QED
      BY <3>11, Zenon DEF Recorded
  <2> QED
    BY <2>3, <2>4
<1>4. ASSUME NEW m \in {"twin", "live", "offline", "record"}, Begin(m) PROVE Recorded'
  BY <1>2, <1>4 DEF Begin
<1>5. CASE NextTest
  BY <1>2, <1>5 DEF NextTest
<1>6. CASE Compare
  BY <1>2, <1>6 DEF Compare
<1>7. CASE EndTest
  BY <1>2, <1>7 DEF EndTest
<1>8. CASE Throw
  BY <1>2, <1>8 DEF Throw
<1>9. CASE End
  BY <1>2, <1>9 DEF End
<1>10. CASE UNCHANGED sessionVars
  BY <1>2, <1>10 DEF sessionVars
<1> QED
  BY <1>3, <1>4, <1>5, <1>6, <1>7, <1>8, <1>9, <1>10 DEF SessionNext

\* How the results change: not, or they begin anew, or by a verdict.
LEMMA ResultsChange ==
  ASSUME Core, Room, Reported, [SessionNext]_sessionVars, Session' \in Running
  PROVE  \/ results' = <<>>
         \/ results' = results /\ Session' = Session
         \/ /\ Throw /\ results' = Verdict(FALSE) /\ Session' = Session
            /\ Test \in Tests /\ Test.id \in Ids
         \/ /\ Compare /\ results' = Judged /\ Session' = Session /\ Session = mode
            /\ Test \in Tests /\ Test.id \in Ids
<1>1. mode # "idle" => Session = mode
  BY DEF Session
<1>2. mode' # "idle" => Session' = mode'
  BY DEF Session
<1>3. ASSUME NEW m \in {"twin", "live", "offline", "record"}, Begin(m) PROVE results' = <<>>
  BY <1>3 DEF Begin, EmptyResults
<1>4. ASSUME NextTest PROVE results' = results /\ Session' = Session
  BY <1>1, <1>2, <1>4 DEF NextTest
<1>5. ASSUME Execute PROVE results' = results /\ Session' = Session
  BY <1>1, <1>2, <1>5, ExecuteStep DEF Execute, Session
<1>6. ASSUME Compare
      PROVE  results' = Judged /\ Session' = Session /\ Session = mode /\ Test \in Tests /\ Test.id \in Ids
  <2>1. mode' = mode /\ mode \in Running /\ current # <<>> /\ results' = Judged
    BY <1>6, CompareStep DEF Compare
  <2>2. Test \in Tests /\ Test.id \in Ids
    BY <2>1, UnderWay, SuiteFacts
  <2> QED
    BY <1>1, <1>2, <2>1, <2>2 DEF Running
<1>7. ASSUME EndTest PROVE results' = results /\ Session' = Session
  BY <1>7 DEF EndTest, Session
<1>8. ASSUME Throw
      PROVE  /\ results' = Verdict(FALSE) /\ Session' = Session
             /\ Test \in Tests /\ Test.id \in Ids
  <2>1. mode' = mode /\ mode \in Modes /\ Test \in Tests /\ Test.id \in Ids
        /\ (mode # "record" => results' = Verdict(FALSE))
    BY <1>8, ThrowStep
  <2>2. Session = mode /\ Session' = mode
    BY <1>1, <1>2, <2>1 DEF Modes
  <2> QED
    BY <2>1, <2>2 DEF Running
<1>9. ASSUME End PROVE results' = results /\ Session' = Session
  <2>1. mode # "idle" /\ mode' = "idle" /\ results' = results
        /\ report' = IF mode = "record" THEN NoReport ELSE [mode |-> mode, results |-> results]
    BY <1>9 DEF End, testVars
  <2>2. Session' = report'.mode
    BY <2>1 DEF Session
  <2>3. CASE mode = "record"
    BY <2>1, <2>2, <2>3 DEF NoReport, Running
  <2>4. CASE mode # "record"
    BY <1>1, <2>1, <2>2, <2>4
  <2> QED
    BY <2>3, <2>4
<1>10. ASSUME UNCHANGED sessionVars PROVE results' = results /\ Session' = Session
  BY <1>10 DEF sessionVars, testVars, Session
<1> QED
  BY <1>3, <1>4, <1>5, <1>6, <1>7, <1>8, <1>9, <1>10 DEF SessionNext

\* What the verdict of a test is based on.
LEMMA FoundSeen ==
  ASSUME Core, Compare, Answered, Recorded
  PROVE  /\ current # <<>> /\ Test \in Tests /\ Started \in DOMAIN Suite /\ Test = Suite[Started] /\ mode \in Running
         /\ AnswerSeen
         /\ mode = "live" => \E r : Found = <<r>> /\ Seen("live", LiveOp(Test), Test.setup, r)
         /\ mode = "offline" /\ Found = <<>> => PathFor(Test.id) \notin DOMAIN fixtures
         /\ mode = "offline" /\ Found # <<>> =>
              \E r : \E i \in DOMAIN Suite :
                Found = <<r>> /\ SafeName[Suite[i].id] = SafeName[Test.id]
                  /\ Seen("live", Suite[i].op, Suite[i].setup, r)
         /\ mode = "twin" /\ Test.op.kind = "list" => Found = <<answer>>
<1>1. /\ current # <<>> /\ Test \in Tests /\ Started \in DOMAIN Suite /\ Test = Suite[Started]
      /\ mode \in Running /\ Done + 1 = JudgeAt(mode, Test) /\ Done \in Nat
  BY CompareStep, UnderWay, SuiteFacts
<1>2. PICK k \in Nat : k = AnswerAt(mode, Test)
  BY <1>1, Places DEF Running, Modes
<1>3. /\ mode = "offline" => Done = k
      /\ mode \in {"live", "twin"} => Done = k + 1
  BY <1>1, <1>2, Places DEF Running, Modes
<1>4. AnswerSeen
  BY <1>1, <1>2, <1>3 DEF Answered, Running
<1>5. mode = "live" => \E r : Found = <<r>> /\ Seen("live", LiveOp(Test), Test.setup, r)
  <2>1. mode = "live" => Found = base
    BY DEF Found
  <2>2. mode = "live" => BaseSeen
    BY <1>1, <1>2, <1>3 DEF Answered
  <2> QED
    BY <2>1, <2>2, Zenon DEF BaseSeen
<1>6. mode = "offline" => Found = IF SafeName[Test.id] \in DOMAIN fixtures THEN <<fixtures[SafeName[Test.id]]>> ELSE <<>>
  BY DEF Found, Loaded, PathFor
<1>7. mode = "offline" /\ Found = <<>> => PathFor(Test.id) \notin DOMAIN fixtures
  BY <1>6 DEF PathFor
<1>8. ASSUME mode = "offline", Found # <<>>
      PROVE  \E r : \E i \in DOMAIN Suite :
                Found = <<r>> /\ SafeName[Suite[i].id] = SafeName[Test.id]
                  /\ Seen("live", Suite[i].op, Suite[i].setup, r)
  <2>1. PICK f \in DOMAIN fixtures : f = SafeName[Test.id] /\ Found = <<fixtures[f]>>
    BY <1>6, <1>8
  <2>2. PICK i \in DOMAIN Suite : f = SafeName[Suite[i].id] /\ Seen("live", Suite[i].op, Suite[i].setup, fixtures[f])
    BY DEF Recorded
  <2> QED
    BY <2>1, <2>2, Zenon
<1>9. mode = "twin" /\ Test.op.kind = "list" => Found = <<answer>>
  <2>1. mode = "twin" => Found = base
    BY DEF Found
  <2> QED
    BY <1>1, <1>2, <1>3, <2>1 DEF Answered
<1> QED
  BY <1>1, <1>4, <1>5, <1>7, <1>8, <1>9

\* A drifting list has differences.
LEMMA DriftShows ==
  ASSUME Discerning(Targets), Core, Compare, Answered, Recorded,
         mode \in {"live", "offline"}, Found # <<>>, Test.op.kind = "list", drift \notin Unseen(mode, Test)
  PROVE  Differences(Found[1]) # {}
<1>1. PICK i \in DOMAIN Suite : i = Started /\ Test = Suite[i]
  BY FoundSeen
<1>2. PICK a \in Targets : answer = Response(drift, "twin", Test.op, a)
  BY FoundSeen DEF AnswerSeen, Seen
<1>3. PICK op \in Operations, b \in Targets : Found[1] = Response(drift, "live", op, b)
  <2>1. CASE mode = "live"
    <3>1. PICK r : Found = <<r>> /\ Seen("live", LiveOp(Test), Test.setup, r)
      BY <2>1, FoundSeen
    <3>2. PICK b \in Targets : r = Response(drift, "live", LiveOp(Test), b)
      BY <3>1 DEF Seen
    <3>3. LiveOp(Test) \in Operations
      BY FoundSeen, TestFields
    <3>4. Found[1] = r
      BY <3>1
    <3> QED
      BY <3>2, <3>3, <3>4, Zenon
  <2>2. CASE mode = "offline"
    <3>0. PICK r : \E j \in DOMAIN Suite : Found = <<r>> /\ Seen("live", Suite[j].op, Suite[j].setup, r)
      BY <2>2, FoundSeen
    <3>1. PICK j \in DOMAIN Suite : Found = <<r>> /\ Seen("live", Suite[j].op, Suite[j].setup, r)
      BY <3>0
    <3>2. PICK b \in Targets : r = Response(drift, "live", Suite[j].op, b)
      BY <3>1 DEF Seen
    <3>3. Suite[j].op \in Operations
      BY SuiteFacts, TestFields
    <3>4. Found[1] = r
      BY <3>1
    <3> QED
      BY <3>2, <3>3, <3>4, Zenon
  <2> QED
    BY <2>1, <2>2
<1>4. drift \in Drifts \ Unseen(mode, Suite[i])
  BY <1>1 DEF Core, Steps
<1>5. Compared(mode, Suite[i], Response(drift, "twin", Suite[i].op, a), Response(drift, "live", op, b)) # {}
  BY <1>1, <1>4, Zenon DEF Discerning
<1>6. Differences(Found[1]) = Compared(mode, Test, answer, Found[1])
  BY DEF Differences
<1> QED
  BY <1>1, <1>2, <1>3, <1>5, <1>6, Zenon

\* The results that a verdict adds to.
LEMMA NewResult ==
  ASSUME Room, Test \in Tests, Test.id \in Ids, NEW b \in BOOLEAN, results' = Verdict(b), NEW j \in DOMAIN results'
  PROVE  \/ j \in DOMAIN results /\ results'[j] = results[j]
         \/ results'[j].test = Test.id /\ results'[j].passed = b
<1>1. results \in Seq(Result)
  BY DEF Room, Result
<1>2. j \in DOMAIN results \cup {Len(results) + 1}
  BY <1>1, VerdictAdds
<1>3. CASE j \in DOMAIN results
  BY <1>1, <1>3, VerdictAdds
<1>4. CASE j = Len(results) + 1
  <2>1. results'[j] = [test |-> Test.id, passed |-> b]
    BY <1>1, <1>4, VerdictAdds
  <2> QED
    BY <2>1
<1> QED
  BY <1>2, <1>3, <1>4

\* A verdict over a list that passes is over one that does not drift.
LEMMA EarnedNext ==
  ASSUME Discerning(Targets), Core, Room, Reported, Answered, Recorded, Earned, [SessionNext]_sessionVars
  PROVE  Earned'
<1>1. SUFFICES ASSUME Session' \in {"live", "offline"}, NEW j \in DOMAIN results', results'[j].passed,
                      NEW i \in DOMAIN Suite, results'[j].test = Suite[i].id, Suite[i].op.kind = "list"
               PROVE  drift' \in Unseen(Session', Suite[i])
  <2>1. \A i \in DOMAIN Suite : Unseen(Session, Suite[i])' = Unseen(Session', Suite[i])
    BY DEF Unseen
  <2> QED
    BY <2>1 DEF Earned
<1>2. drift' = drift
  BY ThrowsGrow
<1>3. Session' \in Running
  BY <1>1 DEF Running
<1>4. ASSUME Session' = Session, j \in DOMAIN results, results'[j] = results[j]
      PROVE  drift' \in Unseen(Session', Suite[i])
  BY <1>1, <1>2, <1>4 DEF Earned
<1>5. CASE results' = <<>>
  BY <1>1, <1>5
<1>6. CASE results' = results /\ Session' = Session
  BY <1>4, <1>6
<1>7. CASE results' = Verdict(FALSE) /\ Session' = Session /\ Test \in Tests /\ Test.id \in Ids
  <2>1. j \in DOMAIN results /\ results'[j] = results[j]
    BY <1>1, <1>7, NewResult
  <2> QED
    BY <1>4, <1>7, <2>1
<1>8. CASE Compare /\ results' = Judged /\ Session' = Session /\ Session = mode /\ Test \in Tests /\ Test.id \in Ids
  <2>1. PICK b \in BOOLEAN : results' = Verdict(b) /\ b = (Found # <<>> /\ Differences(Found[1]) = {})
    BY <1>8 DEF Judged
  <2>2. CASE j \in DOMAIN results /\ results'[j] = results[j]
    BY <1>4, <1>8, <2>2
  <2>3. CASE results'[j].test = Test.id /\ results'[j].passed = b
    <3>1. Suite[i] = Test
      BY <1>1, <2>3, <1>8, FoundSeen, SuiteFacts
    <3>2. Found # <<>> /\ Differences(Found[1]) = {}
      BY <1>1, <2>1, <2>3
    <3>3. mode \in {"live", "offline"} /\ Test.op.kind = "list"
      BY <1>1, <1>8, <3>1
    <3>4. drift \in Unseen(mode, Test)
      BY <1>8, <3>2, <3>3, DriftShows
    <3> QED
      BY <1>2, <1>8, <3>1, <3>4
  <2> QED
    BY <1>8, <2>1, <2>2, <2>3, NewResult
<1> QED
  BY <1>3, <1>5, <1>6, <1>7, <1>8, ResultsChange

\* Only a recording changes the fixtures.
LEMMA FixturesStay ==
  ASSUME Core, [SessionNext]_sessionVars, Session' \in Running
  PROVE  fixtures' = fixtures
<1>1. ASSUME NEW m \in {"twin", "live", "offline", "record"}, Begin(m) PROVE fixtures' = fixtures
  BY <1>1 DEF Begin
<1>2. CASE NextTest
  BY <1>2 DEF NextTest
<1>3. CASE Execute
  <2>1. mode' = mode /\ mode \in Modes
    BY <1>3, ExecuteStep, UnderWay
  <2>2. mode # "record"
    BY <2>1 DEF Session, Running, Modes
  <2> QED
    BY <1>3, <2>2, CalledFor, ExecuteKeeps
<1>4. CASE Compare
  BY <1>4 DEF Compare
<1>5. CASE EndTest
  BY <1>5 DEF EndTest
<1>6. CASE Throw
  BY <1>6 DEF Throw
<1>7. CASE End
  BY <1>7 DEF End
<1>8. CASE UNCHANGED sessionVars
  BY <1>8 DEF sessionVars
<1> QED
  BY <1>1, <1>2, <1>3, <1>4, <1>5, <1>6, <1>7, <1>8 DEF SessionNext

\* What sets a test up leaves the same on both sides.
LEMMA SharedLeft ==
  ASSUME SharedSetup, NEW i \in DOMAIN Suite
  PROVE  LET s == Suite[i].setup IN Left("twin", s, Len(s)) = Left("live", s, Len(s))
<1>1. PICK s \in Seq(Operations) : s = Suite[i].setup
  BY SuiteFacts, TestFields
<1>2. \A k \in 1 .. Len(s) : s[k].schema = "both"
  BY <1>1 DEF SharedSetup
<1>3. Left("twin", s, Len(s)) = Left("live", s, Len(s))
  BY <1>2 DEF Left, Makes, Removes
<1> QED
  BY <1>1, <1>3

\* Of a faithful twin, the verdict of a test that could be compared is green.
LEMMA FaithfulPasses ==
  ASSUME TidySuite, SharedSetup, Hiding(Targets), PathsDiffer, Core, Compare, Answered, Recorded,
         drift = "none", throws = 0
  PROVE  \/ Found # <<>> /\ Differences(Found[1]) = {}
         \/ mode = "offline" /\ (PathFor(Test.id) \notin DOMAIN fixtures \/ Test.op.schema # "both")
         \/ mode = "twin" /\ Test.op.kind # "list"
<1>1. PICK i \in DOMAIN Suite : i = Started /\ Test = Suite[i]
  BY FoundSeen
<1>2. PICK s : s = Suite[i].setup
  OBVIOUS
<1>3. PICK a \in Targets : answer = Response("none", "twin", Test.op, a) /\ DOMAIN a.things = Left("twin", s, Len(s))
  BY <1>1, <1>2, FoundSeen DEF AnswerSeen, Seen
<1>4. Left("twin", s, Len(s)) = Left("live", s, Len(s))
  BY <1>2, SharedLeft
<1>5. mode \in Running
  BY FoundSeen
<1>6. \A r : Found = <<r>> => Found # <<>> /\ Differences(Found[1]) = Compared(mode, Test, answer, r)
  BY DEF Differences
<1>7. CASE mode = "live"
  <2>1. PICK r : Found = <<r>> /\ Seen("live", LiveOp(Test), Test.setup, r)
    BY <1>7, FoundSeen
  <2>2. PICK b \in Targets : r = Response("none", "live", LiveOp(Test), b) /\ DOMAIN b.things = Left("live", s, Len(s))
    BY <1>1, <1>2, <2>1 DEF Seen
  <2>3. ~Suite[i].liveSkip
    BY <1>1, <1>7, FoundSeen DEF Core, Queue
  <2>4. DOMAIN a.things = DOMAIN b.things
    BY <1>3, <1>4, <2>2
  <2>5. Compared("live", Suite[i], Response("none", "twin", Suite[i].op, a), Response("none", "live", LiveOp(Suite[i]), b)) = {}
    BY <2>3, <2>4, Zenon DEF Hiding
  <2>6. Compared(mode, Test, answer, r) = {}
    BY <1>1, <1>3, <1>7, <2>2, <2>5, Zenon
  <2> QED
    BY <1>6, <2>1, <2>6
<1>8. CASE mode = "offline" /\ Found # <<>> /\ Test.op.schema = "both"
  <2>1. PICK r : \E j \in DOMAIN Suite :
                   Found = <<r>> /\ SafeName[Suite[j].id] = SafeName[Test.id]
                     /\ Seen("live", Suite[j].op, Suite[j].setup, r)
    BY <1>8, FoundSeen
  <2>2. PICK j \in DOMAIN Suite :
          Found = <<r>> /\ SafeName[Suite[j].id] = SafeName[Test.id] /\ Seen("live", Suite[j].op, Suite[j].setup, r)
    BY <2>1
  <2>3. j = i
    BY <1>1, <2>2 DEF PathsDiffer, PathFor
  <2>4. PICK b \in Targets : r = Response("none", "live", Suite[i].op, b) /\ DOMAIN b.things = Left("live", s, Len(s))
    BY <1>2, <2>2, <2>3 DEF Seen
  <2>5. DOMAIN a.things = DOMAIN b.things
    BY <1>3, <1>4, <2>4
  <2>6. Suite[i].op.schema = "both"
    BY <1>1, <1>8
  <2>7. Compared("offline", Suite[i], Response("none", "twin", Suite[i].op, a), Response("none", "live", Suite[i].op, b)) = {}
    BY <2>5, <2>6, Zenon DEF Hiding
  <2>8. Compared(mode, Test, answer, r) = {}
    BY <1>1, <1>3, <1>8, <2>4, <2>7, Zenon
  <2> QED
    BY <1>6, <2>2, <2>8
<1>9. CASE mode = "offline" /\ Found = <<>>
  BY <1>9, FoundSeen
<1>10. CASE mode = "twin" /\ Test.op.kind = "list"
  <2>1. Found = <<answer>>
    BY <1>10, FoundSeen
  <2>2. Suite[i].op.kind = "list"
    BY <1>1, <1>10
  <2>3. Compared("twin", Suite[i], Response("none", "twin", Suite[i].op, a), Response("none", "twin", Suite[i].op, a)) = {}
    BY <2>2, Zenon DEF Hiding
  <2>4. Compared(mode, Test, answer, answer) = {}
    BY <1>1, <1>3, <1>10, <2>3, Zenon
  <2> QED
    BY <1>6, <2>1, <2>4
<1> QED
  BY <1>5, <1>7, <1>8, <1>9, <1>10 DEF Running

\* A verdict over a faithful twin is a pass.
LEMMA FairNext ==
  ASSUME TidySuite, SharedSetup, Hiding(Targets), PathsDiffer,
         Core, Room, Reported, Answered, Recorded, Fair, [SessionNext]_sessionVars
  PROVE  Fair'
<1> DEFINE Excused(session, i) ==
             \/ session = "offline" /\ (PathFor(Suite[i].id) \notin DOMAIN fixtures \/ Suite[i].op.schema # "both")
             \/ session = "twin" /\ Suite[i].op.kind # "list"
<1>1. fixtures' = fixtures \/ Session' \notin Running
  BY FixturesStay
<1>2. drift' = drift /\ (throws' = 0 => throws = 0)
  BY ThrowsGrow
<1>3. SUFFICES ASSUME Session' \in Running, drift = "none", throws = 0, throws' = 0, fixtures' = fixtures,
                      NEW j \in DOMAIN results', NEW i \in DOMAIN Suite, results'[j].test = Suite[i].id
               PROVE  results'[j].passed \/ Excused(Session', i)
  BY <1>1, <1>2, Zenon DEF Fair
<1>4. ASSUME Session' = Session, j \in DOMAIN results, results'[j] = results[j]
      PROVE  results'[j].passed \/ Excused(Session', i)
  BY <1>3, <1>4 DEF Fair
<1>5. CASE results' = <<>>
  BY <1>3, <1>5
<1>6. CASE results' = results /\ Session' = Session
  BY <1>4, <1>6
<1>7. ~Throw
  BY <1>3 DEF Throw
<1>8. CASE Compare /\ results' = Judged /\ Session' = Session /\ Session = mode /\ Test \in Tests /\ Test.id \in Ids
  <2>1. PICK b \in BOOLEAN : results' = Verdict(b) /\ b = (Found # <<>> /\ Differences(Found[1]) = {})
    BY <1>8 DEF Judged
  <2>2. CASE j \in DOMAIN results /\ results'[j] = results[j]
    BY <1>4, <1>8, <2>2
  <2>3. CASE results'[j].test = Test.id /\ results'[j].passed = b
    <3>1. Suite[i] = Test
      BY <1>3, <2>3, <1>8, FoundSeen, SuiteFacts
    <3>2. \/ Found # <<>> /\ Differences(Found[1]) = {}
          \/ mode = "offline" /\ (PathFor(Test.id) \notin DOMAIN fixtures \/ Test.op.schema # "both")
          \/ mode = "twin" /\ Test.op.kind # "list"
      BY <1>3, <1>8, FaithfulPasses
    <3> QED
      BY <1>8, <2>1, <2>3, <3>1, <3>2
  <2> QED
    BY <1>8, <2>1, <2>2, <2>3, NewResult
<1> QED
  BY <1>3, <1>5, <1>6, <1>7, <1>8, ResultsChange

-----------------------------------------------------------------------------
(* Theorems                                                                 *)

\* What holds in every session. What the targets keep is only known of a suite
\* that tidies up.
SessionInv == Core /\ Room /\ Reported /\ Tally /\ (TidySuite => Shelved) /\ Recorded /\ Answered

LEMMA SessionInvInit == SessionInit => SessionInv
<1> SUFFICES ASSUME SessionInit PROVE SessionInv
  OBVIOUS
<1>1. Recorded
  BY DEF SessionInit, Recorded
<1>2. Answered
  BY DEF SessionInit, Answered
<1> QED
  BY <1>1, <1>2, CoreInit, RoomInit, TallyInit, ShelvedInit DEF SessionInv

LEMMA SessionInvNext == SessionInv /\ [SessionNext]_sessionVars => SessionInv'
<1> SUFFICES ASSUME SessionInv, [SessionNext]_sessionVars PROVE SessionInv'
  OBVIOUS
<1>1. Core /\ Room /\ Reported /\ Tally /\ (TidySuite => Shelved) /\ Recorded /\ Answered
  BY DEF SessionInv
<1>2. Core'
  BY <1>1, CoreNext
<1>3. Room' /\ Reported' /\ Tally'
  BY <1>1, <1>2, RoomNext, ReportedNext, TallyNext
<1>4. TidySuite => Shelved'
  BY <1>1, <1>2, ShelvedNext
<1>5. Recorded' /\ Answered'
  BY <1>1, <1>2, RecordedNext, AnsweredNext
<1> QED
  BY <1>2, <1>3, <1>4, <1>5 DEF SessionInv

\* SessionInv holds of every session.
LEMMA SessionInvAlways == SessionSpec => []SessionInv
BY SessionInvInit, SessionInvNext, PTL DEF SessionSpec

\* Every variable keeps its type, and no list of results outgrows two for each
\* test (run(), runner.ts).
THEOREM SessionsAreTypeCorrect == SessionSpec => []SessionTypeOK
<1>1. SessionInv => SessionTypeOK
  <2> SUFFICES ASSUME SessionInv PROVE SessionTypeOK
    OBVIOUS
  <2>1. Core /\ Room /\ Recorded
    BY DEF SessionInv
  <2>2. /\ mode \in {"idle", "twin", "live", "offline", "record"} /\ drift \in Drifts
        /\ sessions \in 0 .. MaxSessions /\ throws \in 0 .. MaxThrows
    BY <2>1 DEF Core, Steps, Modes
  <2>3. \A t \in {twin, live} : DOMAIN t.things \subseteq Things /\ t.next \in Nat
    BY <2>1, TargetFields DEF Core, Steps
  <2>4. DOMAIN fixtures \subseteq {SafeName[id] : id \in Ids}
    BY <2>1, SuiteFacts DEF Recorded
  <2>5. Len(todo) <= Len(Suite)
    BY <2>1, StartedBounds
  <2>6. Len(current) <= 1
    <3>1. CASE current = <<>>
      BY <3>1
    <3>2. CASE current # <<>>
      <4>1. current = <<Test>>
        BY <2>1, <3>2, UnderWay
      <4>2. PICK t : current = <<t>>
        BY <4>1
      <4> QED
        BY <4>2
    <3> QED
      BY <3>1, <3>2
  <2>7. results \in Seq(Result)
    BY <2>1 DEF Room, Result
  <2>8. \A i \in DOMAIN results : results[i].test \in Ids /\ results[i].passed \in BOOLEAN
    <3>1. \A i \in DOMAIN results : results[i] \in Result
      BY <2>7
    <3> QED
      BY <3>1 DEF Result
  <2>9. Len(results) <= 2 * Len(Suite)
    <3>1. Len(results) \in Nat
      BY <2>7
    <3>2. Started \in 0 .. Len(Suite) /\ Len(Suite) \in Nat
      BY <2>1, StartedBounds, SuiteFacts
    <3>3. Len(results) <= 2 * Started
      BY <2>1 DEF Room
    <3> QED
      BY <3>1, <3>2, <3>3
  <2> QED
    BY <2>2, <2>3, <2>4, <2>5, <2>6, <2>8, <2>9 DEF SessionTypeOK
<1> QED
  BY <1>1, SessionInvAlways, PTL

\* A session that has reported.
LEMMA ReportIsFinal ==
  ASSUME SessionInv, report # NoReport
  PROVE  /\ mode = "idle" /\ report.mode \in Running /\ report.results = results
         /\ Session = report.mode /\ current = <<>> /\ Started = Len(Suite)
<1>1. mode = "idle" /\ report.mode \in Running /\ report.results = results
  BY DEF SessionInv, Reported
<1>2. todo = <<>> /\ current = <<>>
  BY <1>1 DEF SessionInv, Core, Queue
<1>3. Started = Len(Suite)
  BY <1>2, SuiteFacts DEF Started
<1> QED
  BY <1>1, <1>2, <1>3 DEF Session

LEMMA MaxOfPair ==
  ASSUME NEW a \in Nat, NEW b \in Nat, a <= b
  PROVE  Max({a, b}) = b
BY DEF Max

\* Every test of a session that reports has its verdict; one whose teardown
\* threw has two, and the last is a failure (run(), runner.ts).
THEOREM TestsAreJudged == SessionSpec => []EveryTestJudged
<1>1. SessionInv => EveryTestJudged
  <2> SUFFICES ASSUME SessionInv, report # NoReport, NEW i \in DOMAIN Suite
               PROVE  LET mine == {j \in DOMAIN report.results : report.results[j].test = Suite[i].id} IN
                      IF Suite[i].liveSkip /\ report.mode = "live" THEN mine = {}
                      ELSE /\ Cardinality(mine) \in {1, 2}
                           /\ Cardinality(mine) = 2 => ~report.results[Max(mine)].passed /\ throws > 0
    BY DEF EveryTestJudged
  <2>1. /\ report.results = results /\ report.mode \in Running /\ Session = report.mode
        /\ current = <<>> /\ Started = Len(Suite)
    BY ReportIsFinal
  <2>2. PICK M : M = Mine(i) /\ M = {j \in DOMAIN report.results : report.results[j].test = Suite[i].id}
    BY <2>1 DEF Mine
  <2> SUFFICES IF Suite[i].liveSkip /\ report.mode = "live" THEN M = {}
               ELSE /\ Cardinality(M) \in {1, 2}
                    /\ Cardinality(M) = 2 => ~report.results[Max(M)].passed /\ throws > 0
    BY <2>2, Zenon
  <2>3. Settled(i)
    <3>1. i \in 1 .. Len(Suite) /\ Len(Suite) \in Nat
      BY SuiteFacts
    <3>2. Tally
      BY DEF SessionInv
    <3> QED
      BY <2>1, <3>1, <3>2 DEF Tally
  <2>4. CASE Suite[i].liveSkip /\ report.mode = "live"
    BY <2>1, <2>2, <2>3, <2>4 DEF Settled
  <2>5. CASE ~(Suite[i].liveSkip /\ report.mode = "live")
    <3>1. PICK a, b \in DOMAIN results :
            M = {a, b} /\ a <= b /\ (a < b => ~results[b].passed /\ throws > 0)
      BY <2>1, <2>2, <2>3, <2>5 DEF Settled
    <3>2. a \in Nat /\ b \in Nat
      <4>1. results \in Seq(Result)
        BY DEF SessionInv, Room, Result
      <4>2. DOMAIN results = 1 .. Len(results)
        BY <4>1
      <4> QED
        BY <4>2
    <3>3. CASE a = b
      <4>1. M = {a}
        BY <3>1, <3>3
      <4>2. Cardinality(M) = 1
        BY <4>1, FS_Singleton
      <4> QED
        BY <2>2, <2>5, <4>2
    <3>4. CASE a < b
      <4>1. Cardinality({a}) = 1 /\ IsFiniteSet({a})
        BY FS_Singleton
      <4>2. M = {a} \cup {b} /\ b \notin {a}
        BY <3>1, <3>2, <3>4
      <4>3. Cardinality(M) = 2
        <5>1. Cardinality({a} \cup {b}) = IF b \in {a} THEN Cardinality({a}) ELSE Cardinality({a}) + 1
          BY <4>1, FS_AddElement, Zenon
        <5> QED
          BY <4>1, <4>2, <5>1
      <4>4. Max(M) = b
        BY <3>1, <3>2, MaxOfPair
      <4> QED
        BY <2>1, <2>2, <2>5, <3>1, <3>4, <4>3, <4>4
    <3> QED
      BY <3>1, <3>2, <3>3, <3>4
  <2> QED
    BY <2>4, <2>5
<1> QED
  BY <1>1, SessionInvAlways, PTL

\* A suite whose tests remove what they make leaves nothing on the service,
\* unless a call threw (run() and record(), runner.ts).
THEOREM ServiceIsLeftClean ==
  ASSUME TidySuite
  PROVE  SessionSpec => []ServiceLeftClean
<1>1. SessionInv => ServiceLeftClean
  BY DEF SessionInv, Core, Queue, Shelved, ServiceLeftClean
<1> QED
  BY <1>1, SessionInvAlways, PTL

\* The test that a result names.
LEMMA OfResult ==
  ASSUME SessionInv, report # NoReport, NEW j \in DOMAIN report.results
  PROVE  \E i \in DOMAIN Suite : Of(report.results[j].test) = Suite[i] /\ results[j].test = Suite[i].id
                                 /\ j \in DOMAIN results /\ report.results[j] = results[j]
<1>1. report.results = results
  BY ReportIsFinal
<1>2. results[j].test \in Ids
  <2>1. results \in Seq(Result)
    BY DEF SessionInv, Room, Result
  <2>2. results[j] \in Result
    BY <1>1, <2>1
  <2> QED
    BY <2>2 DEF Result
<1>3. PICK i \in DOMAIN Suite : results[j].test = Suite[i].id
  BY <1>2 DEF Ids
<1>4. \A t \in {Suite[k] : k \in DOMAIN Suite} : t.id = Suite[i].id => t = Suite[i]
  BY SuiteFacts
<1>5. Of(Suite[i].id) = Suite[i]
  BY <1>4 DEF Of
<1> QED
  BY <1>1, <1>3, <1>5

\* Where the comparator tells a drifting list from all that the service
\* answers, no session that compared a list reports a drifting twin green
\* (run(), runner.ts).
THEOREM GreenIsEarned ==
  ASSUME Discerning(Targets)
  PROVE  SessionSpec => []GreenMeansFaithful
<1>1. SessionInit => Earned
  BY DEF SessionInit, Earned
<1>2. SessionInv /\ Earned /\ [SessionNext]_sessionVars => Earned'
  BY EarnedNext DEF SessionInv
<1>3. SessionInv /\ Earned => GreenMeansFaithful
  <2> SUFFICES ASSUME SessionInv, Earned, report.mode \in {"live", "offline"}, Green, NEW j \in DOMAIN report.results,
                      Of(report.results[j].test).op.kind = "list"
               PROVE  drift \in Unseen(report.mode, Of(report.results[j].test))
    BY DEF GreenMeansFaithful
  <2>1. report # NoReport
    BY DEF NoReport
  <2>2. PICK i \in DOMAIN Suite : Of(report.results[j].test) = Suite[i] /\ results[j].test = Suite[i].id
                                 /\ j \in DOMAIN results /\ report.results[j] = results[j]
    BY <2>1, OfResult
  <2>3. results[j].passed
    BY <2>2 DEF Green
  <2> QED
    BY <2>1, <2>2, <2>3, ReportIsFinal DEF Earned
<1> QED
  BY <1>1, <1>2, <1>3, SessionInvAlways, PTL DEF SessionSpec

\* Where the comparator hides what differs between a faithful twin and the
\* service, a twin that does not drift passes every test that could be compared
\* (run() and record(), runner.ts).
THEOREM FaithfulTwinPasses ==
  ASSUME TidySuite, SharedSetup, PathsDiffer, Hiding(Targets)
  PROVE  SessionSpec => []NoFalseAlarm
<1>1. SessionInit => Fair
  BY DEF SessionInit, Fair
<1>2. SessionInv /\ Fair /\ [SessionNext]_sessionVars => Fair'
  BY FairNext DEF SessionInv
<1>3. SessionInv /\ Fair => NoFalseAlarm
  <2> SUFFICES ASSUME SessionInv, Fair, drift = "none", throws = 0, NEW j \in DOMAIN report.results
               PROVE  LET t == Of(report.results[j].test) IN
                      \/ report.results[j].passed
                      \/ report.mode = "offline" /\ (PathFor(t.id) \notin DOMAIN fixtures \/ t.op.schema # "both")
                      \/ report.mode = "twin" /\ t.op.kind # "list"
    BY DEF NoFalseAlarm
  <2>1. report # NoReport
    BY DEF NoReport
  <2>2. PICK i \in DOMAIN Suite : Of(report.results[j].test) = Suite[i] /\ results[j].test = Suite[i].id
                                 /\ j \in DOMAIN results /\ report.results[j] = results[j]
    BY <2>1, OfResult
  <2> QED
    BY <2>1, <2>2, ReportIsFinal DEF Fair
<1> QED
  BY <1>1, <1>2, <1>3, SessionInvAlways, PTL DEF SessionSpec
=============================================================================
