----------------------------- MODULE MarketplaceOutcomes -----------------------------
(***************************************************************************)
(* How work ends: cancellations and revocations reach it, reservations     *)
(* carry the credential in force, and what completes is settled once and   *)
(* whole, for any number of tenants, offers, jobs, tasks and agents.       *)
(*                                                                         *)
(* The argument about a task is made row by row: every statement that      *)
(* writes a task maps a row to a row (RowHeeds), and only the two gates    *)
(* admit new work.  A settlement needs one more fact: a request that has   *)
(* not inserted its row yet has no row (FreshRows), so an INSERT never     *)
(* revives work that was settled.                                          *)
(*                                                                         *)
(* The last part shows that the control plane implements the escrow        *)
(* account of Escrow.tla: each statement is a stutter, a hold placed, a    *)
(* hold released, a capture or a grant.                                    *)
(***************************************************************************)
EXTENDS MarketplaceSafety

---------------------------------------------------------------------------
(* Cancellation and revocation, row by row. *)

(* What CancellationHolds says of one row. *)
CancelOK(row) ==
  /\ row.cancel => row.status \in TaskLeased \cup {"cancelled"}
  /\ row.instruction <=> row.status \in TaskActive /\ ~row.cancel

(* A statement on a row that keeps CancelOK and, once the lease holder has
   been told to stop, leaves the row told or ends it. *)
RowHeeds(new, old) ==
  CancelOK(old) =>
    /\ CancelOK(new)
    /\ new.status \in TaskActive =>
         /\ old.status \in TaskActive /\ new.offer = old.offer
         /\ old.status \in TaskLeased /\ old.cancel => new.status \in TaskLeased /\ new.cancel

LEMMA SameRowHeeds == \A row : RowHeeds(row, row)
BY DEF RowHeeds

(* The fields of a row after each transition of ArtifactTasks. *)
LEMMA UnleasedFields ==
  ASSUME NEW row \in TaskRow, NEW s
  PROVE  /\ Unleased(row, s).status = s /\ Unleased(row, s).cancel = row.cancel
         /\ Unleased(row, s).instruction = row.instruction /\ Unleased(row, s).offer = row.offer
         /\ Erased(Unleased(row, s)).status = s /\ Erased(Unleased(row, s)).cancel = row.cancel
         /\ ~Erased(Unleased(row, s)).instruction
         /\ Erased(Unleased(row, s)).offer = row.offer
         /\ Requeued(row).status = "queued" /\ Requeued(row).cancel = row.cancel
         /\ Requeued(row).instruction = row.instruction /\ Requeued(row).offer = row.offer
BY DEF Unleased, Erased, Requeued, TaskRow

LEMMA AskedFields ==
  ASSUME NEW row \in TaskRow
  PROVE  LET asked == [Erased(row) EXCEPT !.cancel = TRUE] IN
         /\ asked \in TaskRow
         /\ asked.status = row.status /\ asked.cancel
         /\ ~asked.instruction /\ asked.offer = row.offer
BY DEF Erased, TaskRow

(* Ending a task: the buyer's instruction goes, and a task that was asked to
   stop can only end as cancelled. *)
LEMMA EndingHeeds ==
  ASSUME NEW row \in TaskRow, NEW s \in TaskTerminal
  PROVE  /\ ~row.cancel \/ s = "cancelled" => RowHeeds(Erased(Unleased(row, s)), row)
         /\ row.cancel => RowHeeds(Unleased(row, "cancelled"), row)
<1>1. s \notin TaskActive /\ "cancelled" \notin TaskActive
  BY DEF TaskTerminal, TaskActive, TaskLeased
<1>2. /\ Erased(Unleased(row, s)).status = s /\ Erased(Unleased(row, s)).cancel = row.cancel
      /\ ~Erased(Unleased(row, s)).instruction
      /\ Unleased(row, "cancelled").status = "cancelled"
      /\ Unleased(row, "cancelled").cancel = row.cancel
      /\ Unleased(row, "cancelled").instruction = row.instruction
  BY UnleasedFields
<1>3. ~row.cancel \/ s = "cancelled" => RowHeeds(Erased(Unleased(row, s)), row)
  BY <1>1, <1>2 DEF RowHeeds, CancelOK
<1>4. row.cancel => RowHeeds(Unleased(row, "cancelled"), row)
  BY <1>1, <1>2 DEF RowHeeds, CancelOK
<1>5. QED
  BY <1>3, <1>4

(* A leased task that was not asked to stop goes back to the queue. *)
LEMMA RequeueHeeds ==
  ASSUME NEW row \in TaskRow, row.status \in TaskLeased, ~row.cancel
  PROVE  RowHeeds(Requeued(row), row) /\ RowHeeds(Unleased(row, "queued"), row)
<1>1. /\ Requeued(row).status = "queued" /\ Requeued(row).cancel = row.cancel
      /\ Requeued(row).instruction = row.instruction /\ Requeued(row).offer = row.offer
      /\ Unleased(row, "queued").status = "queued" /\ Unleased(row, "queued").cancel = row.cancel
      /\ Unleased(row, "queued").instruction = row.instruction
      /\ Unleased(row, "queued").offer = row.offer
  BY UnleasedFields
<1>2. QED
  BY <1>1 DEF RowHeeds, CancelOK, TaskActive, TaskLeased

LEMMA SweptHeeds ==
  ASSUME NEW row \in TaskRow
  PROVE  RowHeeds(SweptByClaim(row), row) /\ RowHeeds(SweptByCleanup(row), row)
<1>1. RowHeeds(row, row)
  BY SameRowHeeds
<1>2. /\ ~row.cancel => RowHeeds(Erased(Unleased(row, "failed")), row)
      /\ RowHeeds(Erased(Unleased(row, "cancelled")), row)
      /\ row.cancel => RowHeeds(Unleased(row, "cancelled"), row)
  BY EndingHeeds DEF TaskTerminal
<1>3. row.status \in TaskLeased /\ ~row.cancel => RowHeeds(Requeued(row), row)
  BY RequeueHeeds
<1>4. row.status = "queued" /\ row.cancel => ~CancelOK(row)
  BY DEF CancelOK, TaskLeased
<1>5. ~CancelOK(row) => RowHeeds(SweptByCleanup(row), row)
  BY DEF RowHeeds
<1>6. RowHeeds(SweptByClaim(row), row)
  BY <1>1, <1>2, <1>3 DEF SweptByClaim, LeaseGone
<1>7. RowHeeds(SweptByCleanup(row), row)
  BY <1>1, <1>2, <1>3, <1>4, <1>5 DEF SweptByCleanup, LeaseGone
<1>8. QED
  BY <1>6, <1>7

(* Revocation ends a queued task and tells the holder of a leased one. *)
LEMMA RevokedHeeds ==
  ASSUME NEW row \in TaskRow
  PROVE  /\ RowHeeds(RevokedTask(row), row)
         /\ CancelOK(row) /\ RevokedTask(row).status \in TaskActive =>
              RevokedTask(row).status \in TaskLeased /\ RevokedTask(row).cancel
<1> DEFINE new == RevokedTask(row)
<1>1. CASE row.status = "queued" /\ ~row.cancel
  <2>1. new = Erased(Unleased(row, "failed"))
    BY <1>1 DEF RevokedTask
  <2>2. new.status = "failed"
    BY <2>1, UnleasedFields
  <2>3. RowHeeds(new, row)
    BY <1>1, <2>1, EndingHeeds DEF TaskTerminal
  <2>4. QED
    BY <2>2, <2>3 DEF TaskActive, TaskLeased
<1>2. CASE row.status \in TaskLeased /\ ~row.cancel
  <2>1. new = [Erased(row) EXCEPT !.cancel = TRUE]
    BY <1>2 DEF RevokedTask, TaskLeased
  <2>2. /\ new.status = row.status /\ new.cancel
        /\ ~new.instruction /\ new.offer = row.offer
    BY <2>1, AskedFields
  <2>3. QED
    BY <1>2, <2>2 DEF RowHeeds, CancelOK, TaskActive, TaskLeased
<1>3. CASE row.cancel \/ row.status \notin {"queued"} \cup TaskLeased
  <2>1. new = row
    BY <1>3 DEF RevokedTask
  <2>2. QED
    BY <1>3, <2>1, SameRowHeeds DEF CancelOK, TaskActive, TaskLeased
<1>4. QED
  BY <1>1, <1>2, <1>3

HeedingTasks == \A i \in Tasks : RowHeeds(tasks'[i], tasks[i])

(* A statement on one row. *)
LEMMA OneHeedingTask ==
  ASSUME TasksOK, NEW t \in Tasks, NEW row, tasks' = [tasks EXCEPT ![t] = row],
         RowHeeds(row, tasks[t])
  PROVE  HeedingTasks
<1>1. \A i \in Tasks : tasks'[i] = IF i = t THEN row ELSE tasks[i]
  BY DEF TasksOK
<1>2. QED
  BY <1>1, SameRowHeeds DEF HeedingTasks

LEMMA RowsAreRows == IInv => \A i \in Tasks : tasks[i] \in TaskRow
BY DEF IInv, TasksOK, TaskRowOK

(* The statements of the handlers named by a task. *)
LEMMA TaskStepHeeds ==
  ASSUME IInv, NEW t \in Tasks, TaskStep(t)
  PROVE  HeedingTasks \/ TaskReserves(t)
<1> DEFINE row == tasks[t]
<1>0. TasksOK /\ row \in TaskRow
  BY RowsAreRows DEF IInv
<1>1. CASE UNCHANGED tasks
  BY <1>1, SameRowHeeds DEF HeedingTasks
<1>2. CASE tasks' = CleanupTasks
  BY <1>2, SweptHeeds, RowsAreRows DEF HeedingTasks, CleanupTasks
<1>3. CASE ReserveTask(t) /\ ~UNCHANGED tasks
  BY <1>3 DEF ReserveTask, TaskReserves
<1>4. CASE CancelArtifactTask(t)
  <2> DEFINE asked == [Erased(row) EXCEPT !.cancel = TRUE]
             new == IF row.status = "queued" THEN Unleased(asked, "cancelled") ELSE asked
  <2>1. tasks' = [tasks EXCEPT ![t] = new] /\ row.status \in TaskActive
    BY <1>4 DEF CancelArtifactTask
  <2>2. /\ asked \in TaskRow /\ asked.status = row.status /\ asked.cancel
        /\ ~asked.instruction /\ asked.offer = row.offer
    BY <1>0, AskedFields
  <2> HIDE DEF asked
  <2>3. CASE row.status = "queued"
    <3>1. new.status = "cancelled" /\ new.cancel /\ ~new.instruction
      BY <2>2, <2>3, UnleasedFields
    <3> HIDE DEF new
    <3>2. RowHeeds(new, row)
      BY <3>1 DEF RowHeeds, CancelOK, TaskActive, TaskLeased
    <3>3. QED
      BY <1>0, <2>1, <3>2, OneHeedingTask
  <2>4. CASE row.status # "queued"
    <3>1. new = asked
      BY <2>4
    <3> HIDE DEF new
    <3>2. RowHeeds(new, row)
      BY <2>1, <2>2, <2>4, <3>1 DEF RowHeeds, CancelOK, TaskActive, TaskLeased
    <3>3. QED
      BY <1>0, <2>1, <3>2, OneHeedingTask
  <2>5. QED
    BY <2>3, <2>4
<1>5. CASE PurgeQueuedTask(t)
  <2> DEFINE e == Erased(Unleased(row, "cancelled"))
             new == [e EXCEPT !.cancel = TRUE]
  <2>1. tasks' = [tasks EXCEPT ![t] = new]
    BY <1>5 DEF PurgeQueuedTask
  <2>2. new.status = "cancelled" /\ new.cancel /\ ~new.instruction
    BY <1>0 DEF Erased, Unleased, TaskRow
  <2>3. RowHeeds(new, row)
    BY <2>2 DEF RowHeeds, CancelOK, TaskActive, TaskLeased
  <2> HIDE DEF new
  <2>4. QED
    BY <1>0, <2>1, <2>3, OneHeedingTask
<1>6. ASSUME NEW l, NEW n, CheckpointArtifactTask(t, l, n) PROVE HeedingTasks
  <2> DEFINE new == [row EXCEPT !.status = "running", !.completed = n]
  <2>1. row.status \in TaskLeased /\ ~row.cancel /\ tasks' = [tasks EXCEPT ![t] = new]
    BY <1>6 DEF CheckpointArtifactTask, LeasedTask, LeaseValid
  <2>2. /\ new.status = "running" /\ new.cancel = row.cancel /\ new.offer = row.offer
        /\ new.instruction = row.instruction
    BY <1>0 DEF TaskRow
  <2>3. RowHeeds(new, row)
    BY <2>1, <2>2 DEF RowHeeds, CancelOK, TaskActive, TaskLeased
  <2> HIDE DEF new
  <2>4. QED
    BY <1>0, <2>1, <2>3, OneHeedingTask
<1>7. ASSUME NEW l, NEW r, FailArtifactTask(t, l, r) PROVE HeedingTasks
  <2> DEFINE new == IF r /\ row.attempt < MaxAttempts THEN Unleased(row, "queued")
                    ELSE Erased(Unleased(row, "failed"))
  <2>1. row.status \in TaskLeased /\ ~row.cancel /\ tasks' = [tasks EXCEPT ![t] = new]
    BY <1>7 DEF FailArtifactTask, LeasedTask, LeaseValid
  <2>2. RowHeeds(new, row)
    BY <1>0, <2>1, EndingHeeds, RequeueHeeds DEF TaskTerminal
  <2> HIDE DEF new
  <2>3. QED
    BY <1>0, <2>1, <2>2, OneHeedingTask
<1>8. ASSUME NEW l, AcknowledgeCancellation(t, l) PROVE HeedingTasks
  <2>1. /\ row.status \in TaskLeased /\ row.cancel
        /\ tasks' = [tasks EXCEPT ![t] = Unleased(row, "cancelled")]
    BY <1>8 DEF AcknowledgeCancellation
  <2>2. RowHeeds(Unleased(row, "cancelled"), row)
    BY <1>0, <2>1, EndingHeeds DEF TaskTerminal
  <2>3. QED
    BY <1>0, <2>1, <2>2, OneHeedingTask
<1>9. CASE LeaseLapses(t) \/ DeadlinePasses(t) \/ TaskAges(t)
  <2>1. \A i \in Tasks : /\ tasks'[i].status = tasks[i].status /\ tasks'[i].cancel = tasks[i].cancel
                         /\ tasks'[i].instruction = tasks[i].instruction
                         /\ tasks'[i].offer = tasks[i].offer
    BY <1>0, <1>9, RowsAreRows DEF LeaseLapses, DeadlinePasses, TaskAges, TasksOK, TaskRow
  <2>2. QED
    BY <2>1 DEF HeedingTasks, RowHeeds, CancelOK
<1>10. QED
  BY <1>1, <1>2, <1>3, <1>4, <1>5, <1>6, <1>7, <1>8, <1>9
  DEF TaskStep, OrderTask, LoseOrder, VerifyCompletion

(* The statements of the agents and of the settlement batch. *)
LEMMA WorkerStepHeeds ==
  ASSUME IInv, NEW w \in Workers, WorkerStep(w)
  PROVE  HeedingTasks
<1>0. TasksOK
  BY DEF IInv
<1>1. CASE UNCHANGED tasks
  BY <1>1, SameRowHeeds DEF HeedingTasks
<1>2. CASE PollTask(w)
  BY <1>2, SameRowHeeds, SweptHeeds, RowsAreRows DEF PollTask, HeedingTasks
<1>3. CASE ClaimTask(w) /\ ~UNCHANGED tasks
  <2>1. PICK p \in polls[w] : TaskClaimed(w, p)
    BY <1>3 DEF ClaimTask, TaskClaimed
  <2>2. p.task \in Tasks
    BY <2>1 DEF IInv, AgentsOK, PollRow
  <2> DEFINE row == tasks[p.task]
             new == [row EXCEPT !.status = "claimed", !.worker = w, !.attempt = row.attempt + 1,
                                !.lease = row.attempt + 1, !.completed = p.resume]
  <2>3. row \in TaskRow
    BY <2>2, RowsAreRows
  <2>4. row.status = "queued" /\ ~row.cancel /\ tasks' = [tasks EXCEPT ![p.task] = new]
    BY <2>1 DEF TaskClaimed, ClaimGate
  <2>5. /\ new.status = "claimed" /\ new.cancel = row.cancel /\ new.offer = row.offer
        /\ new.instruction = row.instruction
    BY <2>3 DEF TaskRow
  <2>6. RowHeeds(new, row)
    BY <2>4, <2>5 DEF RowHeeds, CancelOK, TaskActive, TaskLeased
  <2> HIDE DEF new
  <2>7. QED
    BY <1>0, <2>2, <2>4, <2>6, OneHeedingTask
<1>4. QED
  BY <1>1, <1>2, <1>3 DEF WorkerStep, LosePoll, HeartbeatExpires

LEMMA CompletionHeeds ==
  ASSUME IInv, CompletionStep
  PROVE  HeedingTasks
<1>0. TasksOK
  BY DEF IInv
<1>1. CASE UNCHANGED tasks
  BY <1>1, SameRowHeeds DEF HeedingTasks
<1>2. ASSUME NEW s \in settling, CompleteArtifactTask(s), ~UNCHANGED tasks PROVE HeedingTasks
  <2> DEFINE new == Erased(Unleased(tasks[s.task], "completed"))
  <2>1. s.task \in Tasks
    BY DEF IInv, AgentsOK, Settling
  <2>2. ~tasks[s.task].cancel /\ tasks' = [tasks EXCEPT ![s.task] = new]
    BY <1>2 DEF CompleteArtifactTask, CompleteTaskGate, LeaseValid
  <2>3. RowHeeds(new, tasks[s.task])
    BY <2>1, <2>2, RowsAreRows, EndingHeeds DEF TaskTerminal
  <2> HIDE DEF new
  <2>4. QED
    BY <1>0, <2>1, <2>2, <2>3, OneHeedingTask
<1>3. QED
  BY <1>1, <1>2 DEF CompletionStep, LoseCompletion

(* Every step either heeds cancellation in every row or orders one task. *)
LEMMA StepHeeds ==
  ASSUME IInv, Next
  PROVE  HeedingTasks \/ \E t \in Tasks : TaskReserves(t) /\ UNCHANGED auth
<1>1. UNCHANGED tasks => HeedingTasks
  BY SameRowHeeds DEF HeedingTasks
<1>2. ASSUME NEW t \in Tasks, TaskStep(t)
      PROVE  HeedingTasks \/ (TaskReserves(t) /\ UNCHANGED auth)
  BY <1>2, TaskStepHeeds, TaskFrame DEF Others
<1>3. MaintainTasks => HeedingTasks
  BY SweptHeeds, RowsAreRows DEF MaintainTasks, CleanupTasks, HeedingTasks
<1>4. SupplierCommand => HeedingTasks
  BY <1>1, RevokedHeeds, SameRowHeeds, RowsAreRows
  DEF SupplierCommand, RevokeAuthorization, RotateCredential, SetSupplyState, HeedingTasks
<1>5. QED
  BY <1>1, <1>2, <1>3, <1>4, WorkerStepHeeds, CompletionHeeds, InferenceFrame
  DEF Next, EnsureUser, MaintainInference, Rest

LEMMA NextCancellation == IInv /\ CancellationHolds /\ [Next]_vars => CancellationHolds'
<1> SUFFICES ASSUME IInv, CancellationHolds, [Next]_vars, NEW t \in Tasks
             PROVE  CancelOK(tasks'[t])
  BY DEF CancellationHolds, CancelOK
<1>0. CancelOK(tasks[t])
  BY DEF CancellationHolds, CancelOK
<1>1. CASE UNCHANGED vars
  BY <1>0, <1>1 DEF vars
<1>2. CASE HeedingTasks
  BY <1>0, <1>2 DEF HeedingTasks, RowHeeds
<1>3. ASSUME NEW u \in Tasks, TaskReserves(u) PROVE CancelOK(tasks'[t])
  <2>1. /\ tasks'[u].status = "queued" /\ ~tasks'[u].cancel /\ tasks'[u].instruction
        /\ t # u => tasks'[t] = tasks[t]
    BY <1>3 DEF TaskReserves, NoTask, IInv, TasksOK
  <2>2. QED
    BY <1>0, <2>1 DEF CancelOK, TaskActive, TaskLeased
<1>4. QED
  BY <1>1, <1>2, <1>3, StepHeeds

LEMMA InitCancellation == Init => CancellationHolds
BY DEF Init, TasksInit, NoTask, CancellationHolds, TaskActive, TaskLeased

LEMMA AlwaysCancellation == Spec => [](IInv /\ CancellationHolds)
<1>1. Init => IInv /\ CancellationHolds
  BY InitIInv, InitCancellation
<1>2. (IInv /\ CancellationHolds) /\ [Next]_vars => (IInv /\ CancellationHolds)'
  BY NextIInv, NextCancellation
<1>3. QED
  BY <1>1, <1>2, PTL DEF Spec

(* Once cancellation has been asked for, by the buyer, by a purge or by a
   revocation, the task can only run out its lease or end cancelled, and the
   instruction is kept exactly as long as somebody may still act on it. *)
THEOREM CancellationSafe == Spec => []CancellationHolds
BY AlwaysCancellation, PTL

---------------------------------------------------------------------------
(* Authorizations. *)

(* Only supplier commands write authorization_requests. *)
LEMMA AuthMove ==
  ASSUME Next
  PROVE  UNCHANGED auth \/ \E x \in Auths : RevokeAuthorization(x) \/ RotateCredential(x)
<1>1. (\E t \in Tasks : TaskStep(t)) \/ (\E w \in Workers : WorkerStep(w)) \/ CompletionStep
         \/ MaintainTasks => UNCHANGED auth
  BY TaskFrame DEF Others
<1>2. (\E j \in Jobs : InferenceStep(j)) => UNCHANGED auth
  BY InferenceFrame DEF Rest
<1>3. QED
  BY <1>1, <1>2
  DEF Next, EnsureUser, MaintainInference, Rest, SupplierCommand, SetSupplyState

LEMMA InitRevocation == Init => RevocationReachesTasks
BY DEF Init, TasksInit, NoTask, RevocationReachesTasks, TaskActive, TaskLeased

LEMMA NextRevocation ==
  IInv /\ CancellationHolds /\ RevocationReachesTasks /\ [Next]_vars => RevocationReachesTasks'
<1> SUFFICES ASSUME IInv, CancellationHolds, RevocationReachesTasks, [Next]_vars,
                    NEW t \in Tasks, tasks'[t].status \in TaskActive
             PROVE  \/ auth'[OfferAuth[tasks'[t].offer]].status = "approved"
                    \/ tasks'[t].status \in TaskLeased /\ tasks'[t].cancel
  BY DEF RevocationReachesTasks
<1>0. CancelOK(tasks[t])
  BY DEF CancellationHolds, CancelOK
<1>1. CASE UNCHANGED vars
  BY <1>1 DEF vars, RevocationReachesTasks
<1>2. ASSUME HeedingTasks,
             \/ auth[OfferAuth[tasks[t].offer]].status = "approved"
                  => auth'[OfferAuth[tasks[t].offer]].status = "approved"
      PROVE  \/ auth'[OfferAuth[tasks'[t].offer]].status = "approved"
             \/ tasks'[t].status \in TaskLeased /\ tasks'[t].cancel
  BY <1>0, <1>2 DEF HeedingTasks, RowHeeds, RevocationReachesTasks
<1>3. CASE UNCHANGED auth /\ HeedingTasks
  BY <1>2, <1>3
<1>4. ASSUME NEW u \in Tasks, TaskReserves(u), UNCHANGED auth
      PROVE  \/ auth'[OfferAuth[tasks'[t].offer]].status = "approved"
             \/ tasks'[t].status \in TaskLeased /\ tasks'[t].cancel
  <2>1. /\ tasks'[u].offer = orders[u].offer
        /\ t # u => tasks'[t] = tasks[t]
    BY <1>4 DEF TaskReserves, NoTask, IInv, TasksOK
  <2>2. auth[OfferAuth[orders[u].offer]].status = "approved"
    BY <1>4 DEF TaskReserves, ReserveTaskGate, OfferSells
  <2>3. QED
    BY <1>4, <2>1, <2>2 DEF RevocationReachesTasks
<1>5. ASSUME NEW x \in Auths, RotateCredential(x), HeedingTasks
      PROVE  \/ auth'[OfferAuth[tasks'[t].offer]].status = "approved"
             \/ tasks'[t].status \in TaskLeased /\ tasks'[t].cancel
  <2>1. \A y \in Auths : auth'[y].status = auth[y].status
    BY <1>5 DEF RotateCredential, IInv, AuthOK, AuthRow
  <2>2. tasks[t].status \in TaskActive /\ tasks'[t].offer = tasks[t].offer
    BY <1>0, <1>5 DEF HeedingTasks, RowHeeds
  <2>3. OfferAuth[tasks[t].offer] \in Auths
    BY <2>2, MapAssumption DEF IInv, TasksOK, TaskRowOK, TaskActive, TaskLeased
  <2>4. QED
    BY <1>2, <1>5, <2>1, <2>3
<1>6. ASSUME NEW x \in Auths, RevokeAuthorization(x), HeedingTasks
      PROVE  \/ auth'[OfferAuth[tasks'[t].offer]].status = "approved"
             \/ tasks'[t].status \in TaskLeased /\ tasks'[t].cancel
  <2>1. \A y \in Auths : y # x => auth'[y] = auth[y]
    BY <1>6 DEF RevokeAuthorization, IInv, AuthOK
  <2>2. tasks[t].status \in TaskActive /\ tasks'[t].offer = tasks[t].offer
    BY <1>0, <1>6 DEF HeedingTasks, RowHeeds
  <2>3. OfferAuth[tasks[t].offer] \in Auths
    BY <2>2, MapAssumption DEF IInv, TasksOK, TaskRowOK, TaskActive, TaskLeased
  <2>4. CASE OfferAuth[tasks[t].offer] # x
    BY <1>2, <1>6, <2>1, <2>3, <2>4
  <2>5. CASE OfferAuth[tasks[t].offer] = x
    <3>1. SuppliedBy(t, x)
      BY <2>2, <2>5 DEF SuppliedBy, TaskActive, TaskLeased
    <3>2. tasks'[t] = RevokedTask(tasks[t])
      BY <1>6, <3>1 DEF RevokeAuthorization
    <3>3. QED
      BY <1>0, <3>2, RevokedHeeds, RowsAreRows
  <2>6. QED
    BY <2>4, <2>5
<1>7. QED
  <2>1. (\E u \in Tasks : TaskReserves(u) /\ UNCHANGED auth) \/ HeedingTasks \/ UNCHANGED vars
    BY StepHeeds
  <2>2. UNCHANGED vars \/ UNCHANGED auth
          \/ \E x \in Auths : RevokeAuthorization(x) \/ RotateCredential(x)
    BY AuthMove
  <2>3. QED
    BY <1>1, <1>3, <1>4, <1>5, <1>6, <2>1, <2>2

(* No file task outlives the revocation of its authorization, whether it was
   requeued, ordered or claimed around it: the one batch of the revocation
   ends what is queued and tells every lease holder, and no later statement
   takes the notice back. *)
THEOREM RevocationSafe == Spec => []RevocationReachesTasks
<1>1. Init => RevocationReachesTasks
  BY InitRevocation
<1>2. (IInv /\ CancellationHolds) /\ RevocationReachesTasks /\ [Next]_vars => RevocationReachesTasks'
  BY NextRevocation
<1>3. QED
  BY <1>1, <1>2, AlwaysCancellation, PTL DEF Spec

LEMMA InitCredential == Init => ReservedCredentialIsCurrent
BY DEF Init, InferenceInit, NoJob, ReservedCredentialIsCurrent

LEMMA NextCredential ==
  IInv /\ ReservedCredentialIsCurrent /\ [Next]_vars => ReservedCredentialIsCurrent'
<1> DEFINE Current(j) == /\ auth[OfferAuth[jobs[j].offer]].status = "approved"
                         /\ auth[OfferAuth[jobs[j].offer]].revision = jobs[j].revision
<1> SUFFICES ASSUME IInv, ReservedCredentialIsCurrent, [Next]_vars,
                    NEW j \in Jobs, jobs'[j].status = "reserved"
             PROVE  Current(j)'
  BY DEF ReservedCredentialIsCurrent, JobAuth
<1>0. jobs[j].status = "reserved" => Current(j)
  BY DEF ReservedCredentialIsCurrent, JobAuth
<1>1. CASE UNCHANGED vars
  BY <1>0, <1>1 DEF vars
<1>2. QuietJobs => /\ jobs[j].status = "reserved" /\ jobs'[j].offer = jobs[j].offer
                   /\ jobs'[j].revision = jobs[j].revision
  BY DEF QuietJobs, JobQuiet
<1>3. CASE QuietJobs /\ UNCHANGED auth
  BY <1>0, <1>2, <1>3
<1>4. ASSUME NEW i \in Jobs, JobReserves(i), UNCHANGED auth PROVE Current(j)'
  <2>1. /\ jobs'[i].offer = calls[i].offer /\ jobs'[i].revision = calls[i].revision
        /\ i # j => jobs'[j] = jobs[j]
    BY <1>4 DEF JobReserves, IInv, JobsOK
  <2>2. /\ auth[OfferAuth[calls[i].offer]].status = "approved"
        /\ auth[OfferAuth[calls[i].offer]].revision = calls[i].revision
    BY <1>4 DEF JobReserves, ReserveGate, OfferSells
  <2>3. QED
    BY <1>0, <1>4, <2>1, <2>2
<1>5. ASSUME NEW x \in Auths, RevokeAuthorization(x) \/ RotateCredential(x), QuietJobs
      PROVE  Current(j)'
  <2>1. Current(j) /\ OfferAuth[jobs[j].offer] \in Auths
    BY <1>0, <1>2, <1>5, MapAssumption DEF IInv, JobsOK
  <2>2. CASE OfferAuth[jobs[j].offer] # x
    <3>1. \A y \in Auths : y # x => auth'[y] = auth[y]
      BY <1>5 DEF RevokeAuthorization, RotateCredential, IInv, AuthOK
    <3>2. QED
      BY <1>2, <1>5, <2>1, <2>2, <3>1
  <2>3. CASE OfferAuth[jobs[j].offer] = x
    <3>1. jobs'[j] = Failed(jobs[j])
      BY <1>2, <1>5, <2>1, <2>3 DEF RevokeAuthorization, RotateCredential, FailJobs, JobAuth
    <3>2. jobs'[j].status = "failed"
      BY <3>1, FailedType DEF IInv, JobsOK
    <3>3. QED
      BY <3>2
  <2>4. QED
    BY <2>2, <2>3
<1>6. QED
  <2>1. UNCHANGED vars \/ QuietJobs \/ \E i \in Jobs : JobReserves(i)
    BY JobsMove
  <2>2. UNCHANGED vars \/ UNCHANGED auth
          \/ \E x \in Auths : RevokeAuthorization(x) \/ RotateCredential(x)
    BY AuthMove
  <2>3. ASSUME NEW x \in Auths, RevokeAuthorization(x) \/ RotateCredential(x) PROVE QuietJobs
    BY <2>3, CommandedJobs
  <2>4. QED
    BY <1>1, <1>3, <1>4, <1>5, <2>1, <2>2, <2>3

(* No gateway call starts with a displaced token: whatever still waits to
   start carries the credential generation in force, whenever it was priced
   and reserved relative to a rotation or a revocation. *)
THEOREM CredentialSafe == Spec => []ReservedCredentialIsCurrent
<1>1. Init => ReservedCredentialIsCurrent
  BY InitCredential
<1>2. IInv /\ ReservedCredentialIsCurrent /\ [Next]_vars => ReservedCredentialIsCurrent'
  BY NextCredential
<1>3. QED
  BY <1>1, <1>2, AlwaysIInv, PTL DEF Spec

---------------------------------------------------------------------------
(* Settlement. *)

(* A request that has not tried its INSERT yet has no row. *)
FreshCall == {"idle", "swept", "selected"}
FreshRows ==
  /\ \A j \in Jobs : calls[j].phase \in FreshCall => jobs[j].status = "none"
  /\ \A t \in Tasks : orders[t].phase \in {"idle", "selected"} => tasks[t].status = "none"

(* SettledOnceAndWhole, by its parts. *)
EntriesIn(L, r) == {e \in L : e.ref = r}
WholeIn(L, r, row) ==
  IF row.status = "completed"
  THEN \E c \in 0..row.reserved :
         EntriesIn(L, r) = SettlementEntries(r, row.buyer, OfferTenant(row.offer), c)
  ELSE EntriesIn(L, r) = {}
WholeSettlements ==
  /\ \A j \in Jobs : WholeIn(ledger, j, jobs[j])
  /\ \A t \in Tasks : WholeIn(ledger, t, tasks[t])
OneRowPerKey ==
  \A i, j \in Jobs :
    /\ i # j /\ jobs[i].status # "none" /\ jobs[j].status # "none"
    /\ jobs[i].buyer = jobs[j].buyer
    => jobs[i].key # jobs[j].key

SInv == IInv /\ FreshRows /\ WholeSettlements /\ OneRowPerKey

LEMMA SettledParts == SettledOnceAndWhole <=> WholeSettlements /\ OneRowPerKey
<1>1. \A t \in Tasks : RowOf(t) = tasks[t]
  BY SetAssumption DEF RowOf
<1>2. \A j \in Jobs : RowOf(j) = jobs[j]
  BY DEF RowOf
<1>3. QED
  BY <1>1, <1>2 DEF SettledOnceAndWhole, WholeSettlements, WholeIn, EntriesIn, OneRowPerKey

(* Neither a call nor an order grows younger. *)
LEMMA CallsAge ==
  ASSUME IInv, NEW j \in Jobs, InferenceStep(j)
  PROVE  /\ \A i \in Jobs : calls'[i].phase \in FreshCall => calls[i].phase \in FreshCall
         /\ ReserveInference(j) => calls'[j].phase \notin FreshCall
<1>0. calls \in [Jobs -> CallRow]
  BY DEF IInv, CallsOK
<1> USE DEF FreshCall, CallRow
<1>1. Return(j) => calls'[j].phase = "done" /\ \A i \in Jobs \ {j} : calls'[i] = calls[i]
  BY <1>0 DEF Return
<1>2. ReserveInference(j) =>
        calls'[j].phase \notin FreshCall /\ \A i \in Jobs \ {j} : calls'[i] = calls[i]
  BY <1>0, <1>1 DEF ReserveInference
<1>3. (\E b \in Tenants, k \in Keys : BeginInference(j, b, k)) =>
        calls[j].phase = "idle" /\ \A i \in Jobs \ {j} : calls'[i] = calls[i]
  BY <1>0 DEF BeginInference
<1>4. (\E o \in Offers, e \in Estimates : SelectOffer(j, o, e)) =>
        calls[j].phase = "swept" /\ \A i \in Jobs \ {j} : calls'[i] = calls[i]
  BY <1>0 DEF SelectOffer
<1>5. StartInference(j) \/ GatewayFails(j) \/ SettleInference(j) =>
        calls'[j].phase \notin FreshCall /\ \A i \in Jobs \ {j} : calls'[i] = calls[i]
  BY <1>0, <1>1 DEF StartInference, GatewayFails, SettleInference
<1>6. (\E c \in Amounts : GatewayAnswers(j, c)) =>
        calls'[j].phase \notin FreshCall /\ \A i \in Jobs \ {j} : calls'[i] = calls[i]
  BY <1>0 DEF GatewayAnswers
<1>7. RefuseInference(j) \/ FailInference(j) \/ LoseInference(j) => Return(j)
  BY DEF RefuseInference, FailInference, LoseInference
<1>8. ReservationLapses(j) => calls' = calls
  BY DEF ReservationLapses
<1>9. QED
  BY <1>1, <1>2, <1>3, <1>4, <1>5, <1>6, <1>7, <1>8 DEF InferenceStep

LEMMA OrdersAge ==
  ASSUME IInv, NEW t \in Tasks, TaskStep(t)
  PROVE  /\ \A i \in Tasks : orders'[i].phase \in {"idle", "selected"} =>
                              orders[i].phase \in {"idle", "selected"}
         /\ ReserveTask(t) => orders'[t].phase = "done"
<1>0. orders \in [Tasks -> OrderRow]
  BY DEF IInv, OrdersOK
<1>1. ReserveTask(t) \/ LoseOrder(t) =>
        orders'[t].phase = "done" /\ \A i \in Tasks \ {t} : orders'[i] = orders[i]
  BY <1>0 DEF ReserveTask, LoseOrder, OrderRow
<1>2. (\E b \in Tenants, o \in Offers, e \in Estimates : OrderTask(t, b, o, e)) =>
        orders[t].phase = "idle" /\ \A i \in Tasks \ {t} : orders'[i] = orders[i]
  BY <1>0 DEF OrderTask
<1>3. ReserveTask(t) \/ LoseOrder(t) \/ UNCHANGED orders
         \/ \E b \in Tenants, o \in Offers, e \in Estimates : OrderTask(t, b, o, e)
  BY DEF TaskStep, CancelArtifactTask, PurgeQueuedTask, CheckpointArtifactTask, FailArtifactTask,
      VerifyCompletion, AcknowledgeCancellation, LeaseLapses, DeadlinePasses, TaskAges
<1>4. QED
  BY <1>1, <1>2, <1>3

(* Behind a fresh call only RESERVE_INFERENCE_JOB_SQL inserts a row. *)
LEMMA ReservesByInsert ==
  ASSUME FreshRows, NEW j \in Jobs, InferenceStep(j), JobsOK, JobReserves(j)
  PROVE  ReserveInference(j)
<1>1. calls[j].phase = "selected" /\ jobs[j].status = "none" /\ jobs'[j].status = "reserved"
  BY DEF JobReserves, FreshRows, FreshCall, JobsOK
<1>2. ~UNCHANGED jobs
  BY <1>1
<1>3. QED
  BY <1>1, <1>2
  DEF InferenceStep, BeginInference, SelectOffer, RefuseInference, StartInference, GatewayAnswers,
      GatewayFails, SettleInference, FailInference, LoseInference, ReservationLapses, JobActive

LEMMA OrdersByInsert ==
  ASSUME FreshRows, NEW t \in Tasks, TaskStep(t), TasksOK, TaskReserves(t)
  PROVE  ReserveTask(t)
<1>1. /\ orders[t].phase = "selected" /\ tasks[t].status = "none" /\ tasks'[t].status = "queued"
  BY DEF TaskReserves, FreshRows, TasksOK, NoTask
<1>2. ~UNCHANGED tasks
  BY <1>1
<1>3. (\E b \in Tenants, o \in Offers, e \in Estimates : OrderTask(t, b, o, e)) => FALSE
  BY <1>1 DEF OrderTask
<1>4. ~(CancelArtifactTask(t) \/ PurgeQueuedTask(t) \/ LeaseLapses(t) \/ DeadlinePasses(t) \/ TaskAges(t))
  BY <1>1 DEF CancelArtifactTask, PurgeQueuedTask, LeaseLapses, DeadlinePasses, TaskAges,
       TaskActive, TaskLeased
<1>5. \A l : /\ \A n : ~CheckpointArtifactTask(t, l, n)
             /\ \A r : ~FailArtifactTask(t, l, r)
             /\ \A c : ~VerifyCompletion(t, l, c)
             /\ ~AcknowledgeCancellation(t, l)
  BY <1>1 DEF CheckpointArtifactTask, FailArtifactTask, VerifyCompletion, AcknowledgeCancellation,
       LeasedTask, LeaseValid, TaskLeased
<1>6. QED
  BY <1>2, <1>3, <1>4, <1>5 DEF TaskStep, LoseOrder

LEMMA NextFresh == IInv /\ FreshRows /\ [Next]_vars => FreshRows'
<1> SUFFICES ASSUME IInv, FreshRows, [Next]_vars PROVE FreshRows'
  OBVIOUS
<1> DEFINE FreshJobs == \A j \in Jobs : calls[j].phase \in FreshCall => jobs[j].status = "none"
           FreshTasks == \A t \in Tasks :
                           orders[t].phase \in {"idle", "selected"} => tasks[t].status = "none"
<1>0. FreshJobs /\ FreshTasks /\ JobsOK /\ TasksOK
  BY DEF FreshRows, IInv
<1>1. CASE UNCHANGED vars
  BY <1>1 DEF vars, FreshRows
<1>2. UNCHANGED calls /\ QuietJobs => FreshJobs'
  BY <1>0 DEF QuietJobs, JobQuiet
<1>3. UNCHANGED orders /\ QuietTasks => FreshTasks'
  BY <1>0 DEF QuietTasks, RowQuiet
<1>4. UNCHANGED jobs => QuietJobs
  BY <1>0, SameJobs
<1>5. UNCHANGED tasks => QuietTasks
  BY <1>0, SameTasks
<1>6. ASSUME NEW j \in Jobs, InferenceStep(j) PROVE FreshJobs' /\ FreshTasks'
  <2>1. FreshTasks'
    BY <1>0, <1>6, InferenceFrame DEF Rest
  <2>2. \A i \in Jobs : calls'[i].phase \in FreshCall => calls[i].phase \in FreshCall
    BY <1>6, CallsAge
  <2>3. CASE QuietJobs
    BY <1>0, <2>1, <2>2, <2>3 DEF QuietJobs, JobQuiet
  <2>4. CASE JobReserves(j)
    <3>1. calls'[j].phase \notin FreshCall
      BY <1>0, <1>6, <2>4, CallsAge, ReservesByInsert
    <3>2. \A i \in Jobs : i # j => jobs'[i] = jobs[i]
      BY <1>0, <2>4 DEF JobReserves, JobsOK
    <3>3. QED
      BY <1>0, <2>1, <2>2, <3>1, <3>2
  <2>5. QED
    BY <1>6, <2>3, <2>4, InferenceJobs
<1>7. ASSUME NEW t \in Tasks, TaskStep(t) PROVE FreshJobs' /\ FreshTasks'
  <2>1. FreshJobs'
    BY <1>2, <1>4, <1>7, TaskFrame DEF Others
  <2>2. \A i \in Tasks : orders'[i].phase \in {"idle", "selected"} =>
                         orders[i].phase \in {"idle", "selected"}
    BY <1>7, OrdersAge
  <2>3. CASE QuietTasks
    BY <1>0, <2>1, <2>2, <2>3 DEF QuietTasks, RowQuiet
  <2>4. CASE TaskReserves(t)
    <3>1. orders'[t].phase = "done"
      BY <1>0, <1>7, <2>4, OrdersAge, OrdersByInsert
    <3>2. \A i \in Tasks : i # t => tasks'[i] = tasks[i]
      BY <1>0, <2>4 DEF TaskReserves, TasksOK
    <3>3. QED
      BY <1>0, <2>1, <2>2, <3>1, <3>2
  <2>5. QED
    BY <1>7, <2>3, <2>4, TaskTasks
<1>8. ASSUME NEW w \in Workers, WorkerStep(w) PROVE FreshJobs' /\ FreshTasks'
  <2>1. FreshJobs' /\ UNCHANGED orders
    BY <1>2, <1>4, <1>8, TaskFrame, WorkerAgents DEF Others
  <2>2. ASSUME NEW p \in polls[w], p \in PollRow, TaskClaimed(w, p) PROVE FreshTasks'
    <3>1. /\ tasks[p.task].status # "none"
          /\ \A i \in Tasks : i # p.task => tasks'[i] = tasks[i]
      BY <1>0, <2>2 DEF TaskClaimed, ClaimGate, PollRow, TasksOK
    <3>2. QED
      BY <1>0, <2>1, <3>1
  <2>3. QED
    BY <1>3, <1>8, <2>1, <2>2, WorkerTasks
<1>9. CompletionStep \/ MaintainTasks => FreshJobs' /\ FreshTasks'
  BY <1>0, <1>2, <1>3, <1>4, TaskFrame, CompletedTasks, CleanedTasks
  DEF Others, CompletionStep, CompleteArtifactTask, LoseCompletion, MaintainTasks
<1>10. SupplierCommand => FreshJobs' /\ FreshTasks'
  BY <1>2, <1>3, <1>4, <1>5, CommandedAuth, CommandedJobs, RevokedTasks
  DEF SupplierCommand, RotateCredential, SetSupplyState
<1>11. (\E t \in Tenants : EnsureUser(t)) \/ MaintainInference => FreshJobs' /\ FreshTasks'
  BY <1>0, <1>2, <1>3, <1>4, <1>5, SweptJobs DEF EnsureUser, MaintainInference, Rest
<1>12. QED
  BY <1>1, <1>6, <1>7, <1>8, <1>9, <1>10, <1>11 DEF Next, FreshRows

(* What a completed row keeps, and what completes a row. *)
LEMMA FailKeepsCompleted ==
  ASSUME JobsOK, NEW H \in SUBSET Jobs,
         jobs' = [i \in Jobs |-> IF i \in H THEN Failed(jobs[i]) ELSE jobs[i]]
  PROVE  \A i \in Jobs : jobs'[i].status = "completed" => jobs[i].status = "completed"
BY FailedType DEF JobsOK

LEMMA JobCompletes ==
  ASSUME IInv, Next, NEW i \in Jobs, jobs'[i].status = "completed", jobs[i].status # "completed"
  PROVE  SettleInference(i) /\ CompleteJobGate(i, calls[i].charge)
<1>0. JobsOK
  BY DEF IInv
<1>1. ASSUME NEW H \in SUBSET Jobs, jobs' = FailJobs(H) PROVE FALSE
  BY <1>0, <1>1, FailKeepsCompleted DEF FailJobs
<1>2. CleanupStaleInferenceReservations => FALSE
  BY <1>1 DEF CleanupStaleInferenceReservations
<1>3. SupplierCommand \/ MaintainInference => FALSE
  BY <1>1, <1>2
  DEF SupplierCommand, RevokeAuthorization, RotateCredential, SetSupplyState, MaintainInference
<1>4. PICK j \in Jobs : InferenceStep(j)
  BY <1>3, TaskFrame DEF Next, EnsureUser, Others
<1>5. ~UNCHANGED jobs /\ jobs[j] \in JobRow
  BY <1>0 DEF JobsOK
<1>6. FailInference(j) => FALSE
  BY <1>0, FailedType DEF FailInference, JobsOK
<1>7. ReserveInference(j) \/ StartInference(j) => FALSE
  BY <1>0, <1>5 DEF ReserveInference, StartInference, JobsOK, JobRow
<1>8. ReservationLapses(j) => FALSE
  BY <1>0, <1>5 DEF ReservationLapses, JobsOK, JobRow
<1>9. SettleInference(j)
  BY <1>2, <1>4, <1>5, <1>6, <1>7, <1>8
  DEF InferenceStep, BeginInference, SelectOffer, RefuseInference, GatewayAnswers, GatewayFails,
      LoseInference
<1>10. i = j /\ CompleteJobGate(j, calls[j].charge)
  BY <1>0, <1>5, <1>9 DEF SettleInference, JobsOK
<1>11. QED
  BY <1>9, <1>10

(* No row transition but the settlement batch writes "completed". *)
LEMMA RowsNotCompleted ==
  ASSUME NEW row \in TaskRow, row.status # "completed"
  PROVE  /\ SweptByClaim(row).status # "completed" /\ SweptByCleanup(row).status # "completed"
         /\ RevokedTask(row).status # "completed"
<1>1. /\ Erased(Unleased(row, "failed")).status = "failed"
      /\ Erased(Unleased(row, "cancelled")).status = "cancelled"
      /\ Unleased(row, "cancelled").status = "cancelled" /\ Requeued(row).status = "queued"
  BY UnleasedFields
<1>2. [Erased(row) EXCEPT !.cancel = TRUE].status = row.status
  BY AskedFields
<1>3. SweptByClaim(row).status # "completed"
  BY <1>1 DEF SweptByClaim
<1>4. SweptByCleanup(row).status # "completed"
  BY <1>1 DEF SweptByCleanup
<1>5. RevokedTask(row).status # "completed"
  BY <1>1, <1>2 DEF RevokedTask
<1>6. QED
  BY <1>3, <1>4, <1>5

LEMMA TaskCompletes ==
  ASSUME IInv, Next, NEW i \in Tasks, tasks'[i].status = "completed", tasks[i].status # "completed"
  PROVE  \E s \in settling : s.task = i /\ CompleteArtifactTask(s) /\ CompleteTaskGate(s)
<1>0. TasksOK /\ ~UNCHANGED tasks /\ tasks[i] \in TaskRow
  BY RowsAreRows DEF IInv
<1>1. tasks' = CleanupTasks => FALSE
  BY <1>0, RowsNotCompleted DEF CleanupTasks
<1>2. SupplierCommand => FALSE
  BY <1>0, RowsNotCompleted
  DEF SupplierCommand, RevokeAuthorization, RotateCredential, SetSupplyState
<1>3. ASSUME NEW w \in Workers, WorkerStep(w) PROVE FALSE
  <2>1. PollTask(w) => FALSE
    BY <1>0, RowsNotCompleted DEF PollTask
  <2>2. ASSUME NEW p \in polls[w], TaskClaimed(w, p) PROVE FALSE
    <3>1. p.task \in Tasks
      BY <1>3 DEF IInv, AgentsOK, PollRow
    <3>2. tasks[p.task] \in TaskRow
      BY <3>1, RowsAreRows
    <3>3. tasks'[p.task].status = "claimed" /\ \A k \in Tasks : k # p.task => tasks'[k] = tasks[k]
      BY <1>0, <2>2, <3>1, <3>2 DEF TaskClaimed, TasksOK, TaskRow
    <3>4. QED
      BY <3>3
  <2>3. QED
    BY <1>0, <1>3, <2>1, <2>2 DEF WorkerStep, ClaimTask, TaskClaimed, LosePoll, HeartbeatExpires
<1>4. ASSUME NEW t \in Tasks, TaskStep(t) PROVE FALSE
  <2>0. tasks[t] \in TaskRow
    BY RowsAreRows
  <2>1. ASSUME NEW row, tasks' = [tasks EXCEPT ![t] = row], row.status # "completed" PROVE FALSE
    BY <1>0, <2>1 DEF TasksOK
  <2>2. ReserveTask(t) => FALSE
    BY <1>0, <2>1 DEF ReserveTask, NoTask
  <2>3. CancelArtifactTask(t) => FALSE
    <3>1. SUFFICES ASSUME CancelArtifactTask(t) PROVE FALSE
      OBVIOUS
    <3> DEFINE asked == [Erased(tasks[t]) EXCEPT !.cancel = TRUE]
    <3>2. /\ tasks[t].status \in TaskActive
          /\ tasks' = [tasks EXCEPT ![t] = IF tasks[t].status = "queued"
                                           THEN Unleased(asked, "cancelled") ELSE asked]
      BY <3>1 DEF CancelArtifactTask
    <3>3. asked \in TaskRow /\ asked.status = tasks[t].status
      BY <2>0, AskedFields
    <3> HIDE DEF asked
    <3>4. Unleased(asked, "cancelled").status = "cancelled"
      BY <3>3, UnleasedFields
    <3>5. QED
      BY <2>1, <3>2, <3>3, <3>4 DEF TaskActive, TaskLeased
  <2>4. PurgeQueuedTask(t) => FALSE
    <3>1. [Erased(Unleased(tasks[t], "cancelled")) EXCEPT !.cancel = TRUE].status = "cancelled"
      BY <2>0 DEF Erased, Unleased, TaskRow
    <3>2. QED
      BY <2>1, <3>1 DEF PurgeQueuedTask
  <2>5. \A l, n : ~CheckpointArtifactTask(t, l, n)
    BY <1>0, <2>0 DEF CheckpointArtifactTask, TasksOK, TaskRow
  <2>6. \A l, r : ~FailArtifactTask(t, l, r)
    <3>1. /\ Unleased(tasks[t], "queued").status = "queued"
          /\ Erased(Unleased(tasks[t], "failed")).status = "failed"
      BY <2>0, UnleasedFields
    <3>2. QED
      BY <2>1, <3>1 DEF FailArtifactTask
  <2>7. \A l : ~AcknowledgeCancellation(t, l)
    <3>1. Unleased(tasks[t], "cancelled").status = "cancelled"
      BY <2>0, UnleasedFields
    <3>2. QED
      BY <2>1, <3>1 DEF AcknowledgeCancellation
  <2>8. LeaseLapses(t) \/ DeadlinePasses(t) \/ TaskAges(t) => FALSE
    BY <1>0, <2>0 DEF LeaseLapses, DeadlinePasses, TaskAges, TasksOK, TaskRow
  <2>9. QED
    BY <1>0, <1>1, <1>4, <2>2, <2>3, <2>4, <2>5, <2>6, <2>7, <2>8
    DEF TaskStep, OrderTask, LoseOrder, VerifyCompletion
<1>5. PICK s \in settling : CompleteArtifactTask(s) \/ LoseCompletion(s)
  BY <1>0, <1>1, <1>2, <1>3, <1>4, InferenceFrame
  DEF Next, CompletionStep, MaintainTasks, EnsureUser, MaintainInference, Rest
<1>6. CompleteArtifactTask(s) /\ CompleteTaskGate(s)
  BY <1>0, <1>5 DEF CompleteArtifactTask, LoseCompletion
<1>7. s.task = i
  BY <1>0, <1>6 DEF CompleteArtifactTask, TasksOK
<1>8. QED
  BY <1>6, <1>7

(* A completed row is never written again; a row changes its sale only when
   it is inserted. *)
LEMMA CompletedJobStays ==
  ASSUME IInv, FreshRows, Next, NEW i \in Jobs, jobs[i].status = "completed"
  PROVE  /\ jobs'[i].status = "completed" /\ jobs'[i].buyer = jobs[i].buyer
         /\ jobs'[i].offer = jobs[i].offer /\ jobs'[i].reserved = jobs[i].reserved
<1>1. CASE QuietJobs
  BY <1>1 DEF QuietJobs, JobQuiet
<1>2. ASSUME NEW j \in Jobs, JobReserves(j) PROVE jobs'[i] = jobs[i]
  <2>1. jobs[j].status = "none"
    BY <1>2 DEF JobReserves, FreshRows, FreshCall
  <2>2. QED
    BY <1>2, <2>1 DEF JobReserves, IInv, JobsOK
<1>3. QED
  BY <1>1, <1>2, JobsMove

LEMMA CompletedTaskStays ==
  ASSUME IInv, FreshRows, Next, NEW i \in Tasks, tasks[i].status = "completed"
  PROVE  tasks'[i].status = "completed" /\ SameSale(tasks'[i], tasks[i])
<1>0. TasksOK
  BY DEF IInv
<1>1. CASE QuietTasks
  BY <1>1 DEF QuietTasks, RowQuiet, TaskTerminal
<1>2. ASSUME NEW t \in Tasks, TaskReserves(t) PROVE tasks'[i] = tasks[i]
  <2>1. tasks[t].status = "none"
    BY <1>2 DEF TaskReserves, FreshRows
  <2>2. QED
    BY <1>0, <1>2, <2>1 DEF TaskReserves, TasksOK
<1>3. ASSUME NEW w, NEW p \in PollRow, TaskClaimed(w, p) PROVE tasks'[i] = tasks[i]
  BY <1>0, <1>3 DEF TaskClaimed, ClaimGate, PollRow, TasksOK
<1>4. QED
  BY <1>1, <1>2, <1>3, TasksMove DEF SameSale

(* A first settlement is posted whole, and under its own reference only. *)
LEMMA PostedWhole ==
  ASSUME NEW r, NEW buyer, NEW supplier, NEW c, Post(SettlementEntries(r, buyer, supplier, c))
  PROVE  /\ EntriesIn(ledger, r) = {} =>
              EntriesIn(ledger', r) = SettlementEntries(r, buyer, supplier, c)
         /\ \A q : q # r => EntriesIn(ledger', q) = EntriesIn(ledger, q)
<1> DEFINE S == SettlementEntries(r, buyer, supplier, c)
<1>1. \A e \in S : e.ref = r
  BY DEF SettlementEntries
<1> HIDE DEF S
<1>2. ledger' = ledger \cup {e \in S : \A f \in ledger : ~(f.ref = e.ref /\ f.type = e.type)}
  BY DEF Post, S
<1>3. EntriesIn(ledger, r) = {} => EntriesIn(ledger', r) = S
  BY <1>1, <1>2 DEF EntriesIn
<1>4. \A q : q # r => EntriesIn(ledger', q) = EntriesIn(ledger, q)
  BY <1>1, <1>2 DEF EntriesIn
<1>5. QED
  BY <1>3, <1>4 DEF S

(* The credit of a tenant is nobody's settlement. *)
LEMMA WelcomePosts ==
  ASSUME NEW t \in Tenants, EnsureUser(t), NEW r \in Jobs \cup Tasks
  PROVE  EntriesIn(ledger', r) = EntriesIn(ledger, r)
<1>1. r # t
  BY SetAssumption
<1>2. QED
  BY <1>1 DEF EnsureUser, Post, WelcomeEntry, EntriesIn

LEMMA NextWhole ==
  IInv /\ FreshRows /\ WholeSettlements /\ [Next]_vars => WholeSettlements'
<1> SUFFICES ASSUME IInv, FreshRows, WholeSettlements, [Next]_vars PROVE WholeSettlements'
  OBVIOUS
<1>0. TasksOK /\ JobsOK
  BY DEF IInv
<1>1. CASE UNCHANGED vars
  BY <1>1 DEF vars, WholeSettlements
(* A row that this step does not settle, under a ledger that keeps its entries. *)
<1>2. ASSUME Next, NEW i \in Jobs, EntriesIn(ledger', i) = EntriesIn(ledger, i),
             ~(SettleInference(i) /\ CompleteJobGate(i, calls[i].charge))
      PROVE  WholeIn(ledger', i, jobs'[i])
  <2>1. WholeIn(ledger, i, jobs[i])
    BY DEF WholeSettlements
  <2>2. CASE jobs[i].status = "completed"
    BY <1>2, <2>1, <2>2, CompletedJobStays DEF WholeIn
  <2>3. CASE jobs[i].status # "completed"
    BY <1>2, <2>1, <2>3, JobCompletes DEF WholeIn
  <2>4. QED
    BY <2>2, <2>3
<1>3. ASSUME Next, NEW i \in Tasks, EntriesIn(ledger', i) = EntriesIn(ledger, i),
             \A s \in settling : s.task = i => ~(CompleteArtifactTask(s) /\ CompleteTaskGate(s))
      PROVE  WholeIn(ledger', i, tasks'[i])
  <2>1. WholeIn(ledger, i, tasks[i])
    BY DEF WholeSettlements
  <2>2. CASE tasks[i].status = "completed"
    BY <1>3, <2>1, <2>2, CompletedTaskStays DEF WholeIn, SameSale
  <2>3. CASE tasks[i].status # "completed"
    BY <1>3, <2>1, <2>3, TaskCompletes DEF WholeIn
  <2>4. QED
    BY <2>2, <2>3
<1>4. ASSUME Next, NEW j \in Jobs, SettleInference(j), CompleteJobGate(j, calls[j].charge)
      PROVE  WholeSettlements'
  <2> DEFINE ch == calls[j].charge
  <2>1. /\ Post(SettlementEntries(j, jobs[j].buyer, OfferTenant(jobs[j].offer), ch))
        /\ jobs' = [jobs EXCEPT ![j].status = "completed"] /\ UNCHANGED tasks
    BY <1>4 DEF SettleInference, Rest
  <2>2. jobs[j].status = "running" /\ jobs[j] \in JobRow /\ ch \in Nat /\ ch <= jobs[j].reserved
    BY <1>0, <1>4, JobParties DEF CompleteJobGate, JobsOK
  <2>3. EntriesIn(ledger, j) = {}
    BY <2>2 DEF WholeSettlements, WholeIn
  <2>4. /\ jobs'[j].status = "completed" /\ jobs'[j].buyer = jobs[j].buyer
        /\ jobs'[j].offer = jobs[j].offer /\ jobs'[j].reserved = jobs[j].reserved
    BY <1>0, <2>1, <2>2 DEF JobsOK, JobRow
  <2>5. /\ EntriesIn(ledger', j) = SettlementEntries(j, jobs[j].buyer, OfferTenant(jobs[j].offer), ch)
        /\ \A q : q # j => EntriesIn(ledger', q) = EntriesIn(ledger, q)
    BY <2>1, <2>3, PostedWhole
  <2>6. ch \in 0..jobs'[j].reserved
    BY <2>2, <2>4 DEF JobRow
  <2>7. WholeIn(ledger', j, jobs'[j])
    <3> HIDE DEF ch
    <3>1. QED
      BY <2>4, <2>5, <2>6 DEF WholeIn
  <2>8. \A i \in Jobs : i # j => jobs'[i] = jobs[i]
    BY <1>0, <2>1 DEF JobsOK
  <2>9. ASSUME NEW i \in Jobs, i # j PROVE WholeIn(ledger', i, jobs'[i])
    BY <2>5, <2>8, <2>9 DEF WholeSettlements, WholeIn
  <2>10. ASSUME NEW i \in Tasks PROVE WholeIn(ledger', i, tasks'[i])
    <3>1. i # j
      BY SetAssumption
    <3>2. QED
      BY <2>1, <2>5, <3>1 DEF WholeSettlements, WholeIn
  <2>11. QED
    BY <2>7, <2>9, <2>10 DEF WholeSettlements
<1>5. ASSUME Next, NEW s \in settling, CompleteArtifactTask(s), CompleteTaskGate(s)
      PROVE  WholeSettlements'
  <2> DEFINE t == s.task
             row == tasks[t]
             ch == s.charge
  <2>0. row.status \in TaskLeased /\ row.status # "none" /\ row.status # "completed"
    BY <1>5 DEF CompleteTaskGate, LeaseValid, TaskLeased
  <2>1. /\ Post(SettlementEntries(t, row.buyer, OfferTenant(row.offer), ch))
        /\ tasks' = [tasks EXCEPT ![t] = Erased(Unleased(row, "completed"))] /\ UNCHANGED jobs
    BY <1>5 DEF CompleteArtifactTask, Others
  <2>2. t \in Tasks /\ TaskRowOK(row) /\ ch \in Nat /\ ch <= row.reserved
    BY <1>0, <1>5, <2>0, TaskParties DEF CompleteTaskGate, TasksOK
  <2>3. EntriesIn(ledger, t) = {}
    BY <2>0, <2>2 DEF WholeSettlements, WholeIn
  <2>4. /\ tasks'[t].status = "completed" /\ tasks'[t].buyer = row.buyer
        /\ tasks'[t].offer = row.offer /\ tasks'[t].reserved = row.reserved
    <3>1. tasks'[t] = Erased(Unleased(row, "completed"))
      BY <1>0, <2>1, <2>2 DEF TasksOK
    <3>2. QED
      BY <2>0, <2>2, <3>1, EndedRow DEF SameSale, TaskTerminal
  <2>5. /\ EntriesIn(ledger', t) = SettlementEntries(t, row.buyer, OfferTenant(row.offer), ch)
        /\ \A q : q # t => EntriesIn(ledger', q) = EntriesIn(ledger, q)
    BY <2>1, <2>3, PostedWhole
  <2>6. ch \in 0..tasks'[t].reserved
    BY <2>2, <2>4 DEF TaskRowOK, TaskRow
  <2>7. WholeIn(ledger', t, tasks'[t])
    <3> HIDE DEF ch, row
    <3>1. QED
      BY <2>4, <2>5, <2>6 DEF WholeIn
  <2>8. \A i \in Tasks : i # t => tasks'[i] = tasks[i]
    BY <1>0, <2>1 DEF TasksOK
  <2>9. ASSUME NEW i \in Tasks, i # t PROVE WholeIn(ledger', i, tasks'[i])
    BY <2>5, <2>8, <2>9 DEF WholeSettlements, WholeIn
  <2>10. ASSUME NEW i \in Jobs PROVE WholeIn(ledger', i, jobs'[i])
    <3>1. i # t
      BY <2>2, SetAssumption
    <3>2. QED
      BY <2>1, <2>5, <3>1 DEF WholeSettlements, WholeIn
  <2>11. QED
    BY <2>7, <2>9, <2>10 DEF WholeSettlements
<1>6. ASSUME Next, UNCHANGED ledger \/ \E t \in Tenants : EnsureUser(t),
             \A j \in Jobs : ~(SettleInference(j) /\ CompleteJobGate(j, calls[j].charge)),
             \A s \in settling : ~(CompleteArtifactTask(s) /\ CompleteTaskGate(s))
      PROVE  WholeSettlements'
  <2>1. \A r \in Jobs \cup Tasks : EntriesIn(ledger', r) = EntriesIn(ledger, r)
    BY <1>6, WelcomePosts
  <2>2. QED
    BY <1>2, <1>3, <1>6, <2>1 DEF WholeSettlements
<1>7. QED
  BY <1>1, <1>4, <1>5, <1>6, LedgerMove

(* INSERT OR IGNORE under the unique (buyer, idempotency key). *)
LEMMA NextKeys == IInv /\ OneRowPerKey /\ [Next]_vars => OneRowPerKey'
<1> SUFFICES ASSUME IInv, OneRowPerKey, [Next]_vars,
                    NEW i \in Jobs, NEW k \in Jobs, i # k,
                    jobs'[i].status # "none", jobs'[k].status # "none",
                    jobs'[i].buyer = jobs'[k].buyer
             PROVE  jobs'[i].key # jobs'[k].key
  BY DEF OneRowPerKey
<1>1. CASE UNCHANGED vars
  BY <1>1 DEF vars, OneRowPerKey
<1>2. CASE QuietJobs
  BY <1>2 DEF QuietJobs, JobQuiet, OneRowPerKey
<1>3. ASSUME NEW j \in Jobs, JobReserves(j) PROVE jobs'[i].key # jobs'[k].key
  <2>1. /\ jobs'[j].buyer = calls[j].buyer /\ jobs'[j].key = calls[j].key
        /\ \A n \in Jobs : n # j => jobs'[n] = jobs[n]
    BY <1>3 DEF JobReserves, IInv, JobsOK
  <2>2. \A n \in Jobs : jobs[n].status # "none" /\ jobs[n].buyer = calls[j].buyer
                          => jobs[n].key # calls[j].key
    BY <1>3 DEF JobReserves, ReserveGate, KeyTaken
  <2>3. QED
    BY <2>1, <2>2 DEF OneRowPerKey
<1>4. QED
  BY <1>1, <1>2, <1>3, JobsMove

LEMMA InitSettled == Init => SInv
<1> SUFFICES ASSUME Init PROVE SInv
  OBVIOUS
<1>1. (\A j \in Jobs : jobs[j].status = "none") /\ (\A t \in Tasks : tasks[t].status = "none")
  BY DEF Init, InferenceInit, TasksInit, NoJob, NoTask
<1>2. FreshRows /\ OneRowPerKey
  BY <1>1 DEF FreshRows, OneRowPerKey
<1>3. WholeSettlements
  BY <1>1 DEF Init, WholeSettlements, WholeIn, EntriesIn
<1>4. QED
  BY <1>2, <1>3, InitIInv DEF SInv

LEMMA NextSettled == SInv /\ [Next]_vars => SInv'
BY NextIInv, NextFresh, NextWhole, NextKeys DEF SInv

(* What completes is settled once and whole: a completed job or task has
   exactly the entries of one settlement, of at most its reservation, every
   other row has none, and racing requests under one idempotency key of a
   buyer come to one row, for any fee and any amounts. *)
THEOREM SettlementSafe == Spec => []SettledOnceAndWhole
<1>1. SInv => SettledOnceAndWhole
  BY SettledParts DEF SInv
<1>2. QED
  BY <1>1, InitSettled, NextSettled, PTL DEF Spec

---------------------------------------------------------------------------
(* The marketplace as an escrow account. *)

(* Nobody buys from himself: the two ends of a settlement differ. *)
OthersBuy ==
  /\ \A j \in Jobs : jobs[j].status # "none" => OfferTenant(jobs[j].offer) # jobs[j].buyer
  /\ \A t \in Tasks : tasks[t].status # "none" => OfferTenant(tasks[t].offer) # tasks[t].buyer

(* Under the name of a tenant the ledger has nothing but the credit. *)
Welcomed == \A e \in ledger : e.ref \in Tenants => e = WelcomeEntry(e.ref)

(* What a request is about to reserve was estimated. *)
Estimated ==
  /\ \A j \in Jobs : calls[j].phase = "selected" => calls[j].estimate \in Estimates
  /\ \A t \in Tasks : orders[t].phase = "selected" => orders[t].estimate \in Estimates

EInv == SInv /\ OthersBuy /\ Welcomed /\ Estimated

LEMMA NextOthersBuy ==
  ASSUME IInv, FreshRows, OthersBuy, [Next]_vars
  PROVE  OthersBuy'
<1> DEFINE J == \A j \in Jobs : jobs[j].status # "none" => OfferTenant(jobs[j].offer) # jobs[j].buyer
           T == \A t \in Tasks : tasks[t].status # "none" => OfferTenant(tasks[t].offer) # tasks[t].buyer
<1>0. J /\ T /\ JobsOK /\ TasksOK
  BY DEF OthersBuy, IInv
<1>1. CASE UNCHANGED vars
  BY <1>1 DEF vars, OthersBuy, OfferTenant
<1>2. ASSUME Next PROVE J'
  <2>1. QuietJobs => J'
    BY <1>0 DEF QuietJobs, JobQuiet, OfferTenant
  <2>2. ASSUME NEW j \in Jobs, JobReserves(j) PROVE J'
    <3>1. /\ jobs'[j].buyer = calls[j].buyer /\ jobs'[j].offer = calls[j].offer
          /\ \A i \in Jobs : i # j => jobs'[i] = jobs[i]
      BY <1>0, <2>2 DEF JobReserves, JobsOK
    <3>2. OfferTenant(calls[j].offer) # calls[j].buyer
      BY <2>2 DEF JobReserves, ReserveGate, OfferSells
    <3>3. QED
      BY <1>0, <3>1, <3>2 DEF OfferTenant
  <2>3. QED
    BY <1>2, <2>1, <2>2, JobsMove
<1>3. ASSUME Next PROVE T'
  <2>1. QuietTasks => T'
    BY <1>0 DEF QuietTasks, RowQuiet, SameSale, OfferTenant
  <2>2. ASSUME NEW t \in Tasks, TaskReserves(t) PROVE T'
    <3>1. /\ tasks'[t].buyer = orders[t].buyer /\ tasks'[t].offer = orders[t].offer
          /\ \A i \in Tasks : i # t => tasks'[i] = tasks[i]
      BY <1>0, <2>2 DEF TaskReserves, TasksOK, NoTask
    <3>2. OfferTenant(orders[t].offer) # orders[t].buyer
      BY <2>2 DEF TaskReserves, ReserveTaskGate, OfferSells
    <3>3. QED
      BY <1>0, <3>1, <3>2 DEF OfferTenant
  <2>3. ASSUME NEW w, NEW p \in PollRow, TaskClaimed(w, p) PROVE T'
    <3>0. p.task \in Tasks /\ tasks[p.task] \in TaskRow /\ tasks[p.task].status = "queued"
      BY <1>0, <2>3 DEF PollRow, TasksOK, TaskRowOK, TaskClaimed, ClaimGate
    <3>1. /\ tasks'[p.task].buyer = tasks[p.task].buyer /\ tasks'[p.task].offer = tasks[p.task].offer
          /\ \A i \in Tasks : i # p.task => tasks'[i] = tasks[i]
      BY <1>0, <2>3, <3>0 DEF TaskClaimed, TasksOK, TaskRow
    <3>2. QED
      BY <1>0, <3>0, <3>1 DEF OfferTenant
  <2>4. QED
    BY <1>3, <2>1, <2>2, <2>3, TasksMove
<1>4. QED
  BY <1>1, <1>2, <1>3 DEF OthersBuy

LEMMA NextWelcomed ==
  ASSUME IInv, Welcomed, [Next]_vars
  PROVE  Welcomed'
<1> DEFINE W(L) == \A e \in L : e.ref \in Tenants => e = WelcomeEntry(e.ref)
<1>0. Welcomed <=> W(ledger)
  BY DEF Welcomed
<1>1. Welcomed' <=> W(ledger')
  BY DEF Welcomed, WelcomeEntry
<1>2. ASSUME NEW E, Post(E), W(E) PROVE W(ledger')
  BY <1>0, <1>2 DEF Post
<1>3. ASSUME NEW r, r \notin Tenants, NEW b, NEW s, NEW c PROVE W(SettlementEntries(r, b, s, c))
  BY <1>3 DEF SettlementEntries
<1>4. ASSUME NEW t \in Tenants, EnsureUser(t) PROVE W(ledger')
  <2>1. Post({WelcomeEntry(t)}) /\ W({WelcomeEntry(t)})
    BY <1>4 DEF EnsureUser, WelcomeEntry
  <2>2. QED
    BY <1>2, <2>1
<1>5. ASSUME NEW j \in Jobs, SettleInference(j), CompleteJobGate(j, calls[j].charge) PROVE W(ledger')
  <2>1. Post(SettlementEntries(j, jobs[j].buyer, OfferTenant(jobs[j].offer), calls[j].charge))
    BY <1>5 DEF SettleInference
  <2>2. j \notin Tenants
    BY SetAssumption
  <2>3. QED
    BY <1>2, <1>3, <2>1, <2>2
<1>6. ASSUME NEW s \in settling, CompleteArtifactTask(s), CompleteTaskGate(s) PROVE W(ledger')
  <2>1. Post(SettlementEntries(s.task, tasks[s.task].buyer, OfferTenant(tasks[s.task].offer), s.charge))
    BY <1>6 DEF CompleteArtifactTask
  <2>2. s.task \notin Tenants
    BY <1>6, SetAssumption DEF IInv, AgentsOK, Settling
  <2>3. QED
    BY <1>2, <1>3, <2>1, <2>2
<1>7. UNCHANGED ledger => W(ledger')
  BY <1>0
<1>8. QED
  BY <1>1, <1>4, <1>5, <1>6, <1>7, LedgerMove DEF vars

LEMMA NextEstimated ==
  ASSUME IInv, Estimated, [Next]_vars
  PROVE  Estimated'
<1> DEFINE C == \A j \in Jobs : calls[j].phase = "selected" => calls[j].estimate \in Estimates
           O == \A t \in Tasks : orders[t].phase = "selected" => orders[t].estimate \in Estimates
<1>0. C /\ O /\ calls \in [Jobs -> CallRow] /\ orders \in [Tasks -> OrderRow]
  BY DEF Estimated, IInv, CallsOK, OrdersOK
<1>1. UNCHANGED calls => C'
  BY <1>0
<1>2. UNCHANGED orders => O'
  BY <1>0
<1>3. ASSUME NEW j \in Jobs, InferenceStep(j) PROVE C'
  <2>1. Return(j) => C'
    BY <1>0 DEF Return, CallRow
  <2>2. ASSUME NEW b, NEW k, BeginInference(j, b, k) PROVE C'
    BY <1>0, <2>2 DEF BeginInference, NoCall
  <2>3. ASSUME NEW o, NEW e \in Estimates, SelectOffer(j, o, e) PROVE C'
    BY <1>0, <2>3 DEF SelectOffer, CallRow
  <2>4. ReserveInference(j) \/ StartInference(j) \/ GatewayFails(j) \/ SettleInference(j) => C'
    BY <1>0, <2>1 DEF ReserveInference, StartInference, GatewayFails, SettleInference, CallRow
  <2>5. ASSUME NEW c, GatewayAnswers(j, c) PROVE C'
    BY <1>0, <2>5 DEF GatewayAnswers, CallRow
  <2>6. RefuseInference(j) \/ FailInference(j) \/ LoseInference(j) \/ ReservationLapses(j) => C'
    BY <1>1, <2>1 DEF RefuseInference, FailInference, LoseInference, ReservationLapses
  <2>7. QED
    BY <1>3, <2>2, <2>3, <2>4, <2>5, <2>6 DEF InferenceStep
<1>4. ASSUME NEW t \in Tasks, TaskStep(t) PROVE O'
  <2>1. ASSUME NEW b, NEW o, NEW e \in Estimates, OrderTask(t, b, o, e) PROVE O'
    BY <1>0, <2>1 DEF OrderTask
  <2>2. ReserveTask(t) \/ LoseOrder(t) => O'
    BY <1>0 DEF ReserveTask, LoseOrder, OrderRow
  <2>3. QED
    BY <1>2, <1>4, <2>1, <2>2 DEF TaskStep, CancelArtifactTask, PurgeQueuedTask,
       CheckpointArtifactTask, FailArtifactTask, VerifyCompletion, AcknowledgeCancellation,
       LeaseLapses, DeadlinePasses, TaskAges
<1>5. SupplierCommand => UNCHANGED <<calls, orders>>
  BY DEF SupplierCommand, RevokeAuthorization, RotateCredential, SetSupplyState
<1>6. ASSUME NEW w \in Workers, WorkerStep(w) PROVE UNCHANGED <<calls, orders>>
  BY <1>6, TaskFrame, WorkerAgents DEF Others
<1>7. CompletionStep \/ MaintainTasks => UNCHANGED <<calls, orders>>
  BY DEF CompletionStep, CompleteArtifactTask, LoseCompletion, MaintainTasks, Others
<1>8. QED
  <2>1. ASSUME Next PROVE C' /\ O'
    <3>1. ASSUME NEW t \in Tasks, TaskStep(t) PROVE C' /\ O'
      BY <1>1, <1>4, <3>1, TaskFrame DEF Others
    <3>2. ASSUME NEW j \in Jobs, InferenceStep(j) PROVE C' /\ O'
      BY <1>2, <1>3, <3>2, InferenceFrame DEF Rest
    <3>3. QED
      BY <1>1, <1>2, <1>5, <1>6, <1>7, <2>1, <3>1, <3>2 DEF Next, EnsureUser, MaintainInference, Rest
  <2>2. UNCHANGED vars => C' /\ O'
    BY <1>1, <1>2 DEF vars
  <2>3. QED
    BY <2>1, <2>2 DEF Estimated

LEMMA InitEscrow == Init => EInv
<1> SUFFICES ASSUME Init PROVE EInv
  OBVIOUS
<1>1. OthersBuy /\ Welcomed /\ Estimated
  BY DEF Init, InferenceInit, TasksInit, NoJob, NoTask, NoCall, NoOrder, OthersBuy, Welcomed, Estimated
<1>2. QED
  BY <1>1, InitSettled DEF EInv

LEMMA NextEscrow == EInv /\ [Next]_vars => EInv'
BY NextSettled, NextOthersBuy, NextWelcomed, NextEstimated DEF EInv, SInv

LEMMA AlwaysEInv == Spec => []EInv
BY InitEscrow, NextEscrow, PTL DEF Spec

---------------------------------------------------------------------------
(* Row by row: a hold stays, ends, or is new. *)

Kept(r) ==
  /\ Holding(r)' <=> Holding(r)
  /\ Ended(r)' <=> Ended(r)
  /\ Holding(r) => HoldOf(r)' = HoldOf(r)
Ends(r) == Holding(r) /\ ~Holding(r)' /\ ~Ended(r) /\ Ended(r)'
Joins(r) == ~Holding(r) /\ Holding(r)' /\ ~Ended(r) /\ ~Ended(r)'

LEMMA JobKeptOrEnds ==
  ASSUME JobsOK, JobsOK', QuietJobs, NEW j \in Jobs
  PROVE  Kept(j) \/ Ends(j)
<1>1. JobQuiet(jobs'[j], jobs[j]) /\ jobs[j] \in JobRow /\ jobs'[j] \in JobRow
  BY DEF QuietJobs, JobsOK
<1>2. HoldOf(j) = [ref |-> j, owner |-> jobs[j].buyer, amount |-> jobs[j].reserved]
  BY DEF HoldOf, RowOf
<1>3. HoldOf(j)' = [ref |-> j, owner |-> jobs'[j].buyer, amount |-> jobs'[j].reserved]
  BY DEF HoldOf, RowOf
<1>4. /\ Holding(j) <=> jobs[j].status \in JobActive
      /\ Holding(j)' <=> jobs'[j].status \in JobActive
      /\ Ended(j) <=> jobs[j].status \in {"completed", "failed"}
      /\ Ended(j)' <=> jobs'[j].status \in {"completed", "failed"}
  BY DEF Holding, Ended
<1>5. HoldOf(j)' = HoldOf(j)
  BY <1>1, <1>2, <1>3 DEF JobQuiet
<1>6. CASE jobs'[j].status = jobs[j].status
  BY <1>4, <1>5, <1>6 DEF Kept
<1>7. CASE jobs'[j].status # jobs[j].status
  <2>1. jobs[j].status \in JobActive
    BY <1>1, <1>7 DEF JobQuiet, JobRow
  <2>2. CASE jobs'[j].status \in JobActive
    BY <1>4, <1>5, <2>1, <2>2 DEF Kept, JobActive
  <2>3. CASE jobs'[j].status \notin JobActive
    <3>1. jobs'[j].status \in {"completed", "failed"}
      BY <1>1, <2>1, <2>3 DEF JobQuiet, JobRow, JobActive
    <3>2. QED
      BY <1>4, <2>1, <2>3, <3>1 DEF Ends, JobActive
  <2>4. QED
    BY <2>2, <2>3
<1>8. QED
  BY <1>6, <1>7

LEMMA TaskMeaning ==
  ASSUME NEW t \in Tasks
  PROVE  /\ HoldOf(t) = [ref |-> t, owner |-> tasks[t].buyer, amount |-> tasks[t].reserved]
         /\ HoldOf(t)' = [ref |-> t, owner |-> tasks'[t].buyer, amount |-> tasks'[t].reserved]
         /\ Holding(t) <=> tasks[t].status \in TaskActive
         /\ Holding(t)' <=> tasks'[t].status \in TaskActive
         /\ Ended(t) <=> tasks[t].status \in TaskTerminal
         /\ Ended(t)' <=> tasks'[t].status \in TaskTerminal
<1>1. t \notin Jobs
  BY SetAssumption
<1>2. QED
  BY <1>1 DEF HoldOf, RowOf, Holding, Ended

LEMMA TaskKeptOrEnds ==
  ASSUME TasksOK, TasksOK', NEW t \in Tasks, RowQuiet(tasks'[t], tasks[t])
  PROVE  Kept(t) \/ Ends(t)
<1>1. tasks[t] \in TaskRow /\ tasks'[t] \in TaskRow
  BY DEF TasksOK, TaskRowOK
<1>2. HoldOf(t)' = HoldOf(t)
  BY TaskMeaning DEF RowQuiet, SameSale
<1>3. CASE tasks[t].status \in TaskTerminal \cup {"none"}
  BY <1>2, <1>3, TaskMeaning DEF RowQuiet, Kept
<1>4. CASE tasks[t].status \in TaskActive
  <2>1. CASE tasks'[t].status \in TaskActive
    BY <1>2, <1>4, <2>1, TaskMeaning DEF Kept, TaskActive, TaskLeased, TaskTerminal
  <2>2. CASE tasks'[t].status \notin TaskActive
    <3>1. tasks'[t].status \in TaskTerminal
      BY <1>1, <1>4, <2>2 DEF RowQuiet, TaskRow, TaskActive, TaskLeased
    <3>2. QED
      BY <1>4, <2>2, <3>1, TaskMeaning DEF Ends, TaskActive, TaskLeased, TaskTerminal
  <2>3. QED
    BY <2>1, <2>2
<1>5. QED
  BY <1>1, <1>3, <1>4 DEF TaskRow

LEMMA SameRowsKept ==
  /\ UNCHANGED jobs => \A j \in Jobs : Kept(j)
  /\ UNCHANGED tasks => \A t \in Tasks : Kept(t)
<1>1. ASSUME UNCHANGED jobs, NEW j \in Jobs PROVE Kept(j)
  BY <1>1 DEF Kept, Holding, Ended, HoldOf, RowOf
<1>2. ASSUME UNCHANGED tasks, NEW t \in Tasks PROVE Kept(t)
  BY <1>2, TaskMeaning DEF Kept
<1>3. QED
  BY <1>1, <1>2

(* What every row does in one step. *)
LEMMA RowsMove ==
  ASSUME EInv, EInv', Next
  PROVE  \/ \A r \in Jobs \cup Tasks : Kept(r) \/ Ends(r)
         \/ \E j \in Jobs : /\ JobReserves(j) /\ UNCHANGED <<ledger, tasks>>
                            /\ Joins(j) /\ \A r \in (Jobs \cup Tasks) \ {j} : Kept(r)
         \/ \E t \in Tasks : /\ TaskReserves(t) /\ UNCHANGED <<ledger, jobs>>
                             /\ Joins(t) /\ \A r \in (Jobs \cup Tasks) \ {t} : Kept(r)
<1>0. IInv /\ FreshRows /\ JobsOK /\ TasksOK /\ JobsOK' /\ TasksOK'
  BY DEF EInv, SInv, IInv
<1>1. CASE QuietJobs /\ QuietTasks
  BY <1>0, <1>1, JobKeptOrEnds, TaskKeptOrEnds DEF QuietTasks
<1>2. ASSUME NEW j \in Jobs, JobReserves(j), UNCHANGED <<ledger, tasks>>
      PROVE  Joins(j) /\ \A r \in (Jobs \cup Tasks) \ {j} : Kept(r)
  <2>1. jobs[j].status = "none"
    BY <1>0, <1>2 DEF JobReserves, FreshRows, FreshCall
  <2>2. jobs'[j].status = "reserved" /\ \A i \in Jobs \ {j} : jobs'[i] = jobs[i]
    BY <1>0, <1>2 DEF JobReserves, JobsOK
  <2>3. Joins(j)
    BY <2>1, <2>2 DEF Joins, Holding, Ended, JobActive
  <2>4. \A i \in Jobs \ {j} : Kept(i)
    BY <2>2 DEF Kept, Holding, Ended, HoldOf, RowOf
  <2>5. QED
    BY <1>2, <2>3, <2>4, SameRowsKept
<1>3. ASSUME NEW t \in Tasks, TaskReserves(t), UNCHANGED <<ledger, jobs>>
      PROVE  Joins(t) /\ \A r \in (Jobs \cup Tasks) \ {t} : Kept(r)
  <2>1. tasks[t].status = "none"
    BY <1>0, <1>3 DEF TaskReserves, FreshRows
  <2>2. tasks'[t].status = "queued" /\ \A i \in Tasks \ {t} : tasks'[i] = tasks[i]
    BY <1>0, <1>3 DEF TaskReserves, TasksOK, NoTask
  <2>3. Joins(t)
    BY <2>1, <2>2, TaskMeaning DEF Joins, TaskActive, TaskLeased, TaskTerminal
  <2>4. \A i \in Tasks \ {t} : Kept(i)
    BY <2>2, TaskMeaning DEF Kept
  <2>5. QED
    BY <1>3, <2>3, <2>4, SameRowsKept
<1>4. ASSUME NEW w \in Workers, NEW p \in polls[w], p \in PollRow, TaskClaimed(w, p),
             UNCHANGED <<ledger, jobs>>
      PROVE  \A r \in Jobs \cup Tasks : Kept(r)
  <2>1. p.task \in Tasks /\ tasks[p.task] \in TaskRow /\ tasks[p.task].status = "queued"
    BY <1>0, <1>4 DEF PollRow, TasksOK, TaskRowOK, TaskClaimed, ClaimGate
  <2>2. /\ tasks'[p.task].status = "claimed"
        /\ tasks'[p.task].buyer = tasks[p.task].buyer
        /\ tasks'[p.task].reserved = tasks[p.task].reserved
        /\ \A i \in Tasks \ {p.task} : tasks'[i] = tasks[i]
    BY <1>0, <1>4, <2>1 DEF TaskClaimed, TasksOK, TaskRow
  <2>3. ASSUME NEW i \in Tasks PROVE Kept(i)
    <3>1. CASE i = p.task
      BY <2>1, <2>2, <3>1, TaskMeaning DEF Kept, TaskActive, TaskLeased, TaskTerminal
    <3>2. CASE i # p.task
      BY <2>2, <3>2, TaskMeaning DEF Kept
    <3>3. QED
      BY <3>1, <3>2
  <2>4. QED
    BY <1>4, <2>3, SameRowsKept
<1>5. QED
  BY <1>0, <1>1, <1>2, <1>3, <1>4, StepKinds

---------------------------------------------------------------------------
(* What rows that stay, end or join make of the holds. *)

HoldsAreRows ==
  /\ \A h : h \in Holds <=> \E r \in Jobs \cup Tasks : Holding(r) /\ h = HoldOf(r)
  /\ \A r : r \in Closed <=> r \in Jobs \cup Tasks /\ Ended(r)
  /\ \A r : HoldOf(r).ref = r

LEMMA HoldsOfRows == HoldsAreRows
<1>1. \A h : h \in Holds <=> \E r \in Jobs \cup Tasks : Holding(r) /\ h = HoldOf(r)
  BY DEF Holds
<1>2. \A r : r \in Closed <=> r \in Jobs \cup Tasks /\ Ended(r)
  BY DEF Closed
<1>3. \A r : HoldOf(r).ref = r
  BY DEF HoldOf
<1>4. QED
  BY <1>1, <1>2, <1>3 DEF HoldsAreRows

LEMMA HoldsMeaning ==
  /\ \A h : h \in Holds <=> \E r \in Jobs \cup Tasks : Holding(r) /\ h = HoldOf(r)
  /\ \A h : h \in Holds' <=> \E r \in Jobs \cup Tasks : Holding(r)' /\ h = HoldOf(r)'
  /\ \A r : r \in Closed <=> r \in Jobs \cup Tasks /\ Ended(r)
  /\ \A r : r \in Closed' <=> r \in Jobs \cup Tasks /\ Ended(r)'
  /\ \A r : HoldOf(r).ref = r /\ HoldOf(r)'.ref = r
<1>1. HoldsAreRows /\ HoldsAreRows'
  BY HoldsOfRows, PTL
<1>2. QED
  BY <1>1 DEF HoldsAreRows

LEMMA HoldsKeptOrEnded ==
  ASSUME \A r \in Jobs \cup Tasks : Kept(r) \/ Ends(r)
  PROVE  /\ Holds' = Holds \ (Holds \ Holds')
         /\ Closed' = Closed \cup {h.ref : h \in Holds \ Holds'}
<1>1. ASSUME NEW h \in Holds' PROVE h \in Holds
  BY HoldsMeaning DEF Kept, Ends
<1>2. ASSUME NEW r \in Jobs \cup Tasks, Ends(r) PROVE HoldOf(r) \in Holds \ Holds'
  <2>1. HoldOf(r) \in Holds
    BY <1>2, HoldsMeaning DEF Ends
  <2>2. ASSUME HoldOf(r) \in Holds' PROVE FALSE
    <3>1. PICK q \in Jobs \cup Tasks : Holding(q)' /\ HoldOf(r) = HoldOf(q)'
      BY <2>2, HoldsMeaning
    <3>2. q = r
      BY <3>1, HoldsMeaning
    <3>3. QED
      BY <1>2, <3>1, <3>2 DEF Ends
  <2>3. QED
    BY <2>1, <2>2
<1>3. ASSUME NEW h \in Holds \ Holds' PROVE \E r \in Jobs \cup Tasks : Ends(r) /\ h = HoldOf(r)
  <2>1. PICK r \in Jobs \cup Tasks : Holding(r) /\ h = HoldOf(r)
    BY HoldsMeaning
  <2>2. ~Kept(r)
    BY <2>1, HoldsMeaning DEF Kept
  <2>3. QED
    BY <2>1, <2>2
<1>4. ASSUME NEW r PROVE r \in Closed' <=> r \in Closed \/ \E h \in Holds \ Holds' : h.ref = r
  <2>1. ASSUME r \in Closed', r \notin Closed PROVE \E h \in Holds \ Holds' : h.ref = r
    <3>1. r \in Jobs \cup Tasks /\ Ends(r)
      BY <2>1, HoldsMeaning DEF Kept
    <3>2. QED
      BY <1>2, <3>1, HoldsMeaning
  <2>2. ASSUME r \in Closed PROVE r \in Closed'
    BY <2>2, HoldsMeaning DEF Kept, Ends
  <2>3. ASSUME NEW h \in Holds \ Holds', h.ref = r PROVE r \in Closed'
    BY <1>3, <2>3, HoldsMeaning DEF Ends
  <2>4. QED
    BY <2>1, <2>2, <2>3
<1>5. Closed' = Closed \cup {h.ref : h \in Holds \ Holds'}
  BY <1>4
<1>6. QED
  BY <1>1, <1>5

LEMMA OneHoldEnds ==
  ASSUME NEW r \in Jobs \cup Tasks, Ends(r), \A q \in (Jobs \cup Tasks) \ {r} : Kept(q)
  PROVE  /\ HoldOf(r) \in Holds \ Holds'
         /\ Holds' = Holds \ {HoldOf(r)}
         /\ Closed' = Closed \cup {HoldOf(r).ref}
<1>1. ASSUME NEW h PROVE h \in Holds' <=> h \in Holds \ {HoldOf(r)}
  <2>1. ASSUME h \in Holds' PROVE h \in Holds /\ h # HoldOf(r)
    <3>1. PICK q \in Jobs \cup Tasks : Holding(q)' /\ h = HoldOf(q)'
      BY <2>1, HoldsMeaning
    <3>2. q # r /\ h.ref = q
      BY <3>1, HoldsMeaning DEF Ends
    <3>3. Kept(q)
      BY <3>2
    <3>4. QED
      BY <3>1, <3>2, <3>3, HoldsMeaning DEF Kept
  <2>2. ASSUME h \in Holds, h # HoldOf(r) PROVE h \in Holds'
    <3>1. PICK q \in Jobs \cup Tasks : Holding(q) /\ h = HoldOf(q)
      BY <2>2, HoldsMeaning
    <3>2. Kept(q)
      BY <2>2, <3>1
    <3>3. QED
      BY <3>1, <3>2, HoldsMeaning DEF Kept
  <2>3. QED
    BY <2>1, <2>2
<1>2. HoldOf(r) \in Holds
  BY HoldsMeaning DEF Ends
<1>3. ASSUME NEW q PROVE q \in Closed' <=> q \in Closed \/ q = r
  BY HoldsMeaning DEF Ends, Kept
<1>4. QED
  BY <1>1, <1>2, <1>3, HoldsMeaning

LEMMA OneHoldJoins ==
  ASSUME NEW r \in Jobs \cup Tasks, Joins(r), \A q \in (Jobs \cup Tasks) \ {r} : Kept(q)
  PROVE  /\ HoldOf(r)' \in Holds' \ Holds
         /\ Holds' = Holds \cup {HoldOf(r)'}
         /\ Closed' = Closed /\ r \notin Closed
         /\ \A g \in Holds : g.ref # r
<1>1. \A g \in Holds : g.ref # r
  BY HoldsMeaning DEF Joins
<1>2. ASSUME NEW h PROVE h \in Holds' <=> h \in Holds \/ h = HoldOf(r)'
  <2>1. ASSUME h \in Holds', h # HoldOf(r)' PROVE h \in Holds
    <3>1. PICK q \in Jobs \cup Tasks : Holding(q)' /\ h = HoldOf(q)'
      BY <2>1, HoldsMeaning
    <3>2. Kept(q)
      BY <2>1, <3>1
    <3>3. QED
      BY <3>1, <3>2, HoldsMeaning DEF Kept
  <2>2. ASSUME h \in Holds PROVE h \in Holds'
    <3>1. PICK q \in Jobs \cup Tasks : Holding(q) /\ h = HoldOf(q)
      BY <2>2, HoldsMeaning
    <3>2. Kept(q)
      BY <3>1 DEF Joins
    <3>3. QED
      BY <3>1, <3>2, HoldsMeaning DEF Kept
  <2>3. HoldOf(r)' \in Holds'
    BY HoldsMeaning DEF Joins
  <2>4. QED
    BY <2>1, <2>2, <2>3
<1>3. ASSUME NEW q PROVE q \in Closed' <=> q \in Closed
  BY HoldsMeaning DEF Joins, Kept
<1>4. r \notin Closed
  BY HoldsMeaning DEF Joins
<1>5. HoldOf(r)' \notin Holds
  BY <1>1, HoldsMeaning
<1>6. QED
  BY <1>1, <1>2, <1>3, <1>4, <1>5

---------------------------------------------------------------------------
(* What is held of an account. *)

LEMMA SameTotal == \A S, f : Money!Total(S, f) = Total(S, f)
<1>1. \A S, f : Money!Units(S, f) = Units(S, f)
  BY DEF Money!Units, Units
<1>2. \A S : Money!Cardinality(S) = Cardinality(S)
  BY DEF Money!Cardinality, Cardinality
<1>3. QED
  BY <1>1, <1>2 DEF Money!Total, Total

LEMMA HeldIsHeld ==
  ASSUME JobsOK, TasksOK, NEW b \in Tenants
  PROVE  Money!Held(b) = HeldByJobs(b) + HeldByTasks(b)
<1> DEFINE HJ == HoldingJobs(b)
           HT == HoldingTasks(b)
           S == HJ \cup HT
           f == [r \in S |-> HoldOf(r)]
           reserved == [r \in S |-> RowOf(r).reserved]
           mine == {h \in Holds : h.owner = b}
           amount == [h \in mine |-> h.amount]
<1>1. HJ \in SUBSET Jobs /\ HT \in SUBSET Tasks /\ IsFiniteSet(HJ) /\ IsFiniteSet(HT)
  BY CountedFinite DEF HoldingJobs, HoldingTasks
<1>2. \A j \in HJ : reserved[j] = JobReserved[j] /\ reserved[j] \in Nat
  BY <1>1, HoldsTyped DEF RowOf
<1>3. \A t \in HT : reserved[t] = TaskReserved[t] /\ reserved[t] \in Nat
  <2>1. SUFFICES ASSUME NEW t \in HT PROVE reserved[t] = TaskReserved[t] /\ reserved[t] \in Nat
    OBVIOUS
  <2>2. t \in Tasks /\ t \notin Jobs
    BY <1>1, SetAssumption
  <2>3. QED
    BY <2>2, HoldsTyped DEF RowOf
<1>4. mine = {f[r] : r \in S}
  <2>1. ASSUME NEW h \in mine PROVE \E r \in S : h = f[r]
    <3>1. PICK r \in Jobs \cup Tasks : Holding(r) /\ h = HoldOf(r)
      BY HoldsMeaning
    <3>2. HoldOf(r).owner = b
      BY <3>1
    <3>3. r \in S
      BY <3>1, <3>2 DEF Holding, HoldOf, RowOf, HoldingJobs, HoldingTasks
    <3>4. QED
      BY <3>1, <3>3
  <2>2. ASSUME NEW r \in S PROVE f[r] \in mine
    <3>1. CASE r \in Jobs
      <4>1. r \in HJ
        BY <1>1, <3>1, SetAssumption
      <4>2. Holding(r) /\ HoldOf(r).owner = b
        BY <3>1, <4>1 DEF Holding, HoldOf, RowOf, HoldingJobs
      <4>3. QED
        BY <3>1, <4>2, HoldsMeaning
    <3>2. CASE r \notin Jobs
      <4>1. r \in HT /\ r \in Tasks
        BY <1>1, <3>2
      <4>2. Holding(r) /\ HoldOf(r).owner = b
        BY <3>2, <4>1 DEF Holding, HoldOf, RowOf, HoldingTasks
      <4>3. QED
        BY <4>1, <4>2, HoldsMeaning
    <3>3. QED
      BY <3>1, <3>2
  <2> HIDE DEF mine, f, S
  <2>3. QED
    BY <2>1, <2>2
<1>5. \A r \in S, q \in S : f[r] = f[q] => r = q
  BY HoldsMeaning
<1>6. \A r \in S : amount[f[r]] = reserved[r]
  <2>1. \A r \in S : f[r] \in mine
    BY <1>4
  <2>2. \A r \in S : f[r].amount = reserved[r]
    BY DEF HoldOf
  <2> HIDE DEF f, mine, S, reserved
  <2>3. QED
    BY <2>1, <2>2
<1>7. HJ \cap HT = {}
  BY <1>1, SetAssumption
<1>8. IsFiniteSet(S) /\ \A r \in S : reserved[r] \in Nat
  BY <1>1, <1>2, <1>3, FS_Union
<1> HIDE DEF reserved, f, mine, amount
<1>9. Total(mine, amount) = Total(S, reserved)
  <2> HIDE DEF S
  <2>1. QED
    BY <1>4, <1>5, <1>6, <1>8, TotalImage
<1>10. Total(S, reserved) = Total(HJ, reserved) + Total(HT, reserved)
  <2> HIDE DEF HJ, HT
  <2>1. QED
    BY <1>1, <1>7, <1>8, TotalUnion
<1>11. Total(HJ, reserved) = HeldByJobs(b)
  BY <1>2, TotalSame DEF HeldByJobs
<1>12. Total(HT, reserved) = HeldByTasks(b)
  BY <1>3, TotalSame DEF HeldByTasks
<1>13. Money!Held(b) = Total(mine, amount)
  BY SameTotal DEF Money!Held, mine, amount
<1>14. QED
  BY <1>9, <1>10, <1>11, <1>12, <1>13

---------------------------------------------------------------------------
(* What entries make of balances. *)

LEMMA BalanceMoves ==
  ASSUME LedgerOK, LedgerOK', ledger \subseteq ledger', NEW t
  PROVE  /\ Balance(t) \in Int
         /\ Credits(t)' = Credits(t) /\ Debits(t)' = Debits(t) => Balance(t)' = Balance(t)
         /\ \A e \in ledger' \ ledger :
              /\ Credits(t)' = Credits(t) \cup {e} /\ Debits(t)' = Debits(t)
                   => Balance(t)' = Balance(t) + e.amount
              /\ Credits(t)' = Credits(t) /\ Debits(t)' = Debits(t) \cup {e}
                   => Balance(t)' = Balance(t) - e.amount
<1> DEFINE f == EntryAmount
<1>1. \A e \in ledger' : f'[e] = e.amount /\ f'[e] \in Nat
  BY DEF LedgerOK, Entry, EntryAmount
<1>2. \A e \in ledger : f[e] = e.amount /\ f[e] \in Nat
  BY DEF LedgerOK, Entry, EntryAmount
<1> HIDE DEF f
<1>3. Credits(t) \in SUBSET ledger /\ Debits(t) \in SUBSET ledger
  BY DEF Credits, Debits
<1>4. ASSUME NEW S \in SUBSET ledger
      PROVE  /\ Total(S, f) \in Nat /\ Total(S, f') = Total(S, f)
             /\ \A e \in ledger' \ ledger : Total(S \cup {e}, f') = Total(S, f) + e.amount
  <2>1. IsFiniteSet(S)
    BY FS_Subset DEF LedgerOK
  <2>2. Total(S, f) \in Nat
    BY <1>2, <2>1, TotalNat
  <2>3. \A e \in S : f'[e] = f[e]
    BY <1>1, <1>2
  <2>4. Total(S, f') = Total(S, f)
    BY <2>3, TotalSame
  <2>5. ASSUME NEW e \in ledger' \ ledger PROVE Total(S \cup {e}, f') = Total(S, f) + e.amount
    <3>1. \A x \in S \cup {e} : f'[x] \in Nat
      BY <1>1
    <3>2. Total(S \cup {e}, f') = Total(S, f') + f'[e]
      BY <2>1, <3>1, TotalAdd
    <3>3. QED
      BY <1>1, <2>4, <3>2
  <2>6. QED
    BY <2>2, <2>4, <2>5
<1>5. Balance(t) = Total(Credits(t), f) - Total(Debits(t), f)
  BY DEF Balance, f
<1>6. Balance(t)' = Total(Credits(t)', f') - Total(Debits(t)', f')
  BY DEF Balance, f
<1>7. ASSUME NEW e \in ledger' \ ledger
      PROVE  e.amount \in Nat
  BY <1>1
<1>8. Total(Credits(t), f) \in Nat /\ Total(Debits(t), f) \in Nat
  BY <1>3, <1>4
<1>9. Credits(t)' = Credits(t) /\ Debits(t)' = Debits(t) => Balance(t)' = Balance(t)
  BY <1>3, <1>4, <1>5, <1>6
<1>10. ASSUME NEW e \in ledger' \ ledger, Credits(t)' = Credits(t) \cup {e}, Debits(t)' = Debits(t)
       PROVE  Balance(t)' = Balance(t) + e.amount
  <2>1. Total(Credits(t)', f') = Total(Credits(t), f) + e.amount
    BY <1>3, <1>4, <1>10
  <2>2. Total(Debits(t)', f') = Total(Debits(t), f)
    BY <1>3, <1>4, <1>10
  <2>3. QED
    BY <1>5, <1>6, <1>7, <1>8, <2>1, <2>2
<1>11. ASSUME NEW e \in ledger' \ ledger, Credits(t)' = Credits(t), Debits(t)' = Debits(t) \cup {e}
       PROVE  Balance(t)' = Balance(t) - e.amount
  <2>1. Total(Credits(t)', f') = Total(Credits(t), f)
    BY <1>3, <1>4, <1>11
  <2>2. Total(Debits(t)', f') = Total(Debits(t), f) + e.amount
    BY <1>3, <1>4, <1>11
  <2>3. QED
    BY <1>5, <1>6, <1>7, <1>8, <2>1, <2>2
<1>12. QED
  BY <1>5, <1>8, <1>9, <1>10, <1>11

LEMMA FundsMeaning ==
  /\ Funds = [a \in Tenants \cup {Platform} |-> Balance(a)]
  /\ Funds' = [a \in Tenants \cup {Platform} |-> Balance(a)']
BY DEF Funds

(* A settlement moves its charge from the buyer to supplier and platform. *)
LEMMA SettlementMoves ==
  ASSUME EInv, LedgerOK', NEW r \in Jobs \cup Tasks, EntriesIn(ledger, r) = {},
         NEW buyer \in Tenants, NEW supplier \in Tenants, supplier # buyer, NEW c \in Nat,
         Post(SettlementEntries(r, buyer, supplier, c))
  PROVE  /\ Granted' = Granted
         /\ PlatformFee(c) \in 0..c
         /\ Funds' = [Funds EXCEPT ![buyer] = @ - c, ![supplier] = @ + c - PlatformFee(c),
                                   ![Platform] = @ + PlatformFee(c)]
<1> DEFINE fee == PlatformFee(c)
           d == [ref |-> r, type |-> "inference-debit", tenant |-> buyer, amount |-> c]
           s == [ref |-> r, type |-> "supplier-credit", tenant |-> supplier, amount |-> c - fee]
           p == [ref |-> r, type |-> "platform-fee", tenant |-> Platform, amount |-> fee]
           E == {d, s} \cup IF fee = 0 THEN {} ELSE {p}
<1>0. LedgerOK
  BY DEF EInv, SInv, IInv
<1>1. fee \in 0..c /\ fee \in Int
  BY FeeBounded
<1>2. SettlementEntries(r, buyer, supplier, c) = E
  BY DEF SettlementEntries
<1>3. \A e \in E : e.ref = r
  OBVIOUS
<1> HIDE DEF E
<1>4. ledger' = ledger \cup E /\ ledger \cap E = {}
  BY <1>2, <1>3 DEF Post, EntriesIn
<1>5. ledger \subseteq ledger' /\ \A e \in E : e \in ledger' \ ledger
  BY <1>4
<1>6. r \notin Tenants
  BY SetAssumption
<1>7. Granted' = Granted
  <2>1. \A t \in Tenants : WelcomeEntry(t) \notin E
    BY <1>3, <1>6 DEF WelcomeEntry
  <2>2. Granted' = {t \in Tenants : WelcomeEntry(t) \in ledger'}
    BY DEF Granted, WelcomeEntry
  <2>3. QED
    BY <1>4, <2>1, <2>2 DEF Granted
<1>8. ASSUME NEW t
      PROVE  /\ Credits(t)' = Credits(t) \cup {e \in E : e.tenant = t /\ e.type # "inference-debit"}
             /\ Debits(t)' = Debits(t) \cup {e \in E : e.tenant = t /\ e.type = "inference-debit"}
  BY <1>4 DEF Credits, Debits
<1>9. d \in E /\ s \in E /\ (fee # 0 => p \in E)
  BY DEF E
<1>10. \A e \in E : e \in {d, s} \/ (e = p /\ fee # 0)
  BY DEF E
<1>11. buyer # Platform /\ supplier # Platform
  BY SetAssumption
<1>12. /\ d.tenant = buyer /\ d.type = "inference-debit" /\ d.amount = c
       /\ s.tenant = supplier /\ s.type # "inference-debit" /\ s.amount = c - fee
       /\ p.tenant = Platform /\ p.type # "inference-debit" /\ p.amount = fee
  OBVIOUS
<1> HIDE DEF d, s, p, fee
<1>13. Balance(buyer)' = Balance(buyer) - c
  <2>1. {e \in E : e.tenant = buyer /\ e.type # "inference-debit"} = {}
    BY <1>10, <1>11, <1>12
  <2>2. {e \in E : e.tenant = buyer /\ e.type = "inference-debit"} = {d}
    BY <1>9, <1>10, <1>12
  <2>3. Credits(buyer)' = Credits(buyer) /\ Debits(buyer)' = Debits(buyer) \cup {d}
    <3>1. /\ Credits(buyer)' = Credits(buyer) \cup {e \in E : e.tenant = buyer /\ e.type # "inference-debit"}
          /\ Debits(buyer)' = Debits(buyer) \cup {e \in E : e.tenant = buyer /\ e.type = "inference-debit"}
      BY <1>8
    <3>2. QED
      BY <2>1, <2>2, <3>1
  <2>4. d \in ledger' \ ledger
    BY <1>5, <1>9
  <2>5. QED
    BY <1>0, <1>5, <1>12, <2>3, <2>4, BalanceMoves
<1>14. Balance(supplier)' = Balance(supplier) + (c - fee) /\ Balance(supplier) \in Int
  <2>1. {e \in E : e.tenant = supplier /\ e.type # "inference-debit"} = {s}
    BY <1>9, <1>10, <1>11, <1>12
  <2>2. {e \in E : e.tenant = supplier /\ e.type = "inference-debit"} = {}
    BY <1>10, <1>12
  <2>3. Credits(supplier)' = Credits(supplier) \cup {s} /\ Debits(supplier)' = Debits(supplier)
    <3>1. /\ Credits(supplier)' = Credits(supplier) \cup {e \in E : e.tenant = supplier /\ e.type # "inference-debit"}
          /\ Debits(supplier)' = Debits(supplier) \cup {e \in E : e.tenant = supplier /\ e.type = "inference-debit"}
      BY <1>8
    <3>2. QED
      BY <2>1, <2>2, <3>1
  <2>4. s \in ledger' \ ledger
    BY <1>5, <1>9
  <2>5. QED
    BY <1>0, <1>5, <1>12, <2>3, <2>4, BalanceMoves
<1>15. Balance(Platform)' = Balance(Platform) + fee
  <2>1. {e \in E : e.tenant = Platform /\ e.type = "inference-debit"} = {}
    BY <1>10, <1>11, <1>12
  <2>2. CASE fee = 0
    <3>1. {e \in E : e.tenant = Platform /\ e.type # "inference-debit"} = {}
      BY <1>10, <1>11, <1>12, <2>2
    <3>2. Balance(Platform)' = Balance(Platform) /\ Balance(Platform) \in Int
      BY <1>0, <1>5, <1>8, <2>1, <3>1, BalanceMoves
    <3>3. QED
      BY <2>2, <3>2
  <2>3. CASE fee # 0
    <3>1. {e \in E : e.tenant = Platform /\ e.type # "inference-debit"} = {p}
      BY <1>9, <1>10, <1>11, <1>12, <2>3
    <3>2. QED
      BY <1>0, <1>5, <1>8, <1>9, <1>12, <2>1, <2>3, <3>1, BalanceMoves
  <2>4. QED
    BY <2>2, <2>3
<1>16. ASSUME NEW t \in Tenants, t # buyer, t # supplier PROVE Balance(t)' = Balance(t)
  <2>0. t # Platform
    BY SetAssumption
  <2>1. {e \in E : e.tenant = t /\ e.type # "inference-debit"} = {}
    BY <1>10, <1>12, <1>16, <2>0
  <2>2. {e \in E : e.tenant = t /\ e.type = "inference-debit"} = {}
    BY <1>10, <1>12, <1>16
  <2>3. QED
    BY <1>0, <1>5, <1>8, <2>1, <2>2, BalanceMoves
<1>17. Balance(supplier) + (c - fee) = Balance(supplier) + c - fee
  BY <1>1, <1>14
<1>18. Funds' = [Funds EXCEPT ![buyer] = @ - c, ![supplier] = @ + c - fee, ![Platform] = @ + fee]
  BY <1>11, <1>13, <1>14, <1>15, <1>16, <1>17, FundsMeaning
<1>19. QED
  BY <1>1, <1>7, <1>18 DEF fee

(* The credit of ensureUser is a grant, the first time. *)
LEMMA CreditMoves ==
  ASSUME EInv, LedgerOK', NEW t \in Tenants, EnsureUser(t)
  PROVE  \/ UNCHANGED <<Granted, Funds>>
         \/ /\ t \notin Granted /\ Granted' = Granted \cup {t}
            /\ Funds' = [Funds EXCEPT ![t] = @ + Welcome]
<1> DEFINE w == WelcomeEntry(t)
<1>0. LedgerOK /\ Welcomed
  BY DEF EInv, SInv, IInv
<1>1. Post({w}) /\ w.ref = t /\ w.tenant = t /\ w.type # "inference-debit" /\ w.amount = Welcome
  BY DEF EnsureUser, WelcomeEntry
<1>2. CASE ledger' = ledger
  BY <1>2 DEF Granted, Funds, Balance, Credits, Debits, EntryAmount, WelcomeEntry
<1>3. CASE ledger' # ledger
  <2>1. ledger' = ledger \cup {w} /\ w \notin ledger
    BY <1>1, <1>3 DEF Post
  <2>2. Granted' = {u \in Tenants : WelcomeEntry(u) \in ledger'}
    BY DEF Granted, WelcomeEntry
  <2>3. \A u \in Tenants : WelcomeEntry(u) = w <=> u = t
    BY DEF WelcomeEntry
  <2>4. t \notin Granted /\ Granted' = Granted \cup {t}
    BY <2>1, <2>2, <2>3 DEF Granted
  <2> HIDE DEF w
  <2>5. Credits(t)' = Credits(t) \cup {w} /\ Debits(t)' = Debits(t)
    BY <1>1, <2>1 DEF Credits, Debits
  <2>6. Balance(t)' = Balance(t) + Welcome
    BY <1>0, <1>1, <2>1, <2>5, BalanceMoves
  <2>7. ASSUME NEW u \in Tenants \cup {Platform}, u # t PROVE Balance(u)' = Balance(u)
    <3>1. Credits(u)' = Credits(u) /\ Debits(u)' = Debits(u)
      BY <1>1, <2>1, <2>7 DEF Credits, Debits
    <3>2. QED
      BY <1>0, <2>1, <3>1, BalanceMoves
  <2>8. Funds' = [Funds EXCEPT ![t] = @ + Welcome]
    BY <2>6, <2>7, FundsMeaning
  <2>9. QED
    BY <2>4, <2>8
<1>4. QED
  BY <1>2, <1>3

---------------------------------------------------------------------------
(* The refinement. *)

LEMMA InitMoneyAccount == Init => Money!Init
<1> SUFFICES ASSUME Init PROVE Money!Init
  OBVIOUS
<1>1. ledger = {} /\ (\A j \in Jobs : jobs[j].status = "none") /\ (\A t \in Tasks : tasks[t].status = "none")
  BY DEF Init, InferenceInit, TasksInit, NoJob, NoTask
<1>2. Granted = {}
  BY <1>1 DEF Granted
<1>3. \A a : Balance(a) = 0
  <2>1. \A a : Credits(a) = {} /\ Debits(a) = {}
    BY <1>1 DEF Credits, Debits
  <2>2. \A f : Total({}, f) = 0
    BY FS_EmptySet DEF Total, Units
  <2>3. QED
    BY <2>1, <2>2 DEF Balance
<1>4. Funds = [a \in Tenants \cup {Platform} |-> 0]
  BY <1>3 DEF Funds
<1>5. \A r \in Jobs \cup Tasks : ~Holding(r) /\ ~Ended(r)
  BY <1>1 DEF Holding, Ended, JobActive, TaskActive, TaskLeased, TaskTerminal
<1>6. Holds = {} /\ Closed = {}
  BY <1>5, HoldsMeaning
<1>7. QED
  BY <1>2, <1>4, <1>6 DEF Money!Init

(* Rows that stay or end release their holds, if any. *)
LEMMA ReleaseStep ==
  ASSUME \A r \in Jobs \cup Tasks : Kept(r) \/ Ends(r), UNCHANGED ledger
  PROVE  [Money!Next]_(Money!escrow)
<1>1. UNCHANGED <<Granted, Funds>>
  BY DEF Granted, Funds, Balance, Credits, Debits, EntryAmount, WelcomeEntry
<1>2. /\ Holds' = Holds \ (Holds \ Holds')
      /\ Closed' = Closed \cup {h.ref : h \in Holds \ Holds'}
  BY HoldsKeptOrEnded
<1>3. CASE Holds \ Holds' = {}
  <2>1. Holds' = Holds /\ Closed' = Closed
    BY <1>2, <1>3
  <2>2. QED
    BY <1>1, <2>1 DEF Money!escrow
<1>4. CASE Holds \ Holds' # {}
  <2>1. Money!Release(Holds \ Holds')
    BY <1>1, <1>2, <1>4 DEF Money!Release
  <2>2. QED
    BY <2>1 DEF Money!Next
<1>5. QED
  BY <1>3, <1>4

(* A gate that admits a row places its hold. *)
LEMMA HoldStep ==
  ASSUME IInv, UNCHANGED ledger, NEW r \in Jobs \cup Tasks, Joins(r),
         \A q \in (Jobs \cup Tasks) \ {r} : Kept(q),
         NEW buyer \in Tenants, NEW estimate \in Estimates, Available(buyer) >= estimate,
         HoldOf(r)' = [ref |-> r, owner |-> buyer, amount |-> estimate]
  PROVE  Money!Next
<1> DEFINE h == [ref |-> r, owner |-> buyer, amount |-> estimate]
<1>1. UNCHANGED <<Granted, Funds>>
  BY DEF Granted, Funds, Balance, Credits, Debits, EntryAmount, WelcomeEntry
<1>2. /\ h \in Holds' \ Holds /\ Holds' = Holds \cup {h}
      /\ Closed' = Closed /\ r \notin Closed
      /\ \A g \in Holds : g.ref # r
  BY OneHoldJoins
<1>3. h \in Money!Hold /\ h.ref = r /\ h.owner = buyer /\ h.amount = estimate
  BY DEF Money!Hold
<1>4. Funds[buyer] - Money!Held(buyer) >= estimate
  <2>1. JobsOK /\ TasksOK /\ LedgerOK
    BY DEF IInv
  <2>2. Money!Held(buyer) = HeldByJobs(buyer) + HeldByTasks(buyer)
    BY <2>1, HeldIsHeld
  <2>3. HeldByJobs(buyer) \in Nat /\ HeldByTasks(buyer) \in Nat
    BY <2>1, HoldsTyped
  <2>4. Funds[buyer] = Balance(buyer)
    BY DEF Funds
  <2>5. Balance(buyer) \in Int
    <3>1. LedgerOK'
      BY <2>1 DEF LedgerOK
    <3>2. QED
      BY <2>1, <3>1, BalanceMoves
  <2>6. Balance(buyer) - HeldByJobs(buyer) - HeldByTasks(buyer) >= estimate
    BY DEF Available
  <2>7. estimate \in Int
    BY PolicyAssumption
  <2>8. QED
    BY <2>2, <2>3, <2>4, <2>5, <2>6, <2>7
<1> HIDE DEF h
<1>5. Money!PlaceHold(h)
  BY <1>1, <1>2, <1>3, <1>4 DEF Money!PlaceHold
<1>6. QED
  BY <1>2, <1>5 DEF Money!Next

(* A settlement batch captures its hold. *)
LEMMA CaptureStep ==
  ASSUME EInv, LedgerOK', NEW r \in Jobs \cup Tasks, Ends(r),
         \A q \in (Jobs \cup Tasks) \ {r} : Kept(q), EntriesIn(ledger, r) = {},
         NEW buyer \in Tenants, NEW supplier \in Tenants, supplier # buyer,
         NEW reserved \in Nat, NEW c \in Nat, c <= reserved,
         HoldOf(r) = [ref |-> r, owner |-> buyer, amount |-> reserved],
         Post(SettlementEntries(r, buyer, supplier, c))
  PROVE  Money!Next
<1> DEFINE h == [ref |-> r, owner |-> buyer, amount |-> reserved]
           fee == PlatformFee(c)
<1>1. /\ h \in Holds \ Holds' /\ Holds' = Holds \ {h} /\ Closed' = Closed \cup {h.ref}
  BY OneHoldEnds
<1>2. /\ Granted' = Granted /\ fee \in 0..c
      /\ Funds' = [Funds EXCEPT ![buyer] = @ - c, ![supplier] = @ + c - fee, ![Platform] = @ + fee]
  BY SettlementMoves
<1>3. h.owner = buyer /\ h.amount = reserved
  OBVIOUS
<1>4. c \in 0..h.amount /\ fee <= c
  BY <1>2
<1> HIDE DEF h, fee
<1>5. Money!Capture(h, supplier, c, fee)
  BY <1>1, <1>2, <1>3, <1>4 DEF Money!Capture
<1>6. QED
  BY <1>1, <1>2, <1>4, <1>5 DEF Money!Next

LEMMA JobSettles ==
  ASSUME EInv, EInv', Next, NEW j \in Jobs, SettleInference(j), CompleteJobGate(j, calls[j].charge)
  PROVE  Money!Next
<1> DEFINE row == jobs[j]
           c == calls[j].charge
<1>0. JobsOK /\ LedgerOK' /\ WholeSettlements /\ OthersBuy /\ IInv
  BY DEF EInv, SInv, IInv
<1>1. row.status = "running" /\ row \in JobRow /\ c <= row.reserved
  BY <1>0 DEF CompleteJobGate, JobsOK
<1>2. row.buyer \in Tenants /\ OfferTenant(row.offer) \in Tenants /\ c \in Nat /\ row.reserved \in Nat
  BY <1>0, <1>1, JobParties DEF JobRow
<1>3. OfferTenant(row.offer) # row.buyer
  BY <1>0, <1>1 DEF OthersBuy
<1>4. EntriesIn(ledger, j) = {}
  BY <1>0, <1>1 DEF WholeSettlements, WholeIn
<1>5. /\ Post(SettlementEntries(j, row.buyer, OfferTenant(row.offer), c))
      /\ jobs' = [jobs EXCEPT ![j].status = "completed"] /\ UNCHANGED tasks
  BY DEF SettleInference, Rest
<1>6. jobs'[j].status = "completed" /\ \A i \in Jobs \ {j} : jobs'[i] = jobs[i]
  BY <1>0, <1>1, <1>5 DEF JobsOK, JobRow
<1>7. Ends(j)
  BY <1>1, <1>6 DEF Ends, Holding, Ended, JobActive
<1>8. \A q \in (Jobs \cup Tasks) \ {j} : Kept(q)
  <2>1. \A i \in Jobs \ {j} : Kept(i)
    BY <1>6 DEF Kept, Holding, Ended, HoldOf, RowOf
  <2>2. QED
    BY <1>5, <2>1, SameRowsKept
<1>9. HoldOf(j) = [ref |-> j, owner |-> row.buyer, amount |-> row.reserved]
  BY DEF HoldOf, RowOf
<1>10. QED
  BY <1>0, <1>1, <1>2, <1>3, <1>4, <1>5, <1>7, <1>8, <1>9, CaptureStep

LEMMA TaskSettles ==
  ASSUME EInv, EInv', Next, NEW s \in settling, CompleteArtifactTask(s), CompleteTaskGate(s)
  PROVE  Money!Next
<1> DEFINE t == s.task
           row == tasks[t]
           c == s.charge
<1>0. TasksOK /\ LedgerOK' /\ WholeSettlements /\ OthersBuy /\ IInv /\ TasksOK'
  BY DEF EInv, SInv, IInv
<1>1. row.status \in TaskLeased /\ row.status # "none" /\ row.status # "completed" /\ c <= row.reserved
  BY DEF CompleteTaskGate, LeaseValid, TaskLeased
<1>2. /\ t \in Tasks /\ TaskRowOK(row) /\ c \in Nat /\ row.reserved \in Nat
      /\ row.buyer \in Tenants /\ OfferTenant(row.offer) \in Tenants
  BY <1>0, <1>1, TaskParties DEF TasksOK, TaskRowOK, TaskRow
<1>3. OfferTenant(row.offer) # row.buyer
  BY <1>0, <1>1, <1>2 DEF OthersBuy
<1>4. EntriesIn(ledger, t) = {}
  BY <1>0, <1>1, <1>2 DEF WholeSettlements, WholeIn
<1>5. /\ Post(SettlementEntries(t, row.buyer, OfferTenant(row.offer), c))
      /\ tasks' = [tasks EXCEPT ![t] = Erased(Unleased(row, "completed"))] /\ UNCHANGED jobs
  BY <1>1 DEF CompleteArtifactTask, Others
<1>6. tasks'[t].status = "completed" /\ \A i \in Tasks \ {t} : tasks'[i] = tasks[i]
  <2>1. tasks'[t] = Erased(Unleased(row, "completed")) /\ \A i \in Tasks \ {t} : tasks'[i] = tasks[i]
    BY <1>0, <1>2, <1>5 DEF TasksOK
  <2>2. QED
    BY <1>1, <1>2, <2>1, EndedRow DEF TaskTerminal
<1>7. Ends(t)
  BY <1>1, <1>2, <1>6, TaskMeaning DEF Ends, TaskActive, TaskLeased, TaskTerminal
<1>8. \A q \in (Jobs \cup Tasks) \ {t} : Kept(q)
  <2>1. \A i \in Tasks \ {t} : Kept(i)
    BY <1>6, TaskMeaning DEF Kept
  <2>2. QED
    BY <1>5, <2>1, SameRowsKept
<1>9. HoldOf(t) = [ref |-> t, owner |-> row.buyer, amount |-> row.reserved]
  BY <1>2, TaskMeaning
<1> HIDE DEF t, row, c
<1>10. QED
  BY <1>0, <1>1, <1>2, <1>3, <1>4, <1>5, <1>7, <1>8, <1>9, CaptureStep

LEMMA MoneyStep ==
  ASSUME EInv, EInv', [Next]_vars
  PROVE  [Money!Next]_(Money!escrow)
<1>0. IInv /\ IInv' /\ FreshRows /\ JobsOK /\ TasksOK /\ LedgerOK' /\ Estimated
  BY DEF EInv, SInv, IInv
<1>1. CASE UNCHANGED vars
  <2>1. UNCHANGED <<ledger, jobs, tasks>>
    BY <1>1 DEF vars
  <2>2. QED
    BY <2>1, SameRowsKept, ReleaseStep
<1>2. ASSUME NEW j \in Jobs, JobReserves(j), UNCHANGED <<ledger, tasks>>,
             Joins(j), \A r \in (Jobs \cup Tasks) \ {j} : Kept(r)
      PROVE  Money!Next
  <2> DEFINE b == calls[j].buyer
             e == calls[j].estimate
  <2>1. b \in Tenants /\ e \in Estimates /\ Available(b) >= e
    BY <1>0, <1>2 DEF JobReserves, ReserveGate, Estimated, IInv, CallsOK, CallRow
  <2>2. jobs'[j].buyer = b /\ jobs'[j].reserved = e
    BY <1>0, <1>2 DEF JobReserves, JobsOK
  <2>3. HoldOf(j)' = [ref |-> j, owner |-> b, amount |-> e]
    BY <2>2 DEF HoldOf, RowOf
  <2> HIDE DEF b, e
  <2>4. QED
    BY <1>0, <1>2, <2>1, <2>3, HoldStep
<1>3. ASSUME NEW t \in Tasks, TaskReserves(t), UNCHANGED <<ledger, jobs>>,
             Joins(t), \A r \in (Jobs \cup Tasks) \ {t} : Kept(r)
      PROVE  Money!Next
  <2> DEFINE b == orders[t].buyer
             e == orders[t].estimate
  <2>1. b \in Tenants /\ e \in Estimates /\ Available(b) >= e
    BY <1>0, <1>3 DEF TaskReserves, ReserveTaskGate, Estimated, IInv, OrdersOK, OrderRow
  <2>2. tasks'[t].buyer = b /\ tasks'[t].reserved = e
    BY <1>0, <1>3 DEF TaskReserves, TasksOK, NoTask
  <2>3. HoldOf(t)' = [ref |-> t, owner |-> b, amount |-> e]
    BY <2>2, TaskMeaning
  <2> HIDE DEF b, e
  <2>4. QED
    BY <1>0, <1>3, <2>1, <2>3, HoldStep
<1>4. ASSUME NEW t \in Tenants, EnsureUser(t) PROVE [Money!Next]_(Money!escrow)
  <2>1. UNCHANGED <<jobs, tasks>>
    BY <1>4 DEF EnsureUser, Rest
  <2>2. Holds' = Holds /\ Closed' = Closed
    BY <2>1, SameRowsKept, HoldsKeptOrEnded, HoldsMeaning DEF Kept
  <2>3. CASE UNCHANGED <<Granted, Funds>>
    BY <2>2, <2>3 DEF Money!escrow
  <2>4. CASE /\ t \notin Granted /\ Granted' = Granted \cup {t}
             /\ Funds' = [Funds EXCEPT ![t] = @ + Welcome]
    <3>1. Money!GrantOnce(t)
      BY <2>2, <2>4 DEF Money!GrantOnce
    <3>2. QED
      BY <3>1 DEF Money!Next
  <2>5. QED
    BY <1>0, <1>4, <2>3, <2>4, CreditMoves
<1>5. CASE Next /\ UNCHANGED ledger
  BY <1>2, <1>3, <1>5, RowsMove, ReleaseStep
<1>6. CASE Next /\ ~UNCHANGED ledger
  BY <1>0, <1>4, <1>6, LedgerMove, JobSettles, TaskSettles
<1>7. QED
  BY <1>1, <1>5, <1>6

(* The control plane implements the escrow account, for any tenants, jobs,
   tasks, amounts and fee: every batch of every handler is a grant of the
   promotional credit, the placing of one hold the buyer's uncommitted funds
   cover, a release of holds, the capture of one hold for at most its amount,
   or it changes no money. *)
THEOREM EscrowImplemented == Spec => ImplementsEscrow
<1>1. Init => Money!Init
  BY InitMoneyAccount
<1>2. EInv /\ EInv' /\ [Next]_vars => [Money!Next]_(Money!escrow)
  BY MoneyStep
<1>3. QED
  BY <1>1, <1>2, AlwaysEInv, PTL DEF Spec, ImplementsEscrow, Money!Spec

=============================================================================
