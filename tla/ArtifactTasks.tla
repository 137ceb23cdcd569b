----------------------------- MODULE ArtifactTasks -----------------------------
(***************************************************************************)
(* Asynchronous file tasks: createArtifactTask, cancelArtifactTask and the *)
(* task part of cleanupExpiredArtifactData (artifact-service.ts), the      *)
(* agent-facing claim, checkpoint, complete and fail handlers              *)
(* (artifact-worker-service.ts), and the purge of a queued task            *)
(* (privacy-service.ts).                                                   *)
(*                                                                         *)
(* Every claim draws a fresh lease token and increments the attempt, so    *)
(* the token of a lease is named by its attempt number; lease = 0 is       *)
(* lease_digest IS NULL.                                                   *)
(***************************************************************************)
EXTENDS MarketplaceState

OrderRow == [phase : {"idle", "selected", "done"}, buyer : Tenants,
             offer : Offers \cup {NoOffer}, revision : Nat, estimate : Nat]
PollRow == [task : Tasks, resume : 0..Segments, revision : Nat]
Settling == [task : Tasks, attempt : 1..MaxAttempts, completed : 0..Segments, charge : Nat]

Others == <<jobs, calls, auth, supply>>

AnyTenant == CHOOSE t \in Tenants : TRUE

NoTask == [status |-> "none", buyer |-> AnyTenant, offer |-> NoOffer, reserved |-> 0,
           attempt |-> 0, lease |-> 0, worker |-> NoWorker, completed |-> 0,
           cancel |-> FALSE, instruction |-> FALSE,
           lapsed |-> FALSE, overdue |-> FALSE, aged |-> FALSE]
NoOrder == [phase |-> "idle", buyer |-> AnyTenant, offer |-> NoOffer,
            revision |-> 0, estimate |-> 0]

TasksInit ==
  /\ tasks = [t \in Tasks |-> NoTask]
  /\ orders = [t \in Tasks |-> NoOrder]
  /\ polls = [w \in Workers |-> {}]
  /\ settling = {}
  /\ heartbeat = {}

---------------------------------------------------------------------------
(* Transitions of one row. *)

(* lease_digest, lease_expires_at and execution_deadline_at become NULL. *)
Unleased(row, status) ==
  [row EXCEPT !.status = status, !.lease = 0, !.lapsed = FALSE, !.overdue = FALSE]

Erased(row) == [row EXCEPT !.instruction = FALSE]

(* A worker that let the deadline pass loses its claim to resume. *)
Requeued(row) ==
  [Unleased(row, "queued") EXCEPT !.worker = IF row.overdue THEN NoWorker ELSE @]

LeaseGone(row) == row.status \in TaskLeased /\ row.lapsed

(* The three UPDATEs claimArtifactTask runs over the tasks of its supplier. *)
SweptByClaim(row) ==
  IF ~LeaseGone(row) THEN row
  ELSE IF row.cancel THEN Erased(Unleased(row, "cancelled"))
  ELSE IF row.attempt < MaxAttempts THEN Requeued(row)
  ELSE Erased(Unleased(row, "failed"))

(* Mutant: an expired lease is requeued without counting attempts. *)
SweptWithoutAttempts(row) ==
  IF row.status = "queued" /\ row.aged THEN Erased(Unleased(row, "failed"))
  ELSE IF ~LeaseGone(row) THEN row
  ELSE IF row.cancel THEN Unleased(row, "cancelled")
  ELSE IF ~row.aged THEN Requeued(row)
  ELSE Erased(Unleased(row, "failed"))

(* Mutant: an expired lease with attempts left is not failed when the task
   is past the queue cutoff. *)
SweptWithoutCutoff(row) ==
  IF row.status = "queued" /\ row.aged THEN Erased(Unleased(row, "failed"))
  ELSE IF ~LeaseGone(row) THEN row
  ELSE IF row.cancel THEN Unleased(row, "cancelled")
  ELSE IF row.attempt < MaxAttempts
       THEN IF row.aged THEN row ELSE Requeued(row)
  ELSE Erased(Unleased(row, "failed"))

(* The three UPDATEs of cleanupExpiredArtifactData. *)
SweptByCleanup(row) ==
  IF row.status = "queued" /\ row.aged THEN Erased(Unleased(row, "failed"))
  ELSE IF ~LeaseGone(row) THEN row
  ELSE IF row.cancel THEN Unleased(row, "cancelled")
  ELSE IF row.attempt < MaxAttempts /\ ~row.aged THEN Requeued(row)
  ELSE Erased(Unleased(row, "failed"))

CleanupTasks == [t \in Tasks |-> SweptByCleanup(tasks[t])]

---------------------------------------------------------------------------
(* The buyer. *)

(* createArtifactTask up to the offer query: the retention sweep, then the
   cheapest offer that has a live worker. *)
OrderTask(t, b, o, estimate) ==
  /\ orders[t].phase = "idle"
  /\ OfferSells(o, b, auth[OfferAuth[o]].revision)
  /\ \E w \in heartbeat : WorkerTenant[w] = OfferTenant(o)
  /\ tasks' = CleanupTasks
  /\ orders' = [orders EXCEPT ![t] =
       [phase |-> "selected", buyer |-> b, offer |-> o,
        revision |-> auth[OfferAuth[o]].revision, estimate |-> estimate]]
  /\ UNCHANGED <<ledger, polls, settling, heartbeat, Others>>

(* RESERVE_ARTIFACT_TASK_SQL. *)
ReserveTaskGate(c) ==
  /\ OfferSells(c.offer, c.buyer, c.revision)
  /\ Cardinality(HoldingTasks(c.buyer)) < MaxActiveTasks
  /\ Available(c.buyer) >= c.estimate

ReserveTask(t) ==
  LET c == orders[t] IN
  /\ c.phase = "selected"
  /\ \/ /\ ReserveTaskGate(c)
        /\ tasks' = [tasks EXCEPT ![t] =
             [NoTask EXCEPT !.status = "queued", !.buyer = c.buyer, !.offer = c.offer,
                            !.reserved = c.estimate, !.instruction = TRUE]]
     \/ ~ReserveTaskGate(c) /\ UNCHANGED tasks
  /\ orders' = [orders EXCEPT ![t].phase = "done"]
  /\ UNCHANGED <<ledger, polls, settling, heartbeat, Others>>

(* The creating request is lost before its batch. *)
LoseOrder(t) ==
  /\ orders[t].phase = "selected"
  /\ orders' = [orders EXCEPT ![t].phase = "done"]
  /\ UNCHANGED <<ledger, tasks, polls, settling, heartbeat, Others>>

(* cancelArtifactTask: queued work ends at once, leased work keeps its
   status and its reservation until the lease holder or the sweep ends it. *)
CancelArtifactTask(t) ==
  /\ tasks[t].status \in TaskActive /\ ~tasks[t].cancel
  /\ tasks' = [tasks EXCEPT ![t] =
       LET asked == [Erased(@) EXCEPT !.cancel = TRUE]
       IN  IF @.status = "queued" THEN Unleased(asked, "cancelled") ELSE asked]
  /\ UNCHANGED <<ledger, orders, polls, settling, heartbeat, Others>>

(* CANCEL_QUEUED_ARTIFACT_TASK_FOR_PURGE_SQL. *)
PurgeQueuedTask(t) ==
  /\ tasks[t].status = "queued" /\ ~tasks[t].cancel
  /\ tasks' = [tasks EXCEPT ![t] =
       [Erased(Unleased(@, "cancelled")) EXCEPT !.cancel = TRUE]]
  /\ UNCHANGED <<ledger, orders, polls, settling, heartbeat, Others>>

---------------------------------------------------------------------------
(* The supplier agent. *)

(* authenticateAgentRequest accepts the supplier's token while one of its
   authorizations is approved and supply is on. *)
Authenticated(s) ==
  /\ supply[s]
  /\ \E x \in Auths : AuthTenant[x] = s /\ auth[x].status = "approved"

(* claimArtifactTask up to the candidate query: the heartbeat, the sweep of
   the supplier's tasks, and the candidate row with the worker's revision.
   They are one step: whatever could happen between them is checked again
   by the conditional UPDATE of ClaimTask. *)
PollTask(w) ==
  LET swept == [t \in Tasks |-> IF tasks[t].status # "none" /\ OfferTenant(tasks[t].offer) = WorkerTenant[w]
                                THEN SweptByClaim(tasks[t]) ELSE tasks[t]]
      Candidate(t) == /\ swept[t].status = "queued"
                      /\ OfferTenant(swept[t].offer) = WorkerTenant[w]
                      /\ auth[OfferAuth[swept[t].offer]].status = "approved"
  IN
  /\ polls[w] = {}
  /\ Authenticated(WorkerTenant[w])
  /\ heartbeat' = heartbeat \cup {w}
  /\ tasks' = swept
  /\ \/ \E t \in Tasks :
          /\ Candidate(t)
          /\ polls' = [polls EXCEPT ![w] =
               {[task |-> t,
                 resume |-> IF swept[t].worker = w THEN swept[t].completed ELSE 0,
                 revision |-> auth[OfferAuth[swept[t].offer]].revision]}]
     \/ (\A t \in Tasks : ~Candidate(t)) /\ UNCHANGED polls
  /\ UNCHANGED <<ledger, orders, settling, Others>>

(* Mutant: only file tasks count against the concurrency of the offer. *)
ClaimIgnoringInference(w, p) ==
  LET row == tasks[p.task] IN
  /\ row.status = "queued" /\ ~row.cancel
  /\ auth[OfferAuth[row.offer]].status = "approved"
  /\ auth[OfferAuth[row.offer]].revision = p.revision
  /\ supply[OfferTenant(row.offer)]
  /\ Cardinality(OccupyingTasks(row.offer)) < Concurrency[row.offer]
  /\ w \in heartbeat

(* The conditional UPDATE queued -> claimed, on the row as it is now. *)
ClaimGate(w, p) ==
  LET row == tasks[p.task] IN
  /\ row.status = "queued" /\ ~row.cancel
  /\ auth[OfferAuth[row.offer]].status = "approved"
  /\ auth[OfferAuth[row.offer]].revision = p.revision
  /\ supply[OfferTenant(row.offer)]
  /\ Occupancy(row.offer) < Concurrency[row.offer]
  /\ w \in heartbeat

ClaimTask(w) ==
  \E p \in polls[w] :
    /\ \/ /\ ClaimGate(w, p)
          /\ tasks' = [tasks EXCEPT ![p.task] =
               [tasks[p.task] EXCEPT !.status = "claimed", !.worker = w,
                  !.attempt = tasks[p.task].attempt + 1, !.lease = tasks[p.task].attempt + 1,
                  !.completed = p.resume]]
       \/ ~ClaimGate(w, p) /\ UNCHANGED tasks
    /\ polls' = [polls EXCEPT ![w] = {}]
    /\ UNCHANGED <<ledger, orders, settling, heartbeat, Others>>

LosePoll(w) ==
  /\ polls[w] # {}
  /\ polls' = [polls EXCEPT ![w] = {}]
  /\ UNCHANGED <<ledger, tasks, orders, settling, heartbeat, Others>>

(* Mutant: a requested cancellation does not invalidate the lease. *)
LeaseValidDespiteCancel(t, lease) ==
  /\ tasks[t].status \in TaskLeased
  /\ tasks[t].lease = lease
  /\ ~tasks[t].lapsed /\ ~tasks[t].overdue

(* The predicate on the lease that every UPDATE of an agent call repeats. *)
LeaseValid(t, lease) ==
  /\ tasks[t].status \in TaskLeased
  /\ tasks[t].lease = lease
  /\ ~tasks[t].cancel
  /\ ~tasks[t].lapsed /\ ~tasks[t].overdue

(* requireLeasedTask: the caller also presents a token of the task's own
   authorization.  Nothing an agent call writes depends on supply or on the
   revision, so the check and the UPDATE of one call are one step. *)
LeasedTask(t, lease) ==
  /\ LeaseValid(t, lease)
  /\ supply[OfferTenant(tasks[t].offer)]
  /\ auth[OfferAuth[tasks[t].offer]].status = "approved"

(* checkpointArtifactTask: progress never moves back, the lease is renewed. *)
CheckpointArtifactTask(t, lease, n) ==
  /\ LeasedTask(t, lease)
  /\ n >= tasks[t].completed
  /\ tasks' = [tasks EXCEPT ![t].status = "running", ![t].completed = n]
  /\ UNCHANGED <<ledger, orders, polls, settling, heartbeat, Others>>

(* Mutant: the agent's retryable flag alone decides. *)
FailAlwaysRetries(t, lease, retryable) ==
  /\ LeasedTask(t, lease)
  /\ tasks' = [tasks EXCEPT ![t] =
       IF retryable THEN Unleased(@, "queued") ELSE Erased(Unleased(@, "failed"))]
  /\ UNCHANGED <<ledger, orders, polls, settling, heartbeat, Others>>

(* failArtifactTask. *)
FailArtifactTask(t, lease, retryable) ==
  /\ LeasedTask(t, lease)
  /\ tasks' = [tasks EXCEPT ![t] =
       IF retryable /\ @.attempt < MaxAttempts THEN Unleased(@, "queued")
       ELSE Erased(Unleased(@, "failed"))]
  /\ UNCHANGED <<ledger, orders, polls, settling, heartbeat, Others>>

(* completeArtifactTask up to its batch: the row is read, the evidence is
   verified and the charge computed from that reading. *)
VerifyCompletion(t, lease, charge) ==
  /\ LeasedTask(t, lease)
  /\ tasks[t].completed = Segments
  /\ charge <= tasks[t].reserved
  /\ settling' = settling \cup
       {[task |-> t, attempt |-> lease, completed |-> tasks[t].completed, charge |-> charge]}
  /\ UNCHANGED <<ledger, tasks, orders, polls, heartbeat, Others>>

(* COMPLETE_ARTIFACT_TASK_SQL. *)
CompleteTaskGate(s) ==
  LET row == tasks[s.task] IN
  /\ LeaseValid(s.task, s.attempt)
  /\ row.attempt = s.attempt /\ row.completed = s.completed
  /\ row.reserved >= s.charge
  /\ Balance(row.buyer) - HeldByJobs(row.buyer)
       - Total(HoldingTasks(row.buyer) \ {s.task}, TaskReserved) >= s.charge

(* The settlement batch. *)
CompleteArtifactTask(s) ==
  /\ s \in settling
  /\ settling' = settling \ {s}
  /\ \/ /\ CompleteTaskGate(s)
        /\ tasks' = [tasks EXCEPT ![s.task] = Erased(Unleased(@, "completed"))]
        /\ Post(SettlementEntries(s.task, tasks[s.task].buyer,
                  OfferTenant(tasks[s.task].offer), s.charge))
     \/ ~CompleteTaskGate(s) /\ UNCHANGED <<ledger, tasks>>
  /\ UNCHANGED <<orders, polls, heartbeat, Others>>

LoseCompletion(s) ==
  /\ s \in settling
  /\ settling' = settling \ {s}
  /\ UNCHANGED <<ledger, tasks, orders, polls, heartbeat, Others>>

(* Any agent call under a lease whose task has been asked to cancel. *)
AcknowledgeCancellation(t, lease) ==
  /\ tasks[t].status \in TaskLeased /\ tasks[t].cancel /\ tasks[t].lease = lease
  /\ Authenticated(OfferTenant(tasks[t].offer))
  /\ tasks' = [tasks EXCEPT ![t] = Unleased(@, "cancelled")]
  /\ UNCHANGED <<ledger, orders, polls, settling, heartbeat, Others>>

---------------------------------------------------------------------------
(* Time and maintenance. *)

LeaseLapses(t) ==
  /\ tasks[t].status \in TaskLeased /\ ~tasks[t].lapsed
  /\ tasks' = [tasks EXCEPT ![t].lapsed = TRUE]
  /\ UNCHANGED <<ledger, orders, polls, settling, heartbeat, Others>>

(* The lease never outlives the deadline, so it has lapsed as well. *)
DeadlinePasses(t) ==
  /\ tasks[t].status \in TaskLeased /\ ~tasks[t].overdue
  /\ tasks' = [tasks EXCEPT ![t].lapsed = TRUE, ![t].overdue = TRUE]
  /\ UNCHANGED <<ledger, orders, polls, settling, heartbeat, Others>>

TaskAges(t) ==
  /\ tasks[t].status \in TaskActive /\ ~tasks[t].aged
  /\ tasks' = [tasks EXCEPT ![t].aged = TRUE]
  /\ UNCHANGED <<ledger, orders, polls, settling, heartbeat, Others>>

HeartbeatExpires(w) ==
  /\ w \in heartbeat
  /\ heartbeat' = heartbeat \ {w}
  /\ UNCHANGED <<ledger, tasks, orders, polls, settling, Others>>

(* cleanupExpiredArtifactData from maintenance or from any artifact request. *)
MaintainTasks ==
  /\ tasks' = CleanupTasks
  /\ tasks' # tasks
  /\ UNCHANGED <<ledger, orders, polls, settling, heartbeat, Others>>

TaskStep(t) ==
  \/ \E b \in Tenants, o \in Offers, e \in Estimates : OrderTask(t, b, o, e)
  \/ ReserveTask(t)
  \/ LoseOrder(t)
  \/ CancelArtifactTask(t)
  \/ PurgeQueuedTask(t)
  \/ \E l \in 1..MaxAttempts :
       \/ \E n \in 0..Segments : CheckpointArtifactTask(t, l, n)
       \/ \E r \in BOOLEAN : FailArtifactTask(t, l, r)
       \/ \E c \in Amounts : VerifyCompletion(t, l, c)
       \/ AcknowledgeCancellation(t, l)
  \/ LeaseLapses(t)
  \/ DeadlinePasses(t)
  \/ TaskAges(t)

WorkerStep(w) == PollTask(w) \/ ClaimTask(w) \/ LosePoll(w) \/ HeartbeatExpires(w)

CompletionStep == \E s \in settling : CompleteArtifactTask(s) \/ LoseCompletion(s)

=============================================================================
