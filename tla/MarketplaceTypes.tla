----------------------------- MODULE MarketplaceTypes -----------------------------
(***************************************************************************)
(* Type correctness of the control plane and the discipline of leases and  *)
(* attempts, for any number of tenants, offers, jobs, tasks and agents.    *)
(*                                                                         *)
(* TypeOK alone is not inductive: claimArtifactTask increments attempt     *)
(* without comparing it with the maximum, so its bound rests on the fact   *)
(* that a queued task has an attempt left (LeaseIsLastAttempt), and the    *)
(* tenants of a settlement rest on the offer of the row (OffersKnown).     *)
(***************************************************************************)
EXTENDS Marketplace, FiniteSetTheorems, TLAPS

---------------------------------------------------------------------------
(* Rows. *)

(* A row's transition to "failed" is a row. *)
LEMMA FailedType ==
  ASSUME NEW row \in JobRow
  PROVE  /\ Failed(row) \in JobRow
         /\ Failed(row).status = "failed" /\ Failed(row).offer = row.offer
         /\ Failed(row).buyer = row.buyer /\ Failed(row).reserved = row.reserved
         /\ Failed(row).key = row.key /\ Failed(row).revision = row.revision
BY DEF Failed, JobRow, JobActive

(* The condition of a task row that TypeOK and LeaseIsLastAttempt state. *)
TaskRowOK(row) ==
  /\ row \in TaskRow
  /\ row.status # "none" => row.offer \in Offers
  /\ row.lease = IF row.status \in TaskLeased THEN row.attempt ELSE 0
  /\ row.status = "queued" => row.attempt < MaxAttempts
  /\ row.status \in TaskLeased => row.attempt > 0

(* The columns the gates sum and count over do not change. *)
SameSale(new, old) ==
  new.buyer = old.buyer /\ new.offer = old.offer /\ new.reserved = old.reserved

(* Ending a task drops its lease and keeps the row well formed. *)
LEMMA EndedRow ==
  ASSUME NEW row, TaskRowOK(row), row.status # "none", NEW s \in TaskTerminal
  PROVE  /\ TaskRowOK(Unleased(row, s)) /\ TaskRowOK(Erased(Unleased(row, s)))
         /\ Unleased(row, s).status = s /\ Erased(Unleased(row, s)).status = s
         /\ SameSale(Unleased(row, s), row) /\ SameSale(Erased(Unleased(row, s)), row)
<1> USE DEF TaskRowOK, TaskRow, TaskActive, TaskLeased, TaskTerminal, Unleased, Erased, SameSale
<1>0. 0 \in 0..MaxAttempts
  BY PolicyAssumption
<1>1. Unleased(row, s) \in TaskRow
  BY <1>0
<1>2. Erased(Unleased(row, s)) \in TaskRow
  BY <1>1
<1>3. QED
  BY <1>1, <1>2

(* Requeueing keeps the row well formed while an attempt is left. *)
LEMMA RequeuedRow ==
  ASSUME NEW row, TaskRowOK(row), row.status # "none", row.attempt < MaxAttempts
  PROVE  /\ TaskRowOK(Requeued(row)) /\ Requeued(row).status = "queued"
         /\ TaskRowOK(Unleased(row, "queued")) /\ Unleased(row, "queued").status = "queued"
         /\ SameSale(Requeued(row), row) /\ SameSale(Unleased(row, "queued"), row)
<1> USE DEF TaskRowOK
<1> DEFINE u == Unleased(row, "queued")
           w == IF row.overdue THEN NoWorker ELSE u.worker
<1>1. 0 \in 0..MaxAttempts
  BY PolicyAssumption
<1>2. /\ u \in TaskRow /\ u.status = "queued" /\ u.lease = 0 /\ u.attempt = row.attempt
      /\ SameSale(u, row)
  BY <1>1 DEF TaskRow, TaskActive, TaskLeased, Unleased, SameSale
<1>3. Requeued(row) = [u EXCEPT !.worker = w]
  BY DEF Requeued
<1> HIDE DEF u
<1>4. w \in Workers \cup {NoWorker}
  BY <1>2 DEF TaskRow
<1> HIDE DEF w
<1>5. /\ Requeued(row) \in TaskRow /\ Requeued(row).status = "queued"
      /\ Requeued(row).lease = 0 /\ Requeued(row).attempt = row.attempt
      /\ SameSale(Requeued(row), row)
  BY <1>2, <1>3, <1>4 DEF TaskRow, SameSale
<1>6. TaskRowOK(Requeued(row)) /\ TaskRowOK(u)
  BY <1>2, <1>5 DEF SameSale, TaskLeased
<1>7. QED
  BY <1>2, <1>5, <1>6 DEF u

(* What a transition of a task row may do that neither reserves money nor
   takes capacity. *)
RowQuiet(new, old) ==
  /\ new.status \in TaskActive => old.status \in TaskActive
  /\ new.status \in TaskLeased => old.status \in TaskLeased
  /\ old.status \in TaskTerminal \cup {"none"} => new.status = old.status
  /\ new.status = "none" => old.status = "none"
  /\ SameSale(new, old)

(* The sweeps of claimArtifactTask and cleanupExpiredArtifactData. *)
LEMMA SweptRow ==
  ASSUME NEW row, TaskRowOK(row)
  PROVE  /\ TaskRowOK(SweptByClaim(row)) /\ RowQuiet(SweptByClaim(row), row)
         /\ TaskRowOK(SweptByCleanup(row)) /\ RowQuiet(SweptByCleanup(row), row)
<1>1. RowQuiet(row, row)
  BY DEF RowQuiet, SameSale
<1>2. CASE ~LeaseGone(row) /\ row.status # "queued"
  BY <1>1, <1>2 DEF SweptByClaim, SweptByCleanup
<1>3. CASE LeaseGone(row) \/ row.status = "queued"
  <2>1. row.status \in TaskActive /\ row.status # "none" /\ row.status \notin TaskTerminal
    BY <1>3 DEF LeaseGone, TaskActive, TaskLeased, TaskTerminal
  <2>2. \A s \in TaskTerminal : /\ TaskRowOK(Unleased(row, s)) /\ TaskRowOK(Erased(Unleased(row, s)))
                                /\ RowQuiet(Unleased(row, s), row)
                                /\ RowQuiet(Erased(Unleased(row, s)), row)
    BY <2>1, EndedRow DEF RowQuiet, TaskActive, TaskLeased, TaskTerminal
  <2>3. "failed" \in TaskTerminal /\ "cancelled" \in TaskTerminal
    BY DEF TaskTerminal
  <2>4. row.attempt < MaxAttempts => TaskRowOK(Requeued(row)) /\ RowQuiet(Requeued(row), row)
    BY <2>1, RequeuedRow DEF RowQuiet, TaskActive, TaskLeased, TaskTerminal
  <2>5. TaskRowOK(SweptByClaim(row)) /\ RowQuiet(SweptByClaim(row), row)
    BY <1>1, <2>2, <2>3, <2>4 DEF SweptByClaim
  <2>6. TaskRowOK(SweptByCleanup(row)) /\ RowQuiet(SweptByCleanup(row), row)
    BY <1>1, <2>2, <2>3, <2>4 DEF SweptByCleanup
  <2>7. QED
    BY <2>5, <2>6
<1>4. QED
  BY <1>2, <1>3

(* A leased or queued row that is asked to stop keeps status and lease. *)
LEMMA AskedRow ==
  ASSUME NEW row, TaskRowOK(row)
  PROVE  LET asked == [Erased(row) EXCEPT !.cancel = TRUE] IN
         TaskRowOK(asked) /\ asked.status = row.status /\ RowQuiet(asked, row)
<1> DEFINE e == Erased(row)
           asked == [e EXCEPT !.cancel = TRUE]
<1> USE DEF TaskRowOK
<1>1. /\ e \in TaskRow /\ e.status = row.status /\ e.lease = row.lease
      /\ e.attempt = row.attempt /\ SameSale(e, row)
  BY DEF Erased, TaskRow, SameSale
<1> HIDE DEF e
<1>2. /\ asked \in TaskRow /\ asked.status = row.status /\ asked.lease = row.lease
      /\ asked.attempt = row.attempt /\ SameSale(asked, row)
  BY <1>1 DEF TaskRow, SameSale
<1> HIDE DEF asked
<1>3. TaskRowOK(asked) /\ RowQuiet(asked, row)
  BY <1>2 DEF RowQuiet, SameSale
<1>4. QED
  BY <1>2, <1>3 DEF asked, e

(* The revocation of the authorization behind a task. *)
LEMMA RevokedRow ==
  ASSUME NEW row, TaskRowOK(row)
  PROVE  TaskRowOK(RevokedTask(row)) /\ RowQuiet(RevokedTask(row), row)
<1>1. RowQuiet(row, row)
  BY DEF RowQuiet, SameSale
<1>2. row.status = "queued" =>
        TaskRowOK(Erased(Unleased(row, "failed"))) /\ RowQuiet(Erased(Unleased(row, "failed")), row)
  BY EndedRow DEF RowQuiet, TaskActive, TaskLeased, TaskTerminal
<1>3. QED
  BY <1>1, <1>2, AskedRow DEF RevokedTask

---------------------------------------------------------------------------
(* The inductive invariant, one conjunct per table. *)

LedgerOK == ledger \subseteq Entry /\ IsFiniteSet(ledger)
JobsOK ==
  /\ jobs \in [Jobs -> JobRow]
  /\ \A j \in Jobs : jobs[j].status # "none" => jobs[j].offer \in Offers
CallsOK ==
  /\ calls \in [Jobs -> CallRow]
  /\ \A j \in Jobs : calls[j].phase = "selected" => calls[j].offer \in Offers
TasksOK ==
  /\ tasks = [t \in Tasks |-> tasks[t]]
  /\ \A t \in Tasks : TaskRowOK(tasks[t])
OrdersOK ==
  /\ orders \in [Tasks -> OrderRow]
  /\ \A t \in Tasks : orders[t].phase = "selected" => orders[t].offer \in Offers
AgentsOK ==
  /\ polls \in [Workers -> SUBSET PollRow]
  /\ settling \subseteq Settling
  /\ heartbeat \subseteq Workers
AuthOK == auth \in [Auths -> AuthRow] /\ supply \in [Tenants -> BOOLEAN]

IInv == LedgerOK /\ JobsOK /\ CallsOK /\ TasksOK /\ OrdersOK /\ AgentsOK /\ AuthOK

(* The inductive invariant implies what the runs check. *)
LEMMA IInvImplies == IInv => TypeOK /\ LeaseIsLastAttempt /\ OffersKnown
<1> SUFFICES ASSUME IInv PROVE TypeOK /\ LeaseIsLastAttempt /\ OffersKnown
  OBVIOUS
<1>1. tasks \in [Tasks -> TaskRow]
  BY DEF IInv, TasksOK, TaskRowOK
<1>2. TypeOK
  BY <1>1 DEF IInv, TypeOK, LedgerOK, JobsOK, CallsOK, OrdersOK, AgentsOK, AuthOK
<1>3. LeaseIsLastAttempt
  BY DEF IInv, TasksOK, TaskRowOK, LeaseIsLastAttempt
<1>4. OffersKnown
  BY DEF IInv, JobsOK, CallsOK, TasksOK, TaskRowOK, OrdersOK, OffersKnown
<1>5. QED
  BY <1>2, <1>3, <1>4

LEMMA InitIInv == Init => IInv
<1> SUFFICES ASSUME Init PROVE IInv
  OBVIOUS
<1> USE DEF Init, InferenceInit, TasksInit
<1>1. SomeTenant \in Tenants /\ SomeKey \in Keys /\ AnyTenant \in Tenants
  BY SetAssumption DEF SomeTenant, SomeKey, AnyTenant
<1>2. NoJob \in JobRow /\ NoJob.status = "none"
  BY <1>1 DEF NoJob, JobRow
<1>3. NoCall \in CallRow /\ NoCall.phase = "idle"
  BY <1>1 DEF NoCall, CallRow, CallPhases
<1>4. TaskRowOK(NoTask)
  BY <1>1, PolicyAssumption DEF NoTask, TaskRowOK, TaskRow, TaskLeased
<1>5. NoOrder \in OrderRow /\ NoOrder.phase = "idle"
  BY <1>1 DEF NoOrder, OrderRow
<1>6. LedgerOK
  BY FS_EmptySet DEF LedgerOK
<1>7. JobsOK /\ CallsOK
  BY <1>2, <1>3 DEF JobsOK, CallsOK
<1>8. TasksOK /\ OrdersOK
  BY <1>4, <1>5 DEF TasksOK, OrdersOK
<1>9. AgentsOK
  BY DEF AgentsOK
<1>10. AuthOK
  BY DEF AuthOK, AuthRow
<1>11. QED
  BY <1>6, <1>7, <1>8, <1>9, <1>10 DEF IInv

---------------------------------------------------------------------------
(* Frames: which tables the handlers of one service leave alone. *)

(* runInference and its sweep write inference_jobs and the ledger only. *)
LEMMA InferenceFrame ==
  ASSUME NEW j \in Jobs, InferenceStep(j)
  PROVE  UNCHANGED Rest
BY DEF InferenceStep, BeginInference, SelectOffer, RefuseInference, ReserveInference,
       StartInference, GatewayAnswers, GatewayFails, SettleInference, FailInference,
       LoseInference, ReservationLapses

(* The handlers of file tasks leave inference and authorizations alone. *)
LEMMA TaskFrame ==
  ASSUME \/ \E t \in Tasks : TaskStep(t)
         \/ \E w \in Workers : WorkerStep(w)
         \/ CompletionStep
         \/ MaintainTasks
  PROVE  UNCHANGED Others
<1>1. ASSUME NEW t \in Tasks, TaskStep(t) PROVE UNCHANGED Others
  BY <1>1 DEF TaskStep, OrderTask, ReserveTask, LoseOrder, CancelArtifactTask, PurgeQueuedTask,
              CheckpointArtifactTask, FailArtifactTask, VerifyCompletion, AcknowledgeCancellation,
              LeaseLapses, DeadlinePasses, TaskAges
<1>2. ASSUME NEW w \in Workers, WorkerStep(w) PROVE UNCHANGED Others
  BY <1>2 DEF WorkerStep, PollTask, ClaimTask, LosePoll, HeartbeatExpires
<1>3. CompletionStep => UNCHANGED Others
  BY DEF CompletionStep, CompleteArtifactTask, LoseCompletion
<1>4. MaintainTasks => UNCHANGED Others
  BY DEF MaintainTasks
<1>5. QED
  BY <1>1, <1>2, <1>3, <1>4

---------------------------------------------------------------------------
(* inference_jobs. *)

(* A transition of a job row that neither reserves money nor takes capacity. *)
JobQuiet(new, old) ==
  /\ new.status \in JobActive => old.status \in JobActive
  /\ new.status = "reserved" => old.status = "reserved"
  /\ old.status \in {"none", "completed", "failed"} => new.status = old.status
  /\ new.status = "none" => old.status = "none"
  /\ new.buyer = old.buyer /\ new.offer = old.offer /\ new.reserved = old.reserved
  /\ new.key = old.key /\ new.revision = old.revision

QuietJobs == \A i \in Jobs : JobQuiet(jobs'[i], jobs[i])

(* The INSERT of RESERVE_INFERENCE_JOB_SQL takes effect. *)
JobReserves(j) ==
  LET c == calls[j] IN
  /\ c.phase = "selected"
  /\ ReserveGate(c)
  /\ jobs' = [jobs EXCEPT ![j] =
       [status |-> "reserved", buyer |-> c.buyer, key |-> c.key, offer |-> c.offer,
        revision |-> c.revision, reserved |-> c.estimate, lapsed |-> FALSE]]

(* Failing a set of active jobs, as the sweep and the commands do. *)
LEMMA FailingJobs ==
  ASSUME JobsOK, NEW H \in SUBSET {i \in Jobs : jobs[i].status \in JobActive},
         jobs' = [i \in Jobs |-> IF i \in H THEN Failed(jobs[i]) ELSE jobs[i]]
  PROVE  JobsOK' /\ QuietJobs
<1>1. ASSUME NEW i \in Jobs
      PROVE  /\ jobs'[i] \in JobRow /\ JobQuiet(jobs'[i], jobs[i])
             /\ jobs'[i].status # "none" => jobs'[i].offer \in Offers
  <2>1. jobs[i] \in JobRow
    BY DEF JobsOK
  <2>2. CASE i \in H
    BY <2>1, <2>2, FailedType DEF JobsOK, JobQuiet, JobActive
  <2>3. CASE i \notin H
    BY <2>1, <2>3 DEF JobsOK, JobQuiet
  <2>4. QED
    BY <2>2, <2>3
<1>2. QED
  BY <1>1 DEF JobsOK, QuietJobs

LEMMA SweptJobs ==
  ASSUME JobsOK, CleanupStaleInferenceReservations
  PROVE  JobsOK' /\ QuietJobs
<1> DEFINE H == {i \in Jobs : IsStale(i)}
<1>1. H \in SUBSET {i \in Jobs : jobs[i].status \in JobActive}
  BY DEF IsStale
<1>2. jobs' = [i \in Jobs |-> IF i \in H THEN Failed(jobs[i]) ELSE jobs[i]]
  BY DEF CleanupStaleInferenceReservations, FailJobs
<1>3. QED
  BY <1>1, <1>2, FailingJobs

(* A step that writes one job row quietly. *)
LEMMA OneQuietJob ==
  ASSUME JobsOK, NEW j \in Jobs, NEW row, jobs' = [jobs EXCEPT ![j] = row],
         row \in JobRow, JobQuiet(row, jobs[j])
  PROVE  JobsOK' /\ QuietJobs
BY DEF JobsOK, QuietJobs, JobQuiet

LEMMA SameJobs ==
  ASSUME JobsOK, UNCHANGED jobs
  PROVE  JobsOK' /\ QuietJobs
BY DEF JobsOK, QuietJobs, JobQuiet

(* runInference, row by row. *)
LEMMA InferenceJobs ==
  ASSUME IInv, NEW j \in Jobs, InferenceStep(j)
  PROVE  JobsOK' /\ (QuietJobs \/ JobReserves(j))
<1> USE DEF IInv
<1>0. jobs[j] \in JobRow /\ calls[j] \in CallRow /\ jobs = [i \in Jobs |-> jobs[i]]
  BY DEF JobsOK, CallsOK
<1>1. CASE UNCHANGED jobs
  BY <1>1, SameJobs
<1>2. CASE CleanupStaleInferenceReservations
  BY <1>2, SweptJobs
<1>3. CASE ReserveInference(j) /\ ~UNCHANGED jobs
  <2>1. JobReserves(j)
    BY <1>3 DEF ReserveInference, JobReserves
  <2>2. calls[j].offer \in Offers
    BY <2>1 DEF CallsOK, JobReserves
  <2>3. JobsOK'
    BY <1>0, <2>1, <2>2 DEF JobsOK, JobReserves, JobRow, JobActive, CallRow
  <2>4. QED
    BY <2>1, <2>3
<1>4. CASE StartInference(j) /\ ~UNCHANGED jobs
  <2>1. jobs[j].status = "reserved" /\ jobs' = [jobs EXCEPT ![j] = [jobs[j] EXCEPT !.status = "running"]]
    BY <1>4 DEF StartInference
  <2>2. /\ [jobs[j] EXCEPT !.status = "running"] \in JobRow
        /\ JobQuiet([jobs[j] EXCEPT !.status = "running"], jobs[j])
    BY <1>0, <2>1 DEF JobRow, JobActive, JobQuiet
  <2>3. QED
    BY <2>1, <2>2, OneQuietJob
<1>5. CASE SettleInference(j) /\ ~UNCHANGED jobs
  <2>1. jobs[j].status = "running" /\ jobs' = [jobs EXCEPT ![j] = [jobs[j] EXCEPT !.status = "completed"]]
    BY <1>5 DEF SettleInference, CompleteJobGate
  <2>2. /\ [jobs[j] EXCEPT !.status = "completed"] \in JobRow
        /\ JobQuiet([jobs[j] EXCEPT !.status = "completed"], jobs[j])
    BY <1>0, <2>1 DEF JobRow, JobActive, JobQuiet
  <2>3. QED
    BY <2>1, <2>2, OneQuietJob
<1>6. CASE FailInference(j)
  <2>1. jobs' = [i \in Jobs |-> IF i \in {k \in {j} : jobs[k].status \in JobActive}
                                THEN Failed(jobs[i]) ELSE jobs[i]]
    BY <1>0, <1>6 DEF FailInference
  <2>2. {k \in {j} : jobs[k].status \in JobActive} \in SUBSET {i \in Jobs : jobs[i].status \in JobActive}
    OBVIOUS
  <2>3. QED
    BY <2>1, <2>2, FailingJobs
<1>7. CASE ReservationLapses(j)
  <2>1. jobs' = [jobs EXCEPT ![j] = [jobs[j] EXCEPT !.lapsed = TRUE]]
    BY <1>7 DEF ReservationLapses
  <2>2. /\ [jobs[j] EXCEPT !.lapsed = TRUE] \in JobRow
        /\ JobQuiet([jobs[j] EXCEPT !.lapsed = TRUE], jobs[j])
    BY <1>0 DEF JobRow, JobQuiet
  <2>3. QED
    BY <2>1, <2>2, OneQuietJob
<1>8. QED
  BY <1>1, <1>2, <1>3, <1>4, <1>5, <1>6, <1>7
  DEF InferenceStep, BeginInference, SelectOffer, RefuseInference, GatewayAnswers, GatewayFails,
      LoseInference

(* The handler of a request. *)
LEMMA InferenceCalls ==
  ASSUME IInv, NEW j \in Jobs, InferenceStep(j)
  PROVE  CallsOK'
<1> USE DEF IInv
<1>0. calls[j] \in CallRow /\ calls = [i \in Jobs |-> calls[i]]
  BY DEF CallsOK
<1>1. ASSUME NEW row \in CallRow, calls' = [calls EXCEPT ![j] = row],
             row.phase = "selected" => row.offer \in Offers
      PROVE  CallsOK'
  BY <1>1 DEF CallsOK
<1>2. ASSUME NEW p \in CallPhases \ {"selected"}, calls' = [calls EXCEPT ![j].phase = p]
      PROVE  CallsOK'
  <2>1. [calls[j] EXCEPT !.phase = p] \in CallRow /\ [calls[j] EXCEPT !.phase = p].phase = p
    BY <1>0 DEF CallRow
  <2>2. QED
    BY <1>1, <1>2, <2>1
<1>3. ASSUME UNCHANGED calls PROVE CallsOK'
  BY <1>3 DEF CallsOK
<1>4. Return(j) => CallsOK'
  BY <1>2 DEF Return, CallPhases
<1>5. ASSUME NEW b \in Tenants, NEW k \in Keys, BeginInference(j, b, k) PROVE CallsOK'
  <2>1. NoCall \in CallRow
    BY SetAssumption DEF NoCall, CallRow, CallPhases, SomeTenant, SomeKey
  <2>2. /\ [NoCall EXCEPT !.phase = "swept", !.buyer = b, !.key = k] \in CallRow
        /\ [NoCall EXCEPT !.phase = "swept", !.buyer = b, !.key = k].phase = "swept"
    BY <2>1 DEF CallRow, CallPhases
  <2>3. calls' = [calls EXCEPT ![j] = [NoCall EXCEPT !.phase = "swept", !.buyer = b, !.key = k]]
    BY <1>5 DEF BeginInference
  <2>4. QED
    BY <1>1, <2>2, <2>3
<1>6. ASSUME NEW o \in Offers, NEW e \in Estimates, SelectOffer(j, o, e) PROVE CallsOK'
  <2> DEFINE r == auth[OfferAuth[o]].revision
             row == [calls[j] EXCEPT !.phase = "selected", !.offer = o, !.revision = r, !.estimate = e]
  <2>1. r \in Nat /\ e \in Nat
    BY MapAssumption, PolicyAssumption DEF AuthOK, AuthRow
  <2>2. calls' = [calls EXCEPT ![j] = row]
    BY <1>6 DEF SelectOffer
  <2> HIDE DEF r
  <2>3. row \in CallRow /\ row.offer = o
    BY <1>0, <2>1 DEF CallRow, CallPhases
  <2>4. QED
    BY <1>1, <2>2, <2>3
<1>7. ReserveInference(j) => CallsOK'
  <2>1. "reserved" \in CallPhases \ {"selected"}
    BY DEF CallPhases
  <2>2. QED
    BY <1>2, <1>4, <2>1 DEF ReserveInference
<1>8. StartInference(j) => CallsOK'
  <2>1. "calling" \in CallPhases \ {"selected"}
    BY DEF CallPhases
  <2>2. QED
    BY <1>2, <1>4, <2>1 DEF StartInference
<1>9. ASSUME NEW c \in Amounts, GatewayAnswers(j, c) PROVE CallsOK'
  <2> DEFINE p == IF c <= calls[j].estimate THEN "answered" ELSE "failing"
             row == [calls[j] EXCEPT !.charge = c, !.phase = p]
  <2>1. c \in Nat /\ p \in CallPhases /\ p # "selected"
    BY PolicyAssumption DEF CallPhases
  <2>2. calls' = [calls EXCEPT ![j] = row]
    BY <1>9 DEF GatewayAnswers
  <2> HIDE DEF p
  <2>3. row \in CallRow /\ row.phase = p
    BY <1>0, <2>1 DEF CallRow
  <2>4. QED
    BY <1>1, <2>1, <2>2, <2>3
<1>10. "failing" \in CallPhases \ {"selected"}
  BY DEF CallPhases
<1>11. GatewayFails(j) => CallsOK'
  BY <1>2, <1>10 DEF GatewayFails
<1>12. SettleInference(j) => CallsOK'
  BY <1>2, <1>4, <1>10 DEF SettleInference
<1>13. RefuseInference(j) \/ FailInference(j) \/ LoseInference(j) \/ ReservationLapses(j) => CallsOK'
  BY <1>3, <1>4 DEF RefuseInference, FailInference, LoseInference, ReservationLapses
<1>14. QED
  BY <1>5, <1>6, <1>7, <1>8, <1>9, <1>11, <1>12, <1>13 DEF InferenceStep

---------------------------------------------------------------------------
(* artifact_tasks. *)

QuietTasks == \A i \in Tasks : RowQuiet(tasks'[i], tasks[i])

(* The INSERT of RESERVE_ARTIFACT_TASK_SQL takes effect. *)
TaskReserves(t) ==
  /\ orders[t].phase = "selected"
  /\ ReserveTaskGate(orders[t])
  /\ tasks' = [tasks EXCEPT ![t] =
       [NoTask EXCEPT !.status = "queued", !.buyer = orders[t].buyer, !.offer = orders[t].offer,
                      !.reserved = orders[t].estimate, !.instruction = TRUE]]

(* The conditional UPDATE of claimArtifactTask takes effect. *)
TaskClaimed(w, p) ==
  /\ ClaimGate(w, p)
  /\ tasks' = [tasks EXCEPT ![p.task] =
       [tasks[p.task] EXCEPT !.status = "claimed", !.worker = w,
          !.attempt = tasks[p.task].attempt + 1, !.lease = tasks[p.task].attempt + 1,
          !.completed = p.resume]]

(* A step that writes every row quietly. *)
LEMMA MappedTasks ==
  ASSUME NEW f, tasks' = [i \in Tasks |-> f[i]],
         \A i \in Tasks : TaskRowOK(f[i]) /\ RowQuiet(f[i], tasks[i])
  PROVE  TasksOK' /\ QuietTasks
BY DEF TasksOK, QuietTasks, TaskRowOK

(* A step that writes one row quietly. *)
LEMMA OneQuietTask ==
  ASSUME TasksOK, NEW t \in Tasks, NEW row, tasks' = [tasks EXCEPT ![t] = row],
         TaskRowOK(row), RowQuiet(row, tasks[t])
  PROVE  TasksOK' /\ QuietTasks
<1>1. \A i \in Tasks : tasks'[i] = IF i = t THEN row ELSE tasks[i]
  BY DEF TasksOK
<1>2. \A i \in Tasks : RowQuiet(tasks[i], tasks[i])
  BY DEF RowQuiet, SameSale
<1>3. tasks' = [i \in Tasks |-> tasks'[i]]
  BY DEF TasksOK
<1>4. QED
  BY <1>1, <1>2, <1>3 DEF TasksOK, QuietTasks

LEMMA SameTasks ==
  ASSUME TasksOK, UNCHANGED tasks
  PROVE  TasksOK' /\ QuietTasks
BY DEF TasksOK, QuietTasks, RowQuiet, SameSale, TaskRowOK

LEMMA CleanedTasks ==
  ASSUME TasksOK, tasks' = CleanupTasks
  PROVE  TasksOK' /\ QuietTasks
<1> DEFINE f == [i \in Tasks |-> SweptByCleanup(tasks[i])]
<1>1. \A i \in Tasks : TaskRowOK(f[i]) /\ RowQuiet(f[i], tasks[i])
  BY SweptRow DEF TasksOK
<1>2. tasks' = [i \in Tasks |-> f[i]]
  BY DEF CleanupTasks
<1>3. QED
  BY <1>1, <1>2, MappedTasks

(* Ending a task that has not ended is quiet. *)
LEMMA EndingRow ==
  ASSUME NEW row, TaskRowOK(row), row.status \in TaskActive, NEW s \in TaskTerminal
  PROVE  /\ TaskRowOK(Unleased(row, s)) /\ RowQuiet(Unleased(row, s), row)
         /\ TaskRowOK(Erased(Unleased(row, s))) /\ RowQuiet(Erased(Unleased(row, s)), row)
<1>1. row.status # "none" /\ row.status \notin TaskTerminal \cup {"none"}
  BY DEF TaskActive, TaskLeased, TaskTerminal
<1>2. s \notin TaskActive /\ s \notin TaskLeased /\ s # "none"
  BY DEF TaskActive, TaskLeased, TaskTerminal
<1>3. QED
  BY <1>1, <1>2, EndedRow DEF RowQuiet

(* The buyer's commands, row by row. *)
LEMMA BuyerTasks ==
  ASSUME IInv, NEW t \in Tasks, CancelArtifactTask(t) \/ PurgeQueuedTask(t)
  PROVE  TasksOK' /\ QuietTasks
<1> USE DEF IInv
<1> DEFINE row == tasks[t]
<1>0. TaskRowOK(row) /\ row.status \in TaskActive
  BY DEF TasksOK, CancelArtifactTask, PurgeQueuedTask, TaskActive
<1>1. "cancelled" \in TaskTerminal
  BY DEF TaskTerminal
<1>2. ASSUME NEW new, TaskRowOK(new), RowQuiet(new, row), tasks' = [tasks EXCEPT ![t] = new]
      PROVE  TasksOK' /\ QuietTasks
  BY <1>2, OneQuietTask
<1>3. CASE CancelArtifactTask(t)
  <2> DEFINE asked == [Erased(row) EXCEPT !.cancel = TRUE]
             new == IF row.status = "queued" THEN Unleased(asked, "cancelled") ELSE asked
  <2>1. TaskRowOK(asked) /\ asked.status = row.status /\ RowQuiet(asked, row)
    BY <1>0, AskedRow
  <2>2. tasks' = [tasks EXCEPT ![t] = new]
    BY <1>3 DEF CancelArtifactTask
  <2> HIDE DEF asked
  <2>3. TaskRowOK(Unleased(asked, "cancelled")) /\ RowQuiet(Unleased(asked, "cancelled"), asked)
    BY <1>0, <1>1, <2>1, EndingRow
  <2>4. TaskRowOK(new) /\ RowQuiet(new, row)
    BY <2>1, <2>3 DEF RowQuiet, SameSale
  <2>5. QED
    BY <1>2, <2>2, <2>4
<1>4. CASE PurgeQueuedTask(t)
  <2> DEFINE e == Erased(Unleased(row, "cancelled"))
             new == [e EXCEPT !.cancel = TRUE]
  <2>1. TaskRowOK(e) /\ RowQuiet(e, row)
    BY <1>0, <1>1, EndingRow
  <2>2. tasks' = [tasks EXCEPT ![t] = new]
    BY <1>4 DEF PurgeQueuedTask
  <2> HIDE DEF e
  <2>3. TaskRowOK(new) /\ RowQuiet(new, row)
    BY <2>1 DEF TaskRowOK, TaskRow, RowQuiet, SameSale
  <2>4. QED
    BY <1>2, <2>2, <2>3
<1>5. QED
  BY <1>3, <1>4

(* The lease holder and the clock, row by row. *)
LEMMA LeaseTasks ==
  ASSUME IInv, NEW t \in Tasks,
         \/ \E l \in 1..MaxAttempts :
              \/ \E n \in 0..Segments : CheckpointArtifactTask(t, l, n)
              \/ \E r \in BOOLEAN : FailArtifactTask(t, l, r)
              \/ AcknowledgeCancellation(t, l)
         \/ LeaseLapses(t) \/ DeadlinePasses(t) \/ TaskAges(t)
  PROVE  TasksOK' /\ QuietTasks
<1> USE DEF IInv
<1> DEFINE row == tasks[t]
<1>0. TaskRowOK(row)
  BY DEF TasksOK
<1>1. {"failed", "cancelled"} \subseteq TaskTerminal /\ TaskLeased \subseteq TaskActive
  BY DEF TaskTerminal, TaskActive
<1>2. ASSUME NEW new, TaskRowOK(new), RowQuiet(new, row), tasks' = [tasks EXCEPT ![t] = new]
      PROVE  TasksOK' /\ QuietTasks
  BY <1>2, OneQuietTask
<1>3. ASSUME NEW l \in 1..MaxAttempts, NEW n \in 0..Segments, CheckpointArtifactTask(t, l, n)
      PROVE  TasksOK' /\ QuietTasks
  <2> DEFINE new == [row EXCEPT !.status = "running", !.completed = n]
  <2>1. row.status \in TaskLeased /\ tasks' = [tasks EXCEPT ![t] = new]
    BY <1>3 DEF CheckpointArtifactTask, LeasedTask, LeaseValid
  <2>2. TaskRowOK(new) /\ RowQuiet(new, row)
    BY <1>0, <2>1 DEF TaskRowOK, TaskRow, TaskActive, TaskLeased, TaskTerminal, RowQuiet, SameSale
  <2>3. QED
    BY <1>2, <2>1, <2>2
<1>4. ASSUME NEW l \in 1..MaxAttempts, NEW r \in BOOLEAN, FailArtifactTask(t, l, r)
      PROVE  TasksOK' /\ QuietTasks
  <2> DEFINE new == IF r /\ row.attempt < MaxAttempts THEN Unleased(row, "queued")
                    ELSE Erased(Unleased(row, "failed"))
  <2>1. row.status \in TaskLeased /\ tasks' = [tasks EXCEPT ![t] = new]
    BY <1>4 DEF FailArtifactTask, LeasedTask, LeaseValid
  <2>2. TaskRowOK(Erased(Unleased(row, "failed"))) /\ RowQuiet(Erased(Unleased(row, "failed")), row)
    BY <1>0, <1>1, <2>1, EndingRow
  <2>3. row.attempt < MaxAttempts =>
          TaskRowOK(Unleased(row, "queued")) /\ RowQuiet(Unleased(row, "queued"), row)
    BY <1>0, <2>1, RequeuedRow DEF RowQuiet, TaskActive, TaskLeased, TaskTerminal
  <2>4. TaskRowOK(new) /\ RowQuiet(new, row)
    BY <2>2, <2>3
  <2> HIDE DEF new
  <2>5. QED
    BY <1>2, <2>1, <2>4
<1>5. ASSUME NEW l \in 1..MaxAttempts, AcknowledgeCancellation(t, l)
      PROVE  TasksOK' /\ QuietTasks
  <2>1. /\ row.status \in TaskLeased
        /\ tasks' = [tasks EXCEPT ![t] = Unleased(row, "cancelled")]
    BY <1>5 DEF AcknowledgeCancellation
  <2>2. QED
    BY <1>0, <1>1, <1>2, <2>1, EndingRow
<1>6. ASSUME LeaseLapses(t) \/ DeadlinePasses(t) \/ TaskAges(t)
      PROVE  TasksOK' /\ QuietTasks
  <2>1. PICK p, q, r \in BOOLEAN : tasks' = [tasks EXCEPT ![t] =
          [row EXCEPT !.lapsed = p, !.overdue = q, !.aged = r]]
    <3>2. row.lapsed \in BOOLEAN /\ row.overdue \in BOOLEAN /\ row.aged \in BOOLEAN
      BY <1>0 DEF TaskRowOK, TaskRow
    <3>3. CASE LeaseLapses(t)
      <4>1. tasks' = [tasks EXCEPT ![t] =
              [row EXCEPT !.lapsed = TRUE, !.overdue = row.overdue, !.aged = row.aged]]
        BY <1>0, <3>3 DEF LeaseLapses, TaskRowOK, TaskRow
      <4>2. QED
        BY <3>2, <4>1
    <3>4. CASE DeadlinePasses(t)
      <4>1. tasks' = [tasks EXCEPT ![t] =
              [row EXCEPT !.lapsed = TRUE, !.overdue = TRUE, !.aged = row.aged]]
        BY <1>0, <3>4 DEF DeadlinePasses, TaskRowOK, TaskRow
      <4>2. QED
        BY <3>2, <4>1
    <3>5. CASE TaskAges(t)
      <4>1. tasks' = [tasks EXCEPT ![t] =
              [row EXCEPT !.lapsed = row.lapsed, !.overdue = row.overdue, !.aged = TRUE]]
        BY <1>0, <3>5 DEF TaskAges, TaskRowOK, TaskRow
      <4>2. QED
        BY <3>2, <4>1
    <3>6. QED
      BY <1>6, <3>3, <3>4, <3>5
  <2> DEFINE new == [row EXCEPT !.lapsed = p, !.overdue = q, !.aged = r]
  <2>2. TaskRowOK(new) /\ RowQuiet(new, row)
    BY <1>0 DEF TaskRowOK, TaskRow, RowQuiet, SameSale
  <2> HIDE DEF new
  <2>3. QED
    BY <1>2, <2>1, <2>2 DEF new
<1>7. QED
  BY <1>3, <1>4, <1>5, <1>6

(* The poll's sweep and the claim. *)
LEMMA WorkerTasks ==
  ASSUME IInv, NEW w \in Workers, WorkerStep(w)
  PROVE  TasksOK' /\ (QuietTasks \/ \E p \in polls[w] : p \in PollRow /\ TaskClaimed(w, p))
<1> USE DEF IInv
<1>1. CASE PollTask(w)
  <2> DEFINE f == [t \in Tasks |-> IF tasks[t].status # "none" /\ OfferTenant(tasks[t].offer) = WorkerTenant[w]
                                   THEN SweptByClaim(tasks[t]) ELSE tasks[t]]
  <2>1. tasks' = f
    BY <1>1 DEF PollTask
  <2>2. \A i \in Tasks : TaskRowOK(f[i]) /\ RowQuiet(f[i], tasks[i])
    BY SweptRow DEF TasksOK, RowQuiet, SameSale
  <2>3. tasks' = [i \in Tasks |-> f[i]]
    BY <2>1
  <2>4. QED
    BY <2>2, <2>3, MappedTasks
<1>2. CASE ClaimTask(w) /\ ~UNCHANGED tasks
  <2>1. PICK p \in polls[w] : TaskClaimed(w, p)
    BY <1>2 DEF ClaimTask, TaskClaimed
  <2>2. p \in PollRow /\ p.task \in Tasks /\ p.resume \in 0..Segments
    BY <2>1 DEF AgentsOK, PollRow
  <2> DEFINE row == tasks[p.task]
             new == [row EXCEPT !.status = "claimed", !.worker = w, !.attempt = row.attempt + 1,
                                !.lease = row.attempt + 1, !.completed = p.resume]
  <2>3. TaskRowOK(row) /\ row.status = "queued"
    BY <2>1, <2>2 DEF TaskClaimed, ClaimGate, TasksOK
  <2>4. row.attempt + 1 \in 0..MaxAttempts /\ row.attempt + 1 > 0
    BY <2>3, PolicyAssumption DEF TaskRowOK, TaskRow
  <2>5. TaskRowOK(new)
    BY <2>2, <2>3, <2>4 DEF TaskRowOK, TaskRow, TaskActive, TaskLeased
  <2>6. tasks' = [tasks EXCEPT ![p.task] = new]
    BY <2>1 DEF TaskClaimed
  <2> HIDE DEF new
  <2>7. TasksOK'
    BY <2>2, <2>5, <2>6 DEF TasksOK
  <2>8. QED
    BY <2>1, <2>2, <2>7
<1>3. CASE UNCHANGED tasks
  BY <1>3, SameTasks
<1>4. QED
  BY <1>1, <1>2, <1>3 DEF WorkerStep, LosePoll, HeartbeatExpires

(* The handlers named by a task. *)
LEMMA TaskTasks ==
  ASSUME IInv, NEW t \in Tasks, TaskStep(t)
  PROVE  TasksOK' /\ (QuietTasks \/ TaskReserves(t))
<1> USE DEF IInv
<1>1. CASE UNCHANGED tasks
  BY <1>1, SameTasks
<1>2. CASE tasks' = CleanupTasks
  BY <1>2, CleanedTasks
<1>3. CASE ReserveTask(t) /\ ~UNCHANGED tasks
  <2>1. TaskReserves(t)
    BY <1>3 DEF ReserveTask, TaskReserves
  <2> DEFINE c == orders[t]
             new == [NoTask EXCEPT !.status = "queued", !.buyer = c.buyer, !.offer = c.offer,
                                   !.reserved = c.estimate, !.instruction = TRUE]
  <2>2. c \in OrderRow /\ c.offer \in Offers
    BY <2>1 DEF OrdersOK, TaskReserves
  <2>3. c.buyer \in Tenants /\ c.estimate \in Nat
    BY <2>2 DEF OrderRow
  <2>4. /\ NoTask \in TaskRow /\ NoTask.lease = 0 /\ NoTask.attempt = 0
        /\ 0 < MaxAttempts
    BY SetAssumption, PolicyAssumption DEF NoTask, TaskRow, AnyTenant
  <2> HIDE DEF c
  <2>5. TaskRowOK(new)
    BY <2>2, <2>3, <2>4 DEF TaskRowOK, TaskRow, TaskActive, TaskLeased
  <2>6. tasks' = [tasks EXCEPT ![t] = new]
    BY <2>1 DEF TaskReserves, c
  <2> HIDE DEF new
  <2>7. TasksOK'
    BY <2>5, <2>6 DEF TasksOK
  <2>8. QED
    BY <2>1, <2>7
<1>4. QED
  BY <1>1, <1>2, <1>3, BuyerTasks, LeaseTasks
  DEF TaskStep, OrderTask, LoseOrder, VerifyCompletion

(* The settlement batch. *)
LEMMA CompletedTasks ==
  ASSUME IInv, CompletionStep
  PROVE  TasksOK' /\ QuietTasks
<1> USE DEF IInv
<1>1. CASE UNCHANGED tasks
  BY <1>1, SameTasks
<1>2. ASSUME NEW s \in settling, CompleteArtifactTask(s), ~UNCHANGED tasks
      PROVE  TasksOK' /\ QuietTasks
  <2>1. s.task \in Tasks
    BY DEF AgentsOK, Settling
  <2>2. /\ tasks[s.task].status \in TaskActive /\ TaskRowOK(tasks[s.task])
        /\ tasks' = [tasks EXCEPT ![s.task] = Erased(Unleased(tasks[s.task], "completed"))]
    BY <1>2, <2>1 DEF CompleteArtifactTask, CompleteTaskGate, LeaseValid, TaskActive, TasksOK
  <2>3. "completed" \in TaskTerminal
    BY DEF TaskTerminal
  <2>4. QED
    BY <2>1, <2>2, <2>3, EndingRow, OneQuietTask
<1>3. QED
  BY <1>1, <1>2 DEF CompletionStep, LoseCompletion

(* Revocation reaches every task of the authorization. *)
LEMMA RevokedTasks ==
  ASSUME IInv, NEW x \in Auths, RevokeAuthorization(x)
  PROVE  TasksOK' /\ QuietTasks
<1> USE DEF IInv
<1> DEFINE f == [t \in Tasks |-> IF SuppliedBy(t, x) THEN RevokedTask(tasks[t]) ELSE tasks[t]]
<1>1. \A i \in Tasks : TaskRowOK(f[i]) /\ RowQuiet(f[i], tasks[i])
  BY RevokedRow DEF TasksOK, RowQuiet, SameSale
<1>2. tasks' = [i \in Tasks |-> f[i]]
  BY DEF RevokeAuthorization
<1>3. QED
  BY <1>1, <1>2, MappedTasks

(* Revocation and rotation fail reservations that have not started. *)
LEMMA CommandedJobs ==
  ASSUME IInv, NEW x \in Auths, RevokeAuthorization(x) \/ RotateCredential(x)
  PROVE  JobsOK' /\ QuietJobs
<1> USE DEF IInv
<1> DEFINE R == {i \in Jobs : jobs[i].status = "reserved" /\ JobAuth(i) = x}
           Q == {i \in R : jobs[i].revision = auth[x].revision}
<1>1. /\ R \in SUBSET {i \in Jobs : jobs[i].status \in JobActive}
      /\ Q \in SUBSET {i \in Jobs : jobs[i].status \in JobActive}
  BY DEF JobActive
<1>2. CASE RevokeAuthorization(x)
  <2>1. jobs' = [i \in Jobs |-> IF i \in R THEN Failed(jobs[i]) ELSE jobs[i]]
    BY <1>2 DEF RevokeAuthorization, FailJobs
  <2>2. QED
    BY <1>1, <2>1, FailingJobs
<1>3. CASE RotateCredential(x)
  <2>1. jobs' = [i \in Jobs |-> IF i \in Q THEN Failed(jobs[i]) ELSE jobs[i]]
    BY <1>3 DEF RotateCredential, FailJobs
  <2>2. QED
    BY <1>1, <2>1, FailingJobs
<1>4. QED
  BY <1>2, <1>3

---------------------------------------------------------------------------
(* The handlers of createArtifactTask and of the agents, authorizations. *)

LEMMA TaskOrders ==
  ASSUME IInv, NEW t \in Tasks, TaskStep(t)
  PROVE  OrdersOK'
<1> USE DEF IInv
<1>0. orders[t] \in OrderRow /\ orders = [i \in Tasks |-> orders[i]]
  BY DEF OrdersOK
<1>1. CASE UNCHANGED orders
  BY <1>1 DEF OrdersOK
<1>2. CASE ReserveTask(t) \/ LoseOrder(t)
  <2>1. orders' = [orders EXCEPT ![t] = [orders[t] EXCEPT !.phase = "done"]]
    BY <1>2 DEF ReserveTask, LoseOrder
  <2>2. [orders[t] EXCEPT !.phase = "done"] \in OrderRow /\ [orders[t] EXCEPT !.phase = "done"].phase = "done"
    BY <1>0 DEF OrderRow
  <2>3. QED
    BY <2>1, <2>2 DEF OrdersOK
<1>3. ASSUME NEW b \in Tenants, NEW o \in Offers, NEW e \in Estimates, OrderTask(t, b, o, e)
      PROVE  OrdersOK'
  <2>1. auth[OfferAuth[o]].revision \in Nat /\ e \in Nat
    BY MapAssumption, PolicyAssumption DEF AuthOK, AuthRow
  <2>2. orders' = [orders EXCEPT ![t] = [phase |-> "selected", buyer |-> b, offer |-> o,
                     revision |-> auth[OfferAuth[o]].revision, estimate |-> e]]
    BY <1>3 DEF OrderTask
  <2>3. QED
    BY <2>1, <2>2 DEF OrdersOK, OrderRow
<1>4. QED
  BY <1>1, <1>2, <1>3
  DEF TaskStep, CancelArtifactTask, PurgeQueuedTask, CheckpointArtifactTask, FailArtifactTask,
      VerifyCompletion, AcknowledgeCancellation, LeaseLapses, DeadlinePasses, TaskAges

LEMMA TaskAgents ==
  ASSUME IInv, NEW t \in Tasks, TaskStep(t)
  PROVE  AgentsOK'
<1> USE DEF IInv
<1>1. CASE UNCHANGED <<polls, settling, heartbeat>>
  BY <1>1 DEF AgentsOK
<1>2. ASSUME NEW l \in 1..MaxAttempts, NEW c \in Amounts, VerifyCompletion(t, l, c)
      PROVE  AgentsOK'
  <2>1. tasks[t].completed \in 0..Segments /\ c \in Nat
    BY PolicyAssumption DEF TasksOK, TaskRowOK, TaskRow
  <2>2. /\ settling' = settling \cup {[task |-> t, attempt |-> l,
                                       completed |-> tasks[t].completed, charge |-> c]}
        /\ UNCHANGED <<polls, heartbeat>>
    BY <1>2 DEF VerifyCompletion
  <2>3. QED
    BY <2>1, <2>2 DEF AgentsOK, Settling
<1>3. QED
  BY <1>1, <1>2
  DEF TaskStep, OrderTask, ReserveTask, LoseOrder, CancelArtifactTask, PurgeQueuedTask,
      CheckpointArtifactTask, FailArtifactTask, AcknowledgeCancellation, LeaseLapses,
      DeadlinePasses, TaskAges

LEMMA WorkerAgents ==
  ASSUME IInv, NEW w \in Workers, WorkerStep(w)
  PROVE  AgentsOK' /\ UNCHANGED <<ledger, orders>>
<1> USE DEF IInv
<1>1. CASE PollTask(w)
  <2> DEFINE f == [t \in Tasks |-> IF tasks[t].status # "none" /\ OfferTenant(tasks[t].offer) = WorkerTenant[w]
                                   THEN SweptByClaim(tasks[t]) ELSE tasks[t]]
  <2>1. \A t \in Tasks : TaskRowOK(f[t])
    BY SweptRow DEF TasksOK
  <2>2. heartbeat' \subseteq Workers /\ UNCHANGED <<settling, ledger, orders>>
    BY <1>1 DEF PollTask, AgentsOK
  <2>3. CASE UNCHANGED polls
    BY <2>2, <2>3 DEF AgentsOK
  <2>4. CASE ~UNCHANGED polls
    <3>1. PICK t \in Tasks : /\ f[t].status = "queued"
                             /\ polls' = [polls EXCEPT ![w] =
                                  {[task |-> t,
                                    resume |-> IF f[t].worker = w THEN f[t].completed ELSE 0,
                                    revision |-> auth[OfferAuth[f[t].offer]].revision]}]
      BY <1>1, <2>4 DEF PollTask
    <3> HIDE DEF f
    <3>2. f[t].offer \in Offers /\ f[t].completed \in 0..Segments
      BY <2>1, <3>1 DEF TaskRowOK, TaskRow
    <3>3. auth[OfferAuth[f[t].offer]].revision \in Nat
      BY <3>2, MapAssumption DEF AuthOK, AuthRow
    <3>4. 0 \in 0..Segments
      BY PolicyAssumption
    <3>5. [task |-> t, resume |-> IF f[t].worker = w THEN f[t].completed ELSE 0,
           revision |-> auth[OfferAuth[f[t].offer]].revision] \in PollRow
      BY <3>2, <3>3, <3>4 DEF PollRow
    <3>6. QED
      BY <2>2, <3>1, <3>5 DEF AgentsOK
  <2>5. QED
    BY <2>2, <2>3, <2>4
<1>2. CASE ClaimTask(w) \/ LosePoll(w)
  <2>1. /\ polls' = [polls EXCEPT ![w] = {}]
        /\ UNCHANGED <<ledger, orders, settling, heartbeat>>
    BY <1>2 DEF ClaimTask, LosePoll
  <2>2. QED
    BY <2>1 DEF AgentsOK
<1>3. CASE HeartbeatExpires(w)
  BY <1>3 DEF HeartbeatExpires, AgentsOK
<1>4. QED
  BY <1>1, <1>2, <1>3 DEF WorkerStep

LEMMA CommandedAuth ==
  ASSUME IInv, SupplierCommand
  PROVE  /\ AuthOK' /\ AgentsOK'
         /\ UNCHANGED <<ledger, calls, orders, polls, settling>>
<1> USE DEF IInv
<1>1. ASSUME NEW x \in Auths, RevokeAuthorization(x)
      PROVE  /\ AuthOK' /\ AgentsOK'
             /\ UNCHANGED <<ledger, calls, orders, polls, settling>>
  <2>1. auth' \in [Auths -> AuthRow]
    <3>1. auth[x].revision + 1 \in Nat
      BY DEF AuthOK, AuthRow
    <3>2. auth' = [auth EXCEPT ![x] = [status |-> "revoked", revision |-> auth[x].revision + 1]]
      BY <1>1 DEF RevokeAuthorization
    <3>3. QED
      BY <3>1, <3>2 DEF AuthOK, AuthRow
  <2>2. supply' \in [Tenants -> BOOLEAN]
    <3>1. AuthTenant[x] \in Tenants
      BY MapAssumption
    <3>2. QED
      BY <1>1, <3>1 DEF RevokeAuthorization, AuthOK
  <2>3. heartbeat' \subseteq Workers /\ UNCHANGED <<ledger, calls, orders, polls, settling>>
    BY <1>1 DEF RevokeAuthorization, DropHeartbeats, AgentsOK
  <2>4. QED
    BY <2>1, <2>2, <2>3 DEF AuthOK, AgentsOK
<1>2. ASSUME NEW x \in Auths, RotateCredential(x)
      PROVE  /\ AuthOK' /\ AgentsOK'
             /\ UNCHANGED <<ledger, calls, orders, polls, settling>>
  <2>1. auth' \in [Auths -> AuthRow]
    <3>1. auth' = [auth EXCEPT ![x] = [auth[x] EXCEPT !.revision = auth[x].revision + 1]]
      BY <1>2 DEF RotateCredential
    <3>2. [auth[x] EXCEPT !.revision = auth[x].revision + 1] \in AuthRow
      BY DEF AuthOK, AuthRow
    <3>3. QED
      BY <3>1, <3>2 DEF AuthOK
  <2>2. /\ heartbeat' \subseteq Workers
        /\ UNCHANGED <<ledger, calls, orders, polls, settling, supply>>
    BY <1>2 DEF RotateCredential, DropHeartbeats, AgentsOK
  <2>3. QED
    BY <2>1, <2>2 DEF AuthOK, AgentsOK
<1>3. ASSUME NEW s \in Tenants, NEW enabled \in BOOLEAN, SetSupplyState(s, enabled)
      PROVE  /\ AuthOK' /\ AgentsOK'
             /\ UNCHANGED <<ledger, calls, orders, polls, settling>>
  BY <1>3 DEF SetSupplyState, AuthOK, AgentsOK
<1>4. QED
  BY <1>1, <1>2, <1>3 DEF SupplierCommand

---------------------------------------------------------------------------
(* ledger_entries. *)

(* The platform fee never exceeds the charge. *)
LEMMA FeeBounded ==
  ASSUME NEW c \in Nat
  PROVE  PlatformFee(c) \in 0..c
<1>1. FeeBps \in Nat /\ FeeBps <= 10000
  BY PolicyAssumption
<1>2. c * FeeBps \in Nat /\ c * FeeBps <= c * 10000
  BY <1>1
<1> DEFINE n == c * FeeBps
<1> HIDE DEF n
<1>3. n \in Nat /\ n <= c * 10000
  BY <1>2 DEF n
<1>4. n \div 10000 \in Nat /\ n \div 10000 <= c
  BY <1>3
<1>5. QED
  BY <1>4 DEF PlatformFee, n

(* A settlement consists of at most three ledger entries. *)
LEMMA SettlementType ==
  ASSUME NEW ref \in Jobs \cup Tasks, NEW buyer \in Tenants, NEW supplier \in Tenants, NEW c \in Nat
  PROVE  /\ SettlementEntries(ref, buyer, supplier, c) \subseteq Entry
         /\ IsFiniteSet(SettlementEntries(ref, buyer, supplier, c))
<1> DEFINE f == PlatformFee(c)
           d == [ref |-> ref, type |-> "inference-debit", tenant |-> buyer, amount |-> c]
           s == [ref |-> ref, type |-> "supplier-credit", tenant |-> supplier, amount |-> c - f]
           p == [ref |-> ref, type |-> "platform-fee", tenant |-> Platform, amount |-> f]
<1>1. f \in Nat /\ c - f \in Nat
  BY FeeBounded
<1>2. SettlementEntries(ref, buyer, supplier, c) = {d, s} \cup (IF f = 0 THEN {} ELSE {p})
  BY DEF SettlementEntries
<1> HIDE DEF f
<1>3. d \in Entry /\ s \in Entry /\ p \in Entry
  BY <1>1 DEF Entry, EntryTypes
<1> HIDE DEF d, s, p
<1>4. IsFiniteSet({d, s, p})
  <2>1. IsFiniteSet({d})
    BY FS_Singleton
  <2>2. IsFiniteSet({d} \cup {s})
    BY <2>1, FS_AddElement
  <2>3. IsFiniteSet(({d} \cup {s}) \cup {p})
    BY <2>2, FS_AddElement
  <2>4. ({d} \cup {s}) \cup {p} = {d, s, p}
    OBVIOUS
  <2>5. QED
    BY <2>3, <2>4
<1>5. SettlementEntries(ref, buyer, supplier, c) \in SUBSET {d, s, p}
  BY <1>2
<1>6. QED
  BY <1>3, <1>4, <1>5, FS_Subset

(* Posting entries keeps the ledger a finite set of entries. *)
LEMMA PostType ==
  ASSUME LedgerOK, NEW E, E \subseteq Entry, IsFiniteSet(E), Post(E)
  PROVE  LedgerOK'
<1> DEFINE new == {e \in E : \A f \in ledger : ~(f.ref = e.ref /\ f.type = e.type)}
<1>1. IsFiniteSet(new)
  BY FS_Subset, new \in SUBSET E
<1>2. IsFiniteSet(ledger \cup new)
  BY <1>1, FS_Union DEF LedgerOK
<1>3. ledger' = ledger \cup new
  BY DEF Post
<1>4. QED
  BY <1>2, <1>3 DEF LedgerOK

(* Who writes the ledger: ensureUser and the two settlement batches. *)
LEMMA LedgerMove ==
  ASSUME IInv, Next
  PROVE  \/ UNCHANGED ledger
         \/ \E t \in Tenants : EnsureUser(t)
         \/ \E j \in Jobs : SettleInference(j) /\ CompleteJobGate(j, calls[j].charge)
         \/ \E s \in settling : CompleteArtifactTask(s) /\ CompleteTaskGate(s)
<1> USE DEF IInv
<1>1. ASSUME NEW j \in Jobs, InferenceStep(j)
      PROVE  UNCHANGED ledger \/ (SettleInference(j) /\ CompleteJobGate(j, calls[j].charge))
  <2>1. SettleInference(j) => UNCHANGED ledger \/ CompleteJobGate(j, calls[j].charge)
    BY DEF SettleInference
  <2>2. UNCHANGED ledger \/ SettleInference(j)
    BY <1>1 DEF InferenceStep, BeginInference, SelectOffer, RefuseInference, ReserveInference,
         StartInference, GatewayAnswers, GatewayFails, FailInference, LoseInference,
         ReservationLapses
  <2>3. QED
    BY <2>1, <2>2
<1>2. MaintainInference \/ MaintainTasks => UNCHANGED ledger
  BY DEF MaintainInference, MaintainTasks
<1>3. ASSUME NEW t \in Tasks, TaskStep(t) PROVE UNCHANGED ledger
  BY <1>3 DEF TaskStep, OrderTask, ReserveTask, LoseOrder, CancelArtifactTask, PurgeQueuedTask,
              CheckpointArtifactTask, FailArtifactTask, VerifyCompletion, AcknowledgeCancellation,
              LeaseLapses, DeadlinePasses, TaskAges
<1>4. ASSUME NEW s \in settling, CompleteArtifactTask(s) \/ LoseCompletion(s)
      PROVE  UNCHANGED ledger \/ (CompleteArtifactTask(s) /\ CompleteTaskGate(s))
  <2>1. CompleteArtifactTask(s) => UNCHANGED ledger \/ CompleteTaskGate(s)
    BY DEF CompleteArtifactTask
  <2>2. UNCHANGED ledger \/ CompleteArtifactTask(s)
    BY <1>4 DEF LoseCompletion
  <2>3. QED
    BY <2>1, <2>2
<1>5. QED
  BY <1>1, <1>2, <1>3, <1>4, WorkerAgents, CommandedAuth DEF Next, CompletionStep

(* The parties of a settlement are tenants and its charge is an amount. *)
LEMMA JobParties ==
  ASSUME IInv, NEW j \in Jobs, jobs[j].status # "none"
  PROVE  /\ jobs[j].buyer \in Tenants /\ OfferTenant(jobs[j].offer) \in Tenants
         /\ calls[j].charge \in Nat
<1>1. jobs[j].offer \in Offers /\ jobs[j].buyer \in Tenants
  BY DEF IInv, JobsOK, JobRow
<1>2. OfferTenant(jobs[j].offer) \in Tenants
  BY <1>1, MapAssumption DEF OfferTenant
<1>3. calls[j].charge \in Nat
  BY DEF IInv, CallsOK, CallRow
<1>4. QED
  BY <1>1, <1>2, <1>3

LEMMA TaskParties ==
  ASSUME IInv, NEW s \in settling, tasks[s.task].status # "none"
  PROVE  /\ s.task \in Tasks /\ s.charge \in Nat
         /\ tasks[s.task].buyer \in Tenants /\ OfferTenant(tasks[s.task].offer) \in Tenants
<1>1. s.task \in Tasks /\ s.charge \in Nat
  BY DEF IInv, AgentsOK, Settling
<1>2. tasks[s.task].offer \in Offers /\ tasks[s.task].buyer \in Tenants
  BY <1>1 DEF IInv, TasksOK, TaskRowOK, TaskRow
<1>3. OfferTenant(tasks[s.task].offer) \in Tenants
  BY <1>2, MapAssumption DEF OfferTenant
<1>4. QED
  BY <1>1, <1>2, <1>3

LEMMA LedgerStep ==
  ASSUME IInv, Next
  PROVE  LedgerOK'
<1>0. LedgerOK
  BY DEF IInv
<1>1. CASE UNCHANGED ledger
  BY <1>0, <1>1 DEF LedgerOK
<1>2. ASSUME NEW t \in Tenants, EnsureUser(t) PROVE LedgerOK'
  <2>1. {WelcomeEntry(t)} \subseteq Entry
    BY PolicyAssumption DEF WelcomeEntry, Entry, EntryTypes
  <2>2. Post({WelcomeEntry(t)})
    BY <1>2 DEF EnsureUser
  <2>3. IsFiniteSet({WelcomeEntry(t)})
    BY FS_Singleton
  <2>4. QED
    BY <1>0, <2>1, <2>2, <2>3, PostType
<1>3. ASSUME NEW j \in Jobs, SettleInference(j), CompleteJobGate(j, calls[j].charge) PROVE LedgerOK'
  <2>1. jobs[j].status # "none"
    BY <1>3 DEF CompleteJobGate
  <2>2. Post(SettlementEntries(j, jobs[j].buyer, OfferTenant(jobs[j].offer), calls[j].charge))
    BY <1>3 DEF SettleInference
  <2>3. QED
    BY <1>0, <2>1, <2>2, JobParties, SettlementType, PostType
<1>4. ASSUME NEW s \in settling, CompleteArtifactTask(s), CompleteTaskGate(s) PROVE LedgerOK'
  <2>1. tasks[s.task].status # "none"
    BY <1>4 DEF CompleteTaskGate, LeaseValid, TaskLeased
  <2>2. Post(SettlementEntries(s.task, tasks[s.task].buyer, OfferTenant(tasks[s.task].offer), s.charge))
    BY <1>4 DEF CompleteArtifactTask
  <2>3. QED
    BY <1>0, <2>1, <2>2, TaskParties, SettlementType, PostType
<1>5. QED
  BY <1>1, <1>2, <1>3, <1>4, LedgerMove

---------------------------------------------------------------------------
(* What a step does to the two tables the gates sum over. *)

LEMMA JobsMove ==
  ASSUME IInv, Next
  PROVE  JobsOK' /\ (QuietJobs \/ \E j \in Jobs : JobReserves(j) /\ UNCHANGED <<ledger, tasks>>)
<1>0. JobsOK
  BY DEF IInv
<1>1. ASSUME NEW j \in Jobs, InferenceStep(j)
      PROVE  JobsOK' /\ (QuietJobs \/ (JobReserves(j) /\ UNCHANGED <<ledger, tasks>>))
  <2>1. UNCHANGED tasks
    BY <1>1, InferenceFrame DEF Rest
  <2>2. JobsOK' /\ (QuietJobs \/ JobReserves(j))
    BY <1>1, InferenceJobs
  <2>3. JobReserves(j) => UNCHANGED <<ledger, tasks>>
    <3>1. SUFFICES ASSUME JobReserves(j) PROVE UNCHANGED <<ledger, tasks>>
      OBVIOUS
    <3>2. CASE SettleInference(j)
      <4>1. calls[j].phase = "answered"
        BY <3>2 DEF SettleInference
      <4>2. QED
        BY <3>1, <4>1 DEF JobReserves
    <3>3. CASE ~SettleInference(j)
      <4>1. UNCHANGED ledger
        BY <1>1, <3>3 DEF InferenceStep, BeginInference, SelectOffer, RefuseInference,
             ReserveInference, StartInference, GatewayAnswers, GatewayFails, FailInference,
             LoseInference, ReservationLapses
      <4>2. QED
        BY <2>1, <3>1, <4>1
    <3>4. QED
      BY <3>2, <3>3
  <2>4. QED
    BY <2>2, <2>3
<1>2. UNCHANGED jobs => JobsOK' /\ QuietJobs
  BY <1>0, SameJobs
<1>3. MaintainInference => JobsOK' /\ QuietJobs
  BY <1>0, SweptJobs DEF MaintainInference
<1>4. SupplierCommand => JobsOK' /\ QuietJobs
  BY <1>2, CommandedJobs DEF SupplierCommand, SetSupplyState
<1>5. QED
  BY <1>1, <1>2, <1>3, <1>4, TaskFrame DEF Next, EnsureUser, Others

LEMMA TasksMove ==
  ASSUME IInv, Next
  PROVE  /\ TasksOK'
         /\ \/ QuietTasks
            \/ \E t \in Tasks : TaskReserves(t) /\ UNCHANGED <<ledger, jobs>>
            \/ \E w \in Workers : \E p \in polls[w] :
                 p \in PollRow /\ TaskClaimed(w, p) /\ UNCHANGED <<ledger, jobs>>
<1>0. TasksOK
  BY DEF IInv
<1>1. UNCHANGED tasks => TasksOK' /\ QuietTasks
  BY <1>0, SameTasks
<1>2. ASSUME NEW t \in Tasks, TaskStep(t)
      PROVE  TasksOK' /\ (QuietTasks \/ (TaskReserves(t) /\ UNCHANGED <<ledger, jobs>>))
  <2>1. UNCHANGED jobs
    BY <1>2, TaskFrame DEF Others
  <2>2. UNCHANGED ledger
    BY <1>2 DEF TaskStep, OrderTask, ReserveTask, LoseOrder, CancelArtifactTask, PurgeQueuedTask,
                CheckpointArtifactTask, FailArtifactTask, VerifyCompletion, AcknowledgeCancellation,
                LeaseLapses, DeadlinePasses, TaskAges
  <2>3. QED
    BY <1>2, <2>1, <2>2, TaskTasks
<1>3. ASSUME NEW w \in Workers, WorkerStep(w)
      PROVE  TasksOK' /\ \/ QuietTasks
                         \/ \E p \in polls[w] :
                              p \in PollRow /\ TaskClaimed(w, p) /\ UNCHANGED <<ledger, jobs>>
  <2>1. UNCHANGED jobs
    BY <1>3, TaskFrame DEF Others
  <2>2. UNCHANGED ledger
    BY <1>3, WorkerAgents
  <2>3. QED
    BY <1>3, <2>1, <2>2, WorkerTasks
<1>4. CompletionStep => TasksOK' /\ QuietTasks
  BY CompletedTasks
<1>5. MaintainTasks => TasksOK' /\ QuietTasks
  BY <1>0, CleanedTasks DEF MaintainTasks
<1>6. SupplierCommand => TasksOK' /\ QuietTasks
  BY <1>1, RevokedTasks DEF SupplierCommand, RotateCredential, SetSupplyState
<1>7. QED
  BY <1>1, <1>2, <1>3, <1>4, <1>5, <1>6, InferenceFrame
  DEF Next, Rest, EnsureUser, MaintainInference

---------------------------------------------------------------------------
(* The inductive step. *)

LEMMA NextIInv == IInv /\ [Next]_vars => IInv'
<1> SUFFICES ASSUME IInv, [Next]_vars PROVE IInv'
  OBVIOUS
<1>1. CASE UNCHANGED vars
  BY <1>1 DEF vars, IInv, LedgerOK, JobsOK, CallsOK, TasksOK, TaskRowOK, OrdersOK, AgentsOK, AuthOK
<1>2. CASE Next
  <2>1. JobsOK' /\ TasksOK' /\ LedgerOK'
    BY <1>2, JobsMove, TasksMove, LedgerStep
  <2>2. UNCHANGED calls => CallsOK'
    BY DEF IInv, CallsOK
  <2>3. UNCHANGED orders => OrdersOK'
    BY DEF IInv, OrdersOK
  <2>4. UNCHANGED <<polls, settling, heartbeat>> => AgentsOK'
    BY DEF IInv, AgentsOK
  <2>5. UNCHANGED <<auth, supply>> => AuthOK'
    BY DEF IInv, AuthOK
  <2>6. ASSUME NEW j \in Jobs, InferenceStep(j) PROVE CallsOK' /\ OrdersOK' /\ AgentsOK' /\ AuthOK'
    BY <2>3, <2>4, <2>5, <2>6, InferenceFrame, InferenceCalls DEF Rest
  <2>7. (\E t \in Tenants : EnsureUser(t)) \/ MaintainInference
          => CallsOK' /\ OrdersOK' /\ AgentsOK' /\ AuthOK'
    BY <2>2, <2>3, <2>4, <2>5 DEF EnsureUser, MaintainInference, Rest
  <2>8. ASSUME NEW t \in Tasks, TaskStep(t) PROVE CallsOK' /\ OrdersOK' /\ AgentsOK' /\ AuthOK'
    BY <2>2, <2>5, <2>8, TaskFrame, TaskOrders, TaskAgents DEF Others
  <2>9. ASSUME NEW w \in Workers, WorkerStep(w) PROVE CallsOK' /\ OrdersOK' /\ AgentsOK' /\ AuthOK'
    BY <2>2, <2>3, <2>5, <2>9, TaskFrame, WorkerAgents DEF Others
  <2>10. CompletionStep => CallsOK' /\ OrdersOK' /\ AgentsOK' /\ AuthOK'
    <3>1. CompletionStep => UNCHANGED <<orders, polls, heartbeat>> /\ settling' \subseteq settling
      BY DEF CompletionStep, CompleteArtifactTask, LoseCompletion
    <3>2. CompletionStep => AgentsOK'
      BY <3>1 DEF IInv, AgentsOK
    <3>3. QED
      BY <2>2, <2>3, <2>5, <3>1, <3>2, TaskFrame DEF Others
  <2>11. MaintainTasks => CallsOK' /\ OrdersOK' /\ AgentsOK' /\ AuthOK'
    BY <2>2, <2>3, <2>4, <2>5 DEF MaintainTasks, Others
  <2>12. SupplierCommand => CallsOK' /\ OrdersOK' /\ AgentsOK' /\ AuthOK'
    BY <2>2, <2>3, CommandedAuth
  <2>13. QED
    BY <1>2, <2>1, <2>6, <2>7, <2>8, <2>9, <2>10, <2>11, <2>12 DEF Next, IInv
<1>3. QED
  BY <1>1, <1>2

LEMMA AlwaysIInv == Spec => []IInv
BY InitIInv, NextIInv, PTL DEF Spec

(* Every reachable state of the control plane is well typed: no interleaving
   of requests, agents, sweeps and supplier commands writes a row the schema
   does not describe, and no stale claim drives attempt past its maximum. *)
THEOREM TypeCorrect == Spec => []TypeOK
BY AlwaysIInv, IInvImplies, PTL

(* Leases and attempts: a lease is held exactly while a task is claimed or
   running and is the last one drawn, and a queued task has an attempt left,
   for any number of agents and any maximum of attempts. *)
THEOREM LeaseDiscipline == Spec => []LeaseIsLastAttempt
BY AlwaysIInv, IInvImplies, PTL

=============================================================================
