------------------------------ MODULE Marketplace ------------------------------
(***************************************************************************)
(* The marketplace control plane: real-time inference and file tasks draw  *)
(* on one promotional balance per buyer and on one concurrency limit per   *)
(* offer, while suppliers revoke authorizations, replace credentials and   *)
(* switch supply on and off underneath them.                               *)
(***************************************************************************)
EXTENDS Inference, ArtifactTasks

AuthRow == [status : {"approved", "revoked"}, revision : Nat]

TypeOK ==
  /\ ledger \subseteq Entry /\ IsFiniteSet(ledger)
  /\ jobs \in [Jobs -> JobRow]
  /\ calls \in [Jobs -> CallRow]
  /\ tasks \in [Tasks -> TaskRow]
  /\ orders \in [Tasks -> OrderRow]
  /\ polls \in [Workers -> SUBSET PollRow]
  /\ settling \subseteq Settling
  /\ auth \in [Auths -> AuthRow]
  /\ supply \in [Tenants -> BOOLEAN]
  /\ heartbeat \subseteq Workers

Init ==
  /\ ledger = {}
  /\ InferenceInit
  /\ TasksInit
  /\ auth = [x \in Auths |-> [status |-> "approved", revision |-> 1]]
  /\ supply = [s \in Tenants |-> \E x \in Auths : AuthTenant[x] = s]

---------------------------------------------------------------------------
(* Supplier-side commands that reach into running work. *)

JobAuth(j) == OfferAuth[jobs[j].offer]
SuppliedBy(t, x) == tasks[t].status # "none" /\ OfferAuth[tasks[t].offer] = x

DropHeartbeats(x) ==
  heartbeat' = {w \in heartbeat : WorkerTenant[w] # AuthTenant[x]}

(* Mutant: only work an agent holds is told about the revocation. *)
RevokedIfLeased(row) ==
  IF row.status \in TaskLeased /\ ~row.cancel THEN [Erased(row) EXCEPT !.cancel = TRUE]
  ELSE row

(* The batch of revokeApprovedAuthorization: reserved inference and queued
   tasks fail, leased tasks are asked to stop, the supplier's heartbeats go,
   and supply stays on only behind another approved authorization. *)
RevokedTask(row) ==
  IF row.status = "queued" /\ ~row.cancel THEN Erased(Unleased(row, "failed"))
  ELSE IF row.status \in TaskLeased /\ ~row.cancel THEN [Erased(row) EXCEPT !.cancel = TRUE]
  ELSE row

RevokeAuthorization(x) ==
  /\ auth[x].status = "approved"
  /\ auth' = [auth EXCEPT ![x] = [status |-> "revoked", revision |-> @.revision + 1]]
  /\ jobs' = FailJobs({j \in Jobs : jobs[j].status = "reserved" /\ JobAuth(j) = x})
  /\ tasks' = [t \in Tasks |-> IF SuppliedBy(t, x) THEN RevokedTask(tasks[t]) ELSE tasks[t]]
  /\ supply' = [supply EXCEPT ![AuthTenant[x]] =
       @ /\ \E y \in Auths \ {x} : AuthTenant[y] = AuthTenant[x] /\ auth[y].status = "approved"]
  /\ DropHeartbeats(x)
  /\ UNCHANGED <<ledger, calls, orders, polls, settling>>

(* Mutant: reservations that carry the displaced credential survive. *)
RotateKeepingReserved(x) ==
  /\ auth[x].status = "approved" /\ auth[x].revision < MaxRevision
  /\ auth' = [auth EXCEPT ![x].revision = @ + 1]
  /\ DropHeartbeats(x)
  /\ UNCHANGED <<ledger, jobs, calls, tasks, orders, polls, settling, supply>>

(* The batch of rotateAuthorizationCredential: work that still carries the
   displaced credential and has not started is failed. *)
RotateCredential(x) ==
  /\ auth[x].status = "approved" /\ auth[x].revision < MaxRevision
  /\ auth' = [auth EXCEPT ![x].revision = @ + 1]
  /\ jobs' = FailJobs({j \in Jobs : /\ jobs[j].status = "reserved" /\ JobAuth(j) = x
                                   /\ jobs[j].revision = auth[x].revision})
  /\ DropHeartbeats(x)
  /\ UNCHANGED <<ledger, calls, tasks, orders, polls, settling, supply>>

(* setSupplyState. *)
SetSupplyState(s, enabled) ==
  /\ enabled => \E x \in Auths : AuthTenant[x] = s /\ auth[x].status = "approved"
  /\ supply' = [supply EXCEPT ![s] = enabled]
  /\ UNCHANGED <<ledger, jobs, calls, tasks, orders, polls, settling, auth, heartbeat>>

SupplierCommand ==
  \/ \E x \in Auths : RevokeAuthorization(x) \/ RotateCredential(x)
  \/ \E s \in Tenants, enabled \in BOOLEAN : SetSupplyState(s, enabled)

---------------------------------------------------------------------------
Next ==
  \/ \E t \in Tenants : EnsureUser(t)
  \/ \E j \in Jobs : InferenceStep(j)
  \/ MaintainInference
  \/ \E t \in Tasks : TaskStep(t)
  \/ \E w \in Workers : WorkerStep(w)
  \/ CompletionStep
  \/ MaintainTasks
  \/ SupplierCommand

Spec == Init /\ [][Next]_vars

(* The clock advances and the scheduled maintenance keeps running; nothing
   is assumed of buyers, gateways, agents or of a request once started. *)
Fairness ==
  /\ \A j \in Jobs : WF_vars(ReservationLapses(j))
  /\ \A t \in Tasks : WF_vars(DeadlinePasses(t)) /\ WF_vars(TaskAges(t))
  /\ WF_vars(MaintainInference)
  /\ WF_vars(MaintainTasks)

FairSpec == Spec /\ Fairness

---------------------------------------------------------------------------
(* Safety. *)

(* No interleaving of reservations, settlements and promotional credit lets
   a buyer hold or spend more than the ledger gives it: the two reserve
   gates and the two settlement gates never over-commit one balance. *)
NoOverdraft == \A b \in Tenants : Available(b) >= 0

(* Inference that is reserved or running and file tasks that are leased
   together never exceed the concurrency of their offer, though the two are
   admitted by different statements. *)
CapacityRespected == \A o \in Offers : Occupancy(o) <= Concurrency[o]

Ended(r) == IF r \in Jobs THEN jobs[r].status \in {"completed", "failed"}
            ELSE tasks[r].status \in TaskTerminal
RowOf(r) == IF r \in Jobs THEN jobs[r] ELSE tasks[r]

(* A job or task has ledger entries exactly when it is completed, and then
   they are one whole settlement: one debit of at most the reservation, the
   supplier's credit and the platform's fee adding up to it.  However many
   requests race under one idempotency key of a buyer, one row comes of it. *)
SettledOnceAndWhole ==
  /\ \A r \in Jobs \cup Tasks :
       LET entries == {e \in ledger : e.ref = r}
           row == RowOf(r)
       IN  IF row.status = "completed"
           THEN \E c \in 0..row.reserved :
                  entries = SettlementEntries(r, row.buyer, OfferTenant(row.offer), c)
           ELSE entries = {}
  /\ \A i, j \in Jobs :
       /\ i # j /\ jobs[i].status # "none" /\ jobs[j].status # "none"
       /\ jobs[i].buyer = jobs[j].buyer
       => jobs[i].key # jobs[j].key


(* Once cancellation has been asked for, by the buyer or by a revocation, a
   late completion never bills the task, and the buyer's instruction is gone
   from the row; so it is from every ended task. *)
CancellationHolds ==
  \A t \in Tasks :
    /\ tasks[t].cancel => tasks[t].status \in TaskLeased \cup {"cancelled"}
    /\ tasks[t].instruction <=> tasks[t].status \in TaskActive /\ ~tasks[t].cancel

(* A reservation that has not started yet always carries the credential
   generation in force: revocation and rotation fail the others in the same
   batch, so no gateway call starts with a displaced token. *)
ReservedCredentialIsCurrent ==
  \A j \in Jobs : jobs[j].status = "reserved" =>
    /\ auth[JobAuth(j)].status = "approved"
    /\ auth[JobAuth(j)].revision = jobs[j].revision

(* No file task outlives the revocation of its authorization: it has ended
   or its lease holder has been told to stop, including tasks requeued,
   ordered or claimed around the revocation. *)
RevocationReachesTasks ==
  \A t \in Tasks : tasks[t].status \in TaskActive =>
    \/ auth[OfferAuth[tasks[t].offer]].status = "approved"
    \/ tasks[t].status \in TaskLeased /\ tasks[t].cancel

(* A lease exists exactly while the task is leased, it is the last one
   drawn, and a queued task has an attempt left: retries, lease expiry and
   stale claims never exceed the maximum number of attempts. *)
LeaseIsLastAttempt ==
  \A t \in Tasks :
    /\ tasks[t].lease = IF tasks[t].status \in TaskLeased THEN tasks[t].attempt ELSE 0
    /\ tasks[t].status = "queued" => tasks[t].attempt < MaxAttempts
    /\ tasks[t].status \in TaskLeased => tasks[t].attempt > 0

(* A row that exists names the offer it was sold from. *)
OffersKnown ==
  /\ \A j \in Jobs :
       /\ jobs[j].status # "none" => jobs[j].offer \in Offers
       /\ calls[j].phase = "selected" => calls[j].offer \in Offers
  /\ \A t \in Tasks :
       /\ tasks[t].status # "none" => tasks[t].offer \in Offers
       /\ orders[t].phase = "selected" => orders[t].offer \in Offers

---------------------------------------------------------------------------
(* The marketplace as an escrow account. *)

HoldOf(r) == [ref |-> r, owner |-> RowOf(r).buyer, amount |-> RowOf(r).reserved]
Holding(r) == IF r \in Jobs THEN jobs[r].status \in JobActive ELSE tasks[r].status \in TaskActive

Granted == {t \in Tenants : WelcomeEntry(t) \in ledger}
Funds == [t \in Tenants \cup {Platform} |-> Balance(t)]
Holds == {HoldOf(r) : r \in {q \in Jobs \cup Tasks : Holding(q)}}
Closed == {r \in Jobs \cup Tasks : Ended(r)}

Money == INSTANCE Escrow WITH
  Accounts <- Tenants, House <- Platform, Refs <- Jobs \cup Tasks,
  Grant <- Welcome, HoldAmounts <- Estimates,
  granted <- Granted, funds <- Funds, holds <- Holds, closed <- Closed

(* The control plane implements the escrow account: every transaction of
   every handler is a grant, a hold, a release, a capture, or changes no
   money at all. *)
ImplementsEscrow == Money!Spec

---------------------------------------------------------------------------
(* Liveness. *)

(* Whatever requests, agents or gateways are lost, every reservation of
   money and capacity ends. *)
ReservationsEnd ==
  /\ \A j \in Jobs : jobs[j].status \in JobActive ~> jobs[j].status \notin JobActive
  /\ \A t \in Tasks : tasks[t].status \in TaskActive ~> tasks[t].status \in TaskTerminal

=============================================================================
