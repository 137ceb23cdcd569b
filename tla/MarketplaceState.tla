---------------------------- MODULE MarketplaceState ----------------------------
(***************************************************************************)
(* The rows of the marketplace database that carry money and capacity, and *)
(* the predicates the write-side gates of                                  *)
(* apps/web/server/financial-invariants.ts evaluate over them.             *)
(*                                                                         *)
(* D1 executes a statement, or a batch of statements, as one transaction;  *)
(* a request handler is a sequence of such transactions, and anything may  *)
(* happen between two of them.  Timestamps are abstracted to the           *)
(* comparisons the SQL makes with them: a reservation or a lease has       *)
(* "lapsed", a deadline is "overdue", a task has "aged" past the queue     *)
(* cutoff.                                                                 *)
(***************************************************************************)
EXTENDS Integers, FiniteSets, Sums

CONSTANTS
  Tenants,         \* account tenants; each may buy and may supply
  Platform,        \* the account that receives platform fees
  Auths,           \* approved authorization requests
  Offers,          \* published capacity offers
  AuthTenant,      \* [Auths -> Tenants], the supplier of an authorization
  OfferAuth,       \* [Offers -> Auths], the authorization an offer is bound to
  Concurrency,     \* [Offers -> Nat], capacity_offers.concurrency
  Jobs,            \* inference requests, each with its own job_id
  Keys,            \* idempotency keys
  Tasks,           \* artifact tasks
  Workers,         \* supplier agents
  WorkerTenant,    \* [Workers -> Tenants]
  NoWorker,        \* artifact_tasks.worker_id IS NULL
  NoOffer,         \* no offer selected yet
  Estimates,       \* charges that can be estimated, in micros
  Amounts,         \* charges that can be metered, in micros
  Welcome,         \* policy.welcomeCreditMicros
  FeeBps,          \* policy.platformFeeBps
  MaxAttempts,     \* policy.artifactMaximumAttempts
  MaxActiveTasks,  \* policy.maximumActiveArtifactTasksPerTenant
  Segments,        \* map segments of the input of a task
  MaxRevision      \* bound on credential rotations

ASSUME SetAssumption ==
  /\ IsFiniteSet(Jobs) /\ IsFiniteSet(Tasks)
  /\ Tenants # {} /\ Keys # {}
  /\ Jobs \cap Tasks = {}
  /\ Platform \notin Tenants /\ NoWorker \notin Workers /\ NoOffer \notin Offers
  /\ Jobs \cap Tenants = {} /\ Tasks \cap Tenants = {}

ASSUME MapAssumption ==
  /\ AuthTenant \in [Auths -> Tenants]
  /\ OfferAuth \in [Offers -> Auths]
  /\ Concurrency \in [Offers -> Nat]
  /\ WorkerTenant \in [Workers -> Tenants]

ASSUME PolicyAssumption ==
  /\ Estimates \subseteq Nat /\ Amounts \subseteq Nat /\ Welcome \in Nat
  /\ FeeBps \in 0..5000
  /\ MaxAttempts \in Nat \ {0} /\ MaxActiveTasks \in Nat
  /\ Segments \in Nat \ {0} /\ MaxRevision \in Nat \ {0}

VARIABLES
  ledger,      \* ledger_entries
  jobs,        \* inference_jobs, one row per request
  calls,       \* the runInference handler of each request
  tasks,       \* artifact_tasks
  orders,      \* the createArtifactTask handler of each task
  polls,       \* the claimArtifactTask handler of each worker
  settling,    \* completeArtifactTask handlers between read and batch
  auth,        \* authorization_requests: status and revision
  supply,      \* suppliers.supply_enabled
  heartbeat    \* supplier_artifact_workers rows that are live

vars == <<ledger, jobs, calls, tasks, orders, polls, settling, auth, supply, heartbeat>>

---------------------------------------------------------------------------
(* Row types. *)

OfferTenant(o) == AuthTenant[OfferAuth[o]]

EntryTypes == {"promotional-credit", "inference-debit", "supplier-credit", "platform-fee"}

Entry == [ref : Jobs \cup Tasks \cup Tenants, type : EntryTypes,
          tenant : Tenants \cup {Platform}, amount : Nat]

JobActive == {"reserved", "running"}
JobRow == [status : {"none", "completed", "failed"} \cup JobActive,
           buyer : Tenants, key : Keys, offer : Offers \cup {NoOffer},
           revision : Nat, reserved : Nat, lapsed : BOOLEAN]

TaskLeased == {"claimed", "running"}
TaskActive == {"queued"} \cup TaskLeased
TaskTerminal == {"completed", "failed", "cancelled"}
TaskRow == [status : {"none"} \cup TaskActive \cup TaskTerminal,
            buyer : Tenants, offer : Offers \cup {NoOffer}, reserved : Nat,
            attempt : 0..MaxAttempts, lease : 0..MaxAttempts,
            worker : Workers \cup {NoWorker}, completed : 0..Segments,
            cancel : BOOLEAN, instruction : BOOLEAN,
            lapsed : BOOLEAN, overdue : BOOLEAN, aged : BOOLEAN]

---------------------------------------------------------------------------
(* Balances, holds and occupancy. *)

EntryAmount == [e \in ledger |-> e.amount]
Credits(t) == {e \in ledger : e.tenant = t /\ e.type # "inference-debit"}
Debits(t) == {e \in ledger : e.tenant = t /\ e.type = "inference-debit"}

(* SUM(CASE WHEN direction = 'credit' THEN amount ELSE -amount END). *)
Balance(t) == Total(Credits(t), EntryAmount) - Total(Debits(t), EntryAmount)

JobReserved == [j \in Jobs |-> jobs[j].reserved]
TaskReserved == [t \in Tasks |-> tasks[t].reserved]
HoldingJobs(b) == {j \in Jobs : jobs[j].buyer = b /\ jobs[j].status \in JobActive}
HoldingTasks(b) == {t \in Tasks : tasks[t].buyer = b /\ tasks[t].status \in TaskActive}

HeldByJobs(b) == Total(HoldingJobs(b), JobReserved)
HeldByTasks(b) == Total(HoldingTasks(b), TaskReserved)

(* AVAILABLE_BALANCE_SQL. *)
Available(b) == Balance(b) - HeldByJobs(b) - HeldByTasks(b)

(* Queued artifact tasks hold money but no capacity. *)
OccupyingJobs(o) == {j \in Jobs : jobs[j].offer = o /\ jobs[j].status \in JobActive}
OccupyingTasks(o) == {t \in Tasks : tasks[t].offer = o /\ tasks[t].status \in TaskLeased}
Occupancy(o) == Cardinality(OccupyingJobs(o)) + Cardinality(OccupyingTasks(o))

(* The EXISTS over capacity_offers, suppliers and authorization_requests
   that every gate repeats. *)
OfferSells(o, b, revision) ==
  /\ auth[OfferAuth[o]].status = "approved"
  /\ auth[OfferAuth[o]].revision = revision
  /\ OfferTenant(o) # b
  /\ supply[OfferTenant(o)]

---------------------------------------------------------------------------
(* calculateSettlement and the ledger rows of one settlement. *)

PlatformFee(charge) == (charge * FeeBps) \div 10000

(* Mutant: the supplier is credited the whole charge, the fee comes on top. *)
FeeOnTop(ref, buyer, supplier, charge) ==
  {[ref |-> ref, type |-> "inference-debit", tenant |-> buyer, amount |-> charge],
   [ref |-> ref, type |-> "supplier-credit", tenant |-> supplier, amount |-> charge],
   [ref |-> ref, type |-> "platform-fee", tenant |-> Platform,
    amount |-> PlatformFee(charge)]}

SettlementEntries(ref, buyer, supplier, charge) ==
  {[ref |-> ref, type |-> "inference-debit", tenant |-> buyer, amount |-> charge],
   [ref |-> ref, type |-> "supplier-credit", tenant |-> supplier,
    amount |-> charge - PlatformFee(charge)]}
  \cup IF PlatformFee(charge) = 0 THEN {}
       ELSE {[ref |-> ref, type |-> "platform-fee", tenant |-> Platform,
              amount |-> PlatformFee(charge)]}

(* INSERT OR IGNORE under the unique index on (job_id, entry_type). *)
Post(entries) ==
  ledger' = ledger \cup {e \in entries :
              \A f \in ledger : ~(f.ref = e.ref /\ f.type = e.type)}

WelcomeEntry(t) ==
  [ref |-> t, type |-> "promotional-credit", tenant |-> t, amount |-> Welcome]

=============================================================================
