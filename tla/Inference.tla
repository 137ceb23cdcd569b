------------------------------- MODULE Inference -------------------------------
(***************************************************************************)
(* Real-time inference: runInference of                                    *)
(* apps/web/server/marketplace-service.ts, one action per database         *)
(* transaction or gateway call, and the sweep that fails reservations that *)
(* outlived their two minutes.  A request may be lost between any two of   *)
(* its steps.                                                              *)
(***************************************************************************)
EXTENDS MarketplaceState

CallPhases == {"idle", "swept", "selected", "reserved", "calling", "answered",
               "failing", "done"}
CallRow == [phase : CallPhases, buyer : Tenants, key : Keys,
            offer : Offers \cup {NoOffer}, revision : Nat, estimate : Nat, charge : Nat]

Rest == <<tasks, orders, polls, settling, auth, supply, heartbeat>>

(* Any tenant and key serve as the placeholder of a row not written yet. *)
SomeTenant == CHOOSE t \in Tenants : TRUE
SomeKey == CHOOSE k \in Keys : TRUE

NoJob == [status |-> "none", buyer |-> SomeTenant, key |-> SomeKey,
          offer |-> NoOffer, revision |-> 0, reserved |-> 0, lapsed |-> FALSE]
NoCall == [phase |-> "idle", buyer |-> SomeTenant, key |-> SomeKey,
           offer |-> NoOffer, revision |-> 0, estimate |-> 0, charge |-> 0]

InferenceInit ==
  /\ jobs = [j \in Jobs |-> NoJob]
  /\ calls = [j \in Jobs |-> NoCall]

Failed(row) == [row EXCEPT !.status = "failed", !.lapsed = FALSE]

FailJobs(S) == [j \in Jobs |-> IF j \in S THEN Failed(jobs[j]) ELSE jobs[j]]

(* The handler of a request returns or throws. *)
Return(j) == calls' = [calls EXCEPT ![j].phase = "done"]

(* ensureUser: the promotional credit is written at most once per tenant. *)
EnsureUser(t) ==
  /\ Post({WelcomeEntry(t)})
  /\ UNCHANGED <<jobs, calls, Rest>>

(* cleanupStaleInferenceReservations: one UPDATE over all rows. *)
IsStale(j) == jobs[j].status \in JobActive /\ jobs[j].lapsed
CleanupStaleInferenceReservations == jobs' = FailJobs({j \in Jobs : IsStale(j)})

(* runInference up to the sweep; the user row exists by then. *)
BeginInference(j, b, k) ==
  /\ calls[j].phase = "idle"
  /\ WelcomeEntry(b) \in ledger
  /\ CleanupStaleInferenceReservations
  /\ calls' = [calls EXCEPT ![j] = [NoCall EXCEPT !.phase = "swept", !.buyer = b, !.key = k]]
  /\ UNCHANGED <<ledger, Rest>>

(* A row with the same buyer and idempotency key: the request is a replay. *)
KeyTaken(b, k) ==
  \E i \in Jobs : jobs[i].status # "none" /\ jobs[i].buyer = b /\ jobs[i].key = k

(* readInferenceForReplay, the rate limit, selectOffer and the estimate. *)
SelectOffer(j, o, estimate) ==
  /\ calls[j].phase = "swept"
  /\ ~KeyTaken(calls[j].buyer, calls[j].key)
  /\ OfferSells(o, calls[j].buyer, auth[OfferAuth[o]].revision)
  /\ calls' = [calls EXCEPT ![j].phase = "selected", ![j].offer = o,
                 ![j].revision = auth[OfferAuth[o]].revision, ![j].estimate = estimate]
  /\ UNCHANGED <<ledger, jobs, Rest>>

(* A row under the key is answered from: its result while that is kept, else
   a conflict.  A rate limit or no matching offer ends the request too. *)
RefuseInference(j) ==
  /\ calls[j].phase = "swept"
  /\ Return(j)
  /\ UNCHANGED <<ledger, jobs, Rest>>

(* Mutant: the holds of file tasks are not subtracted from the balance. *)
ReserveGateIgnoringTasks(c) ==
  /\ ~KeyTaken(c.buyer, c.key)
  /\ Balance(c.buyer) - HeldByJobs(c.buyer) >= c.estimate
  /\ OfferSells(c.offer, c.buyer, c.revision)
  /\ Occupancy(c.offer) < Concurrency[c.offer]

(* RESERVE_INFERENCE_JOB_SQL: INSERT OR IGNORE under its balance, offer and
   capacity predicates, with the offer as selectOffer read it. *)
ReserveGate(c) ==
  /\ ~KeyTaken(c.buyer, c.key)
  /\ Available(c.buyer) >= c.estimate
  /\ OfferSells(c.offer, c.buyer, c.revision)
  /\ Occupancy(c.offer) < Concurrency[c.offer]

ReserveInference(j) ==
  LET c == calls[j] IN
  /\ c.phase = "selected"
  /\ \/ /\ ReserveGate(c)
        /\ jobs' = [jobs EXCEPT ![j] =
             [status |-> "reserved", buyer |-> c.buyer, key |-> c.key, offer |-> c.offer,
              revision |-> c.revision, reserved |-> c.estimate, lapsed |-> FALSE]]
        /\ calls' = [calls EXCEPT ![j].phase = "reserved"]
     \/ /\ ~ReserveGate(c)
        /\ Return(j)
        /\ UNCHANGED jobs
  /\ UNCHANGED <<ledger, Rest>>

(* reserved -> running; "now" predates the reservation, so the expiry
   comparison of this UPDATE is always true. *)
StartInference(j) ==
  /\ calls[j].phase = "reserved"
  /\ \/ /\ jobs[j].status = "reserved"
        /\ jobs' = [jobs EXCEPT ![j].status = "running"]
        /\ calls' = [calls EXCEPT ![j].phase = "calling"]
     \/ /\ jobs[j].status # "reserved"
        /\ Return(j)
        /\ UNCHANGED jobs
  /\ UNCHANGED <<ledger, Rest>>

(* callGateway returns metered usage, or throws; a charge above the estimate
   throws before anything is written. *)
GatewayAnswers(j, charge) ==
  /\ calls[j].phase = "calling"
  /\ calls' = [calls EXCEPT ![j].charge = charge,
                 ![j].phase = IF charge <= calls[j].estimate THEN "answered" ELSE "failing"]
  /\ UNCHANGED <<ledger, jobs, Rest>>

GatewayFails(j) ==
  /\ calls[j].phase = "calling"
  /\ calls' = [calls EXCEPT ![j].phase = "failing"]
  /\ UNCHANGED <<ledger, jobs, Rest>>

(* Mutant: the UPDATE does not ask for the status it expects. *)
CompleteJobInAnyStatus(j, charge) ==
  /\ jobs[j].reserved >= charge
  /\ Balance(jobs[j].buyer) - HeldByTasks(jobs[j].buyer)
       - Total(HoldingJobs(jobs[j].buyer) \ {j}, JobReserved) >= charge

(* COMPLETE_INFERENCE_JOB_SQL: the row's own reservation is not counted
   against the charge. *)
CompleteJobGate(j, charge) ==
  /\ jobs[j].status = "running"
  /\ ~jobs[j].lapsed
  /\ jobs[j].reserved >= charge
  /\ Balance(jobs[j].buyer) - HeldByTasks(jobs[j].buyer)
       - Total(HoldingJobs(jobs[j].buyer) \ {j}, JobReserved) >= charge

(* Mutant: the ledger rows are not written behind the completed row. *)
SettleUnguarded(j) ==
  LET c == calls[j] IN
  /\ c.phase = "answered"
  /\ jobs' = [jobs EXCEPT ![j].status = IF CompleteJobGate(j, c.charge) THEN "completed" ELSE @]
  /\ Post(SettlementEntries(j, jobs[j].buyer, OfferTenant(jobs[j].offer), c.charge))
  /\ Return(j)
  /\ UNCHANGED Rest

(* The settlement batch: usage, evidence and ledger rows are written only
   behind the completed row; the re-read throws when it is not there. *)
SettleInference(j) ==
  LET c == calls[j] IN
  /\ c.phase = "answered"
  /\ \/ /\ CompleteJobGate(j, c.charge)
        /\ jobs' = [jobs EXCEPT ![j].status = "completed"]
        /\ Post(SettlementEntries(j, jobs[j].buyer, OfferTenant(jobs[j].offer), c.charge))
        /\ Return(j)
     \/ /\ ~CompleteJobGate(j, c.charge)
        /\ calls' = [calls EXCEPT ![j].phase = "failing"]
        /\ UNCHANGED <<ledger, jobs>>
  /\ UNCHANGED Rest

(* The catch block releases the reservation if the row is still active. *)
FailInference(j) ==
  /\ calls[j].phase = "failing"
  /\ jobs' = [jobs EXCEPT ![j] = IF @.status \in JobActive THEN Failed(@) ELSE @]
  /\ Return(j)
  /\ UNCHANGED <<ledger, Rest>>

(* The isolate that runs the request goes away. *)
LoseInference(j) ==
  /\ calls[j].phase \notin {"idle", "done"}
  /\ Return(j)
  /\ UNCHANGED <<ledger, jobs, Rest>>

(* reservation_expires_at passes. *)
ReservationLapses(j) ==
  /\ jobs[j].status \in JobActive /\ ~jobs[j].lapsed
  /\ jobs' = [jobs EXCEPT ![j].lapsed = TRUE]
  /\ UNCHANGED <<ledger, calls, Rest>>

(* runMarketplaceMaintenance, its inference part. *)
MaintainInference ==
  /\ \E j \in Jobs : IsStale(j)
  /\ CleanupStaleInferenceReservations
  /\ UNCHANGED <<ledger, calls, Rest>>

InferenceStep(j) ==
  \/ \E b \in Tenants, k \in Keys : BeginInference(j, b, k)
  \/ \E o \in Offers, e \in Estimates : SelectOffer(j, o, e)
  \/ RefuseInference(j)
  \/ ReserveInference(j)
  \/ StartInference(j)
  \/ \E c \in Amounts : GatewayAnswers(j, c)
  \/ GatewayFails(j)
  \/ SettleInference(j)
  \/ FailInference(j)
  \/ LoseInference(j)
  \/ ReservationLapses(j)

=============================================================================
