---------------------------- MODULE MarketplaceSafety ----------------------------
(***************************************************************************)
(* Capacity and money, for any number of tenants, offers, jobs and tasks.  *)
(*                                                                         *)
(* Both invariants are inductive on top of IInv.  A step either leaves the *)
(* sets the gates count and sum over no larger than before (QuietJobs,     *)
(* QuietTasks), or is the one INSERT or UPDATE behind a gate, and the gate *)
(* leaves room for exactly the row it admits.                              *)
(***************************************************************************)
EXTENDS MarketplaceTypes, SumTheorems

(* A step admits at most one row, and then changes nothing else that the
   gates look at. *)
LEMMA StepKinds ==
  ASSUME IInv, Next
  PROVE  \/ QuietJobs /\ QuietTasks
         \/ \E j \in Jobs : JobReserves(j) /\ UNCHANGED <<ledger, tasks>>
         \/ \E t \in Tasks : TaskReserves(t) /\ UNCHANGED <<ledger, jobs>>
         \/ \E w \in Workers : \E p \in polls[w] :
              p \in PollRow /\ TaskClaimed(w, p) /\ UNCHANGED <<ledger, jobs>>
BY JobsMove, TasksMove

(* The sets the gates range over are finite. *)
LEMMA CountedFinite ==
  ASSUME NEW o, NEW b
  PROVE  /\ IsFiniteSet(OccupyingJobs(o)) /\ IsFiniteSet(OccupyingTasks(o))
         /\ IsFiniteSet(HoldingJobs(b)) /\ IsFiniteSet(HoldingTasks(b))
<1>1. /\ OccupyingJobs(o) \in SUBSET Jobs /\ OccupyingTasks(o) \in SUBSET Tasks
      /\ HoldingJobs(b) \in SUBSET Jobs /\ HoldingTasks(b) \in SUBSET Tasks
  BY DEF OccupyingJobs, OccupyingTasks, HoldingJobs, HoldingTasks
<1>2. QED
  BY <1>1, SetAssumption, FS_Subset

---------------------------------------------------------------------------
(* Capacity. *)

LEMMA InitCapacity == Init => CapacityRespected
<1> SUFFICES ASSUME Init, NEW o \in Offers PROVE Occupancy(o) <= Concurrency[o]
  BY DEF CapacityRespected
<1>1. OccupyingJobs(o) = {} /\ OccupyingTasks(o) = {}
  BY DEF Init, InferenceInit, TasksInit, OccupyingJobs, OccupyingTasks, NoJob, NoTask, JobActive,
         TaskLeased
<1>2. Concurrency[o] \in Nat
  BY MapAssumption
<1>3. QED
  BY <1>1, <1>2, FS_EmptySet DEF Occupancy

(* Occupancy cannot grow in a quiet step. *)
LEMMA QuietOccupancy ==
  ASSUME NEW o
  PROVE  /\ QuietJobs => OccupyingJobs(o)' \in SUBSET OccupyingJobs(o)
         /\ QuietTasks => OccupyingTasks(o)' \in SUBSET OccupyingTasks(o)
BY DEF QuietJobs, QuietTasks, JobQuiet, RowQuiet, SameSale, OccupyingJobs, OccupyingTasks

LEMMA NextCapacity == IInv /\ CapacityRespected /\ [Next]_vars => CapacityRespected'
<1> SUFFICES ASSUME IInv, CapacityRespected, [Next]_vars, NEW o \in Offers
             PROVE  Occupancy(o)' <= Concurrency[o]
  BY DEF CapacityRespected
<1> DEFINE J == Cardinality(OccupyingJobs(o))
           T == Cardinality(OccupyingTasks(o))
<1>0. J \in Nat /\ T \in Nat /\ J + T <= Concurrency[o] /\ Concurrency[o] \in Nat
  BY CountedFinite, FS_CardinalityType, MapAssumption DEF CapacityRespected, Occupancy
<1>1. ASSUME OccupyingJobs(o)' \in SUBSET OccupyingJobs(o)
      PROVE  J' \in Nat /\ J' <= J
  BY <1>1, CountedFinite, FS_Subset, FS_CardinalityType
<1>2. ASSUME OccupyingTasks(o)' \in SUBSET OccupyingTasks(o)
      PROVE  T' \in Nat /\ T' <= T
  BY <1>2, CountedFinite, FS_Subset, FS_CardinalityType
<1>3. UNCHANGED jobs => J' \in Nat /\ J' <= J
  BY <1>1 DEF OccupyingJobs
<1>4. UNCHANGED tasks => T' \in Nat /\ T' <= T
  BY <1>2 DEF OccupyingTasks
<1>5. (J' \in Nat /\ J' <= J) /\ (T' \in Nat /\ T' <= T) => Occupancy(o)' <= Concurrency[o]
  BY <1>0 DEF Occupancy
<1>6. CASE UNCHANGED vars
  BY <1>3, <1>4, <1>5, <1>6 DEF vars
<1>7. CASE QuietJobs /\ QuietTasks
  BY <1>1, <1>2, <1>5, <1>7, QuietOccupancy
<1>8. ASSUME NEW j \in Jobs, JobReserves(j), UNCHANGED tasks
      PROVE  Occupancy(o)' <= Concurrency[o]
  <2>1. calls[j].offer \in Offers
    BY <1>8 DEF IInv, CallsOK, JobReserves
  <2>2. \A i \in Jobs : i # j => jobs'[i] = jobs[i]
    BY <1>8 DEF JobReserves, IInv, JobsOK
  <2>3. jobs'[j].offer = calls[j].offer
    BY <1>8 DEF JobReserves, IInv, JobsOK
  <2>4. CASE calls[j].offer # o
    <3>1. OccupyingJobs(o)' \in SUBSET OccupyingJobs(o)
      BY <2>2, <2>3, <2>4 DEF OccupyingJobs
    <3>2. QED
      BY <1>1, <1>4, <1>5, <1>8, <3>1
  <2>5. CASE calls[j].offer = o
    <3>1. OccupyingJobs(o)' \in SUBSET (OccupyingJobs(o) \cup {j})
      BY <2>2 DEF OccupyingJobs
    <3>2. J' \in Nat /\ J' <= J + 1
      BY <3>1, CountedFinite, CountGrows
    <3>3. J + T < Concurrency[o]
      BY <1>8, <2>5 DEF JobReserves, ReserveGate, Occupancy
    <3>4. T' \in Nat /\ T' <= T
      BY <1>4, <1>8
    <3> HIDE DEF J, T
    <3>5. J' + T' <= Concurrency[o]
      BY <1>0, <3>2, <3>3, <3>4
    <3>6. QED
      BY <3>5 DEF J, T, Occupancy
  <2>6. QED
    BY <2>4, <2>5
<1>9. ASSUME NEW t \in Tasks, TaskReserves(t), UNCHANGED jobs
      PROVE  Occupancy(o)' <= Concurrency[o]
  <2>1. tasks' = [i \in Tasks |-> tasks'[i]] /\ \A i \in Tasks : i # t => tasks'[i] = tasks[i]
    BY <1>9 DEF TaskReserves, IInv, TasksOK
  <2>2. tasks'[t].status = "queued"
    BY <1>9 DEF TaskReserves, IInv, TasksOK, NoTask
  <2>3. OccupyingTasks(o)' \in SUBSET OccupyingTasks(o)
    BY <2>1, <2>2 DEF OccupyingTasks, TaskLeased
  <2>4. QED
    BY <1>2, <1>3, <1>5, <1>9, <2>3
<1>10. ASSUME NEW w \in Workers, NEW p \in polls[w], p \in PollRow, TaskClaimed(w, p), UNCHANGED jobs
       PROVE  Occupancy(o)' <= Concurrency[o]
  <2>0. p.task \in Tasks
    BY <1>10 DEF PollRow
  <2>1. \A i \in Tasks : i # p.task => tasks'[i] = tasks[i]
    BY <1>10, <2>0 DEF TaskClaimed, IInv, TasksOK
  <2>2. tasks'[p.task].offer = tasks[p.task].offer
    BY <1>10, <2>0 DEF TaskClaimed, IInv, TasksOK, TaskRowOK, TaskRow
  <2>3. CASE tasks[p.task].offer # o
    <3>1. OccupyingTasks(o)' \in SUBSET OccupyingTasks(o)
      BY <2>1, <2>2, <2>3 DEF OccupyingTasks
    <3>2. QED
      BY <1>2, <1>3, <1>5, <1>10, <3>1
  <2>4. CASE tasks[p.task].offer = o
    <3>1. OccupyingTasks(o)' \in SUBSET (OccupyingTasks(o) \cup {p.task})
      BY <2>1 DEF OccupyingTasks
    <3>2. T' \in Nat /\ T' <= T + 1
      BY <3>1, CountedFinite, CountGrows
    <3>3. J + T < Concurrency[o]
      BY <1>10, <2>4 DEF TaskClaimed, ClaimGate, Occupancy
    <3>4. J' \in Nat /\ J' <= J
      BY <1>3, <1>10
    <3> HIDE DEF J, T
    <3>5. J' + T' <= Concurrency[o]
      BY <1>0, <3>2, <3>3, <3>4
    <3>6. QED
      BY <3>5 DEF J, T, Occupancy
  <2>5. QED
    BY <2>3, <2>4
<1>11. QED
  BY <1>6, <1>7, <1>8, <1>9, <1>10, StepKinds

(* The concurrency of an offer is never exceeded, though inference and file
   tasks are admitted by different statements in different handlers and a
   claim acts on a candidate read earlier: the gates count both tables in
   the transaction that admits the row. *)
THEOREM CapacitySafe == Spec => []CapacityRespected
<1>1. Init => CapacityRespected
  BY InitCapacity
<1>2. IInv /\ CapacityRespected /\ [Next]_vars => CapacityRespected'
  BY NextCapacity
<1>3. QED
  BY <1>1, <1>2, AlwaysIInv, PTL DEF Spec

---------------------------------------------------------------------------
(* Money. *)

(* Entries are only added, so credits can only grow; debits of a tenant grow
   by at most the one debit entry a settlement posts. *)
LEMMA BalanceDrops ==
  ASSUME LedgerOK, LedgerOK', ledger \subseteq ledger', NEW t, NEW d, NEW c \in Nat,
         d.amount = c,
         \A e \in ledger' \ ledger : e.tenant = t /\ e.type = "inference-debit" => e = d
  PROVE  Balance(t)' >= Balance(t) - c /\ Balance(t)' \in Int /\ Balance(t) \in Int
<1> DEFINE f == EntryAmount
           g == [e \in ledger' \cup {d} |-> e.amount]
<1>1. \A e \in ledger : f[e] \in Nat /\ f[e] = e.amount
  BY DEF LedgerOK, Entry, EntryAmount
<1>2. \A e \in ledger' : f'[e] \in Nat /\ f'[e] = e.amount
  BY DEF LedgerOK, Entry, EntryAmount
<1>3. /\ Credits(t) \in SUBSET Credits(t)' /\ Debits(t)' \in SUBSET (Debits(t) \cup {d})
      /\ Credits(t)' \in SUBSET ledger' /\ Debits(t) \in SUBSET ledger
      /\ Debits(t)' \in SUBSET ledger'
  BY DEF Credits, Debits
<1>4. IsFiniteSet(Credits(t)') /\ IsFiniteSet(Debits(t))
  BY <1>3, FS_Subset DEF LedgerOK
<1>5. \A e \in Credits(t)' : f'[e] \in Nat
  BY <1>2, <1>3
<1>6. \A e \in Credits(t) : f'[e] = f[e]
  BY <1>1, <1>2, <1>3 DEF Credits
<1>7. \A e \in Debits(t) : f[e] \in Nat /\ f[e] = g[e]
  BY <1>1, <1>3
<1>8. g[d] = c /\ \A e \in Debits(t)' : g[e] = f'[e]
  BY <1>2, <1>3
<1> HIDE DEF f, g
<1>9. /\ Total(Credits(t), f) <= Total(Credits(t)', f')
      /\ Total(Credits(t), f) \in Nat /\ Total(Credits(t)', f') \in Nat
  BY <1>3, <1>4, <1>5, <1>6, TotalShrinks
<1>10. /\ Total(Debits(t)', g) <= Total(Debits(t), f) + c
       /\ Total(Debits(t)', g) \in Nat /\ Total(Debits(t), f) \in Nat
  <2>1. \A e \in Debits(t) \ {d} : f[e] = g[e]
    BY <1>7
  <2>2. g[d] \in Nat /\ \A e \in Debits(t) : f[e] \in Nat
    BY <1>7, <1>8
  <2>3. /\ Total(Debits(t)', g) <= Total(Debits(t), f) + g[d]
        /\ Total(Debits(t)', g) \in Nat /\ Total(Debits(t), f) \in Nat
    BY <1>3, <1>4, <2>1, <2>2, TotalGrows
  <2>4. QED
    BY <1>8, <2>3
<1>11. Total(Debits(t)', g) = Total(Debits(t)', f')
  BY <1>8, TotalSame
<1>12. /\ Balance(t) = Total(Credits(t), f) - Total(Debits(t), f)
       /\ Balance(t)' = Total(Credits(t)', f') - Total(Debits(t)', f')
  BY DEF Balance, f
<1>13. QED
  BY <1>9, <1>10, <1>11, <1>12

(* Credits alone never lower a balance. *)
LEMMA BalanceKept ==
  ASSUME LedgerOK, LedgerOK', ledger \subseteq ledger', NEW t,
         \A e \in ledger' \ ledger : ~(e.tenant = t /\ e.type = "inference-debit")
  PROVE  Balance(t)' >= Balance(t) /\ Balance(t)' \in Int /\ Balance(t) \in Int
<1> DEFINE d == [amount |-> 0]
<1>1. d.amount = 0
  OBVIOUS
<1>2. Balance(t)' >= Balance(t) - 0 /\ Balance(t)' \in Int /\ Balance(t) \in Int
  BY <1>1, BalanceDrops
<1>3. QED
  BY <1>2

(* The holds of a buyer, typed. *)
LEMMA HoldsTyped ==
  ASSUME JobsOK, TasksOK, NEW b
  PROVE  /\ \A j \in Jobs : JobReserved[j] \in Nat /\ JobReserved[j] = jobs[j].reserved
         /\ \A t \in Tasks : TaskReserved[t] \in Nat /\ TaskReserved[t] = tasks[t].reserved
         /\ HeldByJobs(b) \in Nat /\ HeldByTasks(b) \in Nat
<1>1. \A j \in Jobs : JobReserved[j] \in Nat /\ JobReserved[j] = jobs[j].reserved
  BY DEF JobReserved, JobsOK, JobRow
<1>2. \A t \in Tasks : TaskReserved[t] \in Nat /\ TaskReserved[t] = tasks[t].reserved
  BY DEF TaskReserved, TasksOK, TaskRowOK, TaskRow
<1>3. HoldingJobs(b) \subseteq Jobs /\ HoldingTasks(b) \subseteq Tasks
  BY DEF HoldingJobs, HoldingTasks
<1>4. HeldByJobs(b) \in Nat
  BY <1>1, <1>3, CountedFinite, TotalNat DEF HeldByJobs
<1>5. HeldByTasks(b) \in Nat
  BY <1>2, <1>3, CountedFinite, TotalNat DEF HeldByTasks
<1>6. QED
  BY <1>1, <1>2, <1>4, <1>5

(* The same of the next state. *)
HoldsNat == \A b \in Tenants : HeldByJobs(b) \in Nat /\ HeldByTasks(b) \in Nat

LEMMA HoldsAreNat == JobsOK /\ TasksOK => HoldsNat
BY HoldsTyped DEF HoldsNat

LEMMA HoldsStayNat == (JobsOK /\ TasksOK)' => HoldsNat'
BY HoldsAreNat, PTL

(* Holds do not grow in a quiet step. *)
LEMMA QuietHoldsJobs ==
  ASSUME JobsOK, TasksOK, JobsOK', TasksOK', QuietJobs, NEW b
  PROVE  HeldByJobs(b)' <= HeldByJobs(b)
<1>1. HoldingJobs(b)' \in SUBSET HoldingJobs(b) /\ HoldingJobs(b) \subseteq Jobs
  BY DEF QuietJobs, JobQuiet, HoldingJobs
<1>2. \A j \in Jobs : JobReserved[j] \in Nat /\ JobReserved'[j] = JobReserved[j]
  BY HoldsTyped DEF JobReserved, QuietJobs, JobQuiet
<1>3. Total(HoldingJobs(b)', JobReserved') <= Total(HoldingJobs(b), JobReserved)
  BY <1>1, <1>2, CountedFinite, TotalShrinks
<1>4. QED
  BY <1>3 DEF HeldByJobs

LEMMA QuietHoldsTasks ==
  ASSUME JobsOK, TasksOK, JobsOK', TasksOK', QuietTasks, NEW b
  PROVE  HeldByTasks(b)' <= HeldByTasks(b)
<1>1. HoldingTasks(b)' \in SUBSET HoldingTasks(b) /\ HoldingTasks(b) \subseteq Tasks
  BY DEF QuietTasks, RowQuiet, SameSale, HoldingTasks
<1>2. \A t \in Tasks : TaskReserved[t] \in Nat /\ TaskReserved'[t] = TaskReserved[t]
  BY HoldsTyped DEF TaskReserved, QuietTasks, RowQuiet, SameSale
<1>3. Total(HoldingTasks(b)', TaskReserved') <= Total(HoldingTasks(b), TaskReserved)
  BY <1>1, <1>2, CountedFinite, TotalShrinks
<1>4. QED
  BY <1>3 DEF HeldByTasks

(* The reservation of one job raises the holds of its buyer by its estimate
   and those of nobody else. *)
LEMMA ReservedHoldsJobs ==
  ASSUME IInv, JobsOK', TasksOK', NEW j \in Jobs, JobReserves(j), NEW b \in Tenants
  PROVE  HeldByJobs(b)' <= HeldByJobs(b) + (IF b = calls[j].buyer THEN calls[j].estimate ELSE 0)
<1>0. JobsOK /\ TasksOK /\ calls[j].estimate \in Nat
  BY DEF IInv, CallsOK, CallRow
<1>1. \A i \in Jobs : i # j => jobs'[i] = jobs[i]
  BY <1>0 DEF JobReserves, JobsOK
<1>2. jobs'[j].buyer = calls[j].buyer /\ jobs'[j].reserved = calls[j].estimate
  BY <1>0 DEF JobReserves, JobsOK
<1>3. \A i \in Jobs : JobReserved[i] \in Nat /\ (i # j => JobReserved[i] = JobReserved'[i])
  BY <1>0, <1>1, HoldsTyped DEF JobReserved
<1>4. JobReserved'[j] = calls[j].estimate
  BY <1>2 DEF JobReserved
<1>5. HoldingJobs(b) \subseteq Jobs
  BY DEF HoldingJobs
<1>6. CASE b = calls[j].buyer
  <2>1. HoldingJobs(b)' \in SUBSET (HoldingJobs(b) \cup {j})
    BY <1>1 DEF HoldingJobs
  <2>2. Total(HoldingJobs(b)', JobReserved') <= Total(HoldingJobs(b), JobReserved) + JobReserved'[j]
    BY <1>0, <1>3, <1>4, <1>5, <2>1, CountedFinite, TotalGrows
  <2>3. QED
    BY <1>4, <1>6, <2>2 DEF HeldByJobs
<1>7. CASE b # calls[j].buyer
  <2>1. HoldingJobs(b)' \in SUBSET HoldingJobs(b) /\ j \notin HoldingJobs(b)'
    BY <1>1, <1>2, <1>7 DEF HoldingJobs
  <2>2. Total(HoldingJobs(b)', JobReserved') <= Total(HoldingJobs(b), JobReserved)
    BY <1>3, <1>5, <2>1, CountedFinite, TotalShrinks
  <2>3. HeldByJobs(b) \in Nat
    BY <1>0, HoldsTyped
  <2>4. QED
    BY <1>7, <2>2, <2>3 DEF HeldByJobs
<1>8. QED
  BY <1>6, <1>7

LEMMA ReservedHoldsTasks ==
  ASSUME IInv, JobsOK', TasksOK', NEW t \in Tasks, TaskReserves(t), NEW b \in Tenants
  PROVE  HeldByTasks(b)' <= HeldByTasks(b) + (IF b = orders[t].buyer THEN orders[t].estimate ELSE 0)
<1>0. JobsOK /\ TasksOK /\ orders[t].estimate \in Nat
  BY DEF IInv, OrdersOK, OrderRow
<1>1. \A i \in Tasks : i # t => tasks'[i] = tasks[i]
  BY <1>0 DEF TaskReserves, TasksOK
<1>2. tasks'[t].buyer = orders[t].buyer /\ tasks'[t].reserved = orders[t].estimate
  BY <1>0 DEF TaskReserves, TasksOK, NoTask
<1>3. \A i \in Tasks : TaskReserved[i] \in Nat /\ (i # t => TaskReserved[i] = TaskReserved'[i])
  BY <1>0, <1>1, HoldsTyped DEF TaskReserved
<1>4. TaskReserved'[t] = orders[t].estimate
  BY <1>2 DEF TaskReserved
<1>5. HoldingTasks(b) \subseteq Tasks
  BY DEF HoldingTasks
<1>6. CASE b = orders[t].buyer
  <2>1. HoldingTasks(b)' \in SUBSET (HoldingTasks(b) \cup {t})
    BY <1>1 DEF HoldingTasks
  <2>2. Total(HoldingTasks(b)', TaskReserved') <= Total(HoldingTasks(b), TaskReserved) + TaskReserved'[t]
    BY <1>0, <1>3, <1>4, <1>5, <2>1, CountedFinite, TotalGrows
  <2>3. QED
    BY <1>4, <1>6, <2>2 DEF HeldByTasks
<1>7. CASE b # orders[t].buyer
  <2>1. HoldingTasks(b)' \in SUBSET HoldingTasks(b) /\ t \notin HoldingTasks(b)'
    BY <1>1, <1>2, <1>7 DEF HoldingTasks
  <2>2. Total(HoldingTasks(b)', TaskReserved') <= Total(HoldingTasks(b), TaskReserved)
    BY <1>3, <1>5, <2>1, CountedFinite, TotalShrinks
  <2>3. HeldByTasks(b) \in Nat
    BY <1>0, HoldsTyped
  <2>4. QED
    BY <1>7, <2>2, <2>3 DEF HeldByTasks
<1>8. QED
  BY <1>6, <1>7

(* A claim moves a task from queued to claimed and keeps its hold. *)
LEMMA ClaimedHolds ==
  ASSUME JobsOK, TasksOK, JobsOK', TasksOK', NEW w, NEW p \in PollRow, TaskClaimed(w, p), NEW b
  PROVE  HeldByTasks(b)' <= HeldByTasks(b)
<1>1. p.task \in Tasks
  BY DEF PollRow
<1>2. \A i \in Tasks : i # p.task => tasks'[i] = tasks[i]
  BY <1>1 DEF TaskClaimed, TasksOK
<1>3. /\ tasks'[p.task].buyer = tasks[p.task].buyer
      /\ tasks'[p.task].reserved = tasks[p.task].reserved
      /\ tasks[p.task].status = "queued"
  <2>1. tasks[p.task] \in TaskRow /\ tasks = [i \in Tasks |-> tasks[i]]
    BY <1>1 DEF TasksOK, TaskRowOK
  <2>2. tasks[p.task].status = "queued"
    BY DEF TaskClaimed, ClaimGate
  <2>3. tasks'[p.task] = [tasks[p.task] EXCEPT !.status = "claimed", !.worker = w,
          !.attempt = tasks[p.task].attempt + 1, !.lease = tasks[p.task].attempt + 1,
          !.completed = p.resume]
    BY <1>1, <2>1 DEF TaskClaimed
  <2>4. QED
    BY <2>1, <2>2, <2>3 DEF TaskRow
<1>4. HoldingTasks(b)' \in SUBSET HoldingTasks(b) /\ HoldingTasks(b) \subseteq Tasks
  <2>1. \A i \in Tasks : /\ tasks'[i].buyer = tasks[i].buyer
                         /\ tasks'[i].status \in TaskActive => tasks[i].status \in TaskActive
    BY <1>2, <1>3 DEF TaskActive
  <2>2. QED
    BY <2>1 DEF HoldingTasks
<1>5. \A t \in Tasks : TaskReserved[t] \in Nat /\ TaskReserved'[t] = TaskReserved[t]
  BY <1>2, <1>3, HoldsTyped DEF TaskReserved
<1>6. Total(HoldingTasks(b)', TaskReserved') <= Total(HoldingTasks(b), TaskReserved)
  BY <1>4, <1>5, CountedFinite, TotalShrinks
<1>7. QED
  BY <1>6 DEF HeldByTasks

(* Of the entries of one settlement, only the debit charges a tenant. *)
LEMMA SettlementPosts ==
  ASSUME NEW ref, NEW buyer, NEW supplier, NEW c,
         Post(SettlementEntries(ref, buyer, supplier, c))
  PROVE  /\ ledger \subseteq ledger'
         /\ \A e \in ledger' \ ledger : e.type = "inference-debit" =>
              e = [ref |-> ref, type |-> "inference-debit", tenant |-> buyer, amount |-> c]
BY DEF Post, SettlementEntries

(* Settling one job: its reservation is released and at most its reservation
   is charged, so what the buyer has left covers the other holds. *)
LEMMA SettledJob ==
  ASSUME IInv, IInv', NoOverdraft, NEW j \in Jobs, SettleInference(j),
         CompleteJobGate(j, calls[j].charge), NEW b \in Tenants
  PROVE  Available(b)' >= 0
<1> DEFINE row == jobs[j]
           c == calls[j].charge
           d == [ref |-> j, type |-> "inference-debit", tenant |-> row.buyer, amount |-> c]
<1>0. /\ JobsOK /\ TasksOK /\ LedgerOK /\ JobsOK' /\ TasksOK' /\ LedgerOK'
  BY DEF IInv
<1>1. row.status = "running" /\ UNCHANGED tasks
  BY DEF CompleteJobGate, SettleInference, Rest
<1>2. c \in Nat /\ row.buyer \in Tenants
  BY <1>1, JobParties
<1>3. jobs' = [jobs EXCEPT ![j].status = "completed"]
  BY DEF SettleInference
<1>4. /\ ledger \subseteq ledger'
      /\ \A e \in ledger' \ ledger : e.type = "inference-debit" => e = d
  BY SettlementPosts DEF SettleInference
<1>5. \A i \in Jobs : /\ jobs'[i].buyer = jobs[i].buyer /\ jobs'[i].reserved = jobs[i].reserved
                      /\ i # j => jobs'[i] = jobs[i]
  BY <1>0, <1>3 DEF JobsOK, JobRow
<1>6. jobs'[j].status = "completed"
  BY <1>0, <1>3 DEF JobsOK, JobRow
<1>7. HoldingJobs(b)' \in SUBSET (HoldingJobs(b) \ {j}) /\ HoldingJobs(b) \subseteq Jobs
  BY <1>5, <1>6 DEF HoldingJobs, JobActive
<1>8. \A i \in Jobs : JobReserved[i] \in Nat /\ JobReserved'[i] = JobReserved[i]
  BY <1>0, <1>5, HoldsTyped DEF JobReserved
<1>9. HeldByTasks(b)' = HeldByTasks(b) /\ HeldByTasks(b) \in Nat
  BY <1>0, <1>1, HoldsTyped DEF HeldByTasks, HoldingTasks, TaskReserved
<1> DEFINE R == HoldingJobs(b) \ {j}
<1>10. IsFiniteSet(R) /\ R \in SUBSET HoldingJobs(b)
  BY CountedFinite, FS_Subset
<1>11. /\ HeldByJobs(b)' <= Total(R, JobReserved)
       /\ HeldByJobs(b)' \in Nat /\ Total(R, JobReserved) \in Nat
  BY <1>7, <1>8, <1>10, TotalShrinks DEF HeldByJobs
<1>12. Total(R, JobReserved) <= HeldByJobs(b) /\ HeldByJobs(b) \in Nat
  BY <1>7, <1>8, <1>10, CountedFinite, TotalShrinks DEF HeldByJobs
<1>13. Balance(b) - HeldByJobs(b) - HeldByTasks(b) >= 0
  BY DEF NoOverdraft, Available
<1>14. CASE b = row.buyer
  <2>1. Balance(b)' >= Balance(b) - c /\ Balance(b)' \in Int /\ Balance(b) \in Int
    <3>1. d.amount = c
      OBVIOUS
    <3> HIDE DEF d
    <3>2. QED
      BY <1>0, <1>2, <1>4, <3>1, BalanceDrops
  <2>2. Balance(b) - HeldByTasks(b) - Total(R, JobReserved) >= c
    BY <1>14 DEF CompleteJobGate
  <2> HIDE DEF R, c
  <2>3. Balance(b)' - HeldByJobs(b)' - HeldByTasks(b)' >= 0
    BY <1>2, <1>9, <1>11, <2>1, <2>2
  <2>4. QED
    BY <2>3 DEF Available
<1>15. CASE b # row.buyer
  <2>1. Balance(b)' >= Balance(b) /\ Balance(b)' \in Int /\ Balance(b) \in Int
    BY <1>0, <1>4, <1>15, BalanceKept
  <2> HIDE DEF R
  <2>2. Balance(b)' - HeldByJobs(b)' - HeldByTasks(b)' >= 0
    BY <1>9, <1>11, <1>12, <1>13, <2>1
  <2>3. QED
    BY <2>2 DEF Available
<1>16. QED
  BY <1>14, <1>15

LEMMA SettledTask ==
  ASSUME IInv, IInv', NoOverdraft, NEW s \in settling, CompleteArtifactTask(s),
         CompleteTaskGate(s), NEW b \in Tenants
  PROVE  Available(b)' >= 0
<1> DEFINE t == s.task
           row == tasks[t]
           c == s.charge
           d == [ref |-> t, type |-> "inference-debit", tenant |-> row.buyer, amount |-> c]
<1>0. /\ JobsOK /\ TasksOK /\ LedgerOK /\ JobsOK' /\ TasksOK' /\ LedgerOK'
  BY DEF IInv
<1>1. row.status \in TaskLeased /\ UNCHANGED jobs
  BY DEF CompleteTaskGate, LeaseValid, CompleteArtifactTask, Others
<1>2. c \in Nat /\ row.buyer \in Tenants /\ t \in Tasks
  BY <1>1, TaskParties DEF TaskLeased
<1>3. tasks' = [tasks EXCEPT ![t] = Erased(Unleased(row, "completed"))]
  BY DEF CompleteArtifactTask
<1>4. /\ ledger \subseteq ledger'
      /\ \A e \in ledger' \ ledger : e.type = "inference-debit" => e = d
  BY SettlementPosts DEF CompleteArtifactTask
<1>5. /\ \A i \in Tasks : i # t => tasks'[i] = tasks[i]
      /\ tasks'[t] = Erased(Unleased(row, "completed"))
  BY <1>0, <1>2, <1>3 DEF TasksOK
<1>6. /\ tasks'[t].status = "completed" /\ tasks'[t].buyer = row.buyer
      /\ tasks'[t].reserved = row.reserved
  <2>1. TaskRowOK(row) /\ row.status # "none" /\ "completed" \in TaskTerminal
    BY <1>0, <1>1, <1>2 DEF TasksOK, TaskLeased, TaskTerminal
  <2>2. QED
    BY <1>5, <2>1, EndedRow DEF SameSale
<1>7. HoldingTasks(b)' \in SUBSET (HoldingTasks(b) \ {t}) /\ HoldingTasks(b) \subseteq Tasks
  BY <1>5, <1>6 DEF HoldingTasks, TaskActive, TaskLeased
<1>8. \A i \in Tasks : TaskReserved[i] \in Nat /\ TaskReserved'[i] = TaskReserved[i]
  BY <1>0, <1>5, <1>6, HoldsTyped DEF TaskReserved
<1>9. HeldByJobs(b)' = HeldByJobs(b) /\ HeldByJobs(b) \in Nat
  BY <1>0, <1>1, HoldsTyped DEF HeldByJobs, HoldingJobs, JobReserved
<1> DEFINE R == HoldingTasks(b) \ {t}
<1>10. IsFiniteSet(R) /\ R \in SUBSET HoldingTasks(b)
  BY CountedFinite, FS_Subset
<1>11. /\ HeldByTasks(b)' <= Total(R, TaskReserved)
       /\ HeldByTasks(b)' \in Nat /\ Total(R, TaskReserved) \in Nat
  BY <1>7, <1>8, <1>10, TotalShrinks DEF HeldByTasks
<1>12. Total(R, TaskReserved) <= HeldByTasks(b) /\ HeldByTasks(b) \in Nat
  BY <1>7, <1>8, <1>10, CountedFinite, TotalShrinks DEF HeldByTasks
<1>13. Balance(b) - HeldByJobs(b) - HeldByTasks(b) >= 0
  BY DEF NoOverdraft, Available
<1>14. CASE b = row.buyer
  <2>1. Balance(b)' >= Balance(b) - c /\ Balance(b)' \in Int /\ Balance(b) \in Int
    <3>1. d.amount = c
      OBVIOUS
    <3> HIDE DEF d
    <3>2. QED
      BY <1>0, <1>2, <1>4, <3>1, BalanceDrops
  <2>2. Balance(b) - HeldByJobs(b) - Total(R, TaskReserved) >= c
    BY <1>14 DEF CompleteTaskGate
  <2> HIDE DEF R, c
  <2>3. Balance(b)' - HeldByJobs(b)' - HeldByTasks(b)' >= 0
    BY <1>2, <1>9, <1>11, <2>1, <2>2
  <2>4. QED
    BY <2>3 DEF Available
<1>15. CASE b # row.buyer
  <2>1. Balance(b)' >= Balance(b) /\ Balance(b)' \in Int /\ Balance(b) \in Int
    BY <1>0, <1>4, <1>15, BalanceKept
  <2> HIDE DEF R
  <2>2. Balance(b)' - HeldByJobs(b)' - HeldByTasks(b)' >= 0
    BY <1>9, <1>11, <1>12, <1>13, <2>1
  <2>3. QED
    BY <2>2 DEF Available
<1>16. QED
  BY <1>14, <1>15

(* A step that settles nothing lowers no balance. *)
LEMMA UnsettledBalance ==
  ASSUME IInv, IInv', UNCHANGED ledger \/ \E t \in Tenants : EnsureUser(t), NEW b
  PROVE  Balance(b)' >= Balance(b) /\ Balance(b)' \in Int /\ Balance(b) \in Int
<1>1. /\ ledger \subseteq ledger'
      /\ \A e \in ledger' \ ledger : e.type # "inference-debit"
  BY DEF EnsureUser, Post, WelcomeEntry
<1>2. LedgerOK /\ LedgerOK'
  BY DEF IInv
<1>3. QED
  BY <1>1, <1>2, BalanceKept

LEMMA InitMoney == Init => NoOverdraft
<1> SUFFICES ASSUME Init, NEW b \in Tenants PROVE Available(b) >= 0
  BY DEF NoOverdraft
<1>1. HoldingJobs(b) = {} /\ HoldingTasks(b) = {} /\ Credits(b) = {} /\ Debits(b) = {}
  BY DEF Init, InferenceInit, TasksInit, HoldingJobs, HoldingTasks, NoJob, NoTask, JobActive,
         TaskActive, TaskLeased, Credits, Debits
<1>2. \A f : Total({}, f) = 0
  BY FS_EmptySet DEF Total, Units
<1>3. QED
  BY <1>1, <1>2 DEF Available, Balance, HeldByJobs, HeldByTasks

LEMMA NextMoney == IInv /\ NoOverdraft /\ [Next]_vars => NoOverdraft'
<1> SUFFICES ASSUME IInv, NoOverdraft, [Next]_vars, NEW b \in Tenants
             PROVE  Available(b)' >= 0
  BY DEF NoOverdraft
<1>0. IInv' /\ JobsOK /\ TasksOK /\ JobsOK' /\ TasksOK'
  BY NextIInv DEF IInv
<1>1. /\ Balance(b) - HeldByJobs(b) - HeldByTasks(b) >= 0
      /\ HeldByJobs(b) \in Nat /\ HeldByTasks(b) \in Nat
      /\ HeldByJobs(b)' \in Nat /\ HeldByTasks(b)' \in Nat
  BY <1>0, HoldsAreNat, HoldsStayNat DEF NoOverdraft, Available, HoldsNat
<1>2. ASSUME UNCHANGED ledger \/ \E t \in Tenants : EnsureUser(t),
             HeldByJobs(b)' <= HeldByJobs(b), HeldByTasks(b)' <= HeldByTasks(b)
      PROVE  Available(b)' >= 0
  <2>1. Balance(b)' >= Balance(b) /\ Balance(b)' \in Int /\ Balance(b) \in Int
    BY <1>0, <1>2, UnsettledBalance
  <2>2. QED
    BY <1>1, <1>2, <2>1 DEF Available
<1>3. UNCHANGED jobs => HeldByJobs(b)' <= HeldByJobs(b)
  BY <1>1 DEF HeldByJobs, HoldingJobs, JobReserved
<1>4. UNCHANGED tasks => HeldByTasks(b)' <= HeldByTasks(b)
  BY <1>1 DEF HeldByTasks, HoldingTasks, TaskReserved
<1>5. CASE UNCHANGED vars
  BY <1>2, <1>3, <1>4, <1>5 DEF vars
<1>6. CASE (\E j \in Jobs : SettleInference(j) /\ CompleteJobGate(j, calls[j].charge))
           \/ (\E s \in settling : CompleteArtifactTask(s) /\ CompleteTaskGate(s))
  BY <1>0, <1>6, SettledJob, SettledTask
<1>7. ASSUME Next, QuietJobs, QuietTasks,
             UNCHANGED ledger \/ \E t \in Tenants : EnsureUser(t)
      PROVE  Available(b)' >= 0
  BY <1>0, <1>2, <1>7, QuietHoldsJobs, QuietHoldsTasks
<1>8. ASSUME NEW j \in Jobs, JobReserves(j), UNCHANGED <<ledger, tasks>>
      PROVE  Available(b)' >= 0
  <2> DEFINE e == IF b = calls[j].buyer THEN calls[j].estimate ELSE 0
  <2>1. HeldByJobs(b)' <= HeldByJobs(b) + e
    BY <1>0, <1>8, ReservedHoldsJobs
  <2>2. Balance(b)' >= Balance(b) /\ Balance(b)' \in Int /\ Balance(b) \in Int
    BY <1>0, <1>8, UnsettledBalance
  <2>3. e \in Nat /\ Balance(b) - HeldByJobs(b) - HeldByTasks(b) >= e
    <3>1. calls[j].estimate \in Nat
      BY DEF IInv, CallsOK, CallRow
    <3>2. Available(calls[j].buyer) >= calls[j].estimate
      BY <1>8 DEF JobReserves, ReserveGate
    <3>3. QED
      BY <1>1, <3>1, <3>2 DEF Available
  <2>4. HeldByTasks(b)' <= HeldByTasks(b)
    BY <1>4, <1>8
  <2> HIDE DEF e
  <2>5. QED
    BY <1>1, <2>1, <2>2, <2>3, <2>4 DEF Available
<1>9. ASSUME NEW t \in Tasks, TaskReserves(t), UNCHANGED <<ledger, jobs>>
      PROVE  Available(b)' >= 0
  <2> DEFINE e == IF b = orders[t].buyer THEN orders[t].estimate ELSE 0
  <2>1. HeldByTasks(b)' <= HeldByTasks(b) + e
    BY <1>0, <1>9, ReservedHoldsTasks
  <2>2. Balance(b)' >= Balance(b) /\ Balance(b)' \in Int /\ Balance(b) \in Int
    BY <1>0, <1>9, UnsettledBalance
  <2>3. e \in Nat /\ Balance(b) - HeldByJobs(b) - HeldByTasks(b) >= e
    <3>1. orders[t].estimate \in Nat
      BY DEF IInv, OrdersOK, OrderRow
    <3>2. Available(orders[t].buyer) >= orders[t].estimate
      BY <1>9 DEF TaskReserves, ReserveTaskGate
    <3>3. QED
      BY <1>1, <3>1, <3>2 DEF Available
  <2>4. HeldByJobs(b)' <= HeldByJobs(b)
    BY <1>3, <1>9
  <2> HIDE DEF e
  <2>5. QED
    BY <1>1, <2>1, <2>2, <2>3, <2>4 DEF Available
<1>10. ASSUME NEW w \in Workers, NEW p \in polls[w], p \in PollRow, TaskClaimed(w, p),
              UNCHANGED <<ledger, jobs>>
       PROVE  Available(b)' >= 0
  BY <1>0, <1>2, <1>3, <1>10, ClaimedHolds
<1>11. QED
  BY <1>5, <1>6, <1>7, <1>8, <1>9, <1>10, StepKinds, LedgerMove

(* No buyer is ever overdrawn: promotional credit minus debits covers every
   reservation in force, whatever the interleaving of reservations,
   settlements, sweeps, cancellations and replays, for any amounts and fee. *)
THEOREM MoneySafe == Spec => []NoOverdraft
<1>1. Init => NoOverdraft
  BY InitMoney
<1>2. IInv /\ NoOverdraft /\ [Next]_vars => NoOverdraft'
  BY NextMoney
<1>3. QED
  BY <1>1, <1>2, AlwaysIInv, PTL DEF Spec

=============================================================================
