------------------------------ MODULE AgentProofs ------------------------------
(***************************************************************************)
(* The two programs on a user's or a supplier's computer: the worker of    *)
(* the supplier agent, for any number of segments and attempts, and the    *)
(* coding agent, for any number of sessions, files and phases.             *)
(***************************************************************************)
EXTENDS AgentRun, ArtifactWorker, FiniteSetTheorems, SequenceTheorems, TLAPS

(***************************************************************************)
(* The worker.  The invariant is about the row r of the task, the worker   *)
(* w, its file d, the call l it gave up on, whether a checkpoint was lost  *)
(* (g) and why it ended the task (c).  The six are parameters: a step of   *)
(* the worker that also moves the row is proved in two halves.             *)
(***************************************************************************)
RowType ==
  [st : {"queued", "leased", "completed", "failed", "cancelled"},
   owner : {"none", "me", "other"}, lease : 0..MaxClaims, attempt : 0..MaxClaims,
   segs : 0..Parts, usage : Nat, live : BOOLEAN, deadline : BOOLEAN, cancel : BOOLEAN]
StateType == [segs : 0..Parts, sums : 0..Parts, usage : Nat]
WorkerType ==
  [pc : {"down", "idle", "claiming", "begin", "run", "write", "acking", "completing", "failing"},
   lease : 0..MaxClaims, resume : 0..Parts, state : StateType, retry : BOOLEAN, pending : BOOLEAN]
DiskType == [segs : 0..Parts, sums : 0..Parts, usage : Nat, readable : BOOLEAN, exists : BOOLEAN]
LateType ==
  [op : {"none", "claiming", "acking", "completing", "failing"}, lease : 0..MaxClaims,
   segs : 0..Parts, usage : Nat, retry : BOOLEAN]

Working == {"begin", "run", "write", "acking", "completing"}
Active == Working \cup {"failing"}
Calling == {"acking", "completing", "failing"}

(* The task is the agent's own and still to be done. *)
Mine(r) == r.owner = "me" /\ r.st \in {"queued", "leased"}

(* A lease is the number of its attempt. *)
RowOK(r) ==
  /\ r.st = "leased" => r.lease = r.attempt /\ r.attempt > 0
  /\ r.st # "leased" => r.lease = 0
  /\ r.st = "queued" => r.attempt < MaxClaims

(* The leases of the worker and of its late call were drawn; a call given up
   is of an older lease than the one the worker works on. *)
LeasesOK(r, w, l) ==
  /\ w.pc \in Active => w.lease > 0 /\ w.lease <= r.attempt
  /\ w.pc \in Active /\ r.lease = w.lease => r.owner = "me"
  /\ l.op \in Calling => l.lease > 0 /\ l.lease <= r.attempt
  /\ l.op \in Calling /\ r.lease = l.lease => r.owner = "me"
  /\ l.op \in Calling /\ w.pc \in Working => l.lease < w.lease

(* What the executor holds is ahead of what the platform knows. *)
StateOK(r, w, d) ==
  /\ w.state.sums <= w.state.segs /\ d.sums <= d.segs
  /\ w.pc = "completing" => w.state.segs = Parts
  /\ w.pc = "begin" /\ w.resume = 0 /\ Mine(r) => r.segs = 0 /\ r.usage = 0
  /\ w.pc = "begin" /\ r.lease = w.lease => r.segs = w.resume
  /\ w.pc \in {"run", "write", "acking", "completing"} /\ Mine(r)
       => w.state.segs >= r.segs /\ w.state.usage >= r.usage
  /\ w.pc = "write" => w.state.usage > 0 /\ (Mine(r) => w.state.usage > r.usage)

(* And so is what the file holds, also when a late report arrives. *)
DiskOK(r, w, d, l) ==
  /\ d.readable => d.exists
  /\ Mine(r) /\ d.readable => d.segs >= r.segs /\ d.usage >= r.usage
  /\ w.pc = "acking" /\ d.readable => d.segs = w.state.segs /\ d.usage = w.state.usage
  /\ l.op = "acking" /\ r.st = "leased" /\ r.lease = l.lease /\ d.readable
       => d.segs >= l.segs /\ d.usage >= l.usage

(* As long as nothing was lost the file, the row and the executor agree. *)
NoGapOK(r, w, d, l, g, c) ==
  ~g =>
    /\ c = "none" /\ l.op # "acking"
    /\ Mine(r) /\ r.segs > 0 /\ w.pc # "acking"
         => d.readable /\ d.segs = r.segs /\ d.usage = r.usage
    /\ w.pc = "acking" => d.readable
    /\ w.pc = "begin" /\ w.resume > 0 => d.readable /\ d.segs = w.resume
    /\ w.pending => r.st = "completed"
    /\ w.pc \in {"run", "completing"} /\ r.lease = w.lease
         => w.state.segs = r.segs /\ w.state.usage = r.usage

Typed(r, w, d, l, g, c) ==
  /\ r \in RowType /\ w \in WorkerType /\ d \in DiskType /\ l \in LateType
  /\ g \in BOOLEAN /\ c \in {"none", "required", "usage"}

WI(r, w, d, l, g, c) ==
  /\ Typed(r, w, d, l, g, c)
  /\ RowOK(r) /\ LeasesOK(r, w, l) /\ StateOK(r, w, d) /\ DiskOK(r, w, d, l) /\ NoGapOK(r, w, d, l, g, c)

WInv == WI(row, worker, disk, late, gap, cause)

LEMMA WInvGives ==
  WInv => WorkerTypeOK /\ DiskIsAhead /\ PaidWorkIsNew /\ ResumeFailsOnlyAfterLoss
<1> SUFFICES ASSUME WInv PROVE WorkerTypeOK /\ DiskIsAhead /\ PaidWorkIsNew /\ ResumeFailsOnlyAfterLoss
  OBVIOUS
<1> USE DEF WInv, WI, Typed
<1>1. WorkerTypeOK
  BY DEF WorkerTypeOK, RowType, WorkerType, StateType, DiskType, LateType
<1>2. DiskIsAhead
  BY DEF DiskIsAhead, DiskOK, Mine
<1>3. PaidWorkIsNew
  <2> SUFFICES ASSUME worker.pc = "write", row.lease = worker.lease PROVE worker.state.usage > row.usage
    BY DEF PaidWorkIsNew
  <2>1. row.lease > 0 /\ row.owner = "me"
    BY DEF LeasesOK, Active, Working
  <2>2. row.st = "leased"
    BY <2>1 DEF RowOK
  <2>3. QED
    BY <2>1, <2>2 DEF StateOK, Mine
<1>4. ResumeFailsOnlyAfterLoss
  BY DEF ResumeFailsOnlyAfterLoss, NoGapOK
<1>5. QED
  BY <1>1, <1>2, <1>3, <1>4

LEMMA AtRest0 ==
  /\ 0 \in 0..Parts /\ 0 \in 0..MaxClaims /\ Fresh \in StateType /\ NoFile \in DiskType
  /\ NoRequest \in LateType /\ Resting \in WorkerType
BY WorkerAssumption DEF StateType, WorkerType, DiskType, LateType, Resting, Fresh, NoFile, NoRequest

LEMMA RestGoes ==
  /\ Resting.pc = "idle" /\ ~Resting.pending /\ Resting.state.sums = 0 /\ Resting.state.segs = 0
  /\ LET v == [Resting EXCEPT !.pending = TRUE]
     IN  v \in WorkerType /\ v.pc = "idle" /\ v.pending /\ v.state.sums = 0 /\ v.state.segs = 0
  /\ LET v == [Resting EXCEPT !.pc = "down"]
     IN  v \in WorkerType /\ v.pc = "down" /\ ~v.pending /\ v.state.sums = 0 /\ v.state.segs = 0
BY AtRest0 DEF Resting, Fresh, WorkerType

LEMMA InitWInv == WorkerInit => WInv
<1> SUFFICES ASSUME WorkerInit PROVE WInv
  OBVIOUS
<1>1. row \in RowType /\ RowOK(row) /\ row.lease = 0 /\ row.segs = 0 /\ row.owner = "none"
  BY AtRest0, WorkerAssumption DEF WorkerInit, RowType, RowOK
<1>2. Typed(row, worker, disk, late, gap, cause)
  BY <1>1, AtRest0, RestGoes DEF WorkerInit, Typed
<1>3. worker.pc = "down" /\ ~worker.pending /\ worker.state.sums <= worker.state.segs
  BY RestGoes DEF WorkerInit
<1>4. QED
  BY <1>1, <1>2, <1>3 DEF WorkerInit, WInv, WI, LeasesOK, StateOK, DiskOK, NoGapOK, Mine,
     NoFile, NoRequest, Active, Working, Calling

---------------------------------------------------------------------------
(* How the row moves. *)

(* The task goes on, waits or ends with the progress it has. *)
Keeps(r, s) ==
  /\ s \in RowType /\ RowOK(s)
  /\ s.attempt = r.attempt /\ s.segs = r.segs /\ s.usage = r.usage
  /\ s.lease = 0 \/ (s.lease = r.lease /\ s.owner = r.owner /\ s.st = r.st)
  /\ Mine(s) => Mine(r)
  /\ r.st = "completed" => s.st = "completed"

(* A claim draws the next lease. *)
Claimed(r, s, who) ==
  /\ s \in RowType /\ s.st = "leased" /\ s.owner = who
  /\ s.attempt = r.attempt + 1 /\ s.lease = s.attempt
  /\ r.st # "completed"
  /\ \/ s.segs = 0 /\ s.usage = 0
     \/ who = "me" => Mine(r) /\ s.segs = r.segs /\ s.usage = r.usage /\ r.segs > 0

(* Another agent works on the task. *)
OtherWorks(r, s) ==
  /\ s \in RowType /\ r.owner = "other" /\ s.owner = "other" /\ r.st = "leased" /\ s.st = "leased"
  /\ s.lease = r.lease /\ s.attempt = r.attempt

LEMMA KeepsWI ==
  ASSUME NEW r, NEW w, NEW d, NEW l, NEW g, NEW c, WI(r, w, d, l, g, c), NEW s, Keeps(r, s)
  PROVE  WI(s, w, d, l, g, c)
<1> USE DEF WI, Keeps
<1>1. Typed(s, w, d, l, g, c) /\ RowOK(s)
  BY DEF Typed
<1>2. r.lease \in Nat /\ s.lease \in Nat /\ w.lease \in Nat /\ l.lease \in Nat
  BY <1>1 DEF Typed, RowType, WorkerType, LateType
<1>3. LeasesOK(s, w, l)
  BY <1>2 DEF LeasesOK, Active
<1>4. StateOK(s, w, d)
  BY <1>2 DEF StateOK, LeasesOK, Active, Working
<1>5. DiskOK(s, w, d, l)
  BY <1>2 DEF DiskOK, LeasesOK, Calling
<1>6. NoGapOK(s, w, d, l, g, c)
  BY <1>2 DEF NoGapOK, LeasesOK, Active, Working
<1>7. QED
  BY <1>1, <1>3, <1>4, <1>5, <1>6

LEMMA ClaimedWI ==
  ASSUME NEW r, NEW w, NEW d, NEW l, NEW g, NEW c, WI(r, w, d, l, g, c),
         NEW who \in {"me", "other"}, NEW s, Claimed(r, s, who)
  PROVE  WI(s, w, d, l, g, c)
<1> USE DEF WI, Claimed
<1>1. Typed(s, w, d, l, g, c)
  BY DEF Typed
<1>2. /\ s.lease \in Nat /\ w.lease \in Nat /\ l.lease \in Nat /\ r.attempt \in Nat /\ s.attempt \in Nat
      /\ w.state.segs \in Nat /\ w.state.usage \in Nat /\ d.segs \in Nat /\ d.usage \in Nat
      /\ r.segs \in Nat /\ r.usage \in Nat
  BY <1>1 DEF Typed, RowType, WorkerType, StateType, LateType, DiskType
<1>3. RowOK(s)
  BY <1>2 DEF RowOK
<1>4. LeasesOK(s, w, l) /\ (w.pc \in Active => w.lease < s.lease) /\ (l.op \in Calling => l.lease < s.lease)
  BY <1>2 DEF LeasesOK
<1>5. StateOK(s, w, d)
  BY <1>2, <1>4 DEF StateOK, Active, Working, Mine
<1>6. DiskOK(s, w, d, l)
  BY <1>2, <1>4 DEF DiskOK, Calling, Mine
<1>7. NoGapOK(s, w, d, l, g, c)
  BY <1>2, <1>4 DEF NoGapOK, Active, Working, Mine
<1>8. QED
  BY <1>1, <1>3, <1>4, <1>5, <1>6, <1>7

LEMMA OtherWorksWI ==
  ASSUME NEW r, NEW w, NEW d, NEW l, NEW g, NEW c, WI(r, w, d, l, g, c), NEW s, OtherWorks(r, s)
  PROVE  WI(s, w, d, l, g, c)
BY DEF WI, OtherWorks, Typed, RowOK, LeasesOK, StateOK, DiskOK, NoGapOK, Mine, Active, Working, Calling

(* The rows the operators of the control plane return. *)
LEMMA SweptFacts ==
  ASSUME row \in RowType, RowOK(row)
  PROVE  /\ Keeps(row, Swept)
         /\ Swept.st = "queued" => row.st \in {"queued", "leased"} /\ (Swept.owner = "me" => Mine(row))
         /\ Swept.st = "leased" => Swept = row
<1>1. CASE row.st # "leased" \/ row.live
  BY <1>1 DEF Swept, Keeps, Mine
<1>2. CASE ~(row.st # "leased" \/ row.live) /\ row.cancel
  BY <1>2, AtRest0 DEF Swept, Keeps, Mine, RowType, RowOK
<1>3. CASE ~(row.st # "leased" \/ row.live) /\ ~row.cancel /\ row.attempt < MaxClaims
  BY <1>3, AtRest0 DEF Swept, Keeps, Mine, RowType, RowOK
<1>4. CASE ~(row.st # "leased" \/ row.live) /\ ~row.cancel /\ ~(row.attempt < MaxClaims)
  BY <1>4, AtRest0 DEF Swept, Keeps, Mine, RowType, RowOK
<1>5. QED
  BY <1>1, <1>2, <1>3, <1>4

LEMMA LeasedFacts ==
  ASSUME row \in RowType, RowOK(row), NEW who \in {"me", "other"}, Swept.st = "queued"
  PROVE  /\ Claimed(row, Leased(who), who)
         /\ Leased(who).lease = row.attempt + 1 /\ Swept.attempt = row.attempt
         /\ Leased(who).segs = ResumePoint(who) /\ ResumePoint(who) \in 0..Parts
         /\ ResumePoint("me") > 0 => Mine(row) /\ row.segs = ResumePoint("me")
<1> DEFINE s == Swept
           p == ResumePoint(who)
           t == [s EXCEPT !.st = "leased", !.owner = who, !.attempt = @ + 1, !.lease = s.attempt + 1,
                          !.live = TRUE, !.deadline = FALSE, !.segs = p,
                          !.usage = IF p = 0 THEN 0 ELSE @]
<1>1. /\ s \in RowType /\ s.attempt = row.attempt /\ s.segs = row.segs /\ s.usage = row.usage
      /\ s.attempt < MaxClaims /\ row.st \in {"queued", "leased"} /\ (s.owner = "me" => Mine(row))
  BY SweptFacts DEF Keeps, RowOK
<1>2. p \in 0..Parts /\ p = IF s.owner = who THEN s.segs ELSE 0
  BY <1>1, AtRest0 DEF ResumePoint, RowType
<1>3. ResumePoint("me") > 0 => Mine(row) /\ row.segs = ResumePoint("me")
  BY <1>1 DEF ResumePoint
<1>4. t = Leased(who)
  BY DEF Leased
<1> HIDE DEF s, p
<1>5. /\ t \in RowType /\ t.st = "leased" /\ t.owner = who /\ t.attempt = s.attempt + 1
      /\ t.lease = s.attempt + 1 /\ t.segs = p /\ t.usage = IF p = 0 THEN 0 ELSE s.usage
  <2>1. s \in RowType /\ s.attempt < MaxClaims /\ p \in 0..Parts
    BY <1>1, <1>2
  <2>2. QED
    <3> DEFINE n == s.attempt + 1
               u == IF p = 0 THEN 0 ELSE s.usage
    <3>1. n \in 0..MaxClaims /\ u \in Nat
      BY <2>1, WorkerAssumption DEF RowType
    <3>2. t = [s EXCEPT !.st = "leased", !.owner = who, !.attempt = n, !.lease = n, !.live = TRUE,
                        !.deadline = FALSE, !.segs = p, !.usage = u]
      OBVIOUS
    <3> HIDE DEF n, u, t
    <3>3. t \in RowType /\ t.st = "leased" /\ t.owner = who /\ t.attempt = n /\ t.lease = n
          /\ t.segs = p /\ t.usage = u
      BY <2>1, <3>1, <3>2 DEF RowType
    <3>4. QED
      BY <3>3 DEF n, u
<1>6. row.attempt \in Nat /\ row.segs \in Nat
  BY DEF RowType
<1> HIDE DEF t
<1>7. Claimed(row, t, who)
  BY <1>1, <1>2, <1>5, <1>6 DEF Claimed
<1>8. QED
  BY <1>1, <1>2, <1>3, <1>4, <1>5, <1>7 DEF s, p

(* A call that arrives: its report is taken, or the task keeps its progress. *)
LEMMA RowAfterFacts ==
  ASSUME row \in RowType, RowOK(row), NEW c, c.segs \in 0..Parts, c.usage \in Nat,
         c.op = "acking" => c.lease > 0
  PROVE  /\ \/ Keeps(row, RowAfter(c))
            \/ /\ Verdict(c) = "ok" /\ c.op = "acking" /\ row.lease = c.lease
               /\ RowAfter(c) = [row EXCEPT !.segs = c.segs, !.usage = c.usage]
         /\ Verdict(c) = "ok" => row.st = "leased" /\ row.lease = c.lease
         /\ Verdict(c) = "ok" /\ c.op = "completing" => RowAfter(c).st = "completed"
         /\ Verdict(c) = "ok" /\ c.op = "acking" => RowAfter(c) = [row EXCEPT !.segs = c.segs, !.usage = c.usage]
<1>1. Verdict(c) = "ok" => LeaseHeld(c) /\ row.st = "leased" /\ row.lease = c.lease /\ ~row.cancel
  BY DEF Verdict, LeaseHeld
<1>2. CASE row.cancel /\ row.st = "leased" /\ row.lease = c.lease
  BY <1>1, <1>2, AtRest0 DEF RowAfter, Keeps, Mine, RowType, RowOK
<1>3. CASE ~row.cancel /\ Verdict(c) = "ok" /\ c.op = "acking"
  BY <1>1, <1>3 DEF RowAfter
<1>4. CASE ~row.cancel /\ Verdict(c) = "ok" /\ c.op = "completing"
  BY <1>1, <1>4, AtRest0 DEF RowAfter, Keeps, Mine, RowType, RowOK
<1>5. CASE ~row.cancel /\ Verdict(c) = "ok" /\ c.op = "failing"
  BY <1>1, <1>5, AtRest0 DEF RowAfter, Keeps, Mine, RowType, RowOK
<1>6. CASE ~(row.cancel /\ row.st = "leased" /\ row.lease = c.lease)
           /\ ~(Verdict(c) = "ok" /\ c.op \in {"acking", "completing", "failing"})
  <2>1. RowAfter(c) = row
    BY <1>6 DEF RowAfter
  <2>2. QED
    BY <1>1, <1>6, <2>1 DEF Keeps
<1>7. QED
  BY <1>1, <1>2, <1>3, <1>4, <1>5, <1>6

(* A round of the reduction leaves at least one summary and not more of them. *)
LEMMA ReducedFacts ==
  ASSUME NEW n \in 0..Parts, n > 1
  PROVE  Reduced(n) \in Nat /\ Reduced(n) > 0 /\ Reduced(n) <= n
<1>1. n \in Nat /\ n >= 2 /\ Fan \in Nat /\ Fan >= 2
  BY WorkerAssumption
<1> DEFINE q == (n + Fan - 1) \div Fan
<1>2. q \in Int /\ q * Fan <= n + Fan - 1 /\ n + Fan - 1 < (q + 1) * Fan
  BY <1>1, SMTT(60)
<1>3. q > 0
  BY <1>1, <1>2, SMTT(60)
<1>4. q <= n
  BY <1>1, <1>2, SMTT(60)
<1>5. QED
  BY <1>2, <1>3, <1>4 DEF Reduced

---------------------------------------------------------------------------
(* The control plane and the other agent. *)

LEMMA RowTyped == ASSUME WInv PROVE row \in RowType /\ RowOK(row)
BY DEF WInv, WI, Typed

LEMMA ControlMoves ==
  ASSUME WInv, LeaseRunsOut \/ OtherClaims \/ OtherReports \/ TaskCancelled
  PROVE  WInv'
<1>0. row \in RowType /\ RowOK(row) /\ WI(row, worker, disk, late, gap, cause)
  BY RowTyped DEF WInv
<1>1. ASSUME Keeps(row, row') \/ Claimed(row, row', "other") \/ OtherWorks(row, row'),
             UNCHANGED <<worker, disk, late, gap, cause>>
      PROVE  WInv'
  BY <1>0, <1>1, KeepsWI, ClaimedWI, OtherWorksWI DEF WInv
<1>2. CASE LeaseRunsOut
  <2>1. Keeps(row, row')
    BY <1>0, <1>2 DEF LeaseRunsOut, Keeps, RowType, RowOK, Mine
  <2>2. QED
    BY <1>1, <1>2, <2>1 DEF LeaseRunsOut
<1>3. CASE OtherClaims
  <2>1. Claimed(row, row', "other")
    BY <1>0, <1>3, LeasedFacts DEF OtherClaims
  <2>2. QED
    BY <1>1, <1>3, <2>1 DEF OtherClaims
<1>4. CASE OtherReports
  <2>1. ASSUME NEW k \in (row.segs + 1)..Parts, row' = [row EXCEPT !.segs = k, !.usage = k]
        PROVE  OtherWorks(row, row')
    <3>1. k \in 0..Parts /\ k \in Nat
      BY <1>0, WorkerAssumption DEF RowType
    <3>2. row.owner = "other" /\ row.st = "leased"
      BY <1>4 DEF OtherReports
    <3>3. /\ row' \in RowType /\ row'.st = row.st
          /\ row'.owner = row.owner /\ row'.lease = row.lease /\ row'.attempt = row.attempt
      BY <1>0, <2>1, <3>1 DEF RowType
    <3>4. QED
      BY <3>2, <3>3 DEF OtherWorks
  <2>2. ASSUME \/ row' = [row EXCEPT !.st = "completed", !.lease = 0]
               \/ row.attempt < MaxClaims /\ row' = [row EXCEPT !.st = "queued", !.lease = 0]
               \/ row' = [row EXCEPT !.st = "failed", !.lease = 0]
        PROVE  Keeps(row, row')
    BY <1>0, <1>4, <2>2, AtRest0 DEF OtherReports, Keeps, RowType, RowOK, Mine
  <2>3. QED
    BY <1>1, <1>4, <2>1, <2>2 DEF OtherReports
<1>5. CASE TaskCancelled
  <2>1. Keeps(row, row')
    BY <1>0, <1>5 DEF TaskCancelled, Keeps, RowType, RowOK, Mine
  <2>2. QED
    BY <1>1, <1>5, <2>1 DEF TaskCancelled
<1>6. QED
  BY <1>2, <1>3, <1>4, <1>5

(* A late report is of the lease before the one the worker works on. *)
LEMMA LateAckWI ==
  ASSUME NEW r, NEW w, NEW d, NEW l, NEW g, NEW c, WI(r, w, d, l, g, c),
         l.op = "acking", r.st = "leased", r.lease = l.lease,
         NEW s, s = [r EXCEPT !.segs = l.segs, !.usage = l.usage]
  PROVE  WI(s, w, d, l, g, c)
<1> USE DEF WI
<1>1. /\ s \in RowType /\ RowOK(s) /\ s.segs = l.segs /\ s.usage = l.usage /\ s.st = r.st
      /\ s.owner = r.owner /\ s.lease = r.lease /\ s.attempt = r.attempt
  <2>1. r \in RowType /\ RowOK(r) /\ l.segs \in 0..Parts /\ l.usage \in Nat
    BY DEF Typed, LateType
  <2>2. QED
    BY <2>1 DEF RowType, RowOK
<1>2. /\ r.lease \in Nat /\ r.attempt \in Nat /\ w.lease \in Nat /\ r.lease = r.attempt
      /\ w.state.segs \in Nat /\ d.segs \in Nat /\ l.segs \in Nat
  BY DEF Typed, RowType, WorkerType, StateType, DiskType, LateType, RowOK
<1>3. w.pc \notin Working /\ g /\ r.owner = "me"
  BY <1>2 DEF LeasesOK, NoGapOK, Typed, Calling, Active
<1>4. LeasesOK(s, w, l) /\ StateOK(s, w, d)
  BY <1>1, <1>3 DEF LeasesOK, StateOK, Working
<1>5. DiskOK(s, w, d, l) /\ NoGapOK(s, w, d, l, g, c)
  BY <1>1, <1>3 DEF DiskOK, NoGapOK, Mine
<1>6. QED
  BY <1>1, <1>4, <1>5 DEF Typed

LEMMA NoLateWI ==
  ASSUME NEW r, NEW w, NEW d, NEW l, NEW g, NEW c, WI(r, w, d, l, g, c)
  PROVE  WI(r, w, d, NoRequest, g, c)
BY AtRest0 DEF WI, Typed, LeasesOK, DiskOK, NoGapOK, NoRequest, Calling

LEMMA LateMoves == ASSUME WInv, LateArrival PROVE WInv'
<1>0. row \in RowType /\ RowOK(row) /\ WI(row, worker, disk, late, gap, cause) /\ late \in LateType
  BY RowTyped DEF WInv, WI, Typed
<1>1. WI(row', worker, disk, late, gap, cause)
  <2>1. CASE late.op = "claiming"
    <3>1. (row' = Leased("me") /\ Swept.st = "queued") \/ row' = Swept
      BY <2>1 DEF LateArrival
    <3>2. QED
      BY <1>0, <3>1, LeasedFacts, SweptFacts, KeepsWI, ClaimedWI
  <2>2. CASE late.op # "claiming"
    <3>1. late.segs \in 0..Parts /\ late.usage \in Nat /\ (late.op = "acking" => late.lease > 0)
          /\ row' = RowAfter(late)
      BY <1>0, <2>2 DEF LateType, WI, LeasesOK, Calling, LateArrival
    <3>2. CASE Keeps(row, row')
      BY <1>0, <3>2, KeepsWI
    <3>3. CASE late.op = "acking" /\ Verdict(late) = "ok"
      BY <1>0, <3>1, <3>3, RowAfterFacts, LateAckWI
    <3>4. QED
      BY <1>0, <3>1, <3>2, <3>3, RowAfterFacts
  <2>3. QED
    BY <2>1, <2>2
<1>2. QED
  BY <1>1, NoLateWI DEF LateArrival, WInv

---------------------------------------------------------------------------
(* The worker. *)

(* The worker rests, waits for a claim, dies or gives the task up: w becomes
   v, the file stays or is removed, and its call may have been given up. *)
LEMMA RestsWI ==
  ASSUME NEW r, NEW w, NEW d, NEW l, NEW g, NEW c, WI(r, w, d, l, g, c),
         NEW v \in WorkerType, v.pc \in {"idle", "down", "claiming", "failing"},
         v.state.sums <= v.state.segs,
         v.pc = "failing" => w.pc \in Active /\ v.lease = w.lease,
         NEW e \in {d, NoFile},
         NEW k \in LateType,
         \/ k = l \/ k.op = "claiming"
         \/ k.op \in Calling /\ k.op = w.pc /\ k.lease = w.lease /\ k.segs = w.state.segs
              /\ k.usage = w.state.usage,
         NEW b \in {"none", "required", "usage"}, NEW h \in BOOLEAN, g => h,
         ~h => /\ w.pc # "acking" /\ k.op # "acking" /\ b = "none"
               /\ v.pending => r.st = "completed"
               /\ e # d => ~(Mine(r) /\ r.segs > 0)
  PROVE  WI(r, v, e, k, h, b)
<1> USE DEF WI
<1>1. NoFile \in DiskType /\ ~NoFile.readable /\ NoFile.sums <= NoFile.segs
  BY AtRest0 DEF NoFile
<1>2. Typed(r, v, e, k, h, b)
  BY <1>1 DEF Typed
<1>3. v.pc \notin Working /\ v.pc \notin {"begin", "run", "write", "acking", "completing"}
  BY DEF Working
<1>4. LeasesOK(r, v, k)
  <2>1. v.pc \in Active => v.lease = w.lease /\ w.pc \in Active
    BY <1>3 DEF Active, Working
  <2>2. k = l \/ k.op \notin Calling \/ (k.lease = w.lease /\ w.pc \in Active)
    BY DEF Active, Working, Calling
  <2>3. QED
    BY <1>3, <2>1, <2>2 DEF LeasesOK
<1>5. StateOK(r, v, e)
  <2>1. e.sums <= e.segs
    BY <1>1 DEF StateOK
  <2>2. QED
    BY <1>3, <2>1 DEF StateOK
<1>6. DiskOK(r, v, e, k)
  <2>1. CASE k = l \/ k.op # "acking"
    BY <1>1, <1>3, <2>1 DEF DiskOK
  <2>2. CASE w.pc = "acking" /\ k.segs = w.state.segs /\ k.usage = w.state.usage
    BY <1>1, <1>2, <1>3, <2>2 DEF DiskOK, Typed, LateType
  <2>3. QED
    BY <2>1, <2>2
<1>7. NoGapOK(r, v, e, k, h, b)
  BY <1>3 DEF NoGapOK
<1>8. QED
  BY <1>2, <1>4, <1>5, <1>6, <1>7

(* What the worker sends. *)
LEMMA RequestFacts ==
  ASSUME worker \in WorkerType
  PROVE  /\ Request.op = worker.pc /\ Request.lease = worker.lease
         /\ Request.segs = worker.state.segs /\ Request.usage = worker.state.usage
         /\ Request.segs \in 0..Parts /\ Request.usage \in Nat
         /\ worker.pc \in {"claiming", "acking", "completing", "failing"} => Request \in LateType
         /\ Download.op = "download" /\ Download.lease = worker.lease
         /\ Download.segs \in 0..Parts /\ Download.usage \in Nat
<1>1. Request.retry \in BOOLEAN
  BY DEF Request, WorkerType
<1>2. QED
  BY <1>1 DEF Request, Download, WorkerType, StateType, LateType

LEMMA MovedFacts ==
  ASSUME worker \in WorkerType,
         NEW pc \in {"down", "idle", "claiming", "begin", "run", "write", "acking", "completing", "failing"}
  PROVE  /\ Moved(pc) \in WorkerType /\ Moved(pc).pc = pc /\ Moved(pc).lease = worker.lease
         /\ Moved(pc).resume = worker.resume /\ Moved(pc).state = worker.state
         /\ Moved(pc).retry = worker.retry /\ Moved(pc).pending = worker.pending
BY DEF Moved, WorkerType

LEMMA FailingFacts ==
  ASSUME worker \in WorkerType, NEW retry \in BOOLEAN
  PROVE  /\ Failing(retry) \in WorkerType /\ Failing(retry).pc = "failing"
         /\ Failing(retry).lease = worker.lease /\ Failing(retry).state = worker.state
         /\ Failing(retry).pending = worker.pending
BY DEF Failing, WorkerType

(* The parts of the invariant the steps of the worker use. *)
LEMMA WorkerFacts ==
  ASSUME WInv
  PROVE  /\ WI(row, worker, disk, late, gap, cause)
         /\ row \in RowType /\ worker \in WorkerType /\ disk \in DiskType /\ late \in LateType
         /\ gap \in BOOLEAN /\ cause \in {"none", "required", "usage"}
         /\ worker.state.sums <= worker.state.segs /\ worker.state \in StateType
         /\ ~gap => /\ late.op # "acking" /\ cause = "none"
                    /\ worker.pending => row.st = "completed"
                    /\ Mine(row) /\ row.segs > 0 /\ worker.pc # "acking" => disk.readable
<1>1. WI(row, worker, disk, late, gap, cause) /\ Typed(row, worker, disk, late, gap, cause)
  BY DEF WInv, WI
<1>2. worker.state.sums <= worker.state.segs /\ worker.state \in StateType
  BY <1>1 DEF WI, Typed, StateOK, WorkerType
<1>3. ~gap => /\ late.op # "acking" /\ cause = "none"
              /\ worker.pending => row.st = "completed"
              /\ Mine(row) /\ row.segs > 0 /\ worker.pc # "acking" => disk.readable
  BY <1>1 DEF WI, NoGapOK
<1>4. QED
  BY <1>1, <1>2, <1>3 DEF Typed

(* A task the worker gives up for now or for good, its row left alone or moved. *)
LEMMA GivesUp ==
  ASSUME WInv, worker.pc \in Active, NEW s, Keeps(row, s), NEW retry \in BOOLEAN,
         NEW k, k = late \/ (k = Request /\ worker.pc \in {"acking", "completing"}),
         NEW b \in {"none", "required", "usage"}, NEW h \in BOOLEAN, gap => h,
         NEW e \in {disk, NoFile}, e # disk => h,
         ~h => worker.pc # "acking" /\ k.op # "acking" /\ b = "none"
  PROVE  WI(s, Failing(retry), e, k, h, b)
<1>1. WI(s, worker, disk, late, gap, cause)
  BY WorkerFacts, KeepsWI
<1>2. k \in LateType
  BY WorkerFacts, RequestFacts
<1>3. ~h => (worker.pending => s.st = "completed")
  BY WorkerFacts DEF Keeps
<1> DEFINE v == Failing(retry)
<1>4. /\ v \in WorkerType /\ v.pc = "failing" /\ v.lease = worker.lease /\ v.state = worker.state
      /\ v.pending = worker.pending /\ v.state.sums <= v.state.segs
  BY WorkerFacts, FailingFacts
<1>5. \/ k = late \/ k.op = "claiming"
      \/ k.op \in Calling /\ k.op = worker.pc /\ k.lease = worker.lease /\ k.segs = worker.state.segs
           /\ k.usage = worker.state.usage
  BY WorkerFacts, RequestFacts DEF Calling
<1> HIDE DEF v
<1>6. WI(s, v, e, k, h, b)
  BY <1>1, <1>2, <1>3, <1>4, <1>5, RestsWI
<1>7. QED
  BY <1>6 DEF v


LEMMA KeepsItself == ASSUME WInv PROVE Keeps(row, row)
BY RowTyped DEF Keeps

(* The steps that end in a task given up. *)
LEMMA GivingUpMoves ==
  ASSUME WInv, BeginDiskFails \/ ExecutionFails \/ DownloadRefused \/ WriteFails \/ CheckpointLost
                 \/ CompletionLost
  PROVE  WInv'
<1> USE WorkerFacts, RequestFacts, KeepsItself
<1>1. CASE BeginDiskFails
  <2>1. WI(row, Failing(FALSE), disk, late, gap, cause)
    BY <1>1, GivesUp DEF BeginDiskFails, Active, Working
  <2>2. QED
    BY <1>1, <2>1 DEF BeginDiskFails, WInv
<1>2. CASE ExecutionFails
  <2>1. PICK retry \in BOOLEAN : worker' = Failing(retry)
    BY <1>2 DEF ExecutionFails
  <2>2. WI(row, Failing(retry), disk, late, gap, cause)
    BY <1>2, GivesUp DEF ExecutionFails, Active, Working
  <2>3. QED
    BY <1>2, <2>1, <2>2 DEF ExecutionFails, WInv
<1>3. CASE DownloadRefused
  <2> DEFINE retry == Verdict(Download) = "retry"
  <2>1. Keeps(row, row')
    BY <1>3, RowTyped, RowAfterFacts DEF DownloadRefused
  <2>2. WI(row', Failing(retry), disk, late, gap, cause)
    BY <1>3, <2>1, GivesUp DEF DownloadRefused, Active, Working
  <2>3. QED
    BY <1>3, <2>2 DEF DownloadRefused, WInv
<1>4. CASE WriteFails
  <2>1. WI(row, Failing(FALSE), disk, late, gap, cause)
    BY <1>4, GivesUp DEF WriteFails, Active, Working
  <2>2. QED
    BY <1>4, <2>1 DEF WriteFails, WInv
<1>5. CASE CheckpointLost
  <2>1. WI(row, Failing(TRUE), disk, Request, TRUE, cause)
    BY <1>5, GivesUp DEF CheckpointLost, Active, Working
  <2>2. QED
    BY <1>5, <2>1 DEF CheckpointLost, WInv
<1>6. CASE CompletionLost
  <2>1. WI(row, Failing(TRUE), disk, Request, gap, cause)
    BY <1>6, GivesUp DEF CompletionLost, Active, Working
  <2>2. QED
    BY <1>6, <2>1 DEF CompletionLost, WInv
<1>7. QED
  BY <1>1, <1>2, <1>3, <1>4, <1>5, <1>6

(* The steps between two tasks. *)
LEMMA RestingMoves ==
  ASSUME WInv, WorkerStart \/ PollOnce \/ ClaimLost \/ WorkerEnds
  PROVE  WInv'
<1>0. /\ WI(row, worker, disk, late, gap, cause) /\ worker \in WorkerType /\ NoFile \in {disk, NoFile}
      /\ disk.readable => disk.exists
  BY WorkerFacts DEF WI, DiskOK
<1> USE WorkerFacts, RequestFacts
<1>1. CASE WorkerStart
  <2>1. WI(row, Resting, disk, late, gap, cause)
    BY <1>0, <1>1, AtRest0, RestGoes, RestsWI DEF WorkerStart
  <2>2. QED
    BY <1>1, <2>1 DEF WorkerStart, WInv
<1>2. CASE PollOnce
  <2> DEFINE v == [worker EXCEPT !.pc = "claiming", !.pending = FALSE]
             e == IF worker.pending THEN NoFile ELSE Cleaned
  <2>1. v \in WorkerType /\ v.pc = "claiming" /\ v.state = worker.state /\ v.pending = FALSE
    BY DEF WorkerType
  <2>2. e \in {disk, NoFile} /\ (~gap => (e # disk => ~(Mine(row) /\ row.segs > 0)))
    BY <1>2 DEF Cleaned, PollOnce, Mine
  <2>3. worker.pc = "idle" /\ worker' = v /\ disk' = e /\ UNCHANGED <<row, late, gap, cause>>
    BY <1>2 DEF PollOnce
  <2> HIDE DEF v, e
  <2>4. WI(row, v, e, late, gap, cause)
    BY <1>0, <2>1, <2>2, <2>3, RestsWI
  <2>5. QED
    BY <2>3, <2>4 DEF WInv
<1>3. CASE ClaimLost
  <2> DEFINE v == Moved("idle")
  <2>1. v \in WorkerType /\ v.pc = "idle" /\ v.state = worker.state /\ v.pending = worker.pending
    BY MovedFacts
  <2>2. worker.pc = "claiming" /\ worker' = v /\ late' = Request /\ UNCHANGED <<row, disk, gap, cause>>
    BY <1>3 DEF ClaimLost
  <2> HIDE DEF v
  <2>3. WI(row, v, disk, Request, gap, cause)
    BY <1>0, <2>1, <2>2, RestsWI
  <2>4. QED
    BY <2>2, <2>3 DEF WInv
<1>4. CASE WorkerEnds
  <2> DEFINE v == [Resting EXCEPT !.pc = "down"]
             k == IF worker.pc \in {"claiming", "acking", "completing", "failing"} THEN Request ELSE late
             h == gap \/ worker.pc = "acking" \/ (disk.exists /\ ~disk'.exists)
  <2>1. v \in WorkerType /\ v.pc = "down" /\ ~v.pending /\ v.state.sums <= v.state.segs
    BY RestGoes
  <2>2. /\ k \in LateType
        /\ \/ k = late \/ k.op = "claiming"
           \/ k.op \in Calling /\ k.op = worker.pc /\ k.lease = worker.lease
                /\ k.segs = worker.state.segs /\ k.usage = worker.state.usage
        /\ ~h => k.op # "acking"
    BY DEF Calling
  <2>3. /\ disk' \in {disk, NoFile} /\ worker' = v /\ late' = k /\ gap' = h /\ UNCHANGED <<row, cause>>
        /\ h \in BOOLEAN /\ (gap => h)
    BY <1>4 DEF WorkerEnds
  <2>4. ~h => /\ worker.pc # "acking" /\ cause = "none"
              /\ disk' # disk => ~(Mine(row) /\ row.segs > 0)
    BY <1>0, <2>3 DEF NoFile
  <2> HIDE DEF v, k, h
  <2>5. WI(row, v, disk', k, h, cause)
    BY <1>0, <2>1, <2>2, <2>3, <2>4, RestsWI
  <2>6. QED
    BY <2>3, <2>5 DEF WInv
<1>5. QED
  BY <1>1, <1>2, <1>3, <1>4


(* A claim answered with the task: the file is the one the row expects. *)
LEMMA ClaimMoves == ASSUME WInv, ClaimAnswered PROVE WInv'
<1> USE WorkerFacts
<1>0. WI(row, worker, disk, late, gap, cause) /\ RowOK(row) /\ worker.pc = "claiming"
      /\ UNCHANGED <<disk, late, gap, cause>>
  BY RowTyped DEF ClaimAnswered
<1>1. CASE row' = Swept /\ worker' = Moved("idle")
  <2> DEFINE v == Moved("idle")
  <2>1. Keeps(row, row') /\ WI(row', worker, disk, late, gap, cause)
    BY <1>0, <1>1, SweptFacts, KeepsWI
  <2>2. v \in WorkerType /\ v.pc = "idle" /\ v.state = worker.state /\ v.pending = worker.pending
    BY MovedFacts
  <2>3. ~gap => (worker.pending => row'.st = "completed")
    BY <2>1 DEF Keeps
  <2> HIDE DEF v
  <2>4. WI(row', v, disk, late, gap, cause)
    BY <1>0, <2>1, <2>2, <2>3, RestsWI
  <2>5. QED
    BY <1>0, <1>1, <2>4 DEF WInv, v
<1>2. CASE /\ Swept.st = "queued" /\ row' = Leased("me")
           /\ worker' = [worker EXCEPT !.pc = "begin", !.lease = Swept.attempt + 1,
                                       !.resume = ResumePoint("me")]
  <2> DEFINE s == Leased("me")
  <2>1. /\ Claimed(row, s, "me") /\ s.lease = row.attempt + 1 /\ Swept.attempt = row.attempt
        /\ s.segs = ResumePoint("me") /\ ResumePoint("me") \in 0..Parts
    BY <1>0, <1>2, LeasedFacts
  <2> HIDE DEF s
  <2>2. WI(s, worker, disk, late, gap, cause)
    BY <1>0, <2>1, ClaimedWI
  <2>3. /\ s \in RowType /\ s.lease \in 0..MaxClaims /\ s.lease \in Nat /\ row.attempt \in Nat
        /\ s.lease = s.attempt
    BY <2>1 DEF Claimed, RowType
  <2>4. /\ worker' \in WorkerType /\ worker'.pc = "begin" /\ worker'.lease = s.lease
        /\ worker'.resume = s.segs /\ worker'.state = worker.state /\ worker'.pending = worker.pending
    BY <1>2, <2>1, <2>3 DEF WorkerType
  <2>5. late.op \in Calling => late.lease < s.lease
    BY <1>0, <2>1, <2>3 DEF WI, LeasesOK, LateType
  <2>6. LeasesOK(s, worker', late)
    BY <2>1, <2>2, <2>3, <2>4, <2>5 DEF LeasesOK, WI, Claimed, Active
  <2>7. StateOK(s, worker', disk)
    BY <2>1, <2>2, <2>4 DEF StateOK, WI, Claimed
  <2>8. DiskOK(s, worker', disk, late)
    BY <2>2, <2>4 DEF DiskOK, WI
  <2>9. NoGapOK(s, worker', disk, late, gap, cause)
    BY <1>0, <2>1, <2>2, <2>4 DEF NoGapOK, WI, Claimed, Mine
  <2>10. QED
    BY <1>0, <1>2, <2>2, <2>4, <2>6, <2>7, <2>8, <2>9 DEF WInv, WI, Typed, s
<1>3. QED
  BY <1>1, <1>2 DEF ClaimAnswered

(* A report that is taken: the platform knows what the executor knows. *)
LEMMA CheckpointMoves == ASSUME WInv, CheckpointAnswered PROVE WInv'
<1> USE WorkerFacts, RequestFacts
<1>0. /\ WI(row, worker, disk, late, gap, cause) /\ RowOK(row) /\ worker.pc = "acking"
      /\ row' = RowAfter(Request) /\ UNCHANGED <<disk, late, cause>> /\ Request.lease > 0
  BY RowTyped DEF CheckpointAnswered, WI, LeasesOK, Active, Working
<1>1. CASE Verdict(Request) # "ok"
  <2> DEFINE retry == Verdict(Request) = "retry"
  <2>1. Keeps(row, row') /\ worker' = Failing(retry) /\ gap' = TRUE
    BY <1>0, <1>1, RowAfterFacts DEF CheckpointAnswered
  <2>2. WI(row', Failing(retry), disk, late, TRUE, cause)
    BY <1>0, <2>1, GivesUp DEF Active, Working
  <2>3. QED
    BY <1>0, <2>1, <2>2 DEF WInv
<1>2. CASE Verdict(Request) = "ok"
  <2>1. /\ row' = [row EXCEPT !.segs = worker.state.segs, !.usage = worker.state.usage]
        /\ row.st = "leased" /\ row.lease = worker.lease /\ worker' = Moved("run") /\ gap' = gap
    <3>1. gap' = (gap \/ FALSE) /\ gap \in BOOLEAN /\ worker' = Moved("run")
      BY <1>2 DEF CheckpointAnswered
    <3>2. Request.op = "acking" /\ row.st = "leased" /\ row.lease = Request.lease
      BY <1>0, <1>2, RowAfterFacts
    <3>3. row' = [row EXCEPT !.segs = Request.segs, !.usage = Request.usage]
      BY <1>0, <1>2, <3>2, RowAfterFacts
    <3>4. QED
      BY <3>1, <3>2, <3>3
  <2>2. /\ row' \in RowType /\ RowOK(row') /\ row'.segs = worker.state.segs
        /\ row'.usage = worker.state.usage /\ row'.st = row.st
        /\ row'.owner = row.owner /\ row'.lease = row.lease /\ row'.attempt = row.attempt
    BY <1>0, <2>1 DEF RowType, RowOK, StateType
  <2>3. /\ worker' \in WorkerType /\ worker'.pc = "run" /\ worker'.lease = worker.lease
        /\ worker'.resume = worker.resume /\ worker'.state = worker.state
        /\ worker'.pending = worker.pending
    BY <2>1, MovedFacts
  <2>4. late.op \in Calling => late.lease # row.lease
    BY <1>0, <2>1 DEF WI, LeasesOK, Working, LateType, RowType
  <2>5. LeasesOK(row', worker', late)
    BY <1>0, <2>2, <2>3 DEF LeasesOK, WI, Active, Working
  <2>6. StateOK(row', worker', disk)
    BY <1>0, <2>2, <2>3 DEF StateOK, WI, StateType
  <2>7. DiskOK(row', worker', disk, late)
    BY <1>0, <2>2, <2>3, <2>4 DEF DiskOK, WI, Calling, StateType
  <2>8. NoGapOK(row', worker', disk, late, gap, cause)
    <3> SUFFICES ASSUME ~gap PROVE NoGapOK(row', worker', disk, late, gap, cause)
      BY DEF NoGapOK
    <3>1. ~worker.pending /\ late.op # "acking" /\ cause = "none" /\ disk.readable
      BY <1>0, <2>1 DEF NoGapOK, WI
    <3>2. disk.segs = worker.state.segs /\ disk.usage = worker.state.usage
      BY <1>0, <3>1 DEF DiskOK, WI
    <3>3. QED
      BY <2>2, <2>3, <3>1, <3>2 DEF NoGapOK
  <2>9. QED
    BY <1>0, <2>1, <2>2, <2>3, <2>5, <2>6, <2>7, <2>8 DEF WInv, WI, Typed
<1>3. QED
  BY <1>1, <1>2

(* The checkpoint of a task that ended is removed, or its removal is owed. *)
LEMMA RemovedWI ==
  ASSUME WInv, NEW s, WI(s, worker, disk, late, gap, cause), RemovedOrQueued,
         NEW k \in LateType,
         k = late \/ (k.op = "failing" /\ k = Request),
         NEW h \in BOOLEAN, gap => h,
         ~h => /\ worker.pc # "acking"
               /\ disk.exists => s.st = "completed"
  PROVE  WI(s, worker', disk', k, h, cause)
<1> USE WorkerFacts, RequestFacts
<1>1. k = late \/ (k.op \in Calling /\ k.op = worker.pc /\ k.lease = worker.lease
                    /\ k.segs = worker.state.segs /\ k.usage = worker.state.usage)
  BY DEF Calling
<1>2. ~h => k.op # "acking" /\ cause = "none"
  BY <1>1
<1>3. Resting.state.sums <= Resting.state.segs /\ NoFile \in {disk, NoFile} /\ disk \in {disk, NoFile}
  BY RestGoes
<1>4. disk.readable => disk.exists
  BY DEF WI, DiskOK
<1>5. CASE disk' = NoFile /\ worker' = Resting
  <2>1. ~h => (Mine(s) /\ s.segs > 0 => disk.readable)
    BY DEF WI, NoGapOK
  <2>2. ~h => ~(Mine(s) /\ s.segs > 0)
    BY <1>4, <2>1 DEF Mine
  <2>3. WI(s, Resting, NoFile, k, h, cause)
    BY <1>1, <1>2, <1>3, <2>2, AtRest0, RestGoes, RestsWI
  <2>4. QED
    BY <1>5, <2>3
<1>6. CASE disk.exists /\ UNCHANGED disk /\ worker' = [Resting EXCEPT !.pending = TRUE]
  <2> DEFINE v == [Resting EXCEPT !.pending = TRUE]
  <2>1. v \in WorkerType /\ v.pc = "idle" /\ v.state.sums <= v.state.segs
    BY RestGoes
  <2> HIDE DEF v
  <2>2. WI(s, v, disk, k, h, cause)
    BY <1>1, <1>2, <1>3, <1>6, <2>1, RestsWI
  <2>3. QED
    BY <1>6, <2>2 DEF v
<1>7. QED
  BY <1>5, <1>6 DEF RemovedOrQueued


(* The last two reports. *)
LEMMA CompletionMoves == ASSUME WInv, CompletionAnswered PROVE WInv'
<1> USE WorkerFacts, RequestFacts
<1>0. /\ WI(row, worker, disk, late, gap, cause) /\ RowOK(row) /\ worker.pc = "completing"
      /\ Keeps(row, row') /\ UNCHANGED <<late, gap>>
      /\ Verdict(Request) = "ok" => row'.st = "completed"
  <2>1. worker.pc = "completing" /\ row' = RowAfter(Request) /\ UNCHANGED <<late, gap>>
    BY DEF CompletionAnswered
  <2>2. row \in RowType /\ RowOK(row) /\ Request.op = "completing"
    BY <2>1, RowTyped
  <2>3. Keeps(row, row') /\ (Verdict(Request) = "ok" => row'.st = "completed")
    BY <2>1, <2>2, RowAfterFacts
  <2>4. QED
    BY <2>1, <2>2, <2>3
<1>1. CASE Verdict(Request) = "ok"
  <2>1. RemovedOrQueued /\ UNCHANGED cause /\ row'.st = "completed"
    BY <1>0, <1>1 DEF CompletionAnswered
  <2>2. WI(row', worker, disk, late, gap, cause)
    BY <1>0, KeepsWI
  <2>3. WI(row', worker', disk', late, gap, cause)
    BY <1>0, <2>1, <2>2, RemovedWI
  <2>4. QED
    BY <1>0, <2>1, <2>3 DEF WInv
<1>2. CASE Verdict(Request) # "ok"
  <2> DEFINE retry == Verdict(Request) = "retry"
  <2>1. /\ worker' = Failing(retry) /\ UNCHANGED disk
        /\ cause' = IF LeaseHeld(Request) THEN "usage" ELSE cause
    BY <1>2 DEF CompletionAnswered
  <2>2. ASSUME ~gap PROVE ~LeaseHeld(Request)
    <3> SUFFICES ASSUME LeaseHeld(Request) PROVE FALSE
      OBVIOUS
    <3>1. row.lease = worker.lease /\ row.st = "leased" /\ ~row.cancel
      BY DEF LeaseHeld
    <3>2. /\ Request.op = "completing" /\ Request.segs = worker.state.segs /\ Request.usage = worker.state.usage
          /\ worker.state.segs = row.segs /\ worker.state.usage = row.usage /\ worker.state.segs = Parts
      BY <1>0, <2>2, <3>1 DEF WI, NoGapOK, StateOK
    <3>3. Verdict(Request) = "ok"
      BY <3>1, <3>2 DEF Verdict
    <3>4. QED
      BY <1>2, <3>3
  <2>3. WI(row', Failing(retry), disk, late, gap, cause')
    <3>1. cause' \in {"none", "required", "usage"} /\ (~gap => cause' = "none")
      BY <2>1, <2>2
    <3>2. retry \in BOOLEAN /\ disk \in {disk, NoFile} /\ worker.pc \in Active /\ worker.pc # "acking"
      BY <1>0 DEF Active, Working
    <3> HIDE DEF retry
    <3>3. QED
      BY <1>0, <3>1, <3>2, GivesUp
  <2>4. QED
    BY <1>0, <2>1, <2>3 DEF WInv
<1>3. QED
  BY <1>1, <1>2

LEMMA FailureMoves == ASSUME WInv, FailureReported PROVE WInv'
<1> USE WorkerFacts, RequestFacts
<1> DEFINE h == gap \/ (~worker.retry /\ disk.exists)
<1>0. /\ worker.pc = "failing" /\ gap' = h /\ UNCHANGED cause /\ Request.op = "failing"
      /\ h \in BOOLEAN /\ (gap => h) /\ RowOK(row) /\ WI(row, worker, disk, late, gap, cause)
  BY RowTyped DEF FailureReported, DiskType, WorkerType
<1>1. Keeps(row, row') /\ late' \in LateType /\ late' \in {late, Request}
  <2>1. Keeps(row, RowAfter(Request))
    BY <1>0, RowAfterFacts
  <2>2. QED
    BY <1>0, <2>1, KeepsItself DEF FailureReported
<1>2. WI(row', worker, disk, late, gap, cause)
  BY <1>0, <1>1, KeepsWI
<1>3. CASE worker.retry
  <2>1. worker' = Resting /\ UNCHANGED disk
    BY <1>3 DEF FailureReported
  <2>2. late' = late \/ (late'.op \in Calling /\ late'.op = worker.pc /\ late'.lease = worker.lease
                          /\ late'.segs = worker.state.segs /\ late'.usage = worker.state.usage)
    BY <1>0, <1>1 DEF Calling
  <2>3. ~gap => late'.op # "acking"
    BY <1>0, <1>1
  <2>4. ~h => ~gap
    BY <1>0
  <2>5. disk \in {disk, NoFile} /\ Resting.state.sums <= Resting.state.segs
    BY RestGoes
  <2> HIDE DEF h
  <2>6. WI(row', Resting, disk, late', h, cause)
    BY <1>0, <1>1, <1>2, <2>2, <2>3, <2>4, <2>5, AtRest0, RestGoes, RestsWI
  <2>7. QED
    BY <1>0, <2>1, <2>6 DEF WInv
<1>4. CASE ~worker.retry
  <2>1. RemovedOrQueued /\ (disk.exists => h)
    BY <1>4 DEF FailureReported
  <2> HIDE DEF h
  <2>2. WI(row', worker', disk', late', h, cause)
    BY <1>0, <1>1, <1>2, <2>1, RemovedWI
  <2>3. QED
    BY <1>0, <2>2 DEF WInv
<1>5. QED
  BY <1>3, <1>4

(* A task begun: fresh without a file, resumed from exactly its checkpoint. *)
LEMMA BeginMoves == ASSUME WInv, BeginTask PROVE WInv'
<1> USE WorkerFacts
<1>0. /\ WI(row, worker, disk, late, gap, cause) /\ worker.pc = "begin" /\ UNCHANGED <<row, late, gap>>
      /\ disk' = IF worker.resume = 0 \/ ~disk.readable THEN NoFile ELSE disk
  BY DEF BeginTask
<1>1. CASE worker.resume > 0 /\ ~(disk.readable /\ disk.segs = worker.resume)
           /\ worker' = Failing(FALSE) /\ cause' = "required"
  <2>1. gap
    BY <1>0, <1>1 DEF WI, NoGapOK
  <2>2. disk' \in {disk, NoFile}
    BY <1>0
  <2>3. WI(row, Failing(FALSE), disk', late, gap, "required")
    BY <1>0, <2>1, <2>2, KeepsItself, GivesUp DEF Active, Working
  <2>4. QED
    BY <1>0, <1>1, <2>3 DEF WInv
<1>2. CASE /\ worker.resume = 0 \/ (disk.readable /\ disk.segs = worker.resume)
           /\ worker' = [worker EXCEPT !.pc = "run", !.state = InitialState] /\ UNCHANGED cause
  <2>1. InitialState \in StateType /\ InitialState.sums <= InitialState.segs
    BY <1>0, <1>2, AtRest0 DEF InitialState, Fresh, StateType, DiskType, WI, StateOK
  <2>2. /\ worker' \in WorkerType /\ worker'.pc = "run" /\ worker'.lease = worker.lease
        /\ worker'.resume = worker.resume /\ worker'.state = InitialState
        /\ worker'.pending = worker.pending
    <3> DEFINE i == InitialState
    <3>1. i \in StateType /\ worker' = [worker EXCEPT !.pc = "run", !.state = i]
      BY <1>2, <2>1
    <3> HIDE DEF i
    <3>2. /\ worker' \in WorkerType /\ worker'.pc = "run" /\ worker'.lease = worker.lease
          /\ worker'.resume = worker.resume /\ worker'.state = i /\ worker'.pending = worker.pending
      BY <3>1 DEF WorkerType
    <3>3. QED
      BY <3>2 DEF i
  <2>3. LeasesOK(row, worker', late)
    BY <1>0, <2>2 DEF WI, LeasesOK, Active, Working
  <2>4. row.lease = worker.lease => row.owner = "me" /\ row.st = "leased" /\ row.segs = worker.resume
    BY <1>0 DEF WI, LeasesOK, StateOK, Active, Working, RowOK
  <2>5. CASE worker.resume = 0
    <3>1. disk' = NoFile /\ InitialState = Fresh
      BY <1>0, <2>5 DEF InitialState
    <3>2. Mine(row) => row.segs = 0 /\ row.usage = 0
      BY <1>0, <2>5 DEF WI, StateOK
    <3>3. StateOK(row, worker', disk')
      BY <2>2, <3>1, <3>2 DEF StateOK, Fresh, NoFile
    <3>4. DiskOK(row, worker', disk', late)
      BY <3>1 DEF DiskOK, NoFile
    <3>5. NoGapOK(row, worker', disk', late, gap, cause)
      BY <1>0, <2>2, <2>4, <3>1, <3>2 DEF WI, NoGapOK, Fresh, Mine
    <3>6. QED
      BY <1>0, <1>2, <2>2, <2>3, <3>1, <3>3, <3>4, <3>5, AtRest0 DEF WInv, WI, Typed
  <2>6. CASE worker.resume # 0
    <3>1. /\ disk' = disk /\ disk.readable /\ disk.segs = worker.resume
          /\ InitialState.segs = disk.segs /\ InitialState.usage = disk.usage
      BY <1>0, <1>2, <2>6 DEF InitialState
    <3>2. worker.resume > 0
      BY <2>6 DEF WorkerType
    <3>3. StateOK(row, worker', disk)
      BY <1>0, <2>1, <2>2, <3>1 DEF WI, StateOK, DiskOK
    <3>4. DiskOK(row, worker', disk, late)
      BY <1>0, <2>2 DEF WI, DiskOK
    <3>5. NoGapOK(row, worker', disk, late, gap, cause)
      BY <1>0, <2>2, <2>4, <3>1, <3>2 DEF WI, NoGapOK, Mine
    <3>6. QED
      BY <1>0, <1>2, <2>2, <2>3, <3>1, <3>3, <3>4, <3>5 DEF WInv, WI, Typed
  <2>7. QED
    BY <2>5, <2>6
<1>3. QED
  BY <1>1, <1>2 DEF BeginTask


(* The executor: it only ever adds to what it holds. *)
LEMMA ExecutorMoves == ASSUME WInv, MapSegment \/ ReduceRound \/ SendCompletion PROVE WInv'
<1> USE WorkerFacts
<1>0. /\ WI(row, worker, disk, late, gap, cause) /\ worker.pc = "run"
      /\ UNCHANGED <<row, disk, late, gap, cause>>
  BY DEF MapSegment, ReduceRound, SendCompletion
<1>1. ASSUME NEW pc \in {"write", "completing"}, NEW state \in StateType,
             worker' = [worker EXCEPT !.pc = pc, !.state = state],
             state.sums <= state.segs, state.segs >= worker.state.segs,
             pc = "write" => state.usage > worker.state.usage,
             pc = "completing" => state.segs = Parts /\ state = worker.state
      PROVE  WInv'
  <2>1. /\ worker' \in WorkerType /\ worker'.pc = pc /\ worker'.lease = worker.lease
        /\ worker'.resume = worker.resume /\ worker'.state = state
        /\ worker'.pending = worker.pending
    BY <1>1 DEF WorkerType
  <2>2. LeasesOK(row, worker', late)
    BY <1>0, <2>1 DEF WI, LeasesOK, Active, Working
  <2>3. StateOK(row, worker', disk)
    BY <1>0, <1>1, <2>1 DEF WI, StateOK, StateType, RowType
  <2>4. DiskOK(row, worker', disk, late)
    BY <1>0, <2>1 DEF WI, DiskOK
  <2>5. NoGapOK(row, worker', disk, late, gap, cause)
    BY <1>0, <1>1, <2>1 DEF WI, NoGapOK
  <2>6. QED
    BY <1>0, <2>1, <2>2, <2>3, <2>4, <2>5 DEF WInv, WI, Typed
<1>2. CASE MapSegment
  <2> DEFINE n == worker.state
             state == [n EXCEPT !.segs = @ + 1, !.sums = @ + 1, !.usage = @ + 1]
  <2>1. n.segs < Parts /\ n.sums <= n.segs /\ n \in StateType
    BY <1>2 DEF MapSegment
  <2>2. worker' = [worker EXCEPT !.pc = "write", !.state = state]
    BY <1>2 DEF MapSegment, WorkerType, StateType
  <2> HIDE DEF n
  <2>3. /\ state \in StateType /\ state.sums <= state.segs /\ state.segs >= n.segs
        /\ state.usage > n.usage
    <3>1. /\ n.segs \in Nat /\ n.sums \in Nat /\ n.usage \in Nat
          /\ n.segs + 1 \in 0..Parts /\ n.sums + 1 \in 0..Parts
      BY <2>1, WorkerAssumption DEF StateType
    <3>2. /\ state.segs = n.segs + 1 /\ state.sums = n.sums + 1 /\ state.usage = n.usage + 1
          /\ state \in StateType
      <4> DEFINE a == n.segs + 1
                 b == n.sums + 1
                 u == n.usage + 1
      <4>1. a \in 0..Parts /\ b \in 0..Parts /\ u \in Nat /\ state = [n EXCEPT !.segs = a, !.sums = b, !.usage = u]
        BY <3>1
      <4> HIDE DEF a, b, u, state
      <4>2. state.segs = a /\ state.sums = b /\ state.usage = u /\ state \in StateType
        BY <2>1, <4>1 DEF StateType
      <4>3. QED
        BY <4>2 DEF a, b, u
    <3> HIDE DEF state
    <3>3. QED
      BY <2>1, <3>1, <3>2
  <2> HIDE DEF state
  <2>4. QED
    BY <1>1, <2>2, <2>3 DEF n
<1>3. CASE ReduceRound
  <2> DEFINE n == worker.state
             m == Reduced(n.sums)
             state == [n EXCEPT !.sums = m, !.usage = @ + m]
  <2>1. n.segs = Parts /\ n.sums <= n.segs /\ n \in StateType /\ n.sums > 1
    BY <1>3 DEF ReduceRound
  <2>2. worker' = [worker EXCEPT !.pc = "write", !.state = state]
    BY <1>3 DEF ReduceRound, WorkerType, StateType
  <2>3. m \in Nat /\ m > 0 /\ m <= n.sums
    BY <2>1, ReducedFacts DEF StateType
  <2> HIDE DEF n, m
  <2>4. /\ state \in StateType /\ state.sums <= state.segs /\ state.segs >= n.segs
        /\ state.usage > n.usage
    <3>1. n.segs \in Nat /\ n.sums \in Nat /\ n.usage \in Nat /\ m \in 0..Parts
      BY <2>1, <2>3, WorkerAssumption DEF StateType
    <3>2. /\ state.segs = n.segs /\ state.sums = m /\ state.usage = n.usage + m /\ state \in StateType
      <4> DEFINE u == n.usage + m
      <4>1. u \in Nat /\ state = [n EXCEPT !.sums = m, !.usage = u]
        BY <2>3, <3>1
      <4> HIDE DEF u, state
      <4>2. state.segs = n.segs /\ state.sums = m /\ state.usage = u /\ state \in StateType
        BY <2>1, <3>1, <4>1 DEF StateType
      <4>3. QED
        BY <4>2 DEF u
    <3> HIDE DEF state
    <3>3. QED
      BY <2>1, <2>3, <3>1, <3>2
  <2> HIDE DEF state
  <2>5. QED
    BY <1>1, <2>2, <2>4 DEF n
<1>4. CASE SendCompletion
  <2>1. worker.state.segs = Parts /\ worker' = [worker EXCEPT !.pc = "completing", !.state = worker.state]
    BY <1>4 DEF SendCompletion, Moved, WorkerType
  <2>2. worker.state.segs >= worker.state.segs
    BY DEF StateType
  <2>3. QED
    BY <1>1, <2>1, <2>2
<1>5. QED
  BY <1>2, <1>3, <1>4

(* The file: written, it holds what the executor holds; unreadable, it tells
   nothing any more. *)
LEMMA FileMoves == ASSUME WInv, WriteCheckpoint \/ FileUnreadable PROVE WInv'
<1> USE WorkerFacts
<1>0. WI(row, worker, disk, late, gap, cause) /\ RowOK(row)
  BY RowTyped
<1>1. CASE WriteCheckpoint
  <2> DEFINE e == [segs |-> worker.state.segs, sums |-> worker.state.sums, usage |-> worker.state.usage,
                   readable |-> TRUE, exists |-> TRUE]
  <2>1. worker.pc = "write" /\ disk' = e /\ worker' = Moved("acking") /\ UNCHANGED <<row, late, gap, cause>>
    BY <1>1 DEF WriteCheckpoint, Stored
  <2>2. /\ e \in DiskType /\ e.segs = worker.state.segs /\ e.sums = worker.state.sums
        /\ e.usage = worker.state.usage /\ e.readable /\ e.exists
    BY DEF DiskType, StateType
  <2>3. /\ worker' \in WorkerType /\ worker'.pc = "acking" /\ worker'.lease = worker.lease
        /\ worker'.resume = worker.resume /\ worker'.state = worker.state
        /\ worker'.pending = worker.pending
    BY <2>1, MovedFacts
  <2> HIDE DEF e
  <2>4. late.op \in Calling => late.lease < worker.lease /\ worker.lease <= row.attempt
    BY <1>0, <2>1 DEF WI, LeasesOK, Working, Active
  <2>5. late.op \in Calling => ~(row.st = "leased" /\ row.lease = late.lease)
    BY <1>0, <2>4 DEF RowOK, RowType, LateType, WorkerType
  <2>6. LeasesOK(row, worker', late)
    BY <1>0, <2>1, <2>3 DEF WI, LeasesOK, Active, Working
  <2>7. StateOK(row, worker', e)
    BY <1>0, <2>1, <2>2, <2>3 DEF WI, StateOK
  <2>8. DiskOK(row, worker', e, late)
    BY <1>0, <2>1, <2>2, <2>3, <2>5 DEF WI, DiskOK, StateOK, Calling
  <2>9. NoGapOK(row, worker', e, late, gap, cause)
    BY <1>0, <2>1, <2>2, <2>3 DEF WI, NoGapOK
  <2>10. QED
    BY <1>0, <2>1, <2>2, <2>3, <2>6, <2>7, <2>8, <2>9 DEF WInv, WI, Typed
<1>2. CASE FileUnreadable
  <2>1. gap' = TRUE /\ UNCHANGED <<row, worker, late, cause>> /\ disk' = [disk EXCEPT !.readable = FALSE]
    BY <1>2 DEF FileUnreadable
  <2>2. disk' \in DiskType /\ ~disk'.readable /\ disk'.sums = disk.sums /\ disk'.segs = disk.segs
    BY <2>1 DEF DiskType
  <2>3. QED
    BY <1>0, <2>1, <2>2 DEF WInv, WI, Typed, StateOK, DiskOK, NoGapOK
<1>3. QED
  BY <1>1, <1>2

LEMMA StepWInv == ASSUME WInv, [WorkerNext]_workerVars PROVE WInv'
<1>1. CASE UNCHANGED workerVars
  BY <1>1 DEF workerVars, WInv
<1>2. CASE WorkerNext
  BY <1>2, ControlMoves, LateMoves, GivingUpMoves, RestingMoves, ClaimMoves, CheckpointMoves,
     CompletionMoves, FailureMoves, BeginMoves, ExecutorMoves, FileMoves DEF WorkerNext
<1>3. QED
  BY <1>1, <1>2

(* The invariant the other four rest on. *)
THEOREM WorkerInvariant == WorkerSpec => []WInv
BY InitWInv, StepWInv, PTL DEF WorkerSpec

(* The row, the process, the file and the late call keep their types: lost and
   late calls move no progress past the file's segments and no lease past the
   attempts (artifact-worker.ts, artifact-worker-service.ts). *)
THEOREM WorkerTyped == WorkerSpec => []WorkerTypeOK
BY WorkerInvariant, WInvGives, PTL

(* What the agent reports it has on disk first (onCheckpoint): a checkpoint
   that can be read is never behind the progress of a task it may resume. *)
THEOREM DiskSafe == WorkerSpec => []DiskIsAhead
BY WorkerInvariant, WInvGives, PTL

(* No acknowledged segment or reduction is paid for a second time: what the
   provider has just been paid for is beyond the progress of the lease. *)
THEOREM PaidWorkSafe == WorkerSpec => []PaidWorkIsNew
BY WorkerInvariant, WInvGives, PTL

(* The worker gives a resumed task up for good (ARTIFACT_CHECKPOINT_REQUIRED,
   ARTIFACT_USAGE_INVALID) only if a report was lost or refused, or the file
   expired or was deleted. *)
THEOREM ResumeSafe == WorkerSpec => []ResumeFailsOnlyAfterLoss
BY WorkerInvariant, WInvGives, PTL


---------------------------------------------------------------------------
(* Every set of natural numbers has a least one.  Of a finite set, counting the
   members up to each would otherwise send two members to one count. *)
LEMMA LeastOfBounded ==
  ASSUME NEW N \in Nat, NEW T \in SUBSET (0..N), T # {}
  PROVE  \E m \in T : \A k \in T : m <= k
<1> DEFINE upto(m) == {k \in T : k <= m}
           c == [m \in T |-> Cardinality(upto(m))]
           n == Cardinality(T)
<1>0. IsFiniteSet(T) /\ \A m \in T : m \in Nat
  <2>1. IsFiniteSet(0..N)
    BY FS_Interval
  <2>2. IsFiniteSet(T)
    BY <2>1, FS_Subset
  <2>3. QED
    BY <2>2
<1>1. n \in Nat /\ n # 0
  BY <1>0, FS_CardinalityType, FS_EmptySet
<1>2. \A m \in T : IsFiniteSet(upto(m)) /\ m \in upto(m) /\ upto(m) \in SUBSET T
  BY <1>0, FS_Subset
<1>3. \A m \in T : c[m] \in Nat /\ c[m] <= n /\ c[m] # 0
  <2>1. ASSUME NEW m \in T PROVE c[m] \in Nat /\ c[m] <= n /\ c[m] # 0
    <3> DEFINE U == upto(m)
    <3>1. IsFiniteSet(U) /\ U \in SUBSET T /\ U # {}
      BY <1>2
    <3> HIDE DEF U
    <3>2. Cardinality(U) \in Nat /\ Cardinality(U) <= n /\ Cardinality(U) # 0
      BY <1>0, <3>1, FS_CardinalityType, FS_EmptySet, FS_Subset
    <3>3. QED
      BY <3>2 DEF U
  <2>2. QED
    BY <2>1
<1>4. ASSUME NEW m \in T, NEW k \in T, k < m PROVE c[k] < c[m]
  <2> DEFINE U == upto(m)
             V == upto(k)
  <2>1. V \in SUBSET U /\ m \in U /\ m \notin V /\ IsFiniteSet(U)
    <3>1. IsFiniteSet(U) /\ m \in U
      BY <1>2
    <3>2. m \in Nat /\ k \in Nat
      BY <1>0
    <3>3. \A x \in V : x \in T /\ x <= k /\ x \in Nat
      BY <1>0
    <3>4. m \notin V
      BY <1>4, <3>2
    <3>5. \A x \in V : x \in U
      BY <1>4, <3>2, <3>3
    <3> HIDE DEF U, V
    <3>6. QED
      BY <3>1, <3>4, <3>5
  <2> HIDE DEF U, V
  <2>2. Cardinality(V) <= Cardinality(U) /\ Cardinality(V) # Cardinality(U)
    BY <2>1, FS_Subset
  <2>3. c[k] = Cardinality(V) /\ c[m] = Cardinality(U)
    BY DEF U, V
  <2>4. QED
    BY <1>3, <2>2, <2>3
<1> HIDE DEF c, n
<1>5. PICK m \in T : c[m] = 1
  <2> SUFFICES ASSUME \A m \in T : c[m] # 1 PROVE FALSE
    OBVIOUS
  <2>1. c \in [T -> 2..n]
    BY <1>1, <1>3 DEF c
  <2>2. IsFiniteSet(2..n) /\ Cardinality(2..n) < n
    BY <1>1, FS_Interval
  <2>3. PICK x, y \in T : x # y /\ c[x] = c[y]
    BY <1>0, <2>1, <2>2, FS_PigeonHole DEF n
  <2>4. QED
    BY <1>0, <1>3, <1>4, <2>3
<1>6. QED
  <2>1. ASSUME NEW k \in T, k < m PROVE FALSE
    BY <1>3, <1>4, <1>5, <2>1
  <2>2. QED
    BY <1>0, <1>5, <2>1

LEMMA LeastNumber ==
  ASSUME NEW T \in SUBSET Nat, T # {}
  PROVE  \E m \in T : \A k \in T : m <= k
<1>1. PICK n \in T : TRUE
  OBVIOUS
<1> DEFINE U == {k \in T : k <= n}
<1>2. U \in SUBSET (0..n) /\ U # {} /\ n \in Nat
  <2>1. n \in Nat /\ n \in U
    BY <1>1
  <2>2. \A x \in U : x \in 0..n
    BY <2>1
  <2>3. QED
    BY <2>1, <2>2
<1> HIDE DEF U
<1>3. PICK m \in U : \A k \in U : m <= k
  BY <1>2, LeastOfBounded
<1>4. QED
  BY <1>2, <1>3 DEF U

(* What a completed task was charged.  The cost of a reduction is recursive;
   that the recursion is well-founded follows from the least number for which
   it would not be. *)

LEMMA RoundShrinks == ASSUME NEW n \in 1..Parts, n # 1 PROVE Reduced(n) \in 1..(n - 1)
<1>1. n \in Nat /\ n >= 2 /\ Fan \in Nat /\ Fan >= 2
  BY WorkerAssumption
<1> DEFINE q == (n + Fan - 1) \div Fan
<1>2. q \in Int /\ q * Fan <= n + Fan - 1 /\ n + Fan - 1 < (q + 1) * Fan
  BY <1>1, SMTT(60)
<1>3. q > 0
  BY <1>1, <1>2, SMTT(60)
<1>4. q < n
  BY <1>1, <1>2, SMTT(60)
<1>5. QED
  BY <1>1, <1>2, <1>3, <1>4 DEF Reduced

LEMMA CostExists ==
  \E f : f = [n \in 1..Parts |-> IF n = 1 THEN 0 ELSE Reduced(n) + f[Reduced(n)]]
<1> DEFINE Defined(m) == \E f : f = [n \in 1..m |-> IF n = 1 THEN 0 ELSE Reduced(n) + f[Reduced(n)]]
           T == {m \in 0..Parts : ~Defined(m)}
<1>1. T = {}
  <2> SUFFICES ASSUME T # {} PROVE FALSE
    OBVIOUS
  <2>1. PICK m \in T : \A k \in T : m <= k
    <3>1. T \in SUBSET Nat
      OBVIOUS
    <3> HIDE DEF T
    <3>2. QED
      BY <3>1, LeastNumber
  <2>2. m \in 0..Parts /\ ~Defined(m)
    BY <2>1
  <2>3. CASE m = 0
    <3> DEFINE g == [n \in 1..0 |-> 0]
    <3>1. g = [n \in 1..0 |-> IF n = 1 THEN 0 ELSE Reduced(n) + g[Reduced(n)]]
      OBVIOUS
    <3> HIDE DEF g
    <3>2. QED
      BY <2>2, <2>3, <3>1
  <2>4. CASE m # 0
    <3> DEFINE k == m - 1
    <3>1. k \in 0..Parts /\ k < m /\ m \in 1..Parts /\ m \in Nat
      BY <2>2, <2>4, WorkerAssumption
    <3>2. k \notin T
      BY <2>1, <3>1
    <3>3. Defined(k)
      BY <3>1, <3>2
    <3>4. PICK f : f = [n \in 1..k |-> IF n = 1 THEN 0 ELSE Reduced(n) + f[Reduced(n)]]
      BY <3>3
    <3> DEFINE h == [n \in 1..m |-> IF n = 1 THEN 0 ELSE Reduced(n) + f[Reduced(n)]]
    <3>5. ASSUME NEW n \in 1..m, n # 1 PROVE h[Reduced(n)] = f[Reduced(n)]
      <4>0. n \in 1..Parts
        BY <3>1, WorkerAssumption
      <4>1. Reduced(n) \in 1..(n - 1)
        BY <3>5, <4>0, RoundShrinks
      <4>2. Reduced(n) \in 1..m /\ Reduced(n) \in 1..k
        BY <3>1, <3>5, <4>1
      <4>3. QED
        BY <3>4, <4>2
    <3>6. h = [n \in 1..m |-> IF n = 1 THEN 0 ELSE Reduced(n) + h[Reduced(n)]]
      BY <3>5
    <3> HIDE DEF h
    <3>7. QED
      BY <2>2, <3>6
  <2>5. QED
    BY <2>3, <2>4
<1>2. Parts \in 0..Parts
  BY WorkerAssumption
<1>3. QED
  BY <1>1, <1>2

LEMMA CostDef ==
  ReductionCost = [n \in 1..Parts |-> IF n = 1 THEN 0 ELSE Reduced(n) + ReductionCost[Reduced(n)]]
BY CostExists DEF ReductionCost

LEMMA CostNat == \A n \in 1..Parts : ReductionCost[n] \in Nat
<1> DEFINE T == {n \in 1..Parts : ReductionCost[n] \notin Nat}
<1> SUFFICES T = {}
  OBVIOUS
<1> SUFFICES ASSUME T # {} PROVE FALSE
  OBVIOUS
<1>1. PICK m \in T : \A k \in T : m <= k
  <2>1. T \in SUBSET Nat
    OBVIOUS
  <2> HIDE DEF T
  <2>2. QED
    BY <2>1, LeastNumber
<1>2. m \in 1..Parts /\ ReductionCost[m] = IF m = 1 THEN 0 ELSE Reduced(m) + ReductionCost[Reduced(m)]
  BY CostDef
<1>3. m # 1
  BY <1>1, <1>2
<1>4. Reduced(m) \in 1..(m - 1)
  BY <1>2, <1>3, RoundShrinks
<1>5. Reduced(m) \in 1..Parts /\ Reduced(m) < m /\ Reduced(m) \in Nat
  <2> DEFINE q == Reduced(m)
  <2>1. m \in 1..Parts /\ q \in 1..(m - 1)
    BY <1>2, <1>4
  <2> HIDE DEF q
  <2>2. q \in 1..Parts /\ q < m /\ q \in Nat
    BY <2>1, WorkerAssumption
  <2>3. QED
    BY <2>2 DEF q
<1>6. ReductionCost[Reduced(m)] \in Nat
  BY <1>1, <1>5
<1>7. QED
  BY <1>1, <1>2, <1>3, <1>5, <1>6


(* The work done and the work left add up to one pass and one reduction. *)
Price == Parts + ReductionCost[Parts]
Exact(s) ==
  IF s.segs < Parts THEN s.sums = s.segs /\ s.usage = s.segs
  ELSE s.sums > 0 /\ s.usage + ReductionCost[s.sums] = Price

ChargeInv ==
  /\ Exact(worker.state) /\ Exact(disk)
  /\ worker.pc = "completing" => worker.state.usage = Price
  /\ late.op = "completing" => late.usage = Price
  /\ row.st = "completed" /\ row.owner = "me" => row.usage = Price

LEMMA ExactStart == Exact(Fresh) /\ Exact(NoFile) /\ Fresh = Resting.state
BY WorkerAssumption DEF Exact, Fresh, NoFile, Resting

(* A row is completed by the call that was checked against its usage. *)
LEMMA RowCompleted ==
  ASSUME row \in RowType, NEW c, RowAfter(c).st = "completed", RowAfter(c).owner = "me"
  PROVE  \/ row.st = "completed" /\ row.owner = "me" /\ RowAfter(c).usage = row.usage
         \/ c.op = "completing" /\ RowAfter(c).usage = c.usage
<1>1. CASE row.cancel /\ row.st = "leased" /\ row.lease = c.lease
  <2>1. Verdict(c) # "ok"
    BY <1>1 DEF Verdict, LeaseHeld
  <2>2. RowAfter(c) = [row EXCEPT !.st = "cancelled", !.lease = 0]
    BY <1>1, <2>1 DEF RowAfter
  <2>3. QED
    BY <2>2 DEF RowType
<1>2. CASE ~(row.cancel /\ row.st = "leased" /\ row.lease = c.lease) /\ Verdict(c) = "ok" /\ c.op = "acking"
  <2>1. row.st = "leased" /\ RowAfter(c) = [row EXCEPT !.segs = c.segs, !.usage = c.usage]
    BY <1>2 DEF RowAfter, Verdict, LeaseHeld
  <2>2. QED
    BY <2>1 DEF RowType
<1>3. CASE ~(row.cancel /\ row.st = "leased" /\ row.lease = c.lease) /\ Verdict(c) = "ok" /\ c.op = "completing"
  <2>1. c.usage = row.usage /\ RowAfter(c) = [row EXCEPT !.st = "completed", !.lease = 0]
    BY <1>3 DEF RowAfter, Verdict
  <2>2. QED
    BY <1>3, <2>1 DEF RowType
<1>4. CASE ~(row.cancel /\ row.st = "leased" /\ row.lease = c.lease) /\ Verdict(c) = "ok" /\ c.op = "failing"
  <2>1. RowAfter(c) = [row EXCEPT !.lease = 0, !.st = IF c.retry /\ row.attempt < MaxClaims
                                                       THEN "queued" ELSE "failed"]
    BY <1>4 DEF RowAfter
  <2>2. RowAfter(c).st \in {"queued", "failed"}
    BY <2>1 DEF RowType
  <2>3. QED
    BY <2>2
<1>5. CASE ~(row.cancel /\ row.st = "leased" /\ row.lease = c.lease)
           /\ ~(Verdict(c) = "ok" /\ c.op \in {"acking", "completing", "failing"})
  <2>1. RowAfter(c) = row
    BY <1>5 DEF RowAfter
  <2>2. QED
    BY <2>1
<1>6. QED
  BY <1>1, <1>2, <1>3, <1>4, <1>5

LEMMA SweptCompleted ==
  ASSUME row \in RowType, Swept.st = "completed", Swept.owner = "me"
  PROVE  row.st = "completed" /\ row.owner = "me" /\ Swept.usage = row.usage
BY DEF Swept, RowType

LEMMA LeasedRuns == ASSUME row \in RowType, RowOK(row), NEW who \in {"me", "other"}, Swept.st = "queued"
                    PROVE  Leased(who).st = "leased"
BY LeasedFacts DEF Claimed

LEMMA InitCharge == WorkerInit => ChargeInv
<1> SUFFICES ASSUME WorkerInit PROVE ChargeInv
  OBVIOUS
<1>1. worker.state = Fresh /\ worker.pc = "down" /\ disk = NoFile /\ late.op = "none" /\ row.st = "queued"
  BY DEF WorkerInit, Resting, NoRequest
<1>2. QED
  BY <1>1, ExactStart DEF ChargeInv

(* The steps that leave the executor and the file alone. *)
LEMMA ChargeControl ==
  ASSUME WInv, ChargeInv, LeaseRunsOut \/ OtherClaims \/ OtherReports \/ TaskCancelled \/ LateArrival
  PROVE  ChargeInv'
<1>0. row \in RowType /\ RowOK(row)
  BY RowTyped
<1>1. UNCHANGED <<worker, disk>> /\ late' \in {late, NoRequest}
  BY DEF LeaseRunsOut, OtherClaims, OtherReports, TaskCancelled, LateArrival
<1>2. ASSUME row'.st = "completed", row'.owner = "me" PROVE row'.usage = Price
  <2>1. CASE LeaseRunsOut
    BY <1>0, <1>2, <2>1 DEF LeaseRunsOut, RowType
  <2>2. CASE OtherClaims
    BY <1>0, <1>2, <2>2, LeasedRuns DEF OtherClaims
  <2>3. CASE OtherReports
    BY <1>0, <1>2, <2>3 DEF OtherReports, RowType
  <2>4. CASE TaskCancelled
    BY <1>0, <1>2, <2>4 DEF TaskCancelled, RowType
  <2>5. CASE LateArrival /\ late.op = "claiming"
    BY <1>0, <1>2, <2>5, LeasedRuns, SweptCompleted DEF LateArrival, ChargeInv
  <2>6. CASE LateArrival /\ late.op # "claiming"
    <3>1. row' = RowAfter(late)
      BY <2>6 DEF LateArrival
    <3>2. QED
      BY <1>0, <1>2, <3>1, RowCompleted DEF ChargeInv
  <2>7. QED
    BY <2>1, <2>2, <2>3, <2>4, <2>5, <2>6
<1>3. QED
  BY <1>1, <1>2 DEF ChargeInv, NoRequest

(* The steps of the worker: where its state and the row come from. *)
LEMMA ChargeRests ==
  ASSUME WInv, ChargeInv, Exact(worker'.state), disk' \in {disk, NoFile}, worker'.pc # "completing",
         late' = late \/ late' = Request,
         row' = row \/ row' = Swept \/ (row' = Leased("me") /\ Swept.st = "queued")
           \/ row' = RowAfter(Request) \/ (row' = RowAfter(Download) /\ worker.pc = "run")
  PROVE  ChargeInv'
<1> USE WorkerFacts, RequestFacts
<1>0. row \in RowType /\ RowOK(row)
  BY RowTyped
<1>1. ASSUME row'.st = "completed", row'.owner = "me" PROVE row'.usage = Price
  <2>1. CASE row' = row
    BY <1>1, <2>1 DEF ChargeInv
  <2>2. CASE row' = Swept
    BY <1>0, <1>1, <2>2, SweptCompleted DEF ChargeInv
  <2>3. CASE row' = Leased("me") /\ Swept.st = "queued"
    BY <1>0, <1>1, <2>3, LeasedRuns
  <2>4. CASE row' = RowAfter(Request)
    BY <1>0, <1>1, <2>4, RowCompleted DEF ChargeInv
  <2>5. CASE row' = RowAfter(Download)
    BY <1>0, <1>1, <2>5, RowCompleted DEF ChargeInv
  <2>6. QED
    BY <2>1, <2>2, <2>3, <2>4, <2>5
<1>2. late'.op = "completing" => late'.usage = Price
  BY DEF ChargeInv
<1>3. QED
  BY <1>1, <1>2, ExactStart DEF ChargeInv


LEMMA ChargeWorker ==
  ASSUME WInv, ChargeInv, WorkerNext,
         ~(LeaseRunsOut \/ OtherClaims \/ OtherReports \/ TaskCancelled \/ LateArrival)
  PROVE  ChargeInv'
<1> USE WorkerFacts
<1>0. Exact(worker.state) /\ Exact(disk) /\ Exact(Resting.state)
  BY ExactStart DEF ChargeInv
<1>1. CASE FileUnreadable
  <2>1. disk'.segs = disk.segs /\ disk'.sums = disk.sums /\ disk'.usage = disk.usage
        /\ UNCHANGED <<row, worker, late>>
    BY <1>1 DEF FileUnreadable, DiskType
  <2>2. QED
    BY <2>1 DEF ChargeInv, Exact
<1>2. CASE WriteCheckpoint
  <2>1. disk'.segs = worker.state.segs /\ disk'.sums = worker.state.sums
        /\ disk'.usage = worker.state.usage /\ UNCHANGED <<row, late>>
    BY <1>2 DEF WriteCheckpoint, Stored
  <2>2. worker'.state = worker.state /\ worker'.pc = "acking"
    BY <1>2, MovedFacts DEF WriteCheckpoint
  <2>3. QED
    BY <2>1, <2>2 DEF ChargeInv, Exact
<1>3. CASE MapSegment
  <2> DEFINE n == worker.state
             state == [n EXCEPT !.segs = @ + 1, !.sums = @ + 1, !.usage = @ + 1]
  <2>1. n.segs < Parts /\ n \in StateType /\ Exact(n)
    BY <1>0, <1>3 DEF MapSegment
  <2>2. worker'.state = state /\ worker'.pc = "write" /\ UNCHANGED <<row, disk, late>>
    BY <1>3 DEF MapSegment, WorkerType, StateType
  <2>3. state.segs = n.segs + 1 /\ state.sums = n.sums + 1 /\ state.usage = n.usage + 1
    BY <2>1 DEF StateType
  <2>4. n.segs \in Nat /\ n.sums = n.segs /\ n.usage = n.segs /\ Parts \in Nat
    BY <2>1, WorkerAssumption DEF StateType, Exact
  <2> HIDE DEF n, state
  <2>5. Exact(state)
    <3>1. CASE n.segs + 1 < Parts
      BY <2>3, <2>4, <3>1 DEF Exact
    <3>2. CASE n.segs + 1 = Parts
      BY <2>3, <2>4, <3>2 DEF Exact, Price
    <3>3. QED
      BY <2>1, <2>4, <3>1, <3>2
  <2>6. QED
    BY <2>2, <2>5 DEF ChargeInv
<1>4. CASE ReduceRound
  <2> DEFINE n == worker.state
             m == Reduced(n.sums)
             state == [n EXCEPT !.sums = m, !.usage = @ + m]
  <2>1. n.segs = Parts /\ n \in StateType /\ n.sums > 1 /\ Exact(n)
    BY <1>0, <1>4 DEF ReduceRound
  <2>2. worker'.state = state /\ worker'.pc = "write" /\ UNCHANGED <<row, disk, late>>
    BY <1>4 DEF ReduceRound, WorkerType, StateType
  <2>3. state.segs = n.segs /\ state.sums = m /\ state.usage = n.usage + m
    BY <2>1 DEF StateType
  <2>4. n.sums \in 1..Parts /\ n.sums # 1 /\ n.usage \in Nat /\ n.usage + ReductionCost[n.sums] = Price
    BY <2>1, WorkerAssumption DEF StateType, Exact
  <2>5. ReductionCost[n.sums] = m + ReductionCost[m]
    BY <2>4, CostDef
  <2>6. m \in 1..Parts /\ m \in Nat /\ m > 0 /\ ReductionCost[m] \in Nat
    <3> DEFINE k == n.sums
    <3>1. m \in 1..(k - 1) /\ k \in 1..Parts
      BY <2>4, RoundShrinks
    <3> HIDE DEF k, m
    <3>2. m \in 1..Parts /\ m \in Nat /\ m > 0
      BY <3>1, WorkerAssumption
    <3>3. QED
      BY <3>2, CostNat
  <2> HIDE DEF n, m, state
  <2>7. ~(Parts < Parts) /\ n.usage + m + ReductionCost[m] = Price
    BY <2>4, <2>5, <2>6, WorkerAssumption
  <2>8. Exact(state)
    BY <2>1, <2>3, <2>6, <2>7 DEF Exact
  <2>9. QED
    BY <2>2, <2>8 DEF ChargeInv
<1>5. CASE SendCompletion
  <2>1. worker.state.segs = Parts /\ worker.state.sums = 1 /\ worker'.state = worker.state
        /\ UNCHANGED <<row, disk, late>>
    BY <1>5, MovedFacts DEF SendCompletion
  <2>2. ReductionCost[1] = 0 /\ ~(Parts < Parts) /\ worker.state.usage \in Nat
    BY CostDef, WorkerAssumption DEF StateType
  <2>3. worker.state.usage = Price
    BY <1>0, <2>1, <2>2 DEF Exact
  <2>4. QED
    BY <2>1, <2>3 DEF ChargeInv
<1>6. CASE BeginTask
  <2>1. CASE worker' = Failing(FALSE)
    <3>1. worker'.state = worker.state /\ worker'.pc = "failing"
      BY <2>1, FailingFacts
    <3>2. disk' \in {disk, NoFile} /\ UNCHANGED <<row, late>>
      BY <1>6 DEF BeginTask
    <3>3. QED
      BY <1>0, <3>1, <3>2, ChargeRests
  <2>2. CASE worker' = [worker EXCEPT !.pc = "run", !.state = InitialState]
    <3>1. worker'.state = InitialState /\ worker'.pc = "run"
      BY <2>2 DEF WorkerType
    <3>2. disk' \in {disk, NoFile} /\ UNCHANGED <<row, late>>
      BY <1>6 DEF BeginTask
    <3>3. Exact(InitialState)
      BY <1>0, ExactStart DEF InitialState, Exact
    <3>4. QED
      BY <3>1, <3>2, <3>3, ChargeRests
  <2>3. QED
    BY <1>6, <2>1, <2>2 DEF BeginTask
<1>7. CASE WorkerStart \/ PollOnce \/ ClaimAnswered \/ ClaimLost \/ WorkerEnds
  <2>1. worker'.state \in {worker.state, Resting.state} /\ worker'.pc # "completing"
    <3>1. CASE WorkerStart \/ WorkerEnds
      BY <3>1 DEF WorkerStart, WorkerEnds, Resting
    <3>2. CASE PollOnce
      BY <3>2 DEF PollOnce, WorkerType
    <3>3. CASE ClaimAnswered
      <4>1. \/ worker' = Moved("idle")
            \/ worker' = [worker EXCEPT !.pc = "begin", !.lease = Swept.attempt + 1,
                                        !.resume = ResumePoint("me")]
        BY <3>3 DEF ClaimAnswered
      <4>2. Moved("idle").state = worker.state /\ Moved("idle").pc = "idle"
        BY MovedFacts
      <4>3. QED
        BY <4>1, <4>2 DEF WorkerType
    <3>4. CASE ClaimLost
      BY <3>4, MovedFacts DEF ClaimLost
    <3>5. QED
      BY <1>7, <3>1, <3>2, <3>3, <3>4
  <2>2. /\ row' = row \/ row' = Swept \/ (row' = Leased("me") /\ Swept.st = "queued")
        /\ late' = late \/ late' = Request
        /\ disk' \in {disk, NoFile}
    BY <1>7 DEF WorkerStart, PollOnce, ClaimAnswered, ClaimLost, WorkerEnds, Cleaned
  <2>3. Exact(worker'.state)
    BY <1>0, <2>1
  <2>4. QED
    BY <2>1, <2>2, <2>3, ChargeRests
<1>8. CASE BeginDiskFails \/ ExecutionFails \/ DownloadRefused \/ WriteFails \/ CheckpointLost
             \/ CompletionLost \/ CheckpointAnswered \/ CompletionAnswered \/ FailureReported
  <2>1. \/ \E retry \in BOOLEAN : worker' = Failing(retry)
        \/ worker' = Moved("run") \/ worker' = Resting \/ worker' = [Resting EXCEPT !.pending = TRUE]
    BY <1>8 DEF BeginDiskFails, ExecutionFails, DownloadRefused, WriteFails, CheckpointLost,
       CompletionLost, CheckpointAnswered, CompletionAnswered, FailureReported, RemovedOrQueued
  <2>2. worker'.state \in {worker.state, Resting.state} /\ worker'.pc # "completing"
    <3>1. CASE \E retry \in BOOLEAN : worker' = Failing(retry)
      BY <3>1, FailingFacts
    <3>2. CASE worker' = Moved("run")
      BY <3>2, MovedFacts
    <3>3. CASE worker' = Resting \/ worker' = [Resting EXCEPT !.pending = TRUE]
      BY <3>3 DEF Resting
    <3>4. QED
      BY <2>1, <3>1, <3>2, <3>3
  <2>3. /\ row' = row \/ row' = RowAfter(Request) \/ (row' = RowAfter(Download) /\ worker.pc = "run")
        /\ late' = late \/ late' = Request
        /\ disk' \in {disk, NoFile}
    BY <1>8 DEF BeginDiskFails, ExecutionFails, DownloadRefused, WriteFails, CheckpointLost,
       CompletionLost, CheckpointAnswered, CompletionAnswered, FailureReported, RemovedOrQueued
  <2>4. Exact(worker'.state)
    BY <1>0, <2>2
  <2>5. QED
    BY <2>2, <2>3, <2>4, ChargeRests
<1>9. QED
  BY <1>1, <1>2, <1>3, <1>4, <1>5, <1>6, <1>7, <1>8 DEF WorkerNext

LEMMA StepCharge == ASSUME WInv, ChargeInv, [WorkerNext]_workerVars PROVE ChargeInv'
<1>1. CASE UNCHANGED workerVars
  BY <1>1 DEF workerVars, ChargeInv
<1>2. CASE WorkerNext
  BY <1>2, ChargeControl, ChargeWorker
<1>3. QED
  BY <1>1, <1>2

(* A task the agent completes is charged for one pass over its segments and
   one reduction, whatever crashes, retries, lost reports and other agents came
   between (runTask, executeArtifact, completeArtifactTask). *)
THEOREM ChargeSafe == WorkerSpec => []ChargedOnePass
<1>1. WorkerInit => ChargeInv
  BY InitCharge
<1>2. WInv /\ ChargeInv /\ [WorkerNext]_workerVars => ChargeInv'
  BY StepCharge
<1>3. ChargeInv => ChargedOnePass
  BY DEF ChargeInv, ChargedOnePass, Price
<1>4. QED
  BY <1>1, <1>2, <1>3, WorkerInvariant, PTL DEF WorkerSpec

---------------------------------------------------------------------------
(***************************************************************************)
(* The coding agent.  The invariant has a part about each session by       *)
(* itself, r its run, g its parallel agents, l its log and p its report,   *)
(* and parts about the files, the checkpoints and the sessions together.   *)
(***************************************************************************)
Places ==
  {"idle", "init", "agents", "model", "asking", "snapshot", "saving", "writing", "verify", "closing",
   "failing", "tool", "ended", "crashed"}
RunType ==
  [pc : Places, flags : SUBSET Flag, turn : 1..2, rules : SUBSET Files, patch : Seq(Files),
   left : Seq(Files), next : 0..MaxCommands, failed : BOOLEAN, applied : SUBSET Files,
   checkpoint : Nat, current : Nat, startRules : SUBSET Files, touched : SUBSET Files]
ReportType ==
  [status : {"none", "completed", "failed"}, applied : SUBSET Files, checkpoint : Nat,
   verdict : {"not-run", "failed", "passed"}]
CallType == [Phases -> {"off", "calling", "done", "failed"}]

(* What a log tells. *)
Tested(l) == \E j \in DOMAIN l : l[j] = "tests.finished"
NoEnd(l) == \A j \in DOMAIN l : l[j] \notin Terminal
EndedAs(l, e) ==
  \E i \in DOMAIN l :
    /\ l[i] = e
    /\ \A j \in DOMAIN l : j < i => l[j] \notin Terminal
    /\ \A j \in DOMAIN l : j > i => e = "run.failed" /\ l[j] = "agent.finished"
Asks(l) == Len(l) > 0 /\ l[Len(l)] = "patch.proposed"
Consent(l, turn) ==
  \E i \in 1..(Len(l) - 1) :
    /\ l[i] = "patch.proposed" /\ l[i + 1] = "approval.granted"
    /\ (turn = 2) <=> \E j \in 1..(i - 1) : l[j] = "tests.finished"

(* A log grows by one event. *)
LEMMA LogGrows ==
  ASSUME NEW l \in Seq(Event), NEW e \in Event, NEW m, m = l \o <<e>>
  PROVE  /\ m \in Seq(Event)
         /\ Tested(m) <=> Tested(l) \/ e = "tests.finished"
         /\ NoEnd(l) /\ e \notin Terminal => NoEnd(m)
         /\ NoEnd(l) /\ e \in Terminal => EndedAs(m, e)
         /\ EndedAs(l, "run.failed") /\ e = "agent.finished" => EndedAs(m, "run.failed")
         /\ \A turn : Consent(l, turn) => Consent(m, turn)
         /\ e = "patch.proposed" => Asks(m)
         /\ \A turn : Asks(l) /\ e = "approval.granted" /\ (turn = 2 <=> Tested(l)) => Consent(m, turn)
<1> DEFINE n == Len(l)
<1>1. /\ m \in Seq(Event) /\ n \in Nat /\ Len(m) = n + 1 /\ m[n + 1] = e
      /\ \A i \in 1..n : m[i] = l[i]
  OBVIOUS
<1>2. DOMAIN l = 1..n /\ DOMAIN m = 1..(n + 1)
  BY <1>1
<1> HIDE DEF n
<1>3. Tested(m) <=> Tested(l) \/ e = "tests.finished"
  <2>1. ASSUME Tested(m) PROVE Tested(l) \/ e = "tests.finished"
    BY <1>1, <1>2, <2>1 DEF Tested
  <2>2. ASSUME Tested(l) PROVE Tested(m)
    BY <1>1, <1>2, <2>2 DEF Tested
  <2>3. ASSUME e = "tests.finished" PROVE Tested(m)
    BY <1>1, <1>2, <2>3 DEF Tested
  <2>4. QED
    BY <2>1, <2>2, <2>3
<1>4. NoEnd(l) /\ e \notin Terminal => NoEnd(m)
  BY <1>1, <1>2 DEF NoEnd
<1>5. NoEnd(l) /\ e \in Terminal => EndedAs(m, e)
  <2> SUFFICES ASSUME NoEnd(l), e \in Terminal PROVE EndedAs(m, e)
    OBVIOUS
  <2>1. n + 1 \in DOMAIN m /\ \A j \in DOMAIN m : ~(j > n + 1) /\ (j < n + 1 => m[j] \notin Terminal)
    BY <1>1, <1>2 DEF NoEnd
  <2>2. QED
    BY <1>1, <2>1 DEF EndedAs
<1>6. EndedAs(l, "run.failed") /\ e = "agent.finished" => EndedAs(m, "run.failed")
  <2> SUFFICES ASSUME EndedAs(l, "run.failed"), e = "agent.finished" PROVE EndedAs(m, "run.failed")
    OBVIOUS
  <2>1. PICK i \in DOMAIN l : /\ l[i] = "run.failed"
                              /\ \A j \in DOMAIN l : j < i => l[j] \notin Terminal
                              /\ \A j \in DOMAIN l : j > i => l[j] = "agent.finished"
    BY DEF EndedAs
  <2>2. i \in DOMAIN m /\ m[i] = "run.failed"
    BY <1>1, <1>2, <2>1
  <2>3. \A j \in DOMAIN m : (j < i => m[j] \notin Terminal) /\ (j > i => m[j] = "agent.finished")
    BY <1>1, <1>2, <2>1
  <2>4. QED
    BY <2>2, <2>3 DEF EndedAs
<1>7. ASSUME NEW turn, Consent(l, turn) PROVE Consent(m, turn)
  <2>1. PICK i \in 1..(n - 1) :
          /\ l[i] = "patch.proposed" /\ l[i + 1] = "approval.granted"
          /\ (turn = 2) <=> \E j \in 1..(i - 1) : l[j] = "tests.finished"
    BY <1>7 DEF Consent, n
  <2>2. i \in 1..(Len(m) - 1) /\ i \in 1..n /\ i + 1 \in 1..n /\ \A j \in 1..(i - 1) : j \in 1..n
    BY <1>1, <2>1
  <2>3. m[i] = l[i] /\ m[i + 1] = l[i + 1] /\ \A j \in 1..(i - 1) : m[j] = l[j]
    BY <1>1, <2>2
  <2>4. QED
    BY <2>1, <2>2, <2>3 DEF Consent
<1>8. e = "patch.proposed" => Asks(m)
  BY <1>1 DEF Asks
<1>9. ASSUME NEW turn, Asks(l), e = "approval.granted", turn = 2 <=> Tested(l) PROVE Consent(m, turn)
  <2>1. n > 0 /\ l[n] = "patch.proposed"
    BY <1>9 DEF Asks, n
  <2>2. n \in 1..(Len(m) - 1) /\ m[n] = "patch.proposed" /\ m[n + 1] = "approval.granted"
    BY <1>1, <1>9, <2>1
  <2>3. Tested(l) <=> \E j \in 1..(n - 1) : m[j] = "tests.finished"
    <3>1. ASSUME Tested(l) PROVE \E j \in 1..(n - 1) : m[j] = "tests.finished"
      <4>1. PICK j \in 1..n : l[j] = "tests.finished"
        BY <1>2, <3>1 DEF Tested
      <4>2. j # n
        BY <2>1, <4>1
      <4>3. j \in 1..(n - 1) /\ m[j] = l[j]
        BY <1>1, <4>1, <4>2
      <4>4. QED
        BY <4>1, <4>3
    <3>2. ASSUME NEW j \in 1..(n - 1), m[j] = "tests.finished" PROVE Tested(l)
      <4>1. j \in 1..n /\ m[j] = l[j]
        BY <1>1, <3>2
      <4>2. QED
        BY <1>2, <3>2, <4>1 DEF Tested
    <3>3. QED
      BY <3>1, <3>2
  <2>4. QED
    BY <1>9, <2>2, <2>3 DEF Consent
<1>10. QED
  BY <1>1, <1>3, <1>4, <1>5, <1>6, <1>7, <1>8, <1>9

LEMMA TwoEvents == ASSUME NEW l \in Seq(Event), NEW d \in Event, NEW e \in Event
                   PROVE  l \o <<d, e>> = (l \o <<d>>) \o <<e>>
<1> DEFINE k == Len(l)
           a == l \o <<d, e>>
           m == l \o <<d>>
           b == m \o <<e>>
<1>1. /\ k \in Nat /\ a \in Seq(Event) /\ Len(a) = k + 2 /\ a[k + 1] = d /\ a[k + 2] = e
      /\ \A i \in 1..k : a[i] = l[i]
  <2>1. <<d, e>> \in Seq(Event) /\ Len(<<d, e>>) = 2 /\ <<d, e>>[1] = d /\ <<d, e>>[2] = e
    OBVIOUS
  <2> DEFINE q == <<d, e>>
  <2> HIDE DEF q
  <2>2. /\ (l \o q) \in Seq(Event) /\ Len(l \o q) = Len(l) + Len(q) /\ Len(l) \in Nat
        /\ \A i \in 1..Len(l) : (l \o q)[i] = l[i]
        /\ \A i \in 1..Len(q) : (l \o q)[Len(l) + i] = q[i]
    BY <2>1 DEF q
  <2>3. QED
    BY <2>1, <2>2 DEF q
<1>2. /\ m \in Seq(Event) /\ Len(m) = k + 1 /\ m[k + 1] = d /\ \A i \in 1..k : m[i] = l[i]
  OBVIOUS
<1> HIDE DEF k, m
<1>3. /\ b \in Seq(Event) /\ Len(b) = k + 2 /\ b[k + 2] = e /\ \A i \in 1..(k + 1) : b[i] = m[i]
  BY <1>1, <1>2
<1> HIDE DEF a, b
<1>4. \A i \in 1..(k + 2) : a[i] = b[i]
  BY <1>1, <1>2, <1>3
<1>5. a = b
  BY <1>1, <1>3, <1>4, SeqEqual
<1>6. QED
  BY <1>5 DEF a, b, m


(* The session by itself. *)
LocalTyped(r, g, l, p) == r \in RunType /\ g \in CallType /\ l \in Seq(Event) /\ p \in ReportType

(* The parallel agents of a phase are waited for, unless one has failed. *)
Called(r, g) == r.pc \notin {"agents", "failing", "ended"} => \A a \in Phases : g[a] # "calling"

(* The log shows a verification exactly if the locals of runTask do. *)
Verified(r, l) ==
  /\ r.pc \in {"idle", "init", "agents", "model", "asking", "snapshot", "saving", "writing"}
       => (r.turn = 2 <=> Tested(l)) /\ (r.turn = 1 => ~r.failed /\ r.next = 0)
  /\ r.pc \in {"verify", "closing"} => (Tested(l) <=> (r.turn = 2 \/ r.failed \/ r.next > 0))

(* Only an ended session has an ending in its log, and its report tells it. *)
Closed(r, g, l, p) ==
  /\ r.pc # "ended" => NoEnd(l) /\ p.status = "none"
  /\ r.pc = "ended" => \E e \in Terminal :
                         /\ EndedAs(l, e)
                         /\ p.status = "completed" => e = "run.completed"
                         /\ p.status = "failed" => e = "run.failed"
                         /\ e = "run.completed" => \A a \in Phases : g[a] # "calling"

(* What runTask says it applied, what is left to write, and what was written. *)
Applied(r, p) ==
  /\ p.applied \subseteq r.touched /\ r.applied \subseteq r.touched
  /\ r.pc \in {"idle", "init"} => r.touched = {}
  /\ r.pc \in {"idle", "init", "agents", "model", "asking", "snapshot", "saving", "verify", "closing"}
       => r.applied = r.touched
  /\ r.pc \in {"asking", "snapshot", "saving"} => r.left = r.patch
  /\ r.pc = "writing" => /\ ToSet(r.left) \subseteq ToSet(r.patch)
                         /\ r.touched \cup ToSet(r.left) = r.applied \cup ToSet(r.patch)

(* The rules of a run are those it began with, and its patch was approved if
   they ask for it. *)
Approved(r, l) ==
  /\ r.pc \notin {"idle", "init", "ended", "crashed"} /\ r.pc # "tool" => r.rules = r.startRules
  /\ r.pc = "asking" => Asks(l)
  /\ r.pc \in {"snapshot", "saving", "writing"}
       => \/ ToSet(r.patch) \cap r.startRules = {} \/ "allowSensitive" \in r.flags
          \/ Consent(l, r.turn)

(* The report of a completed run. *)
Reported(r, l, p) ==
  p.status = "completed" => /\ p.applied = r.touched
                            /\ p.verdict = "not-run" <=> ~Tested(l)

Local(r, g, l, p) ==
  /\ LocalTyped(r, g, l, p) /\ Called(r, g) /\ Verified(r, l) /\ Closed(r, g, l, p)
  /\ Applied(r, p) /\ Approved(r, l) /\ Reported(r, l, p)

LocalInv ==
  /\ run \in [Sessions -> RunType] /\ agents \in [Sessions -> CallType]
  /\ log \in [Sessions -> Seq(Event)] /\ reports \in [Sessions -> ReportType]
  /\ \A s \in Sessions : Local(run[s], agents[s], log[s], reports[s])

LEMMA StartFacts ==
  /\ Unstarted \in RunType /\ NoReport \in ReportType /\ <<>> \in Seq(Event)
  /\ ~Tested(<<>>) /\ NoEnd(<<>>)
<1>1. Unstarted \in RunType /\ NoReport \in ReportType
  BY AgentConstants DEF Unstarted, RunType, NoReport, ReportType, Places
<1>2. <<>> \in Seq(Event) /\ DOMAIN <<>> = {}
  OBVIOUS
<1>3. QED
  BY <1>1, <1>2 DEF Tested, NoEnd

LEMMA InitLocal == AgentInit => LocalInv
<1> SUFFICES ASSUME AgentInit PROVE LocalInv
  OBVIOUS
<1>1. /\ run \in [Sessions -> RunType] /\ agents \in [Sessions -> CallType]
      /\ log \in [Sessions -> Seq(Event)] /\ reports \in [Sessions -> ReportType]
  BY StartFacts DEF AgentInit, CallType
<1>2. ASSUME NEW s \in Sessions PROVE Local(run[s], agents[s], log[s], reports[s])
  <2>1. run[s] = Unstarted /\ log[s] = <<>> /\ reports[s] = NoReport
        /\ agents[s] = [a \in Phases |-> "off"]
    BY DEF AgentInit
  <2>2. QED
    BY <1>1, <2>1, StartFacts DEF Local, LocalTyped, Called, Verified, Closed, Applied, Approved,
       Reported, Unstarted, NoReport
<1>3. QED
  BY <1>1, <1>2 DEF LocalInv

(* A step of session s leaves v, g, l and p of it. *)
StepTo(s, v, g, l, p) ==
  /\ run' = [run EXCEPT ![s] = v] /\ agents' = [agents EXCEPT ![s] = g]
  /\ log' = [log EXCEPT ![s] = l] /\ reports' = [reports EXCEPT ![s] = p]

(* It touches no other session, and takes nothing back. *)
Onward(r, l, v, m) ==
  /\ r.touched \subseteq v.touched
  /\ r.touched # {} => v.startRules = r.startRules /\ v.flags = r.flags
  /\ \A turn : Consent(l, turn) => Consent(m, turn)

SessionMoves(s) ==
  /\ LocalInv'
  /\ Onward(run[s], log[s], run'[s], log'[s])
  /\ \A t \in Sessions : t # s => /\ run'[t] = run[t] /\ agents'[t] = agents[t]
                                  /\ log'[t] = log[t] /\ reports'[t] = reports[t]

LEMMA OneSession ==
  ASSUME LocalInv, NEW s \in Sessions,
         NEW v, NEW g, NEW l, NEW p, Local(v, g, l, p), StepTo(s, v, g, l, p),
         Onward(run[s], log[s], v, l)
  PROVE  SessionMoves(s)
<1> USE DEF StepTo
<1>1. /\ run'[s] = v /\ agents'[s] = g /\ log'[s] = l /\ reports'[s] = p
      /\ \A t \in Sessions : t # s => /\ run'[t] = run[t] /\ agents'[t] = agents[t]
                                      /\ log'[t] = log[t] /\ reports'[t] = reports[t]
  BY DEF LocalInv
<1>2. /\ run' \in [Sessions -> RunType] /\ agents' \in [Sessions -> CallType]
      /\ log' \in [Sessions -> Seq(Event)] /\ reports' \in [Sessions -> ReportType]
  BY DEF LocalInv, Local, LocalTyped
<1>3. \A t \in Sessions : Local(run'[t], agents'[t], log'[t], reports'[t])
  BY <1>1 DEF LocalInv
<1>4. QED
  BY <1>1, <1>2, <1>3 DEF LocalInv, SessionMoves

LEMMA SameSession ==
  ASSUME LocalInv, NEW s \in Sessions
  PROVE  /\ Local(run[s], agents[s], log[s], reports[s])
         /\ run[s] \in RunType /\ agents[s] \in CallType /\ log[s] \in Seq(Event)
         /\ reports[s] \in ReportType
         /\ agents = [agents EXCEPT ![s] = agents[s]] /\ run = [run EXCEPT ![s] = run[s]]
         /\ log = [log EXCEPT ![s] = log[s]] /\ reports = [reports EXCEPT ![s] = reports[s]]
BY DEF LocalInv

(* The locals of a run that is over. *)
Over(r, pc) == [Unstarted EXCEPT !.pc = pc, !.flags = r.flags, !.startRules = r.startRules,
                                 !.touched = r.touched]

LEMMA RunLeaves ==
  ASSUME NEW r \in RunType, NEW pc \in Places
  PROVE  LET v == Over(r, pc)
         IN  /\ v \in RunType /\ v.pc = pc /\ v.flags = r.flags /\ v.applied = {}
             /\ v.startRules = r.startRules /\ v.touched = r.touched
             /\ v.current = 0 /\ v.checkpoint = 0
BY StartFacts DEF RunType, Unstarted, Over

(* A run that goes to its failure report, with or without an event. *)
LEMMA FailingLocal ==
  ASSUME NEW r, NEW g, NEW l, NEW p, Local(r, g, l, p),
         r.pc \notin {"idle", "ended", "crashed", "tool", "init"},
         NEW m, m = l \/ m = l \o <<"approval.refused">>
  PROVE  /\ Local([r EXCEPT !.pc = "failing"], g, m, p)
         /\ Onward(r, l, [r EXCEPT !.pc = "failing"], m)
<1> DEFINE v == [r EXCEPT !.pc = "failing"]
<1>1. r \in RunType /\ l \in Seq(Event) /\ NoEnd(l) /\ p.status = "none"
  BY DEF Local, LocalTyped, Closed
<1>2. /\ v \in RunType /\ v.pc = "failing" /\ v.flags = r.flags /\ v.rules = r.rules
      /\ v.applied = r.applied /\ v.startRules = r.startRules /\ v.touched = r.touched
  BY <1>1 DEF RunType, Places
<1>3. m \in Seq(Event) /\ NoEnd(m) /\ \A turn : Consent(l, turn) => Consent(m, turn)
  <2>1. CASE m = l
    BY <1>1, <2>1
  <2>2. CASE m = l \o <<"approval.refused">>
    <3>1. "approval.refused" \in Event /\ "approval.refused" \notin Terminal
      BY DEF Event, Terminal
    <3>2. QED
      BY <1>1, <2>2, <3>1, LogGrows
  <2>3. QED
    BY <2>1, <2>2
<1> HIDE DEF v
<1>4. Local(v, g, m, p)
  BY <1>1, <1>2, <1>3 DEF Local, LocalTyped, Called, Verified, Closed, Applied, Approved, Reported
<1>5. Onward(r, l, v, m)
  BY <1>2, <1>3 DEF Onward
<1>6. QED
  BY <1>4, <1>5 DEF v

(* A session that ends with the last event of m. *)
LEMMA EndedLocal ==
  ASSUME NEW r, NEW g, NEW l, NEW p, Local(r, g, l, p),
         r.pc \notin {"ended", "crashed"},
         NEW e \in Terminal, NEW m, m \in {l \o <<e>>, l \o <<"review.completed", e>>,
                                           l \o <<"run.started", e>>},
         NEW q \in ReportType, q.applied \subseteq r.touched,
         q.status \in {"none", "completed", "failed"},
         q.status = "completed" => e = "run.completed", q.status = "failed" => e = "run.failed",
         e = "run.completed" => \A a \in Phases : g[a] # "calling",
         q.status = "completed" => q.applied = r.touched /\ (q.verdict = "not-run" <=> ~Tested(l))
  PROVE  Local(Over(r, "ended"), g, m, q) /\ Onward(r, l, Over(r, "ended"), m)
<1> DEFINE v == Over(r, "ended")
<1>1. r \in RunType /\ g \in CallType /\ l \in Seq(Event) /\ NoEnd(l)
  BY DEF Local, LocalTyped, Closed
<1>2. /\ v \in RunType /\ v.pc = "ended" /\ v.flags = r.flags /\ v.applied = {}
      /\ v.startRules = r.startRules /\ v.touched = r.touched
  BY <1>1, RunLeaves DEF Places
<1>3. /\ m \in Seq(Event) /\ EndedAs(m, e) /\ (Tested(m) <=> Tested(l))
      /\ \A turn : Consent(l, turn) => Consent(m, turn)
  <2>1. e \in Event /\ {"review.completed", "run.started"} \subseteq Event \ Terminal
        /\ e # "tests.finished"
    BY DEF Event, Terminal
  <2>2. CASE m = l \o <<e>>
    BY <1>1, <2>1, <2>2, LogGrows
  <2>3. ASSUME NEW d \in {"review.completed", "run.started"}, m = l \o <<d, e>>
        PROVE  /\ m \in Seq(Event) /\ EndedAs(m, e) /\ (Tested(m) <=> Tested(l))
               /\ \A turn : Consent(l, turn) => Consent(m, turn)
    <3> DEFINE k == l \o <<d>>
    <3>1. d \in Event /\ d \notin Terminal /\ d # "tests.finished"
      BY <2>1
    <3>2. /\ k \in Seq(Event) /\ NoEnd(k) /\ (Tested(k) <=> Tested(l))
          /\ \A turn : Consent(l, turn) => Consent(k, turn)
      BY <1>1, <3>1, LogGrows
    <3>3. m = k \o <<e>>
      BY <1>1, <2>1, <2>3, <3>1, TwoEvents
    <3> HIDE DEF k
    <3>4. QED
      BY <2>1, <3>2, <3>3, LogGrows
  <2>4. QED
    BY <2>2, <2>3
<1> HIDE DEF v
<1>4. Local(v, g, m, q)
  BY <1>1, <1>2, <1>3 DEF Local, LocalTyped, Called, Verified, Closed, Applied, Approved, Reported
<1>5. Onward(r, l, v, m)
  BY <1>2, <1>3 DEF Onward
<1>6. QED
  BY <1>4, <1>5 DEF v

LEMMA CrashedLocal ==
  ASSUME NEW r, NEW g, NEW l, NEW p, Local(r, g, l, p),
         r.pc \in {"saving", "writing", "closing"}
  PROVE  Local(Over(r, "crashed"), g, l, p) /\ Onward(r, l, Over(r, "crashed"), l)
<1> DEFINE v == Over(r, "crashed")
<1>1. r \in RunType
  BY DEF Local, LocalTyped
<1>2. /\ v \in RunType /\ v.pc = "crashed" /\ v.flags = r.flags /\ v.applied = {}
      /\ v.startRules = r.startRules /\ v.touched = r.touched
  BY <1>1, RunLeaves DEF Places
<1> HIDE DEF v
<1>3. Local(v, g, l, p) /\ Onward(r, l, v, l)
  BY <1>2 DEF Local, LocalTyped, Called, Verified, Closed, Applied, Approved, Reported, Onward
<1>4. QED
  BY <1>3 DEF v

(* A log that goes on after an event that is no ending. *)
LEMMA OneEvent ==
  ASSUME NEW l \in Seq(Event), NEW e \in Event \ Terminal, NEW m, m = l \o <<e>>, NoEnd(l)
  PROVE  /\ m \in Seq(Event) /\ NoEnd(m) /\ (Tested(m) <=> Tested(l) \/ e = "tests.finished")
         /\ e = "patch.proposed" => Asks(m)
         /\ \A turn : Asks(l) /\ e = "approval.granted" /\ (turn = 2 <=> Tested(l)) => Consent(m, turn)
         /\ \A turn : Consent(l, turn) => Consent(m, turn)
BY LogGrows

(* The steps of runTask, one by one. *)
LEMMA EndingSteps ==
  ASSUME LocalInv, NEW s \in Sessions,
         InitializationFails(s) \/ CompleteRun(s) \/ writeFailureReport(s) \/ ToolBlocked(s)
           \/ ToolFinishes(s) \/ ToolThrows(s)
  PROVE  SessionMoves(s)
<1> DEFINE r == run[s]
           g == agents[s]
           l == log[s]
           p == reports[s]
           v == Over(r, "ended")
<1>0. /\ Local(r, g, l, p) /\ r \in RunType /\ p \in ReportType
      /\ agents = [agents EXCEPT ![s] = g] /\ reports = [reports EXCEPT ![s] = p]
  BY SameSession
<1>1. p.applied \subseteq r.touched /\ (r.pc # "ended" => p.status = "none")
  BY <1>0 DEF Local, Applied, Closed
<1>2. ASSUME NEW e \in Terminal, NEW m, m \in {l \o <<e>>, l \o <<"review.completed", e>>,
                                               l \o <<"run.started", e>>},
             NEW q \in ReportType, r.pc \notin {"ended", "crashed"}, q.applied \subseteq r.touched,
             q.status = "completed" => e = "run.completed", q.status = "failed" => e = "run.failed",
             e = "run.completed" => \A a \in Phases : g[a] # "calling",
             q.status = "completed" => q.applied = r.touched /\ (q.verdict = "not-run" <=> ~Tested(l)),
             run' = [run EXCEPT ![s] = v], log' = [log EXCEPT ![s] = m], UNCHANGED agents,
             reports' = [reports EXCEPT ![s] = q]
      PROVE  SessionMoves(s)
  <2>1. Local(v, g, m, q) /\ Onward(r, l, v, m)
    <3>1. q.status \in {"none", "completed", "failed"}
      BY DEF ReportType
    <3> HIDE DEF r, g, l, p
    <3>2. Local(r, g, l, p) /\ r.pc \notin {"ended", "crashed"} /\ q.applied \subseteq r.touched
      BY <1>0, <1>2
    <3>3. m \in {l \o <<e>>, l \o <<"review.completed", e>>, l \o <<"run.started", e>>}
      BY <1>2
    <3>4. /\ q.status = "completed" => e = "run.completed"
          /\ q.status = "failed" => e = "run.failed"
      BY <1>2
    <3>5. e = "run.completed" => \A a \in Phases : g[a] # "calling"
      BY <1>2
    <3>6. q.status = "completed" => q.applied = r.touched /\ (q.verdict = "not-run" <=> ~Tested(l))
      BY <1>2
    <3>7. QED
      BY <3>1, <3>2, <3>3, <3>4, <3>5, <3>6, EndedLocal
  <2> HIDE DEF v
  <2>2. StepTo(s, v, g, m, q)
    BY <1>0, <1>2 DEF StepTo
  <2>3. QED
    BY <2>1, <2>2, OneSession
<1> HIDE DEF v
<1>3. {"run.completed", "run.failed"} \subseteq Terminal
  BY DEF Terminal
<1>4. ASSUME NEW m, m \in {l \o <<"run.failed">>, l \o <<"review.completed", "run.failed">>,
                           l \o <<"run.started", "run.failed">>},
             r.pc \notin {"ended", "crashed"}, log' = [log EXCEPT ![s] = m],
             run' = [run EXCEPT ![s] = v], UNCHANGED agents, reports' = [reports EXCEPT ![s].status = "failed"]
      PROVE  SessionMoves(s)
  <2> DEFINE q == [p EXCEPT !.status = "failed"]
  <2>1. q \in ReportType /\ q.status = "failed" /\ q.applied \subseteq r.touched
    BY <1>0, <1>1 DEF ReportType
  <2>2. reports' = [reports EXCEPT ![s] = q]
    BY <1>4 DEF LocalInv
  <2> HIDE DEF q
  <2>3. QED
    BY <1>2, <1>3, <1>4, <2>1, <2>2
<1>5. CASE InitializationFails(s)
  <2>1. run' = [run EXCEPT ![s] = v] /\ log' = [log EXCEPT ![s] = l \o <<"review.completed", "run.failed">>]
        /\ r.pc = "init" /\ UNCHANGED agents /\ reports' = [reports EXCEPT ![s].status = "failed"]
    BY <1>5 DEF InitializationFails, Leave, append, At, v, Over
  <2>2. QED
    BY <1>4, <2>1
<1>6. CASE CompleteRun(s)
  <2> DEFINE q == [status |-> "completed", applied |-> r.applied, checkpoint |-> r.checkpoint,
                   verdict |-> verificationStatus(s)]
  <2>1. run' = [run EXCEPT ![s] = v] /\ log' = [log EXCEPT ![s] = l \o <<"review.completed", "run.completed">>]
        /\ r.pc = "closing" /\ UNCHANGED agents /\ reports' = [reports EXCEPT ![s] = q]
    BY <1>6 DEF CompleteRun, Leave, append, At, v, Over
  <2>2. /\ verificationStatus(s) \in {"not-run", "failed", "passed"}
        /\ verificationStatus(s) = "not-run" <=> ~(r.turn = 2 \/ r.failed \/ r.next > 0)
    <3>1. r.turn \in {1, 2} /\ r.failed \in BOOLEAN
      BY <1>0 DEF RunType
    <3>2. CASE r.turn = 2 \/ r.failed
      BY <2>1, <3>1, <3>2 DEF verificationStatus, At
    <3>3. CASE ~(r.turn = 2 \/ r.failed) /\ r.next > 0
      BY <2>1, <3>1, <3>3 DEF verificationStatus, At
    <3>4. CASE ~(r.turn = 2 \/ r.failed) /\ ~(r.next > 0)
      BY <2>1, <3>1, <3>4 DEF verificationStatus, At
    <3>5. QED
      BY <3>2, <3>3, <3>4
  <2>3. /\ q \in ReportType /\ q.applied = r.touched /\ q.status = "completed"
        /\ q.verdict = verificationStatus(s)
    BY <1>0, <2>1, <2>2 DEF ReportType, RunType, Local, Applied
  <2>4. q.verdict = "not-run" <=> ~Tested(l)
    BY <1>0, <2>1, <2>2, <2>3 DEF Local, Verified
  <2>5. \A a \in Phases : g[a] # "calling"
    BY <1>0, <2>1 DEF Local, Called
  <2> HIDE DEF q
  <2>6. QED
    BY <1>2, <1>3, <2>1, <2>3, <2>4, <2>5
<1>7. CASE writeFailureReport(s)
  <2> DEFINE q == [status |-> "failed", applied |-> r.applied, checkpoint |-> r.checkpoint,
                   verdict |-> verificationStatus(s)]
  <2>1. run' = [run EXCEPT ![s] = v] /\ log' = [log EXCEPT ![s] = l \o <<"review.completed", "run.failed">>]
        /\ r.pc = "failing" /\ UNCHANGED agents /\ reports' = [reports EXCEPT ![s] = q]
    BY <1>7 DEF writeFailureReport, Leave, append, At, v, Over
  <2>2. verificationStatus(s) \in {"not-run", "failed", "passed"}
    BY <2>1 DEF verificationStatus, At
  <2>3. q \in ReportType /\ q.applied \subseteq r.touched /\ q.status = "failed"
    BY <1>0, <2>2 DEF ReportType, RunType, Local, Applied
  <2> HIDE DEF q
  <2>4. QED
    BY <1>2, <1>3, <2>1, <2>3
<1>8. CASE ToolBlocked(s)
  <2>1. run' = [run EXCEPT ![s] = v] /\ log' = [log EXCEPT ![s] = l \o <<"run.started", "run.failed">>]
        /\ r.pc = "idle" /\ UNCHANGED agents /\ reports' = [reports EXCEPT ![s].status = "failed"]
    BY <1>8 DEF ToolBlocked, Leave, append, At, v, Over
  <2>2. QED
    BY <1>4, <2>1
<1>9. CASE ToolThrows(s)
  <2>1. run' = [run EXCEPT ![s] = v] /\ log' = [log EXCEPT ![s] = l \o <<"run.failed">>]
        /\ r.pc = "tool" /\ UNCHANGED agents /\ reports' = [reports EXCEPT ![s].status = "failed"]
    BY <1>9 DEF ToolThrows, Leave, append, At, v, Over
  <2>2. QED
    BY <1>4, <2>1
<1>10. CASE ToolFinishes(s)
  <2>1. run' = [run EXCEPT ![s] = v] /\ log' = [log EXCEPT ![s] = l \o <<"run.completed">>]
        /\ r.pc = "tool" /\ UNCHANGED <<agents, reports>>
    BY <1>10 DEF ToolFinishes, Leave, append, At, v, Over
  <2>2. p.status = "none" /\ \A a \in Phases : g[a] # "calling"
    BY <1>0, <1>1, <2>1 DEF Local, Called
  <2>3. QED
    BY <1>0, <1>1, <1>2, <1>3, <2>1, <2>2
<1>11. QED
  BY <1>5, <1>6, <1>7, <1>8, <1>9, <1>10

(* The steps that give the run up. *)
LEMMA FailingSteps ==
  ASSUME LocalInv, NEW s \in Sessions,
         ModelFails(s) \/ RefusePatch(s) \/ CheckpointFails(s) \/ PatchFails(s) \/ BlockCommand(s)
           \/ ClosingThrows(s) \/ CrashRun(s)
  PROVE  SessionMoves(s)
<1> DEFINE r == run[s]
           g == agents[s]
           l == log[s]
           p == reports[s]
<1>0. /\ Local(r, g, l, p) /\ r \in RunType
      /\ agents = [agents EXCEPT ![s] = g] /\ reports = [reports EXCEPT ![s] = p]
      /\ log = [log EXCEPT ![s] = l]
  BY SameSession
<1>1. CASE ModelFails(s) \/ RefusePatch(s) \/ CheckpointFails(s) \/ PatchFails(s) \/ BlockCommand(s)
  <2> DEFINE v == [r EXCEPT !.pc = "failing"]
             m == IF RefusePatch(s) THEN l \o <<"approval.refused">> ELSE l
  <2>1. /\ r.pc \notin {"idle", "ended", "crashed", "tool", "init"}
        /\ run' = [run EXCEPT ![s] = v] /\ UNCHANGED <<agents, reports>>
    BY <1>1 DEF ModelFails, RefusePatch, CheckpointFails, PatchFails, BlockCommand, Go, At, LocalInv
  <2>2. log' = [log EXCEPT ![s] = m]
    BY <1>0, <1>1 DEF ModelFails, RefusePatch, CheckpointFails, PatchFails, BlockCommand, append, LocalInv
  <2>3. m = l \/ m = l \o <<"approval.refused">>
    OBVIOUS
  <2> HIDE DEF m
  <2>4. Local(v, g, m, p) /\ Onward(r, l, v, m)
    BY <1>0, <2>1, <2>3, FailingLocal
  <2> HIDE DEF v
  <2>5. StepTo(s, v, g, m, p)
    BY <1>0, <2>1, <2>2 DEF StepTo
  <2>6. QED
    BY <2>4, <2>5, OneSession
<1>2. CASE ClosingThrows(s) \/ CrashRun(s)
  <2> DEFINE v == Over(r, "crashed")
  <2>1. /\ r.pc \in {"saving", "writing", "closing"} /\ run' = [run EXCEPT ![s] = v]
        /\ UNCHANGED <<agents, reports, log>>
    BY <1>2 DEF ClosingThrows, CrashRun, Leave, At, Over
  <2>2. Local(v, g, l, p) /\ Onward(r, l, v, l)
    BY <1>0, <2>1, CrashedLocal
  <2> HIDE DEF v
  <2>3. StepTo(s, v, g, l, p)
    BY <1>0, <2>1 DEF StepTo
  <2>4. QED
    BY <2>2, <2>3, OneSession
<1>3. QED
  BY <1>1, <1>2

(* The first steps, and those of the parallel agents. *)
LEMMA StartingSteps ==
  ASSUME LocalInv, NEW s \in Sessions, StartRun(s) \/ initializeTask(s) \/ RecordTool(s)
  PROVE  SessionMoves(s)
<1> DEFINE r == run[s]
           g == agents[s]
           l == log[s]
           p == reports[s]
<1>0. /\ Local(r, g, l, p) /\ r \in RunType /\ l \in Seq(Event) /\ g \in CallType
      /\ agents = [agents EXCEPT ![s] = g] /\ reports = [reports EXCEPT ![s] = p]
      /\ log = [log EXCEPT ![s] = l] /\ run = [run EXCEPT ![s] = r]
  BY SameSession
<1>1. /\ "run.started" \in Event \ Terminal /\ "run.started" # "tests.finished"
  BY DEF Event, Terminal
<1>2. CASE StartRun(s) \/ RecordTool(s)
  <2>1. PICK o \in SUBSET Flag, pc \in {"init", "tool"} :
          /\ run' = [run EXCEPT ![s] = [r EXCEPT !.pc = pc, !.flags = o]]
          /\ r.pc = "idle" /\ UNCHANGED <<agents, reports>>
          /\ log' = [log EXCEPT ![s] = l \o <<"run.started">>]
    <3>1. CASE StartRun(s)
      <4>1. PICK o \in OptionsOf[s] : run' = [run EXCEPT ![s].pc = "init", ![s].flags = o]
        BY <3>1 DEF StartRun
      <4>2. o \in SUBSET Flag
        BY AgentConstants
      <4>3. run' = [run EXCEPT ![s] = [r EXCEPT !.pc = "init", !.flags = o]]
        BY <4>1 DEF LocalInv
      <4>4. QED
        BY <3>1, <4>2, <4>3 DEF StartRun, At, append
    <3>2. CASE RecordTool(s)
      <4>1. r = [r EXCEPT !.flags = r.flags] /\ r.flags \in SUBSET Flag
        BY <1>0 DEF RunType
      <4>2. run' = [run EXCEPT ![s] = [r EXCEPT !.pc = "tool", !.flags = r.flags]]
        BY <1>0, <3>2 DEF RecordTool, Go, LocalInv, RunType
      <4>3. QED
        BY <3>2, <4>1, <4>2 DEF RecordTool, At, append
    <3>3. QED
      BY <1>2, <3>1, <3>2
  <2> DEFINE v == [r EXCEPT !.pc = pc, !.flags = o]
             m == l \o <<"run.started">>
  <2>2. /\ v \in RunType /\ v.pc = pc /\ v.turn = r.turn /\ v.failed = r.failed /\ v.next = r.next
        /\ v.applied = r.applied /\ v.touched = r.touched
    BY <1>0 DEF RunType, Places
  <2>3. /\ m \in Seq(Event) /\ NoEnd(m) /\ (Tested(m) <=> Tested(l))
        /\ \A turn : Consent(l, turn) => Consent(m, turn)
    <3> DEFINE e == "run.started"
    <3>1. e \in Event \ Terminal /\ e # "tests.finished" /\ m = l \o <<e>>
      BY <1>1
    <3>2. l \in Seq(Event) /\ NoEnd(l)
      BY <1>0, <2>1 DEF Local, Closed
    <3> HIDE DEF e, l, m
    <3>3. QED
      BY <3>1, <3>2, OneEvent
  <2> HIDE DEF v, m
  <2>4. Local(v, g, m, p)
    BY <1>0, <2>1, <2>2, <2>3 DEF Local, LocalTyped, Called, Verified, Closed, Applied, Approved, Reported
  <2>5. Onward(r, l, v, m)
    BY <1>0, <2>1, <2>2, <2>3 DEF Onward, Local, Applied
  <2>6. StepTo(s, v, g, m, p)
    BY <1>0, <2>1 DEF StepTo, v, m
  <2>7. QED
    BY <2>4, <2>5, <2>6, OneSession
<1>3. CASE initializeTask(s)
  <2> DEFINE rules == readSafetyPolicy(files[PolicyFile])
             parallel == "parallel" \in r.flags /\ Phases # {}
             pc == IF parallel THEN "agents" ELSE "model"
             v == [r EXCEPT !.rules = rules, !.startRules = rules, !.pc = pc]
             h == IF parallel THEN [a \in Phases |-> "calling"] ELSE g
  <2>1. r.pc = "init" /\ run' = [run EXCEPT ![s] = v] /\ UNCHANGED <<log, reports>>
    BY <1>3 DEF initializeTask, At, LocalInv
  <2>2. agents' = [agents EXCEPT ![s] = h] /\ h \in CallType
    BY <1>0, <1>3 DEF initializeTask, CallType
  <2>3. rules \in SUBSET Files /\ pc \in {"agents", "model"}
    BY AgentConstants DEF readSafetyPolicy
  <2>4. pc = "model" => h = g
    OBVIOUS
  <2> HIDE DEF rules, pc, h
  <2>5. /\ v \in RunType /\ v.pc = pc /\ v.turn = r.turn /\ v.failed = r.failed /\ v.next = r.next
        /\ v.applied = r.applied /\ v.touched = r.touched /\ v.rules = rules /\ v.startRules = rules
    BY <1>0, <2>3 DEF RunType, Places
  <2> HIDE DEF v
  <2>6. Local(v, h, l, p)
    BY <1>0, <2>1, <2>2, <2>3, <2>4, <2>5 DEF Local, LocalTyped, Called, Verified, Closed, Applied,
       Approved, Reported
  <2>7. Onward(r, l, v, l)
    BY <1>0, <2>1, <2>5 DEF Onward, Local, Applied
  <2>8. StepTo(s, v, h, l, p)
    BY <1>0, <2>1, <2>2 DEF StepTo
  <2>9. QED
    BY <2>6, <2>7, <2>8, OneSession
<1>4. QED
  BY <1>2, <1>3

LEMMA AgentSteps ==
  ASSUME LocalInv, NEW s \in Sessions, NEW a \in Phases, AgentAnswers(s, a) \/ AgentFails(s, a)
  PROVE  SessionMoves(s)
<1> DEFINE r == run[s]
           g == agents[s]
           l == log[s]
           p == reports[s]
           m == l \o <<"agent.finished">>
<1>0. /\ Local(r, g, l, p) /\ r \in RunType /\ l \in Seq(Event) /\ g \in CallType
      /\ agents = [agents EXCEPT ![s] = g] /\ reports = [reports EXCEPT ![s] = p]
      /\ run = [run EXCEPT ![s] = r]
  BY SameSession
<1>1. "agent.finished" \in Event /\ "agent.finished" \notin Terminal /\ "agent.finished" # "tests.finished"
  BY DEF Event, Terminal
<1>2. PICK answer \in {"done", "failed"} :
        agents' = [agents EXCEPT ![s][a] = answer]
  BY DEF AgentAnswers, AgentFails
<1> DEFINE h == [g EXCEPT ![a] = answer]
<1>3. /\ g[a] = "calling" /\ UNCHANGED reports /\ log' = [log EXCEPT ![s] = m]
      /\ agents' = [agents EXCEPT ![s] = h] /\ h \in CallType /\ \A c \in Phases : h[c] = "calling" => g[c] = "calling"
  BY <1>0, <1>2 DEF AgentAnswers, AgentFails, append, LocalInv, CallType
<1>4. PICK pc \in {r.pc, "model", "failing"} :
        /\ run' = [run EXCEPT ![s] = [r EXCEPT !.pc = pc]]
        /\ pc # r.pc => r.pc = "agents" /\ (pc = "model" => \A c \in Phases : h[c] # "calling")
  <2>1. r = [r EXCEPT !.pc = r.pc] /\ r.pc \in {r.pc, "model", "failing"}
    BY <1>0 DEF RunType
  <2>2. agents'[s] = h
    BY <1>3 DEF LocalInv
  <2>3. CASE run' = run
    BY <1>0, <2>1, <2>3
  <2>4. CASE run' = [run EXCEPT ![s].pc = "model"] /\ r.pc = "agents" /\ \A c \in Phases : agents'[s][c] = "done"
    BY <2>2, <2>4 DEF LocalInv
  <2>5. CASE run' = [run EXCEPT ![s].pc = "failing"] /\ r.pc = "agents"
    BY <2>5 DEF LocalInv
  <2>6. QED
    BY <2>3, <2>4, <2>5 DEF AgentAnswers, AgentFails, At
<1>5. r.pc \in {"agents", "failing", "ended"}
  BY <1>0, <1>3 DEF Local, Called
<1> DEFINE v == [r EXCEPT !.pc = pc]
<1>6. /\ v \in RunType /\ v.pc = pc /\ v.turn = r.turn /\ v.failed = r.failed /\ v.next = r.next /\ v.flags = r.flags
      /\ v.applied = r.applied /\ v.touched = r.touched /\ v.rules = r.rules /\ v.startRules = r.startRules
  BY <1>0, <1>4 DEF RunType, Places
<1>7. /\ m \in Seq(Event) /\ (Tested(m) <=> Tested(l)) /\ (NoEnd(l) => NoEnd(m))
      /\ (EndedAs(l, "run.failed") => EndedAs(m, "run.failed"))
      /\ \A turn : Consent(l, turn) => Consent(m, turn)
  <2> DEFINE e == "agent.finished"
  <2>1. e \in Event /\ e = "agent.finished" /\ e \notin Terminal /\ e # "tests.finished" /\ m = l \o <<e>>
    BY <1>1
  <2>2. l \in Seq(Event)
    BY <1>0
  <2> HIDE DEF e, l, m
  <2>3. QED
    BY <2>1, <2>2, LogGrows
<1> HIDE DEF v, m, h
<1>8. Closed(v, h, m, p)
  <2>1. CASE r.pc # "ended"
    BY <1>0, <1>4, <1>6, <1>7, <2>1 DEF Local, Closed
  <2>2. CASE r.pc = "ended"
    <3>1. PICK e \in Terminal : /\ EndedAs(l, e)
                                /\ p.status = "completed" => e = "run.completed"
                                /\ p.status = "failed" => e = "run.failed"
                                /\ e = "run.completed" => \A c \in Phases : g[c] # "calling"
      BY <1>0, <2>2 DEF Local, Closed
    <3>2. e = "run.failed" /\ v.pc = "ended"
      BY <1>3, <1>4, <1>6, <2>2, <3>1 DEF Terminal
    <3>3. QED
      BY <1>7, <3>1, <3>2 DEF Closed
  <2>3. QED
    BY <2>1, <2>2
<1>9. Local(v, h, m, p)
  BY <1>0, <1>3, <1>4, <1>5, <1>6, <1>7, <1>8 DEF Local, LocalTyped, Called, Verified, Applied,
     Approved, Reported
<1>10. Onward(r, l, v, m)
  BY <1>6, <1>7 DEF Onward
<1>11. StepTo(s, v, h, m, p)
  BY <1>0, <1>3, <1>4 DEF StepTo, v
<1>12. QED
  BY <1>9, <1>10, <1>11, OneSession

(* A step between the two ends of runTask. *)
Middle == {"model", "asking", "snapshot", "saving", "writing", "verify", "closing"}

LEMMA Between ==
  ASSUME LocalInv, NEW s \in Sessions, NEW v \in RunType, NEW m \in Seq(Event),
         run[s].pc \in Middle, v.pc \in Middle,
         v.flags = run[s].flags, v.rules = run[s].rules, v.startRules = run[s].startRules,
         run[s].touched \subseteq v.touched, NoEnd(m),
         \A turn : Consent(log[s], turn) => Consent(m, turn),
         Verified(v, m), Applied(v, reports[s]),
         v.pc = "asking" => Asks(m),
         v.pc \in {"snapshot", "saving", "writing"}
           => \/ ToSet(v.patch) \cap v.startRules = {} \/ "allowSensitive" \in v.flags
              \/ Consent(m, v.turn),
         run' = [run EXCEPT ![s] = v], log' = [log EXCEPT ![s] = m], UNCHANGED <<agents, reports>>
  PROVE  SessionMoves(s)
<1> DEFINE r == run[s]
           g == agents[s]
           l == log[s]
           p == reports[s]
<1>0. /\ Local(r, g, l, p) /\ r \in RunType
      /\ agents = [agents EXCEPT ![s] = g] /\ reports = [reports EXCEPT ![s] = p]
  BY SameSession
<1>1. Approved(v, m)
  BY <1>0 DEF Local, Approved, Middle
<1>2. Called(v, g) /\ Closed(v, g, m, p) /\ Reported(v, m, p) /\ LocalTyped(v, g, m, p)
  BY <1>0 DEF Local, LocalTyped, Called, Closed, Reported, Middle
<1>3. Local(v, g, m, p)
  BY <1>1, <1>2 DEF Local
<1>4. Onward(r, l, v, m)
  BY <1>0 DEF Onward
<1>5. StepTo(s, v, g, m, p)
  BY <1>0 DEF StepTo
<1>6. QED
  BY <1>3, <1>4, <1>5, OneSession

LEMMA ToSetHead ==
  /\ ToSet(<<>>) = {}
  /\ \A q \in Seq(Files) : q # <<>> => /\ Tail(q) \in Seq(Files) /\ Head(q) \in Files
                                       /\ ToSet(q) = {Head(q)} \cup ToSet(Tail(q))
<1>1. ToSet(<<>>) = {}
  BY DEF ToSet
<1>2. ASSUME NEW q \in Seq(Files), q # <<>>
      PROVE  /\ Tail(q) \in Seq(Files) /\ Head(q) \in Files
             /\ ToSet(q) = {Head(q)} \cup ToSet(Tail(q))
  <2>1. /\ Tail(q) \in Seq(Files) /\ Head(q) \in Files /\ Len(q) \in Nat /\ Len(q) > 0
        /\ Len(Tail(q)) = Len(q) - 1 /\ Head(q) = q[1]
        /\ \A i \in 1..(Len(q) - 1) : Tail(q)[i] = q[i + 1]
    BY <1>2, HeadTailProperties, EmptySeq
  <2>2. ASSUME NEW x \in ToSet(q) PROVE x \in {Head(q)} \cup ToSet(Tail(q))
    <3>1. PICK i \in 1..Len(q) : x = q[i]
      BY <2>2 DEF ToSet
    <3>2. CASE i = 1
      BY <2>1, <3>1, <3>2
    <3>3. CASE i # 1
      <4> DEFINE k == i - 1
      <4>1. k \in 1..(Len(q) - 1) /\ i = k + 1
        BY <2>1, <3>1, <3>3
      <4> HIDE DEF k
      <4>2. Tail(q)[k] = x /\ k \in DOMAIN Tail(q)
        BY <2>1, <3>1, <4>1
      <4>3. QED
        BY <4>2 DEF ToSet
    <3>4. QED
      BY <3>2, <3>3
  <2>3. Head(q) \in ToSet(q)
    BY <2>1 DEF ToSet
  <2>4. ASSUME NEW x \in ToSet(Tail(q)) PROVE x \in ToSet(q)
    <3>1. PICK i \in 1..(Len(q) - 1) : x = Tail(q)[i]
      BY <2>1, <2>4 DEF ToSet
    <3>2. i + 1 \in 1..Len(q) /\ x = q[i + 1]
      BY <2>1, <3>1
    <3>3. QED
      BY <3>2 DEF ToSet
  <2>5. QED
    BY <2>1, <2>2, <2>3, <2>4
<1>3. QED
  BY <1>1, <1>2

(* What a session in the middle of its run is like. *)
LEMMA MiddleFacts ==
  ASSUME LocalInv, NEW s \in Sessions, run[s].pc \in Middle
  PROVE  /\ run[s] \in RunType /\ log[s] \in Seq(Event) /\ NoEnd(log[s])
         /\ Verified(run[s], log[s]) /\ Applied(run[s], reports[s]) /\ Approved(run[s], log[s])
         /\ run[s].rules = run[s].startRules
         /\ run = [run EXCEPT ![s] = run[s]] /\ log = [log EXCEPT ![s] = log[s]]
<1>1. /\ Local(run[s], agents[s], log[s], reports[s]) /\ run[s] \in RunType /\ log[s] \in Seq(Event)
      /\ run = [run EXCEPT ![s] = run[s]] /\ log = [log EXCEPT ![s] = log[s]]
  BY SameSession
<1>2. QED
  BY <1>1 DEF Local, Closed, Approved, Middle

LEMMA ProposingSteps ==
  ASSUME LocalInv, NEW s \in Sessions, NothingProposed(s) \/ ProposePatch(s)
  PROVE  SessionMoves(s)
<1> DEFINE r == run[s]
           l == log[s]
           p == reports[s]
<1>0. r.pc = "model" /\ r.pc \in Middle
  BY DEF NothingProposed, ProposePatch, At, Middle
<1>1. /\ r \in RunType /\ l \in Seq(Event) /\ NoEnd(l) /\ Verified(r, l) /\ Applied(r, p)
      /\ r.rules = r.startRules
      /\ log = [log EXCEPT ![s] = l]
  BY <1>0, MiddleFacts
<1>2. CASE NothingProposed(s)
  <2> DEFINE pc == AfterPatch(s, FALSE)
             v == [r EXCEPT !.pc = pc, !.next = 0]
  <2>1. /\ run' = [run EXCEPT ![s] = v] /\ log' = [log EXCEPT ![s] = l] /\ UNCHANGED <<agents, reports>>
    BY <1>1, <1>2 DEF NothingProposed, LocalInv
  <2>2. pc \in {"closing", "verify"}
    BY DEF AfterPatch
  <2> HIDE DEF pc
  <2>3. /\ v \in RunType /\ v.pc = pc /\ v.turn = r.turn /\ v.failed = r.failed /\ v.next = 0
        /\ v.applied = r.applied /\ v.touched = r.touched /\ v.rules = r.rules /\ v.flags = r.flags
        /\ v.startRules = r.startRules /\ v.pc \in Middle
    <3> DEFINE z == 0
    <3>1. z \in 0..MaxCommands /\ z = 0
      BY AgentConstants
    <3>2. pc \in Places /\ pc \in Middle
      BY <2>2 DEF Places, Middle
    <3> HIDE DEF z, r
    <3>3. v = [r EXCEPT !.pc = pc, !.next = z]
      BY <3>1
    <3> HIDE DEF v
    <3>4. QED
      BY <1>1, <3>1, <3>2, <3>3 DEF RunType
  <2> HIDE DEF v
  <2>4. Verified(v, l) /\ Applied(v, p)
    BY <1>0, <1>1, <2>2, <2>3 DEF Verified, Applied, RunType
  <2>5. QED
    BY <1>0, <1>1, <2>1, <2>2, <2>3, <2>4, Between
<1>3. CASE ProposePatch(s)
  <2>1. PICK q \in Seq(Files), pc \in {"closing", "verify", "asking", "snapshot"} :
          /\ run' = [run EXCEPT ![s].patch = q, ![s].left = q, ![s].next = 0, ![s].pc = pc]
          /\ pc = "snapshot" => ~NeedsApproval(s, q)
    <3>1. PICK q \in ProposalsOf[s] :
            run' = [run EXCEPT ![s].patch = q, ![s].left = q, ![s].next = 0,
                      ![s].pc = IF run[s].turn = 1 /\ "apply" \notin run[s].flags THEN AfterPatch(s, TRUE)
                                ELSE IF NeedsApproval(s, q) THEN "asking" ELSE "snapshot"]
      BY <1>3 DEF ProposePatch
    <3> DEFINE pc == IF run[s].turn = 1 /\ "apply" \notin run[s].flags THEN AfterPatch(s, TRUE)
                     ELSE IF NeedsApproval(s, q) THEN "asking" ELSE "snapshot"
    <3>2. q \in Seq(Files)
      BY AgentConstants
    <3>3. AfterPatch(s, TRUE) \in {"closing", "verify"}
      BY DEF AfterPatch
    <3>4. pc \in {"closing", "verify", "asking", "snapshot"} /\ (pc = "snapshot" => ~NeedsApproval(s, q))
      BY <3>3
    <3> HIDE DEF pc
    <3>5. run' = [run EXCEPT ![s].patch = q, ![s].left = q, ![s].next = 0, ![s].pc = pc]
      BY <3>1 DEF pc
    <3>6. QED
      BY <3>2, <3>4, <3>5
  <2> DEFINE v == [r EXCEPT !.patch = q, !.left = q, !.next = 0, !.pc = pc]
             e == "patch.proposed"
             m == l \o <<e>>
  <2>2. run' = [run EXCEPT ![s] = v] /\ UNCHANGED <<agents, reports>>
    BY <1>1, <1>3, <2>1 DEF ProposePatch, LocalInv
  <2>3. log' = [log EXCEPT ![s] = m]
    BY <1>3 DEF ProposePatch, append
  <2>4. e \in Event \ Terminal /\ e # "tests.finished" /\ e = "patch.proposed"
    BY DEF Event, Terminal
  <2>5. /\ v \in RunType /\ v.pc = pc /\ v.turn = r.turn /\ v.failed = r.failed /\ v.next = 0
        /\ v.applied = r.applied /\ v.touched = r.touched /\ v.rules = r.rules /\ v.flags = r.flags
        /\ v.startRules = r.startRules /\ v.patch = q /\ v.left = q /\ v.pc \in Middle
    <3> DEFINE z == 0
    <3>1. z \in 0..MaxCommands /\ z = 0
      BY AgentConstants
    <3>2. pc \in Places /\ pc \in Middle
      BY <2>1 DEF Places, Middle
    <3> HIDE DEF z, r
    <3>3. v = [r EXCEPT !.patch = q, !.left = q, !.next = z, !.pc = pc]
      BY <3>1
    <3> HIDE DEF v
    <3>4. QED
      BY <1>1, <3>1, <3>2, <3>3 DEF RunType
  <2> HIDE DEF v, e
  <2>6. /\ m \in Seq(Event) /\ NoEnd(m) /\ (Tested(m) <=> Tested(l)) /\ Asks(m)
        /\ \A turn : Consent(l, turn) => Consent(m, turn)
    <3> HIDE DEF l
    <3>1. m = l \o <<e>>
      OBVIOUS
    <3> HIDE DEF m
    <3>2. QED
      BY <1>1, <2>4, <3>1, OneEvent
  <2> HIDE DEF m
  <2>7. Verified(v, m) /\ Applied(v, p)
    BY <1>0, <1>1, <2>1, <2>5, <2>6 DEF Verified, Applied, RunType
  <2>8. v.pc = "snapshot" => ToSet(v.patch) \cap v.startRules = {} \/ "allowSensitive" \in v.flags
    BY <1>1, <2>1, <2>5 DEF NeedsApproval
  <2>9. QED
    BY <1>0, <2>1, <2>2, <2>3, <2>5, <2>6, <2>7, <2>8, Between
<1>4. QED
  BY <1>2, <1>3

LEMMA CheckpointSteps ==
  ASSUME LocalInv, NEW s \in Sessions, Len(checkpoints) \in Nat,
         GrantPatch(s) \/ createCheckpoint(s) \/ saveCheckpoint(s)
  PROVE  SessionMoves(s)
<1> DEFINE r == run[s]
           l == log[s]
           p == reports[s]
<1>0. r.pc \in {"asking", "snapshot", "saving"} /\ r.pc \in Middle
  BY DEF GrantPatch, createCheckpoint, saveCheckpoint, At, Middle
<1>1. /\ r \in RunType /\ l \in Seq(Event) /\ NoEnd(l) /\ Verified(r, l) /\ Applied(r, p)
      /\ r.rules = r.startRules /\ Approved(r, l)
      /\ log = [log EXCEPT ![s] = l]
  BY <1>0, MiddleFacts
<1>2. PICK n \in Nat, pc \in {"snapshot", "saving", "writing"} :
        run' = [run EXCEPT ![s] = [r EXCEPT !.pc = pc, !.current = n]]
  <2>1. CASE createCheckpoint(s)
    <3>1. Len(checkpoints) + 1 \in Nat
      OBVIOUS
    <3>2. run' = [run EXCEPT ![s] = [r EXCEPT !.pc = "saving", !.current = Len(checkpoints) + 1]]
      BY <2>1 DEF createCheckpoint, LocalInv
    <3>3. QED
      BY <3>1, <3>2
  <2>2. CASE GrantPatch(s) \/ saveCheckpoint(s)
    <3>1. r.current \in Nat /\ r = [r EXCEPT !.current = r.current]
      BY <1>1 DEF RunType
    <3>2. PICK pc \in {"snapshot", "writing"} : run' = [run EXCEPT ![s] = [r EXCEPT !.pc = pc]]
      BY <2>2 DEF GrantPatch, saveCheckpoint, Go, LocalInv
    <3>3. [r EXCEPT !.pc = pc] = [r EXCEPT !.pc = pc, !.current = r.current]
      BY <1>1 DEF RunType
    <3>4. QED
      BY <3>1, <3>2, <3>3
  <2>3. QED
    BY <2>1, <2>2
<1> DEFINE v == [r EXCEPT !.pc = pc, !.current = n]
<1>3. /\ v \in RunType /\ v.pc = pc /\ v.turn = r.turn /\ v.failed = r.failed /\ v.next = r.next
      /\ v.applied = r.applied /\ v.touched = r.touched /\ v.rules = r.rules /\ v.flags = r.flags
      /\ v.startRules = r.startRules /\ v.patch = r.patch /\ v.left = r.left /\ v.pc \in Middle
  BY <1>1, <1>2 DEF RunType, Places, Middle
<1>4. run'[s] = v
  BY <1>2 DEF LocalInv
<1> HIDE DEF v
<1>5. PICK m \in Seq(Event) :
        /\ log' = [log EXCEPT ![s] = m] /\ NoEnd(m) /\ (Tested(m) <=> Tested(l))
        /\ \A turn : Consent(l, turn) => Consent(m, turn)
        /\ r.pc = "asking" => Consent(m, r.turn)
  <2>1. CASE createCheckpoint(s)
    <3>1. log' = [log EXCEPT ![s] = l] /\ r.pc # "asking"
      BY <1>1, <2>1 DEF createCheckpoint, At
    <3>2. QED
      BY <1>1, <3>1
  <2>2. ASSUME NEW e \in {"approval.granted", "checkpoint.created"}, log' = [log EXCEPT ![s] = l \o <<e>>],
               r.pc = "asking" => e = "approval.granted"
        PROVE  \E m \in Seq(Event) :
                 /\ log' = [log EXCEPT ![s] = m] /\ NoEnd(m) /\ (Tested(m) <=> Tested(l))
                 /\ \A turn : Consent(l, turn) => Consent(m, turn)
                 /\ r.pc = "asking" => Consent(m, r.turn)
    <3> DEFINE m == l \o <<e>>
    <3>1. e \in Event \ Terminal /\ e # "tests.finished" /\ log' = [log EXCEPT ![s] = m]
      BY <2>2 DEF Event, Terminal
    <3>2. r.pc = "asking" => Asks(l) /\ (r.turn = 2 <=> Tested(l))
      BY <1>1 DEF Approved, Verified
    <3>3. /\ m \in Seq(Event) /\ NoEnd(m) /\ (Tested(m) <=> Tested(l))
          /\ \A turn : Asks(l) /\ e = "approval.granted" /\ (turn = 2 <=> Tested(l)) => Consent(m, turn)
          /\ \A turn : Consent(l, turn) => Consent(m, turn)
      <4> HIDE DEF l
      <4>1. m = l \o <<e>>
        OBVIOUS
      <4> HIDE DEF m
      <4>2. QED
        BY <1>1, <3>1, <4>1, OneEvent
    <3> HIDE DEF m
    <3>4. r.pc = "asking" => Consent(m, r.turn)
      BY <2>2, <3>2, <3>3
    <3>5. QED
      BY <3>1, <3>3, <3>4
  <2>3. QED
    BY <2>1, <2>2 DEF GrantPatch, saveCheckpoint, append, At
<1>6. pc = "writing" => r.pc = "saving"
  <2>1. GrantPatch(s) => run'[s].pc = "snapshot"
    BY <1>1 DEF GrantPatch, Go, LocalInv, RunType
  <2>2. createCheckpoint(s) => run'[s].pc = "saving"
    BY <1>1 DEF createCheckpoint, LocalInv, RunType
  <2>3. saveCheckpoint(s) => r.pc = "saving"
    BY DEF saveCheckpoint, At
  <2>4. QED
    BY <1>3, <1>4, <2>1, <2>2, <2>3
<1>7. Verified(v, m) /\ Applied(v, p)
  BY <1>0, <1>1, <1>2, <1>3, <1>5, <1>6 DEF Verified, Applied
<1>8. \/ ToSet(v.patch) \cap v.startRules = {} \/ "allowSensitive" \in v.flags
      \/ Consent(m, v.turn)
  BY <1>0, <1>1, <1>3, <1>5 DEF Approved
<1>9. run' = [run EXCEPT ![s] = v] /\ UNCHANGED <<agents, reports>> /\ v.pc # "asking"
  BY <1>2, <1>3 DEF v, GrantPatch, createCheckpoint, saveCheckpoint
<1>10. QED
  BY <1>0, <1>3, <1>5, <1>7, <1>8, <1>9, Between

LEMMA WritingSteps ==
  ASSUME LocalInv, NEW s \in Sessions, WritePatchedFile(s) \/ FinishPatch(s)
  PROVE  SessionMoves(s)
<1> DEFINE r == run[s]
           l == log[s]
           p == reports[s]
<1>0. r.pc = "writing" /\ r.pc \in Middle
  BY DEF WritePatchedFile, FinishPatch, At, Middle
<1>1. /\ r \in RunType /\ l \in Seq(Event) /\ NoEnd(l) /\ Verified(r, l) /\ Applied(r, p)
      /\ r.rules = r.startRules /\ Approved(r, l)
      /\ log = [log EXCEPT ![s] = l]
  BY <1>0, MiddleFacts
<1>2. CASE WritePatchedFile(s)
  <2> DEFINE q == Tail(r.left)
             w == r.touched \cup {Head(r.left)}
             v == [r EXCEPT !.left = q, !.touched = w]
  <2>1. r.left \in Seq(Files) /\ r.left # <<>>
    BY <1>1, <1>2 DEF RunType, WritePatchedFile
  <2>2. q \in Seq(Files) /\ Head(r.left) \in Files /\ ToSet(r.left) = {Head(r.left)} \cup ToSet(q)
    BY <2>1, ToSetHead
  <2>3. /\ run' = [run EXCEPT ![s] = v] /\ log' = [log EXCEPT ![s] = l] /\ UNCHANGED <<agents, reports>>
    BY <1>1, <1>2 DEF WritePatchedFile, LocalInv
  <2>4. w \in SUBSET Files /\ r.touched \subseteq w /\ w \cup ToSet(q) = r.touched \cup ToSet(r.left)
        /\ ToSet(q) \subseteq ToSet(r.left)
    BY <1>1, <2>2 DEF RunType
  <2> HIDE DEF q, w
  <2>5. /\ v \in RunType /\ v.pc = r.pc /\ v.turn = r.turn /\ v.failed = r.failed /\ v.next = r.next
        /\ v.applied = r.applied /\ v.touched = w /\ v.rules = r.rules /\ v.flags = r.flags
        /\ v.startRules = r.startRules /\ v.patch = r.patch /\ v.left = q
    BY <1>1, <2>2, <2>4 DEF RunType
  <2> HIDE DEF v
  <2>6. Verified(v, l)
    BY <1>0, <1>1, <2>5 DEF Verified
  <2>7. Applied(v, p)
    BY <1>0, <1>1, <2>4, <2>5 DEF Applied
  <2>8. \/ ToSet(v.patch) \cap v.startRules = {} \/ "allowSensitive" \in v.flags
        \/ Consent(l, v.turn)
    BY <1>0, <1>1, <2>5 DEF Approved
  <2>9. QED
    BY <1>0, <1>1, <2>3, <2>4, <2>5, <2>6, <2>7, <2>8, Between
<1>3. CASE FinishPatch(s)
  <2> DEFINE e == "patch.applied"
             m == l \o <<e>>
             pc == AfterPatch(s, TRUE)
             w == r.applied \cup ToSet(r.patch)
             c == r.current
             v == [r EXCEPT !.pc = pc, !.applied = w, !.checkpoint = c]
  <2>1. /\ run' = [run EXCEPT ![s] = v] /\ log' = [log EXCEPT ![s] = m] /\ UNCHANGED <<agents, reports>>
        /\ r.left = <<>>
    BY <1>3 DEF FinishPatch, append, LocalInv
  <2>2. pc \in {"closing", "verify"} /\ c \in Nat
    BY <1>1 DEF AfterPatch, RunType
  <2>3. w = r.touched /\ w \in SUBSET Files
    BY <1>0, <1>1, <2>1, ToSetHead DEF Applied, RunType
  <2>4. e \in Event \ Terminal /\ e # "tests.finished"
    BY DEF Event, Terminal
  <2> HIDE DEF pc, w, c, e
  <2>5. /\ v \in RunType /\ v.pc = pc /\ v.turn = r.turn /\ v.failed = r.failed /\ v.next = r.next
        /\ v.applied = w /\ v.touched = r.touched /\ v.rules = r.rules /\ v.flags = r.flags
        /\ v.startRules = r.startRules /\ v.pc \in Middle
    BY <1>1, <2>2, <2>3 DEF RunType, Places, Middle
  <2> HIDE DEF v
  <2>6. /\ m \in Seq(Event) /\ NoEnd(m) /\ (Tested(m) <=> Tested(l))
        /\ \A turn : Consent(l, turn) => Consent(m, turn)
    <3> HIDE DEF l
    <3>1. m = l \o <<e>>
      OBVIOUS
    <3> HIDE DEF m
    <3>2. QED
      BY <1>1, <2>4, <3>1, OneEvent
  <2> HIDE DEF m
  <2>7. Verified(v, m)
    <3>1. (r.turn = 2 <=> Tested(m)) /\ (r.turn = 1 => ~r.failed /\ r.next = 0) /\ r.turn \in {1, 2}
      BY <1>0, <1>1, <2>6 DEF Verified, RunType
    <3>2. QED
      BY <2>2, <2>5, <3>1 DEF Verified
  <2>8. Applied(v, p)
    BY <1>1, <2>2, <2>3, <2>5 DEF Applied
  <2>9. QED
    BY <1>0, <2>1, <2>2, <2>5, <2>6, <2>7, <2>8, Between
<1>4. QED
  BY <1>2, <1>3

LEMMA VerifyingSteps ==
  ASSUME LocalInv, NEW s \in Sessions, RunCommand(s) \/ FinishVerification(s)
  PROVE  SessionMoves(s)
<1> DEFINE r == run[s]
           l == log[s]
           p == reports[s]
<1>0. r.pc = "verify" /\ r.pc \in Middle
  BY DEF RunCommand, FinishVerification, At, Middle
<1>1. /\ r \in RunType /\ l \in Seq(Event) /\ NoEnd(l) /\ Verified(r, l) /\ Applied(r, p)
      /\ r.rules = r.startRules
      /\ log = [log EXCEPT ![s] = l]
  BY <1>0, MiddleFacts
<1>2. CASE RunCommand(s)
  <2>1. PICK n \in 0..MaxCommands, d \in BOOLEAN :
          /\ run' = [run EXCEPT ![s] = [r EXCEPT !.next = n, !.failed = d]]
          /\ n > 0
    <3>1. PICK ok \in BOOLEAN :
            run' = [run EXCEPT ![s].next = IF ok THEN @ + 1 ELSE MaxCommands, ![s].failed = @ \/ ~ok]
      BY <1>2 DEF RunCommand
    <3> DEFINE n == IF ok THEN r.next + 1 ELSE MaxCommands
               d == r.failed \/ ~ok
    <3>2. run' = [run EXCEPT ![s] = [r EXCEPT !.next = n, !.failed = d]]
      BY <3>1 DEF LocalInv
    <3>3. r.next \in 0..MaxCommands /\ r.next < MaxCommands /\ MaxCommands \in Nat
      BY <1>1, <1>2, AgentConstants DEF RunCommand, RunType
    <3>4. n \in 0..MaxCommands /\ n > 0 /\ d \in BOOLEAN
      BY <3>3
    <3> HIDE DEF n, d
    <3>5. QED
      BY <3>2, <3>4
  <2> DEFINE e == "tests.finished"
             m == l \o <<e>>
             v == [r EXCEPT !.next = n, !.failed = d]
  <2>2. log' = [log EXCEPT ![s] = m] /\ UNCHANGED <<agents, reports>>
    BY <1>2 DEF RunCommand, append
  <2>3. e \in Event \ Terminal /\ e = "tests.finished"
    BY DEF Event, Terminal
  <2> HIDE DEF e
  <2>4. /\ v \in RunType /\ v.pc = r.pc /\ v.turn = r.turn /\ v.next = n
        /\ v.applied = r.applied /\ v.touched = r.touched /\ v.rules = r.rules /\ v.flags = r.flags
        /\ v.startRules = r.startRules
    BY <1>1, <2>1 DEF RunType
  <2> HIDE DEF v
  <2>5. /\ m \in Seq(Event) /\ NoEnd(m) /\ Tested(m)
        /\ \A turn : Consent(l, turn) => Consent(m, turn)
    <3> HIDE DEF l
    <3>1. m = l \o <<e>>
      OBVIOUS
    <3> HIDE DEF m
    <3>2. QED
      BY <1>1, <2>3, <3>1, OneEvent
  <2> HIDE DEF m
  <2>6. Verified(v, m) /\ Applied(v, p)
    BY <1>0, <1>1, <2>1, <2>4, <2>5 DEF Verified, Applied
  <2>7. run' = [run EXCEPT ![s] = v]
    BY <2>1 DEF v
  <2>8. QED
    BY <1>0, <1>1, <2>2, <2>4, <2>5, <2>6, <2>7, Between
<1>3. CASE FinishVerification(s)
  <2>1. PICK t \in 1..2, pc \in {"model", "closing"} :
          /\ run' = [run EXCEPT ![s] = [r EXCEPT !.pc = pc, !.turn = t]]
          /\ pc = "model" => t = 2 /\ r.failed
          /\ pc = "closing" => t = r.turn
    <3>1. CASE run' = [run EXCEPT ![s].pc = "model", ![s].turn = 2] /\ r.failed
      <4> DEFINE t == 2
                 pc == "model"
      <4>1. run' = [run EXCEPT ![s] = [r EXCEPT !.pc = pc, !.turn = t]]
        BY <3>1 DEF LocalInv
      <4>2. t \in 1..2 /\ t = 2 /\ r.failed /\ pc = "model"
        BY <3>1
      <4> HIDE DEF t, pc
      <4>3. QED
        BY <4>1, <4>2
    <3>2. CASE run' = [run EXCEPT ![s].pc = "closing"]
      <4>1. r.turn \in 1..2
        BY <1>1 DEF RunType
      <4>2. run' = [run EXCEPT ![s] = [r EXCEPT !.pc = "closing", !.turn = r.turn]]
        <5> DEFINE c == "closing"
        <5>1. run' = [run EXCEPT ![s] = [r EXCEPT !.pc = c]]
          BY <3>2 DEF LocalInv
        <5> HIDE DEF c, r
        <5>2. [r EXCEPT !.pc = c] = [r EXCEPT !.pc = c, !.turn = r.turn]
          BY <1>1 DEF RunType
        <5>3. QED
          BY <5>1, <5>2 DEF c
      <4>3. QED
        BY <4>1, <4>2
    <3>3. QED
      BY <1>3, <3>1, <3>2 DEF FinishVerification, Go
  <2> DEFINE v == [r EXCEPT !.pc = pc, !.turn = t]
  <2>2. run' = [run EXCEPT ![s] = v] /\ log' = [log EXCEPT ![s] = l] /\ UNCHANGED <<agents, reports>>
    BY <1>1, <1>3, <2>1 DEF FinishVerification
  <2>3. /\ v \in RunType /\ v.pc = pc /\ v.turn = t /\ v.next = r.next /\ v.failed = r.failed
        /\ v.applied = r.applied /\ v.touched = r.touched /\ v.rules = r.rules /\ v.flags = r.flags
        /\ v.startRules = r.startRules /\ v.pc \in Middle
    BY <1>1, <2>1 DEF RunType, Places, Middle
  <2> HIDE DEF v
  <2>4. Verified(v, l) /\ Applied(v, p)
    BY <1>0, <1>1, <2>1, <2>3 DEF Verified, Applied
  <2>5. QED
    BY <1>0, <1>1, <2>1, <2>2, <2>3, <2>4, Between
<1>4. QED
  BY <1>2, <1>3

(* Every step of a session. *)
LEMMA LocalStep ==
  ASSUME LocalInv, NEW s \in Sessions, Len(checkpoints) \in Nat, RunStep(s)
  PROVE  SessionMoves(s)
BY EndingSteps, FailingSteps, StartingSteps, AgentSteps, ProposingSteps, CheckpointSteps, WritingSteps,
   VerifyingSteps DEF RunStep

---------------------------------------------------------------------------
(* The files and the checkpoints. *)
MineType == [by : {User}, n : 0..MaxEdits]
CheckpointType ==
  {c \in [owner : Sessions, saved : UNION {[D -> FileContent] : D \in SUBSET Files},
          base : UNION {[D -> MineType] : D \in SUBSET Files}, state : {"torn", "whole"}] :
     DOMAIN c.base = DOMAIN c.saved}

(* A whole checkpoint of cs holds content c for file f. *)
Kept(cs, f, c) ==
  \E k \in DOMAIN cs : cs[k].state = "whole" /\ f \in DOMAIN cs[k].saved /\ cs[k].saved[f] = c

TreeOK(fs, mn, cs) ==
  \A f \in Files : IF fs[f].by = User THEN fs[f] = mn[f] ELSE Kept(cs, f, mn[f])

(* What a checkpoint took from a run is covered by another. *)
BaseOK(cs) ==
  \A i \in DOMAIN cs : \A f \in DOMAIN cs[i].saved :
    IF cs[i].saved[f].by = User THEN cs[i].saved[f] = cs[i].base[f] ELSE Kept(cs, f, cs[i].base[f])

(* The files of a patch are safe before the first of them is written. *)
PatchOK(r, mn, cs) ==
  /\ r.pc = "saving" =>
       /\ r.current \in DOMAIN cs /\ DOMAIN cs[r.current].saved = ToSet(r.patch)
       /\ \A f \in ToSet(r.patch) : Kept(cs, f, mn[f]) \/ cs[r.current].saved[f] = mn[f]
  /\ r.pc = "writing" => \A f \in ToSet(r.patch) : Kept(cs, f, mn[f])

(* Checkpoint k is the last one of session s; 0 if it has none. *)
LastOf(s, k, cs) ==
  IF \E i \in DOMAIN cs : cs[i].owner = s
  THEN k \in DOMAIN cs /\ cs[k].owner = s /\ \A i \in DOMAIN cs : cs[i].owner = s => i <= k
  ELSE k = 0

CountedOK(s, r, p, cs) ==
  /\ r.current <= Len(cs) /\ r.checkpoint <= Len(cs) /\ p.checkpoint <= Len(cs)
  /\ r.pc \in {"saving", "writing"} => r.current > 0 /\ LastOf(s, r.current, cs)
  /\ r.pc \in {"idle", "init", "agents", "model", "asking", "snapshot", "verify", "closing"}
       => LastOf(s, r.checkpoint, cs)
  /\ p.status = "completed" => LastOf(s, p.checkpoint, cs)

TreeInv ==
  /\ files \in [Files -> FileContent] /\ mine \in [Files -> MineType]
  /\ checkpoints \in Seq(CheckpointType)
  /\ edits \in 0..MaxEdits /\ rollbacks \in 0..MaxRollbacks
  /\ TreeOK(files, mine, checkpoints) /\ BaseOK(checkpoints)
  /\ \A s \in Sessions : PatchOK(run[s], mine, checkpoints)
                         /\ CountedOK(s, run[s], reports[s], checkpoints)

(* Content c of file f, wherever it is, is the user's, or of a run that wrote
   the file and, if its rules asked for it, had the patch approved. *)
WrittenOK(f, c, rs, ls) ==
  \A s \in Sessions, turn \in 1..2 :
    c = ByRun(s, turn) =>
      /\ f \in rs[s].touched
      /\ f \in rs[s].startRules /\ "allowSensitive" \notin rs[s].flags => Consent(ls[s], turn)

WrittenInv ==
  /\ \A f \in Files : WrittenOK(f, files[f], run, log)
  /\ \A i \in DOMAIN checkpoints : \A f \in DOMAIN checkpoints[i].saved :
       WrittenOK(f, checkpoints[i].saved[f], run, log)

LEMMA CheckpointFacts ==
  ASSUME NEW c \in CheckpointType
  PROVE  /\ c.owner \in Sessions /\ c.state \in {"torn", "whole"}
         /\ DOMAIN c.saved \subseteq Files /\ DOMAIN c.base = DOMAIN c.saved
         /\ \A f \in DOMAIN c.saved : c.saved[f] \in FileContent /\ c.base[f] \in MineType
<1>1. /\ c \in [owner : Sessions, saved : UNION {[D -> FileContent] : D \in SUBSET Files},
                base : UNION {[D -> MineType] : D \in SUBSET Files}, state : {"torn", "whole"}]
      /\ DOMAIN c.base = DOMAIN c.saved
  BY DEF CheckpointType
<1>2. PICK D \in SUBSET Files : c.saved \in [D -> FileContent]
  BY <1>1
<1>3. PICK E \in SUBSET Files : c.base \in [E -> MineType]
  BY <1>1
<1>4. QED
  BY <1>1, <1>2, <1>3

LEMMA NewCheckpoint ==
  ASSUME NEW s \in Sessions, NEW D \in SUBSET Files, NEW sv \in [D -> FileContent], NEW bs \in [D -> MineType]
  PROVE  [owner |-> s, saved |-> sv, base |-> bs, state |-> "torn"] \in CheckpointType
<1>1. sv \in UNION {[E -> FileContent] : E \in SUBSET Files}
  OBVIOUS
<1>2. bs \in UNION {[E -> MineType] : E \in SUBSET Files}
  OBVIOUS
<1>3. DOMAIN sv = D /\ DOMAIN bs = D
  OBVIOUS
<1>4. QED
  BY <1>1, <1>2, <1>3 DEF CheckpointType

LEMMA WholeCheckpoint ==
  ASSUME NEW c \in CheckpointType, NEW d, d = [c EXCEPT !.state = "whole"]
  PROVE  /\ d \in CheckpointType
         /\ d.owner = c.owner /\ d.saved = c.saved /\ d.base = c.base /\ d.state = "whole"
<1>1. /\ c \in [owner : Sessions, saved : UNION {[D -> FileContent] : D \in SUBSET Files},
                base : UNION {[D -> MineType] : D \in SUBSET Files}, state : {"torn", "whole"}]
      /\ DOMAIN c.base = DOMAIN c.saved
  BY DEF CheckpointType
<1> DEFINE S == UNION {[D -> FileContent] : D \in SUBSET Files}
           B == UNION {[D -> MineType] : D \in SUBSET Files}
<1>2. c \in [owner : Sessions, saved : S, base : B, state : {"torn", "whole"}]
  BY <1>1
<1> HIDE DEF S, B
<1>3. /\ d \in [owner : Sessions, saved : S, base : B, state : {"torn", "whole"}]
      /\ d.owner = c.owner /\ d.saved = c.saved /\ d.base = c.base /\ d.state = "whole"
  BY <1>2
<1>4. QED
  BY <1>1, <1>3 DEF CheckpointType, S, B

(* Checkpoints are added and become whole; what they hold stays. *)
Grown(cs, cd) ==
  /\ DOMAIN cs \subseteq DOMAIN cd
  /\ \A i \in DOMAIN cs : /\ cd[i].owner = cs[i].owner /\ cd[i].saved = cs[i].saved
                          /\ cd[i].base = cs[i].base
                          /\ cs[i].state = "whole" => cd[i].state = "whole"

LEMMA KeptOn == ASSUME NEW cs, NEW cd, Grown(cs, cd), NEW f, NEW c, Kept(cs, f, c)
                PROVE  Kept(cd, f, c)
<1>1. PICK k \in DOMAIN cs : cs[k].state = "whole" /\ f \in DOMAIN cs[k].saved /\ cs[k].saved[f] = c
  BY DEF Kept
<1>2. k \in DOMAIN cd /\ cd[k].state = "whole" /\ cd[k].saved = cs[k].saved
  BY <1>1 DEF Grown
<1>3. QED
  BY <1>1, <1>2 DEF Kept

(* The other sessions keep what they had. *)
LEMMA OthersOn ==
  ASSUME NEW cs, NEW cd, Grown(cs, cd), NEW r, NEW mn, PatchOK(r, mn, cs)
  PROVE  PatchOK(r, mn, cd)
<1>1. ASSUME r.pc = "saving"
      PROVE  /\ r.current \in DOMAIN cd /\ DOMAIN cd[r.current].saved = ToSet(r.patch)
             /\ \A f \in ToSet(r.patch) : Kept(cd, f, mn[f]) \/ cd[r.current].saved[f] = mn[f]
  <2>1. /\ r.current \in DOMAIN cs /\ DOMAIN cs[r.current].saved = ToSet(r.patch)
        /\ \A f \in ToSet(r.patch) : Kept(cs, f, mn[f]) \/ cs[r.current].saved[f] = mn[f]
    BY <1>1 DEF PatchOK
  <2>2. r.current \in DOMAIN cd /\ cd[r.current].saved = cs[r.current].saved
    BY <2>1 DEF Grown
  <2>3. ASSUME NEW f \in ToSet(r.patch) PROVE Kept(cd, f, mn[f]) \/ cd[r.current].saved[f] = mn[f]
    <3>1. CASE Kept(cs, f, mn[f])
      BY <3>1, KeptOn
    <3>2. CASE cs[r.current].saved[f] = mn[f]
      BY <2>2, <3>2
    <3>3. QED
      BY <2>1, <3>1, <3>2
  <2>4. QED
    BY <2>1, <2>2, <2>3
<1>2. ASSUME r.pc = "writing" PROVE \A f \in ToSet(r.patch) : Kept(cd, f, mn[f])
  BY <1>2, KeptOn DEF PatchOK
<1>3. QED
  BY <1>1, <1>2 DEF PatchOK

LEMMA BaseOn ==
  ASSUME NEW cs, NEW cd, Grown(cs, cd), BaseOK(cs), NEW i \in DOMAIN cs, NEW f \in DOMAIN cd[i].saved
  PROVE  IF cd[i].saved[f].by = User THEN cd[i].saved[f] = cd[i].base[f] ELSE Kept(cd, f, cd[i].base[f])
<1>1. cd[i].saved = cs[i].saved /\ cd[i].base = cs[i].base
  BY DEF Grown
<1>2. IF cs[i].saved[f].by = User THEN cs[i].saved[f] = cs[i].base[f] ELSE Kept(cs, f, cs[i].base[f])
  BY <1>1 DEF BaseOK
<1>3. Kept(cs, f, cs[i].base[f]) => Kept(cd, f, cs[i].base[f])
  BY KeptOn
<1>4. QED
  BY <1>1, <1>2, <1>3

LEMMA TreeOn ==
  ASSUME NEW cs, NEW cd, Grown(cs, cd), NEW fs, NEW mn, TreeOK(fs, mn, cs)
  PROVE  TreeOK(fs, mn, cd)
<1>1. \A f \in Files : Kept(cs, f, mn[f]) => Kept(cd, f, mn[f])
  BY KeptOn
<1>2. QED
  BY <1>1 DEF TreeOK

(* No step that leaves the tree and the checkpoints alone moves a session into
   its writes, or makes it forget its last checkpoint. *)
Early == {"idle", "init", "agents", "model", "asking", "snapshot", "verify", "closing"}
Quiet(r, p, v, q) ==
  /\ v.pc \notin {"saving", "writing"}
  /\ v.current \in {r.current, 0} /\ v.checkpoint \in {r.checkpoint, r.current, 0}
  /\ q.checkpoint \in {p.checkpoint, r.checkpoint}
  /\ v.pc \in Early => \/ r.pc \in Early /\ v.checkpoint = r.checkpoint
                       \/ r.pc = "writing" /\ v.checkpoint = r.current
  /\ q.status = "completed" => q = p \/ (r.pc = "closing" /\ q.checkpoint = r.checkpoint)

LEMMA CountedOn ==
  ASSUME NEW s \in Sessions, NEW r \in RunType, NEW p \in ReportType, NEW v, NEW q, NEW cs \in Seq(CheckpointType),
         CountedOK(s, r, p, cs), Quiet(r, p, v, q)
  PROVE  CountedOK(s, v, q, cs) /\ \A mn : PatchOK(v, mn, cs)
<1>1. Len(cs) \in Nat
  OBVIOUS
<1>2. v.current <= Len(cs) /\ v.checkpoint <= Len(cs) /\ q.checkpoint <= Len(cs)
  BY <1>1 DEF CountedOK, Quiet, RunType, ReportType
<1>3. v.pc \in Early => LastOf(s, v.checkpoint, cs)
  BY DEF CountedOK, Quiet, Early
<1>4. q.status = "completed" => LastOf(s, q.checkpoint, cs)
  BY DEF CountedOK, Quiet
<1>5. v.pc \notin {"saving", "writing"}
  BY DEF Quiet
<1>6. QED
  BY <1>2, <1>3, <1>4, <1>5 DEF CountedOK, PatchOK, Early

Still == UNCHANGED <<files, mine, edits, checkpoints, rollbacks>>

LEMMA QuietEnds ==
  ASSUME LocalInv, NEW s \in Sessions,
         InitializationFails(s) \/ CompleteRun(s) \/ writeFailureReport(s) \/ ToolBlocked(s)
           \/ ToolFinishes(s) \/ ToolThrows(s) \/ ClosingThrows(s) \/ CrashRun(s)
  PROVE  Still /\ Quiet(run[s], reports[s], run'[s], reports'[s])
<1> DEFINE r == run[s]
           p == reports[s]
<1>0. r \in RunType /\ p \in ReportType /\ run \in [Sessions -> RunType] /\ reports \in [Sessions -> ReportType]
  BY DEF LocalInv
<1>1. Still
  BY DEF Still, InitializationFails, CompleteRun, writeFailureReport, ToolBlocked, ToolFinishes, ToolThrows,
     ClosingThrows, CrashRun
<1>2. \E pc \in {"ended", "crashed"} : run' = [run EXCEPT ![s] = Over(r, pc)]
  BY DEF InitializationFails, CompleteRun, writeFailureReport, ToolBlocked, ToolFinishes, ToolThrows,
     ClosingThrows, CrashRun, Leave, Over
<1>3. PICK pc \in {"ended", "crashed"} : run'[s] = Over(r, pc)
  BY <1>0, <1>2
<1>4. run'[s].pc \in {"ended", "crashed"} /\ run'[s].current = 0 /\ run'[s].checkpoint = 0
  BY <1>0, <1>3, RunLeaves DEF Places
<1>5. \/ reports'[s] = p
      \/ reports'[s].status = "failed" /\ reports'[s].checkpoint \in {p.checkpoint, r.checkpoint}
      \/ r.pc = "closing" /\ reports'[s].checkpoint = r.checkpoint
  <2>1. CASE ToolFinishes(s) \/ ClosingThrows(s) \/ CrashRun(s)
    BY <2>1 DEF ToolFinishes, ClosingThrows, CrashRun
  <2>2. CASE InitializationFails(s) \/ ToolBlocked(s) \/ ToolThrows(s)
    <3>1. reports' = [reports EXCEPT ![s].status = "failed"]
      BY <2>2 DEF InitializationFails, ToolBlocked, ToolThrows
    <3>2. reports'[s].status = "failed" /\ reports'[s].checkpoint = p.checkpoint
      BY <1>0, <3>1 DEF ReportType
    <3>3. QED
      BY <3>2
  <2>3. CASE writeFailureReport(s)
    BY <1>0, <2>3 DEF writeFailureReport
  <2>4. CASE CompleteRun(s)
    BY <1>0, <2>4 DEF CompleteRun, At
  <2>5. QED
    BY <2>1, <2>2, <2>3, <2>4
<1>6. QED
  BY <1>1, <1>4, <1>5 DEF Quiet, Early

LEMMA QuietSteps ==
  ASSUME LocalInv, NEW s \in Sessions,
         \/ StartRun(s) \/ initializeTask(s) \/ RecordTool(s)
         \/ \E a \in Phases : AgentAnswers(s, a) \/ AgentFails(s, a)
         \/ ModelFails(s) \/ NothingProposed(s) \/ ProposePatch(s) \/ GrantPatch(s) \/ RefusePatch(s)
         \/ CheckpointFails(s) \/ PatchFails(s) \/ FinishPatch(s)
         \/ BlockCommand(s) \/ RunCommand(s) \/ FinishVerification(s)
  PROVE  Still /\ Quiet(run[s], reports[s], run'[s], reports'[s])
<1> DEFINE r == run[s]
           p == reports[s]
           v == run'[s]
<1>0. r \in RunType /\ run \in [Sessions -> RunType] /\ Called(r, agents[s])
  BY DEF LocalInv, Local
<1> SUFFICES /\ Still /\ reports'[s] = p /\ v.pc \notin {"saving", "writing"} /\ v.current = r.current
             /\ \/ v.checkpoint = r.checkpoint /\ (v.pc \in Early => r.pc \in Early)
                \/ v.checkpoint = r.current /\ r.pc = "writing"
  BY DEF Quiet
<1>1. CASE ModelFails(s) \/ RefusePatch(s) \/ CheckpointFails(s) \/ PatchFails(s) \/ BlockCommand(s)
           \/ RecordTool(s) \/ GrantPatch(s)
  <2>1. PICK pc \in {"failing", "tool", "snapshot"} :
          run' = [run EXCEPT ![s].pc = pc] /\ (pc = "snapshot" => r.pc = "asking")
    BY <1>1 DEF ModelFails, RefusePatch, CheckpointFails, PatchFails, BlockCommand, RecordTool, GrantPatch, Go, At
  <2>2. v.pc = pc /\ v.current = r.current /\ v.checkpoint = r.checkpoint
    BY <1>0, <2>1 DEF RunType
  <2>3. Still /\ reports'[s] = p
    BY <1>1 DEF Still, ModelFails, RefusePatch, CheckpointFails, PatchFails, BlockCommand, RecordTool, GrantPatch
  <2>4. QED
    BY <2>1, <2>2, <2>3 DEF Early
<1>2. CASE StartRun(s) \/ initializeTask(s)
  <2>1. Still /\ reports'[s] = p /\ r.pc \in {"idle", "init"}
    BY <1>2 DEF StartRun, initializeTask, Still, At
  <2>2. v.pc \in {"init", "agents", "model"} /\ v.current = r.current /\ v.checkpoint = r.checkpoint
    <3>1. CASE StartRun(s)
      BY <1>0, <3>1 DEF StartRun, RunType
    <3>2. CASE initializeTask(s)
      BY <1>0, <3>2 DEF initializeTask, RunType
    <3>3. QED
      BY <1>2, <3>1, <3>2
  <2>3. QED
    BY <2>1, <2>2 DEF Early
<1>3. CASE \E a \in Phases : AgentAnswers(s, a) \/ AgentFails(s, a)
  <2>1. PICK a \in Phases : AgentAnswers(s, a) \/ AgentFails(s, a)
    BY <1>3
  <2>2. Still /\ reports'[s] = p /\ r.pc \in {"agents", "failing", "ended"}
    BY <1>0, <2>1 DEF AgentAnswers, AgentFails, Still, Called
  <2>3. v = r \/ (r.pc = "agents" /\ run' \in {[run EXCEPT ![s].pc = "model"], [run EXCEPT ![s].pc = "failing"]})
    BY <2>1 DEF AgentAnswers, AgentFails, At
  <2>4. v = r \/ (r.pc = "agents" /\ v.pc \in {"model", "failing"} /\ v.current = r.current
                  /\ v.checkpoint = r.checkpoint)
    BY <1>0, <2>3 DEF RunType
  <2>5. QED
    BY <2>2, <2>4 DEF Early
<1>4. CASE NothingProposed(s) \/ FinishPatch(s)
  <2>1. Still /\ reports'[s] = p
    BY <1>4 DEF NothingProposed, FinishPatch, Still
  <2>2. \A b : AfterPatch(s, b) \in {"closing", "verify"}
    BY DEF AfterPatch
  <2>3. CASE NothingProposed(s)
    <3>1. v = [r EXCEPT !.pc = AfterPatch(s, FALSE), !.next = 0] /\ r.pc = "model"
      BY <1>0, <2>3 DEF NothingProposed, At
    <3>2. v.pc = AfterPatch(s, FALSE) /\ v.current = r.current /\ v.checkpoint = r.checkpoint
      BY <1>0, <3>1 DEF RunType
    <3>3. QED
      BY <2>1, <2>2, <3>1, <3>2 DEF Early
  <2>4. CASE FinishPatch(s)
    <3>1. v = [r EXCEPT !.pc = AfterPatch(s, TRUE), !.applied = r.applied \cup ToSet(r.patch),
                        !.checkpoint = r.current]
          /\ r.pc = "writing"
      BY <1>0, <2>4 DEF FinishPatch, At
    <3>2. v.pc = AfterPatch(s, TRUE) /\ v.current = r.current /\ v.checkpoint = r.current
      BY <1>0, <3>1 DEF RunType
    <3>3. QED
      BY <2>1, <2>2, <3>1, <3>2 DEF Early
  <2>5. QED
    BY <1>4, <2>3, <2>4
<1>5. CASE ProposePatch(s)
  <2>1. Still /\ reports'[s] = p /\ r.pc = "model"
    BY <1>5 DEF ProposePatch, Still, At
  <2>2. PICK q \in ProposalsOf[s] :
          v = [r EXCEPT !.patch = q, !.left = q, !.next = 0,
                 !.pc = IF r.turn = 1 /\ "apply" \notin r.flags THEN AfterPatch(s, TRUE)
                        ELSE IF NeedsApproval(s, q) THEN "asking" ELSE "snapshot"]
    BY <1>0, <1>5 DEF ProposePatch
  <2>3. v.pc \in {"closing", "verify", "asking", "snapshot"} /\ v.current = r.current
        /\ v.checkpoint = r.checkpoint
    BY <1>0, <2>2 DEF RunType, AfterPatch
  <2>4. QED
    BY <2>1, <2>3 DEF Early
<1>6. CASE RunCommand(s) \/ FinishVerification(s)
  <2>1. Still /\ reports'[s] = p /\ r.pc = "verify"
    BY <1>6 DEF RunCommand, FinishVerification, Still, At
  <2>2. v.pc \in {"verify", "model", "closing"} /\ v.current = r.current /\ v.checkpoint = r.checkpoint
    <3>1. CASE RunCommand(s)
      <4>1. PICK ok \in BOOLEAN :
              v = [r EXCEPT !.next = IF ok THEN r.next + 1 ELSE MaxCommands, !.failed = r.failed \/ ~ok]
        BY <1>0, <3>1 DEF RunCommand
      <4>2. QED
        BY <1>0, <2>1, <4>1 DEF RunType
    <3>2. CASE FinishVerification(s)
      BY <1>0, <3>2 DEF FinishVerification, Go, RunType
    <3>3. QED
      BY <1>6, <3>1, <3>2
  <2>3. QED
    BY <2>1, <2>2 DEF Early
<1>7. QED
  BY <1>1, <1>2, <1>3, <1>4, <1>5, <1>6

LEMMA TreeQuiet ==
  ASSUME LocalInv, TreeInv, NEW s \in Sessions, SessionMoves(s), Still,
         Quiet(run[s], reports[s], run'[s], reports'[s])
  PROVE  TreeInv'
<1>1. /\ files' = files /\ mine' = mine /\ checkpoints' = checkpoints /\ edits' = edits
      /\ rollbacks' = rollbacks
  BY DEF Still
<1>2. CountedOK(s, run'[s], reports'[s], checkpoints) /\ PatchOK(run'[s], mine, checkpoints)
  <2>1. /\ run[s] \in RunType /\ reports[s] \in ReportType /\ checkpoints \in Seq(CheckpointType)
        /\ CountedOK(s, run[s], reports[s], checkpoints)
    BY DEF LocalInv, TreeInv
  <2>2. QED
    BY <2>1, CountedOn
<1>3. ASSUME NEW t \in Sessions
      PROVE  PatchOK(run'[t], mine, checkpoints) /\ CountedOK(t, run'[t], reports'[t], checkpoints)
  <2>1. CASE t = s
    BY <1>2, <2>1
  <2>2. CASE t # s
    BY <2>2 DEF SessionMoves, TreeInv
  <2>3. QED
    BY <2>1, <2>2
<1>4. QED
  BY <1>1, <1>3 DEF TreeInv

LEMMA TreeCreate ==
  ASSUME LocalInv, TreeInv, NEW s \in Sessions, SessionMoves(s), createCheckpoint(s)
  PROVE  TreeInv'
<1> DEFINE r == run[s]
           v == run'[s]
           p == reports[s]
           cs == checkpoints
           n == Len(checkpoints)
           D == ToSet(r.patch)
           sv == [f \in D |-> files[f]]
           bs == [f \in D |-> mine[f]]
           c == [owner |-> s, saved |-> sv, base |-> bs, state |-> "torn"]
           cd == Append(cs, c)
<1>1. /\ files' = files /\ mine' = mine /\ checkpoints' = cd /\ edits' = edits
      /\ rollbacks' = rollbacks /\ reports' = reports
      /\ r.pc = "snapshot" /\ run' = [run EXCEPT ![s].pc = "saving", ![s].current = n + 1]
  BY DEF createCheckpoint, At
<1>2. r \in RunType /\ p \in ReportType /\ p.status = "none" /\ run \in [Sessions -> RunType]
  BY <1>1 DEF LocalInv, Local, Closed
<1>3. v.pc = "saving" /\ v.current = n + 1 /\ v.patch = r.patch /\ v.checkpoint = r.checkpoint
  BY <1>1, <1>2 DEF RunType
<1>4. c \in CheckpointType
  <2>1. D \in SUBSET Files
    BY <1>2 DEF RunType, ToSet
  <2>2. sv \in [D -> FileContent] /\ bs \in [D -> MineType]
    BY <2>1 DEF TreeInv
  <2> HIDE DEF D, sv, bs
  <2>3. QED
    BY <2>1, <2>2, NewCheckpoint
<1>5. /\ c.owner = s /\ c.saved = sv /\ c.base = bs /\ c.state = "torn"
      /\ DOMAIN sv = D /\ \A f \in D : sv[f] = files[f] /\ bs[f] = mine[f]
  OBVIOUS
<1>6. cs \in Seq(CheckpointType) /\ n \in Nat
  BY DEF TreeInv
<1> HIDE DEF c, sv, bs, n, D
<1>7. /\ cd \in Seq(CheckpointType) /\ Len(cd) = n + 1 /\ cd[n + 1] = c
      /\ \A i \in 1..n : cd[i] = cs[i]
      /\ DOMAIN cs = 1..n /\ DOMAIN cd = 1..(n + 1)
  BY <1>4, <1>6 DEF n
<1> HIDE DEF cd, cs, r, v, p
<1>8. Grown(cs, cd)
  BY <1>6, <1>7 DEF Grown
<1>9. TreeOK(files, mine, cs) /\ BaseOK(cs) /\ PatchOK(r, mine, cs) /\ CountedOK(s, r, p, cs)
  BY DEF TreeInv, cs, r, p
<1>10. \A f \in D : f \in Files /\ IF files[f].by = User THEN files[f] = mine[f] ELSE Kept(cd, f, mine[f])
  <2>1. D \subseteq Files
    BY <1>2 DEF RunType, ToSet, D
  <2>2. TreeOK(files, mine, cd)
    BY <1>8, <1>9, TreeOn
  <2>3. QED
    BY <2>1, <2>2 DEF TreeOK
<1>11. TreeOK(files, mine, cd)
  BY <1>8, <1>9, TreeOn
<1>12. BaseOK(cd)
  <2>1. ASSUME NEW i \in DOMAIN cd, NEW f \in DOMAIN cd[i].saved
        PROVE  IF cd[i].saved[f].by = User THEN cd[i].saved[f] = cd[i].base[f] ELSE Kept(cd, f, cd[i].base[f])
    <3>1. CASE i \in DOMAIN cs
      BY <1>8, <1>9, <3>1, BaseOn
    <3>2. CASE i = n + 1
      BY <1>5, <1>7, <1>10, <3>2
    <3>3. QED
      BY <1>6, <1>7, <3>1, <3>2
  <2>2. QED
    BY <2>1 DEF BaseOK
<1>13. PatchOK(v, mine, cd)
  <2>1. v.current \in DOMAIN cd /\ cd[v.current].saved = sv
    BY <1>3, <1>5, <1>6, <1>7
  <2>2. \A f \in D : Kept(cd, f, mine[f]) \/ sv[f] = mine[f]
    BY <1>5, <1>10
  <2>3. QED
    BY <1>3, <1>5, <2>1, <2>2 DEF PatchOK, D
<1>14. CountedOK(s, v, p, cd)
  <2>1. LastOf(s, n + 1, cd)
    BY <1>5, <1>6, <1>7 DEF LastOf
  <2>2. r.checkpoint <= n + 1 /\ p.checkpoint <= n + 1
    BY <1>2, <1>6, <1>9 DEF CountedOK, RunType, ReportType, n, cs
  <2>3. QED
    BY <1>2, <1>3, <1>6, <1>7, <2>1, <2>2 DEF CountedOK
<1>15. ASSUME NEW t \in Sessions, t # s
       PROVE  PatchOK(run'[t], mine, cd) /\ CountedOK(t, run'[t], reports'[t], cd)
  <2> DEFINE q == run[t]
             u == reports[t]
  <2>1. run'[t] = q /\ reports'[t] = u /\ PatchOK(q, mine, cs) /\ CountedOK(t, q, u, cs)
        /\ q \in RunType /\ u \in ReportType
    BY <1>15 DEF SessionMoves, TreeInv, LocalInv, cs
  <2> HIDE DEF q, u
  <2>2. PatchOK(q, mine, cd)
    BY <1>8, <2>1, OthersOn
  <2>3. \A k : LastOf(t, k, cs) => LastOf(t, k, cd)
    <3> SUFFICES ASSUME NEW k, LastOf(t, k, cs) PROVE LastOf(t, k, cd)
      OBVIOUS
    <3>1. \A i \in DOMAIN cd : cd[i].owner = t => i \in DOMAIN cs /\ cs[i].owner = t
      BY <1>5, <1>6, <1>7, <1>15
    <3>2. \A i \in DOMAIN cs : i \in DOMAIN cd /\ cd[i].owner = cs[i].owner
      BY <1>8 DEF Grown
    <3>3. QED
      BY <3>1, <3>2 DEF LastOf
  <2>4. Len(cs) = n
    BY DEF n, cs
  <2>5. q.current <= n + 1 /\ q.checkpoint <= n + 1 /\ u.checkpoint <= n + 1
    BY <1>6, <2>1, <2>4 DEF CountedOK, RunType, ReportType
  <2>6. CountedOK(t, q, u, cd)
    BY <1>7, <2>1, <2>3, <2>5 DEF CountedOK
  <2>7. QED
    BY <2>1, <2>2, <2>6
<1>16. \A t \in Sessions : PatchOK(run'[t], mine, cd) /\ CountedOK(t, run'[t], reports'[t], cd)
  BY <1>1, <1>13, <1>14, <1>15 DEF v, p
<1>17. QED
  BY <1>1, <1>7, <1>11, <1>12, <1>16 DEF TreeInv

LEMMA TreeSave ==
  ASSUME LocalInv, TreeInv, NEW s \in Sessions, SessionMoves(s), saveCheckpoint(s)
  PROVE  TreeInv'
<1> DEFINE r == run[s]
           v == run'[s]
           p == reports[s]
           cs == checkpoints
           k == r.current
           c == [checkpoints[k] EXCEPT !.state = "whole"]
           cd == [checkpoints EXCEPT ![k] = c]
<1>1. /\ files' = files /\ mine' = mine /\ checkpoints' = [checkpoints EXCEPT ![k].state = "whole"]
      /\ edits' = edits /\ rollbacks' = rollbacks /\ reports' = reports
      /\ r.pc = "saving" /\ run' = [run EXCEPT ![s].pc = "writing"]
  BY DEF saveCheckpoint, At, Go
<1>2. r \in RunType /\ p \in ReportType /\ p.status = "none" /\ run \in [Sessions -> RunType]
  BY <1>1 DEF LocalInv, Local, Closed
<1>3. v.pc = "writing" /\ v.current = k /\ v.patch = r.patch /\ v.checkpoint = r.checkpoint
  BY <1>1, <1>2 DEF RunType
<1>4. /\ cs \in Seq(CheckpointType) /\ TreeOK(files, mine, cs) /\ BaseOK(cs) /\ PatchOK(r, mine, cs)
      /\ CountedOK(s, r, p, cs)
  BY DEF TreeInv
<1>5. k \in DOMAIN cs /\ cs[k] \in CheckpointType
  BY <1>1, <1>4 DEF PatchOK
<1>6. checkpoints' = cd
  BY <1>1, <1>4
<1>7. c \in CheckpointType /\ c.owner = cs[k].owner /\ c.saved = cs[k].saved /\ c.base = cs[k].base
      /\ c.state = "whole"
  BY <1>5, WholeCheckpoint
<1> HIDE DEF c
<1>8. /\ cd \in Seq(CheckpointType) /\ DOMAIN cd = DOMAIN cs /\ Len(cd) = Len(cs) /\ cd[k] = c
      /\ \A i \in DOMAIN cs : i # k => cd[i] = cs[i]
  BY <1>4, <1>5, <1>7
<1> HIDE DEF cd, cs, r, v, p, k
<1>9. Grown(cs, cd)
  <2>1. \A i \in DOMAIN cs : cd[i].owner = cs[i].owner /\ cd[i].saved = cs[i].saved /\ cd[i].base = cs[i].base
                             /\ (cs[i].state = "whole" => cd[i].state = "whole")
    BY <1>7, <1>8
  <2>2. QED
    BY <1>8, <2>1 DEF Grown
<1>10. TreeOK(files, mine, cd)
  BY <1>4, <1>9, TreeOn
<1>11. BaseOK(cd)
  <2>1. ASSUME NEW i \in DOMAIN cd, NEW f \in DOMAIN cd[i].saved
        PROVE  IF cd[i].saved[f].by = User THEN cd[i].saved[f] = cd[i].base[f] ELSE Kept(cd, f, cd[i].base[f])
    BY <1>4, <1>8, <1>9, BaseOn
  <2>2. QED
    BY <2>1 DEF BaseOK
<1>12. PatchOK(v, mine, cd)
  <2>1. ASSUME NEW f \in ToSet(r.patch) PROVE Kept(cd, f, mine[f])
    <3>1. f \in DOMAIN cs[k].saved /\ (Kept(cs, f, mine[f]) \/ cs[k].saved[f] = mine[f])
      BY <1>1, <1>4 DEF PatchOK, k
    <3>2. CASE Kept(cs, f, mine[f])
      BY <1>9, <3>2, KeptOn
    <3>3. CASE cs[k].saved[f] = mine[f]
      <4>1. k \in DOMAIN cd /\ cd[k].state = "whole" /\ f \in DOMAIN cd[k].saved /\ cd[k].saved[f] = mine[f]
        BY <1>5, <1>7, <1>8, <3>1, <3>3
      <4>2. QED
        BY <4>1 DEF Kept
    <3>4. QED
      BY <3>1, <3>2, <3>3
  <2>2. QED
    BY <1>3, <2>1 DEF PatchOK
<1>13. \A t, n : LastOf(t, n, cs) => LastOf(t, n, cd)
  <2>1. \A i \in DOMAIN cs : cd[i].owner = cs[i].owner
    BY <1>9 DEF Grown
  <2>2. QED
    BY <1>8, <2>1 DEF LastOf
<1>14. CountedOK(s, v, p, cd)
  <2>1. k > 0 /\ LastOf(s, k, cs) /\ k <= Len(cs) /\ r.checkpoint <= Len(cs) /\ p.checkpoint <= Len(cs)
    BY <1>1, <1>4 DEF CountedOK, k
  <2>2. QED
    BY <1>2, <1>3, <1>8, <1>13, <2>1 DEF CountedOK
<1>15. ASSUME NEW t \in Sessions, t # s
       PROVE  PatchOK(run'[t], mine, cd) /\ CountedOK(t, run'[t], reports'[t], cd)
  <2>1. run'[t] = run[t] /\ reports'[t] = reports[t] /\ PatchOK(run[t], mine, cs)
        /\ CountedOK(t, run[t], reports[t], cs)
    BY <1>15 DEF SessionMoves, TreeInv, cs
  <2>2. PatchOK(run[t], mine, cd)
    BY <1>9, <2>1, OthersOn
  <2>3. CountedOK(t, run[t], reports[t], cd)
    BY <1>8, <1>13, <2>1 DEF CountedOK
  <2>4. QED
    BY <2>1, <2>2, <2>3
<1>16. \A t \in Sessions : PatchOK(run'[t], mine, cd) /\ CountedOK(t, run'[t], reports'[t], cd)
  BY <1>1, <1>12, <1>14, <1>15 DEF v, p
<1>17. /\ files \in [Files -> FileContent] /\ mine \in [Files -> MineType]
       /\ edits \in 0..MaxEdits /\ rollbacks \in 0..MaxRollbacks
  BY DEF TreeInv
<1>18. QED
  BY <1>1, <1>6, <1>8, <1>10, <1>11, <1>16, <1>17 DEF TreeInv

LEMMA TreeWrite ==
  ASSUME LocalInv, TreeInv, NEW s \in Sessions, SessionMoves(s), WritePatchedFile(s)
  PROVE  TreeInv'
<1> DEFINE r == run[s]
           v == run'[s]
           h == Head(r.left)
           c == ByRun(s, r.turn)
<1>1. /\ files' = [files EXCEPT ![h] = c] /\ mine' = mine /\ checkpoints' = checkpoints
      /\ edits' = edits /\ rollbacks' = rollbacks /\ reports' = reports
      /\ r.pc = "writing" /\ r.left # <<>>
      /\ run' = [run EXCEPT ![s].left = Tail(@), ![s].touched = @ \cup {h}]
  BY DEF WritePatchedFile, At
<1>2. /\ r \in RunType /\ run \in [Sessions -> RunType] /\ Applied(r, reports[s])
      /\ PatchOK(r, mine, checkpoints) /\ CountedOK(s, r, reports[s], checkpoints)
      /\ r.left \in Seq(Files) /\ r.turn \in 1..2
  BY DEF LocalInv, Local, TreeInv, RunType
<1>3. h \in Files /\ h \in ToSet(r.patch)
  BY <1>1, <1>2, ToSetHead DEF Applied
<1>4. Kept(checkpoints, h, mine[h])
  BY <1>1, <1>2, <1>3 DEF PatchOK
<1>5. c \in FileContent /\ c.by # User
  BY <1>2, AgentConstants DEF ByRun, FileContent
<1>6. v.pc = r.pc /\ v.current = r.current /\ v.patch = r.patch /\ v.checkpoint = r.checkpoint
  BY <1>1, <1>2 DEF RunType
<1> HIDE DEF c, h
<1>7. files' \in [Files -> FileContent] /\ TreeOK(files', mine, checkpoints)
  BY <1>1, <1>3, <1>4, <1>5 DEF TreeInv, TreeOK
<1>8. PatchOK(v, mine, checkpoints) /\ CountedOK(s, v, reports[s], checkpoints)
  BY <1>2, <1>6 DEF PatchOK, CountedOK
<1>9. ASSUME NEW t \in Sessions
      PROVE  PatchOK(run'[t], mine, checkpoints) /\ CountedOK(t, run'[t], reports[t], checkpoints)
  <2>1. CASE t = s
    BY <1>8, <2>1
  <2>2. CASE t # s
    BY <2>2 DEF SessionMoves, TreeInv
  <2>3. QED
    BY <2>1, <2>2
<1>10. QED
  BY <1>1, <1>7, <1>9 DEF TreeInv

LEMMA TreeEdit ==
  ASSUME TreeInv, NEW f \in Files, EditByHand(f)
  PROVE  TreeInv'
<1> DEFINE c == ByUser(edits')
<1>1. /\ files' = [files EXCEPT ![f] = c] /\ mine' = [mine EXCEPT ![f] = c]
      /\ checkpoints' = checkpoints /\ rollbacks' = rollbacks /\ reports' = reports /\ run' = run
      /\ edits' = edits + 1 /\ edits < MaxEdits
      /\ \A s \in Sessions : run[s].pc \notin {"saving", "writing"}
  BY DEF EditByHand
<1>2. edits' \in 0..MaxEdits /\ c \in MineType /\ c \in FileContent /\ c.by = User
  BY <1>1, AgentConstants DEF TreeInv, MineType, FileContent, ByUser
<1> HIDE DEF c
<1>3. /\ files' \in [Files -> FileContent] /\ mine' \in [Files -> MineType]
      /\ TreeOK(files', mine', checkpoints)
  BY <1>1, <1>2 DEF TreeInv, TreeOK
<1>4. \A s \in Sessions : PatchOK(run[s], mine', checkpoints)
  BY <1>1 DEF PatchOK
<1>5. QED
  BY <1>1, <1>2, <1>3, <1>4 DEF TreeInv

LEMMA TreeRollback ==
  ASSUME TreeInv, NEW f \in Files, NEW i \in DOMAIN checkpoints, RollbackFile(i, f)
  PROVE  TreeInv'
<1> DEFINE cs == checkpoints
           c == cs[i].saved[f]
           b == cs[i].base[f]
<1>1. /\ files' = [files EXCEPT ![f] = c] /\ mine' = [mine EXCEPT ![f] = b]
      /\ checkpoints' = checkpoints /\ edits' = edits /\ reports' = reports /\ run' = run
      /\ rollbacks < MaxRollbacks /\ rollbacks' = rollbacks + 1
      /\ cs[i].state = "whole" /\ f \in DOMAIN cs[i].saved
  BY DEF RollbackFile
<1>2. cs[i] \in CheckpointType /\ rollbacks' \in 0..MaxRollbacks
  BY <1>1, AgentConstants DEF TreeInv
<1>3. c \in FileContent /\ b \in MineType
  BY <1>1, <1>2, CheckpointFacts
<1>4. /\ IF c.by = User THEN c = b ELSE Kept(cs, f, b)
      /\ Kept(cs, f, b)
  <2>1. IF c.by = User THEN c = b ELSE Kept(cs, f, b)
    BY <1>1 DEF TreeInv, BaseOK
  <2>2. Kept(cs, f, c)
    BY <1>1 DEF Kept
  <2>3. QED
    BY <2>1, <2>2
<1> HIDE DEF c, b
<1>5. files' \in [Files -> FileContent] /\ mine' \in [Files -> MineType]
  BY <1>1, <1>3 DEF TreeInv
<1>6. TreeOK(files', mine', checkpoints)
  <2>1. ASSUME NEW g \in Files
        PROVE  IF files'[g].by = User THEN files'[g] = mine'[g] ELSE Kept(cs, g, mine'[g])
    <3>1. CASE g = f
      BY <1>1, <1>4, <3>1 DEF TreeInv
    <3>2. CASE g # f
      BY <1>1, <3>2 DEF TreeInv, TreeOK
    <3>3. QED
      BY <3>1, <3>2
  <2>2. QED
    BY <2>1 DEF TreeOK
<1>7. ASSUME NEW s \in Sessions PROVE PatchOK(run[s], mine', checkpoints)
  <2> DEFINE r == run[s]
  <2>1. PatchOK(r, mine, cs)
    BY DEF TreeInv
  <2>2. \A g : g # f => mine'[g] = mine[g]
    BY <1>1 DEF TreeInv
  <2>3. mine'[f] = b
    BY <1>1 DEF TreeInv
  <2>4. \A g : Kept(cs, g, mine[g]) => Kept(cs, g, mine'[g])
    BY <1>4, <2>2, <2>3
  <2>5. r.pc = "saving" => /\ r.current \in DOMAIN cs /\ DOMAIN cs[r.current].saved = ToSet(r.patch)
                           /\ \A g \in ToSet(r.patch) : Kept(cs, g, mine'[g]) \/ cs[r.current].saved[g] = mine'[g]
    BY <1>4, <2>1, <2>2, <2>3, <2>4 DEF PatchOK
  <2>6. QED
    BY <2>1, <2>4, <2>5 DEF PatchOK
<1>8. QED
  BY <1>1, <1>2, <1>5, <1>6, <1>7 DEF TreeInv

(* Every step keeps the tree covered by the checkpoints. *)
LEMMA TreeStep == LocalInv /\ TreeInv /\ AgentNext => TreeInv'
<1> SUFFICES ASSUME LocalInv, TreeInv, AgentNext PROVE TreeInv'
  OBVIOUS
<1>1. Len(checkpoints) \in Nat
  BY DEF TreeInv
<1>2. ASSUME NEW s \in Sessions, RunStep(s) PROVE TreeInv'
  <2>1. SessionMoves(s)
    BY <1>1, <1>2, LocalStep
  <2>2. CASE createCheckpoint(s)
    BY <2>1, <2>2, TreeCreate
  <2>3. CASE saveCheckpoint(s)
    BY <2>1, <2>3, TreeSave
  <2>4. CASE WritePatchedFile(s)
    BY <2>1, <2>4, TreeWrite
  <2>5. CASE Still /\ Quiet(run[s], reports[s], run'[s], reports'[s])
    BY <2>1, <2>5, TreeQuiet
  <2>6. QED
    BY <1>2, <2>2, <2>3, <2>4, <2>5, QuietEnds, QuietSteps DEF RunStep
<1>3. ASSUME NEW f \in Files, EditByHand(f) PROVE TreeInv'
  BY <1>3, TreeEdit
<1>4. ASSUME NEW f \in Files, NEW i \in DOMAIN checkpoints, RollbackFile(i, f) PROVE TreeInv'
  BY <1>4, TreeRollback
<1>5. QED
  BY <1>2, <1>3, <1>4 DEF AgentNext

(* What is written stays attributed, as the sessions move on. *)
LEMMA WrittenOn ==
  ASSUME NEW s \in Sessions, SessionMoves(s), NEW f, NEW c, WrittenOK(f, c, run, log)
  PROVE  WrittenOK(f, c, run', log')
<1> SUFFICES ASSUME NEW t \in Sessions, NEW turn \in 1..2, c = ByRun(t, turn)
             PROVE  /\ f \in run'[t].touched
                    /\ f \in run'[t].startRules /\ "allowSensitive" \notin run'[t].flags
                         => Consent(log'[t], turn)
  BY DEF WrittenOK
<1>1. /\ f \in run[t].touched
      /\ f \in run[t].startRules /\ "allowSensitive" \notin run[t].flags => Consent(log[t], turn)
  BY DEF WrittenOK
<1>2. CASE t # s
  BY <1>1, <1>2 DEF SessionMoves
<1>3. CASE t = s
  BY <1>1, <1>3 DEF SessionMoves, Onward
<1>4. QED
  BY <1>2, <1>3

LEMMA WrittenStep == LocalInv /\ TreeInv /\ WrittenInv /\ AgentNext => WrittenInv'
<1> SUFFICES ASSUME LocalInv, TreeInv, WrittenInv, AgentNext PROVE WrittenInv'
  OBVIOUS
<1>0. Len(checkpoints) \in Nat /\ checkpoints \in Seq(CheckpointType) /\ files \in [Files -> FileContent]
  BY DEF TreeInv
<1>1. ASSUME NEW s \in Sessions, RunStep(s) PROVE WrittenInv'
  <2>1. SessionMoves(s)
    BY <1>0, <1>1, LocalStep
  <2>2. \A f \in Files : WrittenOK(f, files[f], run', log')
    BY <2>1, WrittenOn DEF WrittenInv
  <2>3. \A i \in DOMAIN checkpoints : \A f \in DOMAIN checkpoints[i].saved :
          WrittenOK(f, checkpoints[i].saved[f], run', log')
    BY <2>1, WrittenOn DEF WrittenInv
  <2>4. CASE Still
    BY <2>2, <2>3, <2>4 DEF WrittenInv, Still
  <2>5. CASE createCheckpoint(s)
    <3> DEFINE D == ToSet(run[s].patch)
               c == [owner |-> s, saved |-> [f \in D |-> files[f]], base |-> [f \in D |-> mine[f]],
                     state |-> "torn"]
               n == Len(checkpoints)
    <3>1. checkpoints' = Append(checkpoints, c) /\ files' = files
      BY <2>5 DEF createCheckpoint
    <3>2. c.saved = [f \in D |-> files[f]] /\ D \subseteq Files
      BY DEF LocalInv, RunType, ToSet
    <3> HIDE DEF c, D
    <3>3. /\ DOMAIN checkpoints' = 1..(n + 1) /\ checkpoints'[n + 1] = c /\ DOMAIN checkpoints = 1..n
          /\ \A i \in 1..n : checkpoints'[i] = checkpoints[i]
      BY <1>0, <3>1
    <3> HIDE DEF n
    <3>4. ASSUME NEW i \in 1..(n + 1), NEW f \in DOMAIN checkpoints'[i].saved
          PROVE  WrittenOK(f, checkpoints'[i].saved[f], run', log')
      <4>1. CASE i \in 1..n
        BY <2>3, <3>3, <4>1
      <4>2. CASE i = n + 1
        <5>1. f \in D /\ checkpoints'[i].saved[f] = files[f] /\ f \in Files
          BY <3>2, <3>3, <4>2
        <5>2. QED
          BY <2>2, <5>1
      <4>3. QED
        BY <1>0, <4>1, <4>2 DEF n
    <3>5. QED
      BY <2>2, <3>1, <3>3, <3>4 DEF WrittenInv
  <2>6. CASE saveCheckpoint(s)
    <3> DEFINE k == run[s].current
    <3>1. checkpoints' = [checkpoints EXCEPT ![k].state = "whole"] /\ files' = files /\ run[s].pc = "saving"
      BY <2>6 DEF saveCheckpoint, At
    <3>2. k \in DOMAIN checkpoints /\ checkpoints[k] \in CheckpointType
      BY <1>0, <3>1 DEF TreeInv, PatchOK
    <3>3. DOMAIN checkpoints' = DOMAIN checkpoints /\ \A i \in DOMAIN checkpoints : i # k => checkpoints'[i] = checkpoints[i]
      BY <1>0, <3>1
    <3>4. checkpoints'[k] = [checkpoints[k] EXCEPT !.state = "whole"]
      BY <1>0, <3>1, <3>2
    <3>5. checkpoints'[k].saved = checkpoints[k].saved
      BY <3>2, <3>4, WholeCheckpoint
    <3>6. \A i \in DOMAIN checkpoints' : i \in DOMAIN checkpoints /\ checkpoints'[i].saved = checkpoints[i].saved
      BY <3>3, <3>5
    <3>7. QED
      BY <2>2, <2>3, <3>1, <3>6 DEF WrittenInv
  <2>7. CASE WritePatchedFile(s)
    <3> DEFINE r == run[s]
               v == run'[s]
               h == Head(r.left)
               c == ByRun(s, r.turn)
    <3>1. /\ files' = [files EXCEPT ![h] = c] /\ checkpoints' = checkpoints /\ log' = log
          /\ r.pc = "writing" /\ r.left # <<>>
          /\ run' = [run EXCEPT ![s].left = Tail(@), ![s].touched = @ \cup {h}]
      BY <2>7 DEF WritePatchedFile, At
    <3>2. /\ r \in RunType /\ run \in [Sessions -> RunType] /\ Applied(r, reports[s]) /\ Approved(r, log[s])
          /\ r.left \in Seq(Files)
      BY DEF LocalInv, Local, RunType
    <3>3. h \in Files /\ h \in ToSet(r.patch)
      BY <3>1, <3>2, ToSetHead DEF Applied
    <3>4. /\ h \in v.touched /\ v.startRules = r.startRules /\ v.flags = r.flags
      BY <3>1, <3>2 DEF RunType
    <3>5. h \in r.startRules /\ "allowSensitive" \notin r.flags => Consent(log[s], r.turn)
      BY <3>1, <3>2, <3>3 DEF Approved
    <3>6. WrittenOK(h, c, run', log')
      <4> SUFFICES ASSUME NEW t \in Sessions, NEW turn \in 1..2, c = ByRun(t, turn)
                   PROVE  /\ h \in run'[t].touched
                          /\ h \in run'[t].startRules /\ "allowSensitive" \notin run'[t].flags
                               => Consent(log'[t], turn)
        BY DEF WrittenOK
      <4>1. t = s /\ turn = r.turn
        BY DEF ByRun
      <4>2. QED
        BY <3>1, <3>4, <3>5, <4>1
    <3> HIDE DEF c, h
    <3>7. \A f \in Files : WrittenOK(f, files'[f], run', log')
      BY <1>0, <2>2, <3>1, <3>3, <3>6
    <3>8. QED
      BY <2>3, <3>1, <3>7 DEF WrittenInv
  <2>8. QED
    BY <1>1, <2>4, <2>5, <2>6, <2>7, QuietEnds, QuietSteps DEF RunStep
<1>2. ASSUME NEW f \in Files, EditByHand(f) PROVE WrittenInv'
  <2> DEFINE c == ByUser(edits')
  <2>1. files' = [files EXCEPT ![f] = c] /\ checkpoints' = checkpoints /\ run' = run /\ log' = log
    BY <1>2 DEF EditByHand
  <2>2. WrittenOK(f, c, run', log')
    BY AgentConstants DEF WrittenOK, ByUser, ByRun
  <2> HIDE DEF c
  <2>3. \A g \in Files : WrittenOK(g, files'[g], run', log')
    BY <1>0, <2>1, <2>2 DEF WrittenInv
  <2>4. QED
    BY <2>1, <2>3 DEF WrittenInv
<1>3. ASSUME NEW f \in Files, NEW i \in DOMAIN checkpoints, RollbackFile(i, f) PROVE WrittenInv'
  <2> DEFINE c == checkpoints[i].saved[f]
  <2>1. files' = [files EXCEPT ![f] = c] /\ checkpoints' = checkpoints /\ run' = run /\ log' = log
        /\ f \in DOMAIN checkpoints[i].saved
    BY <1>3 DEF RollbackFile
  <2>2. WrittenOK(f, c, run', log')
    BY <2>1 DEF WrittenInv
  <2> HIDE DEF c
  <2>3. \A g \in Files : WrittenOK(g, files'[g], run', log')
    BY <1>0, <2>1, <2>2 DEF WrittenInv
  <2>4. QED
    BY <2>1, <2>3 DEF WrittenInv
<1>4. QED
  BY <1>1, <1>2, <1>3 DEF AgentNext

AgentInv == LocalInv /\ TreeInv /\ WrittenInv

LEMMA AgentInitInv == AgentInit => AgentInv
<1> SUFFICES ASSUME AgentInit PROVE AgentInv
  OBVIOUS
<1>1. /\ files = [f \in Files |-> ByUser(0)] /\ mine = files /\ edits = 0 /\ checkpoints = <<>>
      /\ rollbacks = 0 /\ \A s \in Sessions : run[s] = Unstarted /\ reports[s] = NoReport
  BY DEF AgentInit
<1>2. ByUser(0) \in FileContent /\ ByUser(0) \in MineType /\ ByUser(0).by = User
  BY AgentConstants DEF ByUser, FileContent, MineType
<1>3. checkpoints \in Seq(CheckpointType) /\ DOMAIN checkpoints = {} /\ Len(checkpoints) = 0
  BY <1>1
<1>4. files \in [Files -> FileContent] /\ mine \in [Files -> MineType] /\ TreeOK(files, mine, checkpoints)
  BY <1>1, <1>2 DEF TreeOK
<1>5. BaseOK(checkpoints)
  BY <1>3 DEF BaseOK
<1>6. \A s \in Sessions : PatchOK(run[s], mine, checkpoints) /\ CountedOK(s, run[s], reports[s], checkpoints)
  BY <1>1, <1>3 DEF PatchOK, CountedOK, LastOf, Unstarted, NoReport
<1>7. TreeInv
  BY <1>1, <1>3, <1>4, <1>5, <1>6, AgentConstants DEF TreeInv
<1>8. WrittenInv
  <2>1. \A f \in Files : WrittenOK(f, files[f], run, log)
    BY <1>1, AgentConstants DEF WrittenOK, ByUser, ByRun
  <2>2. QED
    BY <1>3, <2>1 DEF WrittenInv
<1>9. QED
  BY <1>7, <1>8, InitLocal DEF AgentInv

LEMMA AgentStepInv == AgentInv /\ [AgentNext]_agentVars => AgentInv'
<1> SUFFICES ASSUME AgentInv, [AgentNext]_agentVars PROVE AgentInv'
  OBVIOUS
<1>1. CASE AgentNext
  <2>1. TreeInv' /\ WrittenInv'
    BY <1>1, TreeStep, WrittenStep DEF AgentInv
  <2>2. LocalInv'
    <3>1. Len(checkpoints) \in Nat /\ LocalInv
      BY DEF AgentInv, TreeInv
    <3>2. CASE \E s \in Sessions : RunStep(s)
      BY <3>1, <3>2, LocalStep DEF SessionMoves
    <3>3. CASE UNCHANGED <<run, agents, log, reports>>
      BY <3>1, <3>3 DEF LocalInv
    <3>4. QED
      BY <1>1, <3>2, <3>3 DEF AgentNext, EditByHand, RollbackFile
  <2>3. QED
    BY <2>1, <2>2 DEF AgentInv
<1>2. CASE UNCHANGED agentVars
  BY <1>2 DEF agentVars, AgentInv, LocalInv, TreeInv, WrittenInv
<1>3. QED
  BY <1>1, <1>2

(* The invariant of the coding agent: the report and the log of a session agree
   with its run, the tree is covered by whole checkpoints, and every content a run
   wrote is accounted for. *)
THEOREM AgentInvariant == AgentSpec => []AgentInv
<1>1. QED
  BY AgentInitInv, AgentStepInv, PTL DEF AgentSpec

(* The locals of runTask, the logs, reports, checkpoints and files have their types
   (TokenStreamingRuntime.runTask, CheckpointStore). *)
THEOREM AgentTyped == AgentSpec => []AgentTypeOK
<1>1. AgentInv => AgentTypeOK
  <2> SUFFICES ASSUME AgentInv PROVE AgentTypeOK
    OBVIOUS
  <2>1. LocalInv /\ TreeInv
    BY DEF AgentInv
  <2>2. ASSUME NEW s \in Sessions
        PROVE  /\ run[s].pc \in {"idle", "init", "agents", "model", "asking", "snapshot", "saving", "writing",
                                 "verify", "closing", "failing", "tool", "ended", "crashed"}
               /\ run[s].flags \subseteq Flag /\ run[s].turn \in 1..2 /\ run[s].next \in 0..MaxCommands
               /\ run[s].rules \subseteq Files /\ {run[s].left, run[s].patch} \subseteq Seq(Files)
               /\ run[s].applied \cup run[s].touched \subseteq Files
               /\ {run[s].current, run[s].checkpoint, reports[s].checkpoint} \subseteq 0..Len(checkpoints)
               /\ log[s] \in Seq(Event)
               /\ agents[s] \in [Phases -> {"off", "calling", "done", "failed"}]
               /\ reports[s].status \in {"none", "completed", "failed"} /\ reports[s].applied \subseteq Files
               /\ reports[s].verdict \in {"not-run", "failed", "passed"}
    <3>1. /\ run[s] \in RunType /\ agents[s] \in CallType /\ log[s] \in Seq(Event) /\ reports[s] \in ReportType
          /\ CountedOK(s, run[s], reports[s], checkpoints) /\ Len(checkpoints) \in Nat
      BY <2>1 DEF LocalInv, TreeInv
    <3>2. {run[s].current, run[s].checkpoint, reports[s].checkpoint} \subseteq 0..Len(checkpoints)
      BY <3>1 DEF CountedOK, RunType, ReportType
    <3>3. QED
      BY <3>1, <3>2 DEF RunType, Places, CallType, ReportType
  <2>3. \A i \in DOMAIN checkpoints : checkpoints[i].state \in {"torn", "whole"}
    BY <2>1, CheckpointFacts DEF TreeInv
  <2>4. QED
    BY <2>1, <2>2, <2>3 DEF AgentTypeOK, TreeInv, MineType
<1>2. QED
  BY <1>1, AgentInvariant, PTL

(* The user's work is never lost: a file holds what the user last gave it, or a
   whole checkpoint does (CheckpointStore.create before applyFilePatches, rollback). *)
THEOREM UserWorkSafe == AgentSpec => []UserWorkKept
<1>1. AgentInv => UserWorkKept
  BY DEF AgentInv, TreeInv, TreeOK, Kept, UserWorkKept
<1>2. QED
  BY <1>1, AgentInvariant, PTL

(* What a run leaves in a file that was sensitive when it began was approved for
   that patch (evaluatePatchPolicy, requestApproval in handlePatchProposal). *)
THEOREM SensitiveSafe == AgentSpec => []SensitiveWritesApproved
<1>1. AgentInv => SensitiveWritesApproved
  BY DEF AgentInv, WrittenInv, WrittenOK, SensitiveWritesApproved, LogShowsConsent, Consent
<1>2. QED
  BY <1>1, AgentInvariant, PTL

(* A session ends once, as its report says, and only parallel agents write to its
   log after that (writeFailureReport, the end of runTask, runParallelAgents). *)
THEOREM EndingSafe == AgentSpec => []OneEnding
<1>1. AgentInv => OneEnding
  <2> SUFFICES ASSUME AgentInv, NEW s \in Sessions
               PROVE  LET ends == {i \in DOMAIN log[s] : log[s][i] \in Terminal}
                      IN /\ Cardinality(ends) <= 1
                         /\ \A i \in ends, j \in DOMAIN log[s] :
                              j > i => log[s][i] = "run.failed" /\ log[s][j] = "agent.finished"
                         /\ reports[s].status # "none" => summarizeSession(s) = reports[s].status
    BY DEF OneEnding
  <2> DEFINE l == log[s]
             p == reports[s]
             ends == {i \in DOMAIN l : l[i] \in Terminal}
             kinds == {l[i] : i \in DOMAIN l}
  <2>1. Closed(run[s], agents[s], l, p) /\ l \in Seq(Event) /\ p \in ReportType
    BY DEF AgentInv, LocalInv, Local
  <2>2. CASE NoEnd(l) /\ p.status = "none"
    <3>1. ends = {}
      BY <2>2 DEF NoEnd
    <3>2. QED
      BY <2>2, <3>1, FS_EmptySet
  <2>3. CASE \E e \in Terminal : /\ EndedAs(l, e)
                                 /\ p.status = "completed" => e = "run.completed"
                                 /\ p.status = "failed" => e = "run.failed"
    <3>1. PICK e \in Terminal : /\ EndedAs(l, e)
                                /\ p.status = "completed" => e = "run.completed"
                                /\ p.status = "failed" => e = "run.failed"
      BY <2>3
    <3>2. PICK i \in DOMAIN l :
            /\ l[i] = e
            /\ \A j \in DOMAIN l : j < i => l[j] \notin Terminal
            /\ \A j \in DOMAIN l : j > i => e = "run.failed" /\ l[j] = "agent.finished"
      BY <3>1 DEF EndedAs
    <3>3. DOMAIN l \subseteq Nat
      BY <2>1
    <3>4. ends = {i}
      BY <3>1, <3>2, <3>3 DEF Terminal
    <3>5. Cardinality(ends) <= 1
      BY <3>4, FS_Singleton
    <3>6. \A x \in ends, j \in DOMAIN l : j > x => l[x] = "run.failed" /\ l[j] = "agent.finished"
      BY <3>2, <3>4
    <3>7. e \in kinds /\ \A d \in Terminal : d \in kinds => d = e
      <4>1. e \in kinds
        BY <3>2
      <4>2. ASSUME NEW d \in Terminal, d \in kinds PROVE d = e
        <5>1. PICK j \in DOMAIN l : d = l[j]
          BY <4>2
        <5>2. j = i
          BY <3>4, <5>1
        <5>3. QED
          BY <3>2, <5>1, <5>2
      <4>3. QED
        BY <4>1, <4>2
    <3>8. summarizeSession(s) = IF "run.completed" \in kinds THEN "completed"
                                ELSE IF "run.failed" \in kinds THEN "failed" ELSE "running"
      BY DEF summarizeSession
    <3>9. p.status # "none" => summarizeSession(s) = p.status
      <4> HIDE DEF kinds
      <4>1. p.status \in {"none", "completed", "failed"} /\ {"run.completed", "run.failed"} \subseteq Terminal
        BY <2>1 DEF ReportType, Terminal
      <4>2. QED
        BY <3>1, <3>7, <3>8, <4>1
    <3>10. QED
      BY <3>5, <3>6, <3>9
  <2>4. QED
    BY <2>1, <2>2, <2>3 DEF Closed
<1>2. QED
  BY <1>1, AgentInvariant, PTL

(* The report of a run is true of what it wrote, of its verification and of its last
   checkpoint (buildReviewSummary, appliedFiles, checkpointId in runTask). *)
THEOREM ReportSafe == AgentSpec => []ReportIsTrue
<1>1. AgentInv => ReportIsTrue
  <2> SUFFICES ASSUME AgentInv, NEW s \in Sessions
               PROVE  /\ reports[s].applied \subseteq run[s].touched
                      /\ reports[s].status = "completed" =>
                           /\ reports[s].applied = run[s].touched
                           /\ reports[s].verdict = "not-run" <=> "tests.finished" \notin ToSet(log[s])
                           /\ IF \E i \in DOMAIN checkpoints : checkpoints[i].owner = s
                              THEN /\ checkpoints[reports[s].checkpoint].owner = s
                                   /\ \A i \in DOMAIN checkpoints :
                                        checkpoints[i].owner = s => i <= reports[s].checkpoint
                              ELSE reports[s].checkpoint = 0
    BY DEF ReportIsTrue
  <2>1. Applied(run[s], reports[s]) /\ Reported(run[s], log[s], reports[s])
        /\ CountedOK(s, run[s], reports[s], checkpoints)
    BY DEF AgentInv, LocalInv, Local, TreeInv
  <2>2. "tests.finished" \in ToSet(log[s]) <=> Tested(log[s])
    BY DEF ToSet, Tested
  <2>3. reports[s].status = "completed" => LastOf(s, reports[s].checkpoint, checkpoints)
    BY <2>1 DEF CountedOK
  <2>4. QED
    BY <2>1, <2>2, <2>3 DEF Applied, Reported, LastOf
<1>2. QED
  BY <1>1, AgentInvariant, PTL

=================================================================================
