---------------------------- MODULE ArtifactWorker ----------------------------
(* The pull worker of the supplier agent, its encrypted checkpoint file and
   the executor it drives (apps/supplier-agent/src/artifact-worker.ts,
   artifact-checkpoint-store.ts, controller.ts; apps/supplier-node/src/
   artifact-executor.ts), against the row the control plane keeps of one file
   task (apps/web/server/artifact-worker-service.ts).

   Every call of the worker is signed afresh, awaited, and given up after a
   minute; a call given up may still arrive.  The worker is sequential: while
   it waits, only the control plane, the clock and a crash move.  Times are
   left out: a lease, a deadline and the six hours of a checkpoint may run out
   at any moment.  A segment costs one provider call; the reduction of n
   summaries costs one call for each Fan of them. *)
EXTENDS Naturals

CONSTANTS
  Parts,       \* segments of the file
  Fan,         \* summaries that fit into one reduction
  MaxClaims    \* artifactMaximumAttempts

ASSUME WorkerAssumption == Parts \in Nat \ {0} /\ Fan \in Nat \ {0, 1} /\ MaxClaims \in Nat \ {0}

VARIABLES
  row,      \* the artifact_tasks row: status, worker_id, lease, attempt, progress
  worker,   \* the process: where it is, its assignment and the executor's state
  disk,     \* the checkpoint file of the task
  late,     \* a call the worker gave up on that may still arrive
  gap,      \* a checkpoint was written and not accepted, or the file was lost
  cause     \* why the worker ended the task for good, if it did so on resuming

workerVars == <<row, worker, disk, late, gap, cause>>

Fresh == [segs |-> 0, sums |-> 0, usage |-> 0]
NoFile == [segs |-> 0, sums |-> 0, usage |-> 0, readable |-> FALSE, exists |-> FALSE]
NoRequest == [op |-> "none", lease |-> 0, segs |-> 0, usage |-> 0, retry |-> FALSE]
Resting == [pc |-> "idle", lease |-> 0, resume |-> 0, state |-> Fresh, retry |-> FALSE,
            pending |-> FALSE]

WorkerInit ==
  /\ row = [st |-> "queued", owner |-> "none", lease |-> 0, attempt |-> 0, segs |-> 0,
            usage |-> 0, live |-> FALSE, deadline |-> FALSE, cancel |-> FALSE]
  /\ worker = [Resting EXCEPT !.pc = "down"]
  /\ disk = NoFile /\ late = NoRequest
  /\ gap = FALSE /\ cause = "none"

Reduced(n) == (n + Fan - 1) \div Fan

---------------------------------------------------------------------------
(* The control plane. *)

(* What a claim does first: a lease that ran out is taken back.  The agent
   keeps its claim to the progress unless the execution deadline passed. *)
Swept ==
  IF row.st # "leased" \/ row.live THEN row
  ELSE IF row.cancel THEN [row EXCEPT !.st = "cancelled", !.lease = 0]
  ELSE IF row.attempt < MaxClaims
       THEN [row EXCEPT !.st = "queued", !.lease = 0,
                        !.owner = IF row.deadline THEN "none" ELSE @]
  ELSE [row EXCEPT !.st = "failed", !.lease = 0]

(* Mutant: whoever claims the task resumes what anybody has done. *)
ResumePointOfAnyone(who) == Swept.segs

ResumePoint(who) == IF Swept.owner = who THEN Swept.segs ELSE 0

(* Progress and usage start over with the segments. *)
Leased(who) ==
  [Swept EXCEPT !.st = "leased", !.owner = who, !.attempt = @ + 1, !.lease = Swept.attempt + 1,
                !.live = TRUE, !.deadline = FALSE, !.segs = ResumePoint(who),
                !.usage = IF ResumePoint(who) = 0 THEN 0 ELSE @]

LeaseHeld(c) == row.st = "leased" /\ row.lease = c.lease /\ row.live /\ ~row.cancel

(* requireLeasedTask, then the conditions of the handler: accepted, refused
   for now (ARTIFACT_LEASE_INVALID is retryable), or refused for good. *)
Verdict(c) ==
  CASE row.st = "cancelled" \/ (row.cancel /\ row.lease = c.lease) -> "final"
    [] ~LeaseHeld(c) -> "retry"
    [] c.op = "acking" /\ (c.segs < row.segs \/ c.usage < row.usage) -> "final"
    [] c.op = "completing" /\ (row.segs # Parts \/ c.usage # row.usage) -> "final"
    [] OTHER -> "ok"

(* The row after the call; whoever calls with the lease of a task being
   cancelled completes the cancellation. *)
RowAfter(c) ==
  CASE row.cancel /\ row.st = "leased" /\ row.lease = c.lease
         -> [row EXCEPT !.st = "cancelled", !.lease = 0]
    [] Verdict(c) = "ok" /\ c.op = "acking" -> [row EXCEPT !.segs = c.segs, !.usage = c.usage]
    [] Verdict(c) = "ok" /\ c.op = "completing" -> [row EXCEPT !.st = "completed", !.lease = 0]
    [] Verdict(c) = "ok" /\ c.op = "failing"
         -> [row EXCEPT !.lease = 0,
                        !.st = IF c.retry /\ row.attempt < MaxClaims THEN "queued" ELSE "failed"]
    [] OTHER -> row

(* The lease ends without a checkpoint, with or without the deadline of the
   attempt: a slow provider, a computer asleep, an agent that is gone. *)
LeaseRunsOut ==
  /\ row.st = "leased" /\ row.live
  /\ row' = [row EXCEPT !.live = FALSE] \/ row' = [row EXCEPT !.live = FALSE, !.deadline = TRUE]
  /\ UNCHANGED <<worker, disk, late, gap, cause>>

(* Another agent of the supplier claims the task. *)
OtherClaims ==
  /\ Swept.st = "queued" /\ ~Swept.cancel
  /\ row' = Leased("other")
  /\ UNCHANGED <<worker, disk, late, gap, cause>>

(* It reports progress, ends the task or gives it back. *)
OtherReports ==
  /\ row.st = "leased" /\ row.owner = "other" /\ row.live /\ ~row.cancel
  /\ \/ \E k \in (row.segs + 1)..Parts : row' = [row EXCEPT !.segs = k, !.usage = k]
     \/ row' = [row EXCEPT !.st = "completed", !.lease = 0]
     \/ row.attempt < MaxClaims /\ row' = [row EXCEPT !.st = "queued", !.lease = 0]
     \/ row' = [row EXCEPT !.st = "failed", !.lease = 0]
  /\ UNCHANGED <<worker, disk, late, gap, cause>>

(* The buyer cancels, or the supplier's authorization is revoked. *)
TaskCancelled ==
  /\ \/ row.st = "queued" /\ row' = [row EXCEPT !.st = "cancelled", !.cancel = TRUE]
     \/ row.st = "leased" /\ ~row.cancel /\ row' = [row EXCEPT !.cancel = TRUE]
  /\ UNCHANGED <<worker, disk, late, gap, cause>>

(* A call the worker gave up on arrives after all. *)
LateArrival ==
  /\ late # NoRequest
  /\ late' = NoRequest
  /\ row' = IF late.op # "claiming" THEN RowAfter(late)
            ELSE IF Swept.st = "queued" /\ ~Swept.cancel THEN Leased("me") ELSE Swept
  /\ UNCHANGED <<worker, disk, gap, cause>>

---------------------------------------------------------------------------
(* The checkpoint file. *)

(* Mutant: the write may come after the report, or not at all. *)
StoredUnsynced(s) == disk' \in {disk, [segs |-> s.segs, sums |-> s.sums, usage |-> s.usage,
                                       readable |-> TRUE, exists |-> TRUE]}

(* write: a temporary file renamed over the old one, so a crash leaves one or
   the other.  The six hours of the old file go on if it is still good. *)
Stored(s) == disk' = [segs |-> s.segs, sums |-> s.sums, usage |-> s.usage,
                      readable |-> TRUE, exists |-> TRUE]

(* Its six hours are over, or the token that encrypted it was replaced. *)
FileUnreadable ==
  /\ disk.readable
  /\ disk' = [disk EXCEPT !.readable = FALSE]
  /\ gap' = TRUE
  /\ UNCHANGED <<row, worker, late, cause>>

---------------------------------------------------------------------------
(* The worker. *)

Moved(pc) == [worker EXCEPT !.pc = pc]

(* isRetryable of the error that ended the task. *)
Failing(retry) == [worker EXCEPT !.pc = "failing", !.retry = retry]

Request == [op |-> worker.pc, lease |-> worker.lease, segs |-> worker.state.segs,
            usage |-> worker.state.usage, retry |-> worker.pc = "failing" /\ worker.retry]

(* start, or the unlock that starts it. *)
WorkerStart ==
  /\ worker.pc = "down"
  /\ worker' = Resting
  /\ UNCHANGED <<row, disk, late, gap, cause>>

(* cleanupExpired removes a file that is no longer good. *)
Cleaned == IF disk.exists /\ ~disk.readable THEN NoFile ELSE disk

(* pollOnce: the deletions still owed, then cleanupExpired, then the claim.  A
   deletion that fails ends the poll before the claim and changes nothing. *)
PollOnce ==
  /\ worker.pc = "idle"
  /\ worker' = [worker EXCEPT !.pc = "claiming", !.pending = FALSE]
  /\ disk' = IF worker.pending THEN NoFile ELSE Cleaned
  /\ UNCHANGED <<row, late, gap, cause>>

(* The claim is answered with the task, or without one. *)
ClaimAnswered ==
  /\ worker.pc = "claiming"
  /\ \/ /\ Swept.st = "queued" /\ ~Swept.cancel
        /\ row' = Leased("me")
        /\ worker' = [worker EXCEPT !.pc = "begin", !.lease = Swept.attempt + 1,
                                    !.resume = ResumePoint("me")]
     \/ row' = Swept /\ worker' = Moved("idle")
  /\ UNCHANGED <<disk, late, gap, cause>>

ClaimLost ==
  /\ worker.pc = "claiming"
  /\ late' = Request
  /\ worker' = Moved("idle")
  /\ UNCHANGED <<row, disk, gap, cause>>

(* The state the executor starts from. *)
InitialState ==
  IF worker.resume = 0 THEN Fresh
  ELSE [segs |-> disk.segs, sums |-> disk.sums, usage |-> disk.usage]

(* Mutant: without the right checkpoint the worker starts from the beginning. *)
BeginAnyway ==
  /\ worker.pc = "begin"
  /\ disk' = IF worker.resume = 0 \/ ~disk.readable THEN NoFile ELSE disk
  /\ worker' = [worker EXCEPT !.pc = "run", !.state = Fresh]
  /\ UNCHANGED <<row, late, gap, cause>>

(* processTask reads the checkpoint: a fresh attempt deletes it, a resumed one
   needs the file of exactly that segment. *)
BeginTask ==
  /\ worker.pc = "begin"
  /\ disk' = IF worker.resume = 0 \/ ~disk.readable THEN NoFile ELSE disk
  /\ \/ /\ worker.resume = 0 \/ (disk.readable /\ disk.segs = worker.resume)
        /\ worker' = [worker EXCEPT !.pc = "run", !.state = InitialState]
        /\ UNCHANGED cause
     \/ /\ worker.resume > 0 /\ ~(disk.readable /\ disk.segs = worker.resume)
        /\ worker' = Failing(FALSE)
        /\ cause' = "required"
  /\ UNCHANGED <<row, late, gap>>

(* The file cannot be removed: the task fails for good. *)
BeginDiskFails ==
  /\ worker.pc = "begin" /\ disk.exists /\ (worker.resume = 0 \/ ~disk.readable)
  /\ worker' = Failing(FALSE)
  /\ UNCHANGED <<row, disk, late, gap, cause>>

(* One segment through the provider. *)
MapSegment ==
  /\ worker.pc = "run" /\ worker.state.segs < Parts
  /\ worker' = [worker EXCEPT !.pc = "write", !.state.segs = @ + 1, !.state.sums = @ + 1,
                              !.state.usage = @ + 1]
  /\ UNCHANGED <<row, disk, late, gap, cause>>

(* One round of the reduction. *)
ReduceRound ==
  /\ worker.pc = "run" /\ worker.state.segs = Parts /\ worker.state.sums > 1
  /\ worker' = [worker EXCEPT !.pc = "write", !.state.sums = Reduced(@),
                              !.state.usage = @ + Reduced(worker.state.sums)]
  /\ UNCHANGED <<row, disk, late, gap, cause>>

(* The provider, the capacity gate, the token budget or the content of the
   file ends the execution. *)
ExecutionFails ==
  /\ worker.pc = "run"
  /\ \E retry \in BOOLEAN : worker' = Failing(retry)
  /\ UNCHANGED <<row, disk, late, gap, cause>>

(* downloadChunks: the segments are cut from the whole file, so a resumed task
   asks for every chunk again. *)
Download == [Request EXCEPT !.op = "download"]

(* readArtifactTaskChunk does not hand a chunk out any more. *)
DownloadRefused ==
  /\ worker.pc = "run" /\ (worker.state.segs < Parts \/ worker.state.segs = worker.resume)
  /\ Verdict(Download) # "ok"
  /\ row' = RowAfter(Download)
  /\ worker' = Failing(Verdict(Download) = "retry")
  /\ UNCHANGED <<disk, late, gap, cause>>

(* onCheckpoint: the local file first, then the report. *)
WriteCheckpoint ==
  /\ worker.pc = "write"
  /\ Stored(worker.state)
  /\ worker' = Moved("acking")
  /\ UNCHANGED <<row, late, gap, cause>>

WriteFails ==
  /\ worker.pc = "write"
  /\ worker' = Failing(FALSE)
  /\ UNCHANGED <<row, disk, late, gap, cause>>

CheckpointAnswered ==
  /\ worker.pc = "acking"
  /\ row' = RowAfter(Request)
  /\ worker' = IF Verdict(Request) = "ok" THEN Moved("run") ELSE Failing(Verdict(Request) = "retry")
  /\ gap' = (gap \/ Verdict(Request) # "ok")
  /\ UNCHANGED <<disk, late, cause>>

CheckpointLost ==
  /\ worker.pc = "acking"
  /\ late' = Request
  /\ worker' = Failing(TRUE)
  /\ gap' = TRUE
  /\ UNCHANGED <<row, disk, cause>>

(* Mutant: the loop over the rounds is left out. *)
SendUnreduced ==
  /\ worker.pc = "run" /\ worker.state.segs = Parts
  /\ worker' = Moved("completing")
  /\ UNCHANGED <<row, disk, late, gap, cause>>

SendCompletion ==
  /\ worker.pc = "run" /\ worker.state.segs = Parts /\ worker.state.sums = 1
  /\ worker' = Moved("completing")
  /\ UNCHANGED <<row, disk, late, gap, cause>>

(* deleteTerminalCheckpointOrQueue. *)
RemovedOrQueued ==
  \/ disk' = NoFile /\ worker' = Resting
  \/ disk.exists /\ UNCHANGED disk /\ worker' = [Resting EXCEPT !.pending = TRUE]

(* An accepted completion is never followed by a failure report. *)
CompletionAnswered ==
  /\ worker.pc = "completing"
  /\ row' = RowAfter(Request)
  /\ IF Verdict(Request) = "ok"
     THEN RemovedOrQueued /\ UNCHANGED cause
     ELSE /\ worker' = Failing(Verdict(Request) = "retry")
          /\ cause' = IF LeaseHeld(Request) THEN "usage" ELSE cause
          /\ UNCHANGED disk
  /\ UNCHANGED <<late, gap>>

CompletionLost ==
  /\ worker.pc = "completing"
  /\ late' = Request
  /\ worker' = Failing(TRUE)
  /\ UNCHANGED <<row, disk, gap, cause>>

(* sendFailure, whose own failure is ignored; a failure for good removes the
   checkpoint, whatever the control plane thinks of the task. *)
FailureReported ==
  /\ worker.pc = "failing"
  /\ \/ row' = RowAfter(Request) /\ UNCHANGED late
     \/ late' = Request /\ UNCHANGED row
  /\ IF worker.retry THEN worker' = Resting /\ UNCHANGED disk ELSE RemovedOrQueued
  /\ gap' = (gap \/ (~worker.retry /\ disk.exists))
  /\ UNCHANGED cause

(* The process dies, or lock stops the worker: what it waited for is given
   up, the deletions it owed are forgotten.  The file stays, unless a stop met
   the report of a failure for good, which goes on to delete it. *)
WorkerEnds ==
  /\ worker.pc # "down"
  /\ worker' = [Resting EXCEPT !.pc = "down"]
  /\ late' = IF worker.pc \in {"claiming", "acking", "completing", "failing"} THEN Request ELSE late
  /\ disk' \in IF worker.pc = "failing" /\ ~worker.retry THEN {disk, NoFile} ELSE {disk}
  /\ gap' = (gap \/ worker.pc = "acking" \/ (disk.exists /\ ~disk'.exists))
  /\ UNCHANGED <<row, cause>>

WorkerNext ==
  \/ LeaseRunsOut \/ OtherClaims \/ OtherReports \/ TaskCancelled \/ LateArrival
  \/ FileUnreadable \/ WorkerStart \/ PollOnce \/ ClaimAnswered \/ ClaimLost
  \/ BeginTask \/ BeginDiskFails \/ MapSegment \/ ReduceRound \/ ExecutionFails
  \/ DownloadRefused \/ WriteCheckpoint \/ WriteFails \/ CheckpointAnswered
  \/ CheckpointLost \/ SendCompletion \/ CompletionAnswered \/ CompletionLost
  \/ FailureReported \/ WorkerEnds

WorkerSpec == WorkerInit /\ [][WorkerNext]_workerVars

---------------------------------------------------------------------------
(* Properties. *)

(* The row, the worker, the file and the late call have their types: whatever the
   lost and late calls do, no progress exceeds the segments of the file, and no lease
   number the attempts there were. *)
WorkerTypeOK ==
  /\ row \in [st : {"queued", "leased", "completed", "failed", "cancelled"},
              owner : {"none", "me", "other"}, lease : 0..MaxClaims, attempt : 0..MaxClaims,
              segs : 0..Parts, usage : Nat, live : BOOLEAN, deadline : BOOLEAN, cancel : BOOLEAN]
  /\ worker \in [pc : {"down", "idle", "claiming", "begin", "run", "write", "acking",
                       "completing", "failing"},
                 lease : 0..MaxClaims, resume : 0..Parts,
                 state : [segs : 0..Parts, sums : 0..Parts, usage : Nat],
                 retry : BOOLEAN, pending : BOOLEAN]
  /\ disk \in [segs : 0..Parts, sums : 0..Parts, usage : Nat, readable : BOOLEAN, exists : BOOLEAN]
  /\ late \in [op : {"none", "claiming", "acking", "completing", "failing"}, lease : 0..MaxClaims,
               segs : 0..Parts, usage : Nat, retry : BOOLEAN]
  /\ gap \in BOOLEAN /\ cause \in {"none", "required", "usage"}

(* The agent has on disk at least what it has told the platform: a checkpoint
   that can be read is never behind the progress of a task the platform would
   let it resume. *)
DiskIsAhead ==
  (row.owner = "me" /\ row.st \in {"queued", "leased"} /\ disk.readable)
    => disk.segs >= row.segs /\ disk.usage >= row.usage

(* No work the platform has acknowledged is paid for again: what a provider
   call has just added is beyond the progress of the lease it was made under. *)
PaidWorkIsNew ==
  (worker.pc = "write" /\ row.lease = worker.lease) => worker.state.usage > row.usage

(* A worker ends a task for good on resuming it, for want of its checkpoint or
   for a usage the platform does not know, only if a checkpoint report was
   lost or refused, or the file expired or was deleted: crashes anywhere else,
   lost claims, reports and completions, other agents and late calls do not
   cost the task. *)
ResumeFailsOnlyAfterLoss == cause # "none" => gap

(* What it costs to reduce n summaries to one. *)
ReductionCost[n \in 1..Parts] == IF n = 1 THEN 0 ELSE Reduced(n) + ReductionCost[Reduced(n)]

(* A task completed by the agent was charged for one pass over its segments
   and one reduction, however many attempts it took. *)
ChargedOnePass ==
  (row.st = "completed" /\ row.owner = "me") => row.usage = Parts + ReductionCost[Parts]
=============================================================================
