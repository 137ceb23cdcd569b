------------------------------ MODULE AgentRun ------------------------------
(***************************************************************************)
(* The coding agent behind the token-streaming command: TokenStreamingRuntime *)
(* .runTask from the first event to the report, the checkpoints it takes   *)
(* before it writes, and the commands that use them afterwards (rollback,  *)
(* tools run --record).                                                    *)
(*                                                                         *)
(* Every invocation of the command is a process of its own on the same     *)
(* working tree; nothing locks the tree, so runs and rollbacks             *)
(* interleave, and any of them may die between two file operations.  A     *)
(* content is known by who wrote it; the policy file is one of the files,  *)
(* so that a patch may change the rules the next run loads.  "Path matches *)
(* a sensitive path" and "content matches a protected pattern" lead to the *)
(* same decision: both are membership in the rules here.  Of the event log *)
(* the kinds are kept that a reader of the log decides by.                 *)
(***************************************************************************)
EXTENDS Integers, Sequences, FiniteSets, SequencesExt

CONSTANTS
  Sessions,      \* invocations of the command that open a session
  Files,         \* paths of the working tree
  PolicyFile,    \* the path of .ai/safety.yaml
  Protected,     \* paths the user's own safety.yaml names as sensitive
  Phases,        \* required non-orchestrator phases of a plan
  ProposalsOf,   \* per session: the patches its model may propose, as lists of paths
  OptionsOf,     \* per session: the combinations of flags it may be started with
  MaxCommands,   \* bound: verification commands of a plan
  MaxEdits,      \* bound: edits the user makes by hand
  MaxRollbacks,  \* bound: files restored by rollback commands
  User           \* the author of every content no run wrote

(* The flags of run: --apply, --repair, --dry-run, --parallel-agents, --allow-sensitive,
   --approval allow and --approval prompt. *)
Flag == {"apply", "repair", "dryRun", "parallel", "allowSensitive", "approveAll", "prompt"}

ASSUME AgentConstants ==
  /\ PolicyFile \in Files /\ Protected \subseteq Files
  /\ \A s \in Sessions : ProposalsOf[s] \subseteq Seq(Files)
  /\ User \notin Sessions
  /\ OptionsOf \in [Sessions -> SUBSET SUBSET Flag]
  /\ MaxCommands \in Nat /\ MaxEdits \in Nat /\ MaxRollbacks \in Nat

VARIABLES
  files,        \* the working tree: who wrote the content of each path
  mine,         \* history: the content the user last gave, or went back to, per path
  edits,        \* edits made by hand so far
  run,          \* per session: the locals of runTask and where it is
  agents,       \* per session and phase: the parallel advisory agents
  log,          \* .token-streaming/sessions/<id>.jsonl, by kind of event
  reports,      \* .token-streaming/reports/<id>.md
  checkpoints,  \* .token-streaming/checkpoints, oldest first
  rollbacks          \* files restored by rollback commands so far

agentVars == <<files, mine, edits, run, agents, log, reports, checkpoints, rollbacks>>

ByUser(n) == [by |-> User, n |-> n]
ByRun(s, turn) == [by |-> s, n |-> turn]
FileContent == [by : {User}, n : 0..MaxEdits] \cup [by : Sessions, n : 1..2]

Event == {"run.started", "agent.finished", "patch.proposed", "approval.granted",
          "approval.refused", "checkpoint.created", "patch.applied", "tests.finished",
          "review.completed", "run.completed", "run.failed"}
NoReport == [status |-> "none", applied |-> {}, checkpoint |-> 0, verdict |-> "not-run"]
Unstarted == [pc |-> "idle", flags |-> {}, turn |-> 1, rules |-> {}, patch |-> <<>>, left |-> <<>>,
              next |-> 0, failed |-> FALSE, applied |-> {}, checkpoint |-> 0, current |-> 0,
              startRules |-> {}, touched |-> {}]

AgentInit ==
  /\ files = [f \in Files |-> ByUser(0)] /\ mine = files /\ edits = 0
  /\ run = [s \in Sessions |-> Unstarted]
  /\ agents = [s \in Sessions |-> [a \in Phases |-> "off"]]
  /\ log = [s \in Sessions |-> <<>>]
  /\ reports = [s \in Sessions |-> NoReport]
  /\ checkpoints = <<>> /\ rollbacks = 0

-----------------------------------------------------------------------------
(* readSafetyPolicy: the rules in the policy file.  A run that rewrites it leaves
   no sensitive path, the worst it can do to the file. *)
readSafetyPolicy(content) == IF content.by = User THEN Protected ELSE {}

(* Mutant: the policy file is read again for every patch. *)
RereadRules(s, p) ==
  ToSet(p) \cap readSafetyPolicy(files[PolicyFile]) # {} /\ "allowSensitive" \notin run[s].flags

(* evaluatePatchPolicy: an approval is needed when the patch touches a sensitive
   path and --allow-sensitive was not given. *)
NeedsApproval(s, p) == ToSet(p) \cap run[s].rules # {} /\ "allowSensitive" \notin run[s].flags

(* createApprovalHost: --allow-sensitive implies --approval allow; deny is the default. *)
MayGrant(s) == run[s].flags \cap {"allowSensitive", "approveAll", "prompt"} # {}
MayRefuse(s) == run[s].flags \cap {"allowSensitive", "approveAll"} = {}

append(s, kinds) == log' = [log EXCEPT ![s] = @ \o kinds]
At(s, pc) == run[s].pc = pc
Go(s, pc) == run' = [run EXCEPT ![s].pc = pc]
(* runTask has returned, thrown or died: its locals are gone (flags, startRules and
   touched are history). *)
Leave(s, pc) == run' = [run EXCEPT ![s] = [Unstarted EXCEPT !.pc = pc, !.flags = run[s].flags,
                                             !.startRules = run[s].startRules, !.touched = run[s].touched]]
Alive(s) == run[s].pc \notin {"idle", "crashed"}

(* runTask, first lines: the session and its first events. *)
StartRun(s) ==
  /\ At(s, "idle")
  /\ \E o \in OptionsOf[s] : run' = [run EXCEPT ![s].pc = "init", ![s].flags = o]
  /\ append(s, <<"run.started">>)
  /\ UNCHANGED <<files, mine, edits, agents, reports, checkpoints, rollbacks>>

(* initializeTask: the manifest, rules included, is read once. *)
initializeTask(s) ==
  /\ At(s, "init")
  /\ LET rules == readSafetyPolicy(files[PolicyFile])
         parallel == "parallel" \in run[s].flags /\ Phases # {}
     IN /\ run' = [run EXCEPT ![s].rules = rules, ![s].startRules = rules,
                              ![s].pc = IF parallel THEN "agents" ELSE "model"]
        /\ agents' = IF parallel THEN [agents EXCEPT ![s] = [a \in Phases |-> "calling"]] ELSE agents
  /\ UNCHANGED <<files, mine, edits, log, reports, checkpoints, rollbacks>>

(* initializeTask throws (the scan, the manifest, or loadRecentHistoryContext on half a
   line an earlier crash left in a session log); writeInitializationFailureReport. *)
InitializationFails(s) ==
  /\ At(s, "init")
  /\ Leave(s, "ended")
  /\ append(s, <<"review.completed", "run.failed">>)
  /\ reports' = [reports EXCEPT ![s].status = "failed"]
  /\ UNCHANGED <<files, mine, edits, agents, checkpoints, rollbacks>>

(* runParallelAgents, one phase: the answer of its model call.  Promise.all goes on
   when the last one has answered. *)
AgentAnswers(s, a) ==
  /\ Alive(s) /\ agents[s][a] = "calling"
  /\ agents' = [agents EXCEPT ![s][a] = "done"]
  /\ append(s, <<"agent.finished">>)
  /\ run' = IF At(s, "agents") /\ \A b \in Phases : agents'[s][b] = "done"
            THEN [run EXCEPT ![s].pc = "model"] ELSE run
  /\ UNCHANGED <<files, mine, edits, reports, checkpoints, rollbacks>>

(* Mutant: every failing phase fails the run, also one that is already over. *)
EveryAgentFails(s, a) ==
  /\ Alive(s) /\ agents[s][a] = "calling"
  /\ agents' = [agents EXCEPT ![s][a] = "failed"]
  /\ append(s, <<"agent.finished">>)
  /\ Go(s, "failing")
  /\ UNCHANGED <<files, mine, edits, reports, checkpoints, rollbacks>>

(* runParallelAgents, one phase fails: Promise.all rejects at once, and the other
   phases go on by themselves. *)
AgentFails(s, a) ==
  /\ Alive(s) /\ agents[s][a] = "calling"
  /\ agents' = [agents EXCEPT ![s][a] = "failed"]
  /\ append(s, <<"agent.finished">>)
  /\ run' = IF At(s, "agents") THEN [run EXCEPT ![s].pc = "failing"] ELSE run
  /\ UNCHANGED <<files, mine, edits, reports, checkpoints, rollbacks>>

(* callModel or parsePatchProposal throws: the provider fails, or the proposal is malformed. *)
ModelFails(s) ==
  /\ At(s, "model")
  /\ Go(s, "failing")
  /\ UNCHANGED <<files, mine, edits, agents, log, reports, checkpoints, rollbacks>>

(* Where handlePatchProposal leaves the run when nothing is (or remains) to be written:
   shouldSkipTests for the first patch, never for the repair. *)
AfterPatch(s, proposed) ==
  IF run[s].turn = 1 /\ ("dryRun" \in run[s].flags \/ (proposed /\ "apply" \notin run[s].flags))
  THEN "closing" ELSE "verify"

(* No proposal in the answer: handlePatchProposal returns at once. *)
NothingProposed(s) ==
  /\ At(s, "model")
  /\ run' = [run EXCEPT ![s].pc = AfterPatch(s, FALSE), ![s].next = 0]
  /\ UNCHANGED <<files, mine, edits, agents, log, reports, checkpoints, rollbacks>>

(* handlePatchProposal up to the approval request.  The repair is always applied. *)
ProposePatch(s) ==
  /\ At(s, "model")
  /\ \E p \in ProposalsOf[s] :
       run' = [run EXCEPT ![s].patch = p, ![s].left = p, ![s].next = 0,
                 ![s].pc = IF run[s].turn = 1 /\ "apply" \notin run[s].flags THEN AfterPatch(s, TRUE)
                           ELSE IF NeedsApproval(s, p) THEN "asking" ELSE "snapshot"]
  /\ append(s, <<"patch.proposed">>)
  /\ UNCHANGED <<files, mine, edits, agents, reports, checkpoints, rollbacks>>

(* approvalHost.requestApproval for the patch. *)
GrantPatch(s) ==
  /\ At(s, "asking") /\ MayGrant(s)
  /\ Go(s, "snapshot") /\ append(s, <<"approval.granted">>)
  /\ UNCHANGED <<files, mine, edits, agents, reports, checkpoints, rollbacks>>

RefusePatch(s) ==
  /\ At(s, "asking") /\ MayRefuse(s)
  /\ Go(s, "failing") /\ append(s, <<"approval.refused">>)
  /\ UNCHANGED <<files, mine, edits, agents, reports, checkpoints, rollbacks>>

(* CheckpointStore.create reads every file of the patch and starts to write the
   checkpoint file: until it is done the file holds part of the JSON. *)
createCheckpoint(s) ==
  /\ At(s, "snapshot")
  /\ checkpoints' = Append(checkpoints, [owner |-> s, saved |-> [f \in ToSet(run[s].patch) |-> files[f]],
                                         base |-> [f \in ToSet(run[s].patch) |-> mine[f]], state |-> "torn"])
  /\ run' = [run EXCEPT ![s].pc = "saving", ![s].current = Len(checkpoints) + 1]
  /\ UNCHANGED <<files, mine, edits, agents, log, reports, rollbacks>>

(* CheckpointStore.save returns. *)
saveCheckpoint(s) ==
  /\ At(s, "saving")
  /\ checkpoints' = [checkpoints EXCEPT ![run[s].current].state = "whole"]
  /\ Go(s, "writing") /\ append(s, <<"checkpoint.created">>)
  /\ UNCHANGED <<files, mine, edits, agents, reports, rollbacks>>

(* Mutant: a checkpoint that cannot be written is ignored. *)
CheckpointIgnored(s) ==
  /\ run[s].pc \in {"snapshot", "saving"}
  /\ Go(s, "writing")
  /\ UNCHANGED <<files, mine, edits, agents, log, reports, checkpoints, rollbacks>>

(* The checkpoint cannot be written: handlePatchProposal throws. *)
CheckpointFails(s) ==
  /\ run[s].pc \in {"snapshot", "saving"}
  /\ Go(s, "failing")
  /\ UNCHANGED <<files, mine, edits, agents, log, reports, checkpoints, rollbacks>>

(* applyFilePatches, the next file. *)
WritePatchedFile(s) ==
  /\ At(s, "writing") /\ run[s].left # <<>>
  /\ files' = [files EXCEPT ![Head(run[s].left)] = ByRun(s, run[s].turn)]
  /\ run' = [run EXCEPT ![s].left = Tail(@), ![s].touched = @ \cup {Head(run[s].left)}]
  /\ UNCHANGED <<mine, edits, agents, log, reports, checkpoints, rollbacks>>

(* applyFilePatches throws: a path leaves the tree, cannot be written, or (the step of its
   write was taken) is cut short.  appliedFiles and checkpointId are not assigned. *)
PatchFails(s) ==
  /\ At(s, "writing")
  /\ Go(s, "failing")
  /\ UNCHANGED <<files, mine, edits, agents, log, reports, checkpoints, rollbacks>>

(* Mutant: the files of the last patch replace those applied before. *)
LastPatchOnly(s) ==
  /\ At(s, "writing") /\ run[s].left = <<>>
  /\ run' = [run EXCEPT ![s].pc = AfterPatch(s, TRUE), ![s].applied = ToSet(run[s].patch),
                        ![s].checkpoint = run[s].current]
  /\ append(s, <<"patch.applied">>)
  /\ UNCHANGED <<files, mine, edits, agents, reports, checkpoints, rollbacks>>

(* handlePatchProposal returns: patch.applied, appliedFiles, checkpointId. *)
FinishPatch(s) ==
  /\ At(s, "writing") /\ run[s].left = <<>>
  /\ run' = [run EXCEPT ![s].pc = AfterPatch(s, TRUE), ![s].applied = @ \cup ToSet(run[s].patch),
                        ![s].checkpoint = run[s].current]
  /\ append(s, <<"patch.applied">>)
  /\ UNCHANGED <<files, mine, edits, agents, reports, checkpoints, rollbacks>>

(* runVerification stops the run: evaluateCommandPolicy forbids the next command, its
   approval is refused, or the shell cannot be started and runCommand rejects. *)
BlockCommand(s) ==
  /\ At(s, "verify") /\ run[s].next < MaxCommands
  /\ Go(s, "failing")
  /\ UNCHANGED <<files, mine, edits, agents, log, reports, checkpoints, rollbacks>>

(* runVerification, one command that is allowed or approved.  An exit code, a timeout or
   too much output is a failure, and ends the loop. *)
RunCommand(s) ==
  /\ At(s, "verify") /\ run[s].next < MaxCommands
  /\ \E ok \in BOOLEAN :
       run' = [run EXCEPT ![s].next = IF ok THEN @ + 1 ELSE MaxCommands, ![s].failed = @ \/ ~ok]
  /\ append(s, <<"tests.finished">>)
  /\ UNCHANGED <<files, mine, edits, agents, reports, checkpoints, rollbacks>>


(* The results are in: one repair turn when it was asked for, the first patch was to be
   applied and a command failed. *)
FinishVerification(s) ==
  /\ At(s, "verify")
  /\ IF run[s].turn = 1 /\ {"apply", "repair"} \subseteq run[s].flags /\ run[s].failed
     THEN run' = [run EXCEPT ![s].pc = "model", ![s].turn = 2]
     ELSE Go(s, "closing")
  /\ UNCHANGED <<files, mine, edits, agents, log, reports, checkpoints, rollbacks>>

(* buildReviewSummary: the verdict is about the results runTask holds.  Those of a
   verification that was stopped are not among them, and a first turn that failed stays
   in, however well the repair went. *)
verificationStatus(s) ==
  CASE run[s].turn = 2 \/ (At(s, "closing") /\ run[s].failed) -> "failed"
    [] At(s, "closing") /\ run[s].turn = 1 /\ ~run[s].failed /\ run[s].next > 0 -> "passed"
    [] OTHER -> "not-run"

(* The end of a run that did not fail. *)
CompleteRun(s) ==
  /\ At(s, "closing")
  /\ Leave(s, "ended")
  /\ append(s, <<"review.completed", "run.completed">>)
  /\ reports' = [reports EXCEPT ![s] = [status |-> "completed", applied |-> run[s].applied,
                                        checkpoint |-> run[s].checkpoint,
                                        verdict |-> verificationStatus(s)]]
  /\ UNCHANGED <<files, mine, edits, agents, checkpoints, rollbacks>>

(* getGitDiff, getGitStatus or an append rejects outside every try: the command exits
   with neither a terminal event nor a report. *)
ClosingThrows(s) ==
  /\ At(s, "closing") /\ Leave(s, "crashed")
  /\ UNCHANGED <<files, mine, edits, agents, log, reports, checkpoints, rollbacks>>

(* writeFailureReport, after which runTask rethrows. *)
writeFailureReport(s) ==
  /\ At(s, "failing")
  /\ Leave(s, "ended")
  /\ append(s, <<"review.completed", "run.failed">>)
  /\ reports' = [reports EXCEPT ![s] = [status |-> "failed", applied |-> run[s].applied,
                                        checkpoint |-> run[s].checkpoint,
                                        verdict |-> verificationStatus(s)]]
  /\ UNCHANGED <<files, mine, edits, agents, checkpoints, rollbacks>>

(* The process dies on the way to the disk.  A death anywhere else is a run that takes no
   further step: nothing else looks at where another run is. *)
CrashRun(s) ==
  /\ run[s].pc \in {"saving", "writing"}
  /\ Leave(s, "crashed")
  /\ UNCHANGED <<files, mine, edits, agents, log, reports, checkpoints, rollbacks>>

-----------------------------------------------------------------------------
(* tools run --record: the permission is checked before the tool starts. *)
RecordTool(s) ==
  /\ At(s, "idle") /\ Go(s, "tool")
  /\ append(s, <<"run.started">>)
  /\ UNCHANGED <<files, mine, edits, agents, reports, checkpoints, rollbacks>>

(* evaluateToolPolicy and evaluateTestRunPolicy allow read tools and declared tests. *)
ToolBlocked(s) ==
  /\ At(s, "idle") /\ Leave(s, "ended")
  /\ append(s, <<"run.started", "run.failed">>)
  /\ reports' = [reports EXCEPT ![s].status = "failed"]
  /\ UNCHANGED <<files, mine, edits, agents, checkpoints, rollbacks>>

ToolFinishes(s) ==
  /\ At(s, "tool") /\ Leave(s, "ended")
  /\ append(s, <<"run.completed">>)
  /\ UNCHANGED <<files, mine, edits, agents, reports, checkpoints, rollbacks>>

ToolThrows(s) ==
  /\ At(s, "tool") /\ Leave(s, "ended")
  /\ append(s, <<"run.failed">>)
  /\ reports' = [reports EXCEPT ![s].status = "failed"]
  /\ UNCHANGED <<files, mine, edits, agents, checkpoints, rollbacks>>

-----------------------------------------------------------------------------
(* rollback <checkpoint-id|latest>: CheckpointStore.rollback loads the checkpoint (latest
   goes through list and names one of the same checkpoints) and restores or removes its
   files one by one.  One file is one step: the command may die after any of them, and
   runs and other rollbacks go on in between. *)
RollbackFile(i, f) ==
  /\ rollbacks < MaxRollbacks /\ rollbacks' = rollbacks + 1
  /\ checkpoints[i].state = "whole" /\ f \in DOMAIN checkpoints[i].saved
  /\ files' = [files EXCEPT ![f] = checkpoints[i].saved[f]]
  /\ mine' = [mine EXCEPT ![f] = checkpoints[i].base[f]]
  /\ UNCHANGED <<edits, run, agents, log, reports, checkpoints>>

(* The user edits a file by hand, during any of the waits of a run (an approval, a model
   call, a test), but not in the moment between a snapshot and the writes it is for. *)
EditByHand(f) ==
  /\ edits < MaxEdits
  /\ \A s \in Sessions : run[s].pc \notin {"saving", "writing"}
  /\ edits' = edits + 1
  /\ files' = [files EXCEPT ![f] = ByUser(edits')]
  /\ mine' = [mine EXCEPT ![f] = ByUser(edits')]
  /\ UNCHANGED <<run, agents, log, reports, checkpoints, rollbacks>>

RunStep(s) ==
  \/ StartRun(s) \/ initializeTask(s) \/ InitializationFails(s)
  \/ \E a \in Phases : AgentAnswers(s, a) \/ AgentFails(s, a)
  \/ ModelFails(s) \/ NothingProposed(s) \/ ProposePatch(s) \/ GrantPatch(s) \/ RefusePatch(s)
  \/ createCheckpoint(s) \/ saveCheckpoint(s) \/ CheckpointFails(s)
  \/ WritePatchedFile(s) \/ PatchFails(s) \/ FinishPatch(s)
  \/ BlockCommand(s) \/ RunCommand(s) \/ FinishVerification(s)
  \/ CompleteRun(s) \/ ClosingThrows(s) \/ writeFailureReport(s) \/ CrashRun(s)
  \/ RecordTool(s) \/ ToolBlocked(s) \/ ToolFinishes(s) \/ ToolThrows(s)

AgentNext ==
  \/ \E s \in Sessions : RunStep(s)
  \/ \E f \in Files : EditByHand(f) \/ \E i \in DOMAIN checkpoints : RollbackFile(i, f)

AgentSpec == AgentInit /\ [][AgentNext]_agentVars

-----------------------------------------------------------------------------
(* summarizeSession: what history and the latest-failure lookup tell of a session. *)
summarizeSession(s) ==
  LET kinds == {log[s][i] : i \in DOMAIN log[s]}
  IN IF "run.completed" \in kinds THEN "completed"
     ELSE IF "run.failed" \in kinds THEN "failed" ELSE "running"

Terminal == {"run.completed", "run.failed"}

(* The variables have their types: every session is at one place of runTask, the
   checkpoints and reports name existing files and checkpoints. *)
AgentTypeOK ==
  /\ files \in [Files -> FileContent] /\ mine \in [Files -> [by : {User}, n : 0..MaxEdits]]
  /\ edits \in 0..MaxEdits
  /\ \A s \in Sessions :
       /\ run[s].pc \in {"idle", "init", "agents", "model", "asking", "snapshot", "saving", "writing",
                         "verify", "closing", "failing", "tool", "ended", "crashed"}
       /\ run[s].flags \subseteq Flag /\ run[s].turn \in 1..2 /\ run[s].next \in 0..MaxCommands
       /\ run[s].rules \subseteq Files /\ {run[s].left, run[s].patch} \subseteq Seq(Files)
       /\ run[s].applied \cup run[s].touched \subseteq Files
       /\ {run[s].current, run[s].checkpoint, reports[s].checkpoint} \subseteq 0..Len(checkpoints)
       /\ log[s] \in Seq(Event)
       /\ agents[s] \in [Phases -> {"off", "calling", "done", "failed"}]
       /\ reports[s].status \in {"none", "completed", "failed"} /\ reports[s].applied \subseteq Files
       /\ reports[s].verdict \in {"not-run", "failed", "passed"}
  /\ \A i \in DOMAIN checkpoints : checkpoints[i].state \in {"torn", "whole"}
  /\ rollbacks \in 0..MaxRollbacks

(* Whatever runs, repairs, crashes and rollbacks came before: as long as a file holds
   something a run wrote, a checkpoint that was completely written holds the content the
   user last gave that file, or went back to; and a file no run's content is in holds
   exactly that.  handlePatchProposal takes the checkpoint after the approval, of every
   file of the patch, and has it on disk before the first write. *)
UserWorkKept ==
  \A f \in Files :
    IF files[f].by = User THEN files[f] = mine[f]
    ELSE \E i \in DOMAIN checkpoints :
           /\ checkpoints[i].state = "whole" /\ f \in DOMAIN checkpoints[i].saved
           /\ checkpoints[i].saved[f] = mine[f]

(* The log of session s shows that the patch of this turn was approved: the repair is
   the proposal that follows a test result. *)
LogShowsConsent(s, turn) ==
  \E i \in 1..(Len(log[s]) - 1) :
    /\ log[s][i] = "patch.proposed" /\ log[s][i + 1] = "approval.granted"
    /\ (turn = 2) <=> \E j \in 1..(i - 1) : log[s][j] = "tests.finished"

(* What a run leaves in a file that was sensitive when the run began was approved for
   that very patch, or --allow-sensitive was given: an approval of the first patch does
   not cover the repair, and a run cannot loosen its own rules by patching the policy
   file, since the manifest is loaded once, in initializeTask. *)
SensitiveWritesApproved ==
  \A s \in Sessions, f \in Files, turn \in 1..2 :
    (files[f] = ByRun(s, turn) /\ f \in run[s].startRules /\ "allowSensitive" \notin run[s].flags)
      => LogShowsConsent(s, turn)

(* A session ends at most once, its report agrees with what the history says of it, and
   nothing follows run.completed.  Only the remaining parallel agents may write after
   run.failed. *)
OneEnding ==
  \A s \in Sessions :
    LET ends == {i \in DOMAIN log[s] : log[s][i] \in Terminal}
    IN /\ Cardinality(ends) <= 1
       /\ \A i \in ends, j \in DOMAIN log[s] :
            j > i => log[s][i] = "run.failed" /\ log[s][j] = "agent.finished"
       /\ reports[s].status # "none" => summarizeSession(s) = reports[s].status

(* The report of a completed run lists exactly the files the run wrote, both turns
   included, its checkpoint is the one taken before the last patch, and it speaks of a
   verification iff the log shows one; the report of a failed run lists no file the run
   did not write. *)
ReportIsTrue ==
  \A s \in Sessions :
    /\ reports[s].applied \subseteq run[s].touched
    /\ reports[s].status = "completed" =>
         /\ reports[s].applied = run[s].touched
         /\ reports[s].verdict = "not-run" <=> "tests.finished" \notin ToSet(log[s])
         /\ IF \E i \in DOMAIN checkpoints : checkpoints[i].owner = s
            THEN /\ checkpoints[reports[s].checkpoint].owner = s
                 /\ \A i \in DOMAIN checkpoints : checkpoints[i].owner = s => i <= reports[s].checkpoint
            ELSE reports[s].checkpoint = 0
=============================================================================
