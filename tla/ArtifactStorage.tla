---------------------------- MODULE ArtifactStorage ----------------------------
(***************************************************************************)
(* Encrypted file storage: the artifact and chunk rows in D1, the          *)
(* ciphertext objects in the R2 bucket, and the deletion queue that keeps  *)
(* the two in step (artifact-service.ts, artifact-storage-invariants.ts,   *)
(* privacy-service.ts).                                                    *)
(*                                                                         *)
(* A statement or batch on D1 is one action, a call to the bucket is       *)
(* another, and a handler may be lost between any two of them.  An upload  *)
(* draws a fresh storage key, so a key is named by its upload.  A put that *)
(* has been sent stays in `flying` until the bucket applies or drops it,   *)
(* whatever became of the handler that sent it.                            *)
(*                                                                         *)
(* Times appear as the comparisons the SQL makes: `expired` is expires_at  *)
(* <= now, `old` is uploaded_at at least ten minutes ago, `due` is         *)
(* next_attempt_at <= now and `lapsed` is retain_until <= now.             *)
(***************************************************************************)
EXTENDS Naturals, FiniteSets, FiniteSetsExt

CONSTANTS
  Artifacts,    \* artifacts that may be created, all of one size
  Strict,       \* the ones created in strict privacy mode
  Uploads,      \* chunk upload requests, and the storage keys they draw
  Cleaners,     \* handlers that run a cleanup or a purge
  Tasks,        \* file tasks, here only what pins an artifact
  Contents,     \* possible contents of a chunk
  PartCount,    \* chunk_count of each artifact
  Batch,        \* ARTIFACT_PURGE_GENERATION_BATCH_SIZE
  Quota,        \* maximumTenantArtifactBytes over the artifact size
  LostReplies,  \* whether a batch may commit and its reply be lost
  Created,      \* bound: artifacts created
  Resent,       \* bound: artifacts whose parts may be sent more than once
  Expiring,     \* bound: artifacts that may expire by the clock
  NoUpload, NoContent

ASSUME StorageAssumption ==
  /\ PartCount \in [Artifacts -> Nat \ {0}] /\ Created \in Nat /\ Batch \in Nat \ {0} /\ Quota \in Nat
  /\ Strict \subseteq Artifacts /\ Resent \subseteq Artifacts /\ Expiring \subseteq Artifacts
  /\ NoUpload \notin Uploads /\ NoContent \notin Contents /\ Artifacts # {} /\ Contents # {}
  /\ LostReplies \in BOOLEAN
  /\ Uploads \cap Cleaners = {}

VARIABLES
  artifacts,  \* rows of artifacts
  chunks,     \* rows of artifact_chunks, by artifact and part number
  queue,      \* rows of artifact_object_deletions, by storage key
  bucket,     \* storage keys that have an object in R2
  flying,     \* storage keys with a put on its way
  uploads,    \* uploadArtifactChunk requests
  evict,      \* deletePendingChunk calls of uploads and cleaners
  closing,    \* completeArtifactUpload requests past their reads
  cleaners,   \* cleanupExpiredArtifactData and deleteArtifactBytes calls
  tasks       \* artifact_tasks rows

vars == <<artifacts, chunks, queue, bucket, flying, uploads, evict, closing, cleaners, tasks>>

Parts(a) == 1..PartCount[a]
Slots == UNION {{<<a, p>> : p \in Parts(a)} : a \in Artifacts}
Manifests == UNION {[Parts(a) -> Contents \cup {NoContent}] : a \in Artifacts}

ArtifactRow == [status : {"none", "uploading", "ready", "deleted"}, purged : BOOLEAN,
                expired : BOOLEAN, manifest : Manifests]
(* stamp names uploaded_at: its value at the insert, the one the stale sweep
   writes, and the one the owner of a late upload writes. *)
ChunkRow == [status : {"none", "pending", "ready", "deleting"}, key : Uploads \cup {NoUpload},
             content : Contents \cup {NoContent}, stamp : {"inserted", "swept", "retried"},
             old : BOOLEAN]
QueueRow == [queued : BOOLEAN, due : BOOLEAN, lapsed : BOOLEAN]
UploadRow == [phase : {"idle", "claim", "enqueue", "put", "sent", "landed", "unclaim",
                       "undo", "unrow", "mark", "done"},
              slot : Slots, content : Contents]
Generation == [slot : Slots, key : Uploads, stamp : {"inserted", "swept", "retried"},
               status : {"pending", "ready", "deleting"}]
EvictRow == [phase : {"none", "claim", "delete", "remove", "won", "lost"},
             slot : Slots, key : Uploads \cup {NoUpload}]
CleanerRow == [phase : {"idle", "queue", "settle", "retry", "sweep", "stale", "claim",
                        "select", "tombstone", "objects", "finish"},
               art : Artifacts, keys : SUBSET Uploads, lapsed : SUBSET Uploads,
               rows : SUBSET Generation]
TaskRow == [status : {"none", "queued", "leased", "ended"}, art : Artifacts]

NoManifest(a) == [p \in Parts(a) |-> NoContent]
NoChunk == [status |-> "none", key |-> NoUpload, content |-> NoContent,
            stamp |-> "inserted", old |-> FALSE]
NotQueued == [queued |-> FALSE, due |-> FALSE, lapsed |-> FALSE]
AnyArtifact == CHOOSE a \in Artifacts : TRUE
AnySlot == <<AnyArtifact, 1>>
NoEviction == [phase |-> "none", slot |-> AnySlot, key |-> NoUpload]
IdleCleaner == [phase |-> "idle", art |-> AnyArtifact, keys |-> {}, lapsed |-> {}, rows |-> {}]

Init ==
  /\ artifacts = [a \in Artifacts |-> [status |-> "none", purged |-> FALSE, expired |-> FALSE,
                                       manifest |-> NoManifest(a)]]
  /\ chunks = [s \in Slots |-> NoChunk]
  /\ queue = [k \in Uploads |-> NotQueued]
  /\ bucket = {}
  /\ flying = {}
  /\ uploads = [u \in Uploads |-> [phase |-> "idle", slot |-> AnySlot,
                                   content |-> CHOOSE c \in Contents : TRUE]]
  /\ evict = [h \in Uploads \cup Cleaners |-> NoEviction]
  /\ closing = {}
  /\ cleaners = [h \in Cleaners |-> IdleCleaner]
  /\ tasks = [t \in Tasks |-> [status |-> "none", art |-> AnyArtifact]]

Present(s) == chunks[s].status # "none"
HoldsKey(s, k) == Present(s) /\ chunks[s].key = k
Active(t) == tasks[t].status \in {"queued", "leased"}
Pinned(a) == \E t \in Tasks : Active(t) /\ tasks[t].art = a

(* The largest sets of at most Batch members, any order. *)
Batches(S) == {T \in SUBSET S : Cardinality(T) = Min({Batch, Cardinality(S)})}

(* ENQUEUE_ARTIFACT_OBJECT_DELETION_SQL: neither time ever moves later. *)
Enqueued(row, due) ==
  IF row.queued THEN [row EXCEPT !.due = @ \/ due]
  ELSE [queued |-> TRUE, due |-> due, lapsed |-> FALSE]

---------------------------------------------------------------------------
(* createArtifactUpload *)

CreateArtifactUpload(a) ==
  /\ artifacts[a].status = "none"
  /\ Cardinality({b \in Artifacts : artifacts[b].status # "none"}) < Created
  /\ Cardinality({b \in Artifacts : artifacts[b].status \notin {"none", "deleted"}
                                     /\ ~artifacts[b].expired}) + 1 <= Quota
  /\ artifacts' = [artifacts EXCEPT ![a].status = "uploading"]
  /\ UNCHANGED <<chunks, queue, bucket, flying, uploads, evict, closing, cleaners, tasks>>

---------------------------------------------------------------------------
(* uploadArtifactChunk *)

ToPhase(u, phase) == uploads' = [uploads EXCEPT ![u].phase = phase]

(* Reads the artifact and the row of the part.  A ready row, a young row or
   one with other content ends the request without a trace.  The second
   conjunct is the bound Resent. *)
BeginUpload(u, s, c) ==
  /\ uploads[u].phase = "idle"
  /\ s[1] \in Resent \/ \A v \in Uploads : uploads[v].phase = "idle" \/ uploads[v].slot # s
  /\ artifacts[s[1]].status = "uploading" /\ ~artifacts[s[1]].expired
  /\ \/ ~Present(s) /\ UNCHANGED evict
     \/ /\ chunks[s].status \in {"pending", "deleting"}
        /\ chunks[s].content = c /\ chunks[s].old
        /\ evict' = [evict EXCEPT ![u] =
             [phase |-> IF chunks[s].status = "pending" THEN "claim" ELSE "delete",
              slot |-> s, key |-> chunks[s].key]]
  /\ uploads' = [uploads EXCEPT ![u] = [phase |-> "claim", slot |-> s, content |-> c]]
  /\ UNCHANGED <<artifacts, chunks, queue, bucket, flying, closing, cleaners, tasks>>

(* INSERT OR IGNORE of the pending row. *)
ClaimChunk(u) ==
  LET s == uploads[u].slot
      a == artifacts[s[1]] IN
  /\ uploads[u].phase = "claim" /\ evict[u].phase \in {"none", "won"}
  /\ IF a.status = "uploading" /\ ~a.purged /\ ~a.expired /\ ~Present(s)
     THEN /\ chunks' = [chunks EXCEPT ![s] =
               [status |-> "pending", key |-> u, content |-> uploads[u].content,
                stamp |-> "inserted", old |-> FALSE]]
          /\ ToPhase(u, "enqueue")
     ELSE UNCHANGED chunks /\ ToPhase(u, "done")
  /\ evict' = [evict EXCEPT ![u] = NoEviction]
  /\ UNCHANGED <<artifacts, queue, bucket, flying, closing, cleaners, tasks>>

(* Mutant: the object is written with no tombstone on record. *)
PutUntracked(u) ==
  /\ uploads[u].phase = "enqueue"
  /\ ToPhase(u, "put")
  /\ UNCHANGED <<artifacts, chunks, queue, bucket, flying, evict, closing, cleaners, tasks>>

(* The tombstone is on record before the object is written. *)
EnqueueUpload(u) ==
  /\ uploads[u].phase = "enqueue"
  /\ queue' = [queue EXCEPT ![u] = Enqueued(@, FALSE)]
  /\ ToPhase(u, "put")
  /\ UNCHANGED <<artifacts, chunks, bucket, flying, evict, closing, cleaners, tasks>>

PutObject(u) ==
  /\ uploads[u].phase = "put"
  /\ flying' = flying \cup {u}
  /\ ToPhase(u, "sent")
  /\ UNCHANGED <<artifacts, chunks, queue, bucket, evict, closing, cleaners, tasks>>

(* The put throws, although the object may still arrive. *)
PutThrows(u) ==
  /\ uploads[u].phase = "sent"
  /\ ToPhase(u, "unclaim")
  /\ UNCHANGED <<artifacts, chunks, queue, bucket, flying, evict, closing, cleaners, tasks>>

UnclaimChunk(u) ==
  LET s == uploads[u].slot IN
  /\ uploads[u].phase = "unclaim"
  /\ chunks' = IF HoldsKey(s, u) /\ chunks[s].status = "pending"
               THEN [chunks EXCEPT ![s] = NoChunk] ELSE chunks
  /\ ToPhase(u, "done")
  /\ UNCHANGED <<artifacts, queue, bucket, flying, evict, closing, cleaners, tasks>>

(* The bucket. *)
PutLands(u) ==
  /\ u \in flying
  /\ flying' = flying \ {u}
  /\ bucket' = bucket \cup {u}
  /\ uploads' = [uploads EXCEPT ![u].phase = IF @ = "sent" THEN "landed" ELSE @]
  /\ UNCHANGED <<artifacts, chunks, queue, evict, closing, cleaners, tasks>>
PutDrops(u) ==
  /\ u \in flying
  /\ flying' = flying \ {u}
  /\ uploads' = [uploads EXCEPT ![u].phase = IF @ = "sent" THEN "unclaim" ELSE @]
  /\ UNCHANGED <<artifacts, chunks, queue, bucket, evict, closing, cleaners, tasks>>

(* Mutant: an upload finalizes although a purge has claimed the artifact. *)
MayFinalizePurged(u) ==
  LET s == uploads[u].slot IN
  /\ HoldsKey(s, u) /\ chunks[s].status = "pending"
  /\ artifacts[s[1]].status = "uploading"

(* The batch that makes the chunk ready and withdraws the tombstone.  Its
   comparison with expires_at uses the time before the put, at which the
   artifact was unexpired, so only the status and the purge decide. *)
MayFinalize(u) ==
  LET s == uploads[u].slot IN
  /\ HoldsKey(s, u) /\ chunks[s].status = "pending"
  /\ artifacts[s[1]].status = "uploading" /\ ~artifacts[s[1]].purged

FinalizeChunk(u) ==
  /\ uploads[u].phase = "landed"
  /\ IF MayFinalize(u)
     THEN /\ chunks' = [chunks EXCEPT ![uploads[u].slot].status = "ready"]
          /\ queue' = [queue EXCEPT ![u] = NotQueued]
          /\ \/ ToPhase(u, "done")
             \/ LostReplies /\ ToPhase(u, "undo")
     ELSE UNCHANGED <<chunks, queue>> /\ ToPhase(u, "undo")
  /\ UNCHANGED <<artifacts, bucket, flying, evict, closing, cleaners, tasks>>

FinalizeThrows(u) ==
  /\ uploads[u].phase = "landed"
  /\ ToPhase(u, "undo")
  /\ UNCHANGED <<artifacts, chunks, queue, bucket, flying, evict, closing, cleaners, tasks>>

(* deletePendingChunk for the request that owns the object. *)
UndoObject(u) ==
  /\ uploads[u].phase = "undo"
  /\ \/ bucket' = bucket \ {u} /\ ToPhase(u, "unrow")
     \/ UNCHANGED bucket /\ ToPhase(u, "mark")
  /\ UNCHANGED <<artifacts, chunks, queue, flying, evict, closing, cleaners, tasks>>

UndoRow(u) ==
  LET s == uploads[u].slot IN
  /\ uploads[u].phase = "unrow"
  /\ chunks' = IF HoldsKey(s, u) /\ chunks[s].status \in {"pending", "deleting"}
               THEN [chunks EXCEPT ![s] = NoChunk] ELSE chunks
  /\ ToPhase(u, "done")
  /\ UNCHANGED <<artifacts, queue, bucket, flying, evict, closing, cleaners, tasks>>

(* The bucket refused: leave a deleting row, re-inserted if it has gone. *)
MarkForRetry(u) ==
  LET s == uploads[u].slot
      row == [status |-> "deleting", key |-> u, content |-> uploads[u].content,
              stamp |-> "retried", old |-> FALSE] IN
  /\ uploads[u].phase = "mark"
  /\ chunks' = IF \/ ~Present(s)
                  \/ chunks[s].key = u /\ chunks[s].status \in {"pending", "deleting"}
               THEN [chunks EXCEPT ![s] = row] ELSE chunks
  /\ ToPhase(u, "done")
  /\ UNCHANGED <<artifacts, queue, bucket, flying, evict, closing, cleaners, tasks>>

(* The isolate goes away, a statement throws, or the eviction was lost. *)
LoseUpload(u) ==
  /\ uploads[u].phase \notin {"idle", "done"}
  /\ ToPhase(u, "done")
  /\ evict' = [evict EXCEPT ![u] = NoEviction]
  /\ UNCHANGED <<artifacts, chunks, queue, bucket, flying, closing, cleaners, tasks>>

---------------------------------------------------------------------------
(* deletePendingChunk for a request that found somebody else's row. *)

(* What its caller learns: an upload goes on only if it removed the row, the
   sweep goes on in any case. *)
Outcome(h, phase) ==
  [evict EXCEPT ![h] = [NoEviction EXCEPT !.phase = IF h \in Uploads THEN phase ELSE "none"]]

EvictClaim(h) ==
  LET e == evict[h] IN
  /\ e.phase = "claim"
  /\ IF HoldsKey(e.slot, e.key) /\ chunks[e.slot].status = "pending"
     THEN /\ chunks' = [chunks EXCEPT ![e.slot].status = "deleting",
                                      ![e.slot].stamp = "swept", ![e.slot].old = FALSE]
          /\ evict' = [evict EXCEPT ![h].phase = "delete"]
     ELSE UNCHANGED chunks /\ evict' = Outcome(h, "lost")
  /\ UNCHANGED <<artifacts, queue, bucket, flying, uploads, closing, cleaners, tasks>>

EvictObject(h) ==
  /\ evict[h].phase = "delete"
  /\ bucket' = bucket \ {evict[h].key}
  /\ evict' = [evict EXCEPT ![h].phase = "remove"]
  /\ UNCHANGED <<artifacts, chunks, queue, flying, uploads, closing, cleaners, tasks>>

EvictFails(h) ==
  /\ evict[h].phase = "delete"
  /\ evict' = Outcome(h, "lost")
  /\ UNCHANGED <<artifacts, chunks, queue, bucket, flying, uploads, closing, cleaners, tasks>>

RemoveEvicted(h) ==
  LET e == evict[h] IN
  /\ e.phase = "remove"
  /\ IF HoldsKey(e.slot, e.key) /\ chunks[e.slot].status = "deleting"
     THEN /\ chunks' = [chunks EXCEPT ![e.slot] = NoChunk]
          /\ evict' = Outcome(h, "won")
     ELSE UNCHANGED chunks /\ evict' = Outcome(h, "lost")
  /\ UNCHANGED <<artifacts, queue, bucket, flying, uploads, closing, cleaners, tasks>>

---------------------------------------------------------------------------
(* completeArtifactUpload *)

(* Every part is stored and equals the declared manifest. *)
BeginComplete(a) ==
  /\ artifacts[a].status = "uploading" /\ ~artifacts[a].expired
  /\ \A p \in Parts(a) : chunks[a, p].status = "ready"
  /\ closing' = closing \cup {[art |-> a, manifest |-> [p \in Parts(a) |-> chunks[a, p].content]]}
  /\ UNCHANGED <<artifacts, chunks, queue, bucket, flying, uploads, evict, cleaners, tasks>>

CommitComplete(c) ==
  LET a == artifacts[c.art] IN
  /\ closing' = closing \ {c}
  /\ artifacts' = IF /\ a.status = "uploading" /\ ~a.purged /\ ~a.expired
                     /\ \A p \in Parts(c.art) : chunks[c.art, p].status = "ready"
                  THEN [artifacts EXCEPT ![c.art].status = "ready",
                                         ![c.art].manifest = c.manifest]
                  ELSE artifacts
  /\ UNCHANGED <<chunks, queue, bucket, flying, uploads, evict, cleaners, tasks>>

LoseComplete(c) ==
  /\ closing' = closing \ {c}
  /\ UNCHANGED <<artifacts, chunks, queue, bucket, flying, uploads, evict, cleaners, tasks>>

---------------------------------------------------------------------------
(* The file tasks of the artifact, as far as they pin it. *)

OrderTask(t, a) ==
  /\ tasks[t].status = "none"
  /\ artifacts[a].status = "ready" /\ ~artifacts[a].purged /\ ~artifacts[a].expired
  /\ tasks' = [tasks EXCEPT ![t] = [status |-> "queued", art |-> a]]
  /\ UNCHANGED <<artifacts, chunks, queue, bucket, flying, uploads, evict, closing, cleaners>>

LeaseTask(t) ==
  /\ tasks[t].status = "queued"
  /\ tasks' = [tasks EXCEPT ![t].status = "leased"]
  /\ UNCHANGED <<artifacts, chunks, queue, bucket, flying, uploads, evict, closing, cleaners>>

RequeueTask(t) ==
  /\ tasks[t].status = "leased"
  /\ tasks' = [tasks EXCEPT ![t].status = "queued"]
  /\ UNCHANGED <<artifacts, chunks, queue, bucket, flying, uploads, evict, closing, cleaners>>

(* completeArtifactTask restarts the retention of a standard artifact and
   ends that of a strict one. *)
CompleteTask(t) ==
  /\ tasks[t].status = "leased"
  /\ tasks' = [tasks EXCEPT ![t].status = "ended"]
  /\ artifacts' = [artifacts EXCEPT ![tasks[t].art].expired = tasks[t].art \in Strict]
  /\ UNCHANGED <<chunks, queue, bucket, flying, uploads, evict, closing, cleaners>>

(* Failure or cancellation; a strict artifact then expires (ArtifactExpires). *)
EndTask(t) ==
  /\ Active(t)
  /\ tasks' = [tasks EXCEPT ![t].status = "ended"]
  /\ UNCHANGED <<artifacts, chunks, queue, bucket, flying, uploads, evict, closing, cleaners>>

---------------------------------------------------------------------------
(* cleanupExpiredArtifactData: the deletion queue, the stale chunks, then
   one expired artifact.  The task part is in module ArtifactTasks. *)

RowsAt(S) == {[slot |-> s, key |-> chunks[s].key, stamp |-> chunks[s].stamp,
               status |-> chunks[s].status] : s \in S}

(* Due keys that no pending or ready chunk holds. *)
DueKeys == {k \in Uploads :
  /\ queue[k].queued /\ queue[k].due
  /\ \A s \in Slots : HoldsKey(s, k) => chunks[s].status = "deleting"}

StartCleanup(h) ==
  /\ cleaners[h].phase = "idle"
  /\ \E K \in Batches(DueKeys) :
       cleaners' = [cleaners EXCEPT ![h] =
         [IdleCleaner EXCEPT !.phase = IF K = {} THEN "sweep" ELSE "queue",
                             !.keys = K, !.lapsed = {k \in K : queue[k].lapsed}]]
  /\ UNCHANGED <<artifacts, chunks, queue, bucket, flying, uploads, evict, closing, tasks>>

DeleteQueued(h) ==
  /\ cleaners[h].phase = "queue"
  /\ bucket' = bucket \ cleaners[h].keys
  /\ cleaners' = [cleaners EXCEPT ![h].phase = "settle"]
  /\ UNCHANGED <<artifacts, chunks, queue, flying, uploads, evict, closing, tasks>>

DeleteQueuedFails(h) ==
  /\ cleaners[h].phase = "queue"
  /\ cleaners' = [cleaners EXCEPT ![h].phase = "retry"]
  /\ UNCHANGED <<artifacts, chunks, queue, bucket, flying, uploads, evict, closing, tasks>>

(* Mutant: a tombstone goes with the first successful delete. *)
SettleAtOnce(h) ==
  /\ cleaners[h].phase = "settle"
  /\ queue' = [k \in Uploads |-> IF k \in cleaners[h].keys THEN NotQueued ELSE queue[k]]
  /\ cleaners' = [cleaners EXCEPT ![h] = [IdleCleaner EXCEPT !.phase = "sweep"]]
  /\ UNCHANGED <<artifacts, chunks, bucket, flying, uploads, evict, closing, tasks>>

(* retain_until is compared with the time the cleanup started. *)
SettleQueue(h) ==
  /\ cleaners[h].phase = "settle"
  /\ queue' = [k \in Uploads |->
       IF k \in cleaners[h].lapsed THEN NotQueued
       ELSE IF k \in cleaners[h].keys THEN [queue[k] EXCEPT !.due = FALSE]
       ELSE queue[k]]
  /\ cleaners' = [cleaners EXCEPT ![h] = [IdleCleaner EXCEPT !.phase = "sweep"]]
  /\ UNCHANGED <<artifacts, chunks, bucket, flying, uploads, evict, closing, tasks>>

(* The delete threw, or the batch after it did. *)
RetryQueue(h) ==
  /\ cleaners[h].phase \in {"retry", "settle"}
  /\ queue' = [k \in Uploads |->
       IF k \in cleaners[h].keys THEN [queue[k] EXCEPT !.due = FALSE] ELSE queue[k]]
  /\ cleaners' = [cleaners EXCEPT ![h] = [IdleCleaner EXCEPT !.phase = "sweep"]]
  /\ UNCHANGED <<artifacts, chunks, bucket, flying, uploads, evict, closing, tasks>>

(* Mutant: the sweep only looks for rows already being deleted. *)
SelectStaleDeleting(h) ==
  /\ cleaners[h].phase = "sweep"
  /\ \E S \in Batches({s \in Slots : chunks[s].status = "deleting" /\ chunks[s].old}) :
       cleaners' = [cleaners EXCEPT ![h].phase = "stale", ![h].rows = RowsAt(S)]
  /\ UNCHANGED <<artifacts, chunks, queue, bucket, flying, uploads, evict, closing, tasks>>

SelectStale(h) ==
  /\ cleaners[h].phase = "sweep"
  /\ \E S \in Batches({s \in Slots : chunks[s].status \in {"pending", "deleting"}
                                     /\ chunks[s].old}) :
       cleaners' = [cleaners EXCEPT ![h].phase = "stale", ![h].rows = RowsAt(S)]
  /\ UNCHANGED <<artifacts, chunks, queue, bucket, flying, uploads, evict, closing, tasks>>

Evicting(h) == evict[h].phase # "none"

(* deletePendingChunk on the row as the SELECT saw it. *)
EvictStale(h) ==
  /\ cleaners[h].phase = "stale" /\ ~Evicting(h)
  /\ \E r \in cleaners[h].rows :
       /\ evict' = [evict EXCEPT ![h] =
            [phase |-> IF r.status = "pending" THEN "claim" ELSE "delete",
             slot |-> r.slot, key |-> r.key]]
       /\ cleaners' = [cleaners EXCEPT ![h].rows = @ \ {r}]
  /\ UNCHANGED <<artifacts, chunks, queue, bucket, flying, uploads, closing, tasks>>

SelectExpired(h) ==
  LET expired == {a \in Artifacts : /\ artifacts[a].status \notin {"none", "deleted"}
                                    /\ artifacts[a].expired /\ ~Pinned(a)} IN
  /\ cleaners[h].phase = "stale" /\ cleaners[h].rows = {} /\ ~Evicting(h)
  /\ \/ /\ expired = {}
        /\ cleaners' = [cleaners EXCEPT ![h] = IdleCleaner]
     \/ \E a \in expired :
          cleaners' = [cleaners EXCEPT ![h].phase = "claim", ![h].art = a]
  /\ UNCHANGED <<artifacts, chunks, queue, bucket, flying, uploads, evict, closing, tasks>>

---------------------------------------------------------------------------
(* purgeArtifact and purgeArtifactTask lead into deleteArtifactBytes, which
   is also what the cleanup does with an expired artifact. *)

PurgeArtifact(h, a) ==
  /\ cleaners[h].phase = "idle"
  /\ artifacts[a].status # "none"
  /\ ~(artifacts[a].purged /\ artifacts[a].status = "deleted")
  /\ ~Pinned(a)
  /\ cleaners' = [cleaners EXCEPT ![h] = [IdleCleaner EXCEPT !.phase = "claim", !.art = a]]
  /\ UNCHANGED <<artifacts, chunks, queue, bucket, flying, uploads, evict, closing, tasks>>

(* A queued task is cancelled, a leased one refused; the artifact expires. *)
PurgeArtifactTask(h, t) ==
  LET a == tasks[t].art IN
  /\ cleaners[h].phase = "idle"
  /\ tasks[t].status \in {"queued", "ended"}
  /\ \A r \in Tasks \ {t} : Active(r) => tasks[r].art # a
  /\ tasks' = [tasks EXCEPT ![t].status = "ended"]
  /\ artifacts' = [artifacts EXCEPT ![a].expired = TRUE]
  /\ cleaners' = [cleaners EXCEPT ![h] = [IdleCleaner EXCEPT !.phase = "claim", !.art = a]]
  /\ UNCHANGED <<chunks, queue, bucket, flying, uploads, evict, closing>>

(* Mutant: the purge does not look for active tasks again. *)
ClaimPurgePinned(h) ==
  /\ cleaners[h].phase = "claim"
  /\ artifacts' = [artifacts EXCEPT ![cleaners[h].art].purged = TRUE,
                                    ![cleaners[h].art].expired = TRUE]
  /\ cleaners' = [cleaners EXCEPT ![h].phase = "select"]
  /\ UNCHANGED <<chunks, queue, bucket, flying, uploads, evict, closing, tasks>>

ClaimPurge(h) ==
  LET a == cleaners[h].art IN
  /\ cleaners[h].phase = "claim"
  /\ IF Pinned(a)
     THEN UNCHANGED artifacts /\ cleaners' = [cleaners EXCEPT ![h] = IdleCleaner]
     ELSE /\ artifacts' = [artifacts EXCEPT ![a].purged = TRUE, ![a].expired = TRUE]
          /\ cleaners' = [cleaners EXCEPT ![h].phase = "select"]
  /\ UNCHANGED <<chunks, queue, bucket, flying, uploads, evict, closing, tasks>>

(* The first Batch rows of the artifact, by part number. *)
SelectGenerations(h) ==
  LET a == cleaners[h].art
      present == {p \in Parts(a) : Present(<<a, p>>)}
      first == {p \in present : Cardinality({q \in present : q < p}) < Batch} IN
  /\ cleaners[h].phase = "select"
  /\ cleaners' = [cleaners EXCEPT ![h].rows = RowsAt({<<a, p>> : p \in first}),
                                  ![h].phase = IF first = {} THEN "finish" ELSE "tombstone"]
  /\ UNCHANGED <<artifacts, chunks, queue, bucket, flying, uploads, evict, closing, tasks>>

SameGeneration(r) == HoldsKey(r.slot, r.key) /\ chunks[r.slot].stamp = r.stamp
KeysOf(rows) == {r.key : r \in rows}

(* One batch: every key is queued for deletion and its row is tombstoned. *)
Tombstone(h) ==
  LET rows == cleaners[h].rows
      hit == {r.slot : r \in {q \in rows : SameGeneration(q)}} IN
  /\ cleaners[h].phase = "tombstone"
  /\ queue' = [k \in Uploads |-> IF k \in KeysOf(rows) THEN Enqueued(queue[k], TRUE) ELSE queue[k]]
  /\ chunks' = [s \in Slots |-> IF s \in hit THEN [chunks[s] EXCEPT !.status = "deleting"]
                                ELSE chunks[s]]
  /\ cleaners' = [cleaners EXCEPT ![h].phase = "objects"]
  /\ UNCHANGED <<artifacts, bucket, flying, uploads, evict, closing, tasks>>

DeleteObjects(h) ==
  /\ cleaners[h].phase = "objects"
  /\ bucket' = bucket \ KeysOf(cleaners[h].rows)
  /\ cleaners' = [cleaners EXCEPT ![h].phase = "finish"]
  /\ UNCHANGED <<artifacts, chunks, queue, flying, uploads, evict, closing, tasks>>

(* The queue owns the retries of a delete that threw: LoseCleaner. *)

(* The confirmed generations leave D1; the artifact is deleted with the last. *)
FinishPurge(h) ==
  LET a == cleaners[h].art
      hit == {r.slot : r \in {q \in cleaners[h].rows : SameGeneration(q)}}
      left == {s \in Slots \ hit : s[1] = a /\ Present(s)} IN
  /\ cleaners[h].phase = "finish"
  /\ chunks' = [s \in Slots |-> IF s \in hit THEN NoChunk ELSE chunks[s]]
  /\ artifacts' = IF left = {}
                  THEN [artifacts EXCEPT ![a].status = "deleted", ![a].manifest = NoManifest(a)]
                  ELSE artifacts
  /\ cleaners' = [cleaners EXCEPT ![h] = IdleCleaner]
  /\ UNCHANGED <<queue, bucket, flying, uploads, evict, closing, tasks>>

(* The isolate goes away, or the bucket or the database throws. *)
LoseCleaner(h) ==
  /\ cleaners[h].phase # "idle"
  /\ cleaners' = [cleaners EXCEPT ![h] = IdleCleaner]
  /\ evict' = [evict EXCEPT ![h] = NoEviction]
  /\ UNCHANGED <<artifacts, chunks, queue, bucket, flying, uploads, closing, tasks>>

---------------------------------------------------------------------------
(* The clock. *)

ArtifactExpires(a) ==
  /\ artifacts[a].status # "none" /\ ~artifacts[a].expired /\ a \in Expiring
  /\ artifacts' = [artifacts EXCEPT ![a].expired = TRUE]
  /\ UNCHANGED <<chunks, queue, bucket, flying, uploads, evict, closing, cleaners, tasks>>

ChunkAges(s) ==
  /\ chunks[s].status \in {"pending", "deleting"} /\ ~chunks[s].old
  /\ chunks' = [chunks EXCEPT ![s].old = TRUE]
  /\ UNCHANGED <<artifacts, queue, bucket, flying, uploads, evict, closing, cleaners, tasks>>

QueueDue(k) ==
  /\ queue[k].queued /\ ~queue[k].due
  /\ queue' = [queue EXCEPT ![k].due = TRUE]
  /\ UNCHANGED <<artifacts, chunks, bucket, flying, uploads, evict, closing, cleaners, tasks>>

(* Nothing the upload sent is still on its way after 24 hours. *)
QueueLapses(k) ==
  /\ queue[k].queued /\ ~queue[k].lapsed
  /\ uploads[k].phase = "done" /\ k \notin flying
  /\ queue' = [queue EXCEPT ![k].lapsed = TRUE]
  /\ UNCHANGED <<artifacts, chunks, bucket, flying, uploads, evict, closing, cleaners, tasks>>

Clock ==
  \/ \E a \in Artifacts : ArtifactExpires(a)
  \/ \E s \in Slots : ChunkAges(s)
  \/ \E k \in Uploads : QueueDue(k) \/ QueueLapses(k)

Buyer ==
  \/ \E a \in Artifacts : CreateArtifactUpload(a) \/ BeginComplete(a)
  \/ \E c \in closing : CommitComplete(c) \/ LoseComplete(c)
  \/ \E u \in Uploads :
       \/ \E s \in Slots, c \in Contents : BeginUpload(u, s, c)
       \/ ClaimChunk(u) \/ EnqueueUpload(u) \/ PutObject(u) \/ PutThrows(u) \/ UnclaimChunk(u)
       \/ FinalizeChunk(u) \/ FinalizeThrows(u)
       \/ UndoObject(u) \/ UndoRow(u) \/ MarkForRetry(u) \/ LoseUpload(u)

Store == \E u \in Uploads : PutLands(u) \/ PutDrops(u)

Work == \E t \in Tasks :
  \/ \E a \in Artifacts : OrderTask(t, a)
  \/ LeaseTask(t) \/ RequeueTask(t) \/ CompleteTask(t) \/ EndTask(t)

Clean(h) ==
  \/ StartCleanup(h) \/ DeleteQueued(h) \/ DeleteQueuedFails(h) \/ SettleQueue(h) \/ RetryQueue(h)
  \/ SelectStale(h) \/ EvictStale(h) \/ SelectExpired(h)
  \/ \E a \in Artifacts : PurgeArtifact(h, a)
  \/ \E t \in Tasks : PurgeArtifactTask(h, t)
  \/ ClaimPurge(h) \/ SelectGenerations(h) \/ Tombstone(h) \/ DeleteObjects(h) \/ FinishPurge(h)
  \/ LoseCleaner(h)

Next ==
  \/ Clock \/ Buyer \/ Store \/ Work
  \/ \E h \in Cleaners : Clean(h)
  \/ \E h \in Uploads \cup Cleaners :
       EvictClaim(h) \/ EvictObject(h) \/ EvictFails(h) \/ RemoveEvicted(h)

Spec == Init /\ [][Next]_vars

(* What a cleanup or purge does while nothing fails. *)
CleanStep(h) ==
  \/ DeleteQueued(h) \/ SettleQueue(h) \/ RetryQueue(h)
  \/ SelectStale(h) \/ EvictStale(h) \/ SelectExpired(h)
  \/ EvictClaim(h) \/ EvictObject(h) \/ RemoveEvicted(h)
  \/ ClaimPurge(h) \/ SelectGenerations(h) \/ Tombstone(h) \/ DeleteObjects(h) \/ FinishPurge(h)

Fault(h) == LoseCleaner(h) \/ DeleteQueuedFails(h) \/ EvictFails(h)

(* Rows age, a put arrives or is dropped, the cleanup is started
   again and again, and from some time on only the cleanup's own steps
   end it (its last step may look like a lost handler). *)
Fairness ==
  /\ \A s \in Slots : WF_vars(ChunkAges(s))
  /\ \A k \in Uploads : WF_vars(QueueDue(k)) /\ WF_vars(QueueLapses(k))
                        /\ WF_vars(PutLands(k) \/ PutDrops(k))
  /\ \A h \in Cleaners : /\ SF_vars(StartCleanup(h)) /\ WF_vars(CleanStep(h))
                         /\ <>[][Fault(h) => CleanStep(h)]_vars

FairSpec == Spec /\ Fairness

---------------------------------------------------------------------------
(* Properties. *)

(* Every variable holds rows of its table. *)
StorageTypeOK ==
  /\ artifacts \in [Artifacts -> ArtifactRow]
  /\ chunks \in [Slots -> ChunkRow]
  /\ queue \in [Uploads -> QueueRow]
  /\ bucket \subseteq Uploads /\ flying \subseteq Uploads
  /\ uploads \in [Uploads -> UploadRow]
  /\ evict \in [Uploads \cup Cleaners -> EvictRow]
  /\ closing \subseteq [art : Artifacts, manifest : Manifests]
  /\ cleaners \in [Cleaners -> CleanerRow]
  /\ tasks \in [Tasks -> TaskRow]

(* No ciphertext is ever beyond discovery: an object in the bucket, and a
   put that may still arrive, has a chunk row or a row in the deletion queue
   (ADR 0006: a failed delete never degrades into an orphan). *)
NoOrphanObject ==
  \A k \in bucket \cup flying :
    queue[k].queued \/ \E s \in Slots : HoldsKey(s, k)

(* Active tasks pin their input: while a task waits or runs, its artifact is
   ready and unpurged, and the bucket holds every part with the contents of
   the manifest the buyer committed. *)
PinnedInput ==
  \A t \in Tasks : Active(t) =>
    LET a == tasks[t].art IN
    /\ artifacts[a].status = "ready" /\ ~artifacts[a].purged
    /\ \A p \in Parts(a) : /\ chunks[a, p].status = "ready"
                           /\ chunks[a, p].key \in bucket
                           /\ chunks[a, p].content = artifacts[a].manifest[p]

(* A late upload or completion cannot revive purged content: once a purge
   has claimed the artifact it never becomes ready and none of its chunks
   does, and it is marked deleted only when, in however many batches, every
   generation it held has left the table or is on the way out. *)
PurgeIsFinal ==
  [][\A a \in Artifacts : artifacts[a].purged =>
       /\ artifacts'[a].purged
       /\ artifacts'[a].status \in {artifacts[a].status, "deleted"}
       /\ \A p \in Parts(a) : chunks'[a, p].status = "ready" => chunks[a, p].status = "ready"
       /\ artifacts'[a].status = "deleted" =>
            \A p \in Parts(a) : chunks'[a, p].status \notin {"pending", "ready"}]_vars

KeysIn(a) == {k \in Uploads : uploads[k].phase # "idle" /\ uploads[k].slot[1] = a}

(* Once a purge has claimed an artifact, by request or by expiry, it ends up
   deleted and its ciphertext leaves the bucket for good, through lost
   handlers, refused deletes and late puts. *)
PurgedBytesVanish ==
  \A a \in Artifacts : artifacts[a].purged ~>
    [](artifacts[a].status = "deleted" /\ KeysIn(a) \cap (bucket \cup flying) = {})

(* A part whose upload was lost is not blocked forever: its pending row
   becomes ready or goes away. *)
PendingResolves ==
  \A s \in Slots, k \in Uploads :
    (HoldsKey(s, k) /\ chunks[s].status = "pending")
      ~> ~(HoldsKey(s, k) /\ chunks[s].status = "pending")
=============================================================================
