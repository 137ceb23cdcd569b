----------------------------- MODULE StorageProofs -----------------------------
(***************************************************************************)
(* Proofs about ArtifactStorage, for any number of artifacts, uploads,     *)
(* cleaners and tasks and any batch size.                                  *)
(*                                                                         *)
(* Two ideas carry them.  A storage key belongs to one upload and so to    *)
(* one slot, and once it is `Fading` (no pending or ready row holds it) it *)
(* stays so: what a cleaner read before its deletes is therefore still     *)
(* true when they run, however old the reading is.  And a step of any      *)
(* handler, whatever it does to its own program counter, is `Orderly`: it  *)
(* moves every key, part, artifact, task and completion in one of a few    *)
(* ways, from which the whole invariant follows once (OrderlyKeeps).       *)
(***************************************************************************)
EXTENDS ArtifactStorage, TLAPS

(* The upload has inserted its row: from here on the key is its own. *)
Claimed(k) == uploads[k].phase \notin {"idle", "claim"}

(* Nothing the key names can be stored for good any more. *)
Fading(k) == Claimed(k) /\ \A s \in Slots : HoldsKey(s, k) => chunks[s].status = "deleting"

(* The deletion queue knows what the bucket holds under the key. *)
Tracked(k) == k \in bucket => queue[k].queued

(* The upload is over and its put has been applied or dropped. *)
Over(k) == uploads[k].phase = "done" /\ k \notin flying

(* A key belongs to the slot of its upload. *)
Of(k, s) == k \in Uploads /\ Claimed(k) /\ s = uploads[k].slot

ChunkInv(s) ==
  Present(s) => /\ Of(chunks[s].key, s)
                /\ chunks[s].status \in {"pending", "ready"} => chunks[s].stamp = "inserted"
                /\ (chunks[s].status = "pending" /\ uploads[chunks[s].key].phase = "landed")
                     => chunks[s].key \in bucket

UploadInv(u) ==
  LET phase == uploads[u].phase IN
  /\ phase \in {"put", "sent", "landed", "unclaim"} => queue[u].queued
  /\ phase \in {"idle", "claim", "enqueue", "put", "unrow"} => u \notin bucket
  /\ u \in flying => phase \in {"sent", "unclaim", "done"} /\ queue[u].queued
  /\ queue[u].queued => Claimed(u)
  /\ queue[u].lapsed => Over(u)

EvictInv(h) ==
  LET e == evict[h] IN
  /\ e.phase \in {"claim", "delete", "remove"} => Of(e.key, e.slot)
  /\ e.phase \in {"delete", "remove"} => Fading(e.key)
  /\ e.phase = "remove" => Tracked(e.key)

Purging == {"select", "tombstone", "objects", "finish"}

RowInv(h, r) ==
  /\ cleaners[h].phase \in {"stale", "tombstone", "objects", "finish"} /\ Of(r.key, r.slot)
  /\ IF r.status = "deleting" THEN Fading(r.key) ELSE r.stamp = "inserted"
  /\ cleaners[h].phase \in {"objects", "finish"} => Fading(r.key) /\ Tracked(r.key)
  /\ cleaners[h].phase \in Purging => r.slot[1] = cleaners[h].art
  /\ cleaners[h].phase = "stale" => r.status # "ready"

CleanerInv(h) ==
  LET c == cleaners[h] IN
  /\ \A k \in c.keys : c.phase \in {"queue", "settle", "retry"} /\ Fading(k)
  /\ \A k \in c.lapsed : k \in c.keys /\ Over(k) /\ (c.phase = "settle" => k \notin bucket)
  /\ \A r \in c.rows : RowInv(h, r)
  /\ c.phase \in Purging \cup {"claim"} => artifacts[c.art].status # "none"
  /\ c.phase \in Purging => artifacts[c.art].purged

ArtifactInv(a) ==
  LET row == artifacts[a] IN
  /\ row.purged => row.status # "none"
  /\ row.status = "deleted" => /\ row.purged
                               /\ \A p \in Parts(a) : chunks[a, p].status \notin {"pending", "ready"}
  /\ (row.status = "ready" /\ ~row.purged)
        => \A p \in Parts(a) : chunks[a, p].status = "ready" /\ chunks[a, p].content = row.manifest[p]
  /\ \A c \in closing : (c.art = a /\ ~row.purged)
        => \A p \in Parts(a) : chunks[a, p].status = "ready" /\ chunks[a, p].content = c.manifest[p]

TaskInv(t) ==
  /\ tasks[t].status # "none" => artifacts[tasks[t].art].status # "none"
  /\ Active(t) => artifacts[tasks[t].art].status = "ready" /\ ~artifacts[tasks[t].art].purged

(* A chunk that is ready is stored, as long as no reply of a batch is lost. *)
Stored ==
  ~LostReplies =>
    /\ \A s \in Slots : (chunks[s].status = "ready" /\ ~artifacts[s[1]].purged) => chunks[s].key \in bucket
    /\ \A s \in Slots : chunks[s].status = "ready"
         => uploads[chunks[s].key].phase = "done"

StorageInv ==
  /\ StorageTypeOK
  /\ \A s \in Slots : ChunkInv(s)
  /\ \A u \in Uploads : UploadInv(u)
  /\ \A h \in Uploads \cup Cleaners : EvictInv(h)
  /\ \A h \in Cleaners : CleanerInv(h)
  /\ \A a \in Artifacts : ArtifactInv(a)
  /\ \A t \in Tasks : TaskInv(t)
  /\ NoOrphanObject
  /\ Stored

---------------------------------------------------------------------------
(* What a step may do to a key, a part, an artifact and a task.  The phases
   of an upload are its program; an object goes only when its key is fading,
   or by the hand of its own upload; a tombstone goes only when the key is
   settled or the part is ready. *)
KeyMoves(k) ==
  LET p == uploads[k].phase
      q == uploads'[k].phase IN
  /\ p # "idle" => uploads'[k].slot = uploads[k].slot
  /\ \/ q = p
     \/ p = "idle" /\ q = "claim"
     \/ p = "claim" /\ q = "enqueue"
     \/ p = "enqueue" /\ q = "put" /\ queue'[k].queued
     \/ p = "put" /\ q = "sent"
     \/ p = "sent" /\ q = "landed" /\ k \in bucket' /\ k \notin flying'
     \/ p = "sent" /\ q = "unclaim"
     \/ p = "landed" /\ q = "undo"
     \/ p = "undo" /\ q = "unrow" /\ k \notin bucket'
     \/ p = "undo" /\ q = "mark"
     \/ p # "idle" /\ q = "done"
  /\ k \in bucket' => k \in bucket \/ k \in flying
  /\ (k \in bucket /\ k \notin bucket') => Fading(k) \/ p = "undo"
  /\ k \in flying' => k \in flying \/ (p = "put" /\ q = "sent")
  /\ queue'[k].queued => queue[k].queued \/ Claimed(k)
  /\ (queue[k].queued /\ ~queue'[k].queued) =>
       \/ Over(k) /\ k \notin bucket'
       \/ /\ p = "landed" /\ q \in {"done", "undo"}
          /\ \E s \in Slots : chunks'[s].key = k /\ chunks'[s].status = "ready"
  /\ queue'[k].lapsed => queue[k].lapsed \/ Over(k)

Unchanging(s) ==
  /\ chunks'[s].status = chunks[s].status /\ chunks'[s].key = chunks[s].key
  /\ chunks'[s].content = chunks[s].content /\ chunks'[s].stamp = chunks[s].stamp
Inserting(s) ==
  LET u == chunks'[s].key IN
  /\ u \in Uploads /\ uploads[u].slot = s /\ ~Present(s)
  /\ \/ /\ uploads[u].phase = "claim" /\ uploads'[u].phase = "enqueue"
        /\ chunks'[s].status = "pending" /\ chunks'[s].stamp = "inserted"
        /\ artifacts[s[1]].status = "uploading" /\ ~artifacts[s[1]].purged
     \/ uploads[u].phase = "mark" /\ chunks'[s].status = "deleting"
Finalizing(s) ==
  LET u == chunks[s].key IN
  /\ chunks[s].status = "pending" /\ chunks'[s].status = "ready"
  /\ chunks'[s].key = u /\ chunks'[s].stamp = chunks[s].stamp
  /\ uploads[u].phase = "landed" /\ (LostReplies \/ uploads'[u].phase = "done")
  /\ artifacts[s[1]].status = "uploading" /\ ~artifacts[s[1]].purged
Ending(s) ==
  /\ Present(s) /\ (chunks[s].status = "ready" => artifacts[s[1]].purged)
  /\ \/ chunks'[s].status = "deleting" /\ chunks'[s].key = chunks[s].key
     \/ /\ chunks'[s].status = "none"
        /\ \/ chunks[s].key \notin bucket' /\ chunks[s].key \notin flying'
           \/ queue'[chunks[s].key].queued

ChunkMoves(s) == Unchanging(s) \/ Inserting(s) \/ Finalizing(s) \/ Ending(s)

ArtifactMoves(a) ==
  LET r == artifacts[a]
      n == artifacts'[a] IN
  /\ r.purged => n.purged
  /\ \/ n.status = r.status /\ n.manifest = r.manifest /\ n.purged = r.purged
     \/ r.status = "none" /\ n.status = "uploading" /\ n.purged = r.purged
     \/ /\ r.status = "uploading" /\ ~r.purged /\ n.status = "ready"
        /\ \E c \in closing : c.art = a /\ n.manifest = c.manifest
     \/ /\ n.status = r.status /\ n.purged /\ r.status # "none"
        /\ \A t \in Tasks : tasks'[t].status \in {"queued", "leased"} => tasks'[t].art # a
     \/ /\ r.purged /\ n.status = "deleted"
        /\ \A p \in Parts(a) : chunks'[a, p].status \notin {"pending", "ready"}

TaskMoves(t) ==
  \/ /\ tasks'[t].art = tasks[t].art
     /\ tasks'[t].status # "none" => tasks[t].status # "none"
     /\ tasks'[t].status \in {"queued", "leased"} => Active(t)
  \/ /\ artifacts'[tasks'[t].art].status = "ready" /\ ~artifacts'[tasks'[t].art].purged
     /\ tasks'[t].art \in Artifacts

ClosingMoves == \A c \in closing' : \/ c \in closing
                                    \/ \A p \in Parts(c.art) : /\ chunks'[c.art, p].status = "ready"
                                                               /\ chunks'[c.art, p].content = c.manifest[p]
Orderly ==
  /\ \A k \in Uploads : KeyMoves(k)
  /\ \A s \in Slots : ChunkMoves(s)
  /\ \A a \in Artifacts : ArtifactMoves(a)
  /\ \A t \in Tasks : TaskMoves(t)
  /\ ClosingMoves

(* The same after the step, for a key that is named before it. *)
ClaimedNext(k) == uploads'[k].phase \notin {"idle", "claim"}
FadingNext(k) ==
  ClaimedNext(k) /\ \A s \in Slots :
    (chunks'[s].status # "none" /\ chunks'[s].key = k) => chunks'[s].status = "deleting"
TrackedNext(k) == k \in bucket' => queue'[k].queued
OverNext(k) == uploads'[k].phase = "done" /\ k \notin flying'
OfNext(k, s) == k \in Uploads /\ ClaimedNext(k) /\ s = uploads'[k].slot

(* What holds of a key from one point on. *)
Kept(k) ==
  /\ Claimed(k) => ClaimedNext(k) /\ uploads'[k].slot = uploads[k].slot
  /\ Fading(k) => FadingNext(k)
  /\ Fading(k) /\ Tracked(k) => TrackedNext(k)
  /\ Over(k) => OverNext(k)
  /\ Over(k) /\ k \notin bucket => k \notin bucket'

(* The operators below read a key after the step. *)
LEMMA NextFacts ==
  ASSUME NEW k
  PROVE  /\ Claimed(k)' <=> ClaimedNext(k)
         /\ Fading(k)' <=> FadingNext(k)
         /\ Tracked(k)' <=> TrackedNext(k)
         /\ Over(k)' <=> OverNext(k)
         /\ \A s : Of(k, s)' <=> OfNext(k, s)
BY DEF Claimed, ClaimedNext, Fading, FadingNext, HoldsKey, Present, Tracked, TrackedNext, Over, OverNext, Of, OfNext

(* A slot is an artifact and a part number. *)
LEMMA SlotFacts ==
  /\ \A a \in Artifacts : \A p \in Parts(a) : <<a, p>> \in Slots
  /\ \A s \in Slots : s[1] \in Artifacts /\ s[2] \in Parts(s[1]) /\ s = <<s[1], s[2]>>
  /\ \A s \in Slots, t \in Slots : s[1] = t[1] /\ s[2] = t[2] => s = t
BY DEF Slots

(* What is known of a key stays known: its slot, that it fades, that its
   upload is over. *)
LEMMA KeysKept ==
  ASSUME StorageInv, Orderly, NEW k \in Uploads
  PROVE  Kept(k)
<1>1. KeyMoves(k) /\ UploadInv(k) /\ \A s \in Slots : ChunkMoves(s) /\ ChunkInv(s)
  BY DEF StorageInv, Orderly
<1>2. Claimed(k) => ClaimedNext(k) /\ uploads'[k].slot = uploads[k].slot
  BY <1>1 DEF KeyMoves, Claimed, ClaimedNext
<1>3. Over(k) => OverNext(k) /\ (k \notin bucket => k \notin bucket')
  BY <1>1 DEF KeyMoves, Over, OverNext
<1>4. ASSUME Fading(k), NEW s \in Slots, chunks'[s].status # "none", chunks'[s].key = k
      PROVE  chunks'[s].status = "deleting"
  <2>1. Claimed(k) /\ (HoldsKey(s, k) => chunks[s].status = "deleting")
    BY <1>4 DEF Fading
  <2>2. chunks'[s].status # "none" /\ chunks'[s].key = k
    BY <1>4
  <2>3. CASE Unchanging(s)
    BY <2>1, <2>2, <2>3 DEF Unchanging, HoldsKey, Present
  <2>4. CASE Inserting(s)
    BY <2>1, <2>2, <2>4 DEF Inserting, Claimed
  <2>5. CASE Finalizing(s)
    BY <2>1, <2>2, <2>5 DEF Finalizing, HoldsKey, Present
  <2>6. CASE Ending(s)
    BY <2>1, <2>2, <2>6 DEF Ending
  <2>7. QED
    BY <1>1, <2>3, <2>4, <2>5, <2>6 DEF ChunkMoves
<1>5. Fading(k) => FadingNext(k)
  BY <1>2, <1>4 DEF Fading, FadingNext
<1>6. Fading(k) /\ Tracked(k) => TrackedNext(k)
  <2> SUFFICES ASSUME Fading(k), Tracked(k), k \in bucket' PROVE queue'[k].queued
    BY DEF TrackedNext
  <2>1. queue[k].queued
    BY <1>1 DEF KeyMoves, UploadInv, Tracked
  <2>2. ~\E s \in Slots : chunks'[s].key = k /\ chunks'[s].status = "ready"
    BY <1>4
  <2>3. QED
    BY <1>1, <2>1, <2>2 DEF KeyMoves
<1>7. QED
  BY <1>2, <1>3, <1>5, <1>6 DEF Kept

(* A row still belongs to the upload that drew its key. *)
LEMMA ChunksKept ==
  ASSUME StorageInv, Orderly, NEW s \in Slots
  PROVE  ChunkInv(s)'
<1> SUFFICES ASSUME Present(s)'
             PROVE  /\ OfNext(chunks'[s].key, s)
                    /\ chunks'[s].status \in {"pending", "ready"} => chunks'[s].stamp = "inserted"
                    /\ (chunks'[s].status = "pending" /\ uploads'[chunks'[s].key].phase = "landed")
                         => chunks'[s].key \in bucket'
  BY DEF ChunkInv, OfNext, ClaimedNext, Of, Claimed
<1> DEFINE k == chunks[s].key
           d == chunks'[s]
<1>1. ChunkMoves(s) /\ ChunkInv(s) /\ d.status # "none"
  BY DEF StorageInv, Orderly, Present
<1>2. ASSUME Present(s), d.key = k
      PROVE  /\ OfNext(d.key, s)
             /\ (chunks[s].status = "pending" /\ uploads'[k].phase = "landed") => k \in bucket'
  <2>1. k \in Uploads /\ Claimed(k) /\ s = uploads[k].slot /\ Kept(k) /\ KeyMoves(k)
    BY <1>1, <1>2, KeysKept DEF ChunkInv, Of, Orderly
  <2>2. OfNext(d.key, s)
    BY <1>2, <2>1 DEF Kept, OfNext
  <2>3. ASSUME chunks[s].status = "pending", uploads'[k].phase = "landed" PROVE k \in bucket'
    <3>1. ~Fading(k)
      BY <1>2, <2>3 DEF Fading, HoldsKey
    <3>2. QED
      BY <1>1, <1>2, <2>1, <2>3, <3>1 DEF KeyMoves, ChunkInv
  <2>4. QED
    BY <2>2, <2>3
<1>3. CASE Unchanging(s)
  <2>1. Present(s) /\ d.key = k /\ d.status = chunks[s].status /\ d.stamp = chunks[s].stamp
    BY <1>1, <1>3 DEF Unchanging, Present
  <2>2. QED
    BY <1>1, <1>2, <2>1 DEF ChunkInv
<1>4. CASE Inserting(s)
  <2>1. d.key \in Uploads /\ uploads[d.key].slot = s /\ uploads[d.key].phase \in {"claim", "mark"} /\ KeyMoves(d.key)
    BY <1>4 DEF Inserting, Orderly
  <2>2. uploads'[d.key].slot = s /\ uploads'[d.key].phase \notin {"idle", "claim", "landed"}
    BY <1>4, <2>1 DEF Inserting, KeyMoves
  <2>3. QED
    BY <1>4, <2>1, <2>2 DEF OfNext, ClaimedNext, Inserting
<1>5. CASE Finalizing(s)
  <2>1. Present(s) /\ d.key = k /\ d.status = "ready" /\ d.stamp = chunks[s].stamp /\ chunks[s].status = "pending"
    BY <1>5 DEF Finalizing, Present
  <2>2. QED
    BY <1>1, <1>2, <2>1 DEF ChunkInv
<1>6. CASE Ending(s)
  <2>1. Present(s) /\ d.key = k /\ d.status = "deleting"
    BY <1>1, <1>6 DEF Ending
  <2>2. QED
    BY <1>2, <2>1
<1>7. QED
  BY <1>1, <1>3, <1>4, <1>5, <1>6 DEF ChunkMoves

(* The tombstone outlives the put, whatever becomes of the handler. *)
LEMMA UploadsKept ==
  ASSUME StorageInv, Orderly, NEW u \in Uploads
  PROVE  UploadInv(u)'
<1> DEFINE p == uploads[u].phase
           q == uploads'[u].phase
<1>1. KeyMoves(u) /\ UploadInv(u) /\ (Claimed(u) => Claimed(u)') /\ (Over(u) => Over(u)')
  BY KeysKept, NextFacts DEF StorageInv, Orderly, Kept
<1>2. q \in {"put", "sent", "landed", "unclaim"} => queue'[u].queued
  BY <1>1 DEF KeyMoves, UploadInv, Over
<1>3. q \in {"idle", "claim", "enqueue", "put", "unrow"} => u \notin bucket'
  BY <1>1 DEF KeyMoves, UploadInv
<1>4. u \in flying' => q \in {"sent", "unclaim", "done"} /\ queue'[u].queued
  <2>1. u \in flying' => q \in {"sent", "unclaim", "done"}
    BY <1>1 DEF KeyMoves, UploadInv
  <2>2. u \in flying /\ u \in flying' => queue'[u].queued
    BY <1>1 DEF KeyMoves, UploadInv, Over
  <2>3. QED
    BY <1>1, <1>2, <2>1, <2>2 DEF KeyMoves
<1>5. queue'[u].queued => Claimed(u)'
  BY <1>1 DEF KeyMoves, UploadInv
<1>6. queue'[u].lapsed => Over(u)'
  BY <1>1 DEF KeyMoves, UploadInv
<1>7. QED
  BY <1>2, <1>3, <1>4, <1>5, <1>6 DEF UploadInv

(* An object loses its row only to a tombstone. *)
LEMMA NothingOrphaned ==
  ASSUME StorageInv, Orderly, StorageTypeOK'
  PROVE  NoOrphanObject'
<1> SUFFICES ASSUME NEW k \in Uploads, k \in bucket' \/ k \in flying', ~queue'[k].queued
             PROVE  \E s \in Slots : HoldsKey(s, k)'
  BY DEF StorageTypeOK, NoOrphanObject
<1>1. k \notin flying' /\ k \in bucket' /\ KeyMoves(k) /\ UploadInv(k)
  BY UploadsKept DEF UploadInv, StorageInv, Orderly
<1>2. CASE queue[k].queued
  BY <1>1, <1>2 DEF KeyMoves, HoldsKey, Present
<1>3. CASE ~queue[k].queued
  <2>1. PICK s \in Slots : HoldsKey(s, k)
    BY <1>1, <1>3 DEF KeyMoves, UploadInv, StorageInv, NoOrphanObject
  <2>2. ChunkMoves(s)
    BY DEF Orderly
  <2>3. HoldsKey(s, k)'
    BY <1>1, <2>1, <2>2 DEF ChunkMoves, Unchanging, Inserting, Finalizing, Ending, HoldsKey, Present
  <2>4. QED
    BY <2>3
<1>4. QED
  BY <1>2, <1>3

(* A part stays stored until a purge claims its artifact. *)
LEMMA StoredKept ==
  ASSUME StorageInv, Orderly
  PROVE  Stored'
<1> SUFFICES ASSUME ~LostReplies, NEW s \in Slots, chunks'[s].status = "ready"
             PROVE  /\ ~artifacts'[s[1]].purged => chunks'[s].key \in bucket'
                    /\ uploads'[chunks'[s].key].phase = "done"
  BY DEF Stored
<1> DEFINE k == chunks[s].key
<1>1. ChunkMoves(s) /\ ChunkInv(s) /\ s[1] \in Artifacts /\ ArtifactMoves(s[1])
  BY SlotFacts DEF StorageInv, Orderly
<1>2. Unchanging(s) \/ Finalizing(s)
  BY <1>1 DEF ChunkMoves, Inserting, Ending
<1>3. /\ Present(s) /\ chunks'[s].key = k /\ chunks[s].status \in {"pending", "ready"}
      /\ k \in Uploads /\ KeyMoves(k) /\ ~Fading(k)
  BY <1>1, <1>2 DEF Unchanging, Finalizing, ChunkInv, Present, Of, Orderly, Fading, HoldsKey
<1>4. uploads'[k].phase = "done" /\ uploads[k].phase \in {"landed", "done"}
  <2>1. CASE Unchanging(s)
    BY <1>3, <2>1 DEF Unchanging, StorageInv, Stored, KeyMoves
  <2>2. CASE Finalizing(s)
    BY <2>2 DEF Finalizing
  <2>3. QED
    BY <1>2, <2>1, <2>2
<1>5. ASSUME ~artifacts'[s[1]].purged PROVE k \in bucket'
  <2>1. ~artifacts[s[1]].purged
    BY <1>1, <1>5 DEF ArtifactMoves
  <2>2. k \in bucket
    <3>1. CASE Unchanging(s)
      BY <2>1, <3>1 DEF Unchanging, StorageInv, Stored
    <3>2. CASE Finalizing(s)
      BY <1>1, <3>2 DEF Finalizing, ChunkInv, Present
    <3>3. QED
      BY <1>2, <3>1, <3>2
  <2>3. QED
    BY <1>3, <1>4, <2>2 DEF KeyMoves
<1>6. QED
  BY <1>3, <1>4, <1>5

(* A part that is ready stays ready, with its contents, until a purge. *)
LEMMA ReadyStays ==
  ASSUME StorageInv, Orderly, NEW s \in Slots, chunks[s].status = "ready", ~artifacts[s[1]].purged
  PROVE  chunks'[s].status = "ready" /\ chunks'[s].content = chunks[s].content
BY DEF Orderly, ChunkMoves, Unchanging, Inserting, Finalizing, Ending, Present

(* A ready artifact, and a completion past its reads, keep their manifest. *)
LEMMA ArtifactsKept ==
  ASSUME StorageInv, Orderly, NEW a \in Artifacts
  PROVE  ArtifactInv(a)'
<1> DEFINE r == artifacts[a]
           n == artifacts'[a]
<1>1. ArtifactMoves(a) /\ ArtifactInv(a) /\ ClosingMoves
  BY DEF StorageInv, Orderly
<1>2. n.purged => n.status # "none"
  BY <1>1 DEF ArtifactMoves, ArtifactInv
<1>3. ASSUME n.status = "deleted"
      PROVE  n.purged /\ \A p \in Parts(a) : chunks'[a, p].status \notin {"pending", "ready"}
  <2>1. CASE r.status = "deleted"
    <3>1. r.purged /\ n.purged
      BY <1>1, <2>1 DEF ArtifactMoves, ArtifactInv
    <3>2. ASSUME NEW p \in Parts(a) PROVE chunks'[a, p].status \notin {"pending", "ready"}
      <4>1. <<a, p>> \in Slots /\ ChunkMoves(<<a, p>>) /\ chunks[a, p].status \notin {"pending", "ready"}
        BY <1>1, <2>1, SlotFacts DEF Orderly, ArtifactInv
      <4>2. <<a, p>>[1] = a
        OBVIOUS
      <4>3. QED
        BY <2>1, <4>1, <4>2 DEF ChunkMoves, Unchanging, Inserting, Finalizing, Ending
    <3>3. QED
      BY <3>1, <3>2
  <2>2. CASE r.status # "deleted"
    BY <1>1, <1>3, <2>2 DEF ArtifactMoves
  <2>3. QED
    BY <2>1, <2>2
<1>4. ASSUME ~n.purged, NEW p \in Parts(a), chunks[a, p].status = "ready"
      PROVE  chunks'[a, p].status = "ready" /\ chunks'[a, p].content = chunks[a, p].content
  <2>1. <<a, p>> \in Slots /\ <<a, p>>[1] = a /\ ~r.purged
    BY <1>1, <1>4, SlotFacts DEF ArtifactMoves
  <2>2. QED
    BY <1>4, <2>1, ReadyStays
<1>5. ASSUME n.status = "ready", ~n.purged, NEW p \in Parts(a)
      PROVE  chunks'[a, p].status = "ready" /\ chunks'[a, p].content = n.manifest[p]
  <2>1. ~r.purged
    BY <1>1, <1>5 DEF ArtifactMoves
  <2>2. chunks[a, p].status = "ready" /\ chunks[a, p].content = n.manifest[p]
    BY <1>1, <1>5, <2>1 DEF ArtifactMoves, ArtifactInv
  <2>3. QED
    BY <1>4, <1>5, <2>2
<1>6. ASSUME NEW c \in closing', c.art = a, ~n.purged, NEW p \in Parts(a)
      PROVE  chunks'[a, p].status = "ready" /\ chunks'[a, p].content = c.manifest[p]
  <2>1. CASE c \in closing
    <3>1. chunks[a, p].status = "ready" /\ chunks[a, p].content = c.manifest[p]
      BY <1>1, <1>6, <2>1 DEF ArtifactMoves, ArtifactInv
    <3>2. QED
      BY <1>4, <1>6, <3>1
  <2>2. CASE c \notin closing
    BY <1>1, <1>6, <2>2 DEF ClosingMoves
  <2>3. QED
    BY <2>1, <2>2
<1>7. QED
  BY <1>2, <1>3, <1>5, <1>6 DEF ArtifactInv

(* An active task keeps its artifact from being purged. *)
LEMMA TasksKept ==
  ASSUME StorageInv, Orderly, NEW t \in Tasks
  PROVE  TaskInv(t)'
<1> DEFINE a == tasks'[t].art
<1>1. TaskMoves(t) /\ TaskInv(t) /\ tasks[t].art \in Artifacts
  BY DEF StorageInv, Orderly, StorageTypeOK, TaskRow
<1>2. CASE /\ artifacts'[a].status = "ready" /\ ~artifacts'[a].purged
  BY <1>2 DEF TaskInv
<1>3. CASE /\ a = tasks[t].art
           /\ tasks'[t].status # "none" => tasks[t].status # "none"
           /\ tasks'[t].status \in {"queued", "leased"} => Active(t)
  <2>1. ArtifactMoves(a)
    BY <1>1, <1>3 DEF Orderly
  <2>2. tasks'[t].status # "none" => artifacts'[a].status # "none"
    BY <1>1, <1>3, <2>1 DEF ArtifactMoves, TaskInv
  <2>3. tasks'[t].status \in {"queued", "leased"} => artifacts'[a].status = "ready" /\ ~artifacts'[a].purged
    BY <1>1, <1>3, <2>1 DEF ArtifactMoves, TaskInv
  <2>4. QED
    BY <2>2, <2>3 DEF TaskInv, Active
<1>4. QED
  BY <1>1, <1>2, <1>3 DEF TaskMoves

(* What has to be shown of the new row of an eviction. *)
LEMMA NextEvict ==
  ASSUME NEW h, NEW e, evict'[h] = e,
         e.phase \in {"claim", "delete", "remove"} => OfNext(e.key, e.slot),
         e.phase \in {"delete", "remove"} => FadingNext(e.key),
         e.phase = "remove" => TrackedNext(e.key)
  PROVE  EvictInv(h)'
BY DEF EvictInv, Of, OfNext, Claimed, ClaimedNext, Fading, FadingNext, HoldsKey, Present, Tracked, TrackedNext

(* An eviction under way goes on knowing its key. *)
LEMMA EvictKept ==
  ASSUME StorageInv, Orderly, NEW h \in Uploads \cup Cleaners, evict'[h] = evict[h]
  PROVE  EvictInv(h)'
<1> DEFINE e == evict[h]
<1>1. EvictInv(h)
  BY DEF StorageInv
<1>2. ASSUME e.phase \in {"claim", "delete", "remove"} PROVE OfNext(e.key, e.slot) /\ Kept(e.key)
  BY <1>1, <1>2, KeysKept DEF EvictInv, Of, OfNext, Kept
<1>3. /\ e.phase \in {"delete", "remove"} => FadingNext(e.key)
      /\ e.phase = "remove" => TrackedNext(e.key)
  BY <1>1, <1>2 DEF EvictInv, Kept
<1>4. QED
  BY <1>2, <1>3, NextEvict

(* So does a cleaner that read a generation. *)
LEMMA RowKept ==
  ASSUME StorageInv, Orderly, NEW h \in Cleaners, NEW r, RowInv(h, r), cleaners'[h] = cleaners[h]
  PROVE  RowInv(h, r)'
<1>1. /\ Of(r.key, r.slot) => Of(r.key, r.slot)'
      /\ Of(r.key, r.slot) /\ Fading(r.key) => Fading(r.key)'
      /\ Of(r.key, r.slot) /\ Fading(r.key) /\ Tracked(r.key) => Tracked(r.key)'
  BY KeysKept, NextFacts DEF Of, Kept
<1>2. QED
  BY <1>1 DEF RowInv

(* An artifact, once created or claimed by a purge, stays so. *)
LEMMA ArtifactsLast ==
  ASSUME StorageInv, Orderly, NEW a \in Artifacts
  PROVE  /\ artifacts[a].status # "none" => artifacts'[a].status # "none"
         /\ artifacts[a].purged => artifacts'[a].purged
BY DEF Orderly, ArtifactMoves

(* A cleaner that does nothing keeps what it read. *)
LEMMA CleanerKept ==
  ASSUME StorageInv, Orderly, NEW h \in Cleaners, cleaners'[h] = cleaners[h]
  PROVE  CleanerInv(h)'
<1> DEFINE c == cleaners[h]
<1>1. CleanerInv(h) /\ c \in CleanerRow /\ c.art \in Artifacts /\ c.keys \subseteq Uploads
  BY DEF StorageInv, StorageTypeOK, CleanerRow
<1>2. \A k \in c.keys : c.phase \in {"queue", "settle", "retry"} /\ Fading(k)'
  BY <1>1, KeysKept, NextFacts DEF CleanerInv, Kept
<1>3. \A k \in c.lapsed : k \in c.keys /\ Over(k)' /\ (c.phase = "settle" => k \notin bucket')
  BY <1>1, KeysKept, NextFacts DEF CleanerInv, Kept
<1>4. ASSUME NEW r \in c.rows PROVE RowInv(h, r)'
  BY <1>1, RowKept DEF CleanerInv
<1>5. /\ c.phase \in Purging \cup {"claim"} => artifacts'[c.art].status # "none"
      /\ c.phase \in Purging => artifacts'[c.art].purged
  BY <1>1, ArtifactsLast DEF CleanerInv
<1>6. QED
  BY <1>2, <1>3, <1>4, <1>5 DEF CleanerInv

(* A step that is orderly keeps everything but what it does to the handlers. *)
LEMMA OrderlyKeeps ==
  ASSUME StorageInv, StorageTypeOK', Orderly,
         \A h \in Uploads \cup Cleaners : evict'[h] = evict[h] \/ EvictInv(h)',
         \A h \in Cleaners : cleaners'[h] = cleaners[h] \/ CleanerInv(h)'
  PROVE  StorageInv' /\ Orderly
<1>1. \A h \in Uploads \cup Cleaners : EvictInv(h)'
  BY EvictKept
<1>2. \A h \in Cleaners : CleanerInv(h)'
  BY CleanerKept
<1>3. QED
  BY <1>1, <1>2, ChunksKept, UploadsKept, ArtifactsKept, TasksKept, NothingOrphaned, StoredKept DEF StorageInv

---------------------------------------------------------------------------
(* Every step is orderly. *)

(* A key that nobody touches moves in the trivial way; so do the others. *)
LEMMA StillKey ==
  ASSUME NEW k \in Uploads, uploads'[k].phase = uploads[k].phase, uploads'[k].slot = uploads[k].slot,
         k \in bucket' <=> k \in bucket, k \in flying' <=> k \in flying, queue'[k] = queue[k]
  PROVE  KeyMoves(k)
BY DEF KeyMoves

(* No upload, object, put or tombstone moves. *)
LEMMA StillKeys ==
  ASSUME UNCHANGED <<uploads, bucket, flying, queue>>
  PROVE  \A k \in Uploads : KeyMoves(k)
BY StillKey

(* No row of a part moves. *)
LEMMA StillChunks ==
  ASSUME UNCHANGED chunks
  PROVE  \A s \in Slots : ChunkMoves(s)
BY DEF ChunkMoves, Unchanging

(* No artifact moves. *)
LEMMA StillArtifacts ==
  ASSUME UNCHANGED artifacts
  PROVE  \A a \in Artifacts : ArtifactMoves(a)
BY DEF ArtifactMoves

(* An artifact that keeps all but its expiry. *)
LEMMA StillArtifact ==
  ASSUME NEW a \in Artifacts, artifacts'[a].status = artifacts[a].status,
         artifacts'[a].manifest = artifacts[a].manifest, artifacts'[a].purged = artifacts[a].purged
  PROVE  ArtifactMoves(a)
BY DEF ArtifactMoves

(* The clock or the end of a task moves the expiry of an artifact. *)
LEMMA ExpiryMoves ==
  ASSUME StorageTypeOK, NEW a \in Artifacts, NEW x \in BOOLEAN,
         artifacts' = [artifacts EXCEPT ![a].expired = x]
  PROVE  artifacts' \in [Artifacts -> ArtifactRow] /\ \A b \in Artifacts : ArtifactMoves(b)
<1> DEFINE row == [artifacts[a] EXCEPT !.expired = x]
<1>1. artifacts[a] \in ArtifactRow /\ artifacts \in [Artifacts -> ArtifactRow]
  BY DEF StorageTypeOK
<1>2. /\ row \in ArtifactRow /\ row.status = artifacts[a].status
      /\ row.manifest = artifacts[a].manifest /\ row.purged = artifacts[a].purged
  BY <1>1 DEF ArtifactRow
<1>3. artifacts' = [artifacts EXCEPT ![a] = row]
  OBVIOUS
<1> HIDE DEF row
<1>4. artifacts' \in [Artifacts -> ArtifactRow]
  BY <1>1, <1>2, <1>3
<1>5. ASSUME NEW b \in Artifacts PROVE ArtifactMoves(b)
  BY <1>1, <1>2, <1>3, StillArtifact
<1>6. QED
  BY <1>4, <1>5

(* No task moves. *)
LEMMA StillTasks ==
  ASSUME UNCHANGED tasks
  PROVE  \A t \in Tasks : TaskMoves(t)
BY DEF TaskMoves, Active

(* No completion begins. *)
LEMMA StillClosing ==
  ASSUME closing' \subseteq closing
  PROVE  ClosingMoves
BY DEF ClosingMoves

(* A step that leaves the handlers alone. *)
LEMMA StillAll ==
  ASSUME StorageInv, UNCHANGED <<evict, cleaners>>, StorageTypeOK', Orderly
  PROVE  StorageInv' /\ Orderly
BY OrderlyKeeps

(* createArtifactUpload and the clock. *)
LEMMA CreateStep ==
  ASSUME StorageInv, NEW a \in Artifacts, CreateArtifactUpload(a) \/ ArtifactExpires(a)
  PROVE  StorageInv' /\ Orderly
<1>1. StorageTypeOK
  BY DEF StorageInv
<1>2. UNCHANGED <<chunks, queue, bucket, flying, uploads, evict, closing, cleaners, tasks>>
  BY DEF CreateArtifactUpload, ArtifactExpires
<1>3. /\ artifacts' \in [Artifacts -> ArtifactRow]
      /\ \A b \in Artifacts : ArtifactMoves(b)
  <2>1. CASE CreateArtifactUpload(a)
    BY <1>1, <2>1 DEF CreateArtifactUpload, StorageTypeOK, ArtifactRow, ArtifactMoves
  <2>2. CASE ArtifactExpires(a)
    BY <1>1, <2>2, ExpiryMoves DEF ArtifactExpires
  <2>3. QED
    BY <2>1, <2>2
<1>4. Orderly
  BY <1>2, <1>3, StillKeys, StillChunks, StillTasks, StillClosing DEF Orderly
<1>5. StorageTypeOK'
  BY <1>1, <1>2, <1>3 DEF StorageTypeOK
<1>6. QED
  BY <1>2, <1>4, <1>5, StillAll

(* A row becomes ten minutes old. *)
LEMMA ChunkAgesStep ==
  ASSUME StorageInv, NEW s \in Slots, ChunkAges(s)
  PROVE  StorageInv' /\ Orderly
<1>1. StorageTypeOK
  BY DEF StorageInv
<1>2. UNCHANGED <<artifacts, queue, bucket, flying, uploads, evict, closing, cleaners, tasks>>
  BY DEF ChunkAges
<1>3. chunks' \in [Slots -> ChunkRow] /\ \A r \in Slots : ChunkMoves(r)
  BY <1>1 DEF ChunkAges, StorageTypeOK, ChunkRow, ChunkMoves, Unchanging
<1>4. Orderly
  BY <1>2, <1>3, StillKeys, StillArtifacts, StillTasks, StillClosing DEF Orderly
<1>5. StorageTypeOK'
  BY <1>1, <1>2, <1>3 DEF StorageTypeOK
<1>6. QED
  BY <1>2, <1>4, <1>5, StillAll

(* A tombstone becomes due, or its retention ends. *)
LEMMA QueueTimeStep ==
  ASSUME StorageInv, NEW u \in Uploads, QueueDue(u) \/ QueueLapses(u)
  PROVE  StorageInv' /\ Orderly
<1>1. StorageTypeOK
  BY DEF StorageInv
<1>2. UNCHANGED <<artifacts, chunks, bucket, flying, uploads, evict, closing, cleaners, tasks>>
  BY DEF QueueDue, QueueLapses
<1>3. /\ queue' \in [Uploads -> QueueRow]
      /\ \A k \in Uploads : /\ queue'[k].queued = queue[k].queued
                            /\ queue'[k].lapsed => queue[k].lapsed \/ Over(k)
  <2>1. CASE QueueDue(u)
    BY <1>1, <2>1 DEF QueueDue, StorageTypeOK, QueueRow
  <2>2. CASE QueueLapses(u)
    BY <1>1, <2>2 DEF QueueLapses, StorageTypeOK, QueueRow, Over
  <2>3. QED
    BY <2>1, <2>2
<1>4. \A k \in Uploads : KeyMoves(k)
  BY <1>2, <1>3 DEF KeyMoves
<1>5. Orderly
  BY <1>2, <1>4, StillChunks, StillArtifacts, StillTasks, StillClosing DEF Orderly
<1>6. StorageTypeOK'
  BY <1>1, <1>2, <1>3 DEF StorageTypeOK
<1>7. QED
  BY <1>2, <1>5, <1>6, StillAll

(* The file tasks. *)
LEMMA WorkStep ==
  ASSUME StorageInv, NEW t \in Tasks, NEW a \in Artifacts,
         OrderTask(t, a) \/ LeaseTask(t) \/ RequeueTask(t) \/ CompleteTask(t) \/ EndTask(t)
  PROVE  StorageInv' /\ Orderly
<1>1. StorageTypeOK
  BY DEF StorageInv
<1>2. UNCHANGED <<chunks, queue, bucket, flying, uploads, evict, closing, cleaners>>
  BY DEF OrderTask, LeaseTask, RequeueTask, CompleteTask, EndTask
<1>3. /\ tasks' \in [Tasks -> TaskRow] /\ artifacts' \in [Artifacts -> ArtifactRow]
      /\ \A r \in Tasks : TaskMoves(r) /\ \A b \in Artifacts : ArtifactMoves(b)
  <2>1. CASE OrderTask(t, a)
    <3>1. tasks' \in [Tasks -> TaskRow]
      BY <1>1, <2>1 DEF OrderTask, StorageTypeOK, TaskRow
    <3>2. \A r \in Tasks : TaskMoves(r)
      BY <1>1, <2>1 DEF OrderTask, StorageTypeOK, TaskRow, TaskMoves, Active
    <3>3. QED
      BY <1>1, <2>1, <3>1, <3>2, StillArtifacts DEF OrderTask, StorageTypeOK
  <2>2. CASE LeaseTask(t) \/ RequeueTask(t) \/ EndTask(t)
    <3>1. tasks' \in [Tasks -> TaskRow] /\ \A r \in Tasks : TaskMoves(r)
      <4>1. PICK x \in {"queued", "leased", "ended"} :
              tasks' = [tasks EXCEPT ![t].status = x] /\ (x # "ended" => Active(t)) /\ Active(t)
        BY <2>2 DEF LeaseTask, RequeueTask, EndTask, Active
      <4>2. QED
        BY <1>1, <4>1 DEF StorageTypeOK, TaskRow, TaskMoves, Active
    <3>2. QED
      BY <1>1, <2>2, <3>1, StillArtifacts DEF LeaseTask, RequeueTask, EndTask, StorageTypeOK
  <2>3. CASE CompleteTask(t)
    <3>1. tasks' \in [Tasks -> TaskRow] /\ \A r \in Tasks : TaskMoves(r)
      BY <1>1, <2>3 DEF CompleteTask, StorageTypeOK, TaskRow, TaskMoves, Active
    <3>2. tasks[t].art \in Artifacts
      BY <1>1 DEF StorageTypeOK, TaskRow
    <3>3. artifacts' \in [Artifacts -> ArtifactRow] /\ \A b \in Artifacts : ArtifactMoves(b)
      <4> DEFINE x == tasks[t].art \in Strict
      <4>1. artifacts' = [artifacts EXCEPT ![tasks[t].art].expired = x] /\ x \in BOOLEAN
        BY <2>3 DEF CompleteTask
      <4> HIDE DEF x
      <4>2. QED
        BY <1>1, <3>2, <4>1, ExpiryMoves
    <3>4. QED
      BY <3>1, <3>3
  <2>4. QED
    BY <2>1, <2>2, <2>3
<1>4. Orderly
  BY <1>2, <1>3, StillKeys, StillChunks, StillClosing, SlotFacts DEF Orderly
<1>5. StorageTypeOK'
  BY <1>1, <1>2, <1>3 DEF StorageTypeOK
<1>6. QED
  BY <1>2, <1>4, <1>5, StillAll

(* completeArtifactUpload. *)
LEMMA CompleteStep ==
  ASSUME StorageInv,
         \/ \E a \in Artifacts : BeginComplete(a)
         \/ \E c \in closing : CommitComplete(c) \/ LoseComplete(c)
  PROVE  StorageInv' /\ Orderly
<1>1. StorageTypeOK
  BY DEF StorageInv
<1>2. UNCHANGED <<chunks, queue, bucket, flying, uploads, evict, cleaners, tasks>>
  BY DEF BeginComplete, CommitComplete, LoseComplete
<1>3. /\ closing' \subseteq [art : Artifacts, manifest : Manifests] /\ ClosingMoves
      /\ artifacts' \in [Artifacts -> ArtifactRow] /\ \A b \in Artifacts : ArtifactMoves(b)
  <2>1. ASSUME NEW a \in Artifacts, BeginComplete(a)
        PROVE  closing' \subseteq [art : Artifacts, manifest : Manifests] /\ ClosingMoves /\ UNCHANGED artifacts
    <3> DEFINE m == [p \in Parts(a) |-> chunks[a, p].content]
               c == [art |-> a, manifest |-> m]
    <3>1. m \in Manifests
      <4>1. \A p \in Parts(a) : chunks[a, p].content \in Contents \cup {NoContent}
        BY <1>1, SlotFacts DEF StorageTypeOK, ChunkRow
      <4>2. m \in [Parts(a) -> Contents \cup {NoContent}]
        BY <4>1
      <4>3. QED
        BY <4>2 DEF Manifests
    <3>2. closing' = closing \cup {c} /\ UNCHANGED artifacts
      BY <2>1 DEF BeginComplete
    <3>3. \A p \in Parts(c.art) : chunks'[c.art, p].status = "ready" /\ chunks'[c.art, p].content = c.manifest[p]
      BY <1>2, <2>1 DEF BeginComplete
    <3>4. c \in [art : Artifacts, manifest : Manifests]
      BY <3>1
    <3> HIDE DEF m, c
    <3>5. QED
      BY <1>1, <3>2, <3>3, <3>4 DEF StorageTypeOK, ClosingMoves
  <2>2. ASSUME NEW c \in closing, CommitComplete(c)
        PROVE  /\ closing' \subseteq closing
               /\ artifacts' \in [Artifacts -> ArtifactRow] /\ \A b \in Artifacts : ArtifactMoves(b)
    <3>1. c.art \in Artifacts /\ c.manifest \in Manifests /\ closing' \subseteq closing
      BY <1>1, <2>2 DEF StorageTypeOK, CommitComplete
    <3>2. CASE UNCHANGED artifacts
      BY <1>1, <3>1, <3>2, StillArtifacts DEF StorageTypeOK
    <3>3. CASE /\ artifacts[c.art].status = "uploading" /\ ~artifacts[c.art].purged
               /\ artifacts' = [artifacts EXCEPT ![c.art].status = "ready", ![c.art].manifest = c.manifest]
      <4>1. artifacts' \in [Artifacts -> ArtifactRow]
        BY <1>1, <3>1, <3>3 DEF StorageTypeOK, ArtifactRow
      <4>2. \A b \in Artifacts : ArtifactMoves(b)
        BY <1>1, <3>1, <3>3 DEF StorageTypeOK, ArtifactRow, ArtifactMoves
      <4>3. QED
        BY <3>1, <4>1, <4>2
    <3>4. QED
      BY <2>2, <3>2, <3>3 DEF CommitComplete
  <2>3. ASSUME NEW c \in closing, LoseComplete(c)
        PROVE  closing' \subseteq closing /\ UNCHANGED artifacts
    BY <2>3 DEF LoseComplete
  <2>4. QED
    BY <1>1, <2>1, <2>2, <2>3, StillClosing, StillArtifacts DEF StorageTypeOK
<1>4. Orderly
  BY <1>2, <1>3, StillKeys, StillChunks, StillTasks DEF Orderly
<1>5. StorageTypeOK'
  BY <1>1, <1>2, <1>3 DEF StorageTypeOK
<1>6. QED
  BY <1>2, <1>4, <1>5, StillAll

Phases == {"idle", "claim", "enqueue", "put", "sent", "landed", "unclaim", "undo", "unrow", "mark", "done"}

(* An upload goes to another point of its program. *)
LEMMA PhaseSet ==
  ASSUME StorageTypeOK, NEW u \in Uploads, NEW q \in Phases, ToPhase(u, q)
  PROVE  /\ uploads' \in [Uploads -> UploadRow] /\ uploads'[u].phase = q
         /\ \A k \in Uploads : /\ uploads'[k].slot = uploads[k].slot /\ uploads'[k].content = uploads[k].content
                               /\ k # u => uploads'[k].phase = uploads[k].phase
<1> DEFINE row == [uploads[u] EXCEPT !.phase = q]
<1>1. uploads[u] \in UploadRow /\ uploads \in [Uploads -> UploadRow]
  BY DEF StorageTypeOK
<1>2. row \in UploadRow /\ row.slot = uploads[u].slot /\ row.content = uploads[u].content /\ row.phase = q
  BY <1>1 DEF UploadRow, Phases
<1>3. uploads' = [uploads EXCEPT ![u] = row]
  BY DEF ToPhase
<1> HIDE DEF row
<1>4. QED
  BY <1>1, <1>2, <1>3

(* A step of one upload that leaves the other keys alone. *)
LEMMA OneKeyMoves ==
  ASSUME StorageTypeOK, NEW u \in Uploads, NEW q \in Phases, ToPhase(u, q), KeyMoves(u),
         \A k \in Uploads : k # u => /\ k \in bucket' <=> k \in bucket
                                     /\ k \in flying' <=> k \in flying
                                     /\ queue'[k] = queue[k]
  PROVE  \A k \in Uploads : KeyMoves(k)
<1> SUFFICES ASSUME NEW k \in Uploads, k # u PROVE KeyMoves(k)
  OBVIOUS
<1>1. uploads'[k].phase = uploads[k].phase /\ uploads'[k].slot = uploads[k].slot
  BY PhaseSet
<1>2. QED
  BY <1>1, StillKey

(* One row of the chunks is written. *)
LEMMA ChunkSet ==
  ASSUME StorageTypeOK, NEW s \in Slots, NEW row \in ChunkRow, chunks' = [chunks EXCEPT ![s] = row]
  PROVE  /\ chunks' \in [Slots -> ChunkRow] /\ chunks'[s] = row
         /\ \A r \in Slots : r # s => ChunkMoves(r)
BY DEF StorageTypeOK, ChunkMoves, Unchanging

(* An eviction that is over knows nothing. *)
LEMMA EvictOver ==
  ASSUME NEW h, evict'[h].phase \notin {"claim", "delete", "remove"}
  PROVE  EvictInv(h)'
BY DEF EvictInv

(* The key of a deleting row fades. *)
LEMMA FadingRow ==
  ASSUME StorageInv, NEW s \in Slots, chunks[s].status = "deleting"
  PROVE  Fading(chunks[s].key)
BY DEF StorageInv, ChunkInv, Of, Fading, HoldsKey, Present

(* The row of a part belongs to the upload that drew its key. *)
LEMMA RowOf ==
  ASSUME StorageInv, NEW s \in Slots, Present(s)
  PROVE  Of(chunks[s].key, s)
BY DEF StorageInv, ChunkInv

(* The reads of uploadArtifactChunk. *)
LEMMA BeginUploadStep ==
  ASSUME StorageInv, NEW u \in Uploads, NEW s \in Slots, NEW c \in Contents, BeginUpload(u, s, c)
  PROVE  StorageInv' /\ Orderly
<1> DEFINE row == [phase |-> "claim", slot |-> s, content |-> c]
           key == chunks[s].key
<1>1. /\ StorageTypeOK /\ uploads \in [Uploads -> UploadRow] /\ evict \in [Uploads \cup Cleaners -> EvictRow]
  BY DEF StorageInv, StorageTypeOK
<1>2. /\ uploads[u].phase = "idle" /\ uploads' = [uploads EXCEPT ![u] = row]
      /\ UNCHANGED <<artifacts, chunks, queue, bucket, flying, closing, cleaners, tasks>>
  BY DEF BeginUpload
<1>3. uploads' \in [Uploads -> UploadRow]
  BY <1>1, <1>2 DEF UploadRow
<1>4. \A k \in Uploads : KeyMoves(k)
  <2>1. KeyMoves(u)
    BY <1>1, <1>2 DEF KeyMoves
  <2>2. \A k \in Uploads : k # u => KeyMoves(k)
    BY <1>1, <1>2, StillKey
  <2>3. QED
    BY <2>1, <2>2
<1>5. Orderly
  BY <1>2, <1>4, StillChunks, StillArtifacts, StillTasks, StillClosing DEF Orderly
<1>6. CASE evict' = evict
  <2>1. StorageTypeOK'
    BY <1>1, <1>2, <1>3, <1>6 DEF StorageTypeOK
  <2>2. QED
    BY <1>2, <1>5, <1>6, <2>1, StillAll
<1>7. CASE evict' # evict
  <2>1. PICK e : /\ evict' = [evict EXCEPT ![u] = e] /\ chunks[s].status \in {"pending", "deleting"}
                 /\ e = [phase |-> IF chunks[s].status = "pending" THEN "claim" ELSE "delete",
                         slot |-> s, key |-> key]
    BY <1>7 DEF BeginUpload
  <2>2. Of(key, s) /\ key \in Uploads /\ Kept(key) /\ (chunks[s].status = "deleting" => Fading(key))
    BY <1>5, <2>1, RowOf, FadingRow, KeysKept DEF Of, Present
  <2>3. e \in EvictRow /\ e.key = key /\ e.slot = s /\ e.phase \in {"claim", "delete"}
        /\ (e.phase = "delete" => Fading(key))
    BY <2>1, <2>2 DEF EvictRow
  <2>4. evict' \in [Uploads \cup Cleaners -> EvictRow] /\ evict'[u] = e
        /\ \A h \in Uploads \cup Cleaners : h # u => evict'[h] = evict[h]
    BY <1>1, <2>1, <2>3
  <2>5. EvictInv(u)'
    <3>1. OfNext(key, s) /\ (e.phase = "delete" => FadingNext(key))
      BY <2>2, <2>3 DEF Kept, Of, OfNext
    <3>2. QED
      BY <2>3, <2>4, <3>1, NextEvict
  <2>6. StorageTypeOK'
    BY <1>1, <1>2, <1>3, <2>4 DEF StorageTypeOK
  <2>7. QED
    BY <1>2, <1>5, <2>4, <2>5, <2>6, OrderlyKeeps
<1>8. QED
  BY <1>6, <1>7

(* The rows of handlers that do nothing. *)
LEMMA NoEvictionTyped == /\ NoEviction \in EvictRow /\ NoEviction.phase = "none"
                         /\ AnyArtifact \in Artifacts /\ AnySlot \in Slots
<1>1. AnyArtifact \in Artifacts
  BY StorageAssumption DEF AnyArtifact
<1>2. 1 \in Parts(AnyArtifact)
  BY <1>1, StorageAssumption DEF Parts
<1>3. AnySlot \in Slots
  BY <1>1, <1>2, SlotFacts DEF AnySlot
<1>4. QED
  BY <1>1, <1>3 DEF NoEviction, EvictRow

(* The insert of the pending row, and the loss of an upload. *)
LEMMA ClaimStep ==
  ASSUME StorageInv, NEW u \in Uploads, ClaimChunk(u) \/ LoseUpload(u)
  PROVE  StorageInv' /\ Orderly
<1> DEFINE s == uploads[u].slot
           a == artifacts[s[1]]
           row == [status |-> "pending", key |-> u, content |-> uploads[u].content,
                   stamp |-> "inserted", old |-> FALSE]
<1>1. /\ StorageTypeOK /\ uploads \in [Uploads -> UploadRow] /\ evict \in [Uploads \cup Cleaners -> EvictRow]
      /\ s \in Slots /\ uploads[u].content \in Contents
  BY DEF StorageInv, StorageTypeOK, UploadRow
<1>2. /\ evict' = [evict EXCEPT ![u] = NoEviction]
      /\ UNCHANGED <<artifacts, queue, bucket, flying, closing, cleaners, tasks>>
  BY DEF ClaimChunk, LoseUpload
<1>3. \/ uploads[u].phase # "idle" /\ ToPhase(u, "done") /\ UNCHANGED chunks
      \/ /\ uploads[u].phase = "claim" /\ ToPhase(u, "enqueue") /\ chunks' = [chunks EXCEPT ![s] = row]
         /\ a.status = "uploading" /\ ~a.purged /\ ~Present(s)
  BY DEF ClaimChunk, LoseUpload
<1>4. /\ evict' \in [Uploads \cup Cleaners -> EvictRow]
      /\ \A h \in Uploads \cup Cleaners : evict'[h] = evict[h] \/ EvictInv(h)'
  BY <1>1, <1>2, NoEvictionTyped, EvictOver
<1>5. CASE uploads[u].phase # "idle" /\ ToPhase(u, "done") /\ UNCHANGED chunks
  <2>1. KeyMoves(u) /\ uploads' \in [Uploads -> UploadRow]
    BY <1>1, <1>2, <1>5, PhaseSet DEF KeyMoves, Phases
  <2>2. \A k \in Uploads : KeyMoves(k)
    BY <1>1, <1>2, <1>5, <2>1, OneKeyMoves DEF Phases
  <2>3. Orderly
    BY <1>2, <1>5, <2>2, StillChunks, StillArtifacts, StillTasks, StillClosing DEF Orderly
  <2>4. StorageTypeOK'
    BY <1>1, <1>2, <1>4, <1>5, <2>1 DEF StorageTypeOK
  <2>5. QED
    BY <1>2, <1>4, <2>3, <2>4, OrderlyKeeps
<1>6. CASE /\ uploads[u].phase = "claim" /\ ToPhase(u, "enqueue") /\ chunks' = [chunks EXCEPT ![s] = row]
           /\ a.status = "uploading" /\ ~a.purged /\ ~Present(s)
  <2>1. row \in ChunkRow
    BY <1>1 DEF ChunkRow
  <2>2. uploads'[u].phase = "enqueue" /\ uploads'[u].slot = s /\ uploads' \in [Uploads -> UploadRow]
    BY <1>1, <1>6, PhaseSet DEF Phases
  <2> HIDE DEF s
  <2>3. chunks' \in [Slots -> ChunkRow] /\ chunks'[s] = row /\ \A r \in Slots : r # s => ChunkMoves(r)
    BY <1>1, <1>6, <2>1, ChunkSet
  <2>4. Inserting(s)
    BY <1>6, <2>2, <2>3 DEF Inserting, s
  <2>5. KeyMoves(u)
    BY <1>2, <1>6, <2>2 DEF KeyMoves, s
  <2>6. \A k \in Uploads : KeyMoves(k)
    BY <1>1, <1>2, <1>6, <2>5, OneKeyMoves DEF Phases
  <2>7. Orderly
    BY <1>2, <2>3, <2>4, <2>6, StillArtifacts, StillTasks, StillClosing DEF Orderly, ChunkMoves
  <2>8. StorageTypeOK'
    BY <1>1, <1>2, <1>4, <2>2, <2>3 DEF StorageTypeOK
  <2>9. QED
    BY <1>2, <1>4, <2>7, <2>8, OrderlyKeeps
<1>7. QED
  BY <1>3, <1>5, <1>6

(* Steps of an upload that leave the rows of the chunks alone. *)
LEMMA PutStep ==
  ASSUME StorageInv, NEW u \in Uploads,
         EnqueueUpload(u) \/ PutObject(u) \/ PutThrows(u) \/ FinalizeThrows(u) \/ UndoObject(u)
  PROVE  StorageInv' /\ Orderly
<1>1. StorageTypeOK /\ UploadInv(u)
  BY DEF StorageInv
<1>2. UNCHANGED <<artifacts, chunks, evict, closing, cleaners, tasks>>
  BY DEF EnqueueUpload, PutObject, PutThrows, FinalizeThrows, UndoObject
<1>3. \E q \in Phases :
        /\ ToPhase(u, q) /\ KeyMoves(u)
        /\ queue' \in [Uploads -> QueueRow] /\ bucket' \subseteq Uploads /\ flying' \subseteq Uploads
        /\ \A k \in Uploads : k # u => /\ k \in bucket' <=> k \in bucket
                                       /\ k \in flying' <=> k \in flying
                                       /\ queue'[k] = queue[k]
  <2>1. CASE EnqueueUpload(u)
    <3>1. Enqueued(queue[u], FALSE) \in QueueRow /\ Enqueued(queue[u], FALSE).queued
          /\ (Enqueued(queue[u], FALSE).lapsed => queue[u].lapsed)
      <4>1. queue[u] \in QueueRow
        BY <1>1 DEF StorageTypeOK
      <4>2. CASE queue[u].queued
        BY <4>1, <4>2 DEF Enqueued, QueueRow
      <4>3. CASE ~queue[u].queued
        BY <4>1, <4>3 DEF Enqueued, QueueRow
      <4>4. QED
        BY <4>2, <4>3
    <3>2. /\ queue' = [queue EXCEPT ![u] = Enqueued(queue[u], FALSE)] /\ ToPhase(u, "put")
          /\ UNCHANGED <<bucket, flying>> /\ uploads[u].phase = "enqueue"
      BY <2>1 DEF EnqueueUpload
    <3>3. /\ queue' \in [Uploads -> QueueRow] /\ queue'[u] = Enqueued(queue[u], FALSE)
          /\ \A k \in Uploads : k # u => queue'[k] = queue[k]
      BY <1>1, <3>1, <3>2 DEF StorageTypeOK
    <3>4. KeyMoves(u)
      BY <1>1, <3>1, <3>2, <3>3, PhaseSet DEF KeyMoves, Phases, Claimed
    <3>5. QED
      BY <1>1, <3>2, <3>3, <3>4 DEF Phases, StorageTypeOK
  <2>2. CASE PutObject(u)
    <3>1. /\ flying' = flying \cup {u} /\ ToPhase(u, "sent") /\ UNCHANGED <<bucket, queue>>
          /\ uploads[u].phase = "put"
      BY <2>2 DEF PutObject
    <3>2. KeyMoves(u)
      BY <1>1, <3>1, PhaseSet DEF KeyMoves, Phases
    <3>3. QED
      BY <1>1, <3>1, <3>2 DEF Phases, StorageTypeOK
  <2>3. CASE PutThrows(u) \/ FinalizeThrows(u)
    <3>1. /\ UNCHANGED <<bucket, queue, flying>>
          /\ \/ ToPhase(u, "unclaim") /\ uploads[u].phase = "sent"
             \/ ToPhase(u, "undo") /\ uploads[u].phase = "landed"
      BY <2>3 DEF PutThrows, FinalizeThrows
    <3>2. KeyMoves(u)
      BY <1>1, <3>1, PhaseSet DEF KeyMoves, Phases
    <3>3. QED
      BY <1>1, <3>1, <3>2 DEF Phases, StorageTypeOK
  <2>4. CASE UndoObject(u)
    <3>1. /\ UNCHANGED <<queue, flying>> /\ uploads[u].phase = "undo"
          /\ \/ bucket' = bucket \ {u} /\ ToPhase(u, "unrow")
             \/ bucket' = bucket /\ ToPhase(u, "mark")
      BY <2>4 DEF UndoObject
    <3>2. KeyMoves(u)
      BY <1>1, <3>1, PhaseSet DEF KeyMoves, Phases
    <3>3. QED
      BY <1>1, <3>1, <3>2 DEF Phases, StorageTypeOK
  <2>5. QED
    BY <2>1, <2>2, <2>3, <2>4
<1>4. (\A k \in Uploads : KeyMoves(k)) /\ uploads' \in [Uploads -> UploadRow]
  BY <1>1, <1>3, OneKeyMoves, PhaseSet
<1>5. Orderly
  BY <1>2, <1>4, StillChunks, StillArtifacts, StillTasks, StillClosing DEF Orderly
<1>6. StorageTypeOK'
  BY <1>1, <1>2, <1>3, <1>4 DEF StorageTypeOK
<1>7. QED
  BY <1>2, <1>5, <1>6, StillAll

(* The bucket applies a put or drops it. *)
LEMMA StoreStep ==
  ASSUME StorageInv, NEW u \in Uploads, PutLands(u) \/ PutDrops(u)
  PROVE  StorageInv' /\ Orderly
<1> DEFINE p == uploads[u].phase
           x == IF PutLands(u) THEN "landed" ELSE "unclaim"
           q == IF p = "sent" THEN x ELSE p
<1>1. StorageTypeOK /\ UploadInv(u) /\ p \in Phases
  BY DEF StorageInv, StorageTypeOK, UploadRow, Phases
<1>2. UNCHANGED <<artifacts, chunks, queue, evict, closing, cleaners, tasks>>
  BY DEF PutLands, PutDrops
<1>3. /\ u \in flying /\ flying' = flying \ {u} /\ ToPhase(u, q)
      /\ \/ bucket' = bucket \cup {u} /\ x = "landed"
         \/ bucket' = bucket /\ x = "unclaim"
  BY DEF PutLands, PutDrops, ToPhase
<1> HIDE DEF x
<1>4. q \in Phases /\ (p = "sent" => q = x) /\ (p # "sent" => q = p)
  BY <1>1, <1>3 DEF Phases
<1> HIDE DEF q
<1>5. KeyMoves(u) /\ uploads' \in [Uploads -> UploadRow]
  BY <1>1, <1>2, <1>3, <1>4, PhaseSet DEF KeyMoves
<1>6. \A k \in Uploads : KeyMoves(k)
  BY <1>1, <1>2, <1>3, <1>4, <1>5, OneKeyMoves
<1>7. Orderly
  BY <1>2, <1>6, StillChunks, StillArtifacts, StillTasks, StillClosing DEF Orderly
<1>8. StorageTypeOK'
  BY <1>1, <1>2, <1>3, <1>5 DEF StorageTypeOK
<1>9. QED
  BY <1>2, <1>7, <1>8, StillAll

(* The row of the upload itself goes, or stays as a deleting one. *)
LEMMA OwnRowStep ==
  ASSUME StorageInv, NEW u \in Uploads, UnclaimChunk(u) \/ UndoRow(u) \/ MarkForRetry(u)
  PROVE  StorageInv' /\ Orderly
<1> DEFINE s == uploads[u].slot
           row == [status |-> "deleting", key |-> u, content |-> uploads[u].content,
                   stamp |-> "retried", old |-> FALSE]
<1>1. /\ StorageTypeOK /\ UploadInv(u) /\ s \in Slots /\ uploads[u].content \in Contents
      /\ chunks \in [Slots -> ChunkRow]
  BY DEF StorageInv, StorageTypeOK, UploadRow
<1>2. /\ UNCHANGED <<artifacts, queue, bucket, flying, evict, closing, cleaners, tasks>>
      /\ ToPhase(u, "done") /\ uploads[u].phase \in {"unclaim", "unrow", "mark"}
  BY DEF UnclaimChunk, UndoRow, MarkForRetry
<1>3. \/ chunks' = chunks
      \/ /\ chunks' = [chunks EXCEPT ![s] = NoChunk] /\ HoldsKey(s, u) /\ chunks[s].status # "ready"
         /\ uploads[u].phase \in {"unclaim", "unrow"}
      \/ /\ chunks' = [chunks EXCEPT ![s] = row] /\ uploads[u].phase = "mark"
         /\ ~Present(s) \/ (chunks[s].key = u /\ chunks[s].status \in {"pending", "deleting"})
  <2>1. CASE UnclaimChunk(u) \/ UndoRow(u)
    BY <2>1 DEF UnclaimChunk, UndoRow
  <2>2. CASE MarkForRetry(u)
    BY <2>2 DEF MarkForRetry
  <2>3. QED
    BY <2>1, <2>2
<1>4. uploads' \in [Uploads -> UploadRow] /\ uploads'[u].phase = "done" /\ uploads'[u].slot = s
  BY <1>1, <1>2, PhaseSet DEF Phases
<1>5. \A k \in Uploads : KeyMoves(k)
  <2>1. KeyMoves(u)
    BY <1>2, <1>4 DEF KeyMoves
  <2>2. QED
    BY <1>1, <1>2, <2>1, OneKeyMoves DEF Phases
<1>6. chunks' \in [Slots -> ChunkRow] /\ \A r \in Slots : ChunkMoves(r)
  <2> HIDE DEF s
  <2>1. CASE chunks' = chunks
    BY <1>1, <2>1, StillChunks
  <2>2. CASE /\ chunks' = [chunks EXCEPT ![s] = NoChunk] /\ HoldsKey(s, u) /\ chunks[s].status # "ready"
             /\ uploads[u].phase \in {"unclaim", "unrow"}
    <3>1. NoChunk \in ChunkRow /\ NoChunk.status = "none"
      BY DEF NoChunk, ChunkRow
    <3>2. chunks' \in [Slots -> ChunkRow] /\ chunks'[s] = NoChunk /\ \A r \in Slots : r # s => ChunkMoves(r)
      BY <1>1, <2>2, <3>1, ChunkSet
    <3>3. Ending(s)
      BY <1>1, <1>2, <2>2, <3>1, <3>2 DEF Ending, HoldsKey, UploadInv
    <3>4. QED
      BY <3>2, <3>3 DEF ChunkMoves
  <2>3. CASE /\ chunks' = [chunks EXCEPT ![s] = row] /\ uploads[u].phase = "mark"
             /\ ~Present(s) \/ (chunks[s].key = u /\ chunks[s].status \in {"pending", "deleting"})
    <3>1. row \in ChunkRow /\ row.status = "deleting" /\ row.key = u
      BY <1>1 DEF ChunkRow
    <3> HIDE DEF row
    <3>2. chunks' \in [Slots -> ChunkRow] /\ chunks'[s] = row /\ \A r \in Slots : r # s => ChunkMoves(r)
      BY <1>1, <2>3, <3>1, ChunkSet
    <3>3. Inserting(s) \/ Ending(s)
      BY <2>3, <3>1, <3>2 DEF Inserting, Ending, Present, s
    <3>4. QED
      BY <3>2, <3>3 DEF ChunkMoves
  <2>4. QED
    BY <1>3, <2>1, <2>2, <2>3
<1>7. Orderly
  BY <1>2, <1>5, <1>6, StillArtifacts, StillTasks, StillClosing DEF Orderly
<1>8. StorageTypeOK'
  BY <1>1, <1>2, <1>4, <1>6 DEF StorageTypeOK
<1>9. QED
  BY <1>2, <1>7, <1>8, StillAll

(* The batch that makes a part ready. *)
LEMMA FinalizeStep ==
  ASSUME StorageInv, NEW u \in Uploads, FinalizeChunk(u)
  PROVE  StorageInv' /\ Orderly
<1> DEFINE s == uploads[u].slot
           row == [chunks[s] EXCEPT !.status = "ready"]
<1>1. /\ StorageTypeOK /\ UploadInv(u) /\ s \in Slots /\ chunks \in [Slots -> ChunkRow] /\ chunks[s] \in ChunkRow
  BY DEF StorageInv, StorageTypeOK, UploadRow
<1>2. /\ UNCHANGED <<artifacts, bucket, flying, evict, closing, cleaners, tasks>>
      /\ uploads[u].phase = "landed"
      /\ \/ ToPhase(u, "undo") /\ UNCHANGED <<chunks, queue>>
         \/ /\ MayFinalize(u) /\ chunks' = [chunks EXCEPT ![s] = row] /\ queue' = [queue EXCEPT ![u] = NotQueued]
            /\ ToPhase(u, "done") \/ (LostReplies /\ ToPhase(u, "undo"))
  BY DEF FinalizeChunk
<1>3. uploads' \in [Uploads -> UploadRow] /\ uploads'[u].slot = s /\ uploads'[u].phase \in {"done", "undo"}
  BY <1>1, <1>2, PhaseSet DEF Phases
<1>4. CASE ToPhase(u, "undo") /\ UNCHANGED <<chunks, queue>>
  <2>1. KeyMoves(u)
    BY <1>1, <1>2, <1>4, PhaseSet DEF KeyMoves, Phases
  <2>2. \A k \in Uploads : KeyMoves(k)
    BY <1>1, <1>2, <1>4, <2>1, OneKeyMoves DEF Phases
  <2>3. Orderly
    BY <1>2, <1>4, <2>2, StillChunks, StillArtifacts, StillTasks, StillClosing DEF Orderly
  <2>4. StorageTypeOK'
    BY <1>1, <1>2, <1>3, <1>4 DEF StorageTypeOK
  <2>5. QED
    BY <1>2, <2>3, <2>4, StillAll
<1>5. CASE /\ MayFinalize(u) /\ chunks' = [chunks EXCEPT ![s] = row] /\ queue' = [queue EXCEPT ![u] = NotQueued]
           /\ ToPhase(u, "done") \/ (LostReplies /\ ToPhase(u, "undo"))
  <2>1. /\ HoldsKey(s, u) /\ chunks[s].status = "pending"
        /\ artifacts[s[1]].status = "uploading" /\ ~artifacts[s[1]].purged
    BY <1>5 DEF MayFinalize
  <2>2. row \in ChunkRow /\ row.status = "ready" /\ row.key = chunks[s].key /\ row.stamp = chunks[s].stamp
    BY <1>1 DEF ChunkRow
  <2>3. uploads'[u].phase = "done" \/ LostReplies
    BY <1>1, <1>5, PhaseSet DEF Phases
  <2>4. NotQueued \in QueueRow /\ ~NotQueued.queued /\ ~NotQueued.lapsed
    BY DEF NotQueued, QueueRow
  <2> HIDE DEF s, row
  <2>5. chunks' \in [Slots -> ChunkRow] /\ chunks'[s] = row /\ \A r \in Slots : r # s => ChunkMoves(r)
    BY <1>1, <1>5, <2>2, ChunkSet
  <2>6. Finalizing(s)
    BY <1>2, <2>1, <2>2, <2>3, <2>5 DEF Finalizing, HoldsKey
  <2>7. /\ queue' \in [Uploads -> QueueRow] /\ queue'[u] = NotQueued
        /\ \A k \in Uploads : k # u => queue'[k] = queue[k]
    BY <1>1, <1>5, <2>4 DEF StorageTypeOK
  <2>8. KeyMoves(u)
    <3>1. chunks'[s].key = u /\ chunks'[s].status = "ready"
      BY <2>1, <2>2, <2>5 DEF HoldsKey
    <3>2. QED
      BY <1>1, <1>2, <1>3, <2>4, <2>7, <3>1 DEF KeyMoves, s
  <2>9. \A k \in Uploads : KeyMoves(k)
    BY <1>1, <1>2, <1>5, <2>7, <2>8, OneKeyMoves DEF Phases
  <2>10. Orderly
    BY <1>2, <2>5, <2>6, <2>9, StillArtifacts, StillTasks, StillClosing DEF Orderly, ChunkMoves
  <2>11. StorageTypeOK'
    BY <1>1, <1>2, <1>3, <2>5, <2>7 DEF StorageTypeOK
  <2>12. QED
    BY <1>2, <2>10, <2>11, StillAll
<1>6. QED
  BY <1>2, <1>4, <1>5

(* deletePendingChunk for a request that found somebody else's row. *)
LEMMA EvictStep ==
  ASSUME StorageInv, NEW h \in Uploads \cup Cleaners,
         EvictClaim(h) \/ EvictObject(h) \/ EvictFails(h) \/ RemoveEvicted(h)
  PROVE  StorageInv' /\ Orderly
<1> DEFINE e == evict[h]
           s == e.slot
           key == e.key
<1>1. /\ StorageTypeOK /\ EvictInv(h) /\ chunks \in [Slots -> ChunkRow]
      /\ evict \in [Uploads \cup Cleaners -> EvictRow] /\ e \in EvictRow /\ s \in Slots
  BY DEF StorageInv, StorageTypeOK, EvictRow
<1>2. /\ UNCHANGED <<artifacts, queue, flying, uploads, closing, cleaners, tasks>>
      /\ e.phase \in {"claim", "delete", "remove"}
  BY DEF EvictClaim, EvictObject, EvictFails, RemoveEvicted
<1>3. /\ Of(key, s) /\ key \in Uploads /\ UploadInv(key) /\ OfNext(key, s)
      /\ \A r \in Slots : (Present(r) /\ chunks[r].key = key) => r = s
  BY <1>1, <1>2, RowOf DEF EvictInv, Of, OfNext, ClaimedNext, Claimed, StorageInv
<1>4. \A x \in {"won", "lost"} :
        LET o == Outcome(h, x) IN
        /\ o \in [Uploads \cup Cleaners -> EvictRow]
        /\ o[h].phase \notin {"claim", "delete", "remove"}
        /\ \A g \in Uploads \cup Cleaners : g # h => o[g] = evict[g]
  <2> TAKE x \in {"won", "lost"}
  <2> DEFINE y == IF h \in Uploads THEN x ELSE "none"
             row == [NoEviction EXCEPT !.phase = y]
  <2>1. row \in EvictRow /\ row.phase \in {"won", "lost", "none"}
    BY NoEvictionTyped DEF EvictRow
  <2>2. Outcome(h, x) = [evict EXCEPT ![h] = row]
    BY DEF Outcome
  <2> HIDE DEF row
  <2>3. QED
    BY <1>1, <2>1, <2>2
<1>5. ASSUME NEW x \in {"won", "lost"}, evict' = Outcome(h, x)
      PROVE  /\ evict' \in [Uploads \cup Cleaners -> EvictRow]
             /\ \A g \in Uploads \cup Cleaners : evict'[g] = evict[g] \/ EvictInv(g)'
  BY <1>4, <1>5, EvictOver
<1>6. ASSUME NEW x \in {"delete", "remove"}, evict' = [evict EXCEPT ![h].phase = x],
             FadingNext(key), x = "remove" => TrackedNext(key)
      PROVE  /\ evict' \in [Uploads \cup Cleaners -> EvictRow]
             /\ \A g \in Uploads \cup Cleaners : evict'[g] = evict[g] \/ EvictInv(g)'
  <2> DEFINE row == [e EXCEPT !.phase = x]
  <2>1. row \in EvictRow /\ row.phase = x /\ row.key = key /\ row.slot = s
    BY <1>1 DEF EvictRow
  <2>2. evict' = [evict EXCEPT ![h] = row]
    BY <1>6
  <2> HIDE DEF row, e
  <2>3. evict' \in [Uploads \cup Cleaners -> EvictRow] /\ evict'[h] = row
        /\ \A g \in Uploads \cup Cleaners : g # h => evict'[g] = evict[g]
    BY <1>1, <2>1, <2>2
  <2>4. EvictInv(h)'
    BY <1>3, <1>6, <2>1, <2>3, NextEvict
  <2>5. QED
    BY <2>3, <2>4
<1>7. ASSUME bucket' = bucket, NEW x \in {"won", "lost"}, evict' = Outcome(h, x), chunks' = chunks
      PROVE  StorageInv' /\ Orderly
  <2>1. Orderly
    BY <1>2, <1>7, StillKeys, StillChunks, StillArtifacts, StillTasks, StillClosing DEF Orderly
  <2>2. StorageTypeOK'
    BY <1>1, <1>2, <1>5, <1>7 DEF StorageTypeOK
  <2>3. QED
    BY <1>2, <1>5, <1>7, <2>1, <2>2, OrderlyKeeps
<1>8. CASE EvictClaim(h)
  <2>1. CASE ~(HoldsKey(s, key) /\ chunks[s].status = "pending")
    BY <1>7, <1>8, <2>1 DEF EvictClaim
  <2>2. CASE HoldsKey(s, key) /\ chunks[s].status = "pending"
    <3> DEFINE row == [chunks[s] EXCEPT !.status = "deleting", !.stamp = "swept", !.old = FALSE]
    <3>1. /\ chunks' = [chunks EXCEPT ![s] = row] /\ bucket' = bucket
          /\ evict' = [evict EXCEPT ![h].phase = "delete"]
      BY <1>8, <2>2 DEF EvictClaim
    <3>2. row \in ChunkRow /\ row.status = "deleting" /\ row.key = key
      <4>1. chunks[s] \in ChunkRow
        BY <1>1
      <4>2. QED
        BY <2>2, <4>1 DEF ChunkRow, HoldsKey
    <3> HIDE DEF row, s, key
    <3>3. chunks' \in [Slots -> ChunkRow] /\ chunks'[s] = row /\ \A r \in Slots : r # s => ChunkMoves(r)
      BY <1>1, <3>1, <3>2, ChunkSet
    <3>4. Ending(s)
      BY <2>2, <3>2, <3>3 DEF Ending, HoldsKey
    <3>5. FadingNext(key)
      BY <1>1, <1>3, <3>1, <3>2, <3>3 DEF FadingNext, OfNext, Present
    <3>6. Orderly
      BY <1>2, <3>1, <3>3, <3>4, StillKeys, StillArtifacts, StillTasks, StillClosing DEF Orderly, ChunkMoves
    <3>7. StorageTypeOK'
      BY <1>1, <1>2, <1>6, <3>1, <3>3, <3>5 DEF StorageTypeOK
    <3>8. QED
      BY <1>2, <1>6, <3>1, <3>5, <3>6, <3>7, OrderlyKeeps
  <2>3. QED
    BY <2>1, <2>2
<1>9. CASE EvictObject(h)
  <2>1. /\ bucket' = bucket \ {key} /\ evict' = [evict EXCEPT ![h].phase = "remove"] /\ chunks' = chunks
        /\ e.phase = "delete"
    BY <1>9 DEF EvictObject
  <2>2. Fading(key)
    BY <1>1, <2>1 DEF EvictInv
  <2> HIDE DEF e, key, s
  <2>3. FadingNext(key) /\ TrackedNext(key)
    BY <1>2, <2>1, <2>2 DEF Fading, FadingNext, Claimed, ClaimedNext, HoldsKey, Present, TrackedNext
  <2>4. \A k \in Uploads : KeyMoves(k)
    BY <1>2, <2>1, <2>2 DEF KeyMoves
  <2>5. Orderly
    BY <1>2, <2>1, <2>4, StillChunks, StillArtifacts, StillTasks, StillClosing DEF Orderly
  <2>6. StorageTypeOK'
    BY <1>1, <1>2, <1>6, <2>1, <2>3 DEF StorageTypeOK
  <2>7. QED
    BY <1>2, <1>6, <2>1, <2>3, <2>5, <2>6, OrderlyKeeps
<1>10. CASE EvictFails(h)
  BY <1>7, <1>10 DEF EvictFails
<1>11. CASE RemoveEvicted(h)
  <2>1. CASE ~(HoldsKey(s, key) /\ chunks[s].status = "deleting")
    BY <1>7, <1>11, <2>1 DEF RemoveEvicted
  <2>2. CASE HoldsKey(s, key) /\ chunks[s].status = "deleting"
    <3>1. /\ chunks' = [chunks EXCEPT ![s] = NoChunk] /\ bucket' = bucket /\ evict' = Outcome(h, "won")
          /\ e.phase = "remove"
      BY <1>11, <2>2 DEF RemoveEvicted
    <3>2. Tracked(key)
      BY <1>1, <3>1 DEF EvictInv
    <3>3. NoChunk \in ChunkRow /\ NoChunk.status = "none"
      BY DEF NoChunk, ChunkRow
    <3> HIDE DEF s, key, e
    <3>4. chunks' \in [Slots -> ChunkRow] /\ chunks'[s] = NoChunk /\ \A r \in Slots : r # s => ChunkMoves(r)
      BY <1>1, <3>1, <3>3, ChunkSet
    <3>5. Ending(s)
      BY <1>2, <1>3, <2>2, <3>1, <3>2, <3>3, <3>4 DEF Ending, HoldsKey, UploadInv, Tracked
    <3>6. Orderly
      BY <1>2, <3>1, <3>4, <3>5, StillKeys, StillArtifacts, StillTasks, StillClosing DEF Orderly, ChunkMoves
    <3>7. StorageTypeOK'
      BY <1>1, <1>2, <1>5, <3>1, <3>4 DEF StorageTypeOK
    <3>8. QED
      BY <1>2, <1>5, <3>1, <3>6, <3>7, OrderlyKeeps
  <2>3. QED
    BY <2>1, <2>2
<1>12. QED
  BY <1>8, <1>9, <1>10, <1>11

---------------------------------------------------------------------------
(* The cleanup and the purges. *)

RowNext(c, r) ==
  /\ c.phase \in {"stale", "tombstone", "objects", "finish"} /\ OfNext(r.key, r.slot)
  /\ IF r.status = "deleting" THEN FadingNext(r.key) ELSE r.stamp = "inserted"
  /\ c.phase \in {"objects", "finish"} => FadingNext(r.key) /\ TrackedNext(r.key)
  /\ c.phase \in Purging => r.slot[1] = c.art
  /\ c.phase = "stale" => r.status # "ready"

(* What has to be shown of the new row of a handler. *)
CleanerNext(c) ==
  /\ c \in CleanerRow
  /\ \A k \in c.keys : c.phase \in {"queue", "settle", "retry"} /\ FadingNext(k)
  /\ \A k \in c.lapsed : k \in c.keys /\ OverNext(k) /\ (c.phase = "settle" => k \notin bucket')
  /\ \A r \in c.rows : RowNext(c, r)
  /\ c.phase \in Purging \cup {"claim"} => artifacts'[c.art].status # "none"
  /\ c.phase \in Purging => artifacts'[c.art].purged

(* One cleaner takes a new row. *)
LEMMA NextCleaner ==
  ASSUME StorageTypeOK, NEW h \in Cleaners, NEW c, CleanerNext(c), cleaners' = [cleaners EXCEPT ![h] = c]
  PROVE  /\ cleaners' \in [Cleaners -> CleanerRow]
         /\ \A g \in Cleaners : cleaners'[g] = cleaners[g] \/ CleanerInv(g)'
<1>1. cleaners'[h] = c /\ cleaners' \in [Cleaners -> CleanerRow]
      /\ \A g \in Cleaners : g # h => cleaners'[g] = cleaners[g]
  BY DEF StorageTypeOK, CleanerNext
<1>2. ASSUME NEW r \in c.rows PROVE RowInv(h, r)'
  <2>1. RowNext(c, r)
    BY DEF CleanerNext
  <2>2. (Of(r.key, r.slot)' <=> OfNext(r.key, r.slot)) /\ (Fading(r.key)' <=> FadingNext(r.key))
        /\ (Tracked(r.key)' <=> TrackedNext(r.key))
    BY NextFacts
  <2>3. QED
    BY <1>1, <2>1, <2>2 DEF RowNext, RowInv
<1>3. \A k \in c.keys : c.phase \in {"queue", "settle", "retry"} /\ Fading(k)'
  BY NextFacts DEF CleanerNext
<1>4. \A k \in c.lapsed : k \in c.keys /\ Over(k)' /\ (c.phase = "settle" => k \notin bucket')
  BY NextFacts DEF CleanerNext
<1>5. CleanerInv(h)'
  BY <1>1, <1>2, <1>3, <1>4 DEF CleanerInv, CleanerNext
<1>6. QED
  BY <1>1, <1>5

(* A cleaner at rest. *)
LEMMA IdleRow == /\ IdleCleaner \in CleanerRow /\ IdleCleaner.phase = "idle" /\ IdleCleaner.keys = {}
                 /\ IdleCleaner.lapsed = {} /\ IdleCleaner.rows = {}
BY NoEvictionTyped DEF IdleCleaner, CleanerRow

(* A handler that holds nothing. *)
LEMMA EmptyHanded ==
  ASSUME NEW c \in CleanerRow, c.keys = {}, c.lapsed = {}, c.rows = {}, c.phase \notin Purging,
         c.phase = "claim" => artifacts'[c.art].status # "none"
  PROVE  CleanerNext(c)
BY DEF CleanerNext

(* A step of one handler of the cleanup that changes no table. *)
LEMMA HandlerOnly ==
  ASSUME StorageInv, NEW h \in Cleaners, NEW c, CleanerNext(c), cleaners' = [cleaners EXCEPT ![h] = c],
         UNCHANGED <<artifacts, chunks, queue, bucket, flying, uploads, evict, closing, tasks>>
  PROVE  StorageInv' /\ Orderly
<1>1. StorageTypeOK
  BY DEF StorageInv
<1>2. /\ cleaners' \in [Cleaners -> CleanerRow]
      /\ \A g \in Cleaners : cleaners'[g] = cleaners[g] \/ CleanerInv(g)'
  BY <1>1, NextCleaner
<1>3. Orderly
  BY StillKeys, StillChunks, StillArtifacts, StillTasks, StillClosing DEF Orderly
<1>4. StorageTypeOK'
  BY <1>1, <1>2 DEF StorageTypeOK
<1>5. QED
  BY <1>2, <1>3, <1>4, OrderlyKeeps

(* When no key moves, what held of it holds after the step. *)
LEMMA SameKeys ==
  ASSUME UNCHANGED <<chunks, queue, bucket, flying, uploads>>
  PROVE  /\ \A k : Fading(k) => FadingNext(k)
         /\ \A k : Tracked(k) => TrackedNext(k)
         /\ \A k : Over(k) => OverNext(k)
         /\ \A k, s : Of(k, s) => OfNext(k, s)
BY DEF Fading, FadingNext, Claimed, ClaimedNext, HoldsKey, Present, Tracked, TrackedNext, Over, OverNext, Of, OfNext

(* A batch is taken from its set. *)
LEMMA BatchIsSubset == ASSUME NEW S, NEW T \in Batches(S) PROVE T \subseteq S
BY DEF Batches

(* A cleanup reads the due keys of the deletion queue. *)
LEMMA StartStep ==
  ASSUME StorageInv, NEW h \in Cleaners, StartCleanup(h)
  PROVE  StorageInv' /\ Orderly
<1>1. PICK K \in Batches(DueKeys) :
        cleaners' = [cleaners EXCEPT ![h] =
          [IdleCleaner EXCEPT !.phase = IF K = {} THEN "sweep" ELSE "queue",
                              !.keys = K, !.lapsed = {k \in K : queue[k].lapsed}]]
  BY DEF StartCleanup
<1> DEFINE ph == IF K = {} THEN "sweep" ELSE "queue"
           L == {k \in K : queue[k].lapsed}
           c == [IdleCleaner EXCEPT !.phase = ph, !.keys = K, !.lapsed = L]
<1>2. UNCHANGED <<artifacts, chunks, queue, bucket, flying, uploads, evict, closing, tasks>>
  BY DEF StartCleanup
<1>3. ASSUME NEW k \in K PROVE k \in Uploads /\ Fading(k) /\ (k \in L => Over(k))
  <2>1. k \in DueKeys
    BY <1>3, BatchIsSubset
  <2>2. k \in Uploads /\ UploadInv(k) /\ queue[k].queued
        /\ \A s \in Slots : HoldsKey(s, k) => chunks[s].status = "deleting"
    BY <2>1 DEF DueKeys, StorageInv
  <2>3. QED
    BY <2>2 DEF UploadInv, Fading
<1>4. L \subseteq K /\ K \subseteq Uploads /\ ph \in {"sweep", "queue"} /\ (K # {} => ph = "queue")
  BY <1>3
<1> HIDE DEF L, ph
<1>5. /\ c \in CleanerRow /\ c.phase = ph /\ c.keys = K /\ c.lapsed = L /\ c.rows = {}
  BY <1>4, IdleRow DEF CleanerRow
<1>6. cleaners' = [cleaners EXCEPT ![h] = c]
  BY <1>1 DEF L, ph
<1> HIDE DEF c
<1>7. CleanerNext(c)
  BY <1>2, <1>3, <1>4, <1>5, SameKeys DEF CleanerNext, Purging
<1>8. QED
  BY <1>2, <1>6, <1>7, HandlerOnly

(* What a SELECT of generations learns about them. *)
LEMMA RowsAtFacts ==
  ASSUME StorageInv, NEW S, S \subseteq {s \in Slots : Present(s)}, NEW r \in RowsAt(S)
  PROVE  /\ r \in Generation /\ Of(r.key, r.slot) /\ r.slot \in S /\ r.status = chunks[r.slot].status
         /\ IF r.status = "deleting" THEN Fading(r.key) ELSE r.stamp = "inserted"
<1>1. PICK s \in S : r = [slot |-> s, key |-> chunks[s].key, stamp |-> chunks[s].stamp, status |-> chunks[s].status]
  BY DEF RowsAt
<1>2. /\ s \in Slots /\ Present(s) /\ chunks[s] \in ChunkRow /\ ChunkInv(s) /\ Of(chunks[s].key, s)
  BY RowOf DEF StorageInv, StorageTypeOK
<1>3. /\ chunks[s].status \in {"pending", "ready", "deleting"} /\ chunks[s].key \in Uploads
      /\ chunks[s].stamp \in {"inserted", "swept", "retried"}
  BY <1>2 DEF ChunkRow, Present, Of
<1>4. r \in Generation
  BY <1>1, <1>2, <1>3 DEF Generation
<1>5. IF r.status = "deleting" THEN Fading(r.key) ELSE r.stamp = "inserted"
  BY <1>1, <1>2, <1>3, FadingRow DEF ChunkInv
<1>6. QED
  BY <1>1, <1>2, <1>4, <1>5

(* The sweep and the purge read their generations. *)
LEMMA SelectStep ==
  ASSUME StorageInv, NEW h \in Cleaners, SelectStale(h) \/ SelectGenerations(h)
  PROVE  StorageInv' /\ Orderly
<1> DEFINE c == cleaners[h]
<1>1. CleanerInv(h) /\ c \in CleanerRow /\ StorageTypeOK
  BY DEF StorageInv, StorageTypeOK
<1>2. UNCHANGED <<artifacts, chunks, queue, bucket, flying, uploads, evict, closing, tasks>>
  BY DEF SelectStale, SelectGenerations
<1>3. c.phase \in {"sweep", "select"} /\ c.keys = {} /\ c.lapsed = {}
  <2>1. c.phase \in {"sweep", "select"}
    BY DEF SelectStale, SelectGenerations
  <2>2. QED
    BY <1>1, <2>1 DEF CleanerInv
<1>4. PICK S \in SUBSET {s \in Slots : Present(s)}, x \in {"stale", "finish", "tombstone"} :
        /\ cleaners' = [cleaners EXCEPT ![h].phase = x, ![h].rows = RowsAt(S)]
        /\ x # "stale" => c.phase = "select" /\ \A s \in S : s[1] = c.art
        /\ x = "finish" => S = {}
        /\ x = "stale" => \A s \in S : chunks[s].status # "ready"
  <2>1. CASE SelectStale(h)
    <3>1. PICK S \in Batches({s \in Slots : chunks[s].status \in {"pending", "deleting"} /\ chunks[s].old}) :
            cleaners' = [cleaners EXCEPT ![h].phase = "stale", ![h].rows = RowsAt(S)]
      BY <2>1 DEF SelectStale
    <3>2. S \subseteq {s \in Slots : Present(s)} /\ \A s \in S : chunks[s].status # "ready"
      BY BatchIsSubset DEF Present
    <3>3. QED
      BY <3>1, <3>2
  <2>2. CASE SelectGenerations(h)
    <3> DEFINE a == c.art
               present == {p \in Parts(a) : Present(<<a, p>>)}
               first == {p \in present : Cardinality({q \in present : q < p}) < Batch}
               T == {<<a, p>> : p \in first}
               x == IF first = {} THEN "finish" ELSE "tombstone"
    <3>1. /\ cleaners' = [cleaners EXCEPT ![h].rows = RowsAt(T), ![h].phase = x]
          /\ c.phase = "select"
      BY <2>2 DEF SelectGenerations
    <3>2. a \in Artifacts
      BY <1>1 DEF CleanerRow
    <3>3. \A s \in T : s \in Slots /\ Present(s) /\ s[1] = a
      BY <3>2, SlotFacts
    <3>4. x \in {"stale", "finish", "tombstone"} /\ x # "stale" /\ (x = "finish" => T = {})
      OBVIOUS
    <3>5. cleaners' = [cleaners EXCEPT ![h].phase = x, ![h].rows = RowsAt(T)]
      BY <3>1
    <3> HIDE DEF T, x
    <3>6. QED
      BY <3>1, <3>3, <3>4, <3>5
  <2>3. QED
    BY <2>1, <2>2
<1> DEFINE R == RowsAt(S)
           d == [c EXCEPT !.phase = x, !.rows = R]
<1>5. \A r \in R : /\ r \in Generation /\ Of(r.key, r.slot) /\ r.slot \in S /\ r.status = chunks[r.slot].status
                   /\ IF r.status = "deleting" THEN Fading(r.key) ELSE r.stamp = "inserted"
  BY RowsAtFacts
<1>6. x = "finish" => R = {}
  BY <1>4 DEF RowsAt
<1>7. R \in SUBSET Generation
  BY <1>5
<1> HIDE DEF R
<1>8. d \in CleanerRow /\ d.phase = x /\ d.rows = R /\ d.keys = {} /\ d.lapsed = {} /\ d.art = c.art
  <2>1. x \in {"idle", "queue", "settle", "retry", "sweep", "stale", "claim", "select",
                "tombstone", "objects", "finish"}
    OBVIOUS
  <2> HIDE DEF c
  <2>2. QED
    BY <1>1, <1>3, <1>7, <2>1 DEF CleanerRow
<1>9. cleaners' = [cleaners EXCEPT ![h] = d]
  <2>1. cleaners \in [Cleaners -> CleanerRow]
    BY <1>1 DEF StorageTypeOK
  <2>2. QED
    BY <1>4, <2>1 DEF R
<1> HIDE DEF d
<1>10. CleanerNext(d)
  <2>1. ASSUME NEW r \in R PROVE RowNext(d, r)
    BY <1>2, <1>4, <1>5, <1>6, <1>8, SameKeys DEF RowNext, Purging
  <2>2. /\ d.phase \in Purging \cup {"claim"} => artifacts'[d.art].status # "none"
        /\ d.phase \in Purging => artifacts'[d.art].purged
    BY <1>1, <1>2, <1>4, <1>8 DEF CleanerInv, Purging
  <2>3. QED
    BY <1>8, <2>1, <2>2 DEF CleanerNext
<1>11. QED
  BY <1>2, <1>9, <1>10, HandlerOnly

(* A refused delete, the choice of an expired artifact, a purge request. *)
LEMMA PassStep ==
  ASSUME StorageInv, NEW h \in Cleaners,
         DeleteQueuedFails(h) \/ SelectExpired(h) \/ \E a \in Artifacts : PurgeArtifact(h, a)
  PROVE  StorageInv' /\ Orderly
<1> DEFINE c == cleaners[h]
<1>1. CleanerInv(h) /\ c \in CleanerRow /\ StorageTypeOK
  BY DEF StorageInv, StorageTypeOK
<1>2. UNCHANGED <<artifacts, chunks, queue, bucket, flying, uploads, evict, closing, tasks>>
  BY DEF DeleteQueuedFails, SelectExpired, PurgeArtifact
<1>3. CASE DeleteQueuedFails(h)
  <2> DEFINE d == [c EXCEPT !.phase = "retry"]
  <2>1. c.phase = "queue" /\ cleaners' = [cleaners EXCEPT ![h] = d]
    BY <1>3 DEF DeleteQueuedFails
  <2>2. d \in CleanerRow /\ d.phase = "retry" /\ d.rows = c.rows /\ d.keys = c.keys /\ d.lapsed = c.lapsed
    BY <1>1 DEF CleanerRow
  <2> HIDE DEF d
  <2>3. CleanerNext(d)
    <3>1. \A r \in d.rows : RowNext(d, r)
      BY <1>1, <1>2, <2>1, <2>2, SameKeys DEF CleanerInv, RowInv, RowNext, Purging
    <3>2. /\ \A k \in d.keys : FadingNext(k)
          /\ \A k \in d.lapsed : k \in d.keys /\ OverNext(k)
      BY <1>1, <1>2, <2>1, <2>2, SameKeys DEF CleanerInv
    <3>3. QED
      BY <2>2, <3>1, <3>2 DEF CleanerNext, Purging
  <2>4. QED
    BY <1>2, <2>1, <2>3, HandlerOnly
<1>4. CASE SelectExpired(h)
  <2>1. c.phase = "stale" /\ c.rows = {} /\ c.keys = {} /\ c.lapsed = {}
    BY <1>1, <1>4 DEF SelectExpired, CleanerInv
  <2>2. CASE cleaners' = [cleaners EXCEPT ![h] = IdleCleaner]
    <3>1. CleanerNext(IdleCleaner)
      BY IdleRow, EmptyHanded DEF Purging
    <3>2. QED
      BY <1>2, <2>2, <3>1, HandlerOnly
  <2>3. ASSUME NEW a \in Artifacts, artifacts[a].status # "none",
               cleaners' = [cleaners EXCEPT ![h].phase = "claim", ![h].art = a]
        PROVE  StorageInv' /\ Orderly
    <3> DEFINE d == [c EXCEPT !.phase = "claim", !.art = a]
    <3>1. /\ d \in CleanerRow /\ d.phase = "claim" /\ d.art = a
          /\ d.keys = {} /\ d.lapsed = {} /\ d.rows = {}
      BY <1>1, <2>1 DEF CleanerRow
    <3>2. cleaners' = [cleaners EXCEPT ![h] = d]
      BY <2>3
    <3> HIDE DEF d
    <3>3. CleanerNext(d)
      BY <1>2, <2>3, <3>1, EmptyHanded DEF Purging
    <3>4. QED
      BY <1>2, <3>2, <3>3, HandlerOnly
  <2>4. QED
    BY <1>4, <2>2, <2>3 DEF SelectExpired
<1>5. ASSUME NEW a \in Artifacts, PurgeArtifact(h, a) PROVE StorageInv' /\ Orderly
  <2> DEFINE d == [IdleCleaner EXCEPT !.phase = "claim", !.art = a]
  <2>1. cleaners' = [cleaners EXCEPT ![h] = d] /\ artifacts[a].status # "none"
    BY <1>5 DEF PurgeArtifact
  <2>2. /\ d \in CleanerRow /\ d.phase = "claim" /\ d.art = a /\ d.keys = {} /\ d.lapsed = {} /\ d.rows = {}
    BY IdleRow DEF CleanerRow
  <2> HIDE DEF d
  <2>3. CleanerNext(d)
    BY <1>2, <2>1, <2>2, EmptyHanded DEF Purging
  <2>4. QED
    BY <1>2, <2>1, <2>3, HandlerOnly
<1>6. QED
  BY <1>3, <1>4, <1>5

(* A step of one handler of the cleanup that changes some of the tables. *)
LEMMA HandlerStep ==
  ASSUME StorageInv, Orderly, NEW h \in Cleaners, NEW c, CleanerNext(c),
         cleaners' = [cleaners EXCEPT ![h] = c],
         artifacts' \in [Artifacts -> ArtifactRow], chunks' \in [Slots -> ChunkRow],
         queue' \in [Uploads -> QueueRow], bucket' \subseteq Uploads, tasks' \in [Tasks -> TaskRow],
         UNCHANGED <<flying, uploads, evict, closing>>
  PROVE  StorageInv' /\ Orderly
<1>1. StorageTypeOK
  BY DEF StorageInv
<1>2. /\ cleaners' \in [Cleaners -> CleanerRow]
      /\ \A g \in Cleaners : cleaners'[g] = cleaners[g] \/ CleanerInv(g)'
  BY <1>1, NextCleaner
<1>3. StorageTypeOK'
  BY <1>1, <1>2 DEF StorageTypeOK
<1>4. QED
  BY <1>2, <1>3, OrderlyKeeps

(* The deletion queue: objects of fading keys go, and then the tombstones
   whose time is over. *)
LEMMA DeleteQueuedStep ==
  ASSUME StorageInv, NEW h \in Cleaners, DeleteQueued(h)
  PROVE  StorageInv' /\ Orderly
<1> DEFINE c == cleaners[h]
           d == [c EXCEPT !.phase = "settle"]
<1>1. CleanerInv(h) /\ c \in CleanerRow /\ StorageTypeOK
  BY DEF StorageInv, StorageTypeOK
<1>2. /\ UNCHANGED <<artifacts, chunks, queue, flying, uploads, evict, closing, tasks>>
      /\ bucket' = bucket \ c.keys /\ cleaners' = [cleaners EXCEPT ![h] = d] /\ c.phase = "queue"
  BY DEF DeleteQueued
<1>3. d \in CleanerRow /\ d.phase = "settle" /\ d.rows = c.rows /\ d.keys = c.keys /\ d.lapsed = c.lapsed
  BY <1>1 DEF CleanerRow
<1>4. /\ c.rows = {} /\ \A k \in c.keys : k \in Uploads /\ Fading(k)
      /\ \A k \in c.lapsed : k \in c.keys /\ Over(k)
  BY <1>1, <1>2 DEF CleanerInv, RowInv, CleanerRow
<1> HIDE DEF c, d
<1>5. Orderly
  <2>1. \A k \in Uploads : KeyMoves(k)
    BY <1>2, <1>4 DEF KeyMoves
  <2>2. QED
    BY <1>2, <2>1, StillChunks, StillArtifacts, StillTasks, StillClosing DEF Orderly
<1>6. CleanerNext(d)
  <2>1. \A k \in c.keys : FadingNext(k)
    BY <1>4, <1>5, KeysKept DEF Kept
  <2>2. \A k \in c.lapsed : k \in c.keys /\ OverNext(k) /\ k \notin bucket'
    BY <1>2, <1>4, <1>5, KeysKept DEF Kept
  <2>3. QED
    BY <1>3, <1>4, <2>1, <2>2 DEF CleanerNext, Purging
<1>7. QED
  BY <1>1, <1>2, <1>5, <1>6, HandlerStep DEF StorageTypeOK

(* The tombstones of a batch are settled, or made due later. *)
LEMMA SettleStep ==
  ASSUME StorageInv, NEW h \in Cleaners, SettleQueue(h) \/ RetryQueue(h)
  PROVE  StorageInv' /\ Orderly
<1> DEFINE c == cleaners[h]
           L == IF SettleQueue(h) THEN c.lapsed ELSE {}
           d == [IdleCleaner EXCEPT !.phase = "sweep"]
<1>1. CleanerInv(h) /\ c \in CleanerRow /\ StorageTypeOK
  BY DEF StorageInv, StorageTypeOK
<1>2. /\ UNCHANGED <<artifacts, chunks, bucket, flying, uploads, evict, closing, tasks>>
      /\ cleaners' = [cleaners EXCEPT ![h] = d]
      /\ queue' = [k \in Uploads |-> IF k \in L THEN NotQueued
                                     ELSE IF k \in c.keys THEN [queue[k] EXCEPT !.due = FALSE]
                                     ELSE queue[k]]
  <2>1. CASE SettleQueue(h)
    BY <2>1 DEF SettleQueue
  <2>2. CASE ~SettleQueue(h)
    BY <2>2 DEF RetryQueue
  <2>3. QED
    BY <2>1, <2>2
<1>3. \A k \in L : Over(k) /\ k \notin bucket
  BY <1>1 DEF CleanerInv, SettleQueue
<1> HIDE DEF L, c
<1>4. /\ queue' \in [Uploads -> QueueRow]
      /\ \A k \in Uploads : /\ queue'[k].queued => queue[k].queued
                            /\ (queue[k].queued /\ ~queue'[k].queued) => k \in L
                            /\ queue'[k].lapsed => queue[k].lapsed
  <2>1. NotQueued \in QueueRow /\ ~NotQueued.queued /\ ~NotQueued.lapsed
    BY DEF NotQueued, QueueRow
  <2>2. ASSUME NEW k \in Uploads
        PROVE  /\ [queue[k] EXCEPT !.due = FALSE] \in QueueRow
               /\ [queue[k] EXCEPT !.due = FALSE].queued = queue[k].queued
               /\ [queue[k] EXCEPT !.due = FALSE].lapsed = queue[k].lapsed
               /\ queue[k] \in QueueRow
    BY <1>1 DEF StorageTypeOK, QueueRow
  <2>3. QED
    BY <1>2, <2>1, <2>2
<1>5. Orderly
  <2>1. \A k \in Uploads : KeyMoves(k)
    BY <1>2, <1>3, <1>4 DEF KeyMoves
  <2>2. QED
    BY <1>2, <2>1, StillChunks, StillArtifacts, StillTasks, StillClosing DEF Orderly
<1>6. CleanerNext(d)
  <2>1. d \in CleanerRow /\ d.phase = "sweep" /\ d.keys = {} /\ d.lapsed = {} /\ d.rows = {}
    BY IdleRow DEF CleanerRow
  <2> HIDE DEF d
  <2>2. QED
    BY <2>1, EmptyHanded DEF Purging
<1>7. QED
  BY <1>1, <1>2, <1>4, <1>5, <1>6, HandlerStep DEF StorageTypeOK

(* The sweep hands a row to deletePendingChunk. *)
LEMMA EvictStaleStep ==
  ASSUME StorageInv, NEW h \in Cleaners, EvictStale(h)
  PROVE  StorageInv' /\ Orderly
<1> DEFINE c == cleaners[h]
<1>1. CleanerInv(h) /\ c \in CleanerRow /\ StorageTypeOK
  BY DEF StorageInv, StorageTypeOK
<1>2. PICK r \in c.rows :
        /\ evict' = [evict EXCEPT ![h] = [phase |-> IF r.status = "pending" THEN "claim" ELSE "delete",
                                          slot |-> r.slot, key |-> r.key]]
        /\ cleaners' = [cleaners EXCEPT ![h].rows = @ \ {r}]
  BY DEF EvictStale
<1> DEFINE d == [c EXCEPT !.rows = c.rows \ {r}]
           e == [phase |-> IF r.status = "pending" THEN "claim" ELSE "delete",
                 slot |-> r.slot, key |-> r.key]
<1>3. /\ UNCHANGED <<artifacts, chunks, queue, bucket, flying, uploads, closing, tasks>>
      /\ c.phase = "stale"
  BY DEF EvictStale
<1>4. Orderly
  BY <1>3, StillKeys, StillChunks, StillArtifacts, StillTasks, StillClosing DEF Orderly
<1>5. r \in Generation /\ RowInv(h, r)
  BY <1>1 DEF CleanerRow, CleanerInv
<1>6. /\ d \in CleanerRow /\ d.phase = "stale" /\ d.keys = c.keys /\ d.lapsed = c.lapsed
      /\ d.rows \subseteq c.rows /\ cleaners' = [cleaners EXCEPT ![h] = d]
  BY <1>1, <1>2, <1>3 DEF CleanerRow
<1> HIDE DEF d
<1>7. CleanerNext(d)
  <2>1. \A q \in d.rows : RowNext(d, q)
    BY <1>1, <1>3, <1>6, SameKeys DEF CleanerInv, RowInv, RowNext, Purging
  <2>2. d.keys = {} /\ d.lapsed = {}
    BY <1>1, <1>3, <1>6 DEF CleanerInv
  <2>3. QED
    BY <1>6, <2>1, <2>2 DEF CleanerNext, Purging
<1>8. /\ e \in EvictRow /\ e.phase \in {"claim", "delete"} /\ e.slot = r.slot /\ e.key = r.key
      /\ e.phase = "delete" => Fading(r.key)
  BY <1>3, <1>5 DEF EvictRow, Generation, RowInv
<1> HIDE DEF e
<1>9. /\ evict' \in [Uploads \cup Cleaners -> EvictRow] /\ evict'[h] = e
      /\ \A g \in Uploads \cup Cleaners : g # h => evict'[g] = evict[g]
  BY <1>1, <1>2, <1>8 DEF e, StorageTypeOK
<1>10. EvictInv(h)'
  <2>1. OfNext(e.key, e.slot) /\ (e.phase = "delete" => FadingNext(e.key))
    BY <1>3, <1>5, <1>8, SameKeys DEF RowInv
  <2>2. QED
    BY <1>8, <1>9, <2>1, NextEvict
<1>11. /\ cleaners' \in [Cleaners -> CleanerRow]
       /\ \A g \in Cleaners : cleaners'[g] = cleaners[g] \/ CleanerInv(g)'
  BY <1>1, <1>6, <1>7, NextCleaner
<1>12. StorageTypeOK'
  BY <1>1, <1>3, <1>9, <1>11 DEF StorageTypeOK
<1>13. QED
  BY <1>4, <1>9, <1>10, <1>11, <1>12, OrderlyKeeps

(* A task is purged with its artifact. *)
LEMMA PurgeTaskStep ==
  ASSUME StorageInv, NEW h \in Cleaners, NEW t \in Tasks, PurgeArtifactTask(h, t)
  PROVE  StorageInv' /\ Orderly
<1> DEFINE a == tasks[t].art
           d == [IdleCleaner EXCEPT !.phase = "claim", !.art = a]
<1>1. StorageTypeOK /\ TaskInv(t) /\ a \in Artifacts
  BY DEF StorageInv, StorageTypeOK, TaskRow
<1>2. /\ tasks[t].status # "none" /\ tasks' = [tasks EXCEPT ![t].status = "ended"]
      /\ artifacts' = [artifacts EXCEPT ![a].expired = TRUE]
      /\ cleaners' = [cleaners EXCEPT ![h] = d]
      /\ UNCHANGED <<chunks, queue, bucket, flying, uploads, evict, closing>>
  BY DEF PurgeArtifactTask
<1>3. artifacts' \in [Artifacts -> ArtifactRow] /\ \A b \in Artifacts : ArtifactMoves(b)
  BY <1>1, <1>2, ExpiryMoves
<1>4. tasks' \in [Tasks -> TaskRow] /\ \A r \in Tasks : TaskMoves(r)
  BY <1>1, <1>2 DEF StorageTypeOK, TaskRow, TaskMoves, Active
<1>5. Orderly
  BY <1>2, <1>3, <1>4, StillKeys, StillChunks, StillClosing DEF Orderly
<1>6. d \in CleanerRow /\ d.phase = "claim" /\ d.art = a /\ d.keys = {} /\ d.lapsed = {} /\ d.rows = {}
  BY <1>1, IdleRow DEF CleanerRow
<1>7. artifacts'[a].status # "none"
  BY <1>1, <1>2, <1>5, ArtifactsLast DEF TaskInv
<1> HIDE DEF d
<1>8. CleanerNext(d)
  BY <1>6, <1>7, EmptyHanded DEF Purging
<1>9. QED
  BY <1>1, <1>2, <1>3, <1>4, <1>5, <1>8, HandlerStep DEF StorageTypeOK

(* The purge claims the artifact, unless a task pins it. *)
LEMMA ClaimPurgeStep ==
  ASSUME StorageInv, NEW h \in Cleaners, ClaimPurge(h)
  PROVE  StorageInv' /\ Orderly
<1> DEFINE c == cleaners[h]
           a == c.art
           d == [c EXCEPT !.phase = "select"]
           row == [artifacts[a] EXCEPT !.purged = TRUE, !.expired = TRUE]
<1>1. CleanerInv(h) /\ c \in CleanerRow /\ StorageTypeOK /\ a \in Artifacts
  BY DEF StorageInv, StorageTypeOK, CleanerRow
<1>2. /\ UNCHANGED <<chunks, queue, bucket, flying, uploads, evict, closing, tasks>>
      /\ c.phase = "claim"
  BY DEF ClaimPurge
<1>3. CASE Pinned(a)
  <2>1. CleanerNext(IdleCleaner)
    BY IdleRow, EmptyHanded DEF Purging
  <2>2. QED
    BY <1>2, <1>3, <2>1, HandlerOnly DEF ClaimPurge
<1>4. CASE ~Pinned(a)
  <2>1. artifacts' = [artifacts EXCEPT ![a] = row] /\ cleaners' = [cleaners EXCEPT ![h] = d]
    BY <1>1, <1>4 DEF ClaimPurge, StorageTypeOK
  <2>2. row \in ArtifactRow /\ row.purged /\ row.status = artifacts[a].status
    BY <1>1 DEF StorageTypeOK, ArtifactRow
  <2>3. /\ d \in CleanerRow /\ d.phase = "select" /\ d.rows = c.rows /\ d.keys = c.keys
        /\ d.lapsed = c.lapsed /\ d.art = a
    BY <1>1 DEF CleanerRow
  <2>4. c.rows = {} /\ c.keys = {} /\ c.lapsed = {} /\ artifacts[a].status # "none"
    BY <1>1, <1>2 DEF CleanerInv, RowInv
  <2> HIDE DEF row, d, a, c
  <2>5. artifacts' \in [Artifacts -> ArtifactRow] /\ artifacts'[a] = row
        /\ \A b \in Artifacts : b # a => artifacts'[b] = artifacts[b]
    BY <1>1, <2>1, <2>2 DEF StorageTypeOK
  <2>6. \A b \in Artifacts : ArtifactMoves(b)
    <3>1. ArtifactMoves(a)
      BY <1>2, <1>4, <2>2, <2>4, <2>5 DEF ArtifactMoves, Pinned, Active
    <3>2. \A b \in Artifacts : b # a => ArtifactMoves(b)
      BY <2>5, StillArtifact
    <3>3. QED
      BY <3>1, <3>2
  <2>7. Orderly
    BY <1>2, <2>6, StillKeys, StillChunks, StillTasks, StillClosing, SlotFacts DEF Orderly
  <2>8. CleanerNext(d)
    BY <2>2, <2>3, <2>4, <2>5 DEF CleanerNext, Purging
  <2>9. QED
    BY <1>1, <1>2, <2>1, <2>5, <2>7, <2>8, HandlerStep DEF StorageTypeOK
<1>5. QED
  BY <1>3, <1>4

(* The objects of the tombstoned generations go. *)
LEMMA DeleteObjectsStep ==
  ASSUME StorageInv, NEW h \in Cleaners, DeleteObjects(h)
  PROVE  StorageInv' /\ Orderly
<1> DEFINE c == cleaners[h]
           d == [c EXCEPT !.phase = "finish"]
<1>1. CleanerInv(h) /\ c \in CleanerRow /\ StorageTypeOK /\ c.art \in Artifacts
  BY DEF StorageInv, StorageTypeOK, CleanerRow
<1>2. /\ UNCHANGED <<artifacts, chunks, queue, flying, uploads, evict, closing, tasks>>
      /\ bucket' = bucket \ KeysOf(c.rows) /\ cleaners' = [cleaners EXCEPT ![h] = d] /\ c.phase = "objects"
  BY DEF DeleteObjects
<1>3. /\ d \in CleanerRow /\ d.phase = "finish" /\ d.rows = c.rows /\ d.keys = c.keys
      /\ d.lapsed = c.lapsed /\ d.art = c.art
  BY <1>1 DEF CleanerRow
<1>4. /\ c.keys = {} /\ c.lapsed = {}
      /\ \A r \in c.rows : RowInv(h, r) /\ r.key \in Uploads /\ Fading(r.key) /\ Tracked(r.key)
  BY <1>1, <1>2 DEF CleanerInv, RowInv, Of
<1> HIDE DEF d
<1>5. Orderly
  <2>1. \A k \in KeysOf(c.rows) : Fading(k)
    BY <1>4 DEF KeysOf
  <2>2. \A k \in Uploads : KeyMoves(k)
    BY <1>2, <2>1 DEF KeyMoves
  <2>3. QED
    BY <1>2, <2>2, StillChunks, StillArtifacts, StillTasks, StillClosing DEF Orderly
<1>6. CleanerNext(d)
  <2>1. ASSUME NEW r \in c.rows PROVE RowNext(d, r)
    <3>1. Kept(r.key)
      BY <1>4, <1>5, KeysKept
    <3>2. QED
      BY <1>2, <1>3, <1>4, <3>1 DEF RowNext, RowInv, Kept, Of, OfNext, Purging
  <2>2. QED
    BY <1>1, <1>2, <1>3, <1>4, <2>1 DEF CleanerNext, CleanerInv, Purging
<1>7. QED
  BY <1>1, <1>2, <1>5, <1>6, HandlerStep DEF StorageTypeOK

(* A cleaner is lost. *)
LEMMA LoseCleanerStep ==
  ASSUME StorageInv, NEW h \in Cleaners, LoseCleaner(h)
  PROVE  StorageInv' /\ Orderly
<1>1. StorageTypeOK
  BY DEF StorageInv
<1>2. /\ UNCHANGED <<artifacts, chunks, queue, bucket, flying, uploads, closing, tasks>>
      /\ cleaners' = [cleaners EXCEPT ![h] = IdleCleaner] /\ evict' = [evict EXCEPT ![h] = NoEviction]
  BY DEF LoseCleaner
<1>3. CleanerNext(IdleCleaner)
  BY IdleRow, EmptyHanded DEF Purging
<1>4. /\ evict' \in [Uploads \cup Cleaners -> EvictRow]
      /\ \A g \in Uploads \cup Cleaners : evict'[g] = evict[g] \/ EvictInv(g)'
  BY <1>1, <1>2, NoEvictionTyped, EvictOver DEF StorageTypeOK
<1>5. /\ cleaners' \in [Cleaners -> CleanerRow]
      /\ \A g \in Cleaners : cleaners'[g] = cleaners[g] \/ CleanerInv(g)'
  BY <1>1, <1>2, <1>3, NextCleaner
<1>6. Orderly
  BY <1>2, StillKeys, StillChunks, StillArtifacts, StillTasks, StillClosing DEF Orderly
<1>7. StorageTypeOK'
  BY <1>1, <1>2, <1>4, <1>5 DEF StorageTypeOK
<1>8. QED
  BY <1>4, <1>5, <1>6, <1>7, OrderlyKeeps

(* The generations a purge selected are queued and tombstoned.  What it did
   not hit any more is deleting already, or belongs to another key. *)
LEMMA TombstoneStep ==
  ASSUME StorageInv, NEW h \in Cleaners, Tombstone(h)
  PROVE  StorageInv' /\ Orderly
<1> DEFINE c == cleaners[h]
           d == [c EXCEPT !.phase = "objects"]
           rows == c.rows
           keys == KeysOf(rows)
           hit == {r.slot : r \in {q \in rows : SameGeneration(q)}}
<1>1. CleanerInv(h) /\ c \in CleanerRow /\ StorageTypeOK /\ c.art \in Artifacts
  BY DEF StorageInv, StorageTypeOK, CleanerRow
<1>2. /\ UNCHANGED <<artifacts, bucket, flying, uploads, evict, closing, tasks>>
      /\ queue' = [k \in Uploads |-> IF k \in keys THEN Enqueued(queue[k], TRUE) ELSE queue[k]]
      /\ chunks' = [s \in Slots |-> IF s \in hit THEN [chunks[s] EXCEPT !.status = "deleting"] ELSE chunks[s]]
      /\ cleaners' = [cleaners EXCEPT ![h] = d] /\ c.phase = "tombstone"
  BY DEF Tombstone
<1>3. /\ d \in CleanerRow /\ d.phase = "objects" /\ d.rows = rows /\ d.keys = c.keys
      /\ d.lapsed = c.lapsed /\ d.art = c.art
  BY <1>1 DEF CleanerRow
<1>4. /\ c.keys = {} /\ c.lapsed = {} /\ artifacts[c.art].purged /\ artifacts[c.art].status # "none"
      /\ \A r \in rows : /\ RowInv(h, r) /\ Of(r.key, r.slot) /\ r.key \in keys /\ r.slot[1] = c.art
                         /\ IF r.status = "deleting" THEN Fading(r.key) ELSE r.stamp = "inserted"
  BY <1>1, <1>2 DEF CleanerInv, RowInv, Purging, KeysOf
<1>5. /\ \A k \in keys : k \in Uploads /\ Claimed(k)
      /\ \A s \in hit : \E r \in rows : s = r.slot /\ SameGeneration(r)
  BY <1>4 DEF KeysOf, Of
<1>6. \A s \in Slots : /\ chunks[s] \in ChunkRow
                       /\ [chunks[s] EXCEPT !.status = "deleting"] \in ChunkRow
                       /\ s \in hit => /\ Present(s) /\ artifacts[s[1]].purged
                                       /\ chunks'[s].status = "deleting" /\ chunks'[s].key = chunks[s].key
                       /\ s \notin hit => chunks'[s] = chunks[s]
  <2> TAKE s \in Slots
  <2>1. chunks[s] \in ChunkRow
    BY <1>1 DEF StorageTypeOK
  <2>2. /\ [chunks[s] EXCEPT !.status = "deleting"] \in ChunkRow
        /\ [chunks[s] EXCEPT !.status = "deleting"].status = "deleting"
        /\ [chunks[s] EXCEPT !.status = "deleting"].key = chunks[s].key
    BY <2>1 DEF ChunkRow
  <2>3. s \in hit => Present(s) /\ artifacts[s[1]].purged
    BY <1>4, <1>5 DEF SameGeneration, HoldsKey
  <2> HIDE DEF hit
  <2>4. QED
    BY <1>2, <2>1, <2>2, <2>3
<1>7. \A k \in Uploads : /\ queue'[k] \in QueueRow /\ (k \in keys => queue'[k].queued)
                         /\ queue'[k].queued => queue[k].queued \/ k \in keys
                         /\ queue[k].queued => queue'[k].queued
                         /\ queue'[k].lapsed => queue[k].lapsed
  <2> TAKE k \in Uploads
  <2> DEFINE q == Enqueued(queue[k], TRUE)
  <2>1. queue[k] \in QueueRow
    BY <1>1 DEF StorageTypeOK
  <2>2. q \in QueueRow /\ q.queued /\ (q.lapsed => queue[k].lapsed)
    <3>1. CASE queue[k].queued
      BY <2>1, <3>1 DEF Enqueued, QueueRow
    <3>2. CASE ~queue[k].queued
      BY <2>1, <3>2 DEF Enqueued, QueueRow
    <3>3. QED
      BY <3>1, <3>2
  <2> HIDE DEF q, keys
  <2>3. queue'[k] = IF k \in keys THEN q ELSE queue[k]
    BY <1>2 DEF q
  <2>4. QED
    BY <2>1, <2>2, <2>3
<1> HIDE DEF hit, keys, d
<1>8. chunks' \in [Slots -> ChunkRow] /\ \A s \in Slots : ChunkMoves(s)
  <2>1. chunks' \in [Slots -> ChunkRow]
    BY <1>2, <1>6
  <2>2. ASSUME NEW s \in Slots PROVE ChunkMoves(s)
    BY <1>6 DEF ChunkMoves, Ending, Unchanging
  <2>3. QED
    BY <2>1, <2>2
<1>9. queue' \in [Uploads -> QueueRow] /\ \A k \in Uploads : KeyMoves(k)
  <2>1. queue' \in [Uploads -> QueueRow]
    BY <1>2, <1>7
  <2>2. ASSUME NEW k \in Uploads PROVE KeyMoves(k)
    BY <1>2, <1>5, <1>7 DEF KeyMoves
  <2>3. QED
    BY <2>1, <2>2
<1>10. Orderly
  BY <1>2, <1>8, <1>9, StillArtifacts, StillTasks, StillClosing DEF Orderly
<1>11. ASSUME NEW r \in rows PROVE RowNext(d, r)
  <2>1. Kept(r.key) /\ OfNext(r.key, r.slot) /\ r.key \in Uploads /\ queue'[r.key].queued
    BY <1>4, <1>7, <1>10, KeysKept DEF Kept, Of, OfNext
  <2>2. ASSUME NEW s \in Slots, chunks'[s].status # "none", chunks'[s].key = r.key
        PROVE  chunks'[s].status = "deleting"
    <3>1. CASE s \in hit
      BY <1>6, <3>1
    <3>2. CASE s \notin hit
      <4>1. Present(s) /\ chunks[s].key = r.key /\ ChunkInv(s) /\ chunks'[s] = chunks[s]
            /\ chunks[s].status \in {"pending", "ready", "deleting"}
        BY <1>6, <2>2, <3>2 DEF Present, StorageInv, ChunkRow
      <4>2. s = r.slot
        BY <1>4, <4>1 DEF ChunkInv, Of
      <4>3. chunks[s].stamp # r.stamp
        BY <3>2, <4>1, <4>2 DEF hit, SameGeneration, HoldsKey
      <4>4. CASE r.status = "deleting"
        BY <1>4, <4>1, <4>4 DEF Fading, HoldsKey
      <4>5. CASE r.status # "deleting"
        BY <1>4, <4>1, <4>3, <4>5 DEF ChunkInv
      <4>6. QED
        BY <4>4, <4>5
    <3>3. QED
      BY <3>1, <3>2
  <2>3. FadingNext(r.key) /\ TrackedNext(r.key)
    BY <2>1, <2>2 DEF FadingNext, OfNext, TrackedNext
  <2>4. QED
    BY <1>3, <1>4, <2>1, <2>3 DEF RowNext
<1>12. CleanerNext(d)
  BY <1>2, <1>3, <1>4, <1>11 DEF CleanerNext
<1>13. QED
  BY <1>1, <1>2, <1>8, <1>9, <1>10, <1>12, HandlerStep DEF StorageTypeOK

(* The confirmed generations leave the table, and with the last of them the
   artifact is deleted. *)
LEMMA FinishPurgeStep ==
  ASSUME StorageInv, NEW h \in Cleaners, FinishPurge(h)
  PROVE  StorageInv' /\ Orderly
<1> DEFINE c == cleaners[h]
           a == c.art
           rows == c.rows
           hit == {r.slot : r \in {q \in rows : SameGeneration(q)}}
           left == {s \in Slots \ hit : s[1] = a /\ Present(s)}
           row == [artifacts[a] EXCEPT !.status = "deleted", !.manifest = NoManifest(a)]
<1>1. CleanerInv(h) /\ c \in CleanerRow /\ StorageTypeOK /\ a \in Artifacts
  BY DEF StorageInv, StorageTypeOK, CleanerRow
<1>2. /\ UNCHANGED <<queue, bucket, flying, uploads, evict, closing, tasks>>
      /\ chunks' = [s \in Slots |-> IF s \in hit THEN NoChunk ELSE chunks[s]]
      /\ cleaners' = [cleaners EXCEPT ![h] = IdleCleaner] /\ c.phase = "finish"
      /\ IF left = {} THEN artifacts' = [artifacts EXCEPT ![a] = row] ELSE artifacts' = artifacts
  BY <1>1 DEF FinishPurge, StorageTypeOK
<1>3. /\ artifacts[a].purged
      /\ \A r \in rows : /\ r.key \in Uploads /\ r.slot[1] = a /\ Tracked(r.key)
                         /\ UploadInv(r.key)
  BY <1>1, <1>2 DEF CleanerInv, RowInv, Of, Purging, StorageInv
<1>4. \A s \in hit : \E r \in rows : s = r.slot /\ HoldsKey(s, r.key)
  BY DEF SameGeneration
<1>5. NoChunk \in ChunkRow /\ NoChunk.status = "none"
  BY DEF NoChunk, ChunkRow
<1>6. \A s \in Slots : (s \in hit => chunks'[s] = NoChunk) /\ (s \notin hit => chunks'[s] = chunks[s])
  BY <1>2
<1>7. row \in ArtifactRow /\ row.status = "deleted" /\ row.purged
  <2>1. NoManifest(a) \in Manifests
    BY <1>1 DEF NoManifest, Manifests
  <2>2. artifacts[a] \in ArtifactRow
    BY <1>1 DEF StorageTypeOK
  <2>3. QED
    BY <1>3, <2>1, <2>2 DEF ArtifactRow
<1> HIDE DEF hit, row
<1>8. chunks' \in [Slots -> ChunkRow] /\ \A s \in Slots : ChunkMoves(s)
  <2>1. chunks' \in [Slots -> ChunkRow]
    BY <1>1, <1>2, <1>5 DEF StorageTypeOK
  <2>2. ASSUME NEW s \in Slots, s \in hit PROVE Ending(s)
    <3>1. PICK r \in rows : s = r.slot /\ HoldsKey(s, r.key)
      BY <1>4, <2>2
    <3>2. Present(s) /\ artifacts[s[1]].purged /\ chunks'[s].status = "none" /\ chunks[s].key = r.key
      BY <1>3, <1>5, <1>6, <2>2, <3>1 DEF HoldsKey
    <3>3. \/ r.key \notin bucket' /\ r.key \notin flying'
          \/ queue'[r.key].queued
      BY <1>2, <1>3 DEF Tracked, UploadInv
    <3>4. QED
      BY <3>2, <3>3 DEF Ending
  <2>3. QED
    BY <1>6, <2>1, <2>2 DEF ChunkMoves, Unchanging
<1>9. artifacts' \in [Artifacts -> ArtifactRow] /\ \A b \in Artifacts : ArtifactMoves(b)
  <2>1. CASE left # {}
    BY <1>1, <1>2, <2>1, StillArtifacts DEF StorageTypeOK
  <2>2. CASE left = {}
    <3>1. ASSUME NEW p \in Parts(a) PROVE chunks'[a, p].status \notin {"pending", "ready"}
      <4>1. <<a, p>> \in Slots /\ <<a, p>>[1] = a
        BY <1>1, SlotFacts
      <4>2. <<a, p>> \in hit \/ ~Present(<<a, p>>)
        BY <2>2, <4>1
      <4>3. QED
        BY <1>5, <1>6, <4>1, <4>2 DEF Present
    <3> HIDE DEF left
    <3>2. artifacts' \in [Artifacts -> ArtifactRow] /\ artifacts'[a] = row
          /\ \A b \in Artifacts : b # a => artifacts'[b] = artifacts[b]
      BY <1>1, <1>2, <1>7, <2>2 DEF StorageTypeOK
    <3>3. ArtifactMoves(a)
      BY <1>3, <1>7, <3>1, <3>2 DEF ArtifactMoves
    <3>4. \A b \in Artifacts : b # a => ArtifactMoves(b)
      BY <3>2, StillArtifact
    <3>5. QED
      BY <3>2, <3>3, <3>4
  <2>3. QED
    BY <2>1, <2>2
<1>10. Orderly
  BY <1>2, <1>8, <1>9, StillKeys, StillTasks, StillClosing DEF Orderly
<1>11. CleanerNext(IdleCleaner)
  BY IdleRow, EmptyHanded DEF Purging
<1>12. QED
  BY <1>1, <1>2, <1>8, <1>9, <1>10, <1>11, HandlerStep DEF StorageTypeOK

---------------------------------------------------------------------------
(* The invariant of the storage and what follows from it. *)

(* The tables are empty. *)
LEMMA StorageStart ==
  ASSUME Init
  PROVE  StorageInv
<1> DEFINE content == CHOOSE c \in Contents : TRUE
<1>1. AnyArtifact \in Artifacts /\ AnySlot \in Slots /\ content \in Contents
  BY NoEvictionTyped, StorageAssumption
<1>2. StorageTypeOK
  <2>1. artifacts \in [Artifacts -> ArtifactRow]
    <3>1. \A a \in Artifacts : NoManifest(a) \in Manifests
      BY DEF NoManifest, Manifests
    <3>2. QED
      BY <3>1 DEF Init, ArtifactRow
  <2>2. chunks \in [Slots -> ChunkRow] /\ queue \in [Uploads -> QueueRow]
    BY DEF Init, NoChunk, ChunkRow, NotQueued, QueueRow
  <2>3. uploads \in [Uploads -> UploadRow]
    BY <1>1 DEF Init, UploadRow
  <2>4. evict \in [Uploads \cup Cleaners -> EvictRow] /\ cleaners \in [Cleaners -> CleanerRow]
    BY NoEvictionTyped, IdleRow DEF Init
  <2>5. tasks \in [Tasks -> TaskRow]
    BY <1>1 DEF Init, TaskRow
  <2>6. QED
    BY <2>1, <2>2, <2>3, <2>4, <2>5 DEF Init, StorageTypeOK
<1>3. \A s \in Slots : chunks[s].status = "none"
  BY DEF Init, NoChunk
<1>4. \A u \in Uploads : UploadInv(u)
  BY DEF Init, UploadInv, NotQueued
<1>5. \A h \in Uploads \cup Cleaners : EvictInv(h)
  BY NoEvictionTyped DEF Init, EvictInv
<1>6. \A h \in Cleaners : CleanerInv(h)
  BY IdleRow DEF Init, CleanerInv, Purging
<1>7. \A a \in Artifacts : ArtifactInv(a)
  BY DEF Init, ArtifactInv
<1>8. \A t \in Tasks : TaskInv(t)
  BY DEF Init, TaskInv, Active
<1>9. NoOrphanObject
  BY DEF Init, NoOrphanObject
<1>10. QED
  BY <1>2, <1>3, <1>4, <1>5, <1>6, <1>7, <1>8, <1>9 DEF StorageInv, ChunkInv, Present, Stored

(* Any step of a cleanup or a purge. *)
LEMMA CleanStepKeeps ==
  ASSUME StorageInv, NEW h \in Cleaners, Clean(h)
  PROVE  StorageInv' /\ Orderly
<1>1. CASE StartCleanup(h)
  BY <1>1, StartStep
<1>2. CASE DeleteQueued(h) \/ SettleQueue(h) \/ RetryQueue(h)
  BY <1>2, DeleteQueuedStep, SettleStep
<1>3. CASE DeleteQueuedFails(h) \/ SelectExpired(h) \/ \E a \in Artifacts : PurgeArtifact(h, a)
  BY <1>3, PassStep
<1>4. CASE SelectStale(h) \/ SelectGenerations(h)
  BY <1>4, SelectStep
<1>5. CASE EvictStale(h)
  BY <1>5, EvictStaleStep
<1>6. CASE \E t \in Tasks : PurgeArtifactTask(h, t)
  BY <1>6, PurgeTaskStep
<1>7. CASE ClaimPurge(h)
  BY <1>7, ClaimPurgeStep
<1>8. CASE Tombstone(h)
  BY <1>8, TombstoneStep
<1>9. CASE DeleteObjects(h)
  BY <1>9, DeleteObjectsStep
<1>10. CASE FinishPurge(h)
  BY <1>10, FinishPurgeStep
<1>11. CASE LoseCleaner(h)
  BY <1>11, LoseCleanerStep
<1>12. QED
  BY <1>1, <1>2, <1>3, <1>4, <1>5, <1>6, <1>7, <1>8, <1>9, <1>10, <1>11 DEF Clean

(* Any step of an upload. *)
LEMMA UploadStepKeeps ==
  ASSUME StorageInv, NEW u \in Uploads,
         \/ \E s \in Slots, c \in Contents : BeginUpload(u, s, c)
         \/ ClaimChunk(u) \/ EnqueueUpload(u) \/ PutObject(u) \/ PutThrows(u) \/ UnclaimChunk(u)
         \/ FinalizeChunk(u) \/ FinalizeThrows(u)
         \/ UndoObject(u) \/ UndoRow(u) \/ MarkForRetry(u) \/ LoseUpload(u)
  PROVE  StorageInv' /\ Orderly
<1>1. CASE \E s \in Slots, c \in Contents : BeginUpload(u, s, c)
  BY <1>1, BeginUploadStep
<1>2. CASE ClaimChunk(u) \/ LoseUpload(u)
  BY <1>2, ClaimStep
<1>3. CASE EnqueueUpload(u) \/ PutObject(u) \/ PutThrows(u) \/ FinalizeThrows(u) \/ UndoObject(u)
  BY <1>3, PutStep
<1>4. CASE UnclaimChunk(u) \/ UndoRow(u) \/ MarkForRetry(u)
  BY <1>4, OwnRowStep
<1>5. CASE FinalizeChunk(u)
  BY <1>5, FinalizeStep
<1>6. QED
  BY <1>1, <1>2, <1>3, <1>4, <1>5

(* Any step at all. *)
LEMMA StorageStep ==
  ASSUME StorageInv, [Next]_vars
  PROVE  StorageInv' /\ Orderly
<1>1. CASE UNCHANGED vars
  <2>1. Orderly
    BY <1>1, StillKeys, StillChunks, StillArtifacts, StillTasks, StillClosing DEF vars, Orderly
  <2>2. StorageTypeOK'
    BY <1>1 DEF vars, StorageInv, StorageTypeOK
  <2>3. QED
    BY <1>1, <2>1, <2>2, StillAll DEF vars
<1>2. CASE Clock
  BY <1>2, CreateStep, ChunkAgesStep, QueueTimeStep DEF Clock
<1>3. CASE Buyer
  <2>1. CASE \E a \in Artifacts : CreateArtifactUpload(a)
    BY <2>1, CreateStep
  <2>2. CASE \/ \E a \in Artifacts : BeginComplete(a)
             \/ \E c \in closing : CommitComplete(c) \/ LoseComplete(c)
    BY <2>2, CompleteStep
  <2>3. QED
    BY <1>3, <2>1, <2>2, UploadStepKeeps DEF Buyer
<1>4. CASE Store
  BY <1>4, StoreStep DEF Store
<1>5. CASE Work
  BY <1>5, WorkStep, StorageAssumption DEF Work
<1>6. CASE \E h \in Cleaners : Clean(h)
  BY <1>6, CleanStepKeeps
<1>7. CASE \E h \in Uploads \cup Cleaners :
             EvictClaim(h) \/ EvictObject(h) \/ EvictFails(h) \/ RemoveEvicted(h)
  BY <1>7, EvictStep
<1>8. QED
  BY <1>1, <1>2, <1>3, <1>4, <1>5, <1>6, <1>7 DEF Next

(* The inductive invariant of uploads, evictions, cleanups and purges. *)
THEOREM StorageInvariant == Spec => []StorageInv
<1>1. Init => StorageInv
  BY StorageStart
<1>2. StorageInv /\ [Next]_vars => StorageInv'
  BY StorageStep
<1>3. QED
  BY <1>1, <1>2, PTL DEF Spec

(* Every variable holds rows of its table, whatever handlers are lost. *)
THEOREM StorageTyped == Spec => []StorageTypeOK
<1>1. StorageInv => StorageTypeOK
  BY DEF StorageInv
<1>2. QED
  BY <1>1, StorageInvariant, PTL

(* No ciphertext is ever beyond discovery: uploadArtifactChunk queues the key
   before the put and withdraws it only with the row that is ready, and every
   delete of a row leaves the key queued or its object gone. *)
THEOREM OrphanSafe == Spec => []NoOrphanObject
<1>1. StorageInv => NoOrphanObject
  BY DEF StorageInv
<1>2. QED
  BY <1>1, StorageInvariant, PTL

(* Active tasks pin their input, as long as the reply of a committed batch
   is never lost; with lost replies the handler of a finalized part deletes
   its object, and the run "lost" shows how. *)
THEOREM PinnedSafe == ASSUME ~LostReplies PROVE Spec => []PinnedInput
<1>1. StorageInv => PinnedInput
  <2> SUFFICES ASSUME StorageInv, NEW t \in Tasks, Active(t)
               PROVE  LET a == tasks[t].art IN
                      /\ artifacts[a].status = "ready" /\ ~artifacts[a].purged
                      /\ \A p \in Parts(a) : /\ chunks[a, p].status = "ready"
                                             /\ chunks[a, p].key \in bucket
                                             /\ chunks[a, p].content = artifacts[a].manifest[p]
    BY DEF PinnedInput
  <2> DEFINE a == tasks[t].art
  <2>1. a \in Artifacts /\ artifacts[a].status = "ready" /\ ~artifacts[a].purged
    BY DEF StorageInv, StorageTypeOK, TaskRow, TaskInv
  <2>2. ASSUME NEW p \in Parts(a)
        PROVE  /\ chunks[a, p].status = "ready" /\ chunks[a, p].key \in bucket
               /\ chunks[a, p].content = artifacts[a].manifest[p]
    <3>1. chunks[a, p].status = "ready" /\ chunks[a, p].content = artifacts[a].manifest[p]
      BY <2>1 DEF StorageInv, ArtifactInv
    <3>2. <<a, p>> \in Slots /\ <<a, p>>[1] = a
      BY <2>1, SlotFacts
    <3>3. QED
      BY <2>1, <3>1, <3>2 DEF StorageInv, Stored
  <2>3. QED
    BY <2>1, <2>2
<1>2. QED
  BY <1>1, StorageInvariant, PTL

(* Purged content is never revived: neither a late finalize nor a late
   completion makes it ready again, and the artifact is marked deleted only
   when no generation of it is left that could become ready. *)
THEOREM PurgeSafe == Spec => PurgeIsFinal
<1> DEFINE Final(a) == artifacts[a].purged =>
       /\ artifacts'[a].purged
       /\ artifacts'[a].status \in {artifacts[a].status, "deleted"}
       /\ \A p \in Parts(a) : chunks'[a, p].status = "ready" => chunks[a, p].status = "ready"
       /\ artifacts'[a].status = "deleted" =>
            \A p \in Parts(a) : chunks'[a, p].status \notin {"pending", "ready"}
<1>1. StorageInv /\ [Next]_vars => \A a \in Artifacts : Final(a)
  <2> SUFFICES ASSUME StorageInv, [Next]_vars, NEW a \in Artifacts, artifacts[a].purged PROVE Final(a)
    OBVIOUS
  <2>1. StorageInv' /\ ArtifactMoves(a) /\ ArtifactInv(a)
    BY StorageStep DEF Orderly, StorageInv
  <2>2. /\ artifacts'[a].purged /\ artifacts[a].status # "none"
        /\ artifacts'[a].status = "deleted" => \A p \in Parts(a) : chunks'[a, p].status \notin {"pending", "ready"}
    BY <2>1 DEF ArtifactMoves, ArtifactInv, StorageInv
  <2>3. artifacts'[a].status \in {artifacts[a].status, "deleted"}
    BY <2>1, <2>2 DEF ArtifactMoves
  <2>4. ASSUME NEW p \in Parts(a), chunks'[a, p].status = "ready" PROVE chunks[a, p].status = "ready"
    <3>1. <<a, p>> \in Slots /\ <<a, p>>[1] = a
      BY SlotFacts
    <3>2. ChunkMoves(<<a, p>>)
      BY <3>1, StorageStep DEF Orderly
    <3>3. QED
      BY <2>4, <3>1, <3>2 DEF ChunkMoves, Unchanging, Inserting, Finalizing, Ending
  <2>5. QED
    BY <2>2, <2>3, <2>4
<1>2. QED
  BY <1>1, StorageInvariant, PTL DEF Spec, PurgeIsFinal
================================================================================
