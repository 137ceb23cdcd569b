----------------------------- MODULE SupplierNode -----------------------------
(* The supplier node: signed gateway calls, the nonce guard, the replay
   journal on disk, the idempotent results in memory, the capacity gate and
   the upstream calls that cost money (apps/supplier-node/src).

   The node is single threaded: a call is handled without interruption from
   its nonce to the start of the upstream call, except that the process may
   die at any point.  `turn' is that handler; it keeps the time it read when
   it began, as handleInference does (nowMs), while the clock goes on.

   Every map of the node is pruned before it is read, and load skips lines
   that have expired, each with the time of the reader.  An entry that has
   expired for every reader to come is as good as absent: Tick forgets it. *)
EXTENDS Integers, Sequences, FiniteSets, Bags

CONSTANTS
  Nonces,       \* one signed call each; the network may deliver it again and again
  Ids, Bodies,  \* request ids and request bodies
  NoBody, NoNonce, NoId,
  Window,       \* replayWindowMs
  TTL,          \* idempotencyTtlMs
  Timeout,      \* upstream timeout
  Minute,       \* the capacity window
  Concurrency, PerMinute, MaxSeen, MaxCached,
  MaxTime, MaxRuns  \* bounds of the model

ASSUME NodeAssumption ==
  /\ {Window, TTL, Timeout, MaxTime, MaxRuns} \subseteq Nat
  /\ {Minute, Concurrency, PerMinute, MaxSeen, MaxCached} \subseteq Nat \ {0}
  /\ Nonces \cap Ids = {} /\ NoBody \notin Bodies /\ NoNonce \notin Nonces /\ NoId \notin Ids

VARIABLES
  now,      \* Date.now()
  sent,     \* the signed calls that have reached the node
  journal,  \* the lines of the journal file, a bag
  torn,     \* the file ends in part of a line
  node,     \* the process: up, draining, healthy (no terminalFailure)
  claims,   \* the maps nonces and requests of the journal
  seen,     \* the map of the nonce guard
  cache,    \* the idempotency map: expiry, body, the upstream call it awaits
  gate,     \* the capacity gate: active, and the entries of the last minute
  turn,     \* the handler that is running
  runs,     \* every upstream call ever started for a request
  segments, \* upstream calls running for file tasks
  reply,    \* the upstream call whose result a call awaits or got, 0 without
  accepted  \* how often each nonce was accepted, ever

vars == <<now, sent, journal, torn, node, claims, seen, cache, gate, turn, runs,
          segments, reply, accepted>>

Keys == Nonces \cup Ids
Times == 0..(MaxTime + 2 * Window + TTL)
Line == [key : Keys, exp : Times, body : Bodies \cup {NoBody}]
NoCall == [ts |-> -1, id |-> NoId, body |-> NoBody]
NoClaim == [exp |-> -1, body |-> NoBody]
NoEntry == [exp |-> -1, body |-> NoBody, run |-> 0]
Idle == [pc |-> "idle", nonce |-> NoNonce, at |-> 0]
EmptyGate == [active |-> 0, entries |-> {}]
Down == [up |-> FALSE, draining |-> FALSE, healthy |-> TRUE]

Init ==
  /\ now = 0
  /\ sent = [n \in Nonces |-> NoCall]
  /\ journal = EmptyBag /\ torn = FALSE
  /\ node = Down
  /\ claims = [k \in Keys |-> NoClaim]
  /\ seen = [n \in Nonces |-> -1]
  /\ cache = [i \in Ids |-> NoEntry]
  /\ gate = EmptyGate /\ turn = Idle
  /\ runs = <<>> /\ segments = 0
  /\ reply = [n \in Nonces |-> 0]
  /\ accepted = [n \in Nonces |-> 0]

---------------------------------------------------------------------------
(* The journal. *)

(* Mutant: a claim is over in its last millisecond. *)
LiveExclusive(exp, t) == exp > t

(* The claim is in force: load keeps its line, claimNonce and claimRequest
   refuse its key, and prune leaves it. *)
Live(exp, t) == exp >= t

LineOf(k, c) == [key |-> k, exp |-> c.exp, body |-> c.body]

(* Mutant: the compaction keeps only the nonces. *)
CompactedNonces(c, t) == SetToBag({LineOf(k, c[k]) : k \in {q \in Nonces : Live(c[q].exp, t)}})

(* compact: the file is replaced by the claims in memory that are in force. *)
Compacted(c, t) == SetToBag({LineOf(k, c[k]) : k \in {q \in Keys : Live(c[q].exp, t)}})

Claim(k, c) == claims' = [claims EXCEPT ![k] = c]

(* append, and a compaction if a threshold of maybeCompactAfterAppend is
   reached: number of appends, time and bytes are left open. *)
Journaled(k, c, t) ==
  /\ Claim(k, c)
  /\ journal' \in {journal (+) SetToBag({LineOf(k, c)}), Compacted(claims', t)}
  /\ UNCHANGED torn

(* The write, its fsync or the compaction throws: terminalFailure.  The line
   may be missing, there, or there in part; the lines of a torn file, which
   nobody reads again, stay what they were. *)
JournalFails(k, c, t) ==
  /\ node' = [node EXCEPT !.healthy = FALSE]
  /\ \/ UNCHANGED <<claims, journal>> /\ torn' = TRUE
     \/ /\ UNCHANGED <<claims, torn>>
        /\ journal' \in {journal, journal (+) SetToBag({LineOf(k, c)}), Compacted(claims, t)}
     \/ Journaled(k, c, t)

(* The background compaction; draining stops its timer. *)
CompactNow ==
  /\ node.up /\ node.healthy /\ ~node.draining /\ turn.pc = "idle"
  /\ journal' = Compacted(claims, now)
  /\ UNCHANGED <<now, sent, torn, node, claims, seen, cache, gate, turn, runs, reply, accepted, segments>>

CompactNowFails ==
  /\ node.up /\ node.healthy /\ ~node.draining /\ turn.pc = "idle"
  /\ node' = [node EXCEPT !.healthy = FALSE]
  /\ journal' \in {journal, Compacted(claims, now)}
  /\ UNCHANGED <<now, sent, torn, claims, seen, cache, gate, turn, runs, reply, accepted, segments>>

---------------------------------------------------------------------------
(* handleInference and handleAttestation. *)

(* What the gateway may have signed under a nonce: an inference, or a call
   that only uses its nonce (an attestation, a body the node refuses). *)
Calls ==
  [ts : {t \in (now - Window)..(now + Window) : t >= 0}, id : Ids, body : Bodies]
    \cup [ts : {t \in (now - Window)..(now + Window) : t >= 0}, id : {NoId}, body : {NoBody}]

NonceClaim(c) == [exp |-> c.ts + Window, body |-> NoBody]

(* verifyAndRecord, then claimNonce; only an inference asks about draining.
   A nonce comes with the call it was signed for, again and again. *)
NonceFree(n, c) ==
  /\ node.up /\ turn.pc = "idle" /\ sent[n] \in {NoCall, c}
  /\ ~(node.draining /\ c.id # NoId)
  /\ ~Live(seen[n], now)
  /\ Cardinality({m \in Nonces : Live(seen[m], now)}) < MaxSeen
  /\ node.healthy
  /\ ~Live(claims[n].exp, now)

NonceTaken(n, c) ==
  /\ sent' = [sent EXCEPT ![n] = c]
  /\ seen' = [seen EXCEPT ![n] = c.ts + Window]
  /\ accepted' = [accepted EXCEPT ![n] = @ + 1]
  /\ turn' = IF c.id = NoId THEN Idle ELSE [pc |-> "request", nonce |-> n, at |-> now]

ClaimNonce(n, c) ==
  /\ NonceFree(n, c)
  /\ Journaled(n, NonceClaim(c), now)
  /\ NonceTaken(n, c)
  /\ UNCHANGED <<now, node, cache, gate, runs, reply, segments>>

ClaimNonceFails(n, c) ==
  /\ NonceFree(n, c)
  /\ JournalFails(n, NonceClaim(c), now)
  /\ sent' = [sent EXCEPT ![n] = c]
  /\ UNCHANGED <<now, seen, cache, gate, turn, runs, reply, accepted, segments>>

(* The call awaits the result of an upstream call, or is refused (0). *)
Answered(n, r) == reply' = [reply EXCEPT ![n] = r]

SameBody(n) == cache[sent[n].id].body = sent[n].body

Cached(i) == Live(cache[i].exp, turn.at)

(* The result of an earlier call with this id, or a conflict. *)
ReplayResult ==
  LET n == turn.nonce IN
  /\ turn.pc = "request" /\ Cached(sent[n].id)
  /\ Answered(n, IF SameBody(n) THEN cache[sent[n].id].run ELSE 0)
  /\ turn' = Idle
  /\ UNCHANGED <<now, sent, journal, torn, node, claims, seen, cache, gate, runs, accepted, segments>>

CacheFull == Cardinality({i \in Ids : Cached(i)}) >= MaxCached

(* The cache is full, or this or an earlier process has claimed the id. *)
RefuseRequest ==
  LET i == sent[turn.nonce].id IN
  /\ turn.pc = "request" /\ ~Cached(i)
  /\ CacheFull \/ Live(claims[i].exp, turn.at)
  /\ Answered(turn.nonce, 0)
  /\ turn' = Idle
  /\ UNCHANGED <<now, sent, journal, torn, node, claims, seen, cache, gate, runs, accepted, segments>>

RequestClaim(n) == [exp |-> turn.at + TTL, body |-> sent[n].body]

(* Mutant: the request is only looked up in the memory of this process. *)
RequestUncached(n) ==
  /\ turn.pc = "request" /\ ~Cached(sent[n].id) /\ ~CacheFull

RequestFree(n) ==
  /\ turn.pc = "request" /\ ~Cached(sent[n].id) /\ ~CacheFull
  /\ ~Live(claims[sent[n].id].exp, turn.at)

ClaimRequest ==
  LET n == turn.nonce IN
  /\ RequestFree(n)
  /\ Journaled(sent[n].id, RequestClaim(n), turn.at)
  /\ turn' = [turn EXCEPT !.pc = "execute"]
  /\ UNCHANGED <<now, sent, node, seen, cache, gate, runs, reply, accepted, segments>>

ClaimRequestFails ==
  LET n == turn.nonce IN
  /\ RequestFree(n)
  /\ JournalFails(sent[n].id, RequestClaim(n), turn.at)
  /\ Answered(n, 0)
  /\ turn' = Idle
  /\ UNCHANGED <<now, sent, seen, cache, gate, runs, accepted, segments>>

---------------------------------------------------------------------------
(* Capacity and the upstream calls. *)

(* An entry is the instant a permit was taken and its number in that instant:
   the entries stand in the order of time, and prune drops from their front. *)
RecentEntries == {e \in gate.entries : e[1] > now - Minute}
NewEntry == <<now, Cardinality({e \in gate.entries : e[1] = now}) + 1>>

(* Mutant: the gate does not count the calls of the last minute. *)
MayAcquireAnytime == gate.active < Concurrency

MayAcquire == gate.active < Concurrency /\ Cardinality(RecentEntries) < PerMinute

Acquired == gate' = [active |-> gate.active + 1, entries |-> RecentEntries \cup {NewEntry}]
Run(n) == [id |-> sent[n].id, body |-> sent[n].body, claimed |-> turn.at, at |-> now, st |-> "running"]

Entry(r) == [exp |-> turn.at + TTL, body |-> sent[turn.nonce].body, run |-> r]

(* execute; its promise is cached whether or not the gate let it through. *)
Execute ==
  LET n == turn.nonce
      i == sent[n].id IN
  /\ turn.pc = "execute"
  /\ \/ /\ MayAcquire /\ Len(runs) < MaxRuns
        /\ Acquired
        /\ runs' = Append(runs, Run(n))
        /\ cache' = [cache EXCEPT ![i] = Entry(Len(runs) + 1)]
        /\ Answered(n, Len(runs) + 1)
     \/ /\ ~MayAcquire
        /\ cache' = [cache EXCEPT ![i] = Entry(0)]
        /\ Answered(n, 0)
        /\ UNCHANGED <<gate, runs>>
  /\ turn' = Idle
  /\ UNCHANGED <<now, sent, journal, torn, node, claims, seen, accepted, segments>>

(* executeArtifactTask: a segment of a file task takes capacity as well. *)
StartSegment ==
  /\ node.up /\ turn.pc = "idle"
  /\ MayAcquire /\ Acquired
  /\ segments' = segments + 1
  /\ UNCHANGED <<now, sent, journal, torn, node, claims, seen, cache, turn, runs, reply, accepted>>

EndSegment ==
  /\ turn.pc = "idle" /\ segments > 0
  /\ segments' = segments - 1
  /\ gate' = [gate EXCEPT !.active = @ - 1]
  /\ UNCHANGED <<now, sent, journal, torn, node, claims, seen, cache, turn, runs, reply, accepted>>

Running == {r \in DOMAIN runs : runs[r].st = "running"}

(* The upstream answers, fails or times out, which is all the same to what
   follows: the permit is released and whoever awaits the result gets it. *)
Finish(r) ==
  /\ turn.pc = "idle" /\ r \in Running
  /\ runs' = [runs EXCEPT ![r].st = "done"]
  /\ gate' = [gate EXCEPT !.active = @ - 1]
  /\ UNCHANGED <<now, sent, journal, torn, node, claims, seen, cache, turn, reply, accepted, segments>>

---------------------------------------------------------------------------
(* The process. *)

LiveLines == {r \in BagToSet(journal) : Live(r.exp, now)}

(* load refuses a second line in force for a key. *)
Duplicates ==
  \E r \in LiveLines, s \in LiveLines : r.key = s.key /\ (r # s \/ journal[r] > 1)

(* Mutant: only nonces are read back. *)
LoadedNonces ==
  [k \in Keys |-> IF k \in Nonces /\ \E r \in LiveLines : r.key = k
                  THEN LET r == CHOOSE r \in LiveLines : r.key = k
                       IN [exp |-> r.exp, body |-> r.body]
                  ELSE NoClaim]

Loaded ==
  [k \in Keys |-> IF \E r \in LiveLines : r.key = k
                  THEN LET r == CHOOSE r \in LiveLines : r.key = k
                       IN [exp |-> r.exp, body |-> r.body]
                  ELSE NoClaim]

(* serve: the constructor reads the journal and rewrites it. *)
Start ==
  /\ ~node.up /\ ~torn /\ ~Duplicates
  /\ node' = [Down EXCEPT !.up = TRUE]
  /\ claims' = Loaded
  /\ journal' = Compacted(Loaded, now)
  /\ UNCHANGED <<now, sent, torn, seen, cache, gate, turn, runs, reply, accepted, segments>>

(* SIGTERM: setDraining. *)
Drain ==
  /\ node.up /\ ~node.draining /\ turn.pc = "idle"
  /\ node' = [node EXCEPT !.draining = TRUE]
  /\ UNCHANGED <<now, sent, journal, torn, claims, seen, cache, gate, turn, runs, reply, accepted, segments>>

(* The process ends, drained or not: memory is gone, upstream calls that
   were running are paid for all the same. *)
Crash ==
  /\ node.up
  /\ node' = Down
  /\ claims' = [k \in Keys |-> NoClaim]
  /\ seen' = [n \in Nonces |-> -1]
  /\ cache' = [i \in Ids |-> NoEntry]
  /\ gate' = EmptyGate /\ turn' = Idle /\ segments' = 0
  /\ runs' = [r \in DOMAIN runs |-> [runs[r] EXCEPT !.st = "gone"]]
  /\ UNCHANGED <<now, sent, journal, torn, reply, accepted>>

(* No upstream call outlives its timeout.  The next reader is the handler
   that is running, or one that has yet to begin. *)
Tick ==
  LET next == IF turn.pc = "idle" THEN now + 1 ELSE turn.at
      Forget(e, none) == IF Live(e.exp, next) THEN e ELSE none IN
  /\ now < MaxTime
  /\ \A r \in Running : now < runs[r].at + Timeout
  /\ now' = now + 1
  /\ journal' = [l \in {r \in BagToSet(journal) : Live(r.exp, next)} |-> journal[l]]
  /\ claims' = [k \in Keys |-> Forget(claims[k], NoClaim)]
  /\ seen' = [n \in Nonces |-> IF Live(seen[n], next) THEN seen[n] ELSE -1]
  /\ cache' = [i \in Ids |-> Forget(cache[i], NoEntry)]
  /\ gate' = [gate EXCEPT !.entries = {e \in @ : e[1] > now' - Minute}]
  /\ UNCHANGED <<sent, torn, node, turn, runs, reply, accepted, segments>>

Next ==
  \/ \E n \in Nonces, c \in Calls : ClaimNonce(n, c) \/ ClaimNonceFails(n, c)
  \/ ReplayResult \/ RefuseRequest \/ ClaimRequest \/ ClaimRequestFails
  \/ Execute \/ StartSegment \/ EndSegment
  \/ \E r \in DOMAIN runs : Finish(r)
  \/ CompactNow \/ CompactNowFails \/ Start \/ Drain \/ Crash \/ Tick

Spec == Init /\ [][Next]_vars

---------------------------------------------------------------------------
(* Properties. *)

(* Every variable holds what its map, file or counter may hold. *)
NodeTypeOK ==
  /\ now \in 0..MaxTime /\ torn \in BOOLEAN
  /\ \A n \in Nonces : sent[n] = NoCall \/ sent[n] \in
       [ts : Times, id : Ids \cup {NoId}, body : Bodies \cup {NoBody}]
  /\ IsABag(journal) /\ BagToSet(journal) \subseteq Line
  /\ node \in [up : BOOLEAN, draining : BOOLEAN, healthy : BOOLEAN]
  /\ \A k \in Keys : claims[k] = NoClaim \/ LineOf(k, claims[k]) \in Line
  /\ seen \in [Nonces -> Times \cup {-1}]
  /\ \A i \in Ids : cache[i] = NoEntry
       \/ cache[i] \in [exp : Times, body : Bodies, run : 0..Len(runs)]
  /\ gate.active \in Nat /\ gate.entries \subseteq Times \X (1..PerMinute)
  /\ turn.pc \in {"idle", "request", "execute"} /\ turn.at \in 0..now
  /\ turn.pc # "idle" => node.up /\ node.healthy /\ turn.nonce \in Nonces
  /\ Len(runs) <= MaxRuns /\ reply \in [Nonces -> 0..Len(runs)] /\ segments \in 0..Concurrency

(* A signed call is accepted once, however often the network delivers it,
   whenever its timestamp lies in the window, and through any number of
   crashes and restarts. *)
NonceOnce == \A n \in Nonces : accepted[n] <= 1

(* The upstream is called once for a request id in the time of its claim:
   re-signed calls and restarts in between do not bill the supplier twice. *)
BilledOnce ==
  \A r \in DOMAIN runs : \A s \in DOMAIN runs :
    (r < s /\ runs[r].id = runs[s].id)
      => ~Live(runs[r].claimed + TTL, runs[s].claimed)

(* A claim is on disk before its upstream call starts and stays there, through
   compactions, failures and crashes, until it has expired. *)
ExecutionsJournaled ==
  \A r \in DOMAIN runs :
    Live(runs[r].claimed + TTL, now)
      => BagIn([key |-> runs[r].id, exp |-> runs[r].claimed + TTL, body |-> runs[r].body], journal)

(* The node never writes a journal that it would itself refuse to load as a
   duplicate; only a torn line can keep it down. *)
RestartPossible == ~Duplicates

(* The process never has more upstream calls running, or started within a
   minute, than the supplier allows, and no permit is lost or returned twice. *)
CapacityHeld ==
  /\ gate.active = Cardinality(Running) + segments /\ gate.active <= Concurrency
  /\ LET Here == {r \in DOMAIN runs : runs[r].st # "gone"} IN
     \A r \in Here :
       Cardinality({s \in Here : runs[s].at \in (runs[r].at - Minute + 1)..runs[r].at}) <= PerMinute
=============================================================================
