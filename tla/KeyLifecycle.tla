----------------------------- MODULE KeyLifecycle -----------------------------
(* The keyrings of the control plane and what depends on them: the manifest a
   deployment is configured with, the manifest the database says is applied,
   the canaries of the keys, the commands that change them, the rows encrypted
   or found under a key, and the authentication of agents (apps/web/server/
   keyring.ts, security.ts, cryptographic-preflight-service.ts,
   cryptographic-key-lifecycle-service.ts, cryptographic-key-lifecycle-
   invariants.ts, agent-auth.ts, agent-auth-invariants.ts, and the rotation in
   maintenance-service.ts).

   Old and new deployments serve requests at the same time: a handler runs
   with the keyring of its own deployment and may be overtaken at every await.
   The model is of one keyring domain and of one signed agent call within the
   five minutes it is valid.  The two domains have their own rows
   and share the readiness of a preflight, which can only refuse more, and the
   command ids.  A material is known by its verifier, a manifest by its hash:
   equal hashes are equal manifests, verifiers included. *)
EXTENDS Naturals, FiniteSets

CONSTANTS
  KeyIds, Materials, NoMaterial,
  Manifests,   \* the slot manifests that are ever deployed
  Compat,      \* the keyring of a deployment without a manifest
  Recovery,    \* the material of each key in the recovery system
  Commands, Rows, Handlers,
  NoKey, NoCommand, Raw   \* Raw: the namespace of the unkeyed digest

Keyring ==
  [gen : Nat, active : KeyIds, readable : SUBSET KeyIds, staged : SUBSET KeyIds,
   material : [KeyIds -> Materials]]

(* parseSlotManifest: a slot is staged or readable. *)
SlotManifest(m) == m \in Keyring /\ m.readable \cap m.staged = {}

(* assertRuntimeCryptographicConfiguration, which preflight and maintenance
   run, and resolveVersionedKeyring refuse two ids with one material. *)
DistinctMaterials(m) ==
  \A j \in m.readable \cup m.staged : \A k \in m.readable \cup m.staged :
    m.material[j] = m.material[k] => j = k

(* What resolveVersionedKeyring lets through. *)
WellFormed(m) == SlotManifest(m) /\ m.active \in m.readable /\ DistinctMaterials(m)

ASSUME KeyAssumption ==
  /\ \A m \in Manifests : WellFormed(m) /\ m.gen > 0
  /\ WellFormed(Compat) /\ Compat.gen = 0 /\ Compat.staged = {}
  /\ \A k \in Compat.readable : Compat.material[k] = Recovery[k]
  /\ NoMaterial \notin Materials /\ NoKey \notin KeyIds /\ Raw \notin KeyIds

VARIABLES
  ring,      \* the row of cryptographic_keyring_states, Compat without one
  canary,    \* cryptographic_key_canaries: the material each was made with
  events,    \* cryptographic_key_lifecycle_events
  fresh,     \* the baseline is unconsumed and no business row was ever written
  refs,      \* the rows that need a key: the key and the material they need
  handlers,  \* the requests in progress
  nonce,     \* agent_request_nonces: where one signed agent call is claimed
  served,    \* how often that call was served
  counted,   \* rows unchanged since the references were counted for `ring'
  untrue     \* a command was reported as done whose event is not in the log

keyVars == <<ring, canary, events, fresh, refs, handlers, nonce, served, counted, untrue>>

NoRef == [key |-> NoKey, mat |-> NoMaterial]
AtRest == [pc |-> "idle", op |-> "none", cmd |-> NoCommand, key |-> NoKey, m |-> Compat,
           used |-> {}, seen |-> {}]

Goes(h, next) == handlers' = [handlers EXCEPT ![h] = next]
Ends(h) == Goes(h, AtRest)
Becomes(h, pc) == Goes(h, [handlers[h] EXCEPT !.pc = pc])

---------------------------------------------------------------------------
(* Preflight. *)

(* resolveConfigurationState. *)
ConfigurationState(m) ==
  CASE m = Compat -> IF ring = Compat THEN "legacy" ELSE "rollback"
    [] m # Compat /\ ring = Compat -> "unapplied"
    [] m # Compat /\ ring # Compat /\ m.gen < ring.gen -> "rollback"
    [] m # Compat /\ ring # Compat /\ m.gen > ring.gen -> "forward"
    [] OTHER -> IF m = ring THEN "current" ELSE "conflict"

(* A canary made with the material of the key; only that material checks it. *)
CanaryOf(m, k) == m.material[k]

InspectCanary(m, k) ==
  IF canary[k] = NoMaterial THEN "missing" ELSE IF canary[k] = CanaryOf(m, k) THEN "valid" ELSE "invalid"

(* Mutant: the references are left to the operator. *)
ReadyForApplyUncounted(m, used) ==
  /\ ConfigurationState(m) \notin {"rollback", "conflict"}
  /\ \A k \in m.readable : InspectCanary(m, k) = "valid"

(* Every key that is referenced is configured and readable, and every readable
   key has its canary. *)
ReadyForApply(m, used) ==
  /\ ConfigurationState(m) \notin {"rollback", "conflict"}
  /\ used \subseteq m.readable
  /\ \A k \in m.readable : InspectCanary(m, k) = "valid"

---------------------------------------------------------------------------
(* The lifecycle commands. *)

Taken(cmd) == \E e \in events : e.cmd = cmd
Registered(k) == \E e \in events : e.op \in {"register", "baseline"} /\ e.key = k

(* The generation of a request; without a manifest it is the first. *)
Generation(m) == IF m = Compat THEN 1 ELSE m.gen

(* The event a command leaves.  Baselines bind the key to its material, which
   is the one of the recovery system, and not to a manifest. *)
EventOf(c) == [cmd |-> c.cmd, op |-> c.op, key |-> c.key, gen |-> Generation(c.m),
               m |-> IF c.op = "baseline" THEN Compat ELSE c.m]

(* A database the migrations have just made, or one on which the first key was
   baselined, a first manifest applied and some of its staged keys registered,
   all by commands of the past. *)
FreshDatabase ==
  /\ ring = Compat
  /\ canary = [k \in KeyIds |-> NoMaterial]
  /\ events = {} /\ fresh = TRUE

EstablishedDatabase(m, registered) ==
  LET Past(op, k) == EventOf([cmd |-> <<op, k>>, op |-> op, key |-> k, m |-> m]) IN
  /\ m.gen = 1 /\ m.readable = {m.active} /\ m.material[m.active] = Recovery[m.active]
  /\ ring = m
  /\ canary = [k \in KeyIds |-> IF k \in registered \cup {m.active} THEN CanaryOf(m, k) ELSE NoMaterial]
  /\ events = {Past("baseline", m.active), Past("apply", m.active)}
                \cup {Past("register", k) : k \in registered}
  /\ fresh = FALSE

KeyInit ==
  /\ \/ FreshDatabase
     \/ \E m \in Manifests : \E registered \in SUBSET m.staged : EstablishedDatabase(m, registered)
  /\ refs = [r \in Rows |-> NoRef]
  /\ handlers = [h \in Handlers |-> AtRest]
  /\ nonce = {} /\ served = 0
  /\ counted = {} /\ untrue = FALSE

Asked(cmd, op, m, k) == [AtRest EXCEPT !.pc = "inspect", !.op = op, !.cmd = cmd, !.m = m, !.key = k]

Requests(cmd) ==
  {Asked(cmd, "apply", m, m.active) : m \in Manifests}
    \cup (UNION {{Asked(cmd, "register", m, k) : k \in m.staged} : m \in Manifests})
    \cup (UNION {{Asked(cmd, "baseline", m, k) : k \in m.readable} : m \in Manifests \cup {Compat}})

(* Mutant: any event of the command will do. *)
MatchesAny(e, c, replay) == TRUE

(* assertMatchingEvent.  A replay is matched before the manifest is known: by
   its generation, and an apply not even by its key. *)
Matches(e, c, replay) ==
  /\ e.op = c.op /\ e.gen = Generation(c.m)
  /\ (replay /\ c.op = "apply") \/ e.key = c.key
  /\ replay \/ e.m = EventOf(c).m

(* lifecycleResult, with the key of the event. *)
Reported(log, key, c) ==
  untrue' = (untrue \/ ~\E e \in log : e.cmd = c.cmd /\ e.op = c.op /\ e.key = key /\ e.gen = Generation(c.m))

(* The command is known: its outcome is reported again, or it was another. *)
Replayed(c, replay) ==
  LET e == CHOOSE e \in events : e.cmd = c.cmd IN
  IF Matches(e, c, replay) THEN Reported(events, e.key, c) ELSE UNCHANGED untrue

(* The log is asked for the command, and the preflight counts the references.
   Between the two only an event of the same command could matter, and that is
   asked for again by the batch. *)
BeginCommand(h, c) ==
  LET holding == {r \in Rows : refs[r] # NoRef} IN
  /\ handlers[h].pc = "idle"
  /\ \/ Taken(c.cmd) /\ Replayed(c, TRUE) /\ UNCHANGED handlers
     \/ /\ ~Taken(c.cmd)
        /\ Goes(h, [c EXCEPT !.used = {refs[r].key : r \in holding}, !.seen = holding])
        /\ UNCHANGED untrue
  /\ UNCHANGED <<ring, canary, events, fresh, refs, nonce, served, counted>>

(* What each command asks of the preflight. *)
Admitted(c) ==
  LET state == ConfigurationState(c.m) IN
  CASE c.op = "apply" -> ReadyForApply(c.m, c.used)
    [] c.op = "register" -> state = "current" /\ c.key \notin c.used
                              /\ InspectCanary(c.m, c.key) = "missing"
    [] OTHER -> /\ fresh /\ state \in {"legacy", "unapplied"} /\ c.used = {}
                /\ \A k \in c.m.readable \cup c.m.staged : InspectCanary(c.m, k) # "invalid"
                /\ InspectCanary(c.m, c.key) = "missing"
                /\ c.m.material[c.key] = Recovery[c.key]

(* The rest of the preflight: the applied manifest and the canaries. *)
InspectDomain(h) ==
  /\ handlers[h].pc = "inspect"
  /\ IF Admitted(handlers[h]) THEN Becomes(h, "commit") ELSE Ends(h)
  /\ UNCHANGED <<ring, canary, events, fresh, refs, nonce, served, counted, untrue>>

(* Mutant: the manifest is put in whoever holds the command id. *)
UpsertUnbound(c) == ring = Compat \/ ring.gen < c.m.gen

(* The first statement of an apply. *)
Upsert(c) == ~Taken(c.cmd) /\ (ring = Compat \/ ring.gen < c.m.gen)

(* The conditions all statements of a registration or a baseline repeat. *)
Enters(c) ==
  /\ ~Taken(c.cmd) /\ c.op # "apply"
  /\ IF c.op = "register"
     THEN ring = c.m /\ canary[c.key] = NoMaterial /\ ~Registered(c.key)
     ELSE /\ fresh /\ ring = Compat /\ events = {}
          /\ \A k \in KeyIds : canary[k] = NoMaterial
          /\ \A r \in Rows : refs[r] = NoRef

(* The batch.  An apply that finds its own manifest in place still leaves an
   event; whatever did not change is asked for again under the command id. *)
Batch(h) ==
  LET c == handlers[h] IN
  /\ ring' = IF c.op = "apply" /\ Upsert(c) THEN c.m ELSE ring
  /\ counted' = IF ring' # ring THEN c.seen ELSE counted
  /\ canary' = IF Enters(c) THEN [canary EXCEPT ![c.key] = CanaryOf(c.m, c.key)] ELSE canary
  /\ events' = IF Enters(c) \/ (c.op = "apply" /\ ring' = c.m /\ ~Taken(c.cmd))
               THEN events \cup {EventOf(c)} ELSE events
  /\ fresh' = (fresh /\ ~(c.op = "baseline" /\ Enters(c)))
  /\ UNCHANGED <<refs, nonce, served>>

CommitCommand(h) ==
  LET c == handlers[h] IN
  /\ c.pc = "commit"
  /\ Batch(h)
  /\ IF Enters(c) \/ (c.op = "apply" /\ Upsert(c))
     THEN Reported(events', c.key, c) /\ Ends(h)
     ELSE UNCHANGED untrue /\ Becomes(h, "reread")

(* The batch throws, whether or not it was committed. *)
CommitThrows(h) ==
  /\ handlers[h].pc = "commit"
  /\ Batch(h) \/ UNCHANGED <<ring, canary, events, fresh, refs, nonce, served, counted>>
  /\ Becomes(h, "reread")
  /\ UNCHANGED untrue

Reread(h) ==
  LET c == handlers[h] IN
  /\ c.pc = "reread"
  /\ IF Taken(c.cmd) THEN Replayed(c, FALSE) ELSE UNCHANGED untrue
  /\ Ends(h)
  /\ UNCHANGED <<ring, canary, events, fresh, refs, nonce, served, counted>>

---------------------------------------------------------------------------
(* The data plane. *)

(* Mutant: a deployment is only asked whether it has a manifest at all. *)
EnforcedAnyGeneration(m) == (m = Compat) = (ring = Compat)

(* assertPersistedKeyringManifestState. *)
Enforced(m) == m = ring

Ref(m) == [key |-> m.active, mat |-> m.material[m.active]]

(* Rows are written, by the last step of the handlers hs: nobody has counted
   them as they are now. *)
Rewritten(hs, rs, ref) ==
  /\ refs' = [r \in Rows |-> IF r \in rs THEN ref ELSE refs[r]]
  /\ counted' = counted \ rs
  /\ handlers' = [g \in Handlers |-> IF g \in hs THEN AtRest
                                     ELSE [handlers[g] EXCEPT !.seen = @ \ rs]]

(* A credential is submitted or replaced: the keyring is resolved ... *)
BeginWrite(h, m) ==
  /\ handlers[h].pc = "idle" /\ Enforced(m)
  /\ Goes(h, [AtRest EXCEPT !.pc = "write", !.m = m])
  /\ UNCHANGED <<ring, canary, events, fresh, refs, nonce, served, counted, untrue>>

(* ... and the row is written under its active key, or the request fails. *)
EndWrite(h) ==
  /\ handlers[h].pc = "write"
  /\ \/ \E r \in Rows : Rewritten({h}, {r}, Ref(handlers[h].m)) /\ fresh' = FALSE
     \/ Ends(h) /\ UNCHANGED <<refs, counted, fresh>>
  /\ UNCHANGED <<ring, canary, events, nonce, served, untrue>>

(* A revocation, a withdrawal or the end of an authorization. *)
EraseRow(r) ==
  /\ refs[r] # NoRef
  /\ Rewritten({}, {r}, NoRef)
  /\ UNCHANGED <<ring, canary, events, fresh, nonce, served, untrue>>

(* The rows a deployment can find or decrypt. *)
Found(m) == {r \in Rows : refs[r].key \in m.readable /\ refs[r].mat = m.material[refs[r].key]}

(* authenticateAgentRequest: the digests under every readable key ... *)
BeginAuth(h, m) ==
  /\ handlers[h].pc = "idle" /\ Enforced(m)
  /\ Goes(h, [AtRest EXCEPT !.pc = "lookup", !.m = m])
  /\ UNCHANGED <<ring, canary, events, fresh, refs, nonce, served, counted, untrue>>

(* ... an authorization found by them, unless it is not in force or the call
   is refused ... *)
LookUp(h) ==
  /\ handlers[h].pc = "lookup"
  /\ \/ Found(handlers[h].m) # {} /\ Becomes(h, "claim")
     \/ Ends(h)
  /\ UNCHANGED <<ring, canary, events, fresh, refs, nonce, served, counted, untrue>>

(* Mutant: the nonce is claimed under the active key alone. *)
NamespacesActive(m) == {m.active}

Namespaces(m) == {Raw} \cup m.readable

(* ... the nonce, claimed in all namespaces or refused ... *)
ClaimAgentNonce(h) ==
  LET ns == Namespaces(handlers[h].m) IN
  /\ handlers[h].pc = "claim"
  /\ IF nonce \cap ns = {}
     THEN /\ nonce' = nonce \cup ns
          /\ served' = served + 1
          /\ Becomes(h, "migrate")
     ELSE Ends(h) /\ UNCHANGED <<nonce, served>>
  /\ UNCHANGED <<ring, canary, events, fresh, refs, counted, untrue>>

(* migrateAgentLookupNamespacesSql: every row in a readable namespace that is
   not in the active one. *)
Outdated(m) == {r \in Found(m) : refs[r] # Ref(m)}

(* ... and every row in a readable namespace moved to the active one.  The
   rows of the answer are compared with what was read, which only refuses the
   call; a call that fails before leaves the rows. *)
MigrateNamespaces(h) ==
  LET m == handlers[h].m IN
  /\ handlers[h].pc = "migrate"
  /\ \/ Rewritten({h}, Outdated(m), Ref(m))
     \/ Ends(h) /\ UNCHANGED <<refs, counted>>
  /\ UNCHANGED <<ring, canary, events, fresh, nonce, served, untrue>>

(* Maintenance runs under the applied manifest, with every canary and every
   reference in order; it reads the rows under other keys ... *)
BeginRewrap(h, m) ==
  /\ handlers[h].pc = "idle" /\ Enforced(m)
  /\ \A k \in m.readable : InspectCanary(m, k) = "valid"
  /\ \A r \in Rows : refs[r] # NoRef => refs[r].key \in m.readable
  /\ \E r \in Outdated(m) :
       Goes(h, [AtRest EXCEPT !.pc = "rewrap", !.m = m, !.key = refs[r].key])
  /\ UNCHANGED <<ring, canary, events, fresh, refs, nonce, served, counted, untrue>>

(* ... and replaces those that have not changed.  Each encryption resolves the
   keyring again, so the manifest is still applied after the read. *)
EndRewrap(h) ==
  LET c == handlers[h] IN
  /\ c.pc = "rewrap"
  /\ \/ \E r \in Rows : refs[r].key = c.key /\ Rewritten({h}, {r}, Ref(c.m))
     \/ Ends(h) /\ UNCHANGED <<refs, counted>>
  /\ UNCHANGED <<ring, canary, events, fresh, nonce, served, untrue>>

KeyNext ==
  \/ \E h \in Handlers :
       \/ \E cmd \in Commands : \E c \in Requests(cmd) : BeginCommand(h, c)
       \/ InspectDomain(h) \/ CommitCommand(h) \/ CommitThrows(h) \/ Reread(h)
       \/ \E m \in Manifests \cup {Compat} : BeginWrite(h, m) \/ BeginAuth(h, m) \/ BeginRewrap(h, m)
       \/ EndWrite(h) \/ LookUp(h) \/ ClaimAgentNonce(h) \/ MigrateNamespaces(h) \/ EndRewrap(h)
  \/ \E r \in Rows : EraseRow(r)

KeySpec == KeyInit /\ [][KeyNext]_keyVars

---------------------------------------------------------------------------
(* Properties. *)

(* The tables and the handlers have their types: what is applied is a manifest that was
   deployed, what is stored under a key names a configured key, and a handler holds the
   keyring of some deployment. *)
KeyTypeOK ==
  /\ ring \in Manifests \cup {Compat}
  /\ canary \in [KeyIds -> Materials \cup {NoMaterial}]
  /\ \A e \in events : /\ e.op \in {"apply", "register", "baseline"} /\ e.key \in KeyIds
                       /\ e.m \in Manifests \cup {Compat} /\ e.gen \in Nat \ {0}
  /\ refs \in [Rows -> [key : KeyIds, mat : Materials] \cup {NoRef}]
  /\ \A h \in Handlers :
       /\ handlers[h].pc \in {"idle", "inspect", "commit", "reread", "write", "lookup", "claim",
                              "migrate", "rewrap"}
       /\ handlers[h].m \in Manifests \cup {Compat}
       /\ handlers[h].key \in KeyIds \cup {NoKey} /\ handlers[h].used \subseteq KeyIds
       /\ handlers[h].seen \subseteq Rows
  /\ nonce \subseteq KeyIds \cup {Raw} /\ served \in Nat /\ counted \subseteq Rows
  /\ fresh \in BOOLEAN /\ untrue \in BOOLEAN

(* A key id means one material for as long as rows are stored under it: the
   applied manifest can decrypt and find whatever was stored under its keys,
   although deployments with other material under the same ids came and
   went. *)
OneMaterialPerKey ==
  \A r \in Rows : refs[r].key \in ring.readable => refs[r].mat = ring.material[refs[r].key]

(* No manifest makes a row unreadable that was there when its preflight
   counted the references. *)
CountedRowsStayReadable == \A r \in counted : refs[r].key \in ring.readable

(* The database and its log agree: the applied manifest and every canary have
   the event of the command that put them there, and a generation was applied
   with one manifest only. *)
EffectsHaveEvents ==
  /\ ring # Compat => \E e \in events : e.op = "apply" /\ e.m = ring
  /\ \A k \in KeyIds : (canary[k] # NoMaterial) <=> Registered(k)
  /\ \A d, e \in events : /\ d.cmd = e.cmd => d = e
                          /\ d.op = "apply" /\ e.op = "apply" /\ d.gen = e.gen => d.m = e.m
                          /\ d.op = "apply" => d.gen <= ring.gen

(* Whoever was told that a command is done finds its event in the log, also
   after a race for the command id, a lost reply and any number of replays. *)
ReportsAreRecorded == ~untrue

(* A signed agent call is served once in its five minutes, whatever happens
   to the keyring in the meantime. *)
AgentCallOnce == served <= 1
=============================================================================
