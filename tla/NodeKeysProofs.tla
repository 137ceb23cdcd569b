----------------------------- MODULE NodeKeysProofs -----------------------------
(***************************************************************************)
(* The keyrings of the control plane, for any number of keys, manifests,   *)
(* commands, rows and handlers; then the supplier node, for any number of  *)
(* nonces, requests, starts and crashes.                                   *)
(*                                                                         *)
(* What the applied manifest can read rests on the canaries: one that was  *)
(* made is never made again (CanaryKept), an apply only passes a preflight *)
(* when every readable key has the canary of its material, and a handler   *)
(* holds a keyring whose canaries were valid when it resolved it           *)
(* (Trusted).                                                              *)
(***************************************************************************)
EXTENDS SupplierNode, KeyLifecycle, FiniteSetTheorems, TLAPS

Deployed == Manifests \cup {Compat}
CommandOps == {"apply", "register", "baseline"}
CommandPcs == {"inspect", "commit", "reread"}
DataPcs == {"write", "lookup", "claim", "migrate", "rewrap"}

LEMMA ManifestFacts ==
  ASSUME NEW m \in Deployed
  PROVE  /\ m.gen \in Nat /\ m.active \in m.readable /\ m.readable \subseteq KeyIds
         /\ m.staged \subseteq KeyIds /\ m.active \in KeyIds
         /\ m.material \in [KeyIds -> Materials]
         /\ m \in Manifests => m.gen > 0 /\ m # Compat
         /\ m = Compat => m.gen = 0 /\ m.staged = {}
         /\ Generation(m) \in Nat \ {0}
         /\ m \in Manifests => Generation(m) = m.gen
BY KeyAssumption DEF Deployed, WellFormed, SlotManifest, Keyring, Generation

---------------------------------------------------------------------------
(* The inductive invariant. *)

HandlerRow ==
  [pc : {"idle"} \cup CommandPcs \cup DataPcs, op : {"none"} \cup CommandOps,
   cmd : Commands \cup {NoCommand}, key : KeyIds \cup {NoKey}, m : Deployed,
   used : SUBSET KeyIds, seen : SUBSET Rows]

(* What a command asks for is something its manifest has. *)
CommandOK(c) ==
  c.pc \in CommandPcs =>
    /\ c.op \in CommandOps /\ c.key \in KeyIds
    /\ c.op # "baseline" => c.m \in Manifests
    /\ c.op = "register" => c.key \in c.m.staged

HandlersOK ==
  /\ handlers \in [Handlers -> HandlerRow]
  /\ \A h \in Handlers : CommandOK(handlers[h])

RowsOK == refs \in [Rows -> [key : KeyIds, mat : Materials] \cup {NoRef}]

TablesOK ==
  /\ ring \in Deployed
  /\ canary \in [KeyIds -> Materials \cup {NoMaterial}]
  /\ RowsOK
  /\ nonce \subseteq KeyIds \cup {Raw} /\ served \in Nat /\ counted \subseteq Rows
  /\ fresh \in BOOLEAN /\ untrue \in BOOLEAN

EventOK(e) ==
  /\ e.op \in CommandOps /\ e.key \in KeyIds /\ e.m \in Deployed /\ e.gen \in Nat \ {0}
  /\ e.op = "apply" => e.m \in Manifests /\ e.gen = e.m.gen

LogOK == \A e \in events : EventOK(e)

KInv == TablesOK /\ HandlersOK /\ LogOK

LEMMA KInvTypes == KInv => KeyTypeOK
<1> SUFFICES ASSUME KInv PROVE KeyTypeOK
  OBVIOUS
<1>1. ASSUME NEW h \in Handlers
      PROVE  /\ handlers[h].pc \in {"idle", "inspect", "commit", "reread", "write", "lookup",
                                    "claim", "migrate", "rewrap"}
             /\ handlers[h].m \in Manifests \cup {Compat}
             /\ handlers[h].key \in KeyIds \cup {NoKey} /\ handlers[h].used \subseteq KeyIds
             /\ handlers[h].seen \subseteq Rows
  BY DEF KInv, HandlersOK, HandlerRow, CommandPcs, DataPcs, Deployed
<1>2. QED
  BY <1>1 DEF KInv, TablesOK, RowsOK, LogOK, EventOK, KeyTypeOK, CommandOps, Deployed

LEMMA RestIsARow == AtRest \in HandlerRow /\ AtRest.pc = "idle" /\ AtRest.seen = {}
BY DEF AtRest, HandlerRow, Deployed

LEMMA InitKInv == KeyInit => KInv
<1> SUFFICES ASSUME KeyInit PROVE KInv
  OBVIOUS
<1>1. HandlersOK
  BY RestIsARow DEF KeyInit, HandlersOK, CommandOK, CommandPcs
<1>2. RowsOK
  BY DEF KeyInit, RowsOK
<1>3. CASE FreshDatabase
  BY <1>1, <1>2, <1>3 DEF KeyInit, FreshDatabase, KInv, TablesOK, LogOK, Deployed
<1>4. ASSUME NEW m \in Manifests, NEW S \in SUBSET m.staged, EstablishedDatabase(m, S) PROVE KInv
  <2>0. m \in Deployed
    BY DEF Deployed
  <2>1. \A k \in KeyIds : CanaryOf(m, k) \in Materials
    BY <2>0, ManifestFacts DEF CanaryOf
  <2>2. TablesOK
    BY <1>2, <1>4, <2>0, <2>1 DEF KeyInit, EstablishedDatabase, TablesOK
  <2>3. ASSUME NEW k \in KeyIds, NEW op \in CommandOps
        PROVE  EventOK(EventOf([cmd |-> <<op, k>>, op |-> op, key |-> k, m |-> m]))
    BY <2>0, ManifestFacts DEF EventOK, EventOf, CommandOps, Deployed
  <2>4. m.active \in KeyIds /\ m.staged \subseteq KeyIds
    BY <2>0, ManifestFacts
  <2>5. LogOK
    BY <1>4, <2>3, <2>4 DEF EstablishedDatabase, LogOK, CommandOps
  <2>6. QED
    BY <1>1, <2>2, <2>5 DEF KInv
<1>5. QED
  BY <1>3, <1>4 DEF KeyInit

---------------------------------------------------------------------------
(* What a step does to the handlers and the tables. *)

(* A request begins: what it asks for. *)
LEMMA AskedIsARow ==
  ASSUME NEW cmd \in Commands, NEW op \in CommandOps, NEW m \in Deployed, NEW k \in KeyIds,
         op # "baseline" => m \in Manifests, op = "register" => k \in m.staged
  PROVE  LET d == Asked(cmd, op, m, k)
         IN  d \in HandlerRow /\ d.pc = "inspect" /\ CommandOK(d) /\ d.seen = {} /\ d.op = op
<1>1. LET d == Asked(cmd, op, m, k)
      IN  /\ d \in HandlerRow /\ d.pc = "inspect" /\ d.op = op /\ d.m = m /\ d.key = k
          /\ d.seen = {}
  BY DEF Asked, AtRest, HandlerRow, CommandPcs
<1>2. QED
  BY <1>1 DEF CommandOK

LEMMA RequestRows ==
  ASSUME NEW cmd \in Commands, NEW c \in Requests(cmd)
  PROVE  c \in HandlerRow /\ c.pc = "inspect" /\ CommandOK(c) /\ c.seen = {} /\ c.op \in CommandOps
<1>1. \/ \E m \in Manifests : c = Asked(cmd, "apply", m, m.active)
      \/ \E m \in Manifests : \E k \in m.staged : c = Asked(cmd, "register", m, k)
      \/ \E m \in Deployed : \E k \in m.readable : c = Asked(cmd, "baseline", m, k)
  <2> DEFINE Of(op, m, S) == {Asked(cmd, op, m, k) : k \in S}
  <2>1. \/ c \in {Asked(cmd, "apply", m, m.active) : m \in Manifests}
        \/ c \in UNION {Of("register", m, m.staged) : m \in Manifests}
        \/ c \in UNION {Of("baseline", m, m.readable) : m \in Deployed}
    BY Zenon DEF Requests, Deployed
  <2>2. ASSUME NEW m, NEW op, NEW S, c \in Of(op, m, S) PROVE \E k \in S : c = Asked(cmd, op, m, k)
    BY <2>2
  <2> HIDE DEF Of
  <2>3. QED
    BY <2>1, <2>2
<1>2. CASE \E m \in Manifests : c = Asked(cmd, "apply", m, m.active)
  <2>1. PICK m \in Manifests : c = Asked(cmd, "apply", m, m.active)
    BY <1>2
  <2>2. m \in Deployed /\ m.active \in KeyIds
    BY ManifestFacts DEF Deployed
  <2>3. QED
    BY <2>1, <2>2, AskedIsARow DEF CommandOps
<1>3. CASE \E m \in Manifests : \E k \in m.staged : c = Asked(cmd, "register", m, k)
  <2>0. PICK m \in Manifests : \E k \in m.staged : c = Asked(cmd, "register", m, k)
    BY <1>3
  <2>1. PICK k \in m.staged : c = Asked(cmd, "register", m, k)
    BY <2>0
  <2>2. m \in Deployed /\ k \in KeyIds
    BY ManifestFacts DEF Deployed
  <2>3. QED
    BY <2>1, <2>2, AskedIsARow DEF CommandOps
<1>4. CASE \E m \in Deployed : \E k \in m.readable : c = Asked(cmd, "baseline", m, k)
  <2>0. PICK m \in Deployed : \E k \in m.readable : c = Asked(cmd, "baseline", m, k)
    BY <1>4
  <2>1. PICK k \in m.readable : c = Asked(cmd, "baseline", m, k)
    BY <2>0
  <2>2. k \in KeyIds
    BY ManifestFacts
  <2>3. QED
    BY <2>1, <2>2, AskedIsARow DEF CommandOps
<1>5. QED
  BY <1>1, <1>2, <1>3, <1>4

LEMMA GoesOK ==
  ASSUME HandlersOK, NEW h \in Handlers, NEW row \in HandlerRow, CommandOK(row), Goes(h, row)
  PROVE  HandlersOK' /\ handlers'[h] = row /\ \A g \in Handlers : g # h => handlers'[g] = handlers[g]
<1>1. /\ handlers' \in [Handlers -> HandlerRow] /\ handlers'[h] = row
      /\ \A g \in Handlers : g # h => handlers'[g] = handlers[g]
  BY DEF HandlersOK, Goes
<1>2. \A g \in Handlers : CommandOK(handlers'[g])
  BY <1>1 DEF HandlersOK
<1>3. QED
  BY <1>1, <1>2 DEF HandlersOK, CommandOK

LEMMA EndsOK ==
  ASSUME HandlersOK, NEW h \in Handlers, Ends(h)
  PROVE  HandlersOK' /\ handlers'[h] = AtRest /\ \A g \in Handlers : g # h => handlers'[g] = handlers[g]
<1>1. CommandOK(AtRest)
  BY RestIsARow DEF CommandOK, CommandPcs
<1>2. QED
  BY <1>1, RestIsARow, GoesOK DEF Ends

(* The row of a handler that goes on. *)
LEMMA RowBecomes ==
  ASSUME NEW c \in HandlerRow, NEW pc \in CommandPcs \cup DataPcs
  PROVE  LET d == [c EXCEPT !.pc = pc]
         IN  /\ d \in HandlerRow /\ d.pc = pc /\ d.op = c.op /\ d.cmd = c.cmd /\ d.key = c.key
             /\ d.m = c.m /\ d.used = c.used /\ d.seen = c.seen
BY DEF HandlerRow

LEMMA BecomesOK ==
  ASSUME HandlersOK, NEW h \in Handlers, NEW pc \in CommandPcs \cup DataPcs, Becomes(h, pc),
         pc \in CommandPcs => handlers[h].pc \in CommandPcs
  PROVE  /\ HandlersOK'
         /\ LET c == handlers[h] d == handlers'[h]
            IN  /\ d.pc = pc /\ d.op = c.op /\ d.cmd = c.cmd /\ d.key = c.key
                /\ d.m = c.m /\ d.used = c.used /\ d.seen = c.seen
         /\ \A g \in Handlers : g # h => handlers'[g] = handlers[g]
<1> DEFINE row == [handlers[h] EXCEPT !.pc = pc]
<1>1. handlers[h] \in HandlerRow /\ CommandOK(handlers[h])
  BY DEF HandlersOK
<1>2. LET c == handlers[h]
      IN  /\ row \in HandlerRow /\ row.pc = pc /\ row.op = c.op /\ row.cmd = c.cmd /\ row.key = c.key
          /\ row.m = c.m /\ row.used = c.used /\ row.seen = c.seen
  BY <1>1, RowBecomes
<1>3. Goes(h, row)
  BY DEF Becomes
<1> HIDE DEF row
<1>4. CommandOK(row)
  BY <1>1, <1>2 DEF CommandOK
<1>5. QED
  BY <1>2, <1>3, <1>4, GoesOK

(* A handler that only forgets rows it had seen. *)
Forgets(c, rs) == [c EXCEPT !.seen = @ \ rs]

LEMMA RowForgets ==
  ASSUME NEW c \in HandlerRow, NEW rs
  PROVE  LET d == Forgets(c, rs)
         IN  /\ d \in HandlerRow /\ d.pc = c.pc /\ d.op = c.op /\ d.cmd = c.cmd /\ d.key = c.key
             /\ d.m = c.m /\ d.used = c.used /\ d.seen = c.seen \ rs
BY DEF HandlerRow, Forgets

LEMMA RewrittenOK ==
  ASSUME HandlersOK, RowsOK, counted \subseteq Rows, NEW hs, NEW rs,
         NEW ref \in [key : KeyIds, mat : Materials] \cup {NoRef}, Rewritten(hs, rs, ref)
  PROVE  /\ HandlersOK' /\ RowsOK' /\ counted' \subseteq Rows
         /\ \A g \in Handlers : handlers'[g] = IF g \in hs THEN AtRest ELSE Forgets(handlers[g], rs)
<1>1. \A g \in Handlers : handlers'[g] = IF g \in hs THEN AtRest ELSE Forgets(handlers[g], rs)
  BY DEF Rewritten, Forgets
<1>2. ASSUME NEW g \in Handlers PROVE handlers'[g] \in HandlerRow /\ CommandOK(handlers'[g])
  <2>1. handlers[g] \in HandlerRow /\ CommandOK(handlers[g])
    BY DEF HandlersOK
  <2>2. CASE g \in hs
    BY <1>1, <2>2, RestIsARow DEF CommandOK, CommandPcs
  <2>3. CASE g \notin hs
    <3>1. handlers'[g] = Forgets(handlers[g], rs)
      BY <1>1, <2>3
    <3>2. QED
      BY <2>1, <3>1, RowForgets DEF CommandOK
  <2>4. QED
    BY <2>2, <2>3
<1>3. HandlersOK'
  <2>1. handlers' = [g \in Handlers |-> handlers'[g]]
    BY DEF Rewritten
  <2>2. QED
    BY <1>2, <2>1 DEF HandlersOK, CommandOK
<1>4. RowsOK' /\ counted' \subseteq Rows
  BY DEF Rewritten, RowsOK
<1>5. QED
  BY <1>1, <1>3, <1>4

---------------------------------------------------------------------------
(* Every step keeps the inductive invariant. *)

LEMMA CommandFacts ==
  ASSUME KInv, NEW h \in Handlers, handlers[h].pc \in CommandPcs
  PROVE  LET c == handlers[h]
         IN  /\ c \in HandlerRow /\ c.op \in CommandOps /\ c.key \in KeyIds /\ c.m \in Deployed
             /\ c.op # "baseline" => c.m \in Manifests
             /\ c.op = "register" => c.key \in c.m.staged
             /\ c.used \subseteq KeyIds /\ c.seen \subseteq Rows
             /\ c.m.gen \in Nat /\ c.m.material \in [KeyIds -> Materials]
             /\ CanaryOf(c.m, c.key) \in Materials
<1> DEFINE c == handlers[h]
<1>1. c \in HandlerRow /\ CommandOK(c) /\ c.pc \in CommandPcs
  BY DEF KInv, HandlersOK
<1>2. c.m \in Deployed /\ c.used \subseteq KeyIds /\ c.seen \subseteq Rows
  BY <1>1 DEF HandlerRow
<1>3. QED
  BY <1>1, <1>2, ManifestFacts DEF CommandOK, CanaryOf

LEMMA EventFacts ==
  ASSUME NEW c, c.op \in CommandOps, c.key \in KeyIds, c.m \in Deployed,
         c.op # "baseline" => c.m \in Manifests
  PROVE  LET e == EventOf(c)
         IN  /\ EventOK(e) /\ e.cmd = c.cmd /\ e.op = c.op /\ e.key = c.key
             /\ e.gen = Generation(c.m)
             /\ c.op = "apply" => e.m = c.m /\ e.gen = c.m.gen
BY ManifestFacts DEF EventOf, EventOK, CommandOps, Deployed

LEMMA BatchKInv ==
  ASSUME KInv, NEW h \in Handlers, handlers[h].pc = "commit", Batch(h)
  PROVE  /\ LogOK' /\ RowsOK' /\ ring' \in Deployed
         /\ canary' \in [KeyIds -> Materials \cup {NoMaterial}]
         /\ counted' \subseteq Rows /\ fresh' \in BOOLEAN
         /\ UNCHANGED <<refs, nonce, served>>
<1> DEFINE c == handlers[h]
<1>1. /\ c.op \in CommandOps /\ c.key \in KeyIds /\ c.m \in Deployed
      /\ c.op # "baseline" => c.m \in Manifests
      /\ c.seen \subseteq Rows /\ CanaryOf(c.m, c.key) \in Materials
  BY CommandFacts DEF CommandPcs
<1>2. EventOK(EventOf(c))
  BY <1>1, EventFacts
<1> HIDE DEF c
<1>3. events' = events \/ events' = events \cup {EventOf(c)}
  BY DEF Batch, c
<1>4. LogOK'
  BY <1>2, <1>3 DEF KInv, LogOK, EventOK
<1>5. /\ ring' = ring \/ ring' = c.m
      /\ canary' = canary \/ canary' = [canary EXCEPT ![c.key] = CanaryOf(c.m, c.key)]
      /\ counted' = counted \/ counted' = c.seen
      /\ fresh' \in BOOLEAN /\ UNCHANGED <<refs, nonce, served>>
  BY DEF Batch, c, KInv, TablesOK
<1>6. canary' \in [KeyIds -> Materials \cup {NoMaterial}]
  BY <1>1, <1>5 DEF KInv, TablesOK
<1>7. QED
  BY <1>1, <1>4, <1>5, <1>6 DEF KInv, TablesOK, RowsOK

LEMMA ReportedOK ==
  ASSUME untrue \in BOOLEAN, NEW log, NEW key, NEW c, Reported(log, key, c)
  PROVE  untrue' \in BOOLEAN
BY DEF Reported

LEMMA ReplayedOK ==
  ASSUME untrue \in BOOLEAN, NEW c, NEW replay, Replayed(c, replay)
  PROVE  untrue' \in BOOLEAN
<1> DEFINE e == CHOOSE x \in events : x.cmd = c.cmd
<1>1. Reported(events, e.key, c) \/ UNCHANGED untrue
  BY DEF Replayed
<1> HIDE DEF e
<1>2. QED
  BY <1>1, ReportedOK

(* The row a command has after the references were counted. *)
LEMMA CountedRow ==
  ASSUME KInv, NEW cmd \in Commands, NEW c \in Requests(cmd)
  PROVE  LET holding == {r \in Rows : refs[r] # NoRef}
             d == [c EXCEPT !.used = {refs[r].key : r \in holding}, !.seen = holding]
         IN  /\ d \in HandlerRow /\ CommandOK(d) /\ d.pc = "inspect" /\ d.m = c.m
             /\ d.used = {refs[r].key : r \in holding} /\ d.seen = holding
<1> DEFINE holding == {r \in Rows : refs[r] # NoRef}
           used == {refs[r].key : r \in holding}
<1>1. used \subseteq KeyIds /\ holding \subseteq Rows
  BY DEF KInv, TablesOK, RowsOK
<1>2. c \in HandlerRow /\ c.pc = "inspect" /\ CommandOK(c)
  BY RequestRows
<1> HIDE DEF used, holding
<1> DEFINE d == [c EXCEPT !.used = used, !.seen = holding]
<1>3. /\ d \in HandlerRow /\ d.pc = c.pc /\ d.op = c.op /\ d.key = c.key /\ d.m = c.m
      /\ d.used = used /\ d.seen = holding
  BY <1>1, <1>2 DEF HandlerRow
<1>4. CommandOK(d)
  BY <1>2, <1>3 DEF CommandOK
<1>5. QED
  BY <1>2, <1>3, <1>4 DEF used, holding

LEMMA CommandKInv ==
  ASSUME KInv, NEW h \in Handlers,
         \/ \E cmd \in Commands : \E c \in Requests(cmd) : BeginCommand(h, c)
         \/ InspectDomain(h) \/ CommitCommand(h) \/ CommitThrows(h) \/ Reread(h)
  PROVE  KInv'
<1>0. TablesOK /\ HandlersOK /\ LogOK
  BY DEF KInv
<1>1. ASSUME NEW cmd \in Commands, NEW c \in Requests(cmd), BeginCommand(h, c) PROVE KInv'
  <2> DEFINE holding == {r \in Rows : refs[r] # NoRef}
             d == [c EXCEPT !.used = {refs[r].key : r \in holding}, !.seen = holding]
  <2>1. \/ Replayed(c, TRUE) /\ UNCHANGED handlers
        \/ Goes(h, d) /\ UNCHANGED untrue
    BY <1>1 DEF BeginCommand
  <2>2. d \in HandlerRow /\ CommandOK(d)
    BY CountedRow
  <2> HIDE DEF d
  <2>3. HandlersOK'
    BY <1>0, <2>1, <2>2, GoesOK DEF HandlersOK, CommandOK
  <2>4. untrue' \in BOOLEAN
    BY <1>0, <2>1, ReplayedOK DEF TablesOK
  <2>5. QED
    BY <1>0, <1>1, <2>3, <2>4 DEF BeginCommand, KInv, TablesOK, RowsOK, LogOK, EventOK
<1>2. CASE InspectDomain(h)
  <2>1. HandlersOK'
    BY <1>0, <1>2, BecomesOK, EndsOK DEF InspectDomain, CommandPcs
  <2>2. QED
    BY <1>0, <1>2, <2>1 DEF InspectDomain, KInv, TablesOK, RowsOK, LogOK, EventOK
<1>3. CASE CommitCommand(h)
  <2>1. handlers[h].pc = "commit" /\ Batch(h)
    BY <1>3 DEF CommitCommand
  <2>2. HandlersOK'
    BY <1>0, <1>3, BecomesOK, EndsOK DEF CommitCommand, CommandPcs
  <2>3. untrue' \in BOOLEAN
    BY <1>0, <1>3, ReportedOK DEF CommitCommand, TablesOK
  <2>4. QED
    BY <1>0, <2>1, <2>2, <2>3, BatchKInv DEF KInv, TablesOK
<1>4. CASE CommitThrows(h)
  <2>1. handlers[h].pc = "commit" /\ UNCHANGED untrue
        /\ (Batch(h) \/ UNCHANGED <<ring, canary, events, fresh, refs, nonce, served, counted>>)
    BY <1>4 DEF CommitThrows
  <2>2. HandlersOK'
    BY <1>0, <1>4, BecomesOK DEF CommitThrows, CommandPcs
  <2>3. CASE Batch(h)
    BY <1>0, <2>1, <2>2, <2>3, BatchKInv DEF KInv, TablesOK
  <2>4. CASE UNCHANGED <<ring, canary, events, fresh, refs, nonce, served, counted>>
    BY <1>0, <2>1, <2>2, <2>4 DEF KInv, TablesOK, RowsOK, LogOK, EventOK
  <2>5. QED
    BY <2>1, <2>3, <2>4
<1>5. CASE Reread(h)
  <2>1. HandlersOK'
    BY <1>0, <1>5, EndsOK DEF Reread
  <2>2. untrue' \in BOOLEAN
    BY <1>0, <1>5, ReplayedOK DEF Reread, TablesOK
  <2>3. QED
    BY <1>0, <1>5, <2>1, <2>2 DEF Reread, KInv, TablesOK, RowsOK, LogOK, EventOK
<1>6. QED
  BY <1>1, <1>2, <1>3, <1>4, <1>5

LEMMA RefOK == ASSUME NEW m \in Deployed PROVE Ref(m) \in [key : KeyIds, mat : Materials]
BY ManifestFacts DEF Ref

(* The row of a request of the data plane. *)
DataRowOK(d, pc, m) ==
  d \in HandlerRow /\ CommandOK(d) /\ d.pc = pc /\ d.m = m /\ d.seen = {} /\ d.op = "none"

LEMMA DataRow ==
  ASSUME NEW m \in Deployed, NEW pc \in DataPcs
  PROVE  DataRowOK([AtRest EXCEPT !.pc = pc, !.m = m], pc, m)
BY DEF AtRest, HandlerRow, CommandOK, CommandPcs, DataPcs, DataRowOK

LEMMA RewrapRow ==
  ASSUME NEW m \in Deployed, NEW pc \in DataPcs, NEW k \in KeyIds
  PROVE  DataRowOK([AtRest EXCEPT !.pc = pc, !.m = m, !.key = k], pc, m)
BY DEF AtRest, HandlerRow, CommandOK, CommandPcs, DataPcs, DataRowOK

(* A request of the data plane resolves the keyring and begins. *)
Begins(h, pc, m) ==
  /\ handlers[h].pc = "idle" /\ Enforced(m)
  /\ \E d \in HandlerRow : Goes(h, d) /\ DataRowOK(d, pc, m)
  /\ UNCHANGED <<ring, canary, events, fresh, refs, nonce, served, counted, untrue>>

LEMMA DataBegins ==
  ASSUME KInv, NEW h \in Handlers, NEW m \in Deployed,
         BeginWrite(h, m) \/ BeginAuth(h, m) \/ BeginRewrap(h, m)
  PROVE  \E pc \in DataPcs :
           /\ Begins(h, pc, m)
           /\ pc = "rewrap" => \A k \in m.readable : InspectCanary(m, k) = "valid"
<1>1. CASE BeginWrite(h, m)
  <2> DEFINE d == [AtRest EXCEPT !.pc = "write", !.m = m]
  <2>1. DataRowOK(d, "write", m)
    BY DataRow DEF DataPcs
  <2>0. Goes(h, d)
    BY <1>1 DEF BeginWrite
  <2> HIDE DEF d
  <2>2. Begins(h, "write", m)
    BY <1>1, <2>0, <2>1 DEF BeginWrite, Begins, DataRowOK
  <2>3. QED
    BY <2>2 DEF DataPcs
<1>2. CASE BeginAuth(h, m)
  <2> DEFINE d == [AtRest EXCEPT !.pc = "lookup", !.m = m]
  <2>1. DataRowOK(d, "lookup", m)
    BY DataRow DEF DataPcs
  <2>0. Goes(h, d)
    BY <1>2 DEF BeginAuth
  <2> HIDE DEF d
  <2>2. Begins(h, "lookup", m)
    BY <1>2, <2>0, <2>1 DEF BeginAuth, Begins, DataRowOK
  <2>3. QED
    BY <2>2 DEF DataPcs
<1>3. CASE BeginRewrap(h, m)
  <2>1. PICK r \in Outdated(m) : Goes(h, [AtRest EXCEPT !.pc = "rewrap", !.m = m, !.key = refs[r].key])
    BY <1>3 DEF BeginRewrap
  <2>2. refs[r].key \in KeyIds
    BY <2>1, ManifestFacts DEF Outdated, Found
  <2> DEFINE d == [AtRest EXCEPT !.pc = "rewrap", !.m = m, !.key = refs[r].key]
  <2>3. DataRowOK(d, "rewrap", m)
    BY <2>2, RewrapRow DEF DataPcs
  <2>0. Goes(h, d)
    BY <2>1
  <2> HIDE DEF d
  <2>4. Begins(h, "rewrap", m)
    BY <1>3, <2>0, <2>3 DEF BeginRewrap, Begins, DataRowOK
  <2>5. QED
    BY <1>3, <2>4 DEF DataPcs, BeginRewrap
<1>4. QED
  BY <1>1, <1>2, <1>3

(* A step that writes, replaces or erases rows. *)
Writes ==
  \E hs \in SUBSET Handlers, rs \in SUBSET Rows :
    \/ hs = {} /\ Rewritten(hs, rs, NoRef)
    \/ \E h \in Handlers : hs = {h} /\ handlers[h].pc \in DataPcs /\ Rewritten(hs, rs, Ref(handlers[h].m))

(* The steps of the data plane that are under way. *)
Proceeds(h) ==
  \/ handlers[h].pc \in DataPcs /\ Ends(h) /\ UNCHANGED <<refs, counted, nonce, served>>
  \/ Writes /\ UNCHANGED <<nonce, served>>
  \/ LookUp(h) \/ ClaimAgentNonce(h)

LEMMA DataProceeds ==
  ASSUME KInv, NEW h \in Handlers,
         \/ EndWrite(h) \/ LookUp(h) \/ ClaimAgentNonce(h) \/ MigrateNamespaces(h) \/ EndRewrap(h)
  PROVE  /\ Proceeds(h)
         /\ UNCHANGED <<ring, canary, events, untrue>> /\ fresh' \in BOOLEAN
<1>0. fresh \in BOOLEAN
  BY DEF KInv, TablesOK
<1>1. CASE EndWrite(h)
  BY <1>0, <1>1 DEF EndWrite, Proceeds, Writes, DataPcs
<1>2. CASE MigrateNamespaces(h)
  <2>1. Outdated(handlers[h].m) \subseteq Rows
    BY DEF Outdated, Found
  <2>2. QED
    BY <1>0, <1>2, <2>1 DEF MigrateNamespaces, Proceeds, Writes, DataPcs
<1>3. CASE EndRewrap(h)
  BY <1>0, <1>3 DEF EndRewrap, Proceeds, Writes, DataPcs
<1>5. CASE LookUp(h) \/ ClaimAgentNonce(h)
  BY <1>0, <1>5 DEF LookUp, ClaimAgentNonce, Proceeds
<1>6. QED
  BY <1>1, <1>2, <1>3, <1>5

LEMMA EraseWrites ==
  ASSUME KInv, NEW r \in Rows, EraseRow(r)
  PROVE  Writes /\ UNCHANGED <<ring, canary, events, fresh, nonce, served, untrue>>
<1>1. {} \in SUBSET Handlers /\ {r} \in SUBSET Rows
  OBVIOUS
<1>2. QED
  BY <1>1 DEF EraseRow, Writes

LEMMA WritesOK ==
  ASSUME KInv, Writes
  PROVE  HandlersOK' /\ RowsOK' /\ counted' \subseteq Rows
<1>0. HandlersOK /\ RowsOK /\ counted \subseteq Rows
  BY DEF KInv, TablesOK
<1>1. PICK hs \in SUBSET Handlers, rs \in SUBSET Rows :
        \/ hs = {} /\ Rewritten(hs, rs, NoRef)
        \/ \E h \in Handlers : hs = {h} /\ handlers[h].pc \in DataPcs /\ Rewritten(hs, rs, Ref(handlers[h].m))
  BY DEF Writes
<1>2. CASE Rewritten(hs, rs, NoRef)
  BY <1>0, <1>2, RewrittenOK
<1>3. ASSUME NEW h \in Handlers, Rewritten(hs, rs, Ref(handlers[h].m))
      PROVE  HandlersOK' /\ RowsOK' /\ counted' \subseteq Rows
  <2>1. handlers[h].m \in Deployed
    BY <1>0 DEF HandlersOK, HandlerRow
  <2>2. QED
    BY <1>0, <1>3, <2>1, RefOK, RewrittenOK
<1>4. QED
  BY <1>1, <1>2, <1>3

LEMMA DataKInv ==
  ASSUME KInv, NEW h \in Handlers,
         \/ \E m \in Deployed : BeginWrite(h, m) \/ BeginAuth(h, m) \/ BeginRewrap(h, m)
         \/ EndWrite(h) \/ LookUp(h) \/ ClaimAgentNonce(h) \/ MigrateNamespaces(h) \/ EndRewrap(h)
  PROVE  KInv'
<1>0. TablesOK /\ HandlersOK /\ LogOK
  BY DEF KInv
<1>1. ASSUME NEW m \in Deployed, BeginWrite(h, m) \/ BeginAuth(h, m) \/ BeginRewrap(h, m) PROVE KInv'
  <2>1. PICK pc \in DataPcs : Begins(h, pc, m)
    BY <1>1, DataBegins
  <2>2. HandlersOK'
    BY <1>0, <2>1, GoesOK DEF Begins, DataRowOK
  <2>3. QED
    BY <1>0, <2>1, <2>2 DEF Begins, KInv, TablesOK, RowsOK, LogOK, EventOK
<1>2. ASSUME Proceeds(h), UNCHANGED <<ring, canary, events, untrue>>, fresh' \in BOOLEAN PROVE KInv'
  <2>1. LogOK'
    BY <1>0, <1>2 DEF LogOK, EventOK
  <2>2. CASE Ends(h) /\ UNCHANGED <<refs, counted, nonce, served>>
    BY <1>0, <1>2, <2>1, <2>2, EndsOK DEF KInv, TablesOK, RowsOK
  <2>3. CASE Writes /\ UNCHANGED <<nonce, served>>
    BY <1>0, <1>2, <2>1, <2>3, WritesOK DEF KInv, TablesOK
  <2>4. CASE LookUp(h)
    BY <1>0, <1>2, <2>1, <2>4, EndsOK, BecomesOK DEF LookUp, KInv, TablesOK, RowsOK, CommandPcs, DataPcs
  <2>5. CASE ClaimAgentNonce(h)
    <3>1. HandlersOK'
      BY <1>0, <2>5, EndsOK, BecomesOK DEF ClaimAgentNonce, CommandPcs, DataPcs
    <3>2. Namespaces(handlers[h].m) \subseteq KeyIds \cup {Raw}
      BY <1>0, ManifestFacts DEF Namespaces, HandlersOK, HandlerRow
    <3>3. nonce' \subseteq KeyIds \cup {Raw} /\ served' \in Nat
      BY <1>0, <2>5, <3>2 DEF ClaimAgentNonce, TablesOK
    <3>4. QED
      BY <1>0, <1>2, <2>1, <2>5, <3>1, <3>3 DEF ClaimAgentNonce, KInv, TablesOK, RowsOK
  <2>6. QED
    BY <1>2, <2>2, <2>3, <2>4, <2>5 DEF Proceeds
<1>3. QED
  BY <1>1, <1>2, DataProceeds

LEMMA EraseKInv == ASSUME KInv, NEW r \in Rows, EraseRow(r) PROVE KInv'
BY EraseWrites, WritesOK DEF KInv, TablesOK, LogOK, EventOK

LEMMA KeySteps ==
  ASSUME KeyNext
  PROVE  \/ \E h \in Handlers :
              \/ \E cmd \in Commands : \E c \in Requests(cmd) : BeginCommand(h, c)
              \/ InspectDomain(h) \/ CommitCommand(h) \/ CommitThrows(h) \/ Reread(h)
         \/ \E h \in Handlers :
              \/ \E m \in Deployed : BeginWrite(h, m) \/ BeginAuth(h, m) \/ BeginRewrap(h, m)
              \/ EndWrite(h) \/ LookUp(h) \/ ClaimAgentNonce(h) \/ MigrateNamespaces(h) \/ EndRewrap(h)
         \/ \E r \in Rows : EraseRow(r)
BY DEF KeyNext, Deployed

LEMMA StepKInv == KInv /\ [KeyNext]_keyVars => KInv'
<1> SUFFICES ASSUME KInv, [KeyNext]_keyVars PROVE KInv'
  OBVIOUS
<1>1. CASE KeyNext
  BY <1>1, KeySteps, CommandKInv, DataKInv, EraseKInv
<1>2. CASE UNCHANGED keyVars
  BY <1>2 DEF keyVars, KInv, TablesOK, RowsOK, HandlersOK, CommandOK, LogOK, EventOK
<1>3. QED
  BY <1>1, <1>2

LEMMA KInvAlways == KeySpec => []KInv
BY InitKInv, StepKInv, PTL DEF KeySpec

(* The tables, the log and the handlers have their types: no interleaving of
   deployments stores a key, a manifest or an event that is not one. *)
THEOREM KeysTyped == KeySpec => []KeyTypeOK
BY KInvAlways, KInvTypes, PTL

---------------------------------------------------------------------------
(* The log. *)

(* Only the batch of a command changes the tables of the keyring. *)
LEMMA OnlyBatches ==
  ASSUME KInv, KeyNext
  PROVE  \/ UNCHANGED <<ring, canary, events>>
         \/ \E h \in Handlers : handlers[h].pc = "commit" /\ Batch(h)
<1>1. ASSUME NEW h \in Handlers,
             \/ \E cmd \in Commands : \E c \in Requests(cmd) : BeginCommand(h, c)
             \/ InspectDomain(h) \/ CommitCommand(h) \/ CommitThrows(h) \/ Reread(h)
      PROVE  \/ UNCHANGED <<ring, canary, events>>
             \/ handlers[h].pc = "commit" /\ Batch(h)
  BY <1>1 DEF BeginCommand, InspectDomain, CommitCommand, CommitThrows, Reread
<1>2. ASSUME NEW h \in Handlers,
             \/ \E m \in Deployed : BeginWrite(h, m) \/ BeginAuth(h, m) \/ BeginRewrap(h, m)
             \/ EndWrite(h) \/ LookUp(h) \/ ClaimAgentNonce(h) \/ MigrateNamespaces(h) \/ EndRewrap(h)
      PROVE  UNCHANGED <<ring, canary, events>>
  BY <1>2 DEF BeginWrite, BeginAuth, BeginRewrap, EndWrite, LookUp, ClaimAgentNonce,
              MigrateNamespaces, EndRewrap
<1>3. ASSUME NEW r \in Rows, EraseRow(r) PROVE UNCHANGED <<ring, canary, events>>
  BY <1>3 DEF EraseRow
<1>4. QED
  BY <1>1, <1>2, <1>3, KeySteps

LEMMA InitEffects == KeyInit => EffectsHaveEvents
<1> SUFFICES ASSUME KeyInit PROVE EffectsHaveEvents
  OBVIOUS
<1>1. CASE FreshDatabase
  BY <1>1 DEF FreshDatabase, EffectsHaveEvents, Registered
<1>2. ASSUME NEW m \in Manifests, NEW S \in SUBSET m.staged, EstablishedDatabase(m, S)
      PROVE  EffectsHaveEvents
  <2> DEFINE P(op, k) == [cmd |-> <<op, k>>, op |-> op, key |-> k, m |-> m]
             Past(op, k) == EventOf(P(op, k))
  <2>0. m \in Deployed /\ m.active \in KeyIds /\ m.staged \subseteq KeyIds /\ m # Compat
    BY ManifestFacts DEF Deployed
  <2>1. /\ ring = m
        /\ canary = [k \in KeyIds |-> IF k \in S \cup {m.active} THEN CanaryOf(m, k) ELSE NoMaterial]
        /\ events = {Past("baseline", m.active), Past("apply", m.active)}
                      \cup {Past("register", k) : k \in S}
    BY <1>2 DEF EstablishedDatabase
  <2>2. ASSUME NEW op \in CommandOps, NEW k \in KeyIds
        PROVE  LET e == Past(op, k)
               IN  /\ e.cmd = <<op, k>> /\ e.op = op /\ e.key = k
                   /\ op = "apply" => e.m = m /\ e.gen = m.gen
    BY <2>0, ManifestFacts DEF EventOf, CommandOps
  <2>3. \A k \in KeyIds : CanaryOf(m, k) \in Materials
    BY <2>0, ManifestFacts DEF CanaryOf
  <2> HIDE DEF Past
  <2>4. ASSUME NEW e \in events
        PROVE  \/ e = Past("baseline", m.active) \/ e = Past("apply", m.active)
               \/ \E k \in S : e = Past("register", k)
    BY <2>1
  <2>5. ring # Compat => \E e \in events : e.op = "apply" /\ e.m = ring
    BY <2>0, <2>1, <2>2 DEF CommandOps
  <2>6. ASSUME NEW k \in KeyIds PROVE (canary[k] # NoMaterial) <=> Registered(k)
    <3>1. (canary[k] # NoMaterial) <=> k \in S \cup {m.active}
      BY <2>1, <2>3, KeyAssumption
    <3>2. k \in S \cup {m.active} => Registered(k)
      BY <2>0, <2>1, <2>2 DEF Registered, CommandOps
    <3>3. Registered(k) => k \in S \cup {m.active}
      <4>1. SUFFICES ASSUME NEW e \in events, e.op \in {"register", "baseline"}, e.key = k
                     PROVE  k \in S \cup {m.active}
        BY DEF Registered
      <4>2. CASE e = Past("baseline", m.active) \/ e = Past("apply", m.active)
        BY <2>0, <2>2, <4>1, <4>2 DEF CommandOps
      <4>3. CASE \E j \in S : e = Past("register", j)
        BY <2>0, <2>2, <4>1, <4>3 DEF CommandOps
      <4>4. QED
        BY <2>4, <4>2, <4>3
    <3>4. QED
      BY <3>1, <3>2, <3>3
  <2>7. ASSUME NEW e \in events
        PROVE  /\ e.cmd = <<e.op, e.key>> /\ e = Past(e.op, e.key)
               /\ e.op = "apply" => e.m = m /\ e.gen = m.gen
    <3>1. CASE e = Past("baseline", m.active)
      BY <2>0, <2>2, <3>1 DEF CommandOps
    <3>2. CASE e = Past("apply", m.active)
      BY <2>0, <2>2, <3>2 DEF CommandOps
    <3>3. CASE \E j \in S : e = Past("register", j)
      BY <2>0, <2>2, <3>3 DEF CommandOps
    <3>4. QED
      BY <2>4, <3>1, <3>2, <3>3
  <2>8. ASSUME NEW d \in events, NEW e \in events, d.cmd = e.cmd PROVE d = e
    <3>1. d.op = e.op /\ d.key = e.key
      BY <2>7, <2>8
    <3>2. QED
      BY <2>7, <3>1
  <2>9. m.gen \in Nat
    BY <2>0, ManifestFacts
  <2>10. QED
    BY <2>1, <2>5, <2>6, <2>7, <2>8, <2>9 DEF EffectsHaveEvents
<1>3. QED
  BY <1>1, <1>2 DEF KeyInit

LEMMA BatchEffects ==
  ASSUME KInv, EffectsHaveEvents, NEW h \in Handlers, handlers[h].pc = "commit", Batch(h)
  PROVE  EffectsHaveEvents'
<1> DEFINE c == handlers[h]
           new == EventOf(c)
<1>1. /\ c.op \in CommandOps /\ c.key \in KeyIds /\ c.m \in Deployed
      /\ c.op # "baseline" => c.m \in Manifests
      /\ CanaryOf(c.m, c.key) \in Materials
  BY CommandFacts DEF CommandPcs
<1>2. /\ EventOK(new) /\ new.cmd = c.cmd /\ new.op = c.op /\ new.key = c.key
      /\ c.op = "apply" => new.m = c.m /\ new.gen = c.m.gen
  BY <1>1, EventFacts
<1>3. /\ ring' = IF c.op = "apply" /\ Upsert(c) THEN c.m ELSE ring
      /\ canary' = IF Enters(c) THEN [canary EXCEPT ![c.key] = CanaryOf(c.m, c.key)] ELSE canary
      /\ events' = IF Enters(c) \/ (c.op = "apply" /\ ring' = c.m /\ ~Taken(c.cmd))
                   THEN events \cup {new} ELSE events
  BY DEF Batch
<1>4. /\ ring \in Deployed /\ ring.gen \in Nat /\ c.m.gen \in Nat
      /\ (ring = Compat => ring.gen = 0) /\ (c.m \in Manifests => c.m.gen > 0 /\ c.m # Compat)
      /\ canary \in [KeyIds -> Materials \cup {NoMaterial}]
  BY <1>1, ManifestFacts DEF KInv, TablesOK
<1>5. \A e \in events : e.op = "apply" => e.m \in Manifests /\ e.gen = e.m.gen /\ e.gen > 0 /\ e.gen \in Nat
  BY ManifestFacts DEF KInv, LogOK, EventOK, Deployed
<1> HIDE DEF c, new
<1>6. CASE Enters(c)
  <2>1. c.op \in {"register", "baseline"} /\ ~Taken(c.cmd) /\ c.op # "apply"
    BY <1>1, <1>6 DEF Enters, CommandOps
  <2>2. /\ ring' = ring /\ events' = events \cup {new}
        /\ canary' = [canary EXCEPT ![c.key] = CanaryOf(c.m, c.key)]
    BY <1>3, <1>6, <2>1
  <2>3. \A e \in events : e.cmd # c.cmd
    BY <2>1 DEF Taken
  <2>4. \A k \in KeyIds : (canary'[k] # NoMaterial) <=> Registered(k)'
    <3>1. TAKE k \in KeyIds
    <3>2. Registered(k)' <=> Registered(k) \/ k = c.key
      BY <1>2, <2>1, <2>2 DEF Registered
    <3>3. canary'[k] = IF k = c.key THEN CanaryOf(c.m, c.key) ELSE canary[k]
      BY <1>4, <2>2
    <3>4. (canary[k] # NoMaterial) <=> Registered(k)
      BY DEF EffectsHaveEvents
    <3>5. QED
      BY <1>1, <3>2, <3>3, <3>4, KeyAssumption
  <2>5. ring' # Compat => \E e \in events' : e.op = "apply" /\ e.m = ring'
    BY <2>2 DEF EffectsHaveEvents
  <2>6. ASSUME NEW d \in events', NEW e \in events'
        PROVE  /\ d.cmd = e.cmd => d = e
               /\ d.op = "apply" /\ e.op = "apply" /\ d.gen = e.gen => d.m = e.m
               /\ d.op = "apply" => d.gen <= ring'.gen
    BY <1>2, <2>1, <2>2, <2>3 DEF EffectsHaveEvents
  <2>7. QED
    BY <2>4, <2>5, <2>6 DEF EffectsHaveEvents, Registered
<1>7. CASE ~Enters(c) /\ c.op = "apply" /\ ring' = c.m /\ ~Taken(c.cmd)
  <2>1. events' = events \cup {new} /\ canary' = canary
    BY <1>3, <1>7
  <2>2. \A e \in events : e.cmd # c.cmd
    BY <1>7 DEF Taken
  <2>3. new.m = ring' /\ new.gen = ring'.gen /\ new.op = "apply"
    BY <1>2, <1>7
  <2>4. ring' = ring \/ ((ring = Compat \/ ring.gen < c.m.gen) /\ ring' = c.m)
    BY <1>3, <1>7 DEF Upsert
  <2>5. ring.gen <= ring'.gen /\ ring'.gen \in Nat
    BY <1>1, <1>4, <1>7, <2>4
  <2>6. \A e \in events : e.op = "apply" => e.gen <= ring.gen
    BY DEF EffectsHaveEvents
  <2>7. ASSUME NEW e \in events, e.op = "apply", e.gen = ring'.gen PROVE e.m = ring'
    <3>1. CASE ring' = ring /\ ring # Compat
      BY <1>4, <1>5, <2>7, <3>1 DEF EffectsHaveEvents, KInv, LogOK, EventOK
    <3>2. CASE ring = Compat
      BY <1>4, <1>5, <2>6, <2>7, <3>2
    <3>3. CASE ring.gen < c.m.gen /\ ring' = c.m
      BY <1>4, <1>5, <2>6, <2>7, <3>3
    <3>4. QED
      BY <2>4, <3>1, <3>2, <3>3
  <2>8. \A k \in KeyIds : (canary'[k] # NoMaterial) <=> Registered(k)'
    BY <2>1, <2>3 DEF EffectsHaveEvents, Registered
  <2>9. ring' # Compat => \E e \in events' : e.op = "apply" /\ e.m = ring'
    BY <2>1, <2>3
  <2>10. ASSUME NEW d \in events', NEW e \in events'
        PROVE  d.cmd = e.cmd => d = e
    BY <1>2, <2>1, <2>2 DEF EffectsHaveEvents
  <2>11. ASSUME NEW d \in events', NEW e \in events'
         PROVE  d.op = "apply" /\ e.op = "apply" /\ d.gen = e.gen => d.m = e.m
    <3>1. CASE d \in events /\ e \in events
      BY <3>1 DEF EffectsHaveEvents
    <3>2. CASE d = new \/ e = new
      BY <2>1, <2>3, <2>7, <3>2
    <3>3. QED
      BY <2>1, <3>1, <3>2
  <2>12. ASSUME NEW d \in events', d.op = "apply" PROVE d.gen <= ring'.gen
    BY <1>4, <1>5, <2>1, <2>3, <2>5, <2>6, <2>12
  <2>13. QED
    BY <2>8, <2>9, <2>10, <2>11, <2>12 DEF EffectsHaveEvents, Registered
<1>8. CASE ~Enters(c) /\ ~(c.op = "apply" /\ ring' = c.m /\ ~Taken(c.cmd))
  <2>1. UNCHANGED <<ring, canary, events>>
    BY <1>3, <1>8 DEF Upsert
  <2>2. QED
    BY <2>1 DEF EffectsHaveEvents, Registered
<1>9. QED
  BY <1>6, <1>7, <1>8

(* The log agrees with the tables: the manifest in force and every canary were
   put there by a command whose event is kept, an event is of one command, and
   a generation stands for one manifest, whatever deployments race. *)
THEOREM LogTellsTheTables == KeySpec => []EffectsHaveEvents
<1>1. KInv /\ EffectsHaveEvents /\ [KeyNext]_keyVars => EffectsHaveEvents'
  <2> SUFFICES ASSUME KInv, EffectsHaveEvents, [KeyNext]_keyVars PROVE EffectsHaveEvents'
    OBVIOUS
  <2>1. CASE UNCHANGED <<ring, canary, events>>
    BY <2>1 DEF EffectsHaveEvents, Registered
  <2>2. CASE UNCHANGED keyVars
    BY <2>1, <2>2 DEF keyVars
  <2>3. QED
    BY <2>1, <2>2, OnlyBatches, BatchEffects
<1>2. QED
  BY <1>1, KInvAlways, InitEffects, PTL DEF KeySpec

---------------------------------------------------------------------------
(* Reports. *)

LEMMA ReplayReports ==
  ASSUME KInv, NEW c, NEW replay, Taken(c.cmd), Replayed(c, replay), ~untrue
  PROVE  ~untrue'
<1> DEFINE e == CHOOSE x \in events : x.cmd = c.cmd
<1>1. e \in events /\ e.cmd = c.cmd
  BY DEF Taken
<1>2. IF Matches(e, c, replay) THEN Reported(events, e.key, c) ELSE UNCHANGED untrue
  BY DEF Replayed
<1> HIDE DEF e
<1>3. QED
  BY <1>1, <1>2 DEF Reported, Matches

LEMMA CommitReports ==
  ASSUME KInv, NEW h \in Handlers, CommitCommand(h), ~untrue
  PROVE  ~untrue'
<1> DEFINE c == handlers[h]
           new == EventOf(c)
<1>1. c.op \in CommandOps /\ c.key \in KeyIds /\ c.m \in Deployed /\ (c.op # "baseline" => c.m \in Manifests)
  BY CommandFacts DEF CommitCommand, CommandPcs
<1>2. new.cmd = c.cmd /\ new.op = c.op /\ new.key = c.key /\ new.gen = Generation(c.m)
  BY <1>1, EventFacts
<1>3. /\ ring' = IF c.op = "apply" /\ Upsert(c) THEN c.m ELSE ring
      /\ events' = IF Enters(c) \/ (c.op = "apply" /\ ring' = c.m /\ ~Taken(c.cmd))
                   THEN events \cup {new} ELSE events
      /\ IF Enters(c) \/ (c.op = "apply" /\ Upsert(c))
         THEN Reported(events', c.key, c) ELSE UNCHANGED untrue
  BY DEF CommitCommand, Batch
<1> HIDE DEF c, new
<1>4. CASE Enters(c) \/ (c.op = "apply" /\ Upsert(c))
  <2>1. new \in events'
    BY <1>3, <1>4 DEF Upsert
  <2>2. QED
    BY <1>2, <1>3, <1>4, <2>1 DEF Reported
<1>5. QED
  BY <1>3, <1>4

(* Whoever is told that a command is done finds its event in the log, with the
   key and the generation reported, also after races and replays. *)
THEOREM ReportsSafe == KeySpec => []ReportsAreRecorded
<1>1. KeyInit => ~untrue
  BY DEF KeyInit
<1>2. KInv /\ ~untrue /\ [KeyNext]_keyVars => ~untrue'
  <2> SUFFICES ASSUME KInv, ~untrue, [KeyNext]_keyVars PROVE ~untrue'
    OBVIOUS
  <2>1. ASSUME NEW h \in Handlers,
               \/ \E cmd \in Commands : \E c \in Requests(cmd) : BeginCommand(h, c)
               \/ InspectDomain(h) \/ CommitCommand(h) \/ CommitThrows(h) \/ Reread(h)
        PROVE  ~untrue'
    <3>1. CASE \E cmd \in Commands : \E c \in Requests(cmd) : BeginCommand(h, c)
      BY <3>1, ReplayReports DEF BeginCommand
    <3>2. CASE InspectDomain(h) \/ CommitThrows(h)
      BY <3>2 DEF InspectDomain, CommitThrows
    <3>3. CASE Reread(h)
      BY <3>3, ReplayReports DEF Reread
    <3>4. QED
      BY <2>1, <3>1, <3>2, <3>3, CommitReports
  <2>2. ASSUME NEW h \in Handlers,
               \/ \E m \in Deployed : BeginWrite(h, m) \/ BeginAuth(h, m) \/ BeginRewrap(h, m)
               \/ EndWrite(h) \/ LookUp(h) \/ ClaimAgentNonce(h) \/ MigrateNamespaces(h) \/ EndRewrap(h)
        PROVE  UNCHANGED untrue
    BY <2>2 DEF BeginWrite, BeginAuth, BeginRewrap, EndWrite, LookUp, ClaimAgentNonce,
                MigrateNamespaces, EndRewrap
  <2>3. ASSUME NEW r \in Rows, EraseRow(r) PROVE UNCHANGED untrue
    BY <2>3 DEF EraseRow
  <2>4. CASE UNCHANGED keyVars
    BY <2>4 DEF keyVars
  <2>5. QED
    BY <2>1, <2>2, <2>3, <2>4, KeySteps
<1>3. QED
  BY <1>1, <1>2, KInvAlways, PTL DEF KeySpec, ReportsAreRecorded

---------------------------------------------------------------------------
(* Agent calls. *)

(* The raw namespace is in every claim: the first one closes all of them. *)
CallInv == served <= 1 /\ (served = 1 => Raw \in nonce)

(* A signed agent call is served once, whatever keyring each deployment that
   receives it has. *)
THEOREM AgentCallSafe == KeySpec => []AgentCallOnce
<1>1. KeyInit => CallInv
  BY DEF KeyInit, CallInv
<1>2. KInv /\ CallInv /\ [KeyNext]_keyVars => CallInv'
  <2> SUFFICES ASSUME KInv, CallInv, [KeyNext]_keyVars PROVE CallInv'
    OBVIOUS
  <2>1. CASE UNCHANGED <<nonce, served>>
    BY <2>1 DEF CallInv
  <2>2. ASSUME NEW h \in Handlers,
               \/ \E cmd \in Commands : \E c \in Requests(cmd) : BeginCommand(h, c)
               \/ InspectDomain(h) \/ CommitCommand(h) \/ CommitThrows(h) \/ Reread(h)
        PROVE  UNCHANGED <<nonce, served>>
    BY <2>2 DEF BeginCommand, InspectDomain, CommitCommand, CommitThrows, Reread, Batch
  <2>3. ASSUME NEW h \in Handlers, NEW m \in Deployed, BeginWrite(h, m) \/ BeginAuth(h, m) \/ BeginRewrap(h, m)
        PROVE  UNCHANGED <<nonce, served>>
    BY <2>3 DEF BeginWrite, BeginAuth, BeginRewrap
  <2>4. ASSUME NEW h \in Handlers, EndWrite(h) \/ LookUp(h) \/ MigrateNamespaces(h) \/ EndRewrap(h)
        PROVE  UNCHANGED <<nonce, served>>
    BY <2>4 DEF EndWrite, LookUp, MigrateNamespaces, EndRewrap
  <2>5. ASSUME NEW h \in Handlers, ClaimAgentNonce(h) PROVE CallInv'
    <3>1. Raw \in Namespaces(handlers[h].m) /\ served \in Nat
      BY DEF Namespaces, KInv, TablesOK
    <3>2. CASE nonce \cap Namespaces(handlers[h].m) = {}
      BY <2>5, <3>1, <3>2 DEF ClaimAgentNonce, CallInv
    <3>3. CASE nonce \cap Namespaces(handlers[h].m) # {}
      BY <2>1, <2>5, <3>3 DEF ClaimAgentNonce
    <3>4. QED
      BY <3>2, <3>3
  <2>6. ASSUME NEW r \in Rows, EraseRow(r) PROVE UNCHANGED <<nonce, served>>
    BY <2>6 DEF EraseRow
  <2>7. CASE UNCHANGED keyVars
    BY <2>1, <2>7 DEF keyVars
  <2>8. QED
    BY <2>1, <2>2, <2>3, <2>4, <2>5, <2>6, <2>7, KeySteps
<1>3. QED
  BY <1>1, <1>2, KInvAlways, PTL DEF KeySpec, CallInv, AgentCallOnce

---------------------------------------------------------------------------
(* What a step does to the handlers and to the rows together. *)

(* The handlers of hs end and all others forget the rows written. *)
LEMMA WritesFacts ==
  ASSUME KInv, Writes
  PROVE  \E hs \in SUBSET Handlers, rs \in SUBSET Rows,
            ref \in {NoRef} \cup {Ref(handlers[h].m) : h \in {g \in Handlers : handlers[g].pc \in DataPcs}} :
           /\ \A g \in Handlers : handlers'[g] = IF g \in hs THEN AtRest ELSE Forgets(handlers[g], rs)
           /\ \A r \in Rows : refs'[r] = IF r \in rs THEN ref ELSE refs[r]
           /\ counted' = counted \ rs
<1>1. PICK hs \in SUBSET Handlers, rs \in SUBSET Rows :
        \/ hs = {} /\ Rewritten(hs, rs, NoRef)
        \/ \E h \in Handlers : hs = {h} /\ handlers[h].pc \in DataPcs /\ Rewritten(hs, rs, Ref(handlers[h].m))
  BY DEF Writes
<1>2. PICK ref \in {NoRef} \cup {Ref(handlers[h].m) : h \in {g \in Handlers : handlers[g].pc \in DataPcs}} :
        Rewritten(hs, rs, ref)
  BY <1>1
<1>3. /\ \A g \in Handlers : handlers'[g] = IF g \in hs THEN AtRest ELSE Forgets(handlers[g], rs)
      /\ \A r \in Rows : refs'[r] = IF r \in rs THEN ref ELSE refs[r]
      /\ counted' = counted \ rs
  BY <1>2 DEF Rewritten, Forgets
<1>4. QED
  BY <1>3

---------------------------------------------------------------------------
(* Counted rows. *)

(* What a command has counted and not seen change is under the keys it
   counted, and an apply on its way to the batch can read those. *)
HandlerCounted(c) ==
  /\ c.pc \in {"inspect", "commit"} => \A r \in c.seen : refs[r].key \in c.used
  /\ c.pc = "commit" /\ c.op = "apply" => c.used \subseteq c.m.readable

CountInv == CountedRowsStayReadable /\ \A h \in Handlers : HandlerCounted(handlers[h])

(* The rows are as they were, and one handler moves. *)
LEMMA CountedMove ==
  ASSUME KInv, CountInv, NEW h \in Handlers, UNCHANGED <<refs, ring, counted>>,
         HandlerCounted(handlers[h])',
         \A g \in Handlers : g # h => handlers'[g] = handlers[g]
  PROVE  CountInv'
<1>1. ASSUME NEW g \in Handlers, g # h PROVE HandlerCounted(handlers[g])'
  BY <1>1 DEF CountInv, HandlerCounted
<1>2. QED
  BY <1>1 DEF CountInv, CountedRowsStayReadable

LEMMA CountedCommand ==
  ASSUME KInv, CountInv, NEW h \in Handlers, CommitCommand(h) \/ CommitThrows(h)
  PROVE  CountInv'
<1> DEFINE c == handlers[h]
<1>0. HandlersOK /\ c.pc = "commit" /\ HandlerCounted(c) /\ (c.op = "apply" => c.m \in Manifests)
  BY CommandFacts DEF CommitCommand, CommitThrows, KInv, CountInv, CommandPcs, CommandOps
<1>1. /\ \A g \in Handlers : g # h => handlers'[g] = handlers[g]
      /\ handlers'[h].pc \in {"idle", "reread"}
      /\ UNCHANGED refs
      /\ Batch(h) \/ UNCHANGED <<ring, counted>>
  <2>1. CASE CommitCommand(h)
    BY <1>0, <2>1, EndsOK, BecomesOK, RestIsARow DEF CommitCommand, Batch, CommandPcs
  <2>2. CASE CommitThrows(h)
    BY <1>0, <2>2, BecomesOK DEF CommitThrows, Batch, CommandPcs
  <2>3. QED
    BY <2>1, <2>2
<1>2. HandlerCounted(handlers[h])'
  BY <1>1 DEF HandlerCounted
<1>3. ASSUME NEW g \in Handlers, g # h PROVE HandlerCounted(handlers[g])'
  BY <1>1, <1>3 DEF CountInv, HandlerCounted
<1>4. CountedRowsStayReadable'
  <2>1. CASE ring' = ring /\ counted' = counted
    BY <1>1, <2>1 DEF CountInv, CountedRowsStayReadable
  <2>2. CASE ring' # ring
    <3>1. c.op = "apply" /\ ring' = c.m /\ counted' = c.seen
      BY <1>1, <2>2 DEF Batch
    <3>2. QED
      BY <1>0, <1>1, <3>1 DEF HandlerCounted, CountedRowsStayReadable
  <2>3. QED
    BY <1>1, <2>1, <2>2 DEF Batch
<1>5. QED
  BY <1>2, <1>3, <1>4 DEF CountInv

LEMMA CountedWrites == ASSUME KInv, CountInv, Writes, UNCHANGED ring PROVE CountInv'
<1>1. PICK hs \in SUBSET Handlers, rs \in SUBSET Rows,
            ref \in {NoRef} \cup {Ref(handlers[h].m) : h \in {g \in Handlers : handlers[g].pc \in DataPcs}} :
        /\ \A g \in Handlers : handlers'[g] = IF g \in hs THEN AtRest ELSE Forgets(handlers[g], rs)
        /\ \A r \in Rows : refs'[r] = IF r \in rs THEN ref ELSE refs[r]
        /\ counted' = counted \ rs
  BY WritesFacts
<1>2. ASSUME NEW g \in Handlers PROVE HandlerCounted(handlers[g])'
  <2>1. CASE g \in hs
    BY <1>1, <2>1, RestIsARow DEF HandlerCounted
  <2>2. CASE g \notin hs
    <3>1. handlers[g] \in HandlerRow /\ handlers'[g] = Forgets(handlers[g], rs)
      BY <1>1, <2>2 DEF KInv, HandlersOK
    <3>2. LET c == handlers[g] d == handlers'[g]
          IN  d.pc = c.pc /\ d.op = c.op /\ d.m = c.m /\ d.used = c.used /\ d.seen = c.seen \ rs
      BY <3>1, RowForgets
    <3>3. handlers[g].seen \subseteq Rows /\ HandlerCounted(handlers[g])
      BY <3>1 DEF CountInv, HandlerRow
    <3>4. QED
      BY <1>1, <3>2, <3>3 DEF HandlerCounted
  <2>3. QED
    BY <2>1, <2>2
<1>3. CountedRowsStayReadable'
  BY <1>1 DEF KInv, TablesOK, CountInv, CountedRowsStayReadable
<1>4. QED
  BY <1>2, <1>3 DEF CountInv

LEMMA StepCounted == KInv /\ CountInv /\ [KeyNext]_keyVars => CountInv'
<1> SUFFICES ASSUME KInv, CountInv, [KeyNext]_keyVars PROVE CountInv'
  OBVIOUS
<1>0. HandlersOK
  BY DEF KInv
<1>1. ASSUME NEW h \in Handlers, NEW cmd \in Commands, NEW c \in Requests(cmd), BeginCommand(h, c)
      PROVE  CountInv'
  <2> DEFINE holding == {r \in Rows : refs[r] # NoRef}
             d == [c EXCEPT !.used = {refs[r].key : r \in holding}, !.seen = holding]
  <2>1. UNCHANGED <<refs, ring, counted>> /\ (UNCHANGED handlers \/ Goes(h, d))
    BY <1>1 DEF BeginCommand
  <2>2. /\ d \in HandlerRow /\ CommandOK(d) /\ d.pc = "inspect"
        /\ d.used = {refs[r].key : r \in holding} /\ d.seen = holding
    BY CountedRow
  <2>3. CASE UNCHANGED handlers
    BY <2>1, <2>3 DEF CountInv, HandlerCounted, CountedRowsStayReadable
  <2>4. CASE Goes(h, d)
    <3>1. \A r \in d.seen : refs[r].key \in d.used
      BY <2>2
    <3> HIDE DEF d, holding
    <3>2. handlers'[h] = d /\ \A g \in Handlers : g # h => handlers'[g] = handlers[g]
      BY <1>0, <2>2, <2>4, GoesOK
    <3>3. HandlerCounted(handlers[h])'
      BY <2>1, <2>2, <3>1, <3>2 DEF HandlerCounted
    <3>4. QED
      BY <2>1, <3>2, <3>3, CountedMove
  <2>5. QED
    BY <2>1, <2>3, <2>4
<1>2. ASSUME NEW h \in Handlers, InspectDomain(h) PROVE CountInv'
  <2>1. /\ handlers[h] \in HandlerRow /\ handlers[h].pc = "inspect" /\ HandlerCounted(handlers[h])
        /\ UNCHANGED <<refs, ring, counted>>
    BY <1>0, <1>2 DEF InspectDomain, HandlersOK, CountInv
  <2>2. CASE Admitted(handlers[h])
    <3>1. handlers[h].op = "apply" => handlers[h].used \subseteq handlers[h].m.readable
      BY <2>2 DEF Admitted, ReadyForApply
    <3>2. Becomes(h, "commit")
      BY <1>2, <2>2 DEF InspectDomain
    <3>3. /\ LET c == handlers[h] d == handlers'[h]
             IN  d.pc = "commit" /\ d.op = c.op /\ d.m = c.m /\ d.used = c.used /\ d.seen = c.seen
          /\ \A g \in Handlers : g # h => handlers'[g] = handlers[g]
      BY <1>0, <2>1, <3>2, BecomesOK DEF CommandPcs
    <3>4. HandlerCounted(handlers[h])'
      BY <2>1, <3>1, <3>3 DEF HandlerCounted
    <3>5. QED
      BY <2>1, <3>3, <3>4, CountedMove
  <2>3. CASE Ends(h)
    <3>1. HandlerCounted(handlers[h])'
      BY <1>0, <2>3, EndsOK, RestIsARow DEF HandlerCounted
    <3>2. QED
      BY <1>0, <2>1, <2>3, <3>1, EndsOK, CountedMove
  <2>4. QED
    BY <1>2, <2>2, <2>3 DEF InspectDomain
<1>3. ASSUME NEW h \in Handlers, Ends(h), UNCHANGED <<refs, ring, counted>> PROVE CountInv'
  <2>1. HandlerCounted(handlers[h])'
    BY <1>0, <1>3, EndsOK, RestIsARow DEF HandlerCounted
  <2>2. QED
    BY <1>0, <1>3, <2>1, EndsOK, CountedMove
<1>4. ASSUME NEW h \in Handlers, NEW pc \in DataPcs, NEW m \in Deployed, Begins(h, pc, m) PROVE CountInv'
  <2>1. PICK d \in HandlerRow : Goes(h, d) /\ DataRowOK(d, pc, m)
    BY <1>4 DEF Begins
  <2>2. handlers'[h] = d /\ \A g \in Handlers : g # h => handlers'[g] = handlers[g]
    BY <1>0, <2>1, GoesOK DEF DataRowOK
  <2>3. HandlerCounted(handlers[h])'
    BY <2>1, <2>2 DEF HandlerCounted, DataRowOK, DataPcs
  <2>4. QED
    BY <1>4, <2>2, <2>3, CountedMove DEF Begins
<1>5. ASSUME NEW h \in Handlers, NEW pc \in DataPcs, Becomes(h, pc), UNCHANGED <<refs, ring, counted>>
      PROVE  CountInv'
  <2>1. handlers'[h].pc = pc /\ \A g \in Handlers : g # h => handlers'[g] = handlers[g]
    BY <1>0, <1>5, BecomesOK DEF CommandPcs, DataPcs
  <2>2. HandlerCounted(handlers[h])'
    BY <2>1 DEF HandlerCounted, DataPcs
  <2>3. QED
    BY <1>5, <2>1, <2>2, CountedMove
<1>6. ASSUME NEW h \in Handlers, Proceeds(h), UNCHANGED ring PROVE CountInv'
  <2>1. CASE LookUp(h)
    BY <1>3, <1>5, <1>6, <2>1 DEF LookUp, DataPcs
  <2>2. CASE ClaimAgentNonce(h)
    BY <1>3, <1>5, <1>6, <2>2 DEF ClaimAgentNonce, DataPcs
  <2>3. QED
    BY <1>3, <1>6, <2>1, <2>2, CountedWrites DEF Proceeds
<1>7. ASSUME NEW h \in Handlers, Reread(h) PROVE CountInv'
  BY <1>3, <1>7 DEF Reread
<1>8. CASE UNCHANGED keyVars
  BY <1>8 DEF keyVars, CountInv, HandlerCounted, CountedRowsStayReadable
<1>9. ASSUME NEW r \in Rows, EraseRow(r) PROVE CountInv'
  BY <1>9, EraseWrites, CountedWrites
<1>10. QED
  BY <1>1, <1>2, <1>4, <1>6, <1>7, <1>8, <1>9, KeySteps, CountedCommand, DataBegins, DataProceeds

(* No manifest makes a row unreadable that was there when the references were
   counted for it and has not been rewritten since. *)
THEOREM CountSafe == KeySpec => []CountedRowsStayReadable
<1>1. KeyInit => CountInv
  BY RestIsARow DEF KeyInit, CountInv, CountedRowsStayReadable, HandlerCounted
<1>2. CountInv => CountedRowsStayReadable
  BY DEF CountInv
<1>3. QED
  BY <1>1, <1>2, KInvAlways, StepCounted, PTL DEF KeySpec

---------------------------------------------------------------------------
(* One material per key. *)

(* A manifest that stages the key id of the deployments without a manifest
   gives it their material.  resolveVersionedKeyring sees to it as long as the
   manifest keeps the older sources (mergeEncodedKey; the id is then readable
   and not staged at all); a manifest that drops them is trusted with it. *)
LegacyKeyKept ==
  \A m \in Manifests :
    Compat.active \in m.staged => m.material[Compat.active] = Compat.material[Compat.active]

(* The four take the table of the keyring and the canaries as parameters, so
   that what held before a step can be compared with what holds after it. *)
Canaried(cn, m) == \A k \in m.readable : cn[k] = m.material[k]

(* A keyring that was resolved while it was enforced. *)
Trusted(rg, cn, m) == m = Compat \/ (rg # Compat /\ Canaried(cn, m))

(* A row needs the first key of all, or a key under its canary. *)
RowTrusted(rg, cn, ref) ==
  ref # NoRef =>
    \/ ref.key = Compat.active /\ ref.mat = Recovery[Compat.active]
    \/ rg # Compat /\ cn[ref.key] = ref.mat

HandlerTrusted(rg, cn, c) ==
  /\ c.pc \in DataPcs => Trusted(rg, cn, c.m)
  /\ c.pc = "commit" /\ c.op = "apply" => Canaried(cn, c.m)
  /\ c.pc = "commit" /\ c.op = "baseline" => c.m.material[c.key] = Recovery[c.key]

MaterialInv ==
  /\ Trusted(ring, canary, ring)
  /\ canary[Compat.active] \in {NoMaterial, Recovery[Compat.active]}
  /\ \A r \in Rows : RowTrusted(ring, canary, refs[r])
  /\ \A h \in Handlers : HandlerTrusted(ring, canary, handlers[h])

LEMMA LegacyFacts ==
  /\ Compat.active \in KeyIds /\ Compat.active \in Compat.readable
  /\ Compat.material[Compat.active] = Recovery[Compat.active]
  /\ Recovery[Compat.active] \in Materials /\ Recovery[Compat.active] # NoMaterial
<1>1. Compat \in Deployed
  BY DEF Deployed
<1>2. QED
  BY <1>1, ManifestFacts, KeyAssumption

LEMMA MaterialGives == KInv /\ MaterialInv => OneMaterialPerKey
<1> SUFFICES ASSUME KInv, MaterialInv, NEW r \in Rows, refs[r].key \in ring.readable
             PROVE  refs[r].mat = ring.material[refs[r].key]
  BY DEF OneMaterialPerKey
<1>1. ring \in Deployed /\ ring.readable \subseteq KeyIds /\ ring.material \in [KeyIds -> Materials]
  BY ManifestFacts DEF KInv, TablesOK
<1>2. refs[r] # NoRef /\ refs[r].key \in KeyIds
  BY <1>1, KeyAssumption DEF NoRef
<1>3. RowTrusted(ring, canary, refs[r]) /\ Trusted(ring, canary, ring)
  BY DEF MaterialInv
<1>4. CASE ring = Compat
  BY <1>2, <1>3, <1>4, LegacyFacts DEF RowTrusted
<1>5. CASE ring # Compat
  <2>1. canary[refs[r].key] = ring.material[refs[r].key]
    BY <1>3, <1>5 DEF Trusted, Canaried
  <2>2. CASE refs[r].key = Compat.active /\ refs[r].mat = Recovery[Compat.active]
    BY <1>1, <1>2, <2>1, <2>2, KeyAssumption DEF MaterialInv
  <2>3. QED
    BY <1>2, <1>3, <2>1, <2>2 DEF RowTrusted
<1>6. QED
  BY <1>4, <1>5

LEMMA InitMaterial == ASSUME LegacyKeyKept PROVE KeyInit => MaterialInv
<1> SUFFICES ASSUME KeyInit PROVE MaterialInv
  OBVIOUS
<1>1. /\ \A h \in Handlers : HandlerTrusted(ring, canary, handlers[h])
      /\ \A r \in Rows : RowTrusted(ring, canary, refs[r])
  BY RestIsARow DEF KeyInit, HandlerTrusted, RowTrusted, DataPcs
<1>2. CASE FreshDatabase
  BY <1>1, <1>2, LegacyFacts DEF FreshDatabase, MaterialInv, Trusted
<1>3. ASSUME NEW m \in Manifests, NEW S \in SUBSET m.staged, EstablishedDatabase(m, S) PROVE MaterialInv
  <2>1. m \in Deployed /\ m.active \in KeyIds /\ m # Compat
    BY ManifestFacts DEF Deployed
  <2>2. /\ m.readable = {m.active} /\ m.material[m.active] = Recovery[m.active] /\ ring = m
        /\ canary = [k \in KeyIds |-> IF k \in S \cup {m.active} THEN CanaryOf(m, k) ELSE NoMaterial]
    BY <1>3 DEF EstablishedDatabase
  <2>3. Trusted(ring, canary, ring)
    BY <2>1, <2>2 DEF Trusted, Canaried, CanaryOf
  <2>4. canary[Compat.active] \in {NoMaterial, Recovery[Compat.active]}
    BY <2>1, <2>2, LegacyFacts DEF CanaryOf, LegacyKeyKept
  <2>5. QED
    BY <1>1, <2>3, <2>4 DEF MaterialInv
<1>4. QED
  BY <1>2, <1>3 DEF KeyInit

(* A canary that was made stays, and so does the first manifest or a later
   one: whatever was trusted still is. *)
CanaryKept ==
  /\ \A k \in KeyIds : canary[k] # NoMaterial => canary'[k] = canary[k]
  /\ ring # Compat => ring' # Compat

LEMMA TrustKept ==
  ASSUME KInv, CanaryKept
  PROVE  /\ \A m \in Deployed : Canaried(canary, m) => Canaried(canary', m)
         /\ \A m \in Deployed : Trusted(ring, canary, m) => Trusted(ring', canary', m)
         /\ \A ref \in [key : KeyIds, mat : Materials] \cup {NoRef} : RowTrusted(ring, canary, ref) => RowTrusted(ring', canary', ref)
<1>1. ASSUME NEW m \in Deployed, Canaried(canary, m) PROVE Canaried(canary', m)
  BY <1>1, ManifestFacts, KeyAssumption DEF Canaried, CanaryKept
<1>2. ASSUME NEW m \in Deployed, Trusted(ring, canary, m) PROVE Trusted(ring', canary', m)
  BY <1>1, <1>2 DEF Trusted, CanaryKept
<1>3. ASSUME NEW ref \in [key : KeyIds, mat : Materials] \cup {NoRef}, RowTrusted(ring, canary, ref)
      PROVE  RowTrusted(ring', canary', ref)
  BY <1>3, KeyAssumption DEF RowTrusted, CanaryKept
<1>4. QED
  BY <1>1, <1>2, <1>3

LEMMA HandlerTrustKept ==
  ASSUME KInv, CanaryKept, NEW c \in HandlerRow, HandlerTrusted(ring, canary, c)
  PROVE  HandlerTrusted(ring', canary', c)
<1>1. c.m \in Deployed
  BY DEF HandlerRow
<1>2. QED
  BY <1>1, TrustKept DEF HandlerTrusted

LEMMA BatchCanaries ==
  ASSUME KInv, MaterialInv, NEW h \in Handlers, handlers[h].pc = "commit", Batch(h)
  PROVE  CanaryKept
<1> DEFINE c == handlers[h]
<1>1. c.key \in KeyIds /\ (c.op = "apply" => c.m \in Manifests)
  BY CommandFacts DEF CommandPcs, CommandOps
<1>2. /\ ring' = IF c.op = "apply" /\ Upsert(c) THEN c.m ELSE ring
      /\ canary' = IF Enters(c) THEN [canary EXCEPT ![c.key] = CanaryOf(c.m, c.key)] ELSE canary
  BY DEF Batch
<1>3. Enters(c) => canary[c.key] = NoMaterial
  BY <1>1 DEF Enters
<1> HIDE DEF c
<1>4. canary \in [KeyIds -> Materials \cup {NoMaterial}]
  BY DEF KInv, TablesOK
<1>5. c.op = "apply" => c.m # Compat
  BY <1>1, KeyAssumption
<1>6. QED
  BY <1>1, <1>2, <1>3, <1>4, <1>5 DEF CanaryKept

LEMMA BatchMaterial ==
  ASSUME LegacyKeyKept, KInv, MaterialInv, NEW h \in Handlers, handlers[h].pc = "commit", Batch(h)
  PROVE  /\ Trusted(ring', canary', ring')
         /\ (canary[Compat.active] \in {NoMaterial, Recovery[Compat.active]})'
         /\ \A r \in Rows : RowTrusted(ring', canary', refs'[r])
<1> DEFINE c == handlers[h]
<1>0. CanaryKept
  BY BatchCanaries
<1>1. /\ c.op \in CommandOps /\ c.key \in KeyIds /\ c.m \in Deployed
      /\ c.op = "apply" => c.m \in Manifests
      /\ c.op = "register" => c.m \in Manifests /\ c.key \in c.m.staged
      /\ HandlerTrusted(ring, canary, c) /\ c.pc = "commit"
  BY CommandFacts DEF CommandPcs, CommandOps, MaterialInv
<1>2. /\ ring' = IF c.op = "apply" /\ Upsert(c) THEN c.m ELSE ring
      /\ canary' = IF Enters(c) THEN [canary EXCEPT ![c.key] = CanaryOf(c.m, c.key)] ELSE canary
      /\ UNCHANGED refs
  BY DEF Batch
<1> HIDE DEF c
<1>3. ring \in Deployed /\ canary \in [KeyIds -> Materials \cup {NoMaterial}] /\ RowsOK
  BY DEF KInv, TablesOK
<1>4. Trusted(ring', canary', ring')
  <2>1. CASE ring' = ring
    BY <1>0, <1>3, <2>1, TrustKept DEF MaterialInv, Trusted, Canaried
  <2>2. CASE c.op = "apply" /\ ring' = c.m
    <3>1. Canaried(canary', c.m)
      BY <1>0, <1>1, <2>2, TrustKept DEF HandlerTrusted
    <3>2. c.m # Compat
      BY <1>1, <2>2, KeyAssumption
    <3>3. QED
      BY <2>2, <3>1, <3>2 DEF Trusted, Canaried
  <2>3. QED
    BY <1>2, <2>1, <2>2
<1>5. canary'[Compat.active] \in {NoMaterial, Recovery[Compat.active]}
  <2>1. CASE canary' = canary
    BY <2>1 DEF MaterialInv
  <2>2. CASE Enters(c) /\ c.key # Compat.active
    BY <1>2, <1>3, <2>2, LegacyFacts DEF MaterialInv
  <2>3. CASE Enters(c) /\ c.key = Compat.active
    <3>1. canary'[Compat.active] = c.m.material[Compat.active]
      BY <1>2, <1>3, <2>3, LegacyFacts DEF CanaryOf
    <3>2. c.op = "register" \/ c.op = "baseline"
      BY <1>1, <2>3 DEF Enters, CommandOps
    <3>3. c.m.material[Compat.active] = Recovery[Compat.active]
      BY <1>1, <2>3, <3>2, LegacyFacts DEF LegacyKeyKept, HandlerTrusted
    <3>4. QED
      BY <3>1, <3>3
  <2>4. QED
    BY <1>2, <2>1, <2>2, <2>3
<1>6. ASSUME NEW r \in Rows PROVE RowTrusted(ring', canary', refs'[r])
  <2>1. refs[r] \in [key : KeyIds, mat : Materials] \cup {NoRef} /\ RowTrusted(ring, canary, refs[r])
    BY <1>3 DEF RowsOK, MaterialInv
  <2>2. QED
    BY <1>0, <1>2, <2>1, TrustKept DEF RowTrusted
<1>7. QED
  BY <1>4, <1>5, <1>6

(* The tables of the keyring and the rows stay, and one handler moves. *)
LEMMA MaterialMove ==
  ASSUME KInv, MaterialInv, NEW h \in Handlers, UNCHANGED <<ring, canary, refs>>,
         HandlerTrusted(ring', canary', handlers'[h]),
         \A g \in Handlers : g # h => handlers'[g] = handlers[g]
  PROVE  MaterialInv'
BY DEF MaterialInv

LEMMA MaterialCommand ==
  ASSUME LegacyKeyKept, KInv, MaterialInv, NEW h \in Handlers, CommitCommand(h) \/ CommitThrows(h)
  PROVE  MaterialInv'
<1>0. HandlersOK
  BY DEF KInv
<1>1. /\ \A g \in Handlers : g # h => handlers'[g] = handlers[g]
      /\ handlers'[h].pc \in {"idle", "reread"} /\ handlers[h].pc = "commit"
      /\ Batch(h) \/ UNCHANGED <<ring, canary, refs>>
  <2>1. CASE CommitCommand(h)
    BY <1>0, <2>1, EndsOK, BecomesOK, RestIsARow DEF CommitCommand, CommandPcs
  <2>2. CASE CommitThrows(h)
    BY <1>0, <2>2, BecomesOK DEF CommitThrows, CommandPcs
  <2>3. QED
    BY <2>1, <2>2
<1>2. HandlerTrusted(ring', canary', handlers'[h])
  BY <1>1 DEF HandlerTrusted, DataPcs
<1>3. CASE UNCHANGED <<ring, canary, refs>>
  BY <1>1, <1>2, <1>3, MaterialMove
<1>4. CASE Batch(h)
  <2>1. CanaryKept
    BY <1>1, <1>4, BatchCanaries
  <2>2. ASSUME NEW g \in Handlers, g # h PROVE HandlerTrusted(ring', canary', handlers'[g])
    <3>1. handlers[g] \in HandlerRow /\ HandlerTrusted(ring, canary, handlers[g])
      BY <1>0 DEF HandlersOK, MaterialInv
    <3>2. QED
      BY <1>1, <2>1, <2>2, <3>1, HandlerTrustKept
  <2>3. QED
    BY <1>1, <1>2, <1>4, <2>2, BatchMaterial DEF MaterialInv
<1>5. QED
  BY <1>1, <1>3, <1>4

LEMMA MaterialWrites ==
  ASSUME KInv, MaterialInv, Writes, UNCHANGED <<ring, canary>>
  PROVE  MaterialInv'
<1>1. PICK hs \in SUBSET Handlers, rs \in SUBSET Rows,
           ref \in {NoRef} \cup {Ref(handlers[h].m) : h \in {g \in Handlers : handlers[g].pc \in DataPcs}} :
        /\ \A g \in Handlers : handlers'[g] = IF g \in hs THEN AtRest ELSE Forgets(handlers[g], rs)
        /\ \A r \in Rows : refs'[r] = IF r \in rs THEN ref ELSE refs[r]
  BY WritesFacts
<1>2. RowTrusted(ring, canary, ref)
  <2>1. CASE ref = NoRef
    BY <2>1 DEF RowTrusted
  <2>2. ASSUME NEW h \in Handlers, handlers[h].pc \in DataPcs, ref = Ref(handlers[h].m)
        PROVE  RowTrusted(ring, canary, ref)
    <3>1. handlers[h].m \in Deployed /\ Trusted(ring, canary, handlers[h].m)
      BY <2>2 DEF KInv, HandlersOK, HandlerRow, MaterialInv, HandlerTrusted
    <3>2. handlers[h].m.active \in handlers[h].m.readable
      BY <3>1, ManifestFacts
    <3>3. QED
      BY <2>2, <3>1, <3>2, LegacyFacts DEF RowTrusted, Trusted, Canaried, Ref
  <2>3. QED
    BY <1>1, <2>1, <2>2
<1>3. \A r \in Rows : RowTrusted(ring', canary', refs'[r])
  BY <1>1, <1>2 DEF MaterialInv
<1>4. ASSUME NEW g \in Handlers PROVE HandlerTrusted(ring', canary', handlers'[g])
  <2>1. CASE g \in hs
    BY <1>1, <2>1, RestIsARow DEF HandlerTrusted, DataPcs
  <2>2. CASE g \notin hs
    <3>1. handlers[g] \in HandlerRow /\ handlers'[g] = Forgets(handlers[g], rs)
      BY <1>1, <2>2 DEF KInv, HandlersOK
    <3>2. LET c == handlers[g] d == handlers'[g]
          IN  d.pc = c.pc /\ d.op = c.op /\ d.m = c.m /\ d.key = c.key
      BY <3>1, RowForgets
    <3>3. HandlerTrusted(ring, canary, handlers[g])
      BY DEF MaterialInv
    <3>4. QED
      BY <3>2, <3>3 DEF HandlerTrusted
  <2>3. QED
    BY <2>1, <2>2
<1>5. QED
  BY <1>3, <1>4 DEF MaterialInv

LEMMA StepMaterial == ASSUME LegacyKeyKept PROVE KInv /\ MaterialInv /\ [KeyNext]_keyVars => MaterialInv'
<1> SUFFICES ASSUME KInv, MaterialInv, [KeyNext]_keyVars PROVE MaterialInv'
  OBVIOUS
<1>0. HandlersOK
  BY DEF KInv
<1>1. ASSUME NEW h \in Handlers, NEW cmd \in Commands, NEW c \in Requests(cmd), BeginCommand(h, c)
      PROVE  MaterialInv'
  <2> DEFINE holding == {r \in Rows : refs[r] # NoRef}
             d == [c EXCEPT !.used = {refs[r].key : r \in holding}, !.seen = holding]
  <2>1. UNCHANGED <<refs, ring, canary>> /\ (UNCHANGED handlers \/ Goes(h, d))
    BY <1>1 DEF BeginCommand
  <2>2. d \in HandlerRow /\ CommandOK(d) /\ d.pc = "inspect"
    BY CountedRow
  <2> HIDE DEF d
  <2>3. CASE UNCHANGED handlers
    BY <2>1, <2>3 DEF MaterialInv
  <2>4. CASE Goes(h, d)
    <3>1. handlers'[h] = d /\ \A g \in Handlers : g # h => handlers'[g] = handlers[g]
      BY <1>0, <2>2, <2>4, GoesOK
    <3>2. HandlerTrusted(ring', canary', handlers'[h])
      BY <2>2, <3>1 DEF HandlerTrusted, DataPcs
    <3>3. QED
      BY <2>1, <3>1, <3>2, MaterialMove
  <2>5. QED
    BY <2>1, <2>3, <2>4
<1>2. ASSUME NEW h \in Handlers, Ends(h), UNCHANGED <<refs, ring, canary>> PROVE MaterialInv'
  <2>1. HandlerTrusted(ring', canary', handlers'[h])
    BY <1>0, <1>2, EndsOK, RestIsARow DEF HandlerTrusted, DataPcs
  <2>2. QED
    BY <1>0, <1>2, <2>1, EndsOK, MaterialMove
<1>3. ASSUME NEW h \in Handlers, InspectDomain(h) PROVE MaterialInv'
  <2>1. handlers[h].pc = "inspect" /\ UNCHANGED <<refs, ring, canary>>
    BY <1>3 DEF InspectDomain
  <2>2. CASE Admitted(handlers[h])
    <3> DEFINE c == handlers[h]
    <3>1. /\ c.op = "apply" => Canaried(canary, c.m)
          /\ c.op = "baseline" => c.m.material[c.key] = Recovery[c.key]
      BY <2>2, KeyAssumption DEF Admitted, ReadyForApply, InspectCanary, CanaryOf, Canaried
    <3>2. Becomes(h, "commit")
      BY <1>3, <2>2 DEF InspectDomain
    <3>3. /\ LET d == handlers'[h] IN d.pc = "commit" /\ d.op = c.op /\ d.m = c.m /\ d.key = c.key
          /\ \A g \in Handlers : g # h => handlers'[g] = handlers[g]
      BY <1>0, <2>1, <3>2, BecomesOK DEF CommandPcs
    <3> HIDE DEF c
    <3>4. HandlerTrusted(ring', canary', handlers'[h])
      BY <2>1, <3>1, <3>3 DEF HandlerTrusted, DataPcs
    <3>5. QED
      BY <2>1, <3>3, <3>4, MaterialMove
  <2>3. QED
    BY <1>2, <1>3, <2>1, <2>2 DEF InspectDomain
<1>4. ASSUME NEW h \in Handlers, NEW pc \in DataPcs, NEW m \in Deployed, Begins(h, pc, m) PROVE MaterialInv'
  <2>1. PICK d \in HandlerRow : Goes(h, d) /\ DataRowOK(d, pc, m)
    BY <1>4 DEF Begins
  <2>2. handlers'[h] = d /\ \A g \in Handlers : g # h => handlers'[g] = handlers[g]
    BY <1>0, <2>1, GoesOK DEF DataRowOK
  <2>3. Trusted(ring, canary, m) /\ UNCHANGED <<refs, ring, canary>>
    BY <1>4 DEF Begins, Enforced, MaterialInv
  <2>4. HandlerTrusted(ring', canary', handlers'[h])
    BY <2>1, <2>2, <2>3 DEF HandlerTrusted, DataRowOK, DataPcs
  <2>5. QED
    BY <2>2, <2>3, <2>4, MaterialMove
<1>5. ASSUME NEW h \in Handlers, NEW pc \in DataPcs, handlers[h].pc \in DataPcs, Becomes(h, pc),
             UNCHANGED <<refs, ring, canary>>
      PROVE  MaterialInv'
  <2>1. /\ handlers'[h].pc = pc /\ handlers'[h].m = handlers[h].m
        /\ \A g \in Handlers : g # h => handlers'[g] = handlers[g]
    BY <1>0, <1>5, BecomesOK DEF CommandPcs, DataPcs
  <2>2. HandlerTrusted(ring', canary', handlers'[h])
    BY <1>5, <2>1 DEF HandlerTrusted, DataPcs, MaterialInv
  <2>3. QED
    BY <1>5, <2>1, <2>2, MaterialMove
<1>6. ASSUME NEW h \in Handlers, Proceeds(h), UNCHANGED <<ring, canary>> PROVE MaterialInv'
  <2>1. CASE LookUp(h)
    BY <1>2, <1>5, <1>6, <2>1 DEF LookUp, DataPcs
  <2>2. CASE ClaimAgentNonce(h)
    BY <1>2, <1>5, <1>6, <2>2 DEF ClaimAgentNonce, DataPcs
  <2>3. QED
    BY <1>2, <1>6, <2>1, <2>2, MaterialWrites DEF Proceeds
<1>7. ASSUME NEW h \in Handlers, Reread(h) PROVE MaterialInv'
  BY <1>2, <1>7 DEF Reread
<1>8. CASE UNCHANGED keyVars
  BY <1>8 DEF keyVars, MaterialInv
<1>9. ASSUME NEW r \in Rows, EraseRow(r) PROVE MaterialInv'
  BY <1>9, EraseWrites, MaterialWrites
<1>10. QED
  BY <1>1, <1>3, <1>4, <1>6, <1>7, <1>8, <1>9, KeySteps, MaterialCommand, DataBegins, DataProceeds

(* A key id means one material for as long as rows are stored under it, for
   all deployments whose manifests leave the first key its material: canaries
   are made once, a manifest is applied under its canaries, and a request
   writes under a keyring that was in force when it began. *)
THEOREM KeyMaterialSafe == ASSUME LegacyKeyKept PROVE KeySpec => []OneMaterialPerKey
<1>1. KeyInit => MaterialInv
  BY InitMaterial
<1>2. KInv /\ MaterialInv /\ [KeyNext]_keyVars => MaterialInv'
  BY StepMaterial
<1>3. QED
  BY <1>1, <1>2, KInvAlways, MaterialGives, PTL DEF KeySpec

---------------------------------------------------------------------------
(***************************************************************************)
(* The supplier node.  A claim counts as in force at the time of the next  *)
(* reader of the maps: the handler that is running, or one yet to begin.   *)
(* For that reader no two lines of the journal are about the same key, a   *)
(* healthy process knows exactly the lines of its journal, and the lines   *)
(* of accepted nonces and of upstream calls are there.                     *)
(***************************************************************************)
Reader == IF turn.pc = "idle" THEN now ELSE turn.at
ClaimType == [exp : Times \cup {-1}, body : Bodies \cup {NoBody}]
CallType == [ts : Nat, id : Ids \cup {NoId}, body : Bodies \cup {NoBody}]
RunType == [id : Ids, body : Bodies \cup {NoBody}, claimed : Nat, at : Nat, st : {"running", "done", "gone"}]

(* The line of claim c of key k is in journal j. *)
OnDisk(j, k, c) == LineOf(k, c) \in DOMAIN j

JournalType(j) == IsABag(j) /\ DOMAIN j \subseteq Line

(* No reader at time t refuses j. *)
Sole(j, t) ==
  /\ \A r \in DOMAIN j, s \in DOMAIN j : Live(r.exp, t) /\ Live(s.exp, t) /\ r.key = s.key => r = s
  /\ \A r \in DOMAIN j : Live(r.exp, t) => j[r] = 1

(* The claims cl in memory are those of j. *)
Mirrored(j, cl, t) ==
  /\ \A r \in DOMAIN j : Live(r.exp, t) => r = LineOf(r.key, cl[r.key])
  /\ \A k \in Keys : Live(cl[k].exp, t) => OnDisk(j, k, cl[k])

(* What is in force stays. *)
Lasting(j, jn, t) == \A r \in DOMAIN j : Live(r.exp, t) => r \in DOMAIN jn

LEMMA NumberFacts == Times \subseteq Nat /\ Window \in Nat /\ TTL \in Nat /\ MaxTime \in Nat /\ 0 \in Times
BY NodeAssumption DEF Times

LEMMA Appended ==
  ASSUME NEW j, JournalType(j), NEW t \in Nat, Sole(j, t),
         NEW l \in Line, \A r \in DOMAIN j : Live(r.exp, t) => r.key # l.key
  PROVE  LET jn == j (+) SetToBag({l})
         IN  JournalType(jn) /\ Sole(jn, t) /\ Lasting(j, jn, t) /\ DOMAIN jn = DOMAIN j \cup {l}
<1> DEFINE jn == j (+) SetToBag({l})
<1>1. /\ DOMAIN jn = DOMAIN j \cup {l}
      /\ \A r \in DOMAIN j : r # l => jn[r] = j[r]
      /\ l \notin DOMAIN j => jn[l] = 1
      /\ JournalType(jn)
  BY DEF (+), SetToBag, JournalType, IsABag
<1> HIDE DEF jn
<1>2. l \in DOMAIN j => ~Live(l.exp, t)
  OBVIOUS
<1>3. Sole(jn, t)
  BY <1>1, <1>2 DEF Sole
<1>4. QED
  BY <1>1, <1>3 DEF Lasting, jn

LEMMA CompactedFacts ==
  ASSUME NEW cl \in [Keys -> ClaimType], NEW t \in Nat
  PROVE  LET jn == Compacted(cl, t)
         IN  JournalType(jn) /\ Sole(jn, t) /\ Mirrored(jn, cl, t)
<1> DEFINE jn == Compacted(cl, t)
           S == {LineOf(k, cl[k]) : k \in {q \in Keys : Live(cl[q].exp, t)}}
<1>1. DOMAIN jn = S /\ \A r \in S : jn[r] = 1
  BY DEF Compacted, SetToBag
<1>2. \A r \in S : r \in Line /\ r = LineOf(r.key, cl[r.key])
  <2> SUFFICES ASSUME NEW k \in Keys, Live(cl[k].exp, t)
               PROVE  LineOf(k, cl[k]) \in Line /\ LineOf(k, cl[k]).key = k
    OBVIOUS
  <2>1. cl[k] \in ClaimType /\ cl[k].exp # -1
    BY DEF Live
  <2>2. QED
    BY <2>1 DEF LineOf, Line, ClaimType
<1>3. \A k \in Keys : Live(cl[k].exp, t) => LineOf(k, cl[k]) \in S
  OBVIOUS
<1> HIDE DEF S, jn
<1>4. JournalType(jn)
  <2>1. jn = [e \in S |-> 1]
    BY DEF jn, S, Compacted, SetToBag
  <2>2. QED
    BY <1>1, <1>2, <2>1 DEF JournalType, IsABag
<1>5. Sole(jn, t)
  BY <1>1, <1>2 DEF Sole
<1>6. Mirrored(jn, cl, t)
  BY <1>1, <1>2, <1>3 DEF Mirrored, OnDisk
<1>7. QED
  BY <1>4, <1>5, <1>6 DEF jn

LEMMA CompactedKeeps ==
  ASSUME NEW j, JournalType(j), NEW cl, NEW t, Mirrored(j, cl, t)
  PROVE  Lasting(j, Compacted(cl, t), t)
<1> SUFFICES ASSUME NEW r \in DOMAIN j, Live(r.exp, t) PROVE r \in DOMAIN Compacted(cl, t)
  BY DEF Lasting
<1>1. r = LineOf(r.key, cl[r.key]) /\ r.key \in Keys
  BY DEF Mirrored, JournalType, Line
<1>2. Live(cl[r.key].exp, t)
  BY <1>1 DEF LineOf
<1>3. QED
  BY <1>1, <1>2 DEF Compacted, SetToBag

(* A claim that is taken at time t by a healthy process. *)
LEMMA Claimed ==
  ASSUME JournalType(journal), claims \in [Keys -> ClaimType], NEW t \in Nat, Sole(journal, t),
         Mirrored(journal, claims, t), NEW k \in Keys, ~Live(claims[k].exp, t),
         NEW c \in ClaimType, Live(c.exp, t)
  PROVE  /\ Journaled(k, c, t) => /\ claims' = [claims EXCEPT ![k] = c] /\ claims' \in [Keys -> ClaimType]
                                  /\ JournalType(journal') /\ Sole(journal', t)
                                  /\ Mirrored(journal', claims', t) /\ Lasting(journal, journal', t)
                                  /\ OnDisk(journal', k, c)
         /\ JournalFails(k, c, t) => /\ claims' \in [Keys -> ClaimType] /\ JournalType(journal')
                                     /\ Sole(journal', t) /\ Lasting(journal, journal', t)
<1> DEFINE l == LineOf(k, c)
           jn == journal (+) SetToBag({l})
<1>1. l \in Line /\ l.key = k /\ l.exp = c.exp
  <2>1. c.exp # -1
    BY DEF Live
  <2>2. QED
    BY <2>1 DEF LineOf, Line, ClaimType
<1>2. \A r \in DOMAIN journal : Live(r.exp, t) => r.key # l.key
  <2> SUFFICES ASSUME NEW r \in DOMAIN journal, Live(r.exp, t), r.key = k PROVE FALSE
    BY <1>1
  <2>1. r = LineOf(k, claims[k])
    BY DEF Mirrored
  <2>2. QED
    BY <2>1 DEF LineOf
<1>3. JournalType(jn) /\ Sole(jn, t) /\ Lasting(journal, jn, t) /\ DOMAIN jn = DOMAIN journal \cup {l}
  BY <1>1, <1>2, Appended
<1>4. ASSUME Journaled(k, c, t)
      PROVE  /\ claims' = [claims EXCEPT ![k] = c] /\ claims' \in [Keys -> ClaimType]
             /\ JournalType(journal') /\ Sole(journal', t)
             /\ Mirrored(journal', claims', t) /\ Lasting(journal, journal', t)
             /\ OnDisk(journal', k, c)
  <2> DEFINE cl == [claims EXCEPT ![k] = c]
  <2>1. claims' = cl /\ (journal' = jn \/ journal' = Compacted(cl, t))
    BY <1>4 DEF Journaled, Claim
  <2>2. cl \in [Keys -> ClaimType] /\ cl[k] = c /\ \A q \in Keys : q # k => cl[q] = claims[q]
    OBVIOUS
  <2> HIDE DEF cl, jn, l
  <2>3. CASE journal' = jn
    <3>1. Mirrored(jn, cl, t)
      <4>1. ASSUME NEW r \in DOMAIN jn, Live(r.exp, t) PROVE r = LineOf(r.key, cl[r.key])
        <5>1. CASE r = l
          BY <1>1, <2>2, <5>1 DEF l
        <5>2. CASE r # l
          <6>1. r \in DOMAIN journal /\ r.key # k /\ r.key \in Keys
            BY <1>1, <1>2, <1>3, <4>1, <5>2 DEF JournalType, Line
          <6>2. QED
            BY <2>2, <4>1, <6>1 DEF Mirrored
        <5>3. QED
          BY <5>1, <5>2
      <4>2. ASSUME NEW q \in Keys, Live(cl[q].exp, t) PROVE OnDisk(jn, q, cl[q])
        <5>1. CASE q = k
          BY <1>3, <2>2, <5>1 DEF OnDisk, l
        <5>2. CASE q # k
          BY <1>3, <2>2, <4>2, <5>2 DEF Mirrored, OnDisk
        <5>3. QED
          BY <5>1, <5>2
      <4>3. QED
        BY <4>1, <4>2 DEF Mirrored
    <3>2. QED
      BY <1>3, <2>1, <2>2, <2>3, <3>1 DEF OnDisk, l, cl
  <2>4. CASE journal' = Compacted(cl, t)
    <3>1. JournalType(journal') /\ Sole(journal', t) /\ Mirrored(journal', cl, t)
      BY <2>2, <2>4, CompactedFacts
    <3>2. Lasting(journal, journal', t)
      <4> SUFFICES ASSUME NEW r \in DOMAIN journal, Live(r.exp, t) PROVE r \in DOMAIN journal'
        BY DEF Lasting
      <4>1. r = LineOf(r.key, claims[r.key]) /\ r.key \in Keys /\ r.key # k
        BY <1>1, <1>2 DEF Mirrored, JournalType, Line
      <4>2. cl[r.key] = claims[r.key] /\ Live(cl[r.key].exp, t)
        BY <2>2, <4>1 DEF LineOf
      <4>3. QED
        BY <3>1, <4>1, <4>2 DEF Mirrored, OnDisk
    <3>3. OnDisk(journal', k, c)
      BY <2>2, <3>1 DEF Mirrored
    <3>4. QED
      BY <2>1, <2>2, <3>1, <3>2, <3>3 DEF cl
  <2>5. QED
    BY <2>1, <2>3, <2>4
<1>5. ASSUME JournalFails(k, c, t)
      PROVE  /\ claims' \in [Keys -> ClaimType] /\ JournalType(journal')
             /\ Sole(journal', t) /\ Lasting(journal, journal', t)
  <2>1. CASE Journaled(k, c, t)
    BY <1>4, <2>1
  <2>2. CASE claims' = claims /\ journal' \in {journal, jn, Compacted(claims, t)}
    <3>1. Lasting(journal, journal, t)
      BY DEF Lasting
    <3>2. /\ JournalType(Compacted(claims, t)) /\ Sole(Compacted(claims, t), t)
          /\ Lasting(journal, Compacted(claims, t), t)
      BY CompactedFacts, CompactedKeeps
    <3> HIDE DEF jn
    <3>3. QED
      BY <1>3, <2>2, <3>1, <3>2
  <2>3. QED
    BY <1>5, <2>1, <2>2 DEF JournalFails
<1>6. QED
  BY <1>4, <1>5

NonceLine(n, c) == LineOf(n, NonceClaim(c))
RunLine(x) == [key |-> x.id, exp |-> x.claimed + TTL, body |-> x.body]

(* A journal j tells a reader at time t of every nonce that was accepted and of
   every upstream call that was started, as long as it matters. *)
NoncesKept(sn, ac, j, t) ==
  \A n \in Nonces : /\ ac[n] <= 1
                    /\ ac[n] = 1 => /\ sn[n] \in CallType
                                    /\ Live(sn[n].ts + Window, t) => NonceLine(n, sn[n]) \in DOMAIN j
RunsKept(rs, j, t) ==
  \A r \in DOMAIN rs : Live(rs[r].claimed + TTL, t) => RunLine(rs[r]) \in DOMAIN j
Durable(sn, ac, rs, j, t) ==
  JournalType(j) /\ Sole(j, t) /\ NoncesKept(sn, ac, j, t) /\ RunsKept(rs, j, t)

NodeTyped ==
  /\ now \in 0..MaxTime
  /\ sent \in [Nonces -> {NoCall} \cup CallType]
  /\ node \in [up : BOOLEAN, draining : BOOLEAN, healthy : BOOLEAN]
  /\ claims \in [Keys -> ClaimType]
  /\ turn \in [pc : {"idle", "request", "execute"}, nonce : Nonces \cup {NoNonce}, at : 0..now]
  /\ runs \in Seq(RunType) /\ accepted \in [Nonces -> Nat]

(* The handler that is running serves an inference, in a healthy process. *)
TurnOK ==
  turn.pc # "idle" => /\ node.up /\ node.healthy /\ turn.nonce \in Nonces
                      /\ sent[turn.nonce] \in CallType
                      /\ sent[turn.nonce].id \in Ids /\ sent[turn.nonce].body \in Bodies

(* What is about to be executed was claimed, and no earlier call for the
   request is still in the time of its claim. *)
ExecuteOK ==
  turn.pc = "execute" => /\ OnDisk(journal, sent[turn.nonce].id, RequestClaim(turn.nonce))
                         /\ \A r \in DOMAIN runs :
                              runs[r].id = sent[turn.nonce].id => ~Live(runs[r].claimed + TTL, turn.at)

NodeInv ==
  /\ NodeTyped /\ Durable(sent, accepted, runs, journal, Reader)
  /\ node.up /\ node.healthy => Mirrored(journal, claims, Reader)
  /\ TurnOK /\ ExecuteOK /\ BilledOnce

LEMMA NodeInit == Init => NodeInv
<1> SUFFICES ASSUME Init PROVE NodeInv
  OBVIOUS
<1> USE DEF Init
<1>1. NodeTyped
  BY NumberFacts DEF NodeTyped, CallType, NoCall, Down, NoClaim, ClaimType, Idle
<1>2. DOMAIN journal = {} /\ IsABag(journal)
  BY DEF EmptyBag, SetToBag, IsABag
<1>3. DOMAIN runs = {}
  OBVIOUS
<1>4. Durable(sent, accepted, runs, journal, Reader)
  BY <1>2, <1>3 DEF Durable, JournalType, Sole, NoncesKept, RunsKept
<1>5. ~node.up /\ turn.pc = "idle"
  BY DEF Down, Idle
<1>6. QED
  BY <1>1, <1>3, <1>4, <1>5 DEF NodeInv, TurnOK, ExecuteOK, BilledOnce

(* What holds for a reader holds for a later one. *)
LEMMA LaterReader ==
  ASSUME NEW t \in Nat, NEW u \in Nat, t <= u, NEW j, JournalType(j)
  PROVE  /\ Sole(j, t) => Sole(j, u)
         /\ \A cl \in [Keys -> ClaimType] : Mirrored(j, cl, t) => Mirrored(j, cl, u)
         /\ \A rs \in Seq(RunType) : RunsKept(rs, j, t) => RunsKept(rs, j, u)
         /\ \A sn, ac : NoncesKept(sn, ac, j, t) => NoncesKept(sn, ac, j, u)
         /\ \A jn : Lasting(j, jn, t) => Lasting(j, jn, u)
<1>1. \A x \in Int : Live(x, u) => Live(x, t)
  BY DEF Live
<1>2. ASSUME NEW r \in DOMAIN j PROVE r.exp \in Int
  <2>1. r \in Line
    BY DEF JournalType
  <2>2. r.exp \in Times
    BY <2>1 DEF Line
  <2>3. QED
    BY <2>2 DEF Times
<1>3. ASSUME NEW cl \in [Keys -> ClaimType], NEW k \in Keys PROVE cl[k].exp \in Int
  <2>1. cl[k].exp \in Times \cup {-1}
    BY DEF ClaimType
  <2>2. QED
    BY <2>1 DEF Times
<1>4. ASSUME NEW rs \in Seq(RunType), NEW r \in DOMAIN rs PROVE rs[r].claimed + TTL \in Int
  <2>1. rs[r] \in RunType
    OBVIOUS
  <2>2. rs[r].claimed \in Nat
    BY <2>1 DEF RunType
  <2>3. QED
    BY <2>2, NumberFacts
<1>5. ASSUME NEW c \in CallType PROVE c.ts + Window \in Int
  <2>1. c.ts \in Nat
    BY DEF CallType
  <2>2. QED
    BY <2>1, NumberFacts
<1>6. Sole(j, t) => Sole(j, u)
  BY <1>1, <1>2 DEF Sole
<1>7. \A cl \in [Keys -> ClaimType] : Mirrored(j, cl, t) => Mirrored(j, cl, u)
  BY <1>1, <1>2, <1>3 DEF Mirrored
<1>8. \A rs \in Seq(RunType) : RunsKept(rs, j, t) => RunsKept(rs, j, u)
  BY <1>1, <1>4 DEF RunsKept
<1>9. \A sn, ac : NoncesKept(sn, ac, j, t) => NoncesKept(sn, ac, j, u)
  BY <1>1, <1>5 DEF NoncesKept
<1>10. \A jn : Lasting(j, jn, t) => Lasting(j, jn, u)
  BY <1>1, <1>2 DEF Lasting
<1>11. QED
  BY <1>6, <1>7, <1>8, <1>9, <1>10

(* What lasts goes on telling of the nonces and the runs. *)
LEMMA LastingKeeps ==
  ASSUME NEW j, NEW jn, NEW t, Lasting(j, jn, t)
  PROVE  /\ \A rs : RunsKept(rs, j, t) => RunsKept(rs, jn, t)
         /\ \A sn, ac : NoncesKept(sn, ac, j, t) => NoncesKept(sn, ac, jn, t)
<1>1. \A rs : RunsKept(rs, j, t) => RunsKept(rs, jn, t)
  BY DEF Lasting, RunsKept, RunLine
<1>2. \A sn, ac : NoncesKept(sn, ac, j, t) => NoncesKept(sn, ac, jn, t)
  BY DEF Lasting, NoncesKept, NonceLine, LineOf, NonceClaim
<1>3. QED
  BY <1>1, <1>2

LEMMA ReaderFacts ==
  ASSUME NodeTyped
  PROVE  Reader \in Nat /\ Reader <= now /\ now \in Nat /\ turn.at \in Nat
BY NumberFacts DEF NodeTyped, Reader

(* A step that leaves the journal and the claims alone, or ends the handler. *)
LEMMA SameJournal ==
  ASSUME NodeInv, UNCHANGED <<now, sent, journal, claims, accepted>>,
         node' \in [up : BOOLEAN, draining : BOOLEAN, healthy : BOOLEAN],
         node'.up = node.up /\ node'.healthy = node.healthy,
         turn' = turn \/ turn' = Idle,
         runs' \in Seq(RunType), DOMAIN runs' = DOMAIN runs,
         \A r \in DOMAIN runs : /\ runs'[r].id = runs[r].id /\ runs'[r].body = runs[r].body
                                /\ runs'[r].claimed = runs[r].claimed
  PROVE  NodeInv'
<1>1. /\ Reader \in Nat /\ Reader' \in Nat /\ Reader <= Reader' /\ NodeTyped'
  BY ReaderFacts, NumberFacts DEF NodeInv, NodeTyped, Reader, Idle
<1>2. RunsKept(runs', journal, Reader)
  BY DEF NodeInv, Durable, RunsKept, RunLine
<1>3. Durable(sent', accepted', runs', journal', Reader')
  BY <1>1, <1>2, LaterReader DEF NodeInv, Durable
<1>4. node'.up /\ node'.healthy => Mirrored(journal', claims', Reader')
  BY <1>1, LaterReader DEF NodeInv, Durable, NodeTyped
<1>5. TurnOK' /\ ExecuteOK' /\ BilledOnce'
  <2>1. TurnOK'
    BY DEF NodeInv, TurnOK, Idle
  <2>2. BilledOnce'
    BY DEF NodeInv, BilledOnce
  <2>3. CASE turn' = turn
    BY <2>1, <2>2, <2>3 DEF NodeInv, ExecuteOK, RequestClaim
  <2>4. CASE turn' = Idle
    BY <2>1, <2>2, <2>4 DEF ExecuteOK, Idle
  <2>5. QED
    BY <2>3, <2>4
<1>6. QED
  BY <1>1, <1>3, <1>4, <1>5 DEF NodeInv

(* The claim of a nonce. *)
LEMMA NonceStep ==
  ASSUME NodeInv, NEW n \in Nonces, NEW c \in Calls, ClaimNonce(n, c) \/ ClaimNonceFails(n, c)
  PROVE  NodeInv'
<1> DEFINE e == NonceClaim(c)
<1>0. /\ NodeTyped /\ JournalType(journal) /\ claims \in [Keys -> ClaimType] /\ n \in Keys
      /\ now \in 0..MaxTime /\ now \in Nat /\ sent \in [Nonces -> {NoCall} \cup CallType]
      /\ accepted \in [Nonces -> Nat]
  BY ReaderFacts DEF NodeInv, NodeTyped, Durable, Keys
<1>1. /\ node.up /\ node.healthy /\ turn.pc = "idle" /\ sent[n] \in {NoCall, c}
      /\ ~Live(claims[n].exp, now) /\ UNCHANGED <<now, runs>> /\ sent' = [sent EXCEPT ![n] = c]
  BY DEF ClaimNonce, ClaimNonceFails, NonceFree, NonceTaken
<1>2. /\ Reader = now /\ Sole(journal, now) /\ Mirrored(journal, claims, now)
      /\ NoncesKept(sent, accepted, journal, now) /\ RunsKept(runs, journal, now)
  BY <1>1 DEF Reader, NodeInv, Durable
<1>3. /\ c \in CallType /\ c.ts + Window \in Times /\ Live(c.ts + Window, now)
      /\ c.id # NoId => c.id \in Ids /\ c.body \in Bodies
  <2>1. c.ts \in Nat /\ c.ts >= now - Window /\ c.ts <= now + Window
    BY <1>0, NumberFacts DEF Calls
  <2>2. c \in CallType /\ (c.id # NoId => c.id \in Ids /\ c.body \in Bodies)
    BY <1>0, NumberFacts DEF Calls, CallType
  <2>3. c.ts + Window \in Times /\ Live(c.ts + Window, now)
    BY <1>0, <2>1, NumberFacts DEF Times, Live
  <2>4. QED
    BY <2>2, <2>3
<1>4. e \in ClaimType /\ e.exp = c.ts + Window /\ Live(e.exp, now)
  BY <1>3 DEF NonceClaim, ClaimType
<1>5. accepted[n] = 0
  <2>1. SUFFICES ASSUME accepted[n] = 1 PROVE FALSE
    BY <1>0, <1>2 DEF NoncesKept
  <2>2. sent[n] = c
    BY <1>1, <1>2, <2>1 DEF NoncesKept, NoCall, CallType
  <2>3. NonceLine(n, c) \in DOMAIN journal
    BY <1>2, <1>3, <2>1, <2>2 DEF NoncesKept
  <2>4. NonceLine(n, c) = LineOf(n, claims[n])
    BY <1>2, <1>4, <2>3 DEF Mirrored, NonceLine, LineOf
  <2>5. claims[n].exp = c.ts + Window
    BY <1>4, <2>4 DEF NonceLine, LineOf
  <2>6. QED
    BY <1>1, <1>3, <2>5
<1> HIDE DEF e
<1>6. /\ claims' \in [Keys -> ClaimType] /\ JournalType(journal') /\ Sole(journal', now)
      /\ Lasting(journal, journal', now)
      /\ ClaimNonce(n, c) => Mirrored(journal', claims', now) /\ OnDisk(journal', n, e)
  <2>1. CASE Journaled(n, e, now)
    BY <1>0, <1>1, <1>2, <1>4, <2>1, Claimed
  <2>2. CASE JournalFails(n, e, now) /\ ~ClaimNonce(n, c)
    BY <1>0, <1>1, <1>2, <1>4, <2>2, Claimed
  <2>3. QED
    BY <2>1, <2>2 DEF ClaimNonce, ClaimNonceFails, e
<1>7. RunsKept(runs, journal', now) /\ NoncesKept(sent, accepted, journal', now)
  BY <1>2, <1>6, LastingKeeps
<1>8. /\ turn' = turn \/ (turn' = Idle /\ ClaimNonce(n, c))
         \/ (turn' = [pc |-> "request", nonce |-> n, at |-> now] /\ c.id # NoId /\ ClaimNonce(n, c))
      /\ accepted' = accepted \/ (accepted' = [accepted EXCEPT ![n] = @ + 1] /\ ClaimNonce(n, c))
      /\ node' = node \/ (node' = [node EXCEPT !.healthy = FALSE] /\ ~ClaimNonce(n, c))
      /\ ClaimNonce(n, c) \/ UNCHANGED turn
  <2>1. CASE ClaimNonce(n, c)
    BY <2>1 DEF ClaimNonce, NonceTaken
  <2>2. CASE ClaimNonceFails(n, c) /\ ~ClaimNonce(n, c)
    BY <2>2 DEF ClaimNonceFails, JournalFails
  <2>3. QED
    BY <2>1, <2>2
<1>9. NodeTyped' /\ Reader' = now
  <2>1. node' \in [up : BOOLEAN, draining : BOOLEAN, healthy : BOOLEAN]
    BY <1>0, <1>8 DEF NodeTyped
  <2>2. /\ turn' \in [pc : {"idle", "request", "execute"}, nonce : Nonces \cup {NoNonce}, at : 0..now]
        /\ turn'.pc # "idle" => turn'.at = now
    <3>1. CASE turn' = turn
      BY <1>0, <1>1, <3>1 DEF NodeTyped
    <3>2. CASE turn' # turn
      BY <1>0, <1>8, <3>2 DEF Idle
    <3>3. QED
      BY <3>1, <3>2
  <2>3. sent' \in [Nonces -> {NoCall} \cup CallType] /\ accepted' \in [Nonces -> Nat]
    BY <1>0, <1>1, <1>3, <1>8
  <2>4. QED
    BY <1>0, <1>1, <1>6, <2>1, <2>2, <2>3 DEF NodeTyped, Reader
<1>10. NoncesKept(sent', accepted', journal', now)
  <2>1. ASSUME NEW m \in Nonces, m # n
        PROVE  sent'[m] = sent[m] /\ accepted'[m] = accepted[m]
    BY <1>0, <1>1, <1>8, <2>1
  <2>2. sent'[n] = c /\ accepted'[n] <= 1
    BY <1>0, <1>1, <1>5, <1>8
  <2>3. accepted'[n] = 1 => NonceLine(n, c) \in DOMAIN journal'
    BY <1>0, <1>5, <1>6, <1>8 DEF NonceLine, OnDisk, e
  <2>4. QED
    BY <1>3, <1>7, <2>1, <2>2, <2>3 DEF NoncesKept
<1>11. Durable(sent', accepted', runs', journal', Reader')
  BY <1>1, <1>6, <1>7, <1>9, <1>10 DEF Durable
<1>12. node'.up /\ node'.healthy => Mirrored(journal', claims', Reader')
  <2>1. ~ClaimNonce(n, c) => ~node'.healthy
    <3>1. ClaimNonceFails(n, c) => node' = [node EXCEPT !.healthy = FALSE]
      BY DEF ClaimNonceFails, JournalFails
    <3>2. node' = [node EXCEPT !.healthy = FALSE] => ~node'.healthy
      BY <1>0 DEF NodeTyped
    <3>3. QED
      BY <3>1, <3>2
  <2>2. QED
    BY <1>6, <1>9, <2>1
<1>13. TurnOK' /\ ExecuteOK' /\ BilledOnce'
  <2>1. TurnOK'
    BY <1>0, <1>1, <1>3, <1>8 DEF TurnOK, Idle, NodeTyped
  <2>2. ExecuteOK'
    BY <1>1, <1>8 DEF ExecuteOK, Idle
  <2>3. BilledOnce'
    BY <1>1 DEF NodeInv, BilledOnce
  <2>4. QED
    BY <2>1, <2>2, <2>3
<1>14. QED
  BY <1>9, <1>11, <1>12, <1>13 DEF NodeInv

(* The claim of a request. *)
LEMMA RequestStep ==
  ASSUME NodeInv, ClaimRequest \/ ClaimRequestFails
  PROVE  NodeInv'
<1> DEFINE n == turn.nonce
           i == sent[n].id
           t == turn.at
           e == RequestClaim(n)
<1>0. /\ NodeTyped /\ JournalType(journal) /\ claims \in [Keys -> ClaimType]
      /\ t \in 0..now /\ now \in 0..MaxTime /\ now \in Nat /\ t \in Nat
      /\ runs \in Seq(RunType)
  BY ReaderFacts DEF NodeInv, NodeTyped, Durable
<1>1. /\ turn.pc = "request" /\ ~Live(claims[i].exp, t) /\ UNCHANGED <<now, runs, sent, accepted>>
  BY DEF ClaimRequest, ClaimRequestFails, RequestFree
<1>2. /\ node.up /\ node.healthy /\ n \in Nonces /\ i \in Ids /\ sent[n].body \in Bodies /\ i \in Keys
  BY <1>1 DEF NodeInv, TurnOK, Keys
<1>3. /\ Reader = t /\ Sole(journal, t) /\ Mirrored(journal, claims, t)
      /\ NoncesKept(sent, accepted, journal, t) /\ RunsKept(runs, journal, t)
  BY <1>1, <1>2 DEF Reader, NodeInv, Durable
<1>4. e \in ClaimType /\ Live(e.exp, t) /\ e.exp = t + TTL
  <2>1. t + TTL \in Times /\ Live(t + TTL, t)
    BY <1>0, NumberFacts DEF Times, Live
  <2>2. QED
    BY <1>2, <2>1 DEF RequestClaim, ClaimType
<1>5. \A r \in DOMAIN runs : runs[r].id = i => ~Live(runs[r].claimed + TTL, t)
  <2> SUFFICES ASSUME NEW r \in DOMAIN runs, runs[r].id = i, Live(runs[r].claimed + TTL, t) PROVE FALSE
    OBVIOUS
  <2>1. RunLine(runs[r]) \in DOMAIN journal
    BY <1>3 DEF RunsKept
  <2>2. RunLine(runs[r]) = LineOf(i, claims[i])
    BY <1>3, <2>1 DEF Mirrored, RunLine
  <2>3. claims[i].exp = runs[r].claimed + TTL
    BY <2>2 DEF RunLine, LineOf
  <2>4. QED
    BY <1>1, <2>3
<1> HIDE DEF e
<1>6. /\ claims' \in [Keys -> ClaimType] /\ JournalType(journal') /\ Sole(journal', t)
      /\ Lasting(journal, journal', t)
      /\ ClaimRequest => Mirrored(journal', claims', t) /\ OnDisk(journal', i, e)
  <2> HIDE DEF i, t
  <2>1. CASE Journaled(i, e, t)
    BY <1>0, <1>1, <1>2, <1>3, <1>4, <2>1, Claimed
  <2>2. CASE JournalFails(i, e, t) /\ ~ClaimRequest
    BY <1>0, <1>1, <1>2, <1>3, <1>4, <2>2, Claimed
  <2>3. QED
    BY <2>1, <2>2 DEF ClaimRequest, ClaimRequestFails, e, i, t
<1>7. RunsKept(runs, journal', t) /\ NoncesKept(sent, accepted, journal', t)
  BY <1>3, <1>6, LastingKeeps
<1>8. CASE ClaimRequest
  <2>1. node' = node /\ turn' = [turn EXCEPT !.pc = "execute"]
    BY <1>8 DEF ClaimRequest
  <2>2. turn'.pc = "execute" /\ turn'.nonce = n /\ turn'.at = t
    BY <1>0, <2>1 DEF NodeTyped
  <2>3. NodeTyped' /\ Reader' = t
    BY <1>0, <1>1, <1>6, <2>1, <2>2 DEF NodeTyped, Reader
  <2>4. Durable(sent', accepted', runs', journal', Reader')
    BY <1>1, <1>6, <1>7, <2>3 DEF Durable
  <2>5. TurnOK' /\ BilledOnce'
    BY <1>1, <2>1, <2>2 DEF NodeInv, TurnOK, BilledOnce
  <2>6. ExecuteOK'
    BY <1>1, <1>5, <1>6, <1>8, <2>2 DEF ExecuteOK, RequestClaim, e
  <2>7. QED
    BY <1>6, <1>8, <2>3, <2>4, <2>5, <2>6 DEF NodeInv
<1>9. CASE ClaimRequestFails
  <2>1. node' = [node EXCEPT !.healthy = FALSE] /\ turn' = Idle
    BY <1>9 DEF ClaimRequestFails, JournalFails
  <2>2. NodeTyped' /\ Reader' = now /\ ~node'.healthy
    <3>1. node' \in [up : BOOLEAN, draining : BOOLEAN, healthy : BOOLEAN] /\ ~node'.healthy
      BY <1>0, <2>1 DEF NodeTyped
    <3>2. turn' \in [pc : {"idle", "request", "execute"}, nonce : Nonces \cup {NoNonce}, at : 0..now]
          /\ turn'.pc = "idle"
      BY <1>0, <2>1 DEF Idle
    <3>3. QED
      BY <1>0, <1>1, <1>6, <3>1, <3>2 DEF NodeTyped, Reader
  <2>3. Sole(journal', now) /\ RunsKept(runs, journal', now) /\ NoncesKept(sent, accepted, journal', now)
    BY <1>0, <1>6, <1>7, LaterReader
  <2>4. Durable(sent', accepted', runs', journal', Reader')
    BY <1>1, <1>6, <2>2, <2>3 DEF Durable
  <2>5. TurnOK' /\ BilledOnce' /\ ExecuteOK'
    BY <1>1, <2>1 DEF NodeInv, TurnOK, BilledOnce, ExecuteOK, Idle
  <2>6. QED
    BY <2>2, <2>4, <2>5 DEF NodeInv
<1>10. QED
  BY <1>8, <1>9

(* The upstream call of a request that was claimed. *)
LEMMA ExecuteStep ==
  ASSUME NodeInv, Execute
  PROVE  NodeInv'
<1> DEFINE n == turn.nonce
           i == sent[n].id
           t == turn.at
           x == Run(n)
<1>0. /\ NodeTyped /\ JournalType(journal) /\ t \in 0..now /\ now \in 0..MaxTime /\ now \in Nat /\ t \in Nat
      /\ runs \in Seq(RunType)
  BY ReaderFacts DEF NodeInv, NodeTyped, Durable
<1>1. /\ turn.pc = "execute" /\ turn' = Idle /\ runs' \in {runs, Append(runs, x)}
      /\ UNCHANGED <<now, sent, journal, node, claims, accepted>>
  BY DEF Execute
<1>2. /\ node.up /\ node.healthy /\ n \in Nonces /\ i \in Ids /\ sent[n].body \in Bodies
      /\ OnDisk(journal, i, RequestClaim(n))
      /\ \A r \in DOMAIN runs : runs[r].id = i => ~Live(runs[r].claimed + TTL, t)
  BY <1>1 DEF NodeInv, TurnOK, ExecuteOK
<1>3. /\ x \in RunType /\ x.id = i /\ x.claimed = t /\ x.body = sent[n].body
      /\ RunLine(x) = LineOf(i, RequestClaim(n))
  BY <1>0, <1>2 DEF Run, RunType, RunLine, LineOf, RequestClaim
<1>4. /\ Reader = t /\ Sole(journal, t) /\ Mirrored(journal, claims, t)
      /\ NoncesKept(sent, accepted, journal, t) /\ RunsKept(runs, journal, t) /\ claims \in [Keys -> ClaimType]
  BY <1>1, <1>2 DEF Reader, NodeInv, Durable, NodeTyped
<1> HIDE DEF x
<1>5. CASE runs' = runs
  <2>1. node' = node /\ node \in [up : BOOLEAN, draining : BOOLEAN, healthy : BOOLEAN]
    BY <1>0, <1>1 DEF NodeTyped
  <2>2. QED
    BY <1>0, <1>1, <1>5, <2>1, SameJournal
<1>6. CASE runs' = Append(runs, x)
  <2> DEFINE k == Len(runs) + 1
  <2>1. /\ runs' \in Seq(RunType) /\ k \in Nat /\ DOMAIN runs' = DOMAIN runs \cup {k}
        /\ runs'[k] = x /\ \A r \in DOMAIN runs : r \in Nat /\ r < k /\ runs'[r] = runs[r]
    BY <1>0, <1>3, <1>6
  <2> HIDE DEF k
  <2>2. RunsKept(runs', journal, t)
    BY <1>2, <1>3, <1>4, <2>1 DEF RunsKept, OnDisk
  <2>3. /\ Sole(journal, now) /\ RunsKept(runs', journal, now) /\ NoncesKept(sent, accepted, journal, now)
        /\ Mirrored(journal, claims, now)
    BY <1>0, <1>4, <2>1, <2>2, LaterReader
  <2>4. NodeTyped' /\ Reader' = now
    BY <1>0, <1>1, <2>1 DEF NodeTyped, Reader, Idle
  <2>5. BilledOnce'
    <3> SUFFICES ASSUME NEW r \in DOMAIN runs', NEW s \in DOMAIN runs', r < s, runs'[r].id = runs'[s].id
                 PROVE  ~Live(runs'[r].claimed + TTL, runs'[s].claimed)
      BY DEF BilledOnce
    <3>1. r \in DOMAIN runs /\ runs'[r] = runs[r]
      BY <2>1
    <3>2. CASE s = k
      BY <1>2, <1>3, <2>1, <3>1, <3>2
    <3>3. CASE s # k
      BY <2>1, <3>1, <3>3 DEF NodeInv, BilledOnce
    <3>4. QED
      BY <3>2, <3>3
  <2>6. TurnOK' /\ ExecuteOK'
    BY <1>1 DEF TurnOK, ExecuteOK, Idle
  <2>7. Durable(sent', accepted', runs', journal', Reader') /\ Mirrored(journal', claims', Reader')
    BY <1>0, <1>1, <2>3, <2>4 DEF Durable
  <2>8. QED
    BY <2>4, <2>5, <2>6, <2>7 DEF NodeInv
<1>7. QED
  BY <1>1, <1>5, <1>6

(* The journal is rewritten from memory, or that fails. *)
LEMMA CompactStep ==
  ASSUME NodeInv, CompactNow \/ CompactNowFails
  PROVE  NodeInv'
<1>0. /\ NodeTyped /\ JournalType(journal) /\ now \in Nat /\ claims \in [Keys -> ClaimType]
  BY ReaderFacts DEF NodeInv, NodeTyped, Durable
<1>1. /\ node.up /\ node.healthy /\ turn.pc = "idle" /\ journal' \in {journal, Compacted(claims, now)}
      /\ node' = node \/ node' = [node EXCEPT !.healthy = FALSE]
      /\ UNCHANGED <<now, sent, claims, turn, runs, accepted>>
  BY DEF CompactNow, CompactNowFails
<1>2. Reader = now /\ Reader' = now /\ Durable(sent, accepted, runs, journal, now) /\ Mirrored(journal, claims, now)
  BY <1>1 DEF Reader, NodeInv
<1>3. JournalType(journal') /\ Sole(journal', now) /\ Mirrored(journal', claims, now) /\ Lasting(journal, journal', now)
  <2>1. CASE journal' = journal
    BY <1>2, <2>1 DEF Durable, Lasting
  <2>2. CASE journal' = Compacted(claims, now)
    BY <1>0, <1>2, <2>2, CompactedFacts, CompactedKeeps
  <2>3. QED
    BY <1>1, <2>1, <2>2
<1>4. Durable(sent', accepted', runs', journal', Reader')
  BY <1>1, <1>2, <1>3, LastingKeeps DEF Durable
<1>5. NodeTyped'
  <2>1. node' \in [up : BOOLEAN, draining : BOOLEAN, healthy : BOOLEAN]
    BY <1>0, <1>1 DEF NodeTyped
  <2>2. QED
    BY <1>0, <1>1, <2>1 DEF NodeTyped
<1>6. TurnOK' /\ ExecuteOK' /\ BilledOnce'
  BY <1>1 DEF NodeInv, TurnOK, ExecuteOK, BilledOnce
<1>7. QED
  BY <1>1, <1>2, <1>3, <1>4, <1>5, <1>6 DEF NodeInv

(* What load reads is what is in force. *)
LEMMA LoadedFacts ==
  ASSUME JournalType(journal), Sole(journal, now)
  PROVE  Loaded \in [Keys -> ClaimType] /\ Lasting(journal, Compacted(Loaded, now), now)
<1>1. ASSUME NEW r \in LiveLines
      PROVE  /\ r \in DOMAIN journal /\ r \in Line /\ Live(r.exp, now)
             /\ \A s \in LiveLines : s.key = r.key => s = r
  BY <1>1 DEF LiveLines, BagToSet, JournalType, Sole
<1>2. ASSUME NEW k \in Keys, NEW r \in LiveLines, r.key = k
      PROVE  Loaded[k] = [exp |-> r.exp, body |-> r.body]
  <2>1. (CHOOSE s \in LiveLines : s.key = k) = r
    BY <1>1, <1>2
  <2>2. QED
    BY <1>2, <2>1 DEF Loaded
<1>3. ASSUME NEW k \in Keys PROVE Loaded[k] \in ClaimType
  <2>1. CASE \E r \in LiveLines : r.key = k
    <3>1. PICK r \in LiveLines : r.key = k
      BY <2>1
    <3>2. Loaded[k] = [exp |-> r.exp, body |-> r.body] /\ r \in Line
      BY <1>1, <1>2, <3>1
    <3>3. QED
      BY <3>2 DEF Line, ClaimType
  <2>2. CASE ~\E r \in LiveLines : r.key = k
    BY <2>2 DEF Loaded, NoClaim, ClaimType
  <2>3. QED
    BY <2>1, <2>2
<1>4. Loaded \in [Keys -> ClaimType]
  <2>1. Loaded = [k \in Keys |-> Loaded[k]]
    BY DEF Loaded
  <2>2. QED
    BY <1>3, <2>1
<1>5. ASSUME NEW r \in DOMAIN journal, Live(r.exp, now) PROVE r \in DOMAIN Compacted(Loaded, now)
  <2>1. r \in LiveLines /\ r \in Line /\ r.key \in Keys
    BY <1>5 DEF LiveLines, BagToSet, JournalType, Line
  <2>2. Loaded[r.key] = [exp |-> r.exp, body |-> r.body]
    BY <1>2, <2>1
  <2>3. LineOf(r.key, Loaded[r.key]) = r /\ Live(Loaded[r.key].exp, now)
    BY <1>5, <2>1, <2>2 DEF LineOf, Line
  <2>4. QED
    BY <2>1, <2>3 DEF Compacted, SetToBag
<1>6. QED
  BY <1>4, <1>5 DEF Lasting

(* A process starts from the journal alone. *)
LEMMA StartStep ==
  ASSUME NodeInv, Start
  PROVE  NodeInv'
<1>1. /\ ~node.up /\ node' = [Down EXCEPT !.up = TRUE] /\ claims' = Loaded
      /\ journal' = Compacted(Loaded, now) /\ UNCHANGED <<now, sent, turn, runs, accepted>>
  BY DEF Start
<1>2. turn.pc = "idle" /\ Reader = now /\ Reader' = now /\ now \in Nat /\ NodeTyped
  BY <1>1, ReaderFacts DEF NodeInv, TurnOK, Reader
<1>3. Durable(sent, accepted, runs, journal, now)
  BY <1>2 DEF NodeInv
<1>4. Loaded \in [Keys -> ClaimType] /\ Lasting(journal, journal', now)
  BY <1>1, <1>3, LoadedFacts DEF Durable
<1>5. JournalType(journal') /\ Sole(journal', now) /\ Mirrored(journal', claims', now)
  BY <1>1, <1>2, <1>4, CompactedFacts
<1>6. Durable(sent', accepted', runs', journal', Reader')
  BY <1>1, <1>2, <1>3, <1>4, <1>5, LastingKeeps DEF Durable
<1>7. NodeTyped'
  BY <1>1, <1>2, <1>4 DEF NodeTyped, Down
<1>8. TurnOK' /\ ExecuteOK' /\ BilledOnce'
  BY <1>1, <1>2 DEF NodeInv, TurnOK, ExecuteOK, BilledOnce
<1>9. QED
  BY <1>2, <1>5, <1>6, <1>7, <1>8 DEF NodeInv

(* The process ends: the journal is all that stays. *)
LEMMA CrashStep ==
  ASSUME NodeInv, Crash
  PROVE  NodeInv'
<1>1. /\ node' = Down /\ claims' = [k \in Keys |-> NoClaim] /\ turn' = Idle
      /\ runs' = [r \in DOMAIN runs |-> [runs[r] EXCEPT !.st = "gone"]]
      /\ UNCHANGED <<now, sent, journal, accepted>>
  BY DEF Crash
<1>2. /\ NodeTyped /\ Reader \in Nat /\ now \in Nat /\ Reader <= now /\ Reader' = now
      /\ Durable(sent, accepted, runs, journal, Reader) /\ runs \in Seq(RunType)
  BY <1>1, ReaderFacts DEF NodeInv, NodeTyped, Reader, Idle
<1>3. /\ runs' \in Seq(RunType) /\ DOMAIN runs' = DOMAIN runs
      /\ \A r \in DOMAIN runs : runs'[r].id = runs[r].id /\ runs'[r].body = runs[r].body
                                /\ runs'[r].claimed = runs[r].claimed
  <2>1. ASSUME NEW r \in DOMAIN runs
        PROVE  /\ runs'[r] \in RunType /\ runs'[r].id = runs[r].id /\ runs'[r].body = runs[r].body
               /\ runs'[r].claimed = runs[r].claimed
    <3>1. runs[r] \in RunType /\ runs'[r] = [runs[r] EXCEPT !.st = "gone"]
      BY <1>1, <1>2
    <3>2. QED
      BY <3>1 DEF RunType
  <2>2. QED
    BY <1>1, <1>2, <2>1
<1>4. RunsKept(runs', journal, Reader)
  BY <1>2, <1>3 DEF Durable, RunsKept, RunLine
<1>5. Durable(sent', accepted', runs', journal', Reader')
  BY <1>1, <1>2, <1>3, <1>4, LaterReader DEF Durable
<1>6. NodeTyped'
  BY <1>1, <1>2, <1>3, NumberFacts DEF NodeTyped, Down, NoClaim, ClaimType, Idle
<1>7. TurnOK' /\ ExecuteOK' /\ BilledOnce' /\ ~node'.up
  BY <1>1, <1>3 DEF NodeInv, TurnOK, ExecuteOK, BilledOnce, Down, Idle
<1>8. QED
  BY <1>5, <1>6, <1>7 DEF NodeInv

(* Time passes, and what has expired for every reader to come is forgotten. *)
LEMMA TickStep ==
  ASSUME NodeInv, Tick
  PROVE  NodeInv'
<1> DEFINE nx == IF turn.pc = "idle" THEN now + 1 ELSE turn.at
           cl == [k \in Keys |-> IF Live(claims[k].exp, nx) THEN claims[k] ELSE NoClaim]
           jn == [l \in {r \in BagToSet(journal) : Live(r.exp, nx)} |-> journal[l]]
<1>1. /\ now < MaxTime /\ now' = now + 1 /\ claims' = cl /\ journal' = jn
      /\ UNCHANGED <<sent, node, turn, runs, accepted>>
  BY DEF Tick
<1>2. /\ NodeTyped /\ now \in Nat /\ Reader \in Nat /\ nx \in Nat /\ Reader <= nx /\ Reader' = nx
      /\ Durable(sent, accepted, runs, journal, Reader) /\ JournalType(journal)
      /\ claims \in [Keys -> ClaimType] /\ runs \in Seq(RunType)
  BY <1>1, ReaderFacts DEF NodeInv, NodeTyped, Reader, Durable
<1>3. /\ DOMAIN jn = {r \in DOMAIN journal : Live(r.exp, nx)}
      /\ \A r \in DOMAIN jn : jn[r] = journal[r]
      /\ \A r \in DOMAIN jn : jn[r] \in Nat /\ jn[r] > 0
      /\ jn = [r \in DOMAIN jn |-> jn[r]]
  BY <1>2 DEF BagToSet, JournalType, IsABag
<1>4. cl \in [Keys -> ClaimType]
  BY <1>2 DEF NoClaim, ClaimType
<1> HIDE DEF nx, jn
<1>5. Lasting(journal, jn, nx)
  BY <1>3 DEF Lasting
<1>6. Durable(sent, accepted, runs, journal, nx)
  BY <1>2, LaterReader DEF Durable
<1>7. JournalType(jn) /\ Sole(jn, nx)
  <2>1. JournalType(jn)
    BY <1>2, <1>3 DEF JournalType, IsABag
  <2>2. Sole(jn, nx)
    BY <1>3, <1>6 DEF Durable, Sole
  <2>3. QED
    BY <2>1, <2>2
<1>8. Durable(sent', accepted', runs', journal', Reader')
  BY <1>1, <1>2, <1>5, <1>6, <1>7, LastingKeeps DEF Durable
<1>9. ASSUME node.up /\ node.healthy PROVE Mirrored(jn, cl, nx)
  <2>1. Mirrored(journal, claims, nx)
    BY <1>2, <1>9, LaterReader DEF NodeInv, Durable
  <2>2. ASSUME NEW r \in DOMAIN jn PROVE r = LineOf(r.key, cl[r.key])
    <3>1. r \in DOMAIN journal /\ Live(r.exp, nx) /\ r.key \in Keys
      BY <1>2, <1>3 DEF JournalType, Line
    <3>2. r = LineOf(r.key, claims[r.key])
      BY <2>1, <3>1 DEF Mirrored
    <3>3. cl[r.key] = claims[r.key]
      BY <3>1, <3>2 DEF LineOf
    <3>4. QED
      BY <3>2, <3>3
  <2>3. ASSUME NEW k \in Keys, Live(cl[k].exp, nx) PROVE OnDisk(jn, k, cl[k])
    <3>1. Live(claims[k].exp, nx) /\ cl[k] = claims[k]
      BY <1>2, <2>3 DEF NoClaim, Live
    <3>2. QED
      BY <1>3, <2>1, <3>1 DEF Mirrored, OnDisk, LineOf
  <2>4. QED
    BY <2>2, <2>3 DEF Mirrored
<1>10. NodeTyped'
  <2>1. now' \in 0..MaxTime /\ turn' \in [pc : {"idle", "request", "execute"}, nonce : Nonces \cup {NoNonce}, at : 0..now']
    BY <1>1, <1>2, NumberFacts DEF NodeTyped
  <2>2. QED
    BY <1>1, <1>2, <1>4, <2>1 DEF NodeTyped
<1>11. ExecuteOK'
  <2> SUFFICES ASSUME turn.pc = "execute"
               PROVE  OnDisk(jn, sent[turn.nonce].id, RequestClaim(turn.nonce))
    BY <1>1 DEF NodeInv, ExecuteOK, RequestClaim
  <2> DEFINE l == LineOf(sent[turn.nonce].id, RequestClaim(turn.nonce))
  <2>1. l \in DOMAIN journal /\ l.exp = turn.at + TTL
    BY DEF NodeInv, ExecuteOK, OnDisk, LineOf, RequestClaim
  <2>2. nx = turn.at /\ Live(l.exp, nx)
    BY <1>2, <2>1, NumberFacts DEF nx, Live
  <2>3. QED
    BY <1>3, <2>1, <2>2 DEF OnDisk
<1>12. TurnOK' /\ BilledOnce'
  BY <1>1 DEF NodeInv, TurnOK, BilledOnce
<1>13. QED
  BY <1>1, <1>2, <1>8, <1>9, <1>10, <1>11, <1>12 DEF NodeInv

LEMMA NodeStep == NodeInv /\ [Next]_vars => NodeInv'
<1> SUFFICES ASSUME NodeInv, [Next]_vars PROVE NodeInv'
  OBVIOUS
<1>0. node \in [up : BOOLEAN, draining : BOOLEAN, healthy : BOOLEAN] /\ runs \in Seq(RunType)
  BY DEF NodeInv, NodeTyped
<1>1. CASE \E n \in Nonces, c \in Calls : ClaimNonce(n, c) \/ ClaimNonceFails(n, c)
  BY <1>1, NonceStep
<1>2. CASE ReplayResult \/ RefuseRequest \/ StartSegment \/ EndSegment \/ UNCHANGED vars
  <2>1. /\ UNCHANGED <<now, sent, journal, claims, accepted, node, runs>>
        /\ turn' = turn \/ turn' = Idle
    BY <1>2 DEF ReplayResult, RefuseRequest, StartSegment, EndSegment, vars
  <2>2. QED
    BY <1>0, <2>1, SameJournal
<1>3. CASE ClaimRequest \/ ClaimRequestFails
  BY <1>3, RequestStep
<1>4. CASE Execute
  BY <1>4, ExecuteStep
<1>5. CASE \E r \in DOMAIN runs : Finish(r)
  <2>1. PICK r \in DOMAIN runs : Finish(r)
    BY <1>5
  <2>2. /\ UNCHANGED <<now, sent, journal, claims, accepted, node, turn>>
        /\ runs' = [runs EXCEPT ![r].st = "done"]
    BY <2>1 DEF Finish
  <2>3. /\ runs' \in Seq(RunType) /\ DOMAIN runs' = DOMAIN runs
        /\ \A s \in DOMAIN runs : /\ runs'[s].id = runs[s].id /\ runs'[s].body = runs[s].body
                                  /\ runs'[s].claimed = runs[s].claimed
    <3>1. runs[r] \in RunType /\ [runs[r] EXCEPT !.st = "done"] \in RunType
      <4>1. runs[r] \in RunType
        BY <1>0
      <4>2. QED
        BY <4>1 DEF RunType
    <3>2. QED
      BY <1>0, <2>2, <3>1 DEF RunType
  <2>4. QED
    BY <1>0, <2>2, <2>3, SameJournal
<1>6. CASE CompactNow \/ CompactNowFails
  BY <1>6, CompactStep
<1>7. CASE Start
  BY <1>7, StartStep
<1>8. CASE Drain
  <2>1. /\ UNCHANGED <<now, sent, journal, claims, accepted, turn, runs>>
        /\ node' = [node EXCEPT !.draining = TRUE]
    BY <1>8 DEF Drain
  <2>2. /\ node' \in [up : BOOLEAN, draining : BOOLEAN, healthy : BOOLEAN]
        /\ node'.up = node.up /\ node'.healthy = node.healthy
    BY <1>0, <2>1
  <2>3. QED
    BY <1>0, <2>1, <2>2, SameJournal
<1>9. CASE Crash
  BY <1>9, CrashStep
<1>10. CASE Tick
  BY <1>10, TickStep
<1>11. QED
  BY <1>1, <1>2, <1>3, <1>4, <1>5, <1>6, <1>7, <1>8, <1>9, <1>10 DEF Next

(* At every state of the node the journal tells the next reader of every
   nonce that was accepted and every upstream call that was started. *)
THEOREM NodeInvariant == Spec => []NodeInv
<1>1. Init => NodeInv
  BY NodeInit
<1>2. NodeInv /\ [Next]_vars => NodeInv'
  BY NodeStep
<1>3. QED
  BY <1>1, <1>2, PTL DEF Spec

(* A signed call is accepted once, through crashes, restarts and redelivery
   (ReplayJournal.claimNonce with the nonce guard). *)
THEOREM NonceSafe == Spec => []NonceOnce
<1>1. NodeInv => NonceOnce
  BY DEF NodeInv, Durable, NoncesKept, NonceOnce
<1>2. QED
  BY <1>1, NodeInvariant, PTL

(* The upstream is billed once for a request id in the time of its claim
   (ReplayJournal.claimRequest before execute). *)
THEOREM BillingSafe == Spec => []BilledOnce
<1>1. NodeInv => BilledOnce
  BY DEF NodeInv
<1>2. QED
  BY <1>1, NodeInvariant, PTL

(* The line of every upstream call is on disk until it has expired, whatever
   compactions, failures and crashes come in between. *)
THEOREM JournalSafe == Spec => []ExecutionsJournaled
<1>1. NodeInv => ExecutionsJournaled
  <2> SUFFICES ASSUME NodeInv PROVE ExecutionsJournaled
    OBVIOUS
  <2>1. RunsKept(runs, journal, now)
    BY ReaderFacts, LaterReader DEF NodeInv, Durable, NodeTyped
  <2>2. QED
    BY <2>1 DEF RunsKept, RunLine, ExecutionsJournaled, BagIn, BagToSet
<1>2. QED
  BY <1>1, NodeInvariant, PTL

(* The node never writes a journal that load would refuse as a duplicate. *)
THEOREM RestartSafe == Spec => []RestartPossible
<1>1. NodeInv => RestartPossible
  <2> SUFFICES ASSUME NodeInv PROVE RestartPossible
    OBVIOUS
  <2>1. Sole(journal, now)
    BY ReaderFacts, LaterReader DEF NodeInv, Durable
  <2>2. QED
    BY <2>1 DEF Sole, RestartPossible, Duplicates, LiveLines, BagToSet
<1>2. QED
  BY <1>1, NodeInvariant, PTL

---------------------------------------------------------------------------
(***************************************************************************)
(* The capacity gate.  Every upstream call of this process that started    *)
(* within the last minute holds an entry of its own in the gate, so what   *)
(* the gate admits bounds the calls of any minute.                         *)
(***************************************************************************)
Here == {r \in DOMAIN runs : runs[r].st # "gone"}
Late == {r \in Here : runs[r].at > now - Minute}
Around(rs, H, r) == {s \in H : rs[s].at \in (rs[r].at - Minute + 1)..rs[r].at}

GateTyped ==
  /\ gate \in [active : Nat, entries : SUBSET (Times \X (1..PerMinute))]
  /\ IsFiniteSet(gate.entries)
  /\ segments \in Nat /\ now \in 0..MaxTime /\ runs \in Seq(RunType)
  /\ \A r \in DOMAIN runs : runs[r].at <= now

Permits == gate.active = Cardinality(Running) + segments /\ gate.active <= Concurrency

(* The entries of one instant are numbered without gaps. *)
Numbered == \A e \in gate.entries : \A m \in 1..e[2] : <<e[1], m>> \in gate.entries

EntriesOf(f, L, rs, E) ==
  /\ f \in [L -> E]
  /\ \A r \in L : f[r][1] = rs[r].at
  /\ \A r \in L, s \in L : f[r] = f[s] => r = s
EntriesHeld == \E f : EntriesOf(f, Late, runs, gate.entries)

Windowed == \A r \in Here : Cardinality(Around(runs, Here, r)) <= PerMinute

GateInv == GateTyped /\ Permits /\ Numbered /\ EntriesHeld /\ Windowed

LEMMA GateNumbers ==
  /\ Minute \in Nat \ {0} /\ PerMinute \in Nat \ {0} /\ Concurrency \in Nat \ {0}
  /\ 0..MaxTime \subseteq Times /\ MaxTime \in Nat
BY NodeAssumption DEF Times

LEMMA InitGate == Init => GateInv
<1> SUFFICES ASSUME Init PROVE GateInv
  OBVIOUS
<1>1. /\ gate = [active |-> 0, entries |-> {}] /\ segments = 0 /\ now = 0 /\ runs = <<>>
      /\ DOMAIN runs = {}
  BY DEF Init, EmptyGate
<1>2. GateTyped
  BY <1>1, FS_EmptySet, GateNumbers DEF GateTyped
<1>3. Permits
  BY <1>1, FS_EmptySet, GateNumbers DEF Permits, Running
<1>4. Numbered /\ Windowed /\ Late = {}
  BY <1>1 DEF Numbered, Windowed, Here, Late
<1>5. EntriesOf([r \in {} |-> r], Late, runs, gate.entries)
  BY <1>4 DEF EntriesOf
<1>6. QED
  BY <1>2, <1>3, <1>4, <1>5 DEF GateInv, EntriesHeld

(* The number of a new entry is not taken. *)
LEMMA NewEntryIsNew ==
  ASSUME GateTyped, Numbered
  PROVE  /\ NewEntry \notin gate.entries
         /\ NewEntry = <<now, NewEntry[2]>> /\ NewEntry[2] \in Nat \ {0}
         /\ NewEntry[2] <= Cardinality(RecentEntries) + 1
         /\ \A m \in 1..(NewEntry[2] - 1) : <<now, m>> \in RecentEntries
         /\ IsFiniteSet(RecentEntries) /\ Cardinality(RecentEntries) \in Nat
<1> DEFINE E == {e \in gate.entries : e[1] = now}
           k == Cardinality(E)
<1>1. /\ IsFiniteSet(E) /\ IsFiniteSet(RecentEntries) /\ k \in Nat /\ Cardinality(RecentEntries) \in Nat
      /\ k <= Cardinality(RecentEntries)
  <2>1. now > now - Minute
    BY GateNumbers DEF GateTyped
  <2>2. E \in SUBSET RecentEntries /\ RecentEntries \in SUBSET gate.entries
    BY <2>1 DEF RecentEntries
  <2>3. QED
    BY <2>2, FS_Subset, FS_CardinalityType DEF GateTyped
<1>2. \A e \in E : e[2] \in Nat \ {0} /\ e = <<now, e[2]>>
  BY GateNumbers DEF GateTyped
<1>3. NewEntry = <<now, k + 1>> /\ NewEntry[2] = k + 1
  BY DEF NewEntry
<1> HIDE DEF k
<1>4. \A m \in Nat \ {0} : <<now, m>> \in E => m <= k
  <2> SUFFICES ASSUME NEW m \in Nat \ {0}, <<now, m>> \in E, ~(m <= k) PROVE FALSE
    OBVIOUS
  <2> DEFINE f == [i \in 1..m |-> <<now, i>>]
  <2>1. \A i \in 1..m : <<now, i>> \in E
    BY DEF Numbered
  <2>2. f \in Injection(1..m, E)
    BY <2>1 DEF Injection, IsInjective
  <2>3. Cardinality(1..m) = m
    BY FS_Interval
  <2>4. Cardinality(1..m) <= k
    BY <1>1, <2>2, FS_Injection DEF k
  <2>5. QED
    BY <1>1, <2>3, <2>4
<1>5. NewEntry \notin gate.entries
  BY <1>1, <1>3, <1>4
<1>6. \A m \in 1..k : <<now, m>> \in E
  <2> SUFFICES ASSUME NEW m \in 1..k, <<now, m>> \notin E PROVE FALSE
    OBVIOUS
  <2>1. \A e \in E : e[2] \in 1..(m - 1)
    <3> SUFFICES ASSUME NEW e \in E, ~(e[2] < m) PROVE FALSE
      BY <1>1, <1>2
    <3>1. m \in 1..e[2] /\ e[1] = now
      BY <1>1, <1>2
    <3>2. QED
      BY <3>1 DEF Numbered
  <2> DEFINE f == [e \in E |-> e[2]]
  <2>2. f \in [E -> 1..(m - 1)] /\ \A e \in E, d \in E : f[e] = f[d] => e = d
    BY <1>2, <2>1
  <2>3. f \in Injection(E, 1..(m - 1))
    BY <2>2 DEF Injection, IsInjective
  <2>4. IsFiniteSet(1..(m - 1)) /\ Cardinality(1..(m - 1)) = m - 1
    BY <1>1, FS_Interval
  <2>5. k <= m - 1
    BY <2>3, <2>4, FS_Injection DEF k
  <2>6. QED
    BY <1>1, <2>5
<1>7. E \subseteq RecentEntries
  BY GateNumbers DEF RecentEntries, GateTyped
<1>8. QED
  BY <1>1, <1>3, <1>5, <1>6, <1>7

(* A permit that is taken leaves no more entries than a minute may have. *)
LEMMA PermitTaken ==
  ASSUME GateInv, MayAcquire, Acquired, now' = now
  PROVE  /\ gate' \in [active : Nat, entries : SUBSET (Times \X (1..PerMinute))]
         /\ gate'.active = gate.active + 1 /\ gate'.active <= Concurrency
         /\ gate'.entries = RecentEntries \cup {NewEntry}
         /\ NewEntry \notin RecentEntries /\ NewEntry[1] = now
         /\ IsFiniteSet(gate'.entries) /\ Cardinality(gate'.entries) <= PerMinute
         /\ Numbered'
<1>1. /\ NewEntry \notin gate.entries
      /\ NewEntry = <<now, NewEntry[2]>> /\ NewEntry[2] \in Nat \ {0}
      /\ NewEntry[2] <= Cardinality(RecentEntries) + 1
      /\ \A m \in 1..(NewEntry[2] - 1) : <<now, m>> \in RecentEntries
      /\ IsFiniteSet(RecentEntries) /\ Cardinality(RecentEntries) \in Nat
  BY NewEntryIsNew DEF GateInv
<1>2. Cardinality(RecentEntries) < PerMinute /\ gate.active < Concurrency
  BY DEF MayAcquire
<1>3. /\ gate' = [active |-> gate.active + 1, entries |-> RecentEntries \cup {NewEntry}]
      /\ RecentEntries \subseteq gate.entries
  BY DEF Acquired, RecentEntries
<1>4. NewEntry \in Times \X (1..PerMinute) /\ NewEntry[1] = now
  <2>1. now \in Times /\ NewEntry[2] \in 1..PerMinute
    BY <1>1, <1>2, GateNumbers DEF GateInv, GateTyped
  <2>2. QED
    BY <1>1, <2>1
<1>5. /\ gate \in [active : Nat, entries : SUBSET (Times \X (1..PerMinute))]
      /\ gate.entries \subseteq Times \X (1..PerMinute) /\ gate.active \in Nat
  BY DEF GateInv, GateTyped
<1>6. Numbered'
  <2> SUFFICES ASSUME NEW e \in gate'.entries, NEW m \in 1..e[2]
               PROVE  <<e[1], m>> \in gate'.entries
    BY DEF Numbered
  <2>1. CASE e = NewEntry
    <3>1. m = e[2] \/ m \in 1..(NewEntry[2] - 1)
      BY <1>1, <2>1
    <3>2. CASE m = e[2]
      BY <1>1, <1>3, <1>4, <2>1, <3>2
    <3>3. CASE m \in 1..(NewEntry[2] - 1)
      BY <1>1, <1>3, <1>4, <2>1, <3>3
    <3>4. QED
      BY <3>1, <3>2, <3>3
  <2>2. CASE e \in RecentEntries
    <3>1. e \in gate.entries /\ e[1] > now - Minute
      BY <2>2 DEF RecentEntries
    <3>2. <<e[1], m>> \in gate.entries
      BY <3>1 DEF GateInv, Numbered
    <3>3. <<e[1], m>> \in RecentEntries
      BY <3>1, <3>2 DEF RecentEntries
    <3>4. QED
      BY <1>3, <3>3
  <2>3. QED
    BY <1>3, <2>1, <2>2
<1>7. /\ IsFiniteSet(RecentEntries \cup {NewEntry})
      /\ Cardinality(RecentEntries \cup {NewEntry}) = Cardinality(RecentEntries) + 1
  BY <1>1, <1>3, FS_AddElement
<1>8. IsFiniteSet(gate'.entries) /\ Cardinality(gate'.entries) <= PerMinute
  BY <1>1, <1>2, <1>3, <1>7, GateNumbers
<1>9. QED
  BY <1>1, <1>2, <1>3, <1>4, <1>5, <1>6, <1>8, GateNumbers

(* Calls in the gate's last minute are no more than its entries. *)
LEMMA LateCounted ==
  ASSUME NEW L, NEW rs, NEW E, IsFiniteSet(E), NEW f, EntriesOf(f, L, rs, E)
  PROVE  IsFiniteSet(L) /\ Cardinality(L) <= Cardinality(E)
<1>1. f \in Injection(L, E)
  BY DEF EntriesOf, Injection, IsInjective
<1>2. QED
  BY <1>1, FS_Injection

LEMMA RunsFinite ==
  ASSUME NEW rs \in Seq(RunType), NEW S \in SUBSET DOMAIN rs
  PROVE  IsFiniteSet(S) /\ Cardinality(S) \in Nat
<1>1. IsFiniteSet(DOMAIN rs)
  BY FS_Interval
<1>2. QED
  BY <1>1, FS_Subset, FS_CardinalityType

(* execute: the call that the gate lets through has its entry. *)
LEMMA ExecuteGate ==
  ASSUME NodeInv, GateInv, Execute
  PROVE  GateInv'
<1> DEFINE k == Len(runs) + 1
           x == Run(turn.nonce)
<1>0. /\ UNCHANGED <<now, segments>> /\ now \in 0..MaxTime /\ now \in Nat /\ runs \in Seq(RunType)
      /\ GateTyped
  BY GateNumbers DEF Execute, GateInv, GateTyped
<1>1. CASE UNCHANGED <<gate, runs>>
  BY <1>0, <1>1 DEF GateInv, GateTyped, Permits, Running, Numbered, EntriesHeld, Late, Here, Windowed
<1>2. CASE MayAcquire /\ Acquired /\ runs' = Append(runs, x)
  <2>1. /\ gate' \in [active : Nat, entries : SUBSET (Times \X (1..PerMinute))]
        /\ gate'.active = gate.active + 1 /\ gate'.active <= Concurrency
        /\ gate'.entries = RecentEntries \cup {NewEntry}
        /\ NewEntry \notin RecentEntries /\ NewEntry[1] = now
        /\ IsFiniteSet(gate'.entries) /\ Cardinality(gate'.entries) <= PerMinute
        /\ Numbered'
    BY <1>0, <1>2, PermitTaken
  <2>2. x \in RunType /\ x.at = now /\ x.st = "running"
    BY <1>0 DEF NodeInv, NodeTyped, TurnOK, Execute, Run, RunType
  <2> HIDE DEF x
  <2>3. /\ runs' \in Seq(RunType) /\ k \in Nat /\ DOMAIN runs' = DOMAIN runs \cup {k} /\ k \notin DOMAIN runs
        /\ runs'[k] = x /\ \A r \in DOMAIN runs : runs'[r] = runs[r]
    BY <1>0, <1>2, <2>2
  <2> HIDE DEF k
  <2>4. Running' = Running \cup {k} /\ k \notin Running /\ Here' = Here \cup {k} /\ k \notin Here
    BY <2>2, <2>3 DEF Running, Here
  <2>5. GateTyped'
    BY <1>0, <2>1, <2>2, <2>3, RunsFinite DEF GateTyped
  <2>6. Permits'
    <3>1. Cardinality(Running') = Cardinality(Running) + 1
      BY <1>0, <2>4, RunsFinite, FS_AddElement DEF Running
    <3>2. Cardinality(Running) \in Nat /\ segments \in Nat
      BY <1>0, RunsFinite DEF Running, GateTyped
    <3>3. QED
      BY <1>0, <2>1, <3>1, <3>2 DEF GateInv, Permits
  <2>7. Late' = Late \cup {k}
    <3>1. now > now - Minute
      BY <1>0, GateNumbers
    <3>2. QED
      BY <1>0, <2>2, <2>3, <2>4, <3>1 DEF Late, Here
  <2>8. PICK f : EntriesOf(f, Late, runs, gate.entries)
    BY DEF GateInv, EntriesHeld
  <2> DEFINE g == [r \in Late' |-> IF r = k THEN NewEntry ELSE f[r]]
  <2>9. EntriesOf(g, Late', runs', gate'.entries)
    <3>1. \A r \in Late : f[r] \in RecentEntries /\ r # k /\ f[r][1] = runs[r].at
      <4> SUFFICES ASSUME NEW r \in Late PROVE f[r] \in RecentEntries /\ r # k /\ f[r][1] = runs[r].at
        OBVIOUS
      <4>1. f[r] \in gate.entries /\ f[r][1] = runs[r].at
        BY <2>8 DEF EntriesOf
      <4>2. runs[r].at > now - Minute /\ r \in Here
        BY DEF Late
      <4>3. QED
        BY <2>4, <4>1, <4>2 DEF RecentEntries
    <3>2. g \in [Late' -> gate'.entries]
      BY <2>1, <2>7, <3>1
    <3>3. \A r \in Late' : g[r][1] = runs'[r].at
      BY <2>1, <2>2, <2>3, <2>7, <3>1 DEF Late, Here
    <3>4. \A r \in Late', s \in Late' : g[r] = g[s] => r = s
      BY <2>1, <2>7, <2>8, <3>1 DEF EntriesOf
    <3>5. QED
      BY <3>2, <3>3, <3>4 DEF EntriesOf
  <2>10. IsFiniteSet(Late') /\ Cardinality(Late') <= PerMinute
    <3>1. IsFiniteSet(Late') /\ Cardinality(Late') <= Cardinality(gate'.entries)
      BY <2>1, <2>9, LateCounted
    <3>2. Cardinality(Late') \in Nat /\ Cardinality(gate'.entries) \in Nat
      BY <2>1, <3>1, FS_CardinalityType
    <3>3. QED
      BY <2>1, <3>1, <3>2, GateNumbers
  <2>11. Windowed'
    <3> SUFFICES ASSUME NEW r \in Here' PROVE Cardinality(Around(runs', Here', r)) <= PerMinute
      BY DEF Windowed
    <3>1. runs'[r].at \in 0..now
      <4>1. r \in DOMAIN runs'
        BY DEF Here
      <4>2. runs'[r] \in RunType /\ runs'[r].at <= now
        BY <1>0, <2>3, <2>5, <4>1 DEF GateTyped
      <4>3. QED
        BY <1>0, <4>2 DEF RunType
    <3>2. CASE runs'[r].at = now
      <4>1. Around(runs', Here', r) \in SUBSET Late'
        <5> SUFFICES ASSUME NEW s \in Here', runs'[s].at \in (now - Minute + 1)..now PROVE s \in Late'
          BY <3>2 DEF Around
        <5>1. runs'[s].at > now - Minute
          BY <1>0, GateNumbers
        <5>2. QED
          BY <1>0, <5>1 DEF Late
      <4>2. /\ Cardinality(Around(runs', Here', r)) <= Cardinality(Late')
            /\ Cardinality(Around(runs', Here', r)) \in Nat /\ Cardinality(Late') \in Nat
        BY <2>10, <4>1, FS_Subset, FS_CardinalityType
      <4>3. QED
        BY <2>10, <4>2, GateNumbers
    <3>3. CASE runs'[r].at # now
      <4>1. r \in Here /\ runs'[r] = runs[r]
        BY <2>2, <2>3, <2>4, <3>3 DEF Here
      <4>2. k \notin Around(runs', Here', r)
        BY <1>0, <2>2, <2>3, <3>1, <3>3 DEF Around
      <4>3. Around(runs', Here', r) = Around(runs, Here, r)
        BY <2>3, <2>4, <4>1, <4>2 DEF Around, Here
      <4>4. QED
        BY <4>1, <4>3 DEF GateInv, Windowed
    <3>4. QED
      BY <3>2, <3>3
  <2>12. QED
    BY <2>1, <2>5, <2>6, <2>9, <2>11 DEF GateInv, EntriesHeld
<1>3. QED
  BY <1>1, <1>2 DEF Execute

(* A segment of a file task takes capacity and starts no call for a request. *)
LEMMA SegmentGate ==
  ASSUME GateInv, StartSegment
  PROVE  GateInv'
<1>0. /\ UNCHANGED <<now, runs>> /\ segments' = segments + 1 /\ MayAcquire /\ Acquired
      /\ GateTyped /\ now' = now
  BY DEF StartSegment, GateInv
<1>1. /\ gate' \in [active : Nat, entries : SUBSET (Times \X (1..PerMinute))]
      /\ gate'.active = gate.active + 1 /\ gate'.active <= Concurrency
      /\ gate'.entries = RecentEntries \cup {NewEntry}
      /\ IsFiniteSet(gate'.entries) /\ Numbered'
  BY <1>0, PermitTaken
<1>2. GateTyped'
  BY <1>0, <1>1 DEF GateTyped
<1>3. Permits'
  <2>1. Running' = Running /\ Cardinality(Running) \in Nat /\ segments \in Nat
    BY <1>0, RunsFinite DEF Running, GateTyped
  <2>2. QED
    BY <1>0, <1>1, <2>1 DEF GateInv, Permits
<1>4. Here' = Here /\ Late' = Late
  BY <1>0 DEF Here, Late
<1>5. PICK f : EntriesOf(f, Late, runs, gate.entries)
  BY DEF GateInv, EntriesHeld
<1>6. \A r \in Late : f[r] \in RecentEntries
  BY <1>5 DEF EntriesOf, RecentEntries, Late
<1>7. EntriesOf(f, Late', runs', gate'.entries)
  BY <1>0, <1>1, <1>4, <1>5, <1>6 DEF EntriesOf
<1>8. Windowed'
  BY <1>0, <1>4 DEF GateInv, Windowed
<1>9. QED
  BY <1>1, <1>2, <1>3, <1>7, <1>8 DEF GateInv, EntriesHeld

(* A permit comes back, of a segment or of an upstream call. *)
LEMMA ReleaseGate ==
  ASSUME GateInv, EndSegment \/ \E r \in DOMAIN runs : Finish(r)
  PROVE  GateInv'
<1>0. GateTyped /\ now' = now /\ gate.active \in Nat /\ runs \in Seq(RunType) /\ segments \in Nat
      /\ gate.active = Cardinality(Running) + segments /\ gate.active <= Concurrency
      /\ Cardinality(Running) \in Nat /\ IsFiniteSet(Running)
  BY RunsFinite DEF EndSegment, Finish, GateInv, GateTyped, Permits, Running
<1>1. /\ gate' = [gate EXCEPT !.active = @ - 1] /\ gate'.active = gate.active - 1
      /\ gate'.entries = gate.entries
  BY DEF EndSegment, Finish, GateInv, GateTyped
<1>2. ASSUME runs' \in Seq(RunType), DOMAIN runs' = DOMAIN runs, Here' = Here,
             \A r \in DOMAIN runs : runs'[r].at = runs[r].at,
             segments' \in Nat, gate'.active = Cardinality(Running') + segments', gate'.active \in Nat
      PROVE  GateInv'
  <2>1. GateTyped'
    BY <1>0, <1>1, <1>2 DEF GateTyped
  <2>2. Permits' /\ Numbered'
    BY <1>0, <1>1, <1>2, GateNumbers DEF GateInv, Permits, Numbered
  <2>3. Late' = Late
    BY <1>0, <1>2 DEF Late, Here
  <2>4. PICK f : EntriesOf(f, Late, runs, gate.entries)
    BY DEF GateInv, EntriesHeld
  <2>5. EntriesOf(f, Late', runs', gate'.entries)
    BY <1>1, <1>2, <2>3, <2>4 DEF EntriesOf, Late, Here
  <2>6. \A r \in Here : Around(runs', Here, r) = Around(runs, Here, r)
    BY <1>2 DEF Around, Here
  <2>7. Windowed'
    BY <1>2, <2>6 DEF GateInv, Windowed
  <2>8. QED
    BY <2>1, <2>2, <2>5, <2>7 DEF GateInv, EntriesHeld
<1>3. CASE EndSegment
  <2>1. runs' = runs /\ segments > 0 /\ segments' = segments - 1
    BY <1>3 DEF EndSegment
  <2>2. Running' = Running /\ Here' = Here
    BY <2>1 DEF Running, Here
  <2>3. QED
    BY <1>0, <1>1, <1>2, <2>1, <2>2
<1>4. CASE \E r \in DOMAIN runs : Finish(r)
  <2>1. PICK r \in DOMAIN runs : Finish(r)
    BY <1>4
  <2>2. runs' = [runs EXCEPT ![r].st = "done"] /\ r \in Running /\ segments' = segments
    BY <2>1 DEF Finish
  <2>3. runs[r] \in RunType /\ [runs[r] EXCEPT !.st = "done"] \in RunType
        /\ [runs[r] EXCEPT !.st = "done"].at = runs[r].at
        /\ [runs[r] EXCEPT !.st = "done"].st = "done" /\ runs[r].st = "running"
    <3>1. runs[r] \in RunType /\ runs[r].st = "running"
      BY <1>0, <2>2 DEF Running
    <3>2. QED
      BY <3>1 DEF RunType
  <2> DEFINE x == [runs[r] EXCEPT !.st = "done"]
  <2>4. runs' \in Seq(RunType) /\ DOMAIN runs' = DOMAIN runs
        /\ runs'[r] = x /\ \A s \in DOMAIN runs : s # r => runs'[s] = runs[s]
    BY <1>0, <2>2, <2>3
  <2> HIDE DEF x
  <2>5. x.st = "done" /\ x.at = runs[r].at /\ runs[r].st = "running"
    BY <2>3 DEF x
  <2>6. Here' = Here /\ Running' = Running \ {r} /\ \A s \in DOMAIN runs : runs'[s].at = runs[s].at
    BY <2>2, <2>4, <2>5 DEF Here, Running
  <2>7. Cardinality(Running') = Cardinality(Running) - 1 /\ Cardinality(Running') \in Nat
    BY <1>0, <2>2, <2>6, FS_RemoveElement, FS_CardinalityType
  <2>8. QED
    BY <1>0, <1>1, <1>2, <2>2, <2>4, <2>6, <2>7
<1>5. QED
  BY <1>3, <1>4

(* The process ends and the gate with it. *)
LEMMA CrashGate ==
  ASSUME GateInv, Crash
  PROVE  GateInv'
<1>1. /\ gate' = EmptyGate /\ segments' = 0 /\ now' = now /\ GateTyped
      /\ runs' = [r \in DOMAIN runs |-> [runs[r] EXCEPT !.st = "gone"]]
  BY DEF Crash, GateInv
<1>2. /\ runs' \in Seq(RunType) /\ DOMAIN runs' = DOMAIN runs
      /\ \A r \in DOMAIN runs : runs'[r].at = runs[r].at /\ runs'[r].st = "gone"
  <2>1. runs \in Seq(RunType)
    BY <1>1 DEF GateTyped
  <2>2. ASSUME NEW r \in DOMAIN runs
        PROVE  runs'[r] \in RunType /\ runs'[r].at = runs[r].at /\ runs'[r].st = "gone"
    <3>1. runs[r] \in RunType /\ runs'[r] = [runs[r] EXCEPT !.st = "gone"]
      BY <1>1, <2>1
    <3>2. QED
      BY <3>1 DEF RunType
  <2>3. QED
    BY <1>1, <2>1, <2>2
<1>3. Here' = {} /\ Late' = {} /\ Running' = {}
  BY <1>2 DEF Here, Late, Running
<1>4. GateTyped'
  BY <1>1, <1>2, FS_EmptySet DEF GateTyped, EmptyGate
<1>5. Permits' /\ Numbered' /\ Windowed'
  BY <1>1, <1>3, FS_EmptySet, GateNumbers DEF Permits, Numbered, Windowed, EmptyGate
<1>6. EntriesOf([r \in {} |-> r], Late', runs', gate'.entries)
  BY <1>3 DEF EntriesOf
<1>7. QED
  BY <1>4, <1>5, <1>6 DEF GateInv, EntriesHeld

(* Entries leave the gate with the calls that hold them. *)
LEMMA TickGate ==
  ASSUME GateInv, Tick
  PROVE  GateInv'
<1>1. /\ now < MaxTime /\ now' = now + 1 /\ UNCHANGED <<runs, segments>> /\ GateTyped
      /\ gate' = [gate EXCEPT !.entries = {e \in @ : e[1] > now' - Minute}]
  BY DEF Tick, GateInv
<1>2. /\ gate'.active = gate.active /\ gate'.entries = {e \in gate.entries : e[1] > now' - Minute}
      /\ gate' \in [active : Nat, entries : SUBSET (Times \X (1..PerMinute))]
      /\ gate'.entries \in SUBSET gate.entries
  BY <1>1 DEF GateTyped
<1>3. GateTyped'
  <2>1. IsFiniteSet(gate'.entries)
    BY <1>1, <1>2, FS_Subset DEF GateTyped
  <2>2. now \in Nat /\ \A r \in DOMAIN runs : runs[r].at \in Nat /\ runs[r].at <= now
    <3>1. now \in Nat /\ runs \in Seq(RunType)
      BY <1>1, GateNumbers DEF GateTyped
    <3>2. \A r \in DOMAIN runs : runs[r] \in RunType
      BY <3>1
    <3>3. QED
      BY <1>1, <3>1, <3>2 DEF GateTyped, RunType
  <2>3. \A r \in DOMAIN runs' : runs'[r].at <= now'
    BY <1>1, <2>2
  <2>4. now' \in 0..MaxTime /\ runs' \in Seq(RunType) /\ segments' \in Nat
    BY <1>1, <2>2, GateNumbers DEF GateTyped
  <2>5. QED
    BY <1>2, <2>1, <2>3, <2>4 DEF GateTyped
<1>4. Here' = Here /\ Running' = Running
  BY <1>1 DEF Here, Running
<1>5. Permits' /\ Windowed'
  BY <1>1, <1>2, <1>4 DEF GateInv, Permits, Windowed
<1>6. Numbered'
  <2> SUFFICES ASSUME NEW e \in gate'.entries, NEW m \in 1..e[2]
               PROVE  <<e[1], m>> \in gate'.entries
    BY DEF Numbered
  <2>1. e \in gate.entries /\ e[1] > now' - Minute
    BY <1>2
  <2>2. <<e[1], m>> \in gate.entries
    BY <2>1 DEF GateInv, Numbered
  <2>3. QED
    BY <1>2, <2>1, <2>2
<1>7. PICK f : EntriesOf(f, Late, runs, gate.entries)
  BY DEF GateInv, EntriesHeld
<1>8. \A r \in Late' : r \in Late /\ runs[r].at > now' - Minute
  <2> SUFFICES ASSUME NEW r \in Late' PROVE r \in Late /\ runs[r].at > now' - Minute
    OBVIOUS
  <2>1. r \in Here /\ runs[r].at > now' - Minute
    BY <1>1, <1>4 DEF Late
  <2>2. runs[r].at \in Nat /\ now \in Nat
    <3>1. now \in Nat /\ runs \in Seq(RunType) /\ r \in DOMAIN runs
      BY <1>1, <2>1, GateNumbers DEF GateTyped, Here
    <3>2. runs[r] \in RunType
      BY <3>1
    <3>3. QED
      BY <3>1, <3>2 DEF RunType
  <2>3. runs[r].at > now - Minute
    BY <1>1, <2>1, <2>2, GateNumbers
  <2>4. QED
    BY <2>1, <2>3 DEF Late
<1> DEFINE g == [r \in Late' |-> f[r]]
<1>9. EntriesOf(g, Late', runs', gate'.entries)
  <2>1. \A r \in Late : f[r] \in gate.entries /\ f[r][1] = runs[r].at
    BY <1>7 DEF EntriesOf
  <2>2. \A r \in Late' : f[r] \in gate'.entries
    BY <1>2, <1>8, <2>1
  <2>3. \A r \in Late', s \in Late' : g[r] = g[s] => r = s
    BY <1>7, <1>8 DEF EntriesOf
  <2>4. QED
    BY <1>1, <1>8, <2>1, <2>2, <2>3 DEF EntriesOf
<1>10. QED
  BY <1>3, <1>5, <1>6, <1>9 DEF GateInv, EntriesHeld

LEMMA StepGate == NodeInv /\ GateInv /\ [Next]_vars => GateInv'
<1> SUFFICES ASSUME NodeInv, GateInv, [Next]_vars PROVE GateInv'
  OBVIOUS
<1>1. CASE UNCHANGED <<now, gate, runs, segments>>
  BY <1>1 DEF GateInv, GateTyped, Permits, Running, Numbered, EntriesHeld, Late, Here, Windowed
<1>2. CASE Execute
  BY <1>2, ExecuteGate
<1>3. CASE StartSegment
  BY <1>3, SegmentGate
<1>4. CASE EndSegment \/ \E r \in DOMAIN runs : Finish(r)
  BY <1>4, ReleaseGate
<1>5. CASE Crash
  BY <1>5, CrashGate
<1>6. CASE Tick
  BY <1>6, TickGate
<1>7. CASE \E n \in Nonces, c \in Calls : ClaimNonce(n, c) \/ ClaimNonceFails(n, c)
  BY <1>1, <1>7 DEF ClaimNonce, ClaimNonceFails
<1>8. CASE \/ ReplayResult \/ RefuseRequest \/ ClaimRequest \/ ClaimRequestFails
           \/ CompactNow \/ CompactNowFails \/ Start \/ Drain \/ UNCHANGED vars
  BY <1>1, <1>8 DEF ReplayResult, RefuseRequest, ClaimRequest, ClaimRequestFails, CompactNow,
                    CompactNowFails, Start, Drain, vars
<1>9. QED
  BY <1>2, <1>3, <1>4, <1>5, <1>6, <1>7, <1>8 DEF Next

LEMMA GateInvariant == Spec => []GateInv
<1>1. Init => GateInv
  BY InitGate
<1>2. NodeInv /\ GateInv /\ [Next]_vars => GateInv'
  BY StepGate
<1>3. QED
  BY <1>1, <1>2, NodeInvariant, PTL DEF Spec

(* The process never has more upstream calls running, or started within any
   minute, than the supplier allows, and no permit is lost or returned twice
   (CapacityGate). *)
THEOREM CapacitySafe == Spec => []CapacityHeld
<1>1. GateInv => CapacityHeld
  BY DEF GateInv, Permits, Windowed, Around, Here, CapacityHeld
<1>2. QED
  BY <1>1, GateInvariant, PTL

---------------------------------------------------------------------------
(* The types of the node's maps, each of which some action writes under a
   bound that another table provides. *)
SentTyped(st) ==
  \A n \in Nonces : st[n] = NoCall \/ st[n] \in
    [ts : Times, id : Ids \cup {NoId}, body : Bodies \cup {NoBody}]
ClaimsTyped(cl) == \A k \in Keys : cl[k] = NoClaim \/ LineOf(k, cl[k]) \in Line
EntryType(last) == {NoEntry} \cup [exp : Times, body : Bodies, run : 0..last]

MapsTyped ==
  /\ SentTyped(sent) /\ ClaimsTyped(claims) /\ torn \in BOOLEAN
  /\ seen \in [Nonces -> Times \cup {-1}]
  /\ Len(runs) <= MaxRuns
  /\ cache \in [Ids -> EntryType(Len(runs))]
  /\ reply \in [Nonces -> 0..Len(runs)]

LEMMA InitMaps == Init => MapsTyped
<1> SUFFICES ASSUME Init PROVE MapsTyped
  OBVIOUS
<1>1. Len(runs) = 0 /\ MaxRuns \in Nat
  BY NodeAssumption DEF Init
<1>2. SentTyped(sent) /\ ClaimsTyped(claims) /\ torn \in BOOLEAN /\ seen \in [Nonces -> Times \cup {-1}]
  BY DEF Init, SentTyped, ClaimsTyped
<1>3. cache \in [Ids -> EntryType(0)] /\ reply \in [Nonces -> 0..0]
  BY DEF Init, EntryType
<1>4. QED
  BY <1>1, <1>2, <1>3 DEF MapsTyped

(* Claims that change are claims of the journal. *)
LEMMA JournaledTyped ==
  ASSUME ClaimsTyped(claims), claims \in [Keys -> ClaimType], torn \in BOOLEAN,
         NEW k \in Keys, NEW c, LineOf(k, c) \in Line, NEW t,
         Journaled(k, c, t) \/ JournalFails(k, c, t)
  PROVE  ClaimsTyped(claims') /\ torn' \in BOOLEAN
<1>1. claims' = claims \/ claims' = [claims EXCEPT ![k] = c]
  BY DEF Journaled, JournalFails, Claim
<1>2. torn' \in BOOLEAN
  BY DEF Journaled, JournalFails
<1>3. CASE claims' = [claims EXCEPT ![k] = c]
  <2> SUFFICES ASSUME NEW q \in Keys PROVE claims'[q] = NoClaim \/ LineOf(q, claims'[q]) \in Line
    BY <1>2 DEF ClaimsTyped
  <2>1. CASE q = k
    BY <1>3, <2>1
  <2>2. CASE q # k
    <3>1. claims'[q] = claims[q]
      BY <1>3, <2>2
    <3>2. QED
      BY <3>1 DEF ClaimsTyped
  <2>3. QED
    BY <2>1, <2>2
<1>4. QED
  BY <1>1, <1>2, <1>3

LEMMA CallTyped ==
  ASSUME NodeInv, NEW n \in Nonces, NEW c \in Calls
  PROVE  /\ c \in [ts : Times, id : Ids \cup {NoId}, body : Bodies \cup {NoBody}]
         /\ c.ts + Window \in Times /\ LineOf(n, NonceClaim(c)) \in Line
<1>1. now \in 0..MaxTime
  BY DEF NodeInv, NodeTyped
<1>2. /\ c.ts \in Int /\ c.ts >= 0 /\ c.ts <= now + Window
      /\ c \in [ts : Nat, id : Ids \cup {NoId}, body : Bodies \cup {NoBody}]
  BY <1>1, NumberFacts DEF Calls
<1>3. c.ts \in Times /\ c.ts + Window \in Times
  BY <1>1, <1>2, NumberFacts DEF Times
<1>4. LineOf(n, NonceClaim(c)) \in Line
  BY <1>3 DEF LineOf, NonceClaim, Line, Keys
<1>5. QED
  BY <1>2, <1>3, <1>4

LEMMA NonceMaps ==
  ASSUME NodeInv, MapsTyped, NEW n \in Nonces, NEW c \in Calls, ClaimNonce(n, c) \/ ClaimNonceFails(n, c)
  PROVE  MapsTyped'
<1>1. /\ c \in [ts : Times, id : Ids \cup {NoId}, body : Bodies \cup {NoBody}]
      /\ c.ts + Window \in Times /\ LineOf(n, NonceClaim(c)) \in Line
  BY CallTyped
<1>2. /\ claims \in [Keys -> ClaimType] /\ n \in Keys /\ sent \in [Nonces -> {NoCall} \cup CallType]
  BY DEF NodeInv, NodeTyped, Keys
<1>3. ClaimsTyped(claims') /\ torn' \in BOOLEAN
  BY <1>1, <1>2, JournaledTyped DEF ClaimNonce, ClaimNonceFails, MapsTyped
<1>4. sent' = [sent EXCEPT ![n] = c] /\ UNCHANGED <<cache, runs, reply>>
      /\ seen' \in {seen, [seen EXCEPT ![n] = c.ts + Window]}
  BY DEF ClaimNonce, ClaimNonceFails, NonceTaken
<1>5. SentTyped(sent')
  BY <1>1, <1>2, <1>4 DEF SentTyped, MapsTyped
<1>6. seen' \in [Nonces -> Times \cup {-1}]
  BY <1>1, <1>4 DEF MapsTyped
<1>7. QED
  BY <1>3, <1>4, <1>5, <1>6 DEF MapsTyped

LEMMA TurnTyped ==
  ASSUME NodeInv, turn.pc # "idle"
  PROVE  /\ turn.nonce \in Nonces /\ sent[turn.nonce].id \in Ids /\ sent[turn.nonce].body \in Bodies
         /\ turn.at + TTL \in Times
         /\ LineOf(sent[turn.nonce].id, RequestClaim(turn.nonce)) \in Line
<1>1. /\ turn.nonce \in Nonces /\ sent[turn.nonce].id \in Ids /\ sent[turn.nonce].body \in Bodies
      /\ turn.at \in 0..now /\ now \in 0..MaxTime
  BY DEF NodeInv, TurnOK, NodeTyped
<1>2. turn.at + TTL \in Times
  BY <1>1, NumberFacts DEF Times
<1>3. QED
  BY <1>1, <1>2 DEF LineOf, RequestClaim, Line, Keys

LEMMA RequestMaps ==
  ASSUME NodeInv, MapsTyped, ReplayResult \/ RefuseRequest \/ ClaimRequest \/ ClaimRequestFails
  PROVE  MapsTyped'
<1> DEFINE n == turn.nonce
           i == sent[n].id
<1>1. n \in Nonces /\ i \in Ids /\ LineOf(i, RequestClaim(n)) \in Line /\ i \in Keys
      /\ claims \in [Keys -> ClaimType]
  BY TurnTyped DEF ReplayResult, RefuseRequest, ClaimRequest, ClaimRequestFails, RequestFree, Keys,
                   NodeInv, NodeTyped
<1>2. UNCHANGED <<sent, seen, cache, runs>>
  BY DEF ReplayResult, RefuseRequest, ClaimRequest, ClaimRequestFails
<1>3. cache[i].run \in 0..Len(runs) /\ 0 \in 0..Len(runs)
  <2>1. runs \in Seq(RunType) /\ cache[i] \in EntryType(Len(runs))
    BY <1>1 DEF MapsTyped, NodeInv, NodeTyped
  <2>2. Len(runs) \in Nat
    BY <2>1
  <2>3. QED
    BY <2>1, <2>2 DEF EntryType, NoEntry
<1>4. reply' \in [Nonces -> 0..Len(runs)]
  BY <1>1, <1>3 DEF ReplayResult, RefuseRequest, ClaimRequest, ClaimRequestFails, Answered, MapsTyped
<1>5. ClaimsTyped(claims') /\ torn' \in BOOLEAN
  <2>1. CASE ReplayResult \/ RefuseRequest
    BY <2>1 DEF ReplayResult, RefuseRequest, MapsTyped
  <2>2. CASE ClaimRequest \/ ClaimRequestFails
    <3>1. Journaled(i, RequestClaim(n), turn.at) \/ JournalFails(i, RequestClaim(n), turn.at)
      BY <2>2 DEF ClaimRequest, ClaimRequestFails
    <3>2. QED
      BY <1>1, <3>1, JournaledTyped DEF MapsTyped
  <2>3. QED
    BY <2>1, <2>2
<1>6. QED
  BY <1>2, <1>4, <1>5 DEF MapsTyped

LEMMA ExecuteMaps ==
  ASSUME NodeInv, MapsTyped, Execute
  PROVE  MapsTyped'
<1> DEFINE n == turn.nonce
           i == sent[n].id
           k == Len(runs)
<1>1. n \in Nonces /\ i \in Ids /\ sent[n].body \in Bodies /\ turn.at + TTL \in Times
  BY TurnTyped DEF Execute
<1>2. UNCHANGED <<sent, claims, torn, seen>> /\ runs \in Seq(RunType) /\ k \in Nat /\ MaxRuns \in Nat
  BY NodeAssumption DEF Execute, NodeInv, NodeTyped
<1> HIDE DEF k
<1>3. ASSUME NEW r \in 0..Len(runs'), Len(runs') \in k..MaxRuns,
             cache' = [cache EXCEPT ![i] = Entry(r)], Answered(n, r)
      PROVE  MapsTyped'
  <2>1. Entry(r) \in EntryType(Len(runs'))
    BY <1>1, <1>3 DEF Entry, EntryType
  <2>2. EntryType(k) \subseteq EntryType(Len(runs')) /\ 0..k \subseteq 0..Len(runs')
    BY <1>2, <1>3 DEF EntryType
  <2>3. cache \in [Ids -> EntryType(k)] /\ reply \in [Nonces -> 0..k]
    BY DEF MapsTyped, k
  <2>4. cache' \in [Ids -> EntryType(Len(runs'))]
    BY <1>1, <1>3, <2>1, <2>2, <2>3
  <2>5. reply' \in [Nonces -> 0..Len(runs')]
    BY <1>1, <1>3, <2>2, <2>3 DEF Answered
  <2>6. Len(runs') <= MaxRuns
    BY <1>3
  <2>7. QED
    BY <1>2, <2>4, <2>5, <2>6 DEF MapsTyped
<1>4. CASE UNCHANGED runs /\ cache' = [cache EXCEPT ![i] = Entry(0)] /\ Answered(n, 0)
  <2>1. Len(runs') \in k..MaxRuns /\ 0 \in 0..Len(runs')
    BY <1>2, <1>4 DEF MapsTyped, k
  <2>2. QED
    BY <1>3, <1>4, <2>1
<1>5. CASE /\ Len(runs) < MaxRuns /\ runs' = Append(runs, Run(n))
           /\ cache' = [cache EXCEPT ![i] = Entry(Len(runs) + 1)] /\ Answered(n, Len(runs) + 1)
  <2>1. Len(runs') = k + 1
    BY <1>2, <1>5 DEF k
  <2>2. Len(runs') \in k..MaxRuns /\ k + 1 \in 0..Len(runs')
    BY <1>2, <1>5, <2>1 DEF k
  <2>3. QED
    BY <1>3, <1>5, <2>2 DEF k
<1>6. QED
  BY <1>4, <1>5 DEF Execute

LEMMA LoadedTyped ==
  ASSUME JournalType(journal)
  PROVE  ClaimsTyped(Loaded)
<1> SUFFICES ASSUME NEW k \in Keys PROVE Loaded[k] = NoClaim \/ LineOf(k, Loaded[k]) \in Line
  BY DEF ClaimsTyped
<1>1. CASE \E r \in LiveLines : r.key = k
  <2> DEFINE l == CHOOSE r \in LiveLines : r.key = k
  <2>1. l \in LiveLines /\ l.key = k
    BY <1>1
  <2>2. Loaded[k] = [exp |-> l.exp, body |-> l.body]
    BY <1>1 DEF Loaded
  <2> HIDE DEF l
  <2>3. l \in Line
    BY <2>1 DEF LiveLines, BagToSet, JournalType
  <2>4. QED
    BY <2>1, <2>2, <2>3 DEF LineOf, Line
<1>2. CASE ~\E r \in LiveLines : r.key = k
  BY <1>2 DEF Loaded
<1>3. QED
  BY <1>1, <1>2

LEMMA StepMaps == NodeInv /\ MapsTyped /\ [Next]_vars => MapsTyped'
<1> SUFFICES ASSUME NodeInv, MapsTyped, [Next]_vars PROVE MapsTyped'
  OBVIOUS
<1>0. runs \in Seq(RunType)
  BY DEF NodeInv, NodeTyped
<1>1. CASE \E n \in Nonces, c \in Calls : ClaimNonce(n, c) \/ ClaimNonceFails(n, c)
  BY <1>1, NonceMaps
<1>2. CASE ReplayResult \/ RefuseRequest \/ ClaimRequest \/ ClaimRequestFails
  BY <1>2, RequestMaps
<1>3. CASE Execute
  BY <1>3, ExecuteMaps
<1>4. CASE StartSegment \/ EndSegment \/ CompactNow \/ CompactNowFails \/ Drain \/ UNCHANGED vars
  BY <1>4 DEF StartSegment, EndSegment, CompactNow, CompactNowFails, Drain, vars, MapsTyped
<1>5. CASE \E r \in DOMAIN runs : Finish(r)
  <2>1. Len(runs') = Len(runs) /\ UNCHANGED <<sent, claims, torn, seen, cache, reply>>
    BY <1>0, <1>5 DEF Finish
  <2>2. QED
    BY <2>1 DEF MapsTyped
<1>6. CASE Start
  <2>1. claims' = Loaded /\ UNCHANGED <<sent, torn, seen, cache, runs, reply>> /\ JournalType(journal)
    BY <1>6 DEF Start, NodeInv, Durable
  <2>2. QED
    BY <2>1, LoadedTyped DEF MapsTyped
<1>7. CASE Crash
  <2>1. /\ claims' = [k \in Keys |-> NoClaim] /\ seen' = [n \in Nonces |-> -1]
        /\ cache' = [i \in Ids |-> NoEntry] /\ UNCHANGED <<sent, torn, reply>>
        /\ runs' = [r \in DOMAIN runs |-> [runs[r] EXCEPT !.st = "gone"]]
    BY <1>7 DEF Crash
  <2>0. Len(runs') = Len(runs)
    BY <1>0, <2>1
  <2>2. ClaimsTyped(claims')
    BY <2>1 DEF ClaimsTyped
  <2>3. cache' \in [Ids -> EntryType(Len(runs'))] /\ seen' \in [Nonces -> Times \cup {-1}]
    BY <2>1 DEF EntryType
  <2>4. QED
    BY <2>0, <2>1, <2>2, <2>3 DEF MapsTyped
<1>8. CASE Tick
  <2> DEFINE nx == IF turn.pc = "idle" THEN now + 1 ELSE turn.at
  <2>1. /\ claims' = [k \in Keys |-> IF Live(claims[k].exp, nx) THEN claims[k] ELSE NoClaim]
        /\ seen' = [n \in Nonces |-> IF Live(seen[n], nx) THEN seen[n] ELSE -1]
        /\ cache' = [i \in Ids |-> IF Live(cache[i].exp, nx) THEN cache[i] ELSE NoEntry]
        /\ UNCHANGED <<sent, torn, runs, reply>>
    BY <1>8 DEF Tick
  <2> HIDE DEF nx
  <2>2. ClaimsTyped(claims')
    BY <2>1 DEF ClaimsTyped, MapsTyped
  <2>3. cache' \in [Ids -> EntryType(Len(runs))]
    BY <2>1 DEF EntryType, MapsTyped
  <2>4. seen' \in [Nonces -> Times \cup {-1}]
    BY <2>1 DEF MapsTyped
  <2>5. QED
    BY <2>1, <2>2, <2>3, <2>4 DEF MapsTyped
<1>9. QED
  BY <1>1, <1>2, <1>3, <1>4, <1>5, <1>6, <1>7, <1>8 DEF Next

(* Every map, file and counter of the node holds what it may hold. *)
THEOREM NodeTypesCorrect == Spec => []NodeTypeOK
<1>1. NodeInv /\ GateInv /\ MapsTyped => NodeTypeOK
  <2> SUFFICES ASSUME NodeInv, GateInv, MapsTyped PROVE NodeTypeOK
    OBVIOUS
  <2>1. /\ now \in 0..MaxTime /\ torn \in BOOLEAN /\ SentTyped(sent)
        /\ node \in [up : BOOLEAN, draining : BOOLEAN, healthy : BOOLEAN] /\ ClaimsTyped(claims)
        /\ seen \in [Nonces -> Times \cup {-1}] /\ cache \in [Ids -> EntryType(Len(runs))]
        /\ Len(runs) <= MaxRuns /\ reply \in [Nonces -> 0..Len(runs)]
    BY DEF NodeInv, NodeTyped, MapsTyped
  <2>2. IsABag(journal) /\ BagToSet(journal) \subseteq Line
    BY DEF NodeInv, Durable, JournalType, BagToSet
  <2>3. /\ turn.pc \in {"idle", "request", "execute"} /\ turn.at \in 0..now
        /\ turn.pc # "idle" => node.up /\ node.healthy /\ turn.nonce \in Nonces
    BY DEF NodeInv, NodeTyped, TurnOK
  <2>4. gate.active \in Nat /\ gate.entries \subseteq Times \X (1..PerMinute)
    BY DEF GateInv, GateTyped
  <2>5. segments \in 0..Concurrency
    <3>1. Cardinality(Running) \in Nat
      BY RunsFinite DEF Running, GateInv, GateTyped
    <3>2. QED
      BY <3>1, GateNumbers DEF GateInv, GateTyped, Permits
  <2>6. \A i \in Ids : cache[i] = NoEntry \/ cache[i] \in [exp : Times, body : Bodies, run : 0..Len(runs)]
    BY <2>1 DEF EntryType
  <2>7. QED
    BY <2>1, <2>2, <2>3, <2>4, <2>5, <2>6 DEF NodeTypeOK, SentTyped, ClaimsTyped
<1>2. Init => MapsTyped
  BY InitMaps
<1>3. NodeInv /\ MapsTyped /\ [Next]_vars => MapsTyped'
  BY StepMaps
<1>4. QED
  BY <1>1, <1>2, <1>3, NodeInvariant, GateInvariant, PTL DEF Spec
=============================================================================
