-------------------------- MODULE AuthorizationProofs --------------------------
(***************************************************************************)
(* Proofs about AuthorizationLifecycle, for any suppliers, requests,       *)
(* tokens, commands and handlers and any limit per token.                  *)
(*                                                                         *)
(* What a handler read may be stale at its batch, so the invariant says    *)
(* what every stale reading is still good for: an approval built at the    *)
(* supplier's present version carries exactly the events that are missing  *)
(* in the log, a ciphertext that was read and is still the one stored      *)
(* stands for the token that was read, and what the handler takes for      *)
(* unexpired includes whatever is unexpired now.                           *)
(***************************************************************************)
EXTENDS AuthorizationLifecycle, FiniteSetTheorems, FunctionTheorems, TLAPS

(* The keys table: withdraw, revoke and rotate-credential bind a request and
   a payload, offer.create a request. *)
BoundTypeOK ==
  /\ log \in [Suppliers -> SUBSET EventRow]
  /\ cycleBound \in [Cycles -> [Commands -> {Unbound} \cup (Requests \X (Tokens \cup {NoToken}))]]
  /\ offerBound \in [Commands -> {Unbound} \cup {<<r>> : r \in Requests}]

(* A request that was never submitted has no credential, and the name of a
   stored ciphertext tells its token. *)
RowInv(r) ==
  LET row == requests[r] IN
  /\ row.status = "none" => row.token = NoToken /\ row.gen = Submitted
  /\ row.rev >= 1
  /\ row.status \in {"rejected", "withdrawn", "revoked"} => row.token = NoToken
  /\ (row.gen \in Commands /\ row.token # NoToken) => cycleBound["rotate"][row.gen] = <<r, row.token>>
  /\ row.gen \in Rewrappers => rewraps[row.gen].phase = "done"

(* The versions of a set of events are a + 1 to b, each once. *)
Numbered(S, a, b) ==
  /\ {e.version : e \in S} = (a + 1)..b
  /\ \A e \in S, f \in S : e.version = f.version => e = f

(* The events of a supplier are numbered, and they tell its rows. *)
LogInv(s) ==
  /\ Numbered(log[s], 0, suppliers[s].version)
  /\ suppliers[s].status = "none" => log[s] = {}
  /\ Happened(s, "activated") <=> suppliers[s].status = "active"
  /\ \A r \in Requests : SupplierOf[r] = s =>
       /\ Recorded(s, r) <=> requests[r].status \in {"approved", "revoked"}
       /\ RevokedInLog(s, r) <=> requests[r].status = "revoked"

(* What a bound command has done stays done. *)
BoundInv(c) ==
  /\ \A o \in {"withdraw", "revoke"} : cycleBound[o][c] # Unbound =>
       requests[cycleBound[o][c][1]].status \in {"withdrawn", "revoked"}
  /\ cycleBound["rotate"][c] # Unbound =>
       /\ requests[cycleBound["rotate"][c][1]].rev > 1
       /\ requests[cycleBound["rotate"][c][1]].status \in {"approved", "revoked"}
  /\ offerBound[c] # Unbound => \E o \in offers : o.req = offerBound[c][1]

(* A ciphertext that was read, if it is still stored, stands for the token
   that was read. *)
HeldInv(g) ==
  /\ requests[g.req].status # "none"
  /\ g.gen \in Commands => cycleBound["rotate"][g.gen] = <<g.req, g.token>>
  /\ g.gen \in Rewrappers => rewraps[g.gen].phase = "done"
  /\ (requests[g.req].gen = g.gen /\ requests[g.req].token # NoToken) => requests[g.req].token = g.token

RewrapInv(h) == /\ \A g \in rewraps[h].rows : HeldInv(g)
                /\ rewraps[h].phase # "commit" => rewraps[h].rows = {}

Role(h, x) ==
  /\ h \in Reviewers => x.what \in Decisions
  /\ h \in Revokers => x.what \in {"withdraw", "revoke"}
  /\ h \in Rotators => x.what = "rotate"
  /\ h \in Publishers => x.what = "publish"

(* What a handler answered is true. *)
Reply(x) ==
  LET row == requests[x.req] IN
  /\ x.what = "approve" => row.by = x.cmd /\ row.status \in {"approved", "revoked"}
  /\ x.what = "reject" => row.by = x.cmd /\ row.status = "rejected"
  /\ x.what \in {"withdraw", "revoke"} => row.status \in {"withdrawn", "revoked"}
  /\ x.what = "rotate" => row.rev > 1 /\ row.status \in {"approved", "revoked"}
  /\ x.what = "publish" => \E o \in offers : o.req = x.req

(* The readings of a handler on its way to its batch. *)
Reading(x) ==
  /\ Fresh \subseteq x.fresh /\ requests[x.req].status # "none"
  /\ (x.what = "approve" /\ requests[x.req].status = "pending") => requests[x.req].token = x.token
  /\ (x.what = "approve" /\ x.phase = "commit") =>
       LET s == SupplierOf[x.req] IN
       /\ x.version <= suppliers[s].version
       /\ x.version = suppliers[s].version => x.events = ApprovalEvents(s, x.req)
  /\ x.what = "revoke" => x.events = {Event(x.version + 1, "revoked", x.req)}
  /\ x.what = "rotate" => x.token \in Tokens

CallInv(h, x) ==
  /\ x.phase # "idle" => x.req \in Requests /\ x.cmd \in Commands /\ Role(h, x)
  /\ x.phase \in {"build", "commit"} => Reading(x)
  /\ x.phase = "ok" => Reply(x)

LifeInv ==
  /\ LifecycleTypeOK /\ BoundTypeOK
  /\ \A r \in Requests : RowInv(r)
  /\ \A s \in Suppliers : LogInv(s)
  /\ \A c \in Commands : BoundInv(c)
  /\ \A h \in Rewrappers : RewrapInv(h)
  /\ \A h \in Callers : CallInv(h, calls[h])
  /\ SupplyNeedsAuthorization
  /\ TokenLimitHolds

---------------------------------------------------------------------------
(* What a step may do to a request: its status only advances, its revision
   counts, and its credential is forgotten, replaced by the owner under a new
   revision, or encrypted again. *)
RowMoves(r) ==
  LET old == requests[r]
      new == requests'[r] IN
  /\ \/ new.status = old.status
     \/ old.status = "none" /\ new.status = "pending"
     \/ old.status = "pending" /\ new.status \in {"approved", "rejected", "withdrawn"}
     \/ old.status = "approved" /\ new.status = "revoked"
  /\ old.expired => new.expired
  /\ (old.status = "pending" /\ new.status = "pending") => new.token = old.token
  /\ new.rev \in {old.rev, old.rev + 1}
  /\ old.by # NoCommand => new.by = old.by
  /\ (new.status \in {"rejected", "withdrawn", "revoked"} /\ new.status # old.status) => new.token = NoToken
  /\ (new.status \in {"withdrawn", "revoked"} /\ new.status # old.status) => new.rev = old.rev + 1
  /\ \/ new.token \in {old.token, NoToken} /\ new.gen = old.gen
     \/ old.status = "none" /\ new.status = "pending" /\ new.gen = old.gen
     \/ /\ old.status = "approved" /\ new.status = "approved" /\ new.rev = old.rev + 1
        /\ new.gen \in Commands /\ cycleBound'["rotate"][new.gen] = <<r, new.token>>
     \/ /\ old.token # NoToken /\ new.token = old.token /\ new.gen \in Rewrappers
        /\ rewraps[new.gen].phase # "done" /\ rewraps'[new.gen].phase = "done"

(* What a newly bound command has done. *)
Effect(o, r) ==
  IF o = "rotate" THEN requests'[r].rev > 1 /\ requests'[r].status \in {"approved", "revoked"}
  ELSE requests'[r].status \in {"withdrawn", "revoked"}

BoundMoves(c) ==
  /\ \A o \in Cycles : \/ cycleBound'[o][c] = cycleBound[o][c]
                       \/ cycleBound[o][c] = Unbound /\ Effect(o, cycleBound'[o][c][1])
  /\ \/ offerBound'[c] = offerBound[c]
     \/ \E o \in offers' : o.req = offerBound'[c][1]

Quiet(s) ==
  /\ log'[s] = log[s] /\ suppliers'[s].version = suppliers[s].version
  /\ suppliers'[s].status = suppliers[s].status
  /\ \A r \in Requests : SupplierOf[r] = s =>
       /\ requests'[r].status \in {"approved", "revoked"} <=> requests[r].status \in {"approved", "revoked"}
       /\ requests'[r].status = "revoked" <=> requests[r].status = "revoked"

(* The log of a supplier moves only with its version. *)
SupplierMoves(s) ==
  /\ Quiet(s) \/ (suppliers'[s].version > suppliers[s].version /\ LogInv(s)')
  /\ suppliers'[s].enabled =>
       \/ /\ suppliers[s].enabled
          /\ \A r \in Requests : (SupplierOf[r] = s /\ requests[r].status = "approved")
                                   => requests'[r].status = "approved"
       \/ \E r \in Requests : SupplierOf[r] = s /\ requests'[r].status = "approved"

SameStanding(r) ==
  /\ requests'[r].status \in {"approved", "revoked"} <=> requests[r].status \in {"approved", "revoked"}
  /\ requests'[r].status = "revoked" <=> requests[r].status = "revoked"

Holding(r, t) == requests[r].status = "approved" /\ ~requests[r].expired /\ requests[r].token = t
HoldingNext(r, t) == requests'[r].status = "approved" /\ ~requests'[r].expired /\ requests'[r].token = t

LimitMoves(t) ==
  \/ \A r \in Requests : HoldingNext(r, t) => Holding(r, t)
  \/ Cardinality({r \in Requests : HoldingNext(r, t)}) <= PerToken

Orderly ==
  /\ \A r \in Requests : RowMoves(r)
  /\ \A c \in Commands : BoundMoves(c)
  /\ \A s \in Suppliers : SupplierMoves(s)
  /\ \A t \in Tokens : LimitMoves(t)
  /\ \A h \in Rewrappers : rewraps[h].phase = "done" => rewraps'[h].phase = "done"
  /\ offers \subseteq offers'

(* What the reviews, rotations and offers of one role may bind. *)
LEMMA Bindings ==
  ASSUME LifeInv, NEW c \in Commands, NEW o \in Cycles
  PROVE  /\ cycleBound[o][c] = Unbound \/ \E r \in Requests, p \in Tokens \cup {NoToken} : cycleBound[o][c] = <<r, p>>
         /\ \A r, p : <<r, p>> # Unbound
<1>1. cycleBound \in [Cycles -> [Commands -> {Unbound} \cup (Requests \X (Tokens \cup {NoToken}))]]
  BY DEF LifeInv, BoundTypeOK
<1>2. cycleBound[o][c] \in {Unbound} \cup (Requests \X (Tokens \cup {NoToken}))
  BY <1>1
<1>3. QED
  BY <1>2 DEF Unbound

(* The roles of the handlers, the commands and the writers of ciphertexts
   are told apart. *)
LEMMA RolesApart ==
  /\ \A c \in Commands : c \notin Rewrappers /\ c # Submitted /\ c # NoCommand /\ c \in Writers
  /\ \A h \in Rewrappers : h # Submitted /\ h \in Writers
  /\ NoToken \notin Tokens
BY LifecycleAssumption DEF Handlers, Writers

(* What a step keeps of a request. *)
LEMMA RowAdvances ==
  ASSUME LifeInv, Orderly, NEW r \in Requests
  PROVE  /\ requests'[r].rev >= requests[r].rev /\ requests[r].rev \in Nat /\ requests'[r].rev \in Nat
         /\ requests[r].status \in {"withdrawn", "revoked"} => requests'[r].status \in {"withdrawn", "revoked"}
         /\ requests[r].status \in {"approved", "revoked"} => requests'[r].status \in {"approved", "revoked"}
         /\ requests[r].status = "rejected" => requests'[r].status = "rejected"
         /\ requests[r].status # "none" => requests'[r].status # "none"
         /\ requests[r].by # NoCommand => requests'[r].by = requests[r].by
         /\ r \in Fresh' => r \in Fresh
<1>1. RowMoves(r) /\ requests[r] \in RequestRow
  BY DEF LifeInv, Orderly, LifecycleTypeOK
<1>2. requests[r].rev \in Nat /\ requests'[r].rev \in {requests[r].rev, requests[r].rev + 1}
  BY <1>1 DEF RowMoves, RequestRow
<1>3. requests'[r].rev >= requests[r].rev /\ requests'[r].rev \in Nat
  BY <1>2
<1>4. /\ requests[r].status \in {"withdrawn", "revoked"} => requests'[r].status \in {"withdrawn", "revoked"}
      /\ requests[r].status \in {"approved", "revoked"} => requests'[r].status \in {"approved", "revoked"}
      /\ requests[r].status = "rejected" => requests'[r].status = "rejected"
      /\ requests[r].status # "none" => requests'[r].status # "none"
      /\ requests[r].by # NoCommand => requests'[r].by = requests[r].by
  BY <1>1 DEF RowMoves
<1>5. r \in Fresh' => r \in Fresh
  BY <1>1, Zenon DEF RowMoves, Fresh
<1>6. QED
  BY <1>2, <1>3, <1>4, <1>5

(* A request that moves in order keeps what is known of its ciphertext. *)
LEMMA RowsKept ==
  ASSUME LifeInv, Orderly, NEW r \in Requests
  PROVE  RowInv(r)'
<1> DEFINE old == requests[r]
           new == requests'[r]
<1>1. RowMoves(r) /\ RowInv(r) /\ old \in RequestRow
  BY DEF LifeInv, Orderly, LifecycleTypeOK
<1>2. new.status = "none" => new.token = NoToken /\ new.gen = Submitted
  BY <1>1, RolesApart DEF RowMoves, RowInv
<1>3. new.rev >= 1
  BY <1>1 DEF RowMoves, RowInv, RequestRow
<1>4. new.status \in {"rejected", "withdrawn", "revoked"} => new.token = NoToken
  BY <1>1 DEF RowMoves, RowInv
<1>5. ASSUME new.gen \in Commands, new.token # NoToken
      PROVE  cycleBound'["rotate"][new.gen] = <<r, new.token>>
  <2>1. CASE new.token \in {old.token, NoToken} /\ new.gen = old.gen
    <3>1. cycleBound["rotate"][new.gen] = <<r, new.token>>
      BY <1>1, <1>5, <2>1 DEF RowInv
    <3>2. cycleBound["rotate"][new.gen] # Unbound
      BY <1>5, <3>1, Bindings DEF Cycles
    <3>3. BoundMoves(new.gen)
      BY <1>5 DEF Orderly
    <3>4. QED
      BY <3>1, <3>2, <3>3 DEF BoundMoves, Cycles
  <2>2. CASE old.status = "none" /\ new.gen = old.gen
    BY <1>1, <1>5, <2>2, RolesApart DEF RowInv
  <2>3. CASE new.gen \in Rewrappers
    BY <1>5, <2>3, RolesApart
  <2>4. QED
    BY <1>1, <1>5, <2>1, <2>2, <2>3 DEF RowMoves
<1>6. new.gen \in Rewrappers => rewraps'[new.gen].phase = "done"
  BY <1>1, RolesApart DEF RowMoves, RowInv, Orderly
<1>7. QED
  BY <1>2, <1>3, <1>4, <1>5, <1>6 DEF RowInv

(* What a bound command did is not undone. *)
LEMMA BoundKept ==
  ASSUME LifeInv, Orderly, NEW c \in Commands
  PROVE  BoundInv(c)'
<1>1. BoundMoves(c) /\ BoundInv(c) /\ offers \subseteq offers'
  BY DEF LifeInv, Orderly
<1>2. ASSUME NEW o \in Cycles, cycleBound'[o][c] # Unbound PROVE Effect(o, cycleBound'[o][c][1])
  <2> DEFINE r == cycleBound[o][c][1]
  <2>1. CASE cycleBound'[o][c] = cycleBound[o][c]
    <3>1. r \in Requests
      BY <1>2, <2>1, Bindings
    <3>2. RowMoves(r) /\ requests[r] \in RequestRow
      BY <3>1 DEF Orderly, LifeInv, LifecycleTypeOK
    <3>3. IF o = "rotate" THEN requests[r].rev > 1 /\ requests[r].status \in {"approved", "revoked"}
          ELSE requests[r].status \in {"withdrawn", "revoked"}
      BY <1>1, <1>2, <2>1 DEF BoundInv, Cycles
    <3>4. /\ requests'[r].rev >= requests[r].rev /\ requests[r].rev \in Nat /\ requests'[r].rev \in Nat
          /\ requests[r].status \in {"withdrawn", "revoked"} => requests'[r].status \in {"withdrawn", "revoked"}
          /\ requests[r].status \in {"approved", "revoked"} => requests'[r].status \in {"approved", "revoked"}
      <4> HIDE DEF r
      <4> QED BY <3>1, RowAdvances
    <3>5. IF o = "rotate" THEN requests'[r].rev > 1 /\ requests'[r].status \in {"approved", "revoked"}
          ELSE requests'[r].status \in {"withdrawn", "revoked"}
      <4> HIDE DEF r
      <4>2. CASE o = "rotate"
        BY <3>3, <3>4, <4>2
      <4>3. CASE o # "rotate"
        BY <3>3, <3>4, <4>3
      <4>4. QED
        BY <4>2, <4>3
    <3>6. QED
      BY <2>1, <3>5 DEF Effect
  <2>2. QED
    BY <1>1, <2>1 DEF BoundMoves
<1>3. offerBound'[c] # Unbound => \E o \in offers' : o.req = offerBound'[c][1]
  BY <1>1 DEF BoundMoves, BoundInv
<1>4. QED
  BY <1>2, <1>3 DEF BoundInv, Effect, Cycles

(* A ciphertext read earlier, as long as it is stored, stands for the token
   that was read. *)
LEMMA HeldKept ==
  ASSUME LifeInv, Orderly, NEW g \in Generation, HeldInv(g)
  PROVE  HeldInv(g)'
<1> DEFINE r == g.req
           old == requests[r]
           new == requests'[r]
<1>1. r \in Requests /\ RowMoves(r) /\ RowInv(r)
  BY DEF LifeInv, Orderly, Generation
<1>2. new.status # "none"
  BY <1>1 DEF RowMoves, HeldInv
<1>3. g.gen \in Commands => cycleBound'["rotate"][g.gen] = <<r, g.token>>
  <2> SUFFICES ASSUME g.gen \in Commands PROVE cycleBound'["rotate"][g.gen] = <<r, g.token>>
    OBVIOUS
  <2>1. cycleBound["rotate"][g.gen] = <<r, g.token>> /\ cycleBound["rotate"][g.gen] # Unbound /\ BoundMoves(g.gen)
    BY Bindings DEF HeldInv, Orderly, Cycles
  <2>2. QED
    BY <2>1 DEF BoundMoves, Cycles
<1>4. g.gen \in Rewrappers => rewraps'[g.gen].phase = "done"
  BY DEF HeldInv, Orderly
<1>5. ASSUME new.gen = g.gen, new.token # NoToken PROVE new.token = g.token
  <2>1. CASE new.gen \in Commands
    <3>1. cycleBound'["rotate"][new.gen] = <<r, new.token>>
      BY <1>1, <1>5, <2>1, RowsKept DEF RowInv
    <3>2. QED
      BY <1>3, <1>5, <2>1, <3>1
  <2>2. CASE new.gen \notin Commands
    BY <1>1, <1>5, <2>2 DEF RowMoves, HeldInv
  <2>3. QED
    BY <2>1, <2>2
<1>6. QED
  BY <1>2, <1>3, <1>4, <1>5 DEF HeldInv

---------------------------------------------------------------------------
(* Counting numbered events. *)

(* Numbered events are as many as their versions. *)
LEMMA NumberedCount ==
  ASSUME NEW S, NEW a \in Nat, NEW b \in Nat, a <= b, Numbered(S, a, b)
  PROVE  IsFiniteSet(S) /\ Cardinality(S) = b - a
<1> DEFINE D == (a + 1)..b
           f == [e \in S |-> e.version]
<1>1. f \in [S -> D]
  BY DEF Numbered
<1>2. \A d \in D : \E e \in S : f[e] = d
  BY DEF Numbered
<1>3. \A e1 \in S, e2 \in S : f[e1] = f[e2] => e1 = e2
  BY DEF Numbered
<1>4. f \in Bijection(S, D)
  BY <1>1, <1>2, <1>3, Zenon DEF Bijection, Injection, Surjection, IsInjective
<1>5. ExistsBijection(S, D)
  BY <1>4 DEF ExistsBijection
<1>6. IsFiniteSet(D) /\ Cardinality(D) = b - a
  <2>1. a + 1 \in Int /\ b \in Int
    OBVIOUS
  <2>2. IsFiniteSet(D) /\ Cardinality(D) = IF a + 1 > b THEN 0 ELSE b - (a + 1) + 1
    BY <2>1, FS_Interval
  <2>3. (IF a + 1 > b THEN 0 ELSE b - (a + 1) + 1) = b - a
    OBVIOUS
  <2>4. QED
    BY <2>2, <2>3
<1>7. ExistsBijection(D, S)
  BY <1>5, Fun_ExistsBijSymmetric
<1> QED
  BY <1>6, <1>7, FS_Bijection

(* Events numbered after the others continue them. *)
LEMMA NumberedJoin ==
  ASSUME NEW S, NEW E, NEW a \in Nat, NEW b \in Nat, NEW c \in Nat, a <= b, b <= c,
         Numbered(S, a, b), Numbered(E, b, c)
  PROVE  Numbered(S \cup E, a, c)
<1>1. \A e \in S : e.version \in (a + 1)..b
  BY DEF Numbered
<1>2. \A e \in E : e.version \in (b + 1)..c
  BY DEF Numbered
<1>3. \A n \in (a + 1)..c : n \in (a + 1)..b \/ n \in (b + 1)..c
  OBVIOUS
<1>4. \A n \in (a + 1)..b : n \in (a + 1)..c /\ n \notin (b + 1)..c
  OBVIOUS
<1>5. \A n \in (b + 1)..c : n \in (a + 1)..c /\ n \notin (a + 1)..b
  OBVIOUS
<1>6. {e.version : e \in S \cup E} = (a + 1)..c
  <2>1. ASSUME NEW n \in (a + 1)..c PROVE \E e \in S \cup E : e.version = n
    BY <1>3 DEF Numbered
  <2>2. \A e \in S \cup E : e.version \in (a + 1)..c
    BY <1>1, <1>2, <1>4, <1>5
  <2>3. QED
    BY <2>1, <2>2
<1>7. ASSUME NEW e \in S \cup E, NEW f \in S \cup E, e.version = f.version PROVE e = f
  <2>1. CASE e \in S /\ f \in S
    BY <1>7, <2>1 DEF Numbered
  <2>2. CASE e \in E /\ f \in E
    BY <1>7, <2>2 DEF Numbered
  <2>3. CASE e \in S /\ f \in E
    BY <1>1, <1>2, <1>4, <1>7, <2>3
  <2>4. CASE e \in E /\ f \in S
    BY <1>1, <1>2, <1>4, <1>7, <2>4
  <2>5. QED
    BY <2>1, <2>2, <2>3, <2>4
<1>8. QED
  BY <1>6, <1>7 DEF Numbered

(* The version of a supplier's row is the number of its events. *)
LEMMA LogCounted ==
  ASSUME LifeInv, NEW s \in Suppliers
  PROVE  /\ suppliers[s] \in SupplierRow /\ suppliers[s].version \in Nat
         /\ IsFiniteSet(log[s]) /\ LogVersion(s) = suppliers[s].version
<1>1. suppliers[s] \in SupplierRow /\ Numbered(log[s], 0, suppliers[s].version)
  BY DEF LifeInv, LifecycleTypeOK, LogInv
<1>2. suppliers[s].version \in Nat
  BY <1>1 DEF SupplierRow
<1>3. IsFiniteSet(log[s]) /\ Cardinality(log[s]) = suppliers[s].version - 0
  BY <1>1, <1>2, NumberedCount
<1>4. QED
  BY <1>1, <1>2, <1>3 DEF LogVersion

(* An approval numbers its events after those of the log. *)
LEMMA ApprovalFacts ==
  ASSUME NEW s \in Suppliers, NEW r \in Requests, LogVersion(s) \in Nat
  PROVE  \E m \in Nat :
           /\ m > LogVersion(s) /\ Numbered(ApprovalEvents(s, r), LogVersion(s), m)
           /\ Cardinality(ApprovalEvents(s, r)) = m - LogVersion(s)
           /\ ApprovalEvents(s, r) \subseteq EventRow
           /\ \A e \in ApprovalEvents(s, r) : e.req = r /\ e.type # "revoked"
           /\ \E e \in ApprovalEvents(s, r) : e.type = "authorization"
           /\ Happened(s, "activated") \/ \E e \in ApprovalEvents(s, r) : e.type = "activated"
<1> DEFINE v == LogVersion(s)
           n == IF Happened(s, "verification") THEN 0 ELSE Verifications
           A == {Event(v + i, "verification", r) : i \in 1..n}
           B == {Event(v + n + 1, "authorization", r)}
           C == IF Happened(s, "activated") THEN {} ELSE {Event(v + n + 2, "activated", r)}
           m == IF Happened(s, "activated") THEN v + n + 1 ELSE v + n + 2
           E == ApprovalEvents(s, r)
<1>1. n \in Nat /\ v \in Nat /\ m \in Nat /\ m > v
  BY LifecycleAssumption
<1>2. E = (A \cup B) \cup C
  BY DEF ApprovalEvents
<1>3. Numbered(A, v, v + n)
  <2> HIDE DEF n, v
  <2>1. \A e \in A : \E i \in 1..n : e = Event(v + i, "verification", r)
    OBVIOUS
  <2>2. \A i \in 1..n : Event(v + i, "verification", r).version = v + i
    BY DEF Event
  <2>3. \A e \in A : e.version \in (v + 1)..(v + n)
    BY <1>1, <2>1, <2>2
  <2>4. ASSUME NEW j \in (v + 1)..(v + n) PROVE \E e \in A : e.version = j
    <3>1. j - v \in 1..n /\ v + (j - v) = j
      BY <1>1
    <3>2. Event(v + (j - v), "verification", r) \in A
      BY <3>1
    <3>3. QED
      BY <2>2, <3>1, <3>2
  <2>5. ASSUME NEW e \in A, NEW f \in A, e.version = f.version PROVE e = f
    <3>1. PICK i \in 1..n : e = Event(v + i, "verification", r)
      BY <2>1
    <3>2. PICK j \in 1..n : f = Event(v + j, "verification", r)
      BY <2>1
    <3>3. v + i = v + j
      BY <2>2, <2>5, <3>1, <3>2
    <3>4. QED
      BY <3>1, <3>2, <3>3
  <2> HIDE DEF A
  <2>6. {e.version : e \in A} = (v + 1)..(v + n)
    BY <2>3, <2>4
  <2>7. QED
    BY <2>5, <2>6 DEF Numbered
<1>4. Numbered(B, v + n, v + n + 1)
  <2> HIDE DEF n, v
  <2>1. (v + n + 1)..(v + n + 1) = {v + n + 1}
    BY <1>1
  <2>2. \A e \in B : e.version = v + n + 1 /\ e = Event(v + n + 1, "authorization", r)
    BY DEF Event
  <2>3. QED
    BY <2>1, <2>2 DEF Numbered
<1>5. Numbered(A \cup B, v, v + n + 1)
  <2> HIDE DEF n, v, A, B
  <2> QED BY <1>1, <1>3, <1>4, NumberedJoin
<1>6. Numbered(E, v, m)
  <2>1. CASE Happened(s, "activated")
    <3>1. E = A \cup B /\ m = v + n + 1
      BY <1>2, <2>1
    <3> HIDE DEF n, v, A, B, E, m
    <3>2. QED
      BY <1>5, <3>1
  <2>2. CASE ~Happened(s, "activated")
    <3>1. E = (A \cup B) \cup {Event(v + n + 2, "activated", r)} /\ m = v + n + 2
      BY <1>2, <2>2
    <3> HIDE DEF n, v, A, B, E, m, C
    <3>2. Numbered({Event(v + n + 2, "activated", r)}, v + n + 1, v + n + 2)
      <4>1. (v + n + 1 + 1)..(v + n + 2) = {v + n + 2}
        BY <1>1
      <4>2. \A e \in {Event(v + n + 2, "activated", r)} : e.version = v + n + 2 /\ e = Event(v + n + 2, "activated", r)
        BY DEF Event
      <4>3. QED
        BY <4>1, <4>2 DEF Numbered
    <3>3. QED
      BY <1>1, <1>5, <3>1, <3>2, NumberedJoin
  <2>3. QED
    BY <2>1, <2>2
<1>7. \A e \in E : e.req = r /\ e.type \in {"verification", "authorization", "activated"} /\ e.version \in Nat
  <2>1. \A e \in E : e.req = r /\ e.type \in {"verification", "authorization", "activated"}
    BY <1>2 DEF Event
  <2> HIDE DEF n, v, A, B, E, m, C
  <2>2. \A e \in E : e.version \in (v + 1)..m
    BY <1>6 DEF Numbered
  <2>3. QED
    BY <1>1, <2>1, <2>2
<1>8. \A e \in E : e \in EventRow
  <2>1. \A e \in E : \E w, ty : e = Event(w, ty, r)
    BY <1>2
  <2> HIDE DEF n, v, A, B, E, m, C
  <2>2. ASSUME NEW e \in E PROVE e \in EventRow
    <3>1. PICK w, ty : e = Event(w, ty, r)
      BY <2>1
    <3>2. w = e.version /\ ty = e.type
      BY <3>1 DEF Event
    <3>3. QED
      BY <1>7, <3>1, <3>2 DEF Event, EventRow
  <2>3. QED
    BY <2>2
<1>9. \E e \in E : e.type = "authorization"
  <2>1. Event(v + n + 1, "authorization", r) \in E
    BY <1>2
  <2>2. QED
    BY <2>1 DEF Event
<1>10. Happened(s, "activated") \/ \E e \in E : e.type = "activated"
  <2>1. Happened(s, "activated") \/ Event(v + n + 2, "activated", r) \in E
    BY <1>2
  <2>2. QED
    BY <2>1 DEF Event
<1>11. Cardinality(E) = m - v
  <2> HIDE DEF n, v, A, B, E, m, C
  <2>1. v \in Nat /\ m \in Nat /\ v <= m
    BY <1>1
  <2>2. QED
    BY <1>6, <2>1, NumberedCount
<1> HIDE DEF n, A, B, E, m, C
<1>12. /\ m > v /\ Numbered(E, v, m) /\ Cardinality(E) = m - v /\ E \subseteq EventRow
       /\ \A e \in E : e.req = r /\ e.type # "revoked"
       /\ \E e \in E : e.type = "authorization"
       /\ Happened(s, "activated") \/ \E e \in E : e.type = "activated"
  BY <1>1, <1>6, <1>7, <1>8, <1>9, <1>10, <1>11
<1>13. QED
  BY <1>1, <1>12 DEF E

---------------------------------------------------------------------------
(* Orderly steps keep every part of the invariant but the handlers' own. *)

(* The log of a supplier that keeps still says the same of its rows. *)
LEMMA LogKept ==
  ASSUME LifeInv, Orderly, NEW s \in Suppliers
  PROVE  LogInv(s)'
<1>1. SupplierMoves(s) /\ LogInv(s)
  BY DEF LifeInv, Orderly
<1>2. ASSUME Quiet(s) PROVE LogInv(s)'
  <2>1. /\ log'[s] = log[s] /\ suppliers'[s].version = suppliers[s].version
        /\ suppliers'[s].status = suppliers[s].status
    BY <1>2 DEF Quiet
  <2>2. Numbered(log[s], 0, suppliers[s].version)' /\ (suppliers'[s].status = "none" => log'[s] = {})
    BY <1>1, <2>1 DEF LogInv
  <2>3. Happened(s, "activated")' <=> suppliers'[s].status = "active"
    BY <1>1, <2>1 DEF LogInv, Happened
  <2>4. ASSUME NEW r \in Requests, SupplierOf[r] = s
        PROVE  /\ Recorded(s, r)' <=> requests'[r].status \in {"approved", "revoked"}
               /\ RevokedInLog(s, r)' <=> requests'[r].status = "revoked"
    <3>1. /\ requests'[r].status \in {"approved", "revoked"} <=> requests[r].status \in {"approved", "revoked"}
          /\ requests'[r].status = "revoked" <=> requests[r].status = "revoked"
      BY <1>2, <2>4 DEF Quiet
    <3>2. /\ Recorded(s, r) <=> requests[r].status \in {"approved", "revoked"}
          /\ RevokedInLog(s, r) <=> requests[r].status = "revoked"
      BY <1>1, <2>4 DEF LogInv
    <3>3. (Recorded(s, r)' <=> Recorded(s, r)) /\ (RevokedInLog(s, r)' <=> RevokedInLog(s, r))
      BY <2>1 DEF Recorded, RevokedInLog
    <3>4. QED
      BY <3>1, <3>2, <3>3
  <2>5. QED
    BY <2>2, <2>3, <2>4 DEF LogInv
<1>3. QED
  BY <1>1, <1>2 DEF SupplierMoves

(* Supply that is on keeps an approved authorization behind it. *)
LEMMA SupplyKept ==
  ASSUME LifeInv, Orderly
  PROVE  SupplyNeedsAuthorization'
<1> SUFFICES ASSUME NEW s \in Suppliers, suppliers'[s].enabled
             PROVE  \E r \in Requests : SupplierOf[r] = s /\ requests'[r].status = "approved"
  BY DEF SupplyNeedsAuthorization
<1>1. SupplierMoves(s)
  BY DEF Orderly
<1>2. suppliers[s].enabled => \E r \in Requests : SupplierOf[r] = s /\ requests[r].status = "approved"
  BY DEF LifeInv, SupplyNeedsAuthorization
<1>3. QED
  BY <1>1, <1>2 DEF SupplierMoves

(* A token gets no holder more, or is below the limit. *)
LEMMA LimitKept ==
  ASSUME LifeInv, Orderly, LifecycleTypeOK'
  PROVE  TokenLimitHolds'
<1> SUFFICES ASSUME NEW t \in Tokens PROVE Cardinality(Holders(t, Fresh)') <= PerToken
  BY DEF TokenLimitHolds
<1> DEFINE H == Holders(t, Fresh)
           N == {r \in Requests : HoldingNext(r, t)}
<1>1. requests \in [Requests -> RequestRow] /\ requests' \in [Requests -> RequestRow]
  BY DEF LifeInv, LifecycleTypeOK
<1>2. H' = N
  BY Zenon DEF Holders, Valid, Fresh, HoldingNext
<1>3. H = {r \in Requests : Holding(r, t)}
  BY Zenon DEF Holders, Valid, Fresh, Holding
<1>4. Cardinality(H) <= PerToken
  BY DEF LifeInv, TokenLimitHolds
<1>5. IsFiniteSet(Requests) /\ H \subseteq Requests /\ N \subseteq Requests /\ PerToken \in Nat
  BY LifecycleAssumption DEF Holders
<1>6. CASE \A r \in Requests : HoldingNext(r, t) => Holding(r, t)
  <2>1. N \subseteq H
    BY <1>3, <1>6
  <2>2. IsFiniteSet(H)
    BY <1>5, FS_Subset
  <2>3. IsFiniteSet(N) /\ Cardinality(N) <= Cardinality(H)
    BY <2>1, <2>2, FS_Subset
  <2>4. Cardinality(N) \in Nat /\ Cardinality(H) \in Nat
    BY <2>2, <2>3, FS_CardinalityType
  <2>5. QED
    BY <1>2, <1>4, <1>5, <2>3, <2>4
<1>7. CASE Cardinality(N) <= PerToken
  BY <1>2, <1>7
<1>8. QED
  BY <1>6, <1>7 DEF Orderly, LimitMoves

(* A re-encryption that read credentials keeps a good reading of them. *)
LEMMA RewrapKept ==
  ASSUME LifeInv, Orderly, NEW h \in Rewrappers,
         rewraps'[h] = rewraps[h] \/ rewraps'[h].rows = {}
  PROVE  RewrapInv(h)'
<1>1. RewrapInv(h) /\ rewraps[h].rows \subseteq Generation
  BY DEF LifeInv, LifecycleTypeOK, RewrapRow
<1>2. \A g \in rewraps'[h].rows : HeldInv(g)'
  <2> SUFFICES ASSUME NEW g \in rewraps'[h].rows PROVE HeldInv(g)'
    OBVIOUS
  <2>1. g \in rewraps[h].rows
    OBVIOUS
  <2>2. g \in Generation /\ HeldInv(g)
    BY <1>1, <2>1 DEF RewrapInv
  <2>3. QED
    BY <2>2, HeldKept
<1>3. QED
  BY <1>1, <1>2 DEF RewrapInv

(* What a handler's reading or answer is good for survives the steps of the
   others. *)
LEMMA CallKept ==
  ASSUME LifeInv, Orderly, LifecycleTypeOK', NEW h \in Callers, NEW x \in CallRow, CallInv(h, x)
  PROVE  CallInv(h, x)'
<1>1. x.phase # "idle" => x.req \in Requests /\ x.cmd \in Commands /\ Role(h, x)
  BY DEF CallInv
<1>2. ASSUME x.phase \in {"build", "commit"} PROVE Reading(x)'
  <2> DEFINE r == x.req
             s == SupplierOf[r]
  <2>1. r \in Requests /\ Reading(x) /\ s \in Suppliers /\ x.version \in Nat
    BY <1>1, <1>2, LifecycleAssumption DEF CallInv, CallRow
  <2>2. Fresh' \subseteq x.fresh
    <3>1. ASSUME NEW q \in Fresh' PROVE q \in x.fresh
      <4>1. q \in Requests
        BY DEF Fresh
      <4>2. QED
        BY <2>1, <3>1, <4>1, RowAdvances DEF Reading
    <3>2. QED
      BY <3>1
  <2>3. requests'[r].status # "none"
    BY <2>1, RowAdvances DEF Reading
  <2>4. RowMoves(r)
    BY <2>1 DEF Orderly
  <2>5. (x.what = "approve" /\ requests'[r].status = "pending") => requests'[r].token = x.token
    BY <2>1, <2>3, <2>4 DEF RowMoves, Reading
  <2>6. ASSUME x.what = "approve", x.phase = "commit"
        PROVE  /\ x.version <= suppliers'[s].version
               /\ x.version = suppliers'[s].version => x.events = ApprovalEvents(s, r)'
    <3>1. /\ x.version <= suppliers[s].version
          /\ x.version = suppliers[s].version => x.events = ApprovalEvents(s, r)
      BY <2>1, <2>6 DEF Reading
    <3>2. SupplierMoves(s) /\ LogInv(s)'
      BY <2>1, LogKept DEF Orderly
    <3>3. suppliers[s].version \in Nat
      BY <2>1, LogCounted
    <3>4. CASE Quiet(s)
      <4>1. log'[s] = log[s] /\ suppliers'[s].version = suppliers[s].version
        BY <3>4 DEF Quiet
      <4>2. (Happened(s, "activated")' <=> Happened(s, "activated")) /\ LogVersion(s)' = LogVersion(s)
            /\ (Happened(s, "verification")' <=> Happened(s, "verification"))
        BY <4>1 DEF Happened, LogVersion
      <4> DEFINE n == IF Happened(s, "verification") THEN 0 ELSE Verifications
      <4>3. n' = n
        BY <4>2
      <4> HIDE DEF n, r, s
      <4>4. ApprovalEvents(s, r) =
              {Event(LogVersion(s) + i, "verification", r) : i \in 1..n}
              \cup {Event(LogVersion(s) + n + 1, "authorization", r)}
              \cup (IF Happened(s, "activated") THEN {} ELSE {Event(LogVersion(s) + n + 2, "activated", r)})
        BY Zenon DEF ApprovalEvents, n
      <4>5. ApprovalEvents(s, r)' =
              {Event(LogVersion(s)' + i, "verification", r) : i \in 1..n'}
              \cup {Event(LogVersion(s)' + n' + 1, "authorization", r)}
              \cup (IF Happened(s, "activated")' THEN {} ELSE {Event(LogVersion(s)' + n' + 2, "activated", r)})
        BY Zenon DEF ApprovalEvents, n
      <4>6. ApprovalEvents(s, r)' = ApprovalEvents(s, r)
        BY <4>2, <4>3, <4>4, <4>5, Zenon
      <4>7. QED
        BY <3>1, <4>1, <4>6
    <3>5. CASE suppliers'[s].version > suppliers[s].version
      <4>1. suppliers'[s].version \in Nat
        BY <2>1 DEF LifecycleTypeOK, SupplierRow
      <4>2. QED
        BY <2>1, <3>1, <3>3, <3>5, <4>1
    <3>6. QED
      BY <3>2, <3>4, <3>5 DEF SupplierMoves
  <2>7. /\ x.what = "revoke" => x.events = {Event(x.version + 1, "revoked", x.req)}
        /\ x.what = "rotate" => x.token \in Tokens
    BY <2>1 DEF Reading
  <2>8. QED
    BY <2>2, <2>3, <2>5, <2>6, <2>7 DEF Reading
<1>3. ASSUME x.phase = "ok" PROVE Reply(x)'
  <2>1. x.req \in Requests /\ x.cmd \in Commands /\ Reply(x)
    BY <1>1, <1>3 DEF CallInv
  <2>2. x.cmd # NoCommand /\ offers \subseteq offers'
    BY <2>1, RolesApart DEF Orderly
  <2>3. QED
    BY <2>1, <2>2, RowAdvances DEF Reply
<1>4. QED
  BY <1>1, <1>2, <1>3 DEF CallInv, Role

(* It is enough that a step is orderly, keeps the types and leaves every
   handler with a reading or an answer of its own that is good. *)
LEMMA OrderlyKeeps ==
  ASSUME LifeInv, Orderly, LifecycleTypeOK', BoundTypeOK',
         \A h \in Rewrappers : RewrapInv(h)',
         \A h \in Callers : CallInv(h, calls[h])'
  PROVE  LifeInv'
<1>1. \A r \in Requests : RowInv(r)'
  BY RowsKept
<1>2. \A s \in Suppliers : LogInv(s)'
  BY LogKept
<1>3. \A c \in Commands : BoundInv(c)'
  BY BoundKept
<1>4. SupplyNeedsAuthorization' /\ TokenLimitHolds'
  BY SupplyKept, LimitKept
<1>5. QED
  BY <1>1, <1>2, <1>3, <1>4 DEF LifeInv

(* A handler that does not move keeps its reading or answer. *)
LEMMA OthersKept ==
  ASSUME LifeInv, Orderly, LifecycleTypeOK', NEW h \in Callers, calls'[h] = calls[h]
  PROVE  CallInv(h, calls[h])'
<1>1. PICK x \in CallRow : x = calls[h]
  BY DEF LifeInv, LifecycleTypeOK
<1>2. CallInv(h, x)
  BY <1>1 DEF LifeInv
<1>3. CallInv(h, x)'
  BY <1>2, CallKept
<1>4. QED
  BY <1>1, <1>3

(* A step of which only the clients and the readings of handlers know. *)
LEMMA StillOrderly ==
  ASSUME LifeInv, UNCHANGED <<tables, keys>>,
         \A h \in Rewrappers : rewraps[h].phase = "done" => rewraps'[h].phase = "done"
  PROVE  Orderly
<1>1. /\ suppliers' = suppliers /\ log' = log /\ requests' = requests /\ offers' = offers
      /\ cycleBound' = cycleBound /\ offerBound' = offerBound
  BY DEF tables, keys
<1>2. ASSUME NEW r \in Requests PROVE RowMoves(r)
  BY <1>1 DEF RowMoves
<1>3. ASSUME NEW c \in Commands PROVE BoundMoves(c)
  BY <1>1 DEF BoundMoves
<1>4. ASSUME NEW s \in Suppliers PROVE SupplierMoves(s)
  BY <1>1 DEF SupplierMoves, Quiet
<1>5. ASSUME NEW t \in Tokens PROVE LimitMoves(t)
  BY <1>1 DEF LimitMoves, Holding, HoldingNext
<1>6. QED
  BY <1>1, <1>2, <1>3, <1>4, <1>5 DEF Orderly

(* A handler begins, reads, answers or gives up. *)
LEMMA CallOnly ==
  ASSUME LifeInv, NEW h \in Callers, NEW y \in CallRow, CallInv(h, y),
         calls' = [calls EXCEPT ![h] = y],
         UNCHANGED <<tables, keys, switches, rewraps>>
  PROVE  LifeInv' /\ Orderly
<1>1. Orderly
  BY StillOrderly
<1>2. LifecycleTypeOK' /\ BoundTypeOK'
  BY DEF LifeInv, LifecycleTypeOK, BoundTypeOK, tables, keys
<1>3. \A g \in Rewrappers : RewrapInv(g)'
  BY <1>1, RewrapKept
<1>4. ASSUME NEW g \in Callers PROVE CallInv(g, calls[g])'
  <2>0. calls \in [Callers -> CallRow]
    BY DEF LifeInv, LifecycleTypeOK
  <2>1. CASE g = h
    <3>1. calls'[g] = y
      BY <2>0, <2>1
    <3>2. CallInv(h, y)'
      BY <1>1, <1>2, CallKept
    <3>3. QED
      BY <2>1, <3>1, <3>2
  <2>2. CASE g # h
    BY <1>1, <1>2, <2>0, <2>2, OthersKept
  <2>3. QED
    BY <2>1, <2>2
<1>5. QED
  BY <1>1, <1>2, <1>3, <1>4, OrderlyKeeps

(* A handler has done its batch and goes on to verify it. *)
LEMMA CommitOnly ==
  ASSUME LifeInv, Orderly, NEW h \in Callers, calls[h].phase = "commit",
         calls' = [calls EXCEPT ![h].phase = "verify"],
         LifecycleTypeOK', BoundTypeOK', UNCHANGED rewraps
  PROVE  LifeInv'
<1>1. \A g \in Rewrappers : RewrapInv(g)'
  BY RewrapKept
<1>2. ASSUME NEW g \in Callers PROVE CallInv(g, calls[g])'
  <2>0. calls \in [Callers -> CallRow] /\ CallInv(g, calls[g])
    BY DEF LifeInv, LifecycleTypeOK
  <2>1. CASE g = h
    <3>1. calls'[g] = [calls[g] EXCEPT !.phase = "verify"]
      BY <2>0, <2>1
    <3>2. calls'[g].phase = "verify" /\ calls'[g].req = calls[g].req /\ calls'[g].cmd = calls[g].cmd
          /\ calls'[g].what = calls[g].what
      BY <2>0, <3>1 DEF CallRow
    <3>3. QED
      BY <2>0, <2>1, <3>2 DEF CallInv, Role
  <2>2. CASE g # h
    BY <2>0, <2>2, OthersKept
  <2>3. QED
    BY <2>1, <2>2
<1>3. QED
  BY <1>1, <1>2, OrderlyKeeps

(* A step of which no handler of a call and no encryption knows. *)
LEMMA RowsOnly ==
  ASSUME LifeInv, Orderly, LifecycleTypeOK', BoundTypeOK', UNCHANGED <<calls, rewraps>>
  PROVE  LifeInv'
<1>1. \A g \in Rewrappers : RewrapInv(g)'
  BY RewrapKept
<1>2. \A g \in Callers : CallInv(g, calls[g])'
  BY OthersKept
<1>3. QED
  BY <1>1, <1>2, OrderlyKeeps

---------------------------------------------------------------------------
(* The steps of the handlers up to their batch, and after it. *)

(* A handler has one role. *)
LEMMA RolesOfHandlers ==
  /\ \A h \in Reviewers : h \in Callers /\ h \notin Revokers /\ h \notin Rotators /\ h \notin Publishers
  /\ \A h \in Revokers : h \in Callers /\ h \notin Reviewers /\ h \notin Rotators /\ h \notin Publishers
  /\ \A h \in Rotators : h \in Callers /\ h \notin Reviewers /\ h \notin Revokers /\ h \notin Publishers
  /\ \A h \in Publishers : h \in Callers /\ h \notin Reviewers /\ h \notin Revokers /\ h \notin Rotators
  /\ \A h \in Callers \cup Switchers : KeysOf[h] \subseteq Commands
BY LifecycleAssumption DEF Callers

(* An idle handler claims nothing. *)
LEMMA IdleTyped == IdleCall \in CallRow /\ \A h \in Callers : CallInv(h, IdleCall)
BY DEF IdleCall, CallRow, CallInv, Writers

(* A handler that gives up, or ends with an answer that is true. *)
LEMMA EndedKeeps ==
  ASSUME LifeInv, NEW h \in Callers, NEW c \in Commands, NEW r \in Requests,
         NEW what \in Decisions \cup Cycles \cup {"publish"}, NEW ok \in BOOLEAN,
         Role(h, [IdleCall EXCEPT !.phase = "ok", !.cmd = c, !.req = r, !.what = what]),
         ok => Reply([IdleCall EXCEPT !.phase = "ok", !.cmd = c, !.req = r, !.what = what]),
         Ended(h, c, r, what, ok), UNCHANGED <<tables, keys, switches, rewraps>>
  PROVE  LifeInv' /\ Orderly
<1> DEFINE y == [IdleCall EXCEPT !.phase = "ok", !.cmd = c, !.req = r, !.what = what]
           z == IF ok THEN y ELSE IdleCall
<1>1. y \in CallRow /\ y.phase = "ok" /\ y.cmd = c /\ y.req = r
  BY IdleTyped DEF IdleCall, CallRow, Writers
<1>2. CallInv(h, y) \/ ~ok
  BY <1>1 DEF CallInv
<1>3. z \in CallRow /\ CallInv(h, z)
  BY <1>1, <1>2, IdleTyped
<1>4. calls' = [calls EXCEPT ![h] = z]
  BY DEF Ended
<1> HIDE DEF z
<1>5. QED
  BY <1>3, <1>4, CallOnly

(* What the row of a call is after a step that ends it. *)
LEMMA CallFacts ==
  ASSUME LifeInv, NEW h \in Callers, calls[h].phase # "idle"
  PROVE  /\ calls[h] \in CallRow /\ calls[h].req \in Requests /\ calls[h].cmd \in Commands
         /\ Role(h, calls[h]) /\ SupplierOf[calls[h].req] \in Suppliers
         /\ calls[h].phase \in {"build", "commit"} => Reading(calls[h])
         /\ requests[calls[h].req] \in RequestRow
<1>1. calls[h] \in CallRow /\ CallInv(h, calls[h])
  BY DEF LifeInv, LifecycleTypeOK
<1>2. calls[h].req \in Requests /\ calls[h].cmd \in Commands /\ Role(h, calls[h])
  BY <1>1 DEF CallInv
<1>3. QED
  BY <1>1, <1>2, LifecycleAssumption DEF CallInv, LifeInv, LifecycleTypeOK

(* reviewAuthorization, step by step up to its batch and after it. *)
LEMMA ReplayReviewKeeps ==
  ASSUME LifeInv, NEW h \in Reviewers, NEW c \in KeysOf[h], NEW r \in Requests, NEW d \in Decisions,
         ReplayReview(h, c, r, d)
  PROVE  LifeInv' /\ Orderly
<1> DEFINE y == [IdleCall EXCEPT !.phase = "ok", !.cmd = c, !.req = r, !.what = d]
           ok == reviewBound[c] = <<r, d>> /\ Reviewed(c, r, d)
<1>1. h \in Callers /\ c \in Commands /\ d \in Decisions \cup Cycles \cup {"publish"} /\ ok \in BOOLEAN
  BY RolesOfHandlers
<1>2. y.what = d /\ y.req = r /\ y.cmd = c
  BY DEF IdleCall
<1>3. Role(h, y)
  BY <1>2, RolesOfHandlers DEF Role
<1>4. ok => Reply(y)
  BY <1>2 DEF Reply, Reviewed, Decisions
<1>5. Ended(h, c, r, d, ok) /\ UNCHANGED <<tables, keys, switches, rewraps>>
  BY DEF ReplayReview
<1> HIDE DEF ok
<1>6. QED
  BY <1>1, <1>3, <1>4, <1>5, EndedKeeps

(* The review reads its row again and answers by what it finds. *)
LEMMA VerifyReviewKeeps ==
  ASSUME LifeInv, NEW h \in Reviewers, VerifyReview(h)
  PROVE  LifeInv' /\ Orderly
<1> DEFINE x == calls[h]
           y == [IdleCall EXCEPT !.phase = "ok", !.cmd = x.cmd, !.req = x.req, !.what = x.what]
           ok == /\ Reviewed(x.cmd, x.req, x.what)
                 /\ x.what = "approve" =>
                      suppliers[SupplierOf[x.req]].version = x.version + Cardinality(x.events)
<1>1. h \in Callers /\ ok \in BOOLEAN
  BY RolesOfHandlers
<1>2. x.req \in Requests /\ x.cmd \in Commands /\ x.what \in Decisions
  BY <1>1, CallFacts DEF VerifyReview, Role
<1>3. y.what = x.what /\ y.req = x.req /\ y.cmd = x.cmd
  BY DEF IdleCall
<1>4. Role(h, y)
  BY <1>2, <1>3, RolesOfHandlers DEF Role
<1>5. ok => Reply(y)
  <2> HIDE DEF x, y
  <2> QED BY <1>2, <1>3 DEF Reply, Reviewed, Decisions
<1>6. Ended(h, x.cmd, x.req, x.what, ok) /\ UNCHANGED <<tables, keys, switches, rewraps>>
  BY Zenon DEF VerifyReview, End
<1> HIDE DEF ok, x
<1>7. QED
  BY <1>1, <1>2, <1>4, <1>5, <1>6, EndedKeeps

(* A review starts: it keeps the token and who was unexpired then. *)
LEMMA BeginReviewKeeps ==
  ASSUME LifeInv, NEW h \in Reviewers, NEW c \in KeysOf[h], NEW r \in Requests, NEW d \in Decisions,
         BeginReview(h, c, r, d)
  PROVE  LifeInv' /\ Orderly
<1> DEFINE p == IF d = "approve" THEN "build" ELSE "commit"
           y == [IdleCall EXCEPT !.phase = p, !.cmd = c, !.req = r, !.what = d,
                                 !.token = requests[r].token, !.fresh = Fresh]
<1>1. h \in Callers /\ c \in Commands /\ requests[r] \in RequestRow
  BY RolesOfHandlers DEF LifeInv, LifecycleTypeOK
<1>2. requests[r].token \in Tokens \cup {NoToken} /\ Fresh \subseteq Requests /\ p \in {"build", "commit"}
      /\ d \in Decisions \cup Cycles \cup {"publish"}
  BY <1>1 DEF RequestRow, Fresh
<1>3. y \in CallRow /\ y.phase = p /\ y.cmd = c /\ y.req = r /\ y.what = d /\ y.token = requests[r].token
      /\ y.fresh = Fresh
  <2> HIDE DEF p
  <2> QED BY <1>1, <1>2, IdleTyped DEF IdleCall, CallRow, Writers
<1>4. Role(h, y)
  BY <1>3, RolesOfHandlers DEF Role
<1>5. requests[r].status = "pending" /\ calls' = [calls EXCEPT ![h] = y]
      /\ UNCHANGED <<tables, keys, switches, rewraps>>
  BY Zenon DEF BeginReview
<1>6. y.what = "approve" => y.phase = "build"
  BY <1>3
<1>7. y.what # "revoke" /\ y.what # "rotate"
  BY <1>3 DEF Decisions
<1> HIDE DEF y, p
<1>8. Reading(y)
  BY <1>3, <1>5, <1>6, <1>7 DEF Reading
<1>9. CallInv(h, y)
  BY <1>1, <1>2, <1>3, <1>4, <1>8 DEF CallInv
<1>10. QED
  BY <1>1, <1>3, <1>5, <1>9, CallOnly

(* The approval takes the supplier's version and the events that are missing. *)
LEMMA BuildApprovalKeeps ==
  ASSUME LifeInv, NEW h \in Reviewers, BuildApproval(h)
  PROVE  LifeInv' /\ Orderly
<1> DEFINE x == calls[h]
           s == SupplierOf[x.req]
           y == [x EXCEPT !.phase = "commit", !.version = LogVersion(s), !.events = ApprovalEvents(s, x.req)]
<1>1. h \in Callers /\ x \in CallRow /\ x.req \in Requests /\ x.cmd \in Commands /\ Role(h, x)
      /\ s \in Suppliers /\ Reading(x) /\ x.phase = "build"
  BY RolesOfHandlers, CallFacts DEF BuildApproval
<1>2. LogVersion(s) \in Nat /\ LogVersion(s) = suppliers[s].version
  BY <1>1, LogCounted
<1>3. ApprovalEvents(s, x.req) \subseteq EventRow
  BY <1>1, <1>2, ApprovalFacts
<1>4. y \in CallRow /\ y.phase = "commit" /\ y.cmd = x.cmd /\ y.req = x.req /\ y.what = x.what /\ y.token = x.token
      /\ y.fresh = x.fresh /\ y.version = LogVersion(s) /\ y.events = ApprovalEvents(s, x.req)
  <2> HIDE DEF x, s
  <2> QED BY <1>1, <1>2, <1>3 DEF CallRow
<1>5. calls' = [calls EXCEPT ![h] = y] /\ UNCHANGED <<tables, keys, switches, rewraps>>
  <2>1. calls' = [calls EXCEPT ![h].phase = "commit", ![h].version = LogVersion(s),
                            ![h].events = ApprovalEvents(s, x.req)]
        /\ UNCHANGED <<tables, keys, switches, rewraps>>
    BY Zenon DEF BuildApproval
  <2>2. calls \in [Callers -> CallRow]
    BY DEF LifeInv, LifecycleTypeOK
  <2> HIDE DEF s
  <2>3. QED
    BY <1>1, <2>1, <2>2 DEF CallRow
<1>6. x.what \in Decisions
  BY <1>1 DEF Role
<1>7. y.what # "revoke" /\ y.what # "rotate"
  BY <1>4, <1>6 DEF Decisions
<1> HIDE DEF y, x
<1>8. Reading(y)
  <2>1. y.version <= suppliers[s].version
    BY <1>2, <1>4
  <2>2. QED
    BY <1>1, <1>4, <1>7, <2>1 DEF Reading
<1>9. CallInv(h, y)
  BY <1>1, <1>4, <1>8 DEF CallInv, Role
<1>10. QED
  BY <1>1, <1>4, <1>5, <1>9, CallOnly

(* revokeAuthorization. *)
LEMMA ReplayRevocationKeeps ==
  ASSUME LifeInv, NEW h \in Revokers, NEW c \in KeysOf[h], NEW r \in Requests, ReplayRevocation(h, c, r)
  PROVE  LifeInv' /\ Orderly
<1> DEFINE y == [IdleCall EXCEPT !.phase = "ok", !.cmd = c, !.req = r, !.what = "revoke"]
           bound == IF cycleBound["withdraw"][c] # Unbound THEN cycleBound["withdraw"][c]
                    ELSE cycleBound["revoke"][c]
           ok == bound = <<r, NoToken>>
<1>1. h \in Callers /\ c \in Commands /\ ok \in BOOLEAN
  BY RolesOfHandlers
<1>2. y.what = "revoke" /\ y.req = r /\ y.cmd = c
  BY DEF IdleCall
<1>3. Role(h, y)
  BY <1>1, <1>2, RolesOfHandlers DEF Role
<1>4. ok => Reply(y)
  <2> SUFFICES ASSUME ok PROVE Reply(y)
    OBVIOUS
  <2>1. \A o \in {"withdraw", "revoke"} : cycleBound[o][c] # Unbound =>
          requests[cycleBound[o][c][1]].status \in {"withdrawn", "revoked"}
    BY <1>1 DEF LifeInv, BoundInv
  <2>2. bound # Unbound /\ bound[1] = r
    BY DEF Unbound
  <2>3. requests[r].status \in {"withdrawn", "revoked"}
    BY <2>1, <2>2
  <2>4. QED
    BY <1>2, <2>3 DEF Reply
<1>5. Ended(h, c, r, "revoke", ok) /\ UNCHANGED <<tables, keys, switches, rewraps>>
  BY DEF ReplayRevocation
<1> HIDE DEF ok
<1>6. QED
  BY <1>1, <1>3, <1>4, <1>5, EndedKeeps DEF Cycles

(* A withdrawal or revocation starts: it keeps the revision it read. *)
LEMMA BeginRevocationKeeps ==
  ASSUME LifeInv, NEW h \in Revokers, NEW c \in KeysOf[h], NEW r \in Requests, BeginRevocation(h, c, r)
  PROVE  LifeInv' /\ Orderly
<1> DEFINE s == SupplierOf[r]
           w == IF requests[r].status = "pending" THEN "withdraw" ELSE "revoke"
           e == IF requests[r].status = "pending" THEN {} ELSE {Event(suppliers[s].version + 1, "revoked", r)}
           y == [IdleCall EXCEPT !.phase = "commit", !.cmd = c, !.req = r, !.what = w,
                                 !.rev = requests[r].rev, !.version = suppliers[s].version,
                                 !.events = e, !.fresh = Fresh]
<1>1. h \in Callers /\ c \in Commands /\ requests[r] \in RequestRow /\ s \in Suppliers
  BY RolesOfHandlers, LifecycleAssumption DEF LifeInv, LifecycleTypeOK
<1>2. requests[r].rev \in Nat /\ Fresh \subseteq Requests /\ suppliers[s].version \in Nat
      /\ w \in {"withdraw", "revoke"}
  BY <1>1, LogCounted DEF RequestRow, Fresh
<1>3. e \subseteq EventRow
  <2> HIDE DEF s
  <2> QED BY <1>2 DEF Event, EventRow
<1>4. y \in CallRow /\ y.phase = "commit" /\ y.cmd = c /\ y.req = r /\ y.what = w
      /\ y.fresh = Fresh /\ y.version = suppliers[s].version /\ y.events = e
  <2> HIDE DEF s, w, e
  <2> QED BY <1>1, <1>2, <1>3, IdleTyped DEF IdleCall, CallRow, Cycles
<1>5. Role(h, y)
  BY <1>2, <1>4, RolesOfHandlers DEF Role
<1>6. calls' = [calls EXCEPT ![h] = y] /\ UNCHANGED <<tables, keys, switches, rewraps>>
  BY Zenon DEF BeginRevocation
<1>7. requests[r].status # "none"
  BY DEF BeginRevocation, RevocationAllowed, Valid
<1>8. y.what # "approve" /\ y.what # "rotate" /\ (y.what = "revoke" => y.events = {Event(y.version + 1, "revoked", r)})
  BY <1>2, <1>4
<1> HIDE DEF y, w, e, s
<1>9. Reading(y)
  BY <1>4, <1>7, <1>8 DEF Reading
<1>10. CallInv(h, y)
  BY <1>1, <1>4, <1>5, <1>9 DEF CallInv
<1>11. QED
  BY <1>1, <1>4, <1>6, <1>10, CallOnly

(* The revocation reads its row again and answers by what it finds. *)
LEMMA VerifyRevocationKeeps ==
  ASSUME LifeInv, NEW h \in Revokers, VerifyRevocation(h)
  PROVE  LifeInv' /\ Orderly
<1> DEFINE x == calls[h]
           row == requests[x.req]
           y == [IdleCall EXCEPT !.phase = "ok", !.cmd = x.cmd, !.req = x.req, !.what = x.what]
           ok == /\ row.status = (IF x.what = "withdraw" THEN "withdrawn" ELSE "revoked")
                 /\ row.rev = x.rev + 1 /\ row.token = NoToken
                 /\ cycleBound[x.what][x.cmd] = <<x.req, NoToken>>
                 /\ x.what = "revoke" =>
                      suppliers[SupplierOf[x.req]].version = x.version + 1
<1>1. h \in Callers /\ ok \in BOOLEAN
  BY RolesOfHandlers
<1>2. x.req \in Requests /\ x.cmd \in Commands /\ x.what \in {"withdraw", "revoke"}
  BY <1>1, CallFacts DEF VerifyRevocation, Role
<1>3. y.what = x.what /\ y.req = x.req /\ y.cmd = x.cmd
  BY DEF IdleCall
<1>4. Role(h, y)
  BY <1>2, <1>3, RolesOfHandlers DEF Role
<1>5. ok => Reply(y)
  <2> HIDE DEF x, y
  <2> QED BY <1>2, <1>3 DEF Reply
<1>6. Ended(h, x.cmd, x.req, x.what, ok) /\ UNCHANGED <<tables, keys, switches, rewraps>>
  BY Zenon DEF VerifyRevocation, End
<1>7. x.what \in Decisions \cup Cycles \cup {"publish"}
  BY <1>2 DEF Cycles
<1> HIDE DEF ok, x, row
<1>8. QED
  BY <1>1, <1>2, <1>4, <1>5, <1>6, <1>7, EndedKeeps

(* rotateAuthorizationCredential. *)
LEMMA ReplayRotationKeeps ==
  ASSUME LifeInv, NEW h \in Rotators, NEW c \in KeysOf[h], NEW r \in Requests, NEW t \in Tokens,
         ReplayRotation(h, c, r, t)
  PROVE  LifeInv' /\ Orderly
<1> DEFINE y == [IdleCall EXCEPT !.phase = "ok", !.cmd = c, !.req = r, !.what = "rotate"]
           ok == cycleBound["rotate"][c] = <<r, t>>
<1>1. h \in Callers /\ c \in Commands /\ ok \in BOOLEAN
  BY RolesOfHandlers
<1>2. y.what = "rotate" /\ y.req = r /\ y.cmd = c
  BY DEF IdleCall
<1>3. Role(h, y)
  BY <1>1, <1>2, RolesOfHandlers DEF Role
<1>4. ok => Reply(y)
  <2> SUFFICES ASSUME ok PROVE Reply(y)
    OBVIOUS
  <2>1. cycleBound["rotate"][c] # Unbound =>
          /\ requests[cycleBound["rotate"][c][1]].rev > 1
          /\ requests[cycleBound["rotate"][c][1]].status \in {"approved", "revoked"}
    BY <1>1 DEF LifeInv, BoundInv
  <2>2. cycleBound["rotate"][c] # Unbound /\ cycleBound["rotate"][c][1] = r
    BY DEF Unbound
  <2>3. requests[r].rev > 1 /\ requests[r].status \in {"approved", "revoked"}
    BY <2>1, <2>2
  <2>4. QED
    BY <1>2, <2>3 DEF Reply
<1>5. Ended(h, c, r, "rotate", ok) /\ UNCHANGED <<tables, keys, switches, rewraps>>
  BY DEF ReplayRotation
<1> HIDE DEF ok
<1>6. QED
  BY <1>1, <1>3, <1>4, <1>5, EndedKeeps DEF Cycles

(* A rotation starts: it keeps the revision and the ciphertext it read. *)
LEMMA BeginRotationKeeps ==
  ASSUME LifeInv, NEW h \in Rotators, NEW c \in KeysOf[h], NEW r \in Requests, NEW t \in Tokens,
         BeginRotation(h, c, r, t)
  PROVE  LifeInv' /\ Orderly
<1> DEFINE s == SupplierOf[r]
           y == [IdleCall EXCEPT !.phase = "commit", !.cmd = c, !.req = r, !.what = "rotate",
                                 !.token = t, !.rev = requests[r].rev, !.gen = requests[r].gen,
                                 !.version = suppliers[s].version, !.fresh = Fresh]
<1>1. h \in Callers /\ c \in Commands /\ requests[r] \in RequestRow /\ s \in Suppliers
  BY RolesOfHandlers, LifecycleAssumption DEF LifeInv, LifecycleTypeOK
<1>2. requests[r].rev \in Nat /\ requests[r].gen \in Writers /\ Fresh \subseteq Requests
      /\ suppliers[s].version \in Nat
  BY <1>1, LogCounted DEF RequestRow, Fresh
<1>3. y \in CallRow /\ y.phase = "commit" /\ y.cmd = c /\ y.req = r /\ y.what = "rotate"
      /\ y.fresh = Fresh /\ y.token = t
  <2> HIDE DEF s
  <2> QED BY <1>1, <1>2, IdleTyped DEF IdleCall, CallRow, Cycles
<1>4. Role(h, y)
  BY <1>3, RolesOfHandlers DEF Role
<1>5. calls' = [calls EXCEPT ![h] = y] /\ UNCHANGED <<tables, keys, switches, rewraps>>
      /\ requests[r].status # "none"
  BY Zenon DEF BeginRotation, Valid
<1> HIDE DEF y, s
<1>6. Reading(y)
  BY <1>3, <1>5 DEF Reading
<1>7. CallInv(h, y)
  BY <1>1, <1>3, <1>4, <1>6 DEF CallInv
<1>8. QED
  BY <1>1, <1>3, <1>5, <1>7, CallOnly

(* The rotation reads its row again and answers by what it finds. *)
LEMMA VerifyRotationKeeps ==
  ASSUME LifeInv, NEW h \in Rotators, VerifyRotation(h)
  PROVE  LifeInv' /\ Orderly
<1> DEFINE x == calls[h]
           row == requests[x.req]
           y == [IdleCall EXCEPT !.phase = "ok", !.cmd = x.cmd, !.req = x.req, !.what = x.what]
           ok == /\ row.status = "approved" /\ row.rev = x.rev + 1 /\ row.token = x.token
                 /\ cycleBound["rotate"][x.cmd] = <<x.req, x.token>>
<1>1. h \in Callers /\ ok \in BOOLEAN
  BY RolesOfHandlers
<1>2. x.req \in Requests /\ x.cmd \in Commands /\ x.what = "rotate"
  BY <1>1, CallFacts DEF VerifyRotation, Role
<1>3. y.what = x.what /\ y.req = x.req /\ y.cmd = x.cmd
  BY DEF IdleCall
<1>4. Role(h, y)
  BY <1>2, <1>3, RolesOfHandlers DEF Role
<1>5. ok => Reply(y)
  <2> SUFFICES ASSUME ok PROVE Reply(y)
    OBVIOUS
  <2>1. cycleBound["rotate"][x.cmd] # Unbound =>
          /\ requests[cycleBound["rotate"][x.cmd][1]].rev > 1
          /\ requests[cycleBound["rotate"][x.cmd][1]].status \in {"approved", "revoked"}
    BY <1>2 DEF LifeInv, BoundInv
  <2>2. cycleBound["rotate"][x.cmd] # Unbound /\ cycleBound["rotate"][x.cmd][1] = x.req
    BY DEF Unbound
  <2>3. requests[x.req].rev > 1 /\ requests[x.req].status \in {"approved", "revoked"}
    BY <2>1, <2>2
  <2> HIDE DEF x, y
  <2>4. QED
    BY <1>2, <1>3, <2>3 DEF Reply
<1>6. Ended(h, x.cmd, x.req, x.what, ok) /\ UNCHANGED <<tables, keys, switches, rewraps>>
  BY Zenon DEF VerifyRotation, End
<1>7. x.what \in Decisions \cup Cycles \cup {"publish"}
  BY <1>2 DEF Cycles
<1> HIDE DEF ok, x, row
<1>8. QED
  BY <1>1, <1>2, <1>4, <1>5, <1>6, <1>7, EndedKeeps

(* createCapacityOffer. *)
LEMMA ReplayOfferKeeps ==
  ASSUME LifeInv, NEW h \in Publishers, NEW c \in KeysOf[h], NEW r \in Requests, ReplayOffer(h, c, r)
  PROVE  LifeInv' /\ Orderly
<1> DEFINE y == [IdleCall EXCEPT !.phase = "ok", !.cmd = c, !.req = r, !.what = "publish"]
           ok == offerBound[c] = <<r>>
<1>1. h \in Callers /\ c \in Commands /\ ok \in BOOLEAN
  BY RolesOfHandlers
<1>2. y.what = "publish" /\ y.req = r /\ y.cmd = c
  BY DEF IdleCall
<1>3. Role(h, y)
  BY <1>1, <1>2, RolesOfHandlers DEF Role
<1>4. ok => Reply(y)
  <2>1. ok => offerBound[c] # Unbound /\ offerBound[c][1] = r
    BY DEF Unbound
  <2>2. ok => \E o \in offers : o.req = r
    BY <1>1, <2>1 DEF LifeInv, BoundInv
  <2>3. QED
    BY <1>2, <2>2 DEF Reply
<1>5. Ended(h, c, r, "publish", ok) /\ UNCHANGED <<tables, keys, switches, rewraps>>
  BY DEF ReplayOffer
<1> HIDE DEF ok
<1>6. QED
  BY <1>1, <1>3, <1>4, <1>5, EndedKeeps

(* The publication of an offer starts. *)
LEMMA BeginOfferKeeps ==
  ASSUME LifeInv, NEW h \in Publishers, NEW c \in KeysOf[h], NEW r \in Requests, BeginOffer(h, c, r)
  PROVE  LifeInv' /\ Orderly
<1> DEFINE s == SupplierOf[r]
           y == [IdleCall EXCEPT !.phase = "commit", !.cmd = c, !.req = r,
                                 !.rev = requests[r].rev, !.version = suppliers[s].version, !.fresh = Fresh]
<1>1. h \in Callers /\ c \in Commands /\ requests[r] \in RequestRow /\ s \in Suppliers
  BY RolesOfHandlers, LifecycleAssumption DEF LifeInv, LifecycleTypeOK
<1>2. requests[r].rev \in Nat /\ Fresh \subseteq Requests /\ suppliers[s].version \in Nat
  BY <1>1, LogCounted DEF RequestRow, Fresh
<1>3. y \in CallRow /\ y.phase = "commit" /\ y.cmd = c /\ y.req = r /\ y.what = "publish"
      /\ y.fresh = Fresh
  <2> HIDE DEF s
  <2> QED BY <1>1, <1>2, IdleTyped DEF IdleCall, CallRow
<1>4. Role(h, y)
  BY <1>3, RolesOfHandlers DEF Role
<1>5. calls' = [calls EXCEPT ![h] = y] /\ UNCHANGED <<tables, keys, switches, rewraps>>
      /\ requests[r].status = "approved"
  BY Zenon DEF BeginOffer
<1> HIDE DEF y, s
<1>6. Reading(y)
  BY <1>3, <1>5 DEF Reading
<1>7. CallInv(h, y)
  BY <1>1, <1>3, <1>4, <1>6 DEF CallInv
<1>8. QED
  BY <1>1, <1>3, <1>5, <1>7, CallOnly

(* The publication reads its command again and answers by what it finds. *)
LEMMA VerifyOfferKeeps ==
  ASSUME LifeInv, NEW h \in Publishers, VerifyOffer(h)
  PROVE  LifeInv' /\ Orderly
<1> DEFINE x == calls[h]
           y == [IdleCall EXCEPT !.phase = "ok", !.cmd = x.cmd, !.req = x.req, !.what = x.what]
           ok == offerBound[x.cmd] = <<x.req>>
<1>1. h \in Callers /\ ok \in BOOLEAN
  BY RolesOfHandlers
<1>2. x.req \in Requests /\ x.cmd \in Commands /\ x.what = "publish"
  BY <1>1, CallFacts DEF VerifyOffer, Role
<1>3. y.what = x.what /\ y.req = x.req /\ y.cmd = x.cmd
  BY DEF IdleCall
<1>4. Role(h, y)
  BY <1>2, <1>3, RolesOfHandlers DEF Role
<1>5. ok => Reply(y)
  <2>1. ok => offerBound[x.cmd] # Unbound /\ offerBound[x.cmd][1] = x.req
    BY DEF Unbound
  <2>2. ok => \E o \in offers : o.req = x.req
    BY <1>2, <2>1 DEF LifeInv, BoundInv
  <2> HIDE DEF x, y
  <2>3. QED
    BY <1>2, <1>3, <2>2 DEF Reply
<1>6. Ended(h, x.cmd, x.req, x.what, ok) /\ UNCHANGED <<tables, keys, switches, rewraps>>
  BY Zenon DEF VerifyOffer, End
<1>7. x.what \in Decisions \cup Cycles \cup {"publish"}
  BY <1>2
<1> HIDE DEF ok, x
<1>8. QED
  BY <1>1, <1>2, <1>4, <1>5, <1>6, <1>7, EndedKeeps

(* A handler that throws or is cut off. *)
LEMMA LoseCallKeeps ==
  ASSUME LifeInv, NEW h \in Callers, LoseCall(h)
  PROVE  LifeInv' /\ Orderly
BY IdleTyped, CallOnly DEF LoseCall

---------------------------------------------------------------------------
(* The steps that write rows. *)

(* A step that writes requests, and neither approves nor revokes any. *)
LEMMA RowsOrderly ==
  ASSUME LifeInv, UNCHANGED <<suppliers, log, offers>>,
         \A r \in Requests : RowMoves(r) /\ SameStanding(r),
         \A c \in Commands : BoundMoves(c), \A t \in Tokens : LimitMoves(t),
         \A h \in Rewrappers : rewraps[h].phase = "done" => rewraps'[h].phase = "done"
  PROVE  Orderly
<1>1. ASSUME NEW s \in Suppliers PROVE SupplierMoves(s)
  <2>1. Quiet(s)
    BY DEF Quiet, SameStanding
  <2>2. \A r \in Requests : requests[r].status = "approved" => requests'[r].status = "approved"
    BY DEF SameStanding
  <2>3. QED
    BY <2>1, <2>2 DEF SupplierMoves
<1>2. QED
  BY <1>1 DEF Orderly

(* Steps that leave the keys table or a row alone. *)
LEMMA BoundStill ==
  ASSUME UNCHANGED <<cycleBound, offerBound>>
  PROVE  \A c \in Commands : BoundMoves(c)
BY DEF BoundMoves

(* A row that no statement touches moves legally. *)
LEMMA RowStill ==
  ASSUME NEW r \in Requests, requests'[r] = requests[r]
  PROVE  RowMoves(r) /\ SameStanding(r) /\ \A t \in Tokens : HoldingNext(r, t) => Holding(r, t)
BY DEF RowMoves, SameStanding, Holding, HoldingNext

(* One request gets a new row. *)
LEMMA RowWritten ==
  ASSUME LifeInv, NEW r \in Requests, NEW row \in RequestRow, requests' = [requests EXCEPT ![r] = row]
  PROVE  /\ requests' \in [Requests -> RequestRow] /\ requests'[r] = row
         /\ \A q \in Requests : q # r => requests'[q] = requests[q]
BY DEF LifeInv, LifecycleTypeOK

(* A batch is followed by its verification. *)
LEMMA VerifyTyped ==
  ASSUME LifeInv, NEW h \in Callers, calls' = [calls EXCEPT ![h].phase = "verify"]
  PROVE  calls' \in [Callers -> CallRow]
<1>1. calls \in [Callers -> CallRow]
  BY DEF LifeInv, LifecycleTypeOK
<1>2. [calls[h] EXCEPT !.phase = "verify"] \in CallRow
  BY <1>1 DEF CallRow
<1>3. calls' = [calls EXCEPT ![h] = [calls[h] EXCEPT !.phase = "verify"]]
  BY <1>1
<1> QED BY <1>1, <1>2, <1>3

(* The first event of a supplier. *)
LEMMA RegisterKeeps ==
  ASSUME LifeInv, NEW s \in Suppliers, RegisterSupplierProfile(s)
  PROVE  LifeInv' /\ Orderly
<1> DEFINE row == [status |-> "pending-verification", version |-> 1, enabled |-> FALSE]
           e == Event(1, "registered", NoCommand)
<1>1. suppliers \in [Suppliers -> SupplierRow] /\ log \in [Suppliers -> SUBSET EventRow] /\ LogInv(s)
  BY DEF LifeInv, LifecycleTypeOK, BoundTypeOK
<1>2. /\ suppliers' = [suppliers EXCEPT ![s] = row] /\ log' = [log EXCEPT ![s] = {e}]
      /\ UNCHANGED <<requests, offers, keys, calls, switches, rewraps>> /\ suppliers[s].status = "none"
  BY DEF RegisterSupplierProfile
<1>3. row \in SupplierRow /\ e \in EventRow
  BY DEF SupplierRow, Event, EventRow
<1>4. suppliers' \in [Suppliers -> SupplierRow] /\ log' \in [Suppliers -> SUBSET EventRow]
  BY <1>1, <1>2, <1>3
<1>5. suppliers'[s] = row /\ log'[s] = {e} /\ \A q \in Suppliers : q # s => suppliers'[q] = suppliers[q] /\ log'[q] = log[q]
  BY <1>1, <1>2
<1>6. LifecycleTypeOK' /\ BoundTypeOK'
  BY <1>2, <1>4 DEF LifeInv, LifecycleTypeOK, BoundTypeOK, keys
<1>7. log[s] = {} /\ suppliers[s].version = 0
  <2>1. log[s] = {}
    BY <1>1, <1>2 DEF LogInv
  <2>2. QED
    BY <2>1, LogCounted, FS_EmptySet DEF LogVersion
<1>8. LogInv(s)'
  <2>1. Numbered({e}, 0, 1)
    <3>1. (0 + 1)..1 = {1} /\ e.version = 1
      BY DEF Event
    <3> HIDE DEF e
    <3>2. QED
      BY <3>1 DEF Numbered
  <2>2. Numbered(log[s], 0, suppliers[s].version)'
    BY <1>5, <2>1
  <2>3. suppliers'[s].status = "pending-verification" /\ e.type = "registered"
    BY <1>5 DEF Event
  <2> HIDE DEF e, row
  <2>4. Happened(s, "activated")' <=> suppliers'[s].status = "active"
    BY <1>5, <2>3 DEF Happened
  <2>5. ASSUME NEW r \in Requests, SupplierOf[r] = s
        PROVE  /\ Recorded(s, r)' <=> requests'[r].status \in {"approved", "revoked"}
               /\ RevokedInLog(s, r)' <=> requests'[r].status = "revoked"
    <3>1. ~Recorded(s, r) /\ ~RevokedInLog(s, r)
      BY <1>7 DEF Recorded, RevokedInLog
    <3>2. ~Recorded(s, r)' /\ ~RevokedInLog(s, r)'
      BY <1>5, <2>3 DEF Recorded, RevokedInLog
    <3>3. requests'[r].status \notin {"approved", "revoked"}
      BY <1>1, <1>2, <2>5, <3>1 DEF LogInv
    <3>4. QED
      BY <3>2, <3>3
  <2>6. QED
    BY <2>2, <2>3, <2>4, <2>5 DEF LogInv
<1>9. ASSUME NEW q \in Suppliers PROVE SupplierMoves(q)
  <2>1. CASE q = s
    BY <1>5, <1>7, <1>8, <2>1 DEF SupplierMoves
  <2>2. CASE q # s
    BY <1>2, <1>5, <2>2 DEF SupplierMoves, Quiet
  <2>3. QED
    BY <2>1, <2>2
<1>10. Orderly
  <2>1. UNCHANGED <<cycleBound, offerBound>> /\ UNCHANGED <<requests, offers, rewraps>>
    BY <1>2 DEF keys
  <2>2. \A r \in Requests : RowMoves(r)
    BY <2>1, RowStill
  <2>3. \A t \in Tokens : LimitMoves(t)
    BY <2>1, RowStill DEF LimitMoves
  <2>4. QED
    BY <1>9, <2>1, <2>2, <2>3, BoundStill DEF Orderly
<1>11. QED
  BY <1>2, <1>6, <1>10, RowsOnly

(* A new request, not yet standing for anything. *)
LEMMA SubmitKeeps ==
  ASSUME LifeInv, NEW r \in Requests, NEW t \in Tokens, SubmitAuthorizationRequest(r, t)
  PROVE  LifeInv' /\ Orderly
<1> DEFINE row == [requests[r] EXCEPT !.status = "pending", !.token = t]
<1>1. requests \in [Requests -> RequestRow] /\ requests[r].status = "none" /\ RowInv(r)
      /\ UNCHANGED <<suppliers, log, offers, keys, calls, switches, rewraps>>
  BY DEF LifeInv, LifecycleTypeOK, SubmitAuthorizationRequest
<1>2. row \in RequestRow
  BY <1>1 DEF RequestRow
<1>3. requests' = [requests EXCEPT ![r] = row]
  BY <1>1 DEF SubmitAuthorizationRequest
<1>4. row.status = "pending" /\ row.rev = requests[r].rev /\ row.gen = requests[r].gen
      /\ row.by = requests[r].by /\ row.expired = requests[r].expired
  BY <1>1 DEF RequestRow
<1> HIDE DEF row
<1>5. /\ requests' \in [Requests -> RequestRow] /\ requests'[r] = row
      /\ \A q \in Requests : q # r => requests'[q] = requests[q]
  BY <1>2, <1>3, RowWritten
<1>6. RowMoves(r) /\ SameStanding(r) /\ \A u \in Tokens : ~HoldingNext(r, u)
  BY <1>1, <1>4, <1>5 DEF RowMoves, SameStanding, HoldingNext
<1>7. LifecycleTypeOK' /\ BoundTypeOK'
  BY <1>1, <1>5 DEF LifeInv, LifecycleTypeOK, BoundTypeOK, keys
<1>8. Orderly
  <2>1. \A q \in Requests : RowMoves(q) /\ SameStanding(q)
    BY <1>5, <1>6, RowStill
  <2>2. \A u \in Tokens : LimitMoves(u)
    BY <1>5, <1>6, RowStill DEF LimitMoves
  <2>3. \A c \in Commands : BoundMoves(c)
    BY <1>1, BoundStill DEF keys
  <2>4. QED
    BY <1>1, <2>1, <2>2, <2>3, RowsOrderly
<1>9. QED
  BY <1>1, <1>7, <1>8, RowsOnly

(* The batch of a rejection, whether its claim won or not. *)
LEMMA RejectionKeeps ==
  ASSUME LifeInv, NEW h \in Reviewers, CommitRejection(h)
  PROVE  LifeInv' /\ Orderly
<1> DEFINE x == calls[h]
           r == x.req
           row == [requests[r] EXCEPT !.status = "rejected", !.by = x.cmd, !.token = NoToken]
<1>1. h \in Callers /\ x.phase = "commit" /\ r \in Requests /\ x.cmd \in Commands /\ requests[r] \in RequestRow
  BY RolesOfHandlers, CallFacts DEF CommitRejection
<1>2. /\ UNCHANGED <<suppliers, log, offers, switches, rewraps>>
      /\ UNCHANGED <<cycleBound, offerBound>>
      /\ calls' = [calls EXCEPT ![h].phase = "verify"]
  BY DEF CommitRejection, ClaimReview
<1>3. reviewClaim' \in [Requests -> Reviewers \cup {NoHandler}]
  <2>1. reviewClaim \in [Requests -> Reviewers \cup {NoHandler}]
    BY DEF LifeInv, LifecycleTypeOK
  <2>2. reviewClaim' = [reviewClaim EXCEPT ![r] = h] \/ reviewClaim' = reviewClaim
    BY DEF CommitRejection, ClaimReview
  <2>3. QED
    BY <2>1, <2>2
<1>4. calls' \in [Callers -> CallRow]
  BY <1>1, <1>2, VerifyTyped
<1>5. /\ requests' \in [Requests -> RequestRow]
      /\ \A q \in Requests : RowMoves(q) /\ SameStanding(q)
      /\ \A q \in Requests, t \in Tokens : HoldingNext(q, t) => Holding(q, t)
  <2>1. CASE MayClaimReview(h)
    <3>1. requests[r].status = "pending" /\ requests[r].by = NoCommand
      BY <2>1 DEF MayClaimReview
    <3>2. requests' = [requests EXCEPT ![r] = row]
      <4>1. requests' = [requests EXCEPT ![r].status = "rejected", ![r].by = x.cmd, ![r].token = NoToken]
        BY <2>1 DEF CommitRejection
      <4>2. requests \in [Requests -> RequestRow]
        BY DEF LifeInv, LifecycleTypeOK
      <4> HIDE DEF x
      <4>3. QED
        BY <1>1, <4>1, <4>2 DEF RequestRow
    <3>3. /\ row \in RequestRow
          /\ row.status = "rejected" /\ row.token = NoToken /\ row.by = x.cmd /\ row.rev = requests[r].rev
          /\ row.gen = requests[r].gen /\ row.expired = requests[r].expired
      <4> HIDE DEF x
      <4> QED BY <1>1 DEF RequestRow
    <3> HIDE DEF row
    <3>4. /\ requests' \in [Requests -> RequestRow] /\ requests'[r] = row
          /\ \A q \in Requests : q # r => requests'[q] = requests[q]
      BY <1>1, <3>2, <3>3, RowWritten
    <3> HIDE DEF r
    <3>5. RowMoves(r) /\ SameStanding(r) /\ \A t \in Tokens : ~HoldingNext(r, t)
      BY <3>1, <3>3, <3>4 DEF RowMoves, SameStanding, HoldingNext
    <3>6. QED
      BY <3>4, <3>5, RowStill
  <2>2. CASE ~MayClaimReview(h)
    <3>1. requests' = requests
      BY <2>2 DEF CommitRejection
    <3>2. QED
      BY <3>1, RowStill DEF LifeInv, LifecycleTypeOK
  <2>3. QED
    BY <2>1, <2>2
<1>6. LifecycleTypeOK' /\ BoundTypeOK'
  BY <1>2, <1>3, <1>4, <1>5 DEF LifeInv, LifecycleTypeOK, BoundTypeOK
<1>7. Orderly
  <2>1. \A t \in Tokens : LimitMoves(t)
    BY <1>5 DEF LimitMoves
  <2>2. QED
    BY <1>2, <1>5, <2>1, BoundStill, RowsOrderly
<1>8. QED
  BY <1>1, <1>2, <1>6, <1>7, CommitOnly

(* An approval's new events continue the log, and what they add is what the
   row and the supplier now say. *)
LEMMA ApprovedLog ==
  ASSUME LifeInv, NEW r \in Requests, NEW s \in Suppliers, s = SupplierOf[r],
         requests[r].status = "pending", requests'[r].status = "approved",
         \A q \in Requests : q # r => requests'[q] = requests[q],
         log'[s] = log[s] \cup ApprovalEvents(s, r), suppliers'[s].status = "active",
         suppliers'[s].version = suppliers[s].version + Cardinality(ApprovalEvents(s, r))
  PROVE  suppliers'[s].version > suppliers[s].version /\ LogInv(s)'
<1> DEFINE E == ApprovalEvents(s, r)
           v == suppliers[s].version
<1>1. v \in Nat /\ LogVersion(s) = v /\ LogInv(s)
  BY LogCounted DEF LifeInv
<1>2. PICK m \in Nat :
           /\ m > v /\ Numbered(E, v, m)
           /\ Cardinality(E) = m - v
           /\ \A e \in E : e.req = r /\ e.type # "revoked"
           /\ \E e \in E : e.type = "authorization"
           /\ Happened(s, "activated") \/ \E e \in E : e.type = "activated"
  BY <1>1, ApprovalFacts
<1> HIDE DEF E, v
<1>3. suppliers'[s].version = m
  BY <1>1, <1>2 DEF E, v
<1>4. log'[s] = log[s] \cup E
  BY DEF E
<1>5. Numbered(log'[s], 0, m)
  <2>1. Numbered(log[s], 0, v)
    BY <1>1 DEF LogInv, v
  <2>2. QED
    BY <1>1, <1>2, <1>4, <2>1, NumberedJoin
<1>6. Happened(s, "activated")'
  BY <1>2, <1>4 DEF Happened
<1>7. ASSUME NEW q \in Requests, SupplierOf[q] = s
      PROVE  /\ Recorded(s, q)' <=> requests'[q].status \in {"approved", "revoked"}
             /\ RevokedInLog(s, q)' <=> requests'[q].status = "revoked"
  <2>1. /\ Recorded(s, q) <=> requests[q].status \in {"approved", "revoked"}
        /\ RevokedInLog(s, q) <=> requests[q].status = "revoked"
    BY <1>1, <1>7 DEF LogInv
  <2>2. RevokedInLog(s, q)' <=> RevokedInLog(s, q)
    BY <1>2, <1>4 DEF RevokedInLog
  <2>3. Recorded(s, q)' <=> (Recorded(s, q) \/ q = r)
    BY <1>2, <1>4 DEF Recorded
  <2>4. QED
    BY <2>1, <2>2, <2>3
<1>8. QED
  BY <1>1, <1>2, <1>3, <1>5, <1>6, <1>7 DEF LogInv, v

(* Below the limit there is room for one more. *)
LEMMA OneMore ==
  ASSUME NEW t \in Tokens, NEW r \in Requests, NEW F \in SUBSET Requests, Fresh \subseteq F,
         Cardinality(Holders(t, F) \ {r}) < PerToken,
         \A q \in Requests : HoldingNext(q, t) => Holding(q, t) \/ q = r
  PROVE  LimitMoves(t)
<1> DEFINE N == {q \in Requests : HoldingNext(q, t)}
           H == Holders(t, F) \ {r}
<1>1. IsFiniteSet(H) /\ IsFiniteSet(N)
  <2>1. H \subseteq Requests /\ N \subseteq Requests /\ IsFiniteSet(Requests)
    BY LifecycleAssumption DEF Holders
  <2>2. QED
    BY <2>1, FS_Subset
<1>2. N \subseteq H \cup {r}
  BY DEF Holding, Holders, Valid, Fresh
<1> HIDE DEF N, H
<1>3. IsFiniteSet(H \cup {r}) /\ Cardinality(H \cup {r}) <= Cardinality(H) + 1
  <2>1. Cardinality(H \cup {r}) = (IF r \in H THEN Cardinality(H) ELSE Cardinality(H) + 1)
        /\ IsFiniteSet(H \cup {r})
    BY <1>1, FS_AddElement
  <2>2. Cardinality(H) \in Nat
    BY <1>1, FS_CardinalityType
  <2>3. QED
    BY <2>1, <2>2
<1>4. Cardinality(N) <= Cardinality(H \cup {r})
  BY <1>2, <1>3, FS_Subset
<1>5. Cardinality(N) \in Nat /\ Cardinality(H) \in Nat /\ Cardinality(H \cup {r}) \in Nat /\ PerToken \in Nat
  BY <1>1, <1>3, FS_CardinalityType, LifecycleAssumption
<1>6. Cardinality(H) < PerToken
  BY DEF H
<1>7. Cardinality(N) <= PerToken
  BY <1>3, <1>4, <1>5, <1>6
<1>8. QED
  BY <1>7 DEF LimitMoves, N

(* The batch of an approval: the claim may win and the UPDATE still find the
   supplier at another version. *)
LEMMA ApprovalKeeps ==
  ASSUME LifeInv, NEW h \in Reviewers, CommitApproval(h)
  PROVE  LifeInv' /\ Orderly
<1> DEFINE x == calls[h]
<1>0. PICK r \in Requests, s \in Suppliers : r = x.req /\ s = SupplierOf[r]
  BY RolesOfHandlers, CallFacts DEF CommitApproval
<1> DEFINE E == ApprovalEvents(s, r)
           approved == MayClaimReview(h) /\ suppliers[s].version = x.version
           row == [requests[r] EXCEPT !.status = "approved", !.by = x.cmd]
<1>1. h \in Callers /\ x.phase = "commit" /\ x.what = "approve" /\ r \in Requests /\ x.cmd \in Commands
      /\ requests[r] \in RequestRow /\ s \in Suppliers /\ Reading(x) /\ x \in CallRow
  BY <1>0, RolesOfHandlers, CallFacts DEF CommitApproval
<1>2. /\ UNCHANGED <<offers, switches, rewraps>> /\ UNCHANGED <<cycleBound, offerBound>>
      /\ calls' = [calls EXCEPT ![h].phase = "verify"]
  BY DEF CommitApproval, ClaimReview
<1>3. reviewClaim' \in [Requests -> Reviewers \cup {NoHandler}]
  <2>1. reviewClaim \in [Requests -> Reviewers \cup {NoHandler}]
    BY DEF LifeInv, LifecycleTypeOK
  <2>2. reviewClaim' = [reviewClaim EXCEPT ![r] = h] \/ reviewClaim' = reviewClaim
    BY <1>0 DEF CommitApproval, ClaimReview
  <2>3. QED
    BY <2>1, <2>2
<1>4. calls' \in [Callers -> CallRow]
  BY <1>1, <1>2, VerifyTyped
<1>5. ASSUME approved
      PROVE  /\ requests' \in [Requests -> RequestRow]
             /\ suppliers' \in [Suppliers -> SupplierRow] /\ log' \in [Suppliers -> SUBSET EventRow]
             /\ \A q \in Requests : RowMoves(q)
             /\ \A q \in Suppliers : SupplierMoves(q)
             /\ \A t \in Tokens : LimitMoves(t)
  <2>0. /\ requests \in [Requests -> RequestRow] /\ suppliers \in [Suppliers -> SupplierRow]
        /\ log \in [Suppliers -> SUBSET EventRow] /\ x.fresh \in SUBSET Requests
    BY <1>1 DEF LifeInv, LifecycleTypeOK, BoundTypeOK, CallRow
  <2>1. requests[r].status = "pending" /\ requests[r].by = NoCommand /\ Cardinality(Holders(x.token, x.fresh)) < PerToken
    BY <1>0, <1>1, <1>5 DEF MayClaimReview
  <2>2. x.events = E /\ requests[r].token = x.token
    BY <1>0, <1>1, <1>5, <2>1 DEF Reading
  <2>3. /\ requests' = [requests EXCEPT ![r].status = "approved", ![r].by = x.cmd]
        /\ suppliers' = [suppliers EXCEPT ![s].status = "active", ![s].version = @ + Cardinality(x.events)]
        /\ log' = [log EXCEPT ![s] = @ \cup x.events]
    BY <1>0, <1>5 DEF CommitApproval, Appended
  <2>4. suppliers[s].version \in Nat /\ LogVersion(s) \in Nat
    BY <1>1, LogCounted
  <2>5. Cardinality(E) \in Nat /\ E \subseteq EventRow
    <3>1. \E m \in Nat : m > LogVersion(s) /\ Cardinality(E) = m - LogVersion(s) /\ E \subseteq EventRow
      BY <1>1, <2>4, ApprovalFacts
    <3> HIDE DEF E
    <3>2. QED
      BY <2>4, <3>1
  <2> HIDE DEF E
  <2>6. /\ row \in RequestRow
        /\ row.status = "approved" /\ row.token = requests[r].token /\ row.by = x.cmd /\ row.rev = requests[r].rev
        /\ row.gen = requests[r].gen /\ row.expired = requests[r].expired
    <3> HIDE DEF x
    <3> QED BY <1>1 DEF RequestRow
  <2>7. requests' = [requests EXCEPT ![r] = row]
    <3> HIDE DEF x
    <3> QED BY <1>1, <2>0, <2>3 DEF RequestRow
  <2>8. /\ log'[s] = log[s] \cup E /\ log' \in [Suppliers -> SUBSET EventRow]
        /\ \A q \in Suppliers : q # s => log'[q] = log[q]
    <3> HIDE DEF x
    <3> QED BY <1>1, <2>0, <2>2, <2>3, <2>5
  <2>9. /\ suppliers'[s].status = "active" /\ suppliers'[s].version = suppliers[s].version + Cardinality(E)
        /\ suppliers'[s].enabled = suppliers[s].enabled
        /\ suppliers' \in [Suppliers -> SupplierRow]
        /\ \A q \in Suppliers : q # s => suppliers'[q] = suppliers[q]
    <3> DEFINE srow == [suppliers[s] EXCEPT !.status = "active", !.version = @ + Cardinality(E)]
    <3> HIDE DEF x
    <3>1. suppliers[s] \in SupplierRow
      BY <1>1, <2>0
    <3>2. srow \in SupplierRow /\ srow.status = "active" /\ srow.version = suppliers[s].version + Cardinality(E)
          /\ srow.enabled = suppliers[s].enabled
      <4> DEFINE n == suppliers[s].version + Cardinality(E)
      <4>1. n \in Nat
        BY <2>4, <2>5
      <4>2. srow = [suppliers[s] EXCEPT !.status = "active", !.version = n]
        BY <3>1 DEF SupplierRow
      <4> HIDE DEF n, srow
      <4>3. srow \in SupplierRow
        BY <3>1, <4>1, <4>2 DEF SupplierRow
      <4>4. srow.status = "active" /\ srow.version = n /\ srow.enabled = suppliers[s].enabled
        BY <3>1, <4>2 DEF SupplierRow
      <4>5. QED
        BY <4>3, <4>4 DEF n
    <3>3. suppliers' = [suppliers EXCEPT ![s] = srow]
      BY <1>1, <2>0, <2>2, <2>3, <3>1 DEF SupplierRow
    <3> HIDE DEF srow
    <3>4. QED
      BY <1>1, <2>0, <3>2, <3>3
  <2> HIDE DEF row, x
  <2>10. /\ requests' \in [Requests -> RequestRow] /\ requests'[r] = row
         /\ \A q \in Requests : q # r => requests'[q] = requests[q]
    BY <1>1, <2>6, <2>7, RowWritten
  <2>11. suppliers'[s].version > suppliers[s].version /\ LogInv(s)'
    BY <1>1, <2>1, <2>6, <2>8, <2>9, <2>10, <1>0, ApprovedLog DEF E
  <2>12. RowMoves(r)
    BY <1>1, <2>1, <2>6, <2>10 DEF RowMoves
  <2>13. \A q \in Requests : RowMoves(q)
    BY <2>10, <2>12, RowStill
  <2>14. ASSUME NEW q \in Suppliers PROVE SupplierMoves(q)
    <3>1. \A p \in Requests : requests[p].status = "approved" => requests'[p].status = "approved"
      BY <2>6, <2>10
    <3>2. CASE q = s
      BY <2>9, <2>11, <3>1, <3>2 DEF SupplierMoves
    <3>3. CASE q # s
      <4>1. Quiet(q)
        <5>1. \A p \in Requests : SupplierOf[p] = q => p # r
          BY <1>0, <3>3
        <5>2. QED
          BY <2>8, <2>9, <2>10, <3>3, <5>1 DEF Quiet
      <4>2. QED
        BY <2>9, <3>1, <3>3, <4>1 DEF SupplierMoves
    <3>4. QED
      BY <3>2, <3>3
  <2>15. ASSUME NEW t \in Tokens PROVE LimitMoves(t)
    <3>1. \A q \in Requests : q # r => (HoldingNext(q, t) => Holding(q, t))
      BY <2>10, RowStill
    <3>2. CASE t = x.token
      <4>1. Fresh \subseteq x.fresh
        BY <1>1 DEF Reading
      <4>2. Cardinality(Holders(t, x.fresh) \ {r}) < PerToken
        <5>1. Holders(t, x.fresh) \ {r} = Holders(t, x.fresh)
          BY <2>1 DEF Holders, Valid
        <5>2. QED
          BY <2>1, <3>2, <5>1
      <4>3. QED
        BY <1>1, <2>0, <3>1, <4>1, <4>2, OneMore
    <3>3. CASE t # x.token
      <4>1. ~HoldingNext(r, t)
        BY <2>2, <2>6, <2>10, <3>3 DEF HoldingNext
      <4>2. QED
        BY <3>1, <4>1 DEF LimitMoves
    <3>4. QED
      BY <3>2, <3>3
  <2>16. QED
    BY <2>8, <2>9, <2>10, <2>13, <2>14, <2>15
<1>6. ASSUME ~approved
      PROVE  /\ requests' \in [Requests -> RequestRow]
             /\ suppliers' \in [Suppliers -> SupplierRow] /\ log' \in [Suppliers -> SUBSET EventRow]
             /\ \A q \in Requests : RowMoves(q)
             /\ \A q \in Suppliers : SupplierMoves(q)
             /\ \A t \in Tokens : LimitMoves(t)
  <2>1. UNCHANGED <<requests, suppliers, log>>
    BY <1>0, <1>6 DEF CommitApproval
  <2>2. QED
    BY <2>1, RowStill DEF LifeInv, LifecycleTypeOK, BoundTypeOK, SupplierMoves, Quiet, LimitMoves
<1> HIDE DEF approved, x
<1>7. LifecycleTypeOK' /\ BoundTypeOK'
  <2>1. /\ requests' \in [Requests -> RequestRow]
        /\ suppliers' \in [Suppliers -> SupplierRow] /\ log' \in [Suppliers -> SUBSET EventRow]
    BY <1>5, <1>6
  <2>2. QED
    BY <1>2, <1>3, <1>4, <2>1 DEF LifeInv, LifecycleTypeOK, BoundTypeOK
<1>8. Orderly
  <2>1. /\ \A q \in Requests : RowMoves(q)
        /\ \A q \in Suppliers : SupplierMoves(q)
        /\ \A t \in Tokens : LimitMoves(t)
    BY <1>5, <1>6
  <2>2. QED
    BY <1>2, <2>1, BoundStill DEF Orderly
<1>9. QED
  BY <1>1, <1>2, <1>7, <1>8, CommitOnly DEF x

(* The command of a lifecycle batch is bound, to what it has done. *)
LEMMA CycleClaimed ==
  ASSUME LifeInv, NEW o \in Cycles, NEW c \in Commands, NEW r \in Requests, NEW p \in Tokens \cup {NoToken},
         cycleBound[o][c] \in {Unbound, <<r, p>>}, cycleBound' = [cycleBound EXCEPT ![o][c] = <<r, p>>],
         UNCHANGED offerBound, Effect(o, r)
  PROVE  /\ cycleBound' \in [Cycles -> [Commands -> {Unbound} \cup (Requests \X (Tokens \cup {NoToken}))]]
         /\ cycleBound'[o][c] = <<r, p>> /\ \A d \in Commands : BoundMoves(d)
<1>1. cycleBound \in [Cycles -> [Commands -> {Unbound} \cup (Requests \X (Tokens \cup {NoToken}))]]
  BY DEF LifeInv, BoundTypeOK
<1>2. cycleBound' \in [Cycles -> [Commands -> {Unbound} \cup (Requests \X (Tokens \cup {NoToken}))]]
  BY <1>1
<1>3. cycleBound'[o][c] = <<r, p>>
  BY <1>1
<1>4. ASSUME NEW d \in Commands, NEW q \in Cycles
      PROVE  cycleBound'[q][d] = cycleBound[q][d] \/ (cycleBound[q][d] = Unbound /\ Effect(q, cycleBound'[q][d][1]))
  <2>1. CASE q = o /\ d = c
    <3>1. CASE cycleBound[o][c] = Unbound
      BY <1>3, <2>1, <3>1
    <3>2. CASE cycleBound[o][c] = <<r, p>>
      BY <1>3, <2>1, <3>2
    <3>3. QED
      BY <3>1, <3>2
  <2>2. CASE ~(q = o /\ d = c)
    BY <1>1, <2>2
  <2>3. QED
    BY <2>1, <2>2
<1>5. QED
  BY <1>2, <1>3, <1>4 DEF BoundMoves

(* The row of a request that its owner ended. *)
LEMMA WithdrawnRow ==
  ASSUME LifeInv, NEW r \in Requests, NEW status \in {"withdrawn", "revoked"}, requests' = Withdrawn(r, status)
  PROVE  /\ requests' \in [Requests -> RequestRow]
         /\ requests'[r].status = status /\ requests'[r].token = NoToken /\ requests'[r].rev = requests[r].rev + 1
         /\ requests'[r].gen = requests[r].gen /\ requests'[r].by = requests[r].by
         /\ requests'[r].expired = requests[r].expired
         /\ \A q \in Requests : q # r => requests'[q] = requests[q]
<1> DEFINE n == requests[r].rev + 1
           row == [requests[r] EXCEPT !.status = status, !.rev = n, !.token = NoToken]
<1>1. requests \in [Requests -> RequestRow] /\ n \in Nat
  BY DEF LifeInv, LifecycleTypeOK, RequestRow
<1>2. requests' = [requests EXCEPT ![r] = row]
  BY <1>1 DEF Withdrawn, RequestRow
<1>3. row \in RequestRow
  <2> HIDE DEF n
  <2> QED BY <1>1 DEF RequestRow
<1>4. row.status = status /\ row.token = NoToken /\ row.rev = requests[r].rev + 1
      /\ row.gen = requests[r].gen /\ row.by = requests[r].by /\ row.expired = requests[r].expired
  BY <1>1 DEF RequestRow
<1> HIDE DEF row
<1>5. QED
  BY <1>2, <1>3, <1>4, RowWritten

(* The batch of a withdrawal. *)
LEMMA WithdrawalKeeps ==
  ASSUME LifeInv, NEW h \in Revokers, CommitWithdrawal(h)
  PROVE  LifeInv' /\ Orderly
<1> DEFINE x == calls[h]
           won == requests[x.req].status = "pending" /\ MayClaimCycle(h, NoToken)
<1>0. PICK r \in Requests, c \in Commands : r = x.req /\ c = x.cmd
  BY RolesOfHandlers, CallFacts DEF CommitWithdrawal
<1>1. h \in Callers /\ x.phase = "commit" /\ x.what = "withdraw"
  BY RolesOfHandlers DEF CommitWithdrawal
<1>2. /\ UNCHANGED <<suppliers, log, offers, switches, rewraps, reviewClaim, offerBound>>
      /\ calls' = [calls EXCEPT ![h].phase = "verify"]
  BY DEF CommitWithdrawal, ClaimCycle
<1>3. calls' \in [Callers -> CallRow]
  BY <1>1, <1>2, VerifyTyped
<1>4. /\ requests' \in [Requests -> RequestRow]
      /\ cycleBound' \in [Cycles -> [Commands -> {Unbound} \cup (Requests \X (Tokens \cup {NoToken}))]]
      /\ \A q \in Requests : RowMoves(q) /\ SameStanding(q)
      /\ \A q \in Requests, t \in Tokens : HoldingNext(q, t) => Holding(q, t)
      /\ \A d \in Commands : BoundMoves(d)
  <2>1. CASE won
    <3>1. requests[r].status = "pending" /\ cycleBound["withdraw"][c] \in {Unbound, <<r, NoToken>>}
      BY <1>0, <1>1, <2>1 DEF MayClaimCycle
    <3>2. requests' = Withdrawn(r, "withdrawn") /\ cycleBound' = [cycleBound EXCEPT !["withdraw"][c] = <<r, NoToken>>]
      BY <1>0, <1>1, <2>1 DEF CommitWithdrawal, ClaimCycle
    <3>3. /\ requests' \in [Requests -> RequestRow]
          /\ requests'[r].status = "withdrawn" /\ requests'[r].token = NoToken /\ requests'[r].rev = requests[r].rev + 1
          /\ requests'[r].gen = requests[r].gen /\ requests'[r].by = requests[r].by
          /\ requests'[r].expired = requests[r].expired
          /\ \A q \in Requests : q # r => requests'[q] = requests[q]
      BY <3>2, WithdrawnRow
    <3>4. RowMoves(r) /\ SameStanding(r) /\ \A t \in Tokens : ~HoldingNext(r, t)
      BY <3>1, <3>3 DEF RowMoves, SameStanding, HoldingNext
    <3>5. Effect("withdraw", r)
      BY <3>3 DEF Effect
    <3>6. /\ cycleBound' \in [Cycles -> [Commands -> {Unbound} \cup (Requests \X (Tokens \cup {NoToken}))]]
          /\ \A d \in Commands : BoundMoves(d)
      BY <1>2, <3>1, <3>2, <3>5, CycleClaimed DEF Cycles
    <3>7. QED
      BY <3>3, <3>4, <3>6, RowStill
  <2>2. CASE ~won
    <3>1. requests' = requests /\ cycleBound' = cycleBound
      BY <2>2 DEF CommitWithdrawal, ClaimCycle
    <3>2. QED
      BY <1>2, <3>1, RowStill, BoundStill DEF LifeInv, LifecycleTypeOK, BoundTypeOK
  <2>3. QED
    BY <2>1, <2>2
<1>5. LifecycleTypeOK' /\ BoundTypeOK'
  BY <1>2, <1>3, <1>4 DEF LifeInv, LifecycleTypeOK, BoundTypeOK
<1>6. Orderly
  <2>1. \A t \in Tokens : LimitMoves(t)
    BY <1>4 DEF LimitMoves
  <2>2. QED
    BY <1>2, <1>4, <2>1, RowsOrderly
<1>7. QED
  BY <1>1, <1>2, <1>5, <1>6, CommitOnly

(* The event of a revocation continues the log. *)
LEMMA RevokedLog ==
  ASSUME LifeInv, NEW r \in Requests, NEW s \in Suppliers, s = SupplierOf[r],
         requests[r].status = "approved", requests'[r].status = "revoked",
         \A q \in Requests : q # r => requests'[q] = requests[q],
         log'[s] = log[s] \cup {Event(suppliers[s].version + 1, "revoked", r)},
         suppliers'[s].version = suppliers[s].version + 1, suppliers'[s].status = suppliers[s].status
  PROVE  suppliers'[s].version > suppliers[s].version /\ LogInv(s)'
<1> DEFINE v == suppliers[s].version
           e == Event(v + 1, "revoked", r)
<1>1. v \in Nat /\ LogInv(s)
  BY LogCounted DEF LifeInv
<1>2. e.version = v + 1 /\ e.req = r /\ e.type = "revoked"
  BY DEF Event
<1>3. log'[s] = log[s] \cup {e}
  OBVIOUS
<1> HIDE DEF e
<1>4. Numbered({e}, v, v + 1)
  <2>1. (v + 1)..(v + 1) = {v + 1}
    BY <1>1
  <2>2. QED
    BY <1>2, <2>1 DEF Numbered
<1>5. Numbered(log'[s], 0, v + 1)
  <2>1. Numbered(log[s], 0, v)
    BY <1>1 DEF LogInv
  <2> HIDE DEF v
  <2>2. QED
    BY <1>1, <1>3, <1>4, <2>1, NumberedJoin
<1>6. Happened(s, "activated")' <=> Happened(s, "activated")
  BY <1>2, <1>3 DEF Happened
<1>7. Recorded(s, r)
  BY <1>1 DEF LogInv
<1>8. suppliers[s].status # "none"
  <2>1. log[s] # {}
    BY <1>7 DEF Recorded
  <2>2. QED
    BY <1>1, <2>1 DEF LogInv
<1>9. ASSUME NEW q \in Requests, SupplierOf[q] = s
      PROVE  /\ Recorded(s, q)' <=> requests'[q].status \in {"approved", "revoked"}
             /\ RevokedInLog(s, q)' <=> requests'[q].status = "revoked"
  <2>1. /\ Recorded(s, q) <=> requests[q].status \in {"approved", "revoked"}
        /\ RevokedInLog(s, q) <=> requests[q].status = "revoked"
    BY <1>1, <1>9 DEF LogInv
  <2>2. RevokedInLog(s, q)' <=> (RevokedInLog(s, q) \/ q = r)
    BY <1>2, <1>3 DEF RevokedInLog
  <2>3. Recorded(s, q)' <=> Recorded(s, q)
    BY <1>2, <1>3 DEF Recorded
  <2>4. QED
    BY <2>1, <2>2, <2>3
<1>10. QED
  BY <1>1, <1>5, <1>6, <1>8, <1>9 DEF LogInv

(* The batch of a revocation. *)
LEMMA RevocationKeeps ==
  ASSUME LifeInv, NEW h \in Revokers, CommitRevocation(h)
  PROVE  LifeInv' /\ Orderly
<1> DEFINE x == calls[h]
           won == requests[x.req].status = "approved" /\ MayClaimCycle(h, NoToken)
<1>0. PICK r \in Requests, c \in Commands, s \in Suppliers : r = x.req /\ c = x.cmd /\ s = SupplierOf[r]
  BY RolesOfHandlers, CallFacts DEF CommitRevocation
<1>1. h \in Callers /\ x.phase = "commit" /\ x.what = "revoke" /\ Reading(x)
  BY RolesOfHandlers, CallFacts DEF CommitRevocation
<1>2. /\ UNCHANGED <<offers, switches, rewraps, reviewClaim, offerBound>>
      /\ calls' = [calls EXCEPT ![h].phase = "verify"]
  BY DEF CommitRevocation, ClaimCycle
<1>3. calls' \in [Callers -> CallRow]
  BY <1>1, <1>2, VerifyTyped
<1>4. /\ requests \in [Requests -> RequestRow] /\ suppliers \in [Suppliers -> SupplierRow]
      /\ log \in [Suppliers -> SUBSET EventRow]
  BY DEF LifeInv, LifecycleTypeOK, BoundTypeOK
<1> DEFINE Types == /\ requests' \in [Requests -> RequestRow]
                    /\ suppliers' \in [Suppliers -> SupplierRow]
                    /\ log' \in [Suppliers -> SUBSET EventRow]
                    /\ cycleBound' \in [Cycles -> [Commands -> {Unbound} \cup (Requests \X (Tokens \cup {NoToken}))]]
           Moves == /\ \A q \in Requests : RowMoves(q)
                    /\ \A q \in Suppliers : SupplierMoves(q)
                    /\ \A q \in Requests, t \in Tokens : HoldingNext(q, t) => Holding(q, t)
                    /\ \A d \in Commands : BoundMoves(d)
<1>5. ASSUME won PROVE Types /\ Moves
  <2> DEFINE v == suppliers[s].version
             e == Event(v + 1, "revoked", r)
             on == suppliers[s].enabled /\ HasValid(s, x.fresh, Withdrawn(r, "revoked"))
  <2>1. requests[r].status = "approved" /\ cycleBound["revoke"][c] \in {Unbound, <<r, NoToken>>} /\ v = x.version
    BY <1>0, <1>1, <1>5 DEF MayClaimCycle
  <2>2. /\ requests' = Withdrawn(r, "revoked") /\ cycleBound' = [cycleBound EXCEPT !["revoke"][c] = <<r, NoToken>>]
        /\ suppliers' = SupplierAfterRevocation(s, x.fresh, Withdrawn(r, "revoked"))
        /\ log' = [log EXCEPT ![s] = @ \cup x.events]
    BY <1>0, <1>1, <1>5 DEF CommitRevocation, ClaimCycle, Appended
  <2>3. x.events = {e}
    BY <1>0, <1>1, <2>1 DEF Reading
  <2>4. v \in Nat
    BY LogCounted
  <2>5. e \in EventRow
    BY <2>4 DEF Event, EventRow
  <2>6. /\ log'[s] = log[s] \cup {e} /\ log' \in [Suppliers -> SUBSET EventRow]
        /\ \A q \in Suppliers : q # s => log'[q] = log[q]
    <3> HIDE DEF e, x
    <3> QED BY <1>4, <2>2, <2>3, <2>5
  <2>7. /\ suppliers'[s].status = suppliers[s].status /\ suppliers'[s].version = v + 1
        /\ suppliers'[s].enabled = on /\ suppliers' \in [Suppliers -> SupplierRow]
        /\ \A q \in Suppliers : q # s => suppliers'[q] = suppliers[q]
    <3> DEFINE n == v + 1
               srow == [suppliers[s] EXCEPT !.version = n, !.enabled = on]
    <3>1. suppliers[s] \in SupplierRow /\ n \in Nat /\ on \in BOOLEAN
      BY <1>4, <2>4 DEF HasValid
    <3> HIDE DEF x
    <3>2. suppliers' = [suppliers EXCEPT ![s] = srow]
      BY <1>4, <2>2 DEF SupplierRow, SupplierAfterRevocation
    <3> HIDE DEF n, on
    <3>3. srow \in SupplierRow
      BY <3>1 DEF SupplierRow
    <3>4. srow.status = suppliers[s].status /\ srow.version = n /\ srow.enabled = on
      BY <3>1 DEF SupplierRow
    <3> HIDE DEF srow
    <3>5. QED
      BY <1>4, <3>2, <3>3, <3>4 DEF n
  <2>8. /\ requests' \in [Requests -> RequestRow]
        /\ requests'[r].status = "revoked" /\ requests'[r].token = NoToken /\ requests'[r].rev = requests[r].rev + 1
        /\ requests'[r].gen = requests[r].gen /\ requests'[r].by = requests[r].by
        /\ requests'[r].expired = requests[r].expired
        /\ \A q \in Requests : q # r => requests'[q] = requests[q]
    BY <2>2, WithdrawnRow
  <2>9. RowMoves(r) /\ \A t \in Tokens : ~HoldingNext(r, t)
    BY <2>1, <2>8 DEF RowMoves, HoldingNext
  <2>10. Effect("revoke", r)
    BY <2>8 DEF Effect
  <2>11. /\ cycleBound' \in [Cycles -> [Commands -> {Unbound} \cup (Requests \X (Tokens \cup {NoToken}))]]
         /\ \A d \in Commands : BoundMoves(d)
    BY <1>2, <2>1, <2>2, <2>10, CycleClaimed DEF Cycles
  <2>12. suppliers'[s].version > suppliers[s].version /\ LogInv(s)'
    BY <1>0, <2>1, <2>6, <2>7, <2>8, RevokedLog DEF e, v
  <2>13. ASSUME NEW q \in Suppliers PROVE SupplierMoves(q)
    <3>1. CASE q = s
      <4>1. on => \E p \in Requests : SupplierOf[p] = s /\ requests'[p].status = "approved"
        <5>1. x.fresh \subseteq Requests
          BY <1>1, CallFacts DEF CallRow
        <5>2. QED
          BY <2>2, <5>1 DEF HasValid
      <4> HIDE DEF on
      <4>2. QED
        BY <2>7, <2>12, <3>1, <4>1 DEF SupplierMoves
    <3>2. CASE q # s
      <4>1. \A p \in Requests : SupplierOf[p] = q => p # r
        BY <1>0, <3>2
      <4>2. Quiet(q)
        BY <2>6, <2>7, <2>8, <3>2, <4>1 DEF Quiet
      <4>3. QED
        BY <2>7, <2>8, <3>2, <4>1, <4>2 DEF SupplierMoves
    <3>3. QED
      BY <3>1, <3>2
  <2>14. QED
    BY <2>6, <2>7, <2>8, <2>9, <2>11, <2>13, RowStill
<1>6. ASSUME ~won PROVE Types /\ Moves
  <2>1. UNCHANGED <<requests, suppliers, log, cycleBound>>
    BY <1>6 DEF CommitRevocation, ClaimCycle
  <2>2. cycleBound \in [Cycles -> [Commands -> {Unbound} \cup (Requests \X (Tokens \cup {NoToken}))]]
    BY DEF LifeInv, BoundTypeOK
  <2>3. \A q \in Suppliers : SupplierMoves(q)
    BY <2>1 DEF SupplierMoves, Quiet
  <2>4. QED
    BY <1>2, <1>4, <2>1, <2>2, <2>3, RowStill, BoundStill
<1> HIDE DEF won, x
<1>7. LifecycleTypeOK' /\ BoundTypeOK'
  <2>1. Types
    BY <1>5, <1>6
  <2>2. QED
    BY <1>2, <1>3, <2>1 DEF LifeInv, LifecycleTypeOK, BoundTypeOK
<1>8. Orderly
  <2>1. Moves
    BY <1>5, <1>6
  <2>2. \A t \in Tokens : LimitMoves(t)
    BY <2>1 DEF LimitMoves
  <2>3. QED
    BY <1>2, <2>1, <2>2 DEF Orderly
<1>9. QED
  BY <1>1, <1>2, <1>7, <1>8, CommitOnly DEF x

(* The batch of a token replacement. *)
LEMMA RotationKeeps ==
  ASSUME LifeInv, NEW h \in Rotators, CommitRotation(h)
  PROVE  LifeInv' /\ Orderly
<1> DEFINE x == calls[h]
           won == MayRotate(h)
<1>0. PICK r \in Requests, c \in Commands, u \in Tokens : r = x.req /\ c = x.cmd /\ u = x.token
  BY RolesOfHandlers, CallFacts DEF CommitRotation, Reading
<1>1. h \in Callers /\ x.phase = "commit" /\ x.what = "rotate" /\ Reading(x) /\ x.fresh \in SUBSET Requests
  BY RolesOfHandlers, CallFacts DEF CommitRotation, CallRow
<1>2. /\ UNCHANGED <<suppliers, log, offers, switches, rewraps, reviewClaim, offerBound>>
      /\ calls' = [calls EXCEPT ![h].phase = "verify"]
  BY DEF CommitRotation, ClaimCycle
<1>3. calls' \in [Callers -> CallRow]
  BY <1>1, <1>2, VerifyTyped
<1>4. requests \in [Requests -> RequestRow] /\ RowInv(r)
  BY DEF LifeInv, LifecycleTypeOK
<1> DEFINE Good == /\ requests' \in [Requests -> RequestRow]
                   /\ cycleBound' \in [Cycles -> [Commands -> {Unbound} \cup (Requests \X (Tokens \cup {NoToken}))]]
                   /\ \A q \in Requests : RowMoves(q) /\ SameStanding(q)
                   /\ \A t \in Tokens : LimitMoves(t)
                   /\ \A d \in Commands : BoundMoves(d)
<1>5. ASSUME won PROVE Good
  <2> DEFINE n == requests[r].rev + 1
             row == [requests[r] EXCEPT !.token = u, !.gen = c, !.rev = n]
  <2>1. /\ requests[r].status = "approved" /\ cycleBound["rotate"][c] \in {Unbound, <<r, u>>}
        /\ Cardinality(Holders(u, x.fresh) \ {r}) < PerToken
    BY <1>0, <1>1, <1>5 DEF MayRotate, MayClaimCycle, Valid, TokenFree
  <2>2. /\ requests' = [requests EXCEPT ![r].token = u, ![r].gen = c, ![r].rev = @ + 1]
        /\ cycleBound' = [cycleBound EXCEPT !["rotate"][c] = <<r, u>>]
    BY <1>0, <1>1, <1>5 DEF CommitRotation, ClaimCycle
  <2>3. requests[r] \in RequestRow /\ n \in Nat /\ requests[r].rev \in Nat /\ requests[r].rev >= 1 /\ c \in Writers
    BY <1>4, RolesApart DEF RequestRow, RowInv
  <2>4. requests' = [requests EXCEPT ![r] = row]
    BY <1>4, <2>2 DEF RequestRow
  <2>5. /\ row \in RequestRow
        /\ row.status = "approved" /\ row.token = u /\ row.rev = n /\ row.gen = c
        /\ row.by = requests[r].by /\ row.expired = requests[r].expired
    <3> HIDE DEF n
    <3> QED BY <2>1, <2>3 DEF RequestRow
  <2> HIDE DEF row
  <2>6. /\ requests' \in [Requests -> RequestRow] /\ requests'[r] = row
        /\ \A q \in Requests : q # r => requests'[q] = requests[q]
    BY <2>4, <2>5, RowWritten
  <2>7. Effect("rotate", r)
    BY <2>3, <2>5, <2>6 DEF Effect
  <2>8. /\ cycleBound' \in [Cycles -> [Commands -> {Unbound} \cup (Requests \X (Tokens \cup {NoToken}))]]
        /\ cycleBound'["rotate"][c] = <<r, u>>
        /\ \A d \in Commands : BoundMoves(d)
    BY <1>2, <2>1, <2>2, <2>7, CycleClaimed DEF Cycles
  <2>9. RowMoves(r) /\ SameStanding(r)
    BY <2>1, <2>3, <2>5, <2>6, <2>8 DEF RowMoves, SameStanding
  <2>10. ASSUME NEW t \in Tokens PROVE LimitMoves(t)
    <3>1. \A q \in Requests : q # r => (HoldingNext(q, t) => Holding(q, t))
      BY <2>6, RowStill
    <3>2. CASE t = u
      <4>1. Fresh \subseteq x.fresh
        BY <1>1 DEF Reading
      <4> HIDE DEF x
      <4>2. QED
        BY <1>1, <2>1, <3>1, <3>2, <4>1, OneMore
    <3>3. CASE t # u
      <4>1. ~HoldingNext(r, t)
        BY <2>5, <2>6, <3>3 DEF HoldingNext
      <4>2. QED
        BY <3>1, <4>1 DEF LimitMoves
    <3>4. QED
      BY <3>2, <3>3
  <2>11. QED
    BY <2>6, <2>8, <2>9, <2>10, RowStill
<1>6. ASSUME ~won PROVE Good
  <2>1. UNCHANGED <<requests, cycleBound>>
    BY <1>6 DEF CommitRotation, ClaimCycle
  <2>2. cycleBound \in [Cycles -> [Commands -> {Unbound} \cup (Requests \X (Tokens \cup {NoToken}))]]
    BY DEF LifeInv, BoundTypeOK
  <2>3. QED
    BY <1>2, <1>4, <2>1, <2>2, RowStill, BoundStill DEF LimitMoves
<1> HIDE DEF won, x
<1>7. LifecycleTypeOK' /\ BoundTypeOK'
  <2>1. Good
    BY <1>5, <1>6
  <2>2. QED
    BY <1>2, <1>3, <2>1 DEF LifeInv, LifecycleTypeOK, BoundTypeOK
<1>8. Orderly
  <2>1. Good
    BY <1>5, <1>6
  <2>2. QED
    BY <1>2, <2>1, RowsOrderly
<1>9. QED
  BY <1>1, <1>2, <1>7, <1>8, CommitOnly DEF x

(* The batch of an offer. *)
LEMMA OfferKeeps ==
  ASSUME LifeInv, NEW h \in Publishers, CommitOffer(h)
  PROVE  LifeInv' /\ Orderly
<1> DEFINE x == calls[h]
<1>0. PICK r \in Requests, c \in Commands : r = x.req /\ c = x.cmd
  BY RolesOfHandlers, CallFacts DEF CommitOffer
<1>1. h \in Callers /\ x.phase = "commit"
  BY RolesOfHandlers DEF CommitOffer
<1>2. /\ UNCHANGED <<suppliers, log, requests, reviewClaim, cycleBound, switches, rewraps>>
      /\ calls' = [calls EXCEPT ![h].phase = "verify"]
  BY DEF CommitOffer
<1>3. calls' \in [Callers -> CallRow]
  BY <1>1, <1>2, VerifyTyped
<1>4. offers \subseteq OfferRow /\ offerBound \in [Commands -> {Unbound} \cup {<<q>> : q \in Requests}]
  BY DEF LifeInv, LifecycleTypeOK, BoundTypeOK
<1> DEFINE Good == /\ offers' \subseteq OfferRow /\ offers \subseteq offers'
                   /\ offerBound' \in [Commands -> {Unbound} \cup {<<q>> : q \in Requests}]
                   /\ \A d \in Commands : BoundMoves(d)
<1>5. ASSUME MayPublish(h) PROVE Good
  <2> DEFINE o == [by |-> c, req |-> r]
  <2>1. offers' = offers \cup {o} /\ offerBound' = [offerBound EXCEPT ![c] = <<r>>]
    BY <1>0, <1>5 DEF CommitOffer
  <2>2. o \in OfferRow /\ o.req = r
    BY DEF OfferRow
  <2> HIDE DEF o
  <2>3. offerBound' \in [Commands -> {Unbound} \cup {<<q>> : q \in Requests}]
    BY <1>4, <2>1
  <2>4. ASSUME NEW d \in Commands PROVE BoundMoves(d)
    <3>1. offerBound'[d] = offerBound[d] \/ (offerBound'[d] = <<r>> /\ o \in offers')
      BY <1>4, <2>1
    <3>2. <<r>>[1] = r
      OBVIOUS
    <3>3. QED
      BY <1>2, <2>2, <3>1, <3>2 DEF BoundMoves
  <2>5. QED
    BY <1>4, <2>1, <2>2, <2>3, <2>4
<1>6. ASSUME ~MayPublish(h) PROVE Good
  <2>1. UNCHANGED <<offers, offerBound>>
    BY <1>6 DEF CommitOffer
  <2>2. QED
    BY <1>2, <1>4, <2>1, BoundStill
<1>7. Good
  BY <1>5, <1>6
<1>8. LifecycleTypeOK' /\ BoundTypeOK'
  BY <1>2, <1>3, <1>7 DEF LifeInv, LifecycleTypeOK, BoundTypeOK
<1>9. Orderly
  <2>1. \A q \in Requests : RowMoves(q) /\ \A t \in Tokens : HoldingNext(q, t) => Holding(q, t)
    BY <1>2, RowStill
  <2>2. \A s \in Suppliers : SupplierMoves(s)
    BY <1>2 DEF SupplierMoves, Quiet
  <2>3. QED
    BY <1>2, <1>7, <2>1, <2>2 DEF Orderly, LimitMoves
<1>10. QED
  BY <1>1, <1>2, <1>8, <1>9, CommitOnly

(* A switch handler that is done. *)
LEMMA SwitchTyped ==
  ASSUME LifeInv, NEW h \in Switchers, SwitchEnded(h)
  PROVE  switches' \in [Switchers -> SwitchRow]
<1>1. switches \in [Switchers -> SwitchRow]
  BY DEF LifeInv, LifecycleTypeOK
<1>2. switches[h].sup \in Suppliers
  BY <1>1 DEF SwitchRow
<1>3. (CHOOSE s \in Suppliers : TRUE) \in Suppliers
  BY <1>2
<1> DEFINE d == CHOOSE s \in Suppliers : TRUE
<1>4. IdleSwitch = [phase |-> "idle", cmd |-> NoCommand, sup |-> d, on |-> FALSE, fresh |-> {}]
  BY DEF IdleSwitch
<1> HIDE DEF d
<1>5. IdleSwitch \in SwitchRow
  BY <1>3, <1>4 DEF SwitchRow, d
<1>6. QED
  BY <1>1, <1>5 DEF SwitchEnded

(* The batch of setSupplyState. *)
LEMMA SwitchKeeps ==
  ASSUME LifeInv, NEW h \in Switchers, CommitSwitch(h)
  PROVE  LifeInv' /\ Orderly
<1> DEFINE x == switches[h]
           now == IF ~x.on \/ HasValid(x.sup, x.fresh, requests) THEN x.on ELSE suppliers[x.sup].enabled
<1>1. x \in SwitchRow /\ suppliers \in [Suppliers -> SupplierRow]
  BY DEF LifeInv, LifecycleTypeOK
<1>0. PICK s \in Suppliers : s = x.sup
  BY <1>1 DEF SwitchRow
<1> DEFINE row == [suppliers[s] EXCEPT !.enabled = now]
<1>2. /\ UNCHANGED <<log, requests, offers, reviewClaim, cycleBound, offerBound, calls, rewraps>>
      /\ SwitchEnded(h)
      /\ suppliers' = [suppliers EXCEPT ![s] = row]
  BY <1>0, <1>1 DEF CommitSwitch, SupplierRow
<1>3. suppliers[s] \in SupplierRow /\ now \in BOOLEAN
  <2>1. suppliers[s] \in SupplierRow /\ x.on \in BOOLEAN /\ suppliers[x.sup].enabled \in BOOLEAN
    BY <1>0, <1>1 DEF SwitchRow, SupplierRow
  <2> HIDE DEF x
  <2>2. QED
    BY <2>1
<1>4. (now /\ ~suppliers[s].enabled) => \E r \in Requests : SupplierOf[r] = s /\ requests[r].status = "approved"
  <2>1. (now /\ ~suppliers[s].enabled) => HasValid(s, x.fresh, requests)
    BY <1>0
  <2>2. x.fresh \subseteq Requests
    BY <1>1 DEF SwitchRow
  <2>3. QED
    BY <2>1, <2>2 DEF HasValid
<1> HIDE DEF now
<1>5. row \in SupplierRow /\ row.status = suppliers[s].status /\ row.version = suppliers[s].version /\ row.enabled = now
  BY <1>3 DEF SupplierRow
<1> HIDE DEF row
<1>6. /\ suppliers' \in [Suppliers -> SupplierRow] /\ suppliers'[s] = row
      /\ \A q \in Suppliers : q # s => suppliers'[q] = suppliers[q]
  BY <1>1, <1>2, <1>5
<1>7. LifecycleTypeOK' /\ BoundTypeOK'
  BY <1>2, <1>6, SwitchTyped DEF LifeInv, LifecycleTypeOK, BoundTypeOK
<1>8. ASSUME NEW q \in Suppliers PROVE SupplierMoves(q)
  <2>1. Quiet(q)
    BY <1>2, <1>5, <1>6 DEF Quiet
  <2>2. CASE q = s
    BY <1>2, <1>4, <1>5, <1>6, <2>1, <2>2 DEF SupplierMoves
  <2>3. CASE q # s
    BY <1>2, <1>6, <2>1, <2>3 DEF SupplierMoves
  <2>4. QED
    BY <2>2, <2>3
<1>9. Orderly
  <2>1. \A q \in Requests : RowMoves(q) /\ \A t \in Tokens : HoldingNext(q, t) => Holding(q, t)
    BY <1>2, RowStill
  <2>2. QED
    BY <1>2, <1>8, <2>1, BoundStill DEF Orderly, LimitMoves
<1>10. QED
  BY <1>2, <1>7, <1>9, RowsOnly

(* A switch handler that begins or gives up. *)
LEMMA SwitchOnly ==
  ASSUME LifeInv, UNCHANGED <<tables, keys, calls, rewraps>>, switches' \in [Switchers -> SwitchRow]
  PROVE  LifeInv' /\ Orderly
<1>1. Orderly
  BY StillOrderly
<1>2. LifecycleTypeOK' /\ BoundTypeOK'
  BY DEF LifeInv, LifecycleTypeOK, BoundTypeOK, tables, keys
<1>3. QED
  BY <1>1, <1>2, RowsOnly

(* A supply switch starts: it keeps who was unexpired then. *)
LEMMA BeginSwitchKeeps ==
  ASSUME LifeInv, NEW h \in Switchers, NEW c \in KeysOf[h], NEW s \in Suppliers, NEW on \in BOOLEAN,
         BeginSwitch(h, c, s, on)
  PROVE  LifeInv' /\ Orderly
<1> DEFINE y == [phase |-> "commit", cmd |-> c, sup |-> s, on |-> on, fresh |-> Fresh]
<1>1. y \in SwitchRow
  BY RolesOfHandlers DEF SwitchRow, Fresh
<1>2. switches' = [switches EXCEPT ![h] = y] /\ UNCHANGED <<tables, keys, calls, rewraps>>
  BY DEF BeginSwitch
<1> HIDE DEF y
<1>3. switches' \in [Switchers -> SwitchRow]
  BY <1>1, <1>2 DEF LifeInv, LifecycleTypeOK
<1>4. QED
  BY <1>2, <1>3, SwitchOnly

(* The handler of a supply switch is lost. *)
LEMMA LoseSwitchKeeps ==
  ASSUME LifeInv, NEW h \in Switchers, LoseSwitch(h)
  PROVE  LifeInv' /\ Orderly
BY SwitchTyped, SwitchOnly DEF LoseSwitch

(* rotateCredentialEncryptions reads the credentials it will encrypt again. *)
LEMMA ReadKeeps ==
  ASSUME LifeInv, NEW h \in Rewrappers, ReadCredentials(h)
  PROVE  LifeInv' /\ Orderly
<1>1. PICK R \in SUBSET {r \in Requests : requests[r].token # NoToken} :
        rewraps' = [rewraps EXCEPT ![h] =
            [phase |-> "commit",
             rows |-> {[req |-> r, gen |-> requests[r].gen, token |-> requests[r].token] : r \in R}]]
  BY DEF ReadCredentials
<1> DEFINE G == {[req |-> r, gen |-> requests[r].gen, token |-> requests[r].token] : r \in R}
<1>2. rewraps[h].phase = "idle" /\ UNCHANGED <<tables, keys, calls, switches>>
      /\ rewraps \in [Rewrappers -> RewrapRow] /\ requests \in [Requests -> RequestRow]
  BY DEF ReadCredentials, LifeInv, LifecycleTypeOK
<1>3. ASSUME NEW g \in G
      PROVE  /\ g \in Generation /\ requests[g.req].gen = g.gen /\ requests[g.req].token = g.token
             /\ requests[g.req].status # "none"
             /\ g.gen \in Commands => cycleBound["rotate"][g.gen] = <<g.req, g.token>>
             /\ g.gen \in Rewrappers => rewraps[g.gen].phase = "done"
  <2>1. PICK r \in R : g = [req |-> r, gen |-> requests[r].gen, token |-> requests[r].token]
    OBVIOUS
  <2>2. r \in Requests /\ requests[r].token # NoToken /\ requests[r] \in RequestRow /\ RowInv(r)
    BY <1>2 DEF LifeInv
  <2>3. g.req = r /\ g.gen = requests[r].gen /\ g.token = requests[r].token
    BY <2>1
  <2>4. g \in Generation
    BY <2>1, <2>2 DEF Generation, RequestRow
  <2>5. QED
    BY <2>2, <2>3, <2>4 DEF RowInv
<1> HIDE DEF G
<1>4. rewraps' = [rewraps EXCEPT ![h] = [phase |-> "commit", rows |-> G]]
  BY <1>1 DEF G
<1>5. rewraps' \in [Rewrappers -> RewrapRow] /\ rewraps'[h] = [phase |-> "commit", rows |-> G]
      /\ \A k \in Rewrappers : k # h => rewraps'[k] = rewraps[k]
  <2>1. [phase |-> "commit", rows |-> G] \in RewrapRow
    BY <1>3 DEF RewrapRow
  <2>2. QED
    BY <1>2, <1>4, <2>1
<1>6. \A k \in Rewrappers : rewraps[k].phase = "done" => rewraps'[k].phase = "done"
  BY <1>2, <1>5
<1>7. Orderly
  BY <1>2, <1>6, StillOrderly
<1>8. LifecycleTypeOK' /\ BoundTypeOK'
  BY <1>2, <1>5 DEF LifeInv, LifecycleTypeOK, BoundTypeOK, tables, keys
<1>9. ASSUME NEW k \in Rewrappers PROVE RewrapInv(k)'
  <2>1. CASE k = h
    <3>1. ASSUME NEW g \in G PROVE HeldInv(g)'
      <4>1. UNCHANGED <<requests, cycleBound>>
        BY <1>2 DEF tables, keys
      <4>2. QED
        BY <1>3, <1>6, <4>1 DEF HeldInv
    <3>2. QED
      BY <1>5, <2>1, <3>1 DEF RewrapInv
  <2>2. CASE k # h
    BY <1>5, <1>7, <2>2, RewrapKept
  <2>3. QED
    BY <2>1, <2>2
<1>10. \A k \in Callers : CallInv(k, calls[k])'
  BY <1>2, <1>7, <1>8, OthersKept
<1>11. QED
  BY <1>7, <1>8, <1>9, <1>10, OrderlyKeeps

(* A rewrapping handler that ends, with or without its batch. *)
LEMMA RewrapEnds ==
  ASSUME LifeInv, Orderly, NEW h \in Rewrappers, NEW p \in {"idle", "done"},
         rewraps' = [rewraps EXCEPT ![h] = [phase |-> p, rows |-> {}]],
         UNCHANGED <<suppliers, log, offers, keys, calls, switches>>, requests' \in [Requests -> RequestRow]
  PROVE  LifeInv'
<1>1. rewraps \in [Rewrappers -> RewrapRow]
  BY DEF LifeInv, LifecycleTypeOK
<1>2. rewraps' \in [Rewrappers -> RewrapRow] /\ rewraps'[h].rows = {}
      /\ \A k \in Rewrappers : k # h => rewraps'[k] = rewraps[k]
  <2>1. [phase |-> p, rows |-> {}] \in RewrapRow
    BY DEF RewrapRow
  <2>2. QED
    BY <1>1, <2>1
<1>3. LifecycleTypeOK' /\ BoundTypeOK'
  BY <1>2 DEF LifeInv, LifecycleTypeOK, BoundTypeOK, keys
<1>4. \A k \in Rewrappers : RewrapInv(k)'
  BY <1>2, RewrapKept
<1>5. \A k \in Callers : CallInv(k, calls[k])'
  BY <1>3, OthersKept
<1>6. QED
  BY <1>3, <1>4, <1>5, OrderlyKeeps

(* A re-encryption is lost between its read and its statements. *)
LEMMA LoseRewrapKeeps ==
  ASSUME LifeInv, NEW h \in Rewrappers, LoseRewrap(h)
  PROVE  LifeInv' /\ Orderly
<1>1. /\ rewraps[h].phase = "commit" /\ rewraps' = [rewraps EXCEPT ![h] = [phase |-> "idle", rows |-> {}]]
      /\ UNCHANGED <<tables, keys, calls, switches>>
  BY DEF LoseRewrap
<1>2. rewraps \in [Rewrappers -> RewrapRow] /\ requests \in [Requests -> RequestRow]
  BY DEF LifeInv, LifecycleTypeOK
<1>3. \A k \in Rewrappers : rewraps[k].phase = "done" => rewraps'[k].phase = "done"
  BY <1>1, <1>2
<1>4. Orderly
  BY <1>1, <1>3, StillOrderly
<1>5. UNCHANGED <<suppliers, log, requests, offers>>
  BY <1>1 DEF tables
<1>6. QED
  BY <1>1, <1>2, <1>4, <1>5, RewrapEnds

(* A row that still holds the ciphertext that was read gets the same token
   under a new ciphertext. *)
LEMMA RewrapKeeps ==
  ASSUME LifeInv, NEW h \in Rewrappers, RewrapCredentials(h)
  PROVE  LifeInv' /\ Orderly
<1> DEFINE read(r) == {g \in rewraps[h].rows : g.req = r}
<1>1. /\ rewraps[h].phase = "commit" /\ rewraps' = [rewraps EXCEPT ![h] = [phase |-> "done", rows |-> {}]]
      /\ UNCHANGED <<suppliers, log, offers, keys, calls, switches>>
      /\ requests' = [r \in Requests |-> IF read(r) = {} THEN requests[r]
                        ELSE Rewrapped(requests[r], CHOOSE g \in read(r) : TRUE, h)]
  BY DEF RewrapCredentials
<1>2. rewraps \in [Rewrappers -> RewrapRow] /\ requests \in [Requests -> RequestRow] /\ h \in Writers
      /\ rewraps[h].rows \subseteq Generation
  BY RolesApart DEF LifeInv, LifecycleTypeOK, RewrapRow
<1>3. rewraps'[h].phase = "done" /\ \A k \in Rewrappers : rewraps[k].phase = "done" => rewraps'[k].phase = "done"
  BY <1>1, <1>2
<1>4. ASSUME NEW r \in Requests
      PROVE  /\ requests'[r] \in RequestRow /\ RowMoves(r) /\ SameStanding(r)
             /\ \A t \in Tokens : HoldingNext(r, t) => Holding(r, t)
  <2>1. CASE requests'[r] = requests[r]
    BY <1>2, <2>1, RowStill
  <2>2. CASE requests'[r] # requests[r]
    <3>1. read(r) # {} /\ requests'[r] = Rewrapped(requests[r], CHOOSE g \in read(r) : TRUE, h)
      BY <1>1, <2>2
    <3>2. PICK g \in read(r) : requests'[r] = Rewrapped(requests[r], g, h)
      BY <3>1
    <3>3. g \in rewraps[h].rows /\ g.req = r /\ HeldInv(g) /\ g \in Generation
      BY <1>2, <3>2 DEF LifeInv, RewrapInv
    <3>4. requests[r].token # NoToken /\ requests[r].gen = g.gen
          /\ requests'[r] = [requests[r] EXCEPT !.gen = h, !.token = g.token]
      BY <2>2, <3>2 DEF Rewrapped
    <3>5. g.token = requests[r].token
      BY <3>3, <3>4 DEF HeldInv
    <3>6. requests[r] \in RequestRow /\ g.token \in Tokens
      BY <1>2, <3>3 DEF Generation
    <3>7. /\ requests'[r] \in RequestRow /\ requests'[r].gen = h /\ requests'[r].token = requests[r].token
          /\ requests'[r].status = requests[r].status /\ requests'[r].rev = requests[r].rev
          /\ requests'[r].by = requests[r].by /\ requests'[r].expired = requests[r].expired
      BY <1>2, <3>4, <3>5, <3>6 DEF RequestRow
    <3>8. RowMoves(r)
      BY <1>1, <1>3, <3>4, <3>7 DEF RowMoves
    <3>9. QED
      BY <3>7, <3>8 DEF SameStanding, Holding, HoldingNext
  <2>3. QED
    BY <2>1, <2>2
<1>5. requests' \in [Requests -> RequestRow]
  BY <1>1, <1>4
<1>6. Orderly
  <2>1. \A t \in Tokens : LimitMoves(t)
    BY <1>4 DEF LimitMoves
  <2>2. \A c \in Commands : BoundMoves(c)
    BY <1>1, BoundStill DEF keys
  <2>3. QED
    BY <1>1, <1>3, <1>4, <2>1, <2>2, RowsOrderly
<1>7. QED
  BY <1>1, <1>5, <1>6, RewrapEnds

(* Time and maintenance approve nothing and revoke nothing. *)
LEMMA RowsAge ==
  ASSUME LifeInv, UNCHANGED <<suppliers, log, offers, keys, calls, switches, rewraps>>,
         requests' \in [Requests -> RequestRow],
         \A r \in Requests : /\ RowMoves(r) /\ SameStanding(r)
                             /\ \A t \in Tokens : HoldingNext(r, t) => Holding(r, t)
  PROVE  LifeInv' /\ Orderly
<1>1. LifecycleTypeOK' /\ BoundTypeOK'
  BY DEF LifeInv, LifecycleTypeOK, BoundTypeOK, keys
<1>2. Orderly
  <2>1. \A t \in Tokens : LimitMoves(t)
    BY DEF LimitMoves
  <2>2. \A c \in Commands : BoundMoves(c)
    BY BoundStill DEF keys
  <2>3. QED
    BY <2>1, <2>2, RowsOrderly
<1>3. QED
  BY <1>1, <1>2, RowsOnly

(* The maintenance ends requests that grew old and erases the credentials of ended ones. *)
LEMMA MaintainKeeps ==
  ASSUME LifeInv, Maintain
  PROVE  LifeInv' /\ Orderly
<1>1. /\ UNCHANGED <<suppliers, log, offers, keys, calls, switches, rewraps>>
      /\ requests' = [r \in Requests |-> Maintained(requests[r])] /\ requests \in [Requests -> RequestRow]
  BY DEF Maintain, LifeInv, LifecycleTypeOK
<1>2. ASSUME NEW r \in Requests
      PROVE  /\ requests'[r] \in RequestRow /\ RowMoves(r) /\ SameStanding(r)
             /\ \A t \in Tokens : HoldingNext(r, t) => Holding(r, t)
  <2> DEFINE old == requests[r]
             lapsed == old.status = "pending" /\ (old.aged \/ old.expired)
             status == IF lapsed THEN "rejected" ELSE old.status
             token == IF lapsed \/ old.expired \/ old.status \in {"withdrawn", "revoked"} THEN NoToken ELSE old.token
  <2>1. old \in RequestRow /\ RowInv(r)
    BY <1>1 DEF LifeInv
  <2>2. requests'[r] = [old EXCEPT !.status = status, !.token = token]
    BY <1>1, <2>1 DEF Maintained, RequestRow
  <2>3. status \in {"none", "pending", "approved", "rejected", "withdrawn", "revoked"}
        /\ token \in Tokens \cup {NoToken}
    BY <2>1 DEF RequestRow
  <2>4. /\ status = old.status \/ (old.status = "pending" /\ status = "rejected" /\ token = NoToken)
        /\ token \in {old.token, NoToken}
        /\ (old.status = "pending" /\ status = "pending") => token = old.token
    BY <2>1 DEF RequestRow
  <2> HIDE DEF status, token, lapsed
  <2>5. /\ requests'[r] \in RequestRow /\ requests'[r].status = status /\ requests'[r].token = token
        /\ requests'[r].rev = old.rev /\ requests'[r].gen = old.gen
        /\ requests'[r].by = old.by /\ requests'[r].expired = old.expired
    BY <2>1, <2>2, <2>3 DEF RequestRow
  <2> HIDE DEF old
  <2>6. RowMoves(r)
    BY <2>4, <2>5 DEF RowMoves, old
  <2>7. SameStanding(r)
    BY <2>4, <2>5 DEF SameStanding, old
  <2>8. ASSUME NEW t \in Tokens, HoldingNext(r, t) PROVE Holding(r, t)
    <3>1. t # NoToken
      BY RolesApart
    <3>2. QED
      BY <2>4, <2>5, <2>8, <3>1 DEF Holding, HoldingNext, old
  <2>9. QED
    BY <2>5, <2>6, <2>7, <2>8
<1>3. requests' \in [Requests -> RequestRow]
  BY <1>1, <1>2
<1>4. QED
  BY <1>1, <1>2, <1>3, RowsAge

(* An authorization runs out; handlers that started before still take it for valid. *)
LEMMA ValidityKeeps ==
  ASSUME LifeInv, NEW r \in Requests, ValidityPasses(r)
  PROVE  LifeInv' /\ Orderly
<1> DEFINE row == [requests[r] EXCEPT !.expired = TRUE]
<1>1. /\ UNCHANGED <<suppliers, log, offers, keys, calls, switches, rewraps>>
      /\ requests' = [requests EXCEPT ![r] = row] /\ requests[r] \in RequestRow
  BY DEF ValidityPasses, LifeInv, LifecycleTypeOK
<1>2. /\ row \in RequestRow /\ row.expired /\ row.status = requests[r].status /\ row.token = requests[r].token
      /\ row.gen = requests[r].gen /\ row.rev = requests[r].rev /\ row.by = requests[r].by
  BY <1>1 DEF RequestRow
<1> HIDE DEF row
<1>3. /\ requests' \in [Requests -> RequestRow] /\ requests'[r] = row
      /\ \A q \in Requests : q # r => requests'[q] = requests[q]
  BY <1>1, <1>2, RowWritten
<1>4. RowMoves(r) /\ SameStanding(r) /\ \A t \in Tokens : ~HoldingNext(r, t)
  BY <1>2, <1>3 DEF RowMoves, SameStanding, HoldingNext
<1>5. QED
  BY <1>1, <1>3, <1>4, RowStill, RowsAge

(* A pending request grows old. *)
LEMMA AgeKeeps ==
  ASSUME LifeInv, NEW r \in Requests, PendingAges(r)
  PROVE  LifeInv' /\ Orderly
<1> DEFINE row == [requests[r] EXCEPT !.aged = TRUE]
<1>1. /\ UNCHANGED <<suppliers, log, offers, keys, calls, switches, rewraps>>
      /\ requests' = [requests EXCEPT ![r] = row] /\ requests[r] \in RequestRow
  BY DEF PendingAges, LifeInv, LifecycleTypeOK
<1>2. /\ row \in RequestRow /\ row.expired = requests[r].expired /\ row.status = requests[r].status
      /\ row.token = requests[r].token
      /\ row.gen = requests[r].gen /\ row.rev = requests[r].rev /\ row.by = requests[r].by
  BY <1>1 DEF RequestRow
<1> HIDE DEF row
<1>3. /\ requests' \in [Requests -> RequestRow] /\ requests'[r] = row
      /\ \A q \in Requests : q # r => requests'[q] = requests[q]
  BY <1>1, <1>2, RowWritten
<1>4. RowMoves(r) /\ SameStanding(r) /\ \A t \in Tokens : HoldingNext(r, t) => Holding(r, t)
  BY <1>2, <1>3 DEF RowMoves, SameStanding, Holding, HoldingNext
<1>5. QED
  BY <1>1, <1>3, <1>4, RowStill, RowsAge

---------------------------------------------------------------------------
(* The invariant. *)

(* Nothing is submitted, bound or under way at first. *)
LEMMA LifeInit == Init => LifeInv
<1> SUFFICES ASSUME Init PROVE LifeInv
  OBVIOUS
<1>1. NoRequest \in RequestRow /\ NoRequest.status = "none" /\ NoRequest.token = NoToken
      /\ NoRequest.gen = Submitted /\ NoRequest.rev = 1
  BY DEF NoRequest, RequestRow, Writers
<1> DEFINE srow == [status |-> "none", version |-> 0, enabled |-> FALSE]
           none == [phase |-> "idle", rows |-> {}]
<1>2. srow \in SupplierRow /\ none \in RewrapRow
  BY DEF SupplierRow, RewrapRow
<1>3. /\ suppliers = [s \in Suppliers |-> srow] /\ log = [s \in Suppliers |-> {}]
      /\ requests = [r \in Requests |-> NoRequest] /\ offers = {}
      /\ reviewClaim = [r \in Requests |-> NoHandler]
      /\ cycleBound = [o \in Cycles |-> [c \in Commands |-> Unbound]]
      /\ offerBound = [c \in Commands |-> Unbound]
      /\ calls = [h \in Callers |-> IdleCall] /\ switches = [h \in Switchers |-> IdleSwitch]
      /\ rewraps = [h \in Rewrappers |-> none]
  BY DEF Init
<1>4. IdleSwitch \in SwitchRow
  <2> DEFINE d == CHOOSE s \in Suppliers : TRUE
  <2>1. d \in Suppliers
    BY LifecycleAssumption
  <2>2. IdleSwitch = [phase |-> "idle", cmd |-> NoCommand, sup |-> d, on |-> FALSE, fresh |-> {}]
    BY DEF IdleSwitch
  <2> HIDE DEF d
  <2>3. QED
    BY <2>1, <2>2, LifecycleAssumption DEF SwitchRow
<1>5. LifecycleTypeOK
  BY <1>1, <1>2, <1>3, <1>4, IdleTyped DEF LifecycleTypeOK
<1>6. BoundTypeOK
  BY <1>3 DEF BoundTypeOK
<1>7. ASSUME NEW r \in Requests PROVE RowInv(r)
  <2>1. requests[r] = NoRequest
    BY <1>3
  <2>2. Submitted \notin Commands /\ Submitted \notin Rewrappers
    BY LifecycleAssumption
  <2>3. QED
    BY <1>1, <2>1, <2>2 DEF RowInv
<1>8. ASSUME NEW s \in Suppliers PROVE LogInv(s)
  <2>1. suppliers[s].version = 0 /\ suppliers[s].status = "none" /\ log[s] = {}
    BY <1>3
  <2>2. Numbered({}, 0, 0)
    <3>1. (0 + 1)..0 = {} /\ \A n \in (0 + 1)..0 : FALSE
      OBVIOUS
    <3>2. QED
      BY <3>1 DEF Numbered
  <2>3. QED
    BY <1>1, <1>3, <2>1, <2>2 DEF LogInv, Happened, Recorded, RevokedInLog
<1>9. \A c \in Commands : BoundInv(c)
  BY <1>3 DEF BoundInv, Cycles
<1>10. \A h \in Rewrappers : RewrapInv(h)
  BY <1>3 DEF RewrapInv
<1>11. \A h \in Callers : CallInv(h, calls[h])
  BY <1>3, IdleTyped
<1>12. SupplyNeedsAuthorization
  BY <1>3 DEF SupplyNeedsAuthorization
<1>13. TokenLimitHolds
  <2> SUFFICES ASSUME NEW t \in Tokens PROVE Cardinality(Holders(t, Fresh)) <= PerToken
    BY DEF TokenLimitHolds
  <2>1. Holders(t, Fresh) = {}
    BY <1>1, <1>3 DEF Holders, Valid
  <2>2. QED
    BY <2>1, FS_EmptySet, LifecycleAssumption
<1>14. QED
  BY <1>5, <1>6, <1>7, <1>8, <1>9, <1>10, <1>11, <1>12, <1>13 DEF LifeInv

(* Every step keeps the invariant, and is orderly or changes nothing. *)
LEMMA LifeNext == LifeInv /\ [Next]_vars => LifeInv' /\ (Orderly \/ UNCHANGED vars)
<1> SUFFICES ASSUME LifeInv, [Next]_vars PROVE LifeInv' /\ (Orderly \/ UNCHANGED vars)
  OBVIOUS
<1>1. ASSUME NEW s \in Suppliers, RegisterSupplierProfile(s) PROVE LifeInv' /\ Orderly
  BY <1>1, RegisterKeeps
<1>2. ASSUME NEW r \in Requests, NEW t \in Tokens, SubmitAuthorizationRequest(r, t) PROVE LifeInv' /\ Orderly
  BY <1>2, SubmitKeeps
<1>3. ASSUME NEW h \in Reviewers, Review(h) PROVE LifeInv' /\ Orderly
  BY <1>3, ReplayReviewKeeps, BeginReviewKeeps, BuildApprovalKeeps, ApprovalKeeps, RejectionKeeps,
     VerifyReviewKeeps DEF Review
<1>4. ASSUME NEW h \in Revokers, Revoke(h) PROVE LifeInv' /\ Orderly
  BY <1>4, ReplayRevocationKeeps, BeginRevocationKeeps, WithdrawalKeeps, RevocationKeeps,
     VerifyRevocationKeeps DEF Revoke
<1>5. ASSUME NEW h \in Rotators, Rotate(h) PROVE LifeInv' /\ Orderly
  BY <1>5, ReplayRotationKeeps, BeginRotationKeeps, RotationKeeps, VerifyRotationKeeps DEF Rotate
<1>6. ASSUME NEW h \in Publishers, Publish(h) PROVE LifeInv' /\ Orderly
  BY <1>6, ReplayOfferKeeps, BeginOfferKeeps, OfferKeeps, VerifyOfferKeeps DEF Publish
<1>7. ASSUME NEW h \in Callers, LoseCall(h) PROVE LifeInv' /\ Orderly
  BY <1>7, LoseCallKeeps
<1>8. ASSUME NEW h \in Switchers, Switch(h) PROVE LifeInv' /\ Orderly
  BY <1>8, BeginSwitchKeeps, SwitchKeeps, LoseSwitchKeeps DEF Switch
<1>9. ASSUME NEW h \in Rewrappers, ReadCredentials(h) \/ RewrapCredentials(h) \/ LoseRewrap(h)
      PROVE  LifeInv' /\ Orderly
  BY <1>9, ReadKeeps, RewrapKeeps, LoseRewrapKeeps
<1>10. CASE Maintain
  BY <1>10, MaintainKeeps
<1>11. ASSUME NEW r \in Expiring, ValidityPasses(r) \/ PendingAges(r) PROVE LifeInv' /\ Orderly
  BY <1>11, ValidityKeeps, AgeKeeps, LifecycleAssumption
<1>12. CASE UNCHANGED vars
  <2>1. UNCHANGED <<tables, keys, calls, rewraps, switches>>
    BY <1>12 DEF vars, tables, keys
  <2>2. QED
    BY <1>12, <2>1, SwitchOnly DEF LifeInv, LifecycleTypeOK
<1>13. QED
  BY <1>1, <1>2, <1>3, <1>4, <1>5, <1>6, <1>7, <1>8, <1>9, <1>10, <1>11, <1>12 DEF Next

(* What every stale reading is still good for, as LifeInv says it, survives
   every step. *)
THEOREM LifeInvariant == Spec => []LifeInv
<1>1. LifeInv /\ [Next]_vars => LifeInv'
  BY LifeNext
<1>2. QED
  BY LifeInit, <1>1, PTL DEF Spec

(* Every table keeps rows of its kind: the steps of every handler write rows
   of the type declared for the table. *)
THEOREM LifecycleTyped == Spec => []LifecycleTypeOK
<1>1. LifeInv => LifecycleTypeOK
  BY DEF LifeInv
<1>2. QED
  BY LifeInvariant, <1>1, PTL

(* The rows of a supplier and of its authorizations are what its event log
   says: the batches that approve and revoke write both, and an approval or a
   revocation that raced another one adds nothing (LogMatchesRows). *)
THEOREM LogSafe == Spec => []LogMatchesRows
<1>1. LifeInv => LogMatchesRows
  <2> SUFFICES ASSUME LifeInv PROVE LogMatchesRows
    OBVIOUS
  <2>1. ASSUME NEW s \in Suppliers
        PROVE  /\ {e.version : e \in log[s]} = 1..suppliers[s].version
               /\ LogVersion(s) = suppliers[s].version
               /\ Happened(s, "activated") <=> suppliers[s].status = "active"
    <3>1. LogInv(s) /\ LogVersion(s) = suppliers[s].version /\ suppliers[s].version \in Nat
      BY LogCounted DEF LifeInv
    <3>2. 0 + 1 = 1
      OBVIOUS
    <3>3. QED
      BY <3>1, <3>2 DEF LogInv, Numbered
  <2>2. ASSUME NEW r \in Requests
        PROVE  LET s == SupplierOf[r] IN
               /\ Recorded(s, r) <=> requests[r].status \in {"approved", "revoked"}
               /\ RevokedInLog(s, r) <=> requests[r].status = "revoked"
    <3>1. SupplierOf[r] \in Suppliers
      BY LifecycleAssumption
    <3>2. QED
      BY <3>1 DEF LifeInv, LogInv
  <2>3. QED
    BY <2>1, <2>2 DEF LogMatchesRows
<1>2. QED
  BY LifeInvariant, <1>1, PTL

(* A rejected, withdrawn or revoked request holds no credential, whatever
   rotation or re-encryption read it before. *)
THEOREM EndedSafe == Spec => []EndedHoldsNoCredential
<1>1. LifeInv => EndedHoldsNoCredential
  BY DEF LifeInv, RowInv, EndedHoldsNoCredential
<1>2. QED
  BY LifeInvariant, <1>1, PTL

(* An ended request stays ended, and another token or a withdrawal always
   comes with a new revision. *)
THEOREM RevisionsSafe == Spec => RevisionsTellGenerations
<1> DEFINE Told == \A r \in Requests :
       LET old == requests[r]
           new == requests'[r] IN
       /\ old.status \in {"rejected", "withdrawn", "revoked"} => new.status = old.status
       /\ new.rev \in {old.rev, old.rev + 1}
       /\ (\/ new.status \in {"withdrawn", "revoked"} /\ old.status # new.status
           \/ old.status = "approved" /\ new.token \notin {old.token, NoToken})
          => new.rev = old.rev + 1
<1>1. LifeInv /\ [Next]_vars => [Told]_vars
  <2> SUFFICES ASSUME LifeInv, [Next]_vars, ~UNCHANGED vars PROVE Told
    OBVIOUS
  <2>1. Orderly
    BY LifeNext
  <2>2. QED
    BY <2>1 DEF Orderly, RowMoves
<1>2. QED
  BY LifeInvariant, <1>1, PTL DEF Spec, RevisionsTellGenerations

(* What a handler confirmed has happened, by its own command where that
   matters, and stays so: reviewAuthorization, revokeAuthorization,
   rotateAuthorizationCredential and createCapacityOffer read their row again
   after the batch. *)
THEOREM RepliesSafe == Spec => []RepliesAreTrue
<1>1. LifeInv => RepliesAreTrue
  <2> SUFFICES ASSUME LifeInv, NEW h \in Callers, calls[h].phase = "ok"
               PROVE  LET x == calls[h]
                          row == requests[x.req] IN
                      CASE x.what = "approve" -> row.by = x.cmd /\ row.status \in {"approved", "revoked"}
                        [] x.what = "reject" -> row.by = x.cmd /\ row.status = "rejected"
                        [] x.what \in {"withdraw", "revoke"} -> row.status \in {"withdrawn", "revoked"}
                        [] x.what = "rotate" -> row.rev > 1 /\ row.status \in {"approved", "revoked"}
                        [] OTHER -> \E o \in offers : o.req = x.req
    BY DEF RepliesAreTrue
  <2>1. calls[h] \in CallRow /\ Reply(calls[h])
    BY DEF LifeInv, LifecycleTypeOK, CallInv
  <2>2. calls[h].what \in {"approve", "reject", "withdraw", "revoke", "rotate", "publish"}
    BY <2>1 DEF CallRow, Decisions, Cycles
  <2>3. QED
    BY <2>1, <2>2 DEF Reply
<1>2. QED
  BY LifeInvariant, <1>1, PTL

(* The limit per bearer token, compared in the statement that approves or
   rotates, holds for the requests unexpired now. *)
THEOREM LimitSafe == Spec => []TokenLimitHolds
<1>1. LifeInv => TokenLimitHolds
  BY DEF LifeInv
<1>2. QED
  BY LifeInvariant, <1>1, PTL

(* A supplier whose supply is on has an approved authorization: the switch
   and the revocation both look for one in their UPDATE. *)
THEOREM SupplySafe == Spec => []SupplyNeedsAuthorization
<1>1. LifeInv => SupplyNeedsAuthorization
  BY DEF LifeInv
<1>2. QED
  BY LifeInvariant, <1>1, PTL
================================================================================
