------------------------ MODULE AuthorizationLifecycle ------------------------
(***************************************************************************)
(* The life of a supply authorization: submission, administrator review,   *)
(* withdrawal, revocation, token replacement, offers, the supply switch,   *)
(* credential re-encryption and expiry (marketplace-service.ts,            *)
(* review-invariants.ts, authorization-lifecycle-invariants.ts,            *)
(* maintenance-service.ts), with the supplier's event log                  *)
(* (marketplace-domain/supplier.ts).                                       *)
(*                                                                         *)
(* A handler reads rows, awaits a gateway attestation or another read and  *)
(* commits one D1 batch whose statements repeat their conditions.  What it *)
(* read stays in `calls` and may be stale at the batch.  Every handler     *)
(* compares valid_until with the time it started: `fresh` is the set of    *)
(* requests that were unexpired then.                                      *)
(*                                                                         *)
(* A command names the tenant that sends it.  The bearer token stands for  *)
(* the ciphertext and for its lookup digest, which every statement writes  *)
(* and clears together; `gen` names the ciphertext by its writer.  What    *)
(* these commands do to running work is modelled in Marketplace.           *)
(***************************************************************************)
EXTENDS Naturals, FiniteSets, Sequences

CONSTANTS
  Suppliers, Requests, Tokens, Commands,
  SupplierOf,       \* the supplier of each request
  Reviewers, Revokers, Rotators, Publishers, Switchers, Rewrappers,  \* handlers
  KeysOf,           \* the commands that may reach a handler
  Expiring,         \* requests whose validity or waiting time ends meanwhile
  PerToken,         \* MAX_AGENT_AUTHORIZATIONS_PER_TOKEN
  Verifications,    \* number of REQUIRED_VERIFICATIONS
  NoToken, NoCommand, NoHandler, Submitted

Callers == Reviewers \cup Revokers \cup Rotators \cup Publishers
Handlers == Callers \cup Switchers \cup Rewrappers
Writers == Commands \cup Rewrappers \cup {Submitted}

ASSUME LifecycleAssumption ==
  /\ SupplierOf \in [Requests -> Suppliers] /\ Suppliers # {}
  /\ IsFiniteSet(Requests) /\ Expiring \subseteq Requests
  /\ KeysOf \in [Callers \cup Switchers -> SUBSET Commands]
  /\ PerToken \in Nat \ {0} /\ Verifications \in Nat
  /\ NoToken \notin Tokens /\ NoCommand \notin Commands
  /\ NoHandler \notin Handlers
  /\ Commands \cap Handlers = {} /\ Submitted \notin Commands \cup Rewrappers
  /\ Reviewers \cap Revokers = {} /\ (Reviewers \cup Revokers) \cap Rotators = {}
  /\ (Reviewers \cup Revokers \cup Rotators) \cap Publishers = {}
  /\ Callers \cap Switchers = {} /\ (Callers \cup Switchers) \cap Rewrappers = {}

VARIABLES
  suppliers,    \* rows of suppliers
  log,          \* supplier events in marketplace_events, by supplier
  requests,     \* rows of authorization_requests
  offers,       \* rows of capacity_offers
  reviewClaim,  \* idempotency_keys, authorization.review-target
  reviewBound,  \* idempotency_keys, authorization.review
  cycleClaims,  \* idempotency_keys, authorization.lifecycle-target
  cycleBound,   \* idempotency_keys, withdraw, revoke and rotate-credential
  offerBound,   \* idempotency_keys, offer.create
  supplyBound,  \* idempotency_keys, supply.set
  calls,        \* review, revoke, rotate and offer handlers
  switches,     \* setSupplyState handlers
  rewraps       \* rotateCredentialEncryptions handlers

tables == <<suppliers, log, requests, offers>>
keys == <<reviewClaim, reviewBound, cycleClaims, cycleBound, offerBound, supplyBound>>
vars == <<suppliers, log, requests, offers, reviewClaim, reviewBound, cycleClaims, cycleBound,
          offerBound, supplyBound, calls, switches, rewraps>>

Decisions == {"approve", "reject"}
Cycles == {"withdraw", "revoke", "rotate"}
Unbound == <<>>

SupplierRow == [status : {"none", "pending-verification", "active"}, version : Nat,
                enabled : BOOLEAN]
EventRow == [version : Nat, req : Requests \cup {NoCommand},
             type : {"registered", "verification", "authorization", "revoked", "activated"}]
RequestRow == [status : {"none", "pending", "approved", "rejected", "withdrawn", "revoked"},
               token : Tokens \cup {NoToken}, gen : Writers, rev : Nat,
               by : Commands \cup {NoCommand}, expired : BOOLEAN, aged : BOOLEAN]
OfferRow == [by : Commands, req : Requests]
CallRow == [phase : {"idle", "build", "commit", "verify", "ok"},
            cmd : Commands \cup {NoCommand}, req : Requests \cup {NoCommand},
            what : Decisions \cup Cycles \cup {"publish"},
            token : Tokens \cup {NoToken}, gen : Writers,
            rev : Nat, version : Nat, events : SUBSET EventRow, fresh : SUBSET Requests]
SwitchRow == [phase : {"idle", "commit"}, cmd : Commands \cup {NoCommand},
              sup : Suppliers, on : BOOLEAN, fresh : SUBSET Requests]
Generation == [req : Requests, gen : Writers, token : Tokens]
RewrapRow == [phase : {"idle", "commit", "done"}, rows : SUBSET Generation]

NoRequest == [status |-> "none", token |-> NoToken, gen |-> Submitted, rev |-> 1,
              by |-> NoCommand, expired |-> FALSE, aged |-> FALSE]
IdleCall == [phase |-> "idle", cmd |-> NoCommand, req |-> NoCommand,
             what |-> "publish", token |-> NoToken, gen |-> Submitted, rev |-> 1,
             version |-> 0, events |-> {}, fresh |-> {}]
IdleSwitch == [phase |-> "idle", cmd |-> NoCommand, sup |-> CHOOSE s \in Suppliers : TRUE,
               on |-> FALSE, fresh |-> {}]

Init ==
  /\ suppliers = [s \in Suppliers |-> [status |-> "none", version |-> 0, enabled |-> FALSE]]
  /\ log = [s \in Suppliers |-> {}]
  /\ requests = [r \in Requests |-> NoRequest]
  /\ offers = {}
  /\ reviewClaim = [r \in Requests |-> NoHandler]
  /\ reviewBound = [c \in Commands |-> Unbound]
  /\ cycleClaims = {}
  /\ cycleBound = [o \in Cycles |-> [c \in Commands |-> Unbound]]
  /\ offerBound = [c \in Commands |-> Unbound]
  /\ supplyBound = [c \in Commands |-> Unbound]
  /\ calls = [h \in Callers |-> IdleCall]
  /\ switches = [h \in Switchers |-> IdleSwitch]
  /\ rewraps = [h \in Rewrappers |-> [phase |-> "idle", rows |-> {}]]

Fresh == {r \in Requests : ~requests[r].expired}

(* status = 'approved' AND valid_until > now, as a handler that saw `fresh`
   evaluates it. *)
Valid(r, fresh) == requests[r].status = "approved" /\ r \in fresh

(* authorizationLookupPredicate: valid authorizations that use a token. *)
Holders(t, fresh) == {r \in Requests : Valid(r, fresh) /\ requests[r].token = t}

(* A valid authorization of the supplier that still has its credential. *)
HasValid(s, fresh, table) ==
  \E r \in fresh : /\ SupplierOf[r] = s /\ table[r].status = "approved"
                   /\ table[r].token # NoToken

---------------------------------------------------------------------------
(* rehydrateSupplier: the aggregate the events describe. *)

Happened(s, type) == \E e \in log[s] : e.type = type
Recorded(s, r) == \E e \in log[s] : e.type = "authorization" /\ e.req = r
RevokedInLog(s, r) == \E e \in log[s] : e.type = "revoked" /\ e.req = r
LogVersion(s) == Cardinality(log[s])
Event(v, type, r) == [version |-> v, type |-> type, req |-> r]

(* Verifications carry the valid_until of the request that brought them. *)
VerificationsCurrent(s, fresh) ==
  \A e \in log[s] : e.type = "verification" => e.req \in fresh

(* buildApprovalEvents: missing verifications, the authorization and, for a
   supplier not yet active, its activation. *)
ApprovalEvents(s, r) ==
  LET v == LogVersion(s)
      n == IF Happened(s, "verification") THEN 0 ELSE Verifications IN
  {Event(v + i, "verification", r) : i \in 1..n}
  \cup {Event(v + n + 1, "authorization", r)}
  \cup (IF Happened(s, "activated") THEN {} ELSE {Event(v + n + 2, "activated", r)})

(* guardedReviewEventInsert does not ignore a conflict: an event whose version
   is taken, idx_marketplace_events_aggregate_version, aborts the batch. *)
Clash(s, events) == \E e \in events, f \in log[s] : e.version = f.version

(* The guarded inserts, in a batch whose rows have taken the new state. *)
Appended(s, events) == [log EXCEPT ![s] = @ \cup events]

---------------------------------------------------------------------------
(* registerSupplierProfile and submitAuthorizationRequest.  A request is
   named by the command that submits it: its idempotency key is unique. *)

RegisterSupplierProfile(s) ==
  /\ suppliers[s].status = "none"
  /\ suppliers' = [suppliers EXCEPT ![s] =
       [status |-> "pending-verification", version |-> 1, enabled |-> FALSE]]
  /\ log' = [log EXCEPT ![s] = {Event(1, "registered", NoCommand)}]
  /\ UNCHANGED <<requests, offers, keys, calls, switches, rewraps>>

SubmitAuthorizationRequest(r, t) ==
  /\ requests[r].status = "none"
  /\ suppliers[SupplierOf[r]].status # "none"
  /\ requests' = [requests EXCEPT ![r].status = "pending", ![r].token = t]
  /\ UNCHANGED <<suppliers, log, offers, keys, calls, switches, rewraps>>

---------------------------------------------------------------------------
(* reviewAuthorization *)

(* A success is kept, to be compared with the rows; after a refusal the
   caller may try again. *)
Ended(h, c, r, what, ok) ==
  calls' = [calls EXCEPT ![h] =
    IF ok THEN [IdleCall EXCEPT !.phase = "ok", !.cmd = c, !.req = r, !.what = what]
    ELSE IdleCall]
End(h, ok) == Ended(h, calls[h].cmd, calls[h].req, calls[h].what, ok)

(* Mutant: any review of the kind will do. *)
ReviewedByAnyone(c, r, d) ==
  requests[r].status = (IF d = "approve" THEN "approved" ELSE "rejected")

Reviewed(c, r, d) ==
  /\ requests[r].status = (IF d = "approve" THEN "approved" ELSE "rejected")
  /\ requests[r].by = c

(* The command is already bound: it is answered from the row. *)
ReplayReview(h, c, r, d) ==
  /\ calls[h].phase = "idle"
  /\ requests[r].status # "none"
  /\ reviewBound[c] # Unbound
  /\ Ended(h, c, r, d, reviewBound[c] = <<r, d>> /\ Reviewed(c, r, d))
  /\ UNCHANGED <<tables, keys, switches, rewraps>>

BeginReview(h, c, r, d) ==
  /\ calls[h].phase = "idle"
  /\ requests[r].status = "pending" /\ reviewBound[c] = Unbound
  /\ d = "approve" => /\ requests[r].token # NoToken /\ ~requests[r].expired
                      /\ Cardinality(Holders(requests[r].token, Fresh)) < PerToken
  /\ calls' = [calls EXCEPT ![h] =
       [IdleCall EXCEPT !.phase = IF d = "approve" THEN "build" ELSE "commit",
                        !.cmd = c, !.req = r, !.what = d, !.token = requests[r].token,
                        !.fresh = Fresh]]
  /\ UNCHANGED <<tables, keys, switches, rewraps>>

(* After the attestation.  The log is read twice; an approval that sees it
   move in between gives up. *)
BuildApproval(h) ==
  LET r == calls[h].req
      s == SupplierOf[r] IN
  /\ calls[h].phase = "build"
  /\ ~Recorded(s, r)
  /\ calls' = [calls EXCEPT ![h].phase = "commit", ![h].version = LogVersion(s),
                            ![h].events = ApprovalEvents(s, r)]
  /\ UNCHANGED <<tables, keys, switches, rewraps>>

(* Mutant: a request that is no longer pending may be claimed. *)
MayClaimEnded(h) ==
  LET x == calls[h] IN
  /\ requests[x.req].by = NoCommand /\ reviewClaim[x.req] = NoHandler
  /\ reviewBound[x.cmd] \in {Unbound, <<x.req, x.what>>}
  /\ x.what = "approve" => Cardinality(Holders(x.token, x.fresh)) < PerToken

(* Mutant: the limit is only compared before the batch. *)
MayClaimUnlimited(h) ==
  LET x == calls[h] IN
  /\ requests[x.req].status = "pending" /\ requests[x.req].by = NoCommand
  /\ reviewClaim[x.req] = NoHandler
  /\ reviewBound[x.cmd] \in {Unbound, <<x.req, x.what>>}

(* CLAIM_AUTHORIZATION_REVIEW_TARGET_SQL, with the lookup limit for an
   approval. *)
MayClaimReview(h) ==
  LET x == calls[h] IN
  /\ requests[x.req].status = "pending" /\ requests[x.req].by = NoCommand
  /\ reviewClaim[x.req] = NoHandler
  /\ reviewBound[x.cmd] \in {Unbound, <<x.req, x.what>>}
  /\ x.what = "approve" => Cardinality(Holders(x.token, x.fresh)) < PerToken


(* The claim and the binding of the command, first in both batches. *)
ClaimReview(h) ==
  /\ reviewClaim' = IF MayClaimReview(h) THEN [reviewClaim EXCEPT ![calls[h].req] = h]
                    ELSE reviewClaim
  /\ reviewBound' = IF MayClaimReview(h) /\ reviewBound[calls[h].cmd] = Unbound
                    THEN [reviewBound EXCEPT ![calls[h].cmd] = <<calls[h].req, calls[h].what>>]
                    ELSE reviewBound
  /\ UNCHANGED <<cycleClaims, cycleBound, offerBound, supplyBound>>

CommitRejection(h) ==
  LET x == calls[h] IN
  /\ x.phase = "commit" /\ x.what = "reject"
  /\ ClaimReview(h)
  /\ requests' = IF MayClaimReview(h)
                 THEN [requests EXCEPT ![x.req].status = "rejected", ![x.req].by = x.cmd,
                                       ![x.req].token = NoToken]
                 ELSE requests
  /\ calls' = [calls EXCEPT ![h].phase = "verify"]
  /\ UNCHANGED <<suppliers, log, offers, switches, rewraps>>

(* APPROVE_AUTHORIZATION_REQUEST_SQL repeats the supplier version, which the
   claim before it does not. *)
CommitApproval(h) ==
  LET x == calls[h]
      s == SupplierOf[x.req]
      approved == MayClaimReview(h) /\ suppliers[s].version = x.version IN
  /\ x.phase = "commit" /\ x.what = "approve"
  /\ ~(approved /\ Clash(s, x.events))
  /\ ClaimReview(h)
  /\ IF approved
     THEN /\ requests' = [requests EXCEPT ![x.req].status = "approved", ![x.req].by = x.cmd]
          /\ suppliers' = [suppliers EXCEPT ![s].status = "active",
                                            ![s].version = @ + Cardinality(x.events)]
          /\ log' = Appended(s, x.events)
     ELSE UNCHANGED <<requests, suppliers, log>>
  /\ calls' = [calls EXCEPT ![h].phase = "verify"]
  /\ UNCHANGED <<offers, switches, rewraps>>

(* The row is read again; an approval also wants the version it wrote. *)
VerifyReview(h) ==
  LET x == calls[h] IN
  /\ x.phase = "verify"
  /\ End(h, /\ Reviewed(x.cmd, x.req, x.what)
            /\ x.what = "approve" =>
                 suppliers[SupplierOf[x.req]].version = x.version + Cardinality(x.events))
  /\ UNCHANGED <<tables, keys, switches, rewraps>>

---------------------------------------------------------------------------
(* Lifecycle commands of the owner claim `requestId:revision`. *)

(* CLAIM_AUTHORIZATION_LIFECYCLE_TARGET_SQL, INSERT OR IGNORE. *)
MayClaimCycle(h, payload) ==
  LET x == calls[h] IN
  /\ requests[x.req].rev = x.rev
  /\ suppliers[SupplierOf[x.req]].version = x.version
  /\ \A k \in cycleClaims : k.req # x.req \/ k.rev # x.rev
  /\ cycleBound[x.what][x.cmd] \in {Unbound, <<x.req, payload>>}

ClaimCycle(h, won, payload) ==
  LET x == calls[h] IN
  /\ cycleClaims' = IF won THEN cycleClaims \cup {[req |-> x.req, rev |-> x.rev, by |-> h]}
                    ELSE cycleClaims
  /\ cycleBound' = IF won THEN [cycleBound EXCEPT ![x.what][x.cmd] = <<x.req, payload>>]
                   ELSE cycleBound
  /\ UNCHANGED <<reviewClaim, reviewBound, offerBound, supplyBound>>

(* revokeAuthorization: a bound command is answered without looking at the
   row; the reason code, part of the binding, is left out. *)
ReplayRevocation(h, c, r) ==
  LET bound == IF cycleBound["withdraw"][c] # Unbound THEN cycleBound["withdraw"][c]
               ELSE cycleBound["revoke"][c] IN
  /\ calls[h].phase = "idle"
  /\ requests[r].status # "none"
  /\ bound # Unbound
  /\ Ended(h, c, r, "revoke", bound = <<r, NoToken>>)
  /\ UNCHANGED <<tables, keys, switches, rewraps>>

(* A revocation needs the log to be at the version of the row, and the
   authorization recorded and not revoked there. *)
RevocationAllowed(s, r) ==
  /\ Valid(r, Fresh)
  /\ LogVersion(s) = suppliers[s].version
  /\ Recorded(s, r) /\ ~RevokedInLog(s, r)

BeginRevocation(h, c, r) ==
  LET s == SupplierOf[r] IN
  /\ calls[h].phase = "idle"
  /\ \A o \in {"withdraw", "revoke"} : cycleBound[o][c] = Unbound
  /\ requests[r].status = "pending" \/ RevocationAllowed(s, r)
  /\ calls' = [calls EXCEPT ![h] =
       [IdleCall EXCEPT !.phase = "commit", !.cmd = c, !.req = r,
                        !.what = IF requests[r].status = "pending" THEN "withdraw" ELSE "revoke",
                        !.rev = requests[r].rev, !.version = suppliers[s].version,
                        !.events = IF requests[r].status = "pending" THEN {}
                                   ELSE {Event(suppliers[s].version + 1, "revoked", r)},
                        !.fresh = Fresh]]
  /\ UNCHANGED <<tables, keys, switches, rewraps>>

Withdrawn(r, status) ==
  [requests EXCEPT ![r].status = status, ![r].rev = @ + 1, ![r].token = NoToken]

CommitWithdrawal(h) ==
  LET x == calls[h]
      won == requests[x.req].status = "pending" /\ MayClaimCycle(h, NoToken) IN
  /\ x.phase = "commit" /\ x.what = "withdraw"
  /\ ClaimCycle(h, won, NoToken)
  /\ requests' = IF won THEN Withdrawn(x.req, "withdrawn") ELSE requests
  /\ calls' = [calls EXCEPT ![h].phase = "verify"]
  /\ UNCHANGED <<suppliers, log, offers, switches, rewraps>>

(* Mutant: the revocation event gets no version of its own. *)
SupplierSameVersion(s, fresh, after) ==
  [suppliers EXCEPT ![s].enabled = @ /\ HasValid(s, fresh, after)]

(* UPDATE_SUPPLIER_AFTER_AUTHORIZATION_REVOCATION_SQL switches the supply off
   when no other authorization is valid. *)
SupplierAfterRevocation(s, fresh, after) ==
  [suppliers EXCEPT ![s].version = @ + 1, ![s].enabled = @ /\ HasValid(s, fresh, after)]

CommitRevocation(h) ==
  LET x == calls[h]
      s == SupplierOf[x.req]
      after == Withdrawn(x.req, "revoked")
      won == requests[x.req].status = "approved" /\ MayClaimCycle(h, NoToken) IN
  /\ x.phase = "commit" /\ x.what = "revoke"
  /\ ~(won /\ Clash(s, x.events))
  /\ ClaimCycle(h, won, NoToken)
  /\ IF won
     THEN /\ requests' = after
          /\ suppliers' = SupplierAfterRevocation(s, x.fresh, after)
          /\ log' = Appended(s, x.events)
     ELSE UNCHANGED <<requests, suppliers, log>>
  /\ calls' = [calls EXCEPT ![h].phase = "verify"]
  /\ UNCHANGED <<offers, switches, rewraps>>

VerifyRevocation(h) ==
  LET x == calls[h]
      row == requests[x.req] IN
  /\ x.phase = "verify"
  /\ End(h, /\ row.status = (IF x.what = "withdraw" THEN "withdrawn" ELSE "revoked")
            /\ row.rev = x.rev + 1 /\ row.token = NoToken
            /\ cycleBound[x.what][x.cmd] = <<x.req, NoToken>>
            /\ x.what = "revoke" =>
                 suppliers[SupplierOf[x.req]].version = x.version + 1)
  /\ UNCHANGED <<tables, keys, switches, rewraps>>

---------------------------------------------------------------------------
(* rotateAuthorizationCredential *)

ReplayRotation(h, c, r, t) ==
  /\ calls[h].phase = "idle"
  /\ requests[r].status # "none"
  /\ cycleBound["rotate"][c] # Unbound
  /\ Ended(h, c, r, "rotate", cycleBound["rotate"][c] = <<r, t>>)
  /\ UNCHANGED <<tables, keys, switches, rewraps>>

BeginRotation(h, c, r, t) ==
  /\ calls[h].phase = "idle"
  /\ cycleBound["rotate"][c] = Unbound
  /\ Valid(r, Fresh) /\ requests[r].token \notin {NoToken, t}
  /\ calls' = [calls EXCEPT ![h] =
       [IdleCall EXCEPT !.phase = "commit", !.cmd = c, !.req = r, !.what = "rotate",
                        !.token = t, !.rev = requests[r].rev, !.gen = requests[r].gen,
                        !.version = suppliers[SupplierOf[r]].version, !.fresh = Fresh]]
  /\ UNCHANGED <<tables, keys, switches, rewraps>>

(* No other supplier holds the new token, and the per-token limit has room. *)
TokenFree(x) ==
  LET others == Holders(x.token, x.fresh) \ {x.req} IN
  /\ \A q \in others : SupplierOf[q] = SupplierOf[x.req]
  /\ Cardinality(others) < PerToken

(* The exact ciphertext that was read: all scrubbed rows share one. *)
SameCiphertext(x) == requests[x.req].gen = x.gen /\ requests[x.req].token # NoToken

MayRotate(h) ==
  LET x == calls[h] IN
  Valid(x.req, x.fresh) /\ SameCiphertext(x) /\ TokenFree(x) /\ MayClaimCycle(h, x.token)

CommitRotation(h) ==
  LET x == calls[h] IN
  /\ x.phase = "commit" /\ x.what = "rotate"
  /\ ClaimCycle(h, MayRotate(h), x.token)
  /\ requests' = IF MayRotate(h)
                 THEN [requests EXCEPT ![x.req].token = x.token, ![x.req].gen = x.cmd,
                                       ![x.req].rev = @ + 1]
                 ELSE requests
  /\ calls' = [calls EXCEPT ![h].phase = "verify"]
  /\ UNCHANGED <<suppliers, log, offers, switches, rewraps>>

VerifyRotation(h) ==
  LET x == calls[h]
      row == requests[x.req] IN
  /\ x.phase = "verify"
  /\ End(h, /\ row.status = "approved" /\ row.rev = x.rev + 1 /\ row.token = x.token
            /\ cycleBound["rotate"][x.cmd] = <<x.req, x.token>>)
  /\ UNCHANGED <<tables, keys, switches, rewraps>>

---------------------------------------------------------------------------
(* createCapacityOffer *)

ReplayOffer(h, c, r) ==
  /\ calls[h].phase = "idle"
  /\ offerBound[c] # Unbound
  /\ Ended(h, c, r, "publish", offerBound[c] = <<r>>)
  /\ UNCHANGED <<tables, keys, switches, rewraps>>

(* publishCapacityOffer decides from the log: an active supplier with current
   verifications and an active authorization. *)
OfferAllowed(s, r) ==
  /\ Happened(s, "activated") /\ VerificationsCurrent(s, Fresh)
  /\ Recorded(s, r) /\ ~RevokedInLog(s, r) /\ r \in Fresh

BeginOffer(h, c, r) ==
  LET s == SupplierOf[r] IN
  /\ calls[h].phase = "idle"
  /\ offerBound[c] = Unbound
  /\ requests[r].status = "approved" /\ OfferAllowed(s, r)
  /\ calls' = [calls EXCEPT ![h] =
       [IdleCall EXCEPT !.phase = "commit", !.cmd = c, !.req = r,
                        !.rev = requests[r].rev, !.version = suppliers[s].version,
                        !.fresh = Fresh]]
  /\ UNCHANGED <<tables, keys, switches, rewraps>>


(* CREATE_CAPACITY_OFFER_WITH_AUTHORIZATION_CAS_SQL *)
MayPublish(h) ==
  LET x == calls[h]
      s == suppliers[SupplierOf[x.req]] IN
  /\ Valid(x.req, x.fresh) /\ requests[x.req].rev = x.rev
  /\ requests[x.req].token # NoToken
  /\ s.version = x.version /\ s.status = "active"
  /\ offerBound[x.cmd] = Unbound

CommitOffer(h) ==
  LET x == calls[h] IN
  /\ x.phase = "commit"
  /\ IF MayPublish(h)
     THEN /\ offers' = offers \cup {[by |-> x.cmd, req |-> x.req]}
          /\ offerBound' = [offerBound EXCEPT ![x.cmd] = <<x.req>>]
     ELSE UNCHANGED <<offers, offerBound>>
  /\ calls' = [calls EXCEPT ![h].phase = "verify"]
  /\ UNCHANGED <<suppliers, log, requests, reviewClaim, reviewBound, cycleClaims, cycleBound,
                 supplyBound, switches, rewraps>>

VerifyOffer(h) ==
  /\ calls[h].phase = "verify"
  /\ End(h, offerBound[calls[h].cmd] = <<calls[h].req>>)
  /\ UNCHANGED <<tables, keys, switches, rewraps>>

(* A domain check, the attestation, the rate limit or a batch throws, or the
   isolate goes away; the caller may send the command again. *)
LoseCall(h) ==
  /\ calls[h].phase \in {"build", "commit", "verify"}
  /\ calls' = [calls EXCEPT ![h] = IdleCall]
  /\ UNCHANGED <<tables, keys, switches, rewraps>>

---------------------------------------------------------------------------
(* setSupplyState.  The key records the command, whatever it asks for. *)

SwitchEnded(h) == switches' = [switches EXCEPT ![h] = IdleSwitch]

(* A command that is bound already is answered without a change. *)
BeginSwitch(h, c, s, on) ==
  /\ switches[h].phase = "idle"
  /\ supplyBound[c] = Unbound
  /\ suppliers[s].status # "none" /\ (on => suppliers[s].status = "active")
  /\ switches' = [switches EXCEPT ![h] = [phase |-> "commit", cmd |-> c, sup |-> s, on |-> on,
                                          fresh |-> Fresh]]
  /\ UNCHANGED <<tables, keys, calls, rewraps>>

(* Mutant: the UPDATE does not look for a valid authorization. *)
SwitchUnchecked(h) ==
  LET x == switches[h] IN
  /\ x.phase = "commit" /\ supplyBound[x.cmd] = Unbound
  /\ suppliers' = [suppliers EXCEPT ![x.sup].enabled = x.on]
  /\ supplyBound' = [supplyBound EXCEPT ![x.cmd] = <<x.sup>>]
  /\ SwitchEnded(h)
  /\ UNCHANGED <<log, requests, offers, reviewClaim, reviewBound, cycleClaims, cycleBound,
                 offerBound, calls, rewraps>>

(* The key is written when the switch is where the command wants it, even if
   the UPDATE changed nothing; a second key aborts the batch. *)
CommitSwitch(h) ==
  LET x == switches[h]
      may == ~x.on \/ HasValid(x.sup, x.fresh, requests)
      now == IF may THEN x.on ELSE suppliers[x.sup].enabled IN
  /\ x.phase = "commit"
  /\ now = x.on => supplyBound[x.cmd] = Unbound
  /\ suppliers' = [suppliers EXCEPT ![x.sup].enabled = now]
  /\ supplyBound' = IF now = x.on THEN [supplyBound EXCEPT ![x.cmd] = <<x.sup>>] ELSE supplyBound
  /\ SwitchEnded(h)
  /\ UNCHANGED <<log, requests, offers, reviewClaim, reviewBound, cycleClaims, cycleBound,
                 offerBound, calls, rewraps>>

LoseSwitch(h) ==
  /\ switches[h].phase = "commit"
  /\ SwitchEnded(h)
  /\ UNCHANGED <<tables, keys, calls, rewraps>>

---------------------------------------------------------------------------
(* rotateCredentialEncryptions: some credentials are read, decrypted and
   encrypted again with the active key. *)

ReadCredentials(h) ==
  /\ rewraps[h].phase = "idle"
  /\ \E R \in SUBSET {r \in Requests : requests[r].token # NoToken} :
       /\ R # {}
       /\ rewraps' = [rewraps EXCEPT ![h] =
            [phase |-> "commit",
             rows |-> {[req |-> r, gen |-> requests[r].gen, token |-> requests[r].token] :
                         r \in R}]]
  /\ UNCHANGED <<tables, keys, calls, switches>>

(* Mutant: the ciphertext is written back whatever the row holds now. *)
RewrappedAnyway(row, g, h) == [row EXCEPT !.gen = h, !.token = g.token]

(* REWRAP_AUTHORIZATION_CREDENTIAL_SQL replaces the exact ciphertext read. *)
Rewrapped(row, g, h) ==
  IF row.token # NoToken /\ row.gen = g.gen
  THEN [row EXCEPT !.gen = h, !.token = g.token] ELSE row

RewrapCredentials(h) ==
  /\ rewraps[h].phase = "commit"
  /\ requests' = [r \in Requests |->
       LET read == {g \in rewraps[h].rows : g.req = r} IN
       IF read = {} THEN requests[r]
       ELSE Rewrapped(requests[r], CHOOSE g \in read : TRUE, h)]
  /\ rewraps' = [rewraps EXCEPT ![h] = [phase |-> "done", rows |-> {}]]
  /\ UNCHANGED <<suppliers, log, offers, keys, calls, switches>>

LoseRewrap(h) ==
  /\ rewraps[h].phase = "commit"
  /\ rewraps' = [rewraps EXCEPT ![h] = [phase |-> "idle", rows |-> {}]]
  /\ UNCHANGED <<tables, keys, calls, switches>>

---------------------------------------------------------------------------
(* runMaintenance and the clock. *)

(* Mutant: the credential of an expired authorization stays. *)
MaintainedKeeping(row) ==
  LET lapsed == row.status = "pending" /\ (row.aged \/ row.expired) IN
  [row EXCEPT !.status = IF lapsed THEN "rejected" ELSE @,
              !.token = IF lapsed \/ row.status \in {"withdrawn", "revoked"}
                        THEN NoToken ELSE @]

(* EXPIRE_PENDING_AUTHORIZATIONS_SQL, then the two statements that erase the
   credentials of expired, withdrawn and revoked requests. *)
Maintained(row) ==
  LET lapsed == row.status = "pending" /\ (row.aged \/ row.expired) IN
  [row EXCEPT !.status = IF lapsed THEN "rejected" ELSE @,
              !.token = IF lapsed \/ row.expired \/ row.status \in {"withdrawn", "revoked"}
                        THEN NoToken ELSE @]

Maintain ==
  /\ requests' = [r \in Requests |-> Maintained(requests[r])]
  /\ requests' # requests
  /\ UNCHANGED <<suppliers, log, offers, keys, calls, switches, rewraps>>

(* valid_until <= now *)
ValidityPasses(r) ==
  /\ requests[r].status # "none" /\ ~requests[r].expired
  /\ requests' = [requests EXCEPT ![r].expired = TRUE]
  /\ UNCHANGED <<suppliers, log, offers, keys, calls, switches, rewraps>>

(* created_at is seven days ago. *)
PendingAges(r) ==
  /\ requests[r].status = "pending" /\ ~requests[r].aged
  /\ requests' = [requests EXCEPT ![r].aged = TRUE]
  /\ UNCHANGED <<suppliers, log, offers, keys, calls, switches, rewraps>>

Review(h) ==
  \/ \E c \in KeysOf[h], r \in Requests, d \in Decisions :
       ReplayReview(h, c, r, d) \/ BeginReview(h, c, r, d)
  \/ BuildApproval(h) \/ CommitApproval(h) \/ CommitRejection(h) \/ VerifyReview(h)

Revoke(h) ==
  \/ \E c \in KeysOf[h], r \in Requests : ReplayRevocation(h, c, r) \/ BeginRevocation(h, c, r)
  \/ CommitWithdrawal(h) \/ CommitRevocation(h) \/ VerifyRevocation(h)

Rotate(h) ==
  \/ \E c \in KeysOf[h], r \in Requests, t \in Tokens :
       ReplayRotation(h, c, r, t) \/ BeginRotation(h, c, r, t)
  \/ CommitRotation(h) \/ VerifyRotation(h)

Publish(h) ==
  \/ \E c \in KeysOf[h], r \in Requests : ReplayOffer(h, c, r) \/ BeginOffer(h, c, r)
  \/ CommitOffer(h) \/ VerifyOffer(h)

Switch(h) ==
  \/ \E c \in KeysOf[h], s \in Suppliers, on \in BOOLEAN :
       BeginSwitch(h, c, s, on)
  \/ CommitSwitch(h) \/ LoseSwitch(h)

Next ==
  \/ \E s \in Suppliers : RegisterSupplierProfile(s)
  \/ \E r \in Requests, t \in Tokens : SubmitAuthorizationRequest(r, t)
  \/ \E h \in Reviewers : Review(h)
  \/ \E h \in Revokers : Revoke(h)
  \/ \E h \in Rotators : Rotate(h)
  \/ \E h \in Publishers : Publish(h)
  \/ \E h \in Callers : LoseCall(h)
  \/ \E h \in Switchers : Switch(h)
  \/ \E h \in Rewrappers : ReadCredentials(h) \/ RewrapCredentials(h) \/ LoseRewrap(h)
  \/ Maintain
  \/ \E r \in Expiring : ValidityPasses(r) \/ PendingAges(r)

Spec == Init /\ [][Next]_vars

(* Validity and age pass, and the scheduled maintenance keeps running. *)
Fairness ==
  /\ \A r \in Expiring : WF_vars(ValidityPasses(r)) /\ WF_vars(PendingAges(r))
  /\ WF_vars(Maintain)

FairSpec == Spec /\ Fairness

---------------------------------------------------------------------------
(* Properties. *)

(* Every variable holds rows of its table. *)
LifecycleTypeOK ==
  /\ suppliers \in [Suppliers -> SupplierRow]
  /\ \A s \in Suppliers : log[s] \subseteq EventRow
  /\ requests \in [Requests -> RequestRow]
  /\ offers \subseteq OfferRow
  /\ reviewClaim \in [Requests -> Reviewers \cup {NoHandler}]
  /\ calls \in [Callers -> CallRow]
  /\ switches \in [Switchers -> SwitchRow]
  /\ rewraps \in [Rewrappers -> RewrapRow]

(* The rows are what the append-only log says: the versions of a supplier's
   events are 1 to its version without gap or repetition, it is active iff the
   log activated it, and an authorization is approved iff the log records it
   unrevoked and revoked iff the log revoked it.  rehydrateSupplier throws on
   any history that breaks this, and the supplier is stuck. *)
LogMatchesRows ==
  /\ \A s \in Suppliers :
       /\ {e.version : e \in log[s]} = 1..suppliers[s].version
       /\ LogVersion(s) = suppliers[s].version
       /\ Happened(s, "activated") <=> suppliers[s].status = "active"
  /\ \A r \in Requests :
       LET s == SupplierOf[r] IN
       /\ Recorded(s, r) <=> requests[r].status \in {"approved", "revoked"}
       /\ RevokedInLog(s, r) <=> requests[r].status = "revoked"

(* A rejected, withdrawn or revoked authorization holds no credential: not
   even a re-encryption or rotation that read it earlier brings it back
   (ADR 0010, credential-rotation-invariants.ts). *)
EndedHoldsNoCredential ==
  \A r \in Requests :
    requests[r].status \in {"rejected", "withdrawn", "revoked"} => requests[r].token = NoToken

(* withdrawn, revoked and rejected are final; the revision never goes back,
   and another token or an ended authorization always means a new one, so a
   reservation made under a revision was made with its credential. *)
RevisionsTellGenerations ==
  [][\A r \in Requests :
       LET old == requests[r]
           new == requests'[r] IN
       /\ old.status \in {"rejected", "withdrawn", "revoked"} => new.status = old.status
       /\ new.rev \in {old.rev, old.rev + 1}
       /\ (\/ new.status \in {"withdrawn", "revoked"} /\ old.status # new.status
           \/ old.status = "approved" /\ new.token \notin {old.token, NoToken})
          => new.rev = old.rev + 1]_vars

(* A success is never reported to a loser: the review a handler confirmed
   was made by its command, a confirmed revocation ended the authorization,
   a confirmed rotation moved the revision on, a confirmed offer exists. *)
RepliesAreTrue ==
  \A h \in Callers : calls[h].phase = "ok" =>
    LET x == calls[h]
        row == requests[x.req] IN
    CASE x.what = "approve" -> row.by = x.cmd /\ row.status \in {"approved", "revoked"}
      [] x.what = "reject" -> row.by = x.cmd /\ row.status = "rejected"
      [] x.what \in {"withdraw", "revoke"} -> row.status \in {"withdrawn", "revoked"}
      [] x.what = "rotate" -> row.rev > 1 /\ row.status \in {"approved", "revoked"}
      [] OTHER -> \E o \in offers : o.req = x.req

(* No token ever authenticates more current authorizations than the limit,
   however approvals and rotations interleave. *)
TokenLimitHolds ==
  \A t \in Tokens : Cardinality(Holders(t, Fresh)) <= PerToken


(* Supply never stays on after the last authorization was revoked. *)
SupplyNeedsAuthorization ==
  \A s \in Suppliers : suppliers[s].enabled =>
    \E r \in Requests : SupplierOf[r] = s /\ requests[r].status = "approved"


(* No credential stays stored: whatever its authorization goes through, the
   statements that end it or the maintenance after its expiry erase it. *)
CredentialsErased ==
  \A r \in Requests : requests[r].token # NoToken ~> requests[r].token = NoToken

(* What the agent authentication takes for granted, "Agent 凭据错误地绑定了
   多个供应主体" being its internal error: the current authorizations that
   share a token belong to one supplier. *)
TokenNamesOneSupplier ==
  \A t \in Tokens : \A q, r \in Holders(t, Fresh) : SupplierOf[q] = SupplierOf[r]

(* What a review answers when its batch changed nothing: "授权申请已被其他审核
   操作处理", another review has dealt with the request.  A claimed request
   is decided. *)
ClaimedIsDecided ==
  \A r \in Requests : reviewClaim[r] # NoHandler => requests[r].status # "pending"
=============================================================================
