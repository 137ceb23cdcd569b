---------------------------- MODULE MCAuthorization ----------------------------
(* Instances of AuthorizationLifecycle for TLC. *)
EXTENDS AuthorizationLifecycle, TLC

CONSTANTS r1, r2, s1, s2, c1, c2, v2, o1

(* Both requests of one supplier, or one of each of two. *)
Shared == [r \in Requests |-> s1]
Apart == [r \in Requests |-> IF r = r1 THEN s1 ELSE s2]

(* Any command for any handler; or one command for everyone, and a second
   one for a reviewer and a rotator. *)
AllKeys == [h \in Callers \cup Switchers |-> Commands]
OneKey == [h \in Callers \cup Switchers |-> IF h \in {v2, o1} THEN {c1, c2} ELSE {c1}]

(* Tokens, and the requests of one supplier, are interchangeable. *)
Symmetry == Permutations(Tokens) \cup Permutations(Requests)
=============================================================================
