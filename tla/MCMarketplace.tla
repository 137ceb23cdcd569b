------------------------------ MODULE MCMarketplace ------------------------------
(* Two tenants; b supplies one offer behind one authorization, a buys. *)
EXTENDS Marketplace, TLC

CONSTANTS a, b, x, o

MCAuthTenant == [y \in Auths |-> b]
MCOfferAuth == [p \in Offers |-> x]
MCConcurrency == [p \in Offers |-> 1]
MCWorkerTenant == [w \in Workers |-> b]

Symmetry == Permutations(Jobs) \cup Permutations(Tasks) \cup Permutations(Workers)

=============================================================================
