------------------------------ MODULE MCNodeKeys ------------------------------
(* Instances of two components that share no state: the supplier node, and the
   keyrings of the control plane.  A behaviour is a behaviour of one of them,
   with the other at rest. *)
EXTENDS SupplierNode, KeyLifecycle, TLC

CONSTANTS k1, k2, m1, m2, m3

VARIABLE focus   \* the component that moves

NodeKeysInit ==
  /\ focus \in {"node", "keys"}
  /\ Init /\ KeyInit
  /\ focus = "node" => FreshDatabase

NodeKeysNext ==
  \/ focus = "node" /\ Next /\ UNCHANGED <<focus, keyVars>>
  \/ focus = "keys" /\ KeyNext /\ UNCHANGED <<focus, vars>>

NodeKeysSpec == NodeKeysInit /\ [][NodeKeysNext]_<<focus, vars, keyVars>>

(* A first manifest that stages the second key, two that make it active, with
   and without the first one, and one with the wrong material for it. *)
MCMaterial(x, y) == (k1 :> x) @@ (k2 :> y)
MCManifest(g, active, readable, staged, material) ==
  [gen |-> g, active |-> active, readable |-> readable, staged |-> staged, material |-> material]
MCCompat == MCManifest(0, k1, {k1}, {}, MCMaterial(m1, m2))
MCRecovery == MCMaterial(m1, m2)
MCManifests ==
  {MCManifest(1, k1, {k1}, {k2}, MCMaterial(m1, m2)),
   MCManifest(2, k2, {k1, k2}, {}, MCMaterial(m1, m2)),
   MCManifest(2, k2, {k2}, {}, MCMaterial(m1, m2)),
   MCManifest(3, k2, {k1, k2}, {}, MCMaterial(m1, m3))}

(* Calls, request ids and bodies of the node are interchangeable, and so are
   the handlers and the commands of the keyrings.  The components never meet,
   so that a configuration may give handlers and calls, and commands and
   request ids, the same names. *)
Symmetry == Permutations(Nonces) \cup Permutations(Ids) \cup Permutations(Bodies)
=============================================================================
