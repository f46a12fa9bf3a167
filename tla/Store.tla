-------------------------------- MODULE Store --------------------------------
(***************************************************************************)
(* The key-value store of a module: a function whose domain is the set of  *)
(* keys that are present.  The store belongs to cosmos-sdk, which is not   *)
(* part of the repository; it is modelled from the way x/ uses it.         *)
(***************************************************************************)
EXTENDS Naturals, FiniteSets, Functions

\* A store with keys in Keys and values in Values.
IsStore(f, Keys, Values) ==
  DOMAIN f \subseteq Keys /\ f \in [DOMAIN f -> Values]

\* KVStore.Set and KVStore.Delete on a store that maps keys to values.
StoreSet(store, key, value) ==
  [k \in DOMAIN store \cup {key} |-> IF k = key THEN value ELSE store[k]]

StoreDelete(store, keys) == Restrict(store, DOMAIN store \ keys)
=============================================================================
