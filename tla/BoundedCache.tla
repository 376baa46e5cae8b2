---------------------------- MODULE BoundedCache ----------------------------
(***************************************************************************)
(* What interfaces.Cache promises its users, whatever the policy: a map of *)
(* at most Capacity keys.  A Set that finds the map full drops one other   *)
(* key; nothing else drops a key but Delete and Flush; Get answers with    *)
(* what was last Set.  internal/cache uses the cache through this promise. *)
(***************************************************************************)
EXTENDS Naturals, FiniteSets

CONSTANTS Keys, Values, Capacity, None, Refused

VARIABLES store, reply

boundedVars == <<store, reply>>

Present(m) == {k \in DOMAIN m : m[k] # None}

EmptyMap == [k \in Keys |-> None]

\* Every map that a Set of k to v may leave.
AfterSet(m, k, v) ==
  IF m[k] # None \/ Cardinality(Present(m)) < Capacity
  THEN {[m EXCEPT ![k] = v]}
  ELSE {[m EXCEPT ![e] = None, ![k] = v] : e \in Present(m)}

BoundedInit == store = EmptyMap /\ reply = None

BoundedSet(k, v) == store' \in AfterSet(store, k, v) /\ reply' = None

BoundedGet(k) == reply' = store[k] /\ UNCHANGED store

\* Delete of an absent key is refused with an error.
BoundedDelete(k) ==
  /\ store' = [store EXCEPT ![k] = None]
  /\ reply' = IF store[k] = None THEN Refused ELSE None

BoundedFlush == store' = EmptyMap /\ reply' = None

BoundedNext ==
  \/ \E k \in Keys, v \in Values : BoundedSet(k, v)
  \/ \E k \in Keys : BoundedGet(k) \/ BoundedDelete(k)
  \/ BoundedFlush

BoundedSpec == BoundedInit /\ [][BoundedNext]_boundedVars
=============================================================================
