------------------------------ MODULE LruOrder ------------------------------
(***************************************************************************)
(* The least-recently-used policy, without pointers: every cached key with *)
(* its value and with the keys used since.  Set and a successful Get use a *)
(* key; a Set at full capacity drops the key since which all others have   *)
(* been used.                                                              *)
(***************************************************************************)
EXTENDS Naturals, FiniteSets

CONSTANTS Keys, Values, Capacity, None, Refused

VARIABLES
  values,  \* of every key, None where it is absent
  newer,   \* the keys used since a key was
  answer

orderVars == <<values, newer, answer>>

Present == {k \in Keys : values[k] # None}
Oldest  == {k \in Present : newer[k] = Present \ {k}}

OrderInit ==
  /\ values = [k \in Keys |-> None] /\ newer = [k \in Keys |-> {}]
  /\ answer = None

\* k is used, and the keys of `gone` leave.
Use(k, gone) ==
  newer' = [j \in Keys |-> IF j = k \/ j \in gone \/ j \notin Present THEN {}
                           ELSE (newer[j] \cup {k}) \ gone]

Dropped(k) == IF Cardinality(Present \ {k}) = Capacity THEN Oldest ELSE {}

OrderSet(k, v) ==
  /\ values' = [j \in Keys |-> IF j = k THEN v
                               ELSE IF j \in Dropped(k) THEN None ELSE values[j]]
  /\ Use(k, Dropped(k))
  /\ answer' = None

OrderGet(k) ==
  /\ IF k \in Present THEN Use(k, {}) ELSE UNCHANGED newer
  /\ answer' = values[k]
  /\ UNCHANGED values

OrderDelete(k) ==
  /\ values' = [values EXCEPT ![k] = None]
  /\ newer' = [j \in Keys |-> IF j = k THEN {} ELSE newer[j] \ {k}]
  /\ answer' = IF k \in Present THEN None ELSE Refused

OrderFlush ==
  /\ values' = [k \in Keys |-> None] /\ newer' = [k \in Keys |-> {}]
  /\ answer' = None

OrderNext ==
  \/ \E k \in Keys, v \in Values : OrderSet(k, v)
  \/ \E k \in Keys : OrderGet(k) \/ OrderDelete(k)
  \/ OrderFlush

OrderSpec == OrderInit /\ [][OrderNext]_orderVars
=============================================================================
