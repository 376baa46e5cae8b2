----------------------------- MODULE OrderStore -----------------------------
(***************************************************************************)
(* What the cache manager may assume of OrderRepo.SaveOrder, without its   *)
(* tables, statements and connections: an order becomes visible at once or *)
(* not at all, the first order of an order_uid stays, and an answer without *)
(* error is evidence of success, an error of nothing.  The SaveOrder of    *)
(* OrderService is Commit or Abort here.                                   *)
(***************************************************************************)
CONSTANTS Uids, OrderSet, Uid(_), None, Ok, Error

VARIABLES
  store,   \* the order kept under each order_uid, or None
  saving,  \* the order being saved, or None
  answer   \* of the last SaveOrder: Ok, Error, or None before it returned

storeVars == <<store, saving, answer>>

StoreInit ==
  /\ store = [u \in Uids |-> None] /\ saving = None /\ answer = None

Save(o) == saving = None /\ saving' = o /\ answer' = None /\ UNCHANGED store

\* The order becomes visible and SaveOrder returns; a lost reply is an error.
Commit ==
  /\ saving # None
  /\ store' = [store EXCEPT ![Uid(saving)] = IF @ = None THEN saving ELSE @]
  /\ saving' = None
  /\ answer' \in {Ok, Error}

\* Refused, out of time, or the process is gone.
Abort == saving # None /\ saving' = None /\ answer' = Error /\ UNCHANGED store

StoreNext == (\E o \in OrderSet : Save(o)) \/ Commit \/ Abort

StoreSpec == StoreInit /\ [][StoreNext]_storeVars
=============================================================================
