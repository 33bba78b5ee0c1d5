------------------------------ MODULE FileStore ------------------------------
(***************************************************************************)
(* What the storage service promises: each name holds nothing or one whole *)
(* body, which replaces nothing and stays as it is until it is removed.    *)
(***************************************************************************)
CONSTANTS Names, Bodies, None

VARIABLE store

StoreInit == store = [n \in Names |-> None]

\* An upload, or a removal that failed and is undone.
Publish(n) ==
  /\ store[n] = None
  /\ \E b \in Bodies : store' = [store EXCEPT ![n] = b]

Remove(n) == store[n] # None /\ store' = [store EXCEPT ![n] = None]

StoreSpec == StoreInit /\ [][\E n \in Names : Publish(n) \/ Remove(n)]_store
=============================================================================
