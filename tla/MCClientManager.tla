-------------------------- MODULE MCClientManager --------------------------
(* Room for two clients, three hosts and three callers: an entry can be    *)
(* evicted between its lookup and its move to the front, and its host be   *)
(* cached again by then.                                                   *)
EXTENDS ClientManager, TLC

Interchangeable == Permutations(Caller) \cup Permutations(Host)
=============================================================================
