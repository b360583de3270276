------------------------------ MODULE MCDelivery ------------------------------
(* Two invocations and two webhooks, one of which is named twice by its    *)
(* list; queue, worker and overflow slot of one, so that four jobs exhaust *)
(* a pool and the slot, and the worker may retire while jobs wait.         *)
EXTENDS Delivery

CONSTANTS one, two

MCLists == {<<one, one>>, <<two>>}
=============================================================================
