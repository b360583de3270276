--------------------------- MODULE MCBotWorkerPool ---------------------------
(* Small instances of BotWorkerPool. There is one name for a goroutine     *)
(* more than MaxWorkers, so that the model does not enforce the bound.     *)
EXTENDS BotWorkerPool
=============================================================================
