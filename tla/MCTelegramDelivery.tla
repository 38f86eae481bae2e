------------------------ MODULE MCTelegramDelivery ------------------------
(* Small instances of TelegramDelivery. *)
EXTENDS TelegramDelivery, TLC

\* The poller processes are interchangeable.
WorkerSymmetry == Permutations(Workers)
=============================================================================
