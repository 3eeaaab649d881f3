-------------------------- MODULE MCQueuedNotifier --------------------------
(* Instances of QueuedNotifier for TLC. *)
EXTENDS QueuedNotifier
=============================================================================
