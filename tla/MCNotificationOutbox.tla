------------------------ MODULE MCNotificationOutbox ------------------------
(* Small instances of the outbox pipeline for TLC. *)
EXTENDS NotificationOutbox, TLC

\* Send workers are interchangeable.
SenderSymmetry == Permutations(Senders)
=============================================================================
