--------------------------- MODULE MCQueueService ---------------------------
(* Instance of QueueService for TLC. *)
EXTENDS QueueService

\* Sequence numbers 1, 4, ... are skipped payloads; two inventory tables.
MCKind == [s \in 1 .. MaxSequence |-> (s + 2) % 3]
=============================================================================
