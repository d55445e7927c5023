---------------------------- MODULE MCMemoryWriter ----------------------------
(* MemoryWriter on small instances.                                        *)
EXTENDS MemoryWriter

\* A bound of the run with two memories and two embeddings: nobody updates.
NoUpdates == \A i \in DOMAIN queue : queue[i].op # "update"
=============================================================================
