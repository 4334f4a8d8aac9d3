--------------------------- MODULE MCBatchedStream ---------------------------
(* Instances of BatchedStream for TLC. *)
EXTENDS BatchedStream

\* A batch that the operators filter out, one of two chunks, one of one.
MCWorkloads == {<<0, 2, 1>>}
\* Many short batches.
MCShort == {<<1, 1, 1, 1, 1, 1, 1>>}
=============================================================================
