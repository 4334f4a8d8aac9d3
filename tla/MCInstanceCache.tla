--------------------------- MODULE MCInstanceCache ---------------------------
(* Instances of InstanceCache for TLC: two threads, a file or a named       *)
(* in-memory database, and as many databases one after the other as it      *)
(* takes for a waiter to meet the third.                                    *)
EXTENDS InstanceCache
=============================================================================
