----------------------------- MODULE OrderedStream -----------------------------
(***************************************************************************)
(* What a streaming result promises to its reader: the rows of the query   *)
(* in their order, one chunk after the other; the result is exhausted only *)
(* when all of them were handed out, otherwise it is closed or it fails.   *)
(***************************************************************************)
EXTENDS Naturals, Sequences

VARIABLES expected,  \* the chunks of the result, in order
          delivered, \* the chunks handed to the reader
          outcome    \* "open", "exhausted", "failed", "closed"

vars == <<expected, delivered, outcome>>

Init ==
  /\ expected \in Seq(Nat \X Nat)
  /\ delivered = <<>> /\ outcome = "open"

Deliver ==
  /\ outcome = "open"
  /\ Len(delivered) < Len(expected)
  /\ delivered' = Append(delivered, expected[Len(delivered) + 1])
  /\ outcome' \in {"open", "failed"}
  /\ UNCHANGED expected

Exhaust ==
  /\ outcome = "open" /\ delivered = expected
  /\ outcome' = "exhausted"
  /\ UNCHANGED <<expected, delivered>>

Stop ==
  /\ outcome = "open"
  /\ outcome' \in {"failed", "closed"}
  /\ UNCHANGED <<expected, delivered>>

Next == Deliver \/ Exhaust \/ Stop

Spec == Init /\ [][Next]_vars
=============================================================================
