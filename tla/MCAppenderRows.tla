---------------------------- MODULE MCAppenderRows ----------------------------
(***************************************************************************)
(* AppenderRows for TLC: the table                                         *)
(*   (s STRUCT(x, u UNION(p, q STRUCT(y))), a, b UNION(m, n)).             *)
(***************************************************************************)
EXTENDS AppenderRows

MCKind ==
  LET kind(c) == CASE c \in {<<1>>, <<1, 2, 3>>} -> "struct"
                   [] c \in {<<1, 2>>, <<3>>} -> "union"
                   [] c \in {<<1, 2, 1>>, <<3, 1>>} -> "tag"
                   [] OTHER -> "value"
  IN  [c \in { <<1>>, <<1, 1>>, <<1, 2>>, <<1, 2, 1>>, <<1, 2, 2>>, <<1, 2, 3>>,
               <<1, 2, 3, 1>>, <<2>>, <<3>>, <<3, 1>>, <<3, 2>>, <<3, 3>> } |-> kind(c)]

MCColumns == DOMAIN MCKind
MCTopLevel == { <<1>>, <<2>>, <<3>> }
MCField == { <<1, 1>> }
MCFaults == { "append", "flush" }
MCNone == {}
MCOwner == { "owner" }
=============================================================================
