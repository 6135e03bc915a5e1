----------------------------- MODULE MCResultSet -----------------------------
(***************************************************************************)
(* ResultSet for TLC: blocks of two, so that the arrays grow within the    *)
(* bounds; nodes of kinds whose widths differ, the longer ones wider, an   *)
(* empty one, and one character, q, that a literal shows as two.           *)
(***************************************************************************)
EXTENDS NodeDisplay, TLC

Node(kind, text, language, datatype) ==
  [kind |-> kind, text |-> text, language |-> language, datatype |-> datatype]

MCNodes ==
  {Node("uri", <<"a", "q">>, NULL, NULL),
   Node("literal", <<"a", "q">>, NULL, NULL),
   Node("literal", <<"a", "a", "a">>, <<"e", "n">>, NULL),
   Node("literal", <<"a">>, NULL, <<"a">>),
   Node("bnode", <<>>, NULL, NULL)}

MCInLiteral == [c \in {"a", "q"} |-> IF c = "q" THEN 2 ELSE 1]
MCInUri     == [c \in {"a", "q"} |-> 1]
==============================================================================
