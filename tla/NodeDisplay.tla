----------------------------- MODULE NodeDisplay -----------------------------
(***************************************************************************)
(* What sparqlrow_value of resultset.c gives for a cell of a ResultSet:    *)
(* librdf_node_write's text, which isparql.c lines up by the widths of the *)
(* columns.  librdf writes a node as N-Triples does: some characters with  *)
(* a backslash, some as \u and their number.  Which ones is librdf's       *)
(* affair; here each character has the length that is written for it.      *)
(***************************************************************************)
EXTENDS ResultSet

CONSTANTS
  InLiteral,  \* the characters, each with what is written for it in a literal
  InUri       \* and in a URI

Characters == DOMAIN InLiteral

ASSUME DisplayAssumption ==
  /\ InLiteral \in [Characters -> Nat] /\ InUri \in [Characters -> Nat]
  /\ \A nd \in Nodes :
       /\ nd.text \in Seq(Characters)
       /\ nd.datatype # NULL => nd.datatype \in Seq(Characters)

-----------------------------------------------------------------------------
(* librdf_node_write. *)

WrittenLength(string, in) ==
  LET sum[i \in 0..Len(string)] == IF i = 0 THEN 0 ELSE sum[i - 1] + in[string[i]]
  IN  sum[Len(string)]

\* <uri>, _:bnode, "literal", "literal"@language, "literal"^^<datatype>
ShownLength(nd) ==
  CASE nd.kind = "uri"     -> WrittenLength(nd.text, InUri) + 2
    [] nd.kind = "bnode"   -> Len(nd.text) + 2
    [] nd.kind = "literal" ->
         WrittenLength(nd.text, InLiteral) + 2
         + (IF nd.language = NULL THEN 0 ELSE Len(nd.language) + 1)
         + (IF nd.datatype = NULL THEN 0 ELSE WrittenLength(nd.datatype, InUri) + 4)

-----------------------------------------------------------------------------
(* Properties. *)

OneForOne(string, in) == \A i \in DOMAIN string : in[string[i]] <= 1

\* Nothing in the node is escaped.
Unescaped(nd) ==
  CASE nd.kind = "uri"     -> OneForOne(nd.text, InUri)
    [] nd.kind = "bnode"   -> TRUE
    [] nd.kind = "literal" ->
         /\ OneForOne(nd.text, InLiteral)
         /\ nd.datatype # NULL => OneForOne(nd.datatype, InUri)

\* The width of a column holds every value shown in it in which nothing is
\* escaped, but for two characters of one with a datatype; a value that another
\* replaced does not make it narrower.  The width is reckoned from what was
\* bound (sparqlrow_set_literal_), so escaped values are wider.
WidthsCover ==
  \A r \in DOMAIN rows : \A i \in DOMAIN rows[r] :
    LET nd == rows[r][i]
    IN  nd # NULL =>
          /\ widths # NULL
          /\ Unescaped(nd) =>
               ShownLength(nd) <= widths[i] + (IF nd.datatype = NULL THEN 0 ELSE 2)
==============================================================================
