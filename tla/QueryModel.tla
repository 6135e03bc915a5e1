------------------------------ MODULE QueryModel ------------------------------
(***************************************************************************)
(* query-model.c: sparql_query_model, which runs a SPARQLQUERY             *)
(* (PerformQuery) with callbacks that add each row, its variables named g, *)
(* s, p and o, to an librdf model as a statement.  A step of this module   *)
(* is a step of the query joined with what the callback it makes does.     *)
(*                                                                         *)
(* librdf is external: any node or statement asked of it may fail to be    *)
(* made, a URI node always does without a text, and a blank node without   *)
(* one is a fresh node; a statement is complete when it has its three      *)
(* nodes and the predicate is a URI.                                       *)
(***************************************************************************)
EXTENDS Integers, Sequences

CONSTANTS
  Names, NULL, Texts, Attributes, MaxText,
  MaxRows     \* bound on the rows of a document

VARIABLES
  pc, ctype, state, result, bound, name, buf, attrs,
  open, rootSeen, wellFormed, aborted, verdict, values,
  statement,  \* context.statement: NULL, or its three nodes
  g,          \* context.g: NULL, or the node of the row's graph
  model,      \* the statements the model was given, each with its graph
  cells,      \* history: what the row being read binds to g, s, p and o
  rowsRead,   \* history: what each row that ended bound to them
  blurred     \* history: the rows were not all made of what was read: librdf
              \* failed to make a node or a datatype or to add a statement, or
              \* a binding had several values

querySide == <<pc, ctype, state, result, bound, name, buf, attrs, open,
               rootSeen, wellFormed, aborted, verdict, values>>
modelSide == <<statement, g, model>>
history   == <<cells, rowsRead, blurred>>
vars      == <<querySide, modelSide, history>>

P == INSTANCE PerformQuery

Columns == {"g", "s", "p", "o"}

-----------------------------------------------------------------------------
Node(kind, text, as) == [kind |-> kind, text |-> text, attrs |-> as]

KindOf(s) == CASE s = "URI" -> "uri" [] s = "BNODE" -> "bnode" [] s = "LITERAL" -> "literal"

\* The node of the value that ends, were it made of what was read.
Read == Node(KindOf(state), buf, IF state = "LITERAL" THEN attrs ELSE {})

\* What librdf may make of the value that ends: the node; a literal without
\* its datatype, when the URI of the datatype cannot be made; or no node.
Makes ==
  {NULL} \cup
    CASE state = "LITERAL"              -> {Read, [Read EXCEPT !.attrs = @ \ {"datatype"}]}
      [] state = "URI" /\ buf = <<>>   -> {}
      [] state = "BNODE" /\ buf = <<>> -> {Node("fresh", buf, {})}
      [] OTHER                         -> {Read}

NewStatement == [c \in {"s", "p", "o"} |-> NULL]

Unbound == [c \in Columns |-> NULL]

\* librdf_statement_is_complete.
Complete(st) ==
  /\ \A c \in {"s", "p", "o"} : st[c] # NULL
  /\ st["s"].kind # "literal"
  /\ st["p"].kind = "uri"

Quad(st, graph) == [c \in Columns |-> IF c = "g" THEN graph ELSE st[c]]

HasFresh(quad) == \E c \in Columns : quad[c] # NULL /\ quad[c].kind = "fresh"

Given == {model[i] : i \in DOMAIN model}

\* librdf_model_find_statements_with_options finds the statement in the graph.
Held(quad) == quad["g"] # NULL /\ ~HasFresh(quad) /\ quad \in Given

-----------------------------------------------------------------------------
Init ==
  /\ P!Init
  /\ statement = NULL /\ g = NULL /\ model = <<>>
  /\ cells = Unbound /\ rowsRead = <<>> /\ blurred = FALSE

Running == pc # "returned"

\* Steps of the query whose callback, if they make one, changes nothing.
Silent ==
  /\ Running
  /\ \/ P!Perform \/ P!Refuse \/ P!NoContentType \/ P!Parse \/ P!EndChunk
     \/ P!EndDocument \/ P!Malformed \/ P!StartUnqualified
     \/ \E ok \in BOOLEAN : P!Capture(ok) \/ P!TransferEnds(ok)
     \/ \E el \in P!Elements : P!StartRejected(el) \/ P!StartPlain(el)
     \/ \E has, ok \in BOOLEAN : (~has => ok) /\ P!StartLink(has, ok)
     \/ \E n \in Names \cup {NULL}, ok \in BOOLEAN :
          \/ P!StartVariable(n, ok) /\ ok = (n \in Columns \cup {NULL})
          \/ P!StartVariable(n, FALSE) /\ n # NULL
          \/ P!StartBinding(n, ok)
     \/ P!StartRows("results", TRUE)
     \/ \E stored \in SUBSET Attributes :
          \E failed \in {{}} \cup {{a} : a \in Attributes \ stored} :
            P!StartLiteral(stored, failed)
     \/ state = "RESULTS" /\ P!EndRows(TRUE)
     \/ P!EndPlain \/ P!EndBinding \/ P!RejectBoolean
     \/ \E t \in Texts, ok \in BOOLEAN : P!Characters(t, ok)
  /\ UNCHANGED <<modelSide, history>>

\* sparql_query_beginresult_.
BeginResult ==
  /\ Running
  /\ P!StartRows("result", TRUE)
  /\ Len(rowsRead) < MaxRows
  /\ statement' = NewStatement
  /\ cells' = Unbound
  /\ UNCHANGED <<g, model, rowsRead, blurred>>

BeginResultFails ==
  /\ Running
  /\ P!StartRows("result", FALSE)
  /\ statement' = NULL
  /\ UNCHANGED <<g, model, history>>

ReadValue(node) ==
  /\ cells' = IF name \in Columns THEN [cells EXCEPT ![name] = Read] ELSE cells
  /\ blurred' = (blurred \/ (node # Read /\ name \in Columns) \/ values > 0)
  /\ UNCHANGED rowsRead

\* sparql_query_uri_, _bnode_ and _literal_: the node goes where the name of
\* its variable says, whether or not it was made, and nowhere by any other
\* name; a literal can only be an object.
BindGraph ==
  /\ Running
  /\ P!EndValue(TRUE)
  /\ name = "g" /\ state # "LITERAL"
  /\ \E node \in Makes : g' = node /\ ReadValue(node)
  /\ UNCHANGED <<statement, model>>

BindTerm ==
  /\ Running
  /\ P!EndValue(TRUE)
  /\ name \in (IF state = "LITERAL" THEN {"o"} ELSE {"s", "p", "o"})
  /\ \E node \in Makes :
       statement' = [statement EXCEPT ![name] = node] /\ ReadValue(node)
  /\ UNCHANGED <<g, model>>

BindOther ==
  /\ Running
  /\ name \notin Columns /\ state # "LITERAL"
  /\ P!EndValue(TRUE)
  /\ UNCHANGED <<modelSide, history>>

BindRefused ==
  /\ Running
  /\ state = "LITERAL" /\ name # "o"
  /\ P!EndValue(FALSE)
  /\ UNCHANGED <<modelSide, history>>

\* Mutant: the graph is not reset for the next row.
EndResultKeepsGraph ==
  /\ Running
  /\ state = "RESULT"
  /\ P!EndRows(TRUE)
  /\ Complete(statement)
  /\ \E added \in BOOLEAN :
       /\ model' = IF ~added \/ Held(Quad(statement, g))
                     THEN model ELSE Append(model, Quad(statement, g))
       /\ blurred' = (blurred \/ ~added)
  /\ statement' = NULL
  /\ g' = g
  /\ rowsRead' = Append(rowsRead, cells)
  /\ cells' = Unbound

\* Mutant: the graph is not searched for the statement.
EndResultAlwaysAdds ==
  /\ Running
  /\ state = "RESULT"
  /\ P!EndRows(TRUE)
  /\ Complete(statement)
  /\ \E added \in BOOLEAN :
       /\ model' = IF ~added
                     THEN model ELSE Append(model, Quad(statement, g))
       /\ blurred' = (blurred \/ ~added)
  /\ statement' = NULL
  /\ g' = NULL
  /\ rowsRead' = Append(rowsRead, cells)
  /\ cells' = Unbound

\* sparql_query_endresult_: the row is a statement of the model; one that has
\* a graph is only added when the graph does not hold it yet.  librdf may fail
\* to add it, and nobody looks.
EndResult ==
  /\ Running
  /\ state = "RESULT"
  /\ P!EndRows(TRUE)
  /\ Complete(statement)
  /\ \E added \in BOOLEAN :
       /\ model' = IF ~added \/ Held(Quad(statement, g))
                     THEN model ELSE Append(model, Quad(statement, g))
       /\ blurred' = (blurred \/ ~added)
  /\ statement' = NULL
  /\ g' = NULL
  /\ rowsRead' = Append(rowsRead, cells)
  /\ cells' = Unbound

\* The row has no complete statement: the query fails, its nodes are kept.
EndResultFails ==
  /\ Running
  /\ state = "RESULT"
  /\ P!EndRows(FALSE)
  /\ ~Complete(statement)
  /\ UNCHANGED <<modelSide, history>>

\* sparql_query_boolean_: a boolean is not expected.
Boolean ==
  /\ Running
  /\ P!EndBoolean(FALSE)
  /\ UNCHANGED <<modelSide, history>>

\* sparql_query_perform_ returns, and sparql_query_model frees what a failure
\* left in its context.
Return ==
  /\ Running
  /\ P!Report
  /\ statement' = NULL
  /\ g' = NULL
  /\ UNCHANGED <<model, history>>

Next ==
  \/ Silent
  \/ BeginResult \/ BeginResultFails
  \/ BindGraph \/ BindTerm \/ BindOther \/ BindRefused
  \/ EndResult \/ EndResultFails
  \/ Boolean
  \/ Return

Spec == Init /\ [][Next]_vars

-----------------------------------------------------------------------------
(* Properties. *)

\* No graph is given the same statement twice by one query.
NoDuplicateInGraph ==
  \A i, j \in DOMAIN model :
    i # j /\ model[i]["g"] # NULL /\ ~HasFresh(model[i]) => model[i] # model[j]

\* The model is given exactly the rows that ended: each with the subject, the
\* predicate, the object and the graph of its own bindings and no other's,
\* also when the query fails later.
ModelIsRows == ~blurred => Given = {rowsRead[i] : i \in DOMAIN rowsRead}
==============================================================================
