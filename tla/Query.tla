-------------------------------- MODULE Query --------------------------------
(***************************************************************************)
(* query.c: sparql_query, which runs a SPARQLQUERY (PerformQuery) with     *)
(* callbacks that fill a SPARQLRES (ResultSet), and returns it when the    *)
(* query is complete.  A step of this module is a step of the query joined *)
(* with what the callback it makes does to the result set.                 *)
(***************************************************************************)
EXTENDS Integers, Sequences

CONSTANTS
  Names, NULL, Texts, Attributes, MaxText,
  VarBlock, RowBlock, MaxVariables, MaxRows, MaxLinks, MaxFetches

VARIABLES
  pc, ctype, state, result, bound, name, buf, attrs,
  open, rootSeen, wellFormed, aborted, verdict, values,
  phase, boolean, variables, varsize, widths, rows, rowsize, linkcount,
  current, reset, ret, fetched,
  row,         \* context.row: NULL, or the array it points into, told by its
               \* size, and the index of the row in it
  hasResults,  \* context.has_results
  hasBoolean,  \* context.has_boolean
  doc          \* history: what the response says, as read so far

querySide  == <<pc, ctype, state, result, bound, name, buf, attrs, open,
                rootSeen, wellFormed, aborted, verdict, values>>
resultSide == <<phase, boolean, variables, varsize, widths, rows, rowsize,
                linkcount, current, reset, ret, fetched>>
context    == <<row, hasResults, hasBoolean>>
vars       == <<querySide, resultSide, context, doc>>

-----------------------------------------------------------------------------
(* Values. *)

\* The node a value element makes: its kind, its text, and whether it has a
\* language and a datatype.
Present(a, as) == IF a \in as THEN <<a>> ELSE NULL

KindOf ==
  [s \in {"URI", "BNODE", "LITERAL"} |->
     CASE s = "URI" -> "uri" [] s = "BNODE" -> "bnode" [] s = "LITERAL" -> "literal"]

NodeOf(s, text, as) ==
  [kind     |-> KindOf[s],
   text     |-> text,
   language |-> IF s = "LITERAL" THEN Present("language", as) ELSE NULL,
   datatype |-> IF s = "LITERAL" THEN Present("datatype", as) ELSE NULL]

Pieces == UNION {[1..n -> Texts] : n \in 0..MaxText}

Nodes == {NodeOf(s, text, as) : s \in {"URI", "BNODE", "LITERAL"},
                                text \in Pieces,
                                as \in SUBSET Attributes}

ASSUME QueryAssumption ==
  /\ {MaxText, MaxVariables, RowBlock} \subseteq Nat
  /\ NULL \notin [base : Nat, index : Nat]   \* no pointer to a row

P == INSTANCE PerformQuery
R == INSTANCE ResultSet

-----------------------------------------------------------------------------
(* History: the variables, the rows (what each name is bound to) and the   *)
(* boolean of the document; the text and the attributes of the value       *)
(* element that is open; and whether some binding held several values.     *)

NoDocument ==
  [variables |-> <<>>, rows |-> <<>>, boolean |-> -1,
   text |-> <<>>, attrs |-> {}, several |-> FALSE]

Unbound == [n \in Names |-> NULL]

ReadVariable(n) == doc' = [doc EXCEPT !.variables = Append(@, n)]

ReadRow == doc' = [doc EXCEPT !.rows = Append(@, Unbound)]

ReadValueStart(as) == doc' = [doc EXCEPT !.text = <<>>, !.attrs = as]

ReadText(t) == doc' = [doc EXCEPT !.text = Append(@, t)]

ReadValue ==
  doc' = [doc EXCEPT
            !.rows[Len(doc.rows)][name] = NodeOf(state, doc.text, doc.attrs),
            !.text = <<>>, !.attrs = {},
            !.several = @ \/ values > 0]

\* What stands between <boolean> and </boolean>; no other end tag says more.
ReadBoolean ==
  doc' = IF open[Len(open)] = "boolean"
           THEN [doc EXCEPT !.boolean = IF doc.text = <<"true">> THEN 1 ELSE 0,
                            !.text = <<>>]
           ELSE doc

-----------------------------------------------------------------------------
\* sparql_query up to sparql_query_perform_.
Init ==
  /\ P!Init
  /\ R!Init
  /\ row = NULL
  /\ hasResults = FALSE
  /\ hasBoolean = FALSE
  /\ doc = NoDocument

Running == phase = "filling"

\* Steps of the query that make no callback.
Silent ==
  /\ Running
  /\ \/ P!Perform \/ P!Refuse \/ P!NoContentType \/ P!Parse \/ P!EndChunk
     \/ P!EndDocument \/ P!Malformed \/ P!StartUnqualified
     \/ \E ok \in BOOLEAN : P!Capture(ok) \/ P!TransferEnds(ok)
     \/ \E el \in P!Elements : P!StartRejected(el)
     \/ \E el \in {"sparql", "head"} : P!StartPlain(el)
     \/ P!StartVariable(NULL, TRUE)
     \/ P!StartLink(FALSE, TRUE)
     \/ \E n \in Names \cup {NULL}, ok \in BOOLEAN : P!StartBinding(n, ok)
     \/ P!EndPlain
     \/ P!EndBinding
     \/ P!RejectBoolean
     \/ \E t \in Texts : P!Characters(t, FALSE)
  /\ UNCHANGED <<resultSide, context, doc>>

\* The start tag of a value or of the boolean.
Value ==
  /\ Running
  /\ \/ /\ \E el \in {"uri", "bnode", "boolean"} : P!StartPlain(el)
        /\ ReadValueStart({})
     \/ \E stored \in SUBSET Attributes :
          \E failed \in {{}} \cup {{a} : a \in Attributes \ stored} :
            P!StartLiteral(stored, failed) /\ ReadValueStart(stored)
  /\ UNCHANGED <<resultSide, context>>

Text(t) ==
  /\ Running
  /\ P!Characters(t, TRUE)
  /\ ReadText(t)
  /\ UNCHANGED <<resultSide, context>>

\* sparql_query_variable_.
Variable(n) ==
  /\ Running
  /\ P!StartVariable(n, TRUE)
  /\ R!AddVariable(n)
  /\ ReadVariable(n)
  /\ UNCHANGED context

\* Its copy of the name fails, or the callback does.
VariableFails(n) ==
  /\ Running
  /\ P!StartVariable(n, FALSE)
  /\ R!AddVariableFails \/ UNCHANGED resultSide
  /\ UNCHANGED <<context, doc>>

\* sparql_query_link_.
Link ==
  /\ Running
  /\ P!StartLink(TRUE, TRUE)
  /\ R!AddLink
  /\ UNCHANGED <<context, doc>>

LinkFails ==
  /\ Running
  /\ P!StartLink(TRUE, FALSE)
  /\ R!AddLinkFails \/ UNCHANGED resultSide
  /\ UNCHANGED <<context, doc>>

\* sparql_query_beginresults_: not after a boolean.
BeginResults ==
  /\ Running
  /\ P!StartRows("results", ~hasBoolean)
  /\ hasResults' = (hasResults \/ ~hasBoolean)
  /\ UNCHANGED <<resultSide, row, hasBoolean, doc>>

\* Mutant: the pointer is taken before the array of rows is enlarged.
BeginResultEarly ==
  /\ Running
  /\ P!StartRows("result", TRUE)
  /\ R!CreateRow
  /\ row' = [base |-> rowsize, index |-> Len(rows')]
  /\ ReadRow
  /\ UNCHANGED <<hasResults, hasBoolean>>

\* sparql_query_beginresult_: context.row points to the row just added.
BeginResult ==
  /\ Running
  /\ P!StartRows("result", TRUE)
  /\ R!CreateRow
  /\ row' = [base |-> rowsize', index |-> Len(rows')]
  /\ ReadRow
  /\ UNCHANGED <<hasResults, hasBoolean>>

BeginResultFails ==
  /\ Running
  /\ P!StartRows("result", FALSE)
  /\ R!CreateRowFails
  /\ row' = NULL
  /\ UNCHANGED <<hasResults, hasBoolean, doc>>

\* sparql_query_endresult_; there is no endresults callback.
EndResult ==
  /\ Running
  /\ P!EndRows(TRUE)
  /\ row' = IF state = "RESULT" THEN NULL ELSE row
  /\ UNCHANGED <<resultSide, hasResults, hasBoolean, doc>>

\* sparql_query_uri_, _bnode_ and _literal_, through context.row.
Node == NodeOf(state, buf, attrs)

\* Mutant: every value goes to the first row.
BindValueFirstRow ==
  /\ Running
  /\ P!EndValue(TRUE)
  /\ \E i \in DOMAIN variables : R!Bind(1, name, Node, i)
  /\ ReadValue
  /\ UNCHANGED context

BindValue ==
  /\ Running
  /\ P!EndValue(TRUE)
  /\ \E i \in DOMAIN variables : R!Bind(row.index, name, Node, i)
  /\ ReadValue
  /\ UNCHANGED context

BindValueFails ==
  /\ Running
  /\ P!EndValue(FALSE)
  /\ R!BindFails
  /\ UNCHANGED <<context, doc>>

\* An empty <literal> or <bnode> for a variable there is.
BindValueCrashes ==
  /\ Running
  /\ state \in P!ValueStates /\ P!Parsing
  /\ \E i \in DOMAIN variables : R!BindCrashes(name, Node, i)
  /\ UNCHANGED <<querySide, context, doc>>

BooleanValue == IF buf = <<"true">> THEN 1 ELSE 0

\* Mutant: has_results is not looked at.
BooleanAnyway ==
  /\ Running
  /\ P!EndBoolean(TRUE)
  /\ R!SetBoolean(BooleanValue)
  /\ hasBoolean' = TRUE
  /\ ReadBoolean
  /\ UNCHANGED <<row, hasResults>>

\* sparql_query_boolean_: not after <results>.
Boolean ==
  /\ Running
  /\ ~hasResults
  /\ P!EndBoolean(TRUE)
  /\ R!SetBoolean(BooleanValue)
  /\ hasBoolean' = TRUE
  /\ ReadBoolean
  /\ UNCHANGED <<row, hasResults>>

BooleanFails ==
  /\ Running
  /\ hasResults
  /\ P!EndBoolean(FALSE)
  /\ UNCHANGED <<resultSide, context, doc>>

\* The query has its verdict: the result set is returned, or destroyed.
Return ==
  /\ Running
  /\ P!Report
  /\ IF result = 0 THEN R!Deliver ELSE R!Destroy
  /\ UNCHANGED <<context, doc>>

Next ==
  \/ Silent \/ Value
  \/ \E t \in Texts : Text(t)
  \/ \E n \in Names : Variable(n) \/ VariableFails(n)
  \/ Link \/ LinkFails
  \/ BeginResults \/ BeginResult \/ BeginResultFails \/ EndResult
  \/ BindValue \/ BindValueFails \/ BindValueCrashes
  \/ Boolean \/ BooleanFails
  \/ Return

Spec == Init /\ [][Next]_vars

-----------------------------------------------------------------------------
(* Properties. *)

\* context.row is NULL, or points into the array of rows as it is now, to its
\* last row: the array moves when it grows, and values are written through
\* the pointer until the row's end tag.
RowPointerLive ==
  phase = "filling" /\ row # NULL =>
    row.base = rowsize /\ row.index = Len(rows)

\* A result set that is returned is either a boolean or rows.
BooleanOrRows == phase = "reading" /\ boolean # -1 => rows = <<>>

\* The result set that is returned is what the response says: its variables
\* in their order, its boolean, as many rows, and in each row under each
\* variable the value bound to it or nothing, with its own text, language and
\* datatype.  (A repeated variable has its values under the first.)
ResultIsDocument ==
  phase = "reading" =>
    /\ variables = doc.variables
    /\ boolean = doc.boolean
    /\ Len(rows) = Len(doc.rows)
    /\ ~doc.several =>
         \A r \in DOMAIN rows : \A i \in DOMAIN variables :
           rows[r][i] = IF \A j \in 1..i - 1 : variables[j] # variables[i]
                          THEN doc.rows[r][variables[i]] ELSE NULL

\* The query and the result set keep to their own specifications, so that
\* what is proved of each holds of the two together.
PartsKeepTheirSpecs == P!Spec /\ R!Spec
==============================================================================
