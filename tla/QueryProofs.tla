----------------------------- MODULE QueryProofs ------------------------------
(***************************************************************************)
(* sparql_query for any names, texts, attributes and bounds: the query and *)
(* the result set it joins keep to their own specifications, values are    *)
(* written to the row that is open, booleans and rows exclude one          *)
(* another, and what is returned is what the response says.                *)
(***************************************************************************)
EXTENDS Query, SequenceTheorems, TLAPS

-----------------------------------------------------------------------------
(* The side of the query: each step is one of PerformQuery, or none.       *)

LEMMA SilentIsQuery == Silent => P!Next
<1> SUFFICES ASSUME Silent PROVE P!Next
  OBVIOUS
<1>1. CASE \/ P!Perform \/ P!Refuse \/ P!NoContentType \/ P!Parse \/ P!EndChunk
           \/ P!EndDocument \/ P!Malformed \/ P!StartUnqualified
  BY <1>1 DEF P!Next, P!Transfer, P!StartElement
<1>2. ASSUME NEW ok \in BOOLEAN, P!Capture(ok) \/ P!TransferEnds(ok) PROVE P!Next
  BY <1>2 DEF P!Next, P!Transfer
<1>3. ASSUME NEW el \in P!Elements, P!StartRejected(el) PROVE P!Next
  BY <1>3 DEF P!Next, P!StartElement
<1>4. ASSUME NEW el \in {"sparql", "head"}, P!StartPlain(el) PROVE P!Next
  <2>1. el \in P!Elements
    BY DEF P!Elements
  <2> QED
    BY <1>4, <2>1 DEF P!Next, P!StartElement
<1>5. CASE P!StartVariable(NULL, TRUE) \/ P!StartLink(FALSE, TRUE)
  BY <1>5 DEF P!Next, P!StartElement
<1>6. ASSUME NEW n \in Names \cup {NULL}, NEW ok \in BOOLEAN, P!StartBinding(n, ok) PROVE P!Next
  BY <1>6 DEF P!Next, P!StartElement
<1>7. CASE P!EndPlain \/ P!EndBinding \/ P!RejectBoolean
  BY <1>7 DEF P!Next, P!EndElement
<1>8. ASSUME NEW t \in Texts, P!Characters(t, FALSE) PROVE P!Next
  BY <1>8 DEF P!Next, P!Text
<1> QED
  BY <1>1, <1>2, <1>3, <1>4, <1>5, <1>6, <1>7, <1>8 DEF Silent

LEMMA ValueIsQuery == Value => P!Next
<1> SUFFICES ASSUME Value PROVE P!Next
  OBVIOUS
<1>1. ASSUME NEW el \in {"uri", "bnode", "boolean"}, P!StartPlain(el) PROVE P!Next
  <2>1. el \in P!Elements
    BY DEF P!Elements
  <2> QED
    BY <1>1, <2>1 DEF P!Next, P!StartElement
<1>2. ASSUME NEW stored \in SUBSET Attributes,
             NEW failed \in {{}} \cup {{a} : a \in Attributes \ stored},
             P!StartLiteral(stored, failed)
      PROVE  P!Next
  BY <1>2 DEF P!Next, P!StartElement
<1> QED
  BY <1>1, <1>2 DEF Value

LEMMA StepIsQuery == [Next]_vars => [P!Next]_(P!vars)
<1> SUFFICES ASSUME [Next]_vars PROVE P!Next \/ UNCHANGED P!vars
  OBVIOUS
<1>1. CASE Silent \/ Value
  BY <1>1, SilentIsQuery, ValueIsQuery
<1>2. ASSUME NEW t \in Texts, Text(t) PROVE P!Next
  BY <1>2 DEF Text, P!Next, P!Text
<1>3. ASSUME NEW n \in Names, Variable(n) \/ VariableFails(n) PROVE P!Next
  BY <1>3 DEF Variable, VariableFails, P!Next, P!StartElement
<1>4. CASE Link \/ LinkFails
  BY <1>4 DEF Link, LinkFails, P!Next, P!StartElement
<1>5. CASE BeginResults \/ BeginResult \/ BeginResultFails
  <2>1. {"results", "result"} \subseteq P!Elements /\ (~hasBoolean) \in BOOLEAN
    BY DEF P!Elements
  <2>2. \E el \in P!Elements, ok \in BOOLEAN : P!StartRows(el, ok)
    BY <1>5, <2>1 DEF BeginResults, BeginResult, BeginResultFails
  <2> QED
    BY <2>2 DEF P!Next, P!StartElement
<1>6. CASE EndResult \/ BindValue \/ BindValueFails \/ Boolean \/ BooleanFails
  BY <1>6 DEF EndResult, BindValue, BindValueFails, Boolean, BooleanFails, P!Next, P!EndElement
<1>7. CASE Return
  BY <1>7 DEF Return, P!Next, P!Transfer
<1>8. CASE BindValueCrashes \/ UNCHANGED vars
  BY <1>8 DEF BindValueCrashes, vars, querySide, P!vars, P!query, P!parser
<1> QED
  BY <1>1, <1>2, <1>3, <1>4, <1>5, <1>6, <1>7, <1>8 DEF Next

-----------------------------------------------------------------------------
(* What the context rests on: where in the document a query that has not   *)
(* failed can be.                                                          *)

\* The states between <result> and </result>, and those inside <results>.
InRow == {"RESULT", "BINDING"} \cup P!ValueStates
InResults == InRow \cup {"RESULTS"}

QueryTypes ==
  /\ state \in P!States
  /\ buf \in Seq(Texts) /\ Len(buf) <= MaxText
  /\ attrs \subseteq Attributes

\* A step that goes neither into a row nor into the results.
Stays ==
  /\ result' = 0 /\ state' \in InRow => result = 0 /\ state \in InRow
  /\ result' = 0 /\ state' \in InResults => result = 0 /\ state \in InResults

\* Only <result> leads into a row, and only <results> into the results.
LEMMA EnterStays ==
  ASSUME state \in P!States, NEW el, P!Enter(el), el \notin {"results", "result"}
  PROVE  Stays /\ state' \in P!States /\ result = 0 /\ state \in P!States
<1>1. /\ state' = P!StateOf[el] /\ result = 0
      /\ el \in P!Children[state] /\ P!Children[state] # {}
  BY DEF P!Enter, P!Opens, P!Parsing, P!Expected
<1>2. P!Children[state] =
        CASE state = "ROOT"    -> {"sparql"}
          [] state = "SPARQL"  -> {"head", "results", "boolean"}
          [] state = "HEAD"    -> {"link", "variable"}
          [] state = "RESULTS" -> {"result"}
          [] state = "RESULT"  -> {"binding"}
          [] state = "BINDING" -> {"uri", "literal", "bnode"}
          [] OTHER             -> {}
  BY DEF P!Children
<1>3. \/ state = "ROOT" /\ el = "sparql"
      \/ state = "SPARQL" /\ el \in {"head", "boolean"}
      \/ state = "HEAD" /\ el \in {"link", "variable"}
      \/ state = "RESULT" /\ el = "binding"
      \/ state = "BINDING" /\ el \in {"uri", "literal", "bnode"}
  BY <1>1, <1>2
<1>4. \/ state' \in {"SPARQL", "HEAD", "BOOLEAN", "LINK", "VARIABLE"}
      \/ state = "RESULT" /\ state' = "BINDING"
      \/ state = "BINDING" /\ state' \in P!ValueStates
  BY <1>1, <1>3 DEF P!StateOf, P!Elements, P!ValueStates
<1> QED
  BY <1>1, <1>4 DEF Stays, InRow, InResults, P!States, P!ValueStates

\* An end tag leads out of a row, or up within it.
LEMMA CloseStays ==
  ASSUME state \in P!States \ {"CAPTURE"}, result = 0, state' = P!Parent[state]
  PROVE  Stays /\ state' \in P!States /\ (state = "RESULT" => state' \notin InRow)
<1>1. state' = CASE state \in {"ROOT", "SPARQL"}   -> "ROOT"
                 [] state \in {"HEAD", "RESULTS"}  -> "SPARQL"
                 [] state \in {"LINK", "VARIABLE"} -> "HEAD"
                 [] state = "RESULT"               -> "RESULTS"
                 [] state = "BINDING"              -> "RESULT"
                 [] state \in P!ValueStates        -> "BINDING"
                 [] state = "BOOLEAN"              -> "BOOLEAN"
  BY DEF P!Parent
<1>2. \/ state' \in {"ROOT", "SPARQL", "HEAD"} /\ state \in {"ROOT", "SPARQL", "HEAD", "RESULTS", "LINK", "VARIABLE"}
      \/ state = "RESULT" /\ state' = "RESULTS"
      \/ state = "BINDING" /\ state' = "RESULT"
      \/ state \in P!ValueStates /\ state' = "BINDING"
      \/ state = "BOOLEAN" /\ state' = "BOOLEAN"
  BY <1>1 DEF P!States, P!ValueStates
<1> QED
  BY <1>2 DEF Stays, InRow, InResults, P!States, P!ValueStates

\* Steps that leave the state where it is, or go where nothing is parsed.
LEMMA SameStays ==
  ASSUME state \in P!States, result' = 0 => result = 0,
         state' = state \/ state' \in {"ROOT", "CAPTURE"} \/ result' # 0
  PROVE  Stays
  BY DEF Stays, InRow, InResults, P!ValueStates

LEMMA SilentStays == ASSUME QueryTypes, Silent PROVE QueryTypes' /\ Stays
<1> USE DEF QueryTypes
<1>1. CASE P!Perform
  BY <1>1, SameStays DEF P!Perform, P!States, Stays, InRow, InResults, P!ValueStates
<1>2. CASE P!Refuse \/ P!NoContentType \/ P!Parse \/ P!EndChunk \/ P!Malformed \/ P!StartUnqualified
  BY <1>2, SameStays DEF P!Refuse, P!NoContentType, P!Parse, P!EndChunk, P!Malformed,
     P!StartUnqualified, P!query
<1>3. CASE P!EndDocument
  BY <1>3, SameStays DEF P!EndDocument
<1>4. ASSUME NEW ok \in BOOLEAN, P!Capture(ok) PROVE QueryTypes' /\ Stays
  BY <1>4, SameStays DEF P!Capture, P!States
<1>5. ASSUME NEW ok \in BOOLEAN, P!TransferEnds(ok) PROVE QueryTypes' /\ Stays
  BY <1>5, SameStays DEF P!TransferEnds
<1>6. ASSUME NEW el \in P!Elements, P!StartRejected(el) PROVE QueryTypes' /\ Stays
  BY <1>6, SameStays DEF P!StartRejected
<1>7. ASSUME NEW el \in {"sparql", "head"}, P!StartPlain(el) PROVE QueryTypes' /\ Stays
  BY <1>7, EnterStays DEF P!StartPlain
<1>8. CASE P!StartVariable(NULL, TRUE)
  BY <1>8, EnterStays DEF P!StartVariable
<1>9. CASE P!StartLink(FALSE, TRUE)
  BY <1>9, EnterStays DEF P!StartLink
<1>10. ASSUME NEW n \in Names \cup {NULL}, NEW ok \in BOOLEAN, P!StartBinding(n, ok)
       PROVE  QueryTypes' /\ Stays
  BY <1>10, EnterStays DEF P!StartBinding
<1>11. CASE P!EndPlain
  BY <1>11, CloseStays DEF P!EndPlain, P!Closes, P!Parsing, P!States
<1>12. CASE P!EndBinding
  <2>1. Stays /\ state' \in P!States /\ buf' = <<>> /\ attrs' = {}
    BY <1>12, CloseStays DEF P!EndBinding, P!Closes, P!Parsing, P!States
  <2>2. Len(<<>>) <= MaxText /\ <<>> \in Seq(Texts)
    BY QueryAssumption
  <2> QED
    BY <2>1, <2>2
<1>13. CASE P!RejectBoolean
  BY <1>13, SameStays DEF P!RejectBoolean
<1>14. ASSUME NEW t \in Texts, P!Characters(t, FALSE) PROVE QueryTypes' /\ Stays
  BY <1>14, SameStays DEF P!Characters, P!Outcome
<1> QED
  BY <1>1, <1>2, <1>3, <1>4, <1>5, <1>6, <1>7, <1>8, <1>9, <1>10, <1>11, <1>12, <1>13, <1>14
  DEF Silent

LEMMA ValueStays == ASSUME QueryTypes, Value PROVE QueryTypes' /\ Stays
<1> USE DEF QueryTypes
<1>1. ASSUME NEW el \in {"uri", "bnode", "boolean"}, P!StartPlain(el)
      PROVE  QueryTypes' /\ Stays
  BY <1>1, EnterStays DEF P!StartPlain
<1>2. ASSUME NEW stored \in SUBSET Attributes,
             NEW failed \in {{}} \cup {{a} : a \in Attributes \ stored},
             P!StartLiteral(stored, failed)
      PROVE  QueryTypes' /\ Stays
  BY <1>2, EnterStays DEF P!StartLiteral
<1> QED
  BY <1>1, <1>2 DEF Value

LEMMA TextStays ==
  ASSUME QueryTypes, NEW t \in Texts, P!Characters(t, TRUE)
  PROVE  QueryTypes' /\ Stays
<1>1. /\ state' = state /\ attrs' = attrs /\ result = 0
      /\ buf' = Append(buf, t) /\ Len(buf) < MaxText
  BY DEF P!Characters, P!Parsing
<1>2. buf' \in Seq(Texts) /\ Len(buf') <= MaxText
  BY <1>1, QueryAssumption DEF QueryTypes
<1> QED
  BY <1>1, <1>2, SameStays DEF QueryTypes

\* <variable> and <link> with what they name.
LEMMA HeadStays ==
  ASSUME QueryTypes,
         \E ok \in BOOLEAN :
           P!StartLink(TRUE, ok) \/ \E n \in Names : P!StartVariable(n, ok)
  PROVE  QueryTypes' /\ Stays
<1>1. (P!Enter("variable") \/ P!Enter("link")) /\ UNCHANGED <<buf, attrs>>
  BY DEF P!StartVariable, P!StartLink
<1> QED
  BY <1>1, EnterStays DEF QueryTypes

\* </result>, </results>, a value and a boolean that went well or did not.
LEMMA EndStays ==
  ASSUME QueryTypes, NEW ok \in BOOLEAN, P!EndRows(ok) \/ P!EndValue(ok) \/ P!EndBoolean(ok)
  PROVE  /\ QueryTypes' /\ Stays
         /\ state = "RESULT" => state' \notin InRow
<1>1. /\ UNCHANGED <<buf, attrs>> /\ result = 0 /\ state \in P!States \ {"CAPTURE"}
      /\ state' = P!Parent[state] \/ (state' = state /\ state # "RESULT")
  BY DEF P!EndRows, P!EndValue, P!EndBoolean, P!Closes, P!Parsing, P!States, P!ValueStates
<1> QED
  BY <1>1, CloseStays, SameStays DEF QueryTypes

\* <results> is met where there are none, <result> inside them.
LEMMA RowsEnter ==
  ASSUME QueryTypes, NEW el \in {"results", "result"}, NEW ok \in BOOLEAN,
         P!StartRows(el, ok)
  PROVE  /\ QueryTypes' /\ result = 0 /\ result' = P!Outcome(ok)
         /\ el = "results" => state' = "RESULTS"
         /\ el = "result" => state = "RESULTS" /\ state' = "RESULT"
<1>1. /\ state' = P!StateOf[el] /\ result = 0 /\ el \in P!Children[state]
      /\ result' = P!Outcome(ok) /\ UNCHANGED <<buf, attrs>>
  BY DEF P!StartRows, P!Enter, P!Opens, P!Parsing, P!Expected
<1>2. state' = IF el = "results" THEN "RESULTS" ELSE "RESULT"
  BY <1>1 DEF P!StateOf, P!Elements
<1>3. el = "result" => state = "RESULTS"
  BY <1>1 DEF QueryTypes, P!Children, P!States
<1> QED
  BY <1>1, <1>2, <1>3 DEF QueryTypes, P!States

LEMMA ReturnStays == ASSUME QueryTypes, Return PROVE QueryTypes' /\ Stays
  BY SameStays DEF QueryTypes, Return, P!Report, P!query

-----------------------------------------------------------------------------
(* The context and the result set.                                         *)

Cells == Nodes \cup {NULL}

ResultTypes ==
  /\ variables \in Seq(Names) /\ Len(variables) <= MaxVariables
  /\ rows \in Seq(Seq(Cells))
  /\ rowsize \in Nat
  /\ hasResults \in BOOLEAN /\ hasBoolean \in BOOLEAN

\* Inside a row there is a pointer, to the last row of the array as it is;
\* inside the results, and once there are rows, has_results is set; and of
\* has_results and has_boolean one is.
ContextInv ==
  /\ row = NULL \/ row \in [base : {rowsize}, index : {Len(rows)}]
  /\ result = 0 /\ state \in InRow => row # NULL
  /\ result = 0 /\ state \in InResults => hasResults
  /\ rows # <<>> => hasResults
  /\ boolean # -1 => hasBoolean
  /\ ~(hasResults /\ hasBoolean)

QueryInv == QueryTypes /\ ResultTypes /\ ContextInv

\* The callback of a value finds a node that can be bound, and the row.
LEMMA NodeIsNode ==
  ASSUME QueryTypes, state \in P!ValueStates
  PROVE  Node \in Nodes
<1>1. buf \in [1..Len(buf) -> Texts] /\ Len(buf) \in 0..MaxText
  BY QueryAssumption DEF QueryTypes
<1>2. buf \in Pieces
  BY <1>1 DEF Pieces
<1>3. state \in {"URI", "BNODE", "LITERAL"} /\ attrs \in SUBSET Attributes
  BY DEF P!ValueStates, QueryTypes
<1> QED
  BY <1>2, <1>3 DEF Node, Nodes

LEMMA InitInv == Init => QueryInv
<1> SUFFICES ASSUME Init PROVE QueryInv
  OBVIOUS
<1>1. /\ state = "ROOT" /\ buf = <<>> /\ attrs = {} /\ row = NULL
      /\ hasResults = FALSE /\ hasBoolean = FALSE /\ boolean = -1
      /\ variables = <<>> /\ rows = <<>> /\ rowsize = 0
  BY DEF Init, P!Init, R!Init
<1>2. /\ buf \in Seq(Texts) /\ Len(buf) <= MaxText
      /\ variables \in Seq(Names) /\ Len(variables) <= MaxVariables
      /\ rows \in Seq(Seq(Cells))
  BY <1>1, QueryAssumption
<1> QED
  BY <1>1, <1>2 DEF QueryInv, QueryTypes, ResultTypes, ContextInv, InRow, InResults,
     P!States, P!ValueStates

\* A step that leaves the result set and the context as they are.
LEMMA ContextKept ==
  ASSUME ResultTypes, ContextInv, Stays, UNCHANGED <<variables, rows, rowsize, boolean, context>>
  PROVE  ResultTypes' /\ ContextInv'
  BY DEF ResultTypes, ContextInv, Stays, context

LEMMA VariableKeeps == ASSUME QueryInv, NEW n \in Names, Variable(n) PROVE QueryInv'
<1>1. QueryTypes' /\ Stays
  BY HeadStays DEF QueryInv, Variable
<1>2. /\ variables' = Append(variables, n) /\ Len(variables) < MaxVariables
      /\ UNCHANGED <<rows, rowsize, boolean, context>>
  BY DEF Variable, R!AddVariable
<1>3. variables' \in Seq(Names) /\ Len(variables') <= MaxVariables
  BY <1>2, QueryAssumption DEF QueryInv, ResultTypes
<1> QED
  BY <1>1, <1>2, <1>3 DEF QueryInv, ResultTypes, ContextInv, Stays, context

LEMMA BeginResultsKeeps == ASSUME QueryInv, BeginResults PROVE QueryInv'
<1>1. /\ QueryTypes' /\ result = 0 /\ state' = "RESULTS" /\ result' = P!Outcome(~hasBoolean)
  BY RowsEnter DEF QueryInv, BeginResults, ResultTypes
<1>2. /\ hasResults' = (hasResults \/ ~hasBoolean) /\ hasBoolean' = hasBoolean /\ row' = row
      /\ UNCHANGED <<variables, rows, rowsize, boolean>>
  BY DEF BeginResults, resultSide
<1>3. state' \notin InRow
  BY <1>1 DEF InRow, P!ValueStates
<1>4. result' = 0 => hasResults'
  <2>1. CASE hasBoolean
    <3>1. (~hasBoolean) = FALSE
      BY <2>1
    <3>2. result' = P!Outcome(FALSE)
      BY <1>1, <3>1
    <3> QED
      BY <3>2 DEF P!Outcome
  <2>2. CASE ~hasBoolean
    BY <1>2, <2>2
  <2> QED
    BY <2>1, <2>2
<1> QED
  BY <1>1, <1>2, <1>3, <1>4 DEF QueryInv, ResultTypes, ContextInv

LEMMA RowAdded ==
  ASSUME ResultTypes, R!CreateRow
  PROVE  /\ rows' \in Seq(Seq(Cells)) /\ rowsize' \in Nat
         /\ UNCHANGED <<variables, boolean>>
<1>1. rows' = Append(rows, R!EmptyRow) /\ rowsize' \in {rowsize, rowsize + RowBlock}
      /\ UNCHANGED <<variables, boolean>>
  BY DEF R!CreateRow, R!Grown
<1>2. R!EmptyRow \in Seq(Cells)
  <2>1. Len(variables) \in Nat
    BY DEF ResultTypes
  <2> QED
    BY <2>1 DEF R!EmptyRow, Cells
<1>3. rowsize' \in Nat
  BY <1>1, QueryAssumption DEF ResultTypes
<1> QED
  BY <1>1, <1>2, <1>3 DEF ResultTypes

LEMMA BeginResultKeeps == ASSUME QueryInv, BeginResult PROVE QueryInv'
<1>1. /\ QueryTypes' /\ result = 0 /\ state = "RESULTS"
  BY RowsEnter DEF QueryInv, BeginResult
<1>2. /\ rows' \in Seq(Seq(Cells)) /\ rowsize' \in Nat /\ UNCHANGED <<variables, boolean>>
      /\ row' = [base |-> rowsize', index |-> Len(rows')]
      /\ UNCHANGED <<hasResults, hasBoolean>>
  BY RowAdded DEF QueryInv, BeginResult
<1>3. hasResults
  BY <1>1 DEF QueryInv, ContextInv, InResults
<1>4. row' \in [base : {rowsize'}, index : {Len(rows')}] /\ row' # NULL
  <2>1. row' \in [base : Nat, index : Nat]
    BY <1>2
  <2> QED
    BY <1>2, <2>1, QueryAssumption
<1> QED
  BY <1>1, <1>2, <1>3, <1>4 DEF QueryInv, ResultTypes, ContextInv

LEMMA BeginResultFailsKeeps == ASSUME QueryInv, BeginResultFails PROVE QueryInv'
<1>1. QueryTypes' /\ result' # 0
  <2>1. QueryTypes' /\ result' = P!Outcome(FALSE)
    BY RowsEnter DEF QueryInv, BeginResultFails
  <2>2. P!Outcome(FALSE) # 0
    BY DEF P!Outcome
  <2> QED
    BY <2>1, <2>2
<1>2. /\ rowsize' \in {rowsize, rowsize + RowBlock} /\ row' = NULL
      /\ UNCHANGED <<variables, rows, boolean, hasResults, hasBoolean>>
  BY DEF BeginResultFails, R!CreateRowFails, R!Grown
<1>3. rowsize' \in Nat
  BY <1>2, QueryAssumption DEF QueryInv, ResultTypes
<1> QED
  BY <1>1, <1>2, <1>3 DEF QueryInv, ResultTypes, ContextInv

LEMMA EndResultKeeps == ASSUME QueryInv, EndResult PROVE QueryInv'
<1>1. QueryTypes' /\ Stays /\ (state = "RESULT" => state' \notin InRow)
  BY EndStays DEF QueryInv, EndResult
<1>2. /\ row' = IF state = "RESULT" THEN NULL ELSE row
      /\ UNCHANGED <<variables, rows, rowsize, boolean, hasResults, hasBoolean>>
  BY DEF EndResult, resultSide
<1> QED
  BY <1>1, <1>2 DEF QueryInv, ResultTypes, ContextInv, Stays

\* A cell of the last row changes.
LEMMA CellWritten ==
  ASSUME ResultTypes, NEW r, NEW n, NEW nd \in Nodes, NEW i, R!Bind(r, n, nd, i)
  PROVE  /\ rows' \in Seq(Seq(Cells)) /\ Len(rows') = Len(rows)
         /\ i \in 1..Len(variables) /\ n \in Names /\ rows # <<>>
<1>1. /\ r \in 1..Len(rows) /\ rows[r] \in Seq(Cells)
      /\ rows' = [rows EXCEPT ![r] = [rows[r] EXCEPT ![i] = nd]]
  BY DEF R!Bind, ResultTypes
<1>2. [rows[r] EXCEPT ![i] = nd] \in Seq(Cells)
  <2>1. PICK m \in Nat : rows[r] \in [1..m -> Cells]
    BY <1>1
  <2> DEFINE new == [rows[r] EXCEPT ![i] = nd]
  <2>2. new \in [1..m -> Cells]
    BY <2>1 DEF Cells
  <2> HIDE DEF new
  <2>3. new \in Seq(Cells)
    BY <2>2, SeqDef
  <2> QED
    BY <2>3 DEF new
<1>3. rows' \in Seq(Seq(Cells)) /\ Len(rows') = Len(rows)
  <2> DEFINE new == [rows[r] EXCEPT ![i] = nd]
             AllRows == Seq(Cells)
  <2>1. /\ rows' = [rows EXCEPT ![r] = new] /\ new \in AllRows
        /\ rows \in Seq(AllRows)
    BY <1>1, <1>2 DEF ResultTypes
  <2> HIDE DEF new, AllRows
  <2>2. [rows EXCEPT ![r] = new] \in Seq(AllRows) /\ Len([rows EXCEPT ![r] = new]) = Len(rows)
    BY <1>1, <2>1, ExceptSeq
  <2> QED
    BY <2>1, <2>2 DEF AllRows
<1>4. i \in 1..Len(variables) /\ variables[i] = n
  BY DEF R!Bind, R!FirstIndex
<1>5. rows # <<>>
  BY <1>1
<1> QED
  BY <1>3, <1>4, <1>5 DEF ResultTypes

\* In a value there is a row, the last, and a node.
LEMMA ValueInRow ==
  ASSUME QueryInv, state \in P!ValueStates, result = 0
  PROVE  Node \in Nodes /\ row.index = Len(rows) /\ row.base = rowsize
<1>1. row \in [base : {rowsize}, index : {Len(rows)}]
  BY DEF QueryInv, ContextInv, InRow
<1> QED
  BY <1>1, NodeIsNode DEF QueryInv

LEMMA BindValueKeeps == ASSUME QueryInv, BindValue PROVE QueryInv'
<1>1. QueryTypes' /\ Stays
  BY EndStays DEF QueryInv, BindValue
<1>2. Node \in Nodes
  BY NodeIsNode DEF QueryInv, BindValue, P!EndValue
<1>3. PICK i : R!Bind(row.index, name, Node, i)
  BY DEF BindValue
<1>4. rows' \in Seq(Seq(Cells)) /\ Len(rows') = Len(rows) /\ rows # <<>>
  BY <1>2, <1>3, CellWritten DEF QueryInv
<1>5. UNCHANGED <<variables, rowsize, boolean, context>>
  BY <1>3 DEF BindValue, R!Bind
<1> QED
  BY <1>1, <1>4, <1>5 DEF QueryInv, ResultTypes, ContextInv, Stays, context

LEMMA BooleanKeeps == ASSUME QueryInv, Boolean PROVE QueryInv'
<1>1. QueryTypes' /\ Stays
  BY EndStays DEF QueryInv, Boolean
<1>2. /\ ~hasResults /\ hasBoolean' = TRUE
      /\ UNCHANGED <<variables, rows, rowsize, row, hasResults>>
  BY DEF Boolean, R!SetBoolean
<1> QED
  BY <1>1, <1>2 DEF QueryInv, ResultTypes, ContextInv, Stays

\* The steps that leave variables, rows, boolean and context alone.
LEMMA OtherKeeps ==
  ASSUME QueryInv,
         \/ Silent \/ Value \/ Link \/ LinkFails \/ BindValueFails \/ BindValueCrashes
         \/ BooleanFails \/ Return \/ UNCHANGED vars
         \/ \E t \in Texts : Text(t)
         \/ \E n \in Names : VariableFails(n)
  PROVE  QueryInv'
<1> USE DEF QueryInv
<1>1. CASE Silent \/ Value
  BY <1>1, SilentStays, ValueStays, ContextKept DEF Silent, Value, resultSide
<1>2. CASE Link \/ LinkFails
  BY <1>2, HeadStays, ContextKept DEF Link, LinkFails, R!AddLink, R!AddLinkFails, R!arrays, resultSide
<1>3. CASE BindValueFails \/ BooleanFails
  BY <1>3, EndStays, ContextKept DEF BindValueFails, BooleanFails, R!BindFails, R!arrays, resultSide
<1>4. CASE BindValueCrashes \/ UNCHANGED vars
  <2>1. UNCHANGED <<variables, rows, rowsize, boolean, context>> /\ UNCHANGED querySide
    BY <1>4 DEF BindValueCrashes, R!BindCrashes, R!arrays, vars, resultSide, querySide
  <2>2. QueryTypes' /\ Stays
    BY <2>1, SameStays DEF QueryTypes, querySide
  <2> QED
    BY <2>1, <2>2, ContextKept
<1>5. CASE Return
  BY <1>5, ReturnStays, ContextKept DEF Return, R!Deliver, R!Destroy, R!arrays
<1>6. ASSUME NEW t \in Texts, Text(t) PROVE QueryInv'
  BY <1>6, TextStays, ContextKept DEF Text, resultSide
<1>7. ASSUME NEW n \in Names, VariableFails(n) PROVE QueryInv'
  BY <1>7, HeadStays, ContextKept DEF VariableFails, R!AddVariableFails, resultSide
<1> QED
  BY <1>1, <1>2, <1>3, <1>4, <1>5, <1>6, <1>7

LEMMA StepInv == QueryInv /\ [Next]_vars => QueryInv'
  BY VariableKeeps, BeginResultsKeeps, BeginResultKeeps, BeginResultFailsKeeps,
     EndResultKeeps, BindValueKeeps, BooleanKeeps, OtherKeeps DEF Next

LEMMA InvCorrect == Spec => []QueryInv
  BY InitInv, StepInv, PTL DEF Spec

-----------------------------------------------------------------------------
(* The side of the result set: each step is one of ResultSet, or none.     *)

\* A value is bound in the last row, under a variable there is.
LEMMA BindIsResult ==
  ASSUME QueryInv, BindValue \/ BindValueCrashes
  PROVE  R!Next
<1>1. state \in P!ValueStates /\ result = 0
  BY DEF BindValue, BindValueCrashes, P!EndValue, P!Closes, P!Parsing
<1>2. Node \in Nodes /\ row.index = Len(rows)
  BY <1>1, ValueInRow
<1>3. PICK i \in DOMAIN variables : R!Bind(Len(rows), name, Node, i) \/ R!BindCrashes(name, Node, i)
  BY <1>2 DEF BindValue, BindValueCrashes
<1>4. i \in 1..MaxVariables /\ name \in Names
  <2>1. i \in 1..Len(variables) /\ variables[i] = name
    BY <1>3 DEF R!Bind, R!BindCrashes, R!FirstIndex
  <2>2. /\ variables \in Seq(Names) /\ Len(variables) \in Nat
        /\ Len(variables) <= MaxVariables /\ MaxVariables \in Nat
    BY QueryAssumption DEF QueryInv, ResultTypes
  <2>3. variables[i] \in Names
    BY <2>1, <2>2
  <2> QED
    BY <2>1, <2>2, <2>3
<1> QED
  BY <1>2, <1>3, <1>4 DEF R!Next, R!Fill

LEMMA StepIsResult == QueryInv /\ [Next]_vars => [R!Next]_(R!vars)
<1> SUFFICES ASSUME QueryInv, [Next]_vars PROVE R!Next \/ UNCHANGED R!vars
  OBVIOUS
<1> USE DEF R!Next, R!Fill
<1>0. UNCHANGED resultSide => UNCHANGED R!vars
  BY DEF resultSide, R!vars, R!arrays, R!cursor
<1>1. CASE Silent \/ Value \/ BeginResults \/ EndResult \/ BooleanFails \/ UNCHANGED vars
  <2>1. UNCHANGED resultSide
    BY <1>1 DEF Silent, Value, BeginResults, EndResult, BooleanFails, vars
  <2> QED
    BY <1>0, <2>1
<1>2. ASSUME NEW t \in Texts, Text(t) PROVE UNCHANGED R!vars
  BY <1>0, <1>2 DEF Text
<1>3. ASSUME NEW n \in Names, Variable(n) \/ VariableFails(n)
      PROVE  R!Next \/ UNCHANGED R!vars
  BY <1>0, <1>3 DEF Variable, VariableFails
<1>4. CASE Link \/ LinkFails
  BY <1>0, <1>4 DEF Link, LinkFails
<1>5. CASE BeginResult \/ BeginResultFails
  BY <1>5 DEF BeginResult, BeginResultFails
<1>6. CASE BindValue \/ BindValueCrashes
  BY <1>6, BindIsResult
<1>7. CASE BindValueFails
  BY <1>7 DEF BindValueFails
<1>8. CASE Boolean
  <2>1. R!SetBoolean(BooleanValue) /\ BooleanValue \in {0, 1}
    BY <1>8 DEF Boolean, BooleanValue
  <2> QED
    BY <2>1
<1>9. CASE Return
  BY <1>9 DEF Return
<1> QED
  BY <1>1, <1>2, <1>3, <1>4, <1>5, <1>6, <1>7, <1>8, <1>9 DEF Next

-----------------------------------------------------------------------------
(* The result set and the document.                                        *)

DocCells == {NULL} \cup {NodeOf(s, text, as) : s \in P!ValueStates, text \in Seq(Texts),
                                              as \in SUBSET Attributes}

DocTypes ==
  /\ DOMAIN doc = {"variables", "rows", "boolean", "text", "attrs", "several"}
  /\ doc.rows \in Seq([Names -> DocCells])
  /\ doc.text \in Seq(Texts) /\ doc.attrs \subseteq Attributes
  /\ doc.several \in BOOLEAN
  /\ open \in Seq(P!Elements)
  /\ values \in 0..2

InBoolean == open # <<>> /\ open[Len(open)] = "boolean"

\* The text and the attributes kept are those of the value that is open, unless the
\* binding has had one before; one element at most is a boolean, the innermost, and
\* once it is closed its text stands in buf, if nothing else.
ReadInv ==
  /\ \A k \in 1..Len(open) - 1 : open[k] # "boolean"
  /\ InBoolean => state = "BOOLEAN"
  /\ state \notin {"BINDING", "BOOLEAN"} \cup P!ValueStates => buf = <<>> /\ attrs = {}
  /\ state = "BINDING" /\ values = 0 => buf = <<>> /\ attrs = {}
  /\ state \in P!ValueStates /\ values = 0 => buf = doc.text /\ attrs = doc.attrs
  /\ state = "BOOLEAN" /\ InBoolean => buf = doc.text
  /\ state = "BOOLEAN" /\ ~InBoolean =>
       buf # <<>> /\ (P!BooleanText => doc.boolean = BooleanValue)

\* The cell of variable i: a repeated variable has its values under the first.
FirstOf(i) == \A j \in 1..i - 1 : variables[j] # variables[i]

RowsInv ==
  /\ variables = doc.variables
  /\ boolean = doc.boolean
  /\ Len(rows) = Len(doc.rows)
  /\ \A r \in DOMAIN rows : Len(rows[r]) = Len(variables)
  /\ ~doc.several =>
       \A r \in DOMAIN rows : \A i \in DOMAIN variables :
         rows[r][i] = IF FirstOf(i) THEN doc.rows[r][variables[i]] ELSE NULL

DocInv ==
  /\ DocTypes
  /\ pc = "idle" => result = 0 /\ state = "ROOT"
  /\ phase = "reading" => result = 0
  /\ result = 0 => ReadInv /\ RowsInv

\* Where each accepted element leads, and each end tag.
LEMMA EnterTable ==
  ASSUME state \in P!States, NEW el, P!Enter(el)
  PROVE  /\ result = 0 /\ open' = Append(open, el) /\ el \in P!Elements
         /\ pc' = pc /\ pc # "idle"
         /\ \/ state = "ROOT" /\ el = "sparql" /\ state' = "SPARQL"
            \/ state = "SPARQL" /\ el = "head" /\ state' = "HEAD"
            \/ state = "SPARQL" /\ el = "results" /\ state' = "RESULTS"
            \/ state = "SPARQL" /\ el = "boolean" /\ state' = "BOOLEAN"
            \/ state = "HEAD" /\ el = "link" /\ state' = "LINK"
            \/ state = "HEAD" /\ el = "variable" /\ state' = "VARIABLE"
            \/ state = "RESULTS" /\ el = "result" /\ state' = "RESULT"
            \/ state = "RESULT" /\ el = "binding" /\ state' = "BINDING"
            \/ state = "BINDING" /\ el = "uri" /\ state' = "URI"
            \/ state = "BINDING" /\ el = "literal" /\ state' = "LITERAL"
            \/ state = "BINDING" /\ el = "bnode" /\ state' = "BNODE"
<1>1. /\ state' = P!StateOf[el] /\ result = 0 /\ open' = Append(open, el)
      /\ el \in P!Children[state] /\ pc' = pc /\ pc # "idle"
  BY DEF P!Enter, P!Opens, P!Parsing, P!Expected
<1>2. P!Children[state] =
        CASE state = "ROOT"    -> {"sparql"}
          [] state = "SPARQL"  -> {"head", "results", "boolean"}
          [] state = "HEAD"    -> {"link", "variable"}
          [] state = "RESULTS" -> {"result"}
          [] state = "RESULT"  -> {"binding"}
          [] state = "BINDING" -> {"uri", "literal", "bnode"}
          [] OTHER             -> {}
  BY DEF P!Children
<1>3. \/ state = "ROOT" /\ el = "sparql"
      \/ state = "SPARQL" /\ el \in {"head", "results", "boolean"}
      \/ state = "HEAD" /\ el \in {"link", "variable"}
      \/ state = "RESULTS" /\ el = "result"
      \/ state = "RESULT" /\ el = "binding"
      \/ state = "BINDING" /\ el \in {"uri", "literal", "bnode"}
  BY <1>1, <1>2
<1>4. el \in P!Elements \ {"other"}
  BY <1>3 DEF P!Elements
<1>5. P!StateOf[el] =
        CASE el = "sparql"   -> "SPARQL"
          [] el = "head"     -> "HEAD"
          [] el = "link"     -> "LINK"
          [] el = "variable" -> "VARIABLE"
          [] el = "results"  -> "RESULTS"
          [] el = "result"   -> "RESULT"
          [] el = "binding"  -> "BINDING"
          [] el = "uri"      -> "URI"
          [] el = "literal"  -> "LITERAL"
          [] el = "bnode"    -> "BNODE"
          [] el = "boolean"  -> "BOOLEAN"
  BY <1>4 DEF P!StateOf
<1> QED
  BY <1>1, <1>3, <1>4, <1>5

LEMMA CloseTable ==
  ASSUME state \in P!States \ {"CAPTURE"}, P!Closes, open \in Seq(P!Elements)
  PROVE  /\ result = 0 /\ pc' = pc /\ pc # "idle"
         /\ open # <<>> /\ open' \in Seq(P!Elements) /\ Len(open') = Len(open) - 1
         /\ \A k \in 1..Len(open) - 1 : open'[k] = open[k]
         /\ P!Parent[state] =
              CASE state \in {"ROOT", "SPARQL"}   -> "ROOT"
                [] state \in {"HEAD", "RESULTS"}  -> "SPARQL"
                [] state \in {"LINK", "VARIABLE"} -> "HEAD"
                [] state = "RESULT"               -> "RESULTS"
                [] state = "BINDING"              -> "RESULT"
                [] state \in P!ValueStates        -> "BINDING"
                [] state = "BOOLEAN"              -> "BOOLEAN"
<1>1. /\ result = 0 /\ pc' = pc /\ pc # "idle" /\ open # <<>>
      /\ open' = SubSeq(open, 1, Len(open) - 1)
  BY DEF P!Closes, P!Parsing
<1>2. open' \in Seq(P!Elements) /\ Len(open') = Len(open) - 1
      /\ \A k \in 1..Len(open) - 1 : open'[k] = open[k]
  <2>1. Len(open) \in Nat \ {0}
    BY <1>1
  <2>2. /\ 1 \in 1..Len(open) + 1 /\ Len(open) - 1 \in 1 - 1..Len(open)
        /\ (Len(open) - 1) - 1 + 1 = Len(open) - 1
    BY <2>1
  <2> DEFINE E == P!Elements
  <2>3. open \in Seq(E)
    OBVIOUS
  <2> HIDE DEF E
  <2>4. /\ SubSeq(open, 1, Len(open) - 1) \in Seq(E)
        /\ Len(SubSeq(open, 1, Len(open) - 1)) = Len(open) - 1
        /\ \A k \in 1..Len(open) - 1 : SubSeq(open, 1, Len(open) - 1)[k] = open[k]
    BY <2>1, <2>2, <2>3, SubSeqProperties
  <2> QED
    BY <1>1, <2>4 DEF E
<1>3. P!Parent[state] =
        CASE state \in {"ROOT", "SPARQL"}   -> "ROOT"
          [] state \in {"HEAD", "RESULTS"}  -> "SPARQL"
          [] state \in {"LINK", "VARIABLE"} -> "HEAD"
          [] state = "RESULT"               -> "RESULTS"
          [] state = "BINDING"              -> "RESULT"
          [] state \in P!ValueStates        -> "BINDING"
          [] state = "BOOLEAN"              -> "BOOLEAN"
  BY DEF P!Parent
<1> QED
  BY <1>1, <1>2, <1>3

\* A start tag that holds no text.
LEMMA EnterRead ==
  ASSUME QueryTypes, DocTypes, ReadInv, NEW el, P!Enter(el),
         el \notin {"uri", "bnode", "literal", "boolean"}, UNCHANGED <<buf, attrs>>
  PROVE  ReadInv' /\ open' \in Seq(P!Elements)
<1>1. /\ open' = Append(open, el) /\ el \in P!Elements
      /\ state \in {"ROOT", "SPARQL", "HEAD", "RESULTS", "RESULT"}
      /\ state' \in {"SPARQL", "HEAD", "RESULTS", "LINK", "VARIABLE", "RESULT", "BINDING"}
  BY EnterTable DEF QueryTypes
<1>2. buf = <<>> /\ attrs = {} /\ ~InBoolean
  BY <1>1 DEF ReadInv, P!ValueStates
<1>3. /\ open' \in Seq(P!Elements) /\ Len(open') = Len(open) + 1 /\ open'[Len(open) + 1] = el
      /\ \A k \in 1..Len(open) : open'[k] = open[k]
  BY <1>1 DEF DocTypes
<1>4. \A k \in 1..Len(open) : open[k] # "boolean"
  BY <1>2 DEF ReadInv, InBoolean, DocTypes
<1>5. ~InBoolean' /\ \A k \in 1..Len(open') - 1 : open'[k] # "boolean"
  BY <1>3, <1>4 DEF InBoolean, DocTypes
<1> QED
  BY <1>1, <1>2, <1>3, <1>5 DEF ReadInv, P!ValueStates

\* The start tag of a value or of the boolean.
LEMMA EnterValue ==
  ASSUME QueryTypes, DocTypes, ReadInv, NEW el, P!Enter(el),
         el \in {"uri", "bnode", "literal", "boolean"}, UNCHANGED <<buf, values>>,
         NEW as, as \subseteq Attributes, attrs' = attrs \cup as,
         el # "literal" => as = {}, ReadValueStart(as)
  PROVE  ReadInv' /\ DocTypes'
<1>1. /\ open' = Append(open, el) /\ el \in P!Elements
      /\ state \in {"BINDING", "SPARQL"} /\ (el = "boolean" <=> state = "SPARQL")
      /\ state' \in P!ValueStates \cup {"BOOLEAN"} /\ (el = "boolean" <=> state' = "BOOLEAN")
  BY EnterTable DEF QueryTypes, P!ValueStates
<1>2. ~InBoolean /\ (state = "SPARQL" \/ values = 0 => buf = <<>> /\ attrs = {})
  BY <1>1 DEF ReadInv, P!ValueStates
<1>3. /\ open' \in Seq(P!Elements) /\ Len(open') = Len(open) + 1 /\ open'[Len(open) + 1] = el
      /\ \A k \in 1..Len(open) : open'[k] = open[k]
  BY <1>1 DEF DocTypes
<1>4. \A k \in 1..Len(open) : open[k] # "boolean"
  BY <1>2 DEF ReadInv, InBoolean, DocTypes
<1>5. (InBoolean' <=> el = "boolean") /\ \A k \in 1..Len(open') - 1 : open'[k] # "boolean"
  <2>1. Len(open) \in Nat /\ open' # <<>>
    BY <1>3 DEF DocTypes
  <2>2. open'[Len(open')] = el /\ Len(open') - 1 = Len(open)
    BY <1>3, <2>1
  <2>3. InBoolean' <=> el = "boolean"
    BY <2>1, <2>2 DEF InBoolean
  <2> QED
    BY <1>3, <1>4, <2>2, <2>3
<1>6. /\ doc'.text = <<>> /\ doc'.attrs = as /\ doc'.rows = doc.rows /\ doc'.several = doc.several
      /\ DOMAIN doc' = DOMAIN doc
  BY DEF ReadValueStart, DocTypes
<1>7. DocTypes'
  <2>1. <<>> \in Seq(Texts)
    OBVIOUS
  <2> QED
    BY <1>3, <1>6, <2>1 DEF DocTypes
<1> QED
  BY <1>1, <1>2, <1>3, <1>5, <1>6, <1>7 DEF ReadInv, P!ValueStates

\* An end tag that holds no text, or that ends the binding.
LEMMA CloseRead ==
  ASSUME QueryTypes, DocTypes, ReadInv, P!Closes, state' = P!Parent[state],
         \/ /\ state \in {"ROOT", "SPARQL", "HEAD", "LINK", "VARIABLE", "RESULTS", "RESULT"}
            /\ UNCHANGED <<buf, attrs>>
         \/ state = "BINDING" /\ buf' = <<>> /\ attrs' = {}
         \/ state \in P!ValueStates /\ values' > 0
  PROVE  ReadInv' /\ open' \in Seq(P!Elements)
<1>1. state \in P!States \ {"CAPTURE"}
  BY DEF P!States, P!ValueStates
<1>2. /\ open # <<>> /\ open' \in Seq(P!Elements) /\ Len(open') = Len(open) - 1
      /\ \A k \in 1..Len(open) - 1 : open'[k] = open[k]
      /\ \/ /\ state \in {"ROOT", "SPARQL", "HEAD", "LINK", "VARIABLE", "RESULTS", "RESULT"}
            /\ state' \in {"ROOT", "SPARQL", "HEAD", "RESULTS"}
         \/ state = "BINDING" /\ state' = "RESULT"
         \/ state \in P!ValueStates /\ state' = "BINDING"
  BY <1>1, CloseTable DEF DocTypes, P!ValueStates
<1>3. \A k \in 1..Len(open') : open'[k] # "boolean"
  BY <1>2 DEF ReadInv
<1>4. ~InBoolean' /\ \A k \in 1..Len(open') - 1 : open'[k] # "boolean"
  <2>1. Len(open') \in Nat /\ (open' # <<>> => Len(open') \in 1..Len(open'))
    BY <1>2
  <2> QED
    BY <1>3, <2>1 DEF InBoolean
<1>5. state \notin {"BINDING", "BOOLEAN"} \cup P!ValueStates => buf = <<>> /\ attrs = {}
  BY DEF ReadInv
<1> QED
  BY <1>2, <1>4, <1>5 DEF ReadInv, P!ValueStates

\* Nothing that is said of the text changes.
LEMMA SameRead ==
  ASSUME ReadInv, UNCHANGED <<buf, attrs, open, values, doc>>,
         state' = state \/ (state \in {"ROOT", "CAPTURE"} /\ state' = "CAPTURE")
  PROVE  ReadInv'
  BY DEF ReadInv, InBoolean, BooleanValue, P!BooleanText, P!ValueStates

\* The rows and the document stay as they are.
LEMMA SameRows == ASSUME RowsInv, UNCHANGED <<variables, rows, boolean, doc>> PROVE RowsInv'
  BY DEF RowsInv, FirstOf

LEMMA SameTypes ==
  ASSUME DocTypes, UNCHANGED doc, open' \in Seq(P!Elements), values' \in {0, values}
  PROVE  DocTypes'
  BY DEF DocTypes

\* What a start tag that only opens leaves well typed.
LEMMA OpenTypes ==
  ASSUME DocTypes, NEW el \in P!Elements, open' = Append(open, el)
  PROVE  open' \in Seq(P!Elements)
  BY DEF DocTypes

LEMMA SilentDoc == ASSUME QueryInv, DocInv, Silent PROVE DocInv'
<1>0. UNCHANGED <<phase, variables, rows, boolean, doc>> /\ phase = "filling"
  BY DEF Silent, resultSide, Running
<1> USE DEF QueryInv
<1>1. ASSUME /\ DocTypes' /\ pc' # "idle"
             /\ result' = 0 => result = 0 /\ ReadInv'
      PROVE  DocInv'
  BY <1>0, <1>1, SameRows DEF DocInv
<1>2. CASE P!Perform
  <2>1. result = 0 /\ state = "ROOT"
    BY <1>2 DEF P!Perform, DocInv
  <2>2. UNCHANGED <<state, buf, attrs, open, values>>
    BY <1>2, <2>1 DEF P!Perform, P!parser
  <2> QED
    BY <1>0, <1>1, <1>2, <2>1, <2>2, SameRead, SameTypes DEF P!Perform, DocInv, DocTypes
<1>3. CASE \/ P!Refuse \/ P!NoContentType \/ P!Parse \/ P!EndChunk \/ P!EndDocument \/ P!Malformed
           \/ P!StartUnqualified \/ \E ok \in BOOLEAN : P!TransferEnds(ok)
  <2>1. UNCHANGED <<state, buf, attrs, open, values>> /\ pc' # "idle" /\ (result' = 0 => result = 0)
    BY <1>3 DEF P!Refuse, P!NoContentType, P!Parse, P!EndChunk, P!EndDocument, P!Malformed,
       P!StartUnqualified, P!TransferEnds, P!query, P!parser, P!AfterWrite, P!Parsing
  <2> QED
    BY <1>0, <1>1, <2>1, SameRead, SameTypes DEF DocInv, DocTypes
<1>4. ASSUME NEW ok \in BOOLEAN, P!Capture(ok) PROVE DocInv'
  <2>1. /\ UNCHANGED <<result, buf, attrs, open, values>> /\ pc' # "idle"
        /\ state \in {"ROOT", "CAPTURE"} /\ state' = "CAPTURE"
    BY <1>4 DEF P!Capture, P!parser, P!AfterWrite, P!IsPlain
  <2> QED
    BY <1>0, <1>1, <2>1, SameRead, SameTypes DEF DocInv, DocTypes
<1>5. ASSUME NEW el \in P!Elements, P!StartRejected(el) PROVE DocInv'
  <2>1. result' # 0 /\ open' = Append(open, el) /\ UNCHANGED values /\ pc' # "idle"
    BY <1>5 DEF P!StartRejected, P!Opens, P!Parsing
  <2> QED
    BY <1>0, <1>1, <2>1, OpenTypes, SameTypes DEF DocInv
<1>6. ASSUME NEW el, P!Enter(el), el \in {"sparql", "head", "variable", "link", "binding"},
             UNCHANGED <<buf, attrs>>, values' \in {0, values}
      PROVE  DocInv'
  <2>1. result = 0 /\ open' = Append(open, el) /\ el \in P!Elements /\ pc' # "idle"
    BY <1>6, EnterTable DEF QueryTypes
  <2> QED
    BY <1>0, <1>1, <1>6, <2>1, EnterRead, OpenTypes, SameTypes DEF DocInv
<1>7. ASSUME NEW el \in {"sparql", "head"}, P!StartPlain(el) PROVE DocInv'
  BY <1>6, <1>7 DEF P!StartPlain
<1>8. CASE P!StartVariable(NULL, TRUE) \/ P!StartLink(FALSE, TRUE)
  BY <1>6, <1>8 DEF P!StartVariable, P!StartLink
<1>9. ASSUME NEW n \in Names \cup {NULL}, NEW ok \in BOOLEAN, P!StartBinding(n, ok) PROVE DocInv'
  BY <1>6, <1>9 DEF P!StartBinding
<1>10. CASE P!EndPlain \/ P!EndBinding
  <2>1. /\ P!Closes /\ state' = P!Parent[state] /\ values' \in {0, values} /\ result' = result
        /\ \/ /\ state \in {"ROOT", "SPARQL", "HEAD", "LINK", "VARIABLE"}
              /\ UNCHANGED <<buf, attrs>>
           \/ state = "BINDING" /\ buf' = <<>> /\ attrs' = {}
    BY <1>10 DEF P!EndPlain, P!EndBinding
  <2>2. /\ result = 0 /\ pc' # "idle" /\ open' \in Seq(P!Elements)
    BY <2>1, CloseTable DEF P!States, P!ValueStates, DocInv, DocTypes
  <2> QED
    BY <1>0, <1>1, <2>1, <2>2, CloseRead, SameTypes DEF DocInv
<1>11. CASE P!RejectBoolean \/ \E t \in Texts : P!Characters(t, FALSE)
  <2>1. CASE P!RejectBoolean
    <3>1. P!Closes /\ state = "BOOLEAN" /\ result' # 0 /\ UNCHANGED values
      BY <2>1 DEF P!RejectBoolean
    <3>2. pc' # "idle" /\ open' \in Seq(P!Elements)
      BY <3>1, CloseTable DEF P!States, DocInv, DocTypes
    <3> QED
      BY <1>0, <1>1, <3>1, <3>2, SameTypes DEF DocInv
  <2>2. CASE \E t \in Texts : P!Characters(t, FALSE)
    <3>1. result' # 0 /\ UNCHANGED <<open, values>> /\ pc' # "idle"
      BY <2>2 DEF P!Characters, P!Outcome, P!parser, P!Parsing
    <3> QED
      BY <1>0, <1>1, <3>1, SameTypes DEF DocInv, DocTypes
  <2> QED
    BY <1>11, <2>1, <2>2
<1> QED
  BY <1>2, <1>3, <1>4, <1>5, <1>7, <1>8, <1>9, <1>10, <1>11 DEF Silent

LEMMA ValueDoc == ASSUME QueryInv, DocInv, Value PROVE DocInv'
<1>0. UNCHANGED <<phase, variables, rows, boolean>> /\ phase = "filling"
  BY DEF Value, resultSide, Running
<1> USE DEF QueryInv
<1>1. ASSUME NEW as, as \subseteq Attributes, ReadValueStart(as), NEW el, P!Enter(el),
             el \in {"uri", "bnode", "literal", "boolean"}, UNCHANGED <<buf, values>>,
             result' = 0 => attrs' = attrs \cup as, el # "literal" => as = {}
      PROVE  DocInv'
  <2>1. result = 0 /\ open' = Append(open, el) /\ el \in P!Elements /\ pc' # "idle"
    BY <1>1, EnterTable DEF QueryTypes
  <2>2. /\ doc'.text = <<>> /\ doc'.attrs = as /\ DOMAIN doc' = DOMAIN doc
        /\ doc'.variables = doc.variables /\ doc'.rows = doc.rows
        /\ doc'.boolean = doc.boolean /\ doc'.several = doc.several
    BY <1>1 DEF ReadValueStart, DocInv, DocTypes
  <2>3. DocTypes'
    <3>1. <<>> \in Seq(Texts)
      OBVIOUS
    <3> QED
      BY <1>1, <2>1, <2>2, <3>1, OpenTypes DEF DocInv, DocTypes
  <2>4. RowsInv'
    BY <1>0, <2>1, <2>2 DEF DocInv, RowsInv, FirstOf
  <2>5. result' = 0 => ReadInv'
    BY <1>1, <2>1, EnterValue DEF DocInv
  <2> QED
    BY <1>0, <2>1, <2>3, <2>4, <2>5 DEF DocInv
<1>2. ASSUME NEW el \in {"uri", "bnode", "boolean"}, P!StartPlain(el), ReadValueStart({})
      PROVE  DocInv'
  BY <1>1, <1>2 DEF P!StartPlain
<1>3. ASSUME NEW stored \in SUBSET Attributes,
             NEW failed \in {{}} \cup {{a} : a \in Attributes \ stored},
             P!StartLiteral(stored, failed), ReadValueStart(stored)
      PROVE  DocInv'
  <2>1. result' = 0 => failed = {}
    BY <1>3 DEF P!StartLiteral, P!Outcome
  <2> QED
    BY <1>1, <1>3, <2>1 DEF P!StartLiteral
<1> QED
  BY <1>2, <1>3 DEF Value

\* A text is appended to what is kept and to what is read.
LEMMA TextDoc == ASSUME QueryInv, DocInv, NEW t \in Texts, Text(t) PROVE DocInv'
<1>1. /\ UNCHANGED <<phase, variables, rows, boolean, state, attrs, open, values>>
      /\ phase = "filling" /\ result = 0 /\ pc' # "idle"
      /\ buf' = Append(buf, t) /\ state \in P!ValueStates \cup {"BOOLEAN"}
  BY DEF Text, resultSide, Running, P!Characters, P!Parsing, P!parser
<1>2. /\ doc'.text = Append(doc.text, t) /\ DOMAIN doc' = DOMAIN doc
      /\ doc'.variables = doc.variables /\ doc'.rows = doc.rows
      /\ doc'.boolean = doc.boolean /\ doc'.several = doc.several /\ doc'.attrs = doc.attrs
  BY DEF Text, ReadText, DocInv, DocTypes
<1>3. DocTypes'
  BY <1>1, <1>2 DEF DocInv, DocTypes
<1>4. RowsInv'
  BY <1>1, <1>2 DEF DocInv, RowsInv, FirstOf
<1>5. buf \in Seq(Texts) /\ Len(buf) \in Nat /\ buf' \in Seq(Texts) /\ Len(buf') = Len(buf) + 1
  BY <1>1 DEF QueryInv, QueryTypes
<1>6. buf # <<>> => ~P!BooleanText'
  <2>1. \A b \in {<<"true">>, <<"false">>} : Len(b) = 1
    OBVIOUS
  <2>2. buf # <<>> => Len(buf) # 0
    BY <1>5, EmptySeq
  <2>3. buf # <<>> => Len(buf') # 1
    BY <1>5, <2>2
  <2> QED
    BY <2>1, <2>3 DEF P!BooleanText
<1>7. buf' # <<>>
  BY <1>5
<1>8. ReadInv'
  BY <1>1, <1>2, <1>6, <1>7 DEF DocInv, ReadInv, InBoolean, P!ValueStates
<1> QED
  BY <1>1, <1>3, <1>4, <1>8 DEF DocInv

LEMMA VariableDoc == ASSUME QueryInv, DocInv, NEW n \in Names, Variable(n) PROVE DocInv'
<1>1. /\ P!Enter("variable") /\ UNCHANGED <<buf, attrs, values>>
      /\ phase' = phase /\ phase = "filling" /\ UNCHANGED <<rows, boolean>>
      /\ rows = <<>> /\ variables' = Append(variables, n)
  BY DEF Variable, P!StartVariable, R!AddVariable, Running
<1>2. /\ DOMAIN doc' = DOMAIN doc /\ doc'.variables = Append(doc.variables, n)
      /\ doc'.rows = doc.rows /\ doc'.text = doc.text /\ doc'.attrs = doc.attrs
      /\ doc'.boolean = doc.boolean /\ doc'.several = doc.several
  BY DEF Variable, ReadVariable, DocInv, DocTypes
<1>3. result = 0 /\ pc' # "idle"
  BY <1>1, EnterTable DEF QueryInv, QueryTypes
<1>4. ReadInv' /\ open' \in Seq(P!Elements)
  BY <1>1, <1>3, EnterRead DEF QueryInv, DocInv
<1>5. RowsInv'
  BY <1>1, <1>2, <1>3 DEF DocInv, RowsInv
<1>6. DocTypes'
  BY <1>1, <1>2, <1>4 DEF DocInv, DocTypes
<1> QED
  BY <1>1, <1>3, <1>4, <1>5, <1>6 DEF DocInv

\* The other start tags with a callback, and what fails in them.
LEMMA EnterDoc ==
  ASSUME QueryInv, DocInv, UNCHANGED <<phase, variables, rows, boolean, doc>>, phase = "filling",
         NEW el, P!Enter(el), el \in {"variable", "link", "results", "result"},
         UNCHANGED <<buf, attrs, values>>
  PROVE  DocInv'
<1>1. result = 0 /\ pc' # "idle"
  BY EnterTable DEF QueryInv, QueryTypes
<1>2. ReadInv' /\ open' \in Seq(P!Elements)
  BY <1>1, EnterRead DEF QueryInv, DocInv
<1> QED
  BY <1>1, <1>2, SameRows, SameTypes DEF DocInv

LEMMA FailDoc ==
  ASSUME QueryInv, DocInv,
         \/ \E n \in Names : VariableFails(n)
         \/ Link \/ LinkFails \/ BeginResults \/ BeginResultFails
  PROVE  DocInv'
<1>1. /\ UNCHANGED <<phase, variables, rows, boolean, doc>> /\ phase = "filling"
      /\ UNCHANGED <<buf, attrs, values>>
      /\ \E el \in {"variable", "link", "results", "result"} : P!Enter(el)
  BY DEF VariableFails, Link, LinkFails, BeginResults, BeginResultFails, Running, resultSide,
     P!StartVariable, P!StartLink, P!StartRows, R!AddVariableFails, R!AddLink, R!AddLinkFails,
     R!CreateRowFails, R!arrays
<1> QED
  BY <1>1, EnterDoc

\* A row with nothing in it, of the document and of the result set.
LEMMA BeginResultDoc == ASSUME QueryInv, DocInv, BeginResult PROVE DocInv'
<1>1. /\ P!Enter("result") /\ UNCHANGED <<buf, attrs, values>>
      /\ phase' = phase /\ phase = "filling" /\ UNCHANGED <<variables, boolean>>
      /\ rows' = Append(rows, R!EmptyRow)
  BY DEF BeginResult, P!StartRows, R!CreateRow, Running
<1>2. /\ DOMAIN doc' = DOMAIN doc /\ doc'.rows = Append(doc.rows, Unbound)
      /\ doc'.variables = doc.variables /\ doc'.text = doc.text /\ doc'.attrs = doc.attrs
      /\ doc'.boolean = doc.boolean /\ doc'.several = doc.several
  BY DEF BeginResult, ReadRow, DocInv, DocTypes
<1>3. result = 0 /\ pc' # "idle"
  BY <1>1, EnterTable DEF QueryInv, QueryTypes
<1>4. ReadInv' /\ open' \in Seq(P!Elements)
  <2>1. ReadInv /\ DocTypes
    BY <1>3 DEF DocInv
  <2> QED
    BY <1>1, <2>1, EnterRead DEF QueryInv
<1>5. Unbound \in [Names -> DocCells] /\ \A n \in Names : Unbound[n] = NULL
  BY DEF Unbound, DocCells
<1>6. DocTypes'
  <2> DEFINE DocRows == [Names -> DocCells]
  <2>1. doc.rows \in Seq(DocRows) /\ Unbound \in DocRows
    BY <1>5 DEF DocInv, DocTypes
  <2> HIDE DEF DocRows
  <2>2. Append(doc.rows, Unbound) \in Seq(DocRows)
    BY <2>1
  <2> QED
    BY <1>1, <1>2, <1>4, <2>2 DEF DocInv, DocTypes, DocRows
<1>7. RowsInv'
  <2>1. /\ rows \in Seq(Seq(Cells)) /\ variables \in Seq(Names)
        /\ doc.rows \in Seq([Names -> DocCells])
    BY DEF QueryInv, ResultTypes, DocInv, DocTypes
  <2>2. /\ Len(rows) \in Nat /\ Len(rows') = Len(rows) + 1 /\ rows'[Len(rows) + 1] = R!EmptyRow
        /\ \A r \in 1..Len(rows) : rows'[r] = rows[r]
        /\ DOMAIN rows = 1..Len(rows) /\ DOMAIN rows' = 1..Len(rows) + 1
    BY <1>1, <2>1
  <2>3. Len(doc.rows) = Len(rows) /\ RowsInv
    BY <1>3 DEF DocInv, RowsInv
  <2>4. /\ Len(doc'.rows) = Len(rows) + 1 /\ doc'.rows[Len(rows) + 1] = Unbound
        /\ \A r \in 1..Len(rows) : doc'.rows[r] = doc.rows[r]
    BY <1>2, <2>1, <2>2, <2>3
  <2>5. /\ Len(R!EmptyRow) = Len(variables) /\ DOMAIN variables = 1..Len(variables)
        /\ \A i \in DOMAIN variables : R!EmptyRow[i] = NULL /\ variables[i] \in Names
    BY <2>1 DEF R!EmptyRow
  <2>6. \A i : FirstOf(i)' <=> FirstOf(i)
    BY <1>1 DEF FirstOf
  <2>7. \A r \in DOMAIN rows' : r \in DOMAIN rows \/ r = Len(rows) + 1
    BY <2>2
  <2>8. ASSUME ~doc'.several, NEW r \in DOMAIN rows', NEW i \in DOMAIN variables
        PROVE  rows'[r][i] = IF FirstOf(i) THEN doc'.rows[r][variables[i]] ELSE NULL
    <3>1. CASE r \in DOMAIN rows
      BY <1>2, <2>2, <2>3, <2>4, <2>8, <3>1 DEF RowsInv
    <3>2. CASE r = Len(rows) + 1
      BY <1>5, <2>2, <2>4, <2>5, <2>8, <3>2
    <3> QED
      BY <2>7, <2>8, <3>1, <3>2
  <2>9. \A r \in DOMAIN rows' : Len(rows'[r]) = Len(variables)
    BY <2>2, <2>3, <2>5, <2>7 DEF RowsInv
  <2> QED
    BY <1>1, <1>2, <2>2, <2>3, <2>4, <2>6, <2>8, <2>9 DEF RowsInv
<1> QED
  BY <1>1, <1>3, <1>4, <1>6, <1>7 DEF DocInv


\* </result> and </results>.
LEMMA EndResultDoc == ASSUME QueryInv, DocInv, EndResult PROVE DocInv'
<1>1. /\ P!Closes /\ state' = P!Parent[state] /\ state \in {"RESULTS", "RESULT"}
      /\ UNCHANGED <<buf, attrs, values>>
      /\ UNCHANGED <<phase, variables, rows, boolean, doc>> /\ phase = "filling"
  BY DEF EndResult, P!EndRows, resultSide, Running
<1>2. result = 0 /\ pc' # "idle"
  BY <1>1, CloseTable DEF P!States, DocInv, DocTypes
<1>3. ReadInv' /\ open' \in Seq(P!Elements)
  BY <1>1, <1>2, CloseRead DEF QueryInv, DocInv
<1> QED
  BY <1>1, <1>2, <1>3, SameRows, SameTypes DEF DocInv

\* The cell of the open row and of the first variable of the binding's name gets what
\* the document binds that name to in its last row.
LEMMA BindRows ==
  ASSUME QueryTypes, ResultTypes, DocTypes, RowsInv, values \in Nat, name \in Names,
         NEW i, R!Bind(Len(rows), name, NodeOf(state, buf, attrs), i), ReadValue,
         values = 0 => buf = doc.text /\ attrs = doc.attrs,
         state \in P!ValueStates
  PROVE  RowsInv' /\ DOMAIN doc' = DOMAIN doc /\ doc'.rows \in Seq([Names -> DocCells])
         /\ doc'.text = <<>> /\ doc'.attrs = {} /\ doc'.several \in BOOLEAN
<1> DEFINE last == Len(rows)
           said == NodeOf(state, doc.text, doc.attrs)
           newcells == [rows[last] EXCEPT ![i] = NodeOf(state, buf, attrs)]
           newdoc == [doc.rows[last] EXCEPT ![name] = said]
           DocRows == [Names -> DocCells]
           AllRows == Seq(Cells)
<1>1. /\ last \in DOMAIN rows /\ i \in 1..Len(variables) /\ variables[i] = name
      /\ \A j \in 1..i - 1 : variables[j] # name
      /\ UNCHANGED <<variables, boolean>>
      /\ rows' = [rows EXCEPT ![last] = newcells]
  BY DEF R!Bind, R!FirstIndex
<1>2. Len(doc.rows) = last
  BY DEF RowsInv
<1>3. /\ doc' = [doc EXCEPT !.rows = [doc.rows EXCEPT ![last] = newdoc],
                            !.text = <<>>, !.attrs = {}, !.several = doc.several \/ values > 0]
  BY <1>2 DEF ReadValue
<1>4. /\ rows \in Seq(AllRows) /\ doc.rows \in Seq(DocRows) /\ variables \in Seq(Names)
      /\ last \in 1..Len(rows) /\ last \in Nat
  BY <1>1 DEF ResultTypes, DocTypes
<1>5. said \in DocCells
  BY DEF DocCells, DocTypes
<1>6. doc.rows[last] \in DocRows /\ newdoc \in DocRows
  <2>1. doc.rows[last] \in DocRows
    BY <1>2, <1>4
  <2> QED
    BY <1>5, <2>1
<1>7. rows[last] \in AllRows /\ Len(rows[last]) = Len(variables)
  BY <1>1, <1>4 DEF RowsInv
<1>8. Len(newcells) = Len(variables)
  <2>1. DOMAIN newcells = DOMAIN rows[last] /\ DOMAIN rows[last] = 1..Len(variables)
    BY <1>7
  <2>2. Len(variables) \in Nat
    BY <1>4
  <2> QED
    BY <1>7, <2>1, <2>2
<1>9. \A k \in DOMAIN variables : newcells[k] = IF k = i THEN NodeOf(state, buf, attrs) ELSE rows[last][k]
  BY <1>1, <1>7
<1>10. \A n \in Names : newdoc[n] = IF n = name THEN said ELSE doc.rows[last][n]
  BY <1>6
<1>11. /\ DOMAIN doc' = DOMAIN doc /\ doc'.rows = [doc.rows EXCEPT ![last] = newdoc]
       /\ doc'.text = <<>> /\ doc'.attrs = {} /\ doc'.several = (doc.several \/ values > 0)
       /\ doc'.variables = doc.variables /\ doc'.boolean = doc.boolean
  BY <1>3 DEF DocTypes
<1>12. \A k \in 1..Len(variables) : FirstOf(k) /\ variables[k] = name <=> k = i
  <2>1. ASSUME NEW k \in 1..Len(variables), FirstOf(k), variables[k] = name PROVE k = i
    <3>1. ~(i < k)
      BY <1>1, <2>1 DEF FirstOf
    <3>2. ~(k < i)
      BY <1>1, <2>1
    <3> QED
      BY <1>1, <3>1, <3>2
  <2>2. FirstOf(i) /\ variables[i] = name
    BY <1>1 DEF FirstOf
  <2> QED
    BY <2>1, <2>2
<1> HIDE DEF newcells, newdoc, DocRows, AllRows, said
<1>13. /\ DOMAIN rows' = DOMAIN rows /\ Len(rows') = last
       /\ \A r \in DOMAIN rows : rows'[r] = IF r = last THEN newcells ELSE rows[r]
  <2> DEFINE Any == AllRows \cup {newcells}
  <2>1. rows \in Seq(Any) /\ newcells \in Any
    BY <1>4
  <2> HIDE DEF Any
  <2>2. /\ rows' \in Seq(Any) /\ Len(rows') = last
        /\ \A r \in 1..last : rows'[r] = IF r = last THEN newcells ELSE rows[r]
    BY <1>1, <1>4, <2>1, ExceptSeq
  <2> QED
    BY <1>4, <2>2
<1>14. /\ Len([doc.rows EXCEPT ![last] = newdoc]) = last
       /\ [doc.rows EXCEPT ![last] = newdoc] \in Seq(DocRows)
       /\ \A r \in 1..last : [doc.rows EXCEPT ![last] = newdoc][r] = IF r = last THEN newdoc ELSE doc.rows[r]
  BY <1>2, <1>4, <1>6, ExceptSeq
<1>15. \A k : FirstOf(k)' <=> FirstOf(k)
  BY <1>1 DEF FirstOf
<1>16. \A r \in DOMAIN rows' : Len(rows'[r]) = Len(variables)
  BY <1>8, <1>13 DEF RowsInv
<1>17. ASSUME ~doc'.several, NEW r \in DOMAIN rows', NEW k \in DOMAIN variables
       PROVE  rows'[r][k] = IF FirstOf(k) THEN doc'.rows[r][variables[k]] ELSE NULL
  <2>1. ~doc.several /\ buf = doc.text /\ attrs = doc.attrs
    <3>1. ~doc.several /\ ~(values > 0)
      BY <1>11, <1>17, Zenon
    <3> QED
      BY <3>1
  <2>2. rows[r][k] = IF FirstOf(k) THEN doc.rows[r][variables[k]] ELSE NULL
    BY <1>13, <1>17, <2>1 DEF RowsInv
  <2>3. variables[k] \in Names /\ k \in 1..Len(variables) /\ r \in 1..last
    BY <1>4, <1>13, <1>17
  <2>4. CASE r # last
    BY <1>11, <1>13, <1>14, <1>17, <2>2, <2>3, <2>4
  <2>5. CASE r = last
    <3>1. rows'[r][k] = IF k = i THEN said ELSE rows[last][k]
      BY <1>9, <1>13, <1>17, <2>1, <2>5 DEF said
    <3>2. doc'.rows[r][variables[k]] = IF variables[k] = name THEN said ELSE doc.rows[last][variables[k]]
      BY <1>10, <1>11, <1>14, <2>3, <2>5
    <3> QED
      BY <1>12, <2>2, <2>3, <2>5, <3>1, <3>2
  <2> QED
    BY <2>4, <2>5
<1>18. RowsInv'
  BY <1>1, <1>11, <1>13, <1>14, <1>15, <1>16, <1>17 DEF RowsInv
<1>19. (doc.several \/ values > 0) \in BOOLEAN
  OBVIOUS
<1> QED
  BY <1>11, <1>14, <1>18, <1>19 DEF DocRows

LEMMA BindValueDoc == ASSUME QueryInv, DocInv, BindValue PROVE DocInv'
<1>1. /\ P!Closes /\ state' = P!Parent[state] /\ state \in P!ValueStates
      /\ UNCHANGED <<buf, attrs>> /\ result' = P!Outcome(TRUE)
      /\ values' = IF values < 2 THEN values + 1 ELSE values
      /\ phase = "filling" /\ phase' = phase
  BY DEF BindValue, P!EndValue, Running, R!Bind
<1>2. /\ result = 0 /\ pc' # "idle" /\ result' = 0
  BY <1>1, CloseTable DEF P!States, P!ValueStates, DocInv, DocTypes, P!Outcome
<1>3. values \in 0..2 /\ values' \in 1..2
  BY <1>1 DEF DocInv, DocTypes
<1>4. row.index = Len(rows)
  BY <1>1, <1>2, ValueInRow
<1>5. PICK i : R!Bind(Len(rows), name, NodeOf(state, buf, attrs), i)
  BY <1>4 DEF BindValue, Node
<1>6. name \in Names
  <2>1. Node \in Nodes
    BY <1>1, <1>2, ValueInRow
  <2> QED
    BY <1>5, <2>1, CellWritten DEF QueryInv, Node
<1>7. values = 0 => buf = doc.text /\ attrs = doc.attrs
  BY <1>1, <1>2 DEF DocInv, ReadInv
<1>8. RowsInv' /\ DOMAIN doc' = DOMAIN doc /\ doc'.rows \in Seq([Names -> DocCells])
      /\ doc'.text = <<>> /\ doc'.attrs = {} /\ doc'.several \in BOOLEAN
  BY <1>1, <1>2, <1>3, <1>5, <1>6, <1>7, BindRows DEF QueryInv, DocInv, BindValue
<1>9. ReadInv' /\ open' \in Seq(P!Elements)
  BY <1>1, <1>2, <1>3, CloseRead DEF QueryInv, DocInv
<1>10. DocTypes'
  <2>1. <<>> \in Seq(Texts)
    OBVIOUS
  <2> QED
    BY <1>3, <1>8, <1>9, <2>1 DEF DocInv, DocTypes
<1> QED
  BY <1>1, <1>2, <1>8, <1>9, <1>10 DEF DocInv

\* A value or a boolean that cannot be kept: the query has failed, or crashed.
LEMMA EndFailsDoc ==
  ASSUME QueryInv, DocInv, BindValueFails \/ BindValueCrashes \/ BooleanFails
  PROVE  DocInv'
<1>1. CASE BindValueFails \/ BooleanFails
  <2>1. /\ P!Closes /\ state \in P!ValueStates \cup {"BOOLEAN"} /\ result' = P!Outcome(FALSE)
        /\ values' = values
        /\ UNCHANGED <<phase, doc>> /\ phase = "filling"
    BY <1>1 DEF BindValueFails, BooleanFails, P!EndValue, P!EndBoolean, R!BindFails, resultSide, Running
  <2>2. pc' # "idle" /\ open' \in Seq(P!Elements) /\ result' # 0
    BY <2>1, CloseTable DEF P!States, P!ValueStates, P!Outcome, DocInv, DocTypes
  <2> QED
    BY <2>1, <2>2, SameTypes DEF DocInv
<1>2. CASE BindValueCrashes
  <2>1. /\ phase' = "crashed" /\ UNCHANGED <<variables, rows, boolean, doc>>
        /\ UNCHANGED querySide
    BY <1>2 DEF BindValueCrashes, R!BindCrashes, R!arrays
  <2>2. UNCHANGED <<pc, state, result, buf, attrs, open, values>>
    BY <2>1 DEF querySide
  <2> QED
    BY <2>1, <2>2, SameRead, SameRows, SameTypes DEF DocInv, DocTypes
<1> QED
  BY <1>1, <1>2

\* An end tag after the text of the boolean: its own, or one of those around it, which
\* say the same once more.
LEMMA BooleanDoc == ASSUME QueryInv, DocInv, Boolean PROVE DocInv'
<1>1. /\ P!Closes /\ state = "BOOLEAN" /\ state' = P!Parent[state] /\ P!BooleanText
      /\ UNCHANGED <<buf, attrs, values>> /\ result' = P!Outcome(TRUE)
      /\ phase = "filling" /\ phase' = phase /\ UNCHANGED <<variables, rows>>
      /\ boolean' = BooleanValue /\ ReadBoolean
  BY DEF Boolean, P!EndBoolean, Running, R!SetBoolean
<1>2. /\ result = 0 /\ pc' # "idle" /\ result' = 0 /\ state' = "BOOLEAN"
      /\ open # <<>> /\ open' \in Seq(P!Elements) /\ Len(open') = Len(open) - 1
      /\ \A k \in 1..Len(open) - 1 : open'[k] = open[k]
  BY <1>1, CloseTable DEF P!States, P!ValueStates, DocInv, DocTypes, P!Outcome
<1>3. /\ DOMAIN doc' = DOMAIN doc /\ doc'.rows = doc.rows /\ doc'.attrs = doc.attrs
      /\ doc'.several = doc.several /\ doc'.variables = doc.variables
      /\ doc'.text \in {doc.text, <<>>}
      /\ doc'.boolean = IF InBoolean THEN IF doc.text = <<"true">> THEN 1 ELSE 0
                                     ELSE doc.boolean
  BY <1>1, <1>2 DEF ReadBoolean, InBoolean, DocInv, DocTypes
<1>4. doc'.boolean = BooleanValue
  BY <1>1, <1>2, <1>3 DEF DocInv, ReadInv, BooleanValue
<1>5. RowsInv'
  BY <1>1, <1>2, <1>3, <1>4 DEF DocInv, RowsInv, FirstOf
<1>6. DocTypes'
  <2>1. <<>> \in Seq(Texts)
    OBVIOUS
  <2> QED
    BY <1>1, <1>2, <1>3, <2>1 DEF DocInv, DocTypes
<1>7. ReadInv'
  <2>1. \A k \in 1..Len(open') : open'[k] # "boolean"
    BY <1>2 DEF DocInv, ReadInv
  <2>2. ~InBoolean' /\ \A k \in 1..Len(open') - 1 : open'[k] # "boolean"
    <3>1. Len(open') \in Nat /\ (open' # <<>> => Len(open') \in 1..Len(open'))
      BY <1>2
    <3> QED
      BY <2>1, <3>1 DEF InBoolean
  <2>3. buf # <<>> /\ BooleanValue' = BooleanValue
    BY <1>1 DEF P!BooleanText, BooleanValue
  <2> QED
    BY <1>1, <1>2, <1>4, <2>2, <2>3 DEF ReadInv, P!ValueStates
<1> QED
  BY <1>1, <1>2, <1>5, <1>6, <1>7 DEF DocInv

\* Only a query that has not failed returns its result set.
LEMMA ReturnDoc == ASSUME QueryInv, DocInv, Return PROVE DocInv'
<1>1. /\ UNCHANGED <<state, result, buf, attrs, open, values, variables, rows, boolean, doc>>
      /\ pc' = "returned" /\ (phase' = "reading" => result = 0)
  BY DEF Return, P!Report, P!query, P!parser, R!Deliver, R!Destroy, R!arrays
<1> QED
  BY <1>1, SameRead, SameRows, SameTypes DEF DocInv, DocTypes

LEMMA InitDoc == Init => DocInv
<1> SUFFICES ASSUME Init PROVE DocInv
  OBVIOUS
<1>1. /\ pc = "idle" /\ result = 0 /\ state = "ROOT" /\ buf = <<>> /\ attrs = {} /\ open = <<>>
      /\ values = 0 /\ phase = "filling" /\ boolean = -1 /\ variables = <<>> /\ rows = <<>>
      /\ doc = NoDocument
  BY DEF Init, P!Init, R!Init
<1>2. DocTypes
  <2>1. <<>> \in Seq([Names -> DocCells]) /\ <<>> \in Seq(Texts) /\ <<>> \in Seq(P!Elements)
    OBVIOUS
  <2> QED
    BY <1>1, <2>1 DEF DocTypes, NoDocument
<1>3. ReadInv
  <2>1. Len(open) = 0
    BY <1>1
  <2> QED
    BY <1>1, <2>1 DEF ReadInv, InBoolean, P!ValueStates
<1>4. RowsInv
  BY <1>1 DEF RowsInv, NoDocument
<1> QED
  BY <1>1, <1>2, <1>3, <1>4 DEF DocInv

LEMMA StepDoc == QueryInv /\ DocInv /\ [Next]_vars => DocInv'
<1> SUFFICES ASSUME QueryInv, DocInv, [Next]_vars PROVE DocInv'
  OBVIOUS
<1>1. CASE UNCHANGED vars
  <2>1. UNCHANGED <<pc, state, result, buf, attrs, open, values, phase, variables, rows, boolean, doc>>
    BY <1>1 DEF vars, querySide, resultSide
  <2> QED
    BY <2>1, SameRead, SameRows, SameTypes DEF DocInv, DocTypes
<1>2. CASE Next
  BY <1>2, SilentDoc, ValueDoc, TextDoc, VariableDoc, FailDoc, BeginResultDoc, EndResultDoc,
     BindValueDoc, EndFailsDoc, BooleanDoc, ReturnDoc DEF Next
<1> QED
  BY <1>1, <1>2
-----------------------------------------------------------------------------
(* The theorems. *)

\* The query and the result set keep to their specifications when they are
\* joined, so that their theorems hold of sparql_query.
THEOREM PartsCorrect == Spec => PartsKeepTheirSpecs
<1>1. Init => P!Init /\ R!Init
  BY DEF Init
<1> QED
  BY <1>1, StepIsQuery, StepIsResult, InvCorrect, PTL
  DEF Spec, PartsKeepTheirSpecs, P!Spec, R!Spec

\* The pointer to the open row is never left over from a smaller array.
THEOREM RowPointerCorrect == Spec => []RowPointerLive
<1>1. QueryInv => RowPointerLive
  BY DEF QueryInv, ContextInv, RowPointerLive
<1> QED
  BY <1>1, InvCorrect, PTL

\* No response, however it orders its parts, makes a result of both kinds.
THEOREM BooleanCorrect == Spec => []BooleanOrRows
<1>1. QueryInv => BooleanOrRows
  BY DEF QueryInv, ContextInv, BooleanOrRows
<1> QED
  BY <1>1, InvCorrect, PTL

\* Whatever the response says, and in whatever order it comes, a result set that is
\* returned says the same: the variables, the boolean, and in each row the value under
\* each variable.
THEOREM DocumentCorrect == Spec => []ResultIsDocument
<1>1. DocInv => ResultIsDocument
  BY DEF DocInv, RowsInv, FirstOf, ResultIsDocument
<1> QED
  BY <1>1, InvCorrect, InitDoc, StepDoc, PTL DEF Spec
=============================================================================
