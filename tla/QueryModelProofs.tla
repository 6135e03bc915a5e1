--------------------------- MODULE QueryModelProofs ---------------------------
(***************************************************************************)
(* sparql_query_model for any names, texts, attributes and numbers of      *)
(* rows: the query it joins keeps to its own specification, no graph is    *)
(* given a statement twice, and the model is given the rows of the         *)
(* response and nothing else.                                              *)
(***************************************************************************)
EXTENDS QueryModel, SequenceTheorems, TLAPS

-----------------------------------------------------------------------------
(* The side of the query: each step is one of PerformQuery, or none.       *)

LEMMA SilentIsQuery == Silent => P!Next
<1> SUFFICES ASSUME Silent PROVE P!Next
  OBVIOUS
<1>1. CASE \/ P!Perform \/ P!Refuse \/ P!NoContentType \/ P!Parse \/ P!EndChunk
           \/ P!EndDocument \/ P!Malformed \/ P!StartUnqualified
           \/ \E ok \in BOOLEAN : P!Capture(ok) \/ P!TransferEnds(ok)
  BY <1>1 DEF P!Next, P!Transfer, P!StartElement
<1>2. CASE \/ \E el \in P!Elements : P!StartRejected(el) \/ P!StartPlain(el)
           \/ \E has, ok \in BOOLEAN : (~has => ok) /\ P!StartLink(has, ok)
           \/ \E n \in Names \cup {NULL}, ok \in BOOLEAN :
                \/ P!StartVariable(n, ok) \/ P!StartVariable(n, FALSE)
                \/ P!StartBinding(n, ok)
  BY <1>2 DEF P!Next, P!StartElement
<1>3. CASE P!StartRows("results", TRUE)
  <2>1. "results" \in P!Elements
    BY DEF P!Elements
  <2> QED
    BY <1>3, <2>1 DEF P!Next, P!StartElement
<1>4. CASE \E stored \in SUBSET Attributes :
             \E failed \in {{}} \cup {{a} : a \in Attributes \ stored} :
               P!StartLiteral(stored, failed)
  BY <1>4 DEF P!Next, P!StartElement
<1>5. CASE P!EndRows(TRUE) \/ P!EndPlain \/ P!EndBinding \/ P!RejectBoolean
  BY <1>5 DEF P!Next, P!EndElement
<1>6. CASE \E t \in Texts, ok \in BOOLEAN : P!Characters(t, ok)
  BY <1>6 DEF P!Next, P!Text
<1> QED
  BY <1>1, <1>2, <1>3, <1>4, <1>5, <1>6 DEF Silent

LEMMA StepIsQuery == [Next]_vars => [P!Next]_(P!vars)
<1> SUFFICES ASSUME [Next]_vars PROVE P!Next \/ UNCHANGED P!vars
  OBVIOUS
<1>1. CASE Silent
  BY <1>1, SilentIsQuery
<1>2. CASE BeginResult \/ BeginResultFails
  <2>1. "result" \in P!Elements
    BY DEF P!Elements
  <2> QED
    BY <1>2, <2>1 DEF BeginResult, BeginResultFails, P!Next, P!StartElement
<1>3. CASE BindGraph \/ BindTerm \/ BindOther \/ BindRefused
  BY <1>3 DEF BindGraph, BindTerm, BindOther, BindRefused, P!Next, P!EndElement
<1>4. CASE EndResult \/ EndResultFails \/ Boolean
  BY <1>4 DEF EndResult, EndResultFails, Boolean, P!Next, P!EndElement
<1>5. CASE Return
  BY <1>5 DEF Return, P!Next, P!Transfer
<1>6. CASE UNCHANGED vars
  BY <1>6 DEF vars, querySide, P!vars, P!query, P!parser
<1> QED
  BY <1>1, <1>2, <1>3, <1>4, <1>5, <1>6 DEF Next

-----------------------------------------------------------------------------
(* Where in the document the query is.                                     *)

\* The states between <result> and </result>.
InRow == {"RESULT", "BINDING"} \cup P!ValueStates

QueryTypes ==
  /\ state \in P!States
  /\ buf \in Seq(Texts)
  /\ attrs \subseteq Attributes
  /\ pc = "idle" => result = 0 /\ state = "ROOT"

\* A step that neither begins nor ends a row.
Stays == result' = 0 => result = 0 /\ (state' \in InRow <=> state \in InRow)

\* Where each accepted element leads.
LEMMA EnterTable ==
  ASSUME state \in P!States, NEW el, P!Enter(el)
  PROVE  /\ result = 0 /\ pc' = pc /\ pc # "idle" /\ state' \in P!States
         /\ \/ state' \notin InRow /\ state \notin InRow /\ el # "result"
            \/ state = "RESULTS" /\ el = "result" /\ state' = "RESULT"
            \/ state = "RESULT" /\ el = "binding" /\ state' = "BINDING"
            \/ /\ state = "BINDING" /\ el \in {"uri", "literal", "bnode"}
               /\ state' \in P!ValueStates
<1>1. /\ state' = P!StateOf[el] /\ result = 0
      /\ el \in P!Children[state] /\ pc' = pc /\ pc # "idle"
  BY DEF P!Enter, P!Opens, P!Parsing, P!Expected
<1>2. P!Children[state] =
        CASE state = "ROOT"    -> {"sparql"}
          [] state = "SPARQL"  -> {"head", "results", "boolean"}
          [] state = "HEAD"    -> {"link", "variable"}
          [] state = "RESULTS" -> {"result"}
          [] state = "RESULT"  -> {"binding"}
          [] state = "BINDING" -> {"uri", "literal", "bnode"}
          [] OTHER             -> {}
  BY DEF P!Children
<1>3. \/ state = "ROOT" /\ el = "sparql"
      \/ state = "SPARQL" /\ el \in {"head", "results", "boolean"}
      \/ state = "HEAD" /\ el \in {"link", "variable"}
      \/ state = "RESULTS" /\ el = "result"
      \/ state = "RESULT" /\ el = "binding"
      \/ state = "BINDING" /\ el \in {"uri", "literal", "bnode"}
  BY <1>1, <1>2
<1>4. el \in P!Elements \ {"other"}
  BY <1>3 DEF P!Elements
<1>5. P!StateOf[el] =
        CASE el = "sparql"   -> "SPARQL"
          [] el = "head"     -> "HEAD"
          [] el = "link"     -> "LINK"
          [] el = "variable" -> "VARIABLE"
          [] el = "results"  -> "RESULTS"
          [] el = "result"   -> "RESULT"
          [] el = "binding"  -> "BINDING"
          [] el = "uri"      -> "URI"
          [] el = "literal"  -> "LITERAL"
          [] el = "bnode"    -> "BNODE"
          [] el = "boolean"  -> "BOOLEAN"
  BY <1>4 DEF P!StateOf
<1> QED
  BY <1>1, <1>3, <1>5 DEF InRow, P!ValueStates, P!States

\* Where each end tag leads.
LEMMA CloseTable ==
  ASSUME state \in P!States \ {"CAPTURE"}, P!Closes
  PROVE  /\ result = 0 /\ pc' = pc /\ pc # "idle"
         /\ P!Parent[state] \in P!States
         /\ state # "RESULT" => (P!Parent[state] \in InRow <=> state \in InRow)
         /\ state = "RESULT" => P!Parent[state] \notin InRow
<1>1. result = 0 /\ pc' = pc /\ pc # "idle"
  BY DEF P!Closes, P!Parsing
<1>2. P!Parent[state] =
        CASE state \in {"ROOT", "SPARQL"}   -> "ROOT"
          [] state \in {"HEAD", "RESULTS"}  -> "SPARQL"
          [] state \in {"LINK", "VARIABLE"} -> "HEAD"
          [] state = "RESULT"               -> "RESULTS"
          [] state = "BINDING"              -> "RESULT"
          [] state \in P!ValueStates        -> "BINDING"
          [] state = "BOOLEAN"              -> "BOOLEAN"
  BY DEF P!Parent
<1>3. \/ /\ P!Parent[state] \in {"ROOT", "SPARQL", "HEAD", "BOOLEAN"}
         /\ state \in {"ROOT", "SPARQL", "HEAD", "RESULTS", "LINK", "VARIABLE", "BOOLEAN"}
      \/ state = "RESULT" /\ P!Parent[state] = "RESULTS"
      \/ state = "BINDING" /\ P!Parent[state] = "RESULT"
      \/ state \in P!ValueStates /\ P!Parent[state] = "BINDING"
  BY <1>2 DEF P!States, P!ValueStates
<1> QED
  BY <1>1, <1>3 DEF InRow, P!States, P!ValueStates

\* A start tag other than <result>.
LEMMA EnterStays ==
  ASSUME QueryTypes, NEW el, P!Enter(el), el # "result", buf' = buf, attrs' \subseteq Attributes
  PROVE  QueryTypes' /\ Stays
<1>1. /\ result = 0 /\ pc' = pc /\ pc # "idle" /\ state' \in P!States
      /\ (state' \in InRow <=> state \in InRow)
  BY EnterTable DEF QueryTypes, InRow, P!ValueStates
<1> QED
  BY <1>1 DEF QueryTypes, Stays

\* An end tag other than </result>, or one whose callback failed.
LEMMA CloseStays ==
  ASSUME QueryTypes, P!Closes, state # "CAPTURE",
         state' = P!Parent[state] \/ state' = state,
         state = "RESULT" => result' # 0,
         buf' \in {buf, <<>>}, attrs' \in {attrs, {}}
  PROVE  QueryTypes' /\ Stays
<1>1. /\ result = 0 /\ pc' = pc /\ pc # "idle" /\ state' \in P!States
      /\ state # "RESULT" => (state' \in InRow <=> state \in InRow)
  BY CloseTable DEF QueryTypes
<1>2. <<>> \in Seq(Texts)
  OBVIOUS
<1> QED
  BY <1>1, <1>2 DEF QueryTypes, Stays

\* A step that leaves the document where it is.
LEMMA SameStays ==
  ASSUME QueryTypes, pc' # "idle" \/ (pc' = pc /\ UNCHANGED <<state, result>>),
         result' = 0 => result = 0, UNCHANGED <<buf, attrs>>,
         state' = state \/ (state \in {"ROOT", "CAPTURE"} /\ state' \in {"ROOT", "CAPTURE"})
  PROVE  QueryTypes' /\ Stays
  BY DEF QueryTypes, Stays, InRow, P!ValueStates, P!States

LEMMA SilentStays == ASSUME QueryTypes, Silent PROVE QueryTypes' /\ Stays
<1>1. CASE P!Perform
  BY <1>1, SameStays DEF P!Perform, QueryTypes
<1>2. CASE \/ P!Refuse \/ P!NoContentType \/ P!Parse \/ P!EndChunk \/ P!EndDocument \/ P!Malformed
           \/ P!StartUnqualified
           \/ \E ok \in BOOLEAN : P!Capture(ok) \/ P!TransferEnds(ok)
  <2>1. /\ UNCHANGED <<buf, attrs>> /\ pc' # "idle" /\ (result' = 0 => result = 0)
        /\ state' = state \/ (state \in {"ROOT", "CAPTURE"} /\ state' \in {"ROOT", "CAPTURE"})
    BY <1>2 DEF P!Refuse, P!NoContentType, P!Parse, P!EndChunk, P!EndDocument, P!Malformed,
       P!StartUnqualified, P!Capture, P!TransferEnds, P!query, P!AfterWrite, P!Parsing, P!IsPlain
  <2> QED
    BY <2>1, SameStays
<1>3. CASE \E el \in P!Elements : P!StartRejected(el)
  <2>1. result' # 0 /\ UNCHANGED <<state, buf, attrs>> /\ pc' = pc /\ pc # "idle"
    BY <1>3 DEF P!StartRejected, P!Opens, P!Parsing
  <2> QED
    BY <2>1, SameStays
<1>4. CASE \/ \E el \in P!Elements : P!StartPlain(el)
           \/ \E has, ok \in BOOLEAN : P!StartLink(has, ok)
           \/ \E n \in Names \cup {NULL}, ok \in BOOLEAN :
                \/ P!StartVariable(n, ok) \/ P!StartVariable(n, FALSE)
                \/ P!StartBinding(n, ok)
           \/ P!StartRows("results", TRUE)
  <2>1. PICK el : P!Enter(el) /\ el # "result" /\ UNCHANGED <<buf, attrs>>
    BY <1>4 DEF P!StartPlain, P!StartLink, P!StartVariable, P!StartBinding, P!StartRows
  <2> QED
    BY <2>1, EnterStays DEF QueryTypes
<1>5. ASSUME NEW stored \in SUBSET Attributes,
             NEW failed \in {{}} \cup {{a} : a \in Attributes \ stored},
             P!StartLiteral(stored, failed)
      PROVE  QueryTypes' /\ Stays
  <2>1. P!Enter("literal") /\ buf' = buf /\ attrs' \subseteq Attributes
    BY <1>5 DEF P!StartLiteral, QueryTypes
  <2> QED
    BY <2>1, EnterStays
<1>6. CASE (state = "RESULTS" /\ P!EndRows(TRUE)) \/ P!EndPlain \/ P!EndBinding \/ P!RejectBoolean
  BY <1>6, CloseStays DEF P!EndRows, P!EndPlain, P!EndBinding, P!RejectBoolean
<1>7. ASSUME NEW t \in Texts, NEW ok \in BOOLEAN, P!Characters(t, ok)
      PROVE  QueryTypes' /\ Stays
  <2>1. /\ state' = state /\ attrs' = attrs /\ result = 0 /\ pc' = pc /\ pc # "idle"
        /\ buf' \in {buf, Append(buf, t)}
    BY <1>7 DEF P!Characters, P!Parsing
  <2>2. buf' \in Seq(Texts)
    BY <2>1 DEF QueryTypes
  <2> QED
    BY <2>1, <2>2 DEF QueryTypes, Stays
<1> QED
  BY <1>1, <1>2, <1>3, <1>4, <1>5, <1>6, <1>7 DEF Silent

-----------------------------------------------------------------------------
(* The row, the model and what was read.                                   *)

Terms == [kind : {"uri", "bnode", "literal", "fresh"}, text : Seq(Texts), attrs : SUBSET Attributes]

MaybeTerms == Terms \cup {NULL}

Quads == [Columns -> MaybeTerms]

Places == {"s", "p", "o"}

ModelTypes ==
  /\ model \in Seq(Quads) /\ rowsRead \in Seq(Quads) /\ cells \in Quads
  /\ g \in MaybeTerms
  /\ blurred \in BOOLEAN

\* Inside a row there is a statement, and with the graph it is what the row was read
\* to bind, unless librdf failed; outside a row no graph is left from the last one,
\* until the query returns.
RowInv ==
  result = 0 /\ Running =>
    /\ state \in InRow =>
         /\ statement \in [Places -> MaybeTerms]
         /\ ~blurred => g = cells["g"] /\ \A c \in Places : statement[c] = cells[c]
    /\ state \notin InRow => g = NULL

ModelInv == QueryTypes /\ ModelTypes /\ RowInv /\ NoDuplicateInGraph /\ ModelIsRows

\* The model and the rows read stay as they are.
LEMMA SameModel ==
  ASSUME NoDuplicateInGraph, ModelIsRows, UNCHANGED <<model, rowsRead>>, ~blurred' => ~blurred
  PROVE  NoDuplicateInGraph' /\ ModelIsRows'
  BY DEF NoDuplicateInGraph, ModelIsRows, Given

\* Steps that neither begin nor end a row, and leave it as it is.
LEMMA RowKept ==
  ASSUME ModelInv, QueryTypes', Stays, UNCHANGED <<modelSide, history>>, Running
  PROVE  ModelInv'
<1>1. UNCHANGED <<model, rowsRead, cells, g, statement, blurred>>
  BY DEF modelSide, history
<1> QED
  BY <1>1, SameModel DEF ModelInv, ModelTypes, RowInv, Stays

\* What a callback finds of the value that ends.
LEMMA ValueRead ==
  ASSUME QueryTypes, state \in P!ValueStates
  PROVE  Read \in Terms /\ \A node \in Makes : node \in MaybeTerms
<1>1. /\ KindOf(state) \in {"uri", "bnode", "literal"} /\ buf \in Seq(Texts)
      /\ attrs \in SUBSET Attributes
  BY DEF KindOf, QueryTypes, P!ValueStates
<1>2. Read \in Terms
  BY <1>1 DEF Read, Terms, Node
<1>3. [Read EXCEPT !.attrs = @ \ {"datatype"}] \in Terms
  BY <1>2 DEF Terms
<1>4. Node("fresh", buf, {}) \in Terms
  BY <1>1 DEF Terms, Node
<1> QED
  BY <1>2, <1>3, <1>4 DEF Makes, MaybeTerms, P!ValueStates

\* The query's side of the end of a value.
LEMMA ValueEnds ==
  ASSUME QueryTypes, NEW ok \in BOOLEAN, P!EndValue(ok)
  PROVE  /\ QueryTypes' /\ Stays /\ result = 0 /\ state \in P!ValueStates
<1>1. /\ P!Closes /\ state \in P!ValueStates /\ UNCHANGED <<buf, attrs>>
      /\ state' = P!Parent[state] \/ state' = state
  BY DEF P!EndValue
<1>2. state \notin {"CAPTURE", "RESULT"}
  BY <1>1 DEF P!ValueStates
<1>3. result = 0
  BY <1>1 DEF P!Closes, P!Parsing
<1> QED
  BY <1>1, <1>2, <1>3, CloseStays

LEMMA BeginResultKeeps == ASSUME ModelInv, BeginResult PROVE ModelInv'
<1>1. /\ Running /\ P!Enter("result") /\ UNCHANGED <<buf, attrs>> /\ statement' = NewStatement
      /\ cells' = Unbound /\ UNCHANGED <<g, model, rowsRead, blurred>>
  BY DEF BeginResult, P!StartRows
<1>2. /\ result = 0 /\ pc' = pc /\ pc # "idle" /\ state' = "RESULT" /\ state = "RESULTS"
      /\ state' \in P!States
  BY <1>1, EnterTable DEF ModelInv, QueryTypes, InRow, P!ValueStates
<1>3. QueryTypes'
  BY <1>1, <1>2 DEF ModelInv, QueryTypes
<1>4. g = NULL
  BY <1>1, <1>2 DEF ModelInv, RowInv, InRow, P!ValueStates
<1>5. NewStatement \in [Places -> MaybeTerms] /\ Unbound \in Quads
  BY DEF NewStatement, Unbound, Places, Quads, MaybeTerms
<1>6. Unbound["g"] = NULL /\ \A c \in Places : NewStatement[c] = NULL /\ Unbound[c] = NULL
  BY DEF NewStatement, Unbound, Places, Columns
<1>7. RowInv'
  BY <1>1, <1>2, <1>4, <1>5, <1>6 DEF RowInv, InRow
<1> QED
  BY <1>1, <1>3, <1>5, <1>7, SameModel DEF ModelInv, ModelTypes

\* librdf has no statement for the row.
LEMMA BeginResultFailsKeeps == ASSUME ModelInv, BeginResultFails PROVE ModelInv'
<1>1. /\ P!Enter("result") /\ UNCHANGED <<buf, attrs>> /\ result' = P!Outcome(FALSE)
      /\ UNCHANGED <<g, model, rowsRead, blurred, cells>>
  BY DEF BeginResultFails, P!StartRows, history
<1>2. /\ pc' = pc /\ pc # "idle" /\ result' # 0 /\ state' \in P!States
  BY <1>1, EnterTable DEF ModelInv, QueryTypes, P!Outcome
<1> QED
  BY <1>1, <1>2, SameModel DEF ModelInv, ModelTypes, QueryTypes, RowInv

\* A value of g goes to the graph, and what was read of it to the history.
LEMMA BindGraphKeeps == ASSUME ModelInv, BindGraph PROVE ModelInv'
<1>1. QueryTypes' /\ Stays /\ result = 0 /\ state \in P!ValueStates
  BY ValueEnds DEF ModelInv, BindGraph
<1>2. PICK node \in Makes : g' = node /\ ReadValue(node)
  BY DEF BindGraph
<1>3. /\ Running /\ name = "g" /\ UNCHANGED <<statement, model, rowsRead>>
      /\ cells' = [cells EXCEPT !["g"] = Read]
      /\ blurred' = (blurred \/ (node # Read /\ name \in Columns) \/ values > 0)
      /\ "g" \in Columns
  BY <1>2 DEF BindGraph, ReadValue, Columns
<1>4. node \in MaybeTerms /\ Read \in MaybeTerms
  BY <1>1, ValueRead DEF ModelInv, MaybeTerms
<1>5. ~blurred' => ~blurred /\ node = Read
  BY <1>3, Zenon
<1>6. cells' \in Quads /\ cells'["g"] = Read /\ \A c \in Places : cells'[c] = cells[c]
  BY <1>3, <1>4 DEF ModelInv, ModelTypes, Quads, Columns, Places
<1>7. RowInv'
  BY <1>1, <1>2, <1>3, <1>5, <1>6 DEF ModelInv, RowInv, Stays, InRow
<1>8. ModelTypes'
  BY <1>2, <1>3, <1>4, <1>6 DEF ModelInv, ModelTypes
<1> QED
  BY <1>1, <1>3, <1>5, <1>7, <1>8, SameModel DEF ModelInv

\* A value of s, p or o goes to its place in the statement.
LEMMA BindTermKeeps == ASSUME ModelInv, BindTerm PROVE ModelInv'
<1>1. QueryTypes' /\ Stays /\ result = 0 /\ state \in P!ValueStates
  BY ValueEnds DEF ModelInv, BindTerm
<1>2. PICK node \in Makes : statement' = [statement EXCEPT ![name] = node] /\ ReadValue(node)
  BY DEF BindTerm
<1>3. name \in Places /\ name \in Columns /\ name # "g"
  BY DEF BindTerm, Places, Columns
<1>4. /\ Running /\ UNCHANGED <<g, model, rowsRead>>
      /\ cells' = [cells EXCEPT ![name] = Read]
      /\ blurred' = (blurred \/ (node # Read /\ name \in Columns) \/ values > 0)
  BY <1>2, <1>3 DEF BindTerm, ReadValue
<1>5. node \in MaybeTerms /\ Read \in MaybeTerms
  BY <1>1, ValueRead DEF ModelInv, MaybeTerms
<1>6. ~blurred' => ~blurred /\ node = Read
  BY <1>3, <1>4, Zenon
<1>7. /\ cells' \in Quads /\ cells'["g"] = cells["g"]
      /\ \A c \in Places : cells'[c] = IF c = name THEN Read ELSE cells[c]
  BY <1>3, <1>4, <1>5 DEF ModelInv, ModelTypes, Quads, Columns, Places
<1>8. statement \in [Places -> MaybeTerms]
  BY <1>1, <1>4 DEF ModelInv, RowInv, InRow
<1>9. /\ statement' \in [Places -> MaybeTerms]
      /\ \A c \in Places : statement'[c] = IF c = name THEN node ELSE statement[c]
  BY <1>2, <1>3, <1>5, <1>8
<1>10. RowInv'
  BY <1>1, <1>4, <1>6, <1>7, <1>9 DEF ModelInv, RowInv, Stays, InRow
<1>11. ModelTypes'
  BY <1>4, <1>7 DEF ModelInv, ModelTypes
<1> QED
  BY <1>1, <1>4, <1>6, <1>10, <1>11, SameModel DEF ModelInv

\* A statement that the graph holds already is not added to it.
LEMMA Added ==
  ASSUME model \in Seq(Quads), NoDuplicateInGraph, NEW quad \in Quads, ~Held(quad),
         model' = Append(model, quad)
  PROVE  NoDuplicateInGraph' /\ Given' = Given \cup {quad}
<1>1. /\ Len(model) \in Nat /\ DOMAIN model = 1..Len(model)
      /\ DOMAIN model' = 1..Len(model) + 1 /\ model'[Len(model) + 1] = quad
      /\ \A i \in DOMAIN model : model'[i] = model[i]
  OBVIOUS
<1>2. \A i : i \in DOMAIN model' <=> i \in DOMAIN model \/ i = Len(model) + 1
  BY <1>1
<1>3. Len(model) + 1 \notin DOMAIN model
  BY <1>1
<1>4. Given' = Given \cup {quad}
  BY <1>1, <1>2, <1>3 DEF Given
<1>5. ASSUME NEW i \in DOMAIN model', NEW j \in DOMAIN model', i # j,
             model'[i]["g"] # NULL, ~HasFresh(model'[i])
      PROVE  model'[i] # model'[j]
  <2>1. CASE i \in DOMAIN model /\ j \in DOMAIN model
    BY <1>1, <1>5, <2>1 DEF NoDuplicateInGraph
  <2>2. CASE i = Len(model) + 1
    <3>1. quad \notin Given /\ j \in DOMAIN model
      BY <1>1, <1>2, <1>5, <2>2 DEF Held
    <3> QED
      BY <1>1, <2>2, <3>1 DEF Given
  <2>3. CASE j = Len(model) + 1
    <3>1. i \in DOMAIN model
      BY <1>2, <1>5, <2>3
    <3>2. SUFFICES ASSUME model'[i] = model'[j] PROVE FALSE
      OBVIOUS
    <3>3. model[i] = quad
      BY <1>1, <2>3, <3>1, <3>2
    <3>4. quad["g"] # NULL /\ ~HasFresh(quad)
      BY <1>1, <1>5, <3>1, <3>3
    <3> QED
      BY <3>1, <3>3, <3>4 DEF Held, Given
  <2> QED
    BY <1>2, <2>1, <2>2, <2>3
<1> QED
  BY <1>4, <1>5 DEF NoDuplicateInGraph

\* The row that ends is a statement of the model, and the next one has no graph yet.
LEMMA EndResultKeeps == ASSUME ModelInv, EndResult PROVE ModelInv'
<1>1. /\ Running /\ P!Closes /\ state = "RESULT" /\ state' = P!Parent[state]
      /\ UNCHANGED <<buf, attrs>> /\ statement' = NULL /\ g' = NULL
      /\ rowsRead' = Append(rowsRead, cells) /\ cells' = Unbound
  BY DEF EndResult, P!EndRows
<1>2. /\ result = 0 /\ pc' = pc /\ pc # "idle" /\ state' \in P!States /\ state' \notin InRow
  BY <1>1, CloseTable DEF P!States
<1>3. QueryTypes'
  BY <1>1, <1>2 DEF ModelInv, QueryTypes
<1>4. RowInv'
  BY <1>1, <1>2 DEF RowInv
<1> DEFINE quad == Quad(statement, g)
<1>5. PICK added \in BOOLEAN :
        /\ model' = IF ~added \/ Held(quad) THEN model ELSE Append(model, quad)
        /\ blurred' = (blurred \/ ~added)
  BY DEF EndResult
<1>6. statement \in [Places -> MaybeTerms] /\ g \in MaybeTerms
  BY <1>1, <1>2 DEF ModelInv, RowInv, ModelTypes, InRow
<1>7. quad \in Quads
  BY <1>6 DEF Quad, Quads, Columns, Places
<1>8. ~blurred => quad = cells
  <2>1. ASSUME ~blurred PROVE quad = cells
    <3>1. g = cells["g"] /\ \A c \in Places : statement[c] = cells[c]
      BY <1>1, <1>2, <2>1 DEF ModelInv, RowInv, InRow
    <3>2. \A c \in Columns : quad[c] = cells[c]
      BY <3>1 DEF Quad, Columns, Places
    <3> QED
      BY <1>7, <3>2 DEF ModelInv, ModelTypes, Quads
  <2> QED
    BY <2>1
<1>9. model \in Seq(Quads) /\ cells \in Quads /\ rowsRead \in Seq(Quads)
  BY DEF ModelInv, ModelTypes
<1> HIDE DEF quad
<1>10. /\ model' \in Seq(Quads) /\ NoDuplicateInGraph'
       /\ added => Given' = Given \cup {quad}
  <2>1. CASE ~added \/ Held(quad)
    BY <1>5, <1>9, <2>1 DEF ModelInv, NoDuplicateInGraph, Given, Held
  <2>2. CASE added /\ ~Held(quad)
    <3>1. model' = Append(model, quad)
      BY <1>5, <2>2
    <3> QED
      BY <1>7, <1>9, <2>2, <3>1, Added DEF ModelInv
  <2> QED
    BY <2>1, <2>2
<1>11. Unbound \in Quads /\ NULL \in MaybeTerms
  BY DEF Unbound, Quads, MaybeTerms
<1>12. ModelTypes'
  BY <1>1, <1>5, <1>9, <1>10, <1>11 DEF ModelInv, ModelTypes
<1>13. {rowsRead'[i] : i \in DOMAIN rowsRead'} = {rowsRead[i] : i \in DOMAIN rowsRead} \cup {cells}
  <2>1. /\ DOMAIN rowsRead = 1..Len(rowsRead) /\ Len(rowsRead) \in Nat
        /\ DOMAIN rowsRead' = 1..Len(rowsRead) + 1 /\ rowsRead'[Len(rowsRead) + 1] = cells
        /\ \A i \in DOMAIN rowsRead : rowsRead'[i] = rowsRead[i]
    BY <1>1, <1>9
  <2>2. \A i : i \in DOMAIN rowsRead' <=> i \in DOMAIN rowsRead \/ i = Len(rowsRead) + 1
    BY <2>1
  <2>3. Len(rowsRead) + 1 \notin DOMAIN rowsRead
    BY <2>1
  <2> QED
    BY <2>1, <2>2, <2>3
<1>14. ModelIsRows'
  <2>1. ASSUME ~blurred' PROVE Given' = {rowsRead'[i] : i \in DOMAIN rowsRead'}
    <3>1. ~blurred /\ added
      BY <1>5, <2>1
    <3> QED
      BY <1>8, <1>10, <1>13, <3>1 DEF ModelInv, ModelIsRows
  <2> QED
    BY <2>1 DEF ModelIsRows
<1> QED
  BY <1>3, <1>4, <1>10, <1>12, <1>14 DEF ModelInv

\* The steps that leave the row as it is.
LEMMA OtherKeeps ==
  ASSUME ModelInv, Silent \/ BindOther \/ BindRefused \/ EndResultFails \/ Boolean
  PROVE  ModelInv'
<1> USE DEF ModelInv
<1>1. CASE Silent
  BY <1>1, SilentStays, RowKept DEF Silent
<1>2. CASE BindOther \/ BindRefused
  BY <1>2, ValueEnds, RowKept DEF BindOther, BindRefused
<1>3. CASE EndResultFails
  <2>1. /\ P!Closes /\ state = "RESULT" /\ state' = P!Parent[state] /\ result' # 0
        /\ Running /\ UNCHANGED <<buf, attrs, modelSide, history>>
    BY <1>3 DEF EndResultFails, P!EndRows, P!Outcome
  <2> QED
    BY <2>1, CloseStays, RowKept
<1>4. CASE Boolean
  <2>1. /\ P!Closes /\ state = "BOOLEAN" /\ state' = P!Parent[state]
        /\ Running /\ UNCHANGED <<buf, attrs, modelSide, history>>
    BY <1>4 DEF Boolean, P!EndBoolean
  <2> QED
    BY <2>1, CloseStays, RowKept
<1> QED
  BY <1>1, <1>2, <1>3, <1>4

\* The query has its verdict, and what a failure left is freed.
LEMMA ReturnKeeps == ASSUME ModelInv, Return PROVE ModelInv'
<1>1. /\ pc' = "returned" /\ UNCHANGED <<state, result, buf, attrs>>
      /\ g' = NULL /\ UNCHANGED <<model, cells, rowsRead, blurred>>
  BY DEF Return, P!Report, P!query, history
<1> QED
  BY <1>1, SameModel DEF ModelInv, QueryTypes, ModelTypes, RowInv, Running, MaybeTerms

LEMMA StutterKeeps == ASSUME ModelInv, UNCHANGED vars PROVE ModelInv'
<1>1. /\ UNCHANGED <<pc, state, result, buf, attrs>>
      /\ UNCHANGED <<statement, g, model, cells, rowsRead, blurred>>
  BY DEF vars, querySide, modelSide, history
<1> QED
  BY <1>1, SameModel DEF ModelInv, QueryTypes, ModelTypes, RowInv, Running

LEMMA InitInv == Init => ModelInv
<1> SUFFICES ASSUME Init PROVE ModelInv
  OBVIOUS
<1>1. /\ pc = "idle" /\ result = 0 /\ state = "ROOT" /\ buf = <<>> /\ attrs = {}
      /\ g = NULL /\ model = <<>> /\ cells = Unbound /\ rowsRead = <<>> /\ blurred = FALSE
  BY DEF Init, P!Init
<1>2. /\ <<>> \in Seq(Texts) /\ <<>> \in Seq(Quads) /\ Unbound \in Quads
      /\ state \in P!States /\ state \notin InRow
  BY <1>1 DEF Unbound, Quads, MaybeTerms, P!States, InRow, P!ValueStates
<1>3. DOMAIN model = {} /\ DOMAIN rowsRead = {}
  BY <1>1
<1> QED
  BY <1>1, <1>2, <1>3 DEF ModelInv, QueryTypes, ModelTypes, RowInv, MaybeTerms, NoDuplicateInGraph,
     ModelIsRows, Given

LEMMA StepInv == ModelInv /\ [Next]_vars => ModelInv'
  BY BeginResultKeeps, BeginResultFailsKeeps, BindGraphKeeps, BindTermKeeps, EndResultKeeps,
     OtherKeeps, ReturnKeeps, StutterKeeps DEF Next

LEMMA InvCorrect == Spec => []ModelInv
  BY InitInv, StepInv, PTL DEF Spec

-----------------------------------------------------------------------------
(* The theorems. *)

\* The query keeps to its specification when its callbacks fill a model, so that its
\* theorems hold of sparql_query_model.
THEOREM QueryCorrect == Spec => P!Spec
<1>1. Init => P!Init
  BY DEF Init
<1> QED
  BY <1>1, StepIsQuery, PTL DEF Spec, P!Spec

\* No graph is given a statement twice, however many rows say the same.
THEOREM NoDuplicateCorrect == Spec => []NoDuplicateInGraph
<1>1. ModelInv => NoDuplicateInGraph
  BY DEF ModelInv
<1> QED
  BY <1>1, InvCorrect, PTL

\* Each row is a statement of its own bindings, in its own graph: nothing of one row
\* reaches the next, whichever of g, s, p and o each binds, and however it ends.
THEOREM RowsCorrect == Spec => []ModelIsRows
<1>1. ModelInv => ModelIsRows
  BY DEF ModelInv
<1> QED
  BY <1>1, InvCorrect, PTL
===============================================================================
