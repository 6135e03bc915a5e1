----------------------------- MODULE PerformQuery -----------------------------
(***************************************************************************)
(* perform-query.c: one SPARQLQUERY from sparql_query_perform_ to its      *)
(* verdict.  libcurl hands the response body to sparql_query_write_ chunk  *)
(* by chunk; the chunks go to libxml2's push parser, whose start-element,  *)
(* end-element and character callbacks drive a state machine, which calls  *)
(* the callbacks of whoever made the query (query.c and query-model.c).    *)
(*                                                                         *)
(* libxml2 and libcurl are external.  Of libxml2 the model keeps the       *)
(* stack of open elements: it reports balanced elements under one root,    *)
(* until the document turns out not to be well formed.  Of libcurl it      *)
(* keeps the order of its calls: any number of chunks, the end of the      *)
(* transfer, and an early end when a write callback refuses a chunk.       *)
(*                                                                         *)
(* Adjacent pieces of text are one piece here (the handler only appends,   *)
(* so how libxml2 splits a text is invisible), and the text of an element  *)
(* is a sequence of pieces; the empty sequence is the NULL buffer.         *)
(***************************************************************************)
EXTENDS Integers, Sequences

CONSTANTS
  Names,      \* names that variables and bindings of the document may have
  NULL,       \* an absent string
  Texts,      \* the pieces of text there may be: "true", "false" and others
  Attributes, \* the attributes a literal may have: language, datatype
  MaxText     \* bound on the pieces of text kept in buf

ASSUME NullAssumption == NULL \notin Names
ASSUME MaxTextAssumption == MaxText \in Nat

VARIABLES
  pc,         \* where sparql_query_perform_ is, see Places below
  ctype,      \* Content-Type of the response
  state,      \* query->state, the SPARQLSTATE
  result,     \* query->result, 0 or -1
  bound,      \* query->bound
  name,       \* query->name, the open binding's name
  buf,        \* query->buf, the text collected
  attrs,      \* which of query->language and query->datatype are set
  open,       \* libxml2: the elements that are open, outermost first
  rootSeen,   \* libxml2: the document has its root element
  wellFormed, \* libxml2: ctx->wellFormed
  aborted,    \* libcurl: a write callback returned fewer bytes than it got
  verdict,    \* the last callback: "none", "complete" or "error"
  values      \* history: values delivered in the open binding, at most two

query   == <<state, result, bound, name, buf, attrs>>
parser  == <<open, rootSeen, wellFormed>>
vars    == <<pc, ctype, query, parser, aborted, verdict, values>>

-----------------------------------------------------------------------------
(* The tables behind the two switch statements. *)

ValueStates == {"URI", "LITERAL", "BNODE"}

States ==
  {"ROOT", "CAPTURE", "SPARQL", "HEAD", "LINK", "VARIABLE", "RESULTS",
   "RESULT", "BINDING", "BOOLEAN"} \cup ValueStates

Elements ==
  {"sparql", "head", "link", "variable", "results", "result", "binding",
   "uri", "literal", "bnode", "boolean", "other"}

Ctypes == {"none", "text/plain", "xml"}

\* The elements each state of the start-element handler accepts.
Children ==
  [s \in States |->
     CASE s = "ROOT"    -> {"sparql"}
       [] s = "SPARQL"  -> {"head", "results", "boolean"}
       [] s = "HEAD"    -> {"link", "variable"}
       [] s = "RESULTS" -> {"result"}
       [] s = "RESULT"  -> {"binding"}
       [] s = "BINDING" -> {"uri", "literal", "bnode"}
       [] OTHER         -> {}]

\* A binding that has its value takes no other.
Expected == IF state = "BINDING" /\ bound # 0 THEN {} ELSE Children[state]

\* The state each accepted element leads to.
StateOf ==
  [el \in Elements \ {"other"} |->
     CASE el = "sparql"   -> "SPARQL"
       [] el = "head"     -> "HEAD"
       [] el = "link"     -> "LINK"
       [] el = "variable" -> "VARIABLE"
       [] el = "results"  -> "RESULTS"
       [] el = "result"   -> "RESULT"
       [] el = "binding"  -> "BINDING"
       [] el = "uri"      -> "URI"
       [] el = "literal"  -> "LITERAL"
       [] el = "bnode"    -> "BNODE"
       [] el = "boolean"  -> "BOOLEAN"]

\* Mutant: </variable> leaves the whole head.
ParentSkipsHead ==
  [s \in States \ {"CAPTURE"} |->
     CASE s \in {"ROOT", "SPARQL"}              -> "ROOT"
       [] s \in {"HEAD", "RESULTS", "VARIABLE"} -> "SPARQL"
       [] s = "LINK"                            -> "HEAD"
       [] s = "RESULT"                          -> "RESULTS"
       [] s = "BINDING"                         -> "RESULT"
       [] s \in ValueStates                     -> "BINDING"
       [] s = "BOOLEAN"                         -> "BOOLEAN"]

\* The state the end-element handler goes back to from each state.  It does
\* not look at the element's name, and it leaves BOOLEAN where it is.
Parent ==
  [s \in States \ {"CAPTURE"} |->
     CASE s \in {"ROOT", "SPARQL"}           -> "ROOT"
       [] s \in {"HEAD", "RESULTS"}          -> "SPARQL"
       [] s \in {"LINK", "VARIABLE"}         -> "HEAD"
       [] s = "RESULT"                       -> "RESULTS"
       [] s = "BINDING"                      -> "RESULT"
       [] s \in ValueStates                  -> "BINDING"
       [] s = "BOOLEAN"                      -> "BOOLEAN"]

\* What a callback or an allocation that went well, or failed, leaves in
\* query->result.
Outcome(ok) == IF ok THEN 0 ELSE -1

-----------------------------------------------------------------------------
Init ==
  /\ pc = "idle"
  /\ ctype \in Ctypes
  /\ state = "ROOT" /\ result = 0 /\ bound = 0
  /\ name = NULL /\ buf = <<>> /\ attrs = {}
  /\ open = <<>> /\ rootSeen = FALSE /\ wellFormed = TRUE
  /\ aborted = FALSE
  /\ verdict = "none"
  /\ values = 0

\* sparql_query_perform_ up to the call of sparql_curl_perform_.
Perform ==
  /\ pc = "idle"
  /\ pc' = "transfer"
  /\ result' = 0
  /\ state' = "ROOT"
  /\ UNCHANGED <<ctype, bound, name, buf, attrs, parser, aborted, verdict, values>>

-----------------------------------------------------------------------------
(* sparql_query_write_.  libcurl calls it with each chunk ("transfer"), and *)
(* sparql_query_perform_ itself once more, with no data, after a transfer   *)
(* that went well ("last").                                                 *)

Writing == pc \in {"transfer", "last"} /\ ~aborted

\* Mutant: the write with no data is taken for one more chunk.
AfterWriteNeverLast == "transfer"

AfterWrite == IF pc = "transfer" THEN "transfer" ELSE "report"

IsPlain == state = "ROOT" /\ ctype = "text/plain"

\* The body is not a document: it goes to the connection's capture buffer,
\* where it may fail to find memory (the write with no data cannot tell).
Capture(ok) ==
  /\ Writing
  /\ state = "CAPTURE" \/ (result = 0 /\ IsPlain)
  /\ state' = "CAPTURE"
  /\ aborted' = (pc = "transfer" /\ ~ok)
  /\ pc' = AfterWrite
  /\ UNCHANGED <<ctype, result, bound, name, buf, attrs, parser, verdict, values>>

\* A failed query takes no more data: a chunk is refused, and the write with
\* no data returns at once.
Refuse ==
  /\ Writing
  /\ state # "CAPTURE"
  /\ result # 0
  /\ aborted' = (pc = "transfer")
  /\ pc' = AfterWrite
  /\ UNCHANGED <<ctype, query, parser, verdict, values>>

\* strcmp() of the Content-Type the response does not have.
NoContentType ==
  /\ Writing
  /\ state = "ROOT" /\ result = 0 /\ ctype = "none"
  /\ pc' = "crashed"
  /\ UNCHANGED <<ctype, query, parser, aborted, verdict, values>>

\* The data goes to xmlParseChunk, which calls the handlers below.
Parse ==
  /\ Writing
  /\ result = 0
  /\ state # "CAPTURE"
  /\ state = "ROOT" => ctype = "xml"
  /\ pc' = IF pc = "transfer" THEN "chunk" ELSE "final"
  /\ UNCHANGED <<ctype, query, parser, aborted, verdict, values>>

EndChunk ==
  /\ pc = "chunk"
  /\ pc' = "transfer"
  /\ UNCHANGED <<ctype, query, parser, aborted, verdict, values>>

WholeDocument == wellFormed /\ rootSeen /\ open = <<>>

\* Mutant: ctx->wellFormed is not looked at after the last chunk.
EndDocumentUnchecked ==
  /\ pc = "final"
  /\ pc' = "report"
  /\ UNCHANGED <<ctype, query, parser, aborted, verdict, values>>

\* The last xmlParseChunk finds out whether the document is complete.
EndDocument ==
  /\ pc = "final"
  /\ result' = IF WholeDocument THEN result ELSE -1
  /\ pc' = "report"
  /\ UNCHANGED <<ctype, state, bound, name, buf, attrs, parser, aborted,
                 verdict, values>>

\* sparql_curl_perform_ returns: no error, or a status above 299, a failed
\* transfer or a chunk refused.
TransferEnds(ok) ==
  /\ pc = "transfer"
  /\ ok => ~aborted
  /\ result' = IF ok THEN result ELSE -1
  /\ pc' = IF ok THEN "last" ELSE "report"
  /\ UNCHANGED <<ctype, state, bound, name, buf, attrs, parser, aborted,
                 verdict, values>>

\* The error or the complete callback, and sparql_query_perform_ returns.
Report ==
  /\ pc = "report"
  /\ verdict' = IF result # 0 THEN "error" ELSE "complete"
  /\ pc' = "returned"
  /\ UNCHANGED <<ctype, query, parser, aborted, values>>

-----------------------------------------------------------------------------
(* The SAX handlers.  They return at once when query->result is set, so    *)
(* what libxml2 reports after a failure is no step.                        *)

\* Mutant: the handlers go on after a failure.
ParsingAfterFailure == pc \in {"chunk", "final"} /\ wellFormed

Parsing == pc \in {"chunk", "final"} /\ wellFormed /\ result = 0

\* libxml2 meets an error in the document, and is silent from then on.
Malformed ==
  /\ Parsing
  /\ wellFormed' = FALSE
  /\ UNCHANGED <<pc, ctype, query, open, rootSeen, aborted, verdict, values>>

\* A start tag: one root element, any elements inside it.
Opens(el) ==
  /\ Parsing
  /\ open = <<>> => ~rootSeen
  /\ open' = Append(open, el)
  /\ rootSeen' = TRUE
  /\ UNCHANGED <<pc, ctype, wellFormed, aborted, verdict>>

\* A start tag the state machine follows.
Enter(el) ==
  /\ el \in Expected
  /\ Opens(el)
  /\ state' = StateOf[el]

\* An element in no namespace: strcmp() of a NULL namespace.
StartUnqualified ==
  /\ Parsing
  /\ open = <<>> => ~rootSeen
  /\ pc' = "crashed"
  /\ UNCHANGED <<ctype, query, parser, aborted, verdict, values>>

\* An element the state does not accept; "other" stands for every element
\* the handler does not know, those of another namespace included.
StartRejected(el) ==
  /\ el \in Elements \ Expected
  /\ Opens(el)
  /\ result' = -1
  /\ UNCHANGED <<state, bound, name, buf, attrs, values>>

\* An accepted element that only changes the state.
StartPlain(el) ==
  /\ el \in {"sparql", "head", "boolean", "uri", "bnode"}
  /\ Enter(el)
  /\ UNCHANGED <<result, bound, name, buf, attrs, values>>

\* <results> and <result>: beginresults and beginresult callbacks.
StartRows(el, ok) ==
  /\ el \in {"results", "result"}
  /\ Enter(el)
  /\ result' = Outcome(ok)
  /\ UNCHANGED <<bound, name, buf, attrs, values>>

\* <link>: without a href it is only warned about; the copy of the href or
\* the link callback may fail.
StartLink(has, ok) ==
  /\ Enter("link")
  /\ result' = IF has THEN Outcome(ok) ELSE result
  /\ UNCHANGED <<bound, name, buf, attrs, values>>

\* <variable>: as <link>, with its name.
StartVariable(n, ok) ==
  /\ Enter("variable")
  /\ result' = IF n # NULL THEN Outcome(ok) ELSE result
  /\ UNCHANGED <<bound, name, buf, attrs, values>>

\* Mutant: a <binding> with no name is let through.
StartBindingUnnamed(n, ok) ==
  /\ Enter("binding")
  /\ bound' = 0
  /\ name' = IF n = NULL THEN name ELSE IF ok THEN n ELSE NULL
  /\ result' = Outcome(n = NULL \/ ok)
  /\ values' = 0
  /\ UNCHANGED <<buf, attrs>>

\* <binding>: its name is copied, which may fail; with no name in the tag the
\* query keeps the name it has, and rejects the element if it has none.
StartBinding(n, ok) ==
  /\ Enter("binding")
  /\ bound' = 0
  /\ name' = IF n = NULL THEN name ELSE IF ok THEN n ELSE NULL
  /\ result' = Outcome(name' # NULL)
  /\ values' = 0
  /\ UNCHANGED <<buf, attrs>>

\* <literal>: the attributes it has are copied; "failed" is the one, if any,
\* whose copy failed and after which no other is read.
StartLiteral(stored, failed) ==
  /\ Enter("literal")
  /\ attrs' = (attrs \cup stored) \ failed
  /\ result' = Outcome(failed = {})
  /\ UNCHANGED <<bound, name, buf, values>>

\* Text where a value is expected is added to buf, which may need to grow;
\* text elsewhere is ignored.
Characters(t, ok) ==
  /\ Parsing
  /\ open # <<>>
  /\ state \in ValueStates \cup {"BOOLEAN"}
  /\ Len(buf) < MaxText
  /\ buf' = IF ok THEN Append(buf, t) ELSE buf
  /\ result' = Outcome(ok)
  /\ UNCHANGED <<pc, ctype, state, bound, name, attrs, parser, aborted,
                 verdict, values>>

\* An end tag: of the innermost open element.
Closes ==
  /\ Parsing
  /\ open # <<>>
  /\ open' = SubSeq(open, 1, Len(open) - 1)
  /\ UNCHANGED <<pc, ctype, rootSeen, wellFormed, aborted, verdict>>

\* The end tags that only change the state.
EndPlain ==
  /\ state \in {"ROOT", "SPARQL", "HEAD", "LINK", "VARIABLE"}
  /\ Closes
  /\ state' = Parent[state]
  /\ UNCHANGED <<result, bound, name, buf, attrs, values>>

\* </results> and </result>: the state changes, then endresults or endresult
\* is called.
EndRows(ok) ==
  /\ state \in {"RESULTS", "RESULT"}
  /\ Closes
  /\ state' = Parent[state]
  /\ result' = Outcome(ok)
  /\ UNCHANGED <<bound, name, buf, attrs, values>>

\* Mutant: the text is not freed with the rest.
EndBindingKeepsText ==
  /\ state = "BINDING"
  /\ Closes
  /\ state' = Parent[state]
  /\ name' = NULL
  /\ attrs' = {}
  /\ values' = 0
  /\ UNCHANGED <<result, bound, buf>>

\* </binding>: what was kept for the binding is freed.
EndBinding ==
  /\ state = "BINDING"
  /\ Closes
  /\ state' = Parent[state]
  /\ name' = NULL
  /\ attrs' = {}
  /\ buf' = <<>>
  /\ values' = 0
  /\ UNCHANGED <<result, bound>>

\* </uri>, </bnode> and </literal>: the callback, and back to the binding
\* unless it failed.
EndValue(ok) ==
  /\ state \in ValueStates
  /\ Closes
  /\ state' = IF ok THEN Parent[state] ELSE state
  /\ result' = Outcome(ok)
  /\ values' = IF ok /\ values < 2 THEN values + 1 ELSE values
  /\ UNCHANGED <<bound, name, buf, attrs>>

BooleanText == buf \in {<<"true">>, <<"false">>}

\* An end tag in state BOOLEAN, with a text that is a boolean: the callback.
EndBoolean(ok) ==
  /\ state = "BOOLEAN"
  /\ BooleanText
  /\ Closes
  /\ state' = Parent[state]
  /\ result' = Outcome(ok)
  /\ UNCHANGED <<bound, name, buf, attrs, values>>

\* The same with any other text: "expected 'true' or 'false'".
RejectBoolean ==
  /\ state = "BOOLEAN"
  /\ ~BooleanText
  /\ Closes
  /\ result' = -1
  /\ UNCHANGED <<state, bound, name, buf, attrs, values>>

-----------------------------------------------------------------------------
Transfer ==
  \/ Perform
  \/ \E ok \in BOOLEAN : Capture(ok)
  \/ Refuse \/ NoContentType \/ Parse \/ EndChunk \/ EndDocument
  \/ \E ok \in BOOLEAN : TransferEnds(ok)
  \/ Report

StartElement ==
  \/ StartUnqualified
  \/ \E el \in Elements : StartRejected(el) \/ StartPlain(el)
  \/ \E el \in Elements, ok \in BOOLEAN : StartRows(el, ok)
  \/ \E has, ok \in BOOLEAN : StartLink(has, ok)
  \/ \E n \in Names \cup {NULL}, ok \in BOOLEAN : StartVariable(n, ok)
  \/ \E n \in Names \cup {NULL}, ok \in BOOLEAN : StartBinding(n, ok)
  \/ \E stored \in SUBSET Attributes :
       \E failed \in {{}} \cup {{a} : a \in Attributes \ stored} :
         StartLiteral(stored, failed)

EndElement ==
  \/ EndPlain
  \/ \E ok \in BOOLEAN : EndRows(ok) \/ EndValue(ok) \/ EndBoolean(ok)
  \/ EndBinding
  \/ RejectBoolean

Text == \E t \in Texts, ok \in BOOLEAN : Characters(t, ok)

Next == Transfer \/ Malformed \/ StartElement \/ EndElement \/ Text

Spec == Init /\ [][Next]_vars

\* The callers' and the libraries' steps that are bound to come: a call of
\* xmlParseChunk returns, and so does sparql_query_perform_ once libcurl has.
\* That libcurl does is assumed of the server: perform-query.c sets no
\* timeout, so it rests on the response coming to an end.
Fairness ==
  /\ WF_vars(Perform)
  /\ WF_vars(EndChunk)
  /\ WF_vars(EndDocument)
  /\ WF_vars(Report)
  /\ WF_vars(pc = "last" /\ (Capture(TRUE) \/ Refuse \/ NoContentType \/ Parse))
  /\ SF_vars(\E ok \in BOOLEAN : TransferEnds(ok))

FairSpec == Spec /\ Fairness

-----------------------------------------------------------------------------
(* Properties. *)

\* Every variable keeps its type.
TypeOK ==
  /\ pc \in {"idle", "transfer", "chunk", "last", "final", "report",
            "returned", "crashed"}
  /\ ctype \in Ctypes
  /\ state \in States
  /\ result \in {0, -1}
  /\ bound = 0
  /\ name \in Names \cup {NULL}
  /\ buf \in Seq(Texts) /\ Len(buf) <= MaxText
  /\ attrs \in SUBSET Attributes
  /\ open \in Seq(Elements)
  /\ rootSeen \in BOOLEAN /\ wellFormed \in BOOLEAN /\ aborted \in BOOLEAN
  /\ verdict \in {"none", "complete", "error"}
  /\ values \in 0..2

\* The elements that are open in each state.
InSparql  == Append(<<>>, "sparql")
InHead    == Append(InSparql, "head")
InResults == Append(InSparql, "results")
InResult  == Append(InResults, "result")
InBinding == Append(InResult, "binding")

Path ==
  [s \in States |->
     CASE s \in {"ROOT", "CAPTURE"} -> <<>>
       [] s = "SPARQL"   -> InSparql
       [] s = "HEAD"     -> InHead
       [] s = "LINK"     -> Append(InHead, "link")
       [] s = "VARIABLE" -> Append(InHead, "variable")
       [] s = "RESULTS"  -> InResults
       [] s = "RESULT"   -> InResult
       [] s = "BINDING"  -> InBinding
       [] s = "URI"      -> Append(InBinding, "uri")
       [] s = "LITERAL"  -> Append(InBinding, "literal")
       [] s = "BNODE"    -> Append(InBinding, "bnode")
       [] s = "BOOLEAN"  -> Append(InSparql, "boolean")]

\* The end-element handler never looks at the name of the element that ends:
\* it trusts its state to say what is open.  As long as the query has not
\* failed it does, whatever the document's elements and however they are cut
\* into chunks; only after </boolean> the state lags behind, and then no
\* state but ROOT's and SPARQL's elements can be open.
StateTracksDocument ==
  result = 0 => \/ open = Path[state]
                \/ state = "BOOLEAN" /\ open \in {Path["SPARQL"], Path["ROOT"]}

\* What is kept of one binding never reaches the next: between bindings there
\* is no name, text, language or datatype left, and until a binding has
\* delivered a value its text is that of this binding's own element.
NoStaleValue ==
  result = 0 =>
    /\ state \notin ValueStates \cup {"BINDING"} =>
         name = NULL /\ attrs = {} /\ values = 0
    /\ state \notin ValueStates \cup {"BINDING", "BOOLEAN"} => buf = <<>>
    /\ state = "BINDING" /\ values = 0 => buf = <<>> /\ attrs = {}
    /\ state \in {"URI", "BNODE"} /\ values = 0 => attrs = {}

\* The uri, bnode and literal callbacks look their variable up by name: the
\* name is there from the binding's start tag to its end tag.
NamedWhenBound ==
  result = 0 /\ state \in ValueStates \cup {"BINDING"} => name # NULL

\* sparql_query_perform_ says "complete" only of a whole well-formed document
\* or of a body that was captured as plain text, and never of a truncated
\* document, an aborted transfer or one in which a callback failed.
CompleteOnlyForWholeResponse ==
  verdict = "complete" =>
    /\ result = 0 /\ ~aborted
    /\ state = "CAPTURE" \/ WholeDocument

\* Where the callbacks are, and whether one of them was the last.
Place ==
  CASE state = "RESULTS"                     -> "results"
    [] state = "RESULT"                      -> "row"
    [] state \in ValueStates \cup {"BINDING"} -> "cell"
    [] OTHER                                 -> "outside"

Stopped == result # 0

Callbacks == INSTANCE ResultCallbacks WITH place <- Place, stopped <- Stopped

\* The callbacks come as ResultCallbacks says: nested, none after a failure,
\* and with one verdict.
CallbacksNest == Callbacks!Spec

\* A query whose response comes to an end has its verdict, unless it crashed.
AlwaysReports == <>(pc \in {"returned", "crashed"})

\* What the message of perform-query.c:697 says: the boolean check rejects
\* the content of a <boolean> element.
BooleanCheckIsForBoolean ==
  [][RejectBoolean => open # <<>> /\ open[Len(open)] = "boolean"]_vars
==============================================================================
