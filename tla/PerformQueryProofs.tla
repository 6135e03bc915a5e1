-------------------------- MODULE PerformQueryProofs --------------------------
(***************************************************************************)
(* What PerformQuery says for any names and any bound on the text, proved: *)
(* its type invariant, that the state follows the open elements, that no   *)
(* value leaks from one binding to the next, that "complete" is only said  *)
(* of a whole response, and that it implements ResultCallbacks.            *)
(***************************************************************************)
EXTENDS PerformQuery, SequenceTheorems, TLAPS

-----------------------------------------------------------------------------
(* The tables and the element stack. *)

\* Popping what was pushed gives the stack back.
LEMMA PopPush ==
  ASSUME NEW S, NEW s \in Seq(S), NEW e \in S
  PROVE  /\ Append(s, e) \in Seq(S)
         /\ Append(s, e) # <<>>
         /\ SubSeq(Append(s, e), 1, Len(Append(s, e)) - 1) = s
  BY AppendProperties, SubSeqProperties

\* A stack that is popped stays a stack of elements.
LEMMA PopType ==
  ASSUME NEW s \in Seq(Elements), s # <<>>
  PROVE  SubSeq(s, 1, Len(s) - 1) \in Seq(Elements)
  OBVIOUS

\* A state accepts only elements the handler knows.
LEMMA ExpectedKnown ==
  ASSUME TypeOK
  PROVE  Expected \subseteq Elements \ {"other"}
  BY DEF TypeOK, Expected, Children, States, ValueStates, Elements

\* Every accepted element leads to a state.
LEMMA StateOfType ==
  ASSUME NEW el \in Elements \ {"other"}
  PROVE  StateOf[el] \in States
  BY DEF StateOf, Elements, States, ValueStates

\* Every end tag leads to a state.
LEMMA ParentType ==
  ASSUME NEW s \in States \ {"CAPTURE"}
  PROVE  Parent[s] \in States
  BY DEF Parent, States, ValueStates

-----------------------------------------------------------------------------
(* Type correctness. *)

LEMMA TypeInit == Init => TypeOK
  <1>1. <<>> \in Seq(Texts) /\ <<>> \in Seq(Elements) /\ Len(<<>>) = 0
    OBVIOUS
  <1> SUFFICES ASSUME Init PROVE TypeOK
    OBVIOUS
  <1>2. /\ buf \in Seq(Texts) /\ Len(buf) <= MaxText
        /\ open \in Seq(Elements)
    BY <1>1, MaxTextAssumption DEF Init
  <1>3. rootSeen \in BOOLEAN /\ wellFormed \in BOOLEAN /\ aborted \in BOOLEAN
    BY Zenon DEF Init
  <1>4. /\ name \in Names \cup {NULL} /\ attrs \in SUBSET Attributes
        /\ state \in States /\ ctype \in Ctypes
    BY DEF Init, States
  <1> QED
    BY <1>2, <1>3, <1>4 DEF Init, TypeOK

LEMMA TypeTransfer ==
  ASSUME TypeOK, Transfer
  PROVE  TypeOK'
  <1>1. CASE Perform
    BY <1>1 DEF Perform, TypeOK, States, parser
  <1>2. ASSUME NEW ok \in BOOLEAN, Capture(ok) PROVE TypeOK'
    BY <1>2 DEF Capture, AfterWrite, TypeOK, States, parser
  <1>3. CASE Refuse
    BY <1>3 DEF Refuse, AfterWrite, TypeOK, query, parser
  <1>4. CASE NoContentType
    BY <1>4 DEF NoContentType, TypeOK, query, parser
  <1>5. CASE Parse
    BY <1>5 DEF Parse, TypeOK, query, parser
  <1>6. CASE EndChunk
    BY <1>6 DEF EndChunk, TypeOK, query, parser
  <1>7. CASE EndDocument
    BY <1>7 DEF EndDocument, TypeOK, parser
  <1>8. ASSUME NEW ok \in BOOLEAN, TransferEnds(ok) PROVE TypeOK'
    BY <1>8 DEF TransferEnds, TypeOK, parser
  <1>9. CASE Report
    BY <1>9 DEF Report, TypeOK, query, parser
  <1> QED
    BY <1>1, <1>2, <1>3, <1>4, <1>5, <1>6, <1>7, <1>8, <1>9 DEF Transfer

LEMMA TypeStart ==
  ASSUME TypeOK, StartElement
  PROVE  TypeOK'
  <1> USE ExpectedKnown, StateOfType
  <1>1. CASE StartUnqualified
    BY <1>1 DEF StartUnqualified, TypeOK, query, parser
  <1>2. ASSUME NEW el \in Elements, StartRejected(el) PROVE TypeOK'
    BY <1>2 DEF StartRejected, Opens, TypeOK
  <1>3. ASSUME NEW el \in Elements, StartPlain(el) PROVE TypeOK'
    BY <1>3 DEF StartPlain, Enter, Opens, TypeOK
  <1>4. ASSUME NEW el \in Elements, NEW ok \in BOOLEAN, StartRows(el, ok)
        PROVE  TypeOK'
    BY <1>4 DEF StartRows, Enter, Opens, Outcome, TypeOK
  <1>5. ASSUME NEW has \in BOOLEAN, NEW ok \in BOOLEAN, StartLink(has, ok)
        PROVE  TypeOK'
    BY <1>5 DEF StartLink, Enter, Opens, Outcome, TypeOK
  <1>6. ASSUME NEW n \in Names \cup {NULL}, NEW ok \in BOOLEAN,
               StartVariable(n, ok)
        PROVE  TypeOK'
    BY <1>6 DEF StartVariable, Enter, Opens, Outcome, TypeOK
  <1>7. ASSUME NEW n \in Names \cup {NULL}, NEW ok \in BOOLEAN,
               StartBinding(n, ok)
        PROVE  TypeOK'
    BY <1>7 DEF StartBinding, Enter, Opens, Outcome, TypeOK
  <1>8. ASSUME NEW stored \in SUBSET Attributes, NEW failed,
               StartLiteral(stored, failed)
        PROVE  TypeOK'
    BY <1>8 DEF StartLiteral, Enter, Opens, Outcome, TypeOK
  <1> QED
    BY <1>1, <1>2, <1>3, <1>4, <1>5, <1>6, <1>7, <1>8 DEF StartElement

LEMMA TypeEnd ==
  ASSUME TypeOK, EndElement
  PROVE  TypeOK'
  <1> USE PopType, ParentType
  <1>1. CASE EndPlain
    BY <1>1 DEF EndPlain, Closes, TypeOK
  <1>2. ASSUME NEW ok \in BOOLEAN, EndRows(ok) PROVE TypeOK'
    BY <1>2 DEF EndRows, Closes, Outcome, TypeOK
  <1>3. ASSUME NEW ok \in BOOLEAN, EndValue(ok) PROVE TypeOK'
    BY <1>3 DEF EndValue, ValueStates, Closes, Outcome, TypeOK
  <1>4. ASSUME NEW ok \in BOOLEAN, EndBoolean(ok) PROVE TypeOK'
    BY <1>4 DEF EndBoolean, Closes, Outcome, TypeOK
  <1>5. CASE EndBinding
    BY <1>5, MaxTextAssumption DEF EndBinding, Closes, TypeOK
  <1>6. CASE RejectBoolean
    BY <1>6 DEF RejectBoolean, Closes, TypeOK
  <1> QED
    BY <1>1, <1>2, <1>3, <1>4, <1>5, <1>6 DEF EndElement

LEMMA TypeText ==
  ASSUME TypeOK, Text \/ Malformed \/ UNCHANGED vars
  PROVE  TypeOK'
  <1>1. ASSUME NEW t \in Texts, NEW ok \in BOOLEAN, Characters(t, ok)
        PROVE  TypeOK'
    BY <1>1, AppendProperties, MaxTextAssumption
    DEF Characters, Outcome, TypeOK, parser
  <1>2. CASE Malformed
    BY <1>2 DEF Malformed, TypeOK, query
  <1>3. CASE UNCHANGED vars
    BY <1>3 DEF vars, query, parser, TypeOK
  <1> QED
    BY <1>1, <1>2, <1>3 DEF Text

LEMMA TypeNext == TypeOK /\ [Next]_vars => TypeOK'
  BY TypeTransfer, TypeStart, TypeEnd, TypeText DEF Next

\* Every variable keeps its type in every run of a query.
THEOREM TypeCorrect == Spec => []TypeOK
  BY TypeInit, TypeNext, PTL DEF Spec

-----------------------------------------------------------------------------
(* The state follows the open elements. *)

\* The elements of every state are a stack of elements.
LEMMA PathType == \A s \in States : Path[s] \in Seq(Elements)
  <1>1. <<>> \in Seq(Elements)
    OBVIOUS
  <1>2. InSparql \in Seq(Elements)
    BY <1>1, PopPush DEF InSparql, Elements
  <1>3. InHead \in Seq(Elements) /\ InResults \in Seq(Elements)
    BY <1>2, PopPush DEF InHead, InResults, Elements
  <1>4. InResult \in Seq(Elements)
    BY <1>3, PopPush DEF InResult, Elements
  <1>5. InBinding \in Seq(Elements)
    BY <1>4, PopPush DEF InBinding, Elements
  <1>6. \A st \in Seq(Elements), el \in Elements : Append(st, el) \in Seq(Elements)
    BY PopPush
  <1> QED
    BY <1>1, <1>2, <1>3, <1>4, <1>5, <1>6 DEF Path, States, ValueStates, Elements

\* An accepted element pushes itself on the elements of the state it is in.
LEMMA PathOfChild ==
  ASSUME NEW s \in States, NEW el \in Children[s]
  PROVE  Path[StateOf[el]] = Append(Path[s], el)
  <1>1. s \in {"ROOT", "SPARQL", "HEAD", "RESULTS", "RESULT", "BINDING"}
    BY DEF Children, States, ValueStates
  <1>2. CASE s = "ROOT"
    <2>1. el \in {"sparql"}
      BY <1>2 DEF Children, States
    <2> QED
      BY <1>2, <2>1 DEF Path, StateOf, States, ValueStates, Elements, InSparql
  <1>3. CASE s = "SPARQL"
    <2>1. el \in {"head", "results", "boolean"}
      BY <1>3 DEF Children, States
    <2> QED
      BY <1>3, <2>1 DEF Path, StateOf, States, ValueStates, Elements, InHead, InResults, InSparql
  <1>4. CASE s = "HEAD"
    <2>1. el \in {"link", "variable"}
      BY <1>4 DEF Children, States
    <2> QED
      BY <1>4, <2>1 DEF Path, StateOf, States, ValueStates, Elements, InHead
  <1>5. CASE s = "RESULTS"
    <2>1. el \in {"result"}
      BY <1>5 DEF Children, States
    <2> QED
      BY <1>5, <2>1 DEF Path, StateOf, States, ValueStates, Elements, InResult, InResults
  <1>6. CASE s = "RESULT"
    <2>1. el \in {"binding"}
      BY <1>6 DEF Children, States
    <2> QED
      BY <1>6, <2>1 DEF Path, StateOf, States, ValueStates, Elements, InBinding, InResult
  <1>7. CASE s = "BINDING"
    <2>1. el \in {"uri", "literal", "bnode"}
      BY <1>7 DEF Children, States
    <2> QED
      BY <1>7, <2>1 DEF Path, StateOf, States, ValueStates, Elements, InBinding
  <1> QED
    BY <1>1, <1>2, <1>3, <1>4, <1>5, <1>6, <1>7

\* The elements of a state are those of the state its end tag goes back to
\* and one more.
LEMMA PathOfParent ==
  ASSUME NEW s \in States \ {"ROOT", "CAPTURE", "BOOLEAN"}
  PROVE  \E el \in Elements : Path[s] = Append(Path[Parent[s]], el)
  <1>1. CASE s \in {"SPARQL", "HEAD", "RESULTS", "RESULT", "BINDING"}
    BY <1>1 DEF Path, Parent, States, ValueStates, Elements, InBinding,
       InResult, InResults, InHead, InSparql
  <1>2. CASE s \in {"LINK", "VARIABLE"}
    BY <1>2 DEF Path, Parent, States, ValueStates, Elements
  <1>3. CASE s \in ValueStates
    BY <1>3 DEF Path, Parent, States, ValueStates, Elements
  <1> QED
    BY <1>1, <1>2, <1>3 DEF States

\* <boolean> is a child of <sparql>, and <sparql> is the root.
LEMMA PathOfBoolean ==
  /\ Path["BOOLEAN"] = Append(Path["SPARQL"], "boolean")
  /\ Path["SPARQL"] = Append(Path["ROOT"], "sparql")
  /\ Path["ROOT"] = <<>> /\ Path["CAPTURE"] = <<>>
  BY DEF Path, States, ValueStates, InSparql

\* Only ROOT and CAPTURE have no element open.
LEMMA PathEmpty ==
  ASSUME NEW s \in States, Path[s] = <<>>
  PROVE  s \in {"ROOT", "CAPTURE"}
  <1>1. CASE s \in States \ {"ROOT", "CAPTURE", "BOOLEAN"}
    <2>1. PICK el \in Elements : Path[s] = Append(Path[Parent[s]], el)
      BY <1>1, PathOfParent
    <2> QED
      BY <1>1, <2>1, PathType, PopPush, ParentType
  <1>2. CASE s = "BOOLEAN"
    BY <1>2, PathOfBoolean, PathType, PopPush DEF States, Elements
  <1> QED
    BY <1>1, <1>2

\* Popping the elements of a state gives those of the state its end tag goes
\* back to.
LEMMA PathPop ==
  ASSUME NEW s \in States \ {"ROOT", "CAPTURE", "BOOLEAN"}
  PROVE  SubSeq(Path[s], 1, Len(Path[s]) - 1) = Path[Parent[s]]
  <1>1. PICK el \in Elements : Path[s] = Append(Path[Parent[s]], el)
    BY PathOfParent
  <1>2. Path[Parent[s]] \in Seq(Elements)
    BY PathType, ParentType
  <1> QED
    BY <1>1, <1>2, PopPush

\* An accepted element takes the state and the stack one step down together.
LEMMA TracksEnter ==
  ASSUME TypeOK, StateTracksDocument, NEW el, Enter(el)
  PROVE  StateTracksDocument'
  <1>1. result = 0 /\ state \in States /\ el \in Children[state]
    BY DEF Enter, Opens, Parsing, Expected, TypeOK
  <1>2. state # "BOOLEAN"
    BY <1>1 DEF Children, States, ValueStates
  <1>3. open = Path[state]
    BY <1>1, <1>2 DEF StateTracksDocument
  <1> QED
    BY <1>1, <1>3, PathOfChild DEF StateTracksDocument, Enter, Opens

\* An end tag takes them one step up together.
LEMMA TracksLeave ==
  ASSUME TypeOK, StateTracksDocument, Closes,
         state \notin {"CAPTURE", "BOOLEAN"}, state' = Parent[state]
  PROVE  StateTracksDocument'
  <1>1. result = 0 /\ state \in States /\ open = Path[state] /\ open # <<>>
    BY DEF Closes, Parsing, StateTracksDocument, TypeOK
  <1>2. state # "ROOT"
    BY <1>1, PathOfBoolean
  <1> QED
    BY <1>1, <1>2, PathPop DEF StateTracksDocument, Closes

LEMMA TracksNext ==
  ASSUME TypeOK, StateTracksDocument, [Next]_vars,
         pc = "idle" => state = "ROOT" /\ result = 0
  PROVE  StateTracksDocument'
  <1>1. CASE Transfer
    <2>1. CASE Perform
      BY <2>1 DEF Perform, parser, StateTracksDocument
    <2>2. ASSUME NEW ok \in BOOLEAN, Capture(ok) PROVE StateTracksDocument'
      BY <2>2, PathOfBoolean
      DEF Capture, IsPlain, parser, StateTracksDocument
    <2>3. ASSUME NEW ok \in BOOLEAN, TransferEnds(ok)
          PROVE  StateTracksDocument'
      BY <2>3 DEF TransferEnds, parser, StateTracksDocument
    <2>4. CASE Refuse \/ NoContentType \/ Parse \/ EndChunk \/ Report
      BY <2>4 DEF Refuse, NoContentType, Parse, EndChunk, Report, query,
                  parser, StateTracksDocument
    <2>5. CASE EndDocument
      BY <2>5 DEF EndDocument, parser, StateTracksDocument
    <2> QED
      BY <1>1, <2>1, <2>2, <2>3, <2>4, <2>5 DEF Transfer
  <1>2. CASE StartElement
    <2>1. CASE StartUnqualified
      BY <2>1 DEF StartUnqualified, query, parser, StateTracksDocument
    <2>2. ASSUME NEW el \in Elements, StartRejected(el)
          PROVE  StateTracksDocument'
      BY <2>2 DEF StartRejected, StateTracksDocument
    <2>3. ASSUME NEW el, Enter(el) PROVE StateTracksDocument'
      BY <2>3, TracksEnter
    <2> QED
      BY <1>2, <2>1, <2>2, <2>3 DEF StartElement, StartPlain, StartRows,
         StartLink, StartVariable, StartBinding, StartLiteral
  <1>3. CASE EndElement
    <2>1. CASE EndPlain
      BY <2>1, TracksLeave DEF EndPlain
    <2>2. ASSUME NEW ok \in BOOLEAN, EndRows(ok) PROVE StateTracksDocument'
      BY <2>2, TracksLeave DEF EndRows
    <2>3. ASSUME NEW ok \in BOOLEAN, EndValue(ok) PROVE StateTracksDocument'
      <3>1. CASE ok
        BY <2>3, <3>1, TracksLeave DEF EndValue, ValueStates
      <3>2. CASE ~ok
        BY <2>3, <3>2 DEF EndValue, Outcome, StateTracksDocument
      <3> QED
        BY <3>1, <3>2
    <2>4. ASSUME NEW ok \in BOOLEAN, EndBoolean(ok) PROVE StateTracksDocument'
      <3>1. state = "BOOLEAN" /\ state' = "BOOLEAN" /\ result = 0 /\ open # <<>>
            /\ open' = SubSeq(open, 1, Len(open) - 1)
        BY <2>4 DEF EndBoolean, Closes, Parsing, Parent, States, ValueStates
      <3>2. open \in {Path["BOOLEAN"], Path["SPARQL"]}
        BY <3>1, PathOfBoolean DEF StateTracksDocument
      <3>3. /\ Path["SPARQL"] \in Seq(Elements) /\ Path["ROOT"] \in Seq(Elements)
            /\ "boolean" \in Elements /\ "sparql" \in Elements
        BY PathType DEF States, Elements
      <3>4. open' \in {Path["SPARQL"], Path["ROOT"]}
        <4> DEFINE Pop(s) == SubSeq(s, 1, Len(s) - 1)
        <4>1. /\ Pop(Append(Path["SPARQL"], "boolean")) = Path["SPARQL"]
              /\ Pop(Append(Path["ROOT"], "sparql")) = Path["ROOT"]
          BY <3>3, PopPush
        <4>2. /\ Pop(Path["BOOLEAN"]) = Path["SPARQL"]
              /\ Pop(Path["SPARQL"]) = Path["ROOT"]
          BY <4>1, PathOfBoolean
        <4>3. open' = Pop(open)
          BY <3>1
        <4> HIDE DEF Pop
        <4> QED
          BY <3>2, <4>2, <4>3
      <3> QED
        BY <3>1, <3>4 DEF StateTracksDocument
    <2>5. CASE EndBinding
      BY <2>5, TracksLeave DEF EndBinding
    <2>6. CASE RejectBoolean
      BY <2>6 DEF RejectBoolean, StateTracksDocument
    <2> QED
      BY <1>3, <2>1, <2>2, <2>3, <2>4, <2>5, <2>6 DEF EndElement
  <1>4. CASE Text \/ Malformed
    <2>1. ASSUME NEW t \in Texts, NEW ok \in BOOLEAN, Characters(t, ok)
          PROVE  StateTracksDocument'
      BY <2>1 DEF Characters, parser, Parsing, StateTracksDocument
    <2>2. CASE Malformed
      BY <2>2 DEF Malformed, query, StateTracksDocument
    <2> QED
      BY <1>4, <2>1, <2>2 DEF Text
  <1>5. CASE UNCHANGED vars
    BY <1>5 DEF vars, query, parser, StateTracksDocument
  <1> QED
    BY <1>1, <1>2, <1>3, <1>4, <1>5 DEF Next

-----------------------------------------------------------------------------
(* The inductive invariant. *)

\* Where sparql_query_perform_ is, and what it knows there.
PhaseInv ==
  /\ pc = "idle" => state = "ROOT" /\ result = 0
  /\ pc \in {"chunk", "last", "final"} => ~aborted
  /\ verdict # "none" => pc = "returned"
  /\ verdict = "complete" => result = 0
  /\ pc \in {"report", "returned"} /\ result = 0 =>
       ~aborted /\ (state = "CAPTURE" \/ WholeDocument)

Inv ==
  /\ TypeOK
  /\ PhaseInv
  /\ StateTracksDocument
  /\ NoStaleValue
  /\ NamedWhenBound

LEMMA InvInit == Init => Inv
  <1> SUFFICES ASSUME Init PROVE Inv
    OBVIOUS
  <1>1. TypeOK
    BY TypeInit
  <1>2. PhaseInv
    BY DEF Init, PhaseInv
  <1>3. StateTracksDocument
    BY PathOfBoolean DEF Init, StateTracksDocument
  <1>4. NoStaleValue /\ NamedWhenBound
    BY DEF Init, NoStaleValue, NamedWhenBound, ValueStates
  <1> QED
    BY <1>1, <1>2, <1>3, <1>4 DEF Inv

LEMMA PhaseNext ==
  ASSUME TypeOK, PhaseInv, [Next]_vars
  PROVE  PhaseInv'
  <1>1. CASE Transfer
    <2>1. CASE Perform
      BY <2>1 DEF Perform, PhaseInv
    <2>2. ASSUME NEW ok \in BOOLEAN, Capture(ok) PROVE PhaseInv'
      BY <2>2 DEF Capture, Writing, AfterWrite, PhaseInv
    <2>3. CASE Refuse
      BY <2>3 DEF Refuse, Writing, AfterWrite, query, PhaseInv
    <2>4. CASE NoContentType \/ Parse \/ EndChunk
      BY <2>4 DEF NoContentType, Parse, EndChunk, Writing, query, PhaseInv
    <2>5. CASE EndDocument
      BY <2>5 DEF EndDocument, WholeDocument, parser, PhaseInv
    <2>6. ASSUME NEW ok \in BOOLEAN, TransferEnds(ok) PROVE PhaseInv'
      BY <2>6 DEF TransferEnds, PhaseInv
    <2>7. CASE Report
      BY <2>7 DEF Report, WholeDocument, parser, query, PhaseInv
    <2> QED
      BY <1>1, <2>1, <2>2, <2>3, <2>4, <2>5, <2>6, <2>7 DEF Transfer
  <1>2. CASE StartElement
    <2>1. CASE StartUnqualified
      BY <2>1 DEF StartUnqualified, Parsing, query, PhaseInv
    <2>2. ASSUME NEW el, Opens(el) PROVE PhaseInv'
      BY <2>2 DEF Opens, Parsing, PhaseInv
    <2> QED
      BY <1>2, <2>1, <2>2 DEF StartElement, StartRejected, StartPlain,
         StartRows, StartLink, StartVariable, StartBinding, StartLiteral, Enter
  <1>3. CASE EndElement
    <2>1. Closes
      BY <1>3 DEF EndElement, EndPlain, EndRows, EndValue, EndBoolean,
         EndBinding, RejectBoolean
    <2> QED
      BY <2>1 DEF Closes, Parsing, PhaseInv
  <1>4. CASE Text \/ Malformed
    <2>1. ASSUME NEW t \in Texts, NEW ok \in BOOLEAN, Characters(t, ok)
          PROVE  PhaseInv'
      BY <2>1 DEF Characters, Parsing, PhaseInv
    <2>2. CASE Malformed
      BY <2>2 DEF Malformed, Parsing, query, PhaseInv
    <2> QED
      BY <1>4, <2>1, <2>2 DEF Text
  <1>5. CASE UNCHANGED vars
    BY <1>5 DEF vars, query, parser, WholeDocument, PhaseInv
  <1> QED
    BY <1>1, <1>2, <1>3, <1>4, <1>5 DEF Next

\* No value, name or text crosses from one binding to the next.
LEMMA StaleNext ==
  ASSUME TypeOK, PhaseInv, NoStaleValue, NamedWhenBound, [Next]_vars
  PROVE  NoStaleValue' /\ NamedWhenBound'
  <1> DEFINE Goal == NoStaleValue /\ NamedWhenBound
  <1> USE DEF NoStaleValue, NamedWhenBound
  <1>1. CASE Transfer
    <2>1. CASE Perform
      BY <2>1 DEF Perform, PhaseInv, ValueStates
    <2>2. ASSUME NEW ok \in BOOLEAN, Capture(ok) PROVE Goal'
      BY <2>2 DEF Capture, IsPlain, ValueStates
    <2>3. ASSUME NEW ok \in BOOLEAN, TransferEnds(ok) PROVE Goal'
      BY <2>3 DEF TransferEnds
    <2>4. CASE Refuse \/ NoContentType \/ Parse \/ EndChunk \/ Report
      BY <2>4 DEF Refuse, NoContentType, Parse, EndChunk, Report, query
    <2>5. CASE EndDocument
      BY <2>5 DEF EndDocument
    <2> QED
      BY <1>1, <2>1, <2>2, <2>3, <2>4, <2>5 DEF Transfer
  <1>2. CASE StartElement
    <2>1. CASE StartUnqualified
      BY <2>1 DEF StartUnqualified, query
    <2>2. ASSUME NEW el \in Elements, StartRejected(el) PROVE Goal'
      BY <2>2 DEF StartRejected
    <2>3. ASSUME NEW el, Enter(el)
          PROVE  /\ result = 0 /\ el \in Children[state]
                 /\ state' = StateOf[el]
      BY <2>3 DEF Enter, Opens, Parsing, Expected
    <2> USE <2>3 DEF Children, StateOf, States, Elements, ValueStates, TypeOK
    <2>4. ASSUME NEW el \in Elements, StartPlain(el) PROVE Goal'
      BY <2>4 DEF StartPlain
    <2>5. ASSUME NEW el \in Elements, NEW ok \in BOOLEAN, StartRows(el, ok)
          PROVE  Goal'
      BY <2>5 DEF StartRows
    <2>6. ASSUME NEW has \in BOOLEAN, NEW ok \in BOOLEAN, StartLink(has, ok)
          PROVE  Goal'
      BY <2>6 DEF StartLink
    <2>7. ASSUME NEW n \in Names \cup {NULL}, NEW ok \in BOOLEAN,
                 StartVariable(n, ok)
          PROVE  Goal'
      BY <2>7 DEF StartVariable
    <2>8. ASSUME NEW n \in Names \cup {NULL}, NEW ok \in BOOLEAN,
                 StartBinding(n, ok)
          PROVE  Goal'
      <3>1. Enter("binding")
        BY <2>8 DEF StartBinding
      <3>2. state = "RESULT" /\ state' = "BINDING"
        <4>1. "binding" \in Children[state] /\ state' = StateOf["binding"]
          BY <2>3, <3>1
        <4>2. state = "RESULT"
          BY <4>1
        <4>3. StateOf["binding"] = "BINDING"
          OBVIOUS
        <4> QED
          BY <4>1, <4>2, <4>3
      <3>3. /\ buf' = buf /\ attrs' = attrs /\ values' = 0
            /\ result' = 0 => name' # NULL
        <4>1. result' = IF name' # NULL THEN 0 ELSE -1
          BY <2>8 DEF StartBinding, Outcome
        <4> QED
          BY <2>8, <4>1 DEF StartBinding
      <3>4. buf = <<>> /\ attrs = {}
        BY <2>3, <3>1, <3>2
      <3> QED
        BY <3>2, <3>3, <3>4
    <2>9. ASSUME NEW stored \in SUBSET Attributes, NEW failed,
                 StartLiteral(stored, failed)
          PROVE  Goal'
      BY <2>9 DEF StartLiteral
    <2> QED
      BY <1>2, <2>1, <2>2, <2>4, <2>5, <2>6, <2>7, <2>8, <2>9
      DEF StartElement
  <1>3. CASE EndElement
    <2> USE DEF Closes, Parsing, Parent, States, ValueStates, TypeOK
    <2>1. CASE EndPlain
      BY <2>1 DEF EndPlain
    <2>2. ASSUME NEW ok \in BOOLEAN, EndRows(ok) PROVE Goal'
      BY <2>2 DEF EndRows
    <2>3. ASSUME NEW ok \in BOOLEAN, EndValue(ok) PROVE Goal'
      BY <2>3 DEF EndValue, Outcome
    <2>4. ASSUME NEW ok \in BOOLEAN, EndBoolean(ok) PROVE Goal'
      BY <2>4 DEF EndBoolean
    <2>5. CASE EndBinding
      BY <2>5 DEF EndBinding
    <2>6. CASE RejectBoolean
      BY <2>6 DEF RejectBoolean
    <2> QED
      BY <1>3, <2>1, <2>2, <2>3, <2>4, <2>5, <2>6 DEF EndElement
  <1>4. CASE Text \/ Malformed
    <2>1. ASSUME NEW t \in Texts, NEW ok \in BOOLEAN, Characters(t, ok)
          PROVE  Goal'
      BY <2>1 DEF Characters, Parsing, ValueStates
    <2>2. CASE Malformed
      BY <2>2 DEF Malformed, query
    <2> QED
      BY <1>4, <2>1, <2>2 DEF Text
  <1>5. CASE UNCHANGED vars
    BY <1>5 DEF vars, query
  <1> QED
    BY <1>1, <1>2, <1>3, <1>4, <1>5 DEF Next

LEMMA InvNext == Inv /\ [Next]_vars => Inv'
  BY TypeNext, PhaseNext, TracksNext, StaleNext DEF Inv, PhaseInv

LEMMA InvCorrect == Spec => []Inv
  BY InvInit, InvNext, PTL DEF Spec

\* The state of the parser always says which elements are open.
THEOREM TracksCorrect == Spec => []StateTracksDocument
  BY InvCorrect, PTL DEF Inv

\* A binding never sees what an earlier one left behind.
THEOREM NoStaleCorrect == Spec => []NoStaleValue
  BY InvCorrect, PTL DEF Inv

\* A value callback always has the name of its variable.
THEOREM NamedCorrect == Spec => []NamedWhenBound
  BY InvCorrect, PTL DEF Inv

\* A query is complete only when the whole response was.
THEOREM CompleteCorrect == Spec => []CompleteOnlyForWholeResponse
  <1>1. Inv => CompleteOnlyForWholeResponse
    BY DEF Inv, PhaseInv, CompleteOnlyForWholeResponse
  <1> QED
    BY <1>1, InvCorrect, PTL

-----------------------------------------------------------------------------
(* The callbacks come as ResultCallbacks says. *)

AbstractNext == [Callbacks!Next]_(Callbacks!abstractVars)

\* A step that calls nothing that begins or ends, and may fail.
LEMMA RefineQuiet ==
  ASSUME TypeOK, TypeOK', verdict = "none", verdict' = verdict,
         Place' = Place, result # 0 => result' # 0
  PROVE  AbstractNext
  <1>1. CASE result' = result
    BY <1>1 DEF AbstractNext, Callbacks!abstractVars, Stopped
  <1>2. CASE result' # result
    <2>1. result' # 0
      BY <1>2 DEF TypeOK
    <2> QED
      BY <2>1 DEF AbstractNext, Callbacks!Next, Callbacks!Stop, Stopped
  <1> QED
    BY <1>1, <1>2

\* A begin or an end.
LEMMA RefineMove ==
  ASSUME verdict = "none", verdict' = verdict, result = 0,
         <<Place, Place'>> \in
           {<<"outside", "results">>, <<"results", "outside">>,
            <<"results", "row">>, <<"row", "results">>,
            <<"row", "cell">>, <<"cell", "row">>}
  PROVE  AbstractNext
  BY DEF AbstractNext, Callbacks!Next, Callbacks!Move, Callbacks!BeginResults,
         Callbacks!EndResults, Callbacks!BeginRow, Callbacks!EndRow,
         Callbacks!BeginCell, Callbacks!EndCell, Stopped

\* The verdict: a whole document leaves no element open, so no begin without
\* its end.
LEMMA RefineReport ==
  ASSUME Inv, Report
  PROVE  AbstractNext
  <1>1. /\ verdict = "none" /\ Place' = Place /\ Stopped' = Stopped
    BY DEF Inv, PhaseInv, Report, query, Place, Stopped
  <1>2. CASE result # 0
    BY <1>1, <1>2
    DEF Report, AbstractNext, Callbacks!Next, Callbacks!Error, Stopped
  <1>3. CASE result = 0
    <2>1. state = "CAPTURE" \/ open = <<>>
      BY <1>3 DEF Inv, PhaseInv, Report, WholeDocument
    <2>2. state \in {"CAPTURE", "ROOT", "BOOLEAN"}
      BY <2>1, <1>3, PathEmpty DEF Inv, TypeOK, StateTracksDocument
    <2>3. Place = "outside"
      BY <2>2 DEF Place, ValueStates
    <2> QED
      BY <1>1, <1>3, <2>3
      DEF Report, AbstractNext, Callbacks!Next, Callbacks!Complete, Stopped
  <1> QED
    BY <1>2, <1>3

LEMMA RefineNext ==
  ASSUME Inv, Inv', [Next]_vars
  PROVE  AbstractNext
  <1> USE DEF Inv, PhaseInv
  <1>1. CASE Transfer
    <2>1. CASE Perform
      <3>1. Place' = Place
        BY <2>1 DEF Perform, Place, ValueStates
      <3> QED
        BY <2>1, <3>1, RefineQuiet DEF Perform
    <2>2. ASSUME NEW ok \in BOOLEAN, Capture(ok) PROVE AbstractNext
      <3>1. Place' = Place
        BY <2>2 DEF Capture, IsPlain, Place, ValueStates
      <3> QED
        BY <2>2, <3>1, RefineQuiet DEF Capture, Writing
    <2>3. ASSUME NEW ok \in BOOLEAN, TransferEnds(ok) PROVE AbstractNext
      <3>1. Place' = Place
        BY <2>3 DEF TransferEnds, Place
      <3> QED
        BY <2>3, <3>1, RefineQuiet DEF TransferEnds
    <2>4. CASE Refuse \/ NoContentType \/ Parse \/ EndChunk
      <3>1. Place' = Place
        BY <2>4 DEF Refuse, NoContentType, Parse, EndChunk, query, Place
      <3> QED
        BY <2>4, <3>1, RefineQuiet
        DEF Refuse, NoContentType, Parse, EndChunk, Writing, query
    <2>5. CASE EndDocument
      <3>1. Place' = Place
        BY <2>5 DEF EndDocument, Place
      <3> QED
        BY <2>5, <3>1, RefineQuiet DEF EndDocument
    <2>6. CASE Report
      BY <2>6, RefineReport
    <2> QED
      BY <1>1, <2>1, <2>2, <2>3, <2>4, <2>5, <2>6 DEF Transfer
  <1>2. CASE StartElement
    <2>1. CASE StartUnqualified
      <3>1. Place' = Place
        BY <2>1 DEF StartUnqualified, query, Place
      <3> QED
        BY <2>1, <3>1, RefineQuiet DEF StartUnqualified, Parsing, query
    <2>2. ASSUME NEW el \in Elements, StartRejected(el) PROVE AbstractNext
      <3>1. Place' = Place
        BY <2>2 DEF StartRejected, Place
      <3> QED
        BY <2>2, <3>1, RefineQuiet DEF StartRejected, Opens, Parsing
    <2>3. ASSUME NEW el, Enter(el) PROVE AbstractNext
      <3>1. /\ result = 0 /\ verdict = "none" /\ verdict' = verdict
            /\ el \in Children[state] /\ state' = StateOf[el]
            /\ state \in States
        BY <2>3 DEF Enter, Opens, Parsing, Expected, TypeOK
      <3>2. CASE el \in {"results", "result", "binding"}
        <4>1. <<Place, Place'>> \in {<<"outside", "results">>,
                <<"results", "row">>, <<"row", "cell">>}
          BY <3>1, <3>2
          DEF Children, StateOf, States, ValueStates, Elements, Place
        <4> QED
          BY <3>1, <4>1, RefineMove
      <3>3. CASE el \notin {"results", "result", "binding"}
        <4>1. Place' = Place
          BY <3>1, <3>3
          DEF Children, StateOf, States, ValueStates, Elements, Place
        <4> QED
          BY <3>1, <4>1, RefineQuiet
      <3> QED
        BY <3>2, <3>3
    <2> QED
      BY <1>2, <2>1, <2>2, <2>3 DEF StartElement, StartPlain, StartRows,
         StartLink, StartVariable, StartBinding, StartLiteral
  <1>3. CASE EndElement
    <2>1. ASSUME Closes PROVE result = 0 /\ verdict = "none" /\ verdict' = verdict
      BY <2>1 DEF Closes, Parsing
    <2>2. CASE EndPlain
      <3>1. Place' = Place
        BY <2>2 DEF EndPlain, Parent, States, ValueStates, Place
      <3> QED
        BY <2>1, <2>2, <3>1, RefineQuiet DEF EndPlain
    <2>3. ASSUME NEW ok \in BOOLEAN, EndRows(ok) PROVE AbstractNext
      <3>1. <<Place, Place'>> \in {<<"results", "outside">>, <<"row", "results">>}
        BY <2>3 DEF EndRows, Parent, States, ValueStates, Place
      <3> QED
        BY <2>1, <2>3, <3>1, RefineMove DEF EndRows
    <2>4. ASSUME NEW ok \in BOOLEAN, EndValue(ok) PROVE AbstractNext
      <3>1. Place' = Place
        BY <2>4 DEF EndValue, Parent, States, ValueStates, Place
      <3> QED
        BY <2>1, <2>4, <3>1, RefineQuiet DEF EndValue
    <2>5. ASSUME NEW ok \in BOOLEAN, EndBoolean(ok) PROVE AbstractNext
      <3>1. Place' = Place
        BY <2>5 DEF EndBoolean, Parent, States, ValueStates, Place
      <3> QED
        BY <2>1, <2>5, <3>1, RefineQuiet DEF EndBoolean
    <2>6. CASE EndBinding
      <3>1. <<Place, Place'>> \in {<<"cell", "row">>}
        BY <2>6 DEF EndBinding, Parent, States, ValueStates, Place
      <3> QED
        BY <2>1, <2>6, <3>1, RefineMove DEF EndBinding
    <2>7. CASE RejectBoolean
      <3>1. Place' = Place
        BY <2>7 DEF RejectBoolean, Place
      <3> QED
        BY <2>1, <2>7, <3>1, RefineQuiet DEF RejectBoolean
    <2> QED
      BY <1>3, <2>2, <2>3, <2>4, <2>5, <2>6, <2>7 DEF EndElement
  <1>4. CASE Text \/ Malformed
    <2>1. ASSUME NEW t \in Texts, NEW ok \in BOOLEAN, Characters(t, ok)
          PROVE  AbstractNext
      <3>1. Place' = Place
        BY <2>1 DEF Characters, Place
      <3> QED
        BY <2>1, <3>1, RefineQuiet DEF Characters, Parsing
    <2>2. CASE Malformed
      <3>1. Place' = Place
        BY <2>2 DEF Malformed, query, Place
      <3> QED
        BY <2>2, <3>1, RefineQuiet DEF Malformed, Parsing, query
    <2> QED
      BY <1>4, <2>1, <2>2 DEF Text
  <1>5. CASE UNCHANGED vars
    BY <1>5 DEF vars, query, AbstractNext, Callbacks!abstractVars, Place, Stopped
  <1> QED
    BY <1>1, <1>2, <1>3, <1>4, <1>5 DEF Next

LEMMA RefineInit == Init => Callbacks!Init
  BY DEF Init, Callbacks!Init, Place, Stopped, ValueStates

\* A SPARQLQUERY keeps the promise of ResultCallbacks, for any response.
THEOREM Refinement == Spec => CallbacksNest
  <1>1. Inv /\ Inv' /\ [Next]_vars => [Callbacks!Next]_(Callbacks!abstractVars)
    BY RefineNext DEF AbstractNext
  <1> QED
    BY <1>1, RefineInit, InvCorrect, PTL DEF Spec, CallbacksNest, Callbacks!Spec
==============================================================================
