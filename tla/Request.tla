------------------------------- MODULE Request --------------------------------
(***************************************************************************)
(* How a call becomes the bytes of a request: the statement is formatted   *)
(* (Format), wrapped up if triples are to be inserted, and encoded into a  *)
(* buffer of a reckoned size (UrlEncode), for perform-query.c, update.c,   *)
(* datastore-put.c and datastore-post.c.  The sizes of what stands before  *)
(* an encoded text are those of the code.                                  *)
(***************************************************************************)
EXTENDS Format, UrlEncode

CONSTANTS
  Formats,     \* what is given to the functions that format
  Statements,  \* texts that are given as they are: statements and triples
  GraphUris,   \* the names of graphs
  UriLength    \* of the URI of a service

VARIABLES
  op,       \* the call
  given,    \* its text, once it is formatted
  graph,    \* the graph, or NULL
  request   \* what is sent: see NoRequest

call == <<op, given, graph, request>>
requestVars == <<pc, printing, call>>

\* A buffer of so many bytes, of which used were written; the encoded texts in
\* it, and what was encoded; the length libcurl is told.
NoRequest == [alloc |-> 0, used |-> 0, encoded |-> <<>>, of |-> <<>>, size |-> 0]

\* The functions that do not format.
Direct     == {"query", "update", "insert", "put", "post"}
Formatting == {"queryf", "updatef"}

ASSUME RequestAssumption ==
  /\ Formats \subseteq Seq(Pieces)
  /\ Statements \cup GraphUris \subseteq Seq(Chars)
  /\ Plain \subseteq Chars /\ Plain # {} /\ Chars \ Plain # {}
  /\ UriLength \in Nat

-----------------------------------------------------------------------------
(* What is encoded. *)

Word(n) == [i \in 1..n |-> CHOOSE c \in Plain : TRUE]
Mark(n) == [i \in 1..n |-> CHOOSE c \in Chars \ Plain : TRUE]

\* sparql_insert without a data URI: "INSERT DATA { ", the graph's
\* "GRAPH <...> { ", and the triples; and the bytes that were allocated for them.
Wrapped == Word(6) \o Mark(1) \o Word(4) \o Mark(3) \o
           (IF graph = Null THEN <<>>
            ELSE Word(5) \o Mark(2) \o graph \o Mark(4)) \o
           given \o (IF graph = Null THEN <<>> ELSE Mark(1)) \o Mark(1)

WrappedSize == Len(given) + 20 + (IF graph = Null THEN 0 ELSE Len(graph) + 15)

\* A text encoded at an offset of a buffer, with so many bytes left to it.
Encoded(size, offset, src, destlen) ==
  LET bytes == sparql_urlencode_(src, destlen)
  IN  [alloc |-> size, used |-> offset + Len(bytes) + 1,
       encoded |-> <<bytes>>, of |-> <<src>>, size |-> offset + Len(bytes)]

\* sparql_query_perform_: behind "?query="
QueryRequest(statement) ==
  LET buflen == sparql_urlencode_size_(statement)
  IN  Encoded(UriLength + buflen + 16, UriLength + 7, statement, buflen)

\* sparql_update: behind "update="
UpdateRequest(statement) ==
  LET buflen == sparql_urlencode_size_(statement)
  IN  Encoded(16 + buflen, 7, statement, buflen)

\* sparql_put: the graph is encoded, behind "?graph=", and the triples are sent
\* as they are.
PutRequest(uri, triples) ==
  LET buflen == sparql_urlencode_size_(uri)
  IN  [Encoded(UriLength + buflen + 16, UriLength + 7, uri, buflen) EXCEPT
         !.size = Len(triples)]

\* sparql_post: "mime-type=application/x-turtle&graph=" and "&data="; libcurl is
\* told the size of the buffer, and sends what stands behind the text with it.
PostRequest(uri, triples) ==
  LET buflen == sparql_urlencode_size_(uri) + sparql_urlencode_size_(triples) + 64
      first  == Encoded(buflen, 37, uri, buflen - 37)
      offset == first.used - 1 + 6
      second == Encoded(buflen, offset, triples, buflen - offset)
  IN  [second EXCEPT !.encoded = first.encoded \o @, !.of = first.of \o @,
                     !.size = buflen]

\* No graph is encoded as nothing.
Uri == IF graph = Null THEN <<>> ELSE graph

-----------------------------------------------------------------------------

Idle == pc = "idle"

\* A call that formats its text first.
Formatted ==
  /\ Idle
  /\ op' \in Formatting
  /\ \E pieces \in Formats : Begins(pieces)
  /\ UNCHANGED <<given, graph, request>>

\* A connection without a world has none to ask for raptor's.
NoWorld ==
  /\ Idle
  /\ op' \in Formatting
  /\ pc' = "astray"
  /\ UNCHANGED <<printing, given, graph, request>>

\* There is no memory for the first buffer.
FormatFails ==
  /\ Idle
  /\ op' \in Formatting
  /\ pc' = "failed"
  /\ UNCHANGED <<printing, given, graph, request>>

\* The text is passed on with its length, which is found out by its NUL; what is
\* not written has none.
Passed ==
  /\ pc = "printed"
  /\ IF live THEN pc' = "given" /\ given' = text
     ELSE pc' = "astray" /\ UNCHANGED given
  /\ UNCHANGED <<printing, op, graph, request>>

\* A call that is given its text, and a graph if it takes one; nothing to insert
\* makes no request.
Given ==
  /\ Idle
  /\ op' \in Direct
  /\ given' \in Statements
  /\ graph' \in IF op' \in {"query", "update"} THEN {Null} ELSE GraphUris \cup {Null}
  /\ pc' = IF op' = "insert" /\ given' = <<>> THEN "sent" ELSE "given"
  /\ UNCHANGED <<printing, request>>

\* sparql_insert wraps the triples, and goes on as sparql_update.
Wraps ==
  /\ pc = "given" /\ op = "insert"
  /\ \/ /\ pc' = "given" /\ op' = "update"
        /\ given' = Wrapped
        /\ request' = [NoRequest EXCEPT !.alloc = WrappedSize, !.used = Len(Wrapped) + 1]
     \/ pc' = "failed" /\ UNCHANGED <<op, given, request>>
  /\ UNCHANGED <<printing, graph>>

\* There is memory for the request, and it is sent; sparql_insert goes on as
\* sparql_post where there is a data URI.
Sends ==
  /\ pc = "given"
  /\ \/ op \in {"query", "queryf"}   /\ request' = QueryRequest(given)
     \/ op \in {"update", "updatef"} /\ request' = UpdateRequest(given)
     \/ op = "put"                   /\ request' = PutRequest(Uri, given)
     \/ op \in {"post", "insert"}   /\ request' = PostRequest(Uri, given)
  /\ pc' = "sent"
  /\ UNCHANGED <<printing, op, given, graph>>

\* There is none: sparql_update says so, the others write to NULL.
SendFails ==
  /\ pc = "given"
  /\ pc' = IF op \in {"update", "updatef"} THEN "failed" ELSE "astray"
  /\ UNCHANGED <<printing, call>>

RequestInit ==
  /\ pc = "idle"
  /\ NoFormat
  /\ op = "none" /\ given = <<>> /\ graph = Null
  /\ request = NoRequest

RequestNext ==
  \/ Formatted
  \/ NoWorld
  \/ FormatFails
  \/ sparql_vasprintf_ /\ UNCHANGED call
  \/ Passed
  \/ Given
  \/ Wraps
  \/ Sends
  \/ SendFails

RequestSpec == RequestInit /\ [][RequestNext]_requestVars

-----------------------------------------------------------------------------
(* Properties. *)

\* A request holds the whole of what was to be encoded, no byte of it outside the
\* buffer whose size was reckoned before (sparql_urlencode_size_ and
\* sparql_urlencode_, sparql_insert's 20 and 15 bytes, sparql_post's 64).
RequestFits ==
  /\ request.used <= request.alloc
  /\ \A i \in DOMAIN request.encoded : request.encoded[i] = WholeCode(request.of[i])
==============================================================================
