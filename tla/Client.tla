-------------------------------- MODULE Client --------------------------------
(***************************************************************************)
(* A connection and what is done over it: connection.c (URIs, error state, *)
(* librdf world), curl.c (the capture buffer and the end of a transfer),   *)
(* update.c, datastore-put.c and datastore-post.c.  A chunk of a response  *)
(* is the pair of the request it answers and its size; sizes are in units  *)
(* of which CaptureLimit are 16384 bytes.                                  *)
(***************************************************************************)
EXTENDS Integers, Sequences, FiniteSets, FiniteSetsExt, SequencesExt

CONSTANTS
  Bases,         \* base URIs
  UserWorlds,    \* librdf worlds of the caller's
  Graphs,        \* names of contexts that are URIs
  NULL,
  CaptureLimit,  \* 16384 in the code
  ChunkSizes,
  MaxRequests,   \* bound: requests made
  MaxChunks,     \* bound: chunks of one response
  MaxWorlds,     \* bound: worlds the library makes
  MaxContexts    \* bound: contexts of a model

VARIABLES
  conn,     \* the SPARQL structure, but for its capture buffer; NULL before and after
  capture,  \* conn->capture: buf, size and pos, with the bytes allocated for buf
  pc,       \* "idle", "model" (between two contexts), "transfer" or "crashed"
  call,     \* the call that runs or was the last: its kind, its result, its target
  todo,     \* the contexts that sparql_insert_model has still to insert
  \* Of libcurl:
  aborted,  \* a chunk was refused
  \* History:
  requests, \* how many were made
  body,     \* the chunks of the call's last response
  taken,    \* the contexts whose insertion the server accepted, in this call
  whole,    \* the contexts of the model of this call
  made,     \* how many worlds the library made
  freed     \* the worlds freed, in order

transport == <<capture, aborted, requests, body>>
ledger    == <<todo, taken, whole>>
worlds    == <<made, freed>>
vars      == <<conn, pc, call, transport, ledger, worlds>>

ASSUME ClientAssumption ==
  /\ NULL \notin Bases \cup UserWorlds \cup Graphs \cup Nat
  /\ NULL \notin {"status", "ok", "failed"}
  /\ UserWorlds \cap Nat = {}
  /\ CaptureLimit \in Nat /\ ChunkSizes \subseteq Nat \ {0}
  /\ {MaxRequests, MaxChunks, MaxWorlds, MaxContexts} \subseteq Nat

Uris      == {"query", "update", "data"}
NoCapture == [buf |-> <<>>, size |-> 0, pos |-> 0, alloc |-> 0]
NoError   == [kind |-> "none", text |-> <<>>]
Message   == [kind |-> "message", text |-> <<>>]
Success   == "00000"

\* A graph of the model that is no URI is a context that cannot be named.
Blank    == "blank"
Contexts == Graphs \cup {Blank}

-----------------------------------------------------------------------------
(* connection.c *)

\* sparql_set_error_: the state and the text are both replaced.
Reported(c, state, error) == [c EXCEPT !.state = state, !.error = error]

Idle == pc = "idle" /\ conn # NULL

Called(op, result, target) ==
  call' = [op |-> op, result |-> result, target |-> target, ended |-> NULL]

\* What is known of contexts and of a response is that of one call.
Inserts(contexts) == todo' = contexts /\ whole' = contexts /\ taken' = <<>>
Forgets           == Inserts(<<>>) /\ body' = <<>> /\ aborted' = FALSE

\* A call that makes no request returns at once.
Returns(op, result) ==
  /\ Called(op, result, NULL)
  /\ Forgets
  /\ UNCHANGED <<pc, capture, requests>>

\* What sparql_set_base makes of a base whose query URI could be derived; the
\* other two may fail to be, and there may be none for the data.
Based(c, base, update, data) ==
  [c EXCEPT !.base = base,
            !.uris = [query |-> base, update |-> update, data |-> data]]

Fresh == [state |-> "", error |-> NoError, base |-> NULL, world |-> NULL,
          owned |-> FALSE, uris |-> [u \in Uris |-> NULL]]

Create ==
  /\ pc = "idle" /\ conn = NULL
  /\ \/ conn' = Fresh
     \/ \E base \in Bases : \E update, data \in {base, NULL} :
          conn' = Based(Fresh, base, update, data)
  /\ Returns("create", 0)
  /\ UNCHANGED worlds

\* What was made of the connection is destroyed, its error with it.
CreateFails ==
  /\ pc = "idle" /\ conn = NULL
  /\ Returns("create", -1)
  /\ UNCHANGED <<conn, worlds>>

SetBase(base, update, data) ==
  /\ Idle
  /\ conn' = Based(conn, base, update, data)
  /\ Returns("set_base", 0)
  /\ UNCHANGED worlds

\* The URI does not parse; that it has no information (U0002) or no query URI
\* (U0003) is found out as early and ends alike.
SetBaseFails ==
  /\ Idle
  /\ conn' = Reported(conn, "U0001", Message)
  /\ Returns("set_base", -1)
  /\ UNCHANGED worlds

\* sparql_set_query_uri and the like; without memory nothing changes.
SetUri(u) ==
  /\ Idle
  /\ \/ conn' = [conn EXCEPT !.uris[u] = "own"] /\ Returns("set_uri", 0)
     \/ UNCHANGED conn /\ Returns("set_uri", -1)
  /\ UNCHANGED worlds

\* librdf_free_world of the world, if it is the connection's to free; of NULL
\* it does nothing.
FreeWorld ==
  freed' = IF conn.owned /\ conn.world # NULL THEN Append(freed, conn.world) ELSE freed

\* Mutant: the caller's world is taken for the library's own.
SetWorldOwned(world) ==
  /\ Idle
  /\ FreeWorld
  /\ conn' = [conn EXCEPT !.world = world]
  /\ Returns("set_world", 0)
  /\ UNCHANGED made

SetWorld(world) ==
  /\ Idle
  /\ FreeWorld
  /\ conn' = [conn EXCEPT !.world = world, !.owned = FALSE]
  /\ Returns("set_world", 0)
  /\ UNCHANGED made

\* sparql_world: there is one, one is made, or none can be made.
HasWorld == conn.world # NULL /\ UNCHANGED <<conn, worlds>>

MakesWorld ==
  /\ conn.world = NULL /\ made < MaxWorlds
  /\ conn' = [conn EXCEPT !.owned = TRUE, !.world = made + 1]
  /\ made' = made + 1
  /\ UNCHANGED freed

WorldFails ==
  /\ conn.world = NULL
  /\ conn' = Reported([conn EXCEPT !.owned = TRUE], "X0003", Message)
  /\ UNCHANGED worlds

World ==
  /\ Idle
  /\ \/ (HasWorld \/ MakesWorld) /\ Returns("world", 0)
     \/ WorldFails /\ Returns("world", -1)

Destroy ==
  /\ Idle
  /\ FreeWorld
  /\ conn' = NULL
  /\ capture' = NoCapture
  /\ Called("destroy", 0, NULL)
  /\ Forgets
  /\ UNCHANGED <<pc, requests, made>>

-----------------------------------------------------------------------------
(* curl.c *)

\* Mutant: the capture buffer of the last request is still there.
OpenHandleKeeps(op, target) ==
  /\ requests < MaxRequests
  /\ requests' = requests + 1
  /\ aborted' = FALSE
  /\ body' = <<>>
  /\ Called(op, NULL, target)
  /\ pc' = "transfer"
  /\ UNCHANGED capture

\* sparql_curl_create_: the last response is forgotten.
OpenHandle(op, target) ==
  /\ requests < MaxRequests
  /\ requests' = requests + 1
  /\ capture' = NoCapture
  /\ aborted' = FALSE
  /\ body' = <<>>
  /\ Called(op, NULL, target)
  /\ pc' = "transfer"

\* sparql_curl_dummy_write_ of a chunk: where it would fill the buffer, the buffer
\* grows, or the chunk is swallowed; otherwise it is put behind the rest.
Grows(c, size)    == c.pos + size >= c.size
Swallows(c, size) == Grows(c, size) /\ c.size > CaptureLimit

\* Mutant: the array grows to the chunk, as if it were empty.
CapturedOver(c, chunk) ==
  IF Swallows(c, chunk.size) THEN c
  ELSE [buf   |-> Append(c.buf, chunk),
        pos   |-> c.pos + chunk.size,
        size  |-> IF Grows(c, chunk.size) THEN c.size + chunk.size ELSE c.size,
        alloc |-> IF Grows(c, chunk.size) THEN chunk.size + 1 ELSE c.alloc]

Captured(c, chunk) ==
  IF Swallows(c, chunk.size) THEN c
  ELSE [buf   |-> Append(c.buf, chunk),
        pos   |-> c.pos + chunk.size,
        size  |-> IF Grows(c, chunk.size) THEN c.size + chunk.size ELSE c.size,
        alloc |-> IF Grows(c, chunk.size) THEN c.size + chunk.size + 1 ELSE c.alloc]

\* What is to be captured of a response: the whole of it, unless a query has
\* begun to parse it.
Capturing == call.op # "query" \/ body = <<>> \/ capture.buf # <<>>
Parsing   == call.op = "query" /\ capture.buf = <<>>

\* libcurl delivers a chunk, where there is a URL to ask for it.
Delivers(size) ==
  /\ pc = "transfer" /\ ~aborted /\ call.target # NULL
  /\ Len(body) < MaxChunks
  /\ body' = Append(body, [request |-> requests, size |-> size])
  /\ UNCHANGED <<conn, pc, call, requests, ledger, worlds>>

Chunk(size) ==
  /\ Delivers(size)
  /\ \/ Capturing /\ capture' = Captured(capture, Last(body'))
     \/ Parsing /\ UNCHANGED capture
  /\ UNCHANGED aborted

\* There is no memory for it, or the parser finds fault with it: libcurl gives
\* the transfer up.
ChunkRefused(size) ==
  /\ Delivers(size)
  /\ Parsing \/ (Capturing /\ ~Swallows(capture, size))
  /\ aborted' = TRUE
  /\ UNCHANGED capture

\* What sparql_curl_perform_ makes of the end of a transfer: a status above 299
\* comes first, then success, then what libcurl says of its failure.
Outcome(end) ==
  CASE end = "status" -> [result |-> -1, state |-> "00404", error |->
                            IF capture.buf = <<>> THEN NoError
                            ELSE [kind |-> "body", text |-> capture.buf]]
    [] end = "ok"     -> [result |-> 0, state |-> Success, error |-> NoError]
    [] end = "failed" -> [result |-> -1, state |-> "01000", error |-> Message]

Ends(end) ==
  /\ pc = "transfer"
  /\ end = "ok" => ~aborted
  /\ end # "failed" => call.target # NULL
  /\ conn' = Reported(conn, Outcome(end).state, Outcome(end).error)
  /\ UNCHANGED <<transport, worlds, whole>>

\* The call returns with its one transfer; of a query the last, empty chunk is
\* then parsed, and it may fail on that.
TransferEnds(end) ==
  /\ Ends(end)
  /\ call.op # "insert_model"
  /\ pc' = "idle"
  /\ \/ call' = [call EXCEPT !.result = Outcome(end).result, !.ended = end]
     \/ /\ end = "ok" /\ Parsing
        /\ call' = [call EXCEPT !.result = -1, !.ended = end]
  /\ UNCHANGED <<todo, taken>>

\* Mutant: a context that failed does not stop the insertion.
ContextEndsRegardless(end) ==
  /\ Ends(end)
  /\ call.op = "insert_model"
  /\ pc' = "model"
  /\ taken' = IF Outcome(end).result = 0 THEN Append(taken, Head(todo)) ELSE taken
  /\ todo' = Tail(todo)
  /\ call' = [call EXCEPT !.ended = end]

\* In sparql_insert_model the next context follows, or the call is over.
ContextEnds(end) ==
  /\ Ends(end)
  /\ call.op = "insert_model"
  /\ IF Outcome(end).result = 0
       THEN /\ pc' = "model"
            /\ taken' = Append(taken, Head(todo))
            /\ todo' = Tail(todo)
            /\ call' = [call EXCEPT !.ended = end]
       ELSE /\ pc' = "idle"
            /\ call' = [call EXCEPT !.result = -1, !.ended = end]
            /\ UNCHANGED <<todo, taken>>

-----------------------------------------------------------------------------
(* update.c, datastore-put.c, datastore-post.c, and the request of a query *)

\* sparql_insert prefers the data URI.
Target(op) ==
  CASE op = "query"           -> conn.uris.query
    [] op = "update"          -> conn.uris.update
    [] op \in {"put", "post"} -> conn.uris.data
    [] op \in {"insert", "insert_stream", "insert_model"} ->
         IF conn.uris.data # NULL THEN conn.uris.data ELSE conn.uris.update

Direct == {"query", "update", "put", "post", "insert"}

\* sparql_update, sparql_insert, sparql_put, sparql_post and sparql_query.
Request(op) ==
  /\ Idle
  /\ op \in {"query", "put", "post"} => Target(op) # NULL
  /\ OpenHandle(op, Target(op))
  /\ Inserts(<<>>)
  /\ UNCHANGED <<conn, worlds>>

\* There is no handle, or no memory for the statement, or no parser; the
\* capture buffer may have been reset before.
RequestFails(op) ==
  /\ Idle
  /\ op \in {"query", "put", "post"} => Target(op) # NULL
  /\ \/ UNCHANGED capture
     \/ op # "put" /\ op # "post" /\ capture' = NoCapture
  /\ Called(op, -1, NULL)
  /\ Forgets
  /\ UNCHANGED <<conn, pc, requests, worlds>>

\* sparql_put and sparql_post need a data URI.
NoDatastore(op) ==
  /\ Idle
  /\ op \in {"put", "post"} /\ conn.uris.data = NULL
  /\ conn' = Reported(conn, "X0001", Message)
  /\ Returns(op, -1)
  /\ UNCHANGED worlds

\* The query URI of a connection without a base is NULL, and its length is taken.
QueryCrashes ==
  /\ Idle
  /\ conn.uris.query = NULL
  /\ pc' = "crashed"
  /\ UNCHANGED <<conn, call, transport, ledger, worlds>>

\* sparql_insert of no triples, sparql_insert_model of an empty model.
Nothing(op) ==
  /\ Idle
  /\ Returns(op, 0)
  /\ UNCHANGED <<conn, worlds>>

\* sparql_insert_stream, once there is a world; a model that knows no contexts
\* is inserted as one stream.
InsertStream ==
  /\ Idle
  /\ HasWorld \/ MakesWorld
  /\ OpenHandle("insert_stream", Target("insert_stream"))
  /\ Inserts(<<>>)

\* There is no world, or no serialiser for it, or nothing comes out, or no request.
InsertStreamFails ==
  /\ Idle
  /\ HasWorld \/ MakesWorld \/ WorldFails
  /\ Returns("insert_stream", -1)

\* sparql_insert_model of a model with contexts.
InsertModel(contexts) ==
  /\ Idle
  /\ pc' = "model"
  /\ Called("insert_model", NULL, NULL)
  /\ Inserts(contexts)
  /\ UNCHANGED <<conn, transport, worlds>>

InModel == pc = "model" /\ todo # <<>>

\* A context that is no URI is passed over.
SkipContext ==
  /\ InModel
  /\ Head(todo) = Blank
  /\ todo' = Tail(todo)
  /\ UNCHANGED <<conn, pc, call, transport, taken, whole, worlds>>

InsertContext ==
  /\ InModel
  /\ Head(todo) # Blank
  /\ HasWorld \/ MakesWorld
  /\ OpenHandle("insert_model", Target("insert_model"))
  /\ UNCHANGED ledger

\* There is no stream for it, or inserting it fails before the request.
InsertContextFails ==
  /\ InModel
  /\ Head(todo) # Blank
  /\ HasWorld \/ MakesWorld \/ WorldFails
  /\ pc' = "idle"
  /\ call' = [call EXCEPT !.result = -1]
  /\ UNCHANGED <<transport, ledger>>

ModelDone ==
  /\ pc = "model" /\ todo = <<>>
  /\ pc' = "idle"
  /\ call' = [call EXCEPT !.result = 0]
  /\ UNCHANGED <<conn, transport, ledger, worlds>>

-----------------------------------------------------------------------------

Init ==
  /\ conn = NULL
  /\ pc = "idle"
  /\ call = [op |-> "none", result |-> 0, target |-> NULL, ended |-> NULL]
  /\ capture = NoCapture
  /\ aborted = FALSE
  /\ requests = 0
  /\ body = <<>>
  /\ todo = <<>> /\ taken = <<>> /\ whole = <<>>
  /\ made = 0
  /\ freed = <<>>

Connection ==
  \/ Create
  \/ CreateFails
  \/ \E base \in Bases : \E update, data \in {base, NULL} : SetBase(base, update, data)
  \/ SetBaseFails
  \/ \E u \in Uris : SetUri(u)
  \/ \E world \in UserWorlds \cup {NULL} : SetWorld(world)
  \/ World
  \/ Destroy

Transfer ==
  \/ \E size \in ChunkSizes : Chunk(size) \/ ChunkRefused(size)
  \/ \E end \in {"status", "ok", "failed"} : TransferEnds(end) \/ ContextEnds(end)

Updates ==
  \/ \E op \in Direct : Request(op) \/ RequestFails(op) \/ NoDatastore(op)
  \/ QueryCrashes
  \/ \E op \in {"insert", "insert_model"} : Nothing(op)
  \/ InsertStream
  \/ InsertStreamFails
  \/ \E contexts \in SeqOf(Contexts, MaxContexts) : InsertModel(contexts)
  \/ SkipContext
  \/ InsertContext
  \/ InsertContextFails
  \/ ModelDone

Next == Connection \/ Transfer \/ Updates

Spec == Init /\ [][Next]_vars

-----------------------------------------------------------------------------
(* Properties. *)

Chunks == [request : 1..MaxRequests, size : ChunkSizes]
Worlds == UserWorlds \cup 1..MaxWorlds

Connections ==
  [state : {"", Success, "00404", "01000", "U0001", "X0001", "X0003"},
   error : [kind : {"none", "message", "body"}, text : Seq(Chunks)],
   base  : Bases \cup {NULL},
   uris  : [Uris -> Bases \cup {NULL, "own"}],
   world : Worlds \cup {NULL},
   owned : BOOLEAN]

Calls ==
  [op : {"none", "create", "set_base", "set_uri", "set_world", "world", "destroy", "query",
         "update", "put", "post", "insert", "insert_stream", "insert_model"},
   result : {0, -1, NULL},
   target : Bases \cup {NULL, "own"},
   ended : {NULL, "status", "ok", "failed"}]

\* NULL is no connection.
ASSUME ConnectionAssumption == NULL \notin Connections

TypeOK ==
  /\ conn \in Connections \cup {NULL}
  /\ capture \in [buf : Seq(Chunks), size : Nat, pos : Nat, alloc : Nat]
  /\ pc \in {"idle", "model", "transfer", "crashed"}
  /\ call \in Calls
  /\ {todo, taken, whole} \subseteq Seq(Contexts)
  /\ aborted \in BOOLEAN
  /\ requests \in 0..MaxRequests
  /\ body \in Seq(Chunks)
  /\ made \in 0..MaxWorlds
  /\ freed \in Seq(1..MaxWorlds)

\* What is captured and the NUL behind it stay within the buffer, and the
\* buffer stays within the limit and one chunk, however long the response is
\* and however it is cut (sparql_curl_dummy_write_).
CaptureInBounds ==
  /\ capture.buf # <<>> => capture.pos < capture.alloc
  /\ \A size \in ChunkSizes :
       (\A other \in ChunkSizes : other <= size) =>
         capture.alloc <= CaptureLimit + size + 1

\* The text of an error that came with a status is the beginning of that
\* response, cut between two chunks - never that of an earlier response, and
\* cut only behind the limit (sparql_curl_create_, sparql_curl_perform_).
ErrorIsTheResponse ==
  pc = "idle" /\ call.ended = "status" =>
    /\ IsPrefix(conn.error.text, body)
    /\ \/ conn.error.text = body
       \/ aborted \/ call.op = "query" \/ capture.pos > CaptureLimit

\* Every world the library made is freed once, when the connection lets go of
\* it, and none of the caller's is ever freed, in whatever order worlds are
\* set, made and failed to be made (sparql_set_world, sparql_world).
WorldsFreedOnce ==
  LET held == IF conn # NULL /\ conn.owned /\ conn.world # NULL THEN {conn.world} ELSE {}
  IN  /\ \A w \in 1..made : w \in held \/ \E i \in DOMAIN freed : freed[i] = w
      /\ \A i \in DOMAIN freed : freed[i] \notin held /\ freed[i] \in 1..made
      /\ \A i, j \in DOMAIN freed : freed[i] = freed[j] => i = j

\* How many of the first n contexts of the model can be named.
Nameable(n) == Cardinality({i \in 1..n : whole[i] # Blank})

\* sparql_insert_model has given the server the contexts before the one it
\* stopped at, each once and in order; when it says that it has succeeded, all
\* that can be named.
InsertedInOrder ==
  LET reached == Len(whole) - Len(todo)
  IN  call.op = "insert_model" /\ pc # "crashed" =>
        /\ todo = SubSeq(whole, reached + 1, Len(whole))
        /\ Len(taken) = Nameable(reached)
        /\ \A i \in 1..reached : whole[i] # Blank => taken[Nameable(i)] = whole[i]
        /\ call.result = 0 => todo = <<>>
==============================================================================
