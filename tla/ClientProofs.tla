----------------------------- MODULE ClientProofs -----------------------------
(***************************************************************************)
(* A connection for any URIs, worlds and graphs, any sizes of chunks and   *)
(* limit of the capture buffer, and any number of requests: the buffer is  *)
(* never overrun, the error is that of the last response, each world the   *)
(* library made is freed once, and a model is inserted in order.           *)
(***************************************************************************)
EXTENDS Client, SequenceTheorems, FiniteSetTheorems, TLAPS

\* A world that the connection owns is one that the library made.
OwnedInv == conn # NULL /\ conn.owned /\ conn.world # NULL => conn.world \in 1..made

\* Where the call stands: what is there while a request is made.
PhaseInv ==
  /\ pc # "idle" => conn # NULL
  /\ pc = "transfer" => requests \in 1..MaxRequests
  /\ pc = "transfer" /\ call.op = "insert_model" => todo # <<>>

TypeInv == TypeOK /\ PhaseInv

\* What was reported, or whose the world is, makes no other thing of a connection.
LEMMA ReportedTyped ==
  ASSUME NEW c \in Connections,
         NEW state \in {"", Success, "00404", "01000", "U0001", "X0001", "X0003"},
         NEW error \in [kind : {"none", "message", "body"}, text : Seq(Chunks)]
  PROVE  Reported(c, state, error) \in Connections
  BY DEF Connections, Reported

LEMMA OwnerTyped ==
  ASSUME NEW c \in Connections, NEW world \in Worlds \cup {NULL}, NEW owned \in BOOLEAN
  PROVE  [c EXCEPT !.owned = owned, !.world = world] \in Connections
  BY DEF Connections

LEMMA Errors ==
  /\ NoError \in [kind : {"none", "message", "body"}, text : Seq(Chunks)]
  /\ Message \in [kind : {"none", "message", "body"}, text : Seq(Chunks)]
  BY DEF NoError, Message

LEMMA BasedTyped ==
  ASSUME NEW c \in Connections, NEW base \in Bases,
         NEW update \in {base, NULL}, NEW data \in {base, NULL}
  PROVE  Based(c, base, update, data) \in Connections
  <1> DEFINE uris == [query |-> base, update |-> update, data |-> data]
  <1>1. uris \in [Uris -> Bases \cup {NULL, "own"}]
    BY DEF Uris
  <1> QED
    BY <1>1 DEF Based, Connections

LEMMA FreshTyped == Fresh \in Connections
  <1>1. [u \in Uris |-> NULL] \in [Uris -> Bases \cup {NULL, "own"}]
    OBVIOUS
  <1> QED
    BY <1>1 DEF Fresh, Connections, NoError

LEMMA UriTyped ==
  ASSUME NEW c \in Connections, NEW u \in Uris
  PROVE  [c EXCEPT !.uris[u] = "own"] \in Connections
  BY DEF Connections

-----------------------------------------------------------------------------
(* Types. *)

\* Of the pieces that actions are made of.
LEMMA PiecesTyped ==
  /\ \A op, result, target, ended :
       [op |-> op, result |-> result, target |-> target, ended |-> ended] \in Calls
         <=> /\ op \in {"none", "create", "set_base", "set_uri", "set_world", "world",
                        "destroy", "query", "update", "put", "post", "insert",
                        "insert_stream", "insert_model"}
             /\ result \in {0, -1, NULL}
             /\ target \in Bases \cup {NULL, "own"}
             /\ ended \in {NULL, "status", "ok", "failed"}
  /\ NoCapture \in [buf : Seq(Chunks), size : Nat, pos : Nat, alloc : Nat]
  BY DEF Calls, NoCapture

LEMMA FreeWorldTyped ==
  ASSUME TypeInv, OwnedInv, conn # NULL, FreeWorld
  PROVE  freed' \in Seq(1..MaxWorlds)
  <1>1. freed \in Seq(1..MaxWorlds) /\ made \in 0..MaxWorlds /\ MaxWorlds \in Nat
    BY ClientAssumption DEF TypeInv, TypeOK
  <1>2. CASE conn.owned /\ conn.world # NULL
    <2>1. conn.world \in 1..MaxWorlds
      BY <1>1, <1>2 DEF OwnedInv
    <2>2. \A w \in 1..MaxWorlds : Append(freed, w) \in Seq(1..MaxWorlds)
      BY <1>1
    <2> QED
      BY <1>2, <2>1, <2>2, Zenon DEF FreeWorld
  <1> QED
    BY <1>1, <1>2 DEF FreeWorld

\* sparql_world's three ways.
LEMMA WorldTyped ==
  ASSUME TypeInv, conn # NULL, HasWorld \/ MakesWorld \/ WorldFails
  PROVE  conn' \in Connections /\ made' \in 0..MaxWorlds /\ freed' = freed
  <1>1. conn \in Connections /\ made \in 0..MaxWorlds /\ MaxWorlds \in Nat
    BY ClientAssumption DEF TypeInv, TypeOK
  <1>2. CASE HasWorld
    BY <1>1, <1>2 DEF HasWorld, worlds
  <1>3. CASE MakesWorld
    <2>1. made + 1 \in Worlds
      BY <1>1, <1>3 DEF MakesWorld, Worlds
    <2>2. [conn EXCEPT !.owned = TRUE, !.world = made + 1] \in Connections
      BY <1>1, <2>1, OwnerTyped
    <2> QED
      BY <1>1, <1>3, <2>2 DEF MakesWorld
  <1>4. CASE WorldFails
    <2>1. [conn EXCEPT !.owned = TRUE] \in Connections
      BY <1>1 DEF Connections
    <2> QED
      BY <1>1, <1>4, <2>1, Errors, ReportedTyped DEF WorldFails, worlds
  <1> QED
    BY <1>2, <1>3, <1>4

LEMMA TargetTyped ==
  ASSUME TypeInv, conn # NULL,
         NEW op \in {"query", "update", "put", "post", "insert", "insert_stream", "insert_model"}
  PROVE  Target(op) \in Bases \cup {NULL, "own"}
  <1>1. \A u \in Uris : conn.uris[u] \in Bases \cup {NULL, "own"}
    BY DEF TypeInv, TypeOK, Connections
  <1>2. /\ conn.uris.query \in Bases \cup {NULL, "own"}
        /\ conn.uris.update \in Bases \cup {NULL, "own"}
        /\ conn.uris.data \in Bases \cup {NULL, "own"}
    BY <1>1 DEF Uris
  <1> QED
    BY <1>2 DEF Target

\* A request begins in its type.
LEMMA OpenHandleTyped ==
  ASSUME TypeInv, NEW target \in Bases \cup {NULL, "own"},
         NEW op \in {"query", "update", "put", "post", "insert", "insert_stream", "insert_model"},
         OpenHandle(op, target)
  PROVE  /\ requests' \in 1..MaxRequests
         /\ capture' \in [buf : Seq(Chunks), size : Nat, pos : Nat, alloc : Nat]
         /\ aborted' = FALSE /\ body' = <<>> /\ pc' = "transfer"
         /\ call' \in Calls /\ call'.op = op
  <1>1. requests' \in 1..MaxRequests
    BY ClientAssumption DEF OpenHandle, TypeInv, TypeOK
  <1>2. call' \in Calls /\ call'.op = op
    BY PiecesTyped DEF OpenHandle, Called
  <1> QED
    BY <1>1, <1>2, PiecesTyped DEF OpenHandle

LEMMA CapturedTyped ==
  ASSUME NEW c \in [buf : Seq(Chunks), size : Nat, pos : Nat, alloc : Nat], NEW chunk \in Chunks
  PROVE  Captured(c, chunk) \in [buf : Seq(Chunks), size : Nat, pos : Nat, alloc : Nat]
  <1>1. chunk.size \in Nat
    BY ClientAssumption DEF Chunks
  <1>2. Append(c.buf, chunk) \in Seq(Chunks)
    OBVIOUS
  <1> QED
    BY <1>1, <1>2 DEF Captured

LEMMA DeliversTyped ==
  ASSUME TypeInv, NEW size \in ChunkSizes, Delivers(size)
  PROVE  /\ Last(body') = [request |-> requests, size |-> size]
         /\ Last(body') \in Chunks
         /\ body' \in Seq(Chunks)
  <1>1. [request |-> requests, size |-> size] \in Chunks
    BY DEF Delivers, TypeInv, PhaseInv, Chunks
  <1>2. body \in Seq(Chunks)
    BY DEF TypeInv, TypeOK
  <1> QED
    BY <1>1, <1>2 DEF Delivers, Last

LEMMA OutcomeTyped ==
  ASSUME TypeInv, NEW end \in {"status", "ok", "failed"}
  PROVE  /\ Outcome(end).result \in {0, -1}
         /\ Outcome(end).state \in {"", Success, "00404", "01000", "U0001", "X0001", "X0003"}
         /\ Outcome(end).error \in [kind : {"none", "message", "body"}, text : Seq(Chunks)]
  <1>1. [kind |-> "body", text |-> capture.buf]
          \in [kind : {"none", "message", "body"}, text : Seq(Chunks)]
    BY DEF TypeInv, TypeOK
  <1> QED
    BY <1>1, Errors DEF Outcome, Success

LEMMA InitTyped == Init => TypeInv
<1> SUFFICES ASSUME Init PROVE TypeInv
  OBVIOUS
<1>1. call \in Calls
  BY PiecesTyped DEF Init
<1>2. requests \in 0..MaxRequests /\ made \in 0..MaxWorlds
  BY ClientAssumption DEF Init
<1>3. \A T : <<>> \in Seq(T)
  OBVIOUS
<1>4. {todo, taken, whole} \subseteq Seq(Contexts) /\ body \in Seq(Chunks) /\ freed \in Seq(1..MaxWorlds)
  BY <1>3 DEF Init
<1>5. conn = NULL /\ pc = "idle" /\ aborted = FALSE /\ capture = NoCapture
  BY DEF Init
<1>6. TypeOK
  BY <1>1, <1>2, <1>4, <1>5, PiecesTyped DEF TypeOK
<1> QED
  BY <1>5, <1>6 DEF TypeInv, PhaseInv

\* A call that makes no request keeps the types, if its connection and worlds do.
LEMMA ReturnsTyped ==
  ASSUME TypeInv, NEW result \in {0, -1},
         NEW op \in {"create", "set_base", "set_uri", "set_world", "world", "destroy", "query",
                     "update", "put", "post", "insert", "insert_stream", "insert_model"},
         pc = "idle", Called(op, result, NULL), Forgets, pc' = pc, UNCHANGED requests,
         capture' \in [buf : Seq(Chunks), size : Nat, pos : Nat, alloc : Nat],
         conn' \in Connections \cup {NULL}, made' \in 0..MaxWorlds, freed' \in Seq(1..MaxWorlds)
  PROVE  TypeInv'
<1>1. call' \in Calls
  BY PiecesTyped DEF Called
<1>2. \A T : <<>> \in Seq(T)
  OBVIOUS
<1>3. todo' = <<>> /\ taken' = <<>> /\ whole' = <<>> /\ body' = <<>> /\ aborted' = FALSE
  BY DEF Forgets, Inserts
<1>4. requests' \in 0..MaxRequests /\ pc' = "idle"
  BY DEF TypeInv, TypeOK
<1> QED
  BY <1>1, <1>2, <1>3, <1>4 DEF TypeInv, TypeOK, PhaseInv

\* The actions of connection.c.
LEMMA ConnectionTyped == TypeInv /\ OwnedInv /\ Connection => TypeInv'
<1> SUFFICES ASSUME TypeInv, OwnedInv, Connection PROVE TypeInv'
  OBVIOUS
<1>0. /\ conn \in Connections \cup {NULL} /\ made \in 0..MaxWorlds /\ freed \in Seq(1..MaxWorlds)
      /\ capture \in [buf : Seq(Chunks), size : Nat, pos : Nat, alloc : Nat]
  BY DEF TypeInv, TypeOK
<1>1. CASE Create
  <2>1. conn' \in Connections
    BY <1>1, FreshTyped, BasedTyped DEF Create
  <2> QED
    BY <1>0, <1>1, <2>1, ReturnsTyped DEF Create, Returns, worlds
<1>2. CASE CreateFails
  BY <1>0, <1>2, ReturnsTyped DEF CreateFails, Returns, worlds
<1>3. ASSUME NEW base \in Bases, NEW update \in {base, NULL}, NEW data \in {base, NULL},
             SetBase(base, update, data)
      PROVE  TypeInv'
  <2>1. conn' \in Connections
    BY <1>0, <1>3, BasedTyped DEF SetBase, Idle
  <2> QED
    BY <1>0, <1>3, <2>1, ReturnsTyped DEF SetBase, Idle, Returns, worlds
<1>4. CASE SetBaseFails
  <2>1. conn' \in Connections
    BY <1>0, <1>4, Errors DEF SetBaseFails, Idle, Reported, Connections
  <2> QED
    BY <1>0, <1>4, <2>1, ReturnsTyped DEF SetBaseFails, Idle, Returns, worlds
<1>5. ASSUME NEW u \in Uris, SetUri(u) PROVE TypeInv'
  <2>1. conn' \in Connections
    BY <1>0, <1>5, UriTyped DEF SetUri, Idle
  <2> QED
    BY <1>0, <1>5, <2>1, ReturnsTyped DEF SetUri, Idle, Returns, worlds
<1>6. ASSUME NEW world \in UserWorlds \cup {NULL}, SetWorld(world) PROVE TypeInv'
  <2>1. conn' \in Connections
    BY <1>0, <1>6 DEF SetWorld, Idle, Connections, Worlds
  <2> QED
    BY <1>0, <1>6, <2>1, ReturnsTyped, FreeWorldTyped DEF SetWorld, Idle, Returns
<1>7. CASE World
  BY <1>0, <1>7, WorldTyped, ReturnsTyped DEF World, Idle, Returns
<1>8. CASE Destroy
  BY <1>0, <1>8, ReturnsTyped, FreeWorldTyped, PiecesTyped DEF Destroy, Idle
<1> QED
  BY <1>1, <1>2, <1>3, <1>4, <1>5, <1>6, <1>7, <1>8 DEF Connection

LEMMA EndedTyped ==
  ASSUME NEW c \in Calls, NEW result \in {0, -1}, NEW end \in {"status", "ok", "failed"}
  PROVE  /\ [c EXCEPT !.result = result, !.ended = end] \in Calls
         /\ [c EXCEPT !.ended = end] \in Calls
  BY DEF Calls

\* A step within a transfer, or at its end, keeps what it does not name.
LEMMA TransferTyped == TypeInv /\ Transfer => TypeInv'
<1> SUFFICES ASSUME TypeInv, Transfer PROVE TypeInv'
  OBVIOUS
<1>0. /\ conn \in Connections \cup {NULL} /\ call \in Calls
      /\ capture \in [buf : Seq(Chunks), size : Nat, pos : Nat, alloc : Nat]
      /\ taken \in Seq(Contexts) /\ todo \in Seq(Contexts)
  BY DEF TypeInv, TypeOK
<1>1. ASSUME NEW size \in ChunkSizes, Chunk(size) \/ ChunkRefused(size) PROVE TypeInv'
  <2>1. Delivers(size)
    BY <1>1 DEF Chunk, ChunkRefused
  <2>2. Last(body') \in Chunks /\ body' \in Seq(Chunks)
    BY <2>1, DeliversTyped
  <2>3. capture' \in [buf : Seq(Chunks), size : Nat, pos : Nat, alloc : Nat]
    BY <1>0, <1>1, <2>2, CapturedTyped DEF Chunk, ChunkRefused
  <2>4. aborted' \in BOOLEAN
    BY <1>1 DEF Chunk, ChunkRefused, TypeInv, TypeOK
  <2> QED
    BY <2>1, <2>2, <2>3, <2>4 DEF Delivers, ledger, worlds, TypeInv, TypeOK, PhaseInv
<1>2. ASSUME NEW end \in {"status", "ok", "failed"}, TransferEnds(end) \/ ContextEnds(end)
      PROVE  TypeInv'
  <2>1. Ends(end)
    BY <1>2 DEF TransferEnds, ContextEnds
  <2>2. conn' \in Connections
    <3>1. conn \in Connections
      BY <1>0, <2>1 DEF Ends, TypeInv, PhaseInv
    <3>2. Reported(conn, Outcome(end).state, Outcome(end).error) \in Connections
      BY <3>1, OutcomeTyped, ReportedTyped
    <3> QED
      BY <2>1, <3>2 DEF Ends
  <2>3. call' \in Calls
    <3>1. \A result \in {0, -1} : [call EXCEPT !.result = result, !.ended = end] \in Calls
      BY <1>0, EndedTyped
    <3>2. [call EXCEPT !.ended = end] \in Calls
      BY <1>0, EndedTyped
    <3>3. Outcome(end).result \in {0, -1}
      BY OutcomeTyped
    <3>4. \/ call' = [call EXCEPT !.result = Outcome(end).result, !.ended = end]
          \/ call' = [call EXCEPT !.result = -1, !.ended = end]
          \/ call' = [call EXCEPT !.ended = end]
      BY <1>2, Zenon DEF TransferEnds, ContextEnds
    <3> QED
      BY <3>1, <3>2, <3>3, <3>4
  <2>4. taken' \in Seq(Contexts) /\ todo' \in Seq(Contexts)
    <3>1. CASE UNCHANGED <<todo, taken>>
      BY <1>0, <3>1
    <3>2. CASE call.op = "insert_model" /\ taken' = Append(taken, Head(todo)) /\ todo' = Tail(todo)
      <4>1. todo # <<>>
        BY <2>1, <3>2 DEF Ends, TypeInv, PhaseInv
      <4> QED
        BY <1>0, <3>2, <4>1
    <3> QED
      BY <1>2, <3>1, <3>2 DEF TransferEnds, ContextEnds
  <2>5. pc' \in {"idle", "model"}
    BY <1>2 DEF TransferEnds, ContextEnds
  <2> QED
    BY <2>1, <2>2, <2>3, <2>4, <2>5, ConnectionAssumption
       DEF Ends, transport, worlds, TypeInv, TypeOK, PhaseInv
<1> QED
  BY <1>1, <1>2 DEF Transfer

\* A step that only moves on in a model, or gives it up.
LEMMA ModelStepTyped ==
  ASSUME TypeInv, pc = "model", pc' \in {"idle", "model"}, UNCHANGED <<transport, taken, whole>>,
         todo' \in Seq(Contexts), call' \in Calls,
         conn' \in Connections, made' \in 0..MaxWorlds, freed' = freed
  PROVE  TypeInv'
  BY ConnectionAssumption DEF transport, TypeInv, TypeOK, PhaseInv

\* A call begins its request.
LEMMA BeginsTyped ==
  ASSUME TypeInv, conn # NULL, NEW target \in Bases \cup {NULL, "own"},
         NEW op \in {"query", "update", "put", "post", "insert", "insert_stream", "insert_model"},
         OpenHandle(op, target), op = "insert_model" => todo' # <<>>,
         {todo', taken', whole'} \subseteq Seq(Contexts),
         conn' \in Connections, made' \in 0..MaxWorlds, freed' = freed
  PROVE  TypeInv'
<1>1. /\ requests' \in 1..MaxRequests
      /\ capture' \in [buf : Seq(Chunks), size : Nat, pos : Nat, alloc : Nat]
      /\ aborted' = FALSE /\ body' = <<>> /\ pc' = "transfer"
      /\ call' \in Calls /\ call'.op = op
  BY OpenHandleTyped
<1>2. requests' \in 0..MaxRequests /\ body' \in Seq(Chunks)
  BY <1>1, ClientAssumption
<1> QED
  BY <1>1, <1>2, ConnectionAssumption DEF TypeInv, TypeOK, PhaseInv

\* The actions of update.c, datastore-put.c and datastore-post.c.
LEMMA UpdatesTyped == TypeInv /\ Updates => TypeInv'
<1> SUFFICES ASSUME TypeInv, Updates PROVE TypeInv'
  OBVIOUS
<1>0. /\ conn \in Connections \cup {NULL} /\ made \in 0..MaxWorlds /\ freed \in Seq(1..MaxWorlds)
      /\ capture \in [buf : Seq(Chunks), size : Nat, pos : Nat, alloc : Nat] /\ call \in Calls
      /\ todo \in Seq(Contexts) /\ taken \in Seq(Contexts) /\ whole \in Seq(Contexts)
      /\ <<>> \in Seq(Contexts)
  BY DEF TypeInv, TypeOK
<1>a. Idle => conn \in Connections /\ pc = "idle"
  BY <1>0 DEF Idle
<1>b. InModel => conn \in Connections /\ pc = "model" /\ todo # <<>>
  BY <1>0 DEF InModel, TypeInv, PhaseInv
<1>1. ASSUME NEW op \in Direct, Request(op) PROVE TypeInv'
  <2>1. Target(op) \in Bases \cup {NULL, "own"}
    BY <1>1, TargetTyped DEF Request, Idle, Direct
  <2> QED
    BY <1>0, <1>a, <1>1, <2>1, BeginsTyped DEF Request, Idle, Direct, Inserts, worlds
<1>2. ASSUME NEW op \in Direct, RequestFails(op) PROVE TypeInv'
  BY <1>0, <1>a, <1>2, ReturnsTyped, PiecesTyped DEF RequestFails, Direct, worlds
<1>3. ASSUME NEW op \in Direct, NoDatastore(op) PROVE TypeInv'
  <2>1. conn' \in Connections
    BY <1>a, <1>3, Errors, ReportedTyped DEF NoDatastore
  <2> QED
    BY <1>0, <1>a, <1>3, <2>1, ReturnsTyped DEF NoDatastore, Returns, Direct, worlds
<1>4. CASE QueryCrashes
  BY <1>0, <1>4 DEF QueryCrashes, Idle, transport, ledger, worlds, TypeInv, TypeOK, PhaseInv
<1>5. ASSUME NEW op \in {"insert", "insert_model"}, Nothing(op) PROVE TypeInv'
  BY <1>0, <1>a, <1>5, ReturnsTyped DEF Nothing, Returns, worlds
<1>6. CASE InsertStream
  <2>1. conn' \in Connections /\ made' \in 0..MaxWorlds /\ freed' = freed
    BY <1>6, WorldTyped DEF InsertStream, Idle
  <2>2. Target("insert_stream") \in Bases \cup {NULL, "own"}
    BY <1>6, TargetTyped DEF InsertStream, Idle
  <2> QED
    BY <1>0, <1>6, <2>1, <2>2, BeginsTyped DEF InsertStream, Idle, Inserts
<1>7. CASE InsertStreamFails
  <2>1. conn' \in Connections /\ made' \in 0..MaxWorlds /\ freed' = freed
    BY <1>7, WorldTyped DEF InsertStreamFails, Idle
  <2> QED
    BY <1>0, <1>a, <1>7, <2>1, ReturnsTyped DEF InsertStreamFails, Returns
<1>8. ASSUME NEW contexts \in SeqOf(Contexts, MaxContexts), InsertModel(contexts) PROVE TypeInv'
  <2>1. contexts \in Seq(Contexts)
    BY ClientAssumption DEF SeqOf
  <2>2. call' \in Calls
    BY <1>8, PiecesTyped DEF InsertModel, Called
  <2> QED
    BY <1>0, <1>a, <1>8, <2>1, <2>2
       DEF InsertModel, Idle, Inserts, transport, worlds, TypeInv, TypeOK, PhaseInv
<1>9. CASE SkipContext
  BY <1>0, <1>b, <1>9, ModelStepTyped DEF SkipContext, worlds
<1>10. CASE InsertContext
  <2>1. conn' \in Connections /\ made' \in 0..MaxWorlds /\ freed' = freed
    BY <1>b, <1>10, WorldTyped, ConnectionAssumption DEF InsertContext
  <2>2. Target("insert_model") \in Bases \cup {NULL, "own"}
    BY <1>b, <1>10, TargetTyped, ConnectionAssumption DEF InsertContext
  <2> QED
    BY <1>0, <1>b, <1>10, <2>1, <2>2, BeginsTyped, ConnectionAssumption DEF InsertContext, ledger
<1>11. CASE InsertContextFails
  <2>1. conn' \in Connections /\ made' \in 0..MaxWorlds /\ freed' = freed
    BY <1>b, <1>11, WorldTyped, ConnectionAssumption DEF InsertContextFails
  <2>2. call' \in Calls
    BY <1>0, <1>11 DEF InsertContextFails, Calls
  <2> QED
    BY <1>0, <1>b, <1>11, <2>1, <2>2, ModelStepTyped DEF InsertContextFails, ledger
<1>12. CASE ModelDone
  <2>1. call' \in Calls
    BY <1>0, <1>12 DEF ModelDone, Calls
  <2>2. conn \in Connections
    BY <1>0, <1>12 DEF ModelDone, TypeInv, PhaseInv
  <2> QED
    BY <1>0, <1>12, <2>1, <2>2, ModelStepTyped DEF ModelDone, ledger, worlds
<1> QED
  BY <1>1, <1>2, <1>3, <1>4, <1>5, <1>6, <1>7, <1>8, <1>9, <1>10, <1>11, <1>12 DEF Updates

-----------------------------------------------------------------------------
(* The capture buffer. *)

\* The buffer is as large as what is in it, with room for a NUL behind it, and
\* was at most as large as its limit when it last grew.
CaptureInv ==
  /\ capture.pos = capture.size
  /\ capture.size = 0 => capture.buf = <<>> /\ capture.alloc = 0
  /\ capture.size # 0 => capture.alloc = capture.size + 1
  /\ \A size \in ChunkSizes :
       (\A other \in ChunkSizes : other <= size) => capture.size <= CaptureLimit + size

LEMMA EmptyInBounds ==
  ASSUME capture' = NoCapture PROVE CaptureInv'
  BY ClientAssumption DEF CaptureInv, NoCapture

LEMMA ChunkInBounds ==
  ASSUME TypeInv, CaptureInv, NEW chunk \in Chunks, capture' = Captured(capture, chunk)
  PROVE  CaptureInv'
<1>1. /\ capture \in [buf : Seq(Chunks), size : Nat, pos : Nat, alloc : Nat]
      /\ chunk.size \in ChunkSizes /\ chunk.size \in Nat \ {0} /\ CaptureLimit \in Nat
      /\ ChunkSizes \subseteq Nat
  BY ClientAssumption DEF TypeInv, TypeOK, Chunks
<1>2. CASE Swallows(capture, chunk.size)
  BY <1>2 DEF Captured, CaptureInv
<1>3. CASE ~Swallows(capture, chunk.size)
  <2>0. Grows(capture, chunk.size)
    BY <1>1 DEF Grows, CaptureInv
  <2>1. capture.size <= CaptureLimit
    BY <1>1, <1>3, <2>0 DEF Swallows
  <2>2. capture' = [buf |-> Append(capture.buf, chunk), pos |-> capture.pos + chunk.size,
                    size |-> capture.size + chunk.size, alloc |-> capture.size + chunk.size + 1]
    BY <1>3, <2>0, Zenon DEF Captured
  <2> QED
    BY <1>1, <2>1, <2>2 DEF CaptureInv
<1> QED
  BY <1>2, <1>3

LEMMA NextInBounds == TypeInv /\ CaptureInv /\ [Next]_vars => CaptureInv'
<1> SUFFICES ASSUME TypeInv, CaptureInv, [Next]_vars PROVE CaptureInv'
  OBVIOUS
<1>1. capture' \in {capture, NoCapture} => CaptureInv'
  BY EmptyInBounds DEF CaptureInv
<1>2. CASE Connection
  BY <1>1, <1>2 DEF Connection, Create, CreateFails, SetBase, SetBaseFails, SetUri, SetWorld,
       World, Destroy, Returns
<1>3. CASE Transfer
  <2>1. ASSUME NEW size \in ChunkSizes, Chunk(size) PROVE CaptureInv'
    <3>1. Last(body') \in Chunks
      BY <2>1, DeliversTyped DEF Chunk
    <3> QED
      BY <1>1, <2>1, <3>1, ChunkInBounds DEF Chunk
  <2> QED
    BY <1>1, <1>3, <2>1 DEF Transfer, ChunkRefused, TransferEnds, ContextEnds, Ends, transport
<1>4. CASE Updates
  <2>1. ASSUME NEW op \in Direct, Request(op) \/ RequestFails(op) \/ NoDatastore(op) PROVE CaptureInv'
    BY <1>1, <2>1 DEF Request, RequestFails, NoDatastore, OpenHandle, Returns
  <2>2. ASSUME NEW op \in {"insert", "insert_model"}, Nothing(op) PROVE CaptureInv'
    BY <1>1, <2>2 DEF Nothing, Returns
  <2>3. ASSUME NEW contexts, InsertModel(contexts) PROVE CaptureInv'
    BY <1>1, <2>3 DEF InsertModel, transport
  <2>4. CASE QueryCrashes \/ InsertStream \/ InsertStreamFails
    BY <1>1, <2>4 DEF QueryCrashes, InsertStream, InsertStreamFails, OpenHandle, Returns, transport
  <2>5. CASE SkipContext \/ InsertContext \/ InsertContextFails \/ ModelDone
    BY <1>1, <2>5 DEF SkipContext, InsertContext, InsertContextFails, ModelDone, OpenHandle, transport
  <2> QED
    BY <1>4, <2>1, <2>2, <2>3, <2>4, <2>5 DEF Updates
<1> QED
  BY <1>1, <1>2, <1>3, <1>4 DEF Next, vars, transport

LEMMA CaptureSuffices == TypeInv /\ CaptureInv => CaptureInBounds
<1> SUFFICES ASSUME TypeInv, CaptureInv PROVE CaptureInBounds
  OBVIOUS
<1>1. /\ capture.size \in Nat /\ capture.pos \in Nat /\ capture.alloc \in Nat
      /\ CaptureLimit \in Nat /\ ChunkSizes \subseteq Nat
  BY ClientAssumption DEF TypeInv, TypeOK
<1> QED
  BY <1>1 DEF CaptureInv, CaptureInBounds

-----------------------------------------------------------------------------
(* Worlds. *)

WorldInv == OwnedInv /\ WorldsFreedOnce

\* Nothing happens to worlds where the connection keeps its own.
LEMMA WorldsKept ==
  ASSUME WorldInv, UNCHANGED worlds,
         conn' # NULL => conn # NULL /\ conn'.world = conn.world /\ conn'.owned = conn.owned,
         conn' = NULL => conn = NULL
  PROVE  WorldInv'
<1>1. made' = made /\ freed' = freed
  BY DEF worlds
<1> QED
  BY <1>1 DEF WorldInv, OwnedInv, WorldsFreedOnce
\* sparql_world makes one world more, and the connection has it, or none.
LEMMA WorldMade ==
  ASSUME TypeInv, WorldInv, conn # NULL, HasWorld \/ MakesWorld \/ WorldFails
  PROVE  WorldInv'
<1>1. conn \in Connections /\ made \in Nat /\ freed \in Seq(Nat)
  BY ClientAssumption DEF TypeInv, TypeOK
<1>2. conn' \in Connections
  BY WorldTyped
<1>3. CASE HasWorld
  BY <1>3, WorldsKept DEF HasWorld
<1>4. CASE MakesWorld
  <2>1. conn'.world = made + 1 /\ conn'.owned /\ made' = made + 1 /\ freed' = freed
    BY <1>1, <1>4 DEF MakesWorld, Connections
  <2>2. \A w \in 1..made : \E i \in DOMAIN freed : freed[i] = w
    BY <1>4 DEF MakesWorld, WorldInv, WorldsFreedOnce
  <2>3. \A i \in DOMAIN freed : freed[i] \in 1..made
    BY DEF WorldInv, WorldsFreedOnce
  <2>4. made + 1 # NULL /\ conn' # NULL
    BY <1>1, <1>2, ClientAssumption, ConnectionAssumption
  <2>5. \A i, j \in DOMAIN freed : freed[i] = freed[j] => i = j
    BY DEF WorldInv, WorldsFreedOnce
  <2> QED
    BY <1>1, <2>1, <2>2, <2>3, <2>4, <2>5 DEF WorldInv, OwnedInv, WorldsFreedOnce
<1>5. CASE WorldFails
  <2>1. conn'.world = NULL /\ made' = made /\ freed' = freed
    BY <1>1, <1>5 DEF WorldFails, Reported, Connections, worlds
  <2> QED
    BY <1>5, <2>1 DEF WorldFails, WorldInv, OwnedInv, WorldsFreedOnce
<1> QED
  BY <1>3, <1>4, <1>5

\* A connection that lets go of its world frees it if it is its own.
LEMMA WorldFreed ==
  ASSUME TypeInv, WorldInv, conn # NULL, FreeWorld, made' = made,
         conn' # NULL => conn'.owned = FALSE
  PROVE  WorldInv'
<1>1. made \in Nat /\ freed \in Seq(Nat)
  BY ClientAssumption DEF TypeInv, TypeOK
<1>2. CASE conn.owned /\ conn.world # NULL
  <2>1. conn.world \in 1..made /\ conn.world \in Nat
    BY <1>1, <1>2 DEF WorldInv, OwnedInv
  <2>2. freed' = Append(freed, conn.world)
    BY <1>2 DEF FreeWorld
  <2>3. /\ Len(freed') = Len(freed) + 1 /\ freed'[Len(freed) + 1] = conn.world
        /\ \A i \in 1..Len(freed) : freed'[i] = freed[i]
        /\ Len(freed) \in Nat /\ DOMAIN freed = 1..Len(freed) /\ DOMAIN freed' = 1..Len(freed) + 1
    BY <1>1, <2>1, <2>2
  <2>4. /\ \A w \in 1..made : w = conn.world \/ \E i \in 1..Len(freed) : freed[i] = w
        /\ \A i \in 1..Len(freed) : freed[i] # conn.world /\ freed[i] \in 1..made
        /\ \A i, j \in 1..Len(freed) : freed[i] = freed[j] => i = j
    BY <1>2, <2>3 DEF WorldInv, WorldsFreedOnce
  <2>5. \A w \in 1..made : \E i \in DOMAIN freed' : freed'[i] = w
    BY <2>3, <2>4
  <2>6. \A i \in DOMAIN freed' : freed'[i] \in 1..made
    BY <2>1, <2>3, <2>4
  <2>7. \A i, j \in DOMAIN freed' : freed'[i] = freed'[j] => i = j
    BY <2>3, <2>4
  <2> QED
    BY <2>5, <2>6, <2>7 DEF WorldInv, OwnedInv, WorldsFreedOnce
<1>3. CASE ~(conn.owned /\ conn.world # NULL)
  <2>1. freed' = freed
    BY <1>3 DEF FreeWorld
  <2> QED
    BY <1>3, <2>1 DEF WorldInv, OwnedInv, WorldsFreedOnce
<1> QED
  BY <1>2, <1>3

LEMMA NextFreed == TypeInv /\ WorldInv /\ [Next]_vars => WorldInv'
<1> SUFFICES ASSUME TypeInv, WorldInv, [Next]_vars PROVE WorldInv'
  OBVIOUS
<1>0. conn # NULL => conn \in Connections
  BY DEF TypeInv, TypeOK
<1>a. conn' = conn /\ UNCHANGED worlds => WorldInv'
  BY WorldsKept
<1>b. ASSUME NEW state \in {"", Success, "00404", "01000", "U0001", "X0001", "X0003"},
             NEW error \in [kind : {"none", "message", "body"}, text : Seq(Chunks)],
             conn # NULL, conn' = Reported(conn, state, error), UNCHANGED worlds
      PROVE  WorldInv'
  <2>1. conn' \in Connections
    BY <1>0, <1>b, ReportedTyped
  <2>2. conn'.world = conn.world /\ conn'.owned = conn.owned
    BY <1>0, <1>b DEF Reported, Connections
  <2> QED
    BY <1>b, <2>1, <2>2, WorldsKept, ConnectionAssumption
<1>1. CASE Connection
  <2>1. CASE Create
    <3>1. conn = NULL /\ UNCHANGED worlds
      BY <2>1 DEF Create
    <3>2. Fresh.owned = FALSE /\ \A base, update, data : Based(Fresh, base, update, data).owned = FALSE
      BY DEF Fresh, Based
    <3>3. conn'.owned = FALSE
      BY <2>1, <3>2 DEF Create
    <3> QED
      BY <3>1, <3>3 DEF WorldInv, OwnedInv, WorldsFreedOnce, worlds
  <2>2. CASE CreateFails
    BY <1>a, <2>2 DEF CreateFails
  <2>3. ASSUME NEW base \in Bases, NEW update \in {base, NULL}, NEW data \in {base, NULL},
             SetBase(base, update, data)
      PROVE  WorldInv'
    <3>1. conn' \in Connections
      BY <1>0, <2>3, BasedTyped DEF SetBase, Idle
    <3>2. conn'.world = conn.world /\ conn'.owned = conn.owned
      BY <1>0, <2>3 DEF SetBase, Idle, Based, Connections
    <3> QED
      BY <2>3, <3>1, <3>2, WorldsKept, ConnectionAssumption DEF SetBase, Idle
  <2>4. CASE SetBaseFails
    BY <1>b, <2>4, Errors DEF SetBaseFails, Idle
  <2>5. ASSUME NEW u \in Uris, SetUri(u) PROVE WorldInv'
    <3>1. CASE conn' = [conn EXCEPT !.uris[u] = "own"]
      <4>1. conn' \in Connections
        BY <1>0, <2>5, <3>1, UriTyped DEF SetUri, Idle
      <4>2. conn'.world = conn.world /\ conn'.owned = conn.owned
        BY <1>0, <2>5, <3>1 DEF SetUri, Idle, Connections
      <4> QED
        BY <2>5, <4>1, <4>2, WorldsKept, ConnectionAssumption DEF SetUri, Idle
    <3> QED
      BY <1>a, <2>5, <3>1 DEF SetUri
  <2>6. ASSUME NEW world \in UserWorlds \cup {NULL}, SetWorld(world) PROVE WorldInv'
    BY <1>0, <2>6, WorldFreed DEF SetWorld, Idle, Connections
  <2>7. CASE World
    BY <2>7, WorldMade DEF World, Idle
  <2>8. CASE Destroy
    BY <2>8, WorldFreed DEF Destroy, Idle
  <2> QED
    BY <1>1, <2>1, <2>2, <2>3, <2>4, <2>5, <2>6, <2>7, <2>8 DEF Connection
<1>2. CASE Transfer
  <2>1. ASSUME NEW size \in ChunkSizes, Chunk(size) \/ ChunkRefused(size) PROVE WorldInv'
    BY <1>a, <2>1 DEF Chunk, ChunkRefused, Delivers
  <2>2. ASSUME NEW end \in {"status", "ok", "failed"}, TransferEnds(end) \/ ContextEnds(end)
        PROVE  WorldInv'
    <3>1. conn # NULL
      BY <2>2 DEF TransferEnds, ContextEnds, Ends, TypeInv, PhaseInv
    <3> QED
      BY <1>b, <2>2, <3>1, OutcomeTyped DEF TransferEnds, ContextEnds, Ends
  <2> QED
    BY <1>2, <2>1, <2>2 DEF Transfer
<1>3. CASE Updates
  <2>1. ASSUME NEW op \in Direct, Request(op) \/ RequestFails(op) PROVE WorldInv'
    BY <1>a, <2>1 DEF Request, RequestFails
  <2>2. ASSUME NEW op \in Direct, NoDatastore(op) PROVE WorldInv'
    BY <1>b, <2>2, Errors DEF NoDatastore, Idle
  <2>3. ASSUME NEW op \in {"insert", "insert_model"}, Nothing(op) PROVE WorldInv'
    BY <1>a, <2>3 DEF Nothing
  <2>4. ASSUME NEW contexts, InsertModel(contexts) PROVE WorldInv'
    BY <1>a, <2>4 DEF InsertModel
  <2>5. CASE QueryCrashes \/ SkipContext \/ ModelDone
    BY <1>a, <2>5 DEF QueryCrashes, SkipContext, ModelDone
  <2>6. CASE InsertStream \/ InsertStreamFails
    BY <2>6, WorldMade DEF InsertStream, InsertStreamFails, Idle
  <2>7. CASE InsertContext \/ InsertContextFails
    <3>1. conn # NULL
      BY <2>7 DEF InsertContext, InsertContextFails, InModel, TypeInv, PhaseInv
    <3> QED
      BY <2>7, <3>1, WorldMade DEF InsertContext, InsertContextFails
  <2> QED
    BY <1>3, <2>1, <2>2, <2>3, <2>4, <2>5, <2>6, <2>7 DEF Updates
<1> QED
  BY <1>a, <1>1, <1>2, <1>3 DEF Next, vars

-----------------------------------------------------------------------------
(* The error of a response. *)

\* What is captured is the beginning of the response, and ends before it only
\* where a chunk was refused or swallowed, or where all was left to the parser.
PrefixInv ==
  /\ pc = "transfer" =>
       /\ IsPrefix(capture.buf, body)
       /\ \/ capture.buf = body
          \/ aborted
          \/ call.op = "query" /\ capture.buf = <<>>
          \/ capture.pos > CaptureLimit
  /\ pc = "model" => call.ended # "status"
  /\ ErrorIsTheResponse

LEMMA PrefixSelf ==
  ASSUME NEW T, NEW s \in Seq(T) PROVE IsPrefix(s, s)
  BY DEF IsPrefix

LEMMA PrefixAppend ==
  ASSUME NEW T, NEW s \in Seq(T), NEW t \in Seq(T), NEW e \in T, IsPrefix(s, t)
  PROVE  IsPrefix(s, Append(t, e))
<1>1. Len(s) <= Len(t) /\ SubSeq(s, 1, Len(s)) = SubSeq(t, 1, Len(s))
  BY DEF IsPrefix
<1>2. SubSeq(Append(t, e), 1, Len(s)) = SubSeq(t, 1, Len(s))
  BY <1>1
<1> QED
  BY <1>1, <1>2 DEF IsPrefix

\* A call that returns at once, or waits for its next context, reports no status.
LEMMA NoStatus ==
  ASSUME pc' # "transfer", call'.ended # "status" PROVE PrefixInv'
  BY DEF PrefixInv, ErrorIsTheResponse

LEMMA CalledNoStatus ==
  ASSUME NEW op, NEW result, NEW target, Called(op, result, target)
  PROVE  call'.ended # "status"
  BY ClientAssumption DEF Called

LEMMA OpenedPrefix ==
  ASSUME NEW op, NEW target, OpenHandle(op, target) PROVE PrefixInv'
<1>1. capture'.buf = <<>> /\ body' = <<>> /\ pc' = "transfer"
  BY DEF OpenHandle, NoCapture
<1>2. IsPrefix(<<>>, <<>>)
  BY DEF IsPrefix
<1> QED
  BY <1>1, <1>2 DEF PrefixInv, ErrorIsTheResponse

LEMMA ChunkPrefix ==
  ASSUME TypeInv, CaptureInv, PrefixInv, NEW size \in ChunkSizes, Chunk(size) PROVE PrefixInv'
<1>1. /\ pc = "transfer" /\ pc' = "transfer" /\ call' = call /\ aborted' = aborted /\ ~aborted
      /\ Last(body') \in Chunks /\ body' = Append(body, Last(body'))
  <2>1. Delivers(size) /\ aborted' = aborted
    BY DEF Chunk
  <2>2. Last(body') = [request |-> requests, size |-> size] /\ Last(body') \in Chunks
    BY <2>1, DeliversTyped
  <2> QED
    BY <2>1, <2>2 DEF Delivers
<1>2. /\ capture \in [buf : Seq(Chunks), size : Nat, pos : Nat, alloc : Nat]
      /\ body \in Seq(Chunks) /\ Last(body').size \in Nat /\ CaptureLimit \in Nat
  BY <1>1, ClientAssumption DEF TypeInv, TypeOK, Chunks
<1>3. SUFFICES /\ IsPrefix(capture'.buf, body')
               /\ \/ capture'.buf = body'
                  \/ call.op = "query" /\ capture'.buf = <<>>
                  \/ capture'.pos > CaptureLimit
  BY <1>1 DEF PrefixInv, ErrorIsTheResponse
<1>4. /\ IsPrefix(capture.buf, body)
      /\ \/ capture.buf = body
         \/ call.op = "query" /\ capture.buf = <<>>
         \/ capture.pos > CaptureLimit
  BY <1>1 DEF PrefixInv
<1>5. IsPrefix(capture.buf, body')
  BY <1>1, <1>2, <1>4, PrefixAppend
<1>6. CASE Parsing /\ capture' = capture
  BY <1>4, <1>5, <1>6 DEF Parsing
<1>7. CASE Capturing /\ capture' = Captured(capture, Last(body')) /\ Swallows(capture, Last(body').size)
  <2>1. capture' = capture
    BY <1>7 DEF Captured
  <2>2. capture.pos > CaptureLimit
    BY <1>7 DEF Swallows, CaptureInv
  <2> QED
    BY <1>5, <2>1, <2>2
<1>8. CASE Capturing /\ capture' = Captured(capture, Last(body')) /\ ~Swallows(capture, Last(body').size)
  <2>1. capture'.buf = Append(capture.buf, Last(body'))
    BY <1>8 DEF Captured
  <2>2. ~(capture.pos > CaptureLimit)
    BY <1>2, <1>8 DEF Swallows, Grows, CaptureInv
  <2>3. capture.buf = body
    BY <1>4, <1>8, <2>2 DEF Capturing
  <2>4. capture'.buf = body' /\ body' \in Seq(Chunks)
    BY <1>1, <1>2, <2>1, <2>3
  <2> QED
    BY <2>4, PrefixSelf
<1> QED
  BY <1>6, <1>7, <1>8 DEF Chunk

LEMMA RefusedPrefix ==
  ASSUME TypeInv, PrefixInv, NEW size \in ChunkSizes, ChunkRefused(size) PROVE PrefixInv'
<1>1. Delivers(size) /\ aborted' /\ capture' = capture
  BY DEF ChunkRefused
<1>2. /\ pc = "transfer" /\ pc' = "transfer" /\ Last(body') \in Chunks
      /\ body' = Append(body, Last(body'))
  BY <1>1, DeliversTyped DEF Delivers
<1>3. capture.buf \in Seq(Chunks) /\ body \in Seq(Chunks)
  BY DEF TypeInv, TypeOK
<1>4. IsPrefix(capture.buf, body')
  BY <1>2, <1>3, PrefixAppend DEF PrefixInv
<1> QED
  BY <1>1, <1>2, <1>4 DEF PrefixInv, ErrorIsTheResponse

\* What a transfer that ends with a status reports is what was captured.
LEMMA EndsPrefix ==
  ASSUME TypeInv, PrefixInv, NEW end \in {"status", "ok", "failed"},
         TransferEnds(end) \/ ContextEnds(end)
  PROVE  PrefixInv'
<1>1. /\ Ends(end) /\ pc = "transfer" /\ conn \in Connections
      /\ capture' = capture /\ body' = body /\ aborted' = aborted
  <2>1. Ends(end)
    BY DEF TransferEnds, ContextEnds
  <2> QED
    BY <2>1 DEF Ends, transport, TypeInv, TypeOK, PhaseInv
<1>2. call'.op = call.op /\ call'.ended = end
  <2>1. \A result : [call EXCEPT !.result = result, !.ended = end].op = call.op
    BY DEF TypeInv, TypeOK, Calls
  <2>2. \A result : [call EXCEPT !.result = result, !.ended = end].ended = end
    BY DEF TypeInv, TypeOK, Calls
  <2>3. [call EXCEPT !.ended = end].op = call.op /\ [call EXCEPT !.ended = end].ended = end
    BY DEF TypeInv, TypeOK, Calls
  <2>4. \/ call' = [call EXCEPT !.result = Outcome(end).result, !.ended = end]
        \/ call' = [call EXCEPT !.result = -1, !.ended = end]
        \/ call' = [call EXCEPT !.ended = end]
    BY Zenon DEF TransferEnds, ContextEnds
  <2> QED
    BY <2>1, <2>2, <2>3, <2>4
<1>3. pc' \in {"idle", "model"} /\ (pc' = "model" => end # "status")
  BY DEF TransferEnds, ContextEnds, Outcome
<1>4. ASSUME end = "status" PROVE conn'.error.text = capture.buf
  <2>1. Outcome(end).error.text = capture.buf
    BY <1>4 DEF Outcome, NoError
  <2>2. conn'.error = Outcome(end).error
    BY <1>1 DEF Ends, Reported, Connections
  <2> QED
    BY <2>1, <2>2
<1>5. /\ IsPrefix(capture.buf, body)
      /\ capture.buf = body \/ aborted \/ call.op = "query" \/ capture.pos > CaptureLimit
  BY <1>1 DEF PrefixInv
<1> QED
  BY <1>1, <1>2, <1>3, <1>4, <1>5 DEF PrefixInv, ErrorIsTheResponse

LEMMA NextPrefix == TypeInv /\ CaptureInv /\ PrefixInv /\ [Next]_vars => PrefixInv'
<1> SUFFICES ASSUME TypeInv, CaptureInv, PrefixInv, [Next]_vars PROVE PrefixInv'
  OBVIOUS
<1>1. CASE Connection
  BY <1>1, NoStatus, CalledNoStatus
     DEF Connection, Create, CreateFails, SetBase, SetBaseFails, SetUri, SetWorld, World, Destroy,
         Returns, Idle
<1>2. CASE Transfer
  BY <1>2, ChunkPrefix, RefusedPrefix, EndsPrefix DEF Transfer
<1>3. CASE Updates
  <2>1. ASSUME NEW op \in Direct, Request(op) PROVE PrefixInv'
    BY <2>1, OpenedPrefix DEF Request
  <2>2. ASSUME NEW op \in Direct, RequestFails(op) \/ NoDatastore(op) PROVE PrefixInv'
    BY <2>2, NoStatus, CalledNoStatus DEF RequestFails, NoDatastore, Returns, Idle
  <2>3. ASSUME NEW op, Nothing(op) PROVE PrefixInv'
    BY <2>3, NoStatus, CalledNoStatus DEF Nothing, Returns, Idle
  <2>4. ASSUME NEW contexts, InsertModel(contexts) PROVE PrefixInv'
    BY <2>4, NoStatus, CalledNoStatus DEF InsertModel
  <2>5. CASE QueryCrashes
    BY <2>5 DEF QueryCrashes, PrefixInv, ErrorIsTheResponse
  <2>6. CASE InsertStream \/ InsertContext
    BY <2>6, OpenedPrefix DEF InsertStream, InsertContext
  <2>7. CASE InsertStreamFails
    BY <2>7, NoStatus, CalledNoStatus DEF InsertStreamFails, Returns, Idle
  <2>8. CASE SkipContext
    BY <2>8, NoStatus DEF SkipContext, InModel, PrefixInv
  <2>9. CASE InsertContextFails \/ ModelDone
    <3>1. pc = "model" /\ call.ended # "status" /\ pc' = "idle"
      BY <2>9 DEF InsertContextFails, ModelDone, InModel, PrefixInv
    <3>2. /\ [call EXCEPT !.result = -1].ended = call.ended
          /\ [call EXCEPT !.result = 0].ended = call.ended
      BY DEF TypeInv, TypeOK, Calls
    <3>3. call'.ended = call.ended
      BY <2>9, <3>2 DEF InsertContextFails, ModelDone
    <3> QED
      BY <3>1, <3>3, NoStatus
  <2> QED
    BY <1>3, <2>1, <2>2, <2>3, <2>4, <2>5, <2>6, <2>7, <2>8, <2>9 DEF Updates
<1>4. CASE UNCHANGED vars
  BY <1>4 DEF vars, transport, PrefixInv, ErrorIsTheResponse
<1> QED
  BY <1>1, <1>2, <1>3, <1>4 DEF Next

-----------------------------------------------------------------------------
(* The contexts of a model. *)

LEMMA NameableFinite ==
  ASSUME NEW n \in Nat
  PROVE  IsFiniteSet({i \in 1..n : whole[i] # Blank}) /\ Nameable(n) \in Nat
<1>1. IsFiniteSet(1..n)
  BY FS_Interval
<1>2. {i \in 1..n : whole[i] # Blank} \in SUBSET (1..n)
  OBVIOUS
<1>3. IsFiniteSet({i \in 1..n : whole[i] # Blank})
  BY <1>1, <1>2, FS_Subset
<1> QED
  BY <1>3, FS_CardinalityType DEF Nameable

LEMMA NameableZero == Nameable(0) = 0
<1>1. {i \in 1..0 : whole[i] # Blank} = {}
  OBVIOUS
<1> QED
  BY <1>1, FS_EmptySet DEF Nameable

\* One more context is one more that can be named, or is passed over.
LEMMA NameableNext ==
  ASSUME NEW n \in Nat
  PROVE  Nameable(n + 1) = IF whole[n + 1] # Blank THEN Nameable(n) + 1 ELSE Nameable(n)
<1> DEFINE S == {i \in 1..n : whole[i] # Blank}
           T == {i \in 1..n + 1 : whole[i] # Blank}
<1>1. IsFiniteSet(S)
  BY NameableFinite
<1>2. n + 1 \notin S
  OBVIOUS
<1>3. T = IF whole[n + 1] # Blank THEN S \cup {n + 1} ELSE S
  <2>1. \A i : i \in 1..n + 1 <=> i \in 1..n \/ i = n + 1
    OBVIOUS
  <2> QED
    BY <2>1
<1> HIDE DEF S, T
<1>4. whole[n + 1] # Blank => Cardinality(T) = Cardinality(S) + 1
  BY <1>1, <1>2, <1>3, FS_AddElement
<1>5. whole[n + 1] = Blank => Cardinality(T) = Cardinality(S)
  BY <1>3
<1> QED
  BY <1>4, <1>5 DEF Nameable, S, T

\* The place of a context among those that can be named.
LEMMA NameablePlace ==
  ASSUME NEW n \in Nat, NEW i \in 1..n, whole[i] # Blank
  PROVE  Nameable(i) \in 1..Nameable(n)
<1> DEFINE S == {k \in 1..i : whole[k] # Blank}
           T == {k \in 1..n : whole[k] # Blank}
<1>1. i \in Nat /\ IsFiniteSet(S) /\ IsFiniteSet(T) /\ Nameable(i) \in Nat /\ Nameable(n) \in Nat
  BY NameableFinite
<1>2. S \in SUBSET T /\ i \in S
  OBVIOUS
<1> HIDE DEF S, T
<1>3. Cardinality(S) <= Cardinality(T)
  BY <1>1, <1>2, FS_Subset
<1>4. Cardinality(S) # 0
  BY <1>1, <1>2, FS_EmptySet
<1>5. Nameable(i) = Cardinality(S) /\ Nameable(n) = Cardinality(T)
  BY DEF Nameable, S, T
<1> QED
  BY <1>1, <1>3, <1>4, <1>5

Reached == Len(whole) - Len(todo)

\* What is still to be inserted is the end of the model's contexts, and of those before
\* it the server has been given each that can be named.
LedgerInv ==
  /\ Len(todo) <= Len(whole)
  /\ \A i \in 1..Len(todo) : todo[i] = whole[Reached + i]
  /\ Len(taken) = Nameable(Reached)
  /\ \A i \in 1..Reached : whole[i] # Blank => taken[Nameable(i)] = whole[i]

\* The request that runs is for a context that can be named, and the call has no result
\* until it is over.
InsertInv ==
  /\ pc = "transfer" /\ call.op = "insert_model" => Head(todo) # Blank
  /\ pc = "model" => call.op = "insert_model"
  /\ pc \in {"model", "transfer"} => call.result = NULL
  /\ call.op = "insert_model" /\ call.result = 0 => todo = <<>>

LEMMA LedgerSuffices == TypeInv /\ LedgerInv /\ InsertInv => InsertedInOrder
<1> SUFFICES ASSUME TypeInv, LedgerInv, InsertInv PROVE InsertedInOrder
  OBVIOUS
<1>1. todo \in Seq(Contexts) /\ whole \in Seq(Contexts)
  BY DEF TypeInv, TypeOK
<1>2. Len(todo) \in Nat /\ Len(whole) \in Nat /\ Len(todo) <= Len(whole) /\ Reached \in Nat
  BY <1>1 DEF LedgerInv, Reached
<1>3. todo = SubSeq(whole, Reached + 1, Len(whole))
  <2>1. SubSeq(whole, Reached + 1, Len(whole)) = [i \in 1..Len(todo) |-> whole[Reached + i]]
    BY <1>1, <1>2 DEF Reached
  <2>2. DOMAIN todo = 1..Len(todo) /\ todo = [i \in DOMAIN todo |-> todo[i]]
    BY <1>1
  <2>3. todo = [i \in 1..Len(todo) |-> whole[Reached + i]]
    BY <2>2 DEF LedgerInv
  <2> QED
    BY <2>1, <2>3
<1> QED
  BY <1>3 DEF LedgerInv, InsertInv, InsertedInOrder, Reached

\* The contexts of a call are known at its beginning, if it has any.
LEMMA LedgerBegins ==
  ASSUME NEW contexts \in Seq(Contexts), Inserts(contexts) PROVE LedgerInv'
<1>1. todo' = contexts /\ whole' = contexts /\ taken' = <<>>
  BY DEF Inserts
<1>2. Len(contexts) \in Nat /\ Reached' = 0
  BY <1>1 DEF Reached
<1>3. {i \in 1..0 : whole'[i] # Blank} = {}
  OBVIOUS
<1>4. Nameable(Reached)' = 0
  BY <1>2, <1>3, FS_EmptySet DEF Nameable
<1> QED
  BY <1>1, <1>2, <1>4 DEF LedgerInv

LEMMA LedgerKept == ASSUME LedgerInv, UNCHANGED ledger PROVE LedgerInv'
  BY DEF LedgerInv, ledger, Reached, Nameable

\* The first context that is still to be inserted is passed over, or inserted.
LEMMA LedgerMoves ==
  ASSUME TypeInv, LedgerInv, todo # <<>>, whole' = whole, todo' = Tail(todo),
         taken' = IF Head(todo) = Blank THEN taken ELSE Append(taken, Head(todo))
  PROVE  LedgerInv'
<1>1. todo \in Seq(Contexts) /\ whole \in Seq(Contexts) /\ taken \in Seq(Contexts)
  BY DEF TypeInv, TypeOK
<1>2. /\ Len(todo) \in Nat \ {0} /\ Len(whole) \in Nat /\ Len(todo') = Len(todo) - 1
      /\ Reached \in Nat /\ Reached' = Reached + 1
      /\ \A i \in 1..Len(todo') : todo'[i] = todo[i + 1]
  BY <1>1 DEF LedgerInv, Reached
<1>3. Head(todo) = whole[Reached + 1] /\ Head(todo) \in Contexts
  BY <1>1, <1>2 DEF LedgerInv
<1>4. ASSUME NEW i \in 1..Len(todo') PROVE todo'[i] = whole[Reached + 1 + i]
  <2>1. i + 1 \in 1..Len(todo) /\ todo'[i] = todo[i + 1] /\ Reached + (i + 1) = Reached + 1 + i
    BY <1>2, <1>4
  <2> QED
    BY <2>1 DEF LedgerInv
<1>5. Nameable(Reached + 1) = IF whole[Reached + 1] # Blank THEN Nameable(Reached) + 1
                                                             ELSE Nameable(Reached)
  BY <1>2, NameableNext
<1>6. /\ Len(taken) = Nameable(Reached) /\ Nameable(Reached) \in Nat
      /\ \A i \in 1..Reached : whole[i] # Blank => taken[Nameable(i)] = whole[i]
  BY <1>2, NameableFinite DEF LedgerInv
<1>7. Len(taken') = Nameable(Reached + 1)
  BY <1>1, <1>3, <1>5, <1>6
<1>8. ASSUME NEW i \in 1..Reached + 1, whole[i] # Blank PROVE taken'[Nameable(i)] = whole[i]
  <2>1. CASE i = Reached + 1
    <3>1. taken' = Append(taken, whole[i]) /\ Nameable(i) = Len(taken) + 1
      BY <1>3, <1>5, <1>6, <1>8, <2>1
    <3> QED
      BY <1>1, <3>1
  <2>2. CASE i # Reached + 1
    <3>1. i \in 1..Reached
      BY <1>2, <1>8, <2>2
    <3>2. Nameable(i) \in 1..Len(taken)
      BY <1>2, <1>6, <1>8, <3>1, NameablePlace
    <3>3. taken'[Nameable(i)] = taken[Nameable(i)]
      BY <1>1, <1>3, <3>2
    <3> QED
      BY <1>6, <1>8, <3>1, <3>3
  <2> QED
    BY <2>1, <2>2
<1>9. Len(taken') = Nameable(Reached)'
  BY <1>2, <1>7 DEF Nameable
<1>10. ASSUME NEW i \in 1..Reached', whole'[i] # Blank PROVE taken'[Nameable(i)'] = whole'[i]
  <2>1. Nameable(i)' = Nameable(i)
    BY DEF Nameable
  <2> QED
    BY <1>2, <1>8, <1>10, <2>1
<1>11. \A i \in 1..Len(todo') : todo'[i] = whole'[Reached' + i]
  BY <1>2, <1>4
<1>12. Len(todo') <= Len(whole')
  BY <1>2 DEF LedgerInv
<1> QED
  BY <1>9, <1>10, <1>11, <1>12 DEF LedgerInv

\* A call that is over at once.
LEMMA ReturnsInserts ==
  ASSUME NEW op, NEW result, NEW target, Called(op, result, target),
         Inserts(<<>>), pc' = "idle"
  PROVE  LedgerInv' /\ InsertInv'
<1>1. <<>> \in Seq(Contexts) /\ todo' = <<>>
  BY DEF Inserts
<1> QED
  BY <1>1, LedgerBegins DEF InsertInv

\* A call that begins with its only request.
LEMMA OpensInserts ==
  ASSUME NEW op, NEW target, OpenHandle(op, target), op # "insert_model", Inserts(<<>>)
  PROVE  LedgerInv' /\ InsertInv'
<1>1. <<>> \in Seq(Contexts) /\ todo' = <<>>
  BY DEF Inserts
<1>2. pc' = "transfer" /\ call'.op = op /\ call'.result = NULL
  BY DEF OpenHandle, Called
<1> QED
  BY <1>1, <1>2, LedgerBegins DEF InsertInv

LEMMA NextInserts == TypeInv /\ LedgerInv /\ InsertInv /\ [Next]_vars => LedgerInv' /\ InsertInv'
<1> SUFFICES ASSUME TypeInv, LedgerInv, InsertInv, [Next]_vars PROVE LedgerInv' /\ InsertInv'
  OBVIOUS
<1>0. call \in Calls
  BY DEF TypeInv, TypeOK
<1>1. CASE Connection
  BY <1>1, ReturnsInserts
     DEF Connection, Create, CreateFails, SetBase, SetBaseFails, SetUri, SetWorld, World, Destroy,
         Returns, Forgets, Idle
<1>2. ASSUME NEW size \in ChunkSizes, Chunk(size) \/ ChunkRefused(size)
      PROVE  LedgerInv' /\ InsertInv'
  <2>1. UNCHANGED <<pc, call, ledger>>
    BY <1>2 DEF Chunk, ChunkRefused, Delivers
  <2> QED
    BY <2>1, LedgerKept DEF InsertInv, ledger
<1>3. ASSUME NEW end \in {"status", "ok", "failed"}, TransferEnds(end)
      PROVE  LedgerInv' /\ InsertInv'
  <2>1. /\ pc' = "idle" /\ UNCHANGED ledger /\ call.op # "insert_model"
        /\ \E result : call' = [call EXCEPT !.result = result, !.ended = end]
    BY <1>3 DEF TransferEnds, Ends, ledger
  <2>2. call'.op = call.op
    BY <1>0, <2>1 DEF Calls
  <2> QED
    BY <2>1, <2>2, LedgerKept DEF InsertInv
<1>4. ASSUME NEW end \in {"status", "ok", "failed"}, ContextEnds(end)
      PROVE  LedgerInv' /\ InsertInv'
  <2>1. /\ pc = "transfer" /\ call.op = "insert_model" /\ whole' = whole
        /\ todo # <<>> /\ Head(todo) # Blank /\ call.result = NULL
    BY <1>4 DEF ContextEnds, Ends, TypeInv, PhaseInv, InsertInv
  <2>2. CASE Outcome(end).result = 0
    <3>1. /\ pc' = "model" /\ taken' = Append(taken, Head(todo)) /\ todo' = Tail(todo)
          /\ call' = [call EXCEPT !.ended = end]
      BY <1>4, <2>2 DEF ContextEnds
    <3>2. call'.op = "insert_model" /\ call'.result = NULL
      BY <1>0, <2>1, <3>1 DEF Calls
    <3> QED
      BY <2>1, <3>1, <3>2, LedgerMoves, ClientAssumption DEF InsertInv
  <2>3. CASE Outcome(end).result # 0
    <3>1. /\ pc' = "idle" /\ UNCHANGED <<todo, taken>>
          /\ call' = [call EXCEPT !.result = -1, !.ended = end]
      BY <1>4, <2>3 DEF ContextEnds
    <3>2. call'.result = -1
      BY <1>0, <3>1 DEF Calls
    <3> QED
      BY <2>1, <3>1, <3>2, LedgerKept DEF InsertInv, ledger
  <2> QED
    BY <2>2, <2>3
<1>5. ASSUME NEW op \in Direct, Request(op) PROVE LedgerInv' /\ InsertInv'
  BY <1>5, OpensInserts DEF Request, Direct
<1>6. ASSUME NEW op, RequestFails(op) \/ NoDatastore(op) \/ Nothing(op)
      PROVE  LedgerInv' /\ InsertInv'
  BY <1>6, ReturnsInserts DEF RequestFails, NoDatastore, Nothing, Returns, Forgets, Idle
<1>7. CASE QueryCrashes
  <2>1. pc' = "crashed" /\ UNCHANGED <<call, ledger>>
    BY <1>7 DEF QueryCrashes
  <2> QED
    BY <2>1, LedgerKept DEF InsertInv, ledger
<1>8. CASE InsertStream
  BY <1>8, OpensInserts DEF InsertStream
<1>9. CASE InsertStreamFails
  BY <1>9, ReturnsInserts DEF InsertStreamFails, Returns, Forgets, Idle
<1>10. ASSUME NEW contexts \in SeqOf(Contexts, MaxContexts), InsertModel(contexts)
       PROVE  LedgerInv' /\ InsertInv'
  <2>1. contexts \in Seq(Contexts)
    BY ClientAssumption DEF SeqOf
  <2>2. pc' = "model" /\ call'.op = "insert_model" /\ call'.result = NULL /\ NULL # 0
    BY <1>10, ClientAssumption DEF InsertModel, Called
  <2> QED
    BY <1>10, <2>1, <2>2, LedgerBegins DEF InsertModel, InsertInv
<1>11. CASE SkipContext
  <2>1. /\ todo # <<>> /\ Head(todo) = Blank /\ todo' = Tail(todo) /\ taken' = taken
        /\ whole' = whole /\ UNCHANGED <<pc, call>> /\ pc = "model"
    BY <1>11 DEF SkipContext, InModel
  <2> QED
    BY <2>1, LedgerMoves, ClientAssumption DEF InsertInv
<1>12. CASE InsertContext
  <2>1. /\ pc' = "transfer" /\ call'.result = NULL /\ UNCHANGED ledger /\ Head(todo) # Blank
    BY <1>12 DEF InsertContext, OpenHandle, Called
  <2> QED
    BY <2>1, LedgerKept, ClientAssumption DEF InsertInv, ledger
<1>13. CASE InsertContextFails
  <2>1. pc' = "idle" /\ call' = [call EXCEPT !.result = -1] /\ UNCHANGED ledger
    BY <1>13 DEF InsertContextFails
  <2>2. call'.result = -1
    BY <1>0, <2>1 DEF Calls
  <2> QED
    BY <2>1, <2>2, LedgerKept DEF InsertInv
<1>14. CASE ModelDone
  <2>1. pc' = "idle" /\ UNCHANGED ledger /\ todo = <<>>
    BY <1>14 DEF ModelDone
  <2> QED
    BY <2>1, LedgerKept DEF InsertInv, ledger
<1>15. CASE UNCHANGED vars
  BY <1>15, LedgerKept DEF vars, InsertInv, ledger
<1> QED
  BY <1>1, <1>2, <1>3, <1>4, <1>5, <1>6, <1>7, <1>8, <1>9, <1>10, <1>11, <1>12, <1>13, <1>14, <1>15
  DEF Next, Transfer, Updates

-----------------------------------------------------------------------------
(* Every connection. *)

LEMMA NextTyped == TypeInv /\ OwnedInv /\ [Next]_vars => TypeInv'
<1> SUFFICES ASSUME TypeInv, OwnedInv, [Next]_vars PROVE TypeInv'
  OBVIOUS
<1>1. CASE UNCHANGED vars
  BY <1>1 DEF vars, transport, ledger, worlds, TypeInv, TypeOK, PhaseInv
<1> QED
  BY <1>1, ConnectionTyped, TransferTyped, UpdatesTyped DEF Next

ConnectionInv ==
  TypeInv /\ CaptureInv /\ WorldInv /\ PrefixInv /\ LedgerInv /\ InsertInv

LEMMA InitHolds == Init => ConnectionInv
<1> SUFFICES ASSUME Init PROVE ConnectionInv
  OBVIOUS
<1>1. /\ conn = NULL /\ made = 0 /\ freed = <<>> /\ pc = "idle" /\ capture = NoCapture
      /\ call.ended = NULL
  BY DEF Init
<1>2. CaptureInv
  BY <1>1, ClientAssumption DEF CaptureInv, NoCapture
<1>3. WorldInv
  BY <1>1 DEF WorldInv, OwnedInv, WorldsFreedOnce
<1>4. PrefixInv
  BY <1>1, ClientAssumption DEF PrefixInv, ErrorIsTheResponse
<1>5. LedgerInv /\ InsertInv
  <2>1. <<>> \in Seq(Contexts) /\ todo = <<>> /\ whole = <<>> /\ taken = <<>>
    BY DEF Init
  <2>2. Reached = 0 /\ Nameable(Reached) = 0
    BY <2>1, NameableZero DEF Reached
  <2> QED
    BY <1>1, <2>1, <2>2 DEF LedgerInv, InsertInv
<1> QED
  BY <1>2, <1>3, <1>4, <1>5, InitTyped DEF ConnectionInv

LEMMA Inductive == Spec => []ConnectionInv
<1>1. ConnectionInv /\ [Next]_vars => ConnectionInv'
  BY NextTyped, NextInBounds, NextFreed, NextPrefix, NextInserts DEF ConnectionInv, WorldInv
<1> QED
  BY <1>1, InitHolds, PTL DEF Spec

\* The connection, the call that runs and what is remembered of its transfers
\* have their types in every state that connection.c, curl.c, update.c,
\* datastore-put.c and datastore-post.c reach.
THEOREM TypeCorrect == Spec => []TypeOK
<1>1. ConnectionInv => TypeOK
  BY DEF ConnectionInv, TypeInv
<1> QED
  BY <1>1, Inductive, PTL

\* sparql_curl_dummy_write_ never writes behind what it allocated, and never
\* allocates more than the limit, one chunk and a NUL, whatever a server sends.
THEOREM CaptureCorrect == Spec => []CaptureInBounds
<1>1. ConnectionInv => CaptureInBounds
  BY CaptureSuffices DEF ConnectionInv
<1> QED
  BY <1>1, Inductive, PTL

\* Each world that sparql_world makes is freed once, by sparql_set_world or
\* sparql_destroy, and none of the caller's, however these calls are mixed.
THEOREM WorldsCorrect == Spec => []WorldsFreedOnce
<1>1. ConnectionInv => WorldsFreedOnce
  BY DEF ConnectionInv, WorldInv
<1> QED
  BY <1>1, Inductive, PTL

\* The text that sparql_curl_perform_ reports with a status is the beginning of
\* the response to this very request, and where it is not all of it, a chunk
\* was refused, or the response was a query's, or it was longer than the limit.
THEOREM ErrorCorrect == Spec => []ErrorIsTheResponse
<1>1. ConnectionInv => ErrorIsTheResponse
  BY DEF ConnectionInv, PrefixInv
<1> QED
  BY <1>1, Inductive, PTL

\* Of a model of any contexts sparql_insert_model gives the server a beginning, each
\* context once and in order but those that cannot be named, and all of them when it
\* says that it has succeeded.
THEOREM InsertCorrect == Spec => []InsertedInOrder
<1>1. ConnectionInv => InsertedInOrder
  BY LedgerSuffices DEF ConnectionInv
<1> QED
  BY <1>1, Inductive, PTL
=============================================================================
