# libsparqlclient in TLA+

This directory holds TLA+ models of libsparqlclient, a C library that sends
SPARQL queries and updates over HTTP and turns the XML of a SPARQL result into
a result set or into statements of a librdf model; of its interactive shell;
and of libedit, the line editor that the repository carries for that shell.
TLC checks the models on small instances; TLAPS proves the theorems of the
eight `...Proofs` modules for every value of the constants.

1. The system · 2. The modules · 3. The runs · 4. The proofs · 5. Findings ·
6. Not modelled

## 1. The system

| Component | Source | State it keeps | Operations | Modelled |
|---|---|---|---|---|
| query engine (`SPARQLQUERY`) | `perform-query.c` | the SAX state, a sticky `result`, what is collected of the open binding (`name`, `language`, `datatype`, `buf`, `bound`), the parser | `sparql_query_perform_`, the write callback, three SAX handlers | `PerformQuery` |
| result set (`SPARQLRES`) | `resultset.c` | arrays of variables, rows, links and widths with counts and sizes; a cursor; a boolean | fill, read, destroy | `ResultSet` |
| `sparql_query` | `query.c` | a context: the result set, a pointer to its current row, two flags | nine callbacks | `Query` |
| `sparql_query_model` | `query-model.c` | a context: the row's statement and its graph | nine callbacks | `QueryModel` |
| connection (`SPARQL`) | `connection.c` | URIs, error state, librdf world | create, set base and URIs, error, world, destroy | `Client` |
| transport | `curl.c` | the connection's capture buffer | make a handle, capture, perform | `Client`; its outcomes in `PerformQuery` |
| updates, graph store | `update.c`, `datastore-*.c` | none of their own | update, insert (text, stream, model), put, post | `Client` (their order and failures), `Request` (their bytes) |
| formatting | `vasprintf.c` | a buffer that grows | `sparql_vasprintf_` and its pieces | `Format` |
| URL encoding | `urlencode.c` | none | size, encode | `UrlEncode` |
| interactive shell | `isparql.c` | the line buffer, the lexer's state, a queue of queries | `parse_query`, `exec_queries`, built-in commands | `Shell` |
| history | `libedit/src/history.c`, `vis.c`, `unvis.c`, `fgetln.c` | a circular list with a cursor and a size; a file and the buffer it is read into | `history()` | `History`, `Vis` |
| line buffer | `libedit/src/chared.c` | the line and its cursor; cut, undo and redo buffers | insert, delete, move, save | `LineEdit` |
| editor commands | `common.c`, `emacs.c`, `vi.c`, `search.c`, `hist.c` | the state of an argument, an operator, a search | one function for each command | `EditCommands`, `ViCommands` |
| editor loop | `read.c` | the current map, macros | `el_gets` | `Editor` |
| key bindings | `keymacro.c`, `map.c`, parts of `terminal.c` and `tty.c` | two maps of characters, one tree of sequences | bind, remove, change of editor and terminal | `Bindings` |
| terminal settings, signals | `tty.c`, `sig.c` | three sets of settings and a mode; the handlers replaced | raw, cooked and quoted mode, `sig_set`, `sig_clr`, the handler | `Tty` |
| editor object | `el.c` | all of libedit's | `el_init`, `el_end`, `el_editmode` | in `Tty` and `Bindings`, in part |
| display; readline emulation; tokenizer and parser; character types; one-shot command; build-flags tool; tests | see section 6 | | | no |

How they interact.  The library has one thread and no queue; what makes it
hard is that control is inverted twice.  `sparql_query` hands a context and
callbacks to the query engine, which hands a write callback to libcurl, which
calls it with chunks of the response; each chunk goes to libxml2's push
parser, which calls the SAX handlers; these call the callbacks of `query.c` or
`query-model.c`, which write into the result set or the librdf model.  All the
way down, an error can only be left in `query->result` and found later: by the
next handler (libxml2 does not stop), by the next chunk (libcurl stops only
when the write callback takes fewer bytes than it got), and by
`sparql_query_perform_` at the end.  Updates go the short way: a statement is
formatted, wrapped and encoded into a buffer whose size was reckoned before,
sent, and what the server answers is captured in the connection.

The shell reads lines with libedit's `el_gets`, enters them in a history,
splits them into statements and runs these over its connection.  Under
`el_gets` a loop takes keys through the maps and the tree to commands that
change one line buffer, while signals may arrive between any two steps and
switch the terminal and the handlers under it.

What is hard in it, and what has to hold:

* *ordering and failure*: after a handler fails, libxml2 goes on calling
  handlers.  No callback may be made any more, the verdict must be an error,
  and there must be exactly one verdict (`CallbacksNest`, `AlwaysReports`).
* *protocol sequences*: the end-element handler never looks at the name of the
  element that ends; it is right only if the state always knows what is open
  (`StateTracksDocument`).  The tree of key sequences must be the keys it was
  given after any additions and deletions (`TreeIsTheKeys`), a vi change must
  replay as if it were typed again (`RedoIsRetyping`).
* *stale state*: what was collected of one binding, the graph of a row, the
  pointer to a row in an array that moves, the last response in the capture
  buffer, the cursor on a deleted history entry, the copy of the typed line,
  the settings of the terminal as the library remembers them (`NoStaleValue`,
  `ModelIsRows`, `RowPointerLive`, `ErrorIsTheResponse`, `CursorLive`,
  `ReturnsToTyped`, `UserSettingsKept`).
* *ownership*: a librdf world is the caller's or the library's own, and
  changes hands (`WorldsFreedOnce`).
* *partial failure*: allocations fail between the steps of an addition, a
  transfer ends in the middle of a document, a model is inserted context by
  context (`FailedCallsChangeNothing`, `InBounds`,
  `CompleteOnlyForWholeResponse`, `ModelIsRows`, `InsertedInOrder`).
* *sizes reckoned before they are used*: rows by the number of variables,
  columns by the length of values, requests by hand-counted bytes, formatted
  numbers by a margin (`Rectangular`, `WidthsCover`, `RequestFits`,
  `MarkerStands`).
* *text cut into lines*: the shell parses an unfinished statement again, from
  the start, with each further line, in a buffer it has written to
  (`TakenAsTyped`).
* *interleaving*: signals stop, end and resume the program between any two
  steps of reading a line (`CookedOutside`, `HandlersGivenBack`).
* *timeouts*: there are none; a silent server is waited for without end.

`PROJECT.json` lists each hazard at its line with the properties that cover it.

## 2. The modules

| Module | What it is |
|---|---|
| `ResultCallbacks` | abstract: what the query engine promises to whoever sets callbacks. They nest (results, row, cell), stop at the first failure, and end in one verdict |
| `PerformQuery` | `perform-query.c`: from `sparql_query_perform_` to its verdict |
| `RowCursor` | abstract: what `sparqlres_next` and `sparqlres_reset` promise. Rows in order, each once, then NULL |
| `ResultSet` | `resultset.c` |
| `NodeDisplay` | how wide `sparqlrow_value` shows the values of a `ResultSet`, with librdf's escaping |
| `Query` | `query.c`: instances of `PerformQuery` and `ResultSet`, joined by the callbacks |
| `QueryModel` | `query-model.c`: an instance of `PerformQuery` joined with a librdf model |
| `Client` | `connection.c`, `curl.c`, and the calls of `update.c` and `datastore-*.c` |
| `Format`, `UrlEncode`, `Request` | `vasprintf.c`; `urlencode.c`; both joined into the requests of `perform-query.c`, `update.c` and `datastore-*.c` |
| `Shell` | `isparql.c`: the splitter, the queue of statements, the built-in commands |
| `Vis`, `History` | `vis.c` and `unvis.c`; `history.c` and `fgetln.c` |
| `LineEdit`, `EditCommands`, `ViCommands`, `Editor` | the line buffer; the commands of both modes and of emacs; those of vi; the loop of `el_gets` |
| `KeyBindings` | abstract: what `keymacro.c` promises. A map from sequences to values in which no key is the beginning of another |
| `Bindings` | `keymacro.c`, `map.c`, and what `terminal.c` and `tty.c` bind |
| `Tty` | `tty.c`, `sig.c`, and the steps of `read.c` between which a signal may come |
| `PerformQueryProofs`, `QueryProofs`, `QueryModelProofs`, `ShellProofs`, `ClientProofs`, `ExchangeProofs`, `LibeditProofs`, `BindingsProofs` | theorems; `ExchangeProofs` has those of `ResultSet` and `Request` with its two parts, `LibeditProofs` those of `Tty`, `Vis`, `History` and `Editor` |
| `MC...` | definitions for TLC: values of constants, symmetry, state constraints |

### PerformQuery

| Code | Model |
|---|---|
| `query->state`, `result`, `bound`, `name`, `buf`, `language`/`datatype` | `state`, `result`, `bound`, `name`, `buf`, `attrs` |
| where `sparql_query_perform_` is | `pc`: `idle`, `transfer` (inside libcurl), `chunk` (inside `xmlParseChunk`), `last` and `final` (the write with no data, outside and inside `xmlParseChunk`), `report`, `returned`, `crashed` |
| `sparql_query_write_` | `Capture`, `Refuse`, `NoContentType`, `Parse`/`EndChunk`, `EndDocument`: one action per return |
| `sparql_query_sax_startel_` | `StartRejected`, `StartPlain`, `StartRows`, `StartLink`, `StartVariable`, `StartBinding`, `StartLiteral`, `StartUnqualified`; the two `switch` statements are the tables `Children`, `StateOf` and `Parent` |
| `sparql_query_sax_endel_` | `EndPlain`, `EndRows`, `EndBinding`, `EndValue`, `EndBoolean`, `RejectBoolean` |
| `sparql_query_sax_characters_` | `Characters` |
| `sparql_curl_perform_` | `TransferEnds(ok)` |
| libxml2 | `open`, `rootSeen`, `wellFormed` and `Malformed`: elements balance under one root until the document turns out not to be well formed |
| libcurl | `ctype`, `aborted`: a response has no Content-Type, a plain-text one or another; a refused chunk aborts the transfer |

A callback is the Boolean `ok` of the handler's action: it may fail whenever
there is one.  So may every allocation, which ends in the same place.  Text is
a sequence of pieces: `true`, `false`, anything else; the empty sequence is
the NULL buffer.  An element of another namespace and an unknown element are
both `other`: both leave `result` at -1.  An element in no namespace at all,
and a response with no Content-Type, make the code read NULL: those are the
steps to `crashed`, after which nothing is claimed.  The handlers return at
once when `result` is set, so what libxml2 reports after a failure is no step
of the model, and the chunk may end at any time.

`values` is a history variable: how many values the open binding delivered.

### ResultSet

`variables`/`varsize`, `rows`/`rowsize`, `widths`, `linkcount`, `boolean`,
`current` and `reset` are the fields of the structure.  `phase` says who has
it: `query.c` fills it, then the caller reads it.  Each operation is an action
and each of its failures another (`AddVariable`/`AddVariableFails`,
`CreateRow`/`CreateRowFails`, ...); what a failure leaves behind, such as an
array that was enlarged for nothing, is part of the failing action.  The block
sizes, 4 and 8 in the code, are constants.  `sparqlrow_set_uri_`, `_bnode_`
and `_literal_` differ in the node and its reckoned width and are one action,
`Bind`.  `ret` is the kind of thing the last call returned and `fetched` which
row the last `sparqlres_next` gave.

`NodeDisplay` is what `sparqlrow_value` makes of a node: `librdf_node_write`
writes some characters with a backslash or as `\u` and a number, and puts
`^^<>` around a datatype.  How long each character becomes is librdf's affair
and a constant (`InLiteral`, `InUri`).  `resultset.c` reckons the widths from
what was bound, so that a value is only covered when nothing in it is escaped,
and one with a datatype but for two characters: that is what `WidthsCover` says.

### Query and QueryModel

A step of `Query` is a step of `PerformQuery` and, when that step makes a
callback, what the callback does to the `ResultSet`: this replaces the free
choice of `ok` by the callback's own result.  `row` is `context.row`: the
array it points into, told by its size because `realloc` is the only thing
that moves it, and an index.  `doc` is a history variable: what the document
says, collected from the SAX events alone and never from the query's fields,
so that `ResultIsDocument` compares two separate readings.

`QueryModel` does the same with `query-model.c`.  librdf is external: it may
fail to make a node (the code then goes on with none), it may make a literal
without its datatype, it makes a fresh node of a blank node without a text,
and it may fail to add a statement.  `cells` and `rowsRead` are history: what
each row binds; `blurred` is set when librdf failed in one of these ways or a
binding had several values, and `ModelIsRows` speaks of the other behaviours.
Repeated statements are kept apart in `model` when they have no graph.

### Shell

| Code | Model |
|---|---|
| `query_buf` up to `query_len`, `query_state`, `pqueries` | `buffer`, `mode`, `queue` (what is not done yet) |
| `sparql_conn`, `verbose_mode` | `conn` (a number and its verbosity, or NULL), `verbose` |
| `parse_query` | `Read(line)`: `Scans` is where the loop stands after each token of a text, `ParseOf` what it makes of the buffer and the line up to the first NUL; `Scan` is one turn of the loop, with one operator per kind of state (`Begin`, `Continue`, `Quoted`) |
| `exec_queries` | one action per way a statement can go; `Goes` continues the loop, `Returns` leaves it and drops the rest of the queue |
| `exec_builtin` | `Quit`, `Connect`, `ConnectFails`, `ToggleVerbose`, `UnknownCommand` |
| `main` | `Init`, `Read`, `EndOfInput` |

Text is a sequence of tokens: words, blanks, and the characters and escapes
that `parse_query` looks at (`quote`, `dquote` and `backtick` are characters
written out, `cmd_q` is `\q`, `esc_g` is `\g`).  `INSERT` stands for the update verbs.  What the server answers is
the choice between `Update(ok)`, `QueryFails`, `QueryWithoutRows` and
`QueryWithRows`.  `typed`, `log`, `made` and `closed` are history variables.
`Statements` is a second reading of all that was typed: it knows no lines and
no state machine, but says that a terminator counts when the quotes and
brackets before it can be paired (`Balanced`); `Cuts` takes the text from left
to right, from the end of one statement to the next.

### Client

| Code | Model |
|---|---|
| `SPARQL`, but for its capture buffer | `conn`, a record; NULL before `sparql_create` and after `sparql_destroy` |
| `conn->capture` | `capture`: `buf` (a sequence of chunks), `size`, `pos`, and `alloc`, the bytes that `realloc` was asked for |
| where a call is | `pc`: `idle`, `transfer` (inside libcurl), `model` (between two contexts of `sparql_insert_model`), `crashed` |
| `sparql_curl_create_` | `OpenHandle`, a part of each action that makes a request |
| `sparql_curl_dummy_write_` | `Captured`, with its conditions `Grows` and `Swallows`; `ChunkRefused` when there is no memory |
| `sparql_curl_perform_` | `Ends(end)`, of which `Outcome` is what it reports of a status above 299, of success and of a failed transfer |
| `sparql_world` | `HasWorld`, `MakesWorld`, `WorldFails` |
| `sparql_insert_model` | `InsertModel`, then for each context `SkipContext`, `InsertContext`, `InsertContextFails` and `ContextEnds`, then `ModelDone` |
| the other calls | one action each, with another for the ways it fails |

A chunk is the pair of the request it answers and a size, so that an error
text can be told from that of an earlier response.  `requests`, `body`,
`taken`, `whole`, `made` and `freed` are history variables.  Which
allocation of a call fails is told apart only where it makes a difference.

### Format, UrlEncode and Request

A format is a sequence of pieces: ordinary text, `%%`, a number, the character
NUL, a string, a node, `%n`, an incoherent directive.  `Format` takes them one by one, as
`dispatch` does.  `Approx` is what `print_it` reckons a piece needs, `Printed`
what it writes; `realloc_buff` keeps a `marker` in the last byte, and
`MarkerStands` says that no piece writes over it.  What the C library prints
for a number is known by its length alone, `own` beyond its width and its
precision, and that length may be any: `MarkerStands` speaks of formats whose
numbers leave three bytes of the margin (`NumbersFit`), as all do but a long
double, and what `%Lf` does beyond it is in section 5.  `Counted` is
what `vsprintf` returns and `Printed` what `strlen` finds, which differ for
`%c` of NUL.  `UrlEncode` keeps with each encoded
byte the character and the part of `%xx` it is, so that `RequestFits` can say
that what is in the buffer is the encoding of exactly what was asked for:
`WholeCode` is what a text is encoded as when there is room for all of it, and
`WholeText` what a format is printed as when no memory is lacking.  The loops
of `urlencode.c` are recursive functions over the positions of a text.
`Request` is one action for each way a call allocates, wraps and encodes.

### History and Vis

The circular list is the sequence `list`, newest first; the pointer into it is
the number of an entry, 0 at the list's head.  Each request of `history()` is
an action; H_FUNC with functions of the caller's sets `foreign`.  The file is a
sequence of bytes that `FileOf` writes and `TextsIn` reads, through the
encoder `strvis` with `VIS_WHITE` and the decoding state machine `unvis`.
Between them is the bundled `fgetln`, which stands in where the C library has
none: its buffer (`bufsiz`) grows by BUFSIZ and stays so from call to call, and
a line that does not fit it has a NUL in it for each time it grew (`Rereads`,
`Length`), behind which `strunvis` sees nothing (`DecodedLine`).  `Spilling` are
the lines for whose text, with its NUL, the buffer of `history_load` has no
room; entering one sets `overrun`, behind which nothing is claimed.  A save may
fail with the file untouched or emptied (`SaveFails`), or behind any entry for
lack of memory, when the cursor has moved (`SaveStops`); a load may stop behind
any line (`StopsBehind`).
`walk` and `ret` are history variables.  `MCHistory` also states `Decodable`,
that decoding undoes encoding for each byte and for all pairs of a sample of
bytes that could run into one another; TLC evaluates it in that run.

### LineEdit, EditCommands, ViCommands and Editor

The state of an `EditLine` is one record, and a command an operator that takes
a record to the next and sets `ret`, its CC_ code.  The operators have the
names of the functions in the code.  A pointer into the line is an index;
pushed-back keys, vi's pending operator, count and redo record are fields.
`Editor` is the loop: `Command` looks a key up in the map of the mode, and a
step of `EditorNext` is one round of `el_gets` with a key, and with whatever the
command reads besides (a character, a search string, what another editor
makes of the line).  `astray` is set where the code leaves its buffers or reads
what it has not written; nothing is claimed behind it.  An answer to a prompt
(`Asked`) is what `c_gets` makes of the keys: a backspace moves `cp` back
without taking anything from the text, so that repeated ones go over the prompt
and before the buffer (`OffLine`), which is astray.  So is `cv_prev_word` with a
count above the words there are (`BeforeLine`).  `ch_enlargebufs` enlarges the
buffers one after the other; `Refused` says for which memory runs out, and
without it for the second the mark points to where the line was (`Loose`), and
who uses it goes astray.  `left` is a history
variable: the line the user left for another of the history.  `Retyped`, the
loop over keys typed before, gives the lines from which `EditorInit` starts, and
what `RedoIsRetyping` compares `vi_redo` with.

### Bindings and KeyBindings

`tree` is the set of paths to the nodes of `keymacro.c` with what each holds;
`Bound` is what its leaves hold, and with `calls`, the operations that a step
has made, maps `Bindings` to `KeyBindings`.  `map`, `key` and `alt` tables are
functions from characters to commands or to the mark that leads into the tree.
`map_init_vi`, `map_init_emacs`, `terminal_bind_arrow`, `tty_bind_char` and
the forms of `bind` are operators with the names of the code; `Each` is a loop
over a table, of which an operator (`Rebind`, `AddArrow`, `BindArrow`,
`AddMeta`) is one round.  `user` is a history variable: what the user has bound
that no call has named since.

### Tty

`term` holds what the terminal is set to, `tty` what the library believes
(`el_tty`: the settings `ex`, `ed`, `ts`, `or`, the mode, the masks set and
cleared by the user), `disp` who handles each signal, `sig` what
`sig_set` has saved.  `pc` stops at each place of `el_gets` between two system
calls, and `Signal(i)` may happen at each of them (a key may be at hand without
one, pushed or found by `read_preread`; the terminal is then left as it is): it runs `sig_handler` if
that is the disposition, and stops or ends the program if the disposition it
gives back is the default.  `want` is a history variable, what the user or the
program asked the terminal to be and how the program has each signal handled; `missed` is set when a signal comes at a
moment for which the code is not ready (section 5).  `want.unnoticed` says that
the terminal was given settings that `tty_rawmode` will not notice (`Unnoticed`;
section 5).  `TtyAssumption` gives the settings their shape;
`CanonicalAssumption` says that the program starts on a cooked terminal and
that neither the user nor `setty` touches ICANON, by which the library tells
raw from cooked.

## 3. The runs

| Run | States | What it shows |
|---|---|---|
| `perform_query` | 127 thousand | the SAX machine under every document, cut anywhere, everything failing or not; and that a query whose response ends has a verdict |
| `perform_query_boolean` | violation | the finding of section 5 |
| `result_set` | 251 thousand | a result set under any sequence of calls, any of them failing |
| `query` | 1.3 million | `sparql_query` over several rows or several cells: the row pointer, booleans against rows, the result against the document, and that the parts keep their own specifications |
| `query_model` | 719 thousand | `sparql_query_model` over two rows of the four variables |
| `shell` | 1.1 million | what the shell takes is what was typed, whatever the lines, unless the buffer was cut off; and it has one live connection, the last made, as verbose as the shell |
| `client` | 1.6 million | a connection under any sequence of calls, each failing or not: the capture buffer, the error, the worlds, the order of contexts |
| `request` | 1.3 million | every way a statement becomes a request, formatted, wrapped and encoded |
| `history` | 464 thousand | a history under any sequence of calls, with its file |
| `editor` | 294 thousand | every command of both modes, three keys in a row after various beginnings |
| `bindings` | 277 thousand | binding and removing keys, changing editor, terminal and the terminal's characters, in any order |
| `tty` | 2.9 million | two lines read, with signals and changes of the settings between any two steps |

### Bounds, and why they are enough

* `PerformQuery`: two names, enough for a binding to take the name or the value
  of another, and for a repeated variable.  `MaxText` 2: `true`, `false`, any
  other text, and a text that had one in front of it; longer ones behave like
  the last.  Documents are not bounded: a rejected element ends their depth,
  and the state does not grow with their length.
* `ResultSet` and `Query` bound variables, rows, links and fetches
  (`MaxVariables`, `MaxRows`, `MaxLinks`, `MaxFetches`), each in the guard of
  the action that adds one.  With blocks of 1 or 2 an array grows on its first
  and on later additions, and two rows are what a value needs to be put in the
  wrong one.  `Narrow`, in `MCQuery`, has several rows or several variables or
  links or a datatype, but not all at once.  Names are interchangeable there
  (`SYMMETRY`; nothing about liveness is checked under it).
* `QueryModel`: two rows, what it takes for one to inherit from the other or
  to repeat it.  `FewNodes` fixes the order s, p, o within a row and all nodes
  but objects; it does not constrain which cells a row has, or where the graph
  comes.
* `Shell`: all that is typed is 6 tokens with the ends of lines (`MaxTyped`): a
  quoted terminator that spans two lines and a statement ended behind it, two
  statements on a line and a third, or three commands.
* `Client`: the limit of the capture buffer is 1 and chunks are of 1 or 2, so
  that a buffer is below, at and above the limit, and a chunk is swallowed,
  within two chunks; two requests, so that one can find the first's response;
  two worlds of the library's and one of the caller's; models of two contexts.
* `ResultSet` also has one character, `q`, that a literal shows as two.
* `Request`: blocks and margin of 5 with numbers of 1 and 2 of their own, so
  that three pieces make the buffer grow and come as close to its end as the
  margin allows, and of 9, which it does not hold; texts of up to 4 characters, of which one is encoded as
  itself and one as three bytes.
* `History`: three events ever, sizes from 0 to 2, so that entries go by size,
  by number and by duplication under a cursor and in a walk.  Its two texts are
  a newline before a backslash, which are 8 bytes in the file, as many as
  `fgetln`'s buffer has (`LineSize`), and two letters, which fill the buffer of
  `history_load` (`TextSize` 2), so that both buffers are at their limits.
  No step reads what a call returned, so the view `Told` keeps of it only whether
  a walk has come to its end, which is what `WalkInOrder` asks.
* `Editor`: three keys after an empty line, a typed one, and after beginnings
  that set up an operator, a repeated change or a mark.  Buffers of 10 that
  grow once (`MaxSize` 20) or are refused, arguments up to 2.  Answers are up to
  2 characters long (`Spare` 8) and hold up to four backspaces, as many as lead
  over the prompt and out of the buffer.  Of keys with the same command
  one is typed.
* `Bindings`: three calls, over keys chosen so that one is another, begins
  another, or is an arrow's or the terminal's; of the four terminals one sends for an
  arrow key what `terminal_reset_arrow` has for it.
* `Tty`: two lines, two signals, two changes.  A stop and a resumption, or a
  signal while another is still unanswered, need two.

Deadlock is not checked where a model may stop: a shell that has exited, a
query that has returned, a result set that was destroyed, a terminal given
back, and models that have used up their calls have no next step.

### Fairness

Only `perform_query` assumes fairness, for `AlwaysReports`.  Weak fairness of
`Perform`, `EndChunk`, `EndDocument`, `Report` and of the write with no data:
each is a call that returns once it is made, on the one thread there is.
Strong fairness of `TransferEnds`: between chunks libcurl may return, and does
in the end.  That is an assumption on the server.  `perform-query.c` and
`curl.c` set no timeout, and without the assumption the property is false: a
server may send white space for ever.

## 4. The proofs

`PerformQueryProofs` (names, texts, attributes and `MaxText` arbitrary; it
uses `NullAssumption`, that no name is NULL, and `MaxTextAssumption`):

* `TypeCorrect`, `TracksCorrect`, `NoStaleCorrect`, `NamedCorrect`,
  `CompleteCorrect` are conjuncts, or consequences, of one inductive
  invariant, `Inv`: the state properties of the `perform_query` run and the
  types, together with `PhaseInv`.  None but `TypeOK` is inductive alone.
  That an end tag leads to the state of what is still open needs the state to
  be in step with the document before; that `</binding>` leaves nothing needs
  `bound` and the binding's attributes to be where the state says; a verdict
  of success needs the phases (`PhaseInv`): no handler has run before the
  transfer, a captured text is in `CAPTURE` throughout, an aborted transfer
  can only end in failure, and `EndDocument` left `result` at 0 only for a
  whole document.
* `Refinement`: `Spec => CallbacksNest`, each step of the query engine is one
  step of `ResultCallbacks` or a stutter, under the mapping of `Place` and
  `Stopped`.

`ExchangeProofs`, of `ResultSet` (names, nodes, block sizes and bounds arbitrary; it uses
`BlockAssumption`, blocks of at least one entry, `NullAssumption` and
`NodeAssumption`, and for widths `DisplayAssumption`, that every character is
written with some length):

* `TypeCorrect`, `RectangularCorrect`, `InBoundsCorrect`, `WidthsCoverCorrect`
  from their conjunction.  `Rectangular` is what makes the update of a width
  well defined, and so `WidthsCover` needs it; `InBounds` needs that an array
  that is not enlarged has room for one entry more.
* `FailedCallsCorrect`: the action property, case by case.
* `CursorCorrect`: `Spec => RowsInOrder`, each step of the cursor is one step
  of `RowCursor` or a stutter, under the mapping of `Served`.

`QueryProofs` (names, texts, attributes, blocks and bounds arbitrary; it uses
`QueryAssumption`: the bounds are numbers, and NULL is no pointer to a row):

* `PartsCorrect`: `Spec => PartsKeepTheirSpecs`, each step of `sparql_query` is
  one step of `PerformQuery` or a stutter, and one step of `ResultSet` or a
  stutter.  Where the assumptions of those modules hold, what is proved of each
  therefore speaks of `sparql_query`.  The side of the query needs no
  invariant; that of the result set does, for a value must be bound to a node,
  under a name, in the last row.
* `RowPointerCorrect` and `BooleanCorrect`, from `QueryInv`: a query that has
  not failed has a pointer in every state between `<result>` and `</result>`
  and `has_results` in every state inside `<results>`, because no other element
  leads there; a query that has failed takes no step that looks at either.
* `DocumentCorrect`: the result set that is returned says what the document
  says.  `DocInv` relates the reading of the handlers to that of the document,
  which uses the SAX events alone.  `ReadInv`: while a value is open, the text
  and the attributes that the query has collected are those the document has
  given since the start of that element, unless its binding had a value before
  (`several`); outside a binding and a boolean nothing is collected.
  `RowsInv`: the variables are the same, there are as many rows, each as wide
  as there are variables, and each cell holds what the document's row has under
  that name, a repeated variable being filled at its first place only.  Both
  speak of a query that has not failed; one that has failed keeps to
  `RowPointerCorrect` and returns no result set.

`QueryModelProofs` (names, texts, attributes and terms arbitrary):

* `QueryCorrect`: `Spec => P!Spec`, the query behaves as in `PerformQuery` when
  its callbacks fill a model, so that the theorems of `PerformQueryProofs` hold
  of it where their assumptions do.
* `NoDuplicateCorrect` and `RowsCorrect`, from `ModelInv`.  By `RowInv`, inside
  a row there is a statement, and with the graph it is what that row was read
  to bind, unless librdf failed; outside a row no graph is left over.  It is
  this that keeps the graph and the terms of one row from reaching the next,
  when a row ends with `</result>` as well as when its statement was already in
  the graph and is freed.

`ShellProofs` (tokens and length of a session arbitrary; it uses
`NullAssumption`, that NULL is no connection, and `TokensAssumption`, that
neither the end of a line nor NUL is among the tokens typed within one):

* `ConnectionCorrect`: `OneConnection` is inductive with the types of the
  connection, since no step but `Connect` and `ToggleVerbose` touches them.
* `TakenCorrect`, from `PendingInv`: the text typed is one whose statements are
  all over, followed by the buffer; those statements are the ones taken and
  queued; and the buffer, which holds no NUL, begins no command and ends no
  statement.  If a NUL is in the buffer then it is `Lost`: scanned up to there
  it is in a statement, so every later line leaves it in one.  That a line
  keeps the invariant is `ReadPending`.  It rests on `ReadsText`, by which the
  loop of `parse_query`, started again from the beginning of the buffer, agrees
  at every token with `Cuts` on whether a statement is open, where it began and
  which are over; on `QueryIsBalanced`, by which the state of the loop is
  "query" just where the quotes and brackets so far can be paired; and on
  `CutsAgree`, by which what is over stays over, the same, whatever is typed
  behind it.

`ClientProofs` (URIs, worlds, graphs, sizes of chunks, limit and all bounds
arbitrary; it uses `ClientAssumption`, that chunks are not empty and NULL is
none of the other values, and `ConnectionAssumption`):

* `TypeCorrect`, from the types and `PhaseInv`, where a call stands; the types
  of what is freed need `OwnedInv`, that a world the connection owns is one
  the library made.
* `CaptureCorrect`, from `CaptureInv`: position and size are equal and the
  allocation is one more.  That is why the buffer "grows" with every chunk,
  and why the one that takes it over the limit is the last.
* `WorldsCorrect`: `WorldsFreedOnce` is inductive with `OwnedInv`.
* `ErrorCorrect`, from `PrefixInv`: during a transfer what is captured is the
  beginning of the response, and if not all of it, then a chunk was refused or
  swallowed, or a query has left everything to its parser.  That nothing is
  captured behind a swallowed chunk needs `CaptureInv`.
* `InsertCorrect`: by `LedgerInv`, the contexts still to be inserted are the
  end of the model's, and of those before them the server was given each that
  can be named, at the place that `Nameable` counts; by `InsertInv` a request
  runs for a context that can be named, and `sparql_insert_model` says 0 only
  when none is left.

`ExchangeProofs`, of `Request` (formats, texts, statements, URIs, block and margin arbitrary):

* `MarkerCorrect`, by `BufferInv`: what was written ends at least two bytes
  before the buffer does while pieces are left.  A piece writes at most the own
  part of a number and one character more than was reckoned, and a NUL behind
  it; room was made for what was reckoned and the margin.  It uses
  `FormatAssumption`: the block is no smaller than the margin, which the code
  demands with `#error`.  That the own part of a number leaves three bytes of
  the margin is no assumption but the condition of the property.
* `TextCorrect`, by `TextInv`: what is in the buffer is what the pieces before
  the current one are printed as, unless memory was lacking for a node; one
  counter of the loop is its length, and so is the other if no NUL was printed.
* `RequestCorrect`: `EncodesWhole` says of the loop of `sparql_urlencode_` that
  with the bytes that `sparql_urlencode_size_` reckons, or more, it encodes the
  whole of the text; `QueryFits`, `PutFits`, `PostFits` and `WrappedFits`
  apply it to the requests.  It uses `RequestAssumption`: some characters are
  encoded as themselves and some are not.

`LibeditProofs`, of `Tty` (settings, numbers of lines, signals and changes arbitrary):

* `SavedCorrect` and, from it, `HandlersCorrect`.  `SavedInv` says that what
  is saved for a signal is how the program has it handled, that where the
  library's handler stands there is one saved to give back, and that where it
  does not the program's own does.  Setting the handlers again in the middle of
  a line keeps that only because the code does not save its own.
* `CookedCorrect`, from `CookInv`: unless a signal came at a moment for which
  the code is not ready, `t_mode` says that the terminal is raw wherever it is,
  but for the two places where the terminal is changed and the mode is not yet
  written, and a program that is stopped or has ended leaves it cooked.  It
  needs `SettingsInv`, that ICANON is in the cooked settings and not in the raw
  ones, whatever the user's masks.
* `SettingsCorrect`, from `KeptInv`: what was asked for is in the settings that
  will be given back while the terminal is raw, and in the terminal while it is
  cooked; there it differs from what the library holds in a way that
  `tty_rawmode` will notice, or is `unnoticed`.

`LibeditProofs`, of `Vis` and `History` (texts, sizes, numbers of calls and of
events arbitrary; texts are sequences of the bytes 1 to 255):

* `StrunvisUndoes`: decoding undoes encoding, for every text.  A byte is
  written in one of five forms (itself, two backslashes, `\M-c`, `\M^c` or
  `\^c`, three octal digits), and each of them takes a decoder at rest to one
  at rest that has put out that byte and nothing else (`CharacterRestored`).
  The loop of a decoder over two texts one behind the other is that over the
  first and then over the second (`StepsJoin`), and so it goes from byte to
  byte.
* `HistoryInvariant`: `HInv`, of three parts, holds throughout.  `HistoryTyped`,
  `CursorIsLive`, `WalksInOrder` and `FilesRoundTrip` follow from it.  The list
  is a store: the numbers of its entries descend from the newest on, and none
  is above the last one given (`Placed`).  That is why a pointer that is the
  number of an entry names one entry only, and why deleting, trimming and
  entering keep the cursor on an entry or on the head (`CursorLive`).  `Placed`
  also says that the file, when there is one, is what `FileOf` writes for some
  texts.  `RetTyped` is the type of what a call returns.  `Walked` says that a
  walk has come as far down the list as the cursor is: `WalkInOrder` alone says
  nothing of the cursor, from which the next step of the walk goes on.
* `FilesRoundTrip` is then `RoundTrips`: the texts of a file whose lines fit the
  buffers are those it was written from, because encoded texts hold no newline
  (`ReadLine`), are then read whole, and decode to themselves; and entering them in the order of the file, oldest first, into
  a history with room for them gives the list again (`LoadsMirrors`).

`LibeditProofs`, of `Editor` (history, bindings of the user, keys, answers,
limits of the argument and sizes of the buffers arbitrary; it uses
`LineEditAssumption`, that the history is lines of characters and EL_BUFSIZ is
more than 2, no more than there is memory for, and leaves `Spare` for an answer,
and `EditorAssumption`, that
what another editor leaves is a line of characters and what was typed before
has a length):

* `EditorInvariant`: the `EditLine` stands between two keys (`Standing`), and
  while a line of the history is shown the one that was left for it is kept.
  `InBounds` alone is not inductive.  The line must leave room for the newline
  that `ed_newline` appends without asking for it, unless it has been appended
  (`OnLine`, `EndedLine`); an argument and the count of the redo
  record must be numbers, and the mark one too or loose; a pending operator must have begun within the line as
  it is now; and the kept line, which a command may bring back, must fit into
  the buffers (`Buffers`, `Awaiting`).
* One lemma for each command says that from an `EditLine` that is `Ready` it
  leaves one that is `Fine`, or goes astray, and what it does about the history:
  nothing, a walk through `hist_get` (`Walks`), or a new start.  `vi_redo` needs
  no lemma of its own, because what it runs is one of these (`RunGoes`).
  They rest on lemmas about `c_insert`, `c_delafter`, `c_delbefore` and
  `cv_delfini`, through which all but a few change the line, and about where the
  loops over words, over counts and over the sizes of the buffers end.  From
  `ProcessedStands`, that a round of the loop keeps `Standing`, follow
  `RetypedStands`, for lines typed before of any length, and `EditorStep`.
* `EditorStaysInBounds` follows at once; `EditorReturnsToTyped` because the only
  commands that leave the history for the typed line do so through `hist_get`
  with what is kept.  It excepts `ed_start_over`, which empties the line and
  forgets that it came from the history.
* The proof showed one place where the model was wrong: `vi_to_column` (`|`)
  with an argument of 0 has `ed_next_char` move by -1 from the beginning of the
  line, before which the code then reads (`common.c`).  It is now one of the
  places where the code goes astray.

`BindingsProofs` (characters, tables, terminals, keys, commands and the number of
calls arbitrary; it uses `TablesAssumption`, that the tables have a command for
each character and the sequences of `terminal_reset_arrow` are two characters
or more, and `BindingsAssumption`, that no key is empty and that nobody binds a
key to `ed-sequence-lead-in` itself, of which the code would make a lead into
nothing; `ArrowsAreSet` alone uses `ArrowsAssumption`, see there):

* `BindingsInvariant`: the `EditLine` keeps its form, its tree is `Rooted` (with
  a node it has those above it), and each binding of the user that stands is
  either a leaf of the tree that its own map leads to, or in its map (`Held`).
  `StandsUntilNamed` speaks only of what a key does, and is not inductive: that
  a key is found says neither that its map will be spared when the other map is
  cleared nor that the node it is found at is a leaf.
* What an operation may disturb is said once for all of them.  `Goes(b, LT, LM,
  e, d)` says that `d` comes of `e`, that its leaves are what the calls since
  `b` have left (`Tracks`), and that of what the maps led to nothing is gone but
  in `LT`, and of what they hold themselves nothing but in `LM` (`Apart`).  It
  is proved of `keymacro_add`, `keymacro_delete`, `keymacro_clear` and a change
  of a map, composed, and by induction carried through the loops of
  `tty_bind_char`, `terminal_reset_arrow`, `terminal_bind_arrow` and
  `map_init_meta` (`Becomes`: the `EditLine` after each round).
  `keymacro_clear` is where it is close: it deletes from the tree both maps
  share, and spares the other map only because it asks whether that leads there.
* `BindingsStand` follows because two leaves of which one begins the other are
  the same, so that a key that is a leaf is the only one that `node_trav` meets.
* `TreeHoldsTheKeys`: `Spec => TreeIsTheKeys`, each step is one step of
  `KeyBindings` or a stutter.  `node__try` leaves as leaves those that do not
  clash with the key, and the key; `node__delete` those that do not begin with
  it, for a node above it that would become a leaf goes too.
* `ArrowsAreSet`: `Spec => ArrowsAfterSwitch`.  `IsSet` says of an arrow key that
  its sequence is a leaf that does what it is set to and that the map of the
  arrow keys leads to it.  `map_init_meta` has escape lead into the tree
  (`EditorMaps`), `tty_bind_char` leaves it so (`CharsKeepLead`), and by
  induction over the loops the first of `terminal_reset_arrow` sets one key
  after the other, the second one and that of `terminal_bind_arrow` take none
  away (`SetUpTo`, `BecomesSet`).  Of the tables `ArrowsAssumption` says what
  those of `map.c` and `terminal.c` have: escape is their one Meta key, and the
  sequences of `terminal_reset_arrow` are an escape, something else and more,
  none of which begins another.  It excludes two settings of the user's, for
  which the property is false: a terminal that sends for one key what begins
  the sequence of another, or the reverse, and escape as one of the terminal's
  characters.

Induction.  The library's induction theorems take an
operator as a parameter and cannot be used here, but its theorems about
well-founded relations speak of sets: `LeastNumber` (a set of numbers has a
least one) gives `Induction` over the set of the numbers that have a property,
and `Recursion`, that a recursive function over an initial segment of the
numbers exists.  By these what a loop computes is proved for texts of every
length.

Only model-checked: `AlwaysReports` (liveness is out of the prover's reach);
and `UndoHoldsLine`, `DeletedIsKept` and `RedoIsRetyping` of `Editor`.  The first
two of these are promises of vi's own commands, and not of every binding: a user
who binds an emacs command in vi's command mode has changes that save nothing
for undo.  `RedoIsRetyping` compares two runs of the loop over a redo record, of
which it would have to be known that it is what the last change left.
The types of `PerformQuery`, `ResultSet` and `Client` are
proved and not checked again by a run.

## 5. Findings

`perform-query.c:682-708`: the state stays `SQS_BOOLEAN` after `</boolean>`.
Text of `<sparql>` behind it is appended to the value, and `</sparql>` goes
through the boolean check once more, whose message speaks of text "within
`<boolean>`": an indented ASK result is rejected (`BooleanCheckIsForBoolean`).

Seen while modelling.  These are steps of the models where they change state,
and entries of the list of hazards where they bite; no property calls them
wrong, for no run says what should happen instead.

The library:

* `perform-query.c:511`: `query->bound` is never set, so a binding with several
  values delivers them all, their texts run together.
* `perform-query.c:271`, `311`, `resultset.c:441`: NULL is read for a response
  without a Content-Type, an element in no namespace, and an empty literal or
  blank node.
* `resultset.c:441`: the width of a literal with a datatype is reckoned two too
  small, and that of any value as if nothing in it were escaped; `resultset.c:495-503`: `sparqlrow_value` returns 0 where its comment
  says -1; `resultset.c:243` lets through the index behind the last variable.
* `query-model.c:242`: a graph node that librdf did not make sends the row to
  the default graph.
* `query.c` and the request of a query without a base take the length of NULL
  (`QueryCrashes` in `Client`).
* `datastore-post.c:59`: the length given to libcurl is that of the buffer, not
  of what was written to it.
* `vasprintf.c:206-214`: `print_it` makes room for the width, the precision and a
  margin of 1024, and lets `vsprintf` write what it likes.  A large long double
  (`%Lf`, `vasprintf.c:535`) has up to 4933 digits: it is written over the byte
  at the end and behind the buffer before the assertion finds it.
* `vasprintf.c:277`: `print_node` ignores that there was no memory, and
  formatting goes on with a buffer that was not enlarged.  A width of `*` and
  an incoherent directive are passed over.

The shell:

* `isparql.c:445`: a line that ends one statement and begins another (`A; B`)
  leaves a NUL in the buffer that is kept.  The first statement is not
  executed, and later lines are parsed only up to that NUL (`CutOff`).
* `isparql.c:663`, `682`, `689`: `exec_queries` returns after a successful
  update, a boolean or a result without columns, and drops the statements
  behind it on the line.

libedit:

* History: `H_APPEND` (`history.c:969`) appends to the entry last entered where
  the manual page (`editline.3.roff:704`) has it append to the last; "Always
  keep at least one entry" does not hold with a size of 0; `H_SETSIZE` drops
  nothing until the next entry; the bundled `fgetln` (`fgetln.c:61-89`) leaves the
  NUL of its first reading at `BUFSIZ - 1` of a longer line, where the text that is
  loaded then ends; `H_SAVE` truncates the file before it writes
  and ignores errors of writing; `H_LOAD` has no room for the NUL of a text that
  fills its buffer (`history.c:765`), and takes a line for which `fgetln` has no
  memory for the end of the file.
* Editor: `$` on an empty line in vi mode puts the cursor before the line, and so
  does `|` with an argument of 0 at its beginning; a backspace in the answer to a
  prompt, repeated, goes before the buffer (`chared.c:678`); `b` and `B` with a
  count look at the character before the line (`chared.c:314`); when memory fails
  for the cut buffer the mark stays behind in a buffer that was given back
  (`chared.c:541`); `D`
  saves nothing for undo; vi's searches move into the history without keeping
  the typed line.
* Bindings: `bind -r -k` and then a change of editor aborts the program;
  `bind -k` without a command stores part of a NULL pointer (`map.c:1371`),
  `bind -s -k` a pointer to a buffer on the stack (`map.c:1357`); `bind -r` of a
  key that begins others can leave an empty tree behind a character that leads
  to it, and the next such key crashes.
* Settings and signals: a signal between the call that makes the terminal raw
  and the assignment that remembers it (`tty.c:1084`) stops the program with a
  raw terminal; so does one that resumes it between `tty_cookedmode` and
  `sig_clr` (`read.c:467`).  Two changes of the settings are lost because
  `tty_rawmode` does not notice them: one that the user makes while the program
  is stopped with a cooked terminal that `t_mode` says is raw, and a character
  set back to the one that `t_c` still holds after a `setty`.  With `EDIT_DISABLED`, `el_gets` leaves the
  handlers set (`read.c:570`).  `edit on` in `.editrc` leaves the terminal raw.
  The handler of SIGWINCH frees the display's buffers, which `re_refresh` may
  be using.

## 6. Not modelled

Left out of what is modelled:

* All: logging, messages, wording, and accessors that only read.
* `Client`: how one URI is derived from another; `Format`: `maxlen`, which is
  `INT_MAX`; failures of `vsprintf`; the modifier `l` of `%s`, with which the C
  library takes its argument for wide characters.
* `Shell`: the printed tables.
* `Vis`: the HTTP and MIME styles, and the flags that `history.c` does not
  give.  `History`: failing allocations, where they change nothing; a
  line of the file that is lost because `fprintf` fails unseen.
* Editor: incremental search, and commands that only redraw; reading without a
  terminal, unbuffered, or with editing disabled; the limit on nested macros;
  aliases.  The byte behind the line is taken to be NUL, the newest entry's
  number to be the number of entries, and the maps are those before the
  terminal's own characters are bound to them.
* `Bindings`: listing and parsing of bindings, and the truncation of their
  names; failing allocations; added functions.  Where several characters are
  bound to em-meta-next, the code takes the first and the model one of them.
* `Tty`: speeds and tabs, the printing of settings, `setty -q`; HUP, QUIT and
  TERM, which are handled as INT is.  Signals are taken to be handled
  (EL_SIGNAL), and reading to be buffered and from a terminal.

Components without a module:

* display (`refresh.c`, `prompt.c`, most of `terminal.c`): what the screen
  shows of the line, with no effect on the line that is returned.
* readline emulation and completion (`readline.c`, `filecomplete.c`): not
  called by the shell; a layer of other names over what is modelled.
* tokenizer and parser (`tokenizer.c`, `parse.c`): lines of `.editrc` into
  words.  (A line that ends in a lone backslash makes `tok_line` read behind
  it.)
* character types, wide interface, replacements for functions of the C library.
* `sparql-query.c` and `libsparqlclient-config.c`: straight-line programs.
* `t/`: scripts that start and stop a server.

What could be done next: the readline emulation as a client of `History` and
`Editor`.
