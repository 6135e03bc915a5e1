-------------------------------- MODULE Shell --------------------------------
(***************************************************************************)
(* isparql.c: the interactive shell.  parse_query cuts what is typed into  *)
(* statements and commands, keeping an unfinished statement from line to   *)
(* line; exec_queries works off the queue of them.  Text is a sequence of  *)
(* tokens: words, blanks, and the characters and escapes parse_query looks *)
(* at; cmd_q is backslash q, and esc_g backslash g.                        *)
(***************************************************************************)
EXTENDS Integers, Sequences, SequencesExt

CONSTANTS
  Tokens,    \* what can be typed, but for the end of the line
  NULL,
  MaxTyped   \* bound: tokens typed in all

VARIABLES
  pc,        \* "prompt", "exec" or "exited"
  buffer,    \* query_buf up to query_len
  mode,      \* query_state
  queue,     \* pqueries, less those already done
  conn,      \* sparql_conn: NULL, or its number and whether it is verbose
  verbose,   \* verbose_mode
  made,      \* history: how many connections were made
  closed,    \* history: those that were destroyed
  typed,     \* history: all that was typed
  log        \* history: every statement taken, with what became of it

reading == <<buffer, mode, typed>>
session == <<conn, verbose, made, closed>>
vars    == <<pc, queue, log, reading, session>>

-----------------------------------------------------------------------------
(* Tokens. *)

Blanks      == {" ", "\n"}
Terminators == {";", "esc_g", "esc_G"}
Commands    == {"cmd_q", "cmd_c", "cmd_v", "cmd_x"}   \* the last is any other
Quotes      == {"quote", "dquote"}
Openers     == Quotes \cup {"backtick", "{", "["}
Closer      == [o \in Openers |-> CASE o = "{" -> "}" [] o = "[" -> "]" [] OTHER -> o]

ASSUME TokensAssumption ==
  /\ Tokens \cap {"\n", "NUL"} = {}
  /\ MaxTyped \in Nat

\* NULL is no connection.
ASSUME NullAssumption == NULL \notin [number : Nat, verbose : BOOLEAN]

-----------------------------------------------------------------------------
(* parse_query, a token at a time.  scan.text is what stands from qs on,   *)
(* and scan.kept what the buffer is left with.                             *)

Skip(scan, t)  == [scan EXCEPT !.kept = Append(@, t)]
Take(scan, t)  == [Skip(scan, t) EXCEPT !.text = Append(@, t)]
Start(scan, t) == [Skip(scan, t) EXCEPT !.text = <<t>>]

Begin(scan, t) ==
  CASE t \in Blanks \cup Terminators -> Skip(scan, t)
    [] t \in Quotes   -> [Start(scan, t) EXCEPT !.mode = t]
    [] t \in Commands -> [Start(scan, t) EXCEPT !.mode = "command"]
    [] OTHER          -> [Start(scan, t) EXCEPT !.mode = "query"]

\* A NUL is put where the terminator was.
Terminate(scan) ==
  [Skip(scan, "NUL") EXCEPT !.queue = Append(@, scan.text), !.mode = "none"]

Continue(scan, t) ==
  IF t \in Terminators THEN Terminate(scan)
  ELSE IF t \in Openers THEN [Take(scan, t) EXCEPT !.mode = t]
  ELSE Take(scan, t)

\* Mutant: a terminator ends the statement within quotes as well.
QuotedTerminates(scan, t) ==
  IF t \in Terminators THEN Terminate(scan)
  ELSE IF t = Closer[scan.mode] THEN [Take(scan, t) EXCEPT !.mode = "query"]
  ELSE Take(scan, t)

\* There is no nesting: what closes a bracket is the first bracket that could.
Quoted(scan, t) ==
  IF t = Closer[scan.mode] THEN [Take(scan, t) EXCEPT !.mode = "query"]
  ELSE Take(scan, t)

Scan(scan, t) ==
  CASE scan.mode = "none"     -> Begin(scan, t)
    [] scan.mode = "query"    -> Continue(scan, t)
    [] scan.mode = "command"  -> Take(scan, t)
    [] scan.mode \in Openers  -> Quoted(scan, t)

\* The loop stops at the first NUL.
Visible(text) ==
  LET nuls == {i \in DOMAIN text : text[i] = "NUL"}
  IN  IF nuls = {} THEN Len(text) ELSE Min(nuls) - 1

\* A command is trimmed of the blanks at its end.
Trim(text) ==
  SubSeq(text, 1, Max({1} \cup {i \in DOMAIN text : text[i] \notin Blanks}))

\* Where the loop stands after each token of a text.
Scans(text) ==
  LET scan[k \in 0..Len(text)] ==
        IF k = 0 THEN [mode |-> "none", text |-> <<>>, kept |-> <<>>, queue |-> <<>>]
        ELSE Scan(scan[k - 1], text[k])
  IN  scan

\* What a line makes of the buffer, the state and the queue.
ParseOf(line) ==
  LET text == buffer \o line
      n    == Visible(text)
      scan == Scans(text)[n]
      rest == SubSeq(text, n + 1, Len(text))
  IN  CASE scan.mode = "none" ->
             [mode |-> "none", buffer |-> <<>>, queue |-> scan.queue]
        [] scan.mode = "command" ->
             [mode |-> "none", buffer |-> <<>>,
              queue |-> Append(scan.queue, Trim(scan.text))]
        [] OTHER ->
             [mode |-> scan.mode, buffer |-> scan.kept \o rest, queue |-> scan.queue]

\* main: a line is read and parsed; its queue is executed if nothing is open,
\* and is otherwise replaced when the next line is parsed.
Read(line) ==
  LET parse == ParseOf(line)
  IN  /\ pc = "prompt"
      /\ buffer' = parse.buffer
      /\ mode' = parse.mode
      /\ queue' = parse.queue
      /\ pc' = IF parse.mode = "none" THEN "exec" ELSE "prompt"
      /\ typed' = typed \o line
      /\ UNCHANGED <<log, session>>

EndOfInput ==
  /\ pc = "prompt"
  /\ pc' = "exited"
  /\ UNCHANGED <<queue, log, reading, session>>

-----------------------------------------------------------------------------
(* exec_queries. *)

Entry(text, fate) == [text |-> text, fate |-> fate]

\* The statement at the head of the queue is done, and the loop goes on.
Goes(fate) ==
  /\ queue' = Tail(queue)
  /\ log' = Append(log, Entry(Head(queue), fate))
  /\ UNCHANGED pc

\* It is done, and exec_queries returns: what is left of the queue is dropped.
Returns(fate) ==
  /\ queue' = <<>>
  /\ log' = Append(log, Entry(Head(queue), fate))
              \o [i \in 1..Len(queue) - 1 |-> Entry(queue[i + 1], "dropped")]
  /\ pc' = "prompt"

Executing == pc = "exec" /\ queue # <<>>

Done ==
  /\ pc = "exec"
  /\ queue = <<>>
  /\ pc' = "prompt"
  /\ UNCHANGED <<queue, log, reading, session>>

IsCommand(c) == Executing /\ Head(queue)[1] = c

Quit ==
  /\ IsCommand("cmd_q")
  /\ log' = Append(log, Entry(Head(queue), "done"))
  /\ pc' = "exited"
  /\ UNCHANGED <<queue, reading, session>>

HasArgument(text) == \E i \in 2..Len(text) : text[i] \notin Blanks

\* Mutant: the connection replaced is not destroyed.
ConnectLeaks ==
  /\ IsCommand("cmd_c") /\ HasArgument(Head(queue))
  /\ made' = made + 1
  /\ conn' = [number |-> made + 1, verbose |-> verbose]
  /\ Goes("done")
  /\ UNCHANGED <<closed, verbose, reading>>

Connect ==
  /\ IsCommand("cmd_c") /\ HasArgument(Head(queue))
  /\ made' = made + 1
  /\ conn' = [number |-> made + 1, verbose |-> verbose]
  /\ closed' = IF conn = NULL THEN closed ELSE closed \cup {conn.number}
  /\ Goes("done")
  /\ UNCHANGED <<verbose, reading>>

\* There is no URI, or sparql_create fails: the old connection stays.
ConnectFails ==
  /\ IsCommand("cmd_c")
  /\ Goes("failed")
  /\ UNCHANGED <<reading, session>>

ToggleVerbose ==
  /\ IsCommand("cmd_v")
  /\ verbose' = ~verbose
  /\ conn' = IF conn = NULL THEN NULL ELSE [conn EXCEPT !.verbose = verbose']
  /\ Goes("done")
  /\ UNCHANGED <<made, closed, reading>>

UnknownCommand ==
  /\ IsCommand("cmd_x")
  /\ Goes("failed")
  /\ UNCHANGED <<reading, session>>

IsStatement == Executing /\ Head(queue)[1] \notin Commands

NotConnected ==
  /\ IsStatement /\ conn = NULL
  /\ Goes("refused")
  /\ UNCHANGED <<reading, session>>

\* query_is_update: the first word, up to a blank, is the name of an update.
IsUpdate(text) ==
  text[1] = "INSERT" /\ \A i \in DOMAIN text : i = 2 => text[i] \in Blanks

Update(ok) ==
  /\ IsStatement /\ conn # NULL /\ IsUpdate(Head(queue))
  /\ Returns(IF ok THEN "updated" ELSE "failed")
  /\ UNCHANGED <<reading, session>>

IsQuery == IsStatement /\ conn # NULL /\ ~IsUpdate(Head(queue))

QueryFails ==
  /\ IsQuery
  /\ Returns("failed")
  /\ UNCHANGED <<reading, session>>

\* A boolean, or a result of no columns.
QueryWithoutRows(fate) ==
  /\ IsQuery
  /\ Returns(fate)
  /\ UNCHANGED <<reading, session>>

QueryWithRows ==
  /\ IsQuery
  /\ Goes("rows")
  /\ UNCHANGED <<reading, session>>

-----------------------------------------------------------------------------
\* main up to its loop: with a URI on the command line, it has connected.
Init ==
  /\ pc = "prompt"
  /\ buffer = <<>>
  /\ mode = "none"
  /\ queue = <<>>
  /\ verbose = FALSE
  /\ \/ conn = NULL /\ made = 0
     \/ conn = [number |-> 1, verbose |-> FALSE] /\ made = 1
  /\ closed = {}
  /\ typed = <<>>
  /\ log = <<>>

Lines == UNION {[1..n -> Tokens] : n \in 0..MaxTyped - Len(typed) - 1}

Next ==
  \/ Len(typed) < MaxTyped /\ \E body \in Lines : Read(Append(body, "\n"))
  \/ EndOfInput \/ Done
  \/ Quit \/ Connect \/ ConnectFails \/ ToggleVerbose \/ UnknownCommand
  \/ NotConnected
  \/ \E ok \in BOOLEAN : Update(ok)
  \/ QueryFails \/ QueryWithRows
  \/ \E fate \in {"boolean", "completed"} : QueryWithoutRows(fate)

Spec == Init /\ [][Next]_vars

-----------------------------------------------------------------------------
(* A text, as its reader sees it: cut without regard to lines.            *)

\* In the text from i to k the token at j opens a bracket or a quote; but a bracket
\* that the statement begins with does not.
Opens(u, i, j) == u[j] \in Openers /\ (j > i \/ u[j] \in Quotes)

\* From an opener to the first of its closers after it.
Span(u, i, j, c) ==
  /\ Opens(u, i, j)
  /\ j < c /\ u[c] = Closer[u[j]]
  /\ \A d \in j + 1..c - 1 : u[d] # u[c]

Apart(s, t)   == s = t \/ s[2] < t[1] \/ t[2] < s[1]
Within(j, s)  == s[1] <= j /\ j <= s[2]
Spans(u, i, k) == {s \in (i..k) \X (i..k) : Span(u, i, s[1], s[2])}

\* The text from i to k has no bracket or quote open: the openers in it are all
\* within spans that do not meet.
Balanced(u, i, k) ==
  \E chosen \in SUBSET Spans(u, i, k) :
    /\ \A s, t \in chosen : Apart(s, t)
    /\ \A j \in i..k : Opens(u, i, j) => \E s \in chosen : Within(j, s)

\* Where the statement or command that begins at i is over: at the end of the
\* line, at the first terminator that stands outside quotes, or nowhere yet.
Ends(u, i, k) ==
  IF u[i] \in Commands THEN u[k] = "\n" ELSE u[k] \in Terminators /\ Balanced(u, i, k - 1)

Over(u, i) == Min({k \in i + 1..Len(u) : Ends(u, i, k)} \cup {Len(u) + 1})

Statement(u, i) ==
  LET text == SubSeq(u, i, Over(u, i) - 1)
  IN  IF u[i] \in Commands THEN Trim(text) ELSE text

\* After each token: where the last statement begun is over, and those that are.
Cuts(u) ==
  LET cut[n \in 0..Len(u)] ==
        IF n = 0 THEN [over |-> 0, texts |-> <<>>]
        ELSE LET before == cut[n - 1]
             IN  IF n <= before.over \/ u[n] \in Blanks \cup Terminators THEN before
                 ELSE [over  |-> Over(u, n),
                       texts |-> IF Over(u, n) > Len(u) THEN before.texts
                                 ELSE Append(before.texts, Statement(u, n))]
  IN  cut

Statements(u) == Cuts(u)[Len(u)].texts

-----------------------------------------------------------------------------
(* Properties. *)

Taken == [i \in DOMAIN log |-> log[i].text]

\* A line that ends a statement and leaves the next one open has put a NUL
\* into the buffer that is kept.
CutOff == mode # "none" /\ "NUL" \in ToSet(buffer)

\* At the prompt, what has been taken is what was typed: each statement whole,
\* once and in the order typed, wherever its lines were broken and whatever
\* terminators are quoted in it - unless the buffer was cut off (parse_query).
TakenAsTyped == pc = "prompt" /\ ~CutOff => Taken = Statements(typed)

\* Of all connections made the last one is used and it alone is not destroyed,
\* and it is as verbose as the shell, whatever order \c, \v and failures of \c
\* come in (exec_builtin).
OneConnection ==
  /\ closed = 1..made \ (IF conn = NULL THEN {} ELSE {conn.number})
  /\ conn # NULL => conn.number = made /\ conn.verbose = verbose
==============================================================================
