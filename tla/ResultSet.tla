------------------------------ MODULE ResultSet ------------------------------
(***************************************************************************)
(* resultset.c: a SPARQLRES, its growing arrays of variables, rows and     *)
(* column widths, and its cursor.  query.c fills it while a response is    *)
(* parsed ("filling"); then the caller of sparql_query has it ("reading")  *)
(* until sparqlres_destroy ("gone").                                       *)
(*                                                                         *)
(* A string is a sequence: of its characters, or of any pieces of them.    *)
(* The empty sequence is the NULL pointer: perform-query.c hands NULL on   *)
(* as the text of an element that has none.  C indices are one less than   *)
(* the indices here; current, which the code compares, is the C value.     *)
(* Every allocation may fail, and so may each node librdf is asked for.    *)
(***************************************************************************)
EXTENDS Integers, Sequences

CONSTANTS
  Names,         \* names of variables
  NULL,          \* no node, no string, no array
  Nodes,         \* the RDF nodes a binding can have
  VarBlock,      \* entries added to variables at a time, 4 in the code
  RowBlock,      \* entries added to rows at a time, 8 in the code
  MaxVariables,  \* bound on variables
  MaxRows,       \* bound on rows
  MaxLinks,      \* bound on links
  MaxFetches     \* bound on current

Kinds == {"uri", "bnode", "literal"}

ASSUME BlockAssumption == VarBlock \in Nat \ {0} /\ RowBlock \in Nat \ {0}

ASSUME NullAssumption == NULL \notin Seq(Nat)

ASSUME NodeAssumption ==
  \A nd \in Nodes :
    /\ nd # NULL
    /\ nd.kind \in Kinds
    /\ Len(nd.text) \in Nat
    /\ nd.language # NULL => Len(nd.language) \in Nat
    /\ nd.datatype # NULL => Len(nd.datatype) \in Nat

VARIABLES
  phase,      \* "filling", "reading", "gone", or "crashed"
  boolean,    \* -1 unless the result is a boolean
  variables,  \* the names, varcount of them
  varsize,    \* entries allocated for variables
  widths,     \* NULL, or the width of each column
  rows,       \* the rows, rowcount of them, each a sequence of cells
  rowsize,    \* entries allocated for rows
  linkcount,  \* links recorded
  current,    \* the cursor
  reset,      \* the next fetch starts over
  ret,        \* what the last call returned
  fetched     \* history: the row the last sparqlres_next gave, 0 for NULL

arrays == <<boolean, variables, varsize, widths, rows, rowsize, linkcount>>
cursor == <<current, reset, fetched>>
vars   == <<phase, arrays, cursor, ret>>

-----------------------------------------------------------------------------
\* sparqlres_create_.
Init ==
  /\ phase = "filling"
  /\ boolean = -1
  /\ variables = <<>> /\ varsize = 0
  /\ widths = NULL
  /\ rows = <<>> /\ rowsize = 0
  /\ linkcount = 0
  /\ current = 0 /\ reset = TRUE /\ fetched = 0
  /\ ret = "ok"

Filling == phase = "filling"
Reading == phase = "reading"

\* Mutant: the array is enlarged one addition too late.
FullLate(count, size) == count > size

\* Whether an array with room for size entries is enlarged before one is
\* added to its count entries, and what its size is then.
Full(count, size) == count + 1 >= size

Grown(count, size, block) == IF Full(count, size) THEN size + block ELSE size

-----------------------------------------------------------------------------
(* Filling. *)

\* sparqlres_set_boolean_.
SetBoolean(v) ==
  /\ Filling
  /\ boolean' = v
  /\ ret' = "ok"
  /\ UNCHANGED <<phase, variables, varsize, widths, rows, rowsize, linkcount, cursor>>

\* Mutant: the result set may have rows already.
AddVariableLate(n) ==
  /\ Filling
  /\ Len(variables) < MaxVariables
  /\ varsize' = Grown(Len(variables), varsize, VarBlock)
  /\ variables' = Append(variables, n)
  /\ ret' = "ok"
  /\ UNCHANGED <<phase, boolean, widths, rows, rowsize, linkcount, cursor>>

\* sparqlres_add_variable_.
AddVariable(n) ==
  /\ Filling
  /\ rows = <<>>
  /\ Len(variables) < MaxVariables
  /\ varsize' = Grown(Len(variables), varsize, VarBlock)
  /\ variables' = Append(variables, n)
  /\ ret' = "ok"
  /\ UNCHANGED <<phase, boolean, widths, rows, rowsize, linkcount, cursor>>

\* It fails when there are rows; when the array cannot be enlarged; and when
\* the name cannot be copied, after the array may have been enlarged.
AddVariableFails ==
  /\ Filling
  /\ varsize' \in IF rows # <<>> THEN {varsize}
                  ELSE {varsize, Grown(Len(variables), varsize, VarBlock)}
  /\ ret' = "fail"
  /\ UNCHANGED <<phase, boolean, variables, widths, rows, rowsize, linkcount, cursor>>

\* sparqlres_add_link_: the array is enlarged each time.
AddLink ==
  /\ Filling
  /\ linkcount < MaxLinks
  /\ linkcount' = linkcount + 1
  /\ ret' = "ok"
  /\ UNCHANGED <<phase, boolean, variables, varsize, widths, rows, rowsize, cursor>>

AddLinkFails ==
  /\ Filling
  /\ ret' = "fail"
  /\ UNCHANGED <<phase, arrays, cursor>>

EmptyRow == [i \in 1..Len(variables) |-> NULL]

\* sparqlrow_create_.
CreateRow ==
  /\ Filling
  /\ Len(rows) < MaxRows
  /\ rowsize' = Grown(Len(rows), rowsize, RowBlock)
  /\ rows' = Append(rows, EmptyRow)
  /\ ret' = "row"
  /\ UNCHANGED <<phase, boolean, variables, varsize, widths, linkcount, cursor>>

\* Mutant: the row without cells is not taken back.
CreateRowFailsKeepsRow ==
  /\ Filling
  /\ Len(rows) < MaxRows
  /\ variables # <<>>
  /\ rowsize' = Grown(Len(rows), rowsize, RowBlock)
  /\ rows' = Append(rows, EmptyRow)
  /\ ret' = "null"
  /\ UNCHANGED <<phase, boolean, variables, varsize, widths, linkcount, cursor>>

\* It fails when the array cannot be enlarged, and when there is no memory
\* for the cells; then the row is taken back but the array stays enlarged.
CreateRowFails ==
  /\ Filling
  /\ \/ Full(Len(rows), rowsize) /\ UNCHANGED rowsize
     \/ variables # <<>> /\ rowsize' = Grown(Len(rows), rowsize, RowBlock)
  /\ ret' = "null"
  /\ UNCHANGED <<phase, boolean, variables, varsize, widths, rows, linkcount, cursor>>

\* sparqlres_variable_index: the first variable of that name.
FirstIndex(n, i) ==
  /\ i \in 1..Len(variables)
  /\ variables[i] = n
  /\ \A j \in 1..i - 1 : variables[j] # n

\* The room sparqlrow_set_uri_, _bnode_ and _literal_ reckon for a node.
NodeWidth(nd) ==
  CASE nd.kind = "uri"     -> Len(nd.text) + 2
    [] nd.kind = "bnode"   -> Len(nd.text) + 3
    [] nd.kind = "literal" ->
         Len(nd.text) + 2
         + (IF nd.language = NULL THEN 0 ELSE Len(nd.language) + 1)
         + (IF nd.datatype = NULL THEN 0 ELSE Len(nd.datatype) + 2)

\* The widths, allocated by the first sparqlrow_set_node_.
Widths == IF widths = NULL THEN [i \in 1..Len(variables) |-> 0] ELSE widths

\* Mutant: the width is that of the last value.
WiderLast(w, i, l) == [w EXCEPT ![i] = l]

Wider(w, i, l) == IF w[i] < l THEN [w EXCEPT ![i] = l] ELSE w

\* sparqlrow_set_uri_, _bnode_ and _literal_: the cell gets the node, in the
\* place of the one it may have, and the column is widened.
Bind(r, n, nd, i) ==
  /\ Filling
  /\ r \in DOMAIN rows
  /\ FirstIndex(n, i)
  /\ nd.text # <<>>
  /\ rows' = [rows EXCEPT ![r][i] = nd]
  /\ widths' = Wider(Widths, i, NodeWidth(nd))
  /\ ret' = "ok"
  /\ UNCHANGED <<phase, boolean, variables, varsize, rowsize, linkcount, cursor>>

\* They fail without a world, such a variable or a node (no URI node is made
\* of NULL), or memory for the widths.
BindFails ==
  /\ Filling
  /\ rows # <<>>
  /\ ret' = "fail"
  /\ UNCHANGED <<phase, arrays, cursor>>

\* librdf makes a blank node or a literal of NULL, and then strlen() of NULL.
BindCrashes(n, nd, i) ==
  /\ Filling
  /\ rows # <<>>
  /\ FirstIndex(n, i)
  /\ nd.text = <<>>
  /\ nd.kind # "uri"
  /\ phase' = "crashed"
  /\ UNCHANGED <<arrays, cursor, ret>>

\* sparql_query returns the result set.
Deliver ==
  /\ Filling
  /\ phase' = "reading"
  /\ UNCHANGED <<arrays, cursor, ret>>

-----------------------------------------------------------------------------
(* Reading. *)

\* Mutant: the cursor moves on from the first row at once.
PositionAlwaysNext == current + 1

\* sparqlres_next.
Position == IF reset THEN 0 ELSE current + 1

Fetch ==
  /\ Reading
  /\ boolean = -1
  /\ Position <= MaxFetches
  /\ current' = Position
  /\ reset' = FALSE
  /\ IF Position < Len(rows)
       THEN fetched' = Position + 1 /\ ret' = "row"
       ELSE fetched' = 0 /\ ret' = "null"
  /\ UNCHANGED <<phase, arrays>>

FetchBoolean ==
  /\ Reading
  /\ boolean # -1
  /\ fetched' = 0
  /\ ret' = "null"
  /\ UNCHANGED <<phase, arrays, current, reset>>

\* sparqlres_reset.
Reset ==
  /\ Reading
  /\ boolean = -1
  /\ reset' = TRUE
  /\ ret' = "ok"
  /\ UNCHANGED <<phase, arrays, current, fetched>>

ResetBoolean ==
  /\ Reading
  /\ boolean # -1
  /\ ret' = "fail"
  /\ UNCHANGED <<phase, arrays, cursor>>

\* sparqlrow_value of a cell of the row fetched: the size of the value.
Value(i) ==
  /\ Reading
  /\ fetched # 0
  /\ ret' = IF i \in 1..Len(variables) THEN "size" ELSE "fail"
  /\ UNCHANGED <<phase, arrays, cursor>>

\* The cell cannot be serialised: no size when there is no buffer, and
\* strncpy() from NULL when there is one.
ValueFails(i, buffer) ==
  /\ Reading
  /\ fetched # 0
  /\ i \in 1..Len(variables)
  /\ IF buffer THEN phase' = "crashed" /\ UNCHANGED ret
               ELSE ret' = "none" /\ UNCHANGED phase
  /\ UNCHANGED <<arrays, cursor>>

\* sparqlres_destroy, by sparql_query when it fails or by the reader: the
\* memory is given back, and nothing reads it again.
Destroy ==
  /\ Filling \/ Reading
  /\ phase' = "gone"
  /\ ret' = "ok"
  /\ UNCHANGED <<arrays, cursor>>

-----------------------------------------------------------------------------
Fill ==
  \/ \E v \in {0, 1} : SetBoolean(v)
  \/ \E n \in Names : AddVariable(n)
  \/ AddVariableFails
  \/ AddLink \/ AddLinkFails
  \/ CreateRow \/ CreateRowFails
  \/ \E n \in Names, nd \in Nodes, i \in 1..MaxVariables :
       Bind(Len(rows), n, nd, i) \/ BindCrashes(n, nd, i)
  \/ BindFails
  \/ Deliver

Read ==
  \/ Fetch \/ FetchBoolean \/ Reset \/ ResetBoolean
  \/ \E i \in 1..MaxVariables :
       Value(i) \/ \E buffer \in BOOLEAN : ValueFails(i, buffer)

Next == Fill \/ Read \/ Destroy

Spec == Init /\ [][Next]_vars

-----------------------------------------------------------------------------
(* Properties. *)

\* Every variable keeps its type.
TypeOK ==
  /\ phase \in {"filling", "reading", "gone", "crashed"}
  /\ boolean \in {-1, 0, 1}
  /\ variables \in Seq(Names)
  /\ varsize \in Nat
  /\ rows \in Seq(Seq(Nodes \cup {NULL}))
  /\ rowsize \in Nat
  /\ linkcount \in Nat
  /\ current \in Nat
  /\ reset \in BOOLEAN
  /\ ret \in {"ok", "fail", "row", "null", "size", "none"}
  /\ fetched \in Nat

\* The arrays of a column are as long as the list of variables: every row has
\* one cell for each variable and so have the widths, although the variables
\* are counted when a row is made and when the first value is bound, and
\* sparqlres_destroy and the accessors go by today's varcount.
Rectangular ==
  /\ \A r \in DOMAIN rows : Len(rows[r]) = Len(variables)
  /\ widths # NULL =>
       widths \in Seq(Nat) /\ Len(widths) = Len(variables) /\ rows # <<>>

\* Neither array is ever written past what was allocated for it, also after
\* an addition failed half way.
InBounds == Len(variables) <= varsize /\ Len(rows) <= rowsize

\* A call that fails leaves what a reader can see of the result set as it was,
\* whichever of its allocations failed.
FailedCallsChangeNothing ==
  [][ret' \in {"fail", "null", "none"} =>
       UNCHANGED <<boolean, variables, widths, rows, linkcount>>]_vars

\* Rows handed out since the last reset; asking beyond the last row moves
\* current on.
Served ==
  IF reset THEN 0
  ELSE IF current + 1 < Len(rows) THEN current + 1 ELSE Len(rows)

Cursor == INSTANCE RowCursor WITH
  answer <- boolean # -1, count <- Len(rows), served <- Served

\* The cursor is the one RowCursor promises.
RowsInOrder == Cursor!Spec
==============================================================================
