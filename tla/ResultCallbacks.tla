--------------------------- MODULE ResultCallbacks ---------------------------
(***************************************************************************)
(* What a SPARQLQUERY promises the code that sets its callbacks: they come *)
(* nested, as the elements of a SPARQL results document are; none of them  *)
(* is called again once one has failed or the document was rejected; and   *)
(* the query ends with one verdict, which is "complete" only when nothing  *)
(* failed and every begin has had its end.                                 *)
(***************************************************************************)

VARIABLES
  place,    \* where the callbacks are: outside <results>, inside it, in a
            \* row, or in a cell (a binding) of a row
  stopped,  \* a callback failed, or the document or the transfer was rejected
  verdict   \* the last callback: none yet, "complete" or "error"

abstractVars == <<place, stopped, verdict>>

Places == {"outside", "results", "row", "cell"}

Init ==
  /\ place = "outside"
  /\ stopped = FALSE
  /\ verdict = "none"

\* A callback that moves from one place to another; it may fail, and then it
\* is the last one before the verdict.
Move(from, to) ==
  /\ verdict = "none"
  /\ ~stopped
  /\ place = from
  /\ place' = to
  /\ stopped' \in BOOLEAN
  /\ UNCHANGED verdict

BeginResults == Move("outside", "results")
EndResults   == Move("results", "outside")
BeginRow     == Move("results", "row")
EndRow       == Move("row", "results")
BeginCell    == Move("row", "cell")
EndCell      == Move("cell", "row")

\* A value delivered in a cell, a boolean, a variable or a link delivered
\* outside the rows, or anything wrong with the document or the transfer.
Stop ==
  /\ verdict = "none"
  /\ stopped' = TRUE
  /\ UNCHANGED <<place, verdict>>

Complete ==
  /\ verdict = "none"
  /\ ~stopped
  /\ place = "outside"
  /\ verdict' = "complete"
  /\ UNCHANGED <<place, stopped>>

Error ==
  /\ verdict = "none"
  /\ stopped
  /\ verdict' = "error"
  /\ UNCHANGED <<place, stopped>>

Next ==
  \/ BeginResults \/ EndResults \/ BeginRow \/ EndRow \/ BeginCell \/ EndCell
  \/ Stop \/ Complete \/ Error

Spec == Init /\ [][Next]_abstractVars
==============================================================================
