------------------------------ MODULE RowCursor ------------------------------
(***************************************************************************)
(* What the reader of a result set is promised: sparqlres_next hands out   *)
(* its rows one by one, from the first to the last, then NULL for as long  *)
(* as it is asked, and sparqlres_reset starts over; the result of an ASK   *)
(* query has no rows to hand out.                                          *)
(***************************************************************************)
EXTENDS Naturals

VARIABLES
  answer,   \* the result set is a boolean
  count,    \* rows in the result set
  served,   \* rows handed out since the last reset
  fetched   \* the row the last call of sparqlres_next gave, 0 for NULL

cursorVars == <<answer, count, served, fetched>>

Init == answer = FALSE /\ count = 0 /\ served = 0 /\ fetched = 0

\* The result set is filled before the reader has it.
Fill ==
  /\ served = 0 /\ fetched = 0
  /\ \/ count' = count + 1 /\ UNCHANGED answer
     \/ answer' = TRUE /\ UNCHANGED count
  /\ UNCHANGED <<served, fetched>>

FetchRow ==
  /\ ~answer
  /\ served < count
  /\ served' = served + 1
  /\ fetched' = served + 1
  /\ UNCHANGED <<answer, count>>

FetchNothing ==
  /\ answer \/ served = count
  /\ fetched' = 0
  /\ UNCHANGED <<answer, count, served>>

Rewind ==
  /\ ~answer
  /\ served' = 0
  /\ UNCHANGED <<answer, count, fetched>>

Next == Fill \/ FetchRow \/ FetchNothing \/ Rewind

Spec == Init /\ [][Next]_cursorVars
==============================================================================
