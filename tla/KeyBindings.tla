------------------------------ MODULE KeyBindings ------------------------------
(***************************************************************************)
(* What keymacro.c promises to the rest of libedit: a map from sequences   *)
(* of characters to values in which, as the comment at its head says, no   *)
(* key is the beginning of another.  Adding a key takes away whatever      *)
(* stands in its way, deleting one takes the longer ones with it.          *)
(***************************************************************************)
EXTENDS Naturals, SequencesExt

VARIABLES
  bound,  \* function from the keys to what they are bound to
  calls   \* the calls the last operation made, in order: [op, key, val]

Add(b, s, v) ==
  LET others == {t \in DOMAIN b : ~IsPrefix(s, t) /\ ~IsPrefix(t, s)}
  IN  [t \in others \cup {s} |-> IF t = s THEN v ELSE b[t]]

Delete(b, s) == [t \in {t \in DOMAIN b : ~IsPrefix(s, t)} |-> b[t]]

Called(b, c) ==
  CASE c.op = "add"    -> Add(b, c.key, c.val)
    [] c.op = "delete" -> Delete(b, c.key)
    [] c.op = "reset"  -> <<>>

After(cs, b) ==
  LET f[i \in 0..Len(cs)] == IF i = 0 THEN b ELSE Called(f[i - 1], cs[i])
  IN  f[Len(cs)]

Init == bound = After(calls, <<>>)
Next == bound' = After(calls', bound)
Spec == Init /\ [][Next]_<<bound, calls>>
===============================================================================
