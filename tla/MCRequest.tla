------------------------------ MODULE MCRequest ------------------------------
(* Request for TLC; its bounds are here and in Request.cfg. *)
EXTENDS Request, SequencesExt

CONSTANTS a, b, Own, MaxPieces

\* Widths and precisions below, at and above what a piece is long by itself.
Few == {None, 0, 5}

Printable ==
  {[kind |-> "usual", text |-> <<b, a>>],
   [kind |-> "percent"], [kind |-> "incoherent"],
   [kind |-> "store", to |-> "int"], [kind |-> "store", to |-> Null],
   [kind |-> "string", width |-> None, prec |-> None, text |-> Null],
   [kind |-> "node", text |-> <<a, b, a, b>>]} \cup
  [kind : {"number"}, width : Few, prec : Few, own : Own] \cup
  [kind : {"nul"}, width : {None, 5}, prec : {None}, left : BOOLEAN] \cup
  [kind : {"string"}, width : Few, prec : {None, 1}, text : {<<a, b, b>>}]

MCFormats == SeqOf(Printable, MaxPieces)
Texts     == SeqOf({a, b}, 4)
Uris      == {<<a>>, <<a, b>>, <<b, b>>}
==============================================================================
