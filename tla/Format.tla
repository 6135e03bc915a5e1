-------------------------------- MODULE Format --------------------------------
(***************************************************************************)
(* vasprintf.c: sparql_vasprintf_, which prints a statement's arguments    *)
(* into a buffer that grows.  A format is the sequence of the pieces that  *)
(* dispatch takes one after the other; a text is a sequence of characters. *)
(* What the C library's vsprintf writes for a number is known by its       *)
(* length only, which may be any: a long double has thousands of digits.   *)
(* maxlen, which is INT_MAX, is never reached.                             *)
(***************************************************************************)
EXTENDS Integers, Sequences

CONSTANTS
  Chunk,      \* ALLOC_CHUNK, 2048 in the code
  Margin,     \* ALLOC_SECURITY_MARGIN, 1024 in the code
  Chars,      \* characters of which texts are made
  Blank,      \* the one that fills up a width, stands for a digit, and so on
  Null

VARIABLES
  pc,       \* "idle", "printing", "printed", "failed" or "astray"; see Request
  format,   \* the format that is printed
  src_string, \* the pieces of it that are left
  live,     \* buffer_base is not NULL
  alloc,    \* buffer_len
  real,     \* real_len; dest_string is as far into the buffer
  pseudo,   \* pseudo_len
  marker,   \* the last byte of the buffer is as realloc_buff left it
  text,     \* what was written
  \* History:
  lost      \* a node was left out because there was no memory for it

buffer    == <<live, alloc, real, pseudo, marker, text, lost>>
printing  == <<format, src_string, buffer>>

None == -1   \* no width, no precision

ASSUME FormatAssumption ==
  /\ Chunk \in Nat /\ Margin \in Nat
  /\ Chunk >= Margin    \* #error  !!! ALLOC_CHUNK < ALLOC_SECURITY_MARGIN !!!
  /\ Margin >= 3
  /\ Blank \in Chars

Larger(a, b)  == IF a < b THEN b ELSE a
Smaller(a, b) == IF a < b THEN a ELSE b
Blanks(n)     == [i \in 1..n |-> Blank]

FieldWidths == {None} \cup Nat

\* What dispatch finds: usual characters, "%%", a conversion that is none, of
\* which all but the % are usual characters, and conversions of a number (int,
\* char, math, pointer) that takes so much beside its width and its precision, of
\* the character NUL, flushed left or not, of a string, of a node, and %n.
Pieces ==
  [kind : {"usual"}, text : Seq(Chars) \ {<<>>}] \cup
  [kind : {"percent", "incoherent"}] \cup
  [kind : {"number"}, width : FieldWidths, prec : FieldWidths, own : Nat] \cup
  [kind : {"nul"}, width : FieldWidths, prec : FieldWidths, left : BOOLEAN] \cup
  [kind : {"string"}, width : FieldWidths, prec : FieldWidths, text : Seq(Chars) \cup {Null}] \cup
  [kind : {"node"}, text : Seq(Chars)] \cup
  [kind : {"store"}, to : {"int", Null}]

-----------------------------------------------------------------------------
(* What a piece is printed as, and what dispatch takes its length for. *)

\* A string of which no more than prec characters are read.
Taken(p) == IF p.prec = None THEN p.text
            ELSE SubSeq(p.text, 1, Smaller(p.prec, Len(p.text)))

\* vsprintf's count for the character NUL.
NulWidth(p) == Larger(p.width, 1)

\* What there is to be read of it: "(null)" stands there without width and
\* precision, and behind a NUL nothing is read.
Printed(p) ==
  CASE p.kind = "usual"   -> p.text
    [] p.kind = "percent" -> <<Blank>>
    [] p.kind = "number"  -> Blanks(Larger(p.width, p.own + Larger(p.prec, 0)))
    [] p.kind = "nul"     -> Blanks(IF p.left THEN 0 ELSE NulWidth(p) - 1)
    [] p.kind = "string"  -> IF p.text = Null THEN Blanks(6)
                             ELSE Blanks(Larger(0, p.width - Len(Taken(p)))) \o Taken(p)
    [] p.kind = "node"    -> p.text
    [] p.kind \in {"incoherent", "store"} -> <<>>

\* The bytes it takes, which is what vsprintf returns.
Counted(p) == IF p.kind = "nul" THEN NulWidth(p) ELSE Len(Printed(p))

\* Mutant: the width of a string is not asked for.
ApproxUnwide(p) ==
  CASE p.kind = "usual"   -> Len(p.text)
    [] p.kind = "percent" -> 1
    [] p.kind \in {"number", "nul"} -> Larger(0, p.width + p.prec)
    [] p.kind = "string"  -> IF p.text = Null THEN 6 ELSE Len(Taken(p))
    [] p.kind = "node"    -> Len(p.text)

\* The len of realloc_buff: approx_width of a number, string_len of a string,
\* which type_s counts up to the precision.
Approx(p) ==
  CASE p.kind = "usual"   -> Len(p.text)
    [] p.kind = "percent" -> 1
    [] p.kind \in {"number", "nul"} -> Larger(0, p.width + p.prec)
    [] p.kind = "string"  -> IF p.text = Null THEN 6 ELSE Larger(Len(Taken(p)), p.width)
    [] p.kind = "node"    -> Len(p.text)

-----------------------------------------------------------------------------
(* The buffer. *)

Scarce(n) == n + Margin + real > alloc

\* realloc_buff of n more bytes.
MakesRoom(n) ==
  IF Scarce(n) THEN alloc' = n + real + Chunk ELSE UNCHANGED alloc

\* It marks the last byte of a buffer that it enlarged; what is then written
\* must end before that byte.
Marks(n, end) == marker' = ((Scarce(n) \/ marker) /\ end < alloc')

\* The piece's text goes to dest_string, vsprintf's with a NUL behind it. The text
\* goes on where it can be read to, and pseudo_len by what was returned.
Writes(p, n, end) ==
  /\ MakesRoom(n)
  /\ Marks(n, end)
  /\ text' = text \o Printed(p)
  /\ real' = real + Len(Printed(p))
  /\ pseudo' = pseudo + Counted(p)
  /\ UNCHANGED <<live, lost>>

Next1 == src_string # <<>> /\ pc = "printing"
Piece == Head(src_string)
Is(kinds) == Next1 /\ Piece.kind \in kinds
End(p) == real + Counted(p)

Moves == src_string' = Tail(src_string) /\ UNCHANGED <<pc, format>>

\* usual_char and the escape of '%': they copy, wherever dest_string points. Once
\* a node was lost that is an old buffer, which realloc no longer enlarges.
Copies ==
  /\ Is({"usual", "percent"})
  /\ live \/ ~Scarce(Approx(Piece))
  /\ Writes(Piece, Approx(Piece), End(Piece))
  /\ Moves

Conversions == {"number", "nul", "string", "node"}

\* print_it: vsprintf, and the assertion that the last byte still stands. If it
\* does not, what stood behind the buffer was written over before it is said so.
Prints ==
  /\ Is(Conversions) /\ live
  /\ Writes(Piece, Approx(Piece), End(Piece) + 1)
  /\ IF marker' THEN Moves ELSE pc' = "astray" /\ UNCHANGED <<format, src_string>>

\* INCOHERENT(): the % is passed over, and what stands behind it is printed next.
PassesOver == Is({"incoherent"}) /\ Moves /\ UNCHANGED buffer

Stores == Is({"store"}) /\ Piece.to # Null /\ Moves /\ UNCHANGED buffer

\* Mutant: core does not look at what dispatch returned.
FailsOn ==
  /\ Next1
  /\ Piece.kind \notin {"node", "incoherent", "store"} /\ Scarce(Approx(Piece))
  /\ live' = FALSE
  /\ Moves
  /\ UNCHANGED <<alloc, real, pseudo, marker, text, lost>>

\* dispatch returns EOF, and so does core: there is no memory, or no place for %n.
Fails ==
  /\ Next1
  /\ \/ Piece.kind \notin {"node", "incoherent", "store"} /\ Scarce(Approx(Piece))
     \/ Piece.kind = "store" /\ Piece.to = Null
  /\ pc' = "failed"
  /\ live' = FALSE
  /\ UNCHANGED <<format, src_string, alloc, real, pseudo, marker, text, lost>>

\* print_node does not look at what print_it returned: the format goes on without
\* the node, and without a buffer.
LosesNode ==
  /\ Is({"node"}) /\ Scarce(Approx(Piece))
  /\ live' = FALSE
  /\ lost' = TRUE
  /\ Moves
  /\ UNCHANGED <<alloc, real, pseudo, marker, text>>

\* Without a buffer dest_string is reckoned from NULL, and the assertion reads
\* behind NULL.
GoesAstray ==
  /\ Next1 /\ ~live
  /\ \/ Piece.kind \in {"usual", "percent"} /\ Scarce(Approx(Piece))
     \/ Piece.kind \in Conversions
  /\ pc' = "astray"
  /\ UNCHANGED printing

\* core puts a NUL behind the text and shrinks the buffer to it; what is then
\* reallocated in place of no buffer holds anything.
Finishes ==
  /\ pc = "printing" /\ src_string = <<>>
  /\ pc' = "printed"
  /\ marker' = (marker /\ real + 1 < alloc)
  /\ UNCHANGED <<format, src_string, live, alloc, real, pseudo, text, lost>>

\* It cannot be shrunk.
FinishFails ==
  /\ pc = "printing" /\ src_string = <<>>
  /\ pc' = "failed"
  /\ live' = FALSE
  /\ UNCHANGED <<format, src_string, alloc, real, pseudo, marker, text, lost>>

\* core begins with a first realloc_buff of nothing.
Begins(pieces) ==
  /\ pc' = "printing"
  /\ format' = pieces /\ src_string' = pieces
  /\ live' = TRUE
  /\ alloc' = Chunk /\ marker' = TRUE
  /\ real' = 0 /\ pseudo' = 0 /\ text' = <<>>
  /\ lost' = FALSE

NoFormat ==
  /\ format = <<>> /\ src_string = <<>>
  /\ live = FALSE
  /\ alloc = 0 /\ marker = TRUE
  /\ real = 0 /\ pseudo = 0 /\ text = <<>>
  /\ lost = FALSE

sparql_vasprintf_ ==
  \/ Copies \/ Prints \/ PassesOver \/ Stores
  \/ Fails \/ LosesNode \/ GoesAstray
  \/ Finishes \/ FinishFails

-----------------------------------------------------------------------------
(* Properties. *)

\* The margin holds what the numbers of a format take beside their widths and
\* precisions, with the one that a missing width takes off, the NUL and the byte
\* at the end.
NumbersFit(pieces) ==
  \A i \in DOMAIN pieces : pieces[i].kind = "number" => pieces[i].own + 3 <= Margin

\* Whatever is printed but a number that the margin does not hold, the byte that
\* realloc_buff marked at the end of the buffer stands: the length that is asked
\* for before a piece is printed, with the margin, covers the piece and the NUL
\* behind it.
MarkerStands == NumbersFit(format) => marker

\* What a format is printed as, piece by piece.
WholeText(pieces) ==
  LET whole[i \in 0..Len(pieces)] ==
        IF i = 0 THEN <<>> ELSE whole[i - 1] \o Printed(pieces[i])
  IN  whole[Len(pieces)]

NulFree(pieces) == \A i \in DOMAIN pieces : pieces[i].kind # "nul"

\* A statement whose formatting succeeded is all of its pieces, in their order,
\* and the length returned is its own, if no NUL was printed - unless a node was
\* lost.
PrintsAll ==
  pc = "printed" /\ ~lost =>
    /\ live
    /\ text = WholeText(format)
    /\ NulFree(format) => pseudo = Len(text)
==============================================================================
