------------------------------ MODULE UrlEncode ------------------------------
(***************************************************************************)
(* urlencode.c.  A text is a sequence of characters, of which Plain are    *)
(* letters, digits and "-._~".  An encoded text is a sequence of bytes,    *)
(* each with the character it comes from: as it is, or as one of the three *)
(* bytes of %xx.  The functions that stop at a NUL and those that are told *)
(* a length do the same to a text without a NUL.                           *)
(***************************************************************************)
EXTENDS Integers, Sequences

CONSTANT Plain

Byte(c)   == <<[of |-> c, part |-> 0]>>
Escape(c) == [k \in 1..3 |-> [of |-> c, part |-> k]]
Code(c)   == IF c \in Plain THEN Byte(c) ELSE Escape(c)

\* Mutant: there is no byte for the NUL.
sparql_urlencode_size_NoNul(src) ==
  LET l[i \in 0..Len(src)] ==
        IF i = 0 THEN 0 ELSE l[i - 1] + (IF src[i] \in Plain THEN 1 ELSE 3)
  IN  l[Len(src)]

\* How many bytes the encoded text and the NUL behind it take.
sparql_urlencode_size_(src) ==
  LET l[i \in 0..Len(src)] ==
        IF i = 0 THEN 1 ELSE l[i - 1] + (IF src[i] \in Plain THEN 1 ELSE 3)
  IN  l[Len(src)]

\* The loop has written some bytes, has so many left, and has met a character
\* that needs more of them.
Encoder(destlen) == [bytes |-> <<>>, left |-> destlen, full |-> FALSE]

Encodes(e, c) ==
  IF e.full \/ e.left = 0 \/ (c \notin Plain /\ e.left < 4)
    THEN [e EXCEPT !.full = TRUE]
    ELSE [e EXCEPT !.bytes = @ \o Code(c), !.left = @ - Len(Code(c))]

\* sparql_urlencode_: what is written into so many bytes, of which the NUL is not
\* always one.
sparql_urlencode_(src, destlen) ==
  LET e[i \in 0..Len(src)] ==
        IF i = 0 THEN Encoder(destlen) ELSE Encodes(e[i - 1], src[i])
  IN  e[Len(src)].bytes

\* The whole of a text, encoded.
WholeCode(src) ==
  LET code[i \in 0..Len(src)] == IF i = 0 THEN <<>> ELSE code[i - 1] \o Code(src[i])
  IN  code[Len(src)]
==============================================================================
