--------------------------------- MODULE Vis ---------------------------------
(***************************************************************************)
(* libedit/src/vis.c and unvis.c as history.c uses them: strvis with       *)
(* VIS_WHITE makes of any text one of printing characters without white    *)
(* space, and strunvis takes it back.  A text is a sequence of bytes; the  *)
(* HTTP and MIME styles, and the flags that history.c does not give, are   *)
(* left out.                                                               *)
(***************************************************************************)
EXTENDS Integers, Sequences, SequencesExt

Space     == 32
Tab       == 9
Newline   == 10
Backslash == 92
Caret     == 94
Minus     == 45
Question  == 63
Meta      == 77   \* M
Rubout    == 127
Digit(d)  == 48 + d

isoctal(c) == c \in Digit(0)..Digit(7)
isgraph(c) == c \in 33..126
iscntrl(c) == c \in 0..31 \cup {Rubout}

-----------------------------------------------------------------------------
(* vis.c *)

\* MAKEEXTRALIST for VIS_WHITE, which is VIS_SP, VIS_TAB and VIS_NL.
Extra == {Space, Tab, Newline, Backslash}

Octal(c) == <<Backslash, Digit(c \div 64), Digit((c \div 8) % 8), Digit(c % 8)>>

\* Mutant: a newline is taken for a character like any other.
do_svisKeepsNewline(c) ==
  LET low == c % 128
  IN  IF c = Newline \/ (isgraph(c) /\ c # Backslash) THEN <<c>>
      ELSE IF c \in Extra \/ low = Space THEN Octal(c)
      ELSE (IF c >= 128 THEN <<Backslash, Meta>> ELSE <<Backslash>>) \o
           (IF ~iscntrl(low) THEN <<Minus, low>>
            ELSE IF low = Rubout THEN <<Caret, Question>>
            ELSE <<Caret, low + 64>>)

\* A printing character stands for itself; white space, a backslash and what is
\* a space but for its eighth bit are written in octal; any other character is
\* written by its seven lower bits, as ^x if they are a control character.
do_svis(c) ==
  LET low == c % 128
  IN  IF isgraph(c) /\ c # Backslash THEN <<c>>
      ELSE IF c \in Extra \/ low = Space THEN Octal(c)
      ELSE (IF c >= 128 THEN <<Backslash, Meta>> ELSE <<Backslash>>) \o
           (IF ~iscntrl(low) THEN <<Minus, low>>
            ELSE IF low = Rubout THEN <<Caret, Question>>
            ELSE <<Caret, low + 64>>)

\* istrsnvis
strvis(text) == FlattenSeq([i \in DOMAIN text |-> do_svis(text[i])])

-----------------------------------------------------------------------------
(* unvis.c: a decoder is its state, the character it is collecting, what   *)
(* it has decoded, and whether it has met a sequence that nothing encodes.  *)

Decoder == [state |-> "ground", cp |-> 0, text |-> <<>>, bad |-> FALSE]

Collects(d, state, cp) == [d EXCEPT !.state = state, !.cp = cp]
Decodes(d, c)          == [d EXCEPT !.state = "ground", !.cp = c, !.text = Append(@, c)]
Bad(d)                 == [d EXCEPT !.state = "ground", !.bad = TRUE]

Ground(d, c) ==
  IF c = Backslash THEN Collects(d, "start", 0) ELSE Decodes(d, c)

\* The letters behind a backslash that stand for a character: n, r, b, a, v, t,
\* f, s and E.
Letters == {<<110, 10>>, <<114, 13>>, <<98, 8>>, <<97, 7>>, <<118, 11>>,
            <<116, 9>>, <<102, 12>>, <<115, 32>>, <<69, 27>>}
isletter(c) == \E l \in Letters : l[1] = c
Letter(c)   == (CHOOSE l \in Letters : l[1] = c)[2]

\* A newline or a $ behind a backslash hides the both of them.
Hidden == {Newline, 36}
HexMark == 120

Start(d, c) ==
  CASE c = Backslash         -> Decodes(d, c)
    [] isoctal(c)            -> Collects(d, "octal2", c - Digit(0))
    [] c = Meta              -> Collects(d, "meta", 128)
    [] c = Caret             -> Collects(d, "ctrl", d.cp)
    [] isletter(c)           -> Decodes(d, Letter(c))
    [] c = HexMark           -> Collects(d, "hex", d.cp)
    [] c \in Hidden          -> Collects(d, "ground", d.cp)
    [] OTHER                 -> Bad(d)

AfterMeta(d, c) ==
  CASE c = Minus -> Collects(d, "meta1", d.cp)
    [] c = Caret -> Collects(d, "ctrl", d.cp)
    [] OTHER     -> Bad(d)

\* *cp |= c, where *cp is 0 or has its eighth bit only.
Or(cp, c) == IF c >= 128 THEN c ELSE cp + c

Ctrl(d, c) == Decodes(d, Or(d.cp, IF c = Question THEN 127 ELSE c % 32))

\* An octal number ends with its third digit, or before what is no digit: that
\* is then a character of its own.
OctalDigit(d, c) ==
  LET cp == (d.cp * 8 + c - Digit(0)) % 256
  IN  IF ~isoctal(c) THEN Ground(Decodes(d, d.cp), c)
      ELSE IF d.state = "octal2" THEN Collects(d, "octal3", cp)
      ELSE Decodes(d, cp)

\* xtod, or -1 for what is no hexadecimal digit.
Xtod(c) ==
  CASE c \in 48..57  -> c - 48
    [] c \in 65..70  -> c - 55
    [] c \in 97..102 -> c - 87
    [] OTHER         -> -1

HexDigit(d, c) ==
  CASE d.state = "hex" /\ Xtod(c) < 0  -> Bad(d)
    [] d.state = "hex" /\ Xtod(c) >= 0 -> Collects(d, "hex2", Xtod(c))
    [] d.state = "hex2" /\ Xtod(c) < 0  -> Ground(Decodes(d, d.cp), c)
    [] d.state = "hex2" /\ Xtod(c) >= 0 -> Decodes(d, d.cp * 16 + Xtod(c))

\* unvis of one character; nothing is decoded behind a bad sequence.
unvis(d, c) ==
  IF d.bad THEN d
  ELSE CASE d.state = "ground" -> Ground(d, c)
         [] d.state = "start"  -> Start(d, c)
         [] d.state = "meta"   -> AfterMeta(d, c)
         [] d.state = "meta1"  -> Decodes(d, Or(d.cp, c))
         [] d.state = "ctrl"   -> Ctrl(d, c)
         [] d.state \in {"octal2", "octal3"} -> OctalDigit(d, c)
         [] d.state \in {"hex", "hex2"}      -> HexDigit(d, c)

\* unvis with UNVIS_END: a number that has begun is a character.
Ended(d) ==
  IF ~d.bad /\ d.state \in {"octal2", "octal3", "hex2"} THEN Decodes(d, d.cp) ELSE d

\* strnunvisx: the decoder after each character, and what it has decoded.
Decoders(d, text) ==
  LET decode[i \in 0..Len(text)] == IF i = 0 THEN d ELSE unvis(decode[i - 1], text[i])
  IN  decode

strunvis(text) == Ended(Decoders(Decoder, text)[Len(text)]).text
==============================================================================
