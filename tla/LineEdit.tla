------------------------------- MODULE LineEdit -------------------------------
(***************************************************************************)
(* The line that libedit's editor edits, chared.c: its buffer with a cursor, *)
(* the cut buffer, the undo buffer, and what the commands do them with.  The *)
(* state of an EditLine is a record, and an operation takes one to the next. *)
(* A pointer into the line is the number of characters before it, and the   *)
(* byte behind the line is taken to be the NUL that ends it.                *)
(***************************************************************************)
EXTENDS Integers, Sequences, FiniteSets, FiniteSetsExt

CONSTANTS
  Past,      \* the history, newest line first
  BufSiz,    \* EL_BUFSIZ, 1024 in the code
  Spare,     \* 16 in the code: what an answer leaves of EL_BUFSIZ characters
  MaxSize,   \* bound: the largest buffer there is memory for
  Refused(_),  \* the buffer, "line", "kill" or another, for which memory runs out first
               \* when all are to be so large
  ArgLimit   \* 1000000 in the code: an argument above it takes no further digit

Lowers == <<"a", "b", "c", "d", "e", "f", "h", "i", "j", "k", "l", "n", "p", "r", "s",
            "t", "u", "v", "w", "x", "y">>
Uppers == <<"A", "B", "C", "D", "E", "F", "H", "I", "J", "K", "L", "N", "P", "R", "S",
            "T", "U", "V", "W", "X", "Y">>
Lower  == {Lowers[i] : i \in DOMAIN Lowers}
Upper  == {Uppers[i] : i \in DOMAIN Uppers}
Digits == {"0", "1", "2", "3"}
Alpha  == Lower \cup Upper
Alnum  == Alpha \cup Digits
Blanks == {" ", "newline"}
Controls == {"nul", "esc", "C-d", "C-h", "C-u", "C-v", "C-w"}
Chars  == Alnum \cup Blanks \cup {".", "(", ")", "#"} \cup Controls

Raised(c)  == IF c \in Lower THEN Uppers[CHOOSE i \in DOMAIN Lowers : Lowers[i] = c] ELSE c
Lowered(c) == IF c \in Upper THEN Lowers[CHOOSE i \in DOMAIN Uppers : Uppers[i] = c] ELSE c
Value(d)   == CHOOSE n \in 0..3 : <<"0", "1", "2", "3">>[n + 1] = d

ASSUME LineEditAssumption ==
  /\ Past \in Seq(Seq(Chars))
  /\ BufSiz \in Nat /\ BufSiz > 2 /\ MaxSize \in Nat /\ MaxSize >= BufSiz
  /\ Spare \in 4..BufSiz /\ ArgLimit \in Nat

None  == "none"
Unset == <<"unset">>
NoUndo == [kept |-> FALSE, line |-> <<>>, cursor |-> 0]

\* "key" is the map that is current when alt is not; undo is not kept
\* when its length is -1; a search pattern that was never set is memory as malloc
\* left it.  asked is what c_gets makes of an answer, its cp counted from the
\* beginning of the line.  astray is set when the code leaves its buffers or reads
\* what is not the line's.
ch_init(type) ==
  [line |-> <<>>, cursor |-> 0, size |-> BufSiz, kill |-> <<>>, mark |-> 0,
   undo |-> NoUndo, type |-> type, alt |-> FALSE, mode |-> "insert",
   arg |-> 1, doing |-> FALSE, pending |-> None, pos |-> 0,
   event |-> 0, saved |-> <<>>, last |-> None, cmd |-> None, key |-> None,
   redo |-> [count |-> 0, action |-> None, cmd |-> None, key |-> None, text |-> <<>>],
   pat |-> Unset, patdir |-> None, chr |-> None, chrdir |-> 1, till |-> FALSE,
   pushed |-> <<>>, asked |-> [text |-> <<>>, cp |-> 0, gone |-> FALSE],
   meta |-> FALSE, ret |-> "done", astray |-> FALSE]

ch_reset(s) ==
  [s EXCEPT !.line = <<>>, !.cursor = 0, !.undo = NoUndo, !.pending = None, !.pos = 0,
            !.mark = 0, !.alt = FALSE, !.mode = "insert", !.arg = 1, !.doing = FALSE,
            !.meta = FALSE, !.last = None, !.event = 0]

\* The CC_ codes; those that only tell how to redraw are all "done".
Done(s)     == [s EXCEPT !.ret = "done"]
Error(s)    == [s EXCEPT !.ret = "error"]
Argument(s) == [s EXCEPT !.ret = "arghack"]
EndOfLine(s) == [s EXCEPT !.ret = "newline"]
EndOfFile(s) == [s EXCEPT !.ret = "eof"]
Astray(s)   == [s EXCEPT !.astray = TRUE]

-----------------------------------------------------------------------------
(* chared.c: room, insertion, deletion *)

Leave     == 2
Limit(s)  == s.size - Leave
Before(s) == SubSeq(s.line, 1, s.cursor)
After(s)  == SubSeq(s.line, s.cursor + 1, Len(s.line))

\* All buffers are made twice as large, and again until n more fit.
NewSize(size, n) ==
  LET newsz[k \in 0..n] == IF k = 0 THEN 2 * size ELSE 2 * newsz[k - 1]
  IN  newsz[Min({k \in 0..n : newsz[k] - size >= n})]

HasRoom(s, n)   == Len(s.line) + n < Limit(s)
CanInsert(s, n) == HasRoom(s, n) \/ NewSize(s.size, n) <= MaxSize

\* The buffers are made larger one after the other, and the limit is moved when
\* all are.  Without memory for the second, the cut buffer, the mark goes on pointing
\* into the line's buffer of before, which was given back.
Loose == -1
ch_enlargebufs(s, n) ==
  IF NewSize(s.size, n) <= MaxSize THEN [s EXCEPT !.size = NewSize(@, n)]
  ELSE IF Refused(NewSize(s.size, n)) = "kill" THEN [s EXCEPT !.mark = Loose]
  ELSE s

Room(s, n) == IF HasRoom(s, n) THEN s ELSE ch_enlargebufs(s, n)

\* Mutant: no room is made.
c_insertInPlace(s, text) == [s EXCEPT !.line = Before(s) \o text \o After(s)]

\* With the copying of text into the space it has made.
c_insert(s, text) ==
  [Room(s, Len(text)) EXCEPT !.line = Before(s) \o text \o After(s)]

Typed(s, text) == [c_insert(s, text) EXCEPT !.cursor = @ + Len(text)]

cv_undo(s) ==
  [s EXCEPT !.undo = [kept |-> TRUE, line |-> s.line, cursor |-> s.cursor],
            !.redo = [count |-> IF s.doing THEN s.arg ELSE 0, action |-> s.pending,
                      cmd |-> s.cmd, key |-> s.key, text |-> <<>>]]

cv_yank(s, text) == [s EXCEPT !.kill = text]

Clipped(n, most) == IF n < most THEN n ELSE most

Without(line, from, to) == SubSeq(line, 1, from) \o SubSeq(line, to + 1, Len(line))

\* Mutant: what is deleted is not kept.
c_delafterOnly(s, n) ==
  LET m == Clipped(n, Len(s.line) - s.cursor)
  IN  [cv_undo(s) EXCEPT !.line = Without(s.line, s.cursor, s.cursor + m)]

\* The current map is never the table of the emacs map but a copy
\* of it, and so undo and kill are set for emacs as well.
c_delafter(s, n) ==
  LET m == Clipped(n, Len(s.line) - s.cursor)
  IN  [cv_yank(cv_undo(s), SubSeq(s.line, s.cursor + 1, s.cursor + m)) EXCEPT
         !.line = Without(s.line, s.cursor, s.cursor + m)]

\* With the cursor that its callers move along.
c_delbefore(s, n) ==
  LET m == Clipped(n, s.cursor)
  IN  [cv_yank(cv_undo(s), SubSeq(s.line, s.cursor - m + 1, s.cursor)) EXCEPT
         !.line = Without(s.line, s.cursor - m, s.cursor), !.cursor = @ - m]

\* The second with the cursor moved along.
c_delafter1(s)  == [s EXCEPT !.line = Without(@, s.cursor, s.cursor + 1)]
c_delbefore1(s) == [s EXCEPT !.line = Without(@, s.cursor - 1, s.cursor), !.cursor = @ - 1]

-----------------------------------------------------------------------------
(* chared.c: words *)

\* ce__isword, cv__isword and cv__isWord: what belongs to a word, and the
\* characters a vi word takes for the same as c.
WordChars == Alnum \cup {"."}
Unseen    == Blanks \cup Controls
cv__isword(big, c) ==
  IF big THEN IF c \in Blanks THEN Blanks ELSE Chars \ Blanks
  ELSE IF c \in Alnum THEN Alnum
  ELSE IF c \in Unseen THEN Unseen
  ELSE Chars \ (Alnum \cup Unseen)

\* The first place from p on, and the last up to p, that no more of set follow,
\* or precede.
SkipUp(l, p, set)   == Min({q \in p..Len(l) : q = Len(l) \/ l[q + 1] \notin set})
SkipDown(l, p, set) == Max({q \in 0..p : q = 0 \/ l[q] \notin set})

\* f applied n times to p.
Times(n, f, p) ==
  LET g[i \in 0..n] == IF i = 0 THEN p ELSE f[g[i - 1]] IN g[n]

c__prev_word(l, p, n) ==
  Times(n, [q \in 0..Len(l) |-> SkipDown(l, SkipDown(l, q, Chars \ WordChars), WordChars)], p)

c__next_word(l, p, n) ==
  Times(n, [q \in 0..Len(l) |-> SkipUp(l, SkipUp(l, q, Chars \ WordChars), WordChars)], p)

\* Of the last word a change leaves the blanks behind it.
cv_next_word(s, n, big) ==
  LET l     == s.line
      word  == [q \in 0..Len(l) |->
                  IF q = Len(l) THEN q ELSE SkipUp(l, q, cv__isword(big, l[q + 1]))]
      space == [q \in 0..Len(l) |-> SkipUp(l, word[q], Blanks)]
      most  == Times(n - 1, space, s.cursor)
  IN  IF n = 0 THEN s.cursor ELSE IF s.pending = "change" THEN word[most] ELSE space[most]

\* The first character of the line counts as no blank.  A round that begins at
\* the first character looks at what is before the line.
cv_prev_word(l, p, n, big) ==
  LET back == [q \in 0..Len(l) |->
                IF q = 0 THEN 0
                ELSE LET r == Max({i \in 1..q : i = 1 \/ l[i] \notin Blanks})
                     IN  SkipDown(l, r, cv__isword(big, l[r]))]
  IN  Times(n, back, p)

BeforeLine(l, p, n, big) == n > 0 /\ cv_prev_word(l, p, n - 1, big) = 0

cv__endword(l, p, n, big) ==
  LET over == [q \in 0..Len(l) |->
                LET r == SkipUp(l, q, Blanks)
                IN  IF r = Len(l) THEN r ELSE SkipUp(l, r, cv__isword(big, l[r + 1]))]
  IN  Times(n, over, p + 1) - 1

\* A pending action is applied from where it was given to the cursor.  At the
\* end of the line the character behind it is yanked.
cv_delfini(s) ==
  LET n     == IF s.cursor = s.pos THEN 1 ELSE s.cursor - s.pos
      at    == [s EXCEPT !.cursor = s.pos, !.alt = @ /\ s.pending # "change"]
      acted == IF s.pending # "yank"
                 THEN IF n > 0 THEN c_delafter(at, n) ELSE c_delbefore(at, -n)
               ELSE cv_yank(at, IF n < 0 THEN SubSeq(s.line, s.cursor + 1, s.pos)
                                ELSE SubSeq(Append(s.line, "nul"), s.pos + 1, s.pos + n))
  IN  [acted EXCEPT !.pending = None]

\* A motion: in vi it ends an action that is pending.
Moved(s, cursor) ==
  LET t == [s EXCEPT !.cursor = cursor]
  IN  Done(IF s.type = "vi" /\ s.pending # None THEN cv_delfini(t) ELSE t)

-----------------------------------------------------------------------------
(* chared.c: what a program calls, and asking for a string *)

el_insertstr(s, text) ==
  IF text = <<>> THEN Error(s)
  ELSE IF ~CanInsert(s, Len(text)) THEN Error(Room(s, Len(text)))
  ELSE Done(Typed(s, text))

el_deletestr(s, n) == IF n = 0 \/ s.cursor < n THEN s ELSE c_delbefore(s, n)

\* The line shows the prompt and what is typed, and is gone after it.  A backspace
\* goes one to the left in the line, over the prompt as well, and takes nothing from
\* the text; as long as that is empty it ends the asking.  A blank is written at every place
\* gone to, before the buffer too.  answer is [keys, end]: what is typed, and "enter",
\* "esc" or "eof".
OffLine(cp) == cp \notin 0..BufSiz - 1

Asked(answer, prompt) ==
  LET After1(a, k) ==
        IF a.gone \/ OffLine(a.cp) THEN a
        ELSE IF k # "bs"
          THEN IF Len(a.text) >= BufSiz - Spare THEN a
               ELSE [a EXCEPT !.text = Append(@, k), !.cp = @ + 1]
        ELSE IF a.text = <<>> THEN [a EXCEPT !.gone = TRUE]
        ELSE [a EXCEPT !.cp = @ - 1]
      f[i \in 0..Len(answer.keys)] ==
        IF i = 0 THEN [text |-> <<>>, cp |-> prompt, gone |-> FALSE]
        ELSE After1(f[i - 1], answer.keys[i])
      last == f[Len(answer.keys)]
  IN  [last EXCEPT !.gone = @ \/ answer.end = "eof"]

\* prompt is the length of the prompt.
c_gets(s, answer, prompt) ==
  LET asked == Asked(answer, prompt)
  IN  [s EXCEPT !.line = <<>>, !.cursor = 0, !.asked = asked, !.astray = @ \/ OffLine(asked.cp)]

c_hpos(s) == s.cursor - Max({0} \cup {i \in 1..s.cursor : s.line[i] = "newline"})

==============================================================================
