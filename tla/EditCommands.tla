----------------------------- MODULE EditCommands -----------------------------
(***************************************************************************)
(* The commands that the editor's two modes share, and those of emacs:      *)
(* common.c, emacs.c, hist.c and the history search of search.c.  A command *)
(* takes the state of the editor to the next and sets ret to its CC_ code;  *)
(* one that reads more keys has what is typed as a parameter.               *)
(***************************************************************************)
EXTENDS LineEdit

KeyAfterEof == "eof"

ed_end_of_file(s) == EndOfFile(s)

\* vi_command_mode: out of insertion, and off the end of the line.
vi_command_mode(s) ==
  Done([s EXCEPT !.pending = None, !.doing = FALSE, !.mode = "insert", !.alt = TRUE,
                 !.cursor = IF @ > 0 THEN @ - 1 ELSE 0])

-----------------------------------------------------------------------------
(* common.c: insertion and deletion *)

\* The characters of text written over those at the cursor.
Overwritten(s, text) ==
  LET n == Clipped(Len(text), Len(s.line) - s.cursor)
  IN  [s EXCEPT !.line = Before(s) \o SubSeq(text, 1, n)
                          \o SubSeq(s.line, s.cursor + n + 1, Len(s.line)),
                !.cursor = @ + n]

ed_insert(s, c) ==
  LET text  == [i \in 1..s.arg |-> c]
      over  == IF s.arg = 1 THEN s.mode # "insert" /\ s.cursor < Len(s.line)
               ELSE s.mode = "replace1"
      typed == IF over THEN Overwritten(Room(s, s.arg), text) ELSE Typed(s, text)
  IN  IF c = "nul" THEN Error(s)
      ELSE IF ~CanInsert(s, s.arg) THEN Error(Room(s, s.arg))
      ELSE IF s.mode = "replace1" THEN vi_command_mode(typed)
      ELSE Done(typed)

ed_quoted_insert(s, typed) ==
  IF typed = KeyAfterEof THEN EndOfFile(s) ELSE ed_insert(s, typed)

ed_delete_prev_word(s) ==
  IF s.cursor = 0 THEN Error(s)
  ELSE Done(c_delbefore(s, s.cursor - c__prev_word(s.line, s.cursor, s.arg)))

\* In vi, at the end of the line, what is before the cursor goes instead.
ed_delete_next_char(s) ==
  LET end  == s.cursor = Len(s.line)
      at   == IF end THEN [s EXCEPT !.cursor = @ - 1] ELSE s
      cut  == c_delafter(at, s.arg)
      last == Len(cut.line)
  IN  IF end /\ (s.type = "emacs" \/ s.cursor = 0) THEN Error(s)
      ELSE IF s.type = "vi" /\ cut.cursor >= last /\ cut.cursor > 0
             THEN Done([cut EXCEPT !.cursor = last - 1])
      ELSE Done(cut)

\* The cut buffer is set, and undo is not.
ed_kill_line(s) == Done([cv_yank(s, After(s)) EXCEPT !.line = Before(s)])

ed_delete_prev_char(s) ==
  IF s.cursor = 0 THEN Error(s) ELSE Done(c_delbefore(s, s.arg))

\* l with what is at i and at i + 1 exchanged.
Exchanged(l, i) == [l EXCEPT ![i] = l[i + 1], ![i + 1] = l[i]]

\* The cursor has moved when the one character to its left is not enough.
ed_transpose_chars(s) ==
  LET at == [s EXCEPT !.cursor = IF @ < Len(s.line) THEN @ + 1 ELSE @]
  IN  IF s.cursor < Len(s.line) /\ Len(s.line) <= 1 THEN Error(s)
      ELSE IF at.cursor > 1 THEN Done([at EXCEPT !.line = Exchanged(@, at.cursor - 1)])
      ELSE Error(at)

ed_newline(s) == EndOfLine([s EXCEPT !.line = Append(@, "newline")])

ed_start_over(s) == Done(ch_reset(s))

\* ed_unassigned and ed_sequence_lead_in, the keys of the terminal's own, the
\* screen and the display: none of them touches the line.
ed_unassigned(s)    == Error(s)
ed_tty_sigint(s)    == Done(s)
ed_clear_screen(s)  == Done(s)

-----------------------------------------------------------------------------
(* common.c: motion and arguments *)

\* In vi the cursor goes to the last character: on an empty line, before it.
ed_move_to_end(s) ==
  LET end == [s EXCEPT !.cursor = Len(s.line)]
  IN  IF s.type = "emacs" \/ s.pending # None THEN Moved(s, Len(s.line))
      ELSE IF s.line = <<>> THEN Done(Astray(end))
      ELSE Done([end EXCEPT !.cursor = @ - 1])

ed_move_to_beg(s) == Moved(s, IF s.type = "vi" THEN SkipUp(s.line, 0, Blanks) ELSE 0)

\* vi_to_column, with an argument of 0, leads before the line.
ed_next_char(s) ==
  IF \/ s.cursor >= Len(s.line)
     \/ s.cursor = Len(s.line) - 1 /\ s.type = "vi" /\ s.pending = None
  THEN Error(s)
  ELSE IF s.cursor + s.arg < 0 THEN Done(Astray(s))
  ELSE Moved(s, Clipped(s.cursor + s.arg, Len(s.line)))

ed_prev_char(s) ==
  IF s.cursor = 0 THEN Error(s) ELSE Moved(s, s.cursor - Clipped(s.arg, s.cursor))

ed_prev_word(s) ==
  IF s.cursor = 0 THEN Error(s) ELSE Moved(s, c__prev_word(s.line, s.cursor, s.arg))

\* The newlines before the cursor, and from it on, in the order they are met.
\* Where the arg-th of them is missing, arg is left at what is still to come.
NewlinesDown(s) == {i \in 1..Len(s.line) : s.line[i] = "newline" /\ i > s.cursor}
NewlinesUp(s)   == {i \in 1..Len(s.line) : s.line[i] = "newline" /\ i <= s.cursor}

\* The place column characters behind the newline at i, or where that line ends.
InLine(s, i, column) ==
  Min({q \in i..Len(s.line) : q = i + column \/ q = Len(s.line) \/ s.line[q + 1] = "newline"})

\* An argument of 0 stops at the first newline, and is satisfied without one:
\* the place taken is then not in the line.
AtLeastOne(n) == IF n = 0 THEN 1 ELSE n

ed_prev_line(s) ==
  LET ups  == NewlinesUp(s)
      n    == AtLeastOne(s.arg)
      nth  == CHOOSE i \in ups : Cardinality({j \in ups : j > i}) = n - 1
      from == Max({0} \cup {j \in ups : j < nth})
  IN  IF Cardinality(ups) >= n
        THEN Done([s EXCEPT !.arg = @ - n, !.cursor = InLine(s, from, c_hpos(s))])
      ELSE IF s.arg = 0 THEN Done(Astray(s))
      ELSE Error([s EXCEPT !.arg = @ - Cardinality(ups)])

ed_next_line(s) ==
  LET downs == NewlinesDown(s)
      n     == AtLeastOne(s.arg)
      nth   == CHOOSE i \in downs : Cardinality({j \in downs : j < i}) = n - 1
  IN  IF Cardinality(downs) >= n
        THEN Done([s EXCEPT !.arg = @ - n, !.cursor = InLine(s, nth, c_hpos(s))])
      ELSE IF s.arg = 0 THEN Done(Astray(s))
      ELSE Error([s EXCEPT !.arg = @ - Cardinality(downs)])

\* The universal argument is replaced by the first digit.
ed_digit(s, c) ==
  IF c \notin Digits THEN Error(s)
  ELSE IF ~s.doing THEN ed_insert(s, c)
  ELSE IF s.last = "em_universal_argument" THEN Argument([s EXCEPT !.arg = Value(c)])
  ELSE IF s.arg > ArgLimit THEN Error(s)
  ELSE Argument([s EXCEPT !.arg = @ * 10 + Value(c)])

ed_argument_digit(s, c) ==
  IF c \notin Digits THEN Error(s)
  ELSE IF ~s.doing THEN Argument([s EXCEPT !.arg = Value(c), !.doing = TRUE])
  ELSE IF s.arg > ArgLimit THEN Error(s)
  ELSE Argument([s EXCEPT !.arg = @ * 10 + Value(c)])

-----------------------------------------------------------------------------
(* hist.c, and the history commands of common.c and search.c *)

LessLast(l, c) == IF l # <<>> /\ l[Len(l)] = c THEN SubSeq(l, 1, Len(l) - 1) ELSE l

\* The line as hist_get leaves it: cut to the buffer, without the newline that
\* ends it and without one blank before that.
HistoryLine(s, text) ==
  LessLast(LessLast(SubSeq(text, 1, Clipped(Len(text), Limit(s) - 1)), "newline"), " ")

Shown(s, text) ==
  Done([s EXCEPT !.line = text, !.cursor = IF s.type = "vi" THEN 0 ELSE Len(text)])

\* An event past the oldest becomes the oldest; in an empty history it stays.
hist_get(s) ==
  IF s.event = 0 THEN Shown(s, s.saved)
  ELSE IF Past = <<>> THEN Error(s)
  ELSE IF s.event > Len(Past) THEN Error([s EXCEPT !.event = Len(Past)])
  ELSE Shown(s, HistoryLine(s, Past[s.event]))

\* The line that is typed, kept while others are shown: EL_BUFSIZ characters of
\* it, and zeros for the rest.
KeptLine(l) == [i \in 1..Len(l) |-> IF i <= BufSiz THEN l[i] ELSE "nul"]
Kept(s)     == IF s.event = 0 THEN [s EXCEPT !.saved = KeptLine(s.line)] ELSE s

\* What to show when there is no such line: in vi the one before, else the oldest.
OrNearest(s, event) ==
  IF s.ret # "error" THEN s
  ELSE Done(hist_get(IF s.type = "vi" THEN [s EXCEPT !.event = event] ELSE s))

\* Mutant: the line that is typed is not kept.
ed_prev_historyForgets(s) ==
  OrNearest(hist_get([s EXCEPT !.undo = NoUndo, !.event = @ + s.arg]), s.event)

ed_prev_history(s) ==
  OrNearest(hist_get([Kept([s EXCEPT !.undo = NoUndo]) EXCEPT !.event = @ + s.arg]), s.event)

ed_next_history(s) ==
  hist_get([s EXCEPT !.undo = NoUndo, !.event = IF @ > s.arg THEN @ - s.arg ELSE 0])

\* What a C function sees of l.
CString(l) == SubSeq(l, 1, Min({i \in 0..Len(l) : i = Len(l) \/ l[i + 1] = "nul"}))

\* A dot of a pattern stands for any character.  A pattern that the code
\* surrounds with wild cards is found in the same lines.
el_match(text, pat) ==
  \E i \in 0..Len(text) - Len(CString(pat)) :
    \A j \in 1..Len(CString(pat)) : pat[j] \in {".", text[i + j]}

Searches == {"ed_search_prev_history", "ed_search_next_history"}

\* In vi the character under the cursor is part of the pattern.
EL_CURSOR(s) == s.cursor + IF s.type = "vi" /\ s.alt THEN 1 ELSE 0

\* At the beginning of the line the old pattern stays, or what malloc left
\* there.  On an empty line vi takes the NUL for a pattern.
c_setpat(s) ==
  LET upto == Clipped(EL_CURSOR(s), BufSiz - 1)
  IN  IF s.last \in Searches THEN s
      ELSE IF upto > 0 THEN [s EXCEPT !.pat = SubSeq(Append(s.line, "nul"), 1, upto)]
      ELSE IF s.pat = Unset THEN Astray(s)
      ELSE [s EXCEPT !.pat = CString(@)]

\* The lines of the history that are not the one shown and match.
Matching(s, events) ==
  {h \in events : Past[h] # s.line /\ s.pat # Unset /\ el_match(Past[h], s.pat)}

ed_search_prev_history(s) ==
  LET from  == Kept([s EXCEPT !.pending = None, !.undo = NoUndo])
      set   == c_setpat(from)
      older == Matching(set, s.event + 1..Len(Past))
  IN  IF Past = <<>> THEN Error(from)
      ELSE IF older = {} THEN Error(set)
      ELSE hist_get([set EXCEPT !.event = Min(older)])

ed_search_next_history(s) ==
  LET from  == [s EXCEPT !.pending = None, !.undo = NoUndo]
      set   == c_setpat(from)
      newer == Matching(set, 1..Clipped(s.event - 1, Len(Past)))
  IN  IF s.event = 0 \/ Past = <<>> THEN Error(from)
      ELSE IF newer # {} THEN hist_get([set EXCEPT !.event = Max(newer)])
      ELSE IF set.pat = Unset \/ ~el_match(CString(s.saved), set.pat) THEN Error(set)
      ELSE hist_get([set EXCEPT !.event = 0])

\* parse_line runs what is typed: its commands change keys and settings, and
\* not the line.
ed_command(s, answer) == Done([c_gets(s, answer, 3) EXCEPT !.alt = FALSE])

-----------------------------------------------------------------------------
(* emacs.c *)

em_delete_or_list(s) ==
  IF s.line = <<>> THEN EndOfFile(s)
  ELSE IF s.cursor = Len(s.line) THEN Error(s)
  ELSE Done(IF s.doing THEN c_delafter(s, s.arg) ELSE c_delafter1(s))

em_delete_next_word(s) ==
  IF s.cursor = Len(s.line) THEN Error(s)
  ELSE Done(c_delafter(s, c__next_word(s.line, s.cursor, s.arg) - s.cursor))

\* The buffer does not grow for it.
em_yank(s) ==
  LET put == Typed([s EXCEPT !.mark = s.cursor], s.kill)
  IN  IF s.kill = <<>> THEN Done(s)
      ELSE IF ~HasRoom(s, Len(s.kill)) THEN Error(s)
      ELSE Done(IF s.arg = 1 THEN put ELSE [put EXCEPT !.cursor = s.cursor])

em_kill_line(s) == Done([cv_yank(s, s.line) EXCEPT !.line = <<>>, !.cursor = 0])

\* A mark that an earlier deletion has left behind the end counts as the end.
em_kill_region(s) ==
  Done(IF s.mark = Loose THEN Astray(s)
       ELSE IF s.mark > s.cursor THEN c_delafter(s, s.mark - s.cursor)
       ELSE c_delbefore(s, s.cursor - s.mark))

\* Here it does not: what the buffer still holds there is copied.
em_copy_region(s) ==
  LET low  == Min({s.mark, s.cursor})
      high == Max({s.mark, s.cursor})
  IN  Done(IF s.mark = Loose \/ high > Len(s.line) THEN Astray(s)
           ELSE cv_yank(s, SubSeq(s.line, low + 1, high)))

em_gosmacs_transpose(s) ==
  IF s.cursor > 1 THEN Done([s EXCEPT !.line = Exchanged(@, s.cursor - 1)]) ELSE Error(s)

em_next_word(s) ==
  IF s.cursor = Len(s.line) THEN Error(s)
  ELSE Moved(s, c__next_word(s.line, s.cursor, s.arg))

\* The characters of the line from the cursor to the end of the word, each
\* replaced by f of it; the cursor goes behind them.
Recased(s, from, f) ==
  LET end == c__next_word(s.line, s.cursor, s.arg)
  IN  [s EXCEPT !.line = [i \in 1..Len(@) |-> IF i > from /\ i <= end THEN f[@[i]] ELSE @[i]],
                !.cursor = end]

AllUpper == [c \in Chars |-> Raised(c)]
AllLower == [c \in Chars |-> Lowered(c)]

em_upper_case(s) == Done(Recased(s, s.cursor, AllUpper))
em_lower_case(s) == Done(Recased(s, s.cursor, AllLower))

\* The first letter is raised, those behind it are lowered.
em_capitol_case(s) ==
  LET end   == c__next_word(s.line, s.cursor, s.arg)
      first == Min({i \in s.cursor + 1..end + 1 : i = end + 1 \/ s.line[i] \in Alpha})
      lower == Recased(s, first, AllLower)
  IN  Done(IF first > end THEN [s EXCEPT !.cursor = end]
           ELSE [lower EXCEPT !.line[first] = Raised(@)])

em_set_mark(s) == Done([s EXCEPT !.mark = s.cursor])

em_exchange_mark(s) ==
  IF s.mark = Loose \/ s.mark > Len(s.line) THEN Done(Astray(s))
  ELSE Done([s EXCEPT !.mark = s.cursor, !.cursor = s.mark])

em_universal_argument(s) ==
  IF s.arg > ArgLimit THEN Error(s)
  ELSE Argument([s EXCEPT !.doing = TRUE, !.arg = @ * 4])

em_meta_next(s) == Argument([s EXCEPT !.meta = TRUE])

em_toggle_overwrite(s) ==
  Done([s EXCEPT !.mode = IF @ = "insert" THEN "replace" ELSE "insert"])

\* The word is copied from where it was before room was made for it: from
\* memory that was given back, when the buffer had to grow.
em_copy_prev_word(s) ==
  LET from == c__prev_word(s.line, s.cursor, s.arg)
      word == SubSeq(s.line, from + 1, s.cursor)
  IN  IF s.cursor = 0 THEN Error(s)
      ELSE IF ~HasRoom(s, Len(word)) THEN Done(Astray(s))
      ELSE Done(Typed(s, word))

em_delete_prev_char(s) ==
  IF s.cursor = 0 THEN Error(s)
  ELSE Done(IF s.doing THEN c_delbefore(s, s.arg) ELSE c_delbefore1(s))

==============================================================================
