------------------------------ MODULE ViCommands ------------------------------
(***************************************************************************)
(* The commands of the editor's vi mode: vi.c, and the searches of search.c *)
(* that they make.                                                          *)
(***************************************************************************)
EXTENDS EditCommands

InsertMode(s) == [s EXCEPT !.alt = FALSE]

-----------------------------------------------------------------------------
(* Operators: delete, change and yank *)

\* The first time an operator waits for a motion; the second time it takes the
\* whole line, when it is the same one.
cv_action(s, action) ==
  LET kept  == cv_yank(IF action = "yank" THEN s ELSE cv_undo(s), s.line)
      done  == [kept EXCEPT !.pending = None, !.alt = @ /\ action # "change"]
  IN  IF s.pending = None THEN Argument([s EXCEPT !.pending = action, !.pos = s.cursor])
      ELSE IF s.pending # action THEN Error(s)
      ELSE IF action = "yank" THEN Done(done)
      ELSE Done([done EXCEPT !.line = <<>>, !.cursor = 0])

vi_change_meta(s) == cv_action(s, "change")
vi_delete_meta(s) == cv_action(s, "delete")
vi_yank(s)        == cv_action(s, "yank")

\* When there is no room for it, what is pasted replaces what is there.
cv_paste(s, after) ==
  LET at   == [cv_undo(s) EXCEPT !.cursor = IF after /\ @ < Len(s.line) THEN @ + 1 ELSE @]
      kept == Room(at, Len(s.kill))
  IN  IF s.kill = <<>> THEN Error(s)
      ELSE IF CanInsert(s, Len(s.kill)) THEN Done(c_insert(at, s.kill))
      ELSE IF at.cursor + Len(s.kill) > Len(s.line) THEN Error(kept)
      ELSE Done([Overwritten(kept, s.kill) EXCEPT !.cursor = at.cursor])

vi_paste_next(s) == cv_paste(s, TRUE)
vi_paste_prev(s) == cv_paste(s, FALSE)

vi_yank_end(s) == Done(cv_yank(s, After(s)))

-----------------------------------------------------------------------------
(* Motion *)

\* A motion at whose end an operator takes the character under the cursor too.
MovedOnto(s, cursor) ==
  Moved(s, cursor + IF s.type = "vi" /\ s.pending # None THEN 1 ELSE 0)

vi_prev_big_word(s) ==
  IF s.cursor = 0 THEN Error(s)
  ELSE IF BeforeLine(s.line, s.cursor, s.arg, TRUE) THEN Done(Astray(s))
  ELSE Moved(s, cv_prev_word(s.line, s.cursor, s.arg, TRUE))
vi_prev_word(s) ==
  IF s.cursor = 0 THEN Error(s)
  ELSE IF BeforeLine(s.line, s.cursor, s.arg, FALSE) THEN Done(Astray(s))
  ELSE Moved(s, cv_prev_word(s.line, s.cursor, s.arg, FALSE))

vi_next_big_word(s) ==
  IF s.cursor >= Len(s.line) - 1 THEN Error(s) ELSE Moved(s, cv_next_word(s, s.arg, TRUE))
vi_next_word(s) ==
  IF s.cursor >= Len(s.line) - 1 THEN Error(s) ELSE Moved(s, cv_next_word(s, s.arg, FALSE))

vi_end_big_word(s) ==
  IF s.cursor = Len(s.line) THEN Error(s)
  ELSE MovedOnto(s, cv__endword(s.line, s.cursor, s.arg, TRUE))
vi_end_word(s) ==
  IF s.cursor = Len(s.line) THEN Error(s)
  ELSE MovedOnto(s, cv__endword(s.line, s.cursor, s.arg, FALSE))

vi_zero(s, c) == IF s.doing THEN ed_argument_digit(s, c) ELSE Moved(s, 0)

\* Columns count from 1; the cursor has moved when there is none to go to.
vi_to_column(s) == ed_next_char([s EXCEPT !.cursor = 0, !.arg = @ - 1])

\* The bracket at or behind the cursor and the one that matches it.  delta is
\* unsigned: it is always above 0, and an operator takes one more character
\* backwards as well.
vi_match(s) ==
  LET l       == s.line
      opens   == {i \in s.cursor + 1..Len(CString(l)) : l[i] \in {"(", ")"}}
      here    == Min(opens)
      Depth(i, j) == Cardinality({k \in i..j : l[k] = "("}) - Cardinality({k \in i..j : l[k] = ")"})
      forward == {j \in here + 1..Len(l) : Depth(here, j) = 0}
      back    == {j \in 1..here - 1 : Depth(j, here) = 0}
  IN  IF opens = {} THEN Error(s)
      ELSE IF l[here] = "(" THEN IF forward = {} THEN Error(s) ELSE MovedOnto(s, Min(forward) - 1)
      ELSE IF back = {} THEN Error(s) ELSE MovedOnto(s, Max(back) - 1)

\* The count-th ch before or behind the cursor, and with till one short of it;
\* -1 when there are not so many.
CharFrom(s, direction, ch, count, till) ==
  LET on == {i \in 0..Len(s.line) - 1 :
              s.line[i + 1] = ch /\ (direction > 0 => i > s.cursor)
                                 /\ (direction < 0 => i < s.cursor /\ s.cursor < Len(s.line))}
      Nearer(i) == {j \in on : direction * j < direction * i}
      found == {i \in on : Cardinality(Nearer(i)) = count - 1}
  IN  IF found = {} THEN -1 ELSE Max(found) - IF till THEN direction ELSE 0

\* chacha, chadir and chatflg are kept for the commands that repeat the search,
\* found or not.
cv_csearch(s, direction, ch, till) ==
  LET kept  == [s EXCEPT !.chr = ch, !.chrdir = direction, !.till = till]
      place == CharFrom(s, direction, ch, s.arg, till)
  IN  IF ch \in {None, "nul"} THEN Error(s)
      ELSE IF ch = KeyAfterEof THEN EndOfFile(s)
      ELSE IF place = -1 THEN Error(kept)
      ELSE IF direction > 0 THEN MovedOnto(kept, place)
      ELSE Moved(kept, place)

vi_next_char(s, typed)    == cv_csearch(s, 1, typed, FALSE)
vi_prev_char(s, typed)    == cv_csearch(s, -1, typed, FALSE)
vi_to_next_char(s, typed) == cv_csearch(s, 1, typed, TRUE)
vi_to_prev_char(s, typed) == cv_csearch(s, -1, typed, TRUE)

vi_repeat_next_char(s) == cv_csearch(s, s.chrdir, s.chr, s.till)
vi_repeat_prev_char(s) ==
  [cv_csearch(s, -s.chrdir, s.chr, s.till) EXCEPT !.chrdir = s.chrdir]

-----------------------------------------------------------------------------
(* Changes *)

\* Mutant: the change cannot be undone.
vi_change_caseForGood(s) ==
  LET last == Clipped(s.cursor + s.arg, Len(s.line))
  IN  IF s.cursor >= Len(s.line) THEN Error(s)
      ELSE Done([s EXCEPT
             !.line = [i \in 1..Len(@) |-> IF i \in s.cursor + 1..last
                                             THEN IF @[i] \in Lower THEN Raised(@[i]) ELSE Lowered(@[i])
                                             ELSE @[i]],
             !.cursor = Clipped(s.cursor + s.arg, Len(s.line) - 1)])

vi_change_case(s) ==
  LET last == Clipped(s.cursor + s.arg, Len(s.line))
  IN  IF s.cursor >= Len(s.line) THEN Error(s)
      ELSE Done([cv_undo(s) EXCEPT
             !.line = [i \in 1..Len(@) |-> IF i \in s.cursor + 1..last
                                             THEN IF @[i] \in Lower THEN Raised(@[i]) ELSE Lowered(@[i])
                                             ELSE @[i]],
             !.cursor = Clipped(s.cursor + s.arg, Len(s.line) - 1)])

\* The commands that end in insertion mode, from where they leave the cursor.
vi_insert(s)        == Done(InsertMode(cv_undo(s)))
vi_insert_at_bol(s) == Done(InsertMode(cv_undo([s EXCEPT !.cursor = 0])))
vi_add(s) ==
  Done(InsertMode(cv_undo([s EXCEPT !.cursor = IF @ < Len(s.line) THEN @ + 1 ELSE @])))
vi_add_at_eol(s)    == Done(InsertMode(cv_undo([s EXCEPT !.cursor = Len(s.line)])))
vi_replace_mode(s)  == Done([InsertMode(cv_undo(s)) EXCEPT !.mode = "replace"])
vi_replace_char(s) ==
  IF s.cursor >= Len(s.line) THEN Error(s)
  ELSE Argument([InsertMode(cv_undo(s)) EXCEPT !.mode = "replace1"])

vi_substitute_char(s) == Done(InsertMode(c_delafter(s, s.arg)))
vi_substitute_line(s) == Done(InsertMode(em_kill_line(cv_undo(s))))
vi_change_to_eol(s)   == Done(InsertMode(ed_kill_line(cv_undo(s))))

\* The line and the undo buffer change places.
vi_undo(s) ==
  IF ~s.undo.kept THEN Error(s)
  ELSE Done([s EXCEPT !.line = s.undo.line, !.cursor = s.undo.cursor,
                      !.undo = [kept |-> TRUE, line |-> s.line, cursor |-> s.cursor]])

vi_delete_prev_char(s) == IF s.cursor = 0 THEN Error(s) ELSE Done(c_delbefore1(s))

vi_kill_line_prev(s) == Done(c_delbefore(s, s.cursor))

vi_list_or_eof(s) == IF s.line = <<>> THEN EndOfFile(s) ELSE Error(s)

\* Without room the first character becomes the mark of the comment.
vi_comment_out(s) ==
  LET at == [s EXCEPT !.cursor = 0]
  IN  ed_newline(IF CanInsert(s, 1) THEN c_insert(at, <<"#">>)
                 ELSE [Room(at, 1) EXCEPT !.line[1] = "#"])

\* There is no get_alias_text in the program.
vi_alias(s) == Error(s)

-----------------------------------------------------------------------------
(* The history *)

Sought(s, dir) ==
  IF dir = "ed_search_prev_history" THEN ed_search_prev_history(s) ELSE ed_search_next_history(s)

EscapeEnters(s, end) == IF s.ret = "error" \/ end # "esc" THEN s ELSE ed_newline(s)

\* The text typed is searched for from an empty line.  An empty text stands for
\* the old pattern; escape enters the line found.
cv_search(s, dir, answer) ==
  LET asked == [c_gets(s, answer, 2) EXCEPT !.patdir = dir]
      text  == asked.asked.text
  IN  IF asked.asked.gone THEN Done(asked)
      ELSE IF text = <<>> /\ s.pat \in {Unset, <<>>} THEN Error(asked)
      ELSE EscapeEnters(Sought([asked EXCEPT !.pat = IF text = <<>> THEN @ ELSE text, !.last = dir], dir),
                   answer.end)

vi_search_prev(s, answer) == cv_search(s, "ed_search_prev_history", answer)
vi_search_next(s, answer) == cv_search(s, "ed_search_next_history", answer)

Stranded(s, cursor) == IF s.ret = "error" /\ cursor > 0 THEN Astray(s) ELSE s

\* The line is emptied; its cursor stays where it is, behind the end, until a
\* line is found.
cv_repeat_srch(s, dir) ==
  LET from == [s EXCEPT !.last = dir, !.line = <<>>]
  IN  Stranded(IF dir \in Searches THEN Sought(from, dir) ELSE Error(from), s.cursor)

Opposite(dir) ==
  IF dir = "ed_search_prev_history" THEN "ed_search_next_history" ELSE "ed_search_prev_history"

vi_repeat_search_next(s) ==
  IF s.pat \in {Unset, <<>>} THEN Error(s) ELSE cv_repeat_srch(s, s.patdir)
vi_repeat_search_prev(s) ==
  IF s.pat \in {Unset, <<>>} THEN Error(s) ELSE cv_repeat_srch(s, Opposite(s.patdir))

vi_undo_line(s) == hist_get(cv_undo(s))

\* The event is again what it was, when there is no such line.
There(s, event) == IF s.ret = "error" THEN [s EXCEPT !.event = event] ELSE s

\* The line whose number, as H_NEXT counts, the argument is: the newest of the
\* history, which is fetched first, has as its number how many there are.
Numbered(s, from, event) ==
  IF event < 0 THEN Error([s EXCEPT !.event = from]) ELSE There(hist_get([s EXCEPT !.event = event]), from)

\* Without an argument the oldest.
vi_to_history_line(s) ==
  LET from == Kept(s)
  IN  IF Past = <<>> THEN Error(IF s.doing THEN [from EXCEPT !.event = 1] ELSE from)
      ELSE IF s.doing
        THEN Numbered(hist_get([from EXCEPT !.event = 1]), s.event, 1 + Len(Past) - s.arg)
      ELSE There(hist_get([from EXCEPT !.event = Len(Past)]), s.event)

\* What comes back from the other editor is cut to the length of what went.
Unended(text) ==
  IF text # <<>> /\ text[Len(text)] = "newline" THEN SubSeq(text, 1, Len(text) - 1) ELSE text

Replaced(s, edited) ==
  IF s.ret = "error" THEN s
  ELSE ed_newline([s EXCEPT !.cursor = 0,
                     !.line = Unended(SubSeq(edited, 1, Clipped(Len(edited), Len(s.line))))])

vi_histedit(s, edited) ==
  Replaced(IF s.doing THEN vi_to_history_line(s) ELSE Done(s), edited)

\* The last word of the newest line, or the one the argument counts to, behind
\* a blank.
vi_history_word(s) ==
  LET l      == Past[1]
      ends   == {i \in 1..Len(l) : l[i] \notin Blanks /\ (i < Len(l) => l[i + 1] \in Blanks)}
      end    == IF s.doing THEN CHOOSE i \in ends : Cardinality({j \in ends : j <= i}) = s.arg
                ELSE Max(ends)
      start  == SkipDown(l, end, Chars \ Blanks)
      word   == <<" ">> \o SubSeq(l, start + 1, end)
      at     == cv_undo(s)
      behind == [at EXCEPT !.cursor = IF @ < Len(s.line) THEN @ + 1 ELSE @]
  IN  IF Past = <<>> THEN Error(s)
      ELSE IF ends = {} \/ (s.doing /\ s.arg \notin 1..Cardinality(ends)) THEN Error(s)
      ELSE IF ~CanInsert(s, Len(word)) THEN Done(Astray(InsertMode(behind)))
      ELSE Done(InsertMode(Typed(behind, word)))

\* A record that fills its buffer gives up its last key for the NUL.
Redoable(s) == SubSeq(s.redo.text, 1, Clipped(Len(s.redo.text), BufSiz - 1))

\* Mutant: the operator is not repeated.
RedoneBare(s) ==
  [s EXCEPT !.doing = @ \/ s.redo.count # 0,
            !.arg = IF ~s.doing /\ s.redo.count # 0 THEN s.redo.count ELSE @,
            !.pos = s.cursor,
            !.pushed = @ \o Redoable(s), !.redo.text = Redoable(s),
            !.cmd = s.redo.cmd, !.key = s.redo.key]

\* What vi_redo sets up for the command that it then runs.  The keys typed into
\* the line are read before what the user types, and after what else is pushed.
Redone(s) ==
  [s EXCEPT !.doing = @ \/ s.redo.count # 0,
            !.arg = IF ~s.doing /\ s.redo.count # 0 THEN s.redo.count ELSE @,
            !.pos = s.cursor, !.pending = s.redo.action,
            !.pushed = @ \o Redoable(s), !.redo.text = Redoable(s),
            !.cmd = s.redo.cmd, !.key = s.redo.key]

==============================================================================
