-------------------------------- MODULE Editor --------------------------------
(***************************************************************************)
(* el_gets, read.c: the loop that takes keys to commands through the map of *)
(* the mode, map.c, runs them, and returns a line.                         *)
(***************************************************************************)
EXTENDS ViCommands

CONSTANTS
  TypedKeys,   \* {<<map, key>>}: the keys the user types, by the map that is current
  UserKeys,    \* {<<key, command>>}: commands without a key, bound by the user
  TypedLines,  \* {<<type, keys>>}: what has been typed in which mode before
  Answers,     \* the answers to a prompt, [keys, end]
  Characters,  \* the characters typed for a command that asks for one
  EditedTexts, \* what another editor makes of the line
  MaxKeys      \* bound: how many keys are typed after that

ASSUME EditorAssumption ==
  /\ MaxKeys \in Nat /\ EditedTexts \subseteq Seq(Chars)
  /\ \A t \in TypedLines : Len(t[2]) \in Nat

VARIABLES
  ed,      \* the EditLine
  left,    \* the line the user left for another of the history, or Unset
  typed    \* how many keys have been typed

editorVars == <<ed, left, typed>>

-----------------------------------------------------------------------------
(* map.c: the maps, as pairs of a key and a command *)

\* The keys that both insert maps and the emacs map give to the character typed.
Inserting == {<<c, "ed_insert">> : c \in Chars \ (Digits \cup Controls \cup {"newline"})}

el_map_emacs ==
  Inserting \cup {<<d, "ed_digit">> : d \in Digits} \cup
  {<<"C-@", "em_set_mark">>, <<"C-a", "ed_move_to_beg">>, <<"C-b", "ed_prev_char">>,
   <<"C-c", "ed_tty_sigint">>, <<"C-d", "em_delete_or_list">>, <<"C-e", "ed_move_to_end">>,
   <<"C-f", "ed_next_char">>, <<"C-g", "ed_unassigned">>, <<"C-h", "em_delete_prev_char">>,
   <<"C-j", "ed_newline">>, <<"C-k", "ed_kill_line">>, <<"C-l", "ed_clear_screen">>,
   <<"C-n", "ed_next_history">>, <<"C-p", "ed_prev_history">>, <<"C-t", "ed_transpose_chars">>,
   <<"C-u", "em_kill_line">>, <<"C-v", "ed_quoted_insert">>, <<"C-w", "em_kill_region">>,
   <<"C-y", "em_yank">>, <<"M-C-h", "ed_delete_prev_word">>, <<"M-C-_", "em_copy_prev_word">>,
   <<"M-0", "ed_argument_digit">>, <<"M-2", "ed_argument_digit">>, <<"M-b", "ed_prev_word">>,
   <<"M-c", "em_capitol_case">>, <<"M-d", "em_delete_next_word">>, <<"M-f", "em_next_word">>,
   <<"M-l", "em_lower_case">>, <<"M-n", "ed_search_next_history">>,
   <<"M-p", "ed_search_prev_history">>, <<"M-u", "em_upper_case">>,
   <<"M-w", "em_copy_region">>, <<"M-x", "ed_command">>}

\* With the sequence that map_init_emacs adds; metanext is how M- keys are read
\* when they are not.
map_init_emacs == el_map_emacs \cup {<<"C-x C-x", "em_exchange_mark">>}

el_map_vi_insert ==
  Inserting \cup {<<d, "ed_insert">> : d \in Digits} \cup
  {<<"C-d", "vi_list_or_eof">>, <<"C-h", "vi_delete_prev_char">>, <<"C-j", "ed_newline">>,
   <<"C-u", "vi_kill_line_prev">>, <<"C-v", "ed_quoted_insert">>,
   <<"C-w", "ed_delete_prev_word">>, <<"esc", "vi_command_mode">>}

el_map_vi_command ==
  {<<"C-a", "ed_move_to_beg">>, <<"C-e", "ed_move_to_end">>, <<"C-h", "ed_delete_prev_char">>,
   <<"C-j", "ed_newline">>, <<"C-k", "ed_kill_line">>, <<"C-l", "ed_clear_screen">>,
   <<"C-u", "vi_kill_line_prev">>, <<"C-w", "ed_delete_prev_word">>,
   <<" ", "ed_next_char">>, <<"#", "vi_comment_out">>, <<"$", "ed_move_to_end">>,
   <<"%", "vi_match">>, <<"+", "ed_next_history">>, <<",", "vi_repeat_prev_char">>,
   <<"-", "ed_prev_history">>, <<".", "vi_redo">>, <<"/", "vi_search_prev">>,
   <<"0", "vi_zero">>, <<"1", "ed_argument_digit">>, <<"2", "ed_argument_digit">>,
   <<"3", "ed_argument_digit">>, <<":", "ed_command">>, <<";", "vi_repeat_next_char">>,
   <<"?", "vi_search_next">>, <<"@", "vi_alias">>, <<"A", "vi_add_at_eol">>,
   <<"B", "vi_prev_big_word">>, <<"C", "vi_change_to_eol">>, <<"D", "ed_kill_line">>,
   <<"E", "vi_end_big_word">>, <<"F", "vi_prev_char">>, <<"G", "vi_to_history_line">>,
   <<"I", "vi_insert_at_bol">>, <<"J", "ed_search_next_history">>,
   <<"K", "ed_search_prev_history">>, <<"N", "vi_repeat_search_prev">>,
   <<"P", "vi_paste_prev">>, <<"R", "vi_replace_mode">>, <<"S", "vi_substitute_line">>,
   <<"T", "vi_to_prev_char">>, <<"U", "vi_undo_line">>, <<"W", "vi_next_big_word">>,
   <<"X", "ed_delete_prev_char">>, <<"Y", "vi_yank_end">>, <<"^", "ed_move_to_beg">>,
   <<"_", "vi_history_word">>, <<"a", "vi_add">>, <<"b", "vi_prev_word">>,
   <<"c", "vi_change_meta">>, <<"d", "vi_delete_meta">>, <<"e", "vi_end_word">>,
   <<"f", "vi_next_char">>, <<"h", "ed_prev_char">>, <<"i", "vi_insert">>,
   <<"j", "ed_next_history">>, <<"k", "ed_prev_history">>, <<"l", "ed_next_char">>,
   <<"n", "vi_repeat_search_next">>, <<"p", "vi_paste_next">>, <<"r", "vi_replace_char">>,
   <<"s", "vi_substitute_char">>, <<"t", "vi_to_next_char">>, <<"u", "vi_undo">>,
   <<"v", "vi_histedit">>, <<"w", "vi_next_word">>, <<"x", "ed_delete_next_char">>,
   <<"y", "vi_yank">>, <<"|", "vi_to_column">>, <<"~", "vi_change_case">>}

\* The map that is current, and the command of a key.
MapOf(s) == IF s.type = "emacs" THEN "emacs" ELSE IF s.alt THEN "command" ELSE "insert"

Current(s) ==
  UserKeys \cup (CASE MapOf(s) = "emacs" -> map_init_emacs
                   [] MapOf(s) = "command" -> el_map_vi_command
                   [] MapOf(s) = "insert" -> el_map_vi_insert)

Command(s, key) ==
  LET bound == {b \in Current(s) : b[1] = key}
  IN  IF bound = {} THEN "ed_unassigned" ELSE (CHOOSE b \in bound : TRUE)[2]

\* The character that a command sees of its key: of M-2 the digit.
CharOf(key) ==
  CASE key = "M-0" -> "0" [] key = "M-2" -> "2" [] key = "C-j" -> "newline" [] OTHER -> key

\* What a command asks for once it runs.
AsksCharacter ==
  {"ed_quoted_insert", "vi_next_char", "vi_prev_char", "vi_to_next_char", "vi_to_prev_char"}
AsksString == {"ed_command", "vi_search_prev", "vi_search_next"}

\* The table of the commands; c is the character of the key, more what is asked.
CommonCommand(cmd, s, c, more) ==
  CASE cmd = "ed_insert" -> ed_insert(s, c)
    [] cmd = "ed_digit" -> ed_digit(s, c)
    [] cmd = "ed_argument_digit" -> ed_argument_digit(s, c)
    [] cmd = "ed_quoted_insert" -> ed_quoted_insert(s, more)
    [] cmd = "ed_command" -> ed_command(s, more)
    [] cmd = "ed_delete_prev_word" -> ed_delete_prev_word(s)
    [] cmd = "ed_delete_next_char" -> ed_delete_next_char(s)
    [] cmd = "ed_delete_prev_char" -> ed_delete_prev_char(s)
    [] cmd = "ed_kill_line" -> ed_kill_line(s)
    [] cmd = "ed_transpose_chars" -> ed_transpose_chars(s)
    [] cmd = "ed_newline" -> ed_newline(s)
    [] cmd = "ed_start_over" -> ed_start_over(s)
    [] cmd = "ed_tty_sigint" -> ed_tty_sigint(s)
    [] cmd = "ed_clear_screen" -> ed_clear_screen(s)
    [] cmd = "ed_move_to_end" -> ed_move_to_end(s)
    [] cmd = "ed_move_to_beg" -> ed_move_to_beg(s)
    [] cmd = "ed_next_char" -> ed_next_char(s)
    [] cmd = "ed_prev_char" -> ed_prev_char(s)
    [] cmd = "ed_prev_word" -> ed_prev_word(s)
    [] cmd = "ed_prev_line" -> ed_prev_line(s)
    [] cmd = "ed_next_line" -> ed_next_line(s)
    [] cmd = "ed_prev_history" -> ed_prev_history(s)
    [] cmd = "ed_next_history" -> ed_next_history(s)
    [] cmd = "ed_search_prev_history" -> ed_search_prev_history(s)
    [] cmd = "ed_search_next_history" -> ed_search_next_history(s)
    [] OTHER -> ed_unassigned(s)

EmacsCommand(cmd, s, c, more) ==
  CASE cmd = "em_delete_or_list" -> em_delete_or_list(s)
    [] cmd = "em_delete_next_word" -> em_delete_next_word(s)
    [] cmd = "em_yank" -> em_yank(s)
    [] cmd = "em_kill_line" -> em_kill_line(s)
    [] cmd = "em_kill_region" -> em_kill_region(s)
    [] cmd = "em_copy_region" -> em_copy_region(s)
    [] cmd = "em_gosmacs_transpose" -> em_gosmacs_transpose(s)
    [] cmd = "em_next_word" -> em_next_word(s)
    [] cmd = "em_upper_case" -> em_upper_case(s)
    [] cmd = "em_lower_case" -> em_lower_case(s)
    [] cmd = "em_capitol_case" -> em_capitol_case(s)
    [] cmd = "em_set_mark" -> em_set_mark(s)
    [] cmd = "em_exchange_mark" -> em_exchange_mark(s)
    [] cmd = "em_universal_argument" -> em_universal_argument(s)
    [] cmd = "em_toggle_overwrite" -> em_toggle_overwrite(s)
    [] cmd = "em_copy_prev_word" -> em_copy_prev_word(s)
    [] cmd = "em_delete_prev_char" -> em_delete_prev_char(s)
    [] OTHER -> CommonCommand(cmd, s, c, more)

ViMotion(cmd, s, c, more) ==
  CASE cmd = "vi_prev_big_word" -> vi_prev_big_word(s)
    [] cmd = "vi_prev_word" -> vi_prev_word(s)
    [] cmd = "vi_next_big_word" -> vi_next_big_word(s)
    [] cmd = "vi_next_word" -> vi_next_word(s)
    [] cmd = "vi_end_big_word" -> vi_end_big_word(s)
    [] cmd = "vi_end_word" -> vi_end_word(s)
    [] cmd = "vi_zero" -> vi_zero(s, c)
    [] cmd = "vi_to_column" -> vi_to_column(s)
    [] cmd = "vi_match" -> vi_match(s)
    [] cmd = "vi_next_char" -> vi_next_char(s, more)
    [] cmd = "vi_prev_char" -> vi_prev_char(s, more)
    [] cmd = "vi_to_next_char" -> vi_to_next_char(s, more)
    [] cmd = "vi_to_prev_char" -> vi_to_prev_char(s, more)
    [] cmd = "vi_repeat_next_char" -> vi_repeat_next_char(s)
    [] cmd = "vi_repeat_prev_char" -> vi_repeat_prev_char(s)
    [] OTHER -> EmacsCommand(cmd, s, c, more)

Run(cmd, s, c, more) ==
  CASE cmd = "vi_change_meta" -> vi_change_meta(s)
    [] cmd = "vi_delete_meta" -> vi_delete_meta(s)
    [] cmd = "vi_yank" -> vi_yank(s)
    [] cmd = "vi_yank_end" -> vi_yank_end(s)
    [] cmd = "vi_paste_next" -> vi_paste_next(s)
    [] cmd = "vi_paste_prev" -> vi_paste_prev(s)
    [] cmd = "vi_change_case" -> vi_change_case(s)
    [] cmd = "vi_insert" -> vi_insert(s)
    [] cmd = "vi_insert_at_bol" -> vi_insert_at_bol(s)
    [] cmd = "vi_add" -> vi_add(s)
    [] cmd = "vi_add_at_eol" -> vi_add_at_eol(s)
    [] cmd = "vi_replace_mode" -> vi_replace_mode(s)
    [] cmd = "vi_replace_char" -> vi_replace_char(s)
    [] cmd = "vi_substitute_char" -> vi_substitute_char(s)
    [] cmd = "vi_substitute_line" -> vi_substitute_line(s)
    [] cmd = "vi_change_to_eol" -> vi_change_to_eol(s)
    [] cmd = "vi_undo" -> vi_undo(s)
    [] cmd = "vi_undo_line" -> vi_undo_line(s)
    [] cmd = "vi_delete_prev_char" -> vi_delete_prev_char(s)
    [] cmd = "vi_kill_line_prev" -> vi_kill_line_prev(s)
    [] cmd = "vi_command_mode" -> vi_command_mode(s)
    [] cmd = "vi_list_or_eof" -> vi_list_or_eof(s)
    [] cmd = "vi_comment_out" -> vi_comment_out(s)
    [] cmd = "vi_alias" -> vi_alias(s)
    [] cmd = "vi_search_prev" -> vi_search_prev(s, more)
    [] cmd = "vi_search_next" -> vi_search_next(s, more)
    [] cmd = "vi_repeat_search_next" -> vi_repeat_search_next(s)
    [] cmd = "vi_repeat_search_prev" -> vi_repeat_search_prev(s)
    [] cmd = "vi_to_history_line" -> vi_to_history_line(s)
    [] cmd = "vi_histedit" -> vi_histedit(s, more)
    [] cmd = "vi_history_word" -> vi_history_word(s)
    [] OTHER -> ViMotion(cmd, s, c, more)

-----------------------------------------------------------------------------
(* read.c: the loop *)

\* el_getc, for a command: a key that is pushed comes before what is typed.
Getc(s, more)  == IF s.pushed = <<>> THEN more ELSE CharOf(Head(s.pushed))
Popped(s)         == [s EXCEPT !.pushed = IF @ = <<>> THEN @ ELSE Tail(@)]

\* In vi the keys typed into the line are recorded for vi_redo.
Recorded(s, cmd, key) ==
  LET text == s.redo.text
  IN  IF s.type = "emacs" \/ s.alt \/ Len(text) >= BufSiz THEN s
      ELSE IF /\ cmd = "vi_delete_prev_char" /\ text # <<>>
              /\ text[Len(text)] \in Chars \ (Controls \cup {"newline"})
        THEN [s EXCEPT !.redo.text = SubSeq(text, 1, Len(text) - 1)]
      ELSE [s EXCEPT !.redo.text = Append(@, key)]

\* One command with the character of its key and what it asks for.
Perform(s, cmd, key, more) ==
  LET asks == cmd \in AsksCharacter
  IN  Run(cmd, IF asks THEN Popped(s) ELSE s, CharOf(key), IF asks THEN Getc(s, more) ELSE more)

\* What the command leaves for the next one, unless it only takes an argument.
Finished(s, cmd) ==
  IF s.ret = "arghack" THEN [s EXCEPT !.last = cmd]
  ELSE [s EXCEPT !.last = cmd, !.arg = 1, !.doing = FALSE, !.pending = None]

\* One round of the loop of el_gets.  vi_redo runs another command in its place.
Started(s, cmd, key) ==
  IF cmd = "vi_redo" THEN Redone([Recorded(s, cmd, key) EXCEPT !.cmd = cmd, !.key = key])
  ELSE [Recorded(s, cmd, key) EXCEPT !.cmd = cmd, !.key = key]

Processed(s, key, more) ==
  LET cmd   == Command(s, key)
      start == Started(s, cmd, key)
  IN  Finished(Perform(start, start.cmd, start.key, more), cmd)

InLoop(s) == s.ret \notin {"newline", "eof"} /\ ~s.astray

\* The command that asks, and what is typed for it.
AsksText       == {"vi_histedit"}
Asking(s, cmd) == IF cmd = "vi_redo" THEN s.redo.cmd ELSE cmd
MoreFor(s, cmd) ==
  IF Asking(s, cmd) \in AsksCharacter THEN Characters
  ELSE IF Asking(s, cmd) \in AsksString THEN Answers
  ELSE IF Asking(s, cmd) \in AsksText THEN EditedTexts
  ELSE {None}
AsksMore == AsksCharacter \cup AsksString \cup AsksText

\* What has been typed before, key by key, as long as the loop goes on; a key that
\* asks for more is left out.
Retyped(s, keys) ==
  LET f[i \in 0..Len(keys)] ==
        IF i = 0 THEN s
        ELSE LET t == f[i - 1]
             IN  IF InLoop(t) /\ Asking(t, Command(t, keys[i])) \notin AsksMore
                   THEN Processed(t, keys[i], None) ELSE t
  IN  f[Len(keys)]

\* The searches of vi empty the line before they look whether it is to be kept.
Emptying ==
  {"vi_search_prev", "vi_search_next", "vi_repeat_search_next", "vi_repeat_search_prev"}

Reads(s, key) ==
  \E more \in MoreFor(s, Command(s, key)) :
    /\ ed' = Processed(s, key, more)
    /\ left' = IF ed'.event = 0 THEN Unset
               ELSE IF ed.event # 0 THEN left
               ELSE IF Asking(s, Command(s, key)) \in Emptying THEN <<>> ELSE ed.line

-----------------------------------------------------------------------------
(* Init and the actions *)

\* It starts on a line of the user's, not on one of the history.
EditorInit ==
  /\ \E t \in TypedLines : ed = Retyped(ch_init(t[1]), t[2])
  /\ ed.event = 0
  /\ left = Unset
  /\ typed = 0

\* The user types a key.
Type ==
  /\ InLoop(ed) /\ ed.pushed = <<>> /\ typed < MaxKeys
  /\ typed' = typed + 1
  /\ \E k \in TypedKeys : k[1] = MapOf(ed) /\ Reads(ed, k[2])

\* A key that is pushed is read.
ReadPushed ==
  /\ InLoop(ed) /\ ed.pushed # <<>>
  /\ Reads(Popped(ed), Head(ed.pushed))
  /\ UNCHANGED typed

\* el_gets has returned the line, or that there is none, and is called again.
el_gets ==
  /\ ed.ret \in {"newline", "eof"} /\ ~ed.astray
  /\ ed' = Done(ch_reset(ed))
  /\ left' = Unset
  /\ UNCHANGED typed

EditorNext == Type \/ ReadPushed \/ el_gets

EditorSpec == EditorInit /\ [][EditorNext]_editorVars

-----------------------------------------------------------------------------
(* Properties *)

\* The cursor, what is undone, the history shown and the room there is belong
\* together: nothing the commands do leaves a buffer, except where the code is
\* known to go astray.
InBounds ==
  ed.astray \/
  /\ ed.cursor \in 0..Len(ed.line) /\ Len(ed.line) <= Limit(ed) /\ ed.size <= MaxSize
  /\ Len(ed.kill) <= Limit(ed)
  /\ ed.undo.kept =>
       ed.undo.cursor \in 0..Len(ed.undo.line) /\ Len(ed.undo.line) <= Limit(ed)
  /\ ed.pending # None => ed.pos \in 0..Len(ed.line)
  /\ Past # <<>> => ed.event \in 0..Len(Past)

\* The commands that put another line in place of the one that is edited, or end it.
Replacing ==
  {"ed_prev_history", "ed_next_history", "ed_search_prev_history", "ed_search_next_history",
   "vi_search_prev", "vi_search_next", "vi_repeat_search_next", "vi_repeat_search_prev",
   "vi_to_history_line", "vi_histedit", "vi_comment_out", "ed_newline", "ed_command"}

\* A step of the loop in vi's command mode that changes the line under edit.
LineChanges == ed.type = "vi" /\ ed.alt /\ ed'.line # ed.line /\ ~ed'.astray
               /\ ed'.cmd \notin Replacing /\ ed.ret \notin {"newline", "eof"}

\* vi.c, vi_undo(), "Vi undo last change": in command mode the undo buffer holds
\* the line as it was before the last change to it, whatever made the change;
\* the command D, which kills the line and saves nothing, is left out.
UndoHoldsLine ==
  [][LineChanges /\ ed'.cmd # "ed_kill_line" =>
       ed'.undo.kept /\ ed'.undo.line = ed.line /\ ed'.undo.cursor \in 0..Len(ed.line)]_editorVars

\* What a command takes out of the line in command mode is in the cut buffer,
\* and put back where it was it gives the line again.
DeletedIsKept ==
  [][LineChanges /\ Len(ed'.line) < Len(ed.line) /\ ed'.cmd \notin {"vi_undo", "vi_undo_line"} =>
       \E i \in 0..Len(ed'.line) :
         ed.line = SubSeq(ed'.line, 1, i) \o ed'.kill \o SubSeq(ed'.line, i + 1, Len(ed'.line))]_editorVars

\* The line that was left for the history is there again when the user comes back
\* from it, as far as EL_BUFSIZ characters of it, unless with ed_start_over.
ReturnsToTyped ==
  [][ed.event > 0 /\ ed'.event = 0 /\ InLoop(ed) /\ ed'.ret # "newline"
       /\ ed'.cmd # "ed_start_over" =>
       ed'.line = KeptLine(left)]_editorVars

\* A change repeated with vi_redo does what it would do typed again: its count,
\* its operator and its key.
OperatorKey(action) == CASE action = "delete" -> "d" [] action = "change" -> "c"
                         [] action = "yank" -> "y"

Counted(s) ==
  IF s.doing \/ s.redo.count = 0 THEN s ELSE [s EXCEPT !.doing = TRUE, !.arg = s.redo.count]

\* First the operator, when there was one, and then the key.
TypedAgain(s) ==
  LET operator == IF s.redo.action = None THEN <<>> ELSE <<OperatorKey(s.redo.action)>>
  IN  Retyped(Counted(s), Append(operator, s.redo.key))

\* A round of the loop in which vi_redo repeats such a change.
Repeats ==
  /\ ed.alt /\ ed.pending = None /\ ed'.last = "vi_redo" /\ typed' = typed + 1
  /\ Command(ed, ed.redo.key) = ed.redo.cmd
  /\ ed.redo.cmd \notin AsksMore

SameEffect(x, y) ==
  <<x.line, x.cursor, x.kill, x.alt, x.ret>> = <<y.line, y.cursor, y.kill, y.alt, y.ret>>

RedoIsRetyping ==
  [][Repeats => SameEffect(ed', TypedAgain(ed))]_editorVars

==============================================================================
