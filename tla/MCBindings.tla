------------------------------ MODULE MCBindings ------------------------------
EXTENDS Bindings

MCChars == {"C-@", "C-w", "C-x", "esc", "[", "A", "b", "d", "u", "M-b"}
Table(rest, given) == [c \in MCChars |-> IF c \in DOMAIN given THEN given[c] ELSE rest]
MCemacs == Table("ed_insert",
  [x \in {"C-@", "C-w", "C-x", "esc", "M-b"} |->
     CASE x = "C-@" -> "em_set_mark" [] x = "C-w" -> "em_kill_region" [] x = "C-x" -> Lead
       [] x = "esc" -> MetaNext [] x = "M-b" -> "ed_prev_word"])
MCvii == Table("ed_insert",
  [x \in {"C-@", "C-w", "esc"} |->
     CASE x = "C-@" -> Unassigned [] x = "C-w" -> "ed_delete_prev_word"
       [] x = "esc" -> "vi_command_mode"])
MCvic == Table(Unassigned,
  [x \in {"C-w", "esc", "[", "A", "b", "u"} |->
     CASE x = "C-w" -> "ed_delete_prev_word" [] x = "esc" -> MetaNext [] x = "[" -> Lead
       [] x = "A" -> "vi_add_at_eol" [] x = "b" -> "vi_prev_word" [] x = "u" -> "vi_undo"])
MCMetas == << <<"M-b", "b">> >>
MCAnsi == << << <<"esc", "[", "A">>, "up" >> >>
MCArrows == << [name |-> "up", first |-> "u", cmd |-> "ed_prev_history"],
               [name |-> "delete", first |-> "d", cmd |-> "ed_delete_next_char"] >>
MCtty_map == << [fn |-> "werase", bind |-> <<"ed_delete_prev_word", "ed_delete_prev_word", "ed_prev_word">>],
                [fn |-> "lnext", bind |-> <<"ed_quoted_insert", "ed_quoted_insert", Unassigned>>] >>
MCTtyChars == [werase |-> "C-@", lnext |-> "C-@"]
MCTtyChoices == {"C-w"}
Sends(up, delete) == [a \in {"up", "delete"} |-> IF a = "up" THEN up ELSE delete]
MCTerminals == {Sends(<<>>, <<>>), Sends(<<"C-x", "A">>, <<>>), Sends(<<"C-w">>, <<"C-x", "b">>),
                Sends(<<"esc", "[", "A">>, <<>>)}
MCKeys == {<<"C-x">>, <<"C-x", "C-x">>, <<"C-x", "b">>, <<"C-x", "b", "u">>, <<"esc", "[", "A">>,
           <<"esc", "b">>, <<"u">>}
===============================================================================
