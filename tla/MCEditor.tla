------------------------------- MODULE MCEditor -------------------------------
EXTENDS Editor

MCPast == << <<"a", " ", "b", ".", " ", "newline">>, <<"b", "newline">> >>
MCMixed == <<"a", "B", " ", "(", "c", ")">>
MCTypedLines ==
  {"emacs"} \X {<<>>, MCMixed, MCMixed \o <<"M-C-h">>, <<"a", "b", "C-@", "a", "b", "a", "b">>,
                 <<"a", "C-@", "b", "M-2", "M-2", "a">>}
    \cup {"vi"} \X {<<>>, MCMixed \o <<"esc">>, MCMixed \o <<"esc", "d", "h">>,
                    MCMixed \o <<"esc", "2", "b", "c", "b", "b", "esc">>,
                    MCMixed \o <<"esc", "2", "X">>}
MCUserKeys ==
  {<<"C-o", "em_toggle_overwrite">>, <<"C-q", "em_universal_argument">>}
Same == {"C-c", "C-l", "C-n", "C-p", " ", "+", "-", "C-a", "C-e", "3", ":", "@", "C-k", "C-h"}
MCTypedKeys ==
  {"emacs"} \X (({b[1] : b \in map_init_emacs \cup MCUserKeys} \ (Chars \cup {"C-l"}))
                  \cup {"a", "B", " ", "."})
    \cup {"insert"} \X {"a", "B", " ", "esc", "C-h", "C-u", "C-w", "C-v", "C-j", "C-d"}
    \cup {"command"} \X ({b[1] : b \in el_map_vi_command} \ Same)
MCAnswers == {[keys |-> <<"b">>, end |-> "enter"], [keys |-> <<"a", "bs", ".">>, end |-> "esc"],
              [keys |-> <<>>, end |-> "enter"], [keys |-> <<"bs">>, end |-> "enter"],
              [keys |-> <<>>, end |-> "eof"],
              [keys |-> <<"a", "bs", "bs", "bs", "bs", ".", "b">>, end |-> "enter"]}

\* The buffer of 20 can be had; of one of 40 the line's, and not the cut buffer.
MCRefused(size) == IF size = 40 THEN "kill" ELSE "line"
MCCharacters == {"a", "c", "eof"}
MCEditedTexts == {<<>>, <<"b", "newline">>, <<"a", "b", "newline">>}
===============================================================================
