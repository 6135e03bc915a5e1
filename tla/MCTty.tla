--------------------------------- MODULE MCTty ---------------------------------
EXTENDS Tty

MCOriginal ==
  [iflag |-> {"ICRNL", "IXON"}, oflag |-> {"OPOST", "ONLCR"}, cflag |-> {},
   lflag |-> {"ISIG", "ICANON", "ECHO", "ECHOE", "ECHOK", "ECHOCTL", "IEXTEN"},
   cc |-> [erase |-> "C-?", werase |-> Off, susp |-> "C-z", min |-> "1"]]
MCUserBits == {<<"lflag", "TOSTOP">>, <<"iflag", "IXON">>, <<"cflag", "CSTOPB">>}
MCUserChars == {<<"werase", "C-x">>, <<"susp", "C-y">>, <<"werase", "C-w">>}
MCSettyBits == {<<"ex", "iflag", "INLCR", " ">>, <<"ed", "lflag", "ISIG", "-">>}
MCSettyChars == {<<"ed", "werase", "C-t">>, <<"ex", "werase", "C-t">>}
===============================================================================
