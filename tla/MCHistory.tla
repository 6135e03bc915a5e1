------------------------------ MODULE MCHistory ------------------------------
(* History for TLC; its bounds are in History.cfg. *)
EXTENDS History

\* A newline and a backslash, which are eight bytes in the file, as many as
\* fgetln's buffer has, so that it reads but seven of them at first; and two
\* letters, which stand there as they are and fill history_load's buffer.
Typed == {<<10, 92>>, <<97, 97>>}

\* The view: no step reads what the last call returned, and the invariants ask of
\* it only whether a walk has come to its end.
Told == <<store, modes, files, walk, walk # <<>> /\ ret.value = -1>>

Restored(text) == strunvis(strvis(text)) = text

Sample == {7, 9, 10, 32, 34, 48, 55, 56, 63, 77, 92, 94, 97, 127, 128, 155, 160, 225, 255}

\* strunvis undoes strvis, for every byte and for pairs that could run into one
\* another.
ASSUME Decodable ==
  /\ \A c \in 1..255 : Restored(<<c>>)
  /\ \A c, d \in Sample : Restored(<<c, d>>)
==============================================================================
