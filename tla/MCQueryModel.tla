----------------------------- MODULE MCQueryModel -----------------------------
(* QueryModel for TLC; its bounds are in QueryModel.cfg. *)
EXTENDS QueryModel

\* What differs between rows is which cells they have, and their objects:
\* subjects, predicates and graphs are one URI, objects are URIs or literals,
\* and they are bound in the order s, p, o, with g anywhere.  A variable of
\* another name may only be bound once, and librdf fails in one row at most.
FewNodes ==
  /\ \A c \in {"g", "s", "p"} : cells[c] \in {NULL, Node("uri", <<"true">>, {})}
  /\ cells["o"] # NULL => cells["o"].text # <<>> /\ cells["o"].kind # "bnode"
  /\ cells["o"] # NULL => cells["p"] # NULL
  /\ cells["p"] # NULL => cells["s"] # NULL
  /\ values <= 1
  /\ blurred => rowsRead = <<>>
==============================================================================
