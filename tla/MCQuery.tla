------------------------------- MODULE MCQuery -------------------------------
(* Query for TLC; its bounds are in Query.cfg. *)
EXTENDS Query, TLC

\* Several rows, or several variables, or links, or attributes.
Narrow == /\ Len(variables) + Len(rows) + linkcount <= 3
          /\ linkcount # 0 => rows = <<>>
          /\ attrs # {} => Len(variables) + Len(rows) <= 2

Symmetry == Permutations(Names)
==============================================================================
