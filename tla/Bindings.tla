-------------------------------- MODULE Bindings --------------------------------
(***************************************************************************)
(* The key bindings of libedit: the two maps of map.c, which take a        *)
(* character to a command, the tree of keymacro.c, which both maps share   *)
(* and which takes longer sequences to commands and strings, the arrow     *)
(* keys of terminal.c and the terminal's own characters of tty.c, which    *)
(* are bound again whenever one of them changes.                           *)
(*                                                                         *)
(* A sequence is the list of its characters, the tree the set of the paths *)
(* to its nodes with what each holds.  A parameter el is the EditLine.     *)
(***************************************************************************)
EXTENDS Naturals, SequencesExt

CONSTANTS
  Chars,                      \* characters
  emacs, vii, vic,            \* the tables of map.c, [Chars -> commands]
  Metas,                      \* the Meta characters in their order, <<c, c without the bit>>
  Printable,                  \* those of them that isprint() takes
  Ansi,                       \* <<key, arrow>>: the sequences of terminal_reset_arrow
  Arrows,                     \* the arrow keys in their order, [name, first, cmd]
  tty_map,                    \* [fn, bind]: commands of the terminal's characters
  TtyChars, TtyChoices,       \* their characters, as they are and as they may become
  Terminals,                  \* [arrow -> key]: what terminals send for the arrow keys
  Keys, Commands, Strings,    \* what the user binds, and to what
  MaxCalls                    \* bound: how many calls are made

Lead == "ed_sequence_lead_in"
Unassigned == "ed_unassigned"
MetaNext == "em_meta_next"

\* The tables have a command for each character, and the keys are keys.
ASSUME TablesAssumption ==
  /\ {"C-@", "C-x", "esc"} \subseteq Chars /\ TtyChoices \subseteq Chars
  /\ DOMAIN emacs = Chars /\ DOMAIN vii = Chars /\ DOMAIN vic = Chars
  /\ Metas \in Seq(Chars \X Chars)
  /\ Len(Ansi) \in Nat /\ DOMAIN Ansi = 1..Len(Ansi)
  /\ Len(Arrows) \in Nat /\ DOMAIN Arrows = 1..Len(Arrows)
  /\ Len(tty_map) \in Nat
  /\ \A i \in 1..Len(Ansi) : Ansi[i][1] \in Seq(Chars) /\ Len(Ansi[i][1]) > 1
  /\ \A i \in 1..Len(Arrows) : Arrows[i].first \in Chars
  /\ \A i \in 1..Len(tty_map) : tty_map[i].fn \in DOMAIN TtyChars
  /\ \A f \in DOMAIN TtyChars : TtyChars[f] \in Chars
  /\ \A t \in Terminals, i \in 1..Len(Arrows) :
       Arrows[i].name \in DOMAIN t /\ t[Arrows[i].name] \in Seq(Chars)

\* No key is empty, and nobody binds a key to ed-sequence-lead-in.
ASSUME BindingsAssumption ==
  /\ MaxCalls \in Nat
  /\ Keys \subseteq Seq(Chars) \ {<<>>}
  /\ Lead \notin Commands

\* One begins the other.
Meet(s, t) == IsPrefix(s, t) \/ IsPrefix(t, s)

\* The escape character is the one Meta key of a table, is no character of the terminal
\* and begins all sequences of terminal_reset_arrow.  These get in the way of none but
\* themselves, and of what a terminal sends only for the same arrow key.
ASSUME ArrowsAssumption ==
  /\ \A c \in Chars : /\ emacs[c] = MetaNext <=> c = "esc"
                      /\ vic[c] = MetaNext <=> c = "esc"
                      /\ vii[c] # MetaNext
  /\ "esc" \notin Printable \cup TtyChoices /\ \A f \in DOMAIN TtyChars : TtyChars[f] # "esc"
  /\ \A i \in 1..Len(Arrows) : Arrows[i].cmd # Lead
  /\ \A i \in 1..Len(Ansi) : /\ Ansi[i][1][1] = "esc" /\ Ansi[i][1][2] # "esc"
                             /\ \E j \in 1..Len(Arrows) : Ansi[i][2] = Arrows[j].name
                             /\ \A j \in 1..Len(Ansi) :
                                  Meet(Ansi[i][1], Ansi[j][1]) => Ansi[i] = Ansi[j]
  /\ \A t \in Terminals, i \in 1..Len(Arrows), j \in 1..Len(Ansi) :
       LET s == t[Arrows[i].name]
       IN  s # <<>> /\ Meet(s, Ansi[j][1]) => s = Ansi[j][1] /\ Arrows[i].name = Ansi[j][2]

VARIABLES
  el,     \* the EditLine
  user,   \* <<map, key>> to value: what the user has bound, and nothing has named since
  made    \* how many calls have been made

vars == <<el, user, made>>

\* Do, one by one, with the members of s.
Each(Do(_, _), e, s) ==
  LET f[i \in 0..Len(s)] == IF i = 0 THEN e ELSE Do(f[i - 1], s[i])
  IN  f[Len(s)]

-----------------------------------------------------------------------------
(* keymacro.c *)

keymacro_map_cmd(c) == [type |-> "cmd", val |-> c]
keymacro_map_str(t) == [type |-> "str", val |-> t]
node__get == [type |-> "nod", val |-> "none"]

Leaves(tree) == {p \in DOMAIN tree : \A q \in DOMAIN tree : ~IsStrictPrefix(p, q)}
Bound(tree) == [p \in Leaves(tree) |-> tree[p]]

keymacro_reset(e) == [e EXCEPT !.tree = <<>>, !.calls = Append(@, [op |-> "reset"])]

\* A node is made for each beginning of the key that has none; longer keys are lost.
node__try(tree, key, v) ==
  LET kept == {p \in DOMAIN tree : ~IsStrictPrefix(key, p)}
  IN  [p \in kept \cup (Prefixes(key) \ {<<>>}) |->
         IF p = key THEN v ELSE IF p \in kept THEN tree[p] ELSE node__get]

\* XK_NOD, the type of an arrow key that has been removed, is no type to add.
keymacro_add(e, key, v) ==
  IF e.aborted \/ v = keymacro_map_cmd(Lead) THEN e
  ELSE IF v.type = "nod" THEN [e EXCEPT !.aborted = TRUE]
  ELSE [e EXCEPT !.tree = node__try(@, key, v),
                 !.calls = Append(@, [op |-> "add", key |-> key, val |-> v])]

\* Mutant: the nodes above stay.
node__deleteKeepsStems(tree, key) == [p \in {p \in DOMAIN tree : ~IsPrefix(key, p)} |-> tree[p]]

\* The nodes above go too as far as nothing else hangs on them.
node__delete(tree, key) ==
  LET rest == {p \in DOMAIN tree : ~IsPrefix(key, p)}
      bare == {p \in rest : /\ IsStrictPrefix(p, key)
                            /\ \A q \in rest : IsStrictPrefix(p, q) => IsPrefix(q, key)}
  IN  IF key \in DOMAIN tree THEN [p \in rest \ bare |-> tree[p]] ELSE tree

keymacro_delete(e, key) ==
  [e EXCEPT !.tree = node__delete(@, key),
            !.calls = Append(@, [op |-> "delete", key |-> key])]

Other(map) == IF map = "key" THEN "alt" ELSE "key"

\* Mutant: the other map is not asked.
keymacro_clearAnyway(e, map, key) ==
  IF e[map][key[1]] = Lead THEN keymacro_delete(e, key) ELSE e

\* What begins with the key is deleted if this map led to it and the other does not.
keymacro_clear(e, map, key) ==
  IF e[map][key[1]] = Lead /\ e[Other(map)][key[1]] # Lead THEN keymacro_delete(e, key) ELSE e

-----------------------------------------------------------------------------
(* The keys that libedit binds itself *)

Vi(e) == e.type = "vi"

\* The old character gets its command of the table back, the new one that of tp.
Rebound(e, map, old, new, table, cmd) ==
  LET e1 == keymacro_clear(e, map, <<old>>)
      e2 == keymacro_clear([e1 EXCEPT ![map][old] = table[old]], map, <<new>>)
  IN  [e2 EXCEPT ![map][new] = cmd]

Rebind(d, tp, force) ==
  LET new == d.new[tp.fn]
      old == d.old[tp.fn]
  IN  IF new = old /\ ~force THEN d
      ELSE IF Vi(d)
      THEN Rebound(Rebound(d, "key", old, new, vii, tp.bind[2]), "alt", old, new, vic, tp.bind[3])
      ELSE Rebound(d, "key", old, new, emacs, tp.bind[1])

tty_bind_char(e, force) == Each(LAMBDA d, tp : Rebind(d, tp, force), e, tty_map)

AddArrow(d, a) == keymacro_add(d, a[1], d.arrow[a[2]])
AddTail(d, a)  == keymacro_add(d, Tail(a[1]), d.arrow[a[2]])

\* In vi mode also without the escape character.
terminal_reset_arrow(e) ==
  IF Vi(e) THEN Each(AddTail, Each(AddArrow, e, Ansi), Ansi) ELSE Each(AddArrow, e, Ansi)

\* What the terminal sends for an arrow key, unless its first character does something.
BindArrow(d, a, map, table) ==
  LET s == d.str[a.name]
      f == d.arrow[a.name]
  IN  IF d.aborted \/ s = <<>> THEN d
      ELSE IF f.type = "nod" THEN keymacro_clear(d, map, s)
      ELSE IF Len(s) > 1 /\ d[map][s[1]] \in {table[s[1]], Lead}
      THEN [keymacro_add(d, s, f) EXCEPT ![map][s[1]] = Lead]
      ELSE IF d[map][s[1]] # Unassigned THEN d
      ELSE IF f.type = "cmd" THEN [keymacro_clear(d, map, s) EXCEPT ![map][s[1]] = f.val]
      ELSE keymacro_add(keymacro_clear(d, map, s), s, f)

terminal_bind_arrow(e) ==
  LET map == IF Vi(e) THEN "alt" ELSE "key"
      table == IF Vi(e) THEN vic ELSE emacs
  IN  Each(LAMBDA d, a : BindArrow(d, a, map, table), terminal_reset_arrow(e), Arrows)

\* The map and the key of em_meta_next; the escape key if no map has it.
MetaMap(e) ==
  LET with == {map \in {"key", "alt"} : \E c \in Chars : e[map][c] = MetaNext}
  IN  IF "key" \in with THEN "key" ELSE IF "alt" \in with \/ Vi(e) THEN "alt" ELSE "key"
MetaKey(e) ==
  LET with == {c \in Chars : e[MetaMap(e)][c] = MetaNext}
  IN  IF with = {} THEN "esc" ELSE CHOOSE c \in with : TRUE

AddMeta(d, m, map, key) ==
  IF d[map][m[1]] \in {"ed_insert", Unassigned, Lead} THEN d
  ELSE keymacro_add(d, <<key, m[2]>>, keymacro_map_cmd(d[map][m[1]]))

\* Mutant: the map does not lead to the sequences.
map_init_metaUnled(e) == Each(LAMBDA d, m : AddMeta(d, m, MetaMap(e), MetaKey(e)), e, Metas)

\* The Meta keys become sequences that begin with that key.
map_init_meta(e) == [map_init_metaUnled(e) EXCEPT ![MetaMap(e)][MetaKey(e)] = Lead]

map_init_nls(e) ==
  [e EXCEPT !.key = [c \in Chars |-> IF c \in Printable THEN "ed_insert" ELSE @[c]]]

map_init_vi(e) ==
  LET e1 == [keymacro_reset(e) EXCEPT !.type = "vi", !.key = vii, !.alt = vic]
  IN  terminal_bind_arrow(tty_bind_char(map_init_nls(map_init_meta(e1)), TRUE))

map_init_emacs(e) ==
  LET e1 == [keymacro_reset(e) EXCEPT !.type = "emacs", !.key = emacs,
                                      !.alt = [c \in Chars |-> Unassigned]]
      e2 == keymacro_add(map_init_nls(map_init_meta(e1)), <<"C-x", "C-x">>,
                         keymacro_map_cmd("em_exchange_mark"))
  IN  terminal_bind_arrow(tty_bind_char(e2, TRUE))

terminal_init_arrow ==
  [a \in {Arrows[i].name : i \in DOMAIN Arrows} |->
     keymacro_map_cmd((CHOOSE x \in Range(Arrows) : x.name = a).cmd)]

\* el_init: the maps are made before the terminal's characters are known.
el_init(terminal) ==
  LET zero == [f \in DOMAIN TtyChars |-> "C-@"]
      e == map_init_emacs([type |-> "emacs", key |-> emacs, alt |-> emacs, tree |-> <<>>,
                           arrow |-> terminal_init_arrow, str |-> terminal,
                           new |-> zero, old |-> zero, aborted |-> FALSE, calls |-> <<>>])
  IN  tty_bind_char([e EXCEPT !.new = TtyChars, !.old = TtyChars], TRUE)
-----------------------------------------------------------------------------
(* read.c: what a key does in a map *)

Nothing == [type |-> "str", val |-> "none"]
Crash == [type |-> "crash", val |-> "none"]
EndOfFile == keymacro_map_cmd("ed_end_of_file")

\* A sequence that ends before its key does is the end of the file; one that has
\* no key is nothing, and a beep.  In an empty tree the first node is a NULL pointer.
node_trav(tree, s) ==
  LET met == {p \in Leaves(tree) : IsPrefix(p, s)}
  IN  CASE tree = <<>> -> Crash
        [] met # {} -> tree[CHOOSE p \in met : TRUE]
        [] tree # <<>> /\ met = {} /\ s \in DOMAIN tree -> EndOfFile
        [] OTHER -> Nothing

read_getcmd(e, map, s) ==
  IF e[map][s[1]] = Lead THEN node_trav(e.tree, s) ELSE keymacro_map_cmd(e[map][s[1]])

-----------------------------------------------------------------------------
(* What the user calls: bind, which is map_bind, terminal and stty *)

\* The bindings of the user that a call does not name.  The tree is shared: of two
\* maps that bind the same key there, or one that begins with the other, the last is
\* the one that stands.
InTree(u) == Len(u[2]) > 1 \/ user[u].type = "str"
Clashes(u, s) == Meet(s, u[2])
Without(named) == [u \in DOMAIN user \ named |-> user[u]]
With(named, key, v) ==
  [u \in (DOMAIN user \ named) \cup {key} |-> IF u = key THEN v ELSE user[u]]

Call(e) == /\ made < MaxCalls
           /\ ~el.aborted
           /\ made' = made + 1
           /\ el' = e

Begun == [el EXCEPT !.calls = <<>>]

MapSet(e, map, c, cmd) == [e EXCEPT ![map][c] = cmd]

\* bind -e, bind -v and el_set(EL_EDITOR).
Switch(editor) ==
  /\ Call(IF editor = "vi" THEN map_init_vi(Begun) ELSE map_init_emacs(Begun))
  /\ user' = <<>>

\* bind -r.
RemoveKey(map, s) ==
  LET leads == Len(s) > 1 \/ el[map][s[1]] = Lead
  IN  /\ Call(IF leads THEN keymacro_delete(Begun, s) ELSE MapSet(Begun, map, s[1], Unassigned))
      /\ user' = Without(IF leads THEN {u \in DOMAIN user : InTree(u) /\ IsPrefix(s, u[2])}
                         ELSE {<<map, s>>} \cap DOMAIN user)

\* bind -r -k: the key keeps its sequences, and loses what to add for them.
RemoveArrow(a) ==
  /\ Call([Begun EXCEPT !.arrow[a] = node__get])
  /\ UNCHANGED user

Taken(map, s) ==
  {u \in DOMAIN user : (InTree(u) /\ Clashes(u, s)) \/ u = <<map, <<s[1]>>>>}

\* bind -s.
BindString(map, s, t) ==
  LET v == keymacro_map_str(t)
  IN  /\ Call(MapSet(keymacro_add(Begun, s, v), map, s[1], Lead))
      /\ user' = With(Taken(map, s), <<map, s>>, v)

\* bind -s -k keeps a pointer into the frame of map_bind, and makes a lead-in of the
\* first letter of the name of the arrow key.
BindArrowString(map, i) ==
  LET a == Arrows[i]
  IN  /\ Call(MapSet([Begun EXCEPT !.arrow[a.name] = keymacro_map_str("dangling")],
                     map, a.first, Lead))
      /\ user' = Without({<<map, <<a.first>>>>} \cap DOMAIN user)

\* bind of a command.
BindCommand(map, s, c) ==
  LET v == keymacro_map_cmd(c)
      taken == IF Len(s) > 1 THEN Taken(map, s)
               ELSE {u \in DOMAIN user : u[1] = map /\ u[2][1] = s[1]}
  IN  /\ Call(IF Len(s) > 1 THEN MapSet(keymacro_add(Begun, s, v), map, s[1], Lead)
              ELSE MapSet(keymacro_clear(Begun, map, s), map, s[1], c))
      /\ user' = With(taken, <<map, s>>, v)

\* bind -k: what is kept is not the command but the first byte of a NULL pointer.
BindArrowCommand(a) ==
  /\ Call([Begun EXCEPT !.arrow[a] = keymacro_map_cmd("ed_argument_digit")])
  /\ UNCHANGED user

\* terminal_set: another terminal, with keys of its own.
SetTerminal(t) ==
  LET e == terminal_bind_arrow([Begun EXCEPT !.str = t])
      named == {Ansi[i][1] : i \in DOMAIN Ansi} \cup
               (IF Vi(el) THEN {Tail(Ansi[i][1]) : i \in DOMAIN Ansi} ELSE {}) \cup
               ({t[a] : a \in DOMAIN t} \ {<<>>})
  IN  /\ Call(e)
      /\ user' = Without({u \in DOMAIN user : \E s \in named : Clashes(u, s)})

\* tty_rawmode, when one of the terminal's characters has changed.
CharChanges(f, c) ==
  LET e == tty_bind_char([Begun EXCEPT !.new[f] = c], FALSE)
      named == {c, el.old[f]}
  IN  /\ c # el.old[f]
      /\ Call([e EXCEPT !.old = e.new])
      /\ user' = Without({u \in DOMAIN user : u[2][1] \in named})

\* As el_init leaves it, or with the editor set to vi.
Init == /\ \E t \in Terminals :
             el \in {el_init(t), map_init_vi([el_init(t) EXCEPT !.calls = <<>>])}
        /\ user = <<>>
        /\ made = 0

Next ==
  \/ \E editor \in {"emacs", "vi"} : Switch(editor)
  \/ \E map \in {"key", "alt"}, s \in Keys : RemoveKey(map, s)
  \/ \E i \in DOMAIN Arrows : RemoveArrow(Arrows[i].name)
  \/ \E map \in {"key", "alt"}, s \in Keys, t \in Strings : BindString(map, s, t)
  \/ \E map \in {"key", "alt"}, i \in DOMAIN Arrows : BindArrowString(map, i)
  \/ \E map \in {"key", "alt"}, s \in Keys, c \in Commands : BindCommand(map, s, c)
  \/ \E i \in DOMAIN Arrows : BindArrowCommand(Arrows[i].name)
  \/ \E t \in Terminals : SetTerminal(t)
  \/ \E f \in DOMAIN TtyChars, c \in TtyChoices : CharChanges(f, c)

Spec == Init /\ [][Next]_vars

-----------------------------------------------------------------------------
(* Properties *)

\* What the user has bound does what it was bound to until a call names its key,
\* whatever is bound, removed or cleared around it in the tree that both maps share
\* (keymacro_clear, node__try, node__delete, map_bind).
StandsUntilNamed ==
  \A u \in DOMAIN user : read_getcmd(el, u[1], u[2]) = user[u]

\* The tree of keymacro.c holds, at its leaves, the keys it was asked to hold and no
\* other: none is lost with another, and none is left of a key that is gone
\* (node__try, node__delete, keymacro_reset).
Keymacro == INSTANCE KeyBindings WITH bound <- Bound(el.tree), calls <- el.calls
TreeIsTheKeys == Keymacro!Spec

\* After a change of editor each arrow key does what it is set to, in the map the
\* arrow keys are for, however the keys stood before; unless a removed one has
\* stopped the program (map_init_vi, map_init_emacs, terminal_bind_arrow).
Reinitialised == el'.type # el.type /\ ~el'.aborted
ArrowsAfterSwitch ==
  [][Reinitialised =>
       \A i \in DOMAIN Ansi :
         read_getcmd(el', IF Vi(el') THEN "alt" ELSE "key", Ansi[i][1]) = el'.arrow[Ansi[i][2]]]_vars
===============================================================================
