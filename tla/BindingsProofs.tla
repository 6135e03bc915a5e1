---------------------------- MODULE BindingsProofs ----------------------------
(***************************************************************************)
(* The key bindings, for any characters, tables, terminals, keys, commands *)
(* and number of calls: what the user has bound stands until a call names  *)
(* it, the tree of keymacro.c implements KeyBindings, and each arrow key   *)
(* is set after a change of editor.                                        *)
(*                                                                         *)
(* A tree is Rooted: with a node it has those above it, so a key that is   *)
(* added or deleted changes just the leaves that Add and Delete say.  Each *)
(* operation Goes from one EditLine to another, Apart from the bindings    *)
(* that clash with what it names; loops by Induction over what they have   *)
(* become after their first i rounds.                                      *)
(***************************************************************************)
EXTENDS Bindings, TLAPS, SequenceTheorems, WellFoundedInduction

\* A sequence of whatever.
IsSeq(l) == \E S : l \in Seq(S)

\* A set of numbers has a least one.
LEMMA LeastNumber ==
  ASSUME NEW T \in SUBSET Nat, T # {}
  PROVE  \E x \in T : \A y \in T : x <= y
<1> DEFINE R == OpToRel(<, Nat)
<1>1. IsWellFoundedOn(R, Nat)
  BY NatLessThanWellFounded
<1>2. \A x, y \in Nat : y < x => <<y, x>> \in R
  BY DEF OpToRel
<1> HIDE DEF R
<1>3. PICK x \in T : \A y \in T : ~ (<<y, x>> \in R)
  BY <1>1, WFMin
<1>4. x \in Nat
  OBVIOUS
<1>5. ASSUME NEW y \in T PROVE x <= y
  <2>1. y \in Nat
    OBVIOUS
  <2>2. ~ (y < x)
    BY <1>2, <1>3, <1>4, <2>1, Zenon
  <2> QED
    BY <1>4, <2>1, <2>2, SMT
<1> QED
  BY <1>5

\* Induction up to a number, over the set of the numbers that have a property.
LEMMA Induction ==
  ASSUME NEW n \in Nat, NEW S, 0 \in S,
         \A i \in 1..n : i - 1 \in S => i \in S
  PROVE  \A i \in 0..n : i \in S
<1> DEFINE T == (0..n) \ S
<1>1. SUFFICES ASSUME T # {} PROVE FALSE
  OBVIOUS
<1>2. T \in SUBSET Nat
  OBVIOUS
<1> HIDE DEF T
<1>3. PICK x \in T : \A y \in T : x <= y
  BY <1>1, <1>2, LeastNumber
<1> USE DEF T
<1>4. x \in 1..n
  BY <1>3
<1>5. x - 1 \in 0..n /\ ~ (x <= x - 1)
  BY <1>4
<1>6. x - 1 \notin T
  BY <1>3, <1>5
<1> QED
  BY <1>3, <1>4, <1>5, <1>6

-----------------------------------------------------------------------------
(* Keys, and which begins which                                            *)

\* A key is a sequence of characters that is not empty.
Paths == Seq(Chars) \ {<<>>}

LEMMA PathIs == ASSUME NEW p \in Paths PROVE p \in Seq(Chars) /\ Len(p) \in Nat /\ Len(p) > 0
BY EmptySeq DEF Paths

LEMMA PrefixIs ==
  ASSUME NEW s \in Paths, NEW t \in Paths
  PROVE  IsPrefix(s, t) <=> Len(s) <= Len(t) /\ \A i \in 1..Len(s) : s[i] = t[i]
<1>1. s \in Seq(Chars) /\ t \in Seq(Chars) /\ Len(s) \in Nat /\ Len(t) \in Nat
  BY PathIs
<1>2. SUFFICES ASSUME Len(s) <= Len(t)
               PROVE  SubSeq(s, 1, Len(s)) = SubSeq(t, 1, Len(s)) <=> \A i \in 1..Len(s) : s[i] = t[i]
  BY <1>1 DEF IsPrefix
<1> DEFINE a == SubSeq(s, 1, Len(s))
           b == SubSeq(t, 1, Len(s))
<1>3. a \in Seq(Chars) /\ Len(a) = Len(s) /\ \A i \in 1..Len(s) : a[i] = s[i]
  BY <1>1
<1>4. b \in Seq(Chars) /\ Len(b) = Len(s) /\ \A i \in 1..Len(s) : b[i] = t[i]
  BY <1>1, <1>2
<1> HIDE DEF a, b
<1>5. a = b <=> \A i \in 1..Len(s) : a[i] = b[i]
  BY <1>1, <1>3, <1>4, SeqEqual
<1> QED
  BY <1>3, <1>4, <1>5 DEF a, b

\* To begin another is an order, and what begins the same key is in line.
LEMMA PrefixOrder ==
  /\ \A p \in Paths : IsPrefix(p, p)
  /\ \A p, q \in Paths : IsPrefix(p, q) /\ IsPrefix(q, p) => p = q
  /\ \A p, q, r \in Paths : IsPrefix(p, q) /\ IsPrefix(q, r) => IsPrefix(p, r)
  /\ \A p, q, r \in Paths : IsPrefix(p, r) /\ IsPrefix(q, r) => IsPrefix(p, q) \/ IsPrefix(q, p)
  /\ \A p, q \in Paths : IsPrefix(p, q) => p[1] = q[1]
<1>1. \A p \in Paths : IsPrefix(p, p)
  BY PathIs, PrefixIs
<1>2. ASSUME NEW p \in Paths, NEW q \in Paths, IsPrefix(p, q), IsPrefix(q, p) PROVE p = q
  <2>1. Len(p) = Len(q) /\ \A i \in 1..Len(p) : p[i] = q[i]
    BY <1>2, PathIs, PrefixIs
  <2> QED
    BY <2>1, PathIs, SeqEqual
<1>3. ASSUME NEW p \in Paths, NEW q \in Paths, NEW r \in Paths, IsPrefix(p, q), IsPrefix(q, r)
      PROVE  IsPrefix(p, r)
  <2>1. /\ Len(p) \in Nat /\ Len(q) \in Nat /\ Len(r) \in Nat
        /\ Len(p) <= Len(q) /\ \A i \in 1..Len(p) : p[i] = q[i]
        /\ Len(q) <= Len(r) /\ \A i \in 1..Len(q) : q[i] = r[i]
    BY <1>3, PathIs, PrefixIs
  <2>2. Len(p) <= Len(r) /\ \A i \in 1..Len(p) : p[i] = r[i]
    BY <2>1
  <2> QED
    BY <2>2, PrefixIs
<1>4. ASSUME NEW p \in Paths, NEW q \in Paths, NEW r \in Paths, IsPrefix(p, r), IsPrefix(q, r)
      PROVE  IsPrefix(p, q) \/ IsPrefix(q, p)
  <2>1. /\ Len(p) \in Nat /\ Len(q) \in Nat
        /\ \A i \in 1..Len(p) : p[i] = r[i]
        /\ \A i \in 1..Len(q) : q[i] = r[i]
    BY <1>4, PathIs, PrefixIs
  <2>2. CASE Len(p) <= Len(q)
    <3>1. \A i \in 1..Len(p) : p[i] = q[i]
      BY <2>1, <2>2
    <3> QED
      BY <2>2, <3>1, PrefixIs
  <2>3. CASE Len(q) <= Len(p)
    <3>1. \A i \in 1..Len(q) : q[i] = p[i]
      BY <2>1, <2>3
    <3> QED
      BY <2>3, <3>1, PrefixIs
  <2> QED
    BY <2>1, <2>2, <2>3
<1>5. ASSUME NEW p \in Paths, NEW q \in Paths, IsPrefix(p, q) PROVE p[1] = q[1]
  BY <1>5, PathIs, PrefixIs
<1> QED
  BY <1>1, <1>2, <1>3, <1>4, <1>5, Zenon

LEMMA PrefixesAre ==
  ASSUME NEW key \in Paths, NEW p
  PROVE  p \in Prefixes(key) \ {<<>>} <=> p \in Paths /\ IsPrefix(p, key)
<1>0. key \in Seq(Chars) /\ Len(key) \in Nat
  BY PathIs
<1>1. ASSUME p \in Prefixes(key) \ {<<>>} PROVE p \in Paths /\ IsPrefix(p, key)
  <2>1. PICK l \in 0..Len(key) : p = SubSeq(key, 1, l)
    BY <1>1 DEF Prefixes
  <2>2. p \in Seq(Chars) /\ Len(p) = l /\ \A i \in 1..l : p[i] = key[i]
    BY <1>0, <2>1
  <2>3. p \in Paths
    BY <1>1, <2>2 DEF Paths
  <2> QED
    BY <2>2, <2>3, PrefixIs
<1>2. ASSUME p \in Paths, IsPrefix(p, key) PROVE p \in Prefixes(key) \ {<<>>}
  <2>1. p \in Seq(Chars) /\ Len(p) \in 0..Len(key)
    BY <1>0, <1>2, PathIs, PrefixIs
  <2>2. p = SubSeq(p, 1, Len(p))
    <3>1. SubSeq(p, 1, Len(p)) \in Seq(Chars) /\ Len(SubSeq(p, 1, Len(p))) = Len(p)
            /\ \A i \in 1..Len(p) : SubSeq(p, 1, Len(p))[i] = p[i]
      BY <2>1
    <3> QED
      BY <2>1, <3>1, SeqEqual
  <2>3. p = SubSeq(key, 1, Len(p))
    BY <1>2, <2>2, Zenon DEF IsPrefix
  <2> QED
    BY <1>2, <2>1, <2>3 DEF Prefixes, Paths
<1> QED
  BY <1>1, <1>2

\* One character is a key.
LEMMA OneIsPath == ASSUME NEW c \in Chars PROVE <<c>> \in Paths /\ Len(<<c>>) = 1 /\ <<c>>[1] = c
BY EmptySeq DEF Paths

-----------------------------------------------------------------------------
(* The tree                                                                *)

\* With every key the tree has the way to it.
Rooted(tree) ==
  /\ DOMAIN tree \subseteq Paths
  /\ \A p \in DOMAIN tree, q \in Paths : IsPrefix(q, p) => q \in DOMAIN tree

LEMMA LeavesAre ==
  ASSUME NEW tree, NEW p
  PROVE  p \in Leaves(tree) <=> p \in DOMAIN tree /\ \A q \in DOMAIN tree : IsPrefix(p, q) => p = q
BY DEF Leaves, IsStrictPrefix

LEMMA TryIs ==
  ASSUME NEW tree, Rooted(tree), NEW key \in Paths, NEW v
  PROVE  /\ \A p : p \in DOMAIN node__try(tree, key, v) <=>
                     \/ p \in DOMAIN tree /\ (IsPrefix(key, p) => p = key)
                     \/ p \in Paths /\ IsPrefix(p, key)
         /\ \A p \in DOMAIN node__try(tree, key, v) :
              node__try(tree, key, v)[p] =
                IF p = key THEN v ELSE IF p \in DOMAIN tree THEN tree[p] ELSE node__get
<1> DEFINE kept == {p \in DOMAIN tree : ~IsStrictPrefix(key, p)}
           D == kept \cup (Prefixes(key) \ {<<>>})
<1>1. node__try(tree, key, v) =
        [p \in D |-> IF p = key THEN v ELSE IF p \in kept THEN tree[p] ELSE node__get]
  BY DEF node__try
<1>2. \A p : p \in kept <=> p \in DOMAIN tree /\ (IsPrefix(key, p) => p = key)
  BY DEF IsStrictPrefix
<1>3. \A p : p \in Prefixes(key) \ {<<>>} <=> p \in Paths /\ IsPrefix(p, key)
  BY PrefixesAre
<1> HIDE DEF kept
<1>4. ASSUME NEW p \in D, p # key, p \in DOMAIN tree PROVE p \in kept
  <2>1. p \in Paths
    BY <1>4 DEF Rooted
  <2>2. CASE p \in Prefixes(key) \ {<<>>}
    <3>1. IsPrefix(p, key)
      BY <1>3, <2>2
    <3>2. ~IsPrefix(key, p)
      BY <1>4, <2>1, <3>1, PrefixOrder
    <3> QED
      BY <1>2, <1>4, <3>2
  <2> QED
    BY <1>4, <2>2
<1>5. DOMAIN node__try(tree, key, v) = D
  BY <1>1
<1> QED
  BY <1>1, <1>2, <1>3, <1>4, <1>5

LEMMA TryRooted ==
  ASSUME NEW tree, Rooted(tree), NEW key \in Paths, NEW v PROVE Rooted(node__try(tree, key, v))
<1> DEFINE t == node__try(tree, key, v)
<1>1. \A p : p \in DOMAIN t <=>
               \/ p \in DOMAIN tree /\ (IsPrefix(key, p) => p = key)
               \/ p \in Paths /\ IsPrefix(p, key)
  BY TryIs
<1> HIDE DEF t
<1>2. ASSUME NEW p \in DOMAIN t, NEW q \in Paths, IsPrefix(q, p) PROVE q \in DOMAIN t
  <2>1. CASE p \in Paths /\ IsPrefix(p, key)
    BY <1>1, <1>2, <2>1, PrefixOrder
  <2>2. CASE p \in DOMAIN tree /\ (IsPrefix(key, p) => p = key)
    <3>1. q \in DOMAIN tree /\ p \in Paths
      BY <1>2, <2>2 DEF Rooted
    <3>2. ASSUME IsPrefix(key, q) PROVE q = key
      <4>1. IsPrefix(key, p)
        BY <1>2, <3>1, <3>2, PrefixOrder
      <4> QED
        BY <1>2, <2>2, <3>1, <3>2, <4>1, PrefixOrder
    <3> QED
      BY <1>1, <3>1, <3>2
  <2> QED
    BY <1>1, <2>1, <2>2
<1>3. DOMAIN t \subseteq Paths
  BY <1>1 DEF Rooted
<1> QED
  BY <1>2, <1>3 DEF Rooted, t

\* What hangs on the key is lost, and what was in its way; no other leaf is.
LEMMA TryLeaves ==
  ASSUME NEW tree, Rooted(tree), NEW key \in Paths, NEW v, NEW p
  PROVE  /\ p \in Leaves(node__try(tree, key, v)) <=>
              p = key \/ (p \in Leaves(tree) /\ ~IsPrefix(key, p) /\ ~IsPrefix(p, key))
         /\ p \in Leaves(node__try(tree, key, v)) =>
              node__try(tree, key, v)[p] = IF p = key THEN v ELSE tree[p]
<1> DEFINE t == node__try(tree, key, v)
<1>1. \A q : q \in DOMAIN t <=>
               \/ q \in DOMAIN tree /\ (IsPrefix(key, q) => q = key)
               \/ q \in Paths /\ IsPrefix(q, key)
  BY TryIs
<1>2. \A q \in DOMAIN t : t[q] = IF q = key THEN v ELSE IF q \in DOMAIN tree THEN tree[q] ELSE node__get
  BY TryIs
<1>3. DOMAIN t \subseteq Paths /\ DOMAIN tree \subseteq Paths
  BY TryRooted DEF Rooted
<1> HIDE DEF t
<1>4. p \in Leaves(t) <=> p \in DOMAIN t /\ \A q \in DOMAIN t : IsPrefix(p, q) => p = q
  BY LeavesAre
<1>5. p \in Leaves(tree) <=> p \in DOMAIN tree /\ \A q \in DOMAIN tree : IsPrefix(p, q) => p = q
  BY LeavesAre
<1>6. key \in DOMAIN t
  BY <1>1, PrefixOrder
<1>7. ASSUME p = key PROVE p \in Leaves(t)
  <2>1. ASSUME NEW q \in DOMAIN t, IsPrefix(key, q) PROVE q = key
    <3>1. q \in Paths
      BY <1>3
    <3> QED
      BY <1>1, <2>1, <3>1, PrefixOrder
  <2> QED
    BY <1>4, <1>6, <1>7, <2>1
<1>8. ASSUME p \in Leaves(tree), ~IsPrefix(key, p), ~IsPrefix(p, key) PROVE p \in Leaves(t)
  <2>1. p \in DOMAIN tree /\ p \in DOMAIN t
    BY <1>1, <1>5, <1>8
  <2>2. ASSUME NEW q \in DOMAIN t, IsPrefix(p, q) PROVE p = q
    <3>1. q \in Paths /\ p \in Paths
      BY <1>3, <2>1
    <3>2. ~IsPrefix(q, key)
      BY <1>8, <2>2, <3>1, PrefixOrder
    <3>3. q \in DOMAIN tree
      BY <1>1, <3>2
    <3> QED
      BY <1>5, <1>8, <2>2, <3>3
  <2> QED
    BY <1>4, <2>1, <2>2
<1>9. ASSUME p \in Leaves(t), p # key
      PROVE  p \in Leaves(tree) /\ ~IsPrefix(key, p) /\ ~IsPrefix(p, key)
  <2>1. p \in DOMAIN t /\ p \in Paths
    BY <1>3, <1>4, <1>9
  <2>2. ~IsPrefix(p, key)
    BY <1>4, <1>6, <1>9
  <2>3. p \in DOMAIN tree /\ ~IsPrefix(key, p)
    BY <1>1, <1>9, <2>1, <2>2
  <2>4. ASSUME NEW q \in DOMAIN tree, IsPrefix(p, q) PROVE p = q
    <3>1. q \in Paths
      BY <1>3
    <3>2. ~IsPrefix(key, q)
      BY <2>1, <2>2, <2>3, <2>4, <3>1, PrefixOrder
    <3>3. q \in DOMAIN t
      BY <1>1, <3>2
    <3> QED
      BY <1>4, <1>9, <2>4, <3>3
  <2> QED
    BY <1>5, <2>2, <2>3, <2>4
<1>10. ASSUME p \in Leaves(t) PROVE t[p] = IF p = key THEN v ELSE tree[p]
  BY <1>2, <1>4, <1>5, <1>9, <1>10
<1> QED
  BY <1>7, <1>8, <1>9, <1>10 DEF t

\* In the words of what keymacro.c promises.
LEMMA TryBound ==
  ASSUME NEW tree, Rooted(tree), NEW key \in Paths, NEW v
  PROVE  Bound(node__try(tree, key, v)) = Keymacro!Add(Bound(tree), key, v)
<1> DEFINE t == node__try(tree, key, v)
           others == {q \in Leaves(tree) : ~IsPrefix(key, q) /\ ~IsPrefix(q, key)}
<1>1. Leaves(t) = others \cup {key}
  BY TryLeaves
<1>2. \A p \in Leaves(t) : t[p] = IF p = key THEN v ELSE tree[p]
  BY TryLeaves
<1>3. \A p \in others : Bound(tree)[p] = tree[p]
  BY DEF Bound
<1>4. Keymacro!Add(Bound(tree), key, v) =
        [p \in others \cup {key} |-> IF p = key THEN v ELSE Bound(tree)[p]]
  <2>1. DOMAIN Bound(tree) = Leaves(tree)
    BY DEF Bound
  <2>2. \A s, u : Keymacro!IsPrefix(s, u) <=> IsPrefix(s, u)
    BY DEF Keymacro!IsPrefix, IsPrefix
  <2>3. {q \in DOMAIN Bound(tree) : ~Keymacro!IsPrefix(key, q) /\ ~Keymacro!IsPrefix(q, key)} = others
    BY <2>1, <2>2
  <2> QED
    BY <2>3, Zenon DEF Keymacro!Add
<1> HIDE DEF t, others
<1>5. Bound(t) = [p \in others \cup {key} |-> t[p]]
  BY <1>1, Zenon DEF Bound
<1>6. \A p \in others \cup {key} : t[p] = IF p = key THEN v ELSE Bound(tree)[p]
  BY <1>1, <1>2, <1>3
<1> QED
  BY <1>4, <1>5, <1>6, Zenon DEF t

LEMMA DeleteIs ==
  ASSUME NEW tree, Rooted(tree), NEW key \in Paths, key \in DOMAIN tree
  PROVE  /\ \A p : p \in DOMAIN node__delete(tree, key) <=>
                     /\ p \in DOMAIN tree /\ ~IsPrefix(key, p)
                     /\ IsPrefix(p, key) => \E q \in DOMAIN tree :
                                              /\ ~IsPrefix(key, q) /\ p # q
                                              /\ IsPrefix(p, q) /\ ~IsPrefix(q, key)
         /\ \A p \in DOMAIN node__delete(tree, key) : node__delete(tree, key)[p] = tree[p]
<1> DEFINE rest == {p \in DOMAIN tree : ~IsPrefix(key, p)}
           bare == {p \in rest : /\ IsStrictPrefix(p, key)
                                 /\ \A q \in rest : IsStrictPrefix(p, q) => IsPrefix(q, key)}
<1>1. node__delete(tree, key) = [p \in rest \ bare |-> tree[p]]
  BY DEF node__delete
<1>2. \A p : p \in rest => ~IsPrefix(key, p) /\ p # key
  BY PrefixOrder DEF Rooted
<1>3. \A p : p \in bare <=> /\ p \in rest /\ IsPrefix(p, key)
                            /\ \A q \in rest : IsPrefix(p, q) /\ p # q => IsPrefix(q, key)
  BY <1>2 DEF IsStrictPrefix
<1>4. \A p : p \in rest <=> p \in DOMAIN tree /\ ~IsPrefix(key, p)
  OBVIOUS
<1> HIDE DEF rest, bare
<1>5. DOMAIN node__delete(tree, key) = rest \ bare
  BY <1>1
<1>6. \A p \in DOMAIN node__delete(tree, key) : node__delete(tree, key)[p] = tree[p]
  BY <1>1, <1>5
<1> QED
  BY <1>3, <1>4, <1>5, <1>6

LEMMA DeleteRooted ==
  ASSUME NEW tree, Rooted(tree), NEW key \in Paths PROVE Rooted(node__delete(tree, key))
<1> SUFFICES ASSUME key \in DOMAIN tree PROVE Rooted(node__delete(tree, key))
  BY DEF node__delete
<1> DEFINE t == node__delete(tree, key)
           Hangs(p) == \E q \in DOMAIN tree :
                         ~IsPrefix(key, q) /\ p # q /\ IsPrefix(p, q) /\ ~IsPrefix(q, key)
<1>1. \A p : p \in DOMAIN t <=>
               p \in DOMAIN tree /\ ~IsPrefix(key, p) /\ (IsPrefix(p, key) => Hangs(p))
  BY DeleteIs
<1> HIDE DEF t
<1>2. ASSUME NEW p \in DOMAIN t, NEW q \in Paths, IsPrefix(q, p) PROVE q \in DOMAIN t
  <2>1. p \in Paths /\ p \in DOMAIN tree /\ q \in DOMAIN tree
    BY <1>1, <1>2 DEF Rooted
  <2>2. ~IsPrefix(key, q)
    BY <1>1, <1>2, <2>1, PrefixOrder
  <2>3. ASSUME IsPrefix(q, key) PROVE Hangs(q)
    <3>1. CASE IsPrefix(p, key)
      <4>1. PICK r \in DOMAIN tree :
              ~IsPrefix(key, r) /\ p # r /\ IsPrefix(p, r) /\ ~IsPrefix(r, key)
        BY <1>1, <1>2, <3>1
      <4>2. r \in Paths
        BY DEF Rooted
      <4>3. IsPrefix(q, r) /\ q # r
        BY <1>2, <2>1, <2>3, <4>1, <4>2, PrefixOrder
      <4> QED
        BY <4>1, <4>3
    <3>2. CASE ~IsPrefix(p, key)
      <4>1. ~IsPrefix(key, p) /\ q # p
        BY <1>1, <2>3, <3>2
      <4> QED
        BY <1>2, <2>1, <3>2, <4>1
    <3> QED
      BY <3>1, <3>2
  <2> HIDE DEF Hangs
  <2> QED
    BY <1>1, <2>1, <2>2, <2>3
<1>3. DOMAIN t \subseteq Paths
  BY <1>1 DEF Rooted
<1> QED
  BY <1>2, <1>3 DEF Rooted, t

\* What hangs on the key is lost, no other leaf is, and none is made.
LEMMA DeleteLeaves ==
  ASSUME NEW tree, Rooted(tree), NEW key \in Paths, NEW p
  PROVE  /\ p \in Leaves(node__delete(tree, key)) <=> p \in Leaves(tree) /\ ~IsPrefix(key, p)
         /\ p \in Leaves(node__delete(tree, key)) => node__delete(tree, key)[p] = tree[p]
<1>0. \A q : q \in Leaves(tree) <=> q \in DOMAIN tree /\ \A r \in DOMAIN tree : IsPrefix(q, r) => q = r
  BY LeavesAre
<1>1. CASE key \notin DOMAIN tree
  <2>1. node__delete(tree, key) = tree
    BY <1>1 DEF node__delete
  <2>2. \A q \in DOMAIN tree : ~IsPrefix(key, q)
    BY <1>1 DEF Rooted
  <2> QED
    BY <1>0, <2>1, <2>2
<1>2. CASE key \in DOMAIN tree
  <2> DEFINE t == node__delete(tree, key)
             Hangs(q) == \E r \in DOMAIN tree :
                           ~IsPrefix(key, r) /\ q # r /\ IsPrefix(q, r) /\ ~IsPrefix(r, key)
  <2>1. \A q : q \in DOMAIN t <=>
                 q \in DOMAIN tree /\ ~IsPrefix(key, q) /\ (IsPrefix(q, key) => Hangs(q))
    BY <1>2, DeleteIs
  <2>2. \A q \in DOMAIN t : t[q] = tree[q]
    BY <1>2, DeleteIs
  <2>3. DOMAIN tree \subseteq Paths
    BY DEF Rooted
  <2> HIDE DEF t
  <2>4. p \in Leaves(t) <=> p \in DOMAIN t /\ \A q \in DOMAIN t : IsPrefix(p, q) => p = q
    BY LeavesAre
  <2>5. ASSUME p \in Leaves(tree), ~IsPrefix(key, p) PROVE p \in Leaves(t)
    <3>1. p \in DOMAIN tree /\ \A q \in DOMAIN tree : IsPrefix(p, q) => p = q
      BY <1>0, <2>5
    <3>2. ~IsPrefix(p, key)
      BY <1>2, <2>3, <2>5, <3>1, PrefixOrder
    <3>3. p \in DOMAIN t
      BY <2>1, <2>5, <3>1, <3>2
    <3> HIDE DEF Hangs
    <3>4. DOMAIN t \subseteq DOMAIN tree
      BY <2>1
    <3> QED
      BY <2>4, <3>1, <3>3, <3>4
  <2>6. ASSUME p \in Leaves(t) PROVE p \in Leaves(tree) /\ ~IsPrefix(key, p)
    <3>1. p \in DOMAIN t /\ p \in DOMAIN tree /\ p \in Paths /\ ~IsPrefix(key, p)
      BY <2>1, <2>3, <2>4, <2>6
    <3>2. ASSUME NEW q \in DOMAIN tree, IsPrefix(p, q), p # q PROVE FALSE
      <4>1. q \in Paths
        BY <2>3
      <4>2. q \notin DOMAIN t
        BY <2>4, <2>6, <3>2
      <4>3. IsPrefix(p, key)
        BY <2>1, <3>1, <3>2, <4>1, <4>2, PrefixOrder
      <4>4. PICK r \in DOMAIN tree :
              ~IsPrefix(key, r) /\ p # r /\ IsPrefix(p, r) /\ ~IsPrefix(r, key)
        BY <2>1, <3>1, <4>3
      <4>5. r \in DOMAIN t
        BY <2>1, <4>4
      <4> QED
        BY <2>4, <2>6, <4>4, <4>5
    <3> QED
      BY <1>0, <3>1, <3>2
  <2> QED
    BY <2>2, <2>4, <2>5, <2>6 DEF t
<1> QED
  BY <1>1, <1>2

LEMMA DeleteBound ==
  ASSUME NEW tree, Rooted(tree), NEW key \in Paths
  PROVE  Bound(node__delete(tree, key)) = Keymacro!Delete(Bound(tree), key)
<1> DEFINE t == node__delete(tree, key)
           others == {q \in Leaves(tree) : ~IsPrefix(key, q)}
<1>1. Leaves(t) = others
  BY DeleteLeaves
<1>2. \A p \in Leaves(t) : t[p] = tree[p]
  BY DeleteLeaves
<1>3. \A p \in others : Bound(tree)[p] = tree[p]
  BY DEF Bound
<1>4. Keymacro!Delete(Bound(tree), key) = [p \in others |-> Bound(tree)[p]]
  <2>1. DOMAIN Bound(tree) = Leaves(tree)
    BY DEF Bound
  <2>2. \A s, u : Keymacro!IsPrefix(s, u) <=> IsPrefix(s, u)
    BY DEF Keymacro!IsPrefix, IsPrefix
  <2>3. {q \in DOMAIN Bound(tree) : ~Keymacro!IsPrefix(key, q)} = others
    BY <2>1, <2>2
  <2> QED
    BY <2>3, Zenon DEF Keymacro!Delete
<1> HIDE DEF t, others
<1>5. Bound(t) = [p \in others |-> t[p]]
  BY <1>1, Zenon DEF Bound
<1>6. \A p \in others : t[p] = Bound(tree)[p]
  BY <1>1, <1>2, <1>3
<1> QED
  BY <1>4, <1>5, <1>6, Zenon DEF t

\* Nothing is bound in an empty tree.
LEMMA EmptyTree == Rooted(<<>>) /\ Bound(<<>>) = <<>>
<1>1. DOMAIN <<>> = {}
  OBVIOUS
<1>2. Leaves(<<>>) = {}
  BY <1>1 DEF Leaves
<1>3. Bound(<<>>) = <<>>
  BY <1>2 DEF Bound
<1> QED
  BY <1>1, <1>3 DEF Rooted

-----------------------------------------------------------------------------
(* One by one                                                              *)

\* What is done with each member of a sequence.
Does(what, x, a, w) ==
  CASE what = "call"  -> Keymacro!Called(x, a)
    [] what = "char"  -> Rebind(x, a, w.force)
    [] what = "arrow" -> AddArrow(x, a)
    [] what = "tail"  -> AddTail(x, a)
    [] what = "bind"  -> BindArrow(x, a, w.map, w.table)
    [] what = "meta"  -> AddMeta(x, a, w.map, w.key)

\* f is what has become of e behind each of the first n members of s.
Becomes(what, e, s, w, n, f) ==
  f = [i \in 0..n |-> IF i = 0 THEN e ELSE Does(what, f[i - 1], s[i], w)]

LEMMA BecomesIs ==
  ASSUME NEW what, NEW e, NEW s, NEW w, NEW n \in Nat, NEW f, Becomes(what, e, s, w, n, f)
  PROVE  f[0] = e /\ \A i \in 1..n : f[i] = Does(what, f[i - 1], s[i], w)
<1>1. \A i \in 0..n : f[i] = IF i = 0 THEN e ELSE Does(what, f[i - 1], s[i], w)
  BY Zenon DEF Becomes
<1> QED
  BY <1>1

LEMMA BecomesExists ==
  ASSUME NEW what, NEW e, NEW s, NEW w, NEW n \in Nat
  PROVE  \E f : Becomes(what, e, s, w, n, f)
<1> DEFINE St(i, x) == Does(what, x, s[i], w)
           Def(g, k) == g = [i \in 0..k |-> IF i = 0 THEN e ELSE St(i, g[i - 1])]
           S == {k \in 0..n : \E g : Def(g, k)}
<1>1. \A g : Def(g, n) <=> Becomes(what, e, s, w, n, g)
  BY DEF Becomes
<1> HIDE DEF St
<1>3. 0 \in S
  <2> DEFINE g == [i \in 0..0 |-> e]
  <2>1. g = [i \in 0..0 |-> IF i = 0 THEN e ELSE St(i, g[i - 1])]
    OBVIOUS
  <2>2. Def(g, 0)
    BY <2>1
  <2> HIDE DEF Def
  <2>3. \E q : Def(q, 0)
    BY <2>2
  <2> QED
    BY <2>3
<1>4. ASSUME NEW k \in 1..n, k - 1 \in S PROVE k \in S
  <2>1. PICK g : Def(g, k - 1)
    BY <1>4
  <2> DEFINE h == [i \in 0..k |-> IF i = k THEN St(k, g[k - 1]) ELSE g[i]]
  <2>2. \A i \in 0..k - 1 : g[i] = IF i = 0 THEN e ELSE St(i, g[i - 1])
    BY <2>1, Zenon
  <2>3. \A i \in 0..k - 1 : h[i] = g[i]
    OBVIOUS
  <2>4. h[k] = St(k, g[k - 1]) /\ h = [i \in 0..k |-> h[i]]
    OBVIOUS
  <2> HIDE DEF h
  <2>5. ASSUME NEW i \in 0..k PROVE h[i] = IF i = 0 THEN e ELSE St(i, h[i - 1])
    <3>1. CASE i = k
      <4>1. i # 0 /\ i - 1 \in 0..k - 1
        BY <3>1
      <4>2. h[i - 1] = g[k - 1]
        BY <2>3, <3>1, <4>1
      <4> QED
        BY <2>4, <3>1, <4>1, <4>2
    <3>2. CASE i # k
      <4>1. i \in 0..k - 1 /\ (i # 0 => i - 1 \in 0..k - 1)
        BY <3>2
      <4>2. h[i] = g[i] /\ (i # 0 => h[i - 1] = g[i - 1])
        BY <2>3, <4>1
      <4> QED
        BY <2>2, <4>1, <4>2
    <3> QED
      BY <3>1, <3>2
  <2>6. [i \in 0..k |-> h[i]] = [i \in 0..k |-> IF i = 0 THEN e ELSE St(i, h[i - 1])]
    BY <2>5, Zenon
  <2>7. Def(h, k)
    BY <2>4, <2>6, Zenon
  <2> HIDE DEF Def
  <2>8. k \in 0..n /\ \E q : Def(q, k)
    BY <2>7
  <2> QED
    BY <2>8
<1>5. n \in S
  <2> HIDE DEF S
  <2>2. \A i \in 0..n : i \in S
    BY <1>3, <1>4, Induction
  <2> QED
    BY <2>2
<1> HIDE DEF Def
<1> QED
  BY <1>1, <1>5

\* What is done when it is a call of keymacro.c, and when it is not.
LEMMA DoesIs ==
  \A x, a, w : /\ Does("call", x, a, w) = Keymacro!Called(x, a)
               /\ Does("char", x, a, w) = Rebind(x, a, w.force)
               /\ Does("arrow", x, a, w) = AddArrow(x, a)
               /\ Does("tail", x, a, w) = AddTail(x, a)
               /\ Does("bind", x, a, w) = BindArrow(x, a, w.map, w.table)
               /\ Does("meta", x, a, w) = AddMeta(x, a, w.map, w.key)
BY DEF Does

\* The calls one behind the other, and one more.
LEMMA AfterIs ==
  ASSUME NEW cs, NEW b, Len(cs) \in Nat
  PROVE  \E f : Becomes("call", b, cs, cs, Len(cs), f) /\ Keymacro!After(cs, b) = f[Len(cs)]
<1> DEFINE Def(f) == f = [i \in 0..Len(cs) |-> IF i = 0 THEN b ELSE Keymacro!Called(f[i - 1], cs[i])]
           e == CHOOSE f : Def(f)
<1>1. Keymacro!After(cs, b) = e[Len(cs)]
  BY DEF Keymacro!After
<1>2. ASSUME NEW f PROVE Def(f) <=> Becomes("call", b, cs, cs, Len(cs), f)
  <2>1. \A i \in 0..Len(cs) :
          Does("call", f[i - 1], cs[i], cs) = Keymacro!Called(f[i - 1], cs[i])
    BY DoesIs
  <2>2. [i \in 0..Len(cs) |-> IF i = 0 THEN b ELSE Keymacro!Called(f[i - 1], cs[i])]
          = [i \in 0..Len(cs) |-> IF i = 0 THEN b ELSE Does("call", f[i - 1], cs[i], cs)]
    BY <2>1, Zenon
  <2> QED
    BY <2>2, Zenon DEF Becomes
<1>3. \E f : Becomes("call", b, cs, cs, Len(cs), f)
  BY BecomesExists
<1> HIDE DEF Def
<1>4. Def(e)
  BY <1>2, <1>3, Zenon
<1> HIDE DEF e
<1> QED
  BY <1>1, <1>2, <1>4

LEMMA AfterNone == ASSUME NEW b PROVE Keymacro!After(<<>>, b) = b
<1>1. Len(<<>>) = 0
  BY EmptySeq
<1>2. PICK f : Becomes("call", b, <<>>, <<>>, 0, f) /\ Keymacro!After(<<>>, b) = f[0]
  BY <1>1, AfterIs
<1>3. f[0] = b
  <2>1. ASSUME NEW s, NEW n \in Nat, NEW g, Becomes("call", b, s, s, n, g) PROVE g[0] = b
    BY <2>1, BecomesIs
  <2> QED
    BY <1>2, <2>1
<1> QED
  BY <1>2, <1>3

LEMMA AfterAppend ==
  ASSUME NEW cs, IsSeq(cs), NEW c, NEW b
  PROVE  /\ IsSeq(Append(cs, c))
         /\ Keymacro!After(Append(cs, c), b) = Keymacro!Called(Keymacro!After(cs, b), c)
<1> DEFINE ds == Append(cs, c)
           n == Len(cs)
<1>1. n \in Nat /\ IsSeq(ds) /\ Len(ds) = n + 1 /\ ds[n + 1] = c /\ \A i \in 1..n : ds[i] = cs[i]
  <2>1. PICK S : cs \in Seq(S)
    BY DEF IsSeq
  <2> DEFINE T == S \cup {c}
  <2>2. cs \in Seq(T)
    <3>1. \A i \in 1..Len(cs) : cs[i] \in T
      BY <2>1, ElementOfSeq
    <3> QED
      BY <2>1, <3>1, SeqDef, LenProperties
  <2>3. c \in T
    OBVIOUS
  <2> HIDE DEF T
  <2>4. ds \in Seq(T) /\ Len(ds) = Len(cs) + 1 /\ ds[Len(cs) + 1] = c
          /\ \A i \in 1..Len(cs) : ds[i] = cs[i]
    BY <2>2, <2>3, AppendProperties
  <2> QED
    BY <2>2, <2>4, LenProperties DEF IsSeq
<1> HIDE DEF ds, n
<1>2. PICK f : Becomes("call", b, cs, cs, n, f) /\ Keymacro!After(cs, b) = f[n]
  BY <1>1, AfterIs DEF n
<1>3. PICK g : Becomes("call", b, ds, ds, n + 1, g) /\ Keymacro!After(ds, b) = g[n + 1]
  BY <1>1, AfterIs
<1>4. f[0] = b /\ \A i \in 1..n : f[i] = Does("call", f[i - 1], cs[i], cs)
  BY <1>1, <1>2, BecomesIs
<1>5. g[0] = b /\ \A i \in 1..n + 1 : g[i] = Does("call", g[i - 1], ds[i], ds)
  BY <1>1, <1>3, BecomesIs
<1>6. \A x, a, w : Does("call", x, a, w) = Keymacro!Called(x, a)
  BY DoesIs
<1> DEFINE S == {i \in 0..n : f[i] = g[i]}
<1>7. 0 \in S
  BY <1>1, <1>4, <1>5
<1>8. ASSUME NEW i \in 1..n, i - 1 \in S PROVE i \in S
  <2>1. f[i - 1] = g[i - 1] /\ i \in 1..n + 1 /\ i \in 0..n
    BY <1>1, <1>8
  <2>2. f[i] = g[i]
    BY <1>1, <1>4, <1>5, <1>6, <2>1
  <2> QED
    BY <2>1, <2>2
<1>9. f[n] = g[n]
  <2> HIDE DEF S
  <2>1. \A i \in 0..n : i \in S
    BY <1>1, <1>7, <1>8, Induction
  <2> QED
    BY <1>1, <2>1 DEF S
<1>10. g[n + 1] = Keymacro!Called(g[n], c)
  BY <1>1, <1>5, <1>6
<1> QED
  BY <1>1, <1>2, <1>3, <1>9, <1>10 DEF ds


-----------------------------------------------------------------------------
(* What an operation leaves as it is                                       *)

Maps == {"key", "alt"}

\* The EditLine is one, and its tree a tree.
Fit(d) ==
  /\ DOMAIN d = {"type", "key", "alt", "tree", "arrow", "str", "new", "old", "aborted", "calls"}
  /\ DOMAIN d.key = Chars /\ DOMAIN d.alt = Chars
  /\ Rooted(d.tree)
  /\ IsSeq(d.calls)

\* The tree holds what the calls since it held b0 have left.
Tracks(b0, d) == Bound(d.tree) = Keymacro!After(d.calls, b0)

Alike(e, d) ==
  /\ d.type = e.type /\ d.new = e.new /\ d.old = e.old /\ d.str = e.str
  /\ d.arrow = e.arrow /\ (e.aborted => d.aborted)

\* What a map leads to in the tree stays there but for what is in LT, and what it
\* holds itself but for what is in LM.
Apart(LT, LM, e, d) ==
  /\ \A m \in Maps, p \in Paths :
       p \in Leaves(e.tree) /\ e[m][p[1]] = Lead /\ <<m, p>> \notin LT
         => p \in Leaves(d.tree) /\ d.tree[p] = e.tree[p] /\ d[m][p[1]] = Lead
  /\ \A m \in Maps, c \in Chars :
       <<m, <<c>>>> \notin LM => d[m][c] = e[m][c]

Goes(b0, LT, LM, e, d) == Fit(d) /\ Tracks(b0, d) /\ Alike(e, d) /\ Apart(LT, LM, e, d)

LEMMA FirstIsChar == ASSUME NEW p \in Paths PROVE p[1] \in Chars /\ IsPrefix(<<p[1]>>, p)
<1>1. p \in Seq(Chars) /\ Len(p) \in Nat /\ Len(p) > 0
  BY PathIs
<1>2. p[1] \in Chars
  BY <1>1, ElementOfSeq
<1>3. <<p[1]>> \in Paths /\ Len(<<p[1]>>) = 1 /\ <<p[1]>>[1] = p[1]
  BY <1>2, OneIsPath
<1> HIDE DEF Paths
<1>4. \A i \in 1..Len(<<p[1]>>) : <<p[1]>>[i] = p[i]
  BY <1>3
<1>5. Len(<<p[1]>>) <= Len(p)
  BY <1>1, <1>3
<1> QED
  BY <1>2, <1>3, <1>4, <1>5, PrefixIs

\* A key and what begins with it begin with the same character.
LEMMA SameFirst ==
  ASSUME NEW p \in Paths, NEW q \in Paths, IsPrefix(p, q) PROVE p[1] = q[1]
<1>1. Len(p) \in Nat /\ Len(p) > 0
  BY PathIs
<1>2. \A i \in 1..Len(p) : p[i] = q[i]
  BY PrefixIs
<1> QED
  BY <1>1, <1>2

LEMMA GoesOn ==
  ASSUME NEW b0, NEW LT, NEW LM, NEW e, NEW d, NEW c,
         Goes(b0, LT, LM, e, d), Goes(b0, LT, LM, d, c)
  PROVE  Goes(b0, LT, LM, e, c)
<1>1. Alike(e, c)
  BY DEF Goes, Alike
<1>2. Apart(LT, LM, e, c)
  <2>1. Apart(LT, LM, e, d) /\ Apart(LT, LM, d, c)
    BY DEF Goes
  <2> QED
    BY <2>1 DEF Apart
<1> QED
  BY <1>1, <1>2 DEF Goes

LEMMA GoesNowhere ==
  ASSUME NEW b0, NEW LT, NEW LM, NEW e, Fit(e), Tracks(b0, e) PROVE Goes(b0, LT, LM, e, e)
BY DEF Goes, Alike, Apart

\* One member of an EditLine gets another value.
LEMMA AbortIs ==
  ASSUME NEW e, Fit(e), NEW d, d = [e EXCEPT !.aborted = TRUE]
  PROVE  /\ Fit(d) /\ Alike(e, d) /\ d.tree = e.tree /\ d.calls = e.calls
         /\ d.key = e.key /\ d.alt = e.alt
BY DEF Fit, Alike

LEMMA SetIs ==
  ASSUME NEW e, Fit(e), NEW map \in Maps, NEW c \in Chars, NEW cmd
  PROVE  LET d == [e EXCEPT ![map][c] = cmd] IN
           /\ Fit(d) /\ Alike(e, d) /\ d.tree = e.tree /\ d.calls = e.calls
           /\ d.aborted = e.aborted /\ d.arrow = e.arrow
           /\ \A m \in Maps, x \in Chars : d[m][x] = IF m = map /\ x = c THEN cmd ELSE e[m][x]
BY DEF Fit, Alike, Maps

\* A map is changed: what was there is gone, and with it the way to the tree unless
\* it led there before and still does, or did not.
LEMMA SetGoes ==
  ASSUME NEW b0, NEW LT, NEW LM, NEW e, Fit(e), Tracks(b0, e),
         NEW map \in Maps, NEW c \in Chars, NEW cmd,
         <<map, <<c>>>> \in LM,
         \/ cmd = Lead \/ e[map][c] # Lead
         \/ \A p \in Paths : p[1] = c => <<map, p>> \in LT
  PROVE  Goes(b0, LT, LM, e, [e EXCEPT ![map][c] = cmd])
<1> DEFINE d == [e EXCEPT ![map][c] = cmd]
<1>1. /\ Fit(d) /\ Alike(e, d) /\ d.tree = e.tree /\ d.calls = e.calls
      /\ \A m \in Maps, x \in Chars : d[m][x] = IF m = map /\ x = c THEN cmd ELSE e[m][x]
  BY SetIs
<1> HIDE DEF d
<1>2. Tracks(b0, d)
  BY <1>1 DEF Tracks
<1>3. ASSUME NEW m \in Maps, NEW p \in Paths,
             p \in Leaves(e.tree), e[m][p[1]] = Lead, <<m, p>> \notin LT
      PROVE  p \in Leaves(d.tree) /\ d.tree[p] = e.tree[p] /\ d[m][p[1]] = Lead
  <2>1. p[1] \in Chars
    BY FirstIsChar
  <2> QED
    BY <1>1, <1>3, <2>1
<1>4. ASSUME NEW m \in Maps, NEW x \in Chars, <<m, <<x>>>> \notin LM
      PROVE  d[m][x] = e[m][x]
  BY <1>1, <1>4
<1> QED
  BY <1>1, <1>2, <1>3, <1>4 DEF Goes, Apart, d

\* A key is added: only what begins with it or begins it is lost.
LEMMA AddGoes ==
  ASSUME NEW b0, NEW LT, NEW LM, NEW e, Fit(e), Tracks(b0, e), NEW key \in Paths, NEW v,
         \A m \in Maps, p \in Paths : IsPrefix(key, p) \/ IsPrefix(p, key) => <<m, p>> \in LT
  PROVE  /\ Goes(b0, LT, LM, e, keymacro_add(e, key, v))
         /\ ~e.aborted /\ v # keymacro_map_cmd(Lead) /\ v.type # "nod" =>
              /\ key \in Leaves(keymacro_add(e, key, v).tree)
              /\ keymacro_add(e, key, v).tree[key] = v
         /\ keymacro_add(e, key, v).key = e.key /\ keymacro_add(e, key, v).alt = e.alt
<1> DEFINE d == keymacro_add(e, key, v)
<1>1. CASE e.aborted \/ v = keymacro_map_cmd(Lead)
  <2>1. d = e
    BY <1>1 DEF keymacro_add
  <2> QED
    BY <1>1, <2>1, GoesNowhere
<1>2. CASE ~(e.aborted \/ v = keymacro_map_cmd(Lead)) /\ v.type = "nod"
  <2>1. d = [e EXCEPT !.aborted = TRUE]
    BY <1>2 DEF keymacro_add
  <2>2. Fit(d) /\ Alike(e, d) /\ d.tree = e.tree /\ d.calls = e.calls /\ d.key = e.key /\ d.alt = e.alt
    BY <2>1, AbortIs
  <2> HIDE DEF d
  <2>3. d["key"] = e["key"] /\ d["alt"] = e["alt"]
    BY <2>2
  <2>4. Tracks(b0, d) /\ Apart(LT, LM, e, d)
    BY <2>2, <2>3 DEF Tracks, Apart, Maps
  <2> QED
    BY <1>2, <2>2, <2>4 DEF Goes, d
<1>3. CASE ~(e.aborted \/ v = keymacro_map_cmd(Lead)) /\ v.type # "nod"
  <2> DEFINE t == node__try(e.tree, key, v)
             call == [op |-> "add", key |-> key, val |-> v]
             cs == Append(e.calls, call)
  <2>1. d = [e EXCEPT !.tree = t, !.calls = cs]
    BY <1>3 DEF keymacro_add
  <2>2. Rooted(t) /\ IsSeq(cs) /\ Bound(t) = Keymacro!Add(Bound(e.tree), key, v)
    BY TryRooted, TryBound, AfterAppend DEF Fit
  <2>3. Fit(d) /\ Alike(e, d) /\ d.tree = t /\ d.calls = cs /\ d.key = e.key /\ d.alt = e.alt
    <3> HIDE DEF d, t, cs
    <3> QED
      BY <2>1, <2>2 DEF Fit, Alike
  <2>4. Tracks(b0, d)
    <3>1. Keymacro!After(cs, b0) = Keymacro!Called(Keymacro!After(e.calls, b0), call)
      BY AfterAppend DEF Fit
    <3>2. \A b : Keymacro!Called(b, call) = Keymacro!Add(b, key, v)
      BY DEF Keymacro!Called
    <3> QED
      BY <2>2, <2>3, <3>1, <3>2 DEF Tracks
  <2>5. \A p : /\ p \in Leaves(t) <=> p = key \/ (p \in Leaves(e.tree) /\ ~IsPrefix(key, p) /\ ~IsPrefix(p, key))
               /\ p \in Leaves(t) => t[p] = IF p = key THEN v ELSE e.tree[p]
    BY TryLeaves DEF Fit
  <2> HIDE DEF d, t, cs
  <2>6. d["key"] = e["key"] /\ d["alt"] = e["alt"]
    BY <2>3
  <2>7. ASSUME NEW m \in Maps, NEW p \in Paths,
               p \in Leaves(e.tree), e[m][p[1]] = Lead, <<m, p>> \notin LT
        PROVE  p \in Leaves(d.tree) /\ d.tree[p] = e.tree[p] /\ d[m][p[1]] = Lead
    <3>1. ~IsPrefix(key, p) /\ ~IsPrefix(p, key)
      BY <2>7
    <3>2. p # key
      BY <3>1, PrefixOrder
    <3>3. d[m] = e[m]
      BY <2>6 DEF Maps
    <3> QED
      BY <2>3, <2>5, <2>7, <3>1, <3>2, <3>3
  <2>8. \A m \in Maps, c \in Chars : d[m][c] = e[m][c]
    BY <2>6 DEF Maps
  <2>9. Apart(LT, LM, e, d)
    BY <2>7, <2>8 DEF Apart
  <2> QED
    BY <2>3, <2>4, <2>5, <2>9 DEF Goes, d
<1> QED
  BY <1>1, <1>2, <1>3

\* A key is deleted: only what begins with it is lost.
LEMMA DeleteGoes ==
  ASSUME NEW b0, NEW LT, NEW LM, NEW e, Fit(e), Tracks(b0, e), NEW key \in Paths,
         \A m \in Maps, p \in Paths : IsPrefix(key, p) /\ e[m][p[1]] = Lead => <<m, p>> \in LT
  PROVE  /\ Goes(b0, LT, LM, e, keymacro_delete(e, key))
         /\ keymacro_delete(e, key).key = e.key /\ keymacro_delete(e, key).alt = e.alt
<1> DEFINE d == keymacro_delete(e, key)
           t == node__delete(e.tree, key)
           call == [op |-> "delete", key |-> key]
           cs == Append(e.calls, call)
<1>1. d = [e EXCEPT !.tree = t, !.calls = cs]
  BY DEF keymacro_delete
<1>2. Rooted(t) /\ IsSeq(cs) /\ Bound(t) = Keymacro!Delete(Bound(e.tree), key)
  BY DeleteRooted, DeleteBound, AfterAppend DEF Fit
<1>3. Fit(d) /\ Alike(e, d) /\ d.tree = t /\ d.calls = cs /\ d.key = e.key /\ d.alt = e.alt
  <2> HIDE DEF d, t, cs
  <2> QED
    BY <1>1, <1>2 DEF Fit, Alike
<1>4. Tracks(b0, d)
  <2>1. Keymacro!After(cs, b0) = Keymacro!Called(Keymacro!After(e.calls, b0), call)
    BY AfterAppend DEF Fit
  <2>2. \A b : Keymacro!Called(b, call) = Keymacro!Delete(b, key)
    BY DEF Keymacro!Called
  <2> QED
    BY <1>2, <1>3, <2>1, <2>2 DEF Tracks
<1>5. \A p : /\ p \in Leaves(t) <=> p \in Leaves(e.tree) /\ ~IsPrefix(key, p)
             /\ p \in Leaves(t) => t[p] = e.tree[p]
  BY DeleteLeaves DEF Fit
<1> HIDE DEF d, t, cs
<1>6. \A m \in Maps : d[m] = e[m]
  BY <1>3 DEF Maps
<1>7. Apart(LT, LM, e, d)
  BY <1>3, <1>5, <1>6 DEF Apart
<1> QED
  BY <1>3, <1>4, <1>7 DEF Goes, d

\* A key is cleared from a map: what begins with it stays if the other map leads to it.
LEMMA ClearGoes ==
  ASSUME NEW b0, NEW LT, NEW LM, NEW e, Fit(e), Tracks(b0, e), NEW map \in Maps, NEW key \in Paths,
         \A p \in Paths : IsPrefix(key, p) => <<map, p>> \in LT
  PROVE  /\ Goes(b0, LT, LM, e, keymacro_clear(e, map, key))
         /\ keymacro_clear(e, map, key).key = e.key /\ keymacro_clear(e, map, key).alt = e.alt
<1> DEFINE d == keymacro_clear(e, map, key)
<1>1. CASE e[map][key[1]] = Lead /\ e[Other(map)][key[1]] # Lead
  <2>1. d = keymacro_delete(e, key)
    BY <1>1 DEF keymacro_clear
  <2>2. ASSUME NEW m \in Maps, NEW p \in Paths, IsPrefix(key, p), e[m][p[1]] = Lead
        PROVE  <<m, p>> \in LT
    <3>1. p[1] = key[1]
      BY <2>2, SameFirst
    <3>2. m = map \/ m = Other(map)
      BY DEF Maps, Other
    <3> QED
      BY <1>1, <2>2, <3>1, <3>2
  <2>3. Goes(b0, LT, LM, e, d) /\ d.key = e.key /\ d.alt = e.alt
    BY <2>1, <2>2, DeleteGoes
  <2> QED
    BY <2>3
<1>2. CASE ~(e[map][key[1]] = Lead /\ e[Other(map)][key[1]] # Lead)
  <2>1. d = e
    BY <1>2 DEF keymacro_clear
  <2> QED
    BY <2>1, GoesNowhere
<1> QED
  BY <1>1, <1>2

\* What goes on at each member of a sequence has gone on behind the last.
LEMMA BecomesGoes ==
  ASSUME NEW b0, NEW LT, NEW LM, NEW what, NEW e, NEW s, NEW w, NEW n \in Nat, NEW f,
         Becomes(what, e, s, w, n, f), Fit(e), Tracks(b0, e),
         \A i \in 1..n : \A d :
           Goes(b0, LT, LM, e, d) => Goes(b0, LT, LM, d, Does(what, d, s[i], w))
  PROVE  Goes(b0, LT, LM, e, f[n])
<1>1. f[0] = e /\ \A i \in 1..n : f[i] = Does(what, f[i - 1], s[i], w)
  BY BecomesIs
<1> DEFINE S == {i \in 0..n : Goes(b0, LT, LM, e, f[i])}
<1>2. 0 \in S
  BY <1>1, GoesNowhere
<1>3. ASSUME NEW i \in 1..n, i - 1 \in S PROVE i \in S
  <2>1. Goes(b0, LT, LM, e, f[i - 1]) /\ i \in 0..n
    BY <1>3
  <2>2. Goes(b0, LT, LM, f[i - 1], f[i])
    BY <1>1, <2>1
  <2> QED
    BY <2>1, <2>2, GoesOn
<1> HIDE DEF S
<1>4. \A i \in 0..n : i \in S
  BY <1>2, <1>3, Induction
<1> QED
  BY <1>4 DEF S

\* A character of the terminal is bound again.
LEMMA ReboundGoes ==
  ASSUME NEW b0, NEW LT, NEW LM, NEW e, Fit(e), Tracks(b0, e), NEW map \in Maps,
         NEW old \in Chars, NEW new \in Chars, NEW table, NEW cmd,
         \A p \in Paths : p[1] \in {old, new} => <<map, p>> \in LT /\ <<map, p>> \in LM
  PROVE  Goes(b0, LT, LM, e, Rebound(e, map, old, new, table, cmd))
<1> DEFINE e1 == keymacro_clear(e, map, <<old>>)
           e2 == [e1 EXCEPT ![map][old] = table[old]]
           e3 == keymacro_clear(e2, map, <<new>>)
           e4 == [e3 EXCEPT ![map][new] = cmd]
<1>0. Rebound(e, map, old, new, table, cmd) = e4
  BY DEF Rebound
<1>1. \A c \in {old, new} : <<c>> \in Paths /\ <<map, <<c>>>> \in LM
  BY OneIsPath
<1>2. \A c \in {old, new}, p \in Paths : IsPrefix(<<c>>, p) => <<map, p>> \in LT
  <2>1. \A c \in {old, new} : <<c>> \in Paths /\ <<c>>[1] = c
    BY OneIsPath
  <2> QED
    BY <2>1, SameFirst
<1>3. Goes(b0, LT, LM, e, e1)
  BY <1>1, <1>2, ClearGoes
<1> HIDE DEF e1
<1>4. Goes(b0, LT, LM, e1, e2)
  BY <1>1, <1>3, SetGoes DEF Goes
<1> HIDE DEF e2
<1>5. Goes(b0, LT, LM, e2, e3)
  BY <1>1, <1>2, <1>4, ClearGoes DEF Goes
<1> HIDE DEF e3
<1>6. Goes(b0, LT, LM, e3, e4)
  BY <1>1, <1>5, SetGoes DEF Goes
<1> HIDE DEF e4
<1>7. Goes(b0, LT, LM, e, e2)
  BY <1>3, <1>4, GoesOn
<1>8. Goes(b0, LT, LM, e, e3)
  BY <1>5, <1>7, GoesOn
<1> QED
  BY <1>0, <1>6, <1>8, GoesOn

\* The characters of the terminal are characters, and L has what the changed ones begin.
Bindable(e, force, LT, LM) ==
  \A i \in 1..Len(tty_map) :
    LET new == e.new[tty_map[i].fn]
        old == e.old[tty_map[i].fn]
    IN  /\ new \in Chars /\ old \in Chars
        /\ new # old \/ force =>
             \A m \in Maps, p \in Paths : p[1] \in {old, new} => <<m, p>> \in LT /\ <<m, p>> \in LM

LEMMA RebindGoes ==
  ASSUME NEW b0, NEW LT, NEW LM, NEW e, Fit(e), Tracks(b0, e), NEW force \in BOOLEAN,
         Bindable(e, force, LT, LM), NEW i \in 1..Len(tty_map)
  PROVE  Goes(b0, LT, LM, e, Rebind(e, tty_map[i], force))
<1> DEFINE tp == tty_map[i]
           new == e.new[tp.fn]
           old == e.old[tp.fn]
           d == Rebind(e, tp, force)
<1>1. /\ new \in Chars /\ old \in Chars
      /\ new # old \/ force =>
           \A m \in Maps, p \in Paths : p[1] \in {old, new} => <<m, p>> \in LT /\ <<m, p>> \in LM
  BY DEF Bindable
<1>2. CASE new = old /\ ~force
  <2>1. d = e
    BY <1>2 DEF Rebind
  <2> QED
    BY <2>1, GoesNowhere
<1>3. CASE ~(new = old /\ ~force) /\ Vi(e)
  <2> DEFINE e1 == Rebound(e, "key", old, new, vii, tp.bind[2])
             e2 == Rebound(e1, "alt", old, new, vic, tp.bind[3])
  <2>1. d = e2
    BY <1>3 DEF Rebind
  <2> HIDE DEF tp, new, old
  <2>2. Goes(b0, LT, LM, e, e1)
    BY <1>1, <1>3, ReboundGoes DEF Maps
  <2> HIDE DEF e1
  <2>3. Goes(b0, LT, LM, e1, e2)
    BY <1>1, <1>3, <2>2, ReboundGoes DEF Maps, Goes
  <2> HIDE DEF e2, d
  <2>4. Goes(b0, LT, LM, e, d)
    BY <2>1, <2>2, <2>3, GoesOn
  <2> QED
    BY <2>4 DEF d, tp
<1>4. CASE ~(new = old /\ ~force) /\ ~Vi(e)
  <2> DEFINE e1 == Rebound(e, "key", old, new, emacs, tp.bind[1])
  <2>1. d = e1
    BY <1>4 DEF Rebind
  <2> HIDE DEF tp, new, old
  <2>2. Goes(b0, LT, LM, e, e1)
    BY <1>1, <1>4, ReboundGoes DEF Maps
  <2> HIDE DEF e1, d
  <2>3. Goes(b0, LT, LM, e, d)
    BY <2>1, <2>2
  <2> QED
    BY <2>3 DEF d, tp
<1> QED
  BY <1>2, <1>3, <1>4

LEMMA CharsGo ==
  ASSUME NEW b0, NEW LT, NEW LM, NEW e, Fit(e), Tracks(b0, e), NEW force \in BOOLEAN,
         Bindable(e, force, LT, LM)
  PROVE  Goes(b0, LT, LM, e, tty_bind_char(e, force))
<1> DEFINE n == Len(tty_map)
           w == [force |-> force]
           Def(f) == f = [i \in 0..n |-> IF i = 0 THEN e ELSE Rebind(f[i - 1], tty_map[i], force)]
           c == CHOOSE f : Def(f)
<1>0. n \in Nat
  BY TablesAssumption DEF TablesAssumption
<1>1. tty_bind_char(e, force) = c[n]
  BY DEF tty_bind_char, Each
<1>2. \A f : Def(f) <=> Becomes("char", e, tty_map, w, n, f)
  <2>1. \A x, a : Does("char", x, a, w) = Rebind(x, a, force)
    BY DoesIs
  <2> QED
    BY <2>1, Zenon DEF Becomes
<1>3. \E f : Becomes("char", e, tty_map, w, n, f)
  BY <1>0, BecomesExists
<1> HIDE DEF Def
<1>4. Def(c)
  BY <1>2, <1>3, Zenon
<1> HIDE DEF c
<1>5. Becomes("char", e, tty_map, w, n, c)
  BY <1>2, <1>4
<1>6. ASSUME NEW i \in 1..n, NEW d, Goes(b0, LT, LM, e, d)
      PROVE  Goes(b0, LT, LM, d, Does("char", d, tty_map[i], w))
  <2>1. Bindable(d, force, LT, LM)
    BY <1>6 DEF Bindable, Goes, Alike
  <2>2. Goes(b0, LT, LM, d, Rebind(d, tty_map[i], force))
    BY <1>6, <2>1, RebindGoes DEF Goes
  <2> QED
    BY <2>2, DoesIs
<1> HIDE DEF n, w
<1> QED
  BY <1>0, <1>1, <1>5, <1>6, BecomesGoes

\* LT has what the sequences of terminal_reset_arrow clash with, those of vi among them.
Settable(vi, LT) ==
  \A i \in 1..Len(Ansi), m \in Maps, p \in Paths :
    \A key \in {Ansi[i][1]} \cup (IF vi THEN {Tail(Ansi[i][1])} ELSE {}) :
      IsPrefix(key, p) \/ IsPrefix(p, key) => <<m, p>> \in LT

LEMMA AnsiArePaths ==
  ASSUME NEW i \in 1..Len(Ansi) PROVE Ansi[i][1] \in Paths /\ Tail(Ansi[i][1]) \in Paths
<1>1. Ansi[i][1] \in Seq(Chars) /\ Len(Ansi[i][1]) > 1
  BY TablesAssumption DEF TablesAssumption
<1> DEFINE s == Ansi[i][1]
<1> HIDE DEF s
<1>2. s \in Seq(Chars) /\ Len(s) \in Nat /\ Len(s) > 1
  BY <1>1, LenProperties DEF s
<1> DEFINE t == Tail(s)
<1>3. s # <<>> /\ t \in Seq(Chars) /\ Len(t) = Len(s) - 1
  BY <1>2, EmptySeq, HeadTailProperties
<1> HIDE DEF t
<1>4. t # <<>>
  BY <1>2, <1>3, EmptySeq
<1> QED
  BY <1>2, <1>3, <1>4 DEF Paths, s, t

\* What terminal_reset_arrow makes of an EditLine, one by one.
LEMMA AnsiBecomes ==
  ASSUME NEW e
  PROVE  \E f, g : /\ Becomes("arrow", e, Ansi, e, Len(Ansi), f)
                   /\ Becomes("tail", f[Len(Ansi)], Ansi, e, Len(Ansi), g)
                   /\ terminal_reset_arrow(e) = IF Vi(e) THEN g[Len(Ansi)] ELSE f[Len(Ansi)]
<1> DEFINE n == Len(Ansi)
           DefArrow(f) == f = [i \in 0..n |-> IF i = 0 THEN e ELSE AddArrow(f[i - 1], Ansi[i])]
           c == CHOOSE f : DefArrow(f)
           d == Each(AddArrow, e, Ansi)
           DefTail(f) == f = [i \in 0..n |-> IF i = 0 THEN d ELSE AddTail(f[i - 1], Ansi[i])]
           c2 == CHOOSE f : DefTail(f)
           d2 == Each(AddTail, d, Ansi)
<1>0. n \in Nat
  BY TablesAssumption DEF TablesAssumption
<1>1. d = c[n]
  BY DEF Each
<1>2. d2 = c2[n]
  BY DEF Each
<1>3. terminal_reset_arrow(e) = IF Vi(e) THEN d2 ELSE d
  BY DEF terminal_reset_arrow
<1> HIDE DEF d
<1>4. \A f : DefArrow(f) <=> Becomes("arrow", e, Ansi, e, n, f)
  <2>1. \A x, a : Does("arrow", x, a, e) = AddArrow(x, a)
    BY DoesIs
  <2> QED
    BY <2>1, Zenon DEF Becomes
<1>5. \A f : DefTail(f) <=> Becomes("tail", d, Ansi, e, n, f)
  <2>1. \A x, a : Does("tail", x, a, e) = AddTail(x, a)
    BY DoesIs
  <2> QED
    BY <2>1, Zenon DEF Becomes
<1>6. (\E f : Becomes("arrow", e, Ansi, e, n, f)) /\ \E f : Becomes("tail", d, Ansi, e, n, f)
  BY <1>0, BecomesExists
<1> HIDE DEF DefArrow, DefTail
<1>7. DefArrow(c) /\ DefTail(c2)
  BY <1>4, <1>5, <1>6, Zenon
<1> HIDE DEF c, c2
<1>8. Becomes("arrow", e, Ansi, e, n, c) /\ Becomes("tail", d, Ansi, e, n, c2)
  BY <1>4, <1>5, <1>7
<1> HIDE DEF d2
<1> QED
  BY <1>1, <1>2, <1>3, <1>8

LEMMA AnsiGo ==
  ASSUME NEW b0, NEW LT, NEW LM, NEW e, Fit(e), Tracks(b0, e), Settable(Vi(e), LT)
  PROVE  Goes(b0, LT, LM, e, terminal_reset_arrow(e))
<1> DEFINE n == Len(Ansi)
<1>0. n \in Nat
  BY TablesAssumption DEF TablesAssumption
<1>1. PICK f, g : /\ Becomes("arrow", e, Ansi, e, n, f)
                  /\ Becomes("tail", f[n], Ansi, e, n, g)
                  /\ terminal_reset_arrow(e) = IF Vi(e) THEN g[n] ELSE f[n]
  BY AnsiBecomes
<1>2. ASSUME NEW i \in 1..n, NEW x, Goes(b0, LT, LM, e, x)
      PROVE  Goes(b0, LT, LM, x, Does("arrow", x, Ansi[i], e))
  <2>1. \A m \in Maps, p \in Paths :
          IsPrefix(Ansi[i][1], p) \/ IsPrefix(p, Ansi[i][1]) => <<m, p>> \in LT
    BY DEF Settable
  <2>2. Goes(b0, LT, LM, x, AddArrow(x, Ansi[i]))
    BY <1>2, <2>1, AddGoes, AnsiArePaths DEF Goes, AddArrow
  <2> QED
    BY <2>2, DoesIs
<1>3. ASSUME NEW i \in 1..n, NEW x, Goes(b0, LT, LM, f[n], x), Vi(e)
      PROVE  Goes(b0, LT, LM, x, Does("tail", x, Ansi[i], e))
  <2>1. \A m \in Maps, p \in Paths :
          IsPrefix(Tail(Ansi[i][1]), p) \/ IsPrefix(p, Tail(Ansi[i][1])) => <<m, p>> \in LT
    BY <1>3 DEF Settable
  <2>2. Goes(b0, LT, LM, x, AddTail(x, Ansi[i]))
    BY <1>3, <2>1, AddGoes, AnsiArePaths DEF Goes, AddTail
  <2> QED
    BY <2>2, DoesIs
<1> HIDE DEF n
<1>4. Goes(b0, LT, LM, e, f[n])
  BY <1>0, <1>1, <1>2, BecomesGoes
<1>5. Vi(e) => Goes(b0, LT, LM, f[n], g[n])
  <2>1. Fit(f[n]) /\ Tracks(b0, f[n])
    BY <1>4 DEF Goes
  <2> QED
    BY <1>0, <1>1, <1>3, <2>1, BecomesGoes
<1> QED
  BY <1>1, <1>4, <1>5, GoesOn

\* What the terminal sends are sequences, and LT and LM have what they clash with.
Sent(e, i, map, LT, LM) ==
  LET s == e.str[Arrows[i].name]
  IN  /\ s \in Seq(Chars)
      /\ s # <<>> => \A p \in Paths :
                       IsPrefix(s, p) \/ IsPrefix(p, s) =>
                         (\A m \in Maps : <<m, p>> \in LT) /\ <<map, p>> \in LM

Sendable(e, map, LT, LM) == \A i \in 1..Len(Arrows) : Sent(e, i, map, LT, LM)

LEMMA ArrowGoes ==
  ASSUME NEW b0, NEW LT, NEW LM, NEW e, Fit(e), Tracks(b0, e), NEW map \in Maps, NEW table,
         NEW i \in 1..Len(Arrows), Sent(e, i, map, LT, LM)
  PROVE  Goes(b0, LT, LM, e, BindArrow(e, Arrows[i], map, table))
<1> DEFINE s == e.str[Arrows[i].name]
           f == e.arrow[Arrows[i].name]
           cleared == keymacro_clear(e, map, s)
           added == keymacro_add(e, s, f)
           again == keymacro_add(cleared, s, f)
           d == BindArrow(e, Arrows[i], map, table)
<1>1. CASE e.aborted \/ s = <<>>
  <2>1. d = e
    BY <1>1 DEF BindArrow
  <2> QED
    BY <2>1, GoesNowhere
<1>2. CASE ~(e.aborted \/ s = <<>>)
  <2>1. \/ d = cleared \/ d = [added EXCEPT ![map][s[1]] = Lead] \/ d = e
        \/ d = [cleared EXCEPT ![map][s[1]] = f.val] /\ e[map][s[1]] = Unassigned
        \/ d = again
    BY <1>2 DEF BindArrow
  <2>2. s \in Paths /\ \A p \in Paths : IsPrefix(s, p) \/ IsPrefix(p, s) =>
                         (\A m \in Maps : <<m, p>> \in LT) /\ <<map, p>> \in LM
    BY <1>2 DEF Sent, Paths
  <2> HIDE DEF d, s, f
  <2>3. s[1] \in Chars /\ <<map, <<s[1]>>>> \in LM
    BY <2>2, FirstIsChar, OneIsPath
  <2>4. Goes(b0, LT, LM, e, cleared) /\ cleared[map] = e[map]
    <3>1. \A p \in Paths : IsPrefix(s, p) => <<map, p>> \in LT
      BY <2>2
    <3>2. s \in Paths
      BY <2>2
    <3>3. Goes(b0, LT, LM, e, cleared) /\ cleared.key = e.key /\ cleared.alt = e.alt
      BY <3>1, <3>2, ClearGoes
    <3> QED
      BY <3>3 DEF Maps
  <2>5. Goes(b0, LT, LM, e, added)
    BY <2>2, AddGoes
  <2>6. Goes(b0, LT, LM, cleared, again)
    BY <2>2, <2>4, AddGoes DEF Goes
  <2> HIDE DEF cleared, added, again
  <2>7. Goes(b0, LT, LM, added, [added EXCEPT ![map][s[1]] = Lead])
    BY <2>3, <2>5, SetGoes DEF Goes
  <2>8. e[map][s[1]] = Unassigned => Goes(b0, LT, LM, cleared, [cleared EXCEPT ![map][s[1]] = f.val])
    <3>1. Unassigned # Lead
      BY DEF Unassigned, Lead
    <3> QED
      BY <2>3, <2>4, <3>1, SetGoes DEF Goes
  <2>9. Goes(b0, LT, LM, e, d)
    <3>1. CASE d = [added EXCEPT ![map][s[1]] = Lead]
      BY <2>5, <2>7, <3>1, GoesOn
    <3>2. CASE d = [cleared EXCEPT ![map][s[1]] = f.val] /\ e[map][s[1]] = Unassigned
      BY <2>4, <2>8, <3>2, GoesOn
    <3>3. CASE d = again
      BY <2>4, <2>6, <3>3, GoesOn
    <3> QED
      BY <2>1, <2>4, <3>1, <3>2, <3>3, GoesNowhere
  <2> QED
    BY <2>9 DEF d
<1> QED
  BY <1>1, <1>2

ArrowMap(e) == IF Vi(e) THEN "alt" ELSE "key"

\* What terminal_bind_arrow makes of it after that.
ArrowTable(e) == IF Vi(e) THEN vic ELSE emacs
ArrowWith(e) == [map |-> ArrowMap(e), table |-> ArrowTable(e)]

LEMMA ArrowsBecome ==
  ASSUME NEW e
  PROVE  /\ \A x, a : Does("bind", x, a, ArrowWith(e)) = BindArrow(x, a, ArrowMap(e), ArrowTable(e))
         /\ \E f : /\ Becomes("bind", terminal_reset_arrow(e), Arrows, ArrowWith(e), Len(Arrows), f)
                   /\ terminal_bind_arrow(e) = f[Len(Arrows)]
<1> DEFINE n == Len(Arrows)
           map == ArrowMap(e)
           table == ArrowTable(e)
           w == ArrowWith(e)
           d == terminal_reset_arrow(e)
           Def(f) == f = [i \in 0..n |-> IF i = 0 THEN d ELSE BindArrow(f[i - 1], Arrows[i], map, table)]
           c == CHOOSE f : Def(f)
<1>0. n \in Nat
  BY TablesAssumption DEF TablesAssumption
<1>1. terminal_bind_arrow(e) = c[n]
  BY DEF terminal_bind_arrow, Each, ArrowMap, ArrowTable
<1>2. \A x, a : Does("bind", x, a, w) = BindArrow(x, a, map, table)
  <2>1. w.map = map /\ w.table = table
    BY DEF ArrowWith
  <2> HIDE DEF w, map, table
  <2> QED
    BY <2>1, DoesIs
<1> HIDE DEF w, map, table, d
<1>3. \A f : Def(f) <=> Becomes("bind", d, Arrows, w, n, f)
  BY <1>2, Zenon DEF Becomes
<1>4. \E f : Becomes("bind", d, Arrows, w, n, f)
  BY <1>0, BecomesExists
<1> HIDE DEF Def
<1>5. Def(c)
  BY <1>3, <1>4, Zenon
<1> HIDE DEF c
<1>6. Becomes("bind", d, Arrows, w, n, c)
  BY <1>3, <1>5
<1> QED
  BY <1>1, <1>2, <1>6 DEF d, w, map, table

LEMMA ArrowsGo ==
  ASSUME NEW b0, NEW LT, NEW LM, NEW e, Fit(e), Tracks(b0, e),
         Settable(Vi(e), LT), Sendable(e, ArrowMap(e), LT, LM)
  PROVE  Goes(b0, LT, LM, e, terminal_bind_arrow(e))
<1> DEFINE n == Len(Arrows)
           d == terminal_reset_arrow(e)
           w == ArrowWith(e)
<1>0. n \in Nat /\ ArrowMap(e) \in Maps
  BY TablesAssumption DEF TablesAssumption, Maps, ArrowMap
<1>1. PICK f : Becomes("bind", d, Arrows, w, n, f) /\ terminal_bind_arrow(e) = f[n]
  BY ArrowsBecome
<1>2. Goes(b0, LT, LM, e, d)
  BY AnsiGo
<1> HIDE DEF n, d, w
<1>3. ASSUME NEW i \in 1..n, NEW x, Goes(b0, LT, LM, d, x)
      PROVE  Goes(b0, LT, LM, x, Does("bind", x, Arrows[i], w))
  <2>1. Sent(x, i, ArrowMap(e), LT, LM)
    BY <1>2, <1>3 DEF Sendable, Sent, Goes, Alike, n
  <2>2. Goes(b0, LT, LM, x, BindArrow(x, Arrows[i], ArrowMap(e), ArrowTable(e)))
    BY <1>0, <1>3, <2>1, ArrowGoes DEF Goes, n
  <2> QED
    BY <2>2, ArrowsBecome DEF w
<1>4. Goes(b0, LT, LM, d, f[n])
  <2>1. Fit(d) /\ Tracks(b0, d)
    BY <1>2 DEF Goes
  <2> QED
    BY <1>0, <1>1, <1>3, <2>1, BecomesGoes
<1> QED
  BY <1>1, <1>2, <1>4, GoesOn

-----------------------------------------------------------------------------
(* The maps as an editor begins with them                                  *)

Whole == Maps \X Paths

LEMMA WholeGoes ==
  ASSUME NEW b0, NEW e, NEW d, Fit(d), Tracks(b0, d), Alike(e, d)
  PROVE  Goes(b0, Whole, Whole, e, d)
<1>1. \A m \in Maps, c \in Chars : <<m, <<c>>>> \in Whole
  BY OneIsPath DEF Whole
<1>2. \A m \in Maps, p \in Paths : <<m, p>> \in Whole
  BY DEF Whole
<1> QED
  BY <1>1, <1>2 DEF Goes, Apart

LEMMA MetaIs ==
  ASSUME NEW e PROVE MetaMap(e) \in Maps /\ MetaKey(e) \in Chars
<1>1. MetaMap(e) \in Maps
  BY DEF MetaMap, Maps
<1> DEFINE with == {c \in Chars : e[MetaMap(e)][c] = MetaNext}
<1>2. MetaKey(e) = IF with = {} THEN "esc" ELSE CHOOSE c \in with : TRUE
  BY DEF MetaKey
<1>3. with \subseteq Chars
  OBVIOUS
<1> HIDE DEF with
<1>4. with # {} => (CHOOSE c \in with : TRUE) \in with
  OBVIOUS
<1> QED
  BY <1>1, <1>2, <1>3, <1>4, TablesAssumption DEF TablesAssumption

LEMMA MetasGo ==
  ASSUME NEW b0, NEW e, Fit(e), Tracks(b0, e)
  PROVE  /\ Goes(b0, Whole, Whole, e, map_init_meta(e))
         /\ map_init_meta(e)[MetaMap(e)][MetaKey(e)] = Lead
<1> DEFINE n == Len(Metas)
           map == MetaMap(e)
           key == MetaKey(e)
           w == [map |-> map, key |-> key]
           d == map_init_metaUnled(e)
           Def(f) == f = [i \in 0..n |-> IF i = 0 THEN e ELSE AddMeta(f[i - 1], Metas[i], map, key)]
           c == CHOOSE f : Def(f)
<1>0. n \in Nat /\ map \in Maps /\ key \in Chars /\ \A i \in 1..n : Metas[i][2] \in Chars
  <2>1. Metas \in Seq(Chars \X Chars)
    BY TablesAssumption DEF TablesAssumption
  <2>2. \A i \in 1..Len(Metas) : Metas[i] \in Chars \X Chars
    BY <2>1, ElementOfSeq
  <2> QED
    BY <2>1, <2>2, MetaIs, LenProperties
<1>1. d = c[n]
  BY DEF map_init_metaUnled, Each
<1>2. \A x, a : Does("meta", x, a, w) = AddMeta(x, a, map, key)
  <2>1. w.map = map /\ w.key = key
    OBVIOUS
  <2> HIDE DEF w, map, key
  <2> QED
    BY <2>1, DoesIs
<1> HIDE DEF w, map, key
<1>3. \A f : Def(f) <=> Becomes("meta", e, Metas, w, n, f)
  BY <1>2, Zenon DEF Becomes
<1>4. \E f : Becomes("meta", e, Metas, w, n, f)
  BY <1>0, BecomesExists
<1> HIDE DEF Def
<1>5. Def(c)
  BY <1>3, <1>4, Zenon
<1> HIDE DEF c
<1>6. Becomes("meta", e, Metas, w, n, c)
  BY <1>3, <1>5
<1> HIDE DEF n, d
<1>7. ASSUME NEW i \in 1..n, NEW x, Goes(b0, Whole, Whole, e, x)
      PROVE  Goes(b0, Whole, Whole, x, Does("meta", x, Metas[i], w))
  <2> DEFINE m == Metas[i]
             s == <<key, m[2]>>
             v == keymacro_map_cmd(x[map][m[1]])
  <2>1. s \in Paths
    <3>1. m[2] \in Chars
      BY <1>0
    <3> HIDE DEF m
    <3> QED
      BY <1>0, <3>1, EmptySeq DEF Paths
  <2>2. AddMeta(x, m, map, key) = x \/ AddMeta(x, m, map, key) = keymacro_add(x, s, v)
    BY DEF AddMeta
  <2>3. \A k \in Maps, p \in Paths : <<k, p>> \in Whole
    BY DEF Whole
  <2> HIDE DEF m, s, v
  <2>4. Goes(b0, Whole, Whole, x, keymacro_add(x, s, v)) /\ Goes(b0, Whole, Whole, x, x)
    BY <1>7, <2>1, <2>3, AddGoes, GoesNowhere DEF Goes
  <2>5. Goes(b0, Whole, Whole, x, AddMeta(x, m, map, key))
    BY <2>2, <2>4
  <2> QED
    BY <1>2, <2>5 DEF m
<1>8. Goes(b0, Whole, Whole, e, d)
  BY <1>0, <1>1, <1>6, <1>7, BecomesGoes
<1> DEFINE d2 == [d EXCEPT ![map][key] = Lead]
<1>9. map_init_meta(e) = d2
  BY DEF map_init_meta, d, map, key
<1>10. Goes(b0, Whole, Whole, d, d2)
  <2>1. <<map, <<key>>>> \in Whole
    BY <1>0, OneIsPath DEF Whole
  <2> QED
    BY <1>0, <1>8, <2>1, SetGoes DEF Goes
<1>11. d2[map][key] = Lead
  <2>1. Fit(d)
    BY <1>8 DEF Goes
  <2>2. \A m \in Maps : map = m => [d EXCEPT ![m][key] = Lead][m][key] = Lead
    BY <1>0, <2>1 DEF Fit, Maps
  <2> QED
    BY <1>0, <2>2
<1> HIDE DEF d2
<1>12. Goes(b0, Whole, Whole, e, d2)
  BY <1>8, <1>10, GoesOn
<1> QED
  BY <1>9, <1>11, <1>12 DEF map, key

LEMMA NlsGo ==
  ASSUME NEW b0, NEW e, Fit(e), Tracks(b0, e)
  PROVE  /\ Goes(b0, Whole, Whole, e, map_init_nls(e))
         /\ \A m \in Maps : map_init_nls(e)[m]["esc"] = e[m]["esc"]
<1> DEFINE d == map_init_nls(e)
<1>1. d = [e EXCEPT !.key = [c \in Chars |-> IF c \in Printable THEN "ed_insert" ELSE e.key[c]]]
  BY DEF map_init_nls, Fit
<1>2. Fit(d) /\ Alike(e, d) /\ d.tree = e.tree /\ d.calls = e.calls
  BY <1>1 DEF Fit, Alike
<1>3. \A m \in Maps : d[m]["esc"] = e[m]["esc"]
  <2>1. "esc" \in Chars /\ "esc" \notin Printable
    BY TablesAssumption, ArrowsAssumption DEF TablesAssumption, ArrowsAssumption
  <2>2. d.key["esc"] = e.key["esc"] /\ d.alt = e.alt
    BY <1>1, <2>1 DEF Fit
  <2> QED
    BY <2>2 DEF Maps
<1> HIDE DEF d
<1>4. Tracks(b0, d)
  BY <1>2 DEF Tracks
<1> QED
  BY <1>2, <1>3, <1>4, WholeGoes DEF d

\* What is bound from, characters and sequences of the terminal, is there.
Supplied(e) ==
  /\ \A i \in 1..Len(tty_map) : e.new[tty_map[i].fn] \in Chars /\ e.old[tty_map[i].fn] \in Chars
  /\ \A i \in 1..Len(Arrows) : e.str[Arrows[i].name] \in Seq(Chars)

LEMMA WholeBinds ==
  ASSUME NEW b0, NEW e, Fit(e), Tracks(b0, e), Supplied(e)
  PROVE  Goes(b0, Whole, Whole, e, terminal_bind_arrow(tty_bind_char(e, TRUE)))
<1> DEFINE d == tty_bind_char(e, TRUE)
<1>0. \A m \in Maps, p \in Paths : <<m, p>> \in Whole
  BY DEF Whole
<1>1. Bindable(e, TRUE, Whole, Whole)
  BY <1>0 DEF Supplied, Bindable
<1>2. Goes(b0, Whole, Whole, e, d)
  BY <1>1, CharsGo
<1> HIDE DEF d
<1>3. Settable(Vi(d), Whole)
  BY <1>0 DEF Settable
<1>4. Sendable(d, ArrowMap(d), Whole, Whole)
  <2>1. ArrowMap(d) \in Maps /\ d.str = e.str
    BY <1>2 DEF ArrowMap, Maps, Goes, Alike
  <2> QED
    BY <1>0, <2>1 DEF Supplied, Sendable, Sent
<1>5. Goes(b0, Whole, Whole, d, terminal_bind_arrow(d))
  BY <1>2, <1>3, <1>4, ArrowsGo DEF Goes
<1> QED
  BY <1>2, <1>5, GoesOn DEF d

\* The tree is emptied.
LEMMA ResetTracks ==
  ASSUME NEW b0, NEW e, Fit(e)
  PROVE  LET d == keymacro_reset(e) IN
           /\ Fit(d) /\ Alike(e, d) /\ Tracks(b0, d)
<1> DEFINE d == keymacro_reset(e)
           call == [op |-> "reset"]
<1>1. d = [e EXCEPT !.tree = <<>>, !.calls = Append(e.calls, call)]
  BY DEF keymacro_reset
<1>2. IsSeq(Append(e.calls, call)) /\
      Keymacro!After(Append(e.calls, call), b0) = Keymacro!Called(Keymacro!After(e.calls, b0), call)
  BY AfterAppend DEF Fit
<1>3. \A b : Keymacro!Called(b, call) = <<>>
  BY DEF Keymacro!Called
<1> HIDE DEF d, call
<1>4. Fit(d) /\ Alike(e, d) /\ d.tree = <<>> /\ d.calls = Append(e.calls, call)
  BY <1>1, <1>2, EmptyTree DEF Fit, Alike
<1>5. Tracks(b0, d)
  BY <1>2, <1>3, <1>4, EmptyTree DEF Tracks
<1> QED
  BY <1>4, <1>5 DEF d

Editors == {"emacs", "vi"}
InitEditor(editor, e) == IF editor = "vi" THEN map_init_vi(e) ELSE map_init_emacs(e)

\* What an editor has set up when it has yet to bind the characters and the arrow keys:
\* escape leads into the tree.
Mapped(b0, e, editor, d) ==
  /\ InitEditor(editor, e) = terminal_bind_arrow(tty_bind_char(d, TRUE))
  /\ Fit(d) /\ Tracks(b0, d) /\ Supplied(d)
  /\ d.new = e.new /\ d.old = e.old /\ d.str = e.str /\ d.arrow = e.arrow
  /\ d.type = editor /\ d[ArrowMap(d)]["esc"] = Lead

LEMMA EditorMaps ==
  ASSUME NEW b0, NEW e, Fit(e), Supplied(e), NEW editor \in Editors
  PROVE  \E d : Mapped(b0, e, editor, d)
<1> DEFINE r == keymacro_reset(e)
           alt == [c \in Chars |-> Unassigned]
           e1 == IF editor = "vi" THEN [r EXCEPT !.type = "vi", !.key = vii, !.alt = vic]
                 ELSE [r EXCEPT !.type = "emacs", !.key = emacs, !.alt = alt]
           e2 == map_init_meta(e1)
           e3 == map_init_nls(e2)
           v == keymacro_map_cmd("em_exchange_mark")
           d == IF editor = "vi" THEN e3 ELSE keymacro_add(e3, <<"C-x", "C-x">>, v)
<1>0. InitEditor(editor, e) = terminal_bind_arrow(tty_bind_char(d, TRUE))
  BY DEF InitEditor, map_init_vi, map_init_emacs, Editors
<1>1. Fit(r) /\ Alike(e, r) /\ Tracks(b0, r)
  BY ResetTracks
<1> HIDE DEF r
<1>2. /\ Fit(e1) /\ e1.new = e.new /\ e1.old = e.old /\ e1.str = e.str /\ e1.arrow = e.arrow
      /\ e1.tree = r.tree /\ e1.calls = r.calls /\ e1.type = editor
      /\ IF editor = "vi" THEN e1.key = vii /\ e1.alt = vic ELSE e1.key = emacs
  <2>0. DOMAIN alt = Chars /\ DOMAIN vii = Chars /\ DOMAIN vic = Chars /\ DOMAIN emacs = Chars
    BY TablesAssumption DEF TablesAssumption
  <2> HIDE DEF alt
  <2>1. CASE editor = "vi"
    BY <1>1, <2>0, <2>1 DEF Fit, Alike
  <2>2. CASE editor # "vi"
    BY <1>1, <2>0, <2>2 DEF Fit, Alike, Editors
  <2> QED
    BY <2>1, <2>2
<1> HIDE DEF e1
<1>3. Tracks(b0, e1)
  BY <1>1, <1>2 DEF Tracks
<1>4. MetaMap(e1) = ArrowMap(e1) /\ MetaKey(e1) = "esc"
  <2>1. /\ "esc" \in Chars
        /\ \A c \in Chars : /\ emacs[c] = MetaNext <=> c = "esc"
                            /\ vic[c] = MetaNext <=> c = "esc"
                            /\ vii[c] # MetaNext
    BY TablesAssumption, ArrowsAssumption DEF TablesAssumption, ArrowsAssumption
  <2>2. MetaMap(e1) = ArrowMap(e1)
    BY <1>2, <2>1 DEF MetaMap, ArrowMap, Vi, Editors
  <2>3. \A c \in Chars : e1[MetaMap(e1)][c] = MetaNext <=> c = "esc"
    BY <1>2, <2>1, <2>2 DEF ArrowMap, Vi, Editors
  <2> DEFINE with == {c \in Chars : e1[MetaMap(e1)][c] = MetaNext}
  <2>4. with = {"esc"}
    BY <2>1, <2>3
  <2>5. MetaKey(e1) = IF with = {} THEN "esc" ELSE CHOOSE c \in with : TRUE
    BY DEF MetaKey
  <2> HIDE DEF with
  <2> QED
    BY <2>2, <2>4, <2>5
<1>5. Goes(b0, Whole, Whole, e1, e2) /\ e2[ArrowMap(e1)]["esc"] = Lead
  BY <1>2, <1>3, <1>4, MetasGo
<1> HIDE DEF e2
<1>6. Goes(b0, Whole, Whole, e2, e3) /\ e3[ArrowMap(e1)]["esc"] = Lead
  <2>1. ArrowMap(e1) \in Maps
    BY DEF ArrowMap, Maps
  <2> QED
    BY <1>5, <2>1, NlsGo DEF Goes
<1> HIDE DEF e3
<1>7. Goes(b0, Whole, Whole, e3, d) /\ d.key = e3.key /\ d.alt = e3.alt
  <2>1. <<"C-x", "C-x">> \in Paths
    BY TablesAssumption, EmptySeq DEF TablesAssumption, Paths
  <2>2. \A m \in Maps, p \in Paths : <<m, p>> \in Whole
    BY DEF Whole
  <2> HIDE DEF v
  <2>3. Fit(e3) /\ Tracks(b0, e3)
    BY <1>6 DEF Goes
  <2>4. /\ Goes(b0, Whole, Whole, e3, keymacro_add(e3, <<"C-x", "C-x">>, v))
        /\ keymacro_add(e3, <<"C-x", "C-x">>, v).key = e3.key
        /\ keymacro_add(e3, <<"C-x", "C-x">>, v).alt = e3.alt
    BY <2>1, <2>2, <2>3, AddGoes
  <2>5. Goes(b0, Whole, Whole, e3, e3)
    BY <2>3, GoesNowhere
  <2> QED
    BY <2>4, <2>5
<1> HIDE DEF d
<1>8. Goes(b0, Whole, Whole, e1, d)
  <2>1. Goes(b0, Whole, Whole, e1, e3)
    BY <1>5, <1>6, GoesOn
  <2> QED
    BY <1>7, <2>1, GoesOn
<1>9. /\ Fit(d) /\ Tracks(b0, d) /\ d.type = editor
      /\ d.new = e.new /\ d.old = e.old /\ d.str = e.str /\ d.arrow = e.arrow
  BY <1>2, <1>8 DEF Goes, Alike
<1>10. Supplied(d)
  BY <1>9 DEF Supplied
<1>11. ArrowMap(d) = ArrowMap(e1)
  BY <1>2, <1>9 DEF ArrowMap, Vi
<1>12. d[ArrowMap(d)]["esc"] = Lead
  BY <1>6, <1>7, <1>11 DEF ArrowMap
<1>13. Mapped(b0, e, editor, d)
  BY <1>0, <1>9, <1>10, <1>12 DEF Mapped
<1> QED
  BY <1>13

LEMMA EditorBegins ==
  ASSUME NEW b0, NEW e, Fit(e), Supplied(e), NEW editor \in Editors
  PROVE  LET d == InitEditor(editor, e) IN
           /\ Fit(d) /\ Tracks(b0, d) /\ d.new = e.new /\ d.old = e.old /\ d.str = e.str
           /\ d.arrow = e.arrow
<1>1. PICK d : Mapped(b0, e, editor, d)
  BY EditorMaps
<1>2. Goes(b0, Whole, Whole, d, InitEditor(editor, e))
  BY <1>1, WholeBinds DEF Mapped
<1> QED
  BY <1>1, <1>2 DEF Goes, Alike, Mapped

-----------------------------------------------------------------------------
(* What the user has bound                                                 *)

\* u does v: in the tree, which its map leads to, or in its map.
Stands(e, u, v) ==
  IF Len(u[2]) > 1 \/ v.type = "str"
  THEN u[2] \in Leaves(e.tree) /\ e.tree[u[2]] = v /\ e[u[1]][u[2][1]] = Lead
  ELSE /\ u[2] = <<u[2][1]>>
       /\ v = keymacro_map_cmd(e[u[1]][u[2][1]]) /\ e[u[1]][u[2][1]] # Lead

Held(e, us) == DOMAIN us \subseteq Whole /\ \A u \in DOMAIN us : Stands(e, u, us[u])

\* No arrow key is set to a lead-in, and ArrowsAssumption holds of the characters of the
\* terminal and of what it sends.
Sound(e) ==
  /\ \A i \in 1..Len(Arrows) : /\ Arrows[i].name \in DOMAIN e.arrow
                               /\ e.arrow[Arrows[i].name] # keymacro_map_cmd(Lead)
  /\ \A f \in DOMAIN TtyChars : e.new[f] # "esc"
  /\ \A i \in 1..Len(Arrows), j \in 1..Len(Ansi) :
       LET s == e.str[Arrows[i].name]
       IN  s # <<>> /\ Meet(s, Ansi[j][1]) => s = Ansi[j][1] /\ Arrows[i].name = Ansi[j][2]

Ready(e) ==
  /\ Fit(e) /\ Sound(e)
  /\ e.new = e.old /\ DOMAIN e.new = DOMAIN TtyChars
  /\ \A f \in DOMAIN TtyChars : e.new[f] \in Chars
  /\ \A i \in 1..Len(Arrows) : e.str[Arrows[i].name] \in Seq(Chars)

BindingsInv == Ready(el) /\ Held(el, user)

\* None of the user's bindings but the named is in LT, if it is in the tree, or in LM.
Spared(LT, LM, named) ==
  \A u \in DOMAIN user \ named : IF InTree(u) THEN u \notin LT ELSE u \notin LM

LEMMA ReadyIsSupplied == ASSUME NEW e, Ready(e) PROVE Supplied(e)
BY TablesAssumption DEF TablesAssumption, Ready, Supplied

LEMMA SoundToo ==
  ASSUME NEW e, NEW d, Sound(e), d.arrow = e.arrow, d.new = e.new, d.str = e.str PROVE Sound(d)
BY DEF Sound

LEMMA GoesReady ==
  ASSUME NEW b0, NEW LT, NEW LM, NEW e, NEW d, Ready(e), Goes(b0, LT, LM, e, d) PROVE Ready(d)
<1>1. Sound(d)
  BY SoundToo DEF Ready, Goes, Alike
<1> QED
  BY <1>1 DEF Ready, Goes, Alike

LEMMA GoesHeld ==
  ASSUME Held(el, user), NEW b0, NEW LT, NEW LM, NEW e, NEW d, NEW named,
         e.tree = el.tree, e.key = el.key, e.alt = el.alt,
         Goes(b0, LT, LM, e, d), Spared(LT, LM, named)
  PROVE  Held(d, Without(named))
<1> DEFINE us == Without(named)
<1>1. DOMAIN us = DOMAIN user \ named /\ \A u \in DOMAIN us : us[u] = user[u]
  BY DEF Without
<1> HIDE DEF us
<1>2. Apart(LT, LM, e, d)
  BY DEF Goes
<1>3. ASSUME NEW u \in DOMAIN us PROVE Stands(d, u, us[u])
  <2> DEFINE m == u[1]
             p == u[2]
             c == p[1]
             v == user[u]
  <2>1. u \in DOMAIN user \ named /\ us[u] = v /\ Stands(el, u, v)
    BY <1>1, <1>3 DEF Held
  <2>2. u = <<m, p>> /\ m \in Maps /\ p \in Paths
    BY <2>1 DEF Held, Whole
  <2>3. c \in Chars
    BY <2>2, FirstIsChar
  <2>4. e[m] = el[m]
    BY <2>2 DEF Maps
  <2>5. InTree(u) <=> Len(p) > 1 \/ v.type = "str"
    BY DEF InTree
  <2> HIDE DEF m, p, c, v
  <2>6. CASE InTree(u)
    <3>1. <<m, p>> \notin LT
      BY <2>1, <2>2, <2>6 DEF Spared
    <3>2. p \in Leaves(e.tree) /\ e.tree[p] = v /\ e[m][c] = Lead
      BY <2>1, <2>4, <2>5, <2>6 DEF Stands, m, p, c
    <3>3. p \in Leaves(d.tree) /\ d.tree[p] = v /\ d[m][c] = Lead
      BY <1>2, <2>2, <3>1, <3>2 DEF Apart, c
    <3> QED
      BY <2>1, <2>5, <2>6, <3>3 DEF Stands, m, p, c
  <2>7. CASE ~InTree(u)
    <3>1. p = <<c>> /\ v = keymacro_map_cmd(e[m][c]) /\ e[m][c] # Lead
      BY <2>1, <2>4, <2>5, <2>7 DEF Stands, m, p, c
    <3>2. <<m, <<c>>>> \notin LM
      BY <2>1, <2>2, <2>7, <3>1 DEF Spared
    <3>3. d[m][c] = e[m][c]
      BY <1>2, <2>2, <2>3, <3>1, <3>2 DEF Apart
    <3> QED
      BY <2>1, <2>5, <2>7, <3>1, <3>3 DEF Stands, m, p, c
  <2> QED
    BY <2>6, <2>7
<1> QED
  BY <1>1, <1>3 DEF Held, us

LEMMA OneMoreHeld ==
  ASSUME NEW d, NEW named, Held(d, Without(named)), NEW key \in Whole, NEW v, Stands(d, key, v)
  PROVE  Held(d, With(named, key, v))
<1>1. DOMAIN Without(named) = DOMAIN user \ named
        /\ \A u \in DOMAIN user \ named : Without(named)[u] = user[u]
  BY DEF Without
<1>2. DOMAIN With(named, key, v) = (DOMAIN user \ named) \cup {key}
        /\ \A u \in DOMAIN With(named, key, v) :
             With(named, key, v)[u] = IF u = key THEN v ELSE user[u]
  BY DEF With
<1> QED
  BY <1>1, <1>2 DEF Held

\* What stands in an EditLine stands in one with the same maps and tree.
LEMMA SameHeld ==
  ASSUME NEW e, NEW d, NEW us, Held(e, us), d.tree = e.tree, d.key = e.key, d.alt = e.alt
  PROVE  Held(d, us)
<1>1. ASSUME NEW u \in DOMAIN us PROVE Stands(d, u, us[u])
  <2>1. Stands(e, u, us[u]) /\ u \in Whole
    BY <1>1 DEF Held
  <2>2. d[u[1]] = e[u[1]]
    BY <2>1 DEF Whole, Maps
  <2> QED
    BY <2>1, <2>2 DEF Stands
<1> QED
  BY <1>1 DEF Held

\* With no call made, the tree is what it was.
LEMMA Begins ==
  ASSUME Ready(el)
  PROVE  /\ Ready(Begun) /\ Tracks(Bound(el.tree), Begun)
         /\ Begun.tree = el.tree /\ Begun.key = el.key /\ Begun.alt = el.alt
         /\ Begun.type = el.type /\ Begun.new = el.new /\ Begun.old = el.old
         /\ Begun.str = el.str /\ Begun.arrow = el.arrow /\ Begun.aborted = el.aborted
<1>1. IsSeq(<<>>)
  BY EmptySeq DEF IsSeq
<1>2. DOMAIN Begun = DOMAIN el /\ Begun.calls = <<>>
      /\ Begun.tree = el.tree /\ Begun.key = el.key /\ Begun.alt = el.alt
      /\ Begun.type = el.type /\ Begun.new = el.new /\ Begun.old = el.old
      /\ Begun.str = el.str /\ Begun.arrow = el.arrow /\ Begun.aborted = el.aborted
  BY DEF Begun, Ready, Fit
<1>3. Ready(Begun)
  <2>1. Sound(Begun)
    BY <1>2, SoundToo DEF Ready
  <2> QED
    BY <1>1, <1>2, <2>1 DEF Ready, Fit
<1>4. Tracks(Bound(el.tree), Begun)
  BY <1>2, AfterNone DEF Tracks
<1> QED
  BY <1>2, <1>3, <1>4

\* What each call does to the EditLine and to the bindings of the user.
Stays(e, us) == Ready(e) /\ Held(e, us) /\ Tracks(Bound(el.tree), e)

LEMMA KeysArePaths == ASSUME NEW s \in Keys PROVE s \in Paths
BY BindingsAssumption DEF BindingsAssumption, Paths

LEMMA InWhole == ASSUME NEW m \in Maps, NEW p \in Paths PROVE <<m, p>> \in Whole
BY DEF Whole

LEMMA OneIs == ASSUME NEW s \in Paths, Len(s) = 1 PROVE s = <<s[1]>>
<1>1. s \in Seq(Chars) /\ s[1] \in Chars
  BY PathIs, FirstIsChar
<1> DEFINE t == <<s[1]>>
<1>2. t \in Seq(Chars) /\ Len(t) = 1 /\ t[1] = s[1]
  BY <1>1
<1> HIDE DEF t
<1>3. \A i \in 1..Len(s) : s[i] = t[i]
  BY <1>2
<1> QED
  BY <1>1, <1>2, <1>3, SeqEqual DEF t

LEMMA SwitchStays ==
  ASSUME BindingsInv, NEW editor \in {"emacs", "vi"}, Switch(editor) PROVE Stays(el', user')
<1> DEFINE b0 == Bound(el.tree)
           d == InitEditor(editor, Begun)
<1>1. el' = d /\ user' = <<>>
  BY DEF Switch, Call, InitEditor
<1>2. Ready(Begun)
  BY Begins DEF BindingsInv
<1>3. Fit(d) /\ Tracks(b0, d) /\ d.new = Begun.new /\ d.old = Begun.old /\ d.str = Begun.str
        /\ d.arrow = Begun.arrow
  BY <1>2, ReadyIsSupplied, EditorBegins DEF Ready, Editors
<1> HIDE DEF d, b0
<1>4. Ready(d)
  BY <1>2, <1>3, SoundToo DEF Ready
<1>5. Held(d, <<>>)
  BY DEF Held
<1> QED
  BY <1>1, <1>3, <1>4, <1>5 DEF Stays, b0

\* A call that changes one map, or adds a key or deletes it, and names what that touches.
LEMMA CallStays ==
  ASSUME BindingsInv, NEW LT, NEW LM, NEW d, NEW named,
         Goes(Bound(el.tree), LT, LM, Begun, d), Spared(LT, LM, named)
  PROVE  Stays(d, Without(named)) /\ d.type = el.type
<1>1. Ready(el) /\ Held(el, user)
  BY DEF BindingsInv
<1>2. /\ Ready(Begun) /\ Begun.tree = el.tree /\ Begun.key = el.key /\ Begun.alt = el.alt
      /\ Begun.type = el.type
  BY <1>1, Begins
<1>3. Ready(d)
  BY <1>2, GoesReady
<1>4. Held(d, Without(named))
  BY <1>1, <1>2, GoesHeld
<1>5. Tracks(Bound(el.tree), d) /\ d.type = el.type
  BY <1>2 DEF Goes, Alike
<1> QED
  BY <1>3, <1>4, <1>5 DEF Stays

LEMMA RemoveKeyStays ==
  ASSUME BindingsInv, NEW map \in Maps, NEW s \in Keys, RemoveKey(map, s)
  PROVE  Stays(el', user') /\ el'.type = el.type
<1> DEFINE b0 == Bound(el.tree)
           leads == Len(s) > 1 \/ el[map][s[1]] = Lead
           named == IF leads THEN {u \in DOMAIN user : InTree(u) /\ IsPrefix(s, u[2])}
                    ELSE {<<map, s>>} \cap DOMAIN user
           d == IF leads THEN keymacro_delete(Begun, s) ELSE MapSet(Begun, map, s[1], Unassigned)
           LT == IF leads THEN {u \in Whole : IsPrefix(s, u[2])} ELSE {}
           LM == IF leads THEN {} ELSE {<<map, <<s[1]>>>>}
<1>1. el' = d /\ user' = Without(named)
  BY DEF RemoveKey, Call
<1>2. s \in Paths /\ s[1] \in Chars /\ Len(s) \in Nat /\ Len(s) > 0
  BY KeysArePaths, FirstIsChar, PathIs
<1>3. Fit(Begun) /\ Tracks(b0, Begun) /\ Begun.key = el.key /\ Begun.alt = el.alt
  BY Begins DEF BindingsInv, Ready
<1>4. CASE leads
  <2> HIDE DEF leads
  <2>1. \A m \in Maps, p \in Paths : IsPrefix(s, p) /\ Begun[m][p[1]] = Lead => <<m, p>> \in LT
    BY <1>4, InWhole
  <2>2. Spared(LT, LM, named)
    BY <1>4 DEF Spared
  <2>3. d = keymacro_delete(Begun, s)
    BY <1>4
  <2> HIDE DEF LT, LM, named, d, b0
  <2>4. Goes(b0, LT, LM, Begun, d)
    BY <1>2, <1>3, <2>1, <2>3, DeleteGoes
  <2> QED
    BY <1>1, <2>2, <2>4, CallStays DEF b0
<1>5. CASE ~leads
  <2>1. Len(s) = 1 /\ el[map][s[1]] # Lead
    <3>1. ~(Len(s) > 1) /\ el[map][s[1]] # Lead
      BY <1>5
    <3>2. \A n \in Nat : n > 0 /\ ~(n > 1) => n = 1
      OBVIOUS
    <3> QED
      BY <1>2, <3>1, <3>2, Zenon
  <2>2. s = <<s[1]>>
    BY <1>2, <2>1, OneIs
  <2> HIDE DEF leads
  <2>3. LT = {} /\ LM = {<<map, s>>} /\ d = [Begun EXCEPT ![map][s[1]] = Unassigned]
    BY <1>5, <2>2 DEF MapSet
  <2>4. Spared(LT, LM, named)
    BY <1>5, <2>2 DEF Spared
  <2>5. Begun[map][s[1]] # Lead
    BY <1>3, <2>1 DEF Maps
  <2> HIDE DEF LT, LM, named, d, b0
  <2>6. <<map, <<s[1]>>>> \in LM
    BY <2>2, <2>3
  <2>7. Goes(b0, LT, LM, Begun, [Begun EXCEPT ![map][s[1]] = Unassigned])
    BY <1>2, <1>3, <2>5, <2>6, SetGoes
  <2>8. Goes(b0, LT, LM, Begun, d)
    BY <2>3, <2>7
  <2> QED
    BY <1>1, <2>4, <2>8, CallStays DEF b0
<1> QED
  BY <1>4, <1>5

LEMMA ArrowStays ==
  ASSUME BindingsInv, NEW a, NEW v, v # keymacro_map_cmd(Lead),
         el' = [Begun EXCEPT !.arrow[a] = v], user' = user
  PROVE  Stays(el', user') /\ el'.type = el.type
<1>1. Ready(Begun) /\ Tracks(Bound(el.tree), Begun)
        /\ Begun.tree = el.tree /\ Begun.key = el.key /\ Begun.alt = el.alt
        /\ Begun.type = el.type
  BY Begins DEF BindingsInv
<1>2. Fit(Begun)
  BY <1>1 DEF Ready
<1> DEFINE d == [Begun EXCEPT !.arrow[a] = v]
<1>3. /\ Fit(d) /\ d.tree = Begun.tree /\ d.calls = Begun.calls
      /\ d.key = Begun.key /\ d.alt = Begun.alt /\ d.new = Begun.new /\ d.old = Begun.old
      /\ d.str = Begun.str /\ d.type = Begun.type /\ d.arrow = [Begun.arrow EXCEPT ![a] = v]
  BY <1>2 DEF Fit
<1> HIDE DEF d
<1>4. Ready(d)
  <2>1. Sound(d)
    BY <1>1, <1>3 DEF Ready, Sound
  <2> QED
    BY <1>1, <1>3, <2>1 DEF Ready
<1>5. Held(d, user)
  BY <1>1, <1>3, SameHeld DEF BindingsInv
<1>6. Tracks(Bound(el.tree), d)
  BY <1>1, <1>3 DEF Tracks
<1> QED
  BY <1>1, <1>3, <1>4, <1>5, <1>6 DEF Stays, d

\* A longer key, or a string, is put into the tree, and the map leads to it.
LEMMA AddStays ==
  ASSUME BindingsInv, ~el.aborted, NEW map \in Maps, NEW s \in Keys, NEW v,
         v # keymacro_map_cmd(Lead), v.type # "nod", Len(s) > 1 \/ v.type = "str",
         el' = MapSet(keymacro_add(Begun, s, v), map, s[1], Lead),
         user' = With(Taken(map, s), <<map, s>>, v)
  PROVE  Stays(el', user') /\ el'.type = el.type
<1> DEFINE b0 == Bound(el.tree)
           e == keymacro_add(Begun, s, v)
           d == [e EXCEPT ![map][s[1]] = Lead]
           LT == {u \in Whole : Clashes(u, s)}
           LM == {<<map, <<s[1]>>>>}
           named == Taken(map, s)
<1>0. el' = d
  BY DEF MapSet
<1>1. s \in Paths /\ s[1] \in Chars /\ Len(s) \in Nat
  BY KeysArePaths, FirstIsChar, PathIs
<1>2. Fit(Begun) /\ Tracks(b0, Begun) /\ ~Begun.aborted
  BY Begins DEF BindingsInv, Ready
<1>3. \A m \in Maps, p \in Paths : IsPrefix(s, p) \/ IsPrefix(p, s) => <<m, p>> \in LT
  BY InWhole DEF Clashes, Meet
<1>4. Spared(LT, LM, named)
  BY DEF Spared, Taken
<1>5. <<map, <<s[1]>>>> \in LM
  OBVIOUS
<1> HIDE DEF LT, LM, named, d, b0
<1>6. Goes(b0, LT, LM, Begun, e) /\ s \in Leaves(e.tree) /\ e.tree[s] = v
  BY <1>1, <1>2, <1>3, AddGoes
<1> HIDE DEF e
<1>7. Fit(e) /\ Tracks(b0, e)
  BY <1>6 DEF Goes
<1>8. Goes(b0, LT, LM, e, d)
  BY <1>1, <1>5, <1>7, SetGoes DEF d
<1>9. Goes(b0, LT, LM, Begun, d)
  BY <1>6, <1>8, GoesOn
<1>10. Stays(d, Without(named)) /\ d.type = el.type
  BY <1>4, <1>9, CallStays DEF b0
<1>11. Stands(d, <<map, s>>, v)
  <2>1. d.tree = e.tree /\ \A m \in Maps, x \in Chars : d[m][x] = IF m = map /\ x = s[1] THEN Lead ELSE e[m][x]
    <3>1. DOMAIN e = {"type", "key", "alt", "tree", "arrow", "str", "new", "old", "aborted", "calls"}
            /\ DOMAIN e.key = Chars /\ DOMAIN e.alt = Chars
      BY <1>7 DEF Fit
    <3> QED
      BY <1>1, <3>1 DEF d, Maps
  <2>2. d[map][s[1]] = Lead
    BY <1>1, <2>1
  <2> QED
    BY <1>6, <2>1, <2>2 DEF Stands
<1>12. <<map, s>> \in Whole
  BY <1>1, InWhole
<1>13. Held(d, With(named, <<map, s>>, v))
  BY <1>10, <1>11, <1>12, OneMoreHeld DEF Stays
<1> QED
  BY <1>0, <1>10, <1>13 DEF Stays, named

LEMMA BindStringStays ==
  ASSUME BindingsInv, NEW map \in Maps, NEW s \in Keys, NEW t \in Strings,
         BindString(map, s, t)
  PROVE  Stays(el', user') /\ el'.type = el.type
<1> DEFINE b0 == Bound(el.tree)
           v == keymacro_map_str(t)
           e == keymacro_add(Begun, s, v)
           d == MapSet(e, map, s[1], Lead)
<1>1. el' = d /\ user' = With(Taken(map, s), <<map, s>>, v) /\ ~el.aborted
  BY DEF BindString, Call
<1>2. v # keymacro_map_cmd(Lead) /\ v.type = "str"
  BY DEF keymacro_map_str, keymacro_map_cmd
<1> QED
  BY <1>1, <1>2, AddStays DEF b0

LEMMA BindArrowStringStays ==
  ASSUME BindingsInv, NEW map \in Maps, NEW i \in 1..Len(Arrows), BindArrowString(map, i)
  PROVE  Stays(el', user') /\ el'.type = el.type
<1> DEFINE b0 == Bound(el.tree)
           a == Arrows[i]
           e == [Begun EXCEPT !.arrow[a.name] = keymacro_map_str("dangling")]
           d == [e EXCEPT ![map][a.first] = Lead]
           named == {<<map, <<a.first>>>>} \cap DOMAIN user
           LM == {<<map, <<a.first>>>>}
<1>1. el' = d /\ user' = Without(named)
  BY DEF BindArrowString, Call, MapSet
<1>2. a.first \in Chars
  BY TablesAssumption DEF TablesAssumption
<1>3. /\ Ready(Begun) /\ Tracks(b0, Begun)
      /\ Begun.tree = el.tree /\ Begun.key = el.key /\ Begun.alt = el.alt
      /\ Begun.type = el.type
  BY Begins DEF BindingsInv
<1>4. Fit(e) /\ e.tree = Begun.tree /\ e.calls = Begun.calls
        /\ e.key = Begun.key /\ e.alt = Begun.alt /\ e.new = Begun.new /\ e.old = Begun.old
        /\ e.str = Begun.str /\ e.type = Begun.type
        /\ e.arrow = [Begun.arrow EXCEPT ![a.name] = keymacro_map_str("dangling")]
  BY <1>3 DEF Ready, Fit
<1>5. Spared({}, LM, named)
  BY DEF Spared
<1>6. <<map, <<a.first>>>> \in LM
  OBVIOUS
<1> HIDE DEF a, e, d, LM, named, b0
<1>7. Tracks(b0, e) /\ Ready(e)
  <2>1. keymacro_map_str("dangling") # keymacro_map_cmd(Lead)
    BY DEF keymacro_map_str, keymacro_map_cmd
  <2>2. Sound(e)
    BY <1>3, <1>4, <2>1 DEF Ready, Sound
  <2> QED
    BY <1>3, <1>4, <2>2 DEF Tracks, Ready
<1>8. Goes(b0, {}, LM, e, d)
  BY <1>2, <1>4, <1>6, <1>7, SetGoes DEF d
<1>9. Ready(d) /\ Tracks(b0, d)
  BY <1>7, <1>8, GoesReady DEF Goes
<1>10. Held(d, Without(named))
  BY <1>3, <1>4, <1>5, <1>8, GoesHeld DEF BindingsInv
<1>11. d.type = el.type
  BY <1>3, <1>4, <1>8 DEF Goes, Alike
<1> QED
  BY <1>1, <1>9, <1>10, <1>11 DEF Stays, b0

LEMMA BindCommandStays ==
  ASSUME BindingsInv, NEW map \in Maps, NEW s \in Keys, NEW c \in Commands,
         BindCommand(map, s, c)
  PROVE  Stays(el', user') /\ el'.type = el.type
<1> DEFINE v == keymacro_map_cmd(c)
<1>1. v # keymacro_map_cmd(Lead) /\ v.type = "cmd"
  BY BindingsAssumption DEF BindingsAssumption, keymacro_map_cmd
<1>2. CASE Len(s) > 1
  <2>1. /\ ~el.aborted
        /\ el' = MapSet(keymacro_add(Begun, s, v), map, s[1], Lead)
        /\ user' = With(Taken(map, s), <<map, s>>, v)
    BY <1>2 DEF BindCommand, Call
  <2> HIDE DEF v
  <2> QED
    BY <1>1, <1>2, <2>1, AddStays
<1>3. CASE ~(Len(s) > 1)
  <2> DEFINE b0 == Bound(el.tree)
             e == keymacro_clear(Begun, map, s)
             d == [e EXCEPT ![map][s[1]] = c]
             named == {u \in DOMAIN user : u[1] = map /\ u[2][1] = s[1]}
             L == {u \in Whole : u[1] = map /\ u[2][1] = s[1]}
  <2>1. el' = d /\ user' = With(named, <<map, s>>, v)
    BY <1>3 DEF BindCommand, Call, MapSet
  <2>2. s \in Paths /\ s[1] \in Chars /\ s = <<s[1]>>
    <3>1. s \in Paths /\ Len(s) \in Nat /\ Len(s) > 0
      BY KeysArePaths, PathIs
    <3>2. \A n \in Nat : n > 0 /\ ~(n > 1) => n = 1
      OBVIOUS
    <3>3. Len(s) = 1
      BY <1>3, <3>1, <3>2, Zenon
    <3> QED
      BY <3>1, <3>3, FirstIsChar, OneIs
  <2>3. Fit(Begun) /\ Tracks(b0, Begun) /\ Begun.key = el.key /\ Begun.alt = el.alt
    BY Begins DEF BindingsInv, Ready
  <2>4. \A p \in Paths : p[1] = s[1] => <<map, p>> \in L
    BY InWhole
  <2>5. \A p \in Paths : IsPrefix(s, p) => <<map, p>> \in L
    BY <2>2, <2>4, SameFirst
  <2>6. <<map, <<s[1]>>>> \in L
    BY <2>2, InWhole
  <2>7. Spared(L, L, named)
    BY DEF Spared
  <2> HIDE DEF L, named, d, b0, v
  <2>8. Goes(b0, L, L, Begun, e)
    BY <2>2, <2>3, <2>5, ClearGoes
  <2> HIDE DEF e
  <2>9. Fit(e) /\ Tracks(b0, e)
    BY <2>8 DEF Goes
  <2>10. Goes(b0, L, L, e, d)
    BY <2>2, <2>4, <2>6, <2>9, SetGoes DEF d
  <2>11. Stays(d, Without(named)) /\ d.type = el.type
    <3>1. Goes(b0, L, L, Begun, d)
      BY <2>8, <2>10, GoesOn
    <3> QED
      BY <2>7, <3>1, CallStays DEF b0
  <2>12. Stands(d, <<map, s>>, v)
    <3>1. d[map][s[1]] = c
      <4>1. DOMAIN e = {"type", "key", "alt", "tree", "arrow", "str", "new", "old", "aborted", "calls"}
              /\ DOMAIN e.key = Chars /\ DOMAIN e.alt = Chars
        BY <2>9 DEF Fit
      <4> QED
        BY <2>2, <4>1 DEF d, Maps
    <3>2. v.type # "str" /\ v = keymacro_map_cmd(c) /\ c # Lead
      BY <1>1, BindingsAssumption DEF BindingsAssumption, v
    <3> QED
      BY <1>3, <2>2, <3>1, <3>2 DEF Stands
  <2>13. Held(d, With(named, <<map, s>>, v))
    BY <2>2, <2>11, <2>12, InWhole, OneMoreHeld DEF Stays
  <2> QED
    BY <2>1, <2>11, <2>13 DEF Stays
<1> QED
  BY <1>2, <1>3

LEMMA SetTerminalStays ==
  ASSUME BindingsInv, NEW t \in Terminals, SetTerminal(t) PROVE Stays(el', user') /\ el'.type = el.type
<1> DEFINE b0 == Bound(el.tree)
           e == [Begun EXCEPT !.str = t]
           d == terminal_bind_arrow(e)
           keys == {Ansi[i][1] : i \in DOMAIN Ansi} \cup
                   (IF Vi(el) THEN {Tail(Ansi[i][1]) : i \in DOMAIN Ansi} ELSE {}) \cup
                   ({t[a] : a \in DOMAIN t} \ {<<>>})
           named == {u \in DOMAIN user : \E s \in keys : Clashes(u, s)}
           L == {u \in Whole : \E s \in keys : Clashes(u, s)}
<1>1. el' = d /\ user' = Without(named)
  BY DEF SetTerminal, Call
<1>2. /\ Ready(Begun) /\ Tracks(b0, Begun)
      /\ Begun.tree = el.tree /\ Begun.key = el.key /\ Begun.alt = el.alt /\ Begun.type = el.type
  BY Begins DEF BindingsInv
<1>3. /\ Fit(e) /\ e.tree = Begun.tree /\ e.calls = Begun.calls /\ e.key = Begun.key
      /\ e.alt = Begun.alt /\ e.type = el.type /\ e.new = Begun.new /\ e.old = Begun.old /\ e.str = t
      /\ e.arrow = Begun.arrow
  BY <1>2 DEF Ready, Fit
<1>4. \A s \in keys, m \in Maps, p \in Paths : IsPrefix(s, p) \/ IsPrefix(p, s) => <<m, p>> \in L
  <2> HIDE DEF keys
  <2> QED
    BY InWhole DEF Clashes, Meet
<1>5. Spared(L, L, named)
  BY DEF Spared
<1>6. /\ \A i \in 1..Len(Ansi) : Ansi[i][1] \in keys
      /\ Vi(el) => \A i \in 1..Len(Ansi) : Tail(Ansi[i][1]) \in keys
  BY TablesAssumption DEF TablesAssumption
<1>7. \A i \in 1..Len(Arrows) : t[Arrows[i].name] \in Seq(Chars)
        /\ (t[Arrows[i].name] # <<>> => t[Arrows[i].name] \in keys)
  BY TablesAssumption DEF TablesAssumption
<1> HIDE DEF e, d, keys, named, L, b0
<1>8. Ready(e) /\ Tracks(b0, e)
  <2>1. Sound(e)
    BY <1>2, <1>3, ArrowsAssumption DEF ArrowsAssumption, Ready, Sound
  <2> QED
    BY <1>2, <1>3, <1>7, <2>1 DEF Ready, Tracks
<1>9. Settable(Vi(e), L)
  <2>1. Vi(e) = Vi(el)
    BY <1>3 DEF Vi
  <2> QED
    BY <1>4, <1>6, <2>1 DEF Settable
<1>10. Sendable(e, ArrowMap(e), L, L)
  <2>1. ArrowMap(e) \in Maps
    BY DEF ArrowMap, Maps
  <2> QED
    BY <1>3, <1>4, <1>7, <2>1 DEF Sendable, Sent
<1>11. Goes(b0, L, L, e, d)
  BY <1>3, <1>8, <1>9, <1>10, ArrowsGo DEF d
<1>12. Ready(d) /\ Tracks(b0, d)
  BY <1>8, <1>11, GoesReady DEF Goes
<1>13. Held(d, Without(named))
  BY <1>2, <1>3, <1>5, <1>11, GoesHeld DEF BindingsInv
<1>14. d.type = el.type
  BY <1>3, <1>11 DEF Goes, Alike
<1> QED
  BY <1>1, <1>12, <1>13, <1>14 DEF Stays, b0

LEMMA CharChangesStays ==
  ASSUME BindingsInv, NEW f \in DOMAIN TtyChars, NEW c \in TtyChoices, CharChanges(f, c)
  PROVE  Stays(el', user') /\ el'.type = el.type
<1> DEFINE b0 == Bound(el.tree)
           e == [Begun EXCEPT !.new[f] = c]
           d == tty_bind_char(e, FALSE)
           d2 == [d EXCEPT !.old = d.new]
           chars == {c, el.old[f]}
           named == {u \in DOMAIN user : u[2][1] \in chars}
           L == {u \in Whole : u[2][1] \in chars}
<1>1. el' = d2 /\ user' = Without(named)
  BY DEF CharChanges, Call
<1>2. /\ Ready(Begun) /\ Tracks(b0, Begun)
      /\ Begun.tree = el.tree /\ Begun.key = el.key /\ Begun.alt = el.alt
      /\ Begun.new = el.new /\ Begun.old = el.old /\ Begun.type = el.type
  BY Begins DEF BindingsInv
<1>3. /\ Fit(e) /\ e.tree = Begun.tree /\ e.calls = Begun.calls /\ e.key = Begun.key
      /\ e.alt = Begun.alt /\ e.old = Begun.old /\ e.str = Begun.str
      /\ e.new = [el.new EXCEPT ![f] = c] /\ e.arrow = Begun.arrow /\ e.type = el.type
  BY <1>2 DEF Ready, Fit
<1>4. c \in Chars
  BY TablesAssumption DEF TablesAssumption
<1>5. /\ DOMAIN e.new = DOMAIN TtyChars /\ e.old = el.new
      /\ \A g \in DOMAIN TtyChars : e.new[g] \in Chars /\ e.old[g] \in Chars
                                     /\ (e.new[g] # e.old[g] => g = f /\ e.new[g] = c)
  BY <1>2, <1>3, <1>4 DEF Ready
<1>6. \A m \in Maps, p \in Paths : p[1] \in chars => <<m, p>> \in L
  <2> HIDE DEF chars
  <2> QED
    BY InWhole
<1>7. Spared(L, L, named)
  BY DEF Spared
<1>8. Tracks(b0, e)
  BY <1>2, <1>3 DEF Tracks
<1> HIDE DEF e, d, d2, named, L, b0
<1>9. Bindable(e, FALSE, L, L)
  <2>1. ASSUME NEW i \in 1..Len(tty_map)
        PROVE  LET new == e.new[tty_map[i].fn]
                   old == e.old[tty_map[i].fn]
               IN  /\ new \in Chars /\ old \in Chars
                   /\ new # old => {old, new} \subseteq chars
    <3>1. tty_map[i].fn \in DOMAIN TtyChars
      BY TablesAssumption DEF TablesAssumption
    <3>2. e.old = el.old
      BY <1>2, <1>3
    <3> QED
      BY <1>5, <3>1, <3>2
  <2> HIDE DEF chars
  <2> QED
    BY <1>6, <2>1 DEF Bindable
<1>10. Goes(b0, L, L, e, d)
  BY <1>3, <1>8, <1>9, CharsGo DEF d
<1>11. Held(d, Without(named))
  BY <1>2, <1>3, <1>7, <1>10, GoesHeld DEF BindingsInv
<1>12. /\ Fit(d2) /\ d2.tree = d.tree /\ d2.calls = d.calls /\ d2.key = d.key /\ d2.alt = d.alt
       /\ d2.new = d.new /\ d2.old = d.new /\ d2.str = d.str /\ d2.arrow = d.arrow
       /\ d2.type = d.type
  BY <1>10 DEF Goes, Fit, d2
<1>13. d.new = e.new /\ d.str = e.str /\ d.arrow = e.arrow /\ Tracks(b0, d)
  BY <1>10 DEF Goes, Alike
<1>14. Ready(d2)
  <2>1. c # "esc" /\ Sound(Begun)
    BY <1>2, ArrowsAssumption DEF ArrowsAssumption, Ready
  <2>2. \A g \in DOMAIN TtyChars : e.new[g] # "esc"
    BY <1>2, <1>3, <1>5, <2>1 DEF Sound
  <2>3. Sound(e)
    BY <1>3, <2>1, <2>2 DEF Sound
  <2>4. Sound(d2)
    BY <1>12, <1>13, <2>3, SoundToo
  <2> QED
    BY <1>2, <1>3, <1>5, <1>12, <1>13, <2>4 DEF Ready
<1>15. Tracks(b0, d2)
  BY <1>12, <1>13 DEF Tracks
<1>16. Held(d2, Without(named))
  BY <1>11, <1>12, SameHeld
<1>17. d2.type = el.type
  BY <1>3, <1>10, <1>12 DEF Goes, Alike
<1> QED
  BY <1>1, <1>14, <1>15, <1>16, <1>17 DEF Stays, b0

\* An arrow key is set to its command.
LEMMA InitArrowIs ==
  ASSUME NEW i \in 1..Len(Arrows)
  PROVE  /\ Arrows[i].name \in DOMAIN terminal_init_arrow
         /\ terminal_init_arrow[Arrows[i].name] # keymacro_map_cmd(Lead)
<1> DEFINE a == Arrows[i].name
           x == CHOOSE y \in Range(Arrows) : y.name = a
<1>1. DOMAIN Arrows = 1..Len(Arrows)
  BY TablesAssumption DEF TablesAssumption
<1>2. Arrows[i] \in Range(Arrows) /\ Arrows[i].name = a
  BY <1>1 DEF Range
<1>3. x \in Range(Arrows)
  BY <1>2
<1>4. x.cmd # Lead
  BY <1>1, <1>3, ArrowsAssumption DEF ArrowsAssumption, Range
<1>5. a \in DOMAIN terminal_init_arrow /\ terminal_init_arrow[a] = keymacro_map_cmd(x.cmd)
  BY <1>1 DEF terminal_init_arrow
<1> HIDE DEF x, a
<1> QED
  BY <1>4, <1>5 DEF keymacro_map_cmd, a

\* What el_init leaves.
LEMMA ElInitIs ==
  ASSUME NEW t \in Terminals PROVE Ready(el_init(t)) /\ Tracks(<<>>, el_init(t))
<1> DEFINE zero == [f \in DOMAIN TtyChars |-> "C-@"]
           e == [type |-> "emacs", key |-> emacs, alt |-> emacs, tree |-> <<>>,
                 arrow |-> terminal_init_arrow, str |-> t,
                 new |-> zero, old |-> zero, aborted |-> FALSE, calls |-> <<>>]
           e2 == map_init_emacs(e)
           e3 == [e2 EXCEPT !.new = TtyChars, !.old = TtyChars]
           e4 == tty_bind_char(e3, TRUE)
<1>1. el_init(t) = e4
  BY DEF el_init
<1>2. /\ DOMAIN zero = DOMAIN TtyChars
      /\ \A i \in 1..Len(tty_map) : zero[tty_map[i].fn] \in Chars /\ TtyChars[tty_map[i].fn] \in Chars
      /\ \A i \in 1..Len(Arrows) : t[Arrows[i].name] \in Seq(Chars)
      /\ \A f \in DOMAIN TtyChars : TtyChars[f] \in Chars
      /\ DOMAIN emacs = Chars
  BY TablesAssumption DEF TablesAssumption
<1> HIDE DEF zero
<1>3. /\ DOMAIN e = {"type", "key", "alt", "tree", "arrow", "str", "new", "old", "aborted", "calls"}
      /\ e.key = emacs /\ e.alt = emacs /\ e.tree = <<>> /\ e.calls = <<>>
      /\ e.new = zero /\ e.old = zero /\ e.str = t /\ e.arrow = terminal_init_arrow
  OBVIOUS
<1> HIDE DEF e
<1>4. Fit(e) /\ Supplied(e)
  <2>1. IsSeq(<<>>)
    BY EmptySeq DEF IsSeq
  <2> QED
    BY <1>2, <1>3, <2>1, EmptyTree DEF Fit, Supplied
<1>5. /\ Fit(e2) /\ Tracks(<<>>, e2) /\ e2.str = t /\ e2.arrow = terminal_init_arrow
  <2>1. InitEditor("emacs", e) = e2
    BY DEF InitEditor
  <2> HIDE DEF e2
  <2> QED
    BY <1>3, <1>4, <2>1, EditorBegins DEF Editors
<1> HIDE DEF e2
<1>6. /\ Fit(e3) /\ e3.new = TtyChars /\ e3.old = TtyChars /\ e3.str = t
      /\ e3.tree = e2.tree /\ e3.calls = e2.calls /\ e3.arrow = terminal_init_arrow
  BY <1>5 DEF Fit
<1> HIDE DEF e3
<1>7. Ready(e3) /\ Tracks(<<>>, e3)
  <2>1. \A i \in 1..Len(Arrows) : /\ Arrows[i].name \in DOMAIN terminal_init_arrow
                                 /\ terminal_init_arrow[Arrows[i].name] # keymacro_map_cmd(Lead)
    BY InitArrowIs
  <2>2. Sound(e3)
    BY <1>6, <2>1, ArrowsAssumption DEF ArrowsAssumption, Sound
  <2> QED
    BY <1>2, <1>5, <1>6, <2>2 DEF Ready, Tracks
<1>8. Bindable(e3, TRUE, Whole, Whole)
  BY <1>2, <1>6, InWhole DEF Bindable
<1>9. Goes(<<>>, Whole, Whole, e3, e4)
  BY <1>6, <1>7, <1>8, CharsGo
<1> HIDE DEF e4
<1> QED
  BY <1>1, <1>7, <1>9, GoesReady DEF Goes

LEMMA BindingsInit == ASSUME Init PROVE BindingsInv /\ Tracks(<<>>, el)
<1>1. PICK t \in Terminals :
        el = el_init(t) \/ el = map_init_vi([el_init(t) EXCEPT !.calls = <<>>])
  BY DEF Init
<1>2. Ready(el_init(t)) /\ Tracks(<<>>, el_init(t))
  BY ElInitIs
<1>3. CASE el = el_init(t)
  BY <1>2, <1>3 DEF Init, BindingsInv, Held
<1>4. CASE el = map_init_vi([el_init(t) EXCEPT !.calls = <<>>])
  <2> DEFINE x == el_init(t)
             e == [x EXCEPT !.calls = <<>>]
  <2>1. IsSeq(<<>>)
    BY EmptySeq DEF IsSeq
  <2>2. Ready(x)
    BY <1>2
  <2>3. el = InitEditor("vi", e)
    BY <1>4 DEF InitEditor
  <2> HIDE DEF x
  <2>4. Ready(e)
    <3>1. e.arrow = x.arrow /\ e.new = x.new /\ e.str = x.str
      BY <2>2 DEF Ready, Fit
    <3>2. Sound(e)
      BY <2>2, <3>1, SoundToo DEF Ready
    <3> QED
      BY <2>1, <2>2, <3>2 DEF Ready, Fit
  <2> HIDE DEF e
  <2>5. Fit(el) /\ Tracks(<<>>, el) /\ el.new = e.new /\ el.old = e.old /\ el.str = e.str
          /\ el.arrow = e.arrow
    BY <2>3, <2>4, ReadyIsSupplied, EditorBegins DEF Ready, Editors
  <2>6. Ready(el)
    BY <2>4, <2>5, SoundToo DEF Ready
  <2> QED
    BY <2>5, <2>6 DEF Init, BindingsInv, Held
<1> QED
  BY <1>1, <1>3, <1>4

\* Only a change of editor changes what the EditLine says of it.
LEMMA BindingsNext ==
  ASSUME BindingsInv, Next
  PROVE  /\ Stays(el', user')
         /\ el'.type # el.type => \E editor \in {"emacs", "vi"} : Switch(editor)
<1> DEFINE Same == Stays(el', user') /\ el'.type = el.type
<1>1. ASSUME NEW editor \in {"emacs", "vi"}, Switch(editor) PROVE Stays(el', user')
  BY <1>1, SwitchStays
<1>2. ASSUME NEW map \in {"key", "alt"}, NEW s \in Keys, RemoveKey(map, s) PROVE Same
  BY <1>2, RemoveKeyStays DEF Maps
<1>3. ASSUME NEW i \in DOMAIN Arrows, RemoveArrow(Arrows[i].name) PROVE Same
  <2>1. node__get # keymacro_map_cmd(Lead)
    BY DEF node__get, keymacro_map_cmd
  <2> QED
    BY <1>3, <2>1, ArrowStays DEF RemoveArrow, Call
<1>4. ASSUME NEW map \in {"key", "alt"}, NEW s \in Keys, NEW t \in Strings, BindString(map, s, t)
      PROVE  Same
  BY <1>4, BindStringStays DEF Maps
<1>5. ASSUME NEW map \in {"key", "alt"}, NEW i \in DOMAIN Arrows, BindArrowString(map, i)
      PROVE  Same
  BY <1>5, BindArrowStringStays, TablesAssumption DEF TablesAssumption, Maps
<1>6. ASSUME NEW map \in {"key", "alt"}, NEW s \in Keys, NEW c \in Commands, BindCommand(map, s, c)
      PROVE  Same
  BY <1>6, BindCommandStays DEF Maps
<1>7. ASSUME NEW i \in DOMAIN Arrows, BindArrowCommand(Arrows[i].name) PROVE Same
  <2>1. keymacro_map_cmd("ed_argument_digit") # keymacro_map_cmd(Lead)
    BY DEF keymacro_map_cmd, Lead
  <2> QED
    BY <1>7, <2>1, ArrowStays DEF BindArrowCommand, Call
<1>8. ASSUME NEW t \in Terminals, SetTerminal(t) PROVE Same
  BY <1>8, SetTerminalStays
<1>9. ASSUME NEW f \in DOMAIN TtyChars, NEW c \in TtyChoices, CharChanges(f, c)
      PROVE  Same
  BY <1>9, CharChangesStays
<1> QED
  BY <1>1, <1>2, <1>3, <1>4, <1>5, <1>6, <1>7, <1>8, <1>9 DEF Next

\* The EditLine keeps its form, and what the user has bound stands: in a leaf of the
\* tree that its map leads to, or in its map.
THEOREM BindingsInvariant == Spec => []BindingsInv
<1>1. Init => BindingsInv
  BY BindingsInit
<1>2. BindingsInv /\ [Next]_vars => BindingsInv'
  <2>1. ASSUME BindingsInv, Next PROVE BindingsInv'
    BY <2>1, BindingsNext DEF Stays, BindingsInv
  <2>2. ASSUME BindingsInv, UNCHANGED vars PROVE BindingsInv'
    BY <2>2 DEF vars, BindingsInv
  <2> QED
    BY <2>1, <2>2
<1> QED
  BY <1>1, <1>2, PTL DEF Spec

\* What is read by a map that leads to a leaf.
LEMMA LeafIsRead ==
  ASSUME NEW e, Rooted(e.tree), NEW m, NEW p \in Paths, p \in Leaves(e.tree), e[m][p[1]] = Lead
  PROVE  read_getcmd(e, m, p) = e.tree[p]
<1> DEFINE tree == e.tree
           met == {q \in Leaves(tree) : IsPrefix(q, p)}
<1>1. read_getcmd(e, m, p) = node_trav(tree, p)
  BY DEF read_getcmd
<1> HIDE DEF tree
<1>2. p \in DOMAIN tree /\ Rooted(tree) /\ p \in Leaves(tree)
  BY LeavesAre DEF tree
<1>3. met = {p}
  <2>1. p \in met
    BY <1>2, PrefixOrder
  <2>2. ASSUME NEW q \in met PROVE q = p
    BY <1>2, LeavesAre
  <2> QED
    BY <2>1, <2>2
<1>4. tree # <<>>
  <2>1. DOMAIN <<>> = {}
    OBVIOUS
  <2> QED
    BY <1>2, <2>1
<1>5. (CHOOSE q \in met : TRUE) = p
  BY <1>3
<1>6. node_trav(tree, p) = tree[CHOOSE q \in met : TRUE]
  BY <1>3, <1>4 DEF node_trav
<1> QED
  BY <1>1, <1>5, <1>6 DEF tree

LEMMA InvStands == ASSUME BindingsInv PROVE StandsUntilNamed
<1> SUFFICES ASSUME NEW u \in DOMAIN user PROVE read_getcmd(el, u[1], u[2]) = user[u]
  BY DEF StandsUntilNamed
<1>1. Stands(el, u, user[u]) /\ u[2] \in Paths /\ Rooted(el.tree)
  BY DEF BindingsInv, Ready, Fit, Held, Whole
<1>2. CASE Len(u[2]) > 1 \/ user[u].type = "str"
  BY <1>1, <1>2, LeafIsRead DEF Stands
<1>3. CASE ~(Len(u[2]) > 1 \/ user[u].type = "str")
  BY <1>1, <1>3 DEF Stands, read_getcmd
<1> QED
  BY <1>2, <1>3

\* What the user has bound does what it was bound to until a call names its key.
THEOREM BindingsStand == Spec => []StandsUntilNamed
BY BindingsInvariant, InvStands, PTL

\* The tree of keymacro.c is the map from keys to values of KeyBindings: whatever is
\* called, its leaves hold what the calls to add, delete and reset leave.
THEOREM TreeHoldsTheKeys == Spec => TreeIsTheKeys
<1>1. Init => Keymacro!Init
  BY BindingsInit DEF Keymacro!Init, Tracks
<1>2. BindingsInv /\ [Next]_vars => [Keymacro!Next]_<<Bound(el.tree), el.calls>>
  <2>1. ASSUME BindingsInv, Next PROVE Keymacro!Next
    <3>1. Tracks(Bound(el.tree), el')
      BY <2>1, BindingsNext DEF Stays
    <3> QED
      BY <3>1 DEF Keymacro!Next, Tracks
  <2>2. ASSUME UNCHANGED vars PROVE UNCHANGED <<Bound(el.tree), el.calls>>
    BY <2>2 DEF vars
  <2> QED
    BY <2>1, <2>2
<1> QED
  BY <1>1, <1>2, BindingsInvariant, PTL DEF Spec, TreeIsTheKeys, Keymacro!Spec

-----------------------------------------------------------------------------
(* The arrow keys                                                          *)

\* The map of the arrow keys leads to the sequence of an arrow key, which is in the
\* tree and does what that key is set to.
IsSet(e, j) ==
  /\ Ansi[j][1] \in Leaves(e.tree) /\ e.tree[Ansi[j][1]] = e.arrow[Ansi[j][2]]
  /\ e.arrow[Ansi[j][2]].type # "nod"
  /\ e[ArrowMap(e)][Ansi[j][1][1]] = Lead

\* When k arrow keys are added, or all of them and others besides, nothing of them is lost.
SetUpTo(what, e, k) ==
  /\ what = "arrow" => e[ArrowMap(e)]["esc"] = Lead
  /\ ~e.aborted => \A j \in 1..Len(Ansi) : (what = "arrow" => j <= k) => IsSet(e, j)

\* The keys that begin with s or begin s.
Met(s) == {u \in Whole : Meet(s, u[2])}

LEMMA AnsiIs ==
  ASSUME NEW j \in 1..Len(Ansi)
  PROVE  /\ Ansi[j][1] \in Paths /\ Ansi[j][1][1] = "esc" /\ "esc" \in Chars
         /\ \E i \in 1..Len(Arrows) : Ansi[j][2] = Arrows[i].name
         /\ \A i \in 1..Len(Ansi) : Meet(Ansi[i][1], Ansi[j][1]) => Ansi[i] = Ansi[j]
<1>1. Ansi[j][1] \in Paths /\ Ansi[j][1][1] \in Chars
  BY AnsiArePaths, FirstIsChar
<1> QED
  BY <1>1, ArrowsAssumption DEF ArrowsAssumption

\* An arrow key stays set whose sequence is not among those that are touched.
LEMMA StaysSet ==
  ASSUME NEW b0, NEW LT, NEW LM, NEW e, NEW d, Goes(b0, LT, LM, e, d),
         NEW j \in 1..Len(Ansi), IsSet(e, j), <<ArrowMap(e), Ansi[j][1]>> \notin LT
  PROVE  IsSet(d, j)
<1>1. ArrowMap(e) \in Maps /\ ArrowMap(d) = ArrowMap(e) /\ d.arrow = e.arrow
  BY DEF ArrowMap, Vi, Maps, Goes, Alike
<1>2. Ansi[j][1] \in Paths
  BY AnsiIs
<1> QED
  BY <1>1, <1>2 DEF Goes, Apart, IsSet

LEMMA MetIs ==
  ASSUME NEW s \in Paths
  PROVE  /\ \A m \in Maps, p \in Paths : IsPrefix(s, p) \/ IsPrefix(p, s) => <<m, p>> \in Met(s)
         /\ \A m, p : <<m, p>> \in Met(s) => Meet(s, p)
<1>1. \A m \in Maps, p \in Paths : IsPrefix(s, p) \/ IsPrefix(p, s) => <<m, p>> \in Met(s)
  BY InWhole DEF Met, Meet
<1>2. \A m, p : <<m, p>> \in Met(s) => Meet(s, p)
  BY DEF Met
<1> QED
  BY <1>1, <1>2

\* The sequence of an arrow key is added: now it is set, and the others stay.
LEMMA AddArrowSets ==
  ASSUME NEW b0, NEW e, Fit(e), Tracks(b0, e), Sound(e), NEW i \in 1..Len(Ansi),
         e[ArrowMap(e)]["esc"] = Lead
  PROVE  LET d == keymacro_add(e, Ansi[i][1], e.arrow[Ansi[i][2]]) IN
           /\ Goes(b0, Met(Ansi[i][1]), {}, e, d) /\ d[ArrowMap(d)]["esc"] = Lead
           /\ ~d.aborted => /\ IsSet(d, i)
                            /\ \A j \in 1..Len(Ansi) : IsSet(e, j) => IsSet(d, j)
<1> DEFINE s == Ansi[i][1]
           v == e.arrow[Ansi[i][2]]
           d == keymacro_add(e, s, v)
<1>1. s \in Paths /\ s[1] = "esc"
  BY AnsiIs
<1>2. v # keymacro_map_cmd(Lead)
  BY AnsiIs DEF Sound
<1>3. \A m \in Maps, p \in Paths : IsPrefix(s, p) \/ IsPrefix(p, s) => <<m, p>> \in Met(s)
  BY <1>1, MetIs
<1> HIDE DEF s, v
<1>4. /\ Goes(b0, Met(s), {}, e, d) /\ d.key = e.key /\ d.alt = e.alt
      /\ ~e.aborted /\ v # keymacro_map_cmd(Lead) /\ v.type # "nod" =>
           s \in Leaves(d.tree) /\ d.tree[s] = v
  BY <1>1, <1>3, AddGoes
<1>5. ~d.aborted => ~e.aborted /\ v.type # "nod"
  <2>1. ~e.aborted /\ v.type = "nod" => d = [e EXCEPT !.aborted = TRUE]
    BY <1>2 DEF keymacro_add
  <2>2. [e EXCEPT !.aborted = TRUE].aborted
    BY DEF Fit
  <2>3. e.aborted => d.aborted
    BY <1>4 DEF Goes, Alike
  <2> QED
    BY <2>1, <2>2, <2>3
<1> HIDE DEF d
<1>6. ArrowMap(d) = ArrowMap(e) /\ ArrowMap(e) \in Maps /\ d.arrow = e.arrow
  BY <1>4 DEF ArrowMap, Vi, Maps, Goes, Alike
<1>7. d[ArrowMap(d)]["esc"] = Lead
  BY <1>4, <1>6 DEF Maps
<1>8. ASSUME ~d.aborted PROVE IsSet(d, i)
  BY <1>1, <1>2, <1>4, <1>5, <1>6, <1>7, <1>8 DEF IsSet, s, v
<1>9. ASSUME ~d.aborted, NEW j \in 1..Len(Ansi), IsSet(e, j) PROVE IsSet(d, j)
  <2>1. CASE <<ArrowMap(e), Ansi[j][1]>> \in Met(s)
    <3>1. Meet(s, Ansi[j][1])
      BY <1>1, <2>1, MetIs
    <3>2. Ansi[i] = Ansi[j]
      BY <3>1, AnsiIs DEF s
    <3> QED
      BY <1>8, <1>9, <3>2 DEF IsSet
  <2>2. CASE <<ArrowMap(e), Ansi[j][1]>> \notin Met(s)
    BY <1>4, <1>9, <2>2, StaysSet
  <2> QED
    BY <2>1, <2>2
<1> QED
  BY <1>4, <1>7, <1>8, <1>9 DEF d, s, v

\* One by one: what each round keeps is kept behind the last.
LEMMA BecomesSet ==
  ASSUME NEW b0, NEW what, NEW e, NEW s, NEW w, NEW n \in Nat, NEW f,
         Becomes(what, e, s, w, n, f), Fit(e), Tracks(b0, e), SetUpTo(what, e, 0),
         \A i \in 1..n : \A x :
           Goes(b0, Whole, Whole, e, x) /\ SetUpTo(what, x, i - 1) =>
             LET d == Does(what, x, s[i], w)
             IN  Goes(b0, Whole, Whole, x, d) /\ SetUpTo(what, d, i)
  PROVE  Goes(b0, Whole, Whole, e, f[n]) /\ SetUpTo(what, f[n], n)
<1>1. f[0] = e /\ \A i \in 1..n : f[i] = Does(what, f[i - 1], s[i], w)
  BY BecomesIs
<1> DEFINE S == {i \in 0..n : Goes(b0, Whole, Whole, e, f[i]) /\ SetUpTo(what, f[i], i)}
<1>2. 0 \in S
  BY <1>1, GoesNowhere
<1>3. ASSUME NEW i \in 1..n, i - 1 \in S PROVE i \in S
  <2>1. Goes(b0, Whole, Whole, e, f[i - 1]) /\ SetUpTo(what, f[i - 1], i - 1) /\ i \in 0..n
    BY <1>3
  <2>2. Goes(b0, Whole, Whole, f[i - 1], f[i]) /\ SetUpTo(what, f[i], i)
    BY <1>1, <2>1
  <2> QED
    BY <2>1, <2>2, GoesOn
<1> HIDE DEF S
<1>4. \A i \in 0..n : i \in S
  BY <1>2, <1>3, Induction
<1> QED
  BY <1>4 DEF S

\* terminal_reset_arrow sets every arrow key.
LEMMA ResetSets ==
  ASSUME NEW b0, NEW e, Fit(e), Tracks(b0, e), Sound(e), e[ArrowMap(e)]["esc"] = Lead
  PROVE  LET d == terminal_reset_arrow(e) IN
           Goes(b0, Whole, Whole, e, d) /\ SetUpTo("bind", d, 0)
<1> DEFINE n == Len(Ansi)
<1>0. n \in Nat
  BY TablesAssumption DEF TablesAssumption
<1>1. PICK f, g : /\ Becomes("arrow", e, Ansi, e, n, f)
                  /\ Becomes("tail", f[n], Ansi, e, n, g)
                  /\ terminal_reset_arrow(e) = IF Vi(e) THEN g[n] ELSE f[n]
  BY AnsiBecomes
<1>2. SetUpTo("arrow", e, 0)
  BY DEF SetUpTo
<1>3. ASSUME NEW i \in 1..n, NEW x, Goes(b0, Whole, Whole, e, x), SetUpTo("arrow", x, i - 1)
      PROVE  LET d == Does("arrow", x, Ansi[i], e)
             IN  Goes(b0, Whole, Whole, x, d) /\ SetUpTo("arrow", d, i)
  <2> DEFINE d == Does("arrow", x, Ansi[i], e)
  <2>1. Fit(x) /\ Tracks(b0, x) /\ Sound(x) /\ x[ArrowMap(x)]["esc"] = Lead
    BY <1>3, SoundToo DEF Goes, Alike, SetUpTo
  <2>2. d = keymacro_add(x, Ansi[i][1], x.arrow[Ansi[i][2]])
    BY DoesIs DEF AddArrow
  <2> HIDE DEF d
  <2>3. /\ Goes(b0, Met(Ansi[i][1]), {}, x, d) /\ d[ArrowMap(d)]["esc"] = Lead
        /\ ~d.aborted => /\ IsSet(d, i)
                         /\ \A j \in 1..Len(Ansi) : IsSet(x, j) => IsSet(d, j)
    BY <2>1, <2>2, AddArrowSets
  <2>4. Goes(b0, Whole, Whole, x, d) /\ (x.aborted => d.aborted)
    BY <2>3, WholeGoes DEF Goes, Alike
  <2>5. \A j \in 1..n : j <= i => j = i \/ j <= i - 1
    BY <1>0
  <2>6. SetUpTo("arrow", d, i)
    BY <1>3, <2>3, <2>4, <2>5 DEF SetUpTo
  <2> QED
    BY <2>4, <2>6 DEF d
<1>4. ASSUME NEW i \in 1..n, NEW x, Fit(x), Tracks(b0, x), SetUpTo("tail", x, i - 1)
      PROVE  LET d == Does("tail", x, Ansi[i], e)
             IN  Goes(b0, Whole, Whole, x, d) /\ SetUpTo("tail", d, i)
  <2> DEFINE s == Tail(Ansi[i][1])
             d == Does("tail", x, Ansi[i], e)
  <2>1. d = keymacro_add(x, s, x.arrow[Ansi[i][2]])
    BY DoesIs DEF AddTail
  <2>2. s \in Paths /\ s[1] # "esc"
    <3>1. s \in Paths
      BY AnsiArePaths
    <3>2. s[1] = Ansi[i][1][2]
      BY TablesAssumption DEF TablesAssumption
    <3> QED
      BY <3>1, <3>2, ArrowsAssumption DEF ArrowsAssumption
  <2> HIDE DEF s, d
  <2>3. Goes(b0, Met(s), {}, x, d)
    BY <1>4, <2>1, <2>2, MetIs, AddGoes
  <2>4. ASSUME NEW j \in 1..n, NEW m PROVE <<m, Ansi[j][1]>> \notin Met(s)
    <3>1. Ansi[j][1] \in Paths /\ Ansi[j][1][1] = "esc"
      BY AnsiIs
    <3>2. ~Meet(s, Ansi[j][1])
      BY <2>2, <3>1, SameFirst DEF Meet
    <3> QED
      BY <2>2, <3>2, MetIs
  <2>5. \A j \in 1..n : IsSet(x, j) => IsSet(d, j)
    BY <2>3, <2>4, StaysSet
  <2>6. Goes(b0, Whole, Whole, x, d) /\ (x.aborted => d.aborted)
    BY <2>3, WholeGoes DEF Goes, Alike
  <2>7. SetUpTo("tail", d, i)
    BY <1>4, <2>5, <2>6 DEF SetUpTo
  <2> QED
    BY <2>6, <2>7 DEF d
<1>5. Goes(b0, Whole, Whole, e, f[n]) /\ SetUpTo("arrow", f[n], n)
  BY <1>0, <1>1, <1>2, <1>3, BecomesSet
<1>6. SetUpTo("tail", f[n], 0)
  BY <1>0, <1>5 DEF SetUpTo
<1>7. Goes(b0, Whole, Whole, f[n], g[n]) /\ SetUpTo("tail", g[n], n)
  <2>1. Fit(f[n]) /\ Tracks(b0, f[n])
    BY <1>5 DEF Goes
  <2>2. \A i \in 1..n : \A x :
          Goes(b0, Whole, Whole, f[n], x) /\ SetUpTo("tail", x, i - 1) =>
            LET d == Does("tail", x, Ansi[i], e)
            IN  Goes(b0, Whole, Whole, x, d) /\ SetUpTo("tail", d, i)
    BY <1>4 DEF Goes
  <2> QED
    BY <1>0, <1>1, <1>6, <2>1, <2>2, BecomesSet
<1>8. \A x : SetUpTo("tail", x, n) \/ SetUpTo("tail", x, 0) => SetUpTo("bind", x, 0)
  BY DEF SetUpTo
<1>9. Goes(b0, Whole, Whole, e, g[n])
  BY <1>5, <1>7, GoesOn
<1> QED
  BY <1>1, <1>5, <1>6, <1>7, <1>8, <1>9

\* What the terminal sends for an arrow key takes none of the others away.
LEMMA BindArrowSets ==
  ASSUME NEW b0, NEW x, Fit(x), Tracks(b0, x), Sound(x), Supplied(x), SetUpTo("bind", x, 0),
         NEW i \in 1..Len(Arrows), NEW table
  PROVE  LET d == BindArrow(x, Arrows[i], ArrowMap(x), table) IN
           Goes(b0, Whole, Whole, x, d) /\ SetUpTo("bind", d, 0)
<1> DEFINE a == Arrows[i]
           s == x.str[a.name]
           v == x.arrow[a.name]
           map == ArrowMap(x)
           d == BindArrow(x, a, map, table)
<1>0. map \in Maps /\ s \in Seq(Chars)
  BY DEF ArrowMap, Maps, Supplied
<1>1. CASE x.aborted \/ s = <<>>
  <2>1. d = x
    BY <1>1, Zenon DEF BindArrow
  <2> QED
    BY <2>1, GoesNowhere
<1>2. ASSUME ~x.aborted, s # <<>>, NEW j \in 1..Len(Ansi), Meet(s, Ansi[j][1])
      PROVE  Goes(b0, Whole, Whole, x, d) /\ SetUpTo("bind", d, 0)
  <2>1. s = Ansi[j][1] /\ a.name = Ansi[j][2]
    BY <1>2 DEF Sound
  <2>2. IsSet(x, j) /\ \A k \in 1..Len(Ansi) : IsSet(x, k)
    BY <1>2 DEF SetUpTo
  <2>3. s \in Paths /\ s[1] = "esc" /\ "esc" \in Chars /\ Len(s) > 1
    BY <2>1, AnsiIs, TablesAssumption DEF TablesAssumption
  <2>4. v.type # "nod" /\ x[map][s[1]] = Lead /\ v = x.arrow[Ansi[j][2]]
    BY <2>1, <2>2 DEF IsSet
  <2> DEFINE y == keymacro_add(x, s, v)
  <2>5. d = [y EXCEPT ![map][s[1]] = Lead]
    BY <1>2, <2>3, <2>4 DEF BindArrow
  <2> HIDE DEF y, d, s, v, a, map
  <2>6. /\ Goes(b0, Met(s), {}, x, y)
        /\ ~y.aborted => \A k \in 1..Len(Ansi) : IsSet(x, k) => IsSet(y, k)
    <3>1. x[ArrowMap(x)]["esc"] = Lead
      BY <2>3, <2>4 DEF map
    <3> QED
      BY <2>1, <2>4, <3>1, AddArrowSets DEF y
  <2>7. Goes(b0, {}, Whole, y, d)
    <3>1. Fit(y) /\ Tracks(b0, y)
      BY <2>6 DEF Goes
    <3>2. <<map, <<s[1]>>>> \in Whole
      BY <1>0, <2>3, OneIsPath DEF Whole
    <3> QED
      BY <1>0, <2>3, <2>5, <3>1, <3>2, SetGoes
  <2>8. ASSUME NEW k \in 1..Len(Ansi), IsSet(y, k) PROVE IsSet(d, k)
    <3>1. <<ArrowMap(y), Ansi[k][1]>> \notin {}
      OBVIOUS
    <3> QED
      BY <2>7, <2>8, <3>1, StaysSet
  <2>9. Goes(b0, Whole, Whole, x, y) /\ Goes(b0, Whole, Whole, y, d)
    BY <2>6, <2>7, WholeGoes DEF Goes
  <2>10. ~d.aborted => ~y.aborted
    BY <2>9 DEF Goes, Alike
  <2>11. SetUpTo("bind", d, 0)
    BY <2>2, <2>6, <2>8, <2>10 DEF SetUpTo
  <2> QED
    BY <2>9, <2>11, GoesOn
<1>3. ASSUME ~x.aborted, s # <<>>, \A j \in 1..Len(Ansi) : ~Meet(s, Ansi[j][1])
      PROVE  Goes(b0, Whole, Whole, x, d) /\ SetUpTo("bind", d, 0)
  <2>1. s \in Paths
    BY <1>0, <1>3 DEF Paths
  <2>2. Sent(x, i, map, Met(s), Whole)
    <3>1. \A p \in Paths : <<map, p>> \in Whole
      BY <1>0, InWhole
    <3>2. \A p \in Paths : IsPrefix(s, p) \/ IsPrefix(p, s) => \A m \in Maps : <<m, p>> \in Met(s)
      BY <2>1, MetIs
    <3> QED
      BY <1>0, <3>1, <3>2 DEF Sent
  <2>3. Goes(b0, Met(s), Whole, x, d)
    BY <1>0, <2>2, ArrowGoes
  <2> HIDE DEF d, s, map
  <2>4. \A k \in 1..Len(Ansi) : IsSet(x, k) => IsSet(d, k)
    <3>1. \A k \in 1..Len(Ansi) : <<ArrowMap(x), Ansi[k][1]>> \notin Met(s)
      BY <1>3, <2>1, MetIs
    <3> QED
      BY <2>3, <3>1, StaysSet
  <2>5. Goes(b0, Whole, Whole, x, d)
    BY <2>3, WholeGoes DEF Goes
  <2>6. SetUpTo("bind", d, 0)
    BY <1>3, <2>4 DEF SetUpTo
  <2> QED
    BY <2>5, <2>6
<1> QED
  BY <1>1, <1>2, <1>3

\* So they are all set behind terminal_bind_arrow.
LEMMA BindSets ==
  ASSUME NEW b0, NEW e, Fit(e), Tracks(b0, e), Sound(e), Supplied(e), e[ArrowMap(e)]["esc"] = Lead
  PROVE  LET d == terminal_bind_arrow(e) IN
           Goes(b0, Whole, Whole, e, d) /\ SetUpTo("bind", d, 0)
<1> DEFINE n == Len(Arrows)
           d == terminal_reset_arrow(e)
           w == ArrowWith(e)
<1>0. n \in Nat
  BY TablesAssumption DEF TablesAssumption
<1>1. PICK f : Becomes("bind", d, Arrows, w, n, f) /\ terminal_bind_arrow(e) = f[n]
  BY ArrowsBecome
<1>2. Goes(b0, Whole, Whole, e, d) /\ SetUpTo("bind", d, 0)
  BY ResetSets
<1>3. \A x, i, k : SetUpTo("bind", x, i) => SetUpTo("bind", x, k)
  BY DEF SetUpTo
<1> HIDE DEF d, w
<1>4. ASSUME NEW i \in 1..n, NEW x, Goes(b0, Whole, Whole, d, x), SetUpTo("bind", x, i - 1)
      PROVE  LET c == Does("bind", x, Arrows[i], w)
             IN  Goes(b0, Whole, Whole, x, c) /\ SetUpTo("bind", c, i)
  <2>1. Goes(b0, Whole, Whole, e, x) /\ SetUpTo("bind", x, 0)
    BY <1>2, <1>3, <1>4, GoesOn
  <2>2. Fit(x) /\ Tracks(b0, x) /\ Sound(x) /\ Supplied(x)
    BY <2>1, SoundToo DEF Goes, Alike, Supplied
  <2>3. ArrowMap(x) = ArrowMap(e)
    BY <2>1 DEF ArrowMap, Vi, Goes, Alike
  <2>4. Does("bind", x, Arrows[i], w) = BindArrow(x, Arrows[i], ArrowMap(x), ArrowTable(e))
    BY <2>3, ArrowsBecome DEF w
  <2> QED
    BY <1>3, <2>1, <2>2, <2>4, BindArrowSets
<1> HIDE DEF n
<1>5. Goes(b0, Whole, Whole, d, f[n]) /\ SetUpTo("bind", f[n], n)
  <2>1. Fit(d) /\ Tracks(b0, d)
    BY <1>2 DEF Goes
  <2> QED
    BY <1>0, <1>1, <1>2, <1>4, <2>1, BecomesSet
<1> QED
  BY <1>1, <1>2, <1>3, <1>5, GoesOn

\* The characters of the terminal leave escape where it leads.
LEMMA CharsKeepLead ==
  ASSUME NEW b0, NEW e, Fit(e), Tracks(b0, e), Sound(e), Supplied(e), e.old = e.new
  PROVE  LET d == tty_bind_char(e, TRUE) IN
           Goes(b0, Whole, Whole, e, d) /\ \A m \in Maps : d[m]["esc"] = e[m]["esc"]
<1> DEFINE L == {u \in Whole : u[2][1] # "esc"}
           d == tty_bind_char(e, TRUE)
<1>1. Bindable(e, TRUE, L, L)
  <2>1. \A i \in 1..Len(tty_map) : tty_map[i].fn \in DOMAIN TtyChars
    BY TablesAssumption DEF TablesAssumption
  <2>2. \A m \in Maps, p \in Paths : p[1] # "esc" => <<m, p>> \in L
    BY InWhole
  <2> HIDE DEF L
  <2> QED
    BY <2>1, <2>2 DEF Bindable, Sound, Supplied
<1>2. Goes(b0, L, L, e, d)
  BY <1>1, CharsGo
<1>3. "esc" \in Chars /\ \A m : <<m, <<"esc">>>> \notin L
  BY TablesAssumption DEF TablesAssumption
<1> HIDE DEF L, d
<1>4. \A m \in Maps : d[m]["esc"] = e[m]["esc"]
  BY <1>2, <1>3 DEF Goes, Apart
<1>5. Goes(b0, Whole, Whole, e, d)
  BY <1>2, WholeGoes DEF Goes
<1> QED
  BY <1>4, <1>5 DEF d

\* A change of editor sets every arrow key.
LEMMA SwitchSets ==
  ASSUME BindingsInv, NEW editor \in {"emacs", "vi"}, Switch(editor)
  PROVE  SetUpTo("bind", el', 0)
<1> DEFINE b0 == Bound(el.tree)
<1>1. el' = InitEditor(editor, Begun)
  BY DEF Switch, Call, InitEditor
<1>2. Ready(Begun)
  BY Begins DEF BindingsInv
<1>3. PICK d : Mapped(b0, Begun, editor, d)
  BY <1>2, ReadyIsSupplied, EditorMaps DEF Ready, Editors
<1> DEFINE c == tty_bind_char(d, TRUE)
<1>4. /\ Fit(d) /\ Tracks(b0, d) /\ Supplied(d) /\ Sound(d) /\ d.old = d.new
      /\ d[ArrowMap(d)]["esc"] = Lead /\ el' = terminal_bind_arrow(c)
  BY <1>1, <1>2, <1>3, SoundToo DEF Mapped, Ready
<1> HIDE DEF b0
<1>5. Goes(b0, Whole, Whole, d, c) /\ \A m \in Maps : c[m]["esc"] = d[m]["esc"]
  BY <1>4, CharsKeepLead
<1> HIDE DEF c
<1>6. /\ Fit(c) /\ Tracks(b0, c) /\ Supplied(c) /\ Sound(c)
      /\ c[ArrowMap(c)]["esc"] = Lead
  <2>1. ArrowMap(c) = ArrowMap(d) /\ ArrowMap(d) \in Maps
    BY <1>5 DEF ArrowMap, Vi, Maps, Goes, Alike
  <2>2. Sound(c) /\ Supplied(c)
    BY <1>4, <1>5, SoundToo DEF Goes, Alike, Supplied
  <2> QED
    BY <1>4, <1>5, <2>1, <2>2 DEF Goes
<1> QED
  BY <1>4, <1>6, BindSets

LEMMA SetIsRead ==
  ASSUME NEW e, Fit(e), NEW j \in 1..Len(Ansi), IsSet(e, j)
  PROVE  read_getcmd(e, ArrowMap(e), Ansi[j][1]) = e.arrow[Ansi[j][2]]
BY AnsiIs, LeafIsRead DEF IsSet, Fit

\* After a change of editor each arrow key does what it is set to: its sequence is in
\* the tree, whatever the characters and the sequences of the terminal have bound since
\* the tree was emptied, and the map of the arrow keys leads to it.
THEOREM ArrowsAreSet == Spec => ArrowsAfterSwitch
<1> DEFINE Read == Reinitialised =>
                     \A i \in DOMAIN Ansi :
                       read_getcmd(el', IF Vi(el') THEN "alt" ELSE "key", Ansi[i][1])
                         = el'.arrow[Ansi[i][2]]
<1>1. BindingsInv /\ [Next]_vars => [Read]_vars
  <2>1. SUFFICES ASSUME BindingsInv, Next, Reinitialised, NEW i \in DOMAIN Ansi
                 PROVE  read_getcmd(el', ArrowMap(el'), Ansi[i][1]) = el'.arrow[Ansi[i][2]]
    BY DEF ArrowMap
  <2>2. i \in 1..Len(Ansi)
    BY TablesAssumption DEF TablesAssumption
  <2>3. Stays(el', user') /\ \E editor \in {"emacs", "vi"} : Switch(editor)
    BY <2>1, BindingsNext DEF Reinitialised
  <2>4. Fit(el') /\ SetUpTo("bind", el', 0)
    BY <2>1, <2>3, SwitchSets DEF Stays, Ready
  <2>5. IsSet(el', i)
    BY <2>1, <2>2, <2>4 DEF SetUpTo, Reinitialised
  <2> QED
    BY <2>2, <2>4, <2>5, SetIsRead
<1> QED
  BY <1>1, BindingsInvariant, PTL DEF Spec, ArrowsAfterSwitch
===============================================================================
