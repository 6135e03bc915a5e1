---------------------------- MODULE ExchangeProofs ----------------------------
(***************************************************************************)
(* What goes out and what comes back.                                      *)
(*                                                                         *)
(* Request: how a call becomes a request, for every statement, format,     *)
(* graph and URI of any length, every ALLOC_CHUNK and                      *)
(* ALLOC_SECURITY_MARGIN of which the first is not the smaller: the buffer *)
(* of sparql_vasprintf_ is not written to its last byte, as long as the    *)
(* margin holds the numbers' own parts; what is printed is the whole       *)
(* format, and what is sent is the whole text, encoded, in the bytes that  *)
(* were reckoned for it.                                                   *)
(*                                                                         *)
(* ResultSet, for any sets of names and nodes, any block sizes and any     *)
(* bounds: its arrays stay rectangular and within what was allocated, the  *)
(* widths cover the values in which librdf escapes nothing (NodeDisplay),  *)
(* a failing call leaves what a reader sees alone, and the cursor          *)
(* implements RowCursor.                                                   *)
(***************************************************************************)
EXTENDS Request, NodeDisplay, SequenceTheorems, TLAPS, WellFoundedInduction

-----------------------------------------------------------------------------
(* Request                                                                 *)

\* What a number takes beside its width and its precision.
Own(p) == IF p.kind = "number" THEN p.own ELSE 0

\* What realloc_buff is asked for falls short of what vsprintf counts by no more
\* than a number's own part and one; what can be read is no longer.
LEMMA PrintedLength ==
  ASSUME NEW p \in Pieces,
         p.kind \in {"usual", "percent", "number", "nul", "string", "node"}
  PROVE  /\ Approx(p) \in Nat /\ Own(p) \in Nat
         /\ Len(Printed(p)) \in Nat /\ Counted(p) \in Nat
         /\ Len(Printed(p)) <= Counted(p)
         /\ Counted(p) <= Approx(p) + Own(p) + 1
<1>0. Blank \in Chars
  BY FormatAssumption
<1>10. p.kind # "nul" => Counted(p) = Len(Printed(p))
  BY DEF Counted
<1>11. p.kind # "number" => Own(p) = 0
  BY DEF Own
<1>1. CASE p.kind \in {"usual", "node"}
  <2>1. p.text \in Seq(Chars)
    BY <1>1 DEF Pieces
  <2> QED
    BY <1>1, <1>10, <1>11, <2>1 DEF Approx, Printed
<1>2. CASE p.kind = "percent"
  <2>1. Len(<<Blank>>) = 1
    OBVIOUS
  <2> QED
    BY <1>2, <1>10, <1>11, <2>1 DEF Approx, Printed
<1>3. CASE p.kind = "number"
  <2>1. p.width \in Nat \cup {-1} /\ p.prec \in Nat \cup {-1} /\ p.own \in Nat
    BY <1>3 DEF Pieces, FieldWidths, None
  <2> DEFINE n == Larger(p.width, p.own + Larger(p.prec, 0))
  <2>2. n \in Nat /\ n <= Larger(0, p.width + p.prec) + p.own + 1
    BY <2>1 DEF Larger
  <2>3. Len(Blanks(n)) = n
    BY <2>2 DEF Blanks
  <2>4. Printed(p) = Blanks(n) /\ Approx(p) = Larger(0, p.width + p.prec)
    BY <1>3 DEF Printed, Approx
  <2>5. Larger(0, p.width + p.prec) \in Nat
    BY <2>1 DEF Larger
  <2>6. Own(p) = p.own
    BY <1>3 DEF Own
  <2> QED
    BY <1>3, <1>10, <2>1, <2>2, <2>3, <2>4, <2>5, <2>6
<1>4. CASE p.kind = "string" /\ p.text = Null
  <2>1. Len(Blanks(6)) = 6
    BY DEF Blanks
  <2>2. Printed(p) = Blanks(6) /\ Approx(p) = 6
    BY <1>4 DEF Printed, Approx
  <2>3. Len(Printed(p)) = 6
    BY <2>1, <2>2
  <2>4. Approx(p) = 6
    BY <2>2
  <2> QED
    BY <1>4, <1>10, <1>11, <2>3, <2>4
<1>5. CASE p.kind = "string" /\ p.text # Null
  <2>1. p.width \in Nat \cup {-1} /\ p.prec \in Nat \cup {-1} /\ p.text \in Seq(Chars)
    BY <1>5 DEF Pieces, FieldWidths, None
  <2>2. Taken(p) \in Seq(Chars)
    BY <2>1 DEF Taken, None, Smaller
  <2> DEFINE n == Larger(0, p.width - Len(Taken(p)))
  <2>3. n \in Nat /\ Len(Taken(p)) \in Nat
    BY <2>1, <2>2 DEF Larger
  <2>4. Blanks(n) \in Seq(Chars) /\ Len(Blanks(n)) = n
    BY <1>0, <2>3 DEF Blanks
  <2>5. Len(Blanks(n) \o Taken(p)) = n + Len(Taken(p))
    BY <2>2, <2>4
  <2>6. n + Len(Taken(p)) = Larger(Len(Taken(p)), p.width)
    BY <2>1, <2>3 DEF Larger
  <2>7. Printed(p) = Blanks(n) \o Taken(p) /\ Approx(p) = Larger(Len(Taken(p)), p.width)
    BY <1>5 DEF Printed, Approx
  <2> HIDE DEF n
  <2> QED
    BY <1>5, <1>10, <1>11, <2>3, <2>5, <2>6, <2>7
<1>6. CASE p.kind = "nul"
  <2>1. p.width \in Nat \cup {-1} /\ p.prec \in Nat \cup {-1}
    BY <1>6 DEF Pieces, FieldWidths, None
  <2>2. /\ Counted(p) = Larger(p.width, 1) /\ Approx(p) = Larger(0, p.width + p.prec)
        /\ Printed(p) = Blanks(IF p.left THEN 0 ELSE Larger(p.width, 1) - 1)
    BY <1>6 DEF Counted, NulWidth, Approx, Printed
  <2> DEFINE n == IF p.left THEN 0 ELSE Larger(p.width, 1) - 1
  <2>3. n \in Nat /\ n <= Larger(p.width, 1) /\ Larger(p.width, 1) \in Nat
    BY <2>1 DEF Larger
  <2>4. Len(Blanks(n)) = n
    BY <2>3 DEF Blanks
  <2>5. /\ Larger(0, p.width + p.prec) \in Nat
        /\ Larger(p.width, 1) <= Larger(0, p.width + p.prec) + 1
    BY <2>1 DEF Larger
  <2> HIDE DEF n
  <2> QED
    BY <1>6, <1>11, <2>2, <2>3, <2>4, <2>5 DEF n
<1> QED
  BY <1>1, <1>2, <1>3, <1>4, <1>5, <1>6

-----------------------------------------------------------------------------

\* While a format is printed whose numbers the margin holds, there is always room
\* for a NUL before the last byte.
BufferInv ==
  /\ format \in Seq(Pieces) /\ src_string \in Seq(Pieces)
  /\ alloc \in Nat /\ real \in Nat
  /\ NumbersFit(format) =>
       /\ NumbersFit(src_string)
       /\ marker = TRUE
       /\ pc = "printing" => real + 2 <= alloc

\* The numbers of a format that fits fit one by one, and without the first.
LEMMA FirstFits ==
  ASSUME NEW s \in Seq(Pieces), s # <<>>, NumbersFit(s)
  PROVE  /\ NumbersFit(Tail(s))
         /\ Head(s).kind = "number" => Head(s).own + 3 <= Margin
<1>1. Head(s) = s[1] /\ 1 \in DOMAIN s
  OBVIOUS
<1>2. \A i \in DOMAIN Tail(s) : i + 1 \in DOMAIN s /\ Tail(s)[i] = s[i + 1]
  OBVIOUS
<1> QED
  BY <1>1, <1>2 DEF NumbersFit

\* A piece is printed behind an enlarged buffer's text, or into its margin.
LEMMA WritesKeep ==
  ASSUME BufferInv, pc = "printing", src_string # <<>>, UNCHANGED format,
         NEW p, p = Head(src_string),
         p.kind \in {"usual", "percent", "number", "nul", "string", "node"},
         NEW end, end \in {End(p), End(p) + 1},
         Writes(p, Approx(p), end),
         \/ Moves
         \/ ~marker' /\ src_string' = src_string
  PROVE  BufferInv'
<1>1. p \in Pieces /\ Tail(src_string) \in Seq(Pieces) /\ format \in Seq(Pieces)
      /\ src_string \in Seq(Pieces)
  BY DEF BufferInv
<1> DEFINE n == Approx(p)
           l == Len(Printed(p))
           c == Counted(p)
           o == Own(p)
<1>2. n \in Nat /\ l \in Nat /\ c \in Nat /\ o \in Nat /\ l <= c /\ c <= n + o + 1
  BY <1>1, PrintedLength
<1>3. Chunk \in Nat /\ Margin \in Nat /\ Chunk >= Margin /\ Margin >= 3
  BY FormatAssumption
<1>4. real \in Nat /\ alloc \in Nat
  BY DEF BufferInv
<1>5. /\ alloc' = IF Scarce(n) THEN n + real + Chunk ELSE alloc
      /\ marker' = ((Scarce(n) \/ marker) /\ end < alloc')
      /\ real' = real + l
  BY DEF Writes, MakesRoom, Marks
<1>6. end = real + c \/ end = real + c + 1
  BY DEF End
<1>7. src_string' \in Seq(Pieces) /\ format' \in Seq(Pieces)
  BY <1>1 DEF Moves
<1> HIDE DEF n, l, c, o
<1>8. alloc' \in Nat /\ n + Margin + real <= alloc' /\ real' \in Nat
  BY <1>2, <1>3, <1>4, <1>5 DEF Scarce
<1>9. ASSUME NumbersFit(format)
      PROVE  NumbersFit(src_string') /\ marker' = TRUE /\ real' + 2 <= alloc'
  <2>1. NumbersFit(src_string) /\ marker = TRUE
    BY <1>9 DEF BufferInv
  <2>2. o + 3 <= Margin
    BY <1>1, <1>3, <2>1, FirstFits DEF o, Own
  <2>3. end < alloc' /\ real' + 2 <= alloc'
    BY <1>2, <1>3, <1>4, <1>5, <1>6, <1>8, <2>2
  <2>4. marker' = TRUE
    BY <1>5, <2>1, <2>3
  <2>5. src_string' = Tail(src_string)
    BY <2>4 DEF Moves
  <2> QED
    BY <1>1, <2>1, <2>3, <2>4, <2>5, FirstFits
<1> QED
  BY <1>7, <1>8, <1>9 DEF BufferInv

LEMMA Initially == RequestInit => BufferInv
<1> SUFFICES ASSUME RequestInit PROVE BufferInv
  OBVIOUS
<1>1. /\ format = <<>> /\ src_string = <<>> /\ alloc = 0 /\ real = 0 /\ marker = TRUE
      /\ pc = "idle"
  BY DEF RequestInit, NoFormat
<1>2. <<>> \in Seq(Pieces) /\ DOMAIN <<>> = {}
  OBVIOUS
<1> QED
  BY <1>1, <1>2 DEF NumbersFit, BufferInv

LEMMA Preserved == BufferInv /\ [RequestNext]_requestVars => BufferInv'
<1> SUFFICES ASSUME BufferInv, [RequestNext]_requestVars PROVE BufferInv'
  OBVIOUS
<1>1. CASE Copies
  BY <1>1, WritesKeep DEF Copies, Is, Next1, Piece, Moves
<1>2. CASE Prints
  <2>1. /\ pc = "printing" /\ src_string # <<>>
        /\ Head(src_string).kind \in {"number", "nul", "string", "node"}
        /\ Writes(Head(src_string), Approx(Head(src_string)), End(Head(src_string)) + 1)
    BY <1>2 DEF Prints, Is, Next1, Piece, Conversions
  <2>2. CASE marker'
    <3>1. Moves
      BY <1>2, <2>2 DEF Prints
    <3> QED
      BY <2>1, <3>1, WritesKeep DEF Moves
  <2>3. CASE ~marker'
    <3>1. UNCHANGED <<format, src_string>>
      BY <1>2, <2>3 DEF Prints
    <3> QED
      BY <2>1, <2>3, <3>1, WritesKeep
  <2> QED
    BY <2>2, <2>3
<1>3. CASE PassesOver \/ Stores
  <2>1. /\ src_string # <<>> /\ src_string' = Tail(src_string)
        /\ UNCHANGED <<pc, format, buffer>>
    BY <1>3 DEF PassesOver, Stores, Is, Next1, Moves
  <2>2. Tail(src_string) \in Seq(Pieces)
    BY <2>1 DEF BufferInv
  <2>3. NumbersFit(src_string) => NumbersFit(Tail(src_string))
    BY <2>1, FirstFits DEF BufferInv
  <2> QED
    BY <2>1, <2>2, <2>3 DEF buffer, BufferInv
<1>4. CASE Fails
  BY <1>4 DEF Fails, BufferInv
<1>5. CASE LosesNode
  <2>1. /\ src_string # <<>> /\ src_string' = Tail(src_string)
        /\ UNCHANGED <<pc, format, alloc, real, marker>>
    BY <1>5 DEF LosesNode, Is, Next1, Moves
  <2>2. Tail(src_string) \in Seq(Pieces)
    BY <2>1 DEF BufferInv
  <2>3. NumbersFit(src_string) => NumbersFit(Tail(src_string))
    BY <2>1, FirstFits DEF BufferInv
  <2> QED
    BY <2>1, <2>2, <2>3 DEF BufferInv
<1>6. CASE GoesAstray
  BY <1>6 DEF GoesAstray, printing, buffer, BufferInv
<1>7. CASE Finishes
  <2>1. NumbersFit(format) => real + 1 < alloc
    BY <1>7 DEF Finishes, BufferInv
  <2> QED
    BY <1>7, <2>1 DEF Finishes, BufferInv
<1>8. CASE FinishFails
  BY <1>8 DEF FinishFails, BufferInv
<1>9. CASE Formatted
  <2>1. PICK pieces \in Seq(Pieces) : Begins(pieces)
    BY <1>9, RequestAssumption DEF Formatted
  <2>2. /\ format' = pieces /\ src_string' = pieces /\ alloc' = Chunk /\ marker' = TRUE
        /\ real' = 0
    BY <2>1 DEF Begins
  <2> QED
    BY <2>2, FormatAssumption DEF BufferInv
<1>10. CASE NoWorld \/ FormatFails \/ Passed \/ Given \/ Wraps \/ Sends \/ SendFails
  BY <1>10 DEF NoWorld, FormatFails, Passed, Given, Wraps, Sends, SendFails, printing, buffer, BufferInv
<1>11. CASE UNCHANGED requestVars
  BY <1>11 DEF requestVars, printing, buffer, BufferInv
<1> QED
  BY <1>1, <1>2, <1>3, <1>4, <1>5, <1>6, <1>7, <1>8, <1>9, <1>10, <1>11
  DEF RequestNext, sparql_vasprintf_

\* No piece of any format whose numbers the margin holds, printed into the buffer
\* of sparql_vasprintf_, reaches the byte at its end that print_it asserts to be
\* untouched.
THEOREM MarkerCorrect == RequestSpec => []MarkerStands
<1>1. BufferInv => MarkerStands
  BY DEF BufferInv, MarkerStands
<1> QED
  BY <1>1, Initially, Preserved, PTL DEF RequestSpec

-----------------------------------------------------------------------------
(* Recursive functions. *)

\* Of some numbers one is the least.
LEMMA LeastNumber ==
  ASSUME NEW T \in SUBSET Nat, T # {}
  PROVE  \E x \in T : \A y \in T : x <= y
<1> DEFINE R == OpToRel(<, Nat)
<1>1. IsWellFoundedOn(R, Nat)
  BY NatLessThanWellFounded
<1>2. \A x, y \in Nat : y < x => <<y, x>> \in R
  BY DEF OpToRel
<1> HIDE DEF R
<1>3. PICK x \in T : \A y \in T : ~ (<<y, x>> \in R)
  BY <1>1, WFMin
<1>4. x \in Nat
  OBVIOUS
<1>5. ASSUME NEW y \in T PROVE x <= y
  <2>1. y \in Nat
    OBVIOUS
  <2>2. ~ (y < x)
    BY <1>2, <1>3, <1>4, <2>1, Zenon
  <2> QED
    BY <1>4, <2>1, <2>2, SMT
<1> QED
  BY <1>5

\* Induction up to a number, over the set of the numbers that have a property.
LEMMA Induction ==
  ASSUME NEW n \in Nat, NEW S, 0 \in S,
         \A i \in 1..n : i - 1 \in S => i \in S
  PROVE  \A i \in 0..n : i \in S
<1> DEFINE T == (0..n) \ S
<1>1. SUFFICES ASSUME T # {} PROVE FALSE
  OBVIOUS
<1>2. T \in SUBSET Nat
  OBVIOUS
<1> HIDE DEF T
<1>3. PICK x \in T : \A y \in T : x <= y
  BY <1>1, <1>2, LeastNumber
<1> USE DEF T
<1>4. x \in 1..n
  BY <1>3
<1>5. x - 1 \in 0..n /\ ~ (x <= x - 1)
  BY <1>4
<1>6. x - 1 \notin T
  BY <1>3, <1>5
<1> QED
  BY <1>3, <1>4, <1>5, <1>6

\* There is a function that begins with b and goes on by h.
Recursive(T, n, b, h) ==
  \E f \in [0..n -> T] : f[0] = b /\ \A i \in 1..n : f[i] = h[i][f[i - 1]]

\* From any base and any step.
LEMMA Recursion ==
  ASSUME NEW T, NEW n \in Nat, NEW b \in T, NEW h \in [1..n -> [T -> T]]
  PROVE  Recursive(T, n, b, h)
<1> DEFINE Up(f, k) == \A i \in 0..k : f[i] = IF i = 0 THEN b ELSE h[i][f[i - 1]]
           S == {k \in 0..n : \E f \in [0..k -> T] : Up(f, k)}
<1>1. 0 \in S
  <2> DEFINE f == [i \in 0..0 |-> b]
  <2>1. f \in [0..0 -> T] /\ Up(f, 0)
    OBVIOUS
  <2> HIDE DEF f
  <2>2. \E e \in [0..0 -> T] : Up(e, 0)
    BY <2>1, Zenon
  <2> QED
    BY <2>2
<1>2. ASSUME NEW k \in 1..n, k - 1 \in S PROVE k \in S
  <2>1. PICK f \in [0..k - 1 -> T] : Up(f, k - 1)
    BY <1>2
  <2> DEFINE g == [i \in 0..k |-> IF i = k THEN h[k][f[k - 1]] ELSE f[i]]
  <2>2. f[k - 1] \in T /\ h[k][f[k - 1]] \in T
    OBVIOUS
  <2>3. g \in [0..k -> T]
    BY <2>2
  <2>4. ASSUME NEW i \in 0..k PROVE g[i] = IF i = 0 THEN b ELSE h[i][g[i - 1]]
    <3>1. CASE i = k
      <4>1. g[i] = h[k][f[k - 1]] /\ g[i - 1] = f[k - 1]
        BY <3>1
      <4>2. i # 0
        BY <3>1
      <4> HIDE DEF g
      <4>3. g[i] = h[i][g[i - 1]]
        BY <3>1, <4>1, Zenon
      <4> QED
        BY <4>2, <4>3, Zenon
    <3>2. CASE i # k
      <4>1. i \in 0..k - 1 /\ g[i] = f[i]
        BY <3>2
      <4>2. f[i] = IF i = 0 THEN b ELSE h[i][f[i - 1]]
        BY <2>1, <4>1
      <4>3. i # 0 => g[i - 1] = f[i - 1]
        BY <3>2
      <4> QED
        BY <4>1, <4>2, <4>3
    <3> QED
      BY <3>1, <3>2
  <2>5. k \in 0..n
    OBVIOUS
  <2> HIDE DEF g
  <2>6. Up(g, k)
    BY <2>4, Zenon
  <2>7. \E e \in [0..k -> T] : Up(e, k)
    BY <2>3, <2>6, Zenon
  <2> QED
    BY <2>5, <2>7
<1> HIDE DEF S
<1>3. n \in S
  <2>1. \A i \in 0..n : i \in S
    BY <1>1, <1>2, Induction
  <2> QED
    BY <2>1
<1>4. PICK f \in [0..n -> T] : Up(f, n)
  BY <1>3 DEF S
<1>5. f[0] = b /\ \A i \in 1..n : f[i] = h[i][f[i - 1]]
  <2>1. f[0] = b
    BY <1>4
  <2>2. ASSUME NEW i \in 1..n PROVE f[i] = h[i][f[i - 1]]
    <3>1. i \in 0..n /\ i # 0
      OBVIOUS
    <3> QED
      BY <1>4, <3>1, Zenon
  <2> QED
    BY <2>1, <2>2
<1> QED
  BY <1>5 DEF Recursive

\* Functions with the same recursion have the same value.
LEMMA Agree ==
  ASSUME NEW n \in Nat, NEW f, NEW g,
         f[0] = g[0], \A i \in 1..n : f[i - 1] = g[i - 1] => f[i] = g[i]
  PROVE  f[n] = g[n]
<1> DEFINE S == {i \in 0..n : f[i] = g[i]}
<1>1. 0 \in S
  OBVIOUS
<1>2. \A i \in 1..n : i - 1 \in S => i \in S
  OBVIOUS
<1> HIDE DEF S
<1>3. n \in S
  <2>1. \A i \in 0..n : i \in S
    BY <1>1, <1>2, Induction
  <2> QED
    BY <2>1
<1> QED
  BY <1>3 DEF S

-----------------------------------------------------------------------------
(* What the recursive functions of UrlEncode and Format are. *)

Room(c) == IF c \in Plain THEN 1 ELSE 3

\* How many bytes each beginning of a text takes, with a NUL behind it.
Sizes(src, l) ==
  /\ l \in [0..Len(src) -> Nat] /\ l[0] = 1
  /\ \A i \in 1..Len(src) : l[i] = l[i - 1] + Room(src[i])

\* What sparql_urlencode_size_ reckons, step by step.
LEMMA SizeIs ==
  ASSUME NEW S, NEW src \in Seq(S)
  PROVE  \E l : Sizes(src, l) /\ sparql_urlencode_size_(src) = l[Len(src)]
<1> DEFINE n == Len(src)
           N == Nat
           b == 1
           h == [i \in 1..n |-> [m \in N |-> m + Room(src[i])]]
           Def(l) == l = [i \in 0..n |-> IF i = 0 THEN 1
                                         ELSE l[i - 1] + (IF src[i] \in Plain THEN 1 ELSE 3)]
           s == CHOOSE l : Def(l)
<1>1. n \in Nat /\ b \in N /\ h \in [1..n -> [N -> N]]
  BY DEF Room
<1>2. \A i \in 1..n, m \in N : h[i][m] = m + Room(src[i])
  OBVIOUS
<1> HIDE DEF h, n, N, b
<1>3. PICK l \in [0..n -> N] : l[0] = b /\ \A i \in 1..n : l[i] = h[i][l[i - 1]]
  <2>1. Recursive(N, n, b, h)
    BY <1>1, Recursion
  <2> QED
    BY <2>1 DEF Recursive
<1>4. l[0] = 1 /\ \A i \in 1..n : l[i] = l[i - 1] + Room(src[i])
  <2>1. l[0] = 1
    BY <1>3 DEF b
  <2>2. ASSUME NEW i \in 1..n PROVE l[i] = l[i - 1] + Room(src[i])
    <3>1. l[i - 1] \in N
      BY <1>1
    <3> QED
      BY <1>2, <1>3, <3>1, Zenon
  <2> QED
    BY <2>1, <2>2
<1>5. Def(l)
  <2>1. [i \in 0..n |-> l[i]]
        = [i \in 0..n |-> IF i = 0 THEN 1
                          ELSE l[i - 1] + (IF src[i] \in Plain THEN 1 ELSE 3)]
    BY <1>1, <1>4 DEF Room
  <2>2. l = [i \in 0..n |-> l[i]]
    OBVIOUS
  <2> QED
    BY <2>1, <2>2, Zenon
<1>6. Def(s)
  BY <1>5, Zenon
<1>7. sparql_urlencode_size_(src) = s[n]
  BY DEF sparql_urlencode_size_, n
<1> HIDE DEF s
<1>8. s[0] = 1 /\ \A i \in 1..n : s[i] = s[i - 1] + Room(src[i])
  BY <1>1, <1>6 DEF Room
<1>9. s[n] = l[n]
  <2>1. s[0] = l[0]
    BY <1>4, <1>8
  <2>2. \A i \in 1..n : s[i - 1] = l[i - 1] => s[i] = l[i]
    BY <1>4, <1>8
  <2> QED
    BY <1>1, <2>1, <2>2, Agree
<1> QED
  BY <1>3, <1>4, <1>7, <1>9 DEF n, N, Sizes

\* A longer beginning takes more.
LEMMA SizesGrow ==
  ASSUME NEW S, NEW src \in Seq(S), NEW l, Sizes(src, l),
         NEW i \in 0..Len(src)
  PROVE  l[i] <= l[Len(src)]
<1> DEFINE n == Len(src)
           G == {k \in 0..n : \A j \in 0..k : l[j] <= l[k]}
<1>1. n \in Nat /\ l \in [0..n -> Nat]
      /\ \A k \in 1..n : l[k] = l[k - 1] + Room(src[k])
  BY DEF Sizes
<1> HIDE DEF n
<1>2. 0 \in G
  BY <1>1
<1>3. ASSUME NEW k \in 1..n, k - 1 \in G PROVE k \in G
  <2>1. l[k] >= l[k - 1] /\ l[k] \in Nat /\ l[k - 1] \in Nat
    <3>1. l[k] = l[k - 1] + Room(src[k]) /\ l[k] \in Nat /\ l[k - 1] \in Nat
      BY <1>1
    <3> QED
      BY <3>1 DEF Room
  <2>2. ASSUME NEW j \in 0..k PROVE l[j] <= l[k]
    <3>1. CASE j = k
      BY <2>1, <3>1
    <3>2. CASE j # k
      <4>1. j \in 0..k - 1 /\ l[j] \in Nat
        BY <1>1, <3>2
      <4> QED
        BY <1>3, <2>1, <4>1
    <3> QED
      BY <3>1, <3>2
  <2> QED
    BY <2>2
<1> HIDE DEF G
<1>4. n \in G
  <2>1. \A k \in 0..n : k \in G
    BY <1>1, <1>2, <1>3, Induction
  <2> QED
    BY <1>1, <2>1
<1> QED
  BY <1>4 DEF G, n

Bytes(S) == [of : S, part : 0..3]

\* A character takes one byte or three.
LEMMA CodeLength ==
  ASSUME NEW S, NEW c \in S
  PROVE  Code(c) \in Seq(Bytes(S)) /\ Len(Code(c)) = Room(c)
<1>1. Byte(c) \in Seq(Bytes(S)) /\ Len(Byte(c)) = 1
  BY DEF Byte, Bytes
<1>2. Escape(c) \in Seq(Bytes(S)) /\ Len(Escape(c)) = 3
  BY DEF Escape, Bytes
<1> QED
  BY <1>1, <1>2 DEF Code, Room

\* The code of each beginning of a text.
Codes(S, src, w) ==
  /\ w \in [0..Len(src) -> Seq(Bytes(S))] /\ w[0] = <<>>
  /\ \A i \in 1..Len(src) : w[i] = w[i - 1] \o Code(src[i])

\* The whole code of a text, step by step.
LEMMA CodeIs ==
  ASSUME NEW S, NEW src \in Seq(S)
  PROVE  \E w : Codes(S, src, w) /\ WholeCode(src) = w[Len(src)]
<1> DEFINE n == Len(src)
           N == Seq(Bytes(S))
           b == <<>>
           h == [i \in 1..n |-> [m \in N |-> m \o Code(src[i])]]
           Def(w) == w = [i \in 0..n |-> IF i = 0 THEN <<>> ELSE w[i - 1] \o Code(src[i])]
           s == CHOOSE w : Def(w)
<1>1. n \in Nat /\ b \in N /\ h \in [1..n -> [N -> N]]
  <2>1. \A i \in 1..n : Code(src[i]) \in N
    BY CodeLength
  <2> QED
    BY <2>1
<1>2. \A i \in 1..n, m \in N : h[i][m] = m \o Code(src[i])
  OBVIOUS
<1> HIDE DEF h, n, N, b
<1>3. PICK w \in [0..n -> N] : w[0] = b /\ \A i \in 1..n : w[i] = h[i][w[i - 1]]
  <2>1. Recursive(N, n, b, h)
    BY <1>1, Recursion
  <2> QED
    BY <2>1 DEF Recursive
<1>4. w[0] = <<>> /\ \A i \in 1..n : w[i] = w[i - 1] \o Code(src[i])
  <2>1. w[0] = <<>>
    BY <1>3 DEF b
  <2>2. ASSUME NEW i \in 1..n PROVE w[i] = w[i - 1] \o Code(src[i])
    <3>1. w[i - 1] \in N
      BY <1>1
    <3> QED
      BY <1>2, <1>3, <3>1, Zenon
  <2> QED
    BY <2>1, <2>2
<1>5. Def(w)
  <2>0. ASSUME NEW i \in 0..n
        PROVE  w[i] = IF i = 0 THEN <<>> ELSE w[i - 1] \o Code(src[i])
    <3>1. i # 0 => i \in 1..n
      BY <1>1
    <3> QED
      BY <1>4, <3>1, Zenon
  <2>1. [i \in 0..n |-> w[i]]
        = [i \in 0..n |-> IF i = 0 THEN <<>> ELSE w[i - 1] \o Code(src[i])]
    BY <2>0, Zenon
  <2>2. w = [i \in 0..n |-> w[i]]
    OBVIOUS
  <2> QED
    BY <2>1, <2>2, Zenon
<1>6. Def(s)
  BY <1>5, Zenon
<1>7. WholeCode(src) = s[n]
  BY DEF WholeCode, n
<1> HIDE DEF s
<1>8. s[0] = <<>> /\ \A i \in 1..n : s[i] = s[i - 1] \o Code(src[i])
  <2>1. \A i \in 0..n : s[i] = IF i = 0 THEN <<>> ELSE s[i - 1] \o Code(src[i])
    BY <1>6, Zenon
  <2>2. 0 \in 0..n /\ \A i \in 1..n : i \in 0..n /\ i # 0
    BY <1>1
  <2> QED
    BY <2>1, <2>2, Zenon
<1>9. s[n] = w[n]
  <2>1. s[0] = w[0]
    BY <1>4, <1>8
  <2>2. \A i \in 1..n : s[i - 1] = w[i - 1] => s[i] = w[i]
    BY <1>4, <1>8
  <2> QED
    BY <1>1, <2>1, <2>2, Agree
<1> QED
  BY <1>3, <1>4, <1>7, <1>9 DEF n, N, Codes

\* Lengths add up.
LEMMA Joined ==
  ASSUME NEW T, NEW s \in Seq(T), NEW t \in Seq(T)
  PROVE  Len(s) \in Nat /\ Len(s \o t) = Len(s) + Len(t)
  OBVIOUS

\* How long the code of each beginning is.
LEMMA CodesLength ==
  ASSUME NEW S, NEW src \in Seq(S), NEW l, Sizes(src, l), NEW w, Codes(S, src, w),
         NEW i \in 0..Len(src)
  PROVE  Len(w[i]) + 1 = l[i]
<1> DEFINE n == Len(src)
           G == {k \in 0..n : Len(w[k]) + 1 = l[k]}
<1>1. /\ n \in Nat
      /\ l \in [0..n -> Nat] /\ l[0] = 1
      /\ \A k \in 1..n : l[k] = l[k - 1] + Room(src[k])
      /\ w \in [0..n -> Seq(Bytes(S))] /\ w[0] = <<>>
      /\ \A k \in 1..n : w[k] = w[k - 1] \o Code(src[k])
  <2>1. n \in Nat
    OBVIOUS
  <2> QED
    BY <2>1, Zenon DEF Sizes, Codes
<1>2. \A k \in 1..n : src[k] \in S
  OBVIOUS
<1> HIDE DEF n
<1>3. 0 \in G
  BY <1>1
<1>4. ASSUME NEW k \in 1..n, k - 1 \in G PROVE k \in G
  <2>1. k \in 0..n /\ k - 1 \in 0..n
    BY <1>1
  <2>2. w[k] = w[k - 1] \o Code(src[k]) /\ w[k - 1] \in Seq(Bytes(S)) /\ w[k] \in Seq(Bytes(S))
        /\ l[k] = l[k - 1] + Room(src[k]) /\ l[k - 1] \in Nat
    BY <1>1, <2>1
  <2>3. Code(src[k]) \in Seq(Bytes(S)) /\ Len(Code(src[k])) = Room(src[k])
    BY <1>2, CodeLength
  <2>4. Len(w[k]) = Len(w[k - 1]) + Room(src[k]) /\ Len(w[k - 1]) \in Nat
    BY <2>2, <2>3, Joined
  <2>5. Len(w[k - 1]) + 1 = l[k - 1]
    BY <1>4
  <2>6. Room(src[k]) \in Nat
    BY DEF Room
  <2>7. Len(w[k]) + 1 = l[k]
    BY <2>2, <2>4, <2>5, <2>6
  <2> QED
    BY <2>1, <2>7
<1> HIDE DEF G
<1>5. i \in G
  <2>1. \A k \in 0..n : k \in G
    BY <1>1, <1>3, <1>4, Induction
  <2> QED
    BY <2>1 DEF n
<1> QED
  BY <1>5 DEF G

\* What the loop of sparql_urlencode_ makes of its state when it writes.
LEMMA Written ==
  ASSUME NEW T, NEW e \in [bytes : T, left : Int, full : BOOLEAN],
         NEW b \in T, NEW k \in Int
  PROVE  [e EXCEPT !.bytes = b, !.left = k] = [bytes |-> b, left |-> k, full |-> e.full]
<1> DEFINE f == [e EXCEPT !.bytes = b, !.left = k]
<1>1. f \in [bytes : T, left : Int, full : BOOLEAN]
  OBVIOUS
<1>2. f.bytes = b /\ f.left = k /\ f.full = e.full
  OBVIOUS
<1> HIDE DEF f
<1> QED
  BY <1>1, <1>2

\* The loop of sparql_urlencode_ with enough room: nothing is left out.
LEMMA EncodesWhole ==
  ASSUME NEW S, NEW src \in Seq(S), NEW destlen \in Nat,
         sparql_urlencode_size_(src) <= destlen
  PROVE  /\ sparql_urlencode_(src, destlen) = WholeCode(src)
         /\ WholeCode(src) \in Seq(Bytes(S))
         /\ Len(WholeCode(src)) + 1 = sparql_urlencode_size_(src)
<1>1. PICK l : Sizes(src, l) /\ sparql_urlencode_size_(src) = l[Len(src)]
  BY SizeIs
<1>2. PICK w : Codes(S, src, w) /\ WholeCode(src) = w[Len(src)]
  BY CodeIs
<1> DEFINE n == Len(src)
           g == [i \in 0..n |-> [bytes |-> w[i], left |-> destlen + 1 - l[i], full |-> FALSE]]
           Def(e) == e = [i \in 0..n |-> IF i = 0 THEN Encoder(destlen)
                                         ELSE Encodes(e[i - 1], src[i])]
           s == CHOOSE e : Def(e)
<1>3. /\ n \in Nat
      /\ l \in [0..n -> Nat] /\ l[0] = 1
      /\ \A k \in 1..n : l[k] = l[k - 1] + Room(src[k])
      /\ w \in [0..n -> Seq(Bytes(S))] /\ w[0] = <<>>
      /\ \A k \in 1..n : w[k] = w[k - 1] \o Code(src[k])
  <2>1. n \in Nat
    OBVIOUS
  <2> QED
    BY <1>1, <1>2, <2>1, Zenon DEF Sizes, Codes
<1>4. \A i \in 0..n : l[i] <= l[n] /\ Len(w[i]) + 1 = l[i]
  BY <1>1, <1>2, SizesGrow, CodesLength
<1>5. l[n] <= destlen
  BY <1>1
<1>6. \A k \in 1..n : src[k] \in S
  OBVIOUS
<1>7. sparql_urlencode_(src, destlen) = s[n].bytes
  BY DEF sparql_urlencode_
<1> HIDE DEF n
<1>8. g[0] = Encoder(destlen)
  <2>0. 0 \in 0..n
    BY <1>3
  <2>1. g[0] = [bytes |-> w[0], left |-> destlen + 1 - l[0], full |-> FALSE]
    BY <2>0, Zenon
  <2>2. destlen + 1 - l[0] = destlen /\ w[0] = <<>>
    BY <1>3
  <2> QED
    BY <2>1, <2>2, Zenon DEF Encoder
<1>9. ASSUME NEW i \in 1..n PROVE g[i] = Encodes(g[i - 1], src[i])
  <2>1. i \in 0..n /\ i - 1 \in 0..n
    BY <1>3
  <2>2. /\ w[i] = w[i - 1] \o Code(src[i]) /\ w[i] \in Seq(Bytes(S)) /\ w[i - 1] \in Seq(Bytes(S))
        /\ l[i] = l[i - 1] + Room(src[i])
    BY <1>3, <2>1, Zenon
  <2>0. l[i - 1] \in Nat /\ l[i] \in Nat /\ l[i] <= destlen
    <3>1. l[i] <= l[n]
      BY <1>4, <2>1, Zenon
    <3>2. l[i - 1] \in Nat /\ l[i] \in Nat /\ l[n] \in Nat
      BY <1>3, <2>1, n \in 0..n, Zenon
    <3> QED
      BY <1>5, <3>1, <3>2
  <2>3. Len(Code(src[i])) = Room(src[i])
    BY <1>6, CodeLength
  <2> DEFINE e == [bytes |-> w[i - 1], left |-> destlen + 1 - l[i - 1], full |-> FALSE]
  <2>4. g[i - 1] = e
    BY <2>1
  <2>5. g[i] = [bytes |-> w[i], left |-> destlen + 1 - l[i], full |-> FALSE]
    BY <2>1
  <2>6. ~ (e.full \/ e.left = 0 \/ (src[i] \notin Plain /\ e.left < 4))
    BY <2>0, <2>2 DEF Room
  <2>7. Encodes(e, src[i])
        = [e EXCEPT !.bytes = e.bytes \o Code(src[i]), !.left = e.left - Len(Code(src[i]))]
    <3> HIDE DEF e
    <3> QED
      BY <2>6, Zenon DEF Encodes
  <2>8. /\ e \in [bytes : Seq(Bytes(S)), left : Int, full : BOOLEAN]
        /\ e.bytes = w[i - 1] /\ e.left = destlen + 1 - l[i - 1] /\ e.full = FALSE
    BY <2>0, <2>2
  <2>9. destlen + 1 - l[i - 1] - Len(Code(src[i])) = destlen + 1 - l[i]
        /\ destlen + 1 - l[i] \in Int
    BY <2>0, <2>2, <2>3 DEF Room
  <2>10. [e EXCEPT !.bytes = w[i], !.left = destlen + 1 - l[i]]
         = [bytes |-> w[i], left |-> destlen + 1 - l[i], full |-> e.full]
    <3> DEFINE T == Seq(Bytes(S))
               b == w[i]
               k == destlen + 1 - l[i]
    <3>1. e \in [bytes : T, left : Int, full : BOOLEAN] /\ b \in T /\ k \in Int
      BY <2>2, <2>8, <2>9
    <3> HIDE DEF T, b, k, e
    <3>2. [e EXCEPT !.bytes = b, !.left = k] = [bytes |-> b, left |-> k, full |-> e.full]
      BY <3>1, Written
    <3> QED
      BY <3>2 DEF b, k
  <2>11. e.bytes \o Code(src[i]) = w[i] /\ e.left - Len(Code(src[i])) = destlen + 1 - l[i]
    <3> HIDE DEF e
    <3>1. e.bytes \o Code(src[i]) = w[i]
      BY <2>2, <2>8, Zenon
    <3>2. e.left - Len(Code(src[i])) = destlen + 1 - l[i]
      <4>1. e.left = destlen + 1 - l[i - 1] /\ Room(src[i]) \in Nat
        BY <2>8 DEF Room
      <4> QED
        BY <2>0, <2>2, <2>3, <4>1
    <3> QED
      BY <3>1, <3>2
  <2> HIDE DEF e, g
  <2> QED
    BY <2>4, <2>5, <2>7, <2>8, <2>10, <2>11, Zenon
<1> HIDE DEF g
<1>10. Def(g)
  <2>1. ASSUME NEW i \in 0..n
        PROVE  g[i] = IF i = 0 THEN Encoder(destlen) ELSE Encodes(g[i - 1], src[i])
    <3>1. i # 0 => i \in 1..n
      BY <1>3
    <3> QED
      BY <1>8, <1>9, <3>1, Zenon
  <2>2. [i \in 0..n |-> g[i]]
        = [i \in 0..n |-> IF i = 0 THEN Encoder(destlen) ELSE Encodes(g[i - 1], src[i])]
    BY <2>1, Zenon
  <2>3. g = [i \in 0..n |-> g[i]]
    BY DEF g
  <2> QED
    BY <2>2, <2>3, Zenon
<1>11. Def(s)
  BY <1>10, Zenon
<1> HIDE DEF s
<1>12. s[0] = Encoder(destlen) /\ \A i \in 1..n : s[i] = Encodes(s[i - 1], src[i])
  <2>1. \A i \in 0..n :
          s[i] = IF i = 0 THEN Encoder(destlen) ELSE Encodes(s[i - 1], src[i])
    BY <1>11, Zenon
  <2>2. 0 \in 0..n /\ \A i \in 1..n : i \in 0..n /\ i # 0
    BY <1>3
  <2> QED
    BY <2>1, <2>2, Zenon
<1>13. s[n] = g[n]
  <2>1. s[0] = g[0]
    BY <1>8, <1>12, Zenon
  <2>2. \A i \in 1..n : s[i - 1] = g[i - 1] => s[i] = g[i]
    BY <1>9, <1>12, Zenon
  <2> QED
    BY <1>3, <2>1, <2>2, Agree
<1>14. g[n].bytes = w[n]
  BY <1>3 DEF g
<1>15. n \in 0..n
  BY <1>3
<1> QED
  BY <1>1, <1>2, <1>3, <1>4, <1>7, <1>13, <1>14, <1>15 DEF n

-----------------------------------------------------------------------------
(* The requests. *)

\* There is always a byte for the NUL.
LEMMA SizeIsNatural ==
  ASSUME NEW S, NEW src \in Seq(S)
  PROVE  sparql_urlencode_size_(src) \in Nat \ {0}
<1>1. PICK l : Sizes(src, l) /\ sparql_urlencode_size_(src) = l[Len(src)]
  BY SizeIs
<1>2. l \in [0..Len(src) -> Nat] /\ l[0] = 1 /\ l[0] <= l[Len(src)]
  <2>1. Len(src) \in Nat
    OBVIOUS
  <2>2. 0 \in 0..Len(src)
    BY <2>1
  <2> QED
    BY <1>1, <2>2, SizesGrow DEF Sizes
<1> QED
  BY <1>1, <1>2

\* What RequestFits says of a request.
Fits(r) ==
  /\ r.used <= r.alloc
  /\ \A i \in DOMAIN r.encoded : r.encoded[i] = WholeCode(r.of[i])

\* An encoded text ends with its NUL at the size that was reckoned for it.
LEMMA EncodedIs ==
  ASSUME NEW S, NEW src \in Seq(S), NEW size \in Nat, NEW offset \in Nat,
         NEW destlen \in Nat, sparql_urlencode_size_(src) <= destlen
  PROVE  Encoded(size, offset, src, destlen)
         = [alloc |-> size, used |-> offset + sparql_urlencode_size_(src),
            encoded |-> <<WholeCode(src)>>, of |-> <<src>>,
            size |-> offset + sparql_urlencode_size_(src) - 1]
<1>1. /\ sparql_urlencode_(src, destlen) = WholeCode(src)
      /\ WholeCode(src) \in Seq(Bytes(S))
      /\ Len(WholeCode(src)) + 1 = sparql_urlencode_size_(src)
  BY EncodesWhole
<1>2. Len(WholeCode(src)) \in Nat
  BY <1>1
<1>3. /\ offset + Len(WholeCode(src)) + 1 = offset + sparql_urlencode_size_(src)
      /\ offset + Len(WholeCode(src)) = offset + sparql_urlencode_size_(src) - 1
  BY <1>1, <1>2
<1> QED
  BY <1>1, <1>3, Zenon DEF Encoded

\* The 16 bytes of sparql_query_perform_ and of sparql_update are enough.
LEMMA QueryFits ==
  ASSUME NEW S, NEW src \in Seq(S)
  PROVE  Fits(QueryRequest(src)) /\ Fits(UpdateRequest(src))
<1> DEFINE n == sparql_urlencode_size_(src)
<1>1. n \in Nat \ {0} /\ UriLength \in Nat
  BY SizeIsNatural, RequestAssumption
<1>2. QueryRequest(src) = [alloc |-> UriLength + n + 16, used |-> UriLength + 7 + n,
                           encoded |-> <<WholeCode(src)>>, of |-> <<src>>,
                           size |-> UriLength + 7 + n - 1]
  <2>1. UriLength + n + 16 \in Nat /\ UriLength + 7 \in Nat /\ n <= n
    BY <1>1
  <2> QED
    BY <1>1, <2>1, EncodedIs DEF QueryRequest
<1>3. UpdateRequest(src) = [alloc |-> 16 + n, used |-> 7 + n,
                            encoded |-> <<WholeCode(src)>>, of |-> <<src>>,
                            size |-> 7 + n - 1]
  <2>1. 16 + n \in Nat /\ 7 \in Nat /\ n <= n
    BY <1>1
  <2> QED
    BY <1>1, <2>1, EncodedIs DEF UpdateRequest
<1> HIDE DEF n
<1> QED
  BY <1>1, <1>2, <1>3 DEF Fits

\* And those of sparql_put.
LEMMA PutFits ==
  ASSUME NEW S, NEW uri \in Seq(S), NEW triples
  PROVE  Fits(PutRequest(uri, triples))
<1> DEFINE n == sparql_urlencode_size_(uri)
           r == [alloc |-> UriLength + n + 16, used |-> UriLength + 7 + n,
                 encoded |-> <<WholeCode(uri)>>, of |-> <<uri>>,
                 size |-> UriLength + 7 + n - 1]
<1>1. n \in Nat \ {0} /\ UriLength \in Nat
  BY SizeIsNatural, RequestAssumption
<1>2. PutRequest(uri, triples) = [r EXCEPT !.size = Len(triples)]
  <2>1. UriLength + n + 16 \in Nat /\ UriLength + 7 \in Nat /\ n <= n
    BY <1>1
  <2>2. Encoded(UriLength + n + 16, UriLength + 7, uri, n) = r
    BY <1>1, <2>1, EncodedIs
  <2> QED
    BY <2>2 DEF PutRequest
<1> HIDE DEF n
<1> QED
  BY <1>1, <1>2 DEF Fits

\* A sequence of two.
LEMMA Pair ==
  ASSUME NEW x, NEW y
  PROVE  /\ DOMAIN (<<x>> \o <<y>>) = 1..2
         /\ (<<x>> \o <<y>>)[1] = x /\ (<<x>> \o <<y>>)[2] = y
<1>1. <<x>> \in Seq({x, y}) /\ <<y>> \in Seq({x, y})
  OBVIOUS
<1>2. Len(<<x>>) = 1 /\ Len(<<y>>) = 1
  OBVIOUS
<1> QED
  BY <1>1, <1>2

\* The request of sparql_post, of its second text.
LEMMA Refilled ==
  ASSUME NEW a, NEW u, NEW c, NEW t, NEW z, NEW cc, NEW tt, NEW zz
  PROVE  LET r == [[alloc |-> a, used |-> u, encoded |-> c, of |-> t, size |-> z]
                   EXCEPT !.encoded = cc, !.of = tt, !.size = zz]
         IN  r.alloc = a /\ r.used = u /\ r.encoded = cc /\ r.of = tt
  OBVIOUS

\* The second text has all that the first one left of the buffer, and needs 22
\* bytes less.
LEMMA PostFits ==
  ASSUME NEW S, NEW uri \in Seq(S), NEW triples \in Seq(S)
  PROVE  Fits(PostRequest(uri, triples))
<1> DEFINE n == sparql_urlencode_size_(uri)
           m == sparql_urlencode_size_(triples)
           buflen == n + m + 64
           first  == Encoded(buflen, 37, uri, buflen - 37)
           offset == first.used - 1 + 6
           second == Encoded(buflen, offset, triples, buflen - offset)
<1>1. n \in Nat \ {0} /\ m \in Nat \ {0}
  BY SizeIsNatural
<1>2. first = [alloc |-> buflen, used |-> 37 + n, encoded |-> <<WholeCode(uri)>>,
               of |-> <<uri>>, size |-> 37 + n - 1]
  <2>1. buflen \in Nat /\ 37 \in Nat /\ buflen - 37 \in Nat /\ n <= buflen - 37
    BY <1>1
  <2> HIDE DEF buflen
  <2> QED
    BY <1>1, <2>1, EncodedIs
<1>3. PostRequest(uri, triples)
      = [second EXCEPT !.encoded = first.encoded \o second.encoded,
                       !.of = first.of \o second.of, !.size = buflen]
  BY DEF PostRequest
<1> HIDE DEF first
<1>4. offset = n + 42
  BY <1>1, <1>2
<1>5. second = [alloc |-> buflen, used |-> n + 42 + m, encoded |-> <<WholeCode(triples)>>,
                of |-> <<triples>>, size |-> n + 42 + m - 1]
  <2>1. buflen \in Nat /\ n + 42 \in Nat /\ buflen - (n + 42) \in Nat /\ m <= buflen - (n + 42)
    BY <1>1
  <2>2. second = Encoded(buflen, n + 42, triples, buflen - (n + 42))
    BY <1>4
  <2> HIDE DEF buflen, second, offset, n
  <2> QED
    BY <1>1, <2>1, <2>2, EncodedIs
<1> HIDE DEF second
<1> DEFINE codes == first.encoded \o second.encoded
           texts == first.of \o second.of
<1>6. /\ DOMAIN codes = 1..2 /\ codes[1] = WholeCode(uri) /\ codes[2] = WholeCode(triples)
      /\ texts[1] = uri /\ texts[2] = triples
  <2>1. /\ first.encoded = <<WholeCode(uri)>> /\ first.of = <<uri>>
        /\ second.encoded = <<WholeCode(triples)>> /\ second.of = <<triples>>
    BY <1>2, <1>5
  <2>2. /\ codes = <<WholeCode(uri)>> \o <<WholeCode(triples)>>
        /\ texts = <<uri>> \o <<triples>>
    BY <2>1
  <2> HIDE DEF codes, texts
  <2> QED
    BY <2>2, Pair, Zenon
<1> HIDE DEF codes, texts
<1>7. /\ PostRequest(uri, triples).alloc = buflen
      /\ PostRequest(uri, triples).used = n + 42 + m
      /\ PostRequest(uri, triples).encoded = codes
      /\ PostRequest(uri, triples).of = texts
  <2>1. PostRequest(uri, triples)
        = [second EXCEPT !.encoded = codes, !.of = texts, !.size = buflen]
    BY <1>3 DEF codes, texts
  <2> HIDE DEF buflen, n, m
  <2> QED
    BY <1>5, <2>1, Refilled, Zenon
<1>8. n + 42 + m <= buflen
  BY <1>1
<1> HIDE DEF n, m, buflen
<1>9. PostRequest(uri, triples).used <= PostRequest(uri, triples).alloc
  BY <1>7, <1>8, Zenon
<1>10. \A i \in DOMAIN codes : codes[i] = WholeCode(texts[i])
  BY <1>6
<1> QED
  BY <1>7, <1>9, <1>10, Zenon DEF Fits

-----------------------------------------------------------------------------
(* The text of a format. *)

\* What a piece is printed as is a text.
LEMMA BlanksText ==
  ASSUME NEW n \in Nat
  PROVE  Blanks(n) \in Seq(Chars)
  BY FormatAssumption DEF Blanks

LEMMA PrintedText ==
  ASSUME NEW p \in Pieces
  PROVE  Printed(p) \in Seq(Chars)
<1>1. CASE p.kind \in {"usual", "node"}
  <2>1. p.text \in Seq(Chars)
    BY <1>1 DEF Pieces
  <2> QED
    BY <1>1, <2>1 DEF Printed
<1>2. CASE p.kind = "percent"
  <2>1. <<Blank>> \in Seq(Chars)
    BY FormatAssumption
  <2> QED
    BY <1>2, <2>1 DEF Printed
<1>3. CASE p.kind = "number"
  <2>1. p.width \in Nat \cup {-1} /\ p.prec \in Nat \cup {-1} /\ p.own \in Nat
    BY <1>3 DEF Pieces, FieldWidths, None
  <2>2. Larger(p.width, p.own + Larger(p.prec, 0)) \in Nat
    BY <2>1 DEF Larger
  <2>3. Blanks(Larger(p.width, p.own + Larger(p.prec, 0))) \in Seq(Chars)
    BY <2>2, BlanksText
  <2> QED
    BY <1>3, <2>3 DEF Printed
<1>4. CASE p.kind = "string" /\ p.text = Null
  <2>1. Blanks(6) \in Seq(Chars)
    BY BlanksText
  <2>2. Printed(p) = Blanks(6)
    BY <1>4 DEF Printed
  <2> QED
    BY <2>1, <2>2
<1>5. CASE p.kind = "string" /\ p.text # Null
  <2>1. p.width \in Nat \cup {-1} /\ p.prec \in Nat \cup {-1} /\ p.text \in Seq(Chars)
    BY <1>5 DEF Pieces, FieldWidths, None
  <2>2. Taken(p) \in Seq(Chars)
    BY <2>1 DEF Taken, None, Smaller
  <2> DEFINE n == Larger(0, p.width - Len(Taken(p)))
  <2>3. n \in Nat
    BY <2>1, <2>2 DEF Larger
  <2>4. Blanks(n) \in Seq(Chars)
    BY <2>3, BlanksText
  <2>5. Printed(p) = Blanks(n) \o Taken(p)
    BY <1>5 DEF Printed
  <2> HIDE DEF n
  <2> QED
    BY <2>2, <2>4, <2>5
<1>6. CASE p.kind \in {"incoherent", "store"}
  BY <1>6 DEF Printed
<1>7. CASE p.kind = "nul"
  <2>1. p.width \in Nat \cup {-1}
    BY <1>7 DEF Pieces, FieldWidths, None
  <2> DEFINE n == IF p.left THEN 0 ELSE NulWidth(p) - 1
  <2>2. n \in Nat
    BY <2>1 DEF NulWidth, Larger
  <2>3. Blanks(n) \in Seq(Chars)
    BY <2>2, BlanksText
  <2> QED
    BY <1>7, <2>3 DEF Printed
<1>8. p.kind \in {"usual", "percent", "incoherent", "number", "nul", "string", "node", "store"}
  BY DEF Pieces
<1> QED
  BY <1>1, <1>2, <1>3, <1>4, <1>5, <1>6, <1>7, <1>8

\* What the first pieces of a format are printed as, for each number of them.
Texts(src, w) ==
  /\ w \in [0..Len(src) -> Seq(Chars)] /\ w[0] = <<>>
  /\ \A i \in 1..Len(src) : w[i] = w[i - 1] \o Printed(src[i])

\* The whole text of a format, piece by piece.
LEMMA TextIs ==
  ASSUME NEW src \in Seq(Pieces)
  PROVE  \E w : Texts(src, w) /\ WholeText(src) = w[Len(src)]
<1> DEFINE n == Len(src)
           N == Seq(Chars)
           b == <<>>
           h == [i \in 1..n |-> [m \in N |-> m \o Printed(src[i])]]
           Def(w) == w = [i \in 0..n |-> IF i = 0 THEN <<>> ELSE w[i - 1] \o Printed(src[i])]
           s == CHOOSE w : Def(w)
<1>1. n \in Nat /\ b \in N /\ h \in [1..n -> [N -> N]]
  <2>1. \A i \in 1..n : Printed(src[i]) \in N
    BY PrintedText
  <2> QED
    BY <2>1
<1>2. \A i \in 1..n, m \in N : h[i][m] = m \o Printed(src[i])
  OBVIOUS
<1> HIDE DEF h, n, N, b
<1>3. PICK w \in [0..n -> N] : w[0] = b /\ \A i \in 1..n : w[i] = h[i][w[i - 1]]
  <2>1. Recursive(N, n, b, h)
    BY <1>1, Recursion
  <2> QED
    BY <2>1 DEF Recursive
<1>4. w[0] = <<>> /\ \A i \in 1..n : w[i] = w[i - 1] \o Printed(src[i])
  <2>1. w[0] = <<>>
    BY <1>3 DEF b
  <2>2. ASSUME NEW i \in 1..n PROVE w[i] = w[i - 1] \o Printed(src[i])
    <3>1. w[i - 1] \in N
      BY <1>1
    <3> QED
      BY <1>2, <1>3, <3>1, Zenon
  <2> QED
    BY <2>1, <2>2
<1>5. Def(w)
  <2>0. ASSUME NEW i \in 0..n
        PROVE  w[i] = IF i = 0 THEN <<>> ELSE w[i - 1] \o Printed(src[i])
    <3>1. i # 0 => i \in 1..n
      BY <1>1
    <3> QED
      BY <1>4, <3>1, Zenon
  <2>1. [i \in 0..n |-> w[i]]
        = [i \in 0..n |-> IF i = 0 THEN <<>> ELSE w[i - 1] \o Printed(src[i])]
    BY <2>0, Zenon
  <2>2. w = [i \in 0..n |-> w[i]]
    OBVIOUS
  <2> QED
    BY <2>1, <2>2, Zenon
<1>6. Def(s)
  BY <1>5, Zenon
<1>7. WholeText(src) = s[n]
  BY DEF WholeText, n
<1> HIDE DEF s
<1>8. s[0] = <<>> /\ \A i \in 1..n : s[i] = s[i - 1] \o Printed(src[i])
  <2>1. \A i \in 0..n : s[i] = IF i = 0 THEN <<>> ELSE s[i - 1] \o Printed(src[i])
    BY <1>6, Zenon
  <2>2. 0 \in 0..n /\ \A i \in 1..n : i \in 0..n /\ i # 0
    BY <1>1
  <2> QED
    BY <2>1, <2>2, Zenon
<1>9. s[n] = w[n]
  <2>1. s[0] = w[0]
    BY <1>4, <1>8
  <2>2. \A i \in 1..n : s[i - 1] = w[i - 1] => s[i] = w[i]
    BY <1>4, <1>8
  <2> QED
    BY <1>1, <2>1, <2>2, Agree
<1> QED
  BY <1>3, <1>4, <1>7, <1>9 DEF n, N, Texts

\* So far the text is what the pieces before src_string are printed as.
TextInv ==
  /\ format \in Seq(Pieces) /\ src_string \in Seq(Pieces)
  /\ Len(src_string) <= Len(format)
  /\ \A i \in 1..Len(src_string) :
       src_string[i] = format[Len(format) - Len(src_string) + i]
  /\ text \in Seq(Chars) /\ real = Len(text) /\ pseudo \in Nat
  /\ NulFree(format) => pseudo = Len(text)
  /\ pc \in {"printing", "printed"} => live \/ lost
  /\ pc = "printed" => src_string = <<>>
  /\ pc \in {"printing", "printed"} /\ ~lost =>
       \A w : Texts(format, w) => text = w[Len(format) - Len(src_string)]

\* The text of a piece is added, and its length.
LEMMA Lengthens ==
  ASSUME TextInv, src_string # <<>>, format' = format,
         text' = text \o Printed(Head(src_string)),
         real' = real + Len(Printed(Head(src_string))),
         pseudo' = pseudo + Counted(Head(src_string))
  PROVE  /\ text' \in Seq(Chars) /\ real' = Len(text') /\ pseudo' \in Nat
         /\ NulFree(format') => pseudo' = Len(text')
<1> DEFINE p == Head(src_string)
           m == Len(src_string)
           n == Len(format)
<1>1. /\ p \in Pieces /\ p = src_string[1] /\ m \in Nat \ {0} /\ n \in Nat /\ m <= n
      /\ format \in Seq(Pieces)
  BY DEF TextInv
<1>2. Printed(p) \in Seq(Chars)
  BY <1>1, PrintedText
<1>3. p = format[n - m + 1] /\ n - m + 1 \in DOMAIN format
  <2>1. 1 \in 1..m
    BY <1>1
  <2>2. src_string[1] = format[n - m + 1]
    BY <2>1 DEF TextInv
  <2> QED
    BY <1>1, <2>2
<1>4. /\ text \in Seq(Chars) /\ real = Len(text) /\ pseudo \in Nat
      /\ NulFree(format) => pseudo = Len(text)
  BY DEF TextInv
<1>5. NulFree(format) => Counted(p) = Len(Printed(p))
  BY <1>3 DEF NulFree, Counted
<1>6. text \o Printed(p) \in Seq(Chars) /\ Len(text \o Printed(p)) = Len(text) + Len(Printed(p))
  BY <1>2, <1>4, Joined
<1>7. /\ text' = text \o Printed(p) /\ real' = real + Len(Printed(p))
      /\ pseudo' = pseudo + Counted(p)
  OBVIOUS
<1>10. p \in Pieces
  BY <1>1
<1> HIDE DEF p
<1>8. NulFree(format') => pseudo' = Len(text')
  BY <1>4, <1>5, <1>6, <1>7, Zenon
<1>9. pseudo' \in Nat
  <2>1. CASE p.kind = "nul"
    <3>1. p.width \in Nat \cup {-1}
      BY <1>10, <2>1 DEF Pieces, FieldWidths, None
    <3> QED
      BY <1>4, <1>7, <2>1, <3>1 DEF Counted, NulWidth, Larger
  <2>2. CASE p.kind # "nul"
    BY <1>2, <1>4, <1>7, <2>2 DEF Counted
  <2> QED
    BY <2>1, <2>2
<1> QED
  BY <1>4, <1>6, <1>7, <1>8, <1>9, Zenon

\* A piece goes from the format to the text.
LEMMA Advances ==
  ASSUME TextInv, pc = "printing", src_string # <<>>, Moves,
         text' = text \o Printed(Head(src_string)),
         real' = real + Len(Printed(Head(src_string))),
         pseudo' = pseudo + Counted(Head(src_string)),
         lost' = lost, live \/ lost => live' \/ lost'
  PROVE  TextInv'
<1> DEFINE p == Head(src_string)
           m == Len(src_string)
           n == Len(format)
<1>1. /\ src_string' = Tail(src_string) /\ format' = format /\ pc' = pc
  BY DEF Moves
<1>2. /\ p \in Pieces /\ p = src_string[1] /\ m \in Nat \ {0} /\ n \in Nat /\ m <= n
      /\ Tail(src_string) \in Seq(Pieces) /\ Len(Tail(src_string)) = m - 1
      /\ \A i \in 1..m - 1 : Tail(src_string)[i] = src_string[i + 1]
  BY DEF TextInv
<1>3. Printed(p) \in Seq(Chars)
  BY <1>2, PrintedText
<1>4. /\ format' \in Seq(Pieces) /\ src_string' \in Seq(Pieces)
      /\ Len(src_string') = m - 1 /\ Len(format') = n
  BY <1>1, <1>2 DEF TextInv
<1>5. /\ text' \in Seq(Chars) /\ real' = Len(text') /\ pseudo' \in Nat
      /\ NulFree(format') => pseudo' = Len(text')
  BY <1>1, Lengthens
<1>6. ASSUME NEW i \in 1..m - 1
      PROVE  src_string'[i] = format'[n - (m - 1) + i]
  <2>1. src_string'[i] = src_string[i + 1] /\ i + 1 \in 1..m
    BY <1>1, <1>2
  <2>2. src_string[i + 1] = format[n - m + (i + 1)]
    BY <2>1 DEF TextInv
  <2>3. n - m + (i + 1) = n - (m - 1) + i
    BY <1>2
  <2> HIDE DEF n, m
  <2> QED
    BY <1>1, <2>1, <2>2, <2>3
<1>7. ASSUME ~lost, NEW w, Texts(format, w) PROVE text' = w[n - (m - 1)]
  <2>1. text = w[n - m]
    BY <1>7 DEF TextInv
  <2>2. p = format[n - m + 1]
    <3>1. 1 \in 1..m
      BY <1>2
    <3>2. src_string[1] = format[n - m + 1]
      BY <3>1 DEF TextInv
    <3> QED
      BY <1>2, <3>2
  <2> DEFINE k == n - m + 1
  <2>3. k \in 1..n /\ k - 1 = n - m /\ n - (m - 1) = k
    BY <1>2
  <2>4. p = format[k]
    BY <2>2
  <2> HIDE DEF k, p, m
  <2>5. w[k] = w[k - 1] \o Printed(format[k])
    BY <1>7, <2>3 DEF Texts
  <2> HIDE DEF n
  <2>6. w[k] = text \o Printed(p)
    BY <2>1, <2>3, <2>4, <2>5, Zenon
  <2> QED
    BY <2>3, <2>6, Zenon DEF p
<1>8. /\ pc' \in {"printing", "printed"} => live' \/ lost'
      /\ pc' # "printed"
  BY <1>1 DEF TextInv
<1>9. m - 1 <= n
  BY <1>2
<1>10. /\ Len(src_string') <= Len(format')
       /\ \A i \in 1..Len(src_string') :
            src_string'[i] = format'[Len(format') - Len(src_string') + i]
  <2> HIDE DEF n, m
  <2> QED
    BY <1>4, <1>6, <1>9, Zenon
<1>11. ~lost' => \A w : Texts(format', w) => text' = w[Len(format') - Len(src_string')]
  <2> HIDE DEF n, m
  <2> QED
    BY <1>1, <1>4, <1>7, Zenon
<1> HIDE DEF p, n, m
<1> QED
  BY <1>4, <1>5, <1>8, <1>10, <1>11, Zenon DEF TextInv

\* What was written goes beyond the buffer.
LEMMA AstrayText ==
  ASSUME TextInv, src_string # <<>>, UNCHANGED <<format, src_string>>, pc' = "astray",
         NEW n, NEW end, Writes(Head(src_string), n, end)
  PROVE  TextInv'
<1>1. /\ text' \in Seq(Chars) /\ real' = Len(text') /\ pseudo' \in Nat
      /\ NulFree(format') => pseudo' = Len(text')
  BY Lengthens DEF Writes
<1> QED
  BY <1>1 DEF TextInv

\* What is written, or nothing.
LEMMA WritesText ==
  ASSUME TextInv, pc = "printing", src_string # <<>>,
         NEW n, NEW end, Writes(Head(src_string), n, end), Moves
  PROVE  TextInv'
  BY Advances DEF Writes

\* An incoherent conversion and %n print nothing.
LEMMA NothingText ==
  ASSUME TextInv, pc = "printing", src_string # <<>>,
         Head(src_string).kind \in {"incoherent", "store"}, Moves, UNCHANGED buffer
  PROVE  TextInv'
<1>1. Printed(Head(src_string)) = <<>>
  BY DEF Printed
<1>2. text \in Seq(Chars) /\ real = Len(text) /\ pseudo \in Nat
  BY DEF TextInv
<1>3. /\ text' = text /\ real' = real /\ pseudo' = pseudo /\ lost' = lost /\ live' = live
  BY DEF buffer
<1>4. text \o <<>> = text /\ Len(<<>>) = 0 /\ Len(text) + 0 = Len(text) /\ pseudo + 0 = pseudo
  BY <1>2
<1>5. Counted(Head(src_string)) = 0
  BY <1>1 DEF Counted
<1>6. /\ text' = text \o Printed(Head(src_string))
      /\ real' = real + Len(Printed(Head(src_string)))
      /\ pseudo' = pseudo + Counted(Head(src_string))
  BY <1>1, <1>2, <1>3, <1>4, <1>5, Zenon
<1> QED
  BY <1>3, <1>6, Advances

\* Nothing is printed yet.
LEMMA InitText == RequestInit => TextInv
<1> SUFFICES ASSUME RequestInit PROVE TextInv
  OBVIOUS
<1>1. format = <<>> /\ src_string = <<>> /\ text = <<>> /\ real = 0 /\ pseudo = 0 /\ pc = "idle"
  BY DEF RequestInit, NoFormat
<1> QED
  BY <1>1 DEF TextInv

\* Nor when a format begins.
LEMMA BeginsText ==
  ASSUME NEW pieces \in Seq(Pieces), Begins(pieces)
  PROVE  TextInv'
<1>1. /\ format' = pieces /\ src_string' = pieces /\ text' = <<>> /\ real' = 0 /\ pseudo' = 0
      /\ pc' = "printing" /\ live' = TRUE
  BY DEF Begins
<1>2. /\ Len(pieces) \in Nat /\ Len(pieces) <= Len(pieces)
      /\ Len(pieces) - Len(pieces) = 0
      /\ \A i \in 1..Len(pieces) : Len(pieces) - Len(pieces) + i = i
  OBVIOUS
<1>3. /\ Len(src_string') <= Len(format')
      /\ \A i \in 1..Len(src_string') :
            src_string'[i] = format'[Len(format') - Len(src_string') + i]
  BY <1>1, <1>2, Zenon
<1>4. \A w : Texts(format', w) => text' = w[Len(format') - Len(src_string')]
  <2> SUFFICES ASSUME NEW w, Texts(pieces, w) PROVE <<>> = w[0]
    BY <1>1, <1>2, Zenon
  <2> QED
    BY DEF Texts
<1>5. text' \in Seq(Chars) /\ real' = Len(text') /\ pseudo' = Len(text') /\ pseudo' \in Nat
  BY <1>1
<1>6. pc' # "printed"
  BY <1>1
<1> QED
  BY <1>1, <1>3, <1>4, <1>5, <1>6, Zenon DEF TextInv

\* The text does not change, and the buffer is lost only with the formatting.
LEMMA StillText ==
  ASSUME TextInv, UNCHANGED <<format, src_string, text, real, pseudo, lost>>,
         \/ pc' \notin {"printing", "printed"}
         \/ UNCHANGED <<pc, live>>
         \/ pc = "printing" /\ pc' = "printed" /\ src_string = <<>> /\ UNCHANGED live
  PROVE  TextInv'
<1>1. /\ format' = format /\ src_string' = src_string /\ text' = text /\ real' = real
      /\ pseudo' = pseudo /\ lost' = lost
  OBVIOUS
<1>2. /\ pc' \in {"printing", "printed"} => live' \/ lost'
      /\ pc' = "printed" => src_string' = <<>>
      /\ pc' \in {"printing", "printed"} /\ ~lost' =>
           \A w : Texts(format', w) => text' = w[Len(format') - Len(src_string')]
  <2>1. CASE pc' \notin {"printing", "printed"}
    BY <2>1
  <2>2. CASE UNCHANGED <<pc, live>>
    BY <1>1, <2>2 DEF TextInv
  <2>3. CASE pc = "printing" /\ pc' = "printed" /\ src_string = <<>> /\ UNCHANGED live
    BY <1>1, <2>3 DEF TextInv
  <2> QED
    BY <2>1, <2>2, <2>3
<1> QED
  BY <1>1, <1>2 DEF TextInv

\* No step prints anything but the next piece.
LEMMA TextStep == TextInv /\ [RequestNext]_requestVars => TextInv'
<1> SUFFICES ASSUME TextInv, [RequestNext]_requestVars PROVE TextInv'
  OBVIOUS
<1>1. CASE Copies
  BY <1>1, WritesText DEF Copies, Is, Next1, Piece
<1>2. CASE Prints
  <2>1. CASE Moves
    BY <1>2, <2>1, WritesText DEF Prints, Is, Next1, Piece
  <2>2. CASE ~Moves
    BY <1>2, <2>2, AstrayText DEF Prints, Is, Next1, Piece
  <2> QED
    BY <2>1, <2>2
<1>3. CASE PassesOver \/ Stores
  <2>1. /\ pc = "printing" /\ src_string # <<>> /\ Moves /\ UNCHANGED buffer
        /\ Head(src_string).kind \in {"incoherent", "store"}
    BY <1>3 DEF PassesOver, Stores, Is, Next1, Piece
  <2> QED
    BY <2>1, NothingText
<1>4. CASE Fails
  BY <1>4, StillText DEF Fails
<1>5. CASE LosesNode
  <2>1. /\ src_string # <<>> /\ src_string' = Tail(src_string) /\ format' = format
        /\ pc = "printing" /\ pc' = pc
        /\ lost' = TRUE /\ text' = text /\ real' = real /\ pseudo' = pseudo
    BY <1>5 DEF LosesNode, Is, Next1, Moves
  <2> DEFINE m == Len(src_string)
             n == Len(format)
  <2>2. /\ m \in Nat \ {0} /\ n \in Nat /\ m <= n
        /\ Tail(src_string) \in Seq(Pieces) /\ Len(Tail(src_string)) = m - 1
        /\ \A i \in 1..m - 1 : Tail(src_string)[i] = src_string[i + 1]
    BY <2>1 DEF TextInv
  <2>3. \A i \in 1..m - 1 : Tail(src_string)[i] = format[n - (m - 1) + i]
    <3> TAKE i \in 1..m - 1
    <3>1. i + 1 \in 1..m /\ n - m + (i + 1) = n - (m - 1) + i
      BY <2>2
    <3>2. src_string[i + 1] = format[n - m + (i + 1)]
      BY <3>1 DEF TextInv
    <3> HIDE DEF m, n
    <3> QED
      BY <2>2, <3>1, <3>2
  <2>4. m - 1 <= n
    BY <2>2
  <2>5. /\ Len(src_string') = m - 1 /\ Len(format') = n
    BY <2>1, <2>2
  <2> HIDE DEF m, n
  <2>6. /\ Len(src_string') <= Len(format')
        /\ \A i \in 1..Len(src_string') :
              src_string'[i] = format'[Len(format') - Len(src_string') + i]
    BY <2>1, <2>3, <2>4, <2>5, Zenon
  <2> QED
    BY <2>1, <2>2, <2>6 DEF TextInv
<1>6. CASE GoesAstray
  BY <1>6, StillText DEF GoesAstray, printing, buffer
<1>7. CASE Finishes
  BY <1>7, StillText DEF Finishes
<1>8. CASE FinishFails
  BY <1>8, StillText DEF FinishFails
<1>9. CASE Formatted
  BY <1>9, RequestAssumption, BeginsText DEF Formatted
<1>10. CASE NoWorld \/ FormatFails \/ Passed \/ Given \/ Wraps \/ Sends \/ SendFails
  BY <1>10, StillText
  DEF NoWorld, FormatFails, Passed, Given, Wraps, Sends, SendFails, printing, buffer
<1>11. CASE UNCHANGED requestVars
  BY <1>11, StillText DEF requestVars, printing, buffer
<1> QED
  BY <1>1, <1>2, <1>3, <1>4, <1>5, <1>6, <1>7, <1>8, <1>9, <1>10, <1>11
  DEF RequestNext, sparql_vasprintf_

\* For every format: a text that was printed without the loss of a node is that of
\* all its pieces in their order.
THEOREM TextCorrect == RequestSpec => []PrintsAll
<1>1. TextInv => PrintsAll
  <2> SUFFICES ASSUME TextInv, pc = "printed", ~lost
               PROVE  /\ live /\ text = WholeText(format)
                      /\ NulFree(format) => pseudo = Len(text)
    BY DEF PrintsAll
  <2>1. PICK w : Texts(format, w) /\ WholeText(format) = w[Len(format)]
    BY TextIs DEF TextInv
  <2>2. text = w[Len(format) - Len(src_string)] /\ Len(src_string) = 0 /\ Len(format) \in Nat
    BY <2>1 DEF TextInv
  <2>3. Len(format) - Len(src_string) = Len(format)
    BY <2>2
  <2>4. text = WholeText(format)
    BY <2>1, <2>2, <2>3, Zenon
  <2> QED
    BY <2>4 DEF TextInv
<1> QED
  BY <1>1, InitText, TextStep, PTL DEF RequestSpec

-----------------------------------------------------------------------------
(* What is sent. *)

\* A text of so many characters.
Long(s, n) == s \in Seq(Chars) /\ Len(s) = n

\* The words and marks around an insertion.
LEMMA WordText ==
  ASSUME NEW n \in Nat
  PROVE  Long(Word(n), n) /\ Long(Mark(n), n)
<1>1. (CHOOSE c \in Plain : TRUE) \in Chars
  BY RequestAssumption
<1>2. (CHOOSE c \in Chars \ Plain : TRUE) \in Chars
  BY RequestAssumption
<1>3. ASSUME NEW c \in Chars PROVE Long([i \in 1..n |-> c], n)
  BY DEF Long
<1> QED
  BY <1>1, <1>2, <1>3, Zenon DEF Word, Mark

\* One text behind the other.
LEMMA TextsJoined ==
  ASSUME NEW s, NEW t, NEW m, NEW n, Long(s, m), Long(t, n)
  PROVE  Long(s \o t, m + n)
<1>1. s \in Seq(Chars) /\ t \in Seq(Chars) /\ Len(s) = m /\ Len(t) = n
  BY DEF Long
<1> QED
  BY <1>1 DEF Long

\* sparql_insert asks for at least the bytes that it writes.
LEMMA WrappedFits ==
  ASSUME given \in Seq(Chars), graph = Null \/ graph \in Seq(Chars)
  PROVE  /\ Wrapped \in Seq(Chars)
         /\ Len(Wrapped) + 1 <= WrappedSize
<1> DEFINE before == Word(6) \o Mark(1) \o Word(4) \o Mark(3)
           named  == IF graph = Null THEN <<>>
                     ELSE Word(5) \o Mark(2) \o graph \o Mark(4)
           closed == IF graph = Null THEN <<>> ELSE Mark(1)
           g      == Len(graph)
           l      == Len(given)
<1>1. /\ Long(Word(4), 4) /\ Long(Word(5), 5) /\ Long(Word(6), 6)
      /\ Long(Mark(1), 1) /\ Long(Mark(2), 2) /\ Long(Mark(3), 3) /\ Long(Mark(4), 4)
  BY WordText
<1>2. Long(before, 6 + 1 + 4 + 3)
  BY <1>1, TextsJoined, Zenon
<1>3. Long(given, l) /\ l \in Nat
  BY DEF Long
<1>4. Wrapped = before \o named \o given \o closed \o Mark(1)
  BY DEF Wrapped
<1>5. CASE graph = Null
  <2>1. named = <<>> /\ closed = <<>>
    BY <1>5
  <2>2. Long(<<>>, 0)
    BY DEF Long
  <2> HIDE DEF before, named, closed, l
  <2>3. Long(Wrapped, 6 + 1 + 4 + 3 + 0 + l + 0 + 1)
    BY <1>1, <1>2, <1>3, <1>4, <2>1, <2>2, TextsJoined, Zenon
  <2>4. 6 + 1 + 4 + 3 + 0 + l + 0 + 1 + 1 <= l + 20 /\ l + 20 = WrappedSize
    BY <1>3, <1>5 DEF WrappedSize, l
  <2> QED
    BY <2>3, <2>4 DEF Long
<1>6. CASE graph # Null
  <2>1. /\ named = Word(5) \o Mark(2) \o graph \o Mark(4) /\ closed = Mark(1)
    BY <1>6
  <2>2. Long(graph, g) /\ g \in Nat
    BY <1>6 DEF Long
  <2> HIDE DEF before, named, closed, g, l
  <2>3. Long(named, 5 + 2 + g + 4)
    BY <1>1, <2>1, <2>2, TextsJoined, Zenon
  <2>4. Long(Wrapped, 6 + 1 + 4 + 3 + (5 + 2 + g + 4) + l + 1 + 1)
    BY <1>1, <1>2, <1>3, <1>4, <2>1, <2>3, TextsJoined, Zenon
  <2>5. /\ 6 + 1 + 4 + 3 + (5 + 2 + g + 4) + l + 1 + 1 + 1 <= l + 20 + (g + 15)
        /\ l + 20 + (g + 15) = WrappedSize
    BY <1>3, <1>6, <2>2 DEF WrappedSize, l, g
  <2> QED
    BY <2>4, <2>5 DEF Long
<1> QED
  BY <1>5, <1>6

\* What is to be encoded is a text, and what was encoded fits.
RequestInv ==
  /\ text \in Seq(Chars) /\ given \in Seq(Chars)
  /\ graph = Null \/ graph \in Seq(Chars)
  /\ RequestFits

\* There is no request yet.
LEMMA InitRequest == RequestInit => RequestInv
<1> SUFFICES ASSUME RequestInit PROVE RequestInv
  OBVIOUS
<1>1. /\ text = <<>> /\ given = <<>> /\ graph = Null /\ request.used = 0 /\ request.alloc = 0
      /\ request.encoded = <<>>
  BY DEF RequestInit, NoFormat, NoRequest
<1>2. DOMAIN request.encoded = {}
  BY <1>1
<1> QED
  BY <1>1, <1>2 DEF RequestInv, RequestFits

\* Whatever is sent, fits.
LEMMA RequestStep == TextInv /\ RequestInv /\ [RequestNext]_requestVars /\ TextInv' => RequestInv'
<1> SUFFICES ASSUME TextInv, RequestInv, [RequestNext]_requestVars, TextInv' PROVE RequestInv'
  OBVIOUS
<1>1. text' \in Seq(Chars)
  BY DEF TextInv
<1>2. SUFFICES /\ given' \in Seq(Chars)
               /\ graph' = Null \/ graph' \in Seq(Chars)
               /\ Fits(request')
  BY <1>1 DEF RequestInv, RequestFits, Fits
<1>3. /\ text \in Seq(Chars) /\ given \in Seq(Chars)
      /\ graph = Null \/ graph \in Seq(Chars)
      /\ Fits(request)
  BY DEF RequestInv, RequestFits, Fits
<1>4. CASE UNCHANGED <<given, graph, request>>
  BY <1>3, <1>4
<1>5. CASE Passed
  BY <1>3, <1>5 DEF Passed
<1>6. CASE Given
  <2>1. request' = request /\ given' \in Statements /\ graph' \in GraphUris \cup {Null}
    BY <1>6 DEF Given
  <2> QED
    BY <1>3, <2>1, RequestAssumption
<1>7. CASE Wraps
  <2>1. graph' = graph
    BY <1>7 DEF Wraps
  <2>2. CASE UNCHANGED <<given, request>>
    BY <1>3, <2>1, <2>2
  <2>3. CASE /\ given' = Wrapped
             /\ request' = [NoRequest EXCEPT !.alloc = WrappedSize, !.used = Len(Wrapped) + 1]
    <3>1. Wrapped \in Seq(Chars) /\ Len(Wrapped) + 1 <= WrappedSize
      BY <1>3, WrappedFits
    <3>2. request'.alloc = WrappedSize /\ request'.used = Len(Wrapped) + 1
          /\ request'.encoded = <<>>
      BY <2>3 DEF NoRequest
    <3>3. DOMAIN request'.encoded = {}
      BY <3>2
    <3>4. Fits(request')
      BY <3>1, <3>2, <3>3, Zenon DEF Fits
    <3> QED
      BY <1>3, <2>1, <2>3, <3>1, <3>4
  <2> QED
    BY <1>7, <2>2, <2>3 DEF Wraps
<1>8. CASE Sends
  <2>1. given' = given /\ graph' = graph
    BY <1>8 DEF Sends
  <2>2. Uri \in Seq(Chars)
    BY <1>3 DEF Uri
  <2>3. Fits(request')
    <3>1. \/ request' = QueryRequest(given) \/ request' = UpdateRequest(given)
          \/ request' = PutRequest(Uri, given) \/ request' = PostRequest(Uri, given)
      BY <1>8 DEF Sends
    <3> QED
      BY <1>3, <2>2, <3>1, QueryFits, PutFits, PostFits
  <2> QED
    BY <1>3, <2>1, <2>3
<1>9. CASE sparql_vasprintf_ /\ UNCHANGED call
  BY <1>4, <1>9 DEF call
<1>10. CASE Formatted \/ NoWorld \/ FormatFails \/ SendFails
  BY <1>4, <1>10 DEF Formatted, NoWorld, FormatFails, SendFails, call
<1>11. CASE UNCHANGED requestVars
  BY <1>4, <1>11 DEF requestVars, call
<1> QED
  BY <1>5, <1>6, <1>7, <1>8, <1>9, <1>10, <1>11 DEF RequestNext

\* For every statement, graph and URI of any length: the request is written within
\* the bytes that were reckoned for it, and each text in it is encoded whole.
THEOREM RequestCorrect == RequestSpec => []RequestFits
<1>1. RequestInv => RequestFits
  BY DEF RequestInv
<1> QED
  BY <1>1, InitText, TextStep, InitRequest, RequestStep, PTL DEF RequestSpec

-----------------------------------------------------------------------------
(* ResultSet                                                               *)

Cells == Nodes \cup {NULL}

-----------------------------------------------------------------------------
(* The operators. *)

\* A row starts with an empty cell for each variable.
LEMMA EmptyRowShape ==
  ASSUME variables \in Seq(Names)
  PROVE  /\ EmptyRow \in Seq(Cells)
         /\ Len(EmptyRow) = Len(variables)
         /\ \A i \in DOMAIN EmptyRow : EmptyRow[i] = NULL
  <1>1. Len(variables) \in Nat
    OBVIOUS
  <1> QED
    BY <1>1 DEF EmptyRow, Cells

\* Adding one to an array that has room for its entries leaves it room.
LEMMA GrownSuffices ==
  ASSUME NEW count \in Nat, NEW size \in Nat, NEW block \in Nat \ {0},
         count <= size
  PROVE  /\ Grown(count, size, block) \in Nat
         /\ size <= Grown(count, size, block)
         /\ count + 1 <= Grown(count, size, block)
  BY DEF Grown, Full

\* What is written for each beginning of a text.
Lengths(t, in, l) ==
  /\ l \in [0..Len(t) -> Nat] /\ l[0] = 0
  /\ \A i \in 1..Len(t) : l[i] = l[i - 1] + in[t[i]]

\* The length of what is written for a text, step by step.
LEMMA WrittenLengthIs ==
  ASSUME NEW S, NEW t \in Seq(S), NEW in \in [S -> Nat]
  PROVE  \E l : Lengths(t, in, l) /\ WrittenLength(t, in) = l[Len(t)]
<1> DEFINE n == Len(t)
           N == Nat
           b == 0
           h == [i \in 1..n |-> [m \in N |-> m + in[t[i]]]]
           Def(l) == l = [i \in 0..n |-> IF i = 0 THEN 0 ELSE l[i - 1] + in[t[i]]]
           s == CHOOSE l : Def(l)
<1>1. n \in Nat /\ b \in N /\ h \in [1..n -> [N -> N]]
  <2>1. \A i \in 1..n : in[t[i]] \in Nat
    OBVIOUS
  <2> QED
    BY <2>1
<1>2. \A i \in 1..n, m \in N : h[i][m] = m + in[t[i]]
  OBVIOUS
<1> HIDE DEF h, n, N, b
<1>3. PICK l \in [0..n -> N] : l[0] = b /\ \A i \in 1..n : l[i] = h[i][l[i - 1]]
  <2>1. Recursive(N, n, b, h)
    BY <1>1, Recursion
  <2> QED
    BY <2>1 DEF Recursive
<1>4. l[0] = 0 /\ \A i \in 1..n : l[i] = l[i - 1] + in[t[i]]
  <2>1. l[0] = 0
    BY <1>3 DEF b
  <2>2. ASSUME NEW i \in 1..n PROVE l[i] = l[i - 1] + in[t[i]]
    <3>1. l[i - 1] \in N
      BY <1>1
    <3> QED
      BY <1>2, <1>3, <3>1, Zenon
  <2> QED
    BY <2>1, <2>2
<1>5. Def(l)
  <2>0. ASSUME NEW i \in 0..n
        PROVE  l[i] = IF i = 0 THEN 0 ELSE l[i - 1] + in[t[i]]
    <3>1. i # 0 => i \in 1..n
      BY <1>1
    <3> QED
      BY <1>4, <3>1, Zenon
  <2>1. [i \in 0..n |-> l[i]] = [i \in 0..n |-> IF i = 0 THEN 0 ELSE l[i - 1] + in[t[i]]]
    BY <2>0, Zenon
  <2>2. l = [i \in 0..n |-> l[i]]
    OBVIOUS
  <2> QED
    BY <2>1, <2>2, Zenon
<1>6. Def(s)
  BY <1>5, Zenon
<1>7. WrittenLength(t, in) = s[n]
  BY DEF WrittenLength, n
<1> HIDE DEF s
<1>8. s[0] = 0 /\ \A i \in 1..n : s[i] = s[i - 1] + in[t[i]]
  <2>1. \A i \in 0..n : s[i] = IF i = 0 THEN 0 ELSE s[i - 1] + in[t[i]]
    BY <1>6, Zenon
  <2>2. 0 \in 0..n /\ \A i \in 1..n : i \in 0..n /\ i # 0
    BY <1>1
  <2> QED
    BY <2>1, <2>2, Zenon
<1>9. s[n] = l[n]
  <2>1. s[0] = l[0]
    BY <1>4, <1>8
  <2>2. \A i \in 1..n : s[i - 1] = l[i - 1] => s[i] = l[i]
    BY <1>4, <1>8
  <2> QED
    BY <1>1, <2>1, <2>2, Agree
<1> QED
  BY <1>3, <1>4, <1>7, <1>9 DEF n, N, Lengths

\* What is written for a text is as long as the text, or shorter, if nothing in it
\* is escaped.
LEMMA WrittenLengthFits ==
  ASSUME NEW S, NEW t \in Seq(S), NEW in \in [S -> Nat]
  PROVE  /\ WrittenLength(t, in) \in Nat
         /\ OneForOne(t, in) => WrittenLength(t, in) <= Len(t)
<1> DEFINE n == Len(t)
<1>1. PICK l : Lengths(t, in, l) /\ WrittenLength(t, in) = l[n]
  BY WrittenLengthIs
<1>2. n \in Nat /\ l \in [0..n -> Nat] /\ l[0] = 0
      /\ \A i \in 1..n : l[i] = l[i - 1] + in[t[i]]
  BY <1>1 DEF Lengths
<1>3. \A i \in 1..n : i \in DOMAIN t /\ in[t[i]] \in Nat
  OBVIOUS
<1>4. ASSUME OneForOne(t, in) PROVE l[n] <= n
  <2> DEFINE G == {i \in 0..n : l[i] <= i}
  <2>1. \A i \in 1..n : in[t[i]] <= 1
    BY <1>3, <1>4 DEF OneForOne
  <2> HIDE DEF n
  <2>2. 0 \in G
    BY <1>2
  <2>3. ASSUME NEW i \in 1..n, i - 1 \in G PROVE i \in G
    <3>1. i \in 0..n /\ l[i - 1] <= i - 1 /\ l[i - 1] \in Nat
      BY <1>2, <2>3
    <3>2. l[i] = l[i - 1] + in[t[i]] /\ in[t[i]] <= 1 /\ in[t[i]] \in Nat
      BY <1>2, <1>3, <2>1
    <3> QED
      BY <1>2, <3>1, <3>2
  <2> HIDE DEF G
  <2>4. \A i \in 0..n : i \in G
    BY <1>2, <2>2, <2>3, Induction
  <2>5. n \in G
    BY <1>2, <2>4
  <2> QED
    BY <2>5 DEF G
<1> QED
  BY <1>1, <1>2, <1>4

\* What is shown of a node with a datatype, or of one without, beyond the room
\* that was reckoned for it.
Missing(nd) == IF nd.datatype = NULL THEN 0 ELSE 2

\* The room reckoned for a node is a length, and the room a node in which nothing
\* is escaped is shown in, but for two characters of one with a datatype.
LEMMA NodeWidthCovers ==
  ASSUME NEW nd \in Nodes
  PROVE  /\ NodeWidth(nd) \in Nat
         /\ Unescaped(nd) => /\ ShownLength(nd) \in Nat
                             /\ ShownLength(nd) <= NodeWidth(nd) + Missing(nd)
  <1>1. /\ nd.kind \in Kinds /\ Len(nd.text) \in Nat
        /\ nd.language # NULL => Len(nd.language) \in Nat
        /\ nd.datatype # NULL => Len(nd.datatype) \in Nat
    BY NodeAssumption
  <1>2. /\ nd.text \in Seq(Characters)
        /\ nd.datatype # NULL => nd.datatype \in Seq(Characters)
        /\ InLiteral \in [Characters -> Nat] /\ InUri \in [Characters -> Nat]
    BY DisplayAssumption
  <1> DEFINE t == Len(nd.text)
             l == IF nd.language = NULL THEN 0 ELSE Len(nd.language) + 1
             d == IF nd.datatype = NULL THEN 0 ELSE Len(nd.datatype) + 2
             e == IF nd.datatype = NULL THEN 0 ELSE WrittenLength(nd.datatype, InUri) + 4
             u == WrittenLength(nd.text, InUri)
             w == WrittenLength(nd.text, InLiteral)
             m == Missing(nd)
  <1>3. t \in Nat /\ l \in Nat /\ d \in Nat /\ m \in Nat
    BY <1>1 DEF Missing
  <1>4. /\ u \in Nat /\ (OneForOne(nd.text, InUri) => u <= t)
        /\ w \in Nat /\ (OneForOne(nd.text, InLiteral) => w <= t)
    BY <1>2, WrittenLengthFits
  <1>5. e \in Nat /\ ((nd.datatype # NULL => OneForOne(nd.datatype, InUri)) => e <= d + m)
    <2>1. CASE nd.datatype = NULL
      BY <2>1 DEF Missing
    <2>2. CASE nd.datatype # NULL
      <3>1. /\ WrittenLength(nd.datatype, InUri) \in Nat
            /\ OneForOne(nd.datatype, InUri) => WrittenLength(nd.datatype, InUri) <= Len(nd.datatype)
        BY <1>2, <2>2, WrittenLengthFits
      <3> QED
        BY <1>1, <2>2, <3>1 DEF Missing
    <2> QED
      BY <2>1, <2>2
  <1>6. NodeWidth(nd) = CASE nd.kind = "uri"     -> t + 2
                          [] nd.kind = "bnode"   -> t + 3
                          [] nd.kind = "literal" -> t + 2 + l + d
    BY DEF NodeWidth
  <1>7. ShownLength(nd) = CASE nd.kind = "uri"     -> u + 2
                            [] nd.kind = "bnode"   -> t + 2
                            [] nd.kind = "literal" -> w + 2 + l + e
    BY DEF ShownLength
  <1> HIDE DEF t, l, d, e, u, w, m
  <1>8. CASE nd.kind = "uri"
    <2>1. Unescaped(nd) => u <= t
      BY <1>4, <1>8 DEF Unescaped
    <2> QED
      BY <1>3, <1>4, <1>6, <1>7, <1>8, <2>1 DEF m
  <1>9. CASE nd.kind = "bnode"
    BY <1>3, <1>6, <1>7, <1>9 DEF m
  <1>10. CASE nd.kind = "literal"
    <2>1. Unescaped(nd) => w <= t /\ e <= d + m
      BY <1>4, <1>5, <1>10 DEF Unescaped
    <2> QED
      BY <1>3, <1>4, <1>5, <1>6, <1>7, <1>10, <2>1 DEF m
  <1> QED
    BY <1>1, <1>8, <1>9, <1>10 DEF Kinds

\* The room of a column in which a node is shown.
Covered(nd, w) ==
  Unescaped(nd) => ShownLength(nd) <= w + Missing(nd)

\* Widening a column makes room there and takes none elsewhere.
LEMMA WiderGrows ==
  ASSUME NEW w \in Seq(Nat), NEW i \in 1..Len(w), NEW l \in Nat
  PROVE  /\ Wider(w, i, l) \in Seq(Nat)
         /\ Len(Wider(w, i, l)) = Len(w)
         /\ l <= Wider(w, i, l)[i]
         /\ \A j \in 1..Len(w) : w[j] <= Wider(w, i, l)[j]
  <1>1. CASE w[i] < l
    <2>1. Wider(w, i, l) = [w EXCEPT ![i] = l]
      BY <1>1 DEF Wider
    <2> QED
      BY <1>1, <2>1, ExceptSeq
  <1>2. CASE ~(w[i] < l)
    BY <1>2 DEF Wider
  <1> QED
    BY <1>1, <1>2

\* The widths, once they are needed, have an entry for each variable.
LEMMA WidthsShape ==
  ASSUME TypeOK, Rectangular
  PROVE  Widths \in Seq(Nat) /\ Len(Widths) = Len(variables)
  <1>1. CASE widths = NULL
    <2>1. Len(variables) \in Nat
      BY DEF TypeOK
    <2> QED
      BY <1>1, <2>1 DEF Widths
  <1>2. CASE widths # NULL
    BY <1>2 DEF Widths, Rectangular
  <1> QED
    BY <1>1, <1>2

\* The rows are what they were but for one cell, which holds nd.
OneCell(r, nd, i) ==
  /\ rows' \in Seq(Seq(Cells))
  /\ DOMAIN rows' = DOMAIN rows
  /\ rows' # <<>>
  /\ i \in 1..Len(variables)
  /\ \A q \in DOMAIN rows :
       /\ Len(rows'[q]) = Len(variables)
       /\ \A j \in 1..Len(variables) :
            rows'[q][j] = IF q = r /\ j = i THEN nd ELSE rows[q][j]

\* Binding a node replaces one cell of one row.
LEMMA BindShape ==
  ASSUME TypeOK, Rectangular, NEW r, NEW n, NEW nd \in Nodes, NEW i,
         Bind(r, n, nd, i)
  PROVE  OneCell(r, nd, i)
  <1> DEFINE row == [rows[r] EXCEPT ![i] = nd]
  <1>1. /\ rows \in Seq(Seq(Cells)) /\ r \in 1..Len(rows)
        /\ i \in 1..Len(variables)
        /\ rows' = [rows EXCEPT ![r] = row]
    <2>1. rows \in Seq(Seq(Cells))
      BY DEF TypeOK, Cells
    <2>2. r \in DOMAIN rows /\ i \in 1..Len(variables)
      BY DEF Bind, FirstIndex
    <2>3. rows' = [rows EXCEPT ![r] = row]
      BY DEF Bind
    <2> QED
      BY <2>1, <2>2, <2>3
  <1>2. rows[r] \in Seq(Cells) /\ Len(rows[r]) = Len(variables)
    BY <1>1 DEF Rectangular
  <1>3. /\ row \in Seq(Cells) /\ Len(row) = Len(variables)
        /\ \A j \in 1..Len(variables) :
             row[j] = IF j = i THEN nd ELSE rows[r][j]
    BY <1>1, <1>2, ExceptSeq DEF Cells
  <1> HIDE DEF row
  <1>4. /\ rows' \in Seq(Seq(Cells)) /\ Len(rows') = Len(rows)
        /\ \A q \in 1..Len(rows) : rows'[q] = IF q = r THEN row ELSE rows[q]
    BY <1>1, <1>3, ExceptSeq
  <1>5. DOMAIN rows' = DOMAIN rows /\ rows' # <<>>
    BY <1>1, <1>4
  <1> QED
    BY <1>1, <1>3, <1>4, <1>5 DEF OneCell, Rectangular

-----------------------------------------------------------------------------
(* The inductive invariant. *)

\* The cursor has not moved while the result set is filled.
CursorAtStart == phase = "filling" => reset /\ fetched = 0

Inv == TypeOK /\ Rectangular /\ InBounds /\ WidthsCover /\ CursorAtStart

LEMMA InvInit == Init => Inv
  <1> SUFFICES ASSUME Init PROVE Inv
    OBVIOUS
  <1>1. /\ variables \in Seq(Names) /\ rows \in Seq(Seq(Nodes \cup {NULL}))
        /\ DOMAIN rows = {} /\ Len(variables) = 0 /\ Len(rows) = 0
    BY DEF Init
  <1>2. reset \in BOOLEAN
    BY Zenon DEF Init
  <1>3. TypeOK
    BY <1>1, <1>2 DEF Init, TypeOK
  <1>4. Rectangular /\ InBounds /\ WidthsCover
    BY <1>1 DEF Init, Rectangular, InBounds, WidthsCover
  <1>5. CursorAtStart
    BY DEF Init, CursorAtStart
  <1> QED
    BY <1>3, <1>4, <1>5 DEF Inv

\* A call that leaves variables, rows and widths alone keeps their shape.
LEMMA ShapeUnchanged ==
  ASSUME Inv, TypeOK', CursorAtStart',
         UNCHANGED <<variables, rows, widths>>,
         varsize <= varsize', rowsize <= rowsize'
  PROVE  Inv'
  <1>1. Rectangular' /\ WidthsCover'
    BY DEF Inv, Rectangular, WidthsCover
  <1>2. InBounds'
    <2>1. /\ Len(variables) <= varsize /\ Len(rows) <= rowsize
          /\ {Len(variables), Len(rows), varsize, rowsize} \subseteq Nat
      BY DEF Inv, TypeOK, InBounds
    <2>2. varsize' \in Nat /\ rowsize' \in Nat
      BY DEF TypeOK
    <2> QED
      BY <2>1, <2>2 DEF InBounds
  <1> QED
    BY <1>1, <1>2 DEF Inv

LEMMA InvAddVariable ==
  ASSUME Inv, NEW n \in Names, AddVariable(n)
  PROVE  Inv'
  <1> USE DEF Inv
  <1>1. /\ variables' = Append(variables, n) /\ rows = <<>> /\ rows' = rows
        /\ Len(rows') = 0 /\ DOMAIN rows' = {} /\ widths = NULL
        /\ widths' = NULL
    BY DEF AddVariable, Rectangular
  <1>2. /\ variables' \in Seq(Names) /\ Len(variables') = Len(variables) + 1
        /\ Len(variables) \in Nat
    BY <1>1 DEF TypeOK
  <1>3. varsize' \in Nat /\ Len(variables') <= varsize'
    BY <1>2, GrownSuffices, BlockAssumption DEF AddVariable, TypeOK, InBounds
  <1>4. TypeOK'
    BY <1>1, <1>2, <1>3 DEF AddVariable, cursor, TypeOK
  <1>5. Rectangular' /\ WidthsCover'
    BY <1>1 DEF Rectangular, WidthsCover
  <1>6. InBounds' /\ CursorAtStart'
    BY <1>1, <1>3 DEF AddVariable, InBounds, CursorAtStart, cursor, TypeOK
  <1> QED
    BY <1>4, <1>5, <1>6

LEMMA InvCreateRow ==
  ASSUME Inv, CreateRow
  PROVE  Inv'
  <1> USE DEF Inv
  <1>1. /\ EmptyRow \in Seq(Cells) /\ Len(EmptyRow) = Len(variables)
        /\ \A i \in DOMAIN EmptyRow : EmptyRow[i] = NULL
    BY EmptyRowShape DEF TypeOK
  <1> HIDE DEF Inv
  <1>2. /\ rows \in Seq(Seq(Cells)) /\ rows' = Append(rows, EmptyRow)
        /\ variables' = variables /\ widths' = widths /\ varsize' = varsize
    BY DEF Inv, TypeOK, CreateRow, Cells
  <1>3. /\ rows' \in Seq(Seq(Cells)) /\ Len(rows') = Len(rows) + 1
        /\ Len(rows) \in Nat
        /\ \A q \in 1..Len(rows) : rows'[q] = rows[q]
        /\ rows'[Len(rows) + 1] = EmptyRow
    BY <1>1, <1>2, AppendProperties
  <1>4. DOMAIN rows = 1..Len(rows) /\ DOMAIN rows' = 1..(Len(rows) + 1)
    BY <1>2, <1>3
  <1>5. rowsize' \in Nat /\ Len(rows') <= rowsize'
    BY <1>3, GrownSuffices, BlockAssumption
    DEF Inv, CreateRow, TypeOK, InBounds
  <1>6. TypeOK'
    BY <1>2, <1>3, <1>5 DEF Inv, CreateRow, cursor, TypeOK, Cells
  <1>7. rows' # <<>>
    BY <1>3
  <1>8. Rectangular'
    BY <1>1, <1>2, <1>3, <1>4, <1>7 DEF Inv, Rectangular
  <1>9. WidthsCover'
    <2> SUFFICES ASSUME NEW r \in DOMAIN rows', NEW i \in DOMAIN rows'[r],
                        rows'[r][i] # NULL
                 PROVE  /\ widths' # NULL
                        /\ Covered(rows'[r][i], widths'[i])
      BY DEF WidthsCover, Covered, Missing
    <2>1. r \in DOMAIN rows /\ rows'[r] = rows[r]
      BY <1>1, <1>3, <1>4
    <2> QED
      BY <1>2, <2>1 DEF Inv, WidthsCover, Covered, Missing
  <1>10. InBounds' /\ CursorAtStart'
    BY <1>2, <1>5 DEF Inv, CreateRow, InBounds, CursorAtStart, cursor, TypeOK
  <1> QED
    BY <1>6, <1>8, <1>9, <1>10 DEF Inv

LEMMA InvBind ==
  ASSUME Inv, NEW r, NEW n, NEW nd \in Nodes, NEW i, Bind(r, n, nd, i)
  PROVE  Inv'
  <1>1. /\ rows' \in Seq(Seq(Cells)) /\ DOMAIN rows' = DOMAIN rows
        /\ rows' # <<>> /\ i \in 1..Len(variables)
        /\ \A q \in DOMAIN rows :
             /\ Len(rows'[q]) = Len(variables)
             /\ \A j \in 1..Len(variables) :
                  rows'[q][j] = IF q = r /\ j = i THEN nd ELSE rows[q][j]
    <2>1. TypeOK /\ Rectangular
      BY DEF Inv
    <2>2. OneCell(r, nd, i)
      BY <2>1, BindShape
    <2> QED
      BY <2>2 DEF OneCell
  <1>2. Widths \in Seq(Nat) /\ Len(Widths) = Len(variables)
    BY WidthsShape DEF Inv
  <1>11. \A j \in 1..Len(variables) : Widths[j] \in Nat
    BY <1>2
  <1>3. /\ NodeWidth(nd) \in Nat
        /\ \A w \in Nat : NodeWidth(nd) <= w => Covered(nd, w)
    <2>1. NodeWidth(nd) \in Nat /\ Missing(nd) \in Nat
      BY NodeWidthCovers DEF Missing
    <2>2. Unescaped(nd) => ShownLength(nd) \in Nat /\ ShownLength(nd) <= NodeWidth(nd) + Missing(nd)
      BY NodeWidthCovers
    <2> QED
      BY <2>1, <2>2 DEF Covered
  <1>4. /\ widths' \in Seq(Nat) /\ Len(widths') = Len(variables)
        /\ NodeWidth(nd) <= widths'[i]
        /\ \A j \in 1..Len(variables) : Widths[j] <= widths'[j]
    <2>1. widths' = Wider(Widths, i, NodeWidth(nd))
      BY DEF Bind
    <2> QED
      BY <1>1, <1>2, <1>3, <2>1, WiderGrows
  <1>5. variables' = variables /\ varsize' = varsize /\ rowsize' = rowsize
    BY DEF Bind
  <1>6. TypeOK'
    BY <1>1 DEF Inv, Bind, cursor, TypeOK, Cells
  <1>7. Rectangular'
    BY <1>1, <1>4, <1>5 DEF Rectangular
  <1>8. WidthsCover'
    <2> SUFFICES ASSUME NEW q \in DOMAIN rows', NEW j \in DOMAIN rows'[q],
                        rows'[q][j] # NULL
                 PROVE  /\ widths' # NULL
                        /\ Covered(rows'[q][j], widths'[j])
      BY DEF WidthsCover, Covered, Missing
    <2>1. q \in DOMAIN rows /\ j \in 1..Len(variables)
      BY <1>1
    <2>2. widths' # NULL /\ widths'[j] \in Nat
      BY <1>4, <2>1, NullAssumption
    <2>3. CASE q = r /\ j = i
      <3>1. rows'[q][j] = nd
        BY <1>1, <2>1, <2>3
      <3> QED
        BY <1>3, <1>4, <2>1, <2>2, <2>3, <3>1
    <2>4. CASE ~(q = r /\ j = i)
      <3> DEFINE c == rows[q][j]
      <3>1. rows'[q][j] = c
        BY <1>1, <2>1, <2>4
      <3>2. j \in DOMAIN rows[q]
        <4>1. Len(rows[q]) = Len(variables) /\ rows[q] \in Seq(Cells)
          BY <2>1 DEF Inv, Rectangular, TypeOK, Cells
        <4> QED
          BY <2>1, <4>1
      <3>3. widths # NULL /\ Covered(c, widths[j])
        BY <2>1, <3>1, <3>2 DEF Inv, WidthsCover, Covered, Missing
      <3>4. Widths = widths /\ Widths[j] <= widths'[j] /\ Widths[j] \in Nat
        <4>1. Widths = widths
          BY <3>3 DEF Widths
        <4>2. Widths[j] <= widths'[j] /\ Widths[j] \in Nat
          BY <1>4, <1>11, <2>1, Zenon
        <4> QED
          BY <4>1, <4>2
      <3>5. /\ Missing(c) \in Nat
            /\ Unescaped(c) => ShownLength(c) \in Nat
        <4>1. c \in Nodes
          <5>1. rows \in Seq(Seq(Nodes \cup {NULL}))
            BY DEF Inv, TypeOK
          <5>2. rows[q] \in Seq(Nodes \cup {NULL})
            BY <2>1, <5>1
          <5>3. rows[q][j] \in Nodes \cup {NULL}
            BY <3>2, <5>2
          <5> QED
            BY <3>1, <5>3
        <4> HIDE DEF c
        <4>2. Unescaped(c) => ShownLength(c) \in Nat
          BY <4>1, NodeWidthCovers
        <4> QED
          BY <4>2 DEF Missing
      <3> HIDE DEF c
      <3>6. Covered(c, widths'[j])
        BY <2>2, <3>3, <3>4, <3>5 DEF Covered
      <3> QED
        BY <2>2, <3>1, <3>6
    <2> QED
      BY <2>3, <2>4
  <1>9. InBounds'
    <2>1. Len(rows') = Len(rows)
      BY <1>1 DEF Inv, TypeOK
    <2> QED
      BY <1>5, <2>1 DEF Inv, InBounds
  <1>10. CursorAtStart'
    BY DEF Inv, Bind, CursorAtStart, cursor
  <1> QED
    BY <1>6, <1>7, <1>8, <1>9, <1>10 DEF Inv

LEMMA InvFill ==
  ASSUME Inv, Fill
  PROVE  Inv'
  <1>0. /\ TypeOK /\ CursorAtStart /\ varsize \in Nat /\ rowsize \in Nat
        /\ Len(variables) \in Nat /\ Len(rows) \in Nat
    BY DEF Inv, TypeOK
  <1>1. ASSUME NEW v \in {0, 1}, SetBoolean(v) PROVE Inv'
    <2>1. TypeOK' /\ CursorAtStart'
      BY <1>0, <1>1 DEF SetBoolean, cursor, TypeOK, CursorAtStart
    <2> QED
      BY <1>0, <1>1, <2>1, ShapeUnchanged DEF SetBoolean
  <1>2. ASSUME NEW n \in Names, AddVariable(n) PROVE Inv'
    BY <1>2, InvAddVariable
  <1>3. CASE AddVariableFails
    <2>1. varsize' \in Nat /\ varsize <= varsize'
      <3>1. Len(variables) <= varsize
        BY DEF Inv, InBounds
      <3>2. varsize' \in {varsize, Grown(Len(variables), varsize, VarBlock)}
        BY <1>3 DEF AddVariableFails
      <3> QED
        BY <1>0, <3>1, <3>2, GrownSuffices, BlockAssumption
    <2>2. TypeOK' /\ CursorAtStart'
      BY <1>0, <1>3, <2>1 DEF AddVariableFails, cursor, TypeOK, CursorAtStart
    <2> QED
      BY <1>0, <1>3, <2>1, <2>2, ShapeUnchanged DEF AddVariableFails
  <1>4. CASE AddLink
    <2>1. TypeOK' /\ CursorAtStart'
      BY <1>0, <1>4 DEF AddLink, cursor, TypeOK, CursorAtStart
    <2> QED
      BY <1>0, <1>4, <2>1, ShapeUnchanged DEF AddLink
  <1>5. CASE CreateRow
    BY <1>5, InvCreateRow
  <1>6. CASE CreateRowFails
    <2>1. rowsize' \in Nat /\ rowsize <= rowsize'
      <3>1. Len(rows) <= rowsize
        BY DEF Inv, InBounds
      <3>2. rowsize' \in {rowsize, Grown(Len(rows), rowsize, RowBlock)}
        BY <1>6 DEF CreateRowFails
      <3> QED
        BY <1>0, <3>1, <3>2, GrownSuffices, BlockAssumption
    <2>2. TypeOK' /\ CursorAtStart'
      BY <1>0, <1>6, <2>1 DEF CreateRowFails, cursor, TypeOK, CursorAtStart
    <2> QED
      BY <1>0, <1>6, <2>1, <2>2, ShapeUnchanged DEF CreateRowFails
  <1>7. ASSUME NEW r, NEW n, NEW nd \in Nodes, NEW i, Bind(r, n, nd, i)
        PROVE  Inv'
    BY <1>7, InvBind
  <1>8. ASSUME NEW n, NEW nd, NEW i, BindCrashes(n, nd, i) PROVE Inv'
    <2>1. TypeOK' /\ CursorAtStart'
      BY <1>0, <1>8 DEF BindCrashes, arrays, cursor, TypeOK, CursorAtStart
    <2> QED
      BY <1>0, <1>8, <2>1, ShapeUnchanged DEF BindCrashes, arrays
  <1>9. CASE AddLinkFails \/ BindFails
    <2>1. TypeOK' /\ CursorAtStart'
      BY <1>0, <1>9
      DEF AddLinkFails, BindFails, arrays, cursor, TypeOK, CursorAtStart
    <2> QED
      BY <1>0, <1>9, <2>1, ShapeUnchanged DEF AddLinkFails, BindFails, arrays
  <1>10. CASE Deliver
    <2>1. TypeOK' /\ CursorAtStart'
      BY <1>0, <1>10 DEF Deliver, arrays, cursor, TypeOK, CursorAtStart
    <2> QED
      BY <1>0, <1>10, <2>1, ShapeUnchanged DEF Deliver, arrays
  <1> QED
    BY <1>1, <1>2, <1>3, <1>4, <1>5, <1>6, <1>7, <1>8, <1>9, <1>10 DEF Fill

\* Reading and destroying leave the arrays alone.
LEMMA InvRead ==
  ASSUME Inv, Read \/ Destroy \/ UNCHANGED vars
  PROVE  Inv'
  <1>0. /\ TypeOK /\ CursorAtStart /\ varsize \in Nat /\ rowsize \in Nat
    BY DEF Inv, TypeOK
  <1>1. UNCHANGED arrays
    BY DEF Read, Fetch, FetchBoolean, Reset, ResetBoolean, Value, ValueFails,
       Destroy, vars
  <1>2. TypeOK'
    <2>1. reset' \in BOOLEAN
      <3>1. reset' = reset \/ reset' = FALSE \/ reset' = TRUE
        BY DEF Read, Fetch, FetchBoolean, Reset, ResetBoolean, Value,
           ValueFails, Destroy, vars, cursor
      <3> QED
        BY <1>0, <3>1, Zenon DEF TypeOK
    <2>2. current' \in Nat /\ fetched' \in Nat
      BY <1>0 DEF Read, Fetch, Position, FetchBoolean, Reset, ResetBoolean,
         Value, ValueFails, Destroy, vars, cursor, TypeOK
    <2>3. /\ phase' \in {"filling", "reading", "gone", "crashed"}
          /\ ret' \in {"ok", "fail", "row", "null", "size", "none"}
      BY <1>0 DEF Read, Fetch, FetchBoolean, Reset, ResetBoolean, Value,
         ValueFails, Destroy, vars, TypeOK
    <2> QED
      BY <1>0, <1>1, <2>1, <2>2, <2>3 DEF arrays, TypeOK
  <1>3. CursorAtStart'
    BY <1>0 DEF CursorAtStart, Read, Reading, Fetch, FetchBoolean, Reset,
       ResetBoolean, Value, ValueFails, Destroy, vars, cursor
  <1> QED
    BY <1>0, <1>1, <1>2, <1>3, ShapeUnchanged DEF arrays

LEMMA InvNext == Inv /\ [Next]_vars => Inv'
  BY InvFill, InvRead DEF Next

LEMMA InvCorrect == Spec => []Inv
  BY InvInit, InvNext, PTL DEF Spec

-----------------------------------------------------------------------------
(* The theorems. *)

\* Every variable keeps its type.
THEOREM TypeCorrect == Spec => []TypeOK
  BY InvCorrect, PTL DEF Inv

\* Every row and the widths have one entry for each variable.
THEOREM RectangularCorrect == Spec => []Rectangular
  BY InvCorrect, PTL DEF Inv

\* No array is written past what was allocated, for any block size.
THEOREM InBoundsCorrect == Spec => []InBounds
  BY InvCorrect, PTL DEF Inv

\* The width of a column holds the values in it that have no datatype.
THEOREM WidthsCoverCorrect == Spec => []WidthsCover
  BY InvCorrect, PTL DEF Inv

\* A call that fails leaves what a reader can see as it was.
THEOREM FailedCallsCorrect == Spec => FailedCallsChangeNothing
  <1>1. ASSUME [Next]_vars
        PROVE  [ret' \in {"fail", "null", "none"} =>
                  UNCHANGED <<boolean, variables, widths, rows, linkcount>>]_vars
    <2>1. CASE UNCHANGED vars
      BY <2>1
    <2>2. CASE Fill
      BY <2>2 DEF Fill, SetBoolean, AddVariable, AddVariableFails, AddLink,
         AddLinkFails, CreateRow, CreateRowFails, Bind, BindFails,
         BindCrashes, Deliver, arrays
    <2>3. CASE Read \/ Destroy
      BY <2>3 DEF Read, Fetch, FetchBoolean, Reset, ResetBoolean, Value,
         ValueFails, Destroy, arrays
    <2> QED
      BY <1>1, <2>1, <2>2, <2>3 DEF Next
  <1> QED
    BY <1>1, PTL DEF Spec, FailedCallsChangeNothing

CursorNext == [Cursor!Next]_(Cursor!cursorVars)

LEMMA CursorStep ==
  ASSUME Inv, Inv', [Next]_vars
  PROVE  CursorNext
  <1> DEFINE count == Len(rows)
             answer == boolean # -1
  <1>0. /\ count \in Nat /\ count' \in Nat /\ current \in Nat /\ fetched \in Nat
        /\ boolean \in {-1, 0, 1} /\ reset \in BOOLEAN
    BY DEF Inv, TypeOK
  <1>1. ASSUME UNCHANGED <<boolean, rows, cursor>> PROVE CursorNext
    BY <1>1 DEF CursorNext, Cursor!cursorVars, cursor, Served
  <1>2. CASE Fill
    <2>1. Filling /\ UNCHANGED cursor
      BY <1>2 DEF Fill, SetBoolean, AddVariable, AddVariableFails, AddLink,
         AddLinkFails, CreateRow, CreateRowFails, Bind, BindFails,
         BindCrashes, Deliver
    <2>2. /\ reset /\ fetched = 0 /\ fetched' = 0
          /\ Served = 0 /\ Served' = 0
      BY <2>1 DEF Inv, CursorAtStart, Filling, cursor, Served
    <2>3. CASE CreateRow
      <3>1. count' = count + 1 /\ boolean' = boolean
        BY <2>3 DEF CreateRow, Inv, TypeOK
      <3> QED
        BY <2>2, <3>1 DEF CursorNext, Cursor!Next, Cursor!Fill
    <2>4. ASSUME NEW v \in {0, 1}, SetBoolean(v) PROVE CursorNext
      <3>1. count' = count /\ boolean' # -1
        BY <2>4 DEF SetBoolean
      <3> QED
        BY <2>2, <3>1 DEF CursorNext, Cursor!Next, Cursor!Fill
    <2>5. ASSUME NEW n, NEW nd, NEW i, Bind(Len(rows), n, nd, i)
          PROVE  CursorNext
      <3>1. count' = count /\ boolean' = boolean
        BY <2>5 DEF Bind, Inv, TypeOK
      <3> QED
        BY <2>2, <3>1 DEF CursorNext, Cursor!cursorVars
    <2>6. CASE \/ AddVariableFails \/ AddLink \/ AddLinkFails
               \/ CreateRowFails \/ BindFails \/ Deliver
               \/ \E n \in Names : AddVariable(n)
               \/ \E n \in Names, nd \in Nodes, i \in 1..MaxVariables :
                    BindCrashes(n, nd, i)
      BY <1>1, <2>1, <2>6 DEF AddVariable, AddVariableFails, AddLink,
         AddLinkFails, CreateRowFails, BindFails, BindCrashes, Deliver, arrays
    <2> QED
      BY <1>2, <2>3, <2>4, <2>5, <2>6 DEF Fill
  <1>3. CASE Fetch
    <2>1. /\ ~answer /\ ~answer' /\ count' = count /\ reset' = FALSE
          /\ current' = Position
      BY <1>3 DEF Fetch, arrays
    <2>2. CASE Position < count
      <3>1. /\ fetched' = Position + 1 /\ Served' = Position + 1
            /\ Served = Position
        BY <1>0, <1>3, <2>1, <2>2 DEF Fetch, Position, Served
      <3> QED
        BY <2>1, <2>2, <3>1 DEF CursorNext, Cursor!Next, Cursor!FetchRow
    <2>3. CASE ~(Position < count)
      <3>1. fetched' = 0 /\ Served' = count /\ Served = count
        BY <1>0, <1>3, <2>1, <2>3 DEF Fetch, Position, Served
      <3> QED
        BY <2>1, <3>1 DEF CursorNext, Cursor!Next, Cursor!FetchNothing
    <2> QED
      BY <2>2, <2>3
  <1>4. CASE FetchBoolean
    <2>1. /\ answer /\ answer' /\ count' = count /\ Served' = Served
          /\ fetched' = 0
      BY <1>4 DEF FetchBoolean, arrays, Served
    <2> QED
      BY <2>1 DEF CursorNext, Cursor!Next, Cursor!FetchNothing
  <1>5. CASE Reset
    <2>1. /\ ~answer /\ ~answer' /\ count' = count /\ Served' = 0
          /\ fetched' = fetched
      BY <1>5 DEF Reset, arrays, Served
    <2> QED
      BY <2>1 DEF CursorNext, Cursor!Next, Cursor!Rewind
  <1>6. CASE \/ ResetBoolean \/ Destroy \/ UNCHANGED vars
             \/ \E i \in 1..MaxVariables :
                  Value(i) \/ \E b \in BOOLEAN : ValueFails(i, b)
    BY <1>1, <1>6 DEF ResetBoolean, Destroy, Value, ValueFails, arrays, vars
  <1> QED
    BY <1>2, <1>3, <1>4, <1>5, <1>6 DEF Next, Read

LEMMA CursorInit == Init => Cursor!Init
  BY DEF Init, Cursor!Init, Served

\* The cursor implements RowCursor: the rows come once each, in order.
THEOREM CursorCorrect == Spec => RowsInOrder
  <1>1. Inv /\ Inv' /\ [Next]_vars => [Cursor!Next]_(Cursor!cursorVars)
    BY CursorStep DEF CursorNext
  <1> QED
    BY <1>1, CursorInit, InvCorrect, PTL DEF Spec, RowsInOrder, Cursor!Spec
===============================================================================
