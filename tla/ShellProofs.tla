----------------------------- MODULE ShellProofs ------------------------------
(***************************************************************************)
(* The shell, for any tokens and any length of a session.  Of the          *)
(* connections made there is one left, the last.  Of what is typed, each   *)
(* statement is taken whole, once and in order: what the loop of           *)
(* parse_query reads a token at a time is what Cuts makes of the text as a *)
(* whole.                                                                  *)
(***************************************************************************)
EXTENDS Shell, TLAPS, WellFoundedInduction

-----------------------------------------------------------------------------
(* The connection. *)

\* What is known of the connection: its type makes OneConnection inductive.
SessionInv ==
  /\ made \in Nat /\ verbose \in BOOLEAN
  /\ conn = NULL \/ conn \in [number : Nat \ {0}, verbose : BOOLEAN]
  /\ OneConnection

\* exec_builtin makes a connection and destroys the one before.
LEMMA ConnectKeeps == ASSUME SessionInv, Connect PROVE SessionInv'
<1>1. /\ made \in Nat /\ made' = made + 1 /\ verbose' = verbose /\ verbose \in BOOLEAN
      /\ conn' = [number |-> made + 1, verbose |-> verbose]
      /\ closed' = IF conn = NULL THEN closed ELSE closed \cup {conn.number}
  BY DEF SessionInv, Connect
<1>2. conn' \in [number : Nat \ {0}, verbose : BOOLEAN] /\ conn' # NULL
  BY <1>1, NullAssumption
<1>3. closed' = 1..made
  <2>1. CASE conn = NULL
    BY <1>1, <2>1 DEF SessionInv, OneConnection
  <2>2. CASE conn # NULL
    <3>1. conn.number = made /\ made # 0 /\ closed = (1..made) \ {made}
      BY <2>2 DEF SessionInv, OneConnection
    <3> QED
      BY <1>1, <2>2, <3>1
  <2> QED
    BY <2>1, <2>2
<1>4. closed' = (1..made') \ {conn'.number}
  BY <1>1, <1>3
<1> QED
  BY <1>1, <1>2, <1>4 DEF SessionInv, OneConnection

\* The mode of the shell becomes that of its connection.
LEMMA ToggleKeeps == ASSUME SessionInv, ToggleVerbose PROVE SessionInv'
<1>1. /\ verbose' = ~verbose /\ verbose' \in BOOLEAN /\ made' = made /\ closed' = closed
      /\ conn' = IF conn = NULL THEN NULL ELSE [conn EXCEPT !.verbose = verbose']
  BY DEF SessionInv, ToggleVerbose
<1>2. CASE conn = NULL
  BY <1>1, <1>2 DEF SessionInv, OneConnection
<1>3. CASE conn # NULL
  <2>1. conn \in [number : Nat \ {0}, verbose : BOOLEAN]
    BY <1>3 DEF SessionInv
  <2>2. /\ conn' \in [number : Nat \ {0}, verbose : BOOLEAN]
        /\ conn'.number = conn.number /\ conn'.verbose = verbose'
    BY <1>1, <1>3, <2>1
  <2>3. conn' # NULL
    BY <2>2, NullAssumption
  <2> QED
    BY <1>1, <1>3, <2>2, <2>3 DEF SessionInv, OneConnection
<1> QED
  BY <1>2, <1>3

\* A step that leaves the connection alone.
LEMMA SameKeeps == ASSUME SessionInv, UNCHANGED session PROVE SessionInv'
  BY DEF SessionInv, OneConnection, session

\* main has connected once, or not yet.
LEMMA InitSession == Init => SessionInv
<1> SUFFICES ASSUME Init PROVE SessionInv
  OBVIOUS
<1>0. verbose = FALSE /\ closed = {}
  BY DEF Init
<1>1. CASE conn = NULL /\ made = 0
  BY <1>0, <1>1, 1..0 = {} DEF SessionInv, OneConnection
<1>2. CASE conn = [number |-> 1, verbose |-> FALSE] /\ made = 1
  <2>1. conn \in [number : Nat \ {0}, verbose : BOOLEAN] /\ conn.number = 1 /\ ~conn.verbose
    BY <1>2
  <2>2. conn # NULL
    BY <2>1, NullAssumption
  <2>3. (1..1) \ {1} = {}
    OBVIOUS
  <2> QED
    BY <1>0, <1>2, <2>1, <2>2, <2>3 DEF SessionInv, OneConnection
<1> QED
  BY <1>1, <1>2 DEF Init

\* The invariant is kept by every step.
LEMMA NextSession == SessionInv /\ [Next]_vars => SessionInv'
<1> SUFFICES ASSUME SessionInv, [Next]_vars PROVE SessionInv'
  OBVIOUS
<1>1. ASSUME NEW line, Read(line) PROVE UNCHANGED session
  BY <1>1 DEF Read
<1>2. CASE EndOfInput \/ Done \/ Quit \/ ConnectFails \/ UnknownCommand \/ NotConnected
  BY <1>2, SameKeeps DEF EndOfInput, Done, Quit, ConnectFails, UnknownCommand, NotConnected
<1>3. CASE QueryFails \/ QueryWithRows
  BY <1>3, SameKeeps DEF QueryFails, QueryWithRows
<1>4. ASSUME NEW ok \in BOOLEAN, Update(ok) PROVE UNCHANGED session
  BY <1>4 DEF Update
<1>5. ASSUME NEW fate, QueryWithoutRows(fate) PROVE UNCHANGED session
  BY <1>5 DEF QueryWithoutRows
<1>6. CASE UNCHANGED vars
  BY <1>6, SameKeeps DEF vars
<1> QED
  BY <1>1, <1>2, <1>3, <1>4, <1>5, <1>6, ConnectKeeps, ToggleKeeps, SameKeeps DEF Next

\* However \c, \v and failures of \c follow one another in exec_builtin, the
\* connections made but for the last are destroyed, and the last is in use and as
\* verbose as the shell.
THEOREM ConnectionCorrect == Spec => []OneConnection
<1>1. Init => SessionInv
  BY InitSession
<1>2. SessionInv /\ [Next]_vars => SessionInv'
  BY NextSession
<1>3. SessionInv => OneConnection
  BY DEF SessionInv
<1> QED
  BY <1>1, <1>2, <1>3, PTL DEF Spec

-----------------------------------------------------------------------------
(* parse_query, a token at a time. *)

Modes == {"none", "query", "command"} \cup Openers

ScanStates(U) == [mode : Modes, text : Seq(U), kept : Seq(U), queue : Seq(Seq(U))]

\* The state behind the first token of a statement, and behind a later one.
FirstMode(t) == IF t \in Commands THEN "command" ELSE IF t \in Quotes THEN t ELSE "query"
Turn(m, t)   == IF m = "query" THEN IF t \in Openers THEN t ELSE "query"
                ELSE IF t = Closer[m] THEN "query" ELSE m

\* What a token makes of a scan s that becomes r, by cases of where it stands.
Scanned(s, t, r) ==
  /\ r.kept = Append(s.kept, IF s.mode = "query" /\ t \in Terminators THEN "NUL" ELSE t)
  /\ s.mode = "none" /\ t \in Blanks \cup Terminators => r.mode = "none" /\ r.queue = s.queue
  /\ s.mode = "none" /\ t \notin Blanks \cup Terminators =>
       r.mode = FirstMode(t) /\ r.text = <<t>> /\ r.queue = s.queue
  /\ s.mode = "command" =>
       r.mode = "command" /\ r.text = Append(s.text, t) /\ r.queue = s.queue
  /\ s.mode = "query" /\ t \in Terminators =>
       r.mode = "none" /\ r.queue = Append(s.queue, s.text)
  /\ s.mode \in Openers \/ (s.mode = "query" /\ t \notin Terminators) =>
       r.mode = Turn(s.mode, t) /\ r.text = Append(s.text, t) /\ r.queue = s.queue

\* A token is read as its case of Scanned says.
LEMMA ScanIs ==
  ASSUME NEW U, "NUL" \in U, NEW s \in ScanStates(U), NEW t \in U
  PROVE  Scan(s, t) \in ScanStates(U) /\ Scanned(s, t, Scan(s, t))
<1> DEFINE a == Skip(s, t)
           b == Take(s, t)
           c == Start(s, t)
           d == Terminate(s)
<1>0. /\ s.mode \in Modes /\ s.text \in Seq(U) /\ s.kept \in Seq(U) /\ s.queue \in Seq(Seq(U))
      /\ Append(s.text, t) \in Seq(U) /\ <<t>> \in Seq(U)
      /\ Append(s.kept, t) \in Seq(U) /\ Append(s.kept, "NUL") \in Seq(U)
      /\ Append(s.queue, s.text) \in Seq(Seq(U))
  BY DEF ScanStates
<1>1. /\ a \in ScanStates(U) /\ a.mode = s.mode /\ a.text = s.text
      /\ a.kept = Append(s.kept, t) /\ a.queue = s.queue
  BY <1>0 DEF ScanStates, Skip
<1>2. /\ b \in ScanStates(U) /\ b.mode = s.mode /\ b.text = Append(s.text, t)
      /\ b.kept = Append(s.kept, t) /\ b.queue = s.queue
  BY <1>0, <1>1 DEF ScanStates, Take
<1>3. /\ c \in ScanStates(U) /\ c.mode = s.mode /\ c.text = <<t>>
      /\ c.kept = Append(s.kept, t) /\ c.queue = s.queue
  BY <1>0, <1>1 DEF ScanStates, Start
<1>4. /\ d \in ScanStates(U) /\ d.mode = "none"
      /\ d.kept = Append(s.kept, "NUL") /\ d.queue = Append(s.queue, s.text)
  BY <1>0 DEF ScanStates, Terminate, Skip, Modes
<1> HIDE DEF a, b, c, d
<1>5. ASSUME NEW m \in Modes
      PROVE  /\ [b EXCEPT !.mode = m] \in ScanStates(U) /\ [b EXCEPT !.mode = m].mode = m
             /\ [b EXCEPT !.mode = m].text = b.text /\ [b EXCEPT !.mode = m].kept = b.kept
             /\ [b EXCEPT !.mode = m].queue = b.queue
  BY <1>2 DEF ScanStates
<1>6. ASSUME NEW m \in Modes
      PROVE  /\ [c EXCEPT !.mode = m] \in ScanStates(U) /\ [c EXCEPT !.mode = m].mode = m
             /\ [c EXCEPT !.mode = m].text = c.text /\ [c EXCEPT !.mode = m].kept = c.kept
             /\ [c EXCEPT !.mode = m].queue = c.queue
  BY <1>3 DEF ScanStates
<1>7. CASE s.mode = "none"
  <2>1. Scan(s, t) = Begin(s, t)
    BY <1>7 DEF Scan, Openers, Quotes
  <2>2. CASE t \in Blanks \cup Terminators
    <3>1. Scan(s, t) = a
      BY <2>1, <2>2 DEF Begin, a, Blanks, Terminators, Quotes, Commands
    <3> QED
      BY <1>1, <1>7, <2>2, <3>1 DEF Scanned, Openers, Quotes
  <2>3. CASE t \notin Blanks \cup Terminators
    <3>1. FirstMode(t) \in Modes
      BY DEF FirstMode, Modes, Openers
    <3>2. Scan(s, t) = [c EXCEPT !.mode = FirstMode(t)]
      BY <2>1, <2>3 DEF Begin, c, FirstMode, Quotes, Commands
    <3> DEFINE r == [c EXCEPT !.mode = FirstMode(t)]
    <3>3. /\ r \in ScanStates(U) /\ r.mode = FirstMode(t)
          /\ r.text = c.text /\ r.kept = c.kept /\ r.queue = c.queue
      BY <1>6, <3>1
    <3>4. Scan(s, t) = r
      BY <3>2
    <3> HIDE DEF r
    <3> QED
      BY <1>3, <1>7, <2>3, <3>3, <3>4 DEF Scanned, Openers, Quotes
  <2> QED
    BY <2>2, <2>3
<1>8. CASE s.mode = "command"
  <2>1. Scan(s, t) = b
    BY <1>8 DEF Scan, b, Openers, Quotes
  <2> QED
    BY <1>2, <1>8, <2>1 DEF Scanned, Openers, Quotes
<1>9. CASE s.mode = "query" /\ t \in Terminators
  <2>1. Scan(s, t) = d
    BY <1>9 DEF Scan, Continue, d, Openers, Quotes
  <2> QED
    BY <1>4, <1>9, <2>1 DEF Scanned, Openers, Quotes
<1>10. CASE s.mode \in Openers \/ (s.mode = "query" /\ t \notin Terminators)
  <2> DEFINE m == Turn(s.mode, t)
  <2>1. m \in Modes
    BY <1>0, <1>10 DEF Turn, Modes
  <2>2. Scan(s, t) = [b EXCEPT !.mode = m]
    <3>1. CASE s.mode = "query" /\ t \notin Terminators
      <4>1. Scan(s, t) = IF t \in Openers THEN [b EXCEPT !.mode = t] ELSE b
        BY <3>1 DEF Scan, Continue, b, Openers, Quotes
      <4>2. [b EXCEPT !.mode = "query"] = b
        BY <1>2, <3>1 DEF ScanStates
      <4> QED
        BY <3>1, <4>1, <4>2 DEF Turn
    <3>2. CASE s.mode \in Openers
      <4>1. s.mode \notin {"none", "query", "command"}
        BY <3>2 DEF Openers, Quotes
      <4>2. Scan(s, t) = Quoted(s, t)
        BY <3>2, <4>1 DEF Scan
      <4>3. [b EXCEPT !.mode = s.mode] = b
        BY <1>2 DEF ScanStates
      <4> QED
        BY <4>1, <4>2, <4>3 DEF Turn, Quoted, b
    <3> QED
      BY <1>10, <3>1, <3>2
  <2> DEFINE r == [b EXCEPT !.mode = m]
  <2>3. /\ r \in ScanStates(U) /\ r.mode = m
        /\ r.text = b.text /\ r.kept = b.kept /\ r.queue = b.queue
    BY <1>5, <2>1
  <2>4. Scan(s, t) = r
    BY <2>2
  <2>5. s.mode \notin {"none", "command"} /\ (s.mode \in Openers => s.mode # "query")
    BY <1>10 DEF Openers, Quotes
  <2> HIDE DEF r
  <2> QED
    BY <1>2, <1>10, <2>3, <2>4, <2>5 DEF Scanned
<1> QED
  BY <1>0, <1>7, <1>8, <1>9, <1>10 DEF Modes

\* A set of numbers has a least one.
LEMMA LeastNumber ==
  ASSUME NEW T \in SUBSET Nat, T # {}
  PROVE  \E x \in T : \A y \in T : x <= y
<1> DEFINE R == OpToRel(<, Nat)
<1>1. IsWellFoundedOn(R, Nat)
  BY NatLessThanWellFounded
<1>2. \A x, y \in Nat : y < x => <<y, x>> \in R
  BY DEF OpToRel
<1> HIDE DEF R
<1>3. PICK x \in T : \A y \in T : ~ (<<y, x>> \in R)
  BY <1>1, WFMin
<1>4. x \in Nat
  OBVIOUS
<1>5. ASSUME NEW y \in T PROVE x <= y
  <2>1. y \in Nat
    OBVIOUS
  <2>2. ~ (y < x)
    BY <1>2, <1>3, <1>4, <2>1, Zenon
  <2> QED
    BY <1>4, <2>1, <2>2, SMT
<1> QED
  BY <1>5

\* Induction up to a number, over the set of the numbers that have a property.
LEMMA Induction ==
  ASSUME NEW n \in Nat, NEW S, 0 \in S,
         \A i \in 1..n : i - 1 \in S => i \in S
  PROVE  \A i \in 0..n : i \in S
<1> DEFINE T == (0..n) \ S
<1>1. SUFFICES ASSUME T # {} PROVE FALSE
  OBVIOUS
<1>2. T \in SUBSET Nat
  OBVIOUS
<1> HIDE DEF T
<1>3. PICK x \in T : \A y \in T : x <= y
  BY <1>1, <1>2, LeastNumber
<1> USE DEF T
<1>4. x \in 1..n
  BY <1>3
<1>5. x - 1 \in 0..n /\ ~ (x <= x - 1)
  BY <1>4
<1>6. x - 1 \notin T
  BY <1>3, <1>5
<1> QED
  BY <1>3, <1>4, <1>5, <1>6

\* There is a function that begins with b and goes on by h.
Recursive(T, n, b, h) ==
  \E f \in [0..n -> T] : f[0] = b /\ \A i \in 1..n : f[i] = h[i][f[i - 1]]

\* From any base and any step.
LEMMA Recursion ==
  ASSUME NEW T, NEW n \in Nat, NEW b \in T, NEW h \in [1..n -> [T -> T]]
  PROVE  Recursive(T, n, b, h)
<1> DEFINE Up(f, k) == \A i \in 0..k : f[i] = IF i = 0 THEN b ELSE h[i][f[i - 1]]
           S == {k \in 0..n : \E f \in [0..k -> T] : Up(f, k)}
<1>1. 0 \in S
  <2> DEFINE f == [i \in 0..0 |-> b]
  <2>1. f \in [0..0 -> T] /\ Up(f, 0)
    OBVIOUS
  <2> HIDE DEF f
  <2>2. \E e \in [0..0 -> T] : Up(e, 0)
    BY <2>1, Zenon
  <2> QED
    BY <2>2
<1>2. ASSUME NEW k \in 1..n, k - 1 \in S PROVE k \in S
  <2>1. PICK f \in [0..k - 1 -> T] : Up(f, k - 1)
    BY <1>2
  <2> DEFINE g == [i \in 0..k |-> IF i = k THEN h[k][f[k - 1]] ELSE f[i]]
  <2>2. f[k - 1] \in T /\ h[k][f[k - 1]] \in T
    OBVIOUS
  <2>3. g \in [0..k -> T]
    BY <2>2
  <2>4. ASSUME NEW i \in 0..k PROVE g[i] = IF i = 0 THEN b ELSE h[i][g[i - 1]]
    <3>1. CASE i = k
      <4>1. g[i] = h[k][f[k - 1]] /\ g[i - 1] = f[k - 1]
        BY <3>1
      <4>2. i # 0
        BY <3>1
      <4> HIDE DEF g
      <4>3. g[i] = h[i][g[i - 1]]
        BY <3>1, <4>1, Zenon
      <4> QED
        BY <4>2, <4>3, Zenon
    <3>2. CASE i # k
      <4>1. i \in 0..k - 1 /\ g[i] = f[i]
        BY <3>2
      <4>2. f[i] = IF i = 0 THEN b ELSE h[i][f[i - 1]]
        BY <2>1, <4>1
      <4>3. i # 0 => g[i - 1] = f[i - 1]
        BY <3>2
      <4> QED
        BY <4>1, <4>2, <4>3
    <3> QED
      BY <3>1, <3>2
  <2>5. k \in 0..n
    OBVIOUS
  <2> HIDE DEF g
  <2>6. Up(g, k)
    BY <2>4, Zenon
  <2>7. \E e \in [0..k -> T] : Up(e, k)
    BY <2>3, <2>6, Zenon
  <2> QED
    BY <2>5, <2>7
<1> HIDE DEF S
<1>3. n \in S
  <2>1. \A i \in 0..n : i \in S
    BY <1>1, <1>2, Induction
  <2> QED
    BY <2>1
<1>4. PICK f \in [0..n -> T] : Up(f, n)
  BY <1>3 DEF S
<1>5. f[0] = b /\ \A i \in 1..n : f[i] = h[i][f[i - 1]]
  <2>1. f[0] = b
    BY <1>4
  <2>2. ASSUME NEW i \in 1..n PROVE f[i] = h[i][f[i - 1]]
    <3>1. i \in 0..n /\ i # 0
      OBVIOUS
    <3> QED
      BY <1>4, <3>1, Zenon
  <2> QED
    BY <2>1, <2>2
<1> QED
  BY <1>5 DEF Recursive

Fresh == [mode |-> "none", text |-> <<>>, kept |-> <<>>, queue |-> <<>>]

\* Where the loop of parse_query stands after each token.
LEMMA ScansIs ==
  ASSUME NEW U, "NUL" \in U, NEW text \in Seq(U)
  PROVE  /\ Scans(text) \in [0..Len(text) -> ScanStates(U)]
         /\ Scans(text)[0] = Fresh
         /\ \A k \in 1..Len(text) : Scans(text)[k] = Scan(Scans(text)[k - 1], text[k])
<1> DEFINE n == Len(text)
           S == ScanStates(U)
           h == [i \in 1..n |-> [s \in S |-> Scan(s, text[i])]]
           Def(f) == f = [k \in 0..n |->
                           IF k = 0 THEN [mode |-> "none", text |-> <<>>, kept |-> <<>>,
                                          queue |-> <<>>]
                           ELSE Scan(f[k - 1], text[k])]
           s == CHOOSE f : Def(f)
<1>1. n \in Nat /\ Fresh \in S
  BY DEF Fresh, ScanStates, Modes
<1>2. \A i \in 1..n : text[i] \in U
  OBVIOUS
<1>3. \A i \in 1..n, e \in S : Scan(e, text[i]) \in S
  BY <1>2, ScanIs
<1> HIDE DEF S
<1>4. h \in [1..n -> [S -> S]] /\ \A i \in 1..n, e \in S : h[i][e] = Scan(e, text[i])
  BY <1>3
<1> HIDE DEF h, n
<1>5. PICK f \in [0..n -> S] : f[0] = Fresh /\ \A i \in 1..n : f[i] = h[i][f[i - 1]]
  <2>1. Recursive(S, n, Fresh, h)
    BY <1>1, <1>4, Recursion
  <2> QED
    BY <2>1 DEF Recursive
<1>6. \A i \in 1..n : f[i] = Scan(f[i - 1], text[i])
  <2>1. ASSUME NEW i \in 1..n PROVE f[i] = Scan(f[i - 1], text[i])
    <3>1. i - 1 \in 0..n
      BY <1>1
    <3>2. f[i - 1] \in S
      BY <3>1
    <3> QED
      BY <1>4, <1>5, <3>2, Zenon
  <2> QED
    BY <2>1
<1>7. Def(f)
  <2>1. [k \in 0..n |-> f[k]]
        = [k \in 0..n |-> IF k = 0 THEN Fresh ELSE Scan(f[k - 1], text[k])]
    <3>1. ASSUME NEW k \in 0..n PROVE f[k] = IF k = 0 THEN Fresh ELSE Scan(f[k - 1], text[k])
      BY <1>1, <1>5, <1>6
    <3> QED
      BY <3>1, Zenon
  <2>2. f = [k \in 0..n |-> f[k]]
    OBVIOUS
  <2> QED
    BY <2>1, <2>2, Zenon DEF Fresh
<1>8. Def(s)
  BY <1>7, Zenon
<1>9. Scans(text) = s
  BY DEF Scans, n
<1> HIDE DEF s
<1>10. s[0] = Fresh /\ \A i \in 1..n : s[i] = Scan(s[i - 1], text[i])
  <2>1. \A k \in 0..n : s[k] = IF k = 0 THEN Fresh ELSE Scan(s[k - 1], text[k])
    BY <1>8, Zenon DEF Fresh
  <2> QED
    BY <1>1, <2>1
<1>11. s = f
  <2> DEFINE G == {i \in 0..n : s[i] = f[i]}
  <2>1. 0 \in G
    BY <1>1, <1>5, <1>10
  <2>2. \A i \in 1..n : i - 1 \in G => i \in G
    BY <1>6, <1>10
  <2> HIDE DEF G
  <2>3. \A i \in 0..n : i \in G
    BY <1>1, <2>1, <2>2, Induction
  <2>4. \A i \in 0..n : s[i] = f[i]
    BY <2>3 DEF G
  <2>5. s = [i \in 0..n |-> s[i]]
    <3>1. s = [k \in 0..n |-> IF k = 0 THEN Fresh ELSE Scan(s[k - 1], text[k])]
      BY <1>8 DEF Fresh
    <3> QED
      BY <3>1
  <2>6. f = [i \in 0..n |-> f[i]]
    OBVIOUS
  <2> QED
    BY <2>4, <2>5, <2>6, Zenon
<1>12. s \in [0..n -> S] /\ s[0] = Fresh /\ \A i \in 1..n : s[i] = Scan(s[i - 1], text[i])
  BY <1>10, <1>11
<1> QED
  BY <1>9, <1>12 DEF n, S

\* The same tokens are scanned alike.
LEMMA ScansAgree ==
  ASSUME NEW U, "NUL" \in U, NEW x \in Seq(U), NEW y \in Seq(U),
         NEW k \in 0..Len(x), k <= Len(y), \A j \in 1..k : x[j] = y[j]
  PROVE  Scans(x)[k] = Scans(y)[k]
<1> DEFINE G == {i \in 0..k : Scans(x)[i] = Scans(y)[i]}
<1>1. /\ Scans(x)[0] = Scans(y)[0]
      /\ \A i \in 1..Len(x) : Scans(x)[i] = Scan(Scans(x)[i - 1], x[i])
      /\ \A i \in 1..Len(y) : Scans(y)[i] = Scan(Scans(y)[i - 1], y[i])
  BY ScansIs
<1>2. k \in Nat /\ 0 \in G
  BY <1>1
<1>3. \A i \in 1..k : i - 1 \in G => i \in G
  <2>1. ASSUME NEW i \in 1..k, i - 1 \in G PROVE i \in G
    <3>1. i \in 1..Len(x) /\ i \in 1..Len(y) /\ x[i] = y[i]
      OBVIOUS
    <3>2. Scans(x)[i - 1] = Scans(y)[i - 1]
      BY <2>1
    <3>3. Scans(x)[i] = Scan(Scans(x)[i - 1], x[i]) /\ Scans(y)[i] = Scan(Scans(y)[i - 1], y[i])
      BY <1>1, <3>1
    <3>4. Scans(x)[i] = Scans(y)[i]
      BY <3>1, <3>2, <3>3, Zenon
    <3> QED
      BY <3>4
  <2> QED
    BY <2>1
<1> HIDE DEF G
<1>4. k \in G
  <2>1. \A i \in 0..k : i \in G
    BY <1>2, <1>3, Induction
  <2> QED
    BY <1>2, <2>1
<1> QED
  BY <1>4 DEF G

\* A command lasts until the text does.
LEMMA CommandLasts ==
  ASSUME NEW U, "NUL" \in U, NEW text \in Seq(U), NEW a \in 0..Len(text), NEW k \in a..Len(text),
         Scans(text)[a].mode = "command"
  PROVE  Scans(text)[k].mode = "command"
<1> DEFINE G == {i \in 0..Len(text) : i >= a => Scans(text)[i].mode = "command"}
<1>1. /\ Scans(text) \in [0..Len(text) -> ScanStates(U)]
      /\ \A i \in 1..Len(text) : Scans(text)[i] = Scan(Scans(text)[i - 1], text[i])
  BY ScansIs
<1>2. Len(text) \in Nat /\ 0 \in G
  OBVIOUS
<1>3. \A i \in 1..Len(text) : i - 1 \in G => i \in G
  <2>1. ASSUME NEW i \in 1..Len(text), i - 1 \in G, i > a PROVE Scans(text)[i].mode = "command"
    <3>1. Scans(text)[i - 1].mode = "command"
      BY <2>1
    <3>2. Scans(text)[i - 1] \in ScanStates(U) /\ text[i] \in U
      BY <1>1
    <3>3. Scanned(Scans(text)[i - 1], text[i], Scans(text)[i])
      BY <1>1, <3>2, ScanIs
    <3> QED
      BY <3>1, <3>3 DEF Scanned
  <2>2. ASSUME NEW i \in 1..Len(text), i - 1 \in G PROVE i \in G
    <3>1. i >= a => i = a \/ i > a
      OBVIOUS
    <3> QED
      BY <2>1, <2>2, <3>1
  <2> QED
    BY <2>2
<1> HIDE DEF G
<1>4. k \in G
  <2>1. \A i \in 0..Len(text) : i \in G
    BY <1>2, <1>3, Induction
  <2> QED
    BY <1>2, <2>1
<1> QED
  BY <1>4 DEF G

\* So far no statement was ended, and the buffer is as it was.
Whole(text, k) ==
  Scans(text)[k].queue = <<>> /\ \A j \in 1..k : Scans(text)[k].kept[j] = text[j]

\* A statement was ended at m, the first of them, and a NUL is there.
CutAt(text, k, m) ==
  /\ Scans(text)[k].kept[m] = "NUL"
  /\ \A j \in 1..m - 1 : Scans(text)[k].kept[j] = text[j]
  /\ Scans(text)[m - 1].mode = "query"
  /\ Whole(text, m - 1)

\* The buffer that is kept is as long as the text, and the same up to the first NUL.
LEMMA KeptIs ==
  ASSUME NEW U, "NUL" \in U, NEW text \in Seq(U), NEW k \in 0..Len(text)
  PROVE  /\ Scans(text)[k].kept \in Seq(U) /\ Len(Scans(text)[k].kept) = k
         /\ Whole(text, k) \/ \E m \in 1..k : CutAt(text, k, m)
<1> DEFINE Good(i) == /\ Scans(text)[i].kept \in Seq(U) /\ Len(Scans(text)[i].kept) = i
                      /\ Whole(text, i) \/ \E m \in 1..i : CutAt(text, i, m)
           G == {i \in 0..Len(text) : Good(i)}
<1>1. /\ Scans(text) \in [0..Len(text) -> ScanStates(U)]
      /\ Scans(text)[0] = Fresh
      /\ \A i \in 1..Len(text) : Scans(text)[i] = Scan(Scans(text)[i - 1], text[i])
  BY ScansIs
<1>2. 0 \in G
  <2>1. Good(0)
    BY <1>1 DEF Fresh, Whole
  <2> QED
    BY <2>1
<1>3. ASSUME NEW i \in 1..Len(text), i - 1 \in G PROVE i \in G
  <2> DEFINE s == Scans(text)[i - 1]
             r == Scans(text)[i]
  <2>1. i - 1 \in 0..Len(text) /\ s \in ScanStates(U) /\ text[i] \in U /\ i \in Nat
    BY <1>1
  <2>2. Scanned(s, text[i], r)
    BY <1>1, <2>1, ScanIs
  <2>3. s.kept \in Seq(U) /\ Len(s.kept) = i - 1 /\ s.mode \in Modes
    BY <1>3, <2>1 DEF ScanStates
  <2> DEFINE c == IF s.mode = "query" /\ text[i] \in Terminators THEN "NUL" ELSE text[i]
  <2>4. c \in U /\ r.kept = Append(s.kept, c)
    BY <2>1, <2>2 DEF Scanned
  <2>5. /\ r.kept \in Seq(U) /\ Len(r.kept) = i /\ r.kept[i] = c
        /\ \A j \in 1..i - 1 : r.kept[j] = s.kept[j]
    BY <2>1, <2>3, <2>4
  <2>6. CASE \E m \in 1..i - 1 : CutAt(text, i - 1, m)
    <3>1. PICK m \in 1..i - 1 : CutAt(text, i - 1, m)
      BY <2>6
    <3>2. CutAt(text, i, m)
      BY <2>5, <3>1 DEF CutAt
    <3>3. m \in 1..i
      BY <2>1
    <3> QED
      BY <2>1, <2>5, <3>2, <3>3
  <2>7. CASE Whole(text, i - 1)
    <3>1. s.queue = <<>> /\ \A j \in 1..i - 1 : r.kept[j] = text[j]
      BY <2>5, <2>7 DEF Whole
    <3>2. CASE s.mode = "query" /\ text[i] \in Terminators
      <4>1. CutAt(text, i, i)
        BY <2>5, <2>7, <3>1, <3>2 DEF CutAt
      <4>2. i \in 1..i
        BY <2>1
      <4> QED
        BY <2>1, <2>5, <4>1, <4>2
    <3>3. CASE ~ (s.mode = "query" /\ text[i] \in Terminators)
      <4>1. r.queue = <<>>
        BY <2>2, <2>3, <3>1, <3>3 DEF Scanned, Modes
      <4>2. \A j \in 1..i : r.kept[j] = text[j]
        BY <2>1, <2>5, <3>1, <3>3
      <4>3. Whole(text, i)
        BY <4>1, <4>2 DEF Whole
      <4> QED
        BY <2>1, <2>5, <4>3
    <3> QED
      BY <3>2, <3>3
  <2> QED
    BY <1>3, <2>6, <2>7
<1> HIDE DEF G
<1>4. k \in G
  <2>1. Len(text) \in Nat /\ \A i \in 1..Len(text) : i - 1 \in G => i \in G
    BY <1>3
  <2>2. \A i \in 0..Len(text) : i \in G
    BY <1>2, <2>1, Induction
  <2> QED
    BY <2>2
<1> QED
  BY <1>4 DEF G

\* Induction from one number up to another.
LEMMA InductionFrom ==
  ASSUME NEW a \in Nat, NEW k \in Nat, NEW S, a \in S,
         \A e \in a + 1..k : e - 1 \in S => e \in S
  PROVE  \A e \in a..k : e \in S
<1>1. SUFFICES ASSUME NEW e \in a..k PROVE e \in S
  OBVIOUS
<1> DEFINE n == k - a
           T == {i \in 0..n : a + i \in S}
<1>2. n \in Nat /\ e - a \in 0..n
  OBVIOUS
<1>3. 0 \in T
  BY <1>2
<1>4. ASSUME NEW i \in 1..n, i - 1 \in T PROVE i \in T
  <2>1. a + i \in a + 1..k /\ (a + i) - 1 = a + (i - 1)
    OBVIOUS
  <2>2. (a + i) - 1 \in S
    BY <1>4, <2>1
  <2> QED
    BY <2>1, <2>2
<1> HIDE DEF T, n
<1>5. \A i \in 0..n : i \in T
  BY <1>2, <1>3, <1>4, Induction
<1>6. a + (e - a) \in S
  BY <1>2, <1>5 DEF T
<1> QED
  BY <1>6

-----------------------------------------------------------------------------
(* The states of parse_query between quotes and brackets, and what they    *)
(* have to do with Balanced.                                               *)

\* m is the state after each token from i to k of a statement that begins at i.
Follows(u, i, k, m) ==
  /\ m[i] = IF u[i] \in Quotes THEN u[i] ELSE "query"
  /\ \A e \in i + 1..k : m[e] = Turn(m[e - 1], u[e])
  /\ \A e \in i..k : m[e] \in {"query"} \cup Openers

Covers(u, i, k, chosen) ==
  /\ chosen \in SUBSET Spans(u, i, k)
  /\ \A s, t \in chosen : Apart(s, t)
  /\ \A j \in i..k : Opens(u, i, j) => \E s \in chosen : Within(j, s)

\* At e something is open since a, and before it all is closed.
OpenSince(u, i, e, a) ==
  /\ Opens(u, i, a)
  /\ \A d \in a + 1..e : u[d] # Closer[u[a]]
  /\ \E chosen : Covers(u, i, a - 1, chosen)

Progress(u, i, e, m) ==
  \/ m[e] = "query" /\ \E chosen : Covers(u, i, e, chosen)
  \/ m[e] # "query" /\ \E a \in i..e : u[a] = m[e] /\ OpenSince(u, i, e, a)

\* Of an empty text nothing need be covered.
LEMMA NothingCovers == ASSUME NEW u, NEW i \in Nat, NEW k \in Int, k < i PROVE Covers(u, i, k, {})
  BY DEF Covers

\* The longer the text, the more spans there are.
LEMMA SpansGrow ==
  ASSUME NEW u, NEW i \in Nat, NEW k \in Int, NEW l \in Int, k <= l
  PROVE  Spans(u, i, k) \subseteq Spans(u, i, l)
<1>1. (i..k) \X (i..k) \subseteq (i..l) \X (i..l)
  OBVIOUS
<1> QED
  BY <1>1 DEF Spans

\* At the first token of a statement it is open or balanced so far, ...
LEMMA ProgressStarts ==
  ASSUME NEW u, NEW i \in Nat, NEW k \in Nat, i <= k, NEW m, Follows(u, i, k, m)
  PROVE  Progress(u, i, i, m)
<1>1. i \in i..i /\ i - 1 < i /\ i - 1 \in Int
  OBVIOUS
<1>2. CASE u[i] \in Quotes
  <2>1. m[i] = u[i] /\ u[i] # "query" /\ u[i] \in Openers
    BY <1>2 DEF Follows, Quotes, Openers
  <2>2. Covers(u, i, i - 1, {})
    BY <1>1, NothingCovers
  <2>3. Opens(u, i, i)
    BY <1>2, <2>1 DEF Opens
  <2>4. \A d \in i + 1..i : u[d] # Closer[u[i]]
    OBVIOUS
  <2>5. OpenSince(u, i, i, i)
    BY <2>2, <2>3, <2>4 DEF OpenSince
  <2> QED
    BY <1>1, <2>1, <2>5 DEF Progress
<1>3. CASE u[i] \notin Quotes
  <2>1. m[i] = "query"
    BY <1>3 DEF Follows
  <2>2. ~ Opens(u, i, i)
    BY <1>3 DEF Opens
  <2>3. Covers(u, i, i, {})
    BY <2>2 DEF Covers
  <2> QED
    BY <2>1, <2>3 DEF Progress
<1> QED
  BY <1>2, <1>3

\* ... and so it is at each later one.
LEMMA ProgressGoesOn ==
  ASSUME NEW u, NEW i \in Nat, NEW k \in Nat, NEW m, Follows(u, i, k, m),
         NEW e \in i + 1..k, Progress(u, i, e - 1, m)
  PROVE  Progress(u, i, e, m)
<1>0. e \in Nat /\ e - 1 \in Nat /\ e > i /\ e \in i..e
  OBVIOUS
<1>1. m[e] = Turn(m[e - 1], u[e]) /\ m[e - 1] \in {"query"} \cup Openers
  BY DEF Follows
<1>2. "query" \notin Openers
  BY DEF Openers, Quotes
<1>3. CASE m[e - 1] = "query"
  <2>1. PICK chosen : Covers(u, i, e - 1, chosen)
    BY <1>3 DEF Progress
  <2>2. CASE u[e] \in Openers
    <3>1. m[e] = u[e] /\ m[e] # "query"
      BY <1>1, <1>2, <1>3, <2>2 DEF Turn
    <3>2. Opens(u, i, e) /\ \A d \in e + 1..e : u[d] # Closer[u[e]]
      BY <1>0, <2>2 DEF Opens
    <3>3. OpenSince(u, i, e, e)
      BY <2>1, <3>2 DEF OpenSince
    <3> QED
      BY <1>0, <3>1, <3>3 DEF Progress
  <2>3. CASE u[e] \notin Openers
    <3>1. m[e] = "query"
      BY <1>1, <1>3, <2>3 DEF Turn
    <3>2. ~ Opens(u, i, e)
      BY <2>3 DEF Opens
    <3>3. chosen \in SUBSET Spans(u, i, e)
      BY <1>0, <2>1, SpansGrow DEF Covers
    <3>4. ASSUME NEW j \in i..e, Opens(u, i, j) PROVE \E s \in chosen : Within(j, s)
      <4>1. j \in i..e - 1
        BY <3>2, <3>4
      <4> QED
        BY <2>1, <3>4, <4>1 DEF Covers
    <3>5. Covers(u, i, e, chosen)
      BY <2>1, <3>3, <3>4 DEF Covers
    <3> QED
      BY <3>1, <3>5 DEF Progress
  <2> QED
    BY <2>2, <2>3
<1>4. CASE m[e - 1] # "query"
  <2>1. PICK a \in i..e - 1 : u[a] = m[e - 1] /\ OpenSince(u, i, e - 1, a)
    BY <1>4 DEF Progress
  <2>2. PICK chosen : Covers(u, i, a - 1, chosen)
    BY <2>1 DEF OpenSince
  <2>3. a \in Nat /\ a < e /\ a \in i..e
    OBVIOUS
  <2>4. CASE u[e] = Closer[u[a]]
    <3>1. m[e] = "query"
      BY <1>1, <1>4, <2>1, <2>4 DEF Turn
    <3> DEFINE new == <<a, e>>
    <3>2. new[1] = a /\ new[2] = e /\ new \in (i..e) \X (i..e)
      BY <1>0, <2>3
    <3>3. Span(u, i, a, e)
      <4>1. \A d \in a + 1..e - 1 : u[d] # Closer[u[a]]
        BY <2>1 DEF OpenSince
      <4>2. Opens(u, i, a)
        BY <2>1 DEF OpenSince
      <4> QED
        BY <2>3, <2>4, <4>1, <4>2 DEF Span
    <3>4. new \in Spans(u, i, e)
      BY <3>2, <3>3 DEF Spans
    <3>5. chosen \in SUBSET Spans(u, i, e)
      <4>1. Spans(u, i, a - 1) \subseteq Spans(u, i, e)
        BY <1>0, <2>3, SpansGrow
      <4> QED
        BY <2>2, <4>1 DEF Covers
    <3>6. \A s \in chosen : s[2] < a
      BY <2>2, <2>3 DEF Covers, Spans
    <3> DEFINE more == chosen \cup {new}
    <3>7. more \in SUBSET Spans(u, i, e)
      BY <3>4, <3>5
    <3>8. ASSUME NEW s \in more, NEW t \in more PROVE Apart(s, t)
      <4>1. CASE s \in chosen /\ t \in chosen
        BY <2>2, <4>1 DEF Covers
      <4>2. CASE s \in chosen /\ t = new
        BY <3>2, <3>6, <4>2 DEF Apart
      <4>3. CASE s = new /\ t \in chosen
        BY <3>2, <3>6, <4>3 DEF Apart
      <4>4. CASE s = new /\ t = new
        BY <4>4 DEF Apart
      <4> QED
        BY <4>1, <4>2, <4>3, <4>4
    <3>9. ASSUME NEW j \in i..e, Opens(u, i, j) PROVE \E s \in more : Within(j, s)
      <4>1. CASE j < a
        <5>1. j \in i..a - 1
          BY <2>3, <4>1
        <5> QED
          BY <2>2, <3>9, <5>1 DEF Covers
      <4>2. CASE ~ (j < a)
        <5>1. Within(j, new)
          BY <2>3, <3>2, <4>2 DEF Within
        <5> QED
          BY <5>1
      <4> QED
        BY <4>1, <4>2
    <3> HIDE DEF more
    <3>10. Covers(u, i, e, more)
      BY <3>7, <3>8, <3>9 DEF Covers
    <3> QED
      BY <3>1, <3>10 DEF Progress
  <2>5. CASE u[e] # Closer[u[a]]
    <3>1. m[e] = m[e - 1]
      BY <1>1, <1>4, <2>1, <2>5 DEF Turn
    <3>2. ASSUME NEW d \in a + 1..e PROVE u[d] # Closer[u[a]]
      <4>1. d \in a + 1..e - 1 \/ d = e
        BY <2>3
      <4> QED
        BY <2>1, <2>5, <4>1 DEF OpenSince
    <3>3. OpenSince(u, i, e, a)
      BY <2>1, <3>2 DEF OpenSince
    <3> QED
      BY <1>4, <2>1, <2>3, <3>1, <3>3 DEF Progress
  <2> QED
    BY <2>4, <2>5
<1> QED
  BY <1>3, <1>4

\* Spans that cover the openers of the whole text are open where the scan says so.
Straddles(s, e) == s[1] <= e /\ e < s[2]
Open(u, chosen, e, m) ==
  \/ m[e] = "query" /\ \A s \in chosen : ~ Straddles(s, e)
  \/ m[e] # "query" /\ \E s \in chosen : Straddles(s, e) /\ u[s[1]] = m[e]

\* At the first token what is open is what a chosen span straddles, ...
LEMMA OpenStarts ==
  ASSUME NEW u, NEW i \in Nat, NEW k \in Nat, i <= k, NEW m, Follows(u, i, k, m),
         NEW chosen, Covers(u, i, k, chosen)
  PROVE  Open(u, chosen, i, m)
<1>1. \A s \in chosen : s[1] \in i..k /\ s[2] \in i..k /\ s[1] < s[2] /\ Opens(u, i, s[1])
  BY DEF Covers, Spans, Span
<1>2. CASE u[i] \in Quotes
  <2>1. m[i] = u[i] /\ m[i] # "query" /\ Opens(u, i, i)
    BY <1>2 DEF Follows, Quotes, Openers, Opens
  <2>2. PICK s \in chosen : Within(i, s)
    BY <2>1 DEF Covers
  <2>3. s[1] = i /\ Straddles(s, i)
    BY <1>1, <2>2 DEF Within, Straddles
  <2> QED
    BY <2>1, <2>3 DEF Open
<1>3. CASE u[i] \notin Quotes
  <2>1. m[i] = "query" /\ ~ Opens(u, i, i)
    BY <1>3 DEF Follows, Opens
  <2>2. ASSUME NEW s \in chosen, Straddles(s, i) PROVE FALSE
    BY <1>1, <2>1, <2>2 DEF Straddles
  <2> QED
    BY <2>1, <2>2 DEF Open
<1> QED
  BY <1>2, <1>3

\* ... and so it is at each later one.
LEMMA OpenGoesOn ==
  ASSUME NEW u, NEW i \in Nat, NEW k \in Nat, NEW m, Follows(u, i, k, m),
         NEW chosen, Covers(u, i, k, chosen),
         NEW e \in i + 1..k, Open(u, chosen, e - 1, m)
  PROVE  Open(u, chosen, e, m)
<1>0. e \in Nat /\ e - 1 \in Nat /\ e > i /\ e \in i..k
  OBVIOUS
<1>1. \A s \in chosen : /\ s[1] \in i..k /\ s[2] \in i..k /\ s[1] < s[2]
                        /\ Opens(u, i, s[1]) /\ u[s[2]] = Closer[u[s[1]]]
                        /\ \A d \in s[1] + 1..s[2] - 1 : u[d] # u[s[2]]
  BY DEF Covers, Spans, Span
<1>2. m[e] = Turn(m[e - 1], u[e]) /\ m[e - 1] \in {"query"} \cup Openers
  BY DEF Follows
<1>3. "query" \notin Openers
  BY DEF Openers, Quotes
<1>4. CASE m[e - 1] = "query"
  <2>1. \A s \in chosen : ~ Straddles(s, e - 1)
    BY <1>4 DEF Open
  <2>2. CASE u[e] \in Openers
    <3>1. m[e] = u[e] /\ m[e] # "query" /\ Opens(u, i, e)
      BY <1>0, <1>2, <1>3, <1>4, <2>2 DEF Turn, Opens
    <3>2. PICK s \in chosen : Within(e, s)
      BY <1>0, <3>1 DEF Covers
    <3>3. s[1] = e /\ Straddles(s, e)
      BY <1>0, <1>1, <2>1, <3>2 DEF Within, Straddles
    <3> QED
      BY <3>1, <3>3 DEF Open
  <2>3. CASE u[e] \notin Openers
    <3>1. m[e] = "query" /\ ~ Opens(u, i, e)
      BY <1>2, <1>4, <2>3 DEF Turn, Opens
    <3>2. ASSUME NEW s \in chosen, Straddles(s, e) PROVE FALSE
      BY <1>0, <1>1, <2>1, <3>1, <3>2 DEF Straddles
    <3> QED
      BY <3>1, <3>2 DEF Open
  <2> QED
    BY <2>2, <2>3
<1>5. CASE m[e - 1] # "query"
  <2>1. PICK s \in chosen : Straddles(s, e - 1) /\ u[s[1]] = m[e - 1]
    BY <1>5 DEF Open
  <2>2. /\ s[1] \in i..k /\ s[2] \in i..k /\ s[1] < e /\ e <= s[2]
        /\ u[s[2]] = Closer[m[e - 1]]
        /\ \A d \in s[1] + 1..s[2] - 1 : u[d] # u[s[2]]
    BY <1>0, <1>1, <2>1 DEF Straddles
  <2>3. CASE u[e] = Closer[m[e - 1]]
    <3>1. m[e] = "query"
      BY <1>2, <1>5, <2>3 DEF Turn
    <3>2. s[2] = e
      BY <1>0, <2>2, <2>3
    <3>3. ASSUME NEW t \in chosen, Straddles(t, e) PROVE FALSE
      <4>1. Apart(s, t)
        BY DEF Covers
      <4> QED
        BY <1>0, <1>1, <2>2, <3>2, <3>3, <4>1 DEF Straddles, Apart
    <3> QED
      BY <3>1, <3>3 DEF Open
  <2>4. CASE u[e] # Closer[m[e - 1]]
    <3>1. m[e] = m[e - 1]
      BY <1>2, <1>5, <2>4 DEF Turn
    <3>2. Straddles(s, e)
      BY <1>0, <2>2, <2>4 DEF Straddles
    <3> QED
      BY <1>5, <2>1, <3>1, <3>2 DEF Open
  <2> QED
    BY <2>3, <2>4
<1> QED
  BY <1>4, <1>5

\* parse_query is outside quotes and brackets where what it has read is balanced.
LEMMA QueryIsBalanced ==
  ASSUME NEW u, NEW i \in Nat, NEW k \in Nat, i <= k, NEW m, Follows(u, i, k, m)
  PROVE  m[k] = "query" <=> Balanced(u, i, k)
<1>1. ASSUME m[k] = "query" PROVE Balanced(u, i, k)
  <2> DEFINE G == {e \in i..k : Progress(u, i, e, m)}
  <2>1. i \in G
    BY ProgressStarts
  <2>2. \A e \in i + 1..k : e - 1 \in G => e \in G
    BY ProgressGoesOn
  <2> HIDE DEF G
  <2>3. \A e \in i..k : e \in G
    BY <2>1, <2>2, InductionFrom
  <2>4. Progress(u, i, k, m)
    BY <2>3 DEF G
  <2>5. PICK chosen : Covers(u, i, k, chosen)
    BY <1>1, <2>4 DEF Progress
  <2> QED
    BY <2>5 DEF Covers, Balanced
<1>2. ASSUME Balanced(u, i, k) PROVE m[k] = "query"
  <2>1. PICK chosen : Covers(u, i, k, chosen)
    BY <1>2 DEF Balanced, Covers
  <2> DEFINE G == {e \in i..k : Open(u, chosen, e, m)}
  <2>2. i \in G
    BY <2>1, OpenStarts
  <2>3. \A e \in i + 1..k : e - 1 \in G => e \in G
    BY <2>1, OpenGoesOn
  <2> HIDE DEF G
  <2>4. \A e \in i..k : e \in G
    BY <2>2, <2>3, InductionFrom
  <2>5. Open(u, chosen, k, m)
    BY <2>4 DEF G
  <2>6. \A s \in chosen : ~ Straddles(s, k)
    BY <2>1 DEF Straddles, Covers, Spans
  <2> QED
    BY <2>5, <2>6 DEF Open
<1> QED
  BY <1>1, <1>2

\* A set of numbers up to n has a greatest one.
LEMMA GreatestNumber ==
  ASSUME NEW n \in Nat, NEW T \in SUBSET (0..n), T # {}
  PROVE  \E x \in T : \A y \in T : y <= x
<1> DEFINE D == {n - y : y \in T}
<1>1. D \in SUBSET Nat /\ D # {}
  <2>1. ASSUME NEW y \in T PROVE n - y \in Nat
    OBVIOUS
  <2>2. D \in SUBSET Nat
    BY <2>1
  <2>3. PICK y : y \in T
    OBVIOUS
  <2>4. n - y \in D
    BY <2>3
  <2> QED
    BY <2>2, <2>4
<1>2. \A y \in T : n - y \in D
  OBVIOUS
<1>3. \A d \in D : \E y \in T : d = n - y
  OBVIOUS
<1> HIDE DEF D
<1>4. PICK d \in D : \A e \in D : d <= e
  BY <1>1, LeastNumber
<1>5. PICK x \in T : d = n - x
  BY <1>3
<1>6. ASSUME NEW y \in T PROVE y <= x
  <2>1. n - x <= n - y
    BY <1>2, <1>4, <1>5
  <2> QED
    BY <2>1
<1> QED
  BY <1>6

\* The end of a line is trimmed off.
LEMMA TrimIs ==
  ASSUME NEW U, "\n" \in U, NEW text \in Seq(U), text # <<>>
  PROVE  Trim(text) \in Seq(U) /\ Trim(Append(text, "\n")) = Trim(text)
<1> DEFINE Keep(s) == {1} \cup {i \in DOMAIN s : s[i] \notin Blanks}
           long == Append(text, "\n")
           m == Max(Keep(text))
<1>1. Len(text) \in Nat \ {0} /\ DOMAIN text = 1..Len(text) /\ long \in Seq(U)
  OBVIOUS
<1>2. Keep(long) = Keep(text)
  <2>1. DOMAIN long = 1..Len(text) + 1 /\ long[Len(text) + 1] \in Blanks
    <3>1. "\n" \in Blanks
      BY DEF Blanks
    <3>2. Len(long) = Len(text) + 1 /\ long[Len(text) + 1] = "\n"
      OBVIOUS
    <3> HIDE DEF long
    <3> QED
      BY <1>1, <3>1, <3>2
  <2>2. \A i \in 1..Len(text) : long[i] = text[i]
    OBVIOUS
  <2> HIDE DEF long
  <2> QED
    BY <1>1, <2>1, <2>2
<1>3. Keep(text) \in SUBSET (0..Len(text)) /\ Keep(text) # {} /\ Keep(text) \subseteq 1..Len(text)
  BY <1>1
<1>4. m \in 1..Len(text)
  <2> DEFINE K == Keep(text)
  <2>1. K \in SUBSET (0..Len(text)) /\ K # {} /\ K \subseteq 1..Len(text)
    BY <1>3
  <2> HIDE DEF K
  <2>2. \E x \in K : \A y \in K : y <= x
    BY <1>1, <2>1, GreatestNumber
  <2>3. Max(K) \in K
    BY <2>1, <2>2 DEF Max
  <2> QED
    BY <2>1, <2>3 DEF K
<1>5. Trim(text) = SubSeq(text, 1, m) /\ Trim(long) = SubSeq(long, 1, m)
  BY <1>2 DEF Trim
<1> HIDE DEF m
<1>6. SubSeq(long, 1, m) = SubSeq(text, 1, m)
  BY <1>1, <1>4
<1>7. SubSeq(text, 1, m) \in Seq(U)
  BY <1>1, <1>4
<1> QED
  BY <1>5, <1>6, <1>7

-----------------------------------------------------------------------------
(* What Cuts reads in a text. *)

\* A statement is over at the first place where it ends, or nowhere.
LEMMA OverIs ==
  ASSUME NEW U, NEW u \in Seq(U), NEW i \in 1..Len(u)
  PROVE  /\ Over(u, i) \in i + 1..Len(u) + 1
         /\ Over(u, i) <= Len(u) => Ends(u, i, Over(u, i))
         /\ \A e \in i + 1..Over(u, i) - 1 : ~ Ends(u, i, e)
<1> DEFINE n == Len(u)
           K == {k \in i + 1..n : Ends(u, i, k)} \cup {n + 1}
<1>1. n \in Nat /\ i \in Nat /\ i <= n
  OBVIOUS
<1>2. K \in SUBSET Nat /\ K # {} /\ K \subseteq i + 1..n + 1
  BY <1>1
<1>3. \A k \in K : k <= n => Ends(u, i, k)
  BY <1>1
<1>4. \A k \in i + 1..n : Ends(u, i, k) => k \in K
  OBVIOUS
<1>5. Over(u, i) = Min(K)
  BY DEF Over
<1> HIDE DEF K, n
<1>6. Min(K) \in K /\ \A k \in K : Min(K) <= k
  <2>1. \E x \in K : \A y \in K : x <= y
    BY <1>2, LeastNumber
  <2> QED
    BY <2>1 DEF Min
<1>7. \A e \in i + 1..Over(u, i) - 1 : ~ Ends(u, i, e)
  <2>0. Over(u, i) \in i + 1..n + 1
    BY <1>2, <1>5, <1>6
  <2>1. ASSUME NEW e \in i + 1..Over(u, i) - 1, Ends(u, i, e) PROVE FALSE
    <3>1. e \in i + 1..n /\ e < Over(u, i)
      BY <1>1, <2>0
    <3>2. Over(u, i) <= e
      BY <1>4, <1>5, <1>6, <2>1, <3>1
    <3> QED
      BY <1>1, <2>0, <3>1, <3>2
  <2> QED
    BY <2>1
<1> QED
  BY <1>2, <1>3, <1>5, <1>6, <1>7 DEF n

CutStates(U) == [over : Nat, texts : Seq(Seq(U))]

CutStep(u, before, n) ==
  IF n <= before.over \/ u[n] \in Blanks \cup Terminators THEN before
  ELSE [over  |-> Over(u, n),
        texts |-> IF Over(u, n) > Len(u) THEN before.texts
                  ELSE Append(before.texts, Statement(u, n))]

\* A statement that is over is a text.
LEMMA StatementIs ==
  ASSUME NEW U, "\n" \in U, NEW u \in Seq(U), NEW n \in 1..Len(u), Over(u, n) <= Len(u)
  PROVE  Statement(u, n) \in Seq(U)
<1> DEFINE text == SubSeq(u, n, Over(u, n) - 1)
<1>1. Over(u, n) \in n + 1..Len(u)
  BY OverIs
<1>2. text \in Seq(U) /\ Len(text) = Over(u, n) - n
  BY <1>1
<1> HIDE DEF text
<1>3. text # <<>>
  BY <1>1, <1>2
<1>4. Trim(text) \in Seq(U)
  BY <1>2, <1>3, TrimIs
<1> QED
  BY <1>2, <1>4 DEF Statement, text

\* A step of Cuts has a type, and never goes back.
LEMMA CutStepIs ==
  ASSUME NEW U, "\n" \in U, NEW u \in Seq(U), NEW n \in 1..Len(u), NEW b \in CutStates(U)
  PROVE  /\ CutStep(u, b, n) \in CutStates(U)
         /\ CutStep(u, b, n).over >= b.over
<1>1. Over(u, n) \in Nat /\ Over(u, n) > n
  BY OverIs
<1>2. Over(u, n) <= Len(u) => Statement(u, n) \in Seq(U)
  BY StatementIs
<1>3. b.over \in Nat /\ b.texts \in Seq(Seq(U))
  BY DEF CutStates
<1> DEFINE texts == IF Over(u, n) > Len(u) THEN b.texts ELSE Append(b.texts, Statement(u, n))
<1>4. texts \in Seq(Seq(U))
  BY <1>1, <1>2, <1>3
<1> HIDE DEF texts
<1>5. [over |-> Over(u, n), texts |-> texts] \in CutStates(U)
  BY <1>1, <1>4 DEF CutStates
<1> QED
  BY <1>1, <1>3, <1>5 DEF CutStep, texts

NoCuts == [over |-> 0, texts |-> <<>>]

\* Cuts goes a step at a time.
LEMMA CutsIs ==
  ASSUME NEW U, "\n" \in U, NEW u \in Seq(U)
  PROVE  /\ Cuts(u) \in [0..Len(u) -> CutStates(U)]
         /\ Cuts(u)[0] = NoCuts
         /\ \A k \in 1..Len(u) : Cuts(u)[k] = CutStep(u, Cuts(u)[k - 1], k)
<1> DEFINE n == Len(u)
           S == CutStates(U)
           h == [i \in 1..n |-> [s \in S |-> CutStep(u, s, i)]]
           Def(f) == f = [k \in 0..n |->
                           IF k = 0 THEN [over |-> 0, texts |-> <<>>]
                           ELSE LET before == f[k - 1]
                                IN  IF k <= before.over \/ u[k] \in Blanks \cup Terminators
                                    THEN before
                                    ELSE [over  |-> Over(u, k),
                                          texts |-> IF Over(u, k) > Len(u) THEN before.texts
                                                    ELSE Append(before.texts, Statement(u, k))]]
           s == CHOOSE f : Def(f)
<1>1. n \in Nat /\ NoCuts \in S
  BY DEF NoCuts, CutStates
<1>2. \A i \in 1..n, e \in S : CutStep(u, e, i) \in S
  BY CutStepIs
<1> HIDE DEF S
<1>3. h \in [1..n -> [S -> S]] /\ \A i \in 1..n, e \in S : h[i][e] = CutStep(u, e, i)
  BY <1>2
<1>4. Cuts(u) = s
  BY DEF Cuts
<1>5. \A f : Def(f) <=> f = [k \in 0..n |-> IF k = 0 THEN NoCuts ELSE CutStep(u, f[k - 1], k)]
  BY Zenon DEF CutStep, NoCuts
<1> HIDE DEF h, n, Def
<1>6. PICK f \in [0..n -> S] : f[0] = NoCuts /\ \A i \in 1..n : f[i] = h[i][f[i - 1]]
  <2>1. Recursive(S, n, NoCuts, h)
    BY <1>1, <1>3, Recursion
  <2> QED
    BY <2>1 DEF Recursive
<1>7. \A i \in 1..n : f[i] = CutStep(u, f[i - 1], i)
  <2>1. ASSUME NEW i \in 1..n PROVE f[i] = CutStep(u, f[i - 1], i)
    <3>1. i - 1 \in 0..n
      BY <1>1
    <3>2. f[i - 1] \in S
      BY <3>1
    <3> QED
      BY <1>3, <1>6, <3>2, Zenon
  <2> QED
    BY <2>1
<1>8. Def(f)
  <2>1. [k \in 0..n |-> f[k]] = [k \in 0..n |-> IF k = 0 THEN NoCuts ELSE CutStep(u, f[k - 1], k)]
    <3>1. ASSUME NEW k \in 0..n PROVE f[k] = IF k = 0 THEN NoCuts ELSE CutStep(u, f[k - 1], k)
      BY <1>1, <1>6, <1>7
    <3> QED
      BY <3>1, Zenon
  <2>2. f = [k \in 0..n |-> f[k]]
    OBVIOUS
  <2> QED
    BY <1>5, <2>1, <2>2, Zenon
<1>9. Def(s)
  BY <1>8, Zenon
<1> HIDE DEF s
<1>10. s = [k \in 0..n |-> IF k = 0 THEN NoCuts ELSE CutStep(u, s[k - 1], k)]
  BY <1>5, <1>9, Zenon
<1>11. s[0] = NoCuts /\ \A i \in 1..n : s[i] = CutStep(u, s[i - 1], i)
  <2>1. \A k \in 0..n : s[k] = IF k = 0 THEN NoCuts ELSE CutStep(u, s[k - 1], k)
    BY <1>10, Zenon
  <2> QED
    BY <1>1, <2>1
<1>12. s = f
  <2> DEFINE G == {i \in 0..n : s[i] = f[i]}
  <2>1. 0 \in G
    BY <1>1, <1>6, <1>11
  <2>2. \A i \in 1..n : i - 1 \in G => i \in G
    BY <1>7, <1>11
  <2> HIDE DEF G
  <2>3. \A i \in 0..n : i \in G
    BY <1>1, <2>1, <2>2, Induction
  <2>4. \A i \in 0..n : s[i] = f[i]
    BY <2>3 DEF G
  <2>5. s = [i \in 0..n |-> s[i]]
    BY <1>10
  <2>6. f = [i \in 0..n |-> f[i]]
    OBVIOUS
  <2> QED
    BY <2>4, <2>5, <2>6, Zenon
<1>13. s \in [0..n -> S] /\ s[0] = NoCuts /\ \A i \in 1..n : s[i] = CutStep(u, s[i - 1], i)
  BY <1>11, <1>12
<1> QED
  BY <1>4, <1>13 DEF n, S

\* Where texts are the same they are balanced alike, ...
LEMMA BalancedAgree ==
  ASSUME NEW u, NEW v, NEW i \in Nat, NEW k \in Int, \A j \in i..k : u[j] = v[j]
  PROVE  Balanced(u, i, k) <=> Balanced(v, i, k)
<1>1. \A j \in i..k : Opens(u, i, j) <=> Opens(v, i, j)
  BY DEF Opens
<1>2. ASSUME NEW a \in i..k, NEW c \in i..k PROVE Span(u, i, a, c) <=> Span(v, i, a, c)
  <2>1. u[a] = v[a] /\ u[c] = v[c] /\ (Opens(u, i, a) <=> Opens(v, i, a))
    BY <1>1
  <2>2. ASSUME NEW d \in a + 1..c - 1 PROVE u[d] = v[d]
    OBVIOUS
  <2> QED
    BY <2>1, <2>2 DEF Span
<1>3. Spans(u, i, k) = Spans(v, i, k)
  BY <1>2 DEF Spans
<1> QED
  BY <1>1, <1>3 DEF Balanced

\* ... and a statement ends alike at the last place where they are.
LEMMA EndsAgree ==
  ASSUME NEW u, NEW v, NEW i \in Nat, NEW k \in Nat, i <= k, \A j \in i..k : u[j] = v[j]
  PROVE  Ends(u, i, k) <=> Ends(v, i, k)
<1>1. u[i] = v[i] /\ u[k] = v[k] /\ k - 1 \in Int /\ \A j \in i..k - 1 : u[j] = v[j]
  OBVIOUS
<1>2. Balanced(u, i, k - 1) <=> Balanced(v, i, k - 1)
  BY <1>1, BalancedAgree
<1> QED
  BY <1>1, <1>2 DEF Ends

\* Where a statement ends is told by the first place where one may.
LEMMA OverAt ==
  ASSUME NEW U, NEW u \in Seq(U), NEW i \in 1..Len(u), NEW k \in i + 1..Len(u) + 1,
         k <= Len(u) => Ends(u, i, k), \A e \in i + 1..k - 1 : ~ Ends(u, i, e)
  PROVE  Over(u, i) = k
<1> DEFINE o == Over(u, i)
<1>1. /\ o \in i + 1..Len(u) + 1
      /\ o <= Len(u) => Ends(u, i, o)
      /\ \A e \in i + 1..o - 1 : ~ Ends(u, i, e)
  BY OverIs
<1> HIDE DEF o
<1>2. CASE o < k
  <2>1. o \in i + 1..k - 1 /\ o <= Len(u)
    BY <1>1, <1>2
  <2> QED
    BY <1>1, <2>1
<1>3. CASE k < o
  <2>1. k \in i + 1..o - 1 /\ k <= Len(u)
    BY <1>1, <1>3
  <2> QED
    BY <1>1, <2>1
<1>4. o \in Int /\ k \in Int
  BY <1>1
<1> QED
  BY <1>2, <1>3, <1>4 DEF o

\* A statement that is over is over in any longer text, and is the same there.
LEMMA OverAgree ==
  ASSUME NEW U, NEW u \in Seq(U), NEW v \in Seq(U), NEW i \in 1..Len(u), Len(u) <= Len(v),
         \A j \in 1..Len(u) : u[j] = v[j], Over(u, i) <= Len(u)
  PROVE  Over(v, i) = Over(u, i) /\ Statement(v, i) = Statement(u, i)
<1> DEFINE o == Over(u, i)
<1>1. /\ o \in i + 1..Len(u)
      /\ Ends(u, i, o)
      /\ \A e \in i + 1..o - 1 : ~ Ends(u, i, e)
  BY OverIs
<1> HIDE DEF o
<1>2. ASSUME NEW e \in i + 1..o PROVE Ends(u, i, e) <=> Ends(v, i, e)
  <2>1. i \in Nat /\ e \in Nat /\ i <= e /\ \A j \in i..e : u[j] = v[j]
    BY <1>1
  <2> QED
    BY <2>1, EndsAgree
<1>3. i \in 1..Len(v) /\ o \in i + 1..Len(v) + 1 /\ o \in i + 1..o
  BY <1>1
<1>4. Over(v, i) = o
  <2>1. Ends(v, i, o)
    BY <1>1, <1>2, <1>3
  <2>2. ASSUME NEW e \in i + 1..o - 1 PROVE ~ Ends(v, i, e)
    <3>1. e \in i + 1..o
      BY <1>1
    <3> QED
      BY <1>1, <1>2, <3>1
  <2> QED
    BY <1>3, <2>1, <2>2, OverAt
<1>5. SubSeq(u, i, o - 1) = SubSeq(v, i, o - 1) /\ u[i] = v[i]
  BY <1>1
<1> QED
  BY <1>4, <1>5 DEF Statement, o

\* The places where statements are over go up.
LEMMA CutsGrow ==
  ASSUME NEW U, "\n" \in U, NEW u \in Seq(U), NEW a \in 0..Len(u), NEW k \in a..Len(u)
  PROVE  Cuts(u)[a].over <= Cuts(u)[k].over
<1> DEFINE G == {e \in a..Len(u) : Cuts(u)[a].over <= Cuts(u)[e].over}
<1>1. /\ Cuts(u) \in [0..Len(u) -> CutStates(U)]
      /\ \A e \in 1..Len(u) : Cuts(u)[e] = CutStep(u, Cuts(u)[e - 1], e)
  BY CutsIs
<1>2. \A e \in 0..Len(u) : Cuts(u)[e].over \in Nat
  BY <1>1 DEF CutStates
<1>3. a \in Nat /\ Len(u) \in Nat /\ a \in G
  BY <1>2
<1>4. ASSUME NEW e \in a + 1..Len(u), e - 1 \in G PROVE e \in G
  <2>1. e \in 1..Len(u) /\ e - 1 \in 0..Len(u) /\ Cuts(u)[e - 1] \in CutStates(U)
    BY <1>1
  <2>2. Cuts(u)[e].over >= Cuts(u)[e - 1].over
    BY <1>1, <2>1, CutStepIs
  <2>3. Cuts(u)[a].over <= Cuts(u)[e - 1].over
    BY <1>4
  <2>4. Cuts(u)[a].over <= Cuts(u)[e].over
    BY <1>2, <2>1, <2>2, <2>3
  <2> QED
    BY <2>1, <2>4
<1> HIDE DEF G
<1>5. \A e \in a..Len(u) : e \in G
  BY <1>3, <1>4, InductionFrom
<1> QED
  BY <1>5 DEF G

\* Nothing begins within a statement.
LEMMA CutsStay ==
  ASSUME NEW U, "\n" \in U, NEW u \in Seq(U), NEW a \in 0..Len(u), NEW k \in a..Len(u),
         k <= Cuts(u)[a].over
  PROVE  Cuts(u)[k] = Cuts(u)[a]
<1> DEFINE G == {e \in a..k : Cuts(u)[e] = Cuts(u)[a]}
<1>1. /\ Cuts(u) \in [0..Len(u) -> CutStates(U)]
      /\ \A e \in 1..Len(u) : Cuts(u)[e] = CutStep(u, Cuts(u)[e - 1], e)
  BY CutsIs
<1>2. a \in Nat /\ k \in Nat /\ a \in G /\ Cuts(u)[a].over \in Nat
  <2>1. Cuts(u)[a] \in CutStates(U)
    BY <1>1
  <2>2. a \in Nat /\ k \in Nat /\ a \in a..k
    OBVIOUS
  <2> QED
    BY <2>1, <2>2 DEF CutStates
<1>3. ASSUME NEW e \in a + 1..k, e - 1 \in G PROVE e \in G
  <2>1. e \in 1..Len(u) /\ Cuts(u)[e - 1] = Cuts(u)[a] /\ e <= Cuts(u)[a].over
    BY <1>2, <1>3
  <2>2. CutStep(u, Cuts(u)[e - 1], e) = Cuts(u)[a]
    BY <2>1 DEF CutStep
  <2> QED
    BY <1>1, <2>1, <2>2
<1> HIDE DEF G
<1>4. \A e \in a..k : e \in G
  BY <1>2, <1>3, InductionFrom
<1> QED
  BY <1>2, <1>4 DEF G

\* What a text is cut into stays when more is typed behind a place where nothing is open.
LEMMA CutsAgree ==
  ASSUME NEW U, "\n" \in U, NEW u \in Seq(U), NEW v \in Seq(U), Len(u) <= Len(v),
         \A j \in 1..Len(u) : u[j] = v[j], Cuts(u)[Len(u)].over <= Len(u)
  PROVE  Cuts(v)[Len(u)] = Cuts(u)[Len(u)]
<1> DEFINE n == Len(u)
           G == {e \in 0..n : Cuts(v)[e] = Cuts(u)[e]}
<1>1. /\ Cuts(u) \in [0..Len(u) -> CutStates(U)]
      /\ Cuts(u)[0] = NoCuts
      /\ \A e \in 1..Len(u) : Cuts(u)[e] = CutStep(u, Cuts(u)[e - 1], e)
      /\ Cuts(v)[0] = NoCuts
      /\ \A e \in 1..Len(v) : Cuts(v)[e] = CutStep(v, Cuts(v)[e - 1], e)
  BY CutsIs
<1>2. n \in Nat /\ 0 \in G
  BY <1>1
<1>3. ASSUME NEW e \in 1..n, e - 1 \in G PROVE e \in G
  <2> DEFINE b == Cuts(u)[e - 1]
  <2>1. /\ e \in 1..Len(u) /\ e \in 1..Len(v) /\ u[e] = v[e] /\ b = Cuts(v)[e - 1]
        /\ e \in 0..n /\ n \in e..Len(u) /\ Cuts(u)[e] \in CutStates(U)
    BY <1>1, <1>3
  <2>2. Cuts(u)[e] = CutStep(u, b, e) /\ Cuts(v)[e] = CutStep(v, b, e)
    BY <1>1, <2>1
  <2>3. Cuts(u)[e].over <= n
    <3>1. Cuts(u)[e].over <= Cuts(u)[n].over
      BY <2>1, CutsGrow
    <3>2. Cuts(u)[e].over \in Nat /\ Cuts(u)[n].over \in Nat
      BY <1>1, <1>2, <2>1 DEF CutStates
    <3> QED
      BY <3>1, <3>2
  <2> HIDE DEF b, n
  <2>4. CASE e <= b.over \/ u[e] \in Blanks \cup Terminators
    BY <2>1, <2>2, <2>4 DEF CutStep
  <2>5. CASE ~ (e <= b.over \/ u[e] \in Blanks \cup Terminators)
    <3>1. Cuts(u)[e].over = Over(u, e)
      BY <2>2, <2>5 DEF CutStep
    <3>2. Over(u, e) <= Len(u)
      BY <2>3, <3>1 DEF n
    <3>3. Over(v, e) = Over(u, e) /\ Statement(v, e) = Statement(u, e)
      BY <2>1, <3>2, OverAgree
    <3>4. Over(u, e) \in Nat /\ Len(u) \in Nat /\ Len(v) \in Nat
      BY <2>1, OverIs
    <3>5. ~ (Over(u, e) > Len(u)) /\ ~ (Over(v, e) > Len(v))
      BY <3>2, <3>3, <3>4
    <3>6. CutStep(v, b, e) = CutStep(u, b, e)
      BY <2>1, <2>5, <3>3, <3>5 DEF CutStep
    <3> QED
      BY <2>1, <2>2, <3>6
  <2> QED
    BY <2>4, <2>5
<1> HIDE DEF G
<1>4. n \in G
  <2>1. \A e \in 0..n : e \in G
    BY <1>2, <1>3, Induction
  <2> QED
    BY <1>2, <2>1
<1> QED
  BY <1>4 DEF G

-----------------------------------------------------------------------------
(* What parse_query reads against what Cuts does. *)

\* A statement that begins at x and is not over at e, where the scan is in a mode.
NotOver(u, x, e, md) ==
  /\ \E m : Follows(u, x, e, m) /\ m[e] = md
  /\ \A d \in x + 1..e : ~ Ends(u, x, d)

\* After k tokens of a text that stands behind the first p of u, a statement is being
\* read that begins at x; a command begins behind the first q tokens of the text.
Begun(u, p, text, q, k, x) ==
  /\ Cuts(u)[x - 1].over < x
  /\ Cuts(u)[x - 1].texts = Cuts(u)[p].texts \o Scans(text)[k].queue
  /\ u[x] \notin Blanks \cup Terminators
  /\ Scans(text)[k].text = SubSeq(u, x, p + k)
  /\ IF Scans(text)[k].mode = "command" THEN u[x] \in Commands /\ x > p + q
     ELSE u[x] \notin Commands /\ NotOver(u, x, p + k, Scans(text)[k].mode)

NoneBegun(u, p, text, k) ==
  /\ Cuts(u)[p + k].over <= p + k
  /\ Cuts(u)[p + k].texts = Cuts(u)[p].texts \o Scans(text)[k].queue

Matches(u, p, text, q, k) ==
  \/ Scans(text)[k].mode = "none" /\ NoneBegun(u, p, text, k)
  \/ Scans(text)[k].mode # "none" /\ \E x \in p + 1..p + k : Begun(u, p, text, q, k, x)

\* The text stands at the end of u, behind a place where nothing is open.
Behind(U, u, p, text) ==
  /\ {"NUL", "\n"} \subseteq U
  /\ u \in Seq(U) /\ text \in Seq(U) /\ p \in Nat
  /\ Len(u) = p + Len(text)
  /\ \A j \in 1..Len(text) : u[p + j] = text[j]
  /\ Cuts(u)[p].over <= p

\* The first token of a statement, and one token more of it.
LEMMA OneToken ==
  ASSUME NEW U, NEW u \in Seq(U), NEW x \in 1..Len(u)
  PROVE  SubSeq(u, x, x) = <<u[x]>>
<1>1. SubSeq(u, x, x) \in Seq(U) /\ Len(SubSeq(u, x, x)) = 1 /\ SubSeq(u, x, x)[1] = u[x]
  OBVIOUS
<1>2. u[x] \in U
  OBVIOUS
<1> DEFINE c == SubSeq(u, x, x)
<1> HIDE DEF c
<1>3. c \in Seq(U) /\ Len(c) = 1 /\ c[1] = u[x]
  BY <1>1 DEF c
<1>4. c = <<u[x]>>
  BY <1>2, <1>3
<1> QED
  BY <1>4 DEF c

\* A text one token longer.
LEMMA OneMore ==
  ASSUME NEW U, NEW u \in Seq(U), NEW x \in Nat \ {0}, NEW e \in x + 1..Len(u)
  PROVE  SubSeq(u, x, e) = Append(SubSeq(u, x, e - 1), u[e])
<1>1. /\ SubSeq(u, x, e) \in Seq(U) /\ Len(SubSeq(u, x, e)) = e - x + 1
      /\ \A j \in 1..e - x + 1 : SubSeq(u, x, e)[j] = u[x + j - 1]
  OBVIOUS
<1>2. /\ SubSeq(u, x, e - 1) \in Seq(U) /\ Len(SubSeq(u, x, e - 1)) = e - x
      /\ \A j \in 1..e - x : SubSeq(u, x, e - 1)[j] = u[x + j - 1]
  OBVIOUS
<1> DEFINE b == SubSeq(u, x, e - 1)
           c == SubSeq(u, x, e)
<1> HIDE DEF b, c
<1>3. e - x \in Nat /\ u[e] \in U /\ x + (e - x + 1) - 1 = e
  OBVIOUS
<1>4. Append(b, u[e]) \in Seq(U) /\ Len(Append(b, u[e])) = e - x + 1
  BY <1>2, <1>3 DEF b
<1>5. ASSUME NEW j \in 1..e - x + 1 PROVE Append(b, u[e])[j] = c[j]
  <2>1. c[j] = u[x + j - 1]
    BY <1>1 DEF c
  <2>2. CASE j \in 1..e - x
    BY <1>2, <1>3, <2>1, <2>2 DEF b
  <2>3. CASE j = e - x + 1
    BY <1>2, <1>3, <2>1, <2>3 DEF b
  <2>4. j \in 1..e - x \/ j = e - x + 1
    <3> DEFINE l == e - x
    <3>1. l \in Nat /\ j \in 1..l + 1
      BY <1>3
    <3> HIDE DEF l
    <3>2. j \in 1..l \/ j = l + 1
      BY <3>1
    <3> QED
      BY <3>2 DEF l
  <2> QED
    BY <2>2, <2>3, <2>4
<1>6. c \in Seq(U) /\ Len(c) = e - x + 1
  BY <1>1 DEF c
<1>7. c = Append(b, u[e])
  BY <1>3, <1>4, <1>5, <1>6
<1> QED
  BY <1>7 DEF b, c

\* The loop is at the k-th token of the text, the token p + k of u.
Step(U, u, p, text, k) ==
  /\ k \in Nat /\ k - 1 \in 0..Len(text) /\ p \in Nat /\ Len(u) \in Nat
  /\ p + k \in 1..Len(u) /\ (p + k) - 1 = p + (k - 1)
  /\ u[p + k] = text[k]
  /\ Scanned(Scans(text)[k - 1], text[k], Scans(text)[k])
  /\ Scans(text)[k - 1] \in ScanStates(U)
  /\ Cuts(u)[p + k] = CutStep(u, Cuts(u)[p + (k - 1)], p + k)
  /\ Cuts(u)[p + (k - 1)] \in CutStates(U) /\ u \in Seq(U)

LEMMA StepReads ==
  ASSUME NEW U, NEW u, NEW p, NEW text, Behind(U, u, p, text), NEW k \in 1..Len(text)
  PROVE  Step(U, u, p, text, k)
<1>1. /\ "NUL" \in U /\ "\n" \in U /\ u \in Seq(U) /\ text \in Seq(U) /\ p \in Nat
      /\ Len(u) = p + Len(text) /\ \A j \in 1..Len(text) : u[p + j] = text[j]
  BY DEF Behind
<1>2. /\ Scans(text) \in [0..Len(text) -> ScanStates(U)]
      /\ \A i \in 1..Len(text) : Scans(text)[i] = Scan(Scans(text)[i - 1], text[i])
  BY <1>1, ScansIs
<1>3. /\ Cuts(u) \in [0..Len(u) -> CutStates(U)]
      /\ \A e \in 1..Len(u) : Cuts(u)[e] = CutStep(u, Cuts(u)[e - 1], e)
  BY <1>1, CutsIs
<1>4. Len(text) \in Nat /\ k \in Nat /\ k <= Len(text) /\ k >= 1
  BY <1>1
<1>5. /\ k - 1 \in 0..Len(text) /\ Len(u) \in Nat
      /\ p + k \in 1..Len(u) /\ (p + k) - 1 = p + (k - 1) /\ u[p + k] = text[k]
  <2>1. k - 1 \in 0..Len(text) /\ k \in 1..Len(text)
    BY <1>4
  <2>2. (p + k) - 1 = p + (k - 1) /\ p + k <= p + Len(text) /\ p + k >= 1 /\ p + k \in Nat
    BY <1>1, <1>4
  <2>3. Len(u) \in Nat
    BY <1>1
  <2>4. p + k \in 1..Len(u)
    BY <1>1, <2>2, <2>3
  <2>5. u[p + k] = text[k]
    BY <1>1, <2>1
  <2> QED
    BY <2>1, <2>2, <2>3, <2>4, <2>5
<1>6. Scans(text)[k - 1] \in ScanStates(U) /\ text[k] \in U
  <2>1. Scans(text)[k - 1] \in ScanStates(U)
    BY <1>2, <1>5, Zenon
  <2>2. text[k] \in U
    BY <1>1
  <2> QED
    BY <2>1, <2>2
<1>7. Scanned(Scans(text)[k - 1], text[k], Scans(text)[k])
  BY <1>1, <1>2, <1>6, ScanIs
<1>8. Cuts(u)[p + k] = CutStep(u, Cuts(u)[p + (k - 1)], p + k)
  BY <1>3, <1>5
<1>9. Cuts(u)[p + (k - 1)] \in CutStates(U)
  <2>1. p + (k - 1) \in 0..Len(u)
    BY <1>1, <1>4
  <2> QED
    BY <1>3, <2>1
<1> QED
  BY <1>1, <1>4, <1>5, <1>6, <1>7, <1>8, <1>9 DEF Step

\* Behind a statement: nothing begins, or the next does.
LEMMA ReadsBetween ==
  ASSUME NEW U, NEW u, NEW p, NEW text, Behind(U, u, p, text), NEW q,
         NEW k \in 1..Len(text), q \in Nat, k <= q => Scans(text)[k].mode # "command",
         Scans(text)[k - 1].mode = "none", NoneBegun(u, p, text, k - 1)
  PROVE  Matches(u, p, text, q, k)
<1> DEFINE s == Scans(text)[k - 1]
           r == Scans(text)[k]
           t == text[k]
           x == p + k
           y == p + (k - 1)
<1>1. /\ k \in Nat /\ p \in Nat /\ Len(u) \in Nat /\ x \in 1..Len(u) /\ x - 1 = y
      /\ u[x] = t /\ Scanned(s, t, r) /\ u \in Seq(U)
      /\ Cuts(u)[x] = CutStep(u, Cuts(u)[y], x) /\ Cuts(u)[y] \in CutStates(U)
  <2>1. Step(U, u, p, text, k)
    BY StepReads, Zenon
  <2> QED
    BY <2>1 DEF Step
<1>2. Cuts(u)[y].over <= y /\ Cuts(u)[y].texts = Cuts(u)[p].texts \o s.queue
  BY DEF NoneBegun
<1>3. /\ Cuts(u)[y].over \in Nat /\ Cuts(u)[y].over < x
      /\ Cuts(u)[x - 1].over < x /\ Cuts(u)[x - 1].texts = Cuts(u)[p].texts \o s.queue
  <2> HIDE DEF s, r, t, x, y
  <2>1. Cuts(u)[y].over \in Nat
    BY <1>1 DEF CutStates
  <2>2. y \in Nat /\ y < x /\ x \in Nat
    BY <1>1
  <2>3. Cuts(u)[y].over < x
    BY <1>2, <2>1, <2>2
  <2>4. Cuts(u)[x - 1] = Cuts(u)[y]
    BY <1>1
  <2> QED
    BY <1>2, <2>1, <2>3, <2>4, Zenon
<1>4. s.mode = "none"
  OBVIOUS
<1> HIDE DEF s, r, t, x, y
<1>5. CASE t \in Blanks \cup Terminators
  <2>1. r.mode = "none" /\ r.queue = s.queue
    BY <1>1, <1>4, <1>5 DEF Scanned
  <2>2. Cuts(u)[x] = Cuts(u)[y]
    BY <1>1, <1>5 DEF CutStep
  <2>3. Cuts(u)[x].over <= x
    BY <1>1, <1>3, <2>2
  <2> QED
    BY <1>2, <2>1, <2>2, <2>3 DEF Matches, NoneBegun, r, x
<1>6. CASE t \notin Blanks \cup Terminators
  <2>1. r.mode = FirstMode(t) /\ r.text = <<t>> /\ r.queue = s.queue
    BY <1>1, <1>4, <1>6 DEF Scanned
  <2>2. r.mode # "none"
    BY <2>1 DEF FirstMode, Quotes
  <2>3. r.text = SubSeq(u, x, x)
    <3>1. SubSeq(u, x, x) = <<u[x]>>
      BY <1>1, OneToken
    <3> QED
      BY <1>1, <2>1, <3>1
  <2>4. ASSUME r.mode = "command" PROVE u[x] \in Commands /\ x > p + q
    <3>1. t \in Commands
      BY <2>1, <2>4 DEF FirstMode, Quotes
    <3>2. ~ (k <= q)
      BY <2>4 DEF r
    <3> QED
      BY <1>1, <3>1, <3>2 DEF x
  <2>5. ASSUME r.mode # "command" PROVE u[x] \notin Commands /\ NotOver(u, x, x, r.mode)
    <3>1. u[x] \notin Commands /\ r.mode = IF u[x] \in Quotes THEN u[x] ELSE "query"
      BY <1>1, <2>1, <2>5 DEF FirstMode
    <3>2. r.mode \in {"query"} \cup Openers
      BY <3>1 DEF Openers
    <3> DEFINE m == [e \in {x} |-> r.mode]
    <3>3. m[x] = r.mode
      OBVIOUS
    <3>4. Follows(u, x, x, m)
      BY <1>1, <3>1, <3>2, <3>3 DEF Follows
    <3>5. \A d \in x + 1..x : ~ Ends(u, x, d)
      BY <1>1
    <3> HIDE DEF m
    <3> QED
      BY <3>1, <3>3, <3>4, <3>5 DEF NotOver
  <2>6. Begun(u, p, text, q, k, x)
    BY <1>1, <1>3, <1>6, <2>1, <2>3, <2>4, <2>5 DEF Begun, r, x
  <2>7. x \in p + 1..p + k
    BY <1>1 DEF x
  <2> QED
    BY <2>2, <2>6, <2>7 DEF Matches, r
<1> QED
  BY <1>5, <1>6

\* A sequence, another and one element more.
Joinable(V, a, b, c) == a \in Seq(V) /\ b \in Seq(V) /\ c \in V
Joined(a, b, c) == Append(a \o b, c) = a \o Append(b, c)

\* Appending to the second of two sequences appends to both.
LEMMA AppendJoined ==
  ASSUME NEW V, NEW a, NEW b, NEW c, Joinable(V, a, b, c)
  PROVE  Joined(a, b, c)
<1>0. a \in Seq(V) /\ b \in Seq(V) /\ c \in V
  BY DEF Joinable
<1> DEFINE l == Append(a \o b, c)
           r == a \o Append(b, c)
<1>1. Len(a) \in Nat /\ Len(b) \in Nat
  BY <1>0
<1>2. l \in Seq(V) /\ r \in Seq(V) /\ Len(l) = Len(a) + Len(b) + 1 /\ Len(r) = Len(a) + Len(b) + 1
  BY <1>0
<1>3. ASSUME NEW i \in 1..Len(a) + Len(b) + 1 PROVE l[i] = r[i]
  <2>1. CASE i <= Len(a)
    BY <1>0, <2>1
  <2>2. CASE i > Len(a) /\ i <= Len(a) + Len(b)
    BY <1>0, <2>2
  <2>3. CASE i = Len(a) + Len(b) + 1
    BY <1>0, <2>3
  <2> QED
    BY <1>1, <2>1, <2>2, <2>3
<1> HIDE DEF l, r
<1>4. l = r
  BY <1>1, <1>2, <1>3
<1> QED
  BY <1>4 DEF l, r, Joined

\* Within a command.
LEMMA ReadsCommand ==
  ASSUME NEW U, NEW u, NEW p, NEW text, Behind(U, u, p, text), NEW q \in Nat,
         NEW k \in 1..Len(text), Scans(text)[k - 1].mode = "command",
         NEW x \in p + 1..p + (k - 1), Begun(u, p, text, q, k - 1, x)
  PROVE  Matches(u, p, text, q, k)
<1> DEFINE s == Scans(text)[k - 1]
           r == Scans(text)[k]
           t == text[k]
           z == p + k
<1>1. /\ k \in Nat /\ p \in Nat /\ Len(u) \in Nat /\ z \in 1..Len(u) /\ z - 1 = p + (k - 1)
      /\ u[z] = t /\ Scanned(s, t, r) /\ u \in Seq(U)
  <2>1. Step(U, u, p, text, k)
    BY StepReads, Zenon
  <2> QED
    BY <2>1 DEF Step
<1>2. r.mode = "command" /\ r.text = Append(s.text, t) /\ r.queue = s.queue
  BY <1>1 DEF Scanned
<1>3. /\ Cuts(u)[x - 1].over < x
      /\ Cuts(u)[x - 1].texts = Cuts(u)[p].texts \o s.queue
      /\ u[x] \notin Blanks \cup Terminators /\ s.text = SubSeq(u, x, p + (k - 1))
      /\ u[x] \in Commands /\ x > p + q
  BY DEF Begun
<1>4. r.text = SubSeq(u, x, z)
  <2>1. x \in Nat \ {0} /\ z \in x + 1..Len(u)
    BY <1>1
  <2>2. SubSeq(u, x, z) = Append(SubSeq(u, x, z - 1), u[z])
    BY <1>1, <2>1, OneMore
  <2> HIDE DEF z
  <2> QED
    BY <1>1, <1>2, <1>3, <2>2
<1>5. x \in p + 1..p + k
  BY <1>1
<1>6. Begun(u, p, text, q, k, x)
  BY <1>2, <1>3, <1>4 DEF Begun
<1> QED
  BY <1>2, <1>5, <1>6 DEF Matches

\* Within a statement, at a terminator in quotes or at anything else.
GoesOn(text, k) ==
  \/ Scans(text)[k - 1].mode \in Openers
  \/ Scans(text)[k - 1].mode = "query" /\ text[k] \notin Terminators

\* What is read goes on with the statement.
LEMMA ReadsWithin ==
  ASSUME NEW U, NEW u, NEW p, NEW text, Behind(U, u, p, text), NEW q \in Nat,
         NEW k \in 1..Len(text), GoesOn(text, k),
         NEW x \in p + 1..p + (k - 1), Begun(u, p, text, q, k - 1, x)
  PROVE  Matches(u, p, text, q, k)
<1>0. /\ k \in Nat /\ p \in Nat /\ Len(u) \in Nat /\ p + k \in 1..Len(u)
      /\ (p + k) - 1 = p + (k - 1) /\ u[p + k] = text[k] /\ u \in Seq(U)
      /\ Scanned(Scans(text)[k - 1], text[k], Scans(text)[k])
  <2>1. Step(U, u, p, text, k)
    BY StepReads, Zenon
  <2> QED
    BY <2>1 DEF Step
<1> DEFINE s == Scans(text)[k - 1]
           r == Scans(text)[k]
           t == text[k]
           z == p + k
           y == p + (k - 1)
<1>1. /\ k \in Nat /\ p \in Nat /\ Len(u) \in Nat /\ z \in 1..Len(u) /\ z - 1 = y
      /\ u[z] = t /\ Scanned(s, t, r) /\ u \in Seq(U)
  BY <1>0, Zenon
<1>2. x \in Nat \ {0} /\ z \in x + 1..Len(u) /\ y \in x..Len(u) /\ y \in Nat /\ z = y + 1
  <2>1. \A a, b, l \in Nat : \A c \in a + 1..a + (b - 1) :
          a + b \in 1..l =>
            /\ c \in Nat \ {0} /\ a + b \in c + 1..l /\ a + (b - 1) \in c..l
            /\ a + (b - 1) \in Nat /\ a + b = a + (b - 1) + 1
    OBVIOUS
  <2> QED
    BY <1>0, <2>1, Zenon
<1>3. s.mode \in Openers \/ (s.mode = "query" /\ t \notin Terminators)
  BY DEF GoesOn
<1>4. s.mode \notin {"command", "none"} /\ (s.mode \in Openers => s.mode # "query")
  BY <1>3 DEF Openers, Quotes
<1>5. r.mode = Turn(s.mode, t) /\ r.text = Append(s.text, t) /\ r.queue = s.queue
  BY <1>1, <1>3 DEF Scanned
<1>6. /\ Cuts(u)[x - 1].over < x
      /\ Cuts(u)[x - 1].texts = Cuts(u)[p].texts \o s.queue
      /\ u[x] \notin Blanks \cup Terminators /\ s.text = SubSeq(u, x, y)
      /\ u[x] \notin Commands /\ NotOver(u, x, y, s.mode)
  BY <1>4 DEF Begun
<1> HIDE DEF s, r, t, y, z
<1>7. r.text = SubSeq(u, x, z)
  <2>1. SubSeq(u, x, z) = Append(SubSeq(u, x, z - 1), u[z])
    BY <1>1, <1>2, OneMore
  <2> QED
    BY <1>1, <1>5, <1>6, <2>1
<1>8. PICK m : Follows(u, x, y, m) /\ m[y] = s.mode
  BY <1>6 DEF NotOver
<1>9. r.mode \in {"query"} \cup Openers
  BY <1>3, <1>5 DEF Turn
<1>10. ~ Ends(u, x, z)
  <2>1. SUFFICES ASSUME t \in Terminators, Balanced(u, x, y) PROVE FALSE
    BY <1>1, <1>6 DEF Ends
  <2>2. m[y] = "query"
    BY <1>2, <1>8, <2>1, QueryIsBalanced
  <2> QED
    BY <1>3, <1>4, <1>8, <2>1, <2>2
<1>11. NotOver(u, x, z, r.mode)
  <2> DEFINE l == [e \in x..z |-> IF e = z THEN r.mode ELSE m[e]]
  <2>1. l[z] = r.mode /\ \A e \in x..y : l[e] = m[e]
    BY <1>2
  <2> HIDE DEF l
  <2>2. x \in x..y /\ y \in x..y
    BY <1>2
  <2>3. l[x] = IF u[x] \in Quotes THEN u[x] ELSE "query"
    BY <1>8, <2>1, <2>2 DEF Follows
  <2>4. ASSUME NEW e \in x + 1..z PROVE l[e] = Turn(l[e - 1], u[e])
    <3>1. CASE e = z
      <4>1. l[e - 1] = s.mode /\ u[e] = t /\ l[e] = r.mode
        BY <1>1, <1>8, <2>1, <2>2, <3>1
      <4> QED
        BY <1>5, <4>1
    <3>2. CASE e # z
      <4>1. e \in x + 1..y /\ e \in x..y /\ e - 1 \in x..y
        BY <1>2, <3>2
      <4>2. m[e] = Turn(m[e - 1], u[e])
        BY <1>8, <4>1 DEF Follows
      <4> QED
        BY <2>1, <4>1, <4>2
    <3> QED
      BY <3>1, <3>2
  <2>5. ASSUME NEW e \in x..z PROVE l[e] \in {"query"} \cup Openers
    <3>1. CASE e = z
      BY <1>9, <2>1, <3>1
    <3>2. CASE e # z
      <4>1. e \in x..y
        BY <1>2, <3>2
      <4> QED
        BY <1>8, <2>1, <4>1 DEF Follows
    <3> QED
      BY <3>1, <3>2
  <2>6. Follows(u, x, z, l)
    BY <2>3, <2>4, <2>5 DEF Follows
  <2>7. ASSUME NEW d \in x + 1..z PROVE ~ Ends(u, x, d)
    <3>1. d \in x + 1..y \/ d = z
      BY <1>2
    <3> QED
      BY <1>6, <1>10, <3>1 DEF NotOver
  <2> QED
    BY <2>1, <2>6, <2>7 DEF NotOver
<1>12. r.mode \notin {"none", "command"}
  BY <1>9 DEF Openers, Quotes
<1>13. x \in p + 1..p + k
  BY <1>1, <1>2 DEF z
<1>14. Begun(u, p, text, q, k, x)
  BY <1>5, <1>6, <1>7, <1>11, <1>12 DEF Begun, r, z
<1> QED
  BY <1>12, <1>13, <1>14 DEF Matches, r

\* At a terminator outside quotes.
LEMMA ReadsTerminator ==
  ASSUME NEW U, NEW u, NEW p, NEW text, Behind(U, u, p, text), NEW q \in Nat,
         NEW k \in 1..Len(text),
         Scans(text)[k - 1].mode = "query", text[k] \in Terminators,
         NEW x \in p + 1..p + (k - 1), Begun(u, p, text, q, k - 1, x)
  PROVE  Matches(u, p, text, q, k)
<1> DEFINE s == Scans(text)[k - 1]
           r == Scans(text)[k]
           t == text[k]
           z == p + k
           y == p + (k - 1)
<1>1. /\ k \in Nat /\ p \in Nat /\ Len(u) \in Nat /\ z \in 1..Len(u) /\ z - 1 = y
      /\ u[z] = t /\ Scanned(s, t, r) /\ u \in Seq(U) /\ s \in ScanStates(U)
  <2>1. Step(U, u, p, text, k)
    BY StepReads, Zenon
  <2> QED
    BY <2>1 DEF Step
<1>2. /\ x \in Nat \ {0} /\ z \in x + 1..Len(u) /\ y \in x..Len(u) /\ y \in Nat /\ z = y + 1
      /\ x \in 1..Len(u) /\ x - 1 \in 0..Len(u)
  <2>1. x \in Nat \ {0} /\ z \in x + 1..Len(u) /\ y \in x..Len(u) /\ y \in Nat /\ z = y + 1
    BY <1>1
  <2> HIDE DEF y, z
  <2>2. x \in 1..Len(u) /\ x - 1 \in 0..Len(u)
    BY <1>1, <2>1
  <2> QED
    BY <2>1, <2>2
<1>3. s.mode = "query" /\ t \in Terminators
  OBVIOUS
<1>4. r.mode = "none" /\ r.queue = Append(s.queue, s.text)
  BY <1>1, <1>3 DEF Scanned
<1>5. /\ Cuts(u)[x - 1].over < x
      /\ Cuts(u)[x - 1].texts = Cuts(u)[p].texts \o s.queue
      /\ u[x] \notin Blanks \cup Terminators /\ s.text = SubSeq(u, x, y)
      /\ u[x] \notin Commands /\ NotOver(u, x, y, s.mode)
  BY <1>3 DEF Begun
<1>6. "\n" \in U /\ Cuts(u) \in [0..Len(u) -> CutStates(U)]
      /\ Cuts(u)[x] = CutStep(u, Cuts(u)[x - 1], x)
  <2>1. "\n" \in U
    BY DEF Behind
  <2> QED
    BY <1>1, <1>2, <2>1, CutsIs
<1>7. p \in 0..Len(u)
  BY <1>1
<1> HIDE DEF s, r, t, y, z
<1>8. PICK m : Follows(u, x, y, m) /\ m[y] = s.mode
  BY <1>5 DEF NotOver
<1>9. Ends(u, x, z)
  <2>1. Balanced(u, x, y)
    BY <1>2, <1>3, <1>8, QueryIsBalanced
  <2> QED
    BY <1>1, <1>3, <1>5, <2>1 DEF Ends
<1>10. Over(u, x) = z
  <2>1. z \in x + 1..Len(u) + 1 /\ z - 1 = y
    BY <1>1, <1>2
  <2>2. \A e \in x + 1..z - 1 : ~ Ends(u, x, e)
    BY <1>5, <2>1 DEF NotOver
  <2> QED
    BY <1>1, <1>2, <1>9, <2>1, <2>2, OverAt
<1>11. Statement(u, x) = s.text
  BY <1>1, <1>5, <1>10 DEF Statement
<1>12. Cuts(u)[x - 1].over \in Nat
  BY <1>2, <1>6 DEF CutStates
<1>13. ~ (x <= Cuts(u)[x - 1].over) /\ ~ (z > Len(u))
  BY <1>1, <1>2, <1>5, <1>12
<1>14. Cuts(u)[x] = [over |-> z, texts |-> Append(Cuts(u)[x - 1].texts, s.text)]
  BY <1>5, <1>6, <1>10, <1>11, <1>13 DEF CutStep
<1>15. Cuts(u)[x].over = z /\ Cuts(u)[x].texts = Append(Cuts(u)[x - 1].texts, s.text)
  BY <1>14
<1>16. Cuts(u)[z] = Cuts(u)[x]
  <2>1. x \in 0..Len(u) /\ z \in x..Len(u) /\ z <= Cuts(u)[x].over
    BY <1>1, <1>2, <1>15
  <2> QED
    BY <1>1, <1>6, <2>1, CutsStay
<1>17. Cuts(u)[z].texts = Cuts(u)[p].texts \o r.queue
  <2>1. Cuts(u)[p] \in CutStates(U)
    BY <1>6, <1>7
  <2>2. /\ Cuts(u)[p].texts \in Seq(Seq(U)) /\ s.queue \in Seq(Seq(U))
        /\ s.text \in Seq(U)
    BY <1>1, <2>1 DEF CutStates, ScanStates
  <2>3. Append(Cuts(u)[p].texts \o s.queue, s.text) = Cuts(u)[p].texts \o Append(s.queue, s.text)
    <3>1. Joinable(Seq(U), Cuts(u)[p].texts, s.queue, s.text)
      BY <2>2 DEF Joinable
    <3>2. Joined(Cuts(u)[p].texts, s.queue, s.text)
      BY <3>1, AppendJoined, Zenon
    <3> QED
      BY <3>2 DEF Joined
  <2> QED
    BY <1>4, <1>5, <1>15, <1>16, <2>3
<1>18. Cuts(u)[z].over <= z
  BY <1>1, <1>2, <1>15, <1>16
<1> QED
  BY <1>4, <1>17, <1>18 DEF Matches, NoneBegun, r, z

\* parse_query and Cuts agree on every token.
LEMMA ReadsText ==
  ASSUME NEW U, NEW u, NEW p, NEW text, Behind(U, u, p, text), NEW q \in Nat,
         \A k \in 0..Len(text) : k <= q => Scans(text)[k].mode # "command"
  PROVE  Matches(u, p, text, q, Len(text))
<1> DEFINE n == Len(text)
           G == {k \in 0..n : Matches(u, p, text, q, k)}
<1>1. /\ "NUL" \in U /\ "\n" \in U /\ u \in Seq(U) /\ text \in Seq(U) /\ p \in Nat
      /\ Len(u) = p + n /\ Cuts(u)[p].over <= p
  BY DEF Behind
<1>2. n \in Nat /\ p \in 0..Len(u)
  BY <1>1
<1>3. 0 \in G
  <2>1. Scans(text)[0].mode = "none" /\ Scans(text)[0].queue = <<>>
    BY <1>1, ScansIs DEF Fresh
  <2>2. Cuts(u)[p] \in CutStates(U)
    BY <1>1, <1>2, CutsIs
  <2>3. Cuts(u)[p].texts \o <<>> = Cuts(u)[p].texts
    <3> DEFINE a == Cuts(u)[p].texts
               V == Seq(U)
    <3>1. a \in Seq(V)
      BY <2>2 DEF CutStates
    <3> HIDE DEF a, V
    <3>2. a \o <<>> = a
      BY <3>1
    <3> QED
      BY <3>2 DEF a
  <2>4. p + 0 = p
    BY <1>1
  <2>5. NoneBegun(u, p, text, 0)
    BY <1>1, <2>1, <2>3, <2>4 DEF NoneBegun
  <2> QED
    BY <1>2, <2>1, <2>5 DEF Matches
<1>4. ASSUME NEW k \in 1..n, k - 1 \in G PROVE k \in G
  <2>1. Matches(u, p, text, q, k - 1)
    BY <1>4
  <2>2. Scans(text)[k - 1] \in ScanStates(U) /\ k \in 0..n /\ k \in 1..Len(text)
    <3>1. Scans(text) \in [0..Len(text) -> ScanStates(U)]
      BY <1>1, ScansIs
    <3> QED
      BY <1>2, <3>1
  <2>3. Scans(text)[k - 1].mode \in Modes
    BY <2>2 DEF ScanStates
  <2>4. k <= q => Scans(text)[k].mode # "command"
    BY <2>2
  <2> HIDE DEF n
  <2>5. CASE Scans(text)[k - 1].mode = "none"
    <3>1. NoneBegun(u, p, text, k - 1)
      BY <2>1, <2>5 DEF Matches
    <3>2. Matches(u, p, text, q, k)
      BY <2>2, <2>4, <2>5, <3>1, ReadsBetween
    <3> QED
      BY <2>2, <3>2
  <2>6. CASE Scans(text)[k - 1].mode # "none"
    <3>1. PICK x \in p + 1..p + (k - 1) : Begun(u, p, text, q, k - 1, x)
      BY <2>1, <2>6 DEF Matches
    <3>2. CASE Scans(text)[k - 1].mode = "command"
      <4>1. Matches(u, p, text, q, k)
        BY <2>2, <3>1, <3>2, ReadsCommand
      <4> QED
        BY <2>2, <4>1
    <3>3. CASE Scans(text)[k - 1].mode = "query" /\ text[k] \in Terminators
      <4>1. Matches(u, p, text, q, k)
        BY <2>2, <3>1, <3>3, ReadsTerminator
      <4> QED
        BY <2>2, <4>1
    <3>4. CASE \/ Scans(text)[k - 1].mode \in Openers
               \/ Scans(text)[k - 1].mode = "query" /\ text[k] \notin Terminators
      <4>1. Matches(u, p, text, q, k)
        BY <2>2, <3>1, <3>4, ReadsWithin DEF GoesOn
      <4> QED
        BY <2>2, <4>1
    <3> QED
      BY <2>3, <2>6, <3>2, <3>3, <3>4 DEF Modes
  <2> QED
    BY <2>5, <2>6
<1> HIDE DEF G, n
<1>5. n \in G
  <2>1. \A k \in 0..n : k \in G
    BY <1>2, <1>3, <1>4, Induction
  <2> QED
    BY <1>2, <2>1
<1> QED
  BY <1>5 DEF G, n

\* A line has been read behind the first q tokens of the text, in which no command was.
Line(text, q) ==
  /\ q \in 0..Len(text) - 1
  /\ \A k \in 0..Len(text) : k <= q => Scans(text)[k].mode # "command"
  /\ \A j \in q + 1..Len(text) - 1 : text[j] # "\n"
  /\ text[Len(text)] = "\n"

\* Behind the first p tokens there are the statements of a queue.
Adds(u, p, texts) == Statements(u) = Cuts(u)[p].texts \o texts

\* The text ends behind a statement.
LEMMA LineEnds ==
  ASSUME NEW U, NEW u, NEW p, NEW text, Behind(U, u, p, text), NEW q, Line(text, q),
         Scans(text)[Len(text)].mode = "none"
  PROVE  /\ Cuts(u)[Len(u)].over <= Len(u)
         /\ Adds(u, p, Scans(text)[Len(text)].queue)
<1>1. Len(u) = p + Len(text) /\ text \in Seq(U) /\ p \in Nat
  BY DEF Behind
<1>2. q \in Nat /\ \A k \in 0..Len(text) : k <= q => Scans(text)[k].mode # "command"
  BY <1>1 DEF Line
<1>3. Matches(u, p, text, q, Len(text))
  BY <1>2, ReadsText
<1>4. NoneBegun(u, p, text, Len(text))
  BY <1>3 DEF Matches
<1> QED
  BY <1>1, <1>4 DEF NoneBegun, Statements, Adds

\* It ends within a command, which the end of the line ends.
LEMMA LineEndsCommand ==
  ASSUME NEW U, NEW u, NEW p, NEW text, Behind(U, u, p, text), NEW q, Line(text, q),
         Scans(text)[Len(text)].mode = "command"
  PROVE  /\ Cuts(u)[Len(u)].over <= Len(u)
         /\ Trim(Scans(text)[Len(text)].text) \in Seq(U)
         /\ Adds(u, p, Append(Scans(text)[Len(text)].queue, Trim(Scans(text)[Len(text)].text)))
<1> DEFINE n == Len(text)
           r == Scans(text)[n]
           z == Len(u)
<1>1. /\ "NUL" \in U /\ "\n" \in U /\ z = p + n /\ text \in Seq(U) /\ u \in Seq(U) /\ p \in Nat
      /\ n \in Nat /\ \A j \in 1..n : u[p + j] = text[j]
  BY DEF Behind
<1>2. /\ q \in Nat /\ q < n /\ \A k \in 0..Len(text) : k <= q => Scans(text)[k].mode # "command"
      /\ \A j \in q + 1..n - 1 : text[j] # "\n"
      /\ text[n] = "\n"
  BY <1>1 DEF Line
<1>3. Matches(u, p, text, q, n)
  BY <1>2, ReadsText
<1>4. PICK x \in p + 1..p + n : Begun(u, p, text, q, n, x)
  BY <1>3 DEF Matches
<1>5. /\ Cuts(u)[x - 1].over < x
      /\ Cuts(u)[x - 1].texts = Cuts(u)[p].texts \o r.queue
      /\ u[x] \notin Blanks \cup Terminators
      /\ r.text = SubSeq(u, x, p + n)
      /\ u[x] \in Commands /\ x > p + q
  BY <1>4 DEF Begun
<1>6. /\ Cuts(u) \in [0..z -> CutStates(U)] /\ Scans(text) \in [0..n -> ScanStates(U)]
      /\ \A e \in 1..z : Cuts(u)[e] = CutStep(u, Cuts(u)[e - 1], e)
  BY <1>1, CutsIs, ScansIs
<1> HIDE DEF r, n, z
<1>7. z \in Nat /\ u[z] = "\n" /\ x \in Nat \ {0} /\ x \in 1..z
  <2>1. n \in 1..n
    BY <1>1, <1>2
  <2> QED
    BY <1>1, <1>2, <2>1
<1>8. x < z
  <2>1. u[x] # "\n"
    BY <1>5 DEF Commands
  <2> QED
    BY <1>7, <2>1
<1>9. Over(u, x) = z
  <2>1. Ends(u, x, z)
    BY <1>5, <1>7 DEF Ends
  <2>2. ASSUME NEW e \in x + 1..z - 1 PROVE ~ Ends(u, x, e)
    <3> DEFINE j == e - p
    <3>1. j \in q + 1..n - 1 /\ j \in 1..n /\ p + j = e
      BY <1>1, <1>2, <1>5, <1>7
    <3> HIDE DEF j
    <3>2. u[e] # "\n"
      BY <1>1, <1>2, <3>1
    <3> QED
      BY <1>5, <3>2 DEF Ends
  <2>3. z \in x + 1..z + 1
    BY <1>7, <1>8
  <2> USE DEF z
  <2> QED
    BY <1>1, <1>7, <2>1, <2>2, <2>3, OverAt
<1>10. Statement(u, x) = Trim(r.text)
  <2> DEFINE text1 == SubSeq(u, x, z - 1)
  <2>1. text1 \in Seq(U) /\ Len(text1) = z - x
    BY <1>1, <1>7, <1>8 DEF z
  <2>2. r.text = Append(text1, "\n")
    <3>1. z \in x + 1..Len(u)
      BY <1>7, <1>8 DEF z
    <3>2. SubSeq(u, x, z) = Append(SubSeq(u, x, z - 1), u[z])
      BY <1>1, <1>7, <3>1, OneMore
    <3> QED
      BY <1>1, <1>5, <1>7, <3>2
  <2>3. Statement(u, x) = Trim(text1)
    BY <1>5, <1>9 DEF Statement
  <2> HIDE DEF text1
  <2>4. text1 # <<>>
    BY <1>7, <1>8, <2>1
  <2>5. Trim(Append(text1, "\n")) = Trim(text1)
    BY <1>1, <2>1, <2>4, TrimIs
  <2> QED
    BY <2>2, <2>3, <2>5
<1>11. x - 1 \in 0..z /\ x \in 0..z /\ z \in x..z /\ p \in 0..z
  BY <1>1, <1>7, <1>8
<1>12. Cuts(u)[x - 1].over \in Nat
  BY <1>6, <1>11 DEF CutStates
<1>13. ~ (x <= Cuts(u)[x - 1].over) /\ ~ (z > Len(u))
  BY <1>5, <1>7, <1>12 DEF z
<1>14. Cuts(u)[x] = [over |-> z, texts |-> Append(Cuts(u)[x - 1].texts, Trim(r.text))]
  <2>1. Cuts(u)[x] = CutStep(u, Cuts(u)[x - 1], x)
    BY <1>6, <1>7
  <2> QED
    BY <1>5, <1>9, <1>10, <1>13, <2>1 DEF CutStep
<1>15. Cuts(u)[x].over = z /\ Cuts(u)[x].texts = Append(Cuts(u)[x - 1].texts, Trim(r.text))
  BY <1>14
<1>16. Cuts(u)[z] = Cuts(u)[x]
  <2>1. z <= Cuts(u)[x].over
    BY <1>7, <1>15
  <2> QED
    BY <1>1, <1>11, <2>1, CutsStay DEF z
<1>17. Statements(u) = Append(Cuts(u)[p].texts \o r.queue, Trim(r.text))
  BY <1>5, <1>15, <1>16 DEF Statements, z
<1>18. r \in ScanStates(U) /\ Trim(r.text) \in Seq(U)
  <2>1. r \in ScanStates(U)
    BY <1>1, <1>6 DEF r
  <2>2. r.text # <<>>
    <3>1. Len(r.text) = z - x + 1
      BY <1>1, <1>5, <1>7, <1>8 DEF z
    <3>2. z - x + 1 # 0
      BY <1>7, <1>8
    <3> QED
      BY <3>1, <3>2
  <2>3. r.text \in Seq(U)
    BY <2>1 DEF ScanStates
  <2> QED
    BY <1>1, <2>1, <2>2, <2>3, TrimIs
<1>19. Joined(Cuts(u)[p].texts, r.queue, Trim(r.text))
  <2>1. Cuts(u)[p] \in CutStates(U)
    BY <1>6, <1>11
  <2>2. Joinable(Seq(U), Cuts(u)[p].texts, r.queue, Trim(r.text))
    BY <1>18, <2>1 DEF Joinable, CutStates, ScanStates
  <2> QED
    BY <2>2, AppendJoined, Zenon
<1>20. Cuts(u)[z].over <= z
  BY <1>7, <1>15, <1>16
<1> QED
  BY <1>17, <1>18, <1>19, <1>20 DEF Joined, Adds, r, n, z

\* It ends within a statement that is not over.
LEMMA LineEndsOpen ==
  ASSUME NEW U, NEW u, NEW p, NEW text, Behind(U, u, p, text), NEW q, Line(text, q),
         Scans(text)[Len(text)].mode \notin {"none", "command"}
  PROVE  Adds(u, p, Scans(text)[Len(text)].queue)
<1> DEFINE n == Len(text)
           r == Scans(text)[n]
           z == Len(u)
<1>1. /\ "NUL" \in U /\ "\n" \in U /\ z = p + n /\ text \in Seq(U) /\ u \in Seq(U) /\ p \in Nat
      /\ n \in Nat
  BY DEF Behind
<1>2. q \in Nat /\ \A k \in 0..Len(text) : k <= q => Scans(text)[k].mode # "command"
  BY <1>1 DEF Line
<1>3. Matches(u, p, text, q, n)
  BY <1>2, ReadsText
<1>4. PICK x \in p + 1..p + n : Begun(u, p, text, q, n, x)
  BY <1>3 DEF Matches
<1>5. /\ Cuts(u)[x - 1].over < x
      /\ Cuts(u)[x - 1].texts = Cuts(u)[p].texts \o r.queue
      /\ u[x] \notin Blanks \cup Terminators
      /\ \A d \in x + 1..p + n : ~ Ends(u, x, d)
  BY <1>4 DEF Begun, NotOver
<1>6. /\ Cuts(u) \in [0..z -> CutStates(U)]
      /\ \A e \in 1..z : Cuts(u)[e] = CutStep(u, Cuts(u)[e - 1], e)
  BY <1>1, CutsIs
<1> HIDE DEF r, n, z
<1>7. z \in Nat /\ x \in 1..z /\ x \in Nat /\ x - 1 \in 0..z /\ x \in 0..z /\ z \in x..z
  BY <1>1
<1>8. Over(u, x) = z + 1
  <2>1. z + 1 \in x + 1..z + 1 /\ ~ (z + 1 <= z)
    BY <1>7
  <2>2. \A e \in x + 1..z : ~ Ends(u, x, e)
    BY <1>1, <1>5
  <2>3. z + 1 - 1 = z
    BY <1>7
  <2> USE DEF z
  <2> QED
    BY <1>1, <1>7, <2>1, <2>2, <2>3, OverAt
<1>9. Cuts(u)[x - 1].over \in Nat
  BY <1>6, <1>7 DEF CutStates
<1>10. ~ (x <= Cuts(u)[x - 1].over) /\ z + 1 > Len(u)
  BY <1>5, <1>7, <1>9 DEF z
<1>11. Cuts(u)[x] = [over |-> z + 1, texts |-> Cuts(u)[x - 1].texts]
  <2>1. Cuts(u)[x] = CutStep(u, Cuts(u)[x - 1], x)
    BY <1>6, <1>7
  <2> QED
    BY <1>5, <1>8, <1>10, <2>1 DEF CutStep
<1>12. Cuts(u)[x].over = z + 1 /\ Cuts(u)[x].texts = Cuts(u)[x - 1].texts
  BY <1>11
<1>13. Cuts(u)[z] = Cuts(u)[x]
  <2>1. z <= Cuts(u)[x].over
    BY <1>7, <1>12
  <2> QED
    BY <1>1, <1>7, <2>1, CutsStay DEF z
<1> QED
  BY <1>5, <1>12, <1>13 DEF Statements, Adds, r, n, z

-----------------------------------------------------------------------------
(* What a line makes of the buffer. *)

\* The loop stops at the first NUL, and otherwise at the end.
LEMMA VisibleIs ==
  ASSUME NEW U, NEW text \in Seq(U), NEW n \in 0..Len(text),
         n < Len(text) => text[n + 1] = "NUL", \A j \in 1..n : text[j] # "NUL"
  PROVE  Visible(text) = n
<1> DEFINE nuls == {i \in DOMAIN text : text[i] = "NUL"}
<1>1. n \in Nat /\ Len(text) \in Nat /\ DOMAIN text = 1..Len(text) /\ n <= Len(text)
  OBVIOUS
<1>4. n = Len(text) \/ n < Len(text)
  <2>1. \A a, b \in Nat : a <= b => a = b \/ a < b
    OBVIOUS
  <2> QED
    BY <1>1, <2>1, Zenon
<1>2. CASE n = Len(text)
  <2>1. nuls = {}
    BY <1>1, <1>2
  <2> QED
    BY <1>2, <2>1 DEF Visible
<1>3. CASE n < Len(text)
  <2>1. n + 1 \in nuls /\ nuls \subseteq Nat
    BY <1>1, <1>3
  <2>2. ASSUME NEW y \in nuls PROVE n + 1 <= y
    <3>1. y \in 1..Len(text) /\ ~ (y \in 1..n)
      BY <1>1
    <3> QED
      BY <1>1, <3>1
  <2>3. Visible(text) = IF nuls = {} THEN Len(text) ELSE Min(nuls) - 1
    BY DEF Visible
  <2> HIDE DEF nuls
  <2>4. Min(nuls) \in nuls /\ \A y \in nuls : Min(nuls) <= y
    <3>1. \E x \in nuls : \A y \in nuls : x <= y
      BY <2>1, <2>2
    <3> QED
      BY <3>1 DEF Min
  <2>5. PICK low \in nuls : low = Min(nuls) /\ \A y \in nuls : low <= y
    BY <2>4
  <2>6. low \in Nat /\ n + 1 <= low /\ low <= n + 1
    BY <2>1, <2>2, <2>5
  <2>7. low - 1 = n
    BY <1>1, <2>6
  <2>8. Visible(text) = low - 1
    BY <2>1, <2>3, <2>5
  <2> QED
    BY <2>7, <2>8
<1> QED
  BY <1>2, <1>3, <1>4, Zenon

\* What the buffer is left with, of a text of which n tokens are read.
Left(text, n) == Scans(text)[n].kept \o SubSeq(text, n + 1, Len(text))

\* It is as long as the text, and is the text if no statement was ended.
LEMMA LeftIs ==
  ASSUME NEW U, "NUL" \in U, NEW text \in Seq(U), NEW n \in 0..Len(text)
  PROVE  /\ Left(text, n) \in Seq(U) /\ Len(Left(text, n)) = Len(text)
         /\ \A j \in 1..n : Left(text, n)[j] = Scans(text)[n].kept[j]
         /\ Whole(text, n) => Left(text, n) = text
<1> DEFINE kept == Scans(text)[n].kept
           rest == SubSeq(text, n + 1, Len(text))
           left == kept \o rest
<1>1. kept \in Seq(U) /\ Len(kept) = n /\ n \in Nat /\ Len(text) \in Nat
  BY KeptIs
<1>2. /\ rest \in Seq(U) /\ Len(rest) = Len(text) - n
      /\ \A j \in 1..Len(text) - n : rest[j] = text[n + j]
  BY <1>1
<1>3. Left(text, n) = left
  BY DEF Left
<1>4. Whole(text, n) => \A j \in 1..n : kept[j] = text[j]
  BY DEF Whole
<1> HIDE DEF kept, rest
<1>5. left \in Seq(U) /\ Len(left) = Len(text)
  BY <1>1, <1>2
<1>6. \A j \in 1..n : left[j] = kept[j]
  BY <1>1, <1>2
<1>7. ASSUME NEW j \in n + 1..Len(text) PROVE left[j] = text[j]
  <2>1. j - n \in 1..Len(text) - n /\ n + (j - n) = j /\ j \in 1..Len(kept) + Len(rest)
    BY <1>1, <1>2
  <2>2. left[j] = rest[j - n]
    BY <1>1, <1>2, <2>1
  <2> QED
    BY <1>2, <2>1, <2>2
<1> HIDE DEF left
<1>8. ASSUME \A j \in 1..n : kept[j] = text[j] PROVE left = text
  <2>1. \A j \in 1..Len(text) : j \in 1..n \/ j \in n + 1..Len(text)
    BY <1>1
  <2>2. \A j \in 1..Len(text) : left[j] = text[j]
    BY <1>6, <1>7, <1>8, <2>1
  <2> QED
    BY <1>5, <2>2
<1> QED
  BY <1>3, <1>4, <1>5, <1>6, <1>8 DEF kept

\* The buffer is cut off at a NUL, up to which it is scanned and in a statement there.
Lost(text) ==
  \E n \in 0..Len(text) - 1 :
    /\ text[n + 1] = "NUL" /\ \A j \in 1..n : text[j] # "NUL"
    /\ Scans(text)[n].mode = "query" /\ Whole(text, n)

\* It stays cut off, whatever is read.
LEMMA LostStays ==
  ASSUME NEW U, "NUL" \in U, NEW b \in Seq(U), Lost(b), NEW line \in Seq(U)
  PROVE  /\ Lost(b \o line)
         /\ Scans(b \o line)[Visible(b \o line)].mode = "query"
         /\ Scans(b \o line)[Visible(b \o line)].queue = <<>>
         /\ Left(b \o line, Visible(b \o line)) = b \o line
<1>1. PICK n \in 0..Len(b) - 1 :
        /\ b[n + 1] = "NUL" /\ \A j \in 1..n : b[j] # "NUL"
        /\ Scans(b)[n].mode = "query" /\ Whole(b, n)
  BY DEF Lost
<1> DEFINE text == b \o line
<1>2. /\ text \in Seq(U) /\ Len(text) = Len(b) + Len(line) /\ Len(b) \in Nat /\ Len(line) \in Nat
      /\ n \in Nat /\ n + 1 <= Len(b)
      /\ \A j \in 1..Len(b) : text[j] = b[j]
  OBVIOUS
<1> HIDE DEF text
<1>3. /\ n \in 0..Len(text) - 1 /\ n \in 0..Len(text) /\ n \in 0..Len(b) /\ n <= Len(text)
      /\ text[n + 1] = "NUL" /\ \A j \in 1..n : text[j] = b[j] /\ text[j] # "NUL"
  BY <1>1, <1>2
<1>4. Scans(b)[n] = Scans(text)[n]
  BY <1>2, <1>3, ScansAgree
<1>5. Scans(text)[n].mode = "query" /\ Whole(text, n)
  BY <1>1, <1>3, <1>4 DEF Whole
<1>6. Visible(text) = n
  BY <1>2, <1>3, VisibleIs
<1>7. Left(text, n) = text
  BY <1>2, <1>3, <1>5, LeftIs
<1>8. Lost(text)
  BY <1>3, <1>5 DEF Lost
<1>9. Scans(text)[n].queue = <<>>
  BY <1>5 DEF Whole
<1> QED
  BY <1>5, <1>6, <1>7, <1>8, <1>9 DEF text

\* A statement is left open: the text is kept whole, or it is cut off.
LEMMA LeftOpen ==
  ASSUME NEW U, "NUL" \in U, NEW text \in Seq(U), \A j \in 1..Len(text) : text[j] # "NUL"
  PROVE  LET left == Left(text, Len(text))
         IN  \/ left = text /\ Scans(text)[Len(text)].queue = <<>>
             \/ Lost(left)
<1> DEFINE n == Len(text)
           left == Left(text, n)
<1>1. n \in Nat /\ n \in 0..Len(text)
  OBVIOUS
<1>2. /\ left \in Seq(U) /\ Len(left) = n
      /\ \A j \in 1..n : left[j] = Scans(text)[n].kept[j]
      /\ Whole(text, n) => left = text
  BY <1>1, LeftIs
<1>3. Whole(text, n) \/ \E m \in 1..n : CutAt(text, n, m)
  BY <1>1, KeptIs
<1>4. CASE Whole(text, n)
  BY <1>2, <1>4 DEF Whole
<1>5. ASSUME NEW m \in 1..n, CutAt(text, n, m) PROVE Lost(left)
  <2>0. /\ Scans(text)[n].kept[m] = "NUL"
        /\ \A j \in 1..m - 1 : Scans(text)[n].kept[j] = text[j]
        /\ Scans(text)[m - 1].mode = "query" /\ Whole(text, m - 1)
    BY <1>5 DEF CutAt
  <2> HIDE DEF left
  <2>1. /\ m - 1 \in 0..Len(left) - 1 /\ m - 1 \in 0..Len(left) /\ m - 1 <= Len(text)
        /\ (m - 1) + 1 = m /\ m \in Nat
        /\ \A j \in 1..m - 1 : j \in 1..n
    BY <1>1, <1>2
  <2>2. left[m] = "NUL" /\ \A j \in 1..m - 1 : left[j] = text[j] /\ left[j] # "NUL"
    BY <1>2, <2>0, <2>1
  <2>3. Scans(left)[m - 1] = Scans(text)[m - 1]
    BY <1>2, <2>1, <2>2, ScansAgree
  <2>4. Scans(left)[m - 1].mode = "query" /\ Whole(left, m - 1)
    BY <2>0, <2>2, <2>3 DEF Whole
  <2> QED
    BY <2>1, <2>2, <2>4 DEF Lost
<1> QED
  BY <1>3, <1>4, <1>5

Chars == Tokens \cup {"\n", "NUL"}

Clean(b) == \A j \in 1..Len(b) : b[j] # "NUL"

\* What is typed before the buffer is over and made the texts.
Behold(u, b, texts) ==
  \E pre \in Seq(Chars) :
    /\ u = pre \o b
    /\ Cuts(pre)[Len(pre)].over <= Len(pre)
    /\ Cuts(pre)[Len(pre)].texts = texts

\* All that is typed, u, but for the buffer b made the texts, and b is yet to be read.
Pending(u, b, texts) ==
  /\ Clean(b)
  /\ \A k \in 0..Len(b) : Scans(b)[k].mode # "command"
  /\ Behold(u, b, texts)
  /\ Statements(u) = texts

IsLine(line) ==
  /\ line \in Seq(Chars) /\ Len(line) # 0
  /\ Clean(line)
  /\ \A j \in 1..Len(line) - 1 : line[j] # "\n"
  /\ line[Len(line)] = "\n"

\* Nothing is pending behind a text all of whose statements are over.
LEMMA NothingPending ==
  ASSUME NEW u \in Seq(Chars), Cuts(u)[Len(u)].over <= Len(u)
  PROVE  Pending(u, <<>>, Statements(u))
<1>1. u = u \o <<>> /\ Len(<<>>) = 0 /\ <<>> \in Seq(Chars)
  OBVIOUS
<1>2. Cuts(u)[Len(u)].texts = Statements(u)
  BY DEF Statements
<1>3. Behold(u, <<>>, Statements(u))
  BY <1>1, <1>2 DEF Behold
<1>4. Scans(<<>>)[0].mode = "none"
  <2>1. "NUL" \in Chars
    BY DEF Chars
  <2>2. Scans(<<>>)[0] = Fresh
    BY <1>1, <2>1, ScansIs
  <2> QED
    BY <2>2 DEF Fresh
<1>5. \A k \in 0..0 : Scans(<<>>)[k].mode # "command"
  <2>1. \A k \in 0..0 : k = 0
    OBVIOUS
  <2> QED
    BY <1>4, <2>1
<1>6. Clean(<<>>)
  BY DEF Clean
<1> QED
  BY <1>1, <1>3, <1>5, <1>6 DEF Pending

\* A line stands behind the buffer, and the buffer behind what is over.
LEMMA LineBehind ==
  ASSUME NEW pre \in Seq(Chars), NEW b \in Seq(Chars), NEW line \in Seq(Chars),
         Cuts(pre)[Len(pre)].over <= Len(pre)
  PROVE  /\ Behind(Chars, (pre \o b) \o line, Len(pre), b \o line)
         /\ Cuts((pre \o b) \o line)[Len(pre)] = Cuts(pre)[Len(pre)]
         /\ (pre \o b) \o line = pre \o (b \o line)
<1> DEFINE u == (pre \o b) \o line
           text == b \o line
           p == Len(pre)
<1>1. p \in Nat /\ Len(b) \in Nat /\ Len(line) \in Nat
  OBVIOUS
<1>2. /\ u \in Seq(Chars) /\ Len(u) = p + Len(b) + Len(line)
      /\ text \in Seq(Chars) /\ Len(text) = Len(b) + Len(line)
  OBVIOUS
<1>3. \A j \in 1..p : u[j] = pre[j]
  OBVIOUS
<1>4. ASSUME NEW j \in 1..Len(b) + Len(line) PROVE u[p + j] = text[j]
  <2>1. CASE j <= Len(b)
    <3>1. /\ p + j \in 1..p + Len(b) /\ ~ (p + j <= p) /\ (p + j) - p = j
          /\ j \in 1..Len(b)
      BY <1>1, <2>1
    <3>2. (pre \o b)[p + j] = b[j]
      BY <1>1, <3>1
    <3>3. u[p + j] = (pre \o b)[p + j]
      BY <1>1, <3>1
    <3> QED
      BY <3>1, <3>2, <3>3
  <2>2. CASE j > Len(b)
    <3> DEFINE i == j - Len(b)
    <3>1. i \in 1..Len(line) /\ p + j = Len(pre \o b) + i /\ j = Len(b) + i
      BY <1>1, <2>2
    <3> HIDE DEF i
    <3>2. u[Len(pre \o b) + i] = line[i]
      BY <1>1, <3>1
    <3>3. text[Len(b) + i] = line[i]
      BY <1>1, <3>1
    <3> QED
      BY <3>1, <3>2, <3>3
  <2>3. j <= Len(b) \/ j > Len(b)
    BY <1>1
  <2> QED
    BY <2>1, <2>2, <2>3
<1> HIDE DEF u, text
<1>5. {"\n", "NUL"} \subseteq Chars
  BY DEF Chars
<1>6. p <= Len(u)
  BY <1>1, <1>2
<1>7. Cuts(u)[p] = Cuts(pre)[p]
  BY <1>2, <1>3, <1>5, <1>6, CutsAgree
<1>8. Behind(Chars, u, p, text)
  <2>1. Len(u) = p + Len(text)
    BY <1>1, <1>2
  <2> QED
    BY <1>1, <1>2, <1>4, <1>5, <1>7, <2>1 DEF Behind
<1>9. u = pre \o text
  <2> DEFINE v == pre \o text
  <2>a. v \in Seq(Chars) /\ Len(v) = Len(u)
    <3>1. v \in Seq(Chars) /\ Len(v) = p + Len(text)
      <4>1. \A a, c \in Seq(Chars) : a \o c \in Seq(Chars) /\ Len(a \o c) = Len(a) + Len(c)
        OBVIOUS
      <4>2. text \in Seq(Chars)
        BY <1>2
      <4> QED
        BY <4>1, <4>2, Zenon
    <3>2. p + Len(text) = Len(u)
      BY <1>1, <1>2
    <3> QED
      BY <3>1, <3>2
  <2>b. \A j \in 1..p : v[j] = pre[j]
    BY <1>1, <1>2
  <2>c. \A j \in 1..Len(text) : v[p + j] = text[j]
    BY <1>1, <1>2
  <2>1. /\ v \in Seq(Chars) /\ Len(v) = Len(u)
        /\ \A j \in 1..p : v[j] = pre[j]
        /\ \A j \in 1..Len(text) : v[p + j] = text[j]
    BY <2>a, <2>b, <2>c
  <2> HIDE DEF v
  <2>2. ASSUME NEW j \in 1..Len(u) PROVE u[j] = v[j]
    <3>1. CASE j <= p
      BY <1>1, <1>3, <2>1, <3>1
    <3>2. CASE j > p
      <4>1. j - p \in 1..Len(text) /\ p + (j - p) = j
        BY <1>1, <1>2, <3>2
      <4>2. u[p + (j - p)] = text[j - p] /\ v[p + (j - p)] = text[j - p]
        BY <1>2, <1>4, <2>1, <4>1
      <4> QED
        BY <4>1, <4>2
    <3> QED
      BY <1>1, <3>1, <3>2
  <2>3. v \in Seq(Chars) /\ Len(v) = Len(u)
    BY <2>1
  <2>4. u = v
    BY <1>2, <2>2, <2>3
  <2> QED
    BY <2>4 DEF v
<1> QED
  BY <1>7, <1>8, <1>9 DEF u, text

\* The new line is the part of the text behind the buffer.
LEMMA LineOfText ==
  ASSUME NEW u \in Seq(Chars), NEW b \in Seq(Chars), NEW texts, Pending(u, b, texts),
         NEW line, IsLine(line)
  PROVE  /\ b \o line \in Seq(Chars) /\ Clean(b \o line)
         /\ Line(b \o line, Len(b))
<1> DEFINE text == b \o line
<1>1. /\ Clean(b) /\ \A k \in 0..Len(b) : Scans(b)[k].mode # "command"
  BY DEF Pending
<1>2. /\ line \in Seq(Chars) /\ Len(line) # 0
      /\ Clean(line)
      /\ \A j \in 1..Len(line) - 1 : line[j] # "\n"
      /\ line[Len(line)] = "\n"
  BY DEF IsLine
<1>3. Len(b) \in Nat /\ Len(line) \in Nat \ {0}
  BY <1>2
<1>4. /\ text \in Seq(Chars) /\ Len(text) = Len(b) + Len(line)
      /\ \A j \in 1..Len(b) : text[j] = b[j]
  BY <1>2
<1>5. ASSUME NEW j \in Len(b) + 1..Len(text)
      PROVE  j - Len(b) \in 1..Len(line) /\ text[j] = line[j - Len(b)]
  <2> DEFINE i == j - Len(b)
  <2>1. i \in 1..Len(line) /\ j = Len(b) + i
    BY <1>3, <1>4
  <2> HIDE DEF i
  <2>2. text[Len(b) + i] = line[i]
    BY <1>2, <1>3, <2>1
  <2>3. i \in 1..Len(line) /\ text[j] = line[i]
    BY <2>1, <2>2
  <2> QED
    BY <2>3 DEF i
<1> HIDE DEF text
<1>6. Clean(text)
  <2>1. ASSUME NEW j \in 1..Len(text) PROVE text[j] # "NUL"
    <3>1. j \in 1..Len(b) \/ j \in Len(b) + 1..Len(text)
      BY <1>3, <1>4
    <3> QED
      BY <1>1, <1>2, <1>4, <1>5, <3>1 DEF Clean
  <2> QED
    BY <2>1 DEF Clean
<1>7. ASSUME NEW k \in 0..Len(text), k <= Len(b) PROVE Scans(text)[k].mode # "command"
  <2>1. "NUL" \in Chars
    BY DEF Chars
  <2>2. k \in 0..Len(b) /\ k <= Len(text) /\ \A j \in 1..k : b[j] = text[j]
    <3>1. k \in 0..Len(b) /\ k <= Len(text) /\ \A j \in 1..k : j \in 1..Len(b)
      BY <1>3, <1>4, <1>7
    <3> QED
      BY <1>4, <3>1
  <2>3. Scans(b)[k] = Scans(text)[k]
    BY <1>4, <2>1, <2>2, ScansAgree
  <2> QED
    BY <1>1, <2>2, <2>3
<1>8. \A j \in Len(b) + 1..Len(text) - 1 : text[j] # "\n"
  <2>1. ASSUME NEW j \in Len(b) + 1..Len(text) - 1 PROVE text[j] # "\n"
    <3>1. j \in Len(b) + 1..Len(text) /\ j - Len(b) \in 1..Len(line) - 1
      BY <1>3, <1>4
    <3> QED
      BY <1>2, <1>5, <3>1
  <2> QED
    BY <2>1
<1>9. text[Len(text)] = "\n"
  <2>1. Len(text) \in Len(b) + 1..Len(text) /\ Len(text) - Len(b) = Len(line)
    BY <1>3, <1>4
  <2> QED
    BY <1>2, <1>5, <2>1
<1>10. Len(b) \in 0..Len(text) - 1
  BY <1>3, <1>4
<1> QED
  BY <1>4, <1>6, <1>7, <1>8, <1>9, <1>10 DEF Line, text

\* What is read of a line behind the buffer b: all that was pending, and what the line ends.
Reads(u, b, texts, line) ==
  LET text == b \o line
      n    == Len(text)
      r    == Scans(text)[n]
  IN  /\ Visible(text) = n /\ r \in ScanStates(Chars)
      /\ r.mode = "none" => Pending(u \o line, <<>>, texts \o r.queue)
      /\ r.mode = "command" =>
           /\ Trim(r.text) \in Seq(Chars)
           /\ Pending(u \o line, <<>>, texts \o Append(r.queue, Trim(r.text)))
      /\ r.mode \notin {"none", "command"} =>
           \/ Lost(Left(text, n))
           \/ /\ Left(text, n) = text /\ r.queue = <<>>
              /\ Pending(u \o line, text, texts)

\* It is so: parse_query reads what Cuts makes of the text.
LEMMA ReadPending ==
  ASSUME NEW u \in Seq(Chars), NEW b \in Seq(Chars), NEW texts, Pending(u, b, texts),
         NEW line, IsLine(line)
  PROVE  Reads(u, b, texts, line)
<1> DEFINE text == b \o line
           n    == Len(text)
           r    == Scans(text)[n]
           v    == u \o line
<1>1. text \in Seq(Chars) /\ Clean(text) /\ Line(text, Len(b)) /\ {"NUL", "\n"} \subseteq Chars
  <2>1. {"NUL", "\n"} \subseteq Chars
    BY DEF Chars
  <2> QED
    BY <2>1, LineOfText
<1>2. line \in Seq(Chars)
  BY DEF IsLine
<1>3. n \in Nat /\ n \in 0..n /\ n \in 0..Len(text)
  BY <1>1
<1>4. v \in Seq(Chars)
  BY <1>2
<1>5. PICK pre \in Seq(Chars) :
        /\ u = pre \o b
        /\ Cuts(pre)[Len(pre)].over <= Len(pre)
        /\ Cuts(pre)[Len(pre)].texts = texts
  BY DEF Pending, Behold
<1>6. /\ Behind(Chars, v, Len(pre), text)
      /\ Cuts(v)[Len(pre)].texts = texts
      /\ v = pre \o text
  BY <1>2, <1>5, LineBehind
<1>7. texts \in Seq(Seq(Chars))
  <2>1. Cuts(pre) \in [0..Len(pre) -> CutStates(Chars)] /\ Len(pre) \in 0..Len(pre)
    BY <1>1, CutsIs
  <2> QED
    BY <1>5, <2>1 DEF CutStates
<1>8. r \in ScanStates(Chars)
  BY <1>1, <1>3, ScansIs
<1>9. Visible(text) = n
  <2>1. \A j \in 1..n : text[j] # "NUL"
    BY <1>1 DEF Clean
  <2>2. ~ (n < Len(text))
    BY <1>3
  <2> QED
    BY <1>1, <1>3, <2>1, <2>2, VisibleIs
<1> HIDE DEF text, v
<1>a. Behind(Chars, v, Len(pre), text)
  BY <1>6
<1>b. Line(text, Len(b))
  BY <1>1
<1>10. ASSUME r.mode = "none" PROVE Pending(v, <<>>, texts \o r.queue)
  <2>1. /\ Cuts(v)[Len(v)].over <= Len(v)
        /\ Adds(v, Len(pre), r.queue)
    BY <1>a, <1>b, <1>10, LineEnds, Zenon
  <2>2. Pending(v, <<>>, Statements(v))
    BY <1>4, <2>1, NothingPending
  <2> QED
    BY <1>6, <2>1, <2>2 DEF Adds
<1>11. ASSUME r.mode = "command"
       PROVE  /\ Trim(r.text) \in Seq(Chars)
              /\ Pending(v, <<>>, texts \o Append(r.queue, Trim(r.text)))
  <2>1. /\ Cuts(v)[Len(v)].over <= Len(v) /\ Trim(r.text) \in Seq(Chars)
        /\ Adds(v, Len(pre), Append(r.queue, Trim(r.text)))
    BY <1>a, <1>b, <1>11, LineEndsCommand, Zenon
  <2>2. Pending(v, <<>>, Statements(v))
    BY <1>4, <2>1, NothingPending
  <2> QED
    BY <1>6, <2>1, <2>2 DEF Adds
<1>12. ASSUME r.mode \notin {"none", "command"}, Left(text, n) = text, r.queue = <<>>
       PROVE  Pending(v, text, texts)
  <2>1. Adds(v, Len(pre), r.queue)
    BY <1>a, <1>b, <1>12, LineEndsOpen, Zenon
  <2>2. Statements(v) = texts
    BY <1>6, <1>7, <1>12, <2>1 DEF Adds
  <2>3. ASSUME NEW k \in 0..Len(text), Scans(text)[k].mode = "command" PROVE FALSE
    <3>1. n \in k..Len(text)
      BY <1>3
    <3>2. r.mode = "command"
      BY <1>1, <2>3, <3>1, CommandLasts
    <3> QED
      BY <1>12, <3>2
  <2>4. Behold(v, text, texts)
    BY <1>5, <1>6 DEF Behold
  <2> QED
    BY <1>1, <2>2, <2>3, <2>4 DEF Pending
<1>13. \/ Left(text, n) = text /\ r.queue = <<>>
       \/ Lost(Left(text, n))
  <2>1. \A j \in 1..Len(text) : text[j] # "NUL"
    BY <1>1 DEF Clean
  <2> QED
    BY <1>1, <2>1, LeftOpen
<1> QED
  BY <1>8, <1>9, <1>10, <1>11, <1>12, <1>13 DEF Reads, text, v

-----------------------------------------------------------------------------
(* The session. *)

Fates == {"done", "failed", "refused", "updated", "rows", "boolean", "completed", "dropped"}
Entries == [text : Seq(Chars), fate : Fates]

TextInv ==
  /\ typed \in Seq(Chars) /\ buffer \in Seq(Chars)
  /\ queue \in Seq(Seq(Chars)) /\ log \in Seq(Entries)
  /\ pc \in {"prompt", "exec", "exited"}
  /\ pc = "exec" => mode = "none"
  /\ mode = "none" => buffer = <<>>

\* All that was typed but for the buffer is taken or queued, unless it is cut off.
PendingInv ==
  \/ pc = "exited"
  \/ pc = "prompt" /\ mode # "none" /\ Lost(buffer)
  \/ /\ pc = "prompt" => queue = <<>>
     /\ Pending(typed, buffer, Taken \o queue)

TextsOf(l) == [i \in DOMAIN l |-> l[i].text]

\* The texts of a log.
LEMMA TextsOfIs ==
  ASSUME NEW l \in Seq(Entries)
  PROVE  /\ TextsOf(l) \in Seq(Seq(Chars)) /\ Len(TextsOf(l)) = Len(l)
         /\ \A i \in 1..Len(l) : TextsOf(l)[i] = l[i].text
<1>1. Len(l) \in Nat /\ DOMAIN l = 1..Len(l) /\ \A i \in 1..Len(l) : l[i] \in Entries
  OBVIOUS
<1>2. \A i \in 1..Len(l) : l[i].text \in Seq(Chars)
  BY <1>1 DEF Entries
<1> DEFINE t == [i \in 1..Len(l) |-> l[i].text]
<1>3. t \in [1..Len(l) -> Seq(Chars)]
  BY <1>2
<1>4. t \in Seq(Seq(Chars)) /\ Len(t) = Len(l)
  BY <1>1, <1>3
<1>5. TextsOf(l) = t
  BY <1>1 DEF TextsOf
<1>6. \A i \in 1..Len(l) : t[i] = l[i].text
  OBVIOUS
<1> HIDE DEF t
<1> QED
  BY <1>4, <1>5, <1>6

\* One sequence behind another.
Behinds(a, b, c) ==
  /\ Len(c) = Len(a) + Len(b)
  /\ \A i \in 1..Len(a) : c[i] = a[i]
  /\ \A i \in 1..Len(b) : c[Len(a) + i] = b[i]

\* A concatenation is the one behind the other.
LEMMA ConcatIs ==
  ASSUME NEW S, NEW a \in Seq(S), NEW b \in Seq(S)
  PROVE  a \o b \in Seq(S) /\ Behinds(a, b, a \o b)
<1> DEFINE c == a \o b
<1>1. c \in Seq(S) /\ Len(c) = Len(a) + Len(b)
  OBVIOUS
<1>2. \A i \in 1..Len(a) : c[i] = a[i]
  OBVIOUS
<1>3. \A i \in 1..Len(b) : c[Len(a) + i] = b[i]
  OBVIOUS
<1> QED
  BY <1>1, <1>2, <1>3 DEF Behinds

\* The statement at the head of the queue goes to the log.
Moves(l, q, e) == TextsOf(Append(l, e)) \o Tail(q) = TextsOf(l) \o q

\* What is taken and what is queued stay the same together.
LEMMA HeadMoves ==
  ASSUME NEW l \in Seq(Entries), NEW q \in Seq(Seq(Chars)), q # <<>>,
         NEW e \in Entries, e.text = Head(q)
  PROVE  Moves(l, q, e)
<1> DEFINE m == Append(l, e)
           x == TextsOf(l)
           y == TextsOf(m)
<1>1. Len(q) \in Nat \ {0} /\ Len(l) \in Nat
  OBVIOUS
<1>2. /\ m \in Seq(Entries) /\ Len(m) = Len(l) + 1 /\ m[Len(l) + 1] = e
      /\ \A i \in 1..Len(l) : m[i] = l[i]
  OBVIOUS
<1> HIDE DEF m
<1>3. /\ x \in Seq(Seq(Chars)) /\ Len(x) = Len(l)
      /\ \A i \in 1..Len(l) : x[i] = l[i].text
  BY TextsOfIs
<1>4. /\ y \in Seq(Seq(Chars)) /\ Len(y) = Len(l) + 1
      /\ \A i \in 1..Len(l) + 1 : y[i] = m[i].text
  BY <1>2, TextsOfIs
<1> HIDE DEF x, y
<1>5. /\ Tail(q) \in Seq(Seq(Chars)) /\ Len(Tail(q)) = Len(q) - 1
      /\ \A i \in 1..Len(q) - 1 : Tail(q)[i] = q[i + 1]
      /\ Head(q) = q[1]
  BY <1>1
<1> DEFINE a == y \o Tail(q)
           b == x \o q
           n == Len(l) + Len(q)
<1>6. a \in Seq(Seq(Chars)) /\ Behinds(y, Tail(q), a)
  BY <1>4, <1>5, ConcatIs, Zenon
<1>7. b \in Seq(Seq(Chars)) /\ Behinds(x, q, b)
  BY <1>3, ConcatIs, Zenon
<1> HIDE DEF a, b
<1>10. Len(a) = n /\ Len(b) = n
  BY <1>1, <1>3, <1>4, <1>5, <1>6, <1>7 DEF Behinds
<1>8. ASSUME NEW i \in 1..n PROVE a[i] = b[i]
  <2>1. CASE i <= Len(l)
    <3>1. i \in 1..Len(l) /\ i \in 1..Len(l) + 1 /\ i \in 1..Len(x) /\ i \in 1..Len(y)
      BY <1>1, <1>3, <1>4, <2>1
    <3>2. a[i] = y[i] /\ b[i] = x[i]
      BY <1>6, <1>7, <3>1 DEF Behinds
    <3> QED
      BY <1>2, <1>3, <1>4, <3>1, <3>2
  <2>2. CASE i = Len(l) + 1
    <3>0. i \in 1..Len(y) /\ i \in 1..Len(l) + 1 /\ 1 \in 1..Len(q) /\ i = Len(x) + 1
      BY <1>1, <1>3, <1>4, <2>2
    <3>1. a[i] = y[i] /\ y[i] = e.text
      BY <1>2, <1>4, <1>6, <2>2, <3>0 DEF Behinds
    <3>2. b[i] = q[1]
      BY <1>7, <3>0 DEF Behinds
    <3> QED
      BY <1>5, <3>1, <3>2
  <2>3. CASE i > Len(l) + 1
    <3> DEFINE k == i - Len(l) - 1
    <3>1. k \in 1..Len(q) - 1 /\ i = Len(y) + k /\ i = Len(x) + (k + 1) /\ k + 1 \in 1..Len(q)
      BY <1>1, <1>3, <1>4, <2>3
    <3> HIDE DEF k
    <3>2. a[Len(y) + k] = Tail(q)[k]
      BY <1>5, <1>6, <3>1 DEF Behinds
    <3>3. b[Len(x) + (k + 1)] = q[k + 1]
      BY <1>7, <3>1 DEF Behinds
    <3> QED
      BY <1>5, <3>1, <3>2, <3>3
  <2>4. i <= Len(l) \/ i = Len(l) + 1 \/ i > Len(l) + 1
    <3>1. \A a1, a2 \in Nat : a1 <= a2 \/ a1 = a2 + 1 \/ a1 > a2 + 1
      OBVIOUS
    <3>2. i \in Nat
      BY <1>1
    <3> QED
      BY <1>1, <3>1, <3>2, Zenon
  <2> QED
    BY <2>1, <2>2, <2>3, <2>4, Zenon
<1>9. a = b
  BY <1>6, <1>7, <1>8, <1>10
<1> QED
  BY <1>9 DEF Moves, a, b, m, x, y

\* All of the queue goes to the log.
Empties(l, q, m) == TextsOf(m) = TextsOf(l) \o q

\* They do so when all of the queue goes.
LEMMA AllMove ==
  ASSUME NEW l \in Seq(Entries), NEW q \in Seq(Seq(Chars)), q # <<>>,
         NEW e \in Entries, e.text = Head(q),
         NEW d \in Seq(Entries), Len(d) = Len(q) - 1,
         \A i \in 1..Len(q) - 1 : d[i].text = q[i + 1]
  PROVE  /\ Append(l, e) \o d \in Seq(Entries)
         /\ Empties(l, q, Append(l, e) \o d)
<1> DEFINE c == Append(l, e)
           m == c \o d
           x == TextsOf(l)
           y == TextsOf(m)
           b == x \o q
           n == Len(l) + Len(q)
<1>1. Len(q) \in Nat \ {0} /\ Len(l) \in Nat /\ Head(q) = q[1]
  OBVIOUS
<1>2. /\ c \in Seq(Entries) /\ Len(c) = Len(l) + 1 /\ c[Len(l) + 1] = e
      /\ \A i \in 1..Len(l) : c[i] = l[i]
  OBVIOUS
<1> HIDE DEF c
<1>0. m \in Seq(Entries) /\ Behinds(c, d, m)
  BY <1>2, ConcatIs, Zenon
<1> HIDE DEF m
<1>3. Len(m) = n
  BY <1>0, <1>1, <1>2 DEF Behinds
<1>4. \A i \in 1..Len(l) + 1 : m[i] = c[i]
  BY <1>0, <1>2 DEF Behinds
<1>5. \A i \in 1..Len(q) - 1 : m[Len(c) + i] = d[i]
  BY <1>0 DEF Behinds
<1>6. /\ x \in Seq(Seq(Chars)) /\ Len(x) = Len(l)
      /\ \A i \in 1..Len(l) : x[i] = l[i].text
  BY TextsOfIs
<1>7. /\ y \in Seq(Seq(Chars)) /\ Len(y) = n
      /\ \A i \in 1..n : y[i] = m[i].text
  BY <1>0, <1>3, TextsOfIs
<1> HIDE DEF x, y
<1>8. b \in Seq(Seq(Chars)) /\ Behinds(x, q, b)
  BY <1>6, ConcatIs, Zenon
<1> HIDE DEF b
<1>11. Len(b) = n
  BY <1>6, <1>8 DEF Behinds
<1>9. ASSUME NEW i \in 1..n PROVE y[i] = b[i]
  <2>1. CASE i <= Len(l)
    <3>1. i \in 1..Len(l) /\ i \in 1..Len(l) + 1 /\ i \in 1..Len(x)
      BY <1>1, <1>6, <2>1
    <3>2. b[i] = x[i]
      BY <1>8, <3>1 DEF Behinds
    <3> QED
      BY <1>2, <1>4, <1>6, <1>7, <3>1, <3>2
  <2>2. CASE i = Len(l) + 1
    <3>1. i \in 1..Len(l) + 1
      BY <1>1, <2>2
    <3>2. y[i] = e.text
      BY <1>2, <1>4, <1>7, <2>2, <3>1
    <3>3. b[i] = q[1]
      <4>1. i = Len(x) + 1 /\ 1 \in 1..Len(q)
        BY <1>1, <1>6, <2>2
      <4> QED
        BY <1>8, <4>1 DEF Behinds
    <3> QED
      BY <1>1, <3>2, <3>3
  <2>3. CASE i > Len(l) + 1
    <3> DEFINE k == i - Len(l) - 1
    <3>1. k \in 1..Len(q) - 1 /\ i = Len(c) + k /\ i = Len(x) + (k + 1) /\ k + 1 \in 1..Len(q)
      BY <1>1, <1>2, <1>6, <2>3
    <3> HIDE DEF k
    <3>2. y[i] = d[k].text
      BY <1>5, <1>7, <3>1
    <3>3. b[Len(x) + (k + 1)] = q[k + 1]
      BY <1>8, <3>1 DEF Behinds
    <3> QED
      BY <3>1, <3>2, <3>3
  <2>4. i <= Len(l) \/ i = Len(l) + 1 \/ i > Len(l) + 1
    <3>1. \A a1, a2 \in Nat : a1 <= a2 \/ a1 = a2 + 1 \/ a1 > a2 + 1
      OBVIOUS
    <3>2. i \in Nat
      BY <1>1
    <3> QED
      BY <1>1, <3>1, <3>2, Zenon
  <2> QED
    BY <2>1, <2>2, <2>3, <2>4, Zenon
<1>10. y = b
  BY <1>7, <1>8, <1>9, <1>11
<1> QED
  BY <1>0, <1>10 DEF Empties, b, c, m, x, y

\* What parse_query makes of a line, by cases of where the loop stopped.
LEMMA ParseIs ==
  ASSUME NEW line
  PROVE  LET text == buffer \o line
             n    == Visible(text)
             r    == Scans(text)[n]
             p    == ParseOf(line)
         IN  /\ r.mode = "none" => p.mode = "none" /\ p.buffer = <<>> /\ p.queue = r.queue
             /\ r.mode = "command" =>
                  p.mode = "none" /\ p.buffer = <<>> /\ p.queue = Append(r.queue, Trim(r.text))
             /\ r.mode \notin {"none", "command"} =>
                  p.mode = r.mode /\ p.buffer = Left(text, n) /\ p.queue = r.queue
<1> DEFINE text == buffer \o line
           n    == Visible(text)
           r    == Scans(text)[n]
           p    == ParseOf(line)
<1>1. p = CASE r.mode = "none" -> [mode |-> "none", buffer |-> <<>>, queue |-> r.queue]
            [] r.mode = "command" ->
                 [mode |-> "none", buffer |-> <<>>, queue |-> Append(r.queue, Trim(r.text))]
            [] OTHER -> [mode |-> r.mode, buffer |-> Left(text, n), queue |-> r.queue]
  BY DEF ParseOf, Left
<1> HIDE DEF text, n, r, p
<1>2. CASE r.mode = "none"
  <2>1. p = [mode |-> "none", buffer |-> <<>>, queue |-> r.queue]
    BY <1>1, <1>2
  <2> QED
    BY <1>2, <2>1 DEF r, n, text, p
<1>3. CASE r.mode = "command"
  <2>1. p = [mode |-> "none", buffer |-> <<>>, queue |-> Append(r.queue, Trim(r.text))]
    BY <1>1, <1>3
  <2> QED
    BY <1>3, <2>1 DEF r, n, text, p
<1>4. CASE r.mode \notin {"none", "command"}
  <2>1. p = [mode |-> r.mode, buffer |-> Left(text, n), queue |-> r.queue]
    BY <1>1, <1>4
  <2> QED
    BY <1>4, <2>1 DEF r, n, text, p
<1> QED
  BY <1>2, <1>3, <1>4 DEF r, n, text, p

SessionText == TextInv /\ PendingInv

\* A line is read.
LEMMA ReadKeepsText ==
  ASSUME SessionText, NEW line, IsLine(line), Read(line)
  PROVE  SessionText'
<1> DEFINE text == buffer \o line
           n    == Visible(text)
           r    == Scans(text)[n]
           p    == ParseOf(line)
<1>0. /\ typed \in Seq(Chars) /\ buffer \in Seq(Chars)
      /\ queue \in Seq(Seq(Chars)) /\ log \in Seq(Entries)
      /\ line \in Seq(Chars) /\ "NUL" \in Chars
      /\ PendingInv
  BY DEF SessionText, TextInv, IsLine, Chars
<1>1. /\ pc = "prompt" /\ buffer' = p.buffer /\ mode' = p.mode /\ queue' = p.queue
      /\ pc' = IF p.mode = "none" THEN "exec" ELSE "prompt"
      /\ typed' = typed \o line /\ log' = log /\ Taken' = Taken
  BY DEF Read, Taken
<1>2. typed' \in Seq(Chars) /\ log' \in Seq(Entries) /\ text \in Seq(Chars)
  BY <1>0, <1>1
<1>3. /\ r.mode = "none" => p.mode = "none" /\ p.buffer = <<>> /\ p.queue = r.queue
      /\ r.mode = "command" =>
           p.mode = "none" /\ p.buffer = <<>> /\ p.queue = Append(r.queue, Trim(r.text))
      /\ r.mode \notin {"none", "command"} =>
           p.mode = r.mode /\ p.buffer = Left(text, n) /\ p.queue = r.queue
  BY ParseIs
<1>4. CASE Lost(buffer)
  <2>1. /\ Lost(text) /\ r.mode = "query" /\ r.queue = <<>> /\ Left(text, n) = text
    BY <1>0, <1>4, LostStays
  <2> HIDE DEF p, r, n, text
  <2>2. buffer' = text /\ mode' = "query" /\ queue' = <<>> /\ pc' = "prompt"
    BY <1>1, <1>3, <2>1
  <2>3. queue' \in Seq(Seq(Chars)) /\ Lost(buffer')
    BY <2>1, <2>2
  <2>4. TextInv'
    BY <1>2, <2>2, <2>3 DEF TextInv
  <2>5. PendingInv'
    BY <2>2, <2>3 DEF PendingInv
  <2> QED
    BY <2>4, <2>5 DEF SessionText
<1>5. CASE Pending(typed, buffer, Taken \o queue) /\ queue = <<>>
  <2>1. Taken \in Seq(Seq(Chars))
    <3>1. Taken = TextsOf(log)
      BY DEF Taken, TextsOf
    <3> QED
      BY <1>0, <3>1, TextsOfIs
  <2>2. Pending(typed, buffer, Taken)
    BY <1>5, <2>1
  <2>8. Reads(typed, buffer, Taken, line)
    BY <1>0, <2>2, ReadPending, Zenon
  <2>9. /\ n = Len(text) /\ r \in ScanStates(Chars)
        /\ r.mode = "none" => Pending(typed \o line, <<>>, Taken \o r.queue)
        /\ r.mode = "command" =>
             /\ Trim(r.text) \in Seq(Chars)
             /\ Pending(typed \o line, <<>>, Taken \o Append(r.queue, Trim(r.text)))
        /\ r.mode \notin {"none", "command"} =>
             \/ Lost(Left(text, n))
             \/ /\ Left(text, n) = text /\ r.queue = <<>>
                /\ Pending(typed \o line, text, Taken)
    BY <2>8 DEF Reads
  <2>3. r.queue \in Seq(Seq(Chars))
    BY <2>9 DEF ScanStates
  <2>4. Left(text, n) \in Seq(Chars)
    <3>1. n \in 0..Len(text)
      BY <1>2, <2>9
    <3> HIDE DEF n, text
    <3> QED
      BY <1>0, <1>2, <3>1, LeftIs
  <2> HIDE DEF p, r, n, text
  <2>5. CASE r.mode = "none"
    <3>1. /\ buffer' = <<>> /\ mode' = "none" /\ queue' = r.queue /\ pc' = "exec"
      BY <1>1, <1>3, <2>5
    <3>2. TextInv'
      BY <1>2, <2>3, <3>1 DEF TextInv
    <3>3. Pending(typed', buffer', Taken' \o queue')
      BY <1>1, <2>5, <2>9, <3>1
    <3>4. PendingInv'
      BY <3>1, <3>3 DEF PendingInv
    <3> QED
      BY <3>2, <3>4 DEF SessionText
  <2>6. CASE r.mode = "command"
    <3>1. /\ buffer' = <<>> /\ mode' = "none" /\ pc' = "exec"
          /\ queue' = Append(r.queue, Trim(r.text))
      BY <1>1, <1>3, <2>6
    <3>2. queue' \in Seq(Seq(Chars))
      BY <2>3, <2>6, <2>9, <3>1
    <3>3. TextInv'
      BY <1>2, <3>1, <3>2 DEF TextInv
    <3>4. Pending(typed', buffer', Taken' \o queue')
      BY <1>1, <2>6, <2>9, <3>1
    <3>5. PendingInv'
      BY <3>1, <3>4 DEF PendingInv
    <3> QED
      BY <3>3, <3>5 DEF SessionText
  <2>7. CASE r.mode \notin {"none", "command"}
    <3>1. /\ buffer' = Left(text, n) /\ mode' = r.mode /\ queue' = r.queue /\ pc' = "prompt"
      BY <1>1, <1>3, <2>7
    <3>2. TextInv'
      BY <1>2, <2>3, <2>4, <2>7, <3>1 DEF TextInv
    <3>3. CASE Lost(Left(text, n))
      <4>1. PendingInv'
        BY <2>7, <3>1, <3>3 DEF PendingInv
      <4> QED
        BY <3>2, <4>1 DEF SessionText
    <3>4. CASE Left(text, n) = text /\ r.queue = <<>> /\ Pending(typed \o line, text, Taken)
      <4>1. Taken' \o queue' = Taken /\ queue' = <<>>
        BY <1>1, <2>1, <3>1, <3>4
      <4>2. Pending(typed', buffer', Taken' \o queue')
        BY <1>1, <3>1, <3>4, <4>1
      <4>3. PendingInv'
        BY <4>1, <4>2 DEF PendingInv
      <4> QED
        BY <3>2, <4>3 DEF SessionText
    <3> QED
      BY <2>7, <2>9, <3>3, <3>4
  <2> QED
    BY <2>5, <2>6, <2>7
<1> QED
  BY <1>0, <1>1, <1>4, <1>5 DEF PendingInv

\* exec_queries moves what was taken from the queue to the log.
Moving ==
  /\ pc = "exec" /\ UNCHANGED reading
  /\ queue' \in Seq(Seq(Chars)) /\ log' \in Seq(Entries)
  /\ pc' \in {"prompt", "exec"} /\ (pc' = "prompt" => queue' = <<>>)
  /\ Taken' \o queue' = Taken \o queue

\* Moving from the queue to the log keeps what is pending.
LEMMA MovingKeeps == ASSUME SessionText, Moving PROVE SessionText'
<1>1. /\ pc = "exec" /\ UNCHANGED <<buffer, mode, typed>>
      /\ queue' \in Seq(Seq(Chars)) /\ log' \in Seq(Entries)
      /\ pc' \in {"prompt", "exec"} /\ (pc' = "prompt" => queue' = <<>>)
      /\ Taken' \o queue' = Taken \o queue
  BY DEF Moving, reading
<1>2. /\ typed \in Seq(Chars) /\ buffer \in Seq(Chars) /\ mode = "none" /\ buffer = <<>>
      /\ Pending(typed, buffer, Taken \o queue)
  BY <1>1 DEF SessionText, TextInv, PendingInv
<1>3. TextInv'
  BY <1>1, <1>2 DEF TextInv
<1>4. Pending(typed', buffer', Taken' \o queue')
  BY <1>1, <1>2
<1>5. PendingInv'
  BY <1>1, <1>4 DEF PendingInv
<1> QED
  BY <1>3, <1>5 DEF SessionText

\* The head of the queue is done.
LEMMA HeadIs ==
  ASSUME SessionText, Executing, NEW fate \in Fates
  PROVE  /\ queue \in Seq(Seq(Chars)) /\ queue # <<>> /\ log \in Seq(Entries) /\ pc = "exec"
         /\ Entry(Head(queue), fate) \in Entries
         /\ Entry(Head(queue), fate).text = Head(queue)
<1>1. queue \in Seq(Seq(Chars)) /\ queue # <<>> /\ log \in Seq(Entries) /\ pc = "exec"
  BY DEF SessionText, TextInv, Executing
<1>2. Head(queue) \in Seq(Chars)
  BY <1>1
<1> QED
  BY <1>1, <1>2 DEF Entry, Entries

\* A statement that is done moves, ...
LEMMA GoesMoves ==
  ASSUME SessionText, Executing, NEW fate \in Fates, Goes(fate), UNCHANGED reading
  PROVE  Moving
<1> DEFINE e == Entry(Head(queue), fate)
<1>1. /\ queue \in Seq(Seq(Chars)) /\ queue # <<>> /\ log \in Seq(Entries) /\ pc = "exec"
      /\ e \in Entries /\ e.text = Head(queue)
  BY HeadIs
<1>2. queue' = Tail(queue) /\ log' = Append(log, e) /\ pc' = pc
  BY DEF Goes
<1> HIDE DEF e
<1>3. queue' \in Seq(Seq(Chars)) /\ log' \in Seq(Entries)
  BY <1>1, <1>2
<1>4. Moves(log, queue, e)
  BY <1>1, HeadMoves
<1>5. Taken = TextsOf(log) /\ Taken' = TextsOf(log')
  BY DEF Taken, TextsOf
<1>6. Taken' \o queue' = Taken \o queue
  BY <1>2, <1>4, <1>5 DEF Moves
<1> QED
  BY <1>1, <1>2, <1>3, <1>6 DEF Moving

\* ... and with exec_queries returning, so do those that are dropped.
LEMMA ReturnsMoves ==
  ASSUME SessionText, Executing, NEW fate \in Fates, Returns(fate), UNCHANGED reading
  PROVE  Moving
<1> DEFINE e == Entry(Head(queue), fate)
           d == [i \in 1..Len(queue) - 1 |-> Entry(queue[i + 1], "dropped")]
<1>1. /\ queue \in Seq(Seq(Chars)) /\ queue # <<>> /\ log \in Seq(Entries) /\ pc = "exec"
      /\ e \in Entries /\ e.text = Head(queue)
  BY HeadIs
<1>2. queue' = <<>> /\ log' = Append(log, e) \o d /\ pc' = "prompt"
  BY DEF Returns
<1>3. d \in Seq(Entries) /\ Len(d) = Len(queue) - 1
  <2>1. Len(queue) - 1 \in Nat
    BY <1>1
  <2>2. \A i \in 1..Len(queue) - 1 : queue[i + 1] \in Seq(Chars)
    BY <1>1
  <2>3. \A i \in 1..Len(queue) - 1 : Entry(queue[i + 1], "dropped") \in Entries
    BY <2>2 DEF Entry, Entries, Fates
  <2>4. d \in [1..Len(queue) - 1 -> Entries]
    BY <2>3
  <2> HIDE DEF d
  <2> QED
    BY <2>1, <2>4
<1>4. \A i \in 1..Len(queue) - 1 : d[i].text = queue[i + 1]
  BY DEF Entry
<1> HIDE DEF e, d
<1>5. Append(log, e) \o d \in Seq(Entries) /\ Empties(log, queue, Append(log, e) \o d)
  BY <1>1, <1>3, <1>4, AllMove
<1>6. Taken = TextsOf(log) /\ Taken' = TextsOf(log')
  BY DEF Taken, TextsOf
<1>7. Taken' = Taken \o queue
  BY <1>2, <1>5, <1>6 DEF Empties
<1>8. Taken' \in Seq(Seq(Chars)) /\ log' \in Seq(Entries)
  BY <1>2, <1>5, <1>6, TextsOfIs
<1>9. Taken' \o queue' = Taken \o queue
  BY <1>2, <1>7, <1>8
<1>10. queue' \in Seq(Seq(Chars))
  BY <1>2
<1> QED
  BY <1>1, <1>2, <1>8, <1>9, <1>10 DEF Moving

\* The shell exits, when a statement may be half done.
LEMMA ExitKeeps ==
  ASSUME SessionText, pc' = "exited", UNCHANGED <<queue, reading>>, log' \in Seq(Entries)
  PROVE  SessionText'
<1>1. TextInv'
  BY DEF SessionText, TextInv, reading
<1>2. PendingInv'
  BY DEF PendingInv
<1> QED
  BY <1>1, <1>2 DEF SessionText

\* A step that touches none of it.
LEMMA SameKeepsText ==
  ASSUME SessionText, UNCHANGED <<pc, queue, log, reading>>
  PROVE  SessionText'
<1>1. /\ pc' = pc /\ queue' = queue /\ log' = log /\ buffer' = buffer /\ mode' = mode
      /\ typed' = typed
  BY DEF reading
<1>2. Taken' = Taken
  BY <1>1 DEF Taken
<1>3. TextInv'
  BY <1>1 DEF SessionText, TextInv
<1>4. PendingInv'
  BY <1>1, <1>2 DEF SessionText, PendingInv
<1> QED
  BY <1>3, <1>4 DEF SessionText

\* Nothing is typed yet.
LEMMA InitText == Init => SessionText
<1> SUFFICES ASSUME Init PROVE SessionText
  OBVIOUS
<1>1. /\ pc = "prompt" /\ buffer = <<>> /\ mode = "none" /\ queue = <<>> /\ typed = <<>>
      /\ log = <<>>
  BY DEF Init
<1>2. TextInv
  BY <1>1 DEF TextInv
<1>3. <<>> \in Seq(Chars) /\ Len(<<>>) = 0 /\ {"NUL", "\n"} \subseteq Chars
  BY DEF Chars
<1>4. Cuts(<<>>)[0] = NoCuts
  BY <1>3, CutsIs
<1>5. Cuts(<<>>)[Len(<<>>)].over <= Len(<<>>) /\ Statements(<<>>) = <<>>
  BY <1>3, <1>4 DEF NoCuts, Statements
<1>6. Pending(<<>>, <<>>, <<>>)
  BY <1>3, <1>5, NothingPending
<1>7. Taken \o queue = <<>>
  <2>1. Taken = <<>>
    BY <1>1 DEF Taken
  <2> QED
    BY <1>1, <2>1
<1>8. PendingInv
  BY <1>1, <1>6, <1>7 DEF PendingInv
<1> QED
  BY <1>2, <1>8 DEF SessionText

\* The invariant is kept by every step.
LEMMA NextText == SessionText /\ [Next]_vars => SessionText'
<1> SUFFICES ASSUME SessionText, [Next]_vars PROVE SessionText'
  OBVIOUS
<1>1. ASSUME NEW body \in Lines, Read(Append(body, "\n")) PROVE SessionText'
  <2> DEFINE line == Append(body, "\n")
  <2>1. PICK m \in 0..MaxTyped - Len(typed) - 1 : body \in [1..m -> Tokens]
    BY DEF Lines
  <2>2. m \in Nat
    BY <2>1
  <2>3. body \in Seq(Tokens) /\ Len(body) = m
    BY <2>1, <2>2
  <2>4. /\ line \in Seq(Chars) /\ Len(line) = m + 1 /\ line[m + 1] = "\n"
        /\ \A j \in 1..m : line[j] = body[j] /\ body[j] \in Tokens
    <3>1. body \in Seq(Chars) /\ "\n" \in Chars
      BY <2>3 DEF Chars
    <3> QED
      BY <2>2, <2>3, <3>1
  <2> HIDE DEF line
  <2>5. \A j \in 1..m : line[j] # "NUL" /\ line[j] # "\n"
    BY <2>4, TokensAssumption
  <2>6. Clean(line)
    <3>1. ASSUME NEW j \in 1..Len(line) PROVE line[j] # "NUL"
      <4>1. j \in 1..m \/ j = m + 1
        BY <2>2, <2>4
      <4> QED
        BY <2>4, <2>5, <4>1
    <3> QED
      BY <3>1 DEF Clean
  <2>7. IsLine(line)
    <3>1. Len(line) # 0 /\ Len(line) - 1 = m
      BY <2>2, <2>4
    <3> QED
      BY <2>4, <2>5, <2>6, <3>1 DEF IsLine
  <2>8. Read(line)
    BY <1>1 DEF line
  <2> QED
    BY <2>7, <2>8, ReadKeepsText
<1>2. CASE EndOfInput
  <2>1. pc' = "exited" /\ UNCHANGED <<queue, reading>> /\ log' = log
    BY <1>2 DEF EndOfInput
  <2>2. log' \in Seq(Entries)
    BY <2>1 DEF SessionText, TextInv
  <2> QED
    BY <2>1, <2>2, ExitKeeps
<1>3. CASE Done
  <2>1. /\ pc = "exec" /\ queue = <<>> /\ pc' = "prompt" /\ queue' = queue /\ log' = log
        /\ UNCHANGED reading
    BY <1>3 DEF Done
  <2>2. Taken' = Taken
    BY <2>1 DEF Taken
  <2>3. Moving
    BY <2>1, <2>2 DEF Moving, SessionText, TextInv
  <2> QED
    BY <2>3, MovingKeeps
<1>4. CASE Quit
  <2>1. /\ Executing /\ log' = Append(log, Entry(Head(queue), "done"))
        /\ pc' = "exited" /\ UNCHANGED <<queue, reading>>
    BY <1>4 DEF Quit, IsCommand
  <2>2. log \in Seq(Entries) /\ Entry(Head(queue), "done") \in Entries
    <3>1. "done" \in Fates
      BY DEF Fates
    <3> QED
      BY <2>1, <3>1, HeadIs
  <2>3. log' \in Seq(Entries)
    BY <2>1, <2>2
  <2> QED
    BY <2>1, <2>3, ExitKeeps
<1>5. ASSUME NEW fate \in Fates, Executing, Goes(fate), UNCHANGED reading PROVE SessionText'
  BY <1>5, GoesMoves, MovingKeeps
<1>6. ASSUME NEW fate \in Fates, Executing, Returns(fate), UNCHANGED reading PROVE SessionText'
  BY <1>6, ReturnsMoves, MovingKeeps
<1>7. CASE \/ Connect \/ ConnectFails \/ ToggleVerbose \/ UnknownCommand \/ NotConnected
           \/ QueryWithRows
  <2>1. /\ Executing /\ UNCHANGED reading
        /\ Goes("done") \/ Goes("failed") \/ Goes("refused") \/ Goes("rows")
    BY <1>7 DEF Connect, ConnectFails, ToggleVerbose, UnknownCommand, NotConnected, QueryWithRows,
                IsCommand, IsStatement, IsQuery
  <2>2. {"done", "failed", "refused", "rows"} \subseteq Fates
    BY DEF Fates
  <2> QED
    BY <1>5, <2>1, <2>2
<1>8. CASE QueryFails \/ \E ok \in BOOLEAN : Update(ok)
  <2>1. /\ Executing /\ UNCHANGED reading
        /\ Returns("failed") \/ Returns("updated")
    BY <1>8 DEF QueryFails, Update, IsStatement, IsQuery
  <2>2. {"failed", "updated"} \subseteq Fates
    BY DEF Fates
  <2> QED
    BY <1>6, <2>1, <2>2
<1>9. ASSUME NEW fate \in {"boolean", "completed"}, QueryWithoutRows(fate) PROVE SessionText'
  <2>1. Executing /\ UNCHANGED reading /\ Returns(fate)
    BY <1>9 DEF QueryWithoutRows, IsQuery, IsStatement
  <2>2. fate \in Fates
    BY DEF Fates
  <2> QED
    BY <1>6, <2>1, <2>2
<1>10. CASE UNCHANGED vars
  BY <1>10, SameKeepsText DEF vars
<1> QED
  BY <1>1, <1>2, <1>3, <1>4, <1>7, <1>8, <1>9, <1>10 DEF Next

\* At the prompt nothing is queued, and a buffer that is not cut off is pending.
LEMMA TextTaken == SessionText => TakenAsTyped
<1> SUFFICES ASSUME SessionText, pc = "prompt", ~CutOff PROVE Taken = Statements(typed)
  BY DEF TakenAsTyped
<1>1. /\ buffer \in Seq(Chars) /\ log \in Seq(Entries) /\ mode = "none" => buffer = <<>>
  BY DEF SessionText, TextInv
<1>2. ~ (mode # "none" /\ Lost(buffer))
  <2>1. SUFFICES ASSUME mode # "none", Lost(buffer) PROVE FALSE
    OBVIOUS
  <2>2. PICK n \in 0..Len(buffer) - 1 : buffer[n + 1] = "NUL"
    BY <2>1 DEF Lost
  <2>3. n + 1 \in DOMAIN buffer
    BY <1>1, <2>2
  <2>4. "NUL" \in ToSet(buffer)
    BY <2>2, <2>3 DEF ToSet
  <2> QED
    BY <2>1, <2>4 DEF CutOff
<1>3. queue = <<>> /\ Pending(typed, buffer, Taken \o queue)
  BY <1>2 DEF SessionText, PendingInv
<1>4. Taken \in Seq(Seq(Chars))
  <2>1. Taken = TextsOf(log)
    BY DEF Taken, TextsOf
  <2>2. log \in Seq(Entries)
    BY DEF SessionText, TextInv
  <2> QED
    BY <2>1, <2>2, TextsOfIs
<1>5. Statements(typed) = Taken \o queue
  BY <1>3 DEF Pending
<1> QED
  BY <1>3, <1>4, <1>5

\* Whatever is typed, and however its lines, quotes and brackets fall: at the prompt
\* parse_query and exec_queries have taken every statement that is over, whole, once
\* and in the order typed, unless a line cut the buffer off.
THEOREM TakenCorrect == Spec => []TakenAsTyped
<1>1. Init => SessionText
  BY InitText
<1>2. SessionText /\ [Next]_vars => SessionText'
  BY NextText
<1>3. SessionText => TakenAsTyped
  BY TextTaken
<1> QED
  BY <1>1, <1>2, <1>3, PTL DEF Spec
==============================================================================
