----------------------------- MODULE LibeditProofs -----------------------------
(***************************************************************************)
(* libedit.  A program that reads lines: its signal handlers come back     *)
(* after each line, the terminal is cooked outside of el_gets and keeps    *)
(* what the user and the program set, for any settings, number of lines    *)
(* and of signals.  The history: its cursor is on an entry, a walk returns *)
(* the entries in order, and what is saved is loaded again as long as its  *)
(* codes fit in the buffers of fgetln and history_load, for any texts,     *)
(* sizes and sequence of calls.  The editor: its buffers are not left but  *)
(* where the code goes astray, and a walk in the history gives the typed   *)
(* line back, for any history, bindings and keys.                          *)
(***************************************************************************)
EXTENDS Tty, History, Editor, TLAPS, SequenceTheorems, FiniteSetTheorems, WellFoundedInduction

\* What is kept for a signal is how the program has it handled, and the handler itself is
\* never taken for that: what makes HandlersGivenBack inductive.
SavedFor(d, s, h, i) ==
  /\ s.saved[i] \in {h[i], "err"}
  /\ d[i] = "handler" => s.saved[i] # "err"
  /\ d[i] # "handler" => d[i] = h[i]
SavedInv ==
  /\ "handlers" \in DOMAIN want
  /\ want.handlers \in [Signals -> {"default", "caught"}]
  /\ disp \in [Signals -> {"default", "caught", "handler"}]
  /\ sig \in [no : Signals \cup {"none"}, saved : [Signals -> {"default", "caught", "err"}]]
  /\ \A i \in Signals : SavedFor(disp, sig, want.handlers, i)

\* The program's own handlers, as it set them before the first line, stay what they are.
LEMMA NextHandlers ==
  ASSUME SavedInv, [Next]_vars
  PROVE  "handlers" \in DOMAIN want' /\ want'.handlers = want.handlers
<1> DEFINE Same == "handlers" \in DOMAIN want' /\ want'.handlers = want.handlers
<1>1. UNCHANGED want => Same
  BY DEF SavedInv
<1>2. ASSUME NEW i \in Signals, Signal(i) PROVE Same
  BY <1>1, <1>2 DEF Signal
<1>3. CASE UserChanges
  <2>1. \A x : UserSets(x) => Same
    BY DEF UserSets, SavedInv
  <2> QED
    BY <1>3, <2>1 DEF UserChanges
<1>4. CASE tty_stty
  <2>1. \A t, mode : Stty(t, mode) => Same
    BY DEF Stty, SavedInv
  <2> QED
    BY <1>4, <2>1 DEF tty_stty
<1>5. CASE Resume \/ EditMode \/ el_editmode \/ el_end \/ GetsBegins
  BY <1>1, <1>5 DEF Resume, EditMode, el_editmode, el_end, GetsBegins
<1>6. CASE TakesTerminal \/ read_prepare \/ el_getc \/ Marks
  BY <1>1, <1>6 DEF TakesTerminal, read_prepare, el_getc, Marks, RawMarks, Quiet
<1>7. ASSUME NEW from, KeyFrom(from) PROVE Same
  <2>1. CASE UNCHANGED want
    BY <1>1, <2>1
  <2>2. CASE want' = [want EXCEPT !.unnoticed = DOMAIN term]
    BY <2>2 DEF SavedInv
  <2> QED
    BY <1>7, <2>1, <2>2 DEF KeyFrom, Unquotes, Quiet
<1>8. CASE Key
  BY <1>7, <1>8 DEF Key
<1>9. CASE QuoteMarks \/ Interrupted \/ Again \/ FinishCooks \/ FinishClears
  BY <1>1, <1>9 DEF QuoteMarks, RawMarks, Interrupted, Unquotes, Again, FinishCooks,
                    FinishClears, Quiet
<1>10. CASE UNCHANGED vars
  BY <1>1, <1>10 DEF vars
<1> QED
  BY <1>2, <1>3, <1>4, <1>5, <1>6, <1>8, <1>9, <1>10 DEF Next

\* Each lemma below speaks of a step, for which the program's handlers are the same.
Handlers == "handlers" \in DOMAIN want' /\ want'.handlers = want.handlers

\* Setting the handlers again, as read_char does after some signals, keeps what they replaced.
LEMMA SetKeeps == ASSUME SavedInv, Handlers, sig_set PROVE SavedInv'
  BY DEF SavedInv, SavedFor, Handlers, sig_set

\* A handler gives back exactly what it had replaced.
LEMMA HandlerKeeps ==
  ASSUME SavedInv, Handlers, NEW i \in Signals, disp[i] = "handler", sig_handler(i)
  PROVE  SavedInv'
<1>1. disp' = [disp EXCEPT ![i] = sig.saved[i]]
  BY DEF sig_handler
<1>2. sig' = [no |-> i, saved |-> [sig.saved EXCEPT ![i] = "err"]]
  BY DEF sig_handler
<1>3. sig.saved[i] \in {"default", "caught"} /\ sig.saved[i] = want.handlers[i]
  BY DEF SavedInv, SavedFor
<1> QED
  BY <1>1, <1>2, <1>3 DEF SavedInv, SavedFor, Handlers

\* Only the number of the last signal is forgotten when a character is waited for.
LEMMA ForgetKeeps ==
  ASSUME SavedInv, Handlers, sig' = [sig EXCEPT !.no = "none"], disp' = disp PROVE SavedInv'
  BY DEF SavedInv, SavedFor, Handlers

\* After sig_clr each signal is handled as the program has it.
LEMMA ClearGivesBack ==
  ASSUME SavedInv, Handlers, sig_clr
  PROVE  SavedInv' /\ \A i \in Signals : disp'[i] = want.handlers[i]
  BY DEF SavedInv, SavedFor, Handlers, sig_clr

LEMMA SameKeeps == ASSUME SavedInv, Handlers, UNCHANGED <<disp, sig>> PROVE SavedInv'
  BY DEF SavedInv, SavedFor, Handlers

LEMMA InitSaved == Init => SavedInv
  BY DEF Init, SavedInv, SavedFor, Signals

\* One case for each action: those of the program and the user, those of el_gets, the signals.
LEMMA NextSaved == SavedInv /\ [Next]_vars => SavedInv'
<1> SUFFICES ASSUME SavedInv, [Next]_vars PROVE SavedInv'
  OBVIOUS
<1>h. Handlers
  BY NextHandlers DEF Handlers
<1>1. ASSUME NEW i \in Signals, Signal(i) PROVE SavedInv'
  <2>1. CASE disp[i] = "handler" /\ sig_handler(i)
    BY <2>1, <1>h, HandlerKeeps
  <2>2. CASE UNCHANGED <<disp, sig>>
    BY <2>2, <1>h, SameKeeps
  <2> QED
    BY <1>1, <2>1, <2>2 DEF Signal
<1>2. CASE Resume
  <2>1. CASE disp["CONT"] = "handler"
    BY <1>2, <2>1, <1>h, HandlerKeeps DEF Resume, Signals
  <2>2. CASE disp["CONT"] # "handler"
    BY <1>2, <2>2, <1>h, SameKeeps DEF Resume
  <2> QED
    BY <2>1, <2>2
<1>3. CASE UserChanges \/ tty_stty \/ EditMode \/ el_editmode \/ el_end \/ GetsBegins
  BY <1>3, <1>h, SameKeeps
     DEF UserChanges, UserSets, tty_stty, Stty, EditMode, el_editmode, el_end, GetsBegins
<1>4. CASE TakesTerminal
  BY <1>4, <1>h, SameKeeps DEF TakesTerminal, RawSets
<1>5. CASE read_prepare
  BY <1>5, <1>h, SetKeeps DEF read_prepare
<1>6. CASE el_getc
  <2>1. CASE UNCHANGED <<disp, sig>>
    BY <2>1, <1>h, SameKeeps
  <2>2. CASE Waits /\ UNCHANGED disp
    BY <2>2, <1>h, ForgetKeeps DEF Waits
  <2> QED
    BY <1>6, <2>1, <2>2 DEF el_getc, RawSets
<1>7. CASE Marks
  <2>1. CASE UNCHANGED <<disp, sig>>
    BY <2>1, <1>h, SameKeeps
  <2>2. CASE Waits /\ UNCHANGED disp
    BY <2>2, <1>h, ForgetKeeps DEF Waits
  <2> QED
    BY <1>7, <2>1, <2>2 DEF Marks, RawMarks
<1>8. CASE Key
  BY <1>8, <1>h, SameKeeps DEF Key, KeyFrom, Unquotes
<1>9. CASE QuoteMarks
  BY <1>9, <1>h, SameKeeps DEF QuoteMarks, RawMarks
<1>10. CASE Interrupted
  <2>1. CASE UNCHANGED <<disp, sig>>
    BY <2>1, <1>h, SameKeeps
  <2>2. CASE sig_set
    BY <2>2, <1>h, SetKeeps
  <2> QED
    BY <1>10, <2>1, <2>2 DEF Interrupted, Unquotes
<1>11. CASE Again
  BY <1>11, <1>h, ForgetKeeps DEF Again
<1>12. CASE FinishCooks
  BY <1>12, <1>h, SameKeeps DEF FinishCooks
<1>13. CASE FinishClears
  BY <1>13, <1>h, ClearGivesBack DEF FinishClears
<1>14. CASE UNCHANGED vars
  BY <1>14, <1>h, SameKeeps DEF vars
<1> QED
  BY <1>1, <1>2, <1>3, <1>4, <1>5, <1>6, <1>7, <1>8, <1>9, <1>10, <1>11, <1>12, <1>13, <1>14
     DEF Next

\* What is kept is how the program has each signal handled, whatever signals come.
THEOREM SavedCorrect == Spec => []SavedInv
<1>1. Init => SavedInv
  BY InitSaved
<1>2. SavedInv /\ [Next]_vars => SavedInv'
  BY NextSaved
<1> QED
  BY <1>1, <1>2, PTL DEF Spec

\* Only FinishClears leads from "clearing" to "idle".
LEMMA OnlyFinishClears ==
  ASSUME [Next]_vars, pc = "clearing", pc' = "idle" PROVE FinishClears
<1>1. ASSUME NEW i \in Signals, Signal(i) PROVE FALSE
  BY <1>1 DEF Signal
<1>2. ~Resume /\ ~UserChanges /\ ~tty_stty /\ ~EditMode /\ ~el_editmode /\ ~el_end /\ ~GetsBegins
  BY DEF Resume, UserChanges, UserSets, tty_stty, Stty, EditMode, el_editmode, el_end,
         GetsBegins, Idle, Step
<1>3. ~TakesTerminal /\ ~read_prepare /\ ~el_getc /\ ~Marks
  BY DEF TakesTerminal, read_prepare, el_getc, Marks, RawMarks, Step
<1>4. ~Key /\ ~QuoteMarks /\ ~Interrupted /\ ~Again /\ ~FinishCooks
  BY DEF Key, KeyFrom, Unquotes, QuoteMarks, RawMarks, Interrupted, Again, FinishCooks, Step
<1>5. ~UNCHANGED vars
  BY DEF vars
<1> QED
  BY <1>1, <1>2, <1>3, <1>4, <1>5 DEF Next

\* After each line every signal is handled as the program had it handled (sig_clr),
\* whatever signals came while it was read and however often the handlers were set.
THEOREM HandlersCorrect == Spec => HandlersGivenBack
<1>1. SavedInv /\ [Next]_vars =>
        (pc = "clearing" /\ pc' = "idle" =>
           \A i \in Signals : disp'[i] = want.handlers[i])
  BY OnlyFinishClears, NextHandlers, ClearGivesBack DEF FinishClears, Handlers
<1> QED
  BY <1>1, SavedCorrect, PTL DEF Spec, HandlersGivenBack
-----------------------------------------------------------------------------
(* The settings *)

Modes == {"ex", "ed", "qu"}
Settings == Words \cup {"cc"}

\* The fields of el_tty, and what each mode of the terminal is made of.
TtyShape(t) ==
  /\ DOMAIN t = {"mode", "or", "ex", "ed", "c", "perm", "disabled"}
  /\ DOMAIN t.perm = Modes
  /\ \A m \in Modes : DOMAIN t.perm[m] = Words \cup {"chars"}
  /\ DOMAIN t.ex = Settings /\ DOMAIN t.ed = Settings

\* The program's settings are canonical once they have been read, the editor's never are.
Canonical(t) ==
  /\ t.or \in {Zero, Original}
  /\ "ICANON" \in t.perm.ex.lflag.set
  /\ "ICANON" \in t.perm.ed.lflag.clr \ t.perm.ed.lflag.set
  /\ "ICANON" \notin t.ed.lflag
  /\ t.or # Zero => "ICANON" \in t.ex.lflag

SettingsInv == TtyShape(tty) /\ Canonical(tty) /\ DOMAIN term = Settings

\* While no signal has come where the code is not ready for it: t_mode says that the
\* terminal is raw when it is, and the program is stopped or ended in cooked mode only.
CookInv ==
  ~missed =>
    /\ pc \in Marking => ~tty.disabled
    /\ (tty.disabled \/ pc \in {"idle", "clearing"}) => tty.mode = "ex"
    /\ tty.or # Zero /\ ((tty.mode = "ex" /\ pc \notin Marking) \/ status # "running")
         => tty__cooked_mode(term)

\* The settings x have what was last asked for, but for what the library keeps to itself.
Agree(x, t, w) ==
  /\ \A a \in Words \ w.unnoticed :
       x[a] \ (t.perm.ex[a].set \cup t.perm.ex[a].clr)
         = w.set[a] \ (t.perm.ex[a].set \cup t.perm.ex[a].clr)
  /\ "cc" \notin w.unnoticed =>
       \A f \in c_cc \ (t.perm.ex.chars.set \cup t.perm.ex.chars.clr) : x.cc[f] = w.set.cc[f]

\* What tty_rawmode overlooks of the settings x is what the program's settings have already.
Seen(x, t, w) ==
  /\ \A a \in Words \ w.unnoticed : a # "cflag" /\ x[a] = t.ed[a] => x[a] = t.ex[a]
  /\ "cc" \notin w.unnoticed /\ tty__getchar(x) = t.c.ex =>
       \A f \in c_cc \ (t.perm.ex.chars.set \cup t.perm.ex.chars.clr) : x.cc[f] = t.ex.cc[f]

\* What was asked for is in el_tty while the terminal is raw, or is being made so, and in
\* the terminal, where tty_rawmode will notice it, while it is cooked.
KeptInv ==
  /\ DOMAIN want = {"set", "unnoticed", "handlers"}
  /\ status # "ended" =>
       /\ (tty.mode # "ex" \/ pc \in Marking \/ ~tty__cooked_mode(term)) => Agree(tty.ex, tty, want)
       /\ (tty.mode = "ex" /\ tty__cooked_mode(term)) =>
            Agree(term, tty, want) /\ Seen(term, tty, want)

GoodTty(t) == TtyShape(t) /\ Canonical(t)

\* What tty_rawmode makes of el_tty: the settings change, and what is said of them holds.
LEMMA BelieveGood ==
  ASSUME NEW t, GoodTty(t), NEW x, DOMAIN x = Settings, NEW b, b = Believe(t, x)
  PROVE  /\ GoodTty(b)
         /\ b.mode = t.mode /\ b.disabled = t.disabled /\ b.or = t.or /\ b.perm = t.perm
<1>1. CASE ~tty__cooked_mode(x)
  BY <1>1 DEF Believe, GoodTty, TtyShape
<1>2. CASE tty__cooked_mode(x)
  <2> DEFINE ts == tty__getchar(x)
             c == [mode \in {"ex", "ed"} |-> FollowedChars(t, ts, mode)]
             Keep(mode) == IF ts # t.c.ex THEN tty__setchar(Followed(t, x, mode), c[mode])
                           ELSE Followed(t, x, mode)
  <2>1. b = [t EXCEPT !.ex = Keep("ex"), !.ed = Keep("ed"), !.c = IF ts # t.c.ex THEN c ELSE @]
    BY <1>2 DEF Believe, BelieveAll
  <2>2. \A m \in {"ex", "ed"} :
          DOMAIN Keep(m) = Settings /\ Keep(m).lflag = Followed(t, x, m).lflag
    BY DEF tty__setchar, Followed, GoodTty, TtyShape, Settings, Words
  <2>3. /\ t.or # Zero => "ICANON" \in Followed(t, x, "ex").lflag
        /\ "ICANON" \notin Followed(t, x, "ed").lflag
    BY DEF Followed, Masked, GoodTty, TtyShape, Canonical, Settings, Words
  <2> HIDE DEF Keep, c, ts
  <2>4. /\ DOMAIN b = DOMAIN t /\ b.mode = t.mode /\ b.disabled = t.disabled
        /\ b.or = t.or /\ b.perm = t.perm /\ b.ex = Keep("ex") /\ b.ed = Keep("ed")
    BY <2>1 DEF GoodTty, TtyShape
  <2> QED
    BY <2>2, <2>3, <2>4 DEF GoodTty, TtyShape, Canonical
<1> QED
  BY <1>1, <1>2

\* What setty does to el_tty.
LEMMA SettyGood ==
  ASSUME SettingsInv, tty_stty
  PROVE  /\ GoodTty(tty')
         /\ tty'.mode = tty.mode /\ tty'.disabled = tty.disabled /\ tty'.or = tty.or
         /\ DOMAIN term' = Settings
<1>1. ASSUME NEW y \in SettyBits, <<y[2], y[3]>> \in ttymodes,
             Stty([tty EXCEPT !.perm[y[1]][y[2]] = Signed(@, y[3], y[4])], y[1])
      PROVE  /\ GoodTty(tty')
             /\ tty'.mode = tty.mode /\ tty'.disabled = tty.disabled /\ tty'.or = tty.or
             /\ tty'.ex = tty.ex /\ tty'.ed = tty.ed
             /\ DOMAIN term' = Settings
  <2> DEFINE m == y[1]
             w == y[2]
             p == Signed(tty.perm[m][w], y[3], y[4])
             q == [tty.perm[m] EXCEPT ![w] = p]
             r == [tty.perm EXCEPT ![m] = q]
  <2>1. m \in {"ex", "ed"} /\ w \in Words /\ y[3] # "ICANON"
    BY <1>1, TtyAssumption, CanonicalAssumption DEF ttymodes, Words
  <2>2. tty' = [tty EXCEPT !.perm = r]
    BY <1>1 DEF Stty
  <2>3. term' = IF tty.mode = m THEN tty'[m] ELSE term
    BY <1>1 DEF Stty
  <2>4. /\ "ICANON" \in p.set <=> "ICANON" \in tty.perm[m][w].set
        /\ "ICANON" \in p.clr <=> "ICANON" \in tty.perm[m][w].clr
    BY <2>1 DEF Signed, Perm
  <2> HIDE DEF m, w, p, r
  <2>5. /\ DOMAIN tty' = DOMAIN tty /\ tty'.mode = tty.mode /\ tty'.disabled = tty.disabled
        /\ tty'.or = tty.or /\ tty'.ex = tty.ex /\ tty'.ed = tty.ed
        /\ tty'.perm = r
    BY <2>2 DEF SettingsInv, TtyShape
  <2>6. /\ DOMAIN tty'.perm = Modes
        /\ \A k \in Modes : DOMAIN tty'.perm[k] = Words \cup {"chars"}
        /\ \A k \in Modes : \A v \in Words :
             tty'.perm[k][v] = IF k = m /\ v = w THEN p ELSE tty.perm[k][v]
    BY <2>1, <2>5 DEF r, SettingsInv, TtyShape, Modes
  <2>7. \A k \in {"ex", "ed"} :
          /\ "ICANON" \in tty'.perm[k].lflag.set <=> "ICANON" \in tty.perm[k].lflag.set
          /\ "ICANON" \in tty'.perm[k].lflag.clr <=> "ICANON" \in tty.perm[k].lflag.clr
    BY <2>4, <2>6 DEF Modes, Words
  <2>8. GoodTty(tty')
    BY <2>5, <2>6, <2>7 DEF SettingsInv, TtyShape, Canonical, GoodTty
  <2>9. DOMAIN term' = Settings
    BY <2>1, <2>3, <2>5 DEF SettingsInv, TtyShape
  <2> QED
    BY <2>5, <2>8, <2>9
<1>2. ASSUME NEW y \in SettyChars, Stty([tty EXCEPT ![y[1]].cc[y[2]] = y[3]], y[1])
      PROVE  /\ GoodTty(tty')
             /\ tty'.mode = tty.mode /\ tty'.disabled = tty.disabled /\ tty'.or = tty.or
             /\ DOMAIN term' = Settings
  <2> DEFINE m == y[1]
             x == [tty[m] EXCEPT !.cc[y[2]] = y[3]]
  <2>1. m \in {"ex", "ed"}
    BY TtyAssumption
  <2>2. tty' = [tty EXCEPT ![m] = x]
    BY <1>2 DEF Stty
  <2>3. term' = IF tty.mode = m THEN tty'[m] ELSE term
    BY <1>2 DEF Stty
  <2>4. DOMAIN x = Settings /\ x.lflag = tty[m].lflag
    BY <2>1 DEF SettingsInv, TtyShape, Settings, Words
  <2> HIDE DEF m, x
  <2>5. /\ DOMAIN tty' = DOMAIN tty /\ tty'.mode = tty.mode /\ tty'.disabled = tty.disabled
        /\ tty'.or = tty.or /\ tty'.perm = tty.perm
        /\ tty'.ex = IF m = "ex" THEN x ELSE tty.ex
        /\ tty'.ed = IF m = "ed" THEN x ELSE tty.ed
        /\ tty'[m] = x
    BY <2>1, <2>2 DEF SettingsInv, TtyShape
  <2>6. GoodTty(tty')
    BY <2>1, <2>4, <2>5 DEF SettingsInv, TtyShape, Canonical, GoodTty
  <2>7. DOMAIN term' = Settings
    BY <2>1, <2>3, <2>4, <2>5 DEF SettingsInv, TtyShape
  <2> QED
    BY <2>5, <2>6, <2>7
<1> QED
  BY <1>1, <1>2 DEF tty_stty

\* A mode is set, or the flag EDIT_DISABLED.
LEMMA ModeGood ==
  ASSUME NEW t, GoodTty(t), NEW m, NEW u, u = [t EXCEPT !.mode = m]
  PROVE  /\ GoodTty(u) /\ u.mode = m
         /\ u.disabled = t.disabled /\ u.or = t.or
         /\ u.ex = t.ex /\ u.ed = t.ed /\ u.c = t.c /\ u.perm = t.perm
<1>1. /\ DOMAIN u = DOMAIN t /\ u.mode = m
      /\ u.disabled = t.disabled /\ u.or = t.or
      /\ u.ex = t.ex /\ u.ed = t.ed /\ u.c = t.c /\ u.perm = t.perm
  BY DEF GoodTty, TtyShape
<1> QED
  BY <1>1 DEF GoodTty, TtyShape, Canonical

LEMMA DisabledGood ==
  ASSUME NEW t, GoodTty(t), NEW d, NEW u, u = [t EXCEPT !.disabled = d]
  PROVE  /\ GoodTty(u) /\ u.disabled = d
         /\ u.mode = t.mode /\ u.or = t.or
         /\ u.ex = t.ex /\ u.ed = t.ed /\ u.c = t.c /\ u.perm = t.perm
<1>1. /\ DOMAIN u = DOMAIN t /\ u.disabled = d
      /\ u.mode = t.mode /\ u.or = t.or
      /\ u.ex = t.ex /\ u.ed = t.ed /\ u.c = t.c /\ u.perm = t.perm
  BY DEF GoodTty, TtyShape
<1> QED
  BY <1>1 DEF GoodTty, TtyShape, Canonical

\* The terminal is made raw, and t_mode is set or not.
LEMMA RawGood ==
  ASSUME SettingsInv, NEW b, b = Believe(tty, term), tty' \in {b, [b EXCEPT !.mode = "ed"]},
         term' = b.ed
  PROVE  /\ SettingsInv'
         /\ tty'.disabled = tty.disabled /\ tty'.or = tty.or
         /\ tty'.mode = IF tty' = b THEN tty.mode ELSE "ed"
<1>1. GoodTty(b) /\ b.mode = tty.mode /\ b.disabled = tty.disabled /\ b.or = tty.or
  BY BelieveGood DEF SettingsInv, GoodTty
<1>2. /\ GoodTty(tty') /\ tty'.disabled = tty.disabled /\ tty'.or = tty.or
      /\ tty'.mode = IF tty' = b THEN tty.mode ELSE "ed"
  BY <1>1, ModeGood
<1> QED
  BY <1>1, <1>2 DEF SettingsInv, GoodTty, TtyShape

\* The terminal is made cooked.
LEMMA CookedGood ==
  ASSUME SettingsInv, tty' = [tty EXCEPT !.mode = "ex"], term' = tty.ex
  PROVE  /\ SettingsInv'
         /\ tty'.mode = "ex" /\ tty'.disabled = tty.disabled /\ tty'.or = tty.or
         /\ tty'.ex = tty.ex
         /\ tty.or # Zero => "ICANON" \in term'.lflag
<1>1. GoodTty(tty)
  BY DEF SettingsInv, GoodTty
<1>2. /\ GoodTty(tty') /\ tty'.mode = "ex" /\ tty'.disabled = tty.disabled /\ tty'.or = tty.or
      /\ tty'.ex = tty.ex
  BY <1>1, ModeGood
<1> QED
  BY <1>1, <1>2 DEF SettingsInv, GoodTty, TtyShape, Canonical

\* What a handler does to the terminal.
LEMMA HandlerGood ==
  ASSUME SettingsInv, NEW i \in Signals, sig_handler(i)
  PROVE  SettingsInv'
<1>1. CASE i = "CONT" /\ GoesRaw(tty)
  BY <1>1, RawGood DEF sig_handler, TerminalFor
<1>2. CASE i \in {"INT", "TSTP"} /\ GoesCooked(tty)
  BY <1>2, CookedGood DEF sig_handler, TerminalFor
<1>3. CASE ~(i = "CONT" /\ GoesRaw(tty)) /\ ~(i \in {"INT", "TSTP"} /\ GoesCooked(tty))
  BY <1>3 DEF sig_handler, TerminalFor, SettingsInv
<1> QED
  BY <1>1, <1>2, <1>3

LEMMA SameGood == ASSUME SettingsInv, UNCHANGED <<tty, term>> PROVE SettingsInv'
  BY DEF SettingsInv

LEMMA InitGood == Init => SettingsInv
<1> SUFFICES ASSUME Init PROVE SettingsInv
  OBVIOUS
<1>1. PICK disabled \in BOOLEAN : tty = tty_init(disabled)
  BY DEF Init
<1> DEFINE t == [mode |-> "ex", or |-> Zero, ex |-> Zero, ed |-> Zero, c |-> ttychar,
                 perm |-> ttyperm, disabled |-> disabled]
<1>2. DOMAIN Zero = Settings /\ "ICANON" \notin Zero.lflag
  BY DEF Zero, Settings, Words
<1>3. /\ DOMAIN ttyperm = Modes
      /\ \A m \in Modes : DOMAIN ttyperm[m] = Words \cup {"chars"}
      /\ "ICANON" \in ttyperm.ex.lflag.set
      /\ "ICANON" \in ttyperm.ed.lflag.clr \ ttyperm.ed.lflag.set
  BY DEF ttyperm, Perm, Modes, Words
<1>4. GoodTty(t) /\ t.or = Zero
  BY <1>2, <1>3 DEF GoodTty, TtyShape, Canonical
<1>5. CASE disabled
  BY <1>1, <1>4, <1>5, TtyAssumption DEF tty_init, Init, SettingsInv, GoodTty, Settings
<1>6. CASE ~disabled
  <2>1. tty = tty_setup(t, Original)
    BY <1>1, <1>6 DEF tty_init
  <2> DEFINE x == MaskedWords(Original, ttyperm.ex)
             y == MaskedWords(Original, ttyperm.ed)
  <2>2. /\ DOMAIN x = Settings /\ "ICANON" \in x.lflag
        /\ DOMAIN y = Settings /\ "ICANON" \notin y.lflag
    BY <1>3, TtyAssumption DEF MaskedWords, Masked, Settings, Words
  <2> HIDE DEF x, y
  <2>3. \A c : /\ DOMAIN tty__setchar(x, c) = Settings /\ "ICANON" \in tty__setchar(x, c).lflag
               /\ DOMAIN tty__setchar(y, c) = Settings /\ "ICANON" \notin tty__setchar(y, c).lflag
    BY <2>2 DEF tty__setchar, Settings, Words
  <2>4. \E c : tty = [t EXCEPT !.or = Original, !.c = c, !.ex = tty__setchar(x, c.ex),
                               !.ed = tty__setchar(y, c.ed)]
    BY <2>1 DEF tty_setup, x, y
  <2>5. PICK c : tty = [t EXCEPT !.or = Original, !.c = c, !.ex = tty__setchar(x, c.ex),
                                 !.ed = tty__setchar(y, c.ed)]
    BY <2>4
  <2>6. /\ DOMAIN tty = DOMAIN t /\ tty.or = Original /\ tty.perm = ttyperm
        /\ tty.ex = tty__setchar(x, c.ex) /\ tty.ed = tty__setchar(y, c.ed)
    BY <2>5
  <2>7. ~tty.disabled
    BY <2>5, <1>6
  <2> HIDE DEF t
  <2>8. GoodTty(tty)
    BY <1>3, <1>4, <2>3, <2>6 DEF GoodTty, TtyShape, Canonical
  <2> QED
    BY <2>3, <2>6, <2>7, <2>8 DEF Init, SettingsInv, GoodTty
<1> QED
  BY <1>5, <1>6


\* The settings the user makes.
LEMMA UserGood ==
  ASSUME SettingsInv, NEW x, UserSets(x),
         \/ \E u \in UserBits : x = [term EXCEPT ![u[1]] = Switched(@, u[2])]
         \/ \E u \in UserChars : x = [term EXCEPT !.cc[u[1]] = u[2]]
  PROVE  DOMAIN x = Settings /\ tty__cooked_mode(x)
<1>1. ASSUME NEW u \in UserBits, x = [term EXCEPT ![u[1]] = Switched(@, u[2])]
      PROVE  DOMAIN x = Settings /\ tty__cooked_mode(x)
  BY <1>1, TtyAssumption, CanonicalAssumption
     DEF SettingsInv, UserSets, tty__cooked_mode, Switched, Settings, Words
<1>2. ASSUME NEW u \in UserChars, x = [term EXCEPT !.cc[u[1]] = u[2]]
      PROVE  DOMAIN x = Settings /\ tty__cooked_mode(x)
  BY <1>2 DEF SettingsInv, UserSets, tty__cooked_mode, Settings, Words
<1> QED
  BY <1>1, <1>2

LEMMA NextGood == SettingsInv /\ [Next]_vars => SettingsInv'
<1> SUFFICES ASSUME SettingsInv, [Next]_vars PROVE SettingsInv'
  OBVIOUS
<1>0. GoodTty(tty)
  BY DEF SettingsInv, GoodTty
<1>1. ASSUME NEW i \in Signals, Signal(i) PROVE SettingsInv'
  BY <1>1, HandlerGood, SameGood DEF Signal
<1>2. CASE Resume
  BY <1>2, HandlerGood, SameGood DEF Resume, Signals
<1>3. CASE UserChanges
  <2>1. PICK x : /\ UserSets(x)
                 /\ \/ \E u \in UserBits : x = [term EXCEPT ![u[1]] = Switched(@, u[2])]
                    \/ \E u \in UserChars : x = [term EXCEPT !.cc[u[1]] = u[2]]
    BY <1>3 DEF UserChanges
  <2> QED
    BY <2>1, UserGood DEF SettingsInv, UserSets
<1>4. CASE tty_stty
  BY <1>4, SettyGood DEF SettingsInv, GoodTty
<1>5. CASE EditMode
  <2>1. GoodTty(tty')
    BY <1>0, <1>5, DisabledGood DEF EditMode
  <2> QED
    BY <1>5, <2>1 DEF EditMode, SettingsInv, GoodTty
<1>6. CASE el_editmode
  <2> DEFINE t == [tty EXCEPT !.disabled = FALSE]
  <2>1. CASE tty' = (IF GoesRaw(t) THEN [Believe(t, term) EXCEPT !.mode = "ed"] ELSE t)
               /\ term' = IF GoesRaw(t) THEN tty'.ed ELSE term
    <3>1. GoodTty(t)
      BY <1>0, DisabledGood
    <3>2. CASE ~GoesRaw(t)
      BY <2>1, <3>1, <3>2 DEF SettingsInv, GoodTty
    <3>3. CASE GoesRaw(t)
      <4>1. GoodTty(Believe(t, term))
        BY <3>1, BelieveGood DEF SettingsInv
      <4>2. GoodTty(tty')
        BY <2>1, <3>3, <4>1, ModeGood
      <4> QED
        BY <2>1, <3>3, <4>2 DEF SettingsInv, GoodTty, TtyShape
    <3> QED
      BY <3>2, <3>3
  <2>2. CASE tty' = [tty EXCEPT !.disabled = TRUE, !.mode = IF GoesCooked(tty) THEN "ex" ELSE @]
               /\ term' = IF GoesCooked(tty) THEN tty.ex ELSE term
    <3> DEFINE u == [tty EXCEPT !.disabled = TRUE]
    <3>1. GoodTty(u)
      BY <1>0, DisabledGood
    <3>2. tty' = [u EXCEPT !.mode = IF GoesCooked(tty) THEN "ex" ELSE tty.mode]
      BY <2>2 DEF SettingsInv, TtyShape
    <3>3. GoodTty(tty')
      BY <3>1, <3>2, ModeGood
    <3> QED
      BY <2>2, <3>3 DEF SettingsInv, GoodTty, TtyShape
  <2> QED
    BY <1>6, <2>1, <2>2 DEF el_editmode
<1>7. CASE el_end
  <2>1. GoodTty(tty')
    BY <1>0, <1>7, ModeGood DEF el_end
  <2>2. DOMAIN Zero = Settings /\ DOMAIN Original = Settings
    BY TtyAssumption DEF Zero, Settings
  <2> QED
    BY <1>0, <1>7, <2>1, <2>2 DEF el_end, SettingsInv, GoodTty, Canonical
<1>8. CASE UNCHANGED <<tty, term>>
  BY <1>8, SameGood
<1>9. CASE RawSets
  BY <1>9, RawGood DEF RawSets
<1>10. CASE tty' = [tty EXCEPT !.mode = "ed"] /\ UNCHANGED term
  <2>1. GoodTty(tty')
    BY <1>0, <1>10, ModeGood
  <2> QED
    BY <1>10, <2>1 DEF SettingsInv, GoodTty
<1>11. CASE UNCHANGED tty /\ term' = tty.ed
  BY <1>11 DEF SettingsInv, TtyShape
<1>12. CASE tty' = [tty EXCEPT !.mode = "qu"] /\ UNCHANGED term
  <2>1. GoodTty(tty')
    BY <1>0, <1>12, ModeGood
  <2> QED
    BY <1>12, <2>1 DEF SettingsInv, GoodTty
<1>13. CASE Key
  <2>1. CASE UNCHANGED tty /\ term' = MaskedWords(tty.ed, tty.perm.qu)
    BY <2>1 DEF SettingsInv, TtyShape, MaskedWords
  <2> QED
    BY <1>8, <1>11, <1>13, <2>1 DEF Key, KeyFrom, Unquotes
<1>14. CASE FinishCooks
  BY <1>14, CookedGood, SameGood DEF FinishCooks
<1>15. CASE TakesTerminal \/ el_getc
  BY <1>8, <1>9, <1>15 DEF TakesTerminal, el_getc
<1>16. CASE Marks \/ QuoteMarks
  BY <1>10, <1>12, <1>16 DEF Marks, RawMarks, QuoteMarks
<1>17. CASE Interrupted
  BY <1>8, <1>11, <1>17 DEF Interrupted, Unquotes
<1>18. CASE GetsBegins \/ read_prepare \/ Again \/ FinishClears
  BY <1>8, <1>18 DEF GetsBegins, read_prepare, Again, FinishClears
<1>19. CASE UNCHANGED vars
  BY <1>8, <1>19 DEF vars
<1> QED
  BY <1>1, <1>2, <1>3, <1>4, <1>5, <1>6, <1>7, <1>13, <1>14, <1>15, <1>16, <1>17, <1>18, <1>19
     DEF Next

LEMMA InitCooked == Init => CookInv
<1> SUFFICES ASSUME Init PROVE CookInv
  OBVIOUS
<1>1. SettingsInv
  BY InitGood
<1>2. PICK disabled \in BOOLEAN : tty = tty_init(disabled)
  BY DEF Init
<1> DEFINE t == [mode |-> "ex", or |-> Zero, ex |-> Zero, ed |-> Zero, c |-> ttychar,
                 perm |-> ttyperm, disabled |-> disabled]
<1>3. CASE disabled
  <2>1. tty = t
    BY <1>2, <1>3 DEF tty_init
  <2> QED
    BY <2>1 DEF CookInv, Init, Marking
<1>4. CASE ~disabled
  <2>1. tty = tty_setup(t, Original)
    BY <1>2, <1>4 DEF tty_init
  <2>2. tty.mode = t.mode /\ tty.disabled = t.disabled
    BY <2>1 DEF tty_setup
  <2>3. term = tty.ex
    BY <1>4, <2>2 DEF Init
  <2> QED
    BY <1>1, <2>2, <2>3 DEF CookInv, SettingsInv, Canonical, tty__cooked_mode, Init, Marking
<1> QED
  BY <1>3, <1>4

\* Where nothing of what CookInv speaks of changes but the place el_gets is at.
LEMMA MoveCooked ==
  ASSUME CookInv, UNCHANGED <<tty, term, missed>>,
         status' = status \/ status' = "running" \/ tty__cooked_mode(term),
         ~missed => /\ pc' \in Marking => ~tty.disabled
                    /\ pc' \in {"idle", "clearing"} => tty.mode = "ex"
                    /\ tty.mode = "ex" => (pc \in Marking => pc' \in Marking)
  PROVE  CookInv'
  BY DEF CookInv

\* The terminal is made raw: t_mode does not say so yet.
LEMMA RawSetsCooked ==
  ASSUME SettingsInv, CookInv, RawSets, GoesRaw(tty), UNCHANGED missed, status' = "running",
         pc' \in Marking
  PROVE  CookInv'
<1>1. tty'.mode = tty.mode /\ tty'.disabled = tty.disabled
  BY BelieveGood DEF RawSets, SettingsInv, GoodTty
<1> QED
  BY <1>1 DEF CookInv, GoesRaw, Marking

\* A handler finds a mode it can rely on, or the signal is missed.
LEMMA HandlerCooked ==
  ASSUME SettingsInv, CookInv, NEW i \in Signals, sig_handler(i), pc' = pc,
         missed' = (missed \/ Misses(i)), disp[i] = "handler"
  PROVE  CookInv'
<1> SUFFICES ASSUME ~missed, ~Misses(i) PROVE CookInv'
  BY DEF CookInv
<1>1. CASE i = "CONT" /\ GoesRaw(tty)
  <2>1. pc \notin {"idle", "clearing"} /\ ~tty.disabled /\ status' = "running"
    BY <1>1 DEF Misses, GoesRaw, sig_handler, Default
  <2>2. tty'.mode = "ed" /\ tty'.disabled = tty.disabled
    <3> DEFINE b == Believe(tty, term)
    <3>1. tty' = [b EXCEPT !.mode = "ed"] /\ term' = b.ed
      BY <1>1 DEF sig_handler, TerminalFor
    <3>2. GoodTty(b) /\ b.disabled = tty.disabled
      BY BelieveGood DEF SettingsInv, GoodTty
    <3> QED
      BY <3>1, <3>2, ModeGood
  <2> QED
    BY <2>1, <2>2 DEF CookInv
<1>2. CASE i \in {"INT", "TSTP"} /\ GoesCooked(tty)
  <2>1. tty' = [tty EXCEPT !.mode = "ex"] /\ term' = tty.ex
    BY <1>2 DEF sig_handler, TerminalFor
  <2>2. /\ tty'.mode = "ex" /\ tty'.disabled = tty.disabled /\ tty'.or = tty.or
        /\ tty.or # Zero => "ICANON" \in term'.lflag
    BY <2>1, CookedGood
  <2> QED
    BY <1>2, <2>2 DEF CookInv, tty__cooked_mode, GoesCooked
<1>3. CASE ~(i = "CONT" /\ GoesRaw(tty)) /\ ~(i \in {"INT", "TSTP"} /\ GoesCooked(tty))
  <2>1. UNCHANGED <<tty, term>>
    BY <1>3 DEF sig_handler, TerminalFor
  <2>2. CASE i \in {"INT", "TSTP"}
    <3>1. tty.or # Zero => tty__cooked_mode(term)
      BY <1>3, <2>2 DEF CookInv, Misses, GoesCooked
    <3> QED
      BY <2>1, <3>1 DEF CookInv
  <2>3. CASE i \notin {"INT", "TSTP"}
    <3>1. status' = "running"
      BY <2>3 DEF sig_handler, Default
    <3> QED
      BY <2>1, <3>1 DEF CookInv
  <2> QED
    BY <2>2, <2>3
<1> QED
  BY <1>1, <1>2, <1>3

\* One case for each action, as above.
LEMMA NextCooked == SettingsInv /\ CookInv /\ [Next]_vars => CookInv'
<1> SUFFICES ASSUME SettingsInv, CookInv, [Next]_vars PROVE CookInv'
  OBVIOUS
<1>0. GoodTty(tty)
  BY DEF SettingsInv, GoodTty
<1>1. ASSUME NEW i \in Signals, Signal(i) PROVE CookInv'
  <2>1. CASE disp[i] = "handler" /\ sig_handler(i)
    BY <1>1, <2>1, HandlerCooked DEF Signal
  <2>2. CASE disp[i] = "default" /\ i \in {"INT", "TSTP"} /\ UNCHANGED <<tty, term>>
    <3>1. ~missed' => ~missed /\ tty__cooked_mode(term)
      BY <1>1, <2>2 DEF Signal, Misses
    <3> QED
      BY <1>1, <2>2, <3>1 DEF Signal, CookInv
  <2>3. CASE UNCHANGED <<tty, term, status>>
    BY <1>1, <2>3 DEF Signal, CookInv
  <2> QED
    BY <1>1, <2>1, <2>2, <2>3 DEF Signal
<1>2. CASE Resume
  <2>1. CASE disp["CONT"] = "handler"
    BY <1>2, <2>1, HandlerCooked DEF Resume, Signals
  <2>2. CASE disp["CONT"] # "handler"
    BY <1>2, <2>2 DEF Resume, CookInv
  <2> QED
    BY <2>1, <2>2
<1>3. CASE UserChanges
  <2>1. PICK x : /\ UserSets(x)
                 /\ \/ \E u \in UserBits : x = [term EXCEPT ![u[1]] = Switched(@, u[2])]
                    \/ \E u \in UserChars : x = [term EXCEPT !.cc[u[1]] = u[2]]
    BY <1>3 DEF UserChanges
  <2>2. tty__cooked_mode(x)
    BY <2>1, UserGood
  <2> QED
    BY <2>1, <2>2 DEF CookInv, UserSets, tty__cooked_mode
<1>4. CASE tty_stty
  <2>1. /\ GoodTty(tty')
        /\ tty'.mode = tty.mode /\ tty'.disabled = tty.disabled /\ tty'.or = tty.or
    BY <1>4, SettyGood
  <2>2. /\ pc = "idle" /\ UNCHANGED <<pc, status, missed>>
        /\ \E m \in {"ex", "ed"} : term' = IF tty.mode = m THEN tty'[m] ELSE term
    BY <1>4, TtyAssumption DEF tty_stty, Stty, Idle
  <2>3. ~missed => tty.mode = "ex" /\ (term' = tty'.ex \/ term' = term)
    BY <2>2 DEF CookInv
  <2> QED
    BY <2>1, <2>2, <2>3 DEF CookInv, GoodTty, Canonical, tty__cooked_mode, Marking
<1>5. CASE EditMode
  <2>1. tty'.mode = tty.mode /\ tty'.or = tty.or
    BY <1>0, <1>5, DisabledGood DEF EditMode
  <2> QED
    BY <1>5, <2>1 DEF EditMode, CookInv, Idle, Marking
<1>6. CASE el_editmode
  <2>1. CASE missed'
    BY <2>1 DEF CookInv
  <2>2. CASE /\ tty' = [tty EXCEPT !.disabled = TRUE, !.mode = IF GoesCooked(tty) THEN "ex" ELSE @]
             /\ term' = IF GoesCooked(tty) THEN tty.ex ELSE term
             /\ UNCHANGED missed
    <3>1. ~missed => tty.mode = "ex"
      BY <1>6 DEF el_editmode, Idle, CookInv
    <3>2. ~missed => tty'.mode = "ex" /\ tty'.or = tty.or /\ term' = term
      BY <2>2, <3>1 DEF SettingsInv, TtyShape, GoesCooked
    <3> QED
      BY <1>6, <2>2, <3>1, <3>2 DEF el_editmode, CookInv, Idle, Marking
  <2> QED
    BY <1>6, <2>1, <2>2 DEF el_editmode
<1>7. CASE el_end
  <2>1. tty.or # Zero => tty__cooked_mode(term')
    BY <1>7, CanonicalAssumption DEF el_end, SettingsInv, Canonical, tty__cooked_mode
  <2>2. tty'.or = tty.or /\ tty'.disabled = tty.disabled /\ (tty.mode = "ex" => tty'.mode = "ex")
    BY <1>0, <1>7, ModeGood DEF el_end
  <2> QED
    BY <1>7, <2>1, <2>2 DEF el_end, CookInv, Idle, Marking
<1>8. CASE TakesTerminal
  <2>1. CASE Step("begin", "marking first") /\ GoesRaw(tty) /\ RawSets /\ Quiet
    BY <2>1, RawSetsCooked DEF Step, Quiet, Marking
  <2>2. CASE /\ UNCHANGED <<term, tty>> /\ Quiet
             /\ Step("begin", "preparing") \/ (Step("begin", "idle") /\ GoesRaw(tty))
    BY <2>2, MoveCooked DEF Step, Quiet, Marking, GoesRaw
  <2> QED
    BY <1>8, <2>1, <2>2 DEF TakesTerminal
<1>9. CASE el_getc
  <2>1. CASE Step("next", "marking") /\ GoesRaw(tty) /\ RawSets /\ Quiet
    BY <2>1, RawSetsCooked DEF Step, Quiet, Marking
  <2>2. CASE /\ UNCHANGED <<term, tty>> /\ Quiet
             /\ Step("next", "reading") \/ Step("next", "finishing")
    BY <2>2, MoveCooked DEF Step, Quiet, Marking
  <2> QED
    BY <1>9, <2>1, <2>2 DEF el_getc
<1>10. CASE Marks \/ QuoteMarks
  <2>1. /\ pc \in Marking /\ pc' \notin Marking \cup {"idle", "clearing"} /\ status' = "running"
        /\ UNCHANGED <<term, missed>>
        /\ tty' = [tty EXCEPT !.mode = "ed"] \/ tty' = [tty EXCEPT !.mode = "qu"]
    BY <1>10 DEF Marks, QuoteMarks, RawMarks, Step, Quiet, Marking
  <2>2. tty'.mode # "ex" /\ tty'.disabled = tty.disabled
    BY <1>0, <2>1, ModeGood
  <2> QED
    BY <2>1, <2>2 DEF CookInv
<1>11. ASSUME NEW from \in {"reading", "next"}, NEW failed, Unquotes(from, failed) PROVE CookInv'
  <2>1. CASE tty.mode = "qu"
    BY <1>11, <2>1 DEF Unquotes, Step, Quiet, CookInv, Marking
  <2>2. CASE tty.mode # "qu"
    BY <1>11, <2>2, MoveCooked DEF Unquotes, Step, Quiet, Marking
  <2> QED
    BY <2>1, <2>2
<1>12. CASE Key
  <2> SUFFICES ASSUME NEW from \in {"reading", "next"}, KeyFrom(from) PROVE CookInv'
    BY <1>12 DEF Key
  <2>1. CASE UNCHANGED <<term, tty, status, missed>> /\ Step(from, "next")
    BY <2>1, MoveCooked DEF Step, Marking
  <2>2. CASE UNCHANGED <<term, tty, status, missed>> /\ Step(from, Returns)
    BY <2>2 DEF Step, Marking, Returns, CookInv
  <2>3. CASE Step(from, "quoting") /\ ~tty.disabled /\ UNCHANGED <<tty, status, missed>>
    BY <2>3 DEF Step, Marking, CookInv
  <2> QED
    BY <1>11, <2>1, <2>2, <2>3 DEF KeyFrom, Quiet
<1>13. CASE Interrupted
  <2>1. CASE /\ UNCHANGED <<term, tty, status, missed>>
             /\ Step("reading", "again") \/ Step("reading", "reading")
    BY <2>1, MoveCooked DEF Step, Marking
  <2>2. CASE UNCHANGED <<term, tty, status, missed>> /\ Step("reading", Returns)
    BY <2>2 DEF Step, Marking, Returns, CookInv
  <2> QED
    BY <1>11, <1>13, <2>1, <2>2 DEF Interrupted, Quiet
<1>14. CASE FinishCooks
  <2>1. CASE GoesCooked(tty)
    <3>1. /\ tty'.mode = "ex" /\ tty'.or = tty.or
          /\ tty.or # Zero => "ICANON" \in term'.lflag
      BY <1>14, <2>1, CookedGood DEF FinishCooks
    <3> QED
      BY <1>14, <3>1 DEF FinishCooks, Step, CookInv, tty__cooked_mode, Marking
  <2>2. CASE ~GoesCooked(tty)
    BY <1>14, <2>2 DEF FinishCooks, Step, CookInv, GoesCooked, Marking
  <2> QED
    BY <2>1, <2>2
<1>15. CASE GetsBegins \/ read_prepare \/ Again \/ FinishClears
  BY <1>15, MoveCooked
     DEF GetsBegins, read_prepare, Again, FinishClears, Step, Quiet, Marking, CookInv
<1>16. CASE UNCHANGED vars
  BY <1>16 DEF vars, CookInv
<1> QED
  BY <1>1, <1>2, <1>3, <1>4, <1>5, <1>6, <1>7, <1>8, <1>9, <1>10, <1>12, <1>13, <1>14, <1>15, <1>16
     DEF Next

\* Between two lines, while the program is stopped and after its death the terminal is in
\* cooked mode, if the library's handlers have met no signal they were not ready for.
THEOREM CookedCorrect == Spec => []CookedOutside
<1>1. Init => SettingsInv /\ CookInv
  BY InitGood, InitCooked
<1>2. SettingsInv /\ CookInv /\ [Next]_vars => SettingsInv' /\ CookInv'
  BY NextGood, NextCooked
<1>3. CookInv => CookedOutside
  BY DEF CookInv, CookedOutside, Marking
<1> QED
  BY <1>1, <1>2, <1>3, PTL DEF Spec

\* What tty_rawmode takes over has all that was asked for, if the terminal it finds has.
LEMMA BelieveAgrees ==
  ASSUME NEW t, GoodTty(t), NEW x, DOMAIN x = Settings, NEW w, NEW b, b = Believe(t, x),
         tty__cooked_mode(x) => Agree(x, t, w) /\ Seen(x, t, w),
         ~tty__cooked_mode(x) => Agree(t.ex, t, w)
  PROVE  Agree(b.ex, b, w)
<1>0. b.perm = t.perm
  BY BelieveGood
<1>1. CASE ~tty__cooked_mode(x)
  BY <1>1 DEF Believe
<1>2. CASE tty__cooked_mode(x)
  <2> DEFINE ts == tty__getchar(x)
             c == [mode \in {"ex", "ed"} |-> FollowedChars(t, ts, mode)]
             Keep(mode) == IF ts # t.c.ex THEN tty__setchar(Followed(t, x, mode), c[mode])
                           ELSE Followed(t, x, mode)
             own(a) == t.perm.ex[a].set \cup t.perm.ex[a].clr
  <2>1. b = [t EXCEPT !.ex = Keep("ex"), !.ed = Keep("ed"), !.c = IF ts # t.c.ex THEN c ELSE @]
    BY <1>2 DEF Believe, BelieveAll
  <2>2. b.ex = Keep("ex")
    BY <2>1 DEF GoodTty, TtyShape
  <2>3. ASSUME NEW a \in Words \ w.unnoticed PROVE b.ex[a] \ own(a) = w.set[a] \ own(a)
    <3>1. b.ex[a] = Followed(t, x, "ex")[a]
      BY <2>2 DEF tty__setchar, Followed, Settings, Words
    <3>2. Followed(t, x, "ex")[a] = IF Noticed(t, x, a) THEN Masked(x[a], t.perm.ex[a]) ELSE t.ex[a]
      BY DEF Followed, Settings, Words
    <3>3. x[a] \ own(a) = w.set[a] \ own(a)
      BY <1>2 DEF Agree
    <3>4. CASE Noticed(t, x, a)
      <4>1. Masked(x[a], t.perm.ex[a]) \ own(a) = x[a] \ own(a)
        BY DEF Masked
      <4> QED
        BY <3>1, <3>2, <3>3, <3>4, <4>1
    <3>5. CASE ~Noticed(t, x, a)
      <4>1. t.ex[a] = x[a]
        BY <1>2, <3>5 DEF Noticed, Seen
      <4> QED
        BY <3>1, <3>2, <3>3, <3>5, <4>1
    <3> QED
      BY <3>4, <3>5
  <2>4. ASSUME "cc" \notin w.unnoticed,
               NEW f \in c_cc \ (t.perm.ex.chars.set \cup t.perm.ex.chars.clr)
        PROVE  b.ex.cc[f] = w.set.cc[f]
    <3>1. x.cc[f] = w.set.cc[f] /\ f \in Functions
      BY <1>2, <2>4 DEF Agree, c_cc
    <3>2. CASE ts = t.c.ex
      <4>1. b.ex.cc = t.ex.cc
        BY <2>2, <3>2 DEF Followed, Settings
      <4> QED
        BY <1>2, <2>4, <3>1, <3>2, <4>1 DEF Seen
    <3>3. CASE ts # t.c.ex
      <4>1. b.ex.cc[f] = c["ex"][f]
        BY <2>2, <2>4, <3>3 DEF tty__setchar, Followed, Settings
      <4>2. c["ex"][f] = FollowedChars(t, ts, "ex")[f]
        OBVIOUS
      <4>3. FollowedChars(t, ts, "ex")[f] = IF ts[f] # t.c.ex[f] THEN ts[f] ELSE t.c.ex[f]
        BY <2>4, <3>1 DEF FollowedChars
      <4>4. ts[f] = x.cc[f]
        BY <2>4, <3>1 DEF tty__getchar
      <4> QED
        BY <3>1, <4>1, <4>2, <4>3, <4>4
    <3> QED
      BY <3>2, <3>3
  <2> QED
    BY <1>0, <2>3, <2>4 DEF Agree
<1> QED
  BY <1>1, <1>2

\* Where nothing of what KeptInv speaks of changes but the place el_gets is at.
LEMMA MoveKept ==
  ASSUME KeptInv, UNCHANGED <<tty, term, want>>, status' # "ended" => status # "ended",
         pc' \in Marking => pc \in Marking
  PROVE  KeptInv'
  BY DEF KeptInv

\* The terminal is made raw.
LEMMA RawKept ==
  ASSUME SettingsInv, KeptInv, status # "ended", tty.mode = "ex", UNCHANGED want,
         NEW b, b = Believe(tty, term), tty' \in {b, [b EXCEPT !.mode = "ed"]}, term' = b.ed
  PROVE  KeptInv'
<1>1. Agree(b.ex, b, want)
  BY BelieveAgrees DEF SettingsInv, GoodTty, KeptInv
<1>2. GoodTty(b)
  BY BelieveGood DEF SettingsInv, GoodTty
<1>3. tty'.ex = b.ex /\ tty'.perm = b.perm
  BY <1>2, ModeGood
<1>4. Agree(tty'.ex, tty', want)
  BY <1>1, <1>3 DEF Agree
<1>5. ~tty__cooked_mode(term')
  BY <1>2 DEF GoodTty, Canonical, tty__cooked_mode
<1> QED
  BY <1>4, <1>5 DEF KeptInv, tty__cooked_mode, Agree

\* The terminal is made cooked.
LEMMA CookKept ==
  ASSUME SettingsInv, KeptInv, status # "ended", tty.mode # "ex", UNCHANGED want,
         GoodTty(tty'), tty'.mode = "ex", tty'.ex = tty.ex, tty'.perm = tty.perm, term' = tty.ex
  PROVE  KeptInv'
<1>1. Agree(tty'.ex, tty', want')
  BY DEF KeptInv, Agree
<1>2. Seen(tty'.ex, tty', want')
  BY DEF Seen
<1> QED
  BY <1>1, <1>2 DEF KeptInv

\* t_mode says that the terminal is raw: it has been made so, or is for the moment.
LEMMA ModeKept ==
  ASSUME SettingsInv, KeptInv, status # "ended", UNCHANGED want, pc \in Marking,
         NEW m, m # "ex", tty' = [tty EXCEPT !.mode = m]
  PROVE  KeptInv'
<1>1. tty'.ex = tty.ex /\ tty'.perm = tty.perm /\ tty'.mode = m
  BY ModeGood DEF SettingsInv, GoodTty
<1> QED
  BY <1>1 DEF KeptInv, Agree

\* The handlers do as tty_rawmode and tty_cookedmode do.
LEMMA HandlerKept ==
  ASSUME SettingsInv, KeptInv, NEW i \in Signals, sig_handler(i), UNCHANGED <<pc, want>>,
         status # "ended"
  PROVE  KeptInv'
<1>1. CASE i = "CONT" /\ GoesRaw(tty)
  BY <1>1, RawKept DEF sig_handler, TerminalFor, GoesRaw
<1>2. CASE i \in {"INT", "TSTP"} /\ GoesCooked(tty)
  <2>1. tty' = [tty EXCEPT !.mode = "ex"] /\ term' = tty.ex
    BY <1>2 DEF sig_handler, TerminalFor
  <2>2. GoodTty(tty') /\ tty'.mode = "ex" /\ tty'.ex = tty.ex /\ tty'.perm = tty.perm
    BY <2>1, ModeGood DEF SettingsInv, GoodTty
  <2> QED
    BY <1>2, <2>1, <2>2, CookKept DEF GoesCooked
<1>3. CASE ~(i = "CONT" /\ GoesRaw(tty)) /\ ~(i \in {"INT", "TSTP"} /\ GoesCooked(tty))
  BY <1>3, MoveKept DEF sig_handler, TerminalFor
<1> QED
  BY <1>1, <1>2, <1>3

LEMMA InitKept == Init => KeptInv
<1> SUFFICES ASSUME Init PROVE KeptInv
  OBVIOUS
<1>1. PICK disabled \in BOOLEAN : tty = tty_init(disabled)
  BY DEF Init
<1> DEFINE t == [mode |-> "ex", or |-> Zero, ex |-> Zero, ed |-> Zero, c |-> ttychar,
                 perm |-> ttyperm, disabled |-> disabled]
<1>2. want = [set |-> term, unnoticed |-> {}, handlers |-> disp]
  BY DEF Init
<1>3. CASE disabled
  <2>1. tty = t /\ term = Original
    BY <1>1, <1>3 DEF tty_init, Init
  <2>2. tty__cooked_mode(term)
    BY <2>1, CanonicalAssumption DEF tty__cooked_mode
  <2>3. Agree(term, tty, want)
    BY <1>2 DEF Agree
  <2>4. tty__getchar(term) # tty.c.ex
    BY <2>1 DEF tty__getchar, ttychar, c_cc, Functions, Off
  <2>5. \A a \in Words : tty.ed[a] = tty.ex[a]
    BY <2>1
  <2>6. Seen(term, tty, want)
    BY <2>4, <2>5 DEF Seen
  <2> QED
    BY <1>2, <2>1, <2>2, <2>3, <2>6 DEF KeptInv, Init, Marking
<1>4. CASE ~disabled
  <2>1. tty = tty_setup(t, Original)
    BY <1>1, <1>4 DEF tty_init
  <2>2. tty.mode = t.mode /\ tty.disabled = t.disabled
    BY <2>1 DEF tty_setup
  <2>3. term = tty.ex
    BY <1>4, <2>2 DEF Init
  <2> QED
    BY <1>2, <2>2, <2>3 DEF KeptInv, Agree, Seen, Init, Marking
<1> QED
  BY <1>3, <1>4

\* What the program sets is what is asked for from then on; the editor's settings are not.
LEMMA SettyKept ==
  ASSUME SettingsInv, KeptInv, tty_stty PROVE KeptInv'
<1>1. ASSUME NEW y \in SettyBits \cup SettyChars,
             \/ /\ y \in SettyBits
                /\ <<y[2], y[3]>> \in ttymodes
                /\ Stty([tty EXCEPT !.perm[y[1]][y[2]] = Signed(@, y[3], y[4])], y[1])
             \/ /\ y \in SettyChars
                /\ Stty([tty EXCEPT ![y[1]].cc[y[2]] = y[3]], y[1])
      PROVE  KeptInv'
  <2> DEFINE m == y[1]
  <2>1. /\ status # "ended" /\ pc \notin Marking /\ UNCHANGED <<pc, status>>
        /\ term' = IF tty.mode = m THEN tty'[m] ELSE term
        /\ want' = IF m = "ex" THEN [want EXCEPT !.set = tty'.ex] ELSE want
    BY <1>1 DEF Stty, Idle, Marking
  <2>2. tty'.mode = tty.mode
    BY <1>1, SettyGood DEF tty_stty
  <2>3. CASE m = "ex"
    <3>1. want'.set = tty'.ex /\ want'.unnoticed = want.unnoticed /\ DOMAIN want' = DOMAIN want
      BY <2>1, <2>3 DEF KeptInv
    <3>2. Agree(tty'.ex, tty', want') /\ Seen(tty'.ex, tty', want')
      BY <3>1 DEF Agree, Seen
    <3> QED
      BY <2>1, <2>2, <2>3, <3>1, <3>2 DEF KeptInv
  <2>4. CASE m = "ed"
    <3>1. /\ tty'.ex = tty.ex /\ tty'.perm.ex = tty.perm.ex /\ tty'.c = tty.c
          /\ \A a \in Words : tty'.ed[a] = tty.ed[a]
      <4>1. CASE y \in SettyBits /\ Stty([tty EXCEPT !.perm[y[1]][y[2]] = Signed(@, y[3], y[4])], y[1])
        <5> DEFINE q == [tty.perm.ed EXCEPT ![y[2]] = Signed(@, y[3], y[4])]
        <5>1. tty' = [tty EXCEPT !.perm = [tty.perm EXCEPT !.ed = q]]
          BY <2>4, <4>1 DEF Stty
        <5> HIDE DEF q
        <5> QED
          BY <5>1 DEF SettingsInv, TtyShape, Modes
      <4>2. CASE Stty([tty EXCEPT ![y[1]].cc[y[2]] = y[3]], y[1])
        <5> DEFINE x == [tty.ed EXCEPT !.cc[y[2]] = y[3]]
        <5>1. tty' = [tty EXCEPT !.ed = x]
          BY <2>4, <4>2 DEF Stty
        <5>2. \A a \in Words : x[a] = tty.ed[a]
          BY DEF SettingsInv, TtyShape, Settings, Words
        <5> HIDE DEF x
        <5> QED
          BY <5>1, <5>2 DEF SettingsInv, TtyShape
      <4> QED
        BY <1>1, <4>1, <4>2
    <3>2. \A x : /\ Agree(x, tty, want) <=> Agree(x, tty', want)
                 /\ Seen(x, tty, want) <=> Seen(x, tty', want)
      BY <3>1 DEF Agree, Seen
    <3>3. want' = want /\ (tty.mode = "ex" => term' = term)
      BY <2>1, <2>4
    <3> QED
      BY <2>1, <2>2, <3>1, <3>2, <3>3 DEF KeptInv
  <2> QED
    BY <2>3, <2>4, TtyAssumption
<1> QED
  BY <1>1 DEF tty_stty

\* What the user sets is noticed later, or listed as unnoticed.
LEMMA UserKept ==
  ASSUME SettingsInv, KeptInv, NEW x, UserSets(x), DOMAIN x = Settings, tty__cooked_mode(x)
  PROVE  KeptInv'
<1>1. /\ UNCHANGED <<tty, pc, status>> /\ term' = x
      /\ want' = [want EXCEPT !.set = x, !.unnoticed = Unnoticed(x)]
  BY DEF UserSets
<1>2. CASE pc \in Marking \/ tty.mode # "ex"
  <2>1. want'.unnoticed = Settings
    BY <1>1, <1>2 DEF Unnoticed
  <2>2. \A z : Agree(z, tty, want') /\ Seen(z, tty, want')
    BY <2>1 DEF Agree, Seen, Settings
  <2> QED
    BY <1>1, <2>2 DEF KeptInv
<1>3. CASE ~(pc \in Marking \/ tty.mode # "ex")
  <2>1. Agree(x, tty, want')
    BY <1>1 DEF Agree
  <2>2. Seen(x, tty, want')
    BY <1>1, <1>3 DEF Seen, Unnoticed, Words
  <2> QED
    BY <1>1, <1>3, <2>1, <2>2 DEF KeptInv
<1> QED
  BY <1>2, <1>3

\* One case for each action, as above.
LEMMA NextKept == SettingsInv /\ KeptInv /\ [Next]_vars => KeptInv'
<1> SUFFICES ASSUME SettingsInv, KeptInv, [Next]_vars PROVE KeptInv'
  OBVIOUS
<1>0. GoodTty(tty)
  BY DEF SettingsInv, GoodTty
<1>1. ASSUME NEW i \in Signals, Signal(i) PROVE KeptInv'
  <2>1. CASE sig_handler(i)
    BY <1>1, <2>1, HandlerKept DEF Signal
  <2>2. CASE UNCHANGED <<tty, term>>
    BY <1>1, <2>2, MoveKept DEF Signal
  <2> QED
    BY <1>1, <2>1, <2>2 DEF Signal
<1>2. CASE Resume
  <2>1. CASE sig_handler("CONT")
    BY <1>2, <2>1, HandlerKept DEF Resume, Signals
  <2>2. CASE UNCHANGED <<tty, term>>
    BY <1>2, <2>2, MoveKept DEF Resume
  <2> QED
    BY <1>2, <2>1, <2>2 DEF Resume
<1>3. CASE UserChanges
  <2>1. PICK x : /\ UserSets(x)
                 /\ \/ \E u \in UserBits : x = [term EXCEPT ![u[1]] = Switched(@, u[2])]
                    \/ \E u \in UserChars : x = [term EXCEPT !.cc[u[1]] = u[2]]
    BY <1>3 DEF UserChanges
  <2> QED
    BY <2>1, UserGood, UserKept
<1>4. CASE tty_stty
  BY <1>4, SettyKept
<1>5. CASE EditMode
  <2>1. /\ tty'.mode = tty.mode /\ tty'.ex = tty.ex /\ tty'.ed = tty.ed /\ tty'.c = tty.c
        /\ tty'.perm = tty.perm
    BY <1>0, <1>5, DisabledGood DEF EditMode
  <2> QED
    BY <1>5, <2>1 DEF EditMode, KeptInv, Agree, Seen
<1>6. CASE el_editmode
  <2> DEFINE t == [tty EXCEPT !.disabled = FALSE]
             u == [tty EXCEPT !.disabled = TRUE]
  <2>1. status # "ended" /\ pc = "idle" /\ UNCHANGED <<pc, status, want>>
    BY <1>6 DEF el_editmode, Idle
  <2>2. ASSUME NEW d, NEW v, v = [tty EXCEPT !.disabled = d]
        PROVE  /\ GoodTty(v) /\ v.mode = tty.mode
               /\ v.ex = tty.ex /\ v.perm = tty.perm
               /\ \A x : /\ Agree(x, tty, want) <=> Agree(x, v, want)
                         /\ Seen(x, tty, want) <=> Seen(x, v, want)
    <3>1. /\ GoodTty(v) /\ v.mode = tty.mode
          /\ v.ex = tty.ex /\ v.ed = tty.ed /\ v.c = tty.c /\ v.perm = tty.perm
      BY <1>0, <2>2, DisabledGood
    <3> QED
      BY <3>1 DEF Agree, Seen
  <2>3. CASE /\ tty' = (IF GoesRaw(t) THEN [Believe(t, term) EXCEPT !.mode = "ed"] ELSE t)
             /\ term' = IF GoesRaw(t) THEN tty'.ed ELSE term
    <3>1. CASE ~GoesRaw(t)
      BY <2>1, <2>2, <2>3, <3>1 DEF KeptInv
    <3>2. CASE GoesRaw(t)
      <4> DEFINE b == Believe(t, term)
      <4>1. tty.mode = "ex"
        BY <2>2, <3>2 DEF GoesRaw
      <4>2. GoodTty(b) /\ b.perm = t.perm
        BY <2>2, BelieveGood DEF SettingsInv
      <4>3. /\ GoodTty(t) /\ t.ex = tty.ex
            /\ \A x : /\ Agree(x, tty, want) <=> Agree(x, t, want)
                      /\ Seen(x, tty, want) <=> Seen(x, t, want)
        BY <2>2
      <4> HIDE DEF b, t
      <4>4. /\ tty__cooked_mode(term) => Agree(term, t, want) /\ Seen(term, t, want)
            /\ ~tty__cooked_mode(term) => Agree(t.ex, t, want)
        BY <2>1, <4>1, <4>3 DEF KeptInv
      <4>5. Agree(b.ex, b, want)
        BY <4>3, <4>4, BelieveAgrees DEF SettingsInv, b
      <4>6. /\ tty'.mode = "ed" /\ tty'.ex = b.ex /\ tty'.perm = b.perm
        BY <2>3, <3>2, <4>2, ModeGood DEF b
      <4> QED
        BY <2>1, <4>5, <4>6 DEF KeptInv, Agree
    <3> QED
      BY <3>1, <3>2
  <2>4. CASE /\ tty' = [tty EXCEPT !.disabled = TRUE, !.mode = IF GoesCooked(tty) THEN "ex" ELSE @]
             /\ term' = IF GoesCooked(tty) THEN tty.ex ELSE term
    <3> DEFINE m == IF GoesCooked(tty) THEN "ex" ELSE tty.mode
    <3>1. tty' = [u EXCEPT !.mode = m]
      BY <2>4 DEF SettingsInv, TtyShape
    <3>2. GoodTty(u) /\ u.ex = tty.ex /\ u.ed = tty.ed /\ u.c = tty.c /\ u.perm = tty.perm
      BY <1>0, DisabledGood
    <3> HIDE DEF u
    <3>3. /\ GoodTty(tty') /\ tty'.mode = m /\ tty'.ex = tty.ex /\ tty'.ed = tty.ed
          /\ tty'.c = tty.c /\ tty'.perm = tty.perm
      BY <3>1, <3>2, ModeGood
    <3>4. CASE GoesCooked(tty)
      BY <2>1, <2>4, <3>3, <3>4, CookKept DEF GoesCooked
    <3>5. CASE ~GoesCooked(tty)
      BY <2>1, <2>4, <3>3, <3>5 DEF KeptInv, Agree, Seen
    <3> QED
      BY <3>4, <3>5
  <2> QED
    BY <1>6, <2>3, <2>4 DEF el_editmode
<1>7. CASE el_end
  BY <1>7 DEF el_end, KeptInv
<1>8. CASE TakesTerminal
  <2>1. CASE Step("begin", "marking first") /\ GoesRaw(tty) /\ RawSets /\ Quiet
    BY <2>1, RawKept DEF Step, Quiet, RawSets, GoesRaw
  <2> QED
    BY <1>8, <2>1, MoveKept DEF TakesTerminal, Step, Quiet, Marking
<1>9. CASE el_getc
  <2>1. CASE Step("next", "marking") /\ GoesRaw(tty) /\ RawSets /\ Quiet
    BY <2>1, RawKept DEF Step, Quiet, RawSets, GoesRaw
  <2> QED
    BY <1>9, <2>1, MoveKept DEF el_getc, Step, Quiet, Marking
<1>10. CASE Marks \/ QuoteMarks
  <2>1. /\ pc \in Marking /\ status # "ended" /\ UNCHANGED want
        /\ \E m \in {"ed", "qu"} : tty' = [tty EXCEPT !.mode = m]
    BY <1>10 DEF Marks, QuoteMarks, RawMarks, Step, Quiet, Marking
  <2> QED
    BY <2>1, ModeKept
<1>11. ASSUME NEW from \in {"reading", "next"}, NEW failed, Unquotes(from, failed) PROVE KeptInv'
  <2>1. CASE tty.mode = "qu"
    BY <1>11, <2>1 DEF Unquotes, Step, Quiet, KeptInv
  <2>2. CASE tty.mode # "qu"
    BY <1>11, <2>2, MoveKept DEF Unquotes, Step, Quiet, Marking
  <2> QED
    BY <2>1, <2>2
<1>12. CASE Key
  <2> SUFFICES ASSUME NEW from \in {"reading", "next"}, KeyFrom(from) PROVE KeptInv'
    BY <1>12 DEF Key
  <2>1. CASE /\ Step(from, "quoting") /\ UNCHANGED <<tty, status>>
             /\ want' = IF tty.mode = "ex" THEN [want EXCEPT !.unnoticed = DOMAIN term] ELSE want
    <3>1. CASE tty.mode # "ex"
      BY <2>1, <3>1 DEF Step, KeptInv
    <3>2. CASE tty.mode = "ex"
      <4>1. want'.unnoticed = Settings /\ DOMAIN want' = DOMAIN want
        BY <2>1, <3>2 DEF KeptInv, SettingsInv
      <4>2. \A z : Agree(z, tty', want') /\ Seen(z, tty', want')
        BY <4>1 DEF Agree, Seen, Settings
      <4> QED
        BY <4>1, <4>2 DEF KeptInv
    <3> QED
      BY <3>1, <3>2
  <2>2. CASE UNCHANGED <<term, tty>> /\ Quiet /\ (Step(from, "next") \/ Step(from, Returns))
    BY <2>2, MoveKept DEF Step, Quiet, Marking, Returns
  <2> QED
    BY <1>11, <2>1, <2>2 DEF KeyFrom
<1>13. CASE Interrupted
  <2>1. CASE /\ UNCHANGED <<term, tty>> /\ Quiet
             /\ Step("reading", "again") \/ Step("reading", "reading") \/ Step("reading", Returns)
    BY <2>1, MoveKept DEF Step, Quiet, Marking, Returns
  <2> QED
    BY <1>11, <1>13, <2>1 DEF Interrupted
<1>14. CASE FinishCooks
  <2>1. CASE GoesCooked(tty)
    <3>1. tty' = [tty EXCEPT !.mode = "ex"] /\ term' = tty.ex
      BY <1>14, <2>1 DEF FinishCooks
    <3>2. GoodTty(tty') /\ tty'.mode = "ex" /\ tty'.ex = tty.ex /\ tty'.perm = tty.perm
      BY <1>0, <3>1, ModeGood
    <3> QED
      BY <1>14, <2>1, <3>1, <3>2, CookKept DEF FinishCooks, Step, GoesCooked
  <2>2. CASE ~GoesCooked(tty)
    BY <1>14, <2>2, MoveKept DEF FinishCooks, Step, Marking
  <2> QED
    BY <2>1, <2>2
<1>15. CASE GetsBegins \/ read_prepare \/ Again \/ FinishClears
  BY <1>15, MoveKept
     DEF GetsBegins, read_prepare, Again, FinishClears, Step, Quiet, Marking
<1>16. CASE UNCHANGED vars
  BY <1>16, MoveKept DEF vars
<1> QED
  BY <1>1, <1>2, <1>3, <1>4, <1>5, <1>6, <1>7, <1>8, <1>9, <1>10, <1>12, <1>13, <1>14, <1>15, <1>16
     DEF Next

\* Whatever the user and the program set, and whenever signals come meanwhile, the cooked
\* terminal has what was last asked for, but for what tty_rawmode does not notice.
THEOREM SettingsCorrect == Spec => []UserSettingsKept
<1>1. Init => SettingsInv /\ KeptInv
  BY InitGood, InitKept
<1>2. SettingsInv /\ KeptInv /\ [Next]_vars => SettingsInv' /\ KeptInv'
  BY NextGood, NextKept
<1>3. KeptInv => UserSettingsKept
  BY DEF KeptInv, UserSettingsKept, Agree
<1> QED
  BY <1>1, <1>2, <1>3, PTL DEF Spec



-----------------------------------------------------------------------------
(* Numbers and sequences                                                   *)

\* A set of numbers has a least one.
LEMMA LeastNumber ==
  ASSUME NEW T \in SUBSET Nat, T # {}
  PROVE  \E x \in T : \A y \in T : x <= y
<1> DEFINE R == OpToRel(<, Nat)
<1>1. IsWellFoundedOn(R, Nat)
  BY NatLessThanWellFounded
<1>2. \A x, y \in Nat : y < x => <<y, x>> \in R
  BY DEF OpToRel
<1> HIDE DEF R
<1>3. PICK x \in T : \A y \in T : ~ (<<y, x>> \in R)
  BY <1>1, WFMin
<1>4. x \in Nat
  OBVIOUS
<1>5. ASSUME NEW y \in T PROVE x <= y
  <2>1. y \in Nat
    OBVIOUS
  <2>2. ~ (y < x)
    BY <1>2, <1>3, <1>4, <2>1, Zenon
  <2> QED
    BY <1>4, <2>1, <2>2, SMT
<1> QED
  BY <1>5

\* Induction up to a number, over the set of the numbers that have a property.
LEMMA Induction ==
  ASSUME NEW n \in Nat, NEW S, 0 \in S,
         \A i \in 1..n : i - 1 \in S => i \in S
  PROVE  \A i \in 0..n : i \in S
<1> DEFINE T == (0..n) \ S
<1>1. SUFFICES ASSUME T # {} PROVE FALSE
  OBVIOUS
<1>2. T \in SUBSET Nat
  OBVIOUS
<1> HIDE DEF T
<1>3. PICK x \in T : \A y \in T : x <= y
  BY <1>1, <1>2, LeastNumber
<1> USE DEF T
<1>4. x \in 1..n
  BY <1>3
<1>5. x - 1 \in 0..n /\ ~ (x <= x - 1)
  BY <1>4
<1>6. x - 1 \notin T
  BY <1>3, <1>5
<1> QED
  BY <1>3, <1>4, <1>5, <1>6

\* And a bounded one a greatest.
LEMMA GreatestNumber ==
  ASSUME NEW n \in Nat, NEW T \in SUBSET (0..n), T # {}
  PROVE  \E x \in T : \A y \in T : y <= x
<1> DEFINE D == {n - y : y \in T}
<1>1. D \in SUBSET Nat /\ D # {}
  <2>1. ASSUME NEW y \in T PROVE n - y \in Nat
    OBVIOUS
  <2>2. D \in SUBSET Nat
    BY <2>1
  <2>3. PICK y : y \in T
    OBVIOUS
  <2>4. n - y \in D
    BY <2>3
  <2> QED
    BY <2>2, <2>4
<1>2. \A y \in T : n - y \in D
  OBVIOUS
<1>3. \A d \in D : \E y \in T : d = n - y
  OBVIOUS
<1> HIDE DEF D
<1>4. PICK d \in D : \A e \in D : d <= e
  BY <1>1, LeastNumber
<1>5. PICK x \in T : d = n - x
  BY <1>3
<1>6. ASSUME NEW y \in T PROVE y <= x
  <2>1. n - x <= n - y
    BY <1>2, <1>4, <1>5
  <2> QED
    BY <2>1
<1> QED
  BY <1>6

\* There is a function that begins with b and goes on by h.
Recursive(T, n, b, h) ==
  \E f \in [0..n -> T] : f[0] = b /\ \A i \in 1..n : f[i] = h[i][f[i - 1]]

\* From any base and any step.
LEMMA Recursion ==
  ASSUME NEW T, NEW n \in Nat, NEW b \in T, NEW h \in [1..n -> [T -> T]]
  PROVE  Recursive(T, n, b, h)
<1> DEFINE Up(f, k) == \A i \in 0..k : f[i] = IF i = 0 THEN b ELSE h[i][f[i - 1]]
           S == {k \in 0..n : \E f \in [0..k -> T] : Up(f, k)}
<1>1. 0 \in S
  <2> DEFINE f == [i \in 0..0 |-> b]
  <2>1. f \in [0..0 -> T] /\ Up(f, 0)
    OBVIOUS
  <2> HIDE DEF f
  <2>2. \E e \in [0..0 -> T] : Up(e, 0)
    BY <2>1, Zenon
  <2> QED
    BY <2>2
<1>2. ASSUME NEW k \in 1..n, k - 1 \in S PROVE k \in S
  <2>1. PICK f \in [0..k - 1 -> T] : Up(f, k - 1)
    BY <1>2
  <2> DEFINE g == [i \in 0..k |-> IF i = k THEN h[k][f[k - 1]] ELSE f[i]]
  <2>2. f[k - 1] \in T /\ h[k][f[k - 1]] \in T
    OBVIOUS
  <2>3. g \in [0..k -> T]
    BY <2>2
  <2>4. ASSUME NEW i \in 0..k PROVE g[i] = IF i = 0 THEN b ELSE h[i][g[i - 1]]
    <3>1. CASE i = k
      <4>1. g[i] = h[k][f[k - 1]] /\ g[i - 1] = f[k - 1]
        BY <3>1
      <4>2. i # 0
        BY <3>1
      <4> HIDE DEF g
      <4>3. g[i] = h[i][g[i - 1]]
        BY <3>1, <4>1, Zenon
      <4> QED
        BY <4>2, <4>3, Zenon
    <3>2. CASE i # k
      <4>1. i \in 0..k - 1 /\ g[i] = f[i]
        BY <3>2
      <4>2. f[i] = IF i = 0 THEN b ELSE h[i][f[i - 1]]
        BY <2>1, <4>1
      <4>3. i # 0 => g[i - 1] = f[i - 1]
        BY <3>2
      <4> QED
        BY <4>1, <4>2, <4>3
    <3> QED
      BY <3>1, <3>2
  <2>5. k \in 0..n
    OBVIOUS
  <2> HIDE DEF g
  <2>6. Up(g, k)
    BY <2>4, Zenon
  <2>7. \E e \in [0..k -> T] : Up(e, k)
    BY <2>3, <2>6, Zenon
  <2> QED
    BY <2>5, <2>7
<1> HIDE DEF S
<1>3. n \in S
  <2>1. \A i \in 0..n : i \in S
    BY <1>1, <1>2, Induction
  <2> QED
    BY <2>1
<1>4. PICK f \in [0..n -> T] : Up(f, n)
  BY <1>3 DEF S
<1>5. f[0] = b /\ \A i \in 1..n : f[i] = h[i][f[i - 1]]
  <2>1. f[0] = b
    BY <1>4
  <2>2. ASSUME NEW i \in 1..n PROVE f[i] = h[i][f[i - 1]]
    <3>1. i \in 0..n /\ i # 0
      OBVIOUS
    <3> QED
      BY <1>4, <3>1, Zenon
  <2> QED
    BY <2>1, <2>2
<1> QED
  BY <1>5 DEF Recursive

-----------------------------------------------------------------------------
(* Going through a sequence, step by step.                                 *)

\* f is where h has come to behind each member of s, and before the first.
Steps(T, h, d, s, f) ==
  /\ f \in [0..Len(s) -> T]
  /\ f[0] = d
  /\ \A i \in 1..Len(s) : f[i] = h[s[i]][f[i - 1]]

\* What a recursive definition says of f.
Recurs(h, d, s, f) == f = [i \in 0..Len(s) |-> IF i = 0 THEN d ELSE h[s[i]][f[i - 1]]]

\* What goes on by h from a base exists, and is what the recursive definition says.
LEMMA StepsRecur ==
  ASSUME NEW T, NEW S, NEW h \in [S -> [T -> T]], NEW d \in T, NEW s \in Seq(S)
  PROVE  \E f : Recurs(h, d, s, f) /\ Steps(T, h, d, s, f)
<1> DEFINE n == Len(s)
           g == [i \in 1..n |-> h[s[i]]]
<1>1. n \in Nat /\ \A i \in 1..n : s[i] \in S
  OBVIOUS
<1>2. \A i \in 1..n, x \in T : h[s[i]][x] \in T
  BY <1>1
<1>3. g \in [1..n -> [T -> T]] /\ \A i \in 1..n, x \in T : g[i][x] = h[s[i]][x]
  BY <1>2
<1> HIDE DEF g
<1>4. PICK f \in [0..n -> T] : f[0] = d /\ \A i \in 1..n : f[i] = g[i][f[i - 1]]
  <2>1. Recursive(T, n, d, g)
    BY <1>1, <1>3, Recursion
  <2> QED
    BY <2>1 DEF Recursive
<1>5. ASSUME NEW i \in 1..n PROVE f[i] = h[s[i]][f[i - 1]]
  <2>1. i - 1 \in 0..n
    BY <1>1
  <2>2. f[i - 1] \in T
    BY <2>1
  <2> QED
    BY <1>3, <1>4, <2>2, Zenon
<1>6. Steps(T, h, d, s, f)
  BY <1>4, <1>5 DEF Steps
<1>7. Recurs(h, d, s, f)
  <2>1. \A k \in 0..n : f[k] = IF k = 0 THEN d ELSE h[s[k]][f[k - 1]]
    BY <1>1, <1>4, <1>5
  <2>2. [k \in 0..n |-> f[k]] = [k \in 0..n |-> IF k = 0 THEN d ELSE h[s[k]][f[k - 1]]]
    BY <2>1, Zenon
  <2>3. f = [k \in 0..n |-> f[k]]
    OBVIOUS
  <2> QED
    BY <2>2, <2>3, Zenon DEF Recurs
<1> QED
  BY <1>6, <1>7, Zenon

\* Any two that go through the same members come to the same.
LEMMA StepsAgree ==
  ASSUME NEW T, NEW S, NEW h \in [S -> [T -> T]], NEW d \in T, NEW s \in Seq(S),
         NEW f, Recurs(h, d, s, f)
  PROVE  Steps(T, h, d, s, f)
<1> DEFINE n == Len(s)
<1>1. PICK e : Steps(T, h, d, s, e)
  BY StepsRecur, Zenon
<1>2. e \in [0..n -> T] /\ e[0] = d /\ \A i \in 1..n : e[i] = h[s[i]][e[i - 1]]
  BY <1>1 DEF Steps
<1>3. f = [i \in 0..n |-> IF i = 0 THEN d ELSE h[s[i]][f[i - 1]]]
  BY DEF Recurs
<1>4. n \in Nat
  OBVIOUS
<1> HIDE DEF n
<1>5. f[0] = d /\ \A i \in 1..n : f[i] = h[s[i]][f[i - 1]]
  <2>1. \A k \in 0..n : f[k] = IF k = 0 THEN d ELSE h[s[k]][f[k - 1]]
    BY <1>3, Zenon
  <2>2. 0 \in 0..n /\ \A i \in 1..n : i \in 0..n /\ i # 0
    BY <1>4
  <2> QED
    BY <2>1, <2>2, Zenon
<1> DEFINE G == {i \in 0..n : f[i] = e[i]}
<1>6. 0 \in G
  BY <1>2, <1>4, <1>5
<1>7. \A i \in 1..n : i - 1 \in G => i \in G
  BY <1>2, <1>4, <1>5
<1> HIDE DEF G
<1>8. \A i \in 0..n : i \in G
  BY <1>4, <1>6, <1>7, Induction
<1>9. \A i \in 0..n : f[i] = e[i]
  BY <1>8 DEF G
<1>10. f = [i \in 0..n |-> f[i]]
  BY <1>3
<1>11. f \in [0..n -> T]
  BY <1>2, <1>9, <1>10
<1> QED
  BY <1>5, <1>11 DEF Steps, n

\* One sequence behind another.
Behinds(a, b, c) ==
  /\ Len(c) = Len(a) + Len(b)
  /\ \A i \in 1..Len(a) : c[i] = a[i]
  /\ \A i \in 1..Len(b) : c[Len(a) + i] = b[i]

\* A concatenation is the one behind the other.
LEMMA ConcatIs ==
  ASSUME NEW S, NEW a \in Seq(S), NEW b \in Seq(S)
  PROVE  a \o b \in Seq(S) /\ Behinds(a, b, a \o b)
<1> DEFINE c == a \o b
<1>1. c \in Seq(S) /\ Len(c) = Len(a) + Len(b)
  OBVIOUS
<1>2. \A i \in 1..Len(a) : c[i] = a[i]
  OBVIOUS
<1>3. \A i \in 1..Len(b) : c[Len(a) + i] = b[i]
  OBVIOUS
<1> QED
  BY <1>1, <1>2, <1>3 DEF Behinds

\* Through one sequence and then through the other.
Joined(T, S, h, d, s, t, u, f, g, e) ==
  /\ h \in [S -> [T -> T]] /\ d \in T
  /\ s \in Seq(S) /\ t \in Seq(S) /\ Behinds(s, t, u)
  /\ Steps(T, h, d, s, f) /\ Steps(T, h, f[Len(s)], t, g) /\ Steps(T, h, d, u, e)

\* Going through one sequence behind another ends where going through the other ends,
\* from where the first has ended.
LEMMA StepsJoin ==
  ASSUME NEW T, NEW S, NEW h, NEW d, NEW s, NEW t, NEW u, NEW f, NEW g, NEW e,
         Joined(T, S, h, d, s, t, u, f, g, e)
  PROVE  e[Len(u)] = g[Len(t)]
<1> DEFINE n == Len(s)
           m == Len(t)
<1>1. n \in Nat /\ m \in Nat
  BY DEF Joined
<1>2. Len(u) = n + m /\ (\A i \in 1..n : u[i] = s[i]) /\ (\A i \in 1..m : u[n + i] = t[i])
  BY DEF Behinds, Joined
<1>3. f[0] = d /\ \A i \in 1..n : f[i] = h[s[i]][f[i - 1]]
  BY DEF Steps, Joined
<1>4. g[0] = f[n] /\ \A i \in 1..m : g[i] = h[t[i]][g[i - 1]]
  BY DEF Steps, Joined
<1>5. e[0] = d /\ \A i \in 1..n + m : e[i] = h[u[i]][e[i - 1]]
  BY <1>2 DEF Steps, Joined
<1> HIDE DEF n, m
<1> DEFINE G == {i \in 0..n : e[i] = f[i]}
           H == {i \in 0..m : e[n + i] = g[i]}
<1>6. 0 \in G
  BY <1>1, <1>3, <1>5
<1>7. ASSUME NEW i \in 1..n, i - 1 \in G PROVE i \in G
  <2>1. i \in 1..n + m /\ i \in 0..n
    BY <1>1
  <2>2. e[i - 1] = f[i - 1]
    BY <1>7
  <2>3. e[i] = h[u[i]][e[i - 1]] /\ u[i] = s[i] /\ f[i] = h[s[i]][f[i - 1]]
    BY <1>2, <1>3, <1>5, <2>1, Zenon
  <2>4. e[i] = f[i]
    BY <2>2, <2>3, Zenon
  <2> QED
    BY <2>1, <2>4
<1> HIDE DEF G
<1>8. \A i \in 0..n : i \in G
  BY <1>1, <1>6, <1>7, Induction
<1>9. e[n] = f[n]
  BY <1>1, <1>8 DEF G
<1>10. 0 \in H
  BY <1>1, <1>4, <1>9
<1>11. ASSUME NEW i \in 1..m, i - 1 \in H PROVE i \in H
  <2>1. n + i \in 1..n + m /\ i \in 0..m /\ (n + i) - 1 = n + (i - 1)
    BY <1>1
  <2>2. e[n + (i - 1)] = g[i - 1]
    BY <1>11
  <2>3. e[n + i] = h[u[n + i]][e[(n + i) - 1]] /\ u[n + i] = t[i] /\ g[i] = h[t[i]][g[i - 1]]
    BY <1>2, <1>4, <1>5, <2>1, Zenon
  <2>4. e[n + i] = g[i]
    BY <2>1, <2>2, <2>3, Zenon
  <2> QED
    BY <2>1, <2>4
<1> HIDE DEF H
<1>12. \A i \in 0..m : i \in H
  BY <1>1, <1>10, <1>11, Induction
<1>13. e[n + m] = g[m]
  BY <1>1, <1>12 DEF H
<1> QED
  BY <1>2, <1>13 DEF n, m

-----------------------------------------------------------------------------
(* The decoder of unvis, character by character                            *)

Phases == {"ground", "start", "meta", "meta1", "ctrl", "octal2", "octal3", "hex", "hex2"}
Machines == [state : Phases, cp : Int, text : Seq(Int), bad : BOOLEAN]

\* What a step makes of a decoder is a decoder: with a character decoded,
LEMMA DecodesIs ==
  ASSUME NEW d \in Machines, NEW c \in Int PROVE Decodes(d, c) \in Machines
<1>1. Append(d.text, c) \in Seq(Int)
  BY DEF Machines
<1> HIDE DEF Machines
<1> QED
  BY <1>1 DEF Decodes, Machines, Phases

\* with a sequence that goes on,
LEMMA CollectsIs ==
  ASSUME NEW d \in Machines, NEW c \in Int, NEW p \in Phases PROVE Collects(d, p, c) \in Machines
  BY DEF Collects, Machines

\* with one that nothing encodes,
LEMMA BadIs == ASSUME NEW d \in Machines PROVE Bad(d) \in Machines
  BY DEF Bad, Machines, Phases

\* and at rest.
LEMMA GroundIs ==
  ASSUME NEW d \in Machines, NEW c \in Int PROVE Ground(d, c) \in Machines
<1>1. "start" \in Phases
  BY DEF Phases
<1> QED
  BY <1>1, DecodesIs, CollectsIs DEF Ground

\* A character takes a decoder to a decoder.
LEMMA UnvisIs ==
  ASSUME NEW d \in Machines, NEW c \in Int PROVE unvis(d, c) \in Machines
<1>1. d.cp \in Int /\ d.state \in Phases
  BY DEF Machines
<1>2. /\ "ground" \in Phases /\ "start" \in Phases /\ "meta" \in Phases /\ "meta1" \in Phases
      /\ "ctrl" \in Phases /\ "octal2" \in Phases /\ "octal3" \in Phases /\ "hex" \in Phases
      /\ "hex2" \in Phases
  BY DEF Phases
<1>3. Start(d, c) \in Machines
  <2>1. c - Digit(0) \in Int
    BY DEF Digit
  <2>2. ASSUME isletter(c) PROVE Letter(c) \in Int
    <3>1. (CHOOSE l \in Letters : l[1] = c) \in Letters
      BY <2>2 DEF isletter
    <3>2. \A l \in Letters : l[2] \in Int
      BY DEF Letters
    <3> QED
      BY <3>1, <3>2 DEF Letter
  <2>3. 0 \in Int /\ 128 \in Int
    OBVIOUS
  <2>4. Decodes(d, c) \in Machines /\ Collects(d, "octal2", c - Digit(0)) \in Machines
        /\ Collects(d, "meta", 128) \in Machines /\ Collects(d, "ctrl", d.cp) \in Machines
    BY <1>1, <1>2, <2>1, <2>3, DecodesIs, CollectsIs
  <2>5. Collects(d, "hex", d.cp) \in Machines /\ Collects(d, "ground", d.cp) \in Machines
        /\ Bad(d) \in Machines
    BY <1>1, <1>2, CollectsIs, BadIs
  <2>6. isletter(c) => Decodes(d, Letter(c)) \in Machines
    BY <2>2, DecodesIs
  <2> QED
    BY <2>4, <2>5, <2>6, Zenon DEF Start
<1>4. AfterMeta(d, c) \in Machines
  BY <1>1, <1>2, CollectsIs, BadIs DEF AfterMeta
<1>5. Or(d.cp, c) \in Int /\ Or(d.cp, 127) \in Int /\ Or(d.cp, c % 32) \in Int
  BY <1>1 DEF Or
<1>6. Decodes(d, Or(d.cp, c)) \in Machines
  BY <1>5, DecodesIs
<1>7. Ctrl(d, c) \in Machines
  BY <1>5, DecodesIs DEF Ctrl
<1>8. OctalDigit(d, c) \in Machines
  <2>1. (d.cp * 8 + c - Digit(0)) % 256 \in Int
    BY <1>1 DEF Digit
  <2>2. Ground(Decodes(d, d.cp), c) \in Machines
    BY <1>1, DecodesIs, GroundIs
  <2> QED
    BY <1>2, <2>1, <2>2, DecodesIs, CollectsIs DEF OctalDigit
<1>9. ASSUME d.state \in {"hex", "hex2"} PROVE HexDigit(d, c) \in Machines
  <2>1. Xtod(c) \in Int /\ (Xtod(c) < 0 \/ Xtod(c) >= 0)
    BY DEF Xtod
  <2>2. d.cp * 16 + Xtod(c) \in Int
    BY <1>1, <2>1
  <2>3. Ground(Decodes(d, d.cp), c) \in Machines
    BY <1>1, DecodesIs, GroundIs
  <2>4. /\ Bad(d) \in Machines /\ Collects(d, "hex2", Xtod(c)) \in Machines
        /\ Decodes(d, d.cp * 16 + Xtod(c)) \in Machines
    BY <1>2, <2>1, <2>2, DecodesIs, CollectsIs, BadIs
  <2> QED
    BY <1>9, <2>1, <2>3, <2>4 DEF HexDigit
<1>10. Ground(d, c) \in Machines
  BY GroundIs
<1> HIDE DEF Machines
<1> QED
  BY <1>1, <1>3, <1>4, <1>6, <1>7, <1>8, <1>9, <1>10 DEF unvis, Phases

\* Where a decoder stands behind each character.
Unvis == [c \in Int |-> [d \in Machines |-> unvis(d, c)]]

\* unvis as a function of the character and the decoder.
LEMMA UnvisTyped == Unvis \in [Int -> [Machines -> Machines]]
  BY UnvisIs DEF Unvis

\* Decoders goes through a text step by step.
LEMMA DecodersIs ==
  ASSUME NEW d \in Machines, NEW s \in Seq(Int)
  PROVE  Steps(Machines, Unvis, d, s, Decoders(d, s))
<1> DEFINE n == Len(s)
           Def(f) == f = [i \in 0..n |-> IF i = 0 THEN d ELSE unvis(f[i - 1], s[i])]
           e == CHOOSE f : Def(f)
<1>1. n \in Nat /\ \A i \in 1..n : s[i] \in Int
  OBVIOUS
<1>2. PICK f : Recurs(Unvis, d, s, f) /\ Steps(Machines, Unvis, d, s, f)
  BY UnvisTyped, StepsRecur, Zenon
<1>3. ASSUME NEW g, \A i \in 0..n : i # 0 => g[i - 1] \in Machines
      PROVE  Def(g) <=> Recurs(Unvis, d, s, g)
  <2>1. ASSUME NEW i \in 0..n
        PROVE (IF i = 0 THEN d ELSE unvis(g[i - 1], s[i]))
              = IF i = 0 THEN d ELSE Unvis[s[i]][g[i - 1]]
    BY <1>1, <1>3 DEF Unvis
  <2>2. [i \in 0..n |-> IF i = 0 THEN d ELSE unvis(g[i - 1], s[i])]
        = [i \in 0..n |-> IF i = 0 THEN d ELSE Unvis[s[i]][g[i - 1]]]
    BY <2>1, Zenon
  <2> QED
    BY <2>2, Zenon DEF Recurs
<1>4. Def(f)
  <2>0. f \in [0..n -> Machines]
    BY <1>2 DEF Steps
  <2>1. \A i \in 0..n : i # 0 => f[i - 1] \in Machines
    <3>1. ASSUME NEW i \in 0..n, i # 0 PROVE f[i - 1] \in Machines
      <4>1. i - 1 \in 0..n
        BY <1>1, <3>1
      <4> QED
        BY <2>0, <4>1
    <3> QED
      BY <3>1
  <2> QED
    BY <1>2, <1>3, <2>1
<1>5. Def(e)
  BY <1>4, Zenon
<1>6. Decoders(d, s) = e
  BY DEF Decoders
<1>7. \A i \in 0..n : e[i] = IF i = 0 THEN d ELSE unvis(e[i - 1], s[i])
  BY <1>5, Zenon
<1> HIDE DEF e
<1> DEFINE G == {i \in 0..n : e[i] \in Machines}
<1>8. 0 \in G
  BY <1>1, <1>7
<1>9. ASSUME NEW i \in 1..n, i - 1 \in G PROVE i \in G
  <2>1. i \in 0..n /\ i # 0 /\ s[i] \in Int
    BY <1>1
  <2>2. e[i] = unvis(e[i - 1], s[i])
    BY <1>7, <2>1, Zenon
  <2>3. e[i] \in Machines
    BY <1>9, <2>1, <2>2, UnvisIs
  <2> QED
    BY <2>1, <2>3
<1> HIDE DEF G
<1>10. \A i \in 0..n : i \in G
  BY <1>1, <1>8, <1>9, Induction
<1>11. \A i \in 0..n : i # 0 => e[i - 1] \in Machines
  <2>1. ASSUME NEW i \in 0..n, i # 0 PROVE e[i - 1] \in Machines
    <3>1. i - 1 \in 0..n
      BY <1>1, <2>1
    <3> QED
      BY <1>10, <3>1 DEF G
  <2> QED
    BY <2>1
<1>12. Recurs(Unvis, d, s, e)
  BY <1>3, <1>5, <1>11
<1> QED
  BY <1>6, <1>12, UnvisTyped, StepsAgree

End(d, s) == Decoders(d, s)[Len(s)]

\* Behind a text a decoder is a decoder.
LEMMA EndIs ==
  ASSUME NEW d \in Machines, NEW s \in Seq(Int) PROVE End(d, s) \in Machines
<1>1. Decoders(d, s) \in [0..Len(s) -> Machines]
  BY DecodersIs DEF Steps
<1>2. Len(s) \in 0..Len(s)
  OBVIOUS
<1> QED
  BY <1>1, <1>2 DEF End

Parted(d, s, t, u) ==
  d \in Machines /\ s \in Seq(Int) /\ t \in Seq(Int) /\ u \in Seq(Int) /\ Behinds(s, t, u)

\* A text that is put together is decoded part by part.
LEMMA EndJoin ==
  ASSUME NEW d, NEW s, NEW t, NEW u, Parted(d, s, t, u)
  PROVE  End(d, u) = End(End(d, s), t)
<1> DEFINE f == Decoders(d, s)
           g == Decoders(End(d, s), t)
           e == Decoders(d, u)
<1>1. f[Len(s)] = End(d, s) /\ g[Len(t)] = End(End(d, s), t) /\ e[Len(u)] = End(d, u)
  BY DEF End
<1>2. /\ d \in Machines /\ End(d, s) \in Machines
      /\ s \in Seq(Int) /\ t \in Seq(Int) /\ u \in Seq(Int) /\ Behinds(s, t, u)
  BY EndIs DEF Parted
<1>3. Steps(Machines, Unvis, d, s, f) /\ Steps(Machines, Unvis, d, u, e)
  BY <1>2, DecodersIs
<1>4. Steps(Machines, Unvis, f[Len(s)], t, g)
  BY <1>1, <1>2, DecodersIs
<1> HIDE DEF f, g, e
<1>5. Joined(Machines, Int, Unvis, d, s, t, u, f, g, e)
  BY <1>2, <1>3, <1>4, UnvisTyped DEF Joined
<1>6. e[Len(u)] = g[Len(t)]
  BY <1>5, StepsJoin
<1> QED
  BY <1>1, <1>6

\* An empty text changes nothing.
LEMMA EndNone == ASSUME NEW d \in Machines PROVE End(d, <<>>) = d
<1>1. <<>> \in Seq(Int) /\ Len(<<>>) = 0
  OBVIOUS
<1>2. Decoders(d, <<>>)[0] = d
  BY <1>1, DecodersIs DEF Steps
<1> QED
  BY <1>1, <1>2 DEF End

\* One step, and from each character to the next.
LEMMA EndOne == ASSUME NEW d \in Machines, NEW a \in Int PROVE End(d, <<a>>) = unvis(d, a)
<1>1. <<a>> \in Seq(Int) /\ Len(<<a>>) = 1 /\ <<a>>[1] = a /\ 1 \in 1..1
  OBVIOUS
<1> DEFINE f == Decoders(d, <<a>>)
<1>2. Steps(Machines, Unvis, d, <<a>>, f)
  BY <1>1, DecodersIs
<1> HIDE DEF f
<1>3. f[0] = d /\ f[1] = Unvis[a][f[1 - 1]]
  BY <1>1, <1>2 DEF Steps
<1>4. f[1] = unvis(d, a)
  BY <1>3 DEF Unvis
<1> QED
  BY <1>1, <1>4 DEF End, f

-----------------------------------------------------------------------------
\* A decoder in order, with what it has decoded.
Stands(d, p, n, u) ==
  d \in Machines /\ d.state = p /\ d.cp = n /\ d.text = u /\ d.bad = FALSE

\* What the steps do to a decoder in order.
LEMMA Collected ==
  ASSUME NEW d, NEW p, NEW n, NEW u, Stands(d, p, n, u), NEW q \in Phases, NEW m \in Int
  PROVE  Stands(Collects(d, q, m), q, m, u)
<1>1. Collects(d, q, m) \in Machines
  BY CollectsIs DEF Stands
<1> QED
  BY <1>1 DEF Stands, Collects, Machines

\* A character is decoded.
LEMMA Decoded ==
  ASSUME NEW d, NEW p, NEW n, NEW u, Stands(d, p, n, u), NEW c \in Int
  PROVE  Stands(Decodes(d, c), "ground", c, Append(u, c))
<1>1. Decodes(d, c) \in Machines
  BY DecodesIs DEF Stands
<1> QED
  BY <1>1 DEF Stands, Decodes, Machines

\* A decoder in order goes on by its phase.
LEMMA Unvised ==
  ASSUME NEW d, NEW p, NEW n, NEW u, Stands(d, p, n, u), NEW c \in Int
  PROVE  /\ p = "ground" => unvis(d, c) = Ground(d, c)
         /\ p = "start" => unvis(d, c) = Start(d, c)
         /\ p = "meta" => unvis(d, c) = AfterMeta(d, c)
         /\ p = "meta1" => unvis(d, c) = Decodes(d, Or(n, c))
         /\ p = "ctrl" => unvis(d, c) = Decodes(d, Or(n, IF c = Question THEN 127 ELSE c % 32))
         /\ p \in {"octal2", "octal3"} => unvis(d, c) = OctalDigit(d, c)
  BY DEF Stands, unvis, Ctrl

\* At rest: a character that stands for itself,
LEMMA PlainDecoded ==
  ASSUME NEW d, NEW n, NEW u, Stands(d, "ground", n, u), NEW c \in Int, c # Backslash
  PROVE  Stands(unvis(d, c), "ground", c, Append(u, c))
<1>1. unvis(d, c) = Decodes(d, c)
  BY Unvised DEF Ground
<1> QED
  BY <1>1, Decoded

\* and the backslash.
LEMMA StartsSequence ==
  ASSUME NEW d, NEW n, NEW u, Stands(d, "ground", n, u)
  PROVE  Stands(unvis(d, Backslash), "start", 0, u)
<1>1. "start" \in Phases /\ Backslash \in Int /\ 0 \in Int
  BY DEF Phases, Backslash
<1>2. unvis(d, Backslash) = Collects(d, "start", 0)
  BY <1>1, Unvised DEF Ground
<1> QED
  BY <1>1, <1>2, Collected

\* A number of three octal digits.
LEMMA OctalDecoded ==
  ASSUME NEW d, NEW u, Stands(d, "start", 0, u), NEW c \in 1..255
  PROVE  Stands(unvis(unvis(unvis(d, Digit(c \div 64)), Digit((c \div 8) % 8)), Digit(c % 8)),
                "ground", c, Append(u, c))
<1> DEFINE a == c \div 64
           b == (c \div 8) % 8
           e == c % 8
           d1 == unvis(d, Digit(a))
           d2 == unvis(d1, Digit(b))
           d3 == unvis(d2, Digit(e))
<1>1. a \in 0..3 /\ b \in 0..7 /\ e \in 0..7
  OBVIOUS
<1>2. ((a * 8 + b) % 256) * 8 + e = c
  OBVIOUS
<1>3. "octal2" \in Phases /\ "octal3" \in Phases
  BY DEF Phases
<1> HIDE DEF a, b, e
<1>4. \A x \in 0..7 : /\ Digit(x) \in Int /\ isoctal(Digit(x)) /\ Digit(x) - Digit(0) = x
                      /\ Digit(x) # Backslash
  BY DEF Digit, isoctal, Backslash
<1>5. Stands(d1, "octal2", a, u)
  <2>1. d1 = Collects(d, "octal2", Digit(a) - Digit(0))
    <3>1. Digit(a) \in Int /\ isoctal(Digit(a)) /\ Digit(a) # Backslash
      BY <1>1, <1>4
    <3>2. d1 = Start(d, Digit(a))
      BY <3>1, Unvised
    <3> HIDE DEF d1
    <3> DEFINE x == Digit(a)
    <3>3. x # Backslash /\ isoctal(x) /\ d1 = Start(d, x)
      BY <3>1, <3>2
    <3> HIDE DEF x
    <3>4. x \in 48..55
      BY <3>3 DEF isoctal, Digit
    <3>5. /\ ~ isletter(x) /\ x # Meta /\ x # Caret /\ x # HexMark /\ x \notin Hidden
      BY <3>4 DEF isletter, Letters, Meta, Caret, HexMark, Hidden, Newline
    <3>6. d1 = Collects(d, "octal2", x - Digit(0))
      BY <3>3, <3>5 DEF Start
    <3> QED
      BY <3>6 DEF x
  <2>2. Digit(a) - Digit(0) = a /\ a \in Int
    BY <1>1, <1>4
  <2> QED
    BY <1>3, <2>1, <2>2, Collected
<1> HIDE DEF d1
<1>6. Stands(d2, "octal3", (a * 8 + b) % 256, u)
  <2>1. Digit(b) \in Int /\ isoctal(Digit(b)) /\ d1.cp = a /\ d1.state = "octal2"
    BY <1>1, <1>4, <1>5 DEF Stands
  <2>2. d2 = OctalDigit(d1, Digit(b))
    BY <1>5, <2>1, Unvised
  <2>3. (a * 8 + Digit(b) - Digit(0)) % 256 = (a * 8 + b) % 256
    BY <1>1 DEF Digit
  <2>4. d2 = Collects(d1, "octal3", (a * 8 + b) % 256)
    BY <2>1, <2>2, <2>3 DEF OctalDigit
  <2>5. (a * 8 + b) % 256 \in Int
    BY <1>1
  <2> QED
    BY <1>3, <1>5, <2>4, <2>5, Collected
<1> HIDE DEF d2
<1>7. d3 = Decodes(d2, c)
  <2>1. Digit(e) \in Int /\ isoctal(Digit(e)) /\ d2.cp = (a * 8 + b) % 256 /\ d2.state = "octal3"
    BY <1>1, <1>4, <1>6 DEF Stands
  <2>2. d3 = OctalDigit(d2, Digit(e))
    BY <1>6, <2>1, Unvised
  <2>3. (((a * 8 + b) % 256) * 8 + Digit(e) - Digit(0)) % 256 = c
    BY <1>1, <1>2 DEF Digit
  <2> QED
    BY <2>1, <2>2, <2>3 DEF OctalDigit
<1> QED
  BY <1>6, <1>7, Decoded DEF d2, d1, a, b, e

\* Texts of two, three and four characters.
LEMMA EndTwo ==
  ASSUME NEW d \in Machines, NEW a \in Int, NEW b \in Int
  PROVE  End(d, <<a, b>>) = unvis(unvis(d, a), b)
<1>1. Parted(d, <<a>>, <<b>>, <<a, b>>)
  <2>1. <<a>> \in Seq(Int) /\ <<b>> \in Seq(Int) /\ <<a, b>> \in Seq(Int)
    OBVIOUS
  <2>2. Behinds(<<a>>, <<b>>, <<a, b>>)
    <3>1. Len(<<a, b>>) = Len(<<a>>) + Len(<<b>>)
      OBVIOUS
    <3>2. \A i \in 1..Len(<<a>>) : <<a, b>>[i] = <<a>>[i]
      OBVIOUS
    <3>3. \A i \in 1..Len(<<b>>) : <<a, b>>[Len(<<a>>) + i] = <<b>>[i]
      OBVIOUS
    <3> QED
      BY <3>1, <3>2, <3>3, Zenon DEF Behinds
  <2> QED
    BY <2>1, <2>2 DEF Parted
<1>2. unvis(d, a) \in Machines
  BY UnvisIs
<1> QED
  BY <1>1, <1>2, EndJoin, EndOne

\* Three characters.
LEMMA EndThree ==
  ASSUME NEW d \in Machines, NEW a \in Int, NEW b \in Int, NEW c \in Int
  PROVE  End(d, <<a, b, c>>) = unvis(unvis(unvis(d, a), b), c)
<1>1. Parted(d, <<a>>, <<b, c>>, <<a, b, c>>)
  BY DEF Parted, Behinds
<1>2. unvis(d, a) \in Machines
  BY UnvisIs
<1> QED
  BY <1>1, <1>2, EndJoin, EndOne, EndTwo

\* Four characters.
LEMMA EndFour ==
  ASSUME NEW d \in Machines, NEW a \in Int, NEW b \in Int, NEW c \in Int, NEW e \in Int
  PROVE  End(d, <<a, b, c, e>>) = unvis(unvis(unvis(unvis(d, a), b), c), e)
<1>1. Parted(d, <<a>>, <<b, c, e>>, <<a, b, c, e>>)
  BY DEF Parted, Behinds
<1>2. unvis(d, a) \in Machines
  BY UnvisIs
<1> QED
  BY <1>1, <1>2, EndJoin, EndOne, EndThree

\* Behind a backslash: the mark of the eighth bit, and that of a control character.
LEMMA MarksDecoded ==
  ASSUME NEW d, NEW u, Stands(d, "start", 0, u)
  PROVE  /\ Stands(unvis(d, Meta), "meta", 128, u)
         /\ Stands(unvis(d, Caret), "ctrl", 0, u)
<1>1. "meta" \in Phases /\ "ctrl" \in Phases /\ 128 \in Int /\ 0 \in Int
  BY DEF Phases
<1>2. /\ Meta \in Int /\ Meta # Backslash /\ ~ isoctal(Meta) /\ Meta # Caret /\ ~ isletter(Meta)
      /\ Meta # HexMark /\ Meta \notin Hidden
  BY DEF Meta, Backslash, isoctal, Digit, Caret, isletter, Letters, HexMark, Hidden, Newline
<1>3. /\ Caret \in Int /\ Caret # Backslash /\ ~ isoctal(Caret) /\ Caret # Meta /\ ~ isletter(Caret)
      /\ Caret # HexMark /\ Caret \notin Hidden
  BY DEF Meta, Backslash, isoctal, Digit, Caret, isletter, Letters, HexMark, Hidden, Newline
<1>4. unvis(d, Meta) = Start(d, Meta) /\ unvis(d, Caret) = Start(d, Caret)
  BY <1>2, <1>3, Unvised
<1>5. Start(d, Meta) = Collects(d, "meta", 128)
  BY <1>2 DEF Start
<1>6. d.cp = 0
  BY DEF Stands
<1>7. Start(d, Caret) = Collects(d, "ctrl", 0)
  BY <1>3, <1>6 DEF Start
<1>8. Stands(Collects(d, "meta", 128), "meta", 128, u)
  BY <1>1, Collected
<1>9. Stands(Collects(d, "ctrl", 0), "ctrl", 0, u)
  BY <1>1, Collected
<1> QED
  BY <1>4, <1>5, <1>7, <1>8, <1>9

\* And behind the mark of the eighth bit.
LEMMA MetaDecoded ==
  ASSUME NEW d, NEW u, Stands(d, "meta", 128, u)
  PROVE  /\ Stands(unvis(d, Minus), "meta1", 128, u)
         /\ Stands(unvis(d, Caret), "ctrl", 128, u)
<1>1. "meta1" \in Phases /\ "ctrl" \in Phases /\ 128 \in Int
  BY DEF Phases
<1>2. Minus \in Int /\ Caret \in Int /\ Minus # Caret
  BY DEF Minus, Caret
<1>3. unvis(d, Minus) = AfterMeta(d, Minus) /\ unvis(d, Caret) = AfterMeta(d, Caret)
  BY <1>2, Unvised
<1>4. d.cp = 128
  BY DEF Stands
<1>5. AfterMeta(d, Minus) = Collects(d, "meta1", 128) /\ AfterMeta(d, Caret) = Collects(d, "ctrl", 128)
  BY <1>2, <1>4 DEF AfterMeta
<1>6. Stands(Collects(d, "meta1", 128), "meta1", 128, u)
  BY <1>1, Collected
<1>7. Stands(Collects(d, "ctrl", 128), "ctrl", 128, u)
  BY <1>1, Collected
<1> QED
  BY <1>3, <1>5, <1>6, <1>7

\* A character that is written by its seven lower bits has its eighth put back.
LEMMA LowDecoded ==
  ASSUME NEW d, NEW u, NEW low \in 0..127, Stands(d, "meta1", 128, u)
  PROVE  Stands(unvis(d, low), "ground", 128 + low, Append(u, 128 + low))
<1>1. unvis(d, low) = Decodes(d, 128 + low)
  BY Unvised DEF Or
<1> QED
  BY <1>1, Decoded

\* base is the eighth bit, or nothing.
LEMMA CtrlDecoded ==
  ASSUME NEW d, NEW u, NEW base \in {0, 128}, NEW low \in (0..31) \cup {127},
         Stands(d, "ctrl", base, u)
  PROVE  LET c == IF low = 127 THEN Question ELSE low + 64
         IN  c \in Int /\ Stands(unvis(d, c), "ground", base + low, Append(u, base + low))
<1> DEFINE c == IF low = 127 THEN Question ELSE low + 64
<1>1. c \in Int /\ (IF c = Question THEN 127 ELSE c % 32) = low
  BY DEF Question
<1>2. Or(base, low) = base + low /\ base + low \in Int
  BY DEF Or
<1> HIDE DEF c
<1>3. unvis(d, c) = Decodes(d, base + low)
  BY <1>1, <1>2, Unvised
<1>4. Stands(unvis(d, c), "ground", base + low, Append(u, base + low))
  BY <1>2, <1>3, Decoded
<1> QED
  BY <1>1, <1>4 DEF c

-----------------------------------------------------------------------------
(* strvis, and what strunvis makes of it                                   *)

Text == Seq(1..255)

\* What can be written in a line of the file.
Visibles == (1..127) \ {Newline}

\* The characters of a text are numbers.
LEMMA TextIsInts == ASSUME NEW t \in Text PROVE t \in Seq(Int)
<1>1. (1..255) \subseteq Int
  OBVIOUS
<1> QED
  BY <1>1, SeqMonotonic DEF Text

\* Pairs and triples put together.
LEMMA FourOf ==
  ASSUME NEW a \in Int, NEW b \in Int, NEW c \in Int, NEW e \in Int
  PROVE <<a, b>> \o <<c, e>> = <<a, b, c, e>>
<1> DEFINE s == <<a, b>> \o <<c, e>>
<1>1. <<a, b>> \in Seq(Int) /\ <<c, e>> \in Seq(Int) /\ <<a, b, c, e>> \in Seq(Int)
  OBVIOUS
<1>2. s \in Seq(Int) /\ Behinds(<<a, b>>, <<c, e>>, s)
  BY <1>1, ConcatIs
<1> HIDE DEF s
<1>3. Len(s) = 4 /\ s[1] = a /\ s[2] = b
  BY <1>2 DEF Behinds
<1>4. s[3] = c /\ s[4] = e
  <2>1. /\ Len(<<a, b>>) = 2 /\ Len(<<c, e>>) = 2 /\ <<c, e>>[1] = c /\ <<c, e>>[2] = e
        /\ 1 \in 1..2 /\ 2 \in 1..2 /\ 2 + 1 = 3 /\ 2 + 2 = 4
    OBVIOUS
  <2> QED
    BY <1>2, <2>1 DEF Behinds
<1>5. s = <<a, b, c, e>>
  BY <1>1, <1>2, <1>3, <1>4
<1> QED
  BY <1>5 DEF s

\* One before two.
LEMMA ThreeOf ==
  ASSUME NEW a \in Int, NEW b \in Int, NEW c \in Int PROVE <<a>> \o <<b, c>> = <<a, b, c>>
<1> DEFINE s == <<a>> \o <<b, c>>
<1>1. <<a>> \in Seq(Int) /\ <<b, c>> \in Seq(Int) /\ <<a, b, c>> \in Seq(Int)
  OBVIOUS
<1>2. s \in Seq(Int) /\ Behinds(<<a>>, <<b, c>>, s)
  BY <1>1, ConcatIs
<1> HIDE DEF s
<1>3. Len(s) = 3 /\ s[1] = a
  BY <1>2 DEF Behinds
<1>4. s[2] = b /\ s[3] = c
  <2>1. /\ Len(<<a>>) = 1 /\ Len(<<b, c>>) = 2 /\ <<b, c>>[1] = b /\ <<b, c>>[2] = c
        /\ 1 \in 1..2 /\ 2 \in 1..2 /\ 1 + 1 = 2 /\ 1 + 2 = 3
    OBVIOUS
  <2> QED
    BY <1>2, <2>1 DEF Behinds
<1>5. s = <<a, b, c>>
  BY <1>1, <1>2, <1>3, <1>4
<1> QED
  BY <1>5 DEF s

\* The five forms of an encoded character.
Encoded(c, s) ==
  \/ c < 128 /\ c # Backslash /\ c # Newline /\ s = <<c>>
  \/ s = Octal(c)
  \/ c >= 128 /\ s = <<Backslash, Meta, Minus, c % 128>> /\ c % 128 # 0 /\ c % 128 # Newline
  \/ c >= 128 /\ c % 128 \in (0..31) \cup {127}
     /\ s = <<Backslash, Meta, Caret, IF c % 128 = 127 THEN Question ELSE (c % 128) + 64>>
  \/ c < 128 /\ c \in (0..31) \cup {127}
     /\ s = <<Backslash, Caret, IF c = 127 THEN Question ELSE c + 64>>

\* A character is written in one of the five forms.
LEMMA EncodedIs == ASSUME NEW c \in 1..255 PROVE Encoded(c, do_svis(c))
<1> DEFINE low == c % 128
<1>1. low \in 0..127 /\ (c < 128 => low = c)
  OBVIOUS
<1>0. /\ Backslash \in Int /\ Meta \in Int /\ Minus \in Int /\ Caret \in Int
      /\ low \in Int /\ (IF low = 127 THEN Question ELSE low + 64) \in Int
  BY <1>1 DEF Backslash, Meta, Minus, Caret, Question
<1>2. CASE isgraph(c) /\ c # Backslash
  <2>1. do_svis(c) = <<c>>
    BY <1>2 DEF do_svis
  <2>2. c < 128 /\ c # Newline
    BY <1>2 DEF isgraph, Newline
  <2> QED
    BY <1>2, <2>1, <2>2 DEF Encoded
<1>3. CASE ~ (isgraph(c) /\ c # Backslash) /\ (c \in Extra \/ low = Space)
  <2>1. do_svis(c) = Octal(c)
    BY <1>3 DEF do_svis
  <2> QED
    BY <2>1 DEF Encoded
<1>4. CASE ~ (isgraph(c) /\ c # Backslash) /\ ~ (c \in Extra \/ low = Space)
  <2>1. do_svis(c) = (IF c >= 128 THEN <<Backslash, Meta>> ELSE <<Backslash>>) \o
                     (IF ~iscntrl(low) THEN <<Minus, low>>
                      ELSE IF low = Rubout THEN <<Caret, Question>>
                      ELSE <<Caret, low + 64>>)
    BY <1>4 DEF do_svis
  <2>2. iscntrl(low) <=> low \in (0..31) \cup {127}
    BY DEF iscntrl, Rubout
  <2>3. c < 128 => iscntrl(low)
    BY <1>1, <1>4, <2>2 DEF isgraph, Extra, Space, Backslash, Tab, Newline
  <2>4. ~ iscntrl(low) => low # 0 /\ low # Newline
    BY <1>1, <2>2 DEF Newline
  <2> HIDE DEF low
  <2>5. CASE c >= 128 /\ ~ iscntrl(low)
    <3>1. do_svis(c) = <<Backslash, Meta>> \o <<Minus, low>>
      BY <2>1, <2>5
    <3>2. do_svis(c) = <<Backslash, Meta, Minus, low>>
      BY <1>0, <3>1, FourOf
    <3> QED
      BY <2>4, <2>5, <3>2 DEF Encoded, low
  <2>6. CASE c >= 128 /\ iscntrl(low)
    <3>1. do_svis(c) = <<Backslash, Meta>> \o <<Caret, IF low = 127 THEN Question ELSE low + 64>>
      BY <2>1, <2>6 DEF Rubout
    <3>2. do_svis(c) = <<Backslash, Meta, Caret, IF low = 127 THEN Question ELSE low + 64>>
      BY <1>0, <3>1, FourOf
    <3> QED
      BY <2>2, <2>6, <3>2 DEF Encoded, low
  <2>7. CASE c < 128
    <3>1. do_svis(c) = <<Backslash>> \o <<Caret, IF low = 127 THEN Question ELSE low + 64>>
      BY <2>1, <2>3, <2>7 DEF Rubout
    <3>2. do_svis(c) = <<Backslash, Caret, IF low = 127 THEN Question ELSE low + 64>>
      BY <1>0, <3>1, ThreeOf
    <3>3. low = c /\ low \in (0..31) \cup {127}
      BY <1>1, <2>2, <2>3, <2>7
    <3> QED
      BY <2>7, <3>2, <3>3 DEF Encoded
  <2> QED
    BY <2>5, <2>6, <2>7
<1> QED
  BY <1>2, <1>3, <1>4

\* No newline is written for a character.
LEMMA EncodedVisible ==
  ASSUME NEW c \in 1..255 PROVE do_svis(c) \in Seq(Visibles)
<1> DEFINE s == do_svis(c)
<1>1. /\ \A x \in 0..7 : Digit(x) \in Visibles
      /\ Backslash \in Visibles /\ Meta \in Visibles /\ Minus \in Visibles /\ Caret \in Visibles
      /\ Question \in Visibles
  BY DEF Digit, Visibles, Newline, Backslash, Meta, Minus, Caret, Question
<1>2. CASE c < 128 /\ c # Newline /\ s = <<c>>
  BY <1>2 DEF Visibles
<1>3. CASE s = Octal(c)
  <2>1. c \div 64 \in 0..7 /\ (c \div 8) % 8 \in 0..7 /\ c % 8 \in 0..7
    OBVIOUS
  <2>2. Digit(c \div 64) \in Visibles /\ Digit((c \div 8) % 8) \in Visibles /\ Digit(c % 8) \in Visibles
    BY <1>1, <2>1
  <2> QED
    BY <1>1, <1>3, <2>2 DEF Octal
<1>4. ASSUME c % 128 # 0, c % 128 # Newline PROVE c % 128 \in Visibles
  BY <1>4 DEF Visibles
<1>5. ASSUME NEW low \in (0..31) \cup {127}
      PROVE (IF low = 127 THEN Question ELSE low + 64) \in Visibles
  BY DEF Visibles, Newline, Question
<1>6. CASE s = <<Backslash, Meta, Minus, c % 128>> /\ c % 128 # 0 /\ c % 128 # Newline
  BY <1>1, <1>4, <1>6
<1>7. CASE c % 128 \in (0..31) \cup {127}
           /\ s = <<Backslash, Meta, Caret, IF c % 128 = 127 THEN Question ELSE (c % 128) + 64>>
  <2>1. (IF c % 128 = 127 THEN Question ELSE (c % 128) + 64) \in Visibles
    BY <1>5, <1>7
  <2> QED
    BY <1>1, <1>7, <2>1
<1>8. CASE c \in (0..31) \cup {127}
           /\ s = <<Backslash, Caret, IF c = 127 THEN Question ELSE c + 64>>
  <2>1. (IF c = 127 THEN Question ELSE c + 64) \in Visibles
    BY <1>5, <1>8
  <2> QED
    BY <1>1, <1>8, <2>1
<1>9. Encoded(c, s)
  BY EncodedIs
<1> QED
  BY <1>2, <1>3, <1>6, <1>7, <1>8, <1>9 DEF Encoded

\* A decoder at rest that has decoded u; what it was collecting does not matter.
Rests(d, u) == \E n : Stands(d, "ground", n, u)

\* What is written for a character is read as that character.
LEMMA CharacterRestored ==
  ASSUME NEW d, NEW u, Rests(d, u), NEW c \in 1..255
  PROVE  Rests(End(d, do_svis(c)), Append(u, c))
<1> DEFINE s == do_svis(c)
           low == c % 128
           e == End(d, s)
<1>1. PICK n : Stands(d, "ground", n, u)
  BY DEF Rests
<1>2. d \in Machines
  BY <1>1 DEF Stands
<1>3. low \in 0..127 /\ (c >= 128 => 128 + low = c)
  OBVIOUS
<1>4. Stands(unvis(d, Backslash), "start", 0, u)
  BY <1>1, StartsSequence
<1>5. /\ Backslash \in Int /\ Meta \in Int /\ Minus \in Int /\ Caret \in Int
      /\ \A x \in Int : Digit(x) \in Int
  BY DEF Backslash, Meta, Minus, Caret, Digit
<1>6. CASE c # Backslash /\ s = <<c>>
  <2>1. e = unvis(d, c)
    BY <1>2, <1>6, EndOne
  <2> QED
    BY <1>1, <1>6, <2>1, PlainDecoded DEF Rests
<1>7. CASE s = Octal(c)
  <2>1. c \div 64 \in Int /\ (c \div 8) % 8 \in Int /\ c % 8 \in Int
    OBVIOUS
  <2>2. Digit(c \div 64) \in Int /\ Digit((c \div 8) % 8) \in Int /\ Digit(c % 8) \in Int
    BY <1>5, <2>1
  <2>3. e = unvis(unvis(unvis(unvis(d, Backslash), Digit(c \div 64)), Digit((c \div 8) % 8)),
                  Digit(c % 8))
    BY <1>2, <1>5, <1>7, <2>2, EndFour DEF Octal
  <2>4. Stands(e, "ground", c, Append(u, c))
    BY <1>4, <2>3, OctalDecoded
  <2> QED
    BY <2>4 DEF Rests
<1>8. CASE c >= 128 /\ s = <<Backslash, Meta, Minus, low>>
  <2>1. e = unvis(unvis(unvis(unvis(d, Backslash), Meta), Minus), low)
    BY <1>2, <1>3, <1>5, <1>8, EndFour
  <2>2. Stands(unvis(unvis(d, Backslash), Meta), "meta", 128, u)
    BY <1>4, MarksDecoded
  <2>3. Stands(unvis(unvis(unvis(d, Backslash), Meta), Minus), "meta1", 128, u)
    BY <2>2, MetaDecoded
  <2>4. Stands(e, "ground", 128 + low, Append(u, 128 + low))
    BY <1>3, <2>1, <2>3, LowDecoded
  <2> QED
    BY <1>3, <1>8, <2>4 DEF Rests
<1>9. CASE c >= 128 /\ low \in (0..31) \cup {127}
           /\ s = <<Backslash, Meta, Caret, IF low = 127 THEN Question ELSE low + 64>>
  <2> DEFINE x == IF low = 127 THEN Question ELSE low + 64
  <2>1. Stands(unvis(unvis(d, Backslash), Meta), "meta", 128, u)
    BY <1>4, MarksDecoded
  <2>2. Stands(unvis(unvis(unvis(d, Backslash), Meta), Caret), "ctrl", 128, u)
    BY <2>1, MetaDecoded
  <2>3. x \in Int /\ Stands(unvis(unvis(unvis(unvis(d, Backslash), Meta), Caret), x), "ground",
                            128 + low, Append(u, 128 + low))
    BY <1>9, <2>2, CtrlDecoded
  <2> HIDE DEF x, low
  <2>4. s = <<Backslash, Meta, Caret, x>>
    BY <1>9 DEF x
  <2>5. e = unvis(unvis(unvis(unvis(d, Backslash), Meta), Caret), x)
    BY <1>2, <1>5, <2>3, <2>4, EndFour
  <2> QED
    BY <1>3, <1>9, <2>3, <2>5 DEF Rests
<1>10. CASE c < 128 /\ c \in (0..31) \cup {127}
            /\ s = <<Backslash, Caret, IF c = 127 THEN Question ELSE c + 64>>
  <2> DEFINE x == IF c = 127 THEN Question ELSE c + 64
  <2>1. Stands(unvis(unvis(d, Backslash), Caret), "ctrl", 0, u)
    BY <1>4, MarksDecoded
  <2>2. x \in Int /\ Stands(unvis(unvis(unvis(d, Backslash), Caret), x), "ground",
                            0 + c, Append(u, 0 + c))
    BY <1>10, <2>1, CtrlDecoded
  <2> HIDE DEF x
  <2>3. s = <<Backslash, Caret, x>>
    BY <1>10 DEF x
  <2>4. e = unvis(unvis(unvis(d, Backslash), Caret), x)
    BY <1>2, <1>5, <2>2, <2>3, EndThree
  <2>5. 0 + c = c
    OBVIOUS
  <2> QED
    BY <2>2, <2>4, <2>5 DEF Rests
<1>11. Encoded(c, s)
  BY EncodedIs
<1> QED
  BY <1>6, <1>7, <1>8, <1>9, <1>10, <1>11 DEF Encoded

\* What a sequence is.
LEMMA MemberOf ==
  ASSUME NEW S, NEW s \in Seq(S) PROVE Len(s) \in Nat /\ DOMAIN s = 1..Len(s) /\ \A i \in 1..Len(s) : s[i] \in S
  OBVIOUS

\* A sequence up to one of its members.
LEMMA OneMore ==
  ASSUME NEW U, NEW u \in Seq(U), NEW e \in 1..Len(u)
  PROVE  SubSeq(u, 1, e) = Append(SubSeq(u, 1, e - 1), u[e])
<1>1. /\ SubSeq(u, 1, e) \in Seq(U) /\ Len(SubSeq(u, 1, e)) = e
      /\ \A j \in 1..e : SubSeq(u, 1, e)[j] = u[j]
  OBVIOUS
<1>2. /\ SubSeq(u, 1, e - 1) \in Seq(U) /\ Len(SubSeq(u, 1, e - 1)) = e - 1
      /\ \A j \in 1..e - 1 : SubSeq(u, 1, e - 1)[j] = u[j]
  OBVIOUS
<1> DEFINE b == SubSeq(u, 1, e - 1)
           c == SubSeq(u, 1, e)
<1> HIDE DEF b, c
<1>3. u[e] \in U
  OBVIOUS
<1>4. Append(b, u[e]) \in Seq(U) /\ Len(Append(b, u[e])) = e
  BY <1>2, <1>3 DEF b
<1>5. \A j \in 1..e : Append(b, u[e])[j] = u[j]
  BY <1>2, <1>3 DEF b
<1> QED
  BY <1>1, <1>4, <1>5 DEF b, c

\* The whole of a sequence.
LEMMA AllOf ==
  ASSUME NEW U, NEW u \in Seq(U) PROVE SubSeq(u, 1, Len(u)) = u /\ SubSeq(u, 1, 0) = <<>>
  OBVIOUS

-----------------------------------------------------------------------------
(* FlattenSeq                                                              *)

\* f is what there is of ss behind each member.
Flats(S, ss, f) ==
  /\ f \in [0..Len(ss) -> Seq(S)]
  /\ f[0] = <<>>
  /\ \A i \in 1..Len(ss) : f[i] = f[i - 1] \o ss[i]

\* There are such flats,
LEMMA FlatsExist ==
  ASSUME NEW S, NEW ss \in Seq(Seq(S)) PROVE \E f : Flats(S, ss, f)
<1> DEFINE n == Len(ss)
           h == [i \in 1..n |-> [x \in Seq(S) |-> x \o ss[i]]]
<1>1. n \in Nat /\ \A i \in 1..n : ss[i] \in Seq(S)
  OBVIOUS
<1>2. \A i \in 1..n : \A x \in Seq(S) : x \o ss[i] \in Seq(S)
  BY <1>1
<1>3. h \in [1..n -> [Seq(S) -> Seq(S)]] /\ \A i \in 1..n : \A x \in Seq(S) : h[i][x] = x \o ss[i]
  BY <1>2
<1>4. <<>> \in Seq(S)
  OBVIOUS
<1> HIDE DEF h
<1>5. PICK f \in [0..n -> Seq(S)] : f[0] = <<>> /\ \A i \in 1..n : f[i] = h[i][f[i - 1]]
  <2>1. Recursive(Seq(S), n, <<>>, h)
    BY <1>1, <1>3, <1>4, Recursion
  <2> QED
    BY <2>1 DEF Recursive
<1>6. ASSUME NEW i \in 1..n PROVE f[i] = f[i - 1] \o ss[i]
  <2>1. i - 1 \in 0..n
    BY <1>1
  <2>2. f[i - 1] \in Seq(S)
    BY <2>1
  <2> QED
    BY <1>3, <1>5, <2>2, Zenon
<1> QED
  BY <1>5, <1>6 DEF Flats

\* and FlattenSeq is the last of them.
LEMMA FlatIs ==
  ASSUME NEW S, NEW ss \in Seq(Seq(S)), NEW f, Flats(S, ss, f)
  PROVE  FlattenSeq(ss) = f[Len(ss)]
<1> DEFINE n == Len(ss)
           Def(g) == g = [i \in 1..n |-> IF i = 1 THEN ss[i] ELSE g[i - 1] \o ss[i]]
           e == CHOOSE g : Def(g)
<1>1. n \in Nat /\ \A i \in 1..n : ss[i] \in Seq(S)
  OBVIOUS
<1>2. f \in [0..n -> Seq(S)] /\ f[0] = <<>> /\ \A i \in 1..n : f[i] = f[i - 1] \o ss[i]
  BY DEF Flats
<1>3. CASE n = 0
  <2>1. FlattenSeq(ss) = ss
    BY <1>3 DEF FlattenSeq
  <2>2. ss = <<>>
    BY <1>3
  <2> QED
    BY <1>2, <1>3, <2>1, <2>2
<1>4. CASE n # 0
  <2>1. FlattenSeq(ss) = e[n]
    BY <1>4 DEF FlattenSeq
  <2> DEFINE g == [i \in 1..n |-> f[i]]
  <2>2. Def(g)
    <3>1. ASSUME NEW i \in 1..n PROVE f[i] = IF i = 1 THEN ss[i] ELSE g[i - 1] \o ss[i]
      <4>1. CASE i = 1
        <5>0. 1 \in 1..n /\ 1 - 1 = 0
          BY <1>1, <4>1
        <5>1. f[1] = f[1 - 1] \o ss[1] /\ ss[1] \in Seq(S)
          BY <1>1, <1>2, <5>0, Zenon
        <5>2. f[1] = ss[1]
          BY <1>2, <5>0, <5>1, ConcatEmptySeq
        <5> QED
          BY <4>1, <5>2
      <4>2. CASE i # 1
        <5>1. i - 1 \in 1..n
          BY <1>1, <4>2
        <5>2. g[i - 1] = f[i - 1]
          BY <5>1
        <5> HIDE DEF g
        <5> QED
          BY <1>2, <4>2, <5>2, Zenon
      <4> QED
        BY <4>1, <4>2
    <3>2. [i \in 1..n |-> f[i]] = [i \in 1..n |-> IF i = 1 THEN ss[i] ELSE g[i - 1] \o ss[i]]
      BY <3>1, Zenon
    <3> QED
      BY <3>2, Zenon
  <2> HIDE DEF g
  <2>3. Def(e)
    BY <2>2, Zenon
  <2> HIDE DEF e
  <2>4. \A i \in 1..n : e[i] = IF i = 1 THEN ss[i] ELSE e[i - 1] \o ss[i]
    BY <2>3, Zenon
  <2> DEFINE G == {i \in 0..n : i = 0 \/ e[i] = f[i]}
  <2>5. 0 \in G
    BY <1>1
  <2>6. ASSUME NEW i \in 1..n, i - 1 \in G PROVE i \in G
    <3>1. i \in 0..n
      BY <1>1
    <3>2. CASE i = 1
      <4>1. e[1] = ss[1]
        BY <2>4, <3>2
      <4>0. 1 \in 1..n /\ 1 - 1 = 0
        BY <1>1, <3>2
      <4>2. f[1] = f[1 - 1] \o ss[1] /\ ss[1] \in Seq(S)
        BY <1>1, <1>2, <4>0, Zenon
      <4>3. e[1] = f[1]
        BY <1>2, <4>0, <4>1, <4>2, ConcatEmptySeq
      <4> QED
        BY <3>1, <3>2, <4>3
    <3>3. CASE i # 1
      <4>1. e[i - 1] = f[i - 1]
        BY <1>1, <2>6, <3>3
      <4>2. e[i] = f[i]
        BY <1>2, <2>4, <3>3, <4>1, Zenon
      <4> QED
        BY <3>1, <4>2
    <3> QED
      BY <3>2, <3>3
  <2> HIDE DEF G
  <2>7. \A i \in 0..n : i \in G
    BY <1>1, <2>5, <2>6, Induction
  <2>8. n \in G
    BY <1>1, <2>7
  <2>9. e[n] = f[n]
    BY <1>4, <2>8 DEF G
  <2> QED
    BY <2>1, <2>9
<1> QED
  BY <1>3, <1>4

-----------------------------------------------------------------------------
(* strvis and strunvis                                                     *)

Codes(text) == [i \in 1..Len(text) |-> do_svis(text[i])]

\* strvis puts the codes of the characters together.
LEMMA CodesIs ==
  ASSUME NEW text \in Text
  PROVE  /\ Codes(text) \in Seq(Seq(Visibles)) /\ Len(Codes(text)) = Len(text)
         /\ strvis(text) = FlattenSeq(Codes(text))
<1>0. text \in Seq(1..255)
  BY DEF Text
<1>1. Len(text) \in Nat /\ DOMAIN text = 1..Len(text) /\ \A i \in 1..Len(text) : text[i] \in 1..255
  BY <1>0, MemberOf, Zenon
<1>2. \A i \in 1..Len(text) : do_svis(text[i]) \in Seq(Visibles)
  BY <1>1, EncodedVisible
<1>3. Codes(text) \in [1..Len(text) -> Seq(Visibles)]
  BY <1>2 DEF Codes
<1>4. Codes(text) \in Seq(Seq(Visibles)) /\ Len(Codes(text)) = Len(text)
  BY <1>1, <1>3
<1>5. strvis(text) = FlattenSeq(Codes(text))
  BY <1>1, Zenon DEF strvis, Codes
<1> QED
  BY <1>4, <1>5

\* And those of a line.
LEMMA VisiblesAreInts == ASSUME NEW s \in Seq(Visibles) PROVE s \in Seq(Int)
<1>1. \A c \in Visibles : c \in Int
  BY DEF Visibles
<1> HIDE DEF Visibles
<1>2. Visibles \subseteq Int
  BY <1>1
<1> QED
  BY <1>2, SeqMonotonic

\* What is written for a text has no newline, and is read as the text.
LEMMA TextRestored ==
  ASSUME NEW text \in Text
  PROVE  strvis(text) \in Seq(Visibles) /\ Rests(End(Decoder, strvis(text)), text)
<1> DEFINE ss == Codes(text)
           n == Len(text)
<1>1. ss \in Seq(Seq(Visibles)) /\ Len(ss) = n /\ strvis(text) = FlattenSeq(ss)
  BY CodesIs
<1>2. n = Len(text) /\ n \in Nat /\ text \in Seq(1..255) /\ \A i \in 1..n : ss[i] = do_svis(text[i])
  BY DEF Codes, Text
<1>a. \A i \in 1..n : text[i] \in 1..255
  BY <1>2, MemberOf, Zenon
<1> HIDE DEF ss, n
<1>3. PICK f : Flats(Visibles, ss, f)
  BY <1>1, FlatsExist
<1>4. strvis(text) = f[n]
  BY <1>1, <1>3, FlatIs
<1>5. /\ f \in [0..n -> Seq(Visibles)] /\ f[0] = <<>>
      /\ \A i \in 1..n : f[i] = f[i - 1] \o ss[i]
  BY <1>1, <1>3 DEF Flats
<1>6. Decoder \in Machines /\ Stands(Decoder, "ground", 0, <<>>)
  BY DEF Decoder, Machines, Phases, Stands
<1> DEFINE G == {i \in 0..n : Rests(End(Decoder, f[i]), SubSeq(text, 1, i))}
<1>7. 0 \in G
  <2>1. End(Decoder, <<>>) = Decoder
    BY <1>6, EndNone
  <2>2. SubSeq(text, 1, 0) = <<>>
    BY <1>2
  <2>3. Rests(Decoder, <<>>)
    BY <1>6 DEF Rests
  <2> QED
    BY <1>2, <1>5, <2>1, <2>2, <2>3
<1>8. ASSUME NEW i \in 1..n, i - 1 \in G PROVE i \in G
  <2>1. i \in 0..n /\ i - 1 \in 0..n /\ text[i] \in 1..255 /\ i \in 1..Len(text)
    BY <1>2, <1>a
  <2> DEFINE a == f[i - 1]
             b == ss[i]
             u == SubSeq(text, 1, i - 1)
  <2>2. a \in Seq(Visibles) /\ b \in Seq(Visibles) /\ f[i] = a \o b
    <3>1. ss[i] \in Seq(Visibles)
      BY <1>1, MemberOf, Zenon
    <3>2. f[i - 1] \in Seq(Visibles)
      BY <1>5, <2>1, Zenon
    <3> QED
      BY <1>5, <3>1, <3>2, Zenon
  <2>3. Rests(End(Decoder, a), u)
    BY <1>8
  <2>4. b = do_svis(text[i])
    BY <1>2
  <2>5. SubSeq(text, 1, i) = Append(u, text[i])
    BY <1>2, <2>1, OneMore
  <2> HIDE DEF a, b, u
  <2>6. a \in Seq(Int) /\ b \in Seq(Int) /\ a \o b \in Seq(Int) /\ Behinds(a, b, a \o b)
    BY <2>2, VisiblesAreInts, ConcatIs
  <2>7. Parted(Decoder, a, b, a \o b)
    BY <1>6, <2>6 DEF Parted
  <2>8. End(Decoder, a \o b) = End(End(Decoder, a), b)
    BY <2>7, EndJoin
  <2>9. Rests(End(End(Decoder, a), b), Append(u, text[i]))
    BY <2>1, <2>3, <2>4, CharacterRestored
  <2>10. Rests(End(Decoder, f[i]), SubSeq(text, 1, i))
    BY <2>2, <2>5, <2>8, <2>9, Zenon
  <2> QED
    BY <2>1, <2>10
<1> HIDE DEF G
<1>9. \A i \in 0..n : i \in G
  BY <1>2, <1>7, <1>8, Induction
<1>10. n \in G /\ n \in 0..n
  BY <1>2, <1>9
<1>11. Rests(End(Decoder, f[n]), SubSeq(text, 1, n))
  BY <1>10 DEF G
<1>12. SubSeq(text, 1, n) = text
  BY <1>2, AllOf
<1> QED
  BY <1>4, <1>5, <1>10, <1>11, <1>12

\* strunvis gives every text back that strvis has encoded, whatever bytes are in it and
\* whatever follows what (history.c: what history_save writes history_load reads).
THEOREM StrunvisUndoes == ASSUME NEW text \in Text PROVE strunvis(strvis(text)) = text
<1> DEFINE d == End(Decoder, strvis(text))
<1>1. PICK n : Stands(d, "ground", n, text)
  BY TextRestored DEF Rests
<1>2. strunvis(strvis(text)) = Ended(d).text
  BY DEF strunvis, End
<1> HIDE DEF d
<1>3. Ended(d) = d /\ d.text = text
  BY <1>1 DEF Ended, Stands
<1> QED
  BY <1>2, <1>3

-----------------------------------------------------------------------------
(* The file: its lines, and the texts in them                              *)

Readers == [done : Seq(Seq(Int)), line : Seq(Int)]
Reading(done, line) == [done |-> done, line |-> line]
Taking == [c \in Int |-> [a \in Readers |-> Takes(a, c)]]

\* A reader is what it has read and the line it is in.
LEMMA ReadingIs ==
  ASSUME NEW D \in Seq(Seq(Int)), NEW l \in Seq(Int) PROVE Reading(D, l) \in Readers
  BY DEF Reading, Readers

\* No character of a line ends it.
LEMMA VisibleIs == ASSUME NEW c \in Visibles PROVE c \in Int /\ c # Newline
  BY DEF Visibles

\* A newline ends the line, and any other character is put behind it.
LEMMA TakesIs ==
  ASSUME NEW D \in Seq(Seq(Int)), NEW l \in Seq(Int), NEW c \in Int
  PROVE  /\ Reading(D, l) \in Readers
         /\ c = Newline => Takes(Reading(D, l), c) = Reading(Append(D, l), <<>>)
         /\ c # Newline => Takes(Reading(D, l), c) = Reading(D, Append(l, c))
<1>1. Append(D, l) \in Seq(Seq(Int)) /\ Append(l, c) \in Seq(Int)
  OBVIOUS
<1>2. Reading(D, l) \in Readers /\ Reading(D, l).done = D /\ Reading(D, l).line = l
  BY DEF Reading, Readers
<1>3. [Reading(D, l) EXCEPT !.line = Append(@, c)] = Reading(D, Append(l, c))
  <2> DEFINE r == Reading(D, l)
             x == Append(l, c)
  <2>1. r \in [done : Seq(Seq(Int)), line : Seq(Int)] /\ r.done = D /\ r.line = l /\ x \in Seq(Int)
    BY <1>1, <1>2 DEF Readers
  <2> HIDE DEF r, x
  <2>2. [r EXCEPT !.line = x] = [done |-> D, line |-> x]
    BY <2>1
  <2> QED
    BY <2>1, <2>2, Zenon DEF Reading, r, x
<1>4. ASSUME c = Newline PROVE Takes(Reading(D, l), c) = Reading(Append(D, l), <<>>)
  BY <1>2, <1>4, Zenon DEF Takes, Reading
<1>5. ASSUME c # Newline PROVE Takes(Reading(D, l), c) = Reading(D, Append(l, c))
  BY <1>3, <1>5, Zenon DEF Takes
<1> QED
  BY <1>2, <1>4, <1>5

\* Takes as a function of the character and the reader.
LEMMA TakingIs == Taking \in [Int -> [Readers -> Readers]]
<1>1. ASSUME NEW a \in Readers, NEW c \in Int PROVE Takes(a, c) \in Readers
  <2>1. a.done \in Seq(Seq(Int)) /\ a.line \in Seq(Int) /\ a = Reading(a.done, a.line)
    BY DEF Readers, Reading
  <2>2. Append(a.done, a.line) \in Seq(Seq(Int)) /\ Append(a.line, c) \in Seq(Int) /\ <<>> \in Seq(Int)
    BY <2>1
  <2>3. Takes(Reading(a.done, a.line), c) \in Readers
    BY <2>1, <2>2, TakesIs, Zenon
  <2> QED
    BY <2>1, <2>3, Zenon
<1> QED
  BY <1>1 DEF Taking

\* Fetches goes through the file step by step.
LEMMA FetchesIs ==
  ASSUME NEW d \in Readers, NEW s \in Seq(Int)
  PROVE  Steps(Readers, Taking, d, s, Fetches(d, s))
<1> DEFINE n == Len(s)
           Def(f) == f = [i \in 0..n |-> IF i = 0 THEN d ELSE Takes(f[i - 1], s[i])]
           e == CHOOSE f : Def(f)
<1>1. n \in Nat /\ \A i \in 1..n : s[i] \in Int
  OBVIOUS
<1>0. \A a \in Readers, c \in Int : Takes(a, c) \in Readers /\ Takes(a, c) = Taking[c][a]
  <2>1. ASSUME NEW a \in Readers, NEW c \in Int PROVE Takes(a, c) = Taking[c][a]
    BY DEF Taking
  <2>2. ASSUME NEW a \in Readers, NEW c \in Int PROVE Taking[c][a] \in Readers
    BY TakingIs
  <2> QED
    BY <2>1, <2>2
<1>2. PICK f : Recurs(Taking, d, s, f) /\ Steps(Readers, Taking, d, s, f)
  BY TakingIs, StepsRecur, Zenon
<1>3. ASSUME NEW g, \A i \in 0..n : i # 0 => g[i - 1] \in Readers
      PROVE  Def(g) <=> Recurs(Taking, d, s, g)
  <2>1. ASSUME NEW i \in 0..n
        PROVE (IF i = 0 THEN d ELSE Takes(g[i - 1], s[i]))
              = IF i = 0 THEN d ELSE Taking[s[i]][g[i - 1]]
    <3>1. CASE i = 0
      BY <3>1
    <3>2. CASE i # 0
      <4>1. g[i - 1] \in Readers /\ i \in 1..n
        BY <1>3, <3>2
      <4>2. s[i] \in Int
        BY <1>1, <4>1
      <4>3. Takes(g[i - 1], s[i]) = Taking[s[i]][g[i - 1]]
        BY <1>0, <4>1, <4>2
      <4> QED
        BY <4>3, <3>2, Zenon
    <3> QED
      BY <3>1, <3>2
  <2>2. [i \in 0..n |-> IF i = 0 THEN d ELSE Takes(g[i - 1], s[i])]
        = [i \in 0..n |-> IF i = 0 THEN d ELSE Taking[s[i]][g[i - 1]]]
    BY <2>1, Zenon
  <2> QED
    BY <2>2, Zenon DEF Recurs
<1>4. Def(f)
  <2>0. f \in [0..n -> Readers]
    BY <1>2 DEF Steps
  <2>1. ASSUME NEW i \in 0..n, i # 0 PROVE f[i - 1] \in Readers
    <3>1. i - 1 \in 0..n
      BY <1>1, <2>1
    <3> QED
      BY <2>0, <3>1
  <2> QED
    BY <1>2, <1>3, <2>1
<1>5. Def(e)
  BY <1>4, Zenon
<1>6. Fetches(d, s) = e
  BY DEF Fetches
<1>7. \A i \in 0..n : e[i] = IF i = 0 THEN d ELSE Takes(e[i - 1], s[i])
  BY <1>5, Zenon
<1> HIDE DEF e
<1> DEFINE G == {i \in 0..n : e[i] \in Readers}
<1>8. 0 \in G
  BY <1>1, <1>7
<1>9. ASSUME NEW i \in 1..n, i - 1 \in G PROVE i \in G
  <2>1. i \in 0..n /\ i # 0 /\ s[i] \in Int
    BY <1>1
  <2>2. e[i] = Takes(e[i - 1], s[i])
    BY <1>7, <2>1, Zenon
  <2>3. e[i] \in Readers
    BY <1>0, <1>9, <2>1, <2>2
  <2> QED
    BY <2>1, <2>3
<1> HIDE DEF G
<1>10. \A i \in 0..n : i \in G
  BY <1>1, <1>8, <1>9, Induction
<1>11. ASSUME NEW i \in 0..n, i # 0 PROVE e[i - 1] \in Readers
  <2>1. i - 1 \in 0..n
    BY <1>1, <1>11
  <2> QED
    BY <1>10, <2>1 DEF G
<1>12. Recurs(Taking, d, s, e)
  BY <1>3, <1>5, <1>11
<1> QED
  BY <1>6, <1>12, TakingIs, StepsAgree

\* What has been read of s.
Read(a, s) == Fetches(a, s)[Len(s)]

\* Behind a part of the file a reader is a reader.
LEMMA ReadIs ==
  ASSUME NEW a \in Readers, NEW s \in Seq(Int) PROVE Read(a, s) \in Readers
<1>1. Fetches(a, s) \in [0..Len(s) -> Readers]
  BY FetchesIs DEF Steps
<1>2. Len(s) \in 0..Len(s)
  OBVIOUS
<1> QED
  BY <1>1, <1>2 DEF Read

\* A file that is put together is read part by part.
LEMMA ReadJoin ==
  ASSUME NEW d \in Readers, NEW s \in Seq(Int), NEW t \in Seq(Int)
  PROVE  Read(d, s \o t) = Read(Read(d, s), t)
<1> DEFINE u == s \o t
           f == Fetches(d, s)
           g == Fetches(Read(d, s), t)
           e == Fetches(d, u)
<1>1. f[Len(s)] = Read(d, s) /\ g[Len(t)] = Read(Read(d, s), t) /\ e[Len(u)] = Read(d, u)
  BY DEF Read
<1>2. Read(d, s) \in Readers /\ u \in Seq(Int) /\ Behinds(s, t, u)
  BY ReadIs, ConcatIs
<1> HIDE DEF u
<1>3. Steps(Readers, Taking, d, s, f) /\ Steps(Readers, Taking, d, u, e)
  BY <1>2, FetchesIs
<1>4. Steps(Readers, Taking, f[Len(s)], t, g)
  BY <1>1, <1>2, FetchesIs
<1> HIDE DEF f, g, e
<1>5. Joined(Readers, Int, Taking, d, s, t, u, f, g, e)
  BY <1>2, <1>3, <1>4, TakingIs DEF Joined
<1>6. e[Len(u)] = g[Len(t)]
  BY <1>5, StepsJoin
<1> QED
  BY <1>1, <1>6 DEF u

\* What a newline does,
LEMMA ReadNewline ==
  ASSUME NEW D \in Seq(Seq(Int)), NEW l \in Seq(Int)
  PROVE  Read(Reading(D, l), <<Newline>>) = Reading(Append(D, l), <<>>)
<1> DEFINE a == Reading(D, l)
           s == <<Newline>>
           f == Fetches(a, s)
<1>1. a \in Readers /\ Newline \in Int /\ Takes(a, Newline) = Reading(Append(D, l), <<>>)
  BY TakesIs DEF Newline
<1>2. s \in Seq(Int) /\ Len(s) = 1 /\ s[1] = Newline
  BY <1>1
<1> HIDE DEF a, s
<1>3. Steps(Readers, Taking, a, s, f)
  BY <1>1, <1>2, FetchesIs
<1>4. Read(a, s) = f[1]
  BY <1>2 DEF Read
<1> HIDE DEF f
<1>5. f[1] = Taking[Newline][f[0]] /\ f[0] = a
  <2>1. 1 \in 1..Len(s) /\ 1 - 1 = 0
    BY <1>2
  <2> QED
    BY <1>2, <1>3, <2>1, Zenon DEF Steps
<1>6. Taking[Newline][a] = Takes(a, Newline)
  BY <1>1 DEF Taking
<1> QED
  BY <1>1, <1>4, <1>5, <1>6, Zenon DEF a, s

\* What has no newline is read into the line.
LEMMA ReadVisible ==
  ASSUME NEW D \in Seq(Seq(Int)), NEW s \in Seq(Visibles)
  PROVE  Read(Reading(D, <<>>), s) = Reading(D, s)
<1> DEFINE a == Reading(D, <<>>)
           n == Len(s)
           f == Fetches(a, s)
<1>1. s \in Seq(Int) /\ n \in Nat /\ n = Len(s) /\ <<>> \in Seq(Int)
  BY VisiblesAreInts
<1>2. a \in Readers
  BY <1>1, ReadingIs
<1>3. Steps(Readers, Taking, a, s, f)
  BY <1>1, <1>2, FetchesIs
<1>4. Read(a, s) = f[n]
  BY DEF Read
<1>5. a = Reading(D, <<>>)
  OBVIOUS
<1> HIDE DEF f, n, a
<1>6. f[0] = a /\ \A i \in 1..n : f[i] = Taking[s[i]][f[i - 1]]
  BY <1>1, <1>3 DEF Steps
<1> DEFINE G == {i \in 0..n : f[i] = Reading(D, SubSeq(s, 1, i))}
<1>7. 0 \in G
  <2>1. SubSeq(s, 1, 0) = <<>>
    BY <1>1, AllOf
  <2>2. f[0] = Reading(D, SubSeq(s, 1, 0))
    BY <1>5, <1>6, <2>1, Zenon
  <2> QED
    BY <1>1, <2>2
<1>8. ASSUME NEW i \in 1..n, i - 1 \in G PROVE i \in G
  <2>1. i \in 0..n /\ i \in 1..Len(s)
    <3>1. n = Len(s)
      BY <1>1
    <3>2. i \in 0..n
      OBVIOUS
    <3> QED
      BY <3>1, <3>2
  <2> DEFINE l == SubSeq(s, 1, i - 1)
             c == s[i]
  <2>2. l \in Seq(Int)
    BY <1>1, <2>1
  <2>3. c \in Visibles
    BY <2>1, MemberOf, Zenon
  <2>4. c \in Int /\ c # Newline
    BY <2>3, VisibleIs
  <2>5. SubSeq(s, 1, i) = Append(l, c)
    BY <2>1, OneMore
  <2>6. f[i - 1] = Reading(D, l)
    BY <1>8
  <2>7. f[i] = Taking[c][f[i - 1]]
    BY <1>6
  <2> HIDE DEF l, c
  <2>8. Reading(D, l) \in Readers /\ Takes(Reading(D, l), c) = Reading(D, Append(l, c))
    BY <2>2, <2>4, TakesIs
  <2>9. Taking[c][Reading(D, l)] = Takes(Reading(D, l), c)
    BY <2>4, <2>8 DEF Taking
  <2>10. f[i] = Reading(D, SubSeq(s, 1, i))
    BY <2>5, <2>6, <2>7, <2>8, <2>9, Zenon
  <2> QED
    BY <2>1, <2>10
<1> HIDE DEF G
<1>9. \A i \in 0..n : i \in G
  BY <1>1, <1>7, <1>8, Induction
<1>10. n \in G
  BY <1>1, <1>9
<1>11. f[n] = Reading(D, SubSeq(s, 1, n))
  BY <1>10 DEF G
<1>12. SubSeq(s, 1, n) = s
  BY <1>1, AllOf
<1> QED
  BY <1>4, <1>5, <1>11, <1>12, Zenon

\* and both: a line is read.
LEMMA ReadLine ==
  ASSUME NEW D \in Seq(Seq(Int)), NEW s \in Seq(Visibles)
  PROVE  Read(Reading(D, <<>>), s \o <<Newline>>) = Reading(Append(D, s), <<>>)
<1>1. Reading(D, <<>>) \in Readers
  <2>1. <<>> \in Seq(Int)
    OBVIOUS
  <2> QED
    BY <2>1, ReadingIs
<1>2. s \in Seq(Int) /\ <<Newline>> \in Seq(Int)
  BY VisiblesAreInts DEF Newline
<1> HIDE DEF Newline
<1> DEFINE q == <<Newline>>
<1> HIDE DEF q
<1>3. Read(Reading(D, <<>>), s \o q) = Read(Read(Reading(D, <<>>), s), q)
  BY <1>1, <1>2, ReadJoin DEF q
<1>4. Read(Reading(D, <<>>), s) = Reading(D, s)
  BY ReadVisible
<1>5. Read(Reading(D, s), q) = Reading(Append(D, s), <<>>)
  BY <1>2, ReadNewline DEF q
<1> QED
  BY <1>3, <1>4, <1>5, Zenon DEF q

Coded(texts) == [i \in 1..Len(texts) |-> strvis(texts[i])]
Pieces(texts) == [i \in 1..Len(texts) |-> strvis(texts[i]) \o <<Newline>>]

\* A code is a text.
LEMMA VisibleText == ASSUME NEW s \in Seq(Visibles) PROVE s \in Text
<1> DEFINE B == 1..255
<1>1. \A c \in Visibles : c \in B
  BY DEF Visibles
<1> HIDE DEF Visibles, B
<1>2. Visibles \subseteq B
  BY <1>1
<1>3. s \in Seq(B)
  BY <1>2, SeqMonotonic
<1> QED
  BY <1>3 DEF Text, B

\* And a line is.
LEMMA LineIs ==
  ASSUME NEW s \in Seq(Visibles) PROVE s \o <<Newline>> \in Text
<1>1. s \in Seq(1..255)
  BY VisibleText DEF Text
<1>2. <<Newline>> \in Seq(1..255)
  BY DEF Newline
<1> DEFINE q == <<Newline>>
<1> HIDE DEF q
<1>3. s \o q \in Seq(1..255)
  BY <1>1, <1>2 DEF q
<1> QED
  BY <1>3 DEF q, Text

\* The file is made of one piece for each text.
LEMMA PiecesIs ==
  ASSUME NEW texts \in Seq(Text)
  PROVE  /\ Pieces(texts) \in Seq(Text) /\ Len(Pieces(texts)) = Len(texts)
         /\ Coded(texts) \in Seq(Seq(Visibles)) /\ Len(Coded(texts)) = Len(texts)
         /\ FileOf(texts) = FlattenSeq(Pieces(texts))
<1>1. Len(texts) \in Nat /\ DOMAIN texts = 1..Len(texts) /\ \A i \in 1..Len(texts) : texts[i] \in Text
  BY MemberOf, Zenon
<1>2. \A i \in 1..Len(texts) : strvis(texts[i]) \in Seq(Visibles)
  BY <1>1, TextRestored
<1>3. \A i \in 1..Len(texts) : strvis(texts[i]) \o <<Newline>> \in Text
  BY <1>2, LineIs
<1>4. Coded(texts) \in [1..Len(texts) -> Seq(Visibles)]
  BY <1>2 DEF Coded
<1>5. Pieces(texts) \in [1..Len(texts) -> Text]
  BY <1>3, Zenon DEF Pieces
<1>6. FileOf(texts) = FlattenSeq(Pieces(texts))
  BY <1>1, Zenon DEF FileOf, Pieces
<1>7. Coded(texts) \in Seq(Seq(Visibles)) /\ Len(Coded(texts)) = Len(texts)
  BY <1>1, <1>4
<1>8. Pieces(texts) \in Seq(Text) /\ Len(Pieces(texts)) = Len(texts)
  BY <1>1, <1>5
<1> QED
  BY <1>6, <1>7, <1>8

\* Lines of characters are lines of numbers.
LEMMA VisiblesSeqs == ASSUME NEW ss \in Seq(Seq(Visibles)) PROVE ss \in Seq(Seq(Int))
<1>1. Seq(Visibles) \subseteq Seq(Int)
  BY VisiblesAreInts
<1> QED
  BY <1>1, SeqMonotonic

\* The file is the texts' codes, a line each.
LEMMA FileIs ==
  ASSUME NEW texts \in Seq(Text)
  PROVE  /\ FileOf(texts) \in Text
         /\ Read(Reading(<<>>, <<>>), FileOf(texts)) = Reading(Coded(texts), <<>>)
<1> DEFINE ss == Pieces(texts)
           cs == Coded(texts)
           n == Len(texts)
           a == Reading(<<>>, <<>>)
<1>1. /\ ss \in Seq(Text) /\ Len(ss) = n /\ n \in Nat
      /\ cs \in Seq(Seq(Visibles)) /\ Len(cs) = n /\ FileOf(texts) = FlattenSeq(ss)
  BY PiecesIs
<1>2. \A i \in 1..n : ss[i] = cs[i] \o <<Newline>>
  BY DEF Pieces, Coded
<1>3. a \in Readers /\ a = Reading(<<>>, <<>>)
  <2>1. <<>> \in Seq(Seq(Int)) /\ <<>> \in Seq(Int)
    OBVIOUS
  <2> QED
    BY <2>1, ReadingIs, Zenon
<1> HIDE DEF ss, cs, n, a
<1>4. PICK f : Flats(1..255, ss, f)
  BY <1>1, FlatsExist DEF Text
<1>5. FileOf(texts) = f[n]
  BY <1>1, <1>4, FlatIs DEF Text
<1>6. /\ f \in [0..n -> Text] /\ f[0] = <<>>
      /\ \A i \in 1..n : f[i] = f[i - 1] \o ss[i]
  BY <1>1, <1>4 DEF Flats, Text
<1>7. cs \in Seq(Seq(Int))
  BY <1>1, VisiblesSeqs
<1> DEFINE G == {i \in 0..n : Read(a, f[i]) = Reading(SubSeq(cs, 1, i), <<>>)}
<1>8. 0 \in G
  <2>1. SubSeq(cs, 1, 0) = <<>>
    BY <1>7, AllOf
  <2>2. Read(a, <<>>) = a
    <3>0. <<>> \in Seq(Int)
      OBVIOUS
    <3>1. Steps(Readers, Taking, a, <<>>, Fetches(a, <<>>))
      BY <1>3, <3>0, FetchesIs, Zenon
    <3>2. Fetches(a, <<>>)[0] = a
      BY <3>1 DEF Steps
    <3> QED
      BY <3>2 DEF Read
  <2>3. Read(a, f[0]) = Reading(SubSeq(cs, 1, 0), <<>>)
    BY <1>3, <1>6, <2>1, <2>2, Zenon
  <2> QED
    BY <1>1, <2>3
<1>9. ASSUME NEW i \in 1..n, i - 1 \in G PROVE i \in G
  <2>1. i \in 0..n /\ i - 1 \in 0..n /\ i \in 1..Len(cs) /\ i \in 1..Len(ss)
    BY <1>1
  <2> DEFINE c == cs[i]
             g == f[i - 1]
             p == ss[i]
             D == SubSeq(cs, 1, i - 1)
  <2>2. c \in Seq(Visibles)
    BY <1>1, <2>1, MemberOf, Zenon
  <2>3. g \in Text /\ p \in Text /\ f[i] = g \o p
    <3>1. p \in Text
      BY <1>1, <2>1, MemberOf, Zenon
    <3>2. g \in Text
      BY <1>6, <2>1, Zenon
    <3> QED
      BY <1>6, <3>1, <3>2, Zenon
  <2>4. p = c \o <<Newline>>
    BY <1>2, Zenon
  <2>5. D \in Seq(Seq(Int))
    BY <1>7, <2>1
  <2>6. Read(a, g) = Reading(D, <<>>)
    BY <1>9
  <2>7. SubSeq(cs, 1, i) = Append(D, c)
    BY <1>7, <2>1, OneMore
  <2> HIDE DEF c, g, p, D
  <2>8. Read(a, g \o p) = Read(Read(a, g), p)
    BY <1>3, <2>3, TextIsInts, ReadJoin
  <2>9. Read(Reading(D, <<>>), p) = Reading(Append(D, c), <<>>)
    BY <2>2, <2>4, <2>5, ReadLine
  <2>10. Read(a, f[i]) = Reading(SubSeq(cs, 1, i), <<>>)
    BY <2>3, <2>6, <2>7, <2>8, <2>9, Zenon
  <2> QED
    BY <2>1, <2>10
<1> HIDE DEF G
<1>10. \A i \in 0..n : i \in G
  BY <1>1, <1>8, <1>9, Induction
<1>11. n \in G /\ n \in 0..n
  BY <1>1, <1>10
<1>12. Read(a, f[n]) = Reading(SubSeq(cs, 1, n), <<>>)
  BY <1>11 DEF G
<1>13. SubSeq(cs, 1, n) = cs
  BY <1>1, <1>7, AllOf
<1>14. f[n] \in Text
  BY <1>6, <1>11, Zenon
<1>15. Read(a, FileOf(texts)) = Reading(cs, <<>>)
  BY <1>5, <1>12, <1>13, Zenon
<1> QED
  BY <1>3, <1>5, <1>14, <1>15, Zenon DEF cs

-----------------------------------------------------------------------------
(* What is decoded of a line cut short is bytes still                      *)

\* A code is of seven bits.
LEMMA CodesAscii == ASSUME NEW text \in Text PROVE strvis(text) \in Seq(1..127)
<1>1. Visibles \subseteq 1..127
  BY DEF Visibles
<1>2. strvis(text) \in Seq(Visibles)
  BY TextRestored
<1> QED
  BY <1>1, <1>2, SeqMonotonic

\* A decoder that has read the codes of bytes: what it collects is a byte, and so is all
\* that it has decoded.
Bytes == 0..255
OfBytes(d) ==
  /\ d \in Machines
  /\ d.text \in Seq(Bytes)
  /\ d.cp \in Bytes
  /\ d.state = "start" => d.cp = 0
  /\ d.state \in {"meta", "meta1", "ctrl"} => d.cp \in {0, 128}
  /\ d.state = "hex2" => d.cp \in 0..15

LEMMA ByteDecoded ==
  ASSUME NEW d, OfBytes(d), NEW c \in Bytes PROVE OfBytes(Decodes(d, c))
<1>1. Append(d.text, c) \in Seq(Bytes) /\ d \in Machines
  BY DEF OfBytes
<1>2. Decodes(d, c) \in Machines /\ c \in Int
  BY <1>1, DecodesIs DEF Bytes
<1>3. Decodes(d, c).text = Append(d.text, c) /\ Decodes(d, c).cp = c
      /\ Decodes(d, c).state = "ground"
  BY <1>1 DEF Decodes, Machines
<1> QED
  BY <1>1, <1>2, <1>3 DEF OfBytes

LEMMA ByteCollected ==
  ASSUME NEW d, OfBytes(d), NEW p \in Phases, NEW c \in Bytes,
         p = "start" => c = 0, p \in {"meta", "meta1", "ctrl"} => c \in {0, 128},
         p = "hex2" => c \in 0..15
  PROVE  OfBytes(Collects(d, p, c))
<1>1. d \in Machines /\ d.text \in Seq(Bytes) /\ c \in Int
  BY DEF OfBytes, Bytes
<1>2. Collects(d, p, c) \in Machines
  BY <1>1, CollectsIs
<1>3. Collects(d, p, c).text = d.text /\ Collects(d, p, c).cp = c /\ Collects(d, p, c).state = p
  BY <1>1 DEF Collects, Machines
<1> QED
  BY <1>1, <1>2, <1>3 DEF OfBytes

LEMMA ByteBad == ASSUME NEW d, OfBytes(d) PROVE OfBytes(Bad(d))
<1>1. d \in Machines /\ d.text \in Seq(Bytes) /\ d.cp \in Bytes
  BY DEF OfBytes
<1>2. Bad(d) \in Machines
  BY <1>1, BadIs
<1>3. Bad(d).text = d.text /\ Bad(d).cp = d.cp /\ Bad(d).state = "ground"
  BY <1>1 DEF Bad, Machines
<1> QED
  BY <1>1, <1>2, <1>3 DEF OfBytes

LEMMA ByteGround == ASSUME NEW d, OfBytes(d), NEW c \in Bytes PROVE OfBytes(Ground(d, c))
<1>1. "start" \in Phases /\ 0 \in Bytes
  BY DEF Phases, Bytes
<1>2. OfBytes(Collects(d, "start", 0))
  BY <1>1, ByteCollected
<1> QED
  BY <1>2, ByteDecoded, Zenon DEF Ground

LEMMA ByteStart ==
  ASSUME NEW d, OfBytes(d), d.state = "start", NEW c \in Bytes PROVE OfBytes(Start(d, c))
<1>1. /\ "ground" \in Phases /\ "meta" \in Phases /\ "ctrl" \in Phases /\ "octal2" \in Phases
      /\ "hex" \in Phases
  BY DEF Phases
<1>2. d.cp = 0 /\ 0 \in Bytes /\ 128 \in Bytes
  BY DEF OfBytes, Bytes
<1>3. ASSUME isoctal(c) PROVE c - Digit(0) \in Bytes
  BY <1>3 DEF isoctal, Digit, Bytes
<1>4. ASSUME isletter(c) PROVE Letter(c) \in Bytes
  <2>1. (CHOOSE l \in Letters : l[1] = c) \in Letters
    BY <1>4 DEF isletter
  <2>2. \A l \in Letters : l[2] \in Bytes
    BY DEF Letters, Bytes
  <2> QED
    BY <2>1, <2>2 DEF Letter
<1>5. OfBytes(Decodes(d, c)) /\ OfBytes(Bad(d))
  BY ByteDecoded, ByteBad
<1>6. OfBytes(Collects(d, "meta", 128)) /\ OfBytes(Collects(d, "ctrl", d.cp))
      /\ OfBytes(Collects(d, "hex", d.cp)) /\ OfBytes(Collects(d, "ground", d.cp))
  BY <1>1, <1>2, ByteCollected
<1>7. isoctal(c) => OfBytes(Collects(d, "octal2", c - Digit(0)))
  BY <1>1, <1>3, ByteCollected
<1>8. isletter(c) => OfBytes(Decodes(d, Letter(c)))
  BY <1>4, ByteDecoded
<1> QED
  BY <1>5, <1>6, <1>7, <1>8, Zenon DEF Start

LEMMA ByteOctal == ASSUME NEW d, OfBytes(d), NEW c \in Bytes PROVE OfBytes(OctalDigit(d, c))
<1>1. "octal3" \in Phases /\ d.cp \in Bytes
  BY DEF Phases, OfBytes
<1> DEFINE y == d.cp * 8 + c - Digit(0)
           x == y % 256
<1>2. x \in Bytes
  <2>1. y \in Int
    BY <1>1 DEF Digit, Bytes
  <2> HIDE DEF y
  <2> QED
    BY <2>1 DEF Bytes
<1>3. OfBytes(Ground(Decodes(d, d.cp), c))
  BY <1>1, ByteDecoded, ByteGround
<1>4. OfBytes(Collects(d, "octal3", x)) /\ OfBytes(Decodes(d, x))
  BY <1>1, <1>2, ByteCollected, ByteDecoded
<1> QED
  BY <1>3, <1>4, Zenon DEF OctalDigit

LEMMA ByteHex ==
  ASSUME NEW d, OfBytes(d), d.state \in {"hex", "hex2"}, NEW c \in Bytes PROVE OfBytes(HexDigit(d, c))
<1>1. d.cp \in Bytes /\ (d.state = "hex2" => d.cp \in 0..15)
  BY DEF OfBytes
<1>2. Xtod(c) = -1 \/ Xtod(c) \in 0..15
  BY DEF Xtod, Bytes
<1>3. OfBytes(Bad(d)) /\ OfBytes(Ground(Decodes(d, d.cp), c))
  BY <1>1, ByteBad, ByteDecoded, ByteGround
<1>4. Xtod(c) >= 0 => OfBytes(Collects(d, "hex2", Xtod(c)))
  <2>1. "hex2" \in Phases
    BY DEF Phases
  <2>2. Xtod(c) >= 0 => Xtod(c) \in Bytes /\ Xtod(c) \in 0..15
    BY <1>2 DEF Bytes
  <2> QED
    BY <2>1, <2>2, ByteCollected
<1>5. Xtod(c) >= 0 /\ d.state = "hex2" => OfBytes(Decodes(d, d.cp * 16 + Xtod(c)))
  <2>1. Xtod(c) >= 0 /\ d.state = "hex2" => d.cp * 16 + Xtod(c) \in Bytes
    BY <1>1, <1>2 DEF Bytes
  <2> QED
    BY <2>1, ByteDecoded
<1>6. Xtod(c) < 0 \/ Xtod(c) >= 0
  BY <1>2
<1> QED
  BY <1>3, <1>4, <1>5, <1>6 DEF HexDigit

\* Another byte.
LEMMA ByteStep == ASSUME NEW d, OfBytes(d), NEW c \in 1..127 PROVE OfBytes(unvis(d, c))
<1>1. c \in Bytes /\ d.state \in Phases
  BY DEF Bytes, OfBytes, Machines
<1>2. OfBytes(Ground(d, c)) /\ (d.state = "start" => OfBytes(Start(d, c))) /\ OfBytes(OctalDigit(d, c))
      /\ (d.state \in {"hex", "hex2"} => OfBytes(HexDigit(d, c)))
  BY <1>1, ByteGround, ByteStart, ByteOctal, ByteHex
<1>3. d.state = "meta" => OfBytes(AfterMeta(d, c))
  <2>1. d.state = "meta" => d.cp \in {0, 128} /\ d.cp \in Bytes
    BY DEF OfBytes
  <2>2. "meta1" \in Phases /\ "ctrl" \in Phases
    BY DEF Phases
  <2> QED
    BY <2>1, <2>2, ByteCollected, ByteBad DEF AfterMeta
<1>4. d.state = "meta1" => OfBytes(Decodes(d, Or(d.cp, c)))
  <2>1. d.state = "meta1" => Or(d.cp, c) \in Bytes
    <3>1. d.state = "meta1" => d.cp \in {0, 128}
      BY DEF OfBytes
    <3> QED
      BY <3>1 DEF Or, Bytes
  <2> QED
    BY <2>1, ByteDecoded
<1>5. d.state = "ctrl" => OfBytes(Ctrl(d, c))
  <2>1. d.state = "ctrl" => Or(d.cp, 127) \in Bytes /\ Or(d.cp, c % 32) \in Bytes
    <3>1. d.state = "ctrl" => d.cp \in {0, 128}
      BY DEF OfBytes
    <3>2. c % 32 \in 0..31
      OBVIOUS
    <3> QED
      BY <3>1, <3>2 DEF Or, Bytes
  <2>2. d.state = "ctrl" => OfBytes(Decodes(d, Or(d.cp, 127))) /\ OfBytes(Decodes(d, Or(d.cp, c % 32)))
    BY <2>1, ByteDecoded
  <2> QED
    BY <2>2 DEF Ctrl
<1> HIDE DEF OfBytes
<1> QED
  BY <1>1, <1>2, <1>3, <1>4, <1>5 DEF unvis, Phases

\* strunvis makes bytes of what printing characters a line begins with.
LEMMA StrunvisGives ==
  ASSUME NEW s \in Seq(1..127) PROVE strunvis(s) \in Seq(Bytes)
<1> DEFINE f == Decoders(Decoder, s)
           n == Len(s)
           G == {i \in 0..n : OfBytes(f[i])}
<1>1. n \in Nat /\ s \in Seq(Int) /\ \A i \in 1..n : s[i] \in 1..127 /\ s[i] \in Int
  <2>1. 1..127 \subseteq Int
    OBVIOUS
  <2>2. s \in Seq(Int)
    BY <2>1, SeqMonotonic
  <2>3. Len(s) \in Nat /\ \A i \in 1..Len(s) : s[i] \in 1..127
    BY MemberOf, Zenon
  <2> QED
    BY <2>1, <2>2, <2>3
<1>2. Decoder \in Machines /\ OfBytes(Decoder)
  <2>1. Decoder \in Machines
    BY DEF Decoder, Machines, Phases
  <2>2. Decoder.text = <<>> /\ Decoder.cp = 0 /\ Decoder.state = "ground" /\ <<>> \in Seq(Bytes)
    BY DEF Decoder
  <2> QED
    BY <2>1, <2>2 DEF OfBytes, Bytes
<1>3. Steps(Machines, Unvis, Decoder, s, f)
  BY <1>1, <1>2, DecodersIs
<1>4. f[0] = Decoder /\ \A i \in 1..n : f[i] = Unvis[s[i]][f[i - 1]]
  BY <1>3, Zenon DEF Steps
<1> HIDE DEF f
<1>5. 0 \in G
  BY <1>1, <1>2, <1>4
<1>6. ASSUME NEW i \in 1..n, i - 1 \in G PROVE i \in G
  <2>1. OfBytes(f[i - 1]) /\ f[i - 1] \in Machines /\ i \in 0..n
    BY <1>1, <1>6 DEF OfBytes
  <2>2. Unvis[s[i]][f[i - 1]] = unvis(f[i - 1], s[i])
    BY <1>1, <2>1 DEF Unvis
  <2>3. OfBytes(unvis(f[i - 1], s[i]))
    BY <1>1, <2>1, ByteStep
  <2> QED
    BY <1>4, <2>1, <2>2, <2>3
<1> HIDE DEF G
<1>7. n \in G
  <2>1. \A i \in 0..n : i \in G
    BY <1>1, <1>5, <1>6, Induction
  <2> QED
    BY <1>1, <2>1
<1>8. OfBytes(f[n])
  BY <1>7 DEF G
<1>9. OfBytes(Ended(f[n]))
  <2>1. f[n].cp \in Bytes
    BY <1>8 DEF OfBytes
  <2> QED
    BY <1>8, <2>1, ByteDecoded, Zenon DEF Ended
<1> QED
  BY <1>9 DEF strunvis, f, OfBytes

\* A string ends somewhere, and it ends where it ended if there is no NUL in it.
LEMMA StrlenIs ==
  ASSUME NEW t \in Seq(Bytes)
  PROVE  UpToNul(t) \in Text /\ (t \in Text => UpToNul(t) = t)
<1> DEFINE N == Len(t)
           Ends(n) == (\A i \in 1..n : t[i] # 0) /\ (n < N => t[n + 1] = 0)
           G == {n \in 0..N : \A i \in 1..n : t[i] # 0}
<1>1. N \in Nat /\ \A i \in 1..N : t[i] \in Bytes
  OBVIOUS
<1>2. \E n \in 0..N : Ends(n)
  <2>1. SUFFICES ASSUME ~ \E n \in 0..N : Ends(n) PROVE FALSE
    OBVIOUS
  <2>2. 0 \in G
    BY <1>1
  <2>3. ASSUME NEW i \in 1..N, i - 1 \in G PROVE i \in G
    <3>1. i - 1 \in 0..N /\ i - 1 < N /\ (i - 1) + 1 = i /\ i \in 0..N
      BY <1>1
    <3>2. t[i] # 0
      BY <2>1, <2>3, <3>1
    <3>3. \A j \in 1..i : j \in 1..(i - 1) \/ j = i
      BY <1>1
    <3> QED
      BY <2>3, <3>1, <3>2, <3>3
  <2> HIDE DEF G
  <2>4. N \in G
    <3>1. \A i \in 0..N : i \in G
      BY <1>1, <2>2, <2>3, Induction
    <3> QED
      BY <1>1, <3>1
  <2>5. N \in 0..N /\ Ends(N)
    BY <1>1, <2>4 DEF G
  <2> QED
    BY <2>1, <2>5, Zenon
<1>3. strlen(t) \in 0..N /\ Ends(strlen(t))
  BY <1>2, Zenon DEF strlen
<1> DEFINE k == strlen(t)
<1> HIDE DEF k
<1>4. k \in 0..N /\ (\A i \in 1..k : t[i] # 0) /\ (k < N => t[k + 1] = 0)
  BY <1>3, Zenon DEF k
<1>5. UpToNul(t) = SubSeq(t, 1, k)
  BY Zenon DEF UpToNul, k
<1>6. SubSeq(t, 1, k) \in Text
  <2>1. \A i \in 1..k : t[i] \in 1..255
    BY <1>1, <1>4 DEF Bytes
  <2>2. SubSeq(t, 1, k) = [i \in 1..k |-> t[i]] /\ k \in Nat
    BY <1>1, <1>4
  <2>3. [i \in 1..k |-> t[i]] \in [1..k -> 1..255]
    BY <2>1
  <2> QED
    BY <2>2, <2>3 DEF Text
<1>7. ASSUME t \in Text PROVE SubSeq(t, 1, k) = t
  <2>1. \A i \in 1..N : t[i] # 0
    <3>1. \A i \in 1..N : t[i] \in 1..255
      BY <1>7, MemberOf, Zenon DEF Text
    <3>2. \A x \in 1..255 : x # 0
      OBVIOUS
    <3> QED
      BY <3>1, <3>2, Zenon
  <2>2. k = N
    BY <1>1, <1>4, <2>1
  <2> QED
    BY <2>2, AllOf
<1> QED
  BY <1>5, <1>6, <1>7

-----------------------------------------------------------------------------
(* fgetln's buffer                                                         *)

AtLeast(room) == {r \in Nat : r >= room}
Growing(room) == [line \in Seq(Int) |-> [r \in AtLeast(room) |-> Grown(r, line)]]

\* It never becomes smaller.
LEMMA GrownIs ==
  ASSUME NEW room \in Nat, room >= 2, NEW r \in AtLeast(room), NEW line \in Seq(Int)
  PROVE  Grown(r, line) \in AtLeast(room)
<1>1. LineSize \in Nat /\ LineSize >= 2 /\ r \in Nat /\ r >= room /\ Len(line) \in Nat
  BY HistoryAssumption DEF AtLeast
<1>2. Rereads(r, line) \in Nat
  <2>1. CASE Len(line) < r - 1
    BY <2>1 DEF Rereads
  <2>2. CASE ~ (Len(line) < r - 1)
    <3> DEFINE a == Len(line) - r + LineSize
               b == LineSize - 1
    <3>1. a \in Nat /\ b \in Nat /\ b > 0
      BY <1>1, <2>2
    <3>2. Rereads(r, line) = a \div b
      BY <2>2 DEF Rereads
    <3> HIDE DEF a, b
    <3>3. a \div b \in Nat
      BY <3>1
    <3> QED
      BY <3>2, <3>3
  <2> QED
    BY <2>1, <2>2
<1> DEFINE x == Rereads(r, line) * LineSize
<1>3. x \in Nat
  BY <1>1, <1>2
<1> HIDE DEF x
<1>4. r + x \in Nat /\ r + x >= room
  BY <1>1, <1>3
<1> QED
  BY <1>4 DEF Grown, AtLeast, x

\* At any line of a file.
LEMMA RoomsIs ==
  ASSUME NEW room \in Nat, room >= 2, NEW s \in Seq(Seq(Int))
  PROVE  \A i \in 0..Len(s) : Rooms(room, s)[i] \in AtLeast(room)
<1> DEFINE n == Len(s)
           T == AtLeast(room)
           h == Growing(room)
           Def(f) == f = [i \in 0..n |-> IF i = 0 THEN room ELSE Grown(f[i - 1], s[i])]
           e == CHOOSE f : Def(f)
<1>1. n \in Nat /\ \A i \in 1..n : s[i] \in Seq(Int)
  BY MemberOf, Zenon
<1>2. room \in T
  BY DEF AtLeast
<1>3. \A r \in T, l \in Seq(Int) : Grown(r, l) \in T
  BY GrownIs
<1> HIDE DEF T
<1>4. h \in [Seq(Int) -> [T -> T]] /\ \A r \in T, l \in Seq(Int) : h[l][r] = Grown(r, l)
  BY <1>3 DEF Growing, T
<1> HIDE DEF h
<1>5. PICK f : Recurs(h, room, s, f) /\ Steps(T, h, room, s, f)
  BY <1>2, <1>4, StepsRecur, Zenon
<1>6. Def(f)
  <2>1. f \in [0..n -> T] /\ f = [i \in 0..n |-> IF i = 0 THEN room ELSE h[s[i]][f[i - 1]]]
    BY <1>5 DEF Steps, Recurs
  <2>2. ASSUME NEW i \in 0..n
        PROVE  (IF i = 0 THEN room ELSE h[s[i]][f[i - 1]]) = IF i = 0 THEN room ELSE Grown(f[i - 1], s[i])
    <3>1. CASE i = 0
      BY <3>1
    <3>2. CASE i # 0
      <4>1. i - 1 \in 0..n /\ i \in 1..n
        BY <1>1, <3>2
      <4>2. f[i - 1] \in T /\ s[i] \in Seq(Int)
        BY <1>1, <2>1, <4>1
      <4> QED
        BY <1>4, <3>2, <4>2, Zenon
    <3> QED
      BY <3>1, <3>2
  <2>3. [i \in 0..n |-> IF i = 0 THEN room ELSE h[s[i]][f[i - 1]]]
        = [i \in 0..n |-> IF i = 0 THEN room ELSE Grown(f[i - 1], s[i])]
    BY <2>2, Zenon
  <2> QED
    BY <2>1, <2>3, Zenon
<1>7. Def(e)
  BY <1>6, Zenon
<1>8. Rooms(room, s) = e
  BY DEF Rooms
<1>9. \A i \in 0..n : e[i] = IF i = 0 THEN room ELSE Grown(e[i - 1], s[i])
  BY <1>7, Zenon
<1> HIDE DEF e
<1> DEFINE G == {i \in 0..n : e[i] \in T}
<1>10. 0 \in G
  BY <1>1, <1>2, <1>9
<1>11. ASSUME NEW i \in 1..n, i - 1 \in G PROVE i \in G
  <2>1. i \in 0..n /\ i # 0 /\ s[i] \in Seq(Int)
    BY <1>1
  <2>2. e[i] = Grown(e[i - 1], s[i])
    BY <1>9, <2>1, Zenon
  <2>3. e[i] \in T
    BY <1>3, <1>11, <2>1, <2>2
  <2> QED
    BY <2>1, <2>3
<1> HIDE DEF G
<1>12. \A i \in 0..n : i \in G
  BY <1>1, <1>10, <1>11, Induction
<1> QED
  BY <1>8, <1>12 DEF G, T

\* A beginning of a sequence.
LEMMA UpTo ==
  ASSUME NEW U, NEW u \in Seq(U), NEW n \in 0..Len(u) PROVE SubSeq(u, 1, n) \in Seq(U)
  OBVIOUS

\* What fgetln reads of a line is its beginning, or all of it if there is room.
LEMMA Begins ==
  ASSUME NEW s \in Seq(1..127), NEW room \in Nat, room >= 2
  PROVE  /\ DecodedLine(room, s) \in Seq(Bytes)
         /\ Len(s) < room => DecodedLine(room, s) = strunvis(s)
<1> DEFINE n == IF Len(s) < room THEN Len(s) ELSE room - 1
<1>1. n \in 0..Len(s) /\ Len(s) \in Nat
  OBVIOUS
<1> HIDE DEF n
<1>2. SubSeq(s, 1, n) \in Seq(1..127)
  BY <1>1, UpTo, Zenon
<1>3. DecodedLine(room, s) = strunvis(SubSeq(s, 1, n))
  BY Zenon DEF DecodedLine, n
<1>4. Len(s) < room => SubSeq(s, 1, n) = s
  BY <1>1, AllOf DEF n
<1> QED
  BY <1>2, <1>3, <1>4, StrunvisGives

\* The lines of a file are the codes of its texts.
LEMMA LinesAre ==
  ASSUME NEW texts \in Seq(Text)
  PROVE  /\ Lines(FileOf(texts)) = Coded(texts)
         /\ Coded(texts) \in Seq(Seq(Int)) /\ Len(Coded(texts)) = Len(texts)
         /\ \A i \in 1..Len(texts) : Coded(texts)[i] = strvis(texts[i]) /\ texts[i] \in Text
<1> DEFINE cs == Coded(texts)
           r == Fetches([done |-> <<>>, line |-> <<>>], FileOf(texts))[Len(FileOf(texts))]
           lines == Lines(FileOf(texts))
<1>1. cs \in Seq(Seq(Int)) /\ Len(cs) = Len(texts)
  BY PiecesIs, VisiblesSeqs
<1>2. \A i \in 1..Len(texts) : cs[i] = strvis(texts[i])
  BY DEF Coded
<1>3. \A i \in 1..Len(texts) : texts[i] \in Text
  BY MemberOf, Zenon
<1>4. r = Reading(cs, <<>>)
  BY FileIs, Zenon DEF Read, Reading
<1> HIDE DEF cs
<1>5. lines = IF r.line = <<>> THEN r.done ELSE Append(r.done, r.line)
  BY Zenon DEF Lines
<1> HIDE DEF r
<1>6. r.line = <<>> /\ r.done = cs
  BY <1>4 DEF Reading
<1>7. lines = cs
  BY <1>5, <1>6, Zenon
<1> QED
  BY <1>1, <1>2, <1>3, <1>7 DEF cs

\* What is read of a file is texts, as many as were written.
LEMMA FileGives ==
  ASSUME NEW texts \in Seq(Text), NEW room \in Nat, room >= 2
  PROVE  LET bytes == FileOf(texts)
         IN  /\ TextsIn(room, bytes) \in Seq(Text) /\ Len(TextsIn(room, bytes)) \in Nat
             /\ \A i \in 0..Len(TextsIn(room, bytes)) :
                  Rooms(room, Lines(bytes))[i] \in Nat /\ Rooms(room, Lines(bytes))[i] >= 2
<1> DEFINE bytes == FileOf(texts)
           cs == Coded(texts)
           n == Len(texts)
           rooms == Rooms(room, cs)
           given == TextsIn(room, bytes)
           t(i) == UpToNul(DecodedLine(rooms[i - 1], cs[i]))
<1>1. /\ Lines(bytes) = cs /\ cs \in Seq(Seq(Int)) /\ Len(cs) = n /\ n \in Nat /\ DOMAIN cs = 1..n
      /\ \A i \in 1..n : cs[i] \in Seq(1..127)
  <2>1. Lines(bytes) = cs /\ cs \in Seq(Seq(Int)) /\ Len(cs) = n /\ n \in Nat
    BY LinesAre
  <2>2. \A i \in 1..n : cs[i] \in Seq(1..127)
    BY LinesAre, CodesAscii
  <2> QED
    BY <2>1, <2>2
<1>2. \A i \in 0..n : rooms[i] \in Nat /\ rooms[i] >= 2
  BY <1>1, RoomsIs DEF AtLeast
<1>3. given = [i \in 1..n |-> t(i)]
  BY <1>1, Zenon DEF TextsIn
<1> HIDE DEF given, rooms, cs, n, bytes
<1>4. ASSUME NEW i \in 1..n PROVE t(i) \in Text
  <2>1. i - 1 \in 0..n
    BY <1>1
  <2>2. rooms[i - 1] \in Nat /\ rooms[i - 1] >= 2 /\ cs[i] \in Seq(1..127)
    BY <1>1, <1>2, <2>1
  <2>3. DecodedLine(rooms[i - 1], cs[i]) \in Seq(Bytes)
    BY <2>2, Begins
  <2> QED
    BY <2>3, StrlenIs
<1>5. given \in [1..n -> Text]
  BY <1>3, <1>4
<1>6. given \in Seq(Text) /\ Len(given) = n
  BY <1>1, <1>5
<1> QED
  BY <1>1, <1>2, <1>6 DEF given, rooms, bytes

\* What is read of a file is what was written, if no line is longer than fgetln's buffer.
LEMMA FileRestored ==
  ASSUME NEW texts \in Seq(Text), NEW room \in Nat, room >= 2,
         \A i \in 1..Len(texts) : Len(strvis(texts[i])) < room
  PROVE  TextsIn(room, FileOf(texts)) = texts
<1> DEFINE cs == Coded(texts)
           n == Len(texts)
           rooms == Rooms(room, cs)
           t(i) == UpToNul(DecodedLine(rooms[i - 1], cs[i]))
<1>1. /\ Lines(FileOf(texts)) = cs /\ cs \in Seq(Seq(Int)) /\ Len(cs) = n /\ n \in Nat /\ DOMAIN cs = 1..n
      /\ \A i \in 1..n : cs[i] = strvis(texts[i]) /\ texts[i] \in Text
  BY LinesAre
<1>2. \A i \in 0..n : rooms[i] \in Nat /\ rooms[i] >= room
  BY <1>1, RoomsIs DEF AtLeast
<1>3. TextsIn(room, FileOf(texts)) = [i \in 1..n |-> t(i)]
  BY <1>1, Zenon DEF TextsIn
<1> HIDE DEF rooms, cs, n
<1>4. ASSUME NEW i \in 1..n PROVE t(i) = texts[i]
  <2>1. i - 1 \in 0..n
    BY <1>1
  <2>2. rooms[i - 1] \in Nat /\ rooms[i - 1] >= 2 /\ rooms[i - 1] >= room
    BY <1>2, <2>1
  <2>3. cs[i] = strvis(texts[i]) /\ texts[i] \in Text /\ Len(strvis(texts[i])) < room
    BY <1>1 DEF n
  <2>4. cs[i] \in Seq(1..127) /\ Len(cs[i]) \in Nat /\ Len(cs[i]) < rooms[i - 1]
    <3>1. cs[i] \in Seq(1..127)
      BY <2>3, CodesAscii
    <3> QED
      BY <2>2, <2>3, <3>1
  <2>5. DecodedLine(rooms[i - 1], cs[i]) = texts[i]
    BY <2>2, <2>3, <2>4, Begins, StrunvisUndoes
  <2>6. texts[i] \in Seq(Bytes)
    <3>1. 1..255 \subseteq Bytes
      BY DEF Bytes
    <3> QED
      BY <2>3, <3>1, SeqMonotonic DEF Text
  <2> QED
    BY <2>3, <2>5, <2>6, StrlenIs
<1>5. [i \in 1..n |-> t(i)] = [i \in 1..n |-> texts[i]]
  BY <1>4, Zenon
<1>6. texts = [i \in 1..n |-> texts[i]]
  BY DEF n
<1> QED
  BY <1>3, <1>5, <1>6, Zenon

-----------------------------------------------------------------------------
(* The list and its cursor                                                 *)

Entry(T) == [num : Nat, text : T]

\* The numbers of l go down from e at most, and none is 0.
Descends(l, e) ==
  /\ \A i \in 1..Len(l) : l[i].num \in 1..e
  /\ \A i, j \in 1..Len(l) : i < j => l[j].num < l[i].num

IsStore(s, T) ==
  /\ s \in [list : Seq(Entry(T)), cursor : Nat, eventid : Nat]
  /\ Descends(s.list, s.eventid)

On(s) == s.cursor = 0 \/ \E i \in 1..Len(s.list) : s.list[i].num = s.cursor

\* Place finds the entry that has a number.
LEMMA PlaceIs ==
  ASSUME NEW T, NEW l \in Seq(Entry(T)), NEW e \in Nat, Descends(l, e),
         NEW i \in 1..Len(l)
  PROVE  Place(l, l[i].num) = i
<1>1. \A j \in 1..Len(l) : l[j].num = l[i].num => j = i
  <2>1. ASSUME NEW j \in 1..Len(l), l[j].num = l[i].num PROVE j = i
    <3>0. l[i] \in Entry(T) /\ l[j] \in Entry(T)
      OBVIOUS
    <3>1. l[i].num \in Nat /\ l[j].num \in Nat
      BY <3>0 DEF Entry
    <3>2. ~ (l[j].num < l[i].num) /\ ~ (l[i].num < l[j].num)
      BY <2>1, <3>1
    <3>3. ~ (i < j) /\ ~ (j < i)
      BY <3>2 DEF Descends
    <3> QED
      BY <3>3
  <2> QED
    BY <2>1
<1>2. DOMAIN l = 1..Len(l)
  OBVIOUS
<1> QED
  BY <1>1, <1>2, Zenon DEF Place

\* What RemoveAt leaves.
LEMMA RemoveAtIs ==
  ASSUME NEW S, NEW l \in Seq(S), NEW k \in 1..Len(l)
  PROVE  /\ RemoveAt(l, k) \in Seq(S)
         /\ Len(RemoveAt(l, k)) = Len(l) - 1
         /\ \A i \in 1..Len(l) - 1 : RemoveAt(l, k)[i] = IF i < k THEN l[i] ELSE l[i + 1]
<1> DEFINE a == SubSeq(l, 1, k - 1)
           b == SubSeq(l, k + 1, Len(l))
<1>1. a \in Seq(S) /\ Len(a) = k - 1 /\ \A i \in 1..k - 1 : a[i] = l[i]
  OBVIOUS
<1>2. b \in Seq(S) /\ Len(b) = Len(l) - k /\ \A i \in 1..Len(l) - k : b[i] = l[k + i]
  OBVIOUS
<1>3. RemoveAt(l, k) = a \o b
  BY DEF RemoveAt
<1> HIDE DEF a, b
<1>4. a \o b \in Seq(S) /\ Len(a \o b) = Len(l) - 1
  <2>0. a \in Seq(S) /\ b \in Seq(S)
    BY <1>1, <1>2
  <2>1. a \o b \in Seq(S) /\ Len(a \o b) = Len(a) + Len(b)
    BY <2>0
  <2>2. (k - 1) + (Len(l) - k) = Len(l) - 1
    OBVIOUS
  <2> QED
    BY <1>1, <1>2, <2>1, <2>2, Zenon
<1>5. ASSUME NEW i \in 1..Len(l) - 1 PROVE (a \o b)[i] = IF i < k THEN l[i] ELSE l[i + 1]
  <2>0. /\ \A j \in 1..Len(a) : (a \o b)[j] = a[j]
        /\ \A j \in 1..Len(b) : (a \o b)[Len(a) + j] = b[j]
    BY <1>1, <1>2
  <2>1. CASE i < k
    <3>1. i \in 1..k - 1
      BY <2>1
    <3> QED
      BY <1>1, <2>0, <2>1, <3>1
  <2>2. CASE ~ (i < k)
    <3>2. /\ i - (k - 1) \in 1..Len(l) - k /\ k + (i - (k - 1)) = i + 1
          /\ (k - 1) + (i - (k - 1)) = i
      BY <2>2
    <3>1. (a \o b)[i] = b[i - (k - 1)]
      BY <1>1, <1>2, <2>0, <3>2
    <3> QED
      BY <1>2, <2>2, <3>1, <3>2
  <2> QED
    BY <2>1, <2>2
<1> QED
  BY <1>3, <1>4, <1>5

\* An entry goes.
LEMMA RemovalDescends ==
  ASSUME NEW T, NEW l \in Seq(Entry(T)), NEW e \in Nat, Descends(l, e), NEW k \in 1..Len(l)
  PROVE  RemoveAt(l, k) \in Seq(Entry(T)) /\ Descends(RemoveAt(l, k), e)
<1> DEFINE m == RemoveAt(l, k)
           at(i) == IF i < k THEN i ELSE i + 1
<1>1. /\ m \in Seq(Entry(T)) /\ Len(m) = Len(l) - 1
      /\ \A i \in 1..Len(l) - 1 : m[i] = IF i < k THEN l[i] ELSE l[i + 1]
  BY RemoveAtIs
<1>2. \A i \in 1..Len(m) : at(i) \in 1..Len(l) /\ m[i] = l[at(i)]
  BY <1>1
<1>3. \A i, j \in 1..Len(m) : i < j => at(i) < at(j)
  BY <1>1
<1> HIDE DEF m, at
<1>4. Descends(m, e)
  <2>1. ASSUME NEW i \in 1..Len(m) PROVE m[i].num \in 1..e
    BY <1>2 DEF Descends
  <2>2. ASSUME NEW i \in 1..Len(m), NEW j \in 1..Len(m), i < j PROVE m[j].num < m[i].num
    BY <1>2, <1>3, <2>2 DEF Descends
  <2> QED
    BY <2>1, <2>2 DEF Descends
<1> QED
  BY <1>1, <1>4 DEF m

\* Whatever the cursor is on, it is on an entry again when one has gone.
LEMMA DeletedIsStore ==
  ASSUME NEW T, NEW s, IsStore(s, T), On(s), NEW k \in 1..Len(s.list)
  PROVE  IsStore(Deleted(s, k), T) /\ On(Deleted(s, k))
<1> DEFINE l == s.list
           m == RemoveAt(l, k)
           c == IF s.cursor # l[k].num THEN s.cursor
                ELSE IF k > 1 THEN l[k - 1].num
                ELSE IF Len(l) > 1 THEN l[2].num ELSE 0
           d == Deleted(s, k)
<1>1. l \in Seq(Entry(T)) /\ s.cursor \in Nat /\ s.eventid \in Nat /\ Descends(l, s.eventid)
  BY DEF IsStore
<1>2. m \in Seq(Entry(T)) /\ Descends(m, s.eventid)
  BY <1>1, RemovalDescends
<1>3. /\ Len(m) = Len(l) - 1
      /\ \A i \in 1..Len(l) - 1 : m[i] = IF i < k THEN l[i] ELSE l[i + 1]
  BY <1>1, RemoveAtIs
<1>4. \A i \in 1..Len(l) : l[i].num \in Nat
  BY <1>1 DEF Descends
<1>5. c \in Nat
  BY <1>1, <1>4
<1>6. d.list = m /\ d.cursor = c /\ d.eventid = s.eventid
      /\ d \in [list : Seq(Entry(T)), cursor : Nat, eventid : Nat]
  BY <1>2, <1>5 DEF Deleted, IsStore
<1>7. c = 0 \/ \E i \in 1..Len(m) : m[i].num = c
  <2>1. CASE s.cursor # l[k].num /\ s.cursor # 0
    <3>1. PICK i \in 1..Len(l) : l[i].num = s.cursor
      BY <2>1 DEF On
    <3>2. i # k
      BY <2>1, <3>1
    <3>3. CASE i < k
      <4>1. i \in 1..Len(m) /\ m[i] = l[i]
        BY <1>3, <3>3
      <4> QED
        BY <2>1, <3>1, <4>1
    <3>4. CASE i > k
      <4>1. i - 1 \in 1..Len(m) /\ m[i - 1] = l[(i - 1) + 1] /\ (i - 1) + 1 = i
        BY <1>3, <3>4
      <4> QED
        BY <2>1, <3>1, <4>1
    <3> QED
      BY <3>2, <3>3, <3>4
  <2>2. CASE s.cursor # l[k].num /\ s.cursor = 0
    BY <2>2
  <2>3. CASE s.cursor = l[k].num /\ k > 1
    <3>1. k - 1 \in 1..Len(m) /\ m[k - 1] = l[k - 1]
      BY <1>3, <2>3
    <3> QED
      BY <2>3, <3>1
  <2>4. CASE s.cursor = l[k].num /\ ~ (k > 1) /\ Len(l) > 1
    <3>1. 1 \in 1..Len(m) /\ m[1] = l[2]
      BY <1>3, <2>4
    <3> QED
      BY <2>4, <3>1
  <2>5. CASE s.cursor = l[k].num /\ ~ (k > 1) /\ ~ (Len(l) > 1)
    BY <2>5
  <2> QED
    BY <2>1, <2>2, <2>3, <2>4, <2>5
<1> HIDE DEF l, m, c, d
<1>8. IsStore(d, T) /\ On(d)
  BY <1>2, <1>6, <1>7 DEF IsStore, On
<1> QED
  BY <1>8 DEF d

\* The new entry is the first, with the cursor on it.
LEMMA InsertedIsStore ==
  ASSUME NEW T, NEW s, IsStore(s, T), NEW t \in T
  PROVE  /\ IsStore(Inserted(s, t), T)
         /\ Len(Inserted(s, t).list) = Len(s.list) + 1
         /\ Inserted(s, t).cursor = Inserted(s, t).list[1].num
         /\ Inserted(s, t).list[1].text = t
         /\ \A i \in 1..Len(s.list) : Inserted(s, t).list[i + 1] = s.list[i]
         /\ Inserted(s, t).eventid = s.eventid + 1
<1> DEFINE l == s.list
           n == [num |-> s.eventid + 1, text |-> t]
           m == <<n>> \o l
           d == Inserted(s, t)
<1>1. l \in Seq(Entry(T)) /\ s.eventid \in Nat /\ Descends(l, s.eventid)
  BY DEF IsStore
<1>2. n \in Entry(T)
  BY <1>1 DEF Entry
<1>3. m \in Seq(Entry(T)) /\ Len(m) = Len(l) + 1 /\ m[1] = n
  BY <1>1, <1>2
<1>4. \A i \in 1..Len(l) : m[i + 1] = l[i]
  BY <1>1, <1>2
<1>5. d = [list |-> m, cursor |-> s.eventid + 1, eventid |-> s.eventid + 1]
  BY DEF Inserted
<1>6. n.num = s.eventid + 1 /\ n.text = t
  OBVIOUS
<1> HIDE DEF m, n, d, l
<1>7. Descends(m, s.eventid + 1)
  <2>1. ASSUME NEW i \in 1..Len(m) PROVE m[i].num \in 1..s.eventid + 1
    <3>1. CASE i = 1
      BY <1>1, <1>3, <1>6, <3>1
    <3>2. CASE i # 1
      <4>1. i - 1 \in 1..Len(l) /\ (i - 1) + 1 = i
        BY <1>1, <1>3, <3>2
      <4>2. m[i] = l[i - 1]
        BY <1>4, <4>1
      <4> QED
        BY <1>1, <4>1, <4>2 DEF Descends
    <3> QED
      BY <3>1, <3>2
  <2>2. ASSUME NEW i \in 1..Len(m), NEW j \in 1..Len(m), i < j PROVE m[j].num < m[i].num
    <3>1. j - 1 \in 1..Len(l) /\ (j - 1) + 1 = j
      BY <1>1, <1>3, <2>2
    <3>2. m[j] = l[j - 1] /\ l[j - 1].num \in 1..s.eventid
      BY <1>1, <1>4, <3>1 DEF Descends
    <3>3. CASE i = 1
      BY <1>1, <1>3, <1>6, <3>2, <3>3
    <3>4. CASE i # 1
      <4>1. i - 1 \in 1..Len(l) /\ (i - 1) + 1 = i /\ i - 1 < j - 1
        BY <1>1, <1>3, <2>2, <3>4
      <4>2. m[i] = l[i - 1]
        BY <1>4, <4>1
      <4> QED
        BY <1>1, <3>1, <3>2, <4>1, <4>2 DEF Descends
    <3> QED
      BY <3>3, <3>4
  <2> QED
    BY <2>1, <2>2 DEF Descends
<1>8. IsStore(d, T)
  BY <1>1, <1>3, <1>5, <1>7 DEF IsStore
<1> QED
  BY <1>3, <1>4, <1>5, <1>6, <1>8 DEF d, l

\* The newest entries are kept, and the first is one of them, if any is.
LEMMA TrimmedIsStore ==
  ASSUME NEW T, NEW s, IsStore(s, T), NEW size \in Nat, s.list # <<>>,
         s.cursor = s.list[1].num
  PROVE  IsStore(Trimmed(s, size), T) /\ On(Trimmed(s, size))
<1> DEFINE l == s.list
           n == IF Len(l) < size THEN Len(l) ELSE size
           m == SubSeq(l, 1, n)
           c == IF size = 0 THEN 0 ELSE s.cursor
           d == Trimmed(s, size)
<1>1. l \in Seq(Entry(T)) /\ s.cursor \in Nat /\ s.eventid \in Nat /\ Descends(l, s.eventid)
  BY DEF IsStore
<1>2. n \in 0..Len(l) /\ (size # 0 => n > 0)
  BY <1>1
<1>3. m \in Seq(Entry(T)) /\ Len(m) = n /\ \A i \in 1..n : m[i] = l[i]
  BY <1>1, <1>2
<1>4. c \in Nat
  BY <1>1
<1>5. d.list = m /\ d.cursor = c /\ d.eventid = s.eventid
      /\ d \in [list : Seq(Entry(T)), cursor : Nat, eventid : Nat]
  BY <1>3, <1>4 DEF Trimmed, IsStore
<1>6. c = 0 \/ (1 \in 1..n /\ l[1].num = c)
  BY <1>2
<1> HIDE DEF m, n, c, d, l
<1>7. Descends(m, s.eventid)
  <2>1. \A i \in 1..Len(m) : i \in 1..Len(l) /\ m[i] = l[i]
    BY <1>1, <1>2, <1>3
  <2> QED
    BY <1>1, <2>1, Zenon DEF Descends
<1>8. IsStore(d, T) /\ On(d)
  BY <1>3, <1>5, <1>6, <1>7 DEF IsStore, On
<1> QED
  BY <1>8 DEF d

\* history_def_enter keeps a store, with the cursor on an entry, for any size.
LEMMA EnteredIsStore ==
  ASSUME NEW T, NEW s, IsStore(s, T), On(s), NEW t \in T, max \in Nat
  PROVE  IsStore(Entered(s, t), T) /\ On(Entered(s, t))
<1>1. CASE Duplicate(s, t)
  BY <1>1 DEF Entered
<1>2. CASE ~Duplicate(s, t)
  <2> DEFINE d == Inserted(s, t)
  <2>1. IsStore(d, T) /\ d.cursor = d.list[1].num /\ Len(d.list) = Len(s.list) + 1
    BY InsertedIsStore
  <2>2. Len(s.list) \in Nat
    BY DEF IsStore
  <2>3. d.list # <<>>
    BY <2>1, <2>2
  <2>4. Entered(s, t) = Trimmed(d, max)
    BY <1>2 DEF Entered
  <2> HIDE DEF d
  <2> QED
    BY <2>1, <2>3, <2>4, TrimmedIsStore
<1> QED
  BY <1>1, <1>2

\* The stores there can be.
Stores == {s \in [list : Seq(Entry(Text)), cursor : Nat, eventid : Nat] : IsStore(s, Text) /\ On(s)}

\* What is in Stores.
LEMMA StoresIs == ASSUME NEW s PROVE s \in Stores <=> IsStore(s, Text) /\ On(s)
  BY DEF Stores, IsStore

Entering == [t \in Text |-> [s \in Stores |-> Entered(s, t)]]

\* Entered as a function of the text and the store.
LEMMA EnteringIs == ASSUME max \in Nat PROVE Entering \in [Text -> [Stores -> Stores]]
<1>1. ASSUME NEW s \in Stores, NEW t \in Text PROVE Entered(s, t) \in Stores
  BY EnteredIsStore, StoresIs
<1> QED
  BY <1>1 DEF Entering

\* Loads enters the texts one by one.
LEMMA LoadsIs ==
  ASSUME max \in Nat, NEW d \in Stores, NEW s \in Seq(Text)
  PROVE  Steps(Stores, Entering, d, s, Loads(d, s))
<1> DEFINE n == Len(s)
           Def(f) == f = [i \in 0..n |-> IF i = 0 THEN d ELSE Entered(f[i - 1], s[i])]
           e == CHOOSE f : Def(f)
<1>1. n \in Nat /\ \A i \in 1..n : s[i] \in Text
  BY MemberOf, Zenon
<1>0. \A a \in Stores, c \in Text : Entered(a, c) \in Stores /\ Entered(a, c) = Entering[c][a]
  <2>1. ASSUME NEW a \in Stores, NEW c \in Text PROVE Entered(a, c) = Entering[c][a]
    BY DEF Entering
  <2>2. ASSUME NEW a \in Stores, NEW c \in Text PROVE Entering[c][a] \in Stores
    BY EnteringIs
  <2> QED
    BY <2>1, <2>2
<1>2. PICK f : Recurs(Entering, d, s, f) /\ Steps(Stores, Entering, d, s, f)
  BY EnteringIs, StepsRecur, Zenon
<1>3. ASSUME NEW g, \A i \in 0..n : i # 0 => g[i - 1] \in Stores
      PROVE  Def(g) <=> Recurs(Entering, d, s, g)
  <2>1. ASSUME NEW i \in 0..n
        PROVE (IF i = 0 THEN d ELSE Entered(g[i - 1], s[i]))
              = IF i = 0 THEN d ELSE Entering[s[i]][g[i - 1]]
    <3>1. CASE i = 0
      BY <3>1
    <3>2. CASE i # 0
      <4>1. g[i - 1] \in Stores /\ i \in 1..n
        BY <1>3, <3>2
      <4>2. s[i] \in Text
        BY <1>1, <4>1
      <4>3. Entered(g[i - 1], s[i]) = Entering[s[i]][g[i - 1]]
        BY <1>0, <4>1, <4>2
      <4> QED
        BY <4>3, <3>2, Zenon
    <3> QED
      BY <3>1, <3>2
  <2>2. [i \in 0..n |-> IF i = 0 THEN d ELSE Entered(g[i - 1], s[i])]
        = [i \in 0..n |-> IF i = 0 THEN d ELSE Entering[s[i]][g[i - 1]]]
    BY <2>1, Zenon
  <2> QED
    BY <2>2, Zenon DEF Recurs
<1>4. Def(f)
  <2>0. f \in [0..n -> Stores]
    BY <1>2 DEF Steps
  <2>1. ASSUME NEW i \in 0..n, i # 0 PROVE f[i - 1] \in Stores
    <3>1. i - 1 \in 0..n
      BY <1>1, <2>1
    <3> QED
      BY <2>0, <3>1
  <2> QED
    BY <1>2, <1>3, <2>1
<1>5. Def(e)
  BY <1>4, Zenon
<1>6. Loads(d, s) = e
  BY DEF Loads
<1>7. \A i \in 0..n : e[i] = IF i = 0 THEN d ELSE Entered(e[i - 1], s[i])
  BY <1>5, Zenon
<1> HIDE DEF e
<1> DEFINE G == {i \in 0..n : e[i] \in Stores}
<1>8. 0 \in G
  BY <1>1, <1>7
<1>9. ASSUME NEW i \in 1..n, i - 1 \in G PROVE i \in G
  <2>1. i \in 0..n /\ i # 0 /\ s[i] \in Text
    BY <1>1
  <2>2. e[i] = Entered(e[i - 1], s[i])
    BY <1>7, <2>1, Zenon
  <2>3. e[i] \in Stores
    BY <1>0, <1>9, <2>1, <2>2
  <2> QED
    BY <2>1, <2>3
<1> HIDE DEF G
<1>10. \A i \in 0..n : i \in G
  BY <1>1, <1>8, <1>9, Induction
<1>11. ASSUME NEW i \in 0..n, i # 0 PROVE e[i - 1] \in Stores
  <2>1. i - 1 \in 0..n
    BY <1>1, <1>11
  <2> QED
    BY <1>10, <2>1 DEF G
<1>12. Recurs(Entering, d, s, e)
  BY <1>3, <1>5, <1>11
<1> QED
  BY <1>6, <1>12, EnteringIs, StepsAgree

\* What is loaded is a store again.
LEMMA LoadedIsStore ==
  ASSUME max \in Nat, NEW d \in Stores, NEW s \in Seq(Text)
  PROVE  LoadedFrom(d, s) \in Stores
<1>1. Loads(d, s) \in [0..Len(s) -> Stores]
  BY LoadsIs DEF Steps
<1>2. Len(s) \in 0..Len(s)
  OBVIOUS
<1> QED
  BY <1>1, <1>2 DEF LoadedFrom

\* So is one with nothing in it.
LEMMA EmptyIsStore == Empty \in Stores
<1>1. <<>> \in Seq(Entry(Text)) /\ Len(<<>>) = 0
  OBVIOUS
<1>2. Empty \in [list : Seq(Entry(Text)), cursor : Nat, eventid : Nat]
  BY <1>1 DEF Empty
<1>3. Empty.list = <<>> /\ Empty.cursor = 0
  BY DEF Empty
<1>4. Descends(<<>>, Empty.eventid)
  BY <1>1 DEF Descends
<1> QED
  BY <1>2, <1>3, <1>4 DEF Stores, IsStore, On

\* There is room for t, and no duplicate is dropped.
Roomy(s, n) == s \in Stores /\ Len(s.list) = n /\ ~unique /\ max \in Nat /\ n + 1 <= max

\* The text is the first then, and nothing goes.
LEMMA EnteredGrows ==
  ASSUME NEW s, NEW n \in Nat, Roomy(s, n), NEW t \in Text
  PROVE  /\ Len(Entered(s, t).list) = n + 1
         /\ Entered(s, t).list[1].text = t
         /\ \A j \in 1..n : Entered(s, t).list[j + 1] = s.list[j]
<1> DEFINE d == Inserted(s, t)
           l == d.list
<1>1. IsStore(s, Text) /\ Len(s.list) = n
  BY StoresIs DEF Roomy
<1>2. /\ IsStore(d, Text) /\ Len(l) = n + 1 /\ l[1].text = t
      /\ \A j \in 1..n : l[j + 1] = s.list[j]
  BY <1>1, InsertedIsStore
<1>3. Entered(s, t) = Trimmed(d, max)
  BY DEF Entered, Duplicate, Roomy
<1>4. d \in [list : Seq(Entry(Text)), cursor : Nat, eventid : Nat] /\ l \in Seq(Entry(Text))
  BY <1>2 DEF IsStore
<1> HIDE DEF d
<1>5. max \in Nat /\ n + 1 <= max
  BY DEF Roomy
<1>6. (IF Len(l) < max THEN Len(l) ELSE max) = Len(l)
  <2>1. (IF n + 1 < max THEN n + 1 ELSE max) = n + 1
    BY <1>5
  <2> QED
    BY <1>2, <2>1, Zenon
<1>7. Trimmed(d, max).list = SubSeq(l, 1, Len(l))
  BY <1>4, <1>6 DEF Trimmed
<1>8. Trimmed(d, max).list = l
  BY <1>4, <1>7, AllOf
<1> QED
  BY <1>2, <1>3, <1>8

\* The newest of u is the first of l.
Mirrors(l, u, i) ==
  Len(l) = i /\ \A j \in 1..i : l[j].text = u[(i + 1) - j]

\* What is loaded into an empty history comes in the other order.
LEMMA LoadsMirrors ==
  ASSUME max \in Nat, ~unique, NEW u \in Seq(Text), Len(u) <= max
  PROVE  Mirrors(LoadedFrom(Empty, u).list, u, Len(u))
<1> DEFINE n == Len(u)
           f == Loads(Empty, u)
<1>1. n \in Nat /\ n <= max /\ \A i \in 1..n : u[i] \in Text
  BY MemberOf, Zenon
<1>2. Steps(Stores, Entering, Empty, u, f)
  BY EmptyIsStore, LoadsIs
<1>3. LoadedFrom(Empty, u) = f[n]
  BY DEF LoadedFrom
<1> HIDE DEF f
<1>4. f \in [0..n -> Stores] /\ f[0] = Empty /\ \A i \in 1..n : f[i] = Entering[u[i]][f[i - 1]]
  BY <1>2 DEF Steps
<1> HIDE DEF n
<1> DEFINE G == {i \in 0..n : Mirrors(f[i].list, u, i)}
<1>5. 0 \in G
  <2>1. f[0].list = <<>> /\ Len(<<>>) = 0
    BY <1>4 DEF Empty
  <2>2. Mirrors(f[0].list, u, 0)
    BY <2>1 DEF Mirrors
  <2> QED
    BY <1>1, <2>2
<1>6. ASSUME NEW i \in 1..n, i - 1 \in G PROVE i \in G
  <2>1. i \in 0..n /\ i - 1 \in 0..n /\ i - 1 \in Nat /\ (i - 1) + 1 = i
    BY <1>1
  <2> DEFINE s == f[i - 1]
             t == u[i]
             e == f[i]
             l == e.list
             k == i - 1
  <2>2. s \in Stores /\ t \in Text
    BY <1>1, <1>4, <2>1, Zenon
  <2>3. Mirrors(s.list, u, k)
    BY <1>6
  <2>4. e = Entered(s, t)
    BY <1>4, <2>2 DEF Entering
  <2>a. s = f[k]
    OBVIOUS
  <2> HIDE DEF s, e
  <2>5. Roomy(s, k)
    BY <1>1, <2>1, <2>2, <2>3 DEF Roomy, Mirrors
  <2>6. Len(l) = k + 1 /\ l[1].text = t /\ \A j \in 1..k : l[j + 1] = s.list[j]
    BY <2>1, <2>2, <2>4, <2>5, EnteredGrows
  <2>7. ASSUME NEW j \in 1..i PROVE l[j].text = u[(i + 1) - j]
    <3>1. CASE j = 1
      <4>1. (i + 1) - j = i
        BY <3>1
      <4> QED
        BY <2>6, <3>1, <4>1
    <3>2. CASE j # 1
      <4>1. j - 1 \in 1..k /\ (j - 1) + 1 = j /\ (k + 1) - (j - 1) = (i + 1) - j
        BY <3>2
      <4>2. s.list[j - 1].text = u[(k + 1) - (j - 1)]
        BY <2>3, <4>1, Zenon DEF Mirrors
      <4>3. l[(j - 1) + 1] = s.list[j - 1]
        BY <2>6, <4>1, Zenon
      <4> QED
        BY <4>1, <4>2, <4>3, Zenon
    <3> QED
      BY <3>1, <3>2
  <2>8. Mirrors(l, u, i)
    BY <2>1, <2>6, <2>7 DEF Mirrors
  <2> QED
    BY <2>1, <2>8 DEF e
<1> HIDE DEF G
<1>7. \A i \in 0..n : i \in G
  BY <1>1, <1>5, <1>6, Induction
<1>8. n \in G
  BY <1>1, <1>7
<1>9. Mirrors(f[n].list, u, n)
  BY <1>8 DEF G
<1> QED
  BY <1>3, <1>9 DEF n

\* The texts of a list, and the same from the oldest to the newest.
LEMMA TextsIs ==
  ASSUME NEW T, NEW l \in Seq(Entry(T))
  PROVE  /\ Texts(l) \in Seq(T) /\ Len(Texts(l)) = Len(l)
         /\ Reverse(Texts(l)) \in Seq(T) /\ Len(Reverse(Texts(l))) = Len(l)
         /\ \A i \in 1..Len(l) : Texts(l)[i] = l[i].text
         /\ \A i \in 1..Len(l) : Reverse(Texts(l))[i] = l[(Len(l) - i) + 1].text
<1>1. Len(l) \in Nat /\ DOMAIN l = 1..Len(l) /\ \A i \in 1..Len(l) : l[i] \in Entry(T)
  BY MemberOf, Zenon
<1>2. \A i \in 1..Len(l) : l[i].text \in T
  BY <1>1 DEF Entry
<1>3. Texts(l) = [i \in 1..Len(l) |-> l[i].text]
  BY <1>1, Zenon DEF Texts
<1>4. Texts(l) \in [1..Len(l) -> T]
  BY <1>2, <1>3
<1>5. Texts(l) \in Seq(T) /\ Len(Texts(l)) = Len(l) /\ \A i \in 1..Len(l) : Texts(l)[i] = l[i].text
  BY <1>1, <1>3, <1>4
<1> DEFINE t == Texts(l)
<1> HIDE DEF t
<1>6. Reverse(t) = [i \in 1..Len(l) |-> t[(Len(l) - i) + 1]]
  BY <1>5, Zenon DEF Reverse, t
<1>7. \A i \in 1..Len(l) : (Len(l) - i) + 1 \in 1..Len(l)
  BY <1>1
<1>8. \A i \in 1..Len(l) : t[(Len(l) - i) + 1] = l[(Len(l) - i) + 1].text
  BY <1>5, <1>7 DEF t
<1>9. Reverse(t) \in [1..Len(l) -> T]
  BY <1>2, <1>6, <1>7, <1>8
<1>10. Reverse(t) \in Seq(T) /\ Len(Reverse(t)) = Len(l)
  BY <1>1, <1>9
<1>11. \A i \in 1..Len(l) : Reverse(t)[i] = l[(Len(l) - i) + 1].text
  BY <1>6, <1>8
<1> QED
  BY <1>5, <1>10, <1>11 DEF t

\* What is saved and then loaded is what there was.
LEMMA RoundTrips ==
  ASSUME list \in Seq(Entry(Text)), max \in Nat, ~unique, Len(list) <= max,
         bufsiz \in Nat, bufsiz >= 2, \A i \in 1..Len(list) : Len(strvis(list[i].text)) < bufsiz
  PROVE  Texts(LoadedFrom(Empty, TextsIn(bufsiz, FileOf(Saved))).list) = Texts(list)
<1> DEFINE u == Saved
           n == Len(list)
           m == LoadedFrom(Empty, u).list
<1>1. u \in Seq(Text) /\ Len(u) = n /\ n \in Nat
  BY TextsIs, MemberOf DEF Saved
<1>2. TextsIn(bufsiz, FileOf(u)) = u
  <2>1. ASSUME NEW i \in 1..n PROVE Len(strvis(u[i])) < bufsiz
    <3>1. u[i] = list[(n - i) + 1].text /\ (n - i) + 1 \in 1..Len(list)
      BY <1>1, TextsIs DEF Saved
    <3> QED
      BY <3>1, Zenon
  <2> QED
    BY <1>1, <2>1, FileRestored
<1>3. Mirrors(m, u, n)
  BY <1>1, LoadsMirrors
<1>4. \A i \in 1..n : u[i] = list[(n - i) + 1].text
  BY TextsIs DEF Saved
<1>5. m \in Seq(Entry(Text))
  <2>1. LoadedFrom(Empty, u) \in Stores
    BY <1>1, EmptyIsStore, LoadedIsStore
  <2> QED
    BY <2>1 DEF Stores
<1> HIDE DEF m, u, n
<1>6. /\ Texts(list) \in Seq(Text) /\ Len(Texts(list)) = n
      /\ \A j \in 1..n : Texts(list)[j] = list[j].text
  BY TextsIs DEF n
<1>7. Texts(m) \in Seq(Text) /\ Len(Texts(m)) = n /\ \A j \in 1..n : Texts(m)[j] = m[j].text
  BY <1>3, <1>5, TextsIs DEF Mirrors
<1>8. ASSUME NEW j \in 1..n PROVE Texts(m)[j] = Texts(list)[j]
  <2>1. m[j].text = u[(n + 1) - j]
    BY <1>3 DEF Mirrors
  <2>2. (n + 1) - j \in 1..n /\ (n - ((n + 1) - j)) + 1 = j
    BY <1>1
  <2>3. u[(n + 1) - j] = list[(n - ((n + 1) - j)) + 1].text
    BY <1>4, <2>2, Zenon
  <2> QED
    BY <1>6, <1>7, <2>1, <2>2, <2>3
<1>9. Texts(m) = Texts(list)
  <2> DEFINE a == Texts(m)
             b == Texts(list)
  <2>1. a \in Seq(Text) /\ b \in Seq(Text) /\ Len(a) = n /\ Len(b) = n /\ \A j \in 1..n : a[j] = b[j]
    BY <1>6, <1>7, <1>8
  <2> HIDE DEF a, b
  <2>2. a = b
    BY <2>1
  <2> QED
    BY <2>2 DEF a, b
<1> QED
  BY <1>2, <1>9 DEF m, u

-----------------------------------------------------------------------------
(* What every call keeps                                                   *)

Written == {FileOf(texts) : texts \in Seq(Text)}

\* The file is of texts, and fgetln has a buffer.
Filed ==
  /\ file \in Written
  /\ bufsiz \in Nat /\ bufsiz >= 2
  /\ overrun \in BOOLEAN

Placed ==
  /\ Store \in Stores
  /\ max \in Nat /\ unique \in BOOLEAN /\ hent \in Nat \cup {-1} /\ foreign \in BOOLEAN
  /\ Filed

RetTyped == ret \in [value : Nat \cup {-1}, num : Nat]

\* Where a walk has come to is the current entry.
Walked ==
  /\ walk \in Seq(Nat)
  /\ WalkInOrder
  /\ walk # <<>> => Len(walk) \in 1..Len(list) /\ cursor = list[Len(walk)].num

HInv == Placed /\ RetTyped /\ Walked

LEMMA FiledKept == ASSUME Filed, files' = files PROVE Filed'
<1>1. file' = file /\ bufsiz' = bufsiz /\ overrun' = overrun
  BY DEF files
<1> QED
  BY <1>1, Zenon DEF Filed

\* What Placed says of the variables.
LEMMA StoreIs ==
  /\ Store \in Stores <=>
       /\ list \in Seq(Entry(Text)) /\ cursor \in Nat /\ eventid \in Nat
       /\ Descends(list, eventid)
       /\ cursor = 0 \/ \E i \in 1..Len(list) : list[i].num = cursor
  /\ Store.list = list /\ Store.cursor = cursor /\ Store.eventid = eventid
<1>1. Store.list = list /\ Store.cursor = cursor /\ Store.eventid = eventid
  BY DEF Store
<1>2. Store \in [list : Seq(Entry(Text)), cursor : Nat, eventid : Nat]
      <=> list \in Seq(Entry(Text)) /\ cursor \in Nat /\ eventid \in Nat
  BY DEF Store
<1> QED
  BY <1>1, <1>2, Zenon DEF Stores, IsStore, On

\* The same of the next state.
LEMMA StoreNext ==
  /\ Store' \in Stores <=>
       /\ list' \in Seq(Entry(Text)) /\ cursor' \in Nat /\ eventid' \in Nat
       /\ Descends(list', eventid')
       /\ cursor' = 0 \/ \E i \in 1..Len(list') : list'[i].num = cursor'
  /\ Store'.list = list' /\ Store'.cursor = cursor' /\ Store'.eventid = eventid'
<1>1. Store'.list = list' /\ Store'.cursor = cursor' /\ Store'.eventid = eventid'
  BY DEF Store
<1>2. Store' \in [list : Seq(Entry(Text)), cursor : Nat, eventid : Nat]
      <=> list' \in Seq(Entry(Text)) /\ cursor' \in Nat /\ eventid' \in Nat
  BY DEF Store
<1> QED
  BY <1>1, <1>2, Zenon DEF Stores, IsStore, On

\* What Becomes makes of the store.
LEMMA BecomesIs == ASSUME NEW s \in Stores, Becomes(s) PROVE Store' \in Stores
<1>1. s \in [list : Seq(Entry(Text)), cursor : Nat, eventid : Nat]
  BY DEF Stores
<1>2. s = [list |-> s.list, cursor |-> s.cursor, eventid |-> s.eventid]
  BY <1>1
<1>3. Store' = s
  BY <1>2, Zenon DEF Store, Becomes
<1> QED
  BY <1>3

\* What follows for each entry.
LEMMA ListFacts ==
  ASSUME Placed
  PROVE  /\ list \in Seq(Entry(Text)) /\ Len(list) \in Nat /\ DOMAIN list = 1..Len(list)
         /\ \A i \in 1..Len(list) : list[i] \in Entry(Text) /\ list[i].num \in Nat \ {0}
         /\ \A i \in 1..Len(list) : Place(list, list[i].num) = i
         /\ cursor \in Nat /\ eventid \in Nat
         /\ cursor # 0 => \E i \in 1..Len(list) : list[i].num = cursor
<1>1. /\ list \in Seq(Entry(Text)) /\ cursor \in Nat /\ eventid \in Nat
      /\ Descends(list, eventid)
      /\ cursor = 0 \/ \E i \in 1..Len(list) : list[i].num = cursor
  BY StoreIs DEF Placed
<1>2. Len(list) \in Nat /\ DOMAIN list = 1..Len(list) /\ \A i \in 1..Len(list) : list[i] \in Entry(Text)
  BY <1>1, MemberOf, Zenon
<1>3. \A i \in 1..Len(list) : Place(list, list[i].num) = i
  BY <1>1, PlaceIs
<1>4. \A i \in 1..Len(list) : list[i].num \in Nat \ {0}
  BY <1>1 DEF Descends
<1> QED
  BY <1>1, <1>2, <1>3, <1>4

\* The cursor's place.
LEMMA Here ==
  ASSUME Placed, cursor # 0
  PROVE  Place(list, cursor) \in 1..Len(list) /\ list[Place(list, cursor)].num = cursor
<1>1. PICK i \in 1..Len(list) : list[i].num = cursor
  BY ListFacts
<1>2. Place(list, cursor) = i
  BY <1>1, ListFacts
<1> QED
  BY <1>1, <1>2

\* An entry with a number is at its place.
LEMMA NumbersIs ==
  ASSUME Placed, NEW num
  PROVE  /\ num \in Numbers(list) <=> \E i \in 1..Len(list) : list[i].num = num
         /\ num \in Numbers(list) => Place(list, num) \in 1..Len(list) /\ list[Place(list, num)].num = num
                                     /\ num \in Nat \ {0}
<1>1. num \in Numbers(list) <=> \E i \in 1..Len(list) : list[i].num = num
  BY ListFacts DEF Numbers
<1>2. ASSUME num \in Numbers(list)
      PROVE  Place(list, num) \in 1..Len(list) /\ list[Place(list, num)].num = num /\ num \in Nat \ {0}
  <2>1. PICK i \in 1..Len(list) : list[i].num = num
    BY <1>1, <1>2
  <2>2. Place(list, num) = i
    BY <2>1, ListFacts
  <2> QED
    BY <2>1, <2>2, ListFacts
<1> QED
  BY <1>1, <1>2

\* Only the cursor moves.
Still == UNCHANGED <<list, eventid, modes, files>>

\* The cursor may go to the head or to any entry.
LEMMA CursorMoves ==
  ASSUME Placed, Still, cursor' = 0 \/ cursor' = cursor \/ \E i \in 1..Len(list) : cursor' = list[i].num
  PROVE  Placed'
<1>1. /\ list' = list /\ eventid' = eventid /\ max' = max /\ unique' = unique /\ hent' = hent
      /\ foreign' = foreign /\ files' = files
  BY DEF Still, modes
<1>2. list \in Seq(Entry(Text)) /\ eventid \in Nat /\ Descends(list, eventid)
  BY StoreIs DEF Placed
<1>3. cursor' \in Nat /\ (cursor' = 0 \/ \E i \in 1..Len(list) : list[i].num = cursor')
  BY ListFacts
<1>4. Store' \in Stores
  BY <1>1, <1>2, <1>3, StoreNext, Zenon
<1>5. Filed'
  BY <1>1, FiledKept DEF Placed
<1> QED
  BY <1>1, <1>4, <1>5 DEF Placed

\* A call that finds an entry,
LEMMA MovesIs ==
  ASSUME Placed, NEW k \in 1..Len(list), MovesTo(k) PROVE Placed' /\ RetTyped' /\ ret'.value = 0 /\ list' = list
<1>1. Placed'
  BY CursorMoves DEF MovesTo, Still
<1>2. RetTyped' /\ ret'.value = 0
  BY ListFacts DEF MovesTo, Succeeds, RetTyped
<1> QED
  BY <1>1, <1>2 DEF MovesTo

\* and one that finds none.
LEMMA NotFoundIs ==
  ASSUME Placed, NEW w, NotFound(w), w = 0 \/ w = cursor \/ \E i \in 1..Len(list) : w = list[i].num
  PROVE  Placed' /\ RetTyped' /\ list' = list
<1>1. Placed'
  BY CursorMoves DEF NotFound, Still
<1>2. RetTyped'
  BY DEF NotFound, Fails, RetTyped
<1> QED
  BY <1>1, <1>2 DEF NotFound

\* With no walk there is nothing to say of one.
LEMMA StraysIs == ASSUME Strays, Placed' PROVE Walked'
<1>1. list' \in Seq(Entry(Text))
  BY StoreNext DEF Placed
<1>2. walk' = <<>> /\ Len(<<>>) = 0 /\ DOMAIN walk' = {} /\ walk' \in Seq(Nat)
  BY DEF Strays
<1>3. Len(list') \in Nat
  BY <1>1
<1>4. WalkInOrder'
  BY <1>2, <1>3 DEF WalkInOrder
<1> QED
  BY <1>2, <1>4 DEF Walked

\* What an action that is no step of a walk has to show.
Preserved == Placed' /\ RetTyped' /\ Walked'

\* A walk begins.
LEMMA FirstKeeps == ASSUME HInv, First PROVE Preserved
<1>1. Placed /\ Walked
  BY DEF HInv
<1>2. CASE list # <<>>
  <2>1. MovesTo(1) /\ walk' = <<list[1].num>>
    BY <1>2 DEF First
  <2>2. 1 \in 1..Len(list) /\ Len(list) \in Nat /\ list[1].num \in Nat
    BY <1>1, <1>2, ListFacts
  <2>3. Placed' /\ RetTyped' /\ ret'.value = 0 /\ list' = list
    BY <1>1, <2>1, <2>2, MovesIs
  <2>4. cursor' = list[1].num
    BY <2>1 DEF MovesTo
  <2>5. walk' \in Seq(Nat) /\ Len(walk') = 1 /\ walk'[1] = list[1].num /\ DOMAIN walk' = 1..1
    BY <2>1, <2>2
  <2>6. WalkInOrder'
    BY <2>2, <2>3, <2>5 DEF WalkInOrder
  <2>7. Len(walk') \in 1..Len(list') /\ cursor' = list'[Len(walk')].num
    BY <2>2, <2>3, <2>4, <2>5
  <2> QED
    BY <2>3, <2>5, <2>6, <2>7 DEF Preserved, Walked
<1>3. CASE list = <<>>
  <2>1. NotFound(0) /\ Strays
    BY <1>3 DEF First, Strays
  <2> QED
    BY <1>1, <2>1, NotFoundIs, StraysIs DEF Preserved
<1> QED
  BY <1>2, <1>3

\* A walk goes on: the cursor is where the walk has come to, so the next entry is the one
\* that follows in the order, and there is none only behind the oldest.
LEMMA NextKeeps == ASSUME HInv, NextEntry PROVE Preserved
<1>1. Placed /\ Walked /\ WalkInOrder /\ walk \in Seq(Nat)
      /\ (walk # <<>> => Len(walk) \in 1..Len(list) /\ cursor = list[Len(walk)].num)
  BY DEF HInv, Walked
<1> DEFINE k == Place(list, cursor)
<1>2. /\ Len(walk) \in Nat /\ DOMAIN walk = 1..Len(walk)
      /\ Len(list) \in Nat /\ \A i \in 1..Len(list) : list[i].num \in Nat \ {0} /\ Place(list, list[i].num) = i
  BY <1>1, ListFacts
<1>3. walk # <<>> => k = Len(walk) /\ cursor # 0
  BY <1>1, <1>2
<1>4. /\ Len(walk) <= Len(list)
      /\ \A i \in 1..Len(walk) : walk[i] = list[i].num
  BY <1>1, <1>2, Zenon DEF WalkInOrder
<1>5. CASE cursor # 0 /\ k < Len(list)
  <2>1. MovesTo(k + 1) /\ walk' = IF walk = <<>> THEN walk ELSE Append(walk, cursor')
    BY <1>5 DEF NextEntry
  <2>2. k + 1 \in 1..Len(list)
    BY <1>1, <1>2, <1>5, Here
  <2> HIDE DEF k
  <2>3. Placed' /\ RetTyped' /\ ret'.value = 0 /\ list' = list
    BY <1>1, <2>1, <2>2, MovesIs
  <2>4. cursor' = list[k + 1].num /\ cursor' \in Nat
    BY <1>2, <2>1, <2>2 DEF MovesTo
  <2>5. CASE walk = <<>>
    <3>1. Strays
      BY <2>1, <2>5 DEF Strays
    <3> QED
      BY <2>3, <3>1, StraysIs DEF Preserved
  <2>6. CASE walk # <<>>
    <3>1. walk' = Append(walk, cursor') /\ k = Len(walk)
      BY <1>3, <2>1, <2>6
    <3>2. /\ walk' \in Seq(Nat) /\ Len(walk') = k + 1 /\ DOMAIN walk' = 1..k + 1
          /\ walk'[k + 1] = cursor' /\ \A i \in 1..k : walk'[i] = walk[i]
      BY <1>1, <2>4, <3>1
    <3>3. \A i \in 1..k + 1 : walk'[i] = list[i].num
      BY <1>2, <1>4, <2>4, <3>1, <3>2
    <3>4. WalkInOrder'
      BY <1>2, <2>2, <2>3, <3>2, <3>3 DEF WalkInOrder
    <3>5. Len(walk') \in 1..Len(list') /\ cursor' = list'[Len(walk')].num
      BY <2>2, <2>3, <2>4, <3>2
    <3> QED
      BY <2>3, <3>2, <3>4, <3>5 DEF Preserved, Walked
  <2> QED
    BY <2>5, <2>6
<1>6. CASE ~ (cursor # 0 /\ k < Len(list))
  <2>1. NotFound(cursor) /\ walk' = walk
    BY <1>6 DEF NextEntry
  <2>2. Placed' /\ RetTyped' /\ list' = list /\ cursor' = cursor
    BY <1>1, <2>1, NotFoundIs DEF NotFound
  <2>3. walk # <<>> => Len(walk) = Len(list)
    BY <1>2, <1>3, <1>4, <1>6
  <2> HIDE DEF k
  <2>4. WalkInOrder'
    BY <1>2, <1>4, <2>1, <2>2, <2>3, Zenon DEF WalkInOrder
  <2> QED
    BY <1>1, <2>1, <2>2, <2>4, Zenon DEF Preserved, Walked
<1> QED
  BY <1>5, <1>6

\* A call that is no step of a walk, and moves the cursor at most.
LEMMA MovingKeeps ==
  ASSUME HInv, Strays,
         \/ \E k \in 1..Len(list) : MovesTo(k)
         \/ \E w : NotFound(w) /\ (w = 0 \/ w = cursor \/ \E i \in 1..Len(list) : w = list[i].num)
  PROVE  Preserved
<1>1. Placed
  BY DEF HInv
<1>2. CASE \E k \in 1..Len(list) : MovesTo(k)
  BY <1>1, <1>2, MovesIs, StraysIs DEF Preserved
<1>3. CASE \E w : NotFound(w) /\ (w = 0 \/ w = cursor \/ \E i \in 1..Len(list) : w = list[i].num)
  BY <1>1, <1>3, NotFoundIs, StraysIs DEF Preserved
<1> QED
  BY <1>2, <1>3

\* H_LAST.
LEMMA LastKeeps == ASSUME HInv, LastEntry PROVE Preserved
<1>1. Placed /\ Strays
  BY DEF HInv, LastEntry
<1>2. list # <<>> => Len(list) \in 1..Len(list)
  BY <1>1, ListFacts
<1>3. IF list # <<>> THEN MovesTo(Len(list)) ELSE NotFound(0)
  BY DEF LastEntry
<1> QED
  BY <1>1, <1>2, <1>3, MovingKeeps

\* H_PREV.
LEMMA PrevKeeps == ASSUME HInv, Prev PROVE Preserved
<1>1. Placed /\ Strays
  BY DEF HInv, Prev
<1>2. IF cursor # 0 /\ Place(list, cursor) > 1 THEN MovesTo(Place(list, cursor) - 1) ELSE NotFound(cursor)
  BY DEF Prev
<1>3. cursor # 0 /\ Place(list, cursor) > 1 => Place(list, cursor) - 1 \in 1..Len(list)
  BY <1>1, Here, ListFacts
<1> QED
  BY <1>1, <1>2, <1>3, MovingKeeps

\* H_CURR.
LEMMA CurrKeeps == ASSUME HInv, Curr PROVE Preserved
<1>1. Placed /\ Strays
  BY DEF HInv, Curr
<1>2. IF cursor # 0 THEN MovesTo(Place(list, cursor)) ELSE NotFound(cursor)
  BY DEF Curr
<1>3. cursor # 0 => Place(list, cursor) \in 1..Len(list)
  BY <1>1, Here
<1> QED
  BY <1>1, <1>2, <1>3, MovingKeeps

\* H_SET leaves the cursor where it may be.
LEMMA SettingResult ==
  ASSUME Placed, NEW num
  PROVE  SetResult(num) = 0 \/ SetResult(num) = cursor \/ \E i \in 1..Len(list) : SetResult(num) = list[i].num
  BY NumbersIs DEF SetResult

\* H_SET.
LEMMA SetNumKeeps == ASSUME HInv, NEW num \in Nat, Set(num) PROVE Preserved
<1>1. Placed /\ Strays /\ Still /\ cursor' = SetResult(num)
  BY DEF HInv, Set, Still
<1>2. Placed'
  BY <1>1, SettingResult, CursorMoves
<1>3. RetTyped'
  BY DEF Set, Succeeds, Fails, RetTyped
<1> QED
  BY <1>1, <1>2, <1>3, StraysIs DEF Preserved

\* H_DELDATA that only sets the cursor.
LEMMA SetNthKeeps == ASSUME HInv, NEW n \in Nat, SetNth(n) PROVE Preserved
<1>1. Placed /\ Strays /\ Still
  BY DEF HInv, SetNth, Still
<1>2. Nth(n) >= 1 => Nth(n) \in 1..Len(list)
  BY <1>1, ListFacts DEF Nth
<1>3. cursor' = 0 \/ cursor' = cursor \/ \E i \in 1..Len(list) : cursor' = list[i].num
  BY <1>2 DEF SetNth
<1>4. Placed'
  BY <1>1, <1>3, CursorMoves
<1>5. RetTyped'
  BY DEF SetNth, Succeeds, Fails, RetTyped
<1> QED
  BY <1>1, <1>4, <1>5, StraysIs DEF Preserved

\* What a search finds is one of the places it may.
LEMMA SearchKeeps ==
  ASSUME HInv, Strays, NEW d \in {Newer, Older}, NEW M \in SUBSET (1..Len(list)), Search(d, M)
  PROVE  Preserved
<1> DEFINE here == Place(list, cursor)
           end == IF d = Older THEN Len(list) ELSE 1
           seen == {i \in M : (i - here) * d >= 0}
<1>1. Placed /\ Len(list) \in Nat
  BY ListFacts DEF HInv
<1>2. CASE cursor = 0
  <2>1. NotFound(0)
    BY <1>2 DEF Search
  <2> QED
    BY <2>1, MovingKeeps
<1>3. CASE cursor # 0 /\ seen = {}
  <2>1. NotFound(list[end].num)
    BY <1>3 DEF Search
  <2>2. here \in 1..Len(list)
    BY <1>1, <1>3, Here
  <2>3. end \in 1..Len(list)
    BY <1>1, <2>2
  <2> QED
    BY <2>1, <2>3, MovingKeeps
<1>4. CASE cursor # 0 /\ seen # {}
  <2>1. MovesTo(IF d = Older THEN Min(seen) ELSE Max(seen))
    BY <1>4 DEF Search
  <2>2. seen \in SUBSET (1..Len(list))
    OBVIOUS
  <2> HIDE DEF seen
  <2>3. seen \in SUBSET Nat /\ seen \in SUBSET (0..Len(list))
    BY <2>2
  <2>4. PICK x \in seen : \A y \in seen : x <= y
    BY <1>4, <2>3, LeastNumber
  <2>5. PICK z \in seen : \A y \in seen : y <= z
    BY <1>1, <1>4, <2>3, GreatestNumber
  <2>6. Min(seen) \in seen
    BY <2>4, Zenon DEF Min
  <2>7. Max(seen) \in seen
    BY <2>5, Zenon DEF Max
  <2> QED
    BY <2>1, <2>2, <2>6, <2>7, MovingKeeps
<1> QED
  BY <1>2, <1>3, <1>4

\* H_PREV_EVENT, H_NEXT_EVENT, H_PREV_STR, H_NEXT_STR and H_NEXT_EVDATA.
LEMMA SearchesKeep ==
  ASSUME HInv, NEW d \in {Newer, Older}, NEW x, SearchEvent(d, x) \/ SearchString(d, x) PROVE Preserved
<1>1. DOMAIN list = 1..Len(list)
  BY ListFacts DEF HInv
<1>2. CASE SearchEvent(d, x)
  <2>1. {i \in DOMAIN list : list[i].num = x} \in SUBSET (1..Len(list))
    BY <1>1
  <2> QED
    BY <1>2, <2>1, SearchKeeps, Zenon DEF SearchEvent
<1>3. CASE SearchString(d, x)
  <2>1. {i \in DOMAIN list : IsPrefix(x, list[i].text)} \in SUBSET (1..Len(list))
    BY <1>1
  <2> QED
    BY <1>3, <2>1, SearchKeeps, Zenon DEF SearchString
<1> QED
  BY <1>2, <1>3

\* What is entered is a text.
LEMMA StringIsText == ASSUME NEW t \in Strings PROVE t \in Text
  BY HistoryAssumption DEF Text

\* The store is another, and the modes and the file are typed,
LEMMA ArrivingKeeps ==
  ASSUME HInv, Strays, NEW s \in Stores, Becomes(s), RetTyped',
         max' \in Nat, unique' \in BOOLEAN, hent' \in Nat \cup {-1}, foreign' \in BOOLEAN,
         Filed'
  PROVE  Preserved
<1>1. Store' \in Stores
  BY BecomesIs
<1>2. Placed'
  BY <1>1 DEF HInv, Placed
<1> QED
  BY <1>2, StraysIs DEF Preserved

\* or the file is what it was.
LEMMA BecomingKeeps ==
  ASSUME HInv, Strays, NEW s \in Stores, Becomes(s), RetTyped',
         max' \in Nat, unique' \in BOOLEAN, hent' \in Nat \cup {-1}, foreign' \in BOOLEAN,
         files' = files
  PROVE  Preserved
<1>1. Filed'
  BY FiledKept DEF HInv, Placed
<1> QED
  BY <1>1, ArrivingKeeps

\* What there is before a call.
LEMMA ModesKept ==
  ASSUME HInv
  PROVE  /\ Store \in Stores
         /\ max \in Nat /\ unique \in BOOLEAN /\ hent \in Nat \cup {-1} /\ foreign \in BOOLEAN
  BY DEF HInv, Placed

\* The cursor is on the entry that goes, and then on a neighbour or on the head.
LEMMA DeletingKeeps == ASSUME HInv, Strays, NEW k \in 1..Len(list), DeletesAt(k) PROVE Preserved
<1> DEFINE s == [Store EXCEPT !.cursor = list[k].num]
<1>1. Placed
  BY DEF HInv
<1>2. list \in Seq(Entry(Text)) /\ eventid \in Nat /\ Descends(list, eventid) /\ list[k].num \in Nat
  BY <1>1, StoreIs, ListFacts DEF Placed
<1>3. s = [list |-> list, cursor |-> list[k].num, eventid |-> eventid]
  BY DEF Store
<1> HIDE DEF s
<1>4. s \in [list : Seq(Entry(Text)), cursor : Nat, eventid : Nat] /\ s.list = list
      /\ s.cursor = list[k].num /\ s.eventid = eventid
  BY <1>2, <1>3
<1>5. IsStore(s, Text) /\ On(s)
  BY <1>2, <1>4 DEF IsStore, On
<1>6. Deleted(s, k) \in Stores
  BY <1>4, <1>5, DeletedIsStore, StoresIs
<1>7. Becomes(Deleted(s, k)) /\ Succeeds(0, list[k].num) /\ UNCHANGED <<modes, files>>
  BY Zenon DEF DeletesAt, s
<1>8. RetTyped'
  BY <1>2, <1>7 DEF Succeeds, RetTyped
<1>9. max' = max /\ unique' = unique /\ hent' = hent /\ foreign' = foreign /\ files' = files
  BY <1>7 DEF modes
<1> QED
  BY <1>6, <1>7, <1>8, <1>9, ModesKept, BecomingKeeps

\* H_DELDATA.
LEMMA DeleteNthKeeps == ASSUME HInv, NEW n \in Nat, DeleteNth(n) PROVE Preserved
<1>1. Placed /\ Strays
  BY DEF HInv, DeleteNth
<1>2. CASE Nth(n) >= 1
  <2>1. DeletesAt(Nth(n))
    BY <1>2 DEF DeleteNth
  <2>2. Nth(n) \in 1..Len(list)
    BY <1>1, <1>2, ListFacts DEF Nth
  <2> QED
    BY <1>1, <2>1, <2>2, DeletingKeeps
<1>3. CASE ~ (Nth(n) >= 1)
  <2>1. NotFound(IF list = <<>> THEN cursor ELSE 0)
    BY <1>3 DEF DeleteNth
  <2> QED
    BY <1>1, <2>1, MovingKeeps
<1> QED
  BY <1>2, <1>3

\* H_DEL.
LEMMA DeleteKeeps == ASSUME HInv, NEW num \in Nat, Delete(num) PROVE Preserved
<1>1. Placed /\ Strays
  BY DEF HInv, Delete
<1>2. CASE num \in Numbers(list)
  <2>1. DeletesAt(Place(list, num))
    BY <1>2 DEF Delete
  <2>2. Place(list, num) \in 1..Len(list)
    BY <1>1, <1>2, NumbersIs
  <2> QED
    BY <1>1, <2>1, <2>2, DeletingKeeps
<1>3. CASE num \notin Numbers(list)
  <2>1. NotFound(SetResult(num))
    BY <1>3 DEF Delete
  <2> QED
    BY <1>1, <2>1, SettingResult, MovingKeeps
<1> QED
  BY <1>2, <1>3

\* What H_ENTER makes of the store.
LEMMA EnteredStore == ASSUME HInv, NEW text \in Text PROVE Entered(Store, text) \in Stores
  BY ModesKept, StoresIs, EnteredIsStore

\* H_ENTER.
LEMMA EnterKeeps == ASSUME HInv, NEW text \in Text, Enter(text) PROVE Preserved
<1>1. Becomes(Entered(Store, text)) /\ Strays
      /\ max' = max /\ unique' = unique /\ foreign' = foreign /\ files' = files
  BY DEF Enter
<1>2. eventid + 1 \in Nat
  BY ListFacts DEF HInv
<1>3. RetTyped' /\ hent' \in Nat \cup {-1}
  BY <1>2 DEF Enter, Succeeds, RetTyped
<1> QED
  BY <1>1, <1>3, EnteredStore, ModesKept, BecomingKeeps

\* The text of an entry is another.
LEMMA TextChanges ==
  ASSUME HInv, Strays, RetTyped', UNCHANGED <<modes, files>>,
         NEW l \in Seq(Entry(Text)), list' = l, Len(l) = Len(list),
         \A i \in 1..Len(list) : l[i].num = list[i].num,
         eventid' = eventid, cursor' = cursor \/ \E i \in 1..Len(list) : cursor' = list[i].num
  PROVE  Preserved
<1>1. Descends(list, eventid) /\ eventid \in Nat
  BY StoreIs DEF HInv, Placed
<1>2. Descends(l, eventid)
  BY <1>1 DEF Descends
<1>3. cursor' \in Nat /\ (cursor' = 0 \/ \E i \in 1..Len(l) : l[i].num = cursor')
  BY ListFacts DEF HInv
<1>4. Store' \in Stores
  BY <1>1, <1>2, <1>3, StoreNext, Zenon
<1>5. Filed'
  BY FiledKept DEF HInv, Placed
<1>6. Placed'
  BY <1>4, <1>5, ModesKept DEF Placed, modes
<1> QED
  BY <1>6, StraysIs DEF Preserved

\* A text is put behind that of an entry, or makes one.
LEMMA AddsKeeps ==
  ASSUME HInv, Strays, NEW at, at = 0 \/ at \in Numbers(list), NEW text \in Text,
         Adds(at, text), UNCHANGED <<modes, files>>
  PROVE  Preserved
<1>1. Placed
  BY DEF HInv
<1>2. CASE at = 0
  <2>1. Becomes(Entered(Store, text))
        /\ IF Duplicate(Store, text) THEN Succeeds(0, 0) ELSE Succeeds(1, eventid + 1)
    BY <1>2 DEF Adds
  <2>2. eventid + 1 \in Nat
    BY <1>1, ListFacts
  <2>3. RetTyped'
    BY <2>1, <2>2 DEF Succeeds, RetTyped
  <2>4. max' = max /\ unique' = unique /\ hent' = hent /\ foreign' = foreign /\ files' = files
    BY DEF modes
  <2> QED
    BY <2>1, <2>3, <2>4, EnteredStore, ModesKept, BecomingKeeps
<1>3. CASE at # 0
  <2> DEFINE k == Place(list, at)
             l == [list EXCEPT ![k].text = @ \o text]
  <2>1. list' = l /\ cursor' = at /\ Succeeds(0, at) /\ eventid' = eventid
    BY <1>3 DEF Adds
  <2>2. k \in 1..Len(list) /\ list[k].num = at /\ at \in Nat
    BY <1>1, <1>3, NumbersIs
  <2>3. RetTyped'
    BY <2>1, <2>2 DEF Succeeds, RetTyped
  <2>4. list \in Seq(Entry(Text)) /\ list[k] \in Entry(Text)
    BY <1>1, <2>2, ListFacts
  <2> DEFINE e == [list[k] EXCEPT !.text = @ \o text]
  <2>5. e \in Entry(Text) /\ e.num = list[k].num
    <3>1. list[k].text \o text \in Text
      BY <2>4 DEF Entry, Text
    <3> DEFINE y == list[k].text \o text
    <3> HIDE DEF y
    <3>2. [list[k] EXCEPT !.text = y] \in Entry(Text) /\ [list[k] EXCEPT !.text = y].num = list[k].num
      BY <2>4, <3>1 DEF Entry, y
    <3> QED
      BY <3>2, Zenon DEF y
  <2>6. l = [list EXCEPT ![k] = e]
    BY Zenon
  <2> HIDE DEF l, e, k
  <2>7. l \in Seq(Entry(Text)) /\ Len(l) = Len(list)
        /\ \A i \in 1..Len(list) : l[i] = IF i = k THEN e ELSE list[i]
    BY <2>2, <2>4, <2>5, <2>6
  <2>8. \A i \in 1..Len(list) : l[i].num = list[i].num
    BY <2>5, <2>7
  <2> QED
    BY <2>1, <2>2, <2>3, <2>7, <2>8, TextChanges
<1> QED
  BY <1>2, <1>3

\* H_ADD.
LEMMA AddKeeps == ASSUME HInv, NEW text \in Text, Add(text) PROVE Preserved
<1>1. cursor = 0 \/ cursor \in Numbers(list)
  BY ListFacts, NumbersIs DEF HInv
<1> QED
  BY <1>1, AddsKeeps DEF Add

\* H_APPEND.
LEMMA AppendKeeps == ASSUME HInv, NEW text \in Text, AppendTo(text) PROVE Preserved
<1>1. Strays
  BY DEF AppendTo
<1>2. CASE list # <<>> /\ hent \in Numbers(list)
  <2>1. Adds(hent, text) /\ UNCHANGED <<modes, files>>
    BY <1>2 DEF AppendTo
  <2> QED
    BY <1>1, <1>2, <2>1, AddsKeeps
<1>3. CASE ~ (list # <<>> /\ hent \in Numbers(list))
  <2>1. NotFound(SetResult(hent))
    BY <1>3 DEF AppendTo
  <2> QED
    BY <1>1, <2>1, SettingResult, MovingKeeps DEF HInv
<1> QED
  BY <1>2, <1>3

\* H_REPLACE.
LEMMA ReplaceKeeps == ASSUME HInv, NEW text \in Text, Replace(text) PROVE Preserved
<1> DEFINE r(i) == IF list[i].num = cursor THEN [list[i] EXCEPT !.text = text] ELSE list[i]
           l == [i \in 1..Len(list) |-> r(i)]
<1>1. list \in Seq(Entry(Text)) /\ Len(list) \in Nat /\ DOMAIN list = 1..Len(list)
      /\ \A i \in 1..Len(list) : list[i] \in Entry(Text)
  BY ListFacts DEF HInv
<1>2. list' = l
  BY <1>1, Zenon DEF Replace
<1>3. ASSUME NEW i \in 1..Len(list) PROVE r(i) \in Entry(Text) /\ r(i).num = list[i].num
  BY <1>1 DEF Entry
<1>4. l \in [1..Len(list) -> Entry(Text)] /\ \A i \in 1..Len(list) : l[i].num = list[i].num
  BY <1>3
<1> HIDE DEF l
<1>5. l \in Seq(Entry(Text)) /\ Len(l) = Len(list)
  BY <1>1, <1>4
<1>6. Strays /\ UNCHANGED <<cursor, eventid, modes, files>>
  BY DEF Replace
<1>7. RetTyped'
  BY DEF Replace, Succeeds, RetTyped
<1> QED
  BY <1>2, <1>4, <1>5, <1>6, <1>7, TextChanges

\* H_CLEAR.
LEMMA ClearKeeps == ASSUME HInv, Clear PROVE Preserved
<1>1. Becomes(Empty) /\ Strays /\ UNCHANGED <<modes, files>>
  BY DEF Clear
<1>2. RetTyped'
  BY DEF Clear, Succeeds, RetTyped
<1>3. max' = max /\ unique' = unique /\ hent' = hent /\ foreign' = foreign /\ files' = files
  BY <1>1 DEF modes
<1> QED
  BY <1>1, <1>2, <1>3, EmptyIsStore, ModesKept, BecomingKeeps

\* A call that leaves the list and the cursor alone.
LEMMA StayingKeeps ==
  ASSUME HInv, Strays, RetTyped', UNCHANGED <<store, files>>,
         max' \in Nat, unique' \in BOOLEAN, hent' \in Nat \cup {-1}, foreign' \in BOOLEAN
  PROVE  Preserved
<1>1. Becomes(Store)
  BY DEF store, Becomes, Store
<1> QED
  BY <1>1, ModesKept, BecomingKeeps

\* H_SETSIZE.
LEMMA SetSizeKeeps == ASSUME HInv, NEW size \in Sizes, SetSize(size) PROVE Preserved
<1>1. size \in Nat
  BY HistoryAssumption
<1>2. RetTyped' /\ Strays
  BY DEF SetSize, Succeeds, RetTyped
<1> QED
  BY <1>1, <1>2, ModesKept, StayingKeeps DEF SetSize

\* H_SETUNIQUE.
LEMMA SetUniqueKeeps == ASSUME HInv, SetUnique PROVE Preserved
<1>1. RetTyped' /\ Strays
  BY DEF SetUnique, Succeeds, RetTyped
<1> QED
  BY <1>1, ModesKept, StayingKeeps DEF SetUnique

\* H_GETSIZE and H_GETUNIQUE.
LEMMA GetSizeKeeps == ASSUME HInv, GetSize PROVE Preserved
<1>1. Len(list) \in Nat
  BY ListFacts DEF HInv
<1>2. RetTyped' /\ Strays
  BY <1>1 DEF GetSize, Succeeds, Fails, RetTyped
<1>3. UNCHANGED <<store, files>> /\ max' = max /\ unique' = unique /\ hent' = hent /\ foreign' = foreign
  BY DEF GetSize, modes
<1> QED
  BY <1>2, <1>3, ModesKept, StayingKeeps

\* H_FUNC.
LEMMA SetFunctionsKeeps == ASSUME HInv, SetFunctions PROVE Preserved
<1>1. Strays /\ RetTyped' /\ max' = max /\ unique' = unique /\ foreign' = TRUE /\ hent' = -1 /\ files' = files
  BY DEF SetFunctions, Succeeds, RetTyped
<1>2. CASE foreign
  <2>1. UNCHANGED store
    BY <1>2 DEF SetFunctions
  <2> QED
    BY <1>1, <2>1, ModesKept, StayingKeeps
<1>3. CASE ~foreign
  <2>1. Becomes(Empty)
    BY <1>3 DEF SetFunctions
  <2> QED
    BY <1>1, <2>1, EmptyIsStore, ModesKept, BecomingKeeps
<1> QED
  BY <1>2, <1>3

\* H_FUNC with a function that is missing.
LEMMA SetFunctionsFailsKeeps == ASSUME HInv, SetFunctionsFails PROVE Preserved
<1>1. Strays /\ RetTyped' /\ foreign' = FALSE /\ hent' = -1 /\ files' = files
  BY DEF SetFunctionsFails, Fails, RetTyped
<1>2. CASE foreign
  <2>1. Becomes(Empty) /\ max' = 0 /\ unique' = FALSE
    BY <1>2 DEF SetFunctionsFails
  <2> QED
    BY <1>1, <2>1, EmptyIsStore, BecomingKeeps
<1>3. CASE ~foreign
  <2>1. UNCHANGED <<store, max, unique>>
    BY <1>3 DEF SetFunctionsFails
  <2> QED
    BY <1>1, <2>1, ModesKept, StayingKeeps
<1> QED
  BY <1>2, <1>3

-----------------------------------------------------------------------------
(* The file. *)

\* What H_SAVE writes is texts.
LEMMA SavedIs == ASSUME HInv PROVE Saved \in Seq(Text)
  BY ListFacts, TextsIs DEF HInv, Saved

\* The empty file is that of no texts.
LEMMA NothingWritten == <<>> \in Written
<1>1. <<>> \in Seq(Text)
  OBVIOUS
<1>2. Len([i \in DOMAIN <<>> |-> strvis(<<>>[i]) \o <<Newline>>]) = 0
      /\ [i \in DOMAIN <<>> |-> strvis(<<>>[i]) \o <<Newline>>] = <<>>
  OBVIOUS
<1>3. FileOf(<<>>) = <<>>
  BY <1>2 DEF FileOf, FlattenSeq
<1> QED
  BY <1>1, <1>3 DEF Written

\* H_SAVE.
LEMMA SaveKeeps == ASSUME HInv, Save PROVE Preserved
<1>1. Placed /\ Strays /\ file' = FileOf(Saved)
      /\ cursor' = (IF list = <<>> THEN 0 ELSE list[1].num)
      /\ list' = list /\ eventid' = eventid
      /\ max' = max /\ unique' = unique /\ hent' = hent /\ foreign' = foreign
      /\ bufsiz' = bufsiz /\ overrun' = overrun
  BY DEF HInv, Save, modes
<1>2. Filed'
  <2>1. file' \in Written
    BY <1>1, SavedIs DEF Written
  <2> QED
    BY <1>1, <2>1 DEF Placed, Filed
<1>3. list \in Seq(Entry(Text)) /\ eventid \in Nat /\ Descends(list, eventid)
  BY <1>1, StoreIs DEF Placed
<1>4. cursor' \in Nat /\ (cursor' = 0 \/ \E i \in 1..Len(list) : list[i].num = cursor')
  <2>1. list # <<>> => 1 \in 1..Len(list)
    BY <1>3
  <2> QED
    BY <1>1, <2>1, ListFacts
<1>5. Store' \in Stores
  BY <1>1, <1>3, <1>4, StoreNext, Zenon
<1>6. Placed'
  BY <1>1, <1>2, <1>5, ModesKept DEF Placed
<1>7. Len(list) \in Nat
  BY <1>3
<1>8. RetTyped'
  BY <1>7 DEF Save, Succeeds, RetTyped
<1> QED
  BY <1>1, <1>6, <1>8, StraysIs DEF Preserved

\* H_SAVE that cannot write: the file is what it was, or it is empty,
LEMMA SaveFailsKeeps == ASSUME HInv, SaveFails PROVE Preserved
<1>1. file' \in Written
  BY NothingWritten DEF HInv, Placed, Filed, SaveFails
<1>2. /\ list' = list /\ cursor' = cursor /\ eventid' = eventid
      /\ max' = max /\ unique' = unique /\ hent' = hent /\ foreign' = foreign /\ Strays /\ RetTyped'
      /\ bufsiz' = bufsiz /\ overrun' = overrun
  BY DEF SaveFails, store, modes, Fails, RetTyped
<1>3. Store' \in Stores
  BY <1>2, ModesKept, Zenon DEF Store
<1>4. Filed'
  BY <1>1, <1>2 DEF HInv, Placed, Filed
<1>5. Placed'
  BY <1>2, <1>3, <1>4, ModesKept DEF Placed
<1> QED
  BY <1>2, <1>5, StraysIs DEF Preserved

\* or it is that of the oldest entries still, and the cursor is on the one behind them.
LEMMA SaveStopsKeeps == ASSUME HInv, SaveStops PROVE Preserved
<1>1. PICK n \in 0..Len(list) - 1 : /\ file' = FileOf(SubSeq(Saved, 1, n))
                                    /\ cursor' = list[Len(list) - n].num
  BY Zenon DEF SaveStops
<1>2. Placed /\ list \in Seq(Entry(Text)) /\ Len(list) \in Nat /\ Len(list) - n \in 1..Len(list)
  BY <1>1, ListFacts DEF HInv
<1>3. SubSeq(Saved, 1, n) \in Seq(Text)
  BY <1>2, SavedIs, TextsIs DEF Saved
<1>4. file' \in Written
  BY <1>1, <1>3 DEF Written
<1>5. /\ list' = list /\ eventid' = eventid
      /\ max' = max /\ unique' = unique /\ hent' = hent /\ foreign' = foreign /\ Strays /\ RetTyped'
      /\ bufsiz' = bufsiz /\ overrun' = overrun
  BY DEF SaveStops, modes, Fails, RetTyped
<1>6. eventid \in Nat /\ Descends(list, eventid)
  BY <1>2, StoreIs DEF Placed
<1>7. cursor' \in Nat /\ (cursor' = 0 \/ \E i \in 1..Len(list) : list[i].num = cursor')
  BY <1>1, <1>2, ListFacts
<1>8. Store' \in Stores
  BY <1>2, <1>5, <1>6, <1>7, StoreNext, Zenon
<1>9. Filed'
  BY <1>2, <1>4, <1>5 DEF Placed, Filed
<1>10. Placed'
  BY <1>5, <1>8, <1>9, ModesKept DEF Placed
<1> QED
  BY <1>5, <1>10, StraysIs DEF Preserved

\* Where H_LOAD ends fgetln has a buffer.
LEMMA LoadEnds ==
  ASSUME NEW n \in Nat, NEW room \in Nat, room >= 2, Filed, Loaded(n, room), file' = file
  PROVE  Filed' /\ RetTyped'
<1>1. ret' = [value |-> n, num |-> 0] /\ bufsiz' = room /\ overrun' = overrun
  BY DEF Loaded, Succeeds
<1> QED
  BY <1>1 DEF Filed, RetTyped

\* H_LOAD: the file is one that H_SAVE wrote, so that texts are entered one by one, cut
\* short or not.
LEMMA LoadKeeps == ASSUME HInv, Load PROVE Preserved
<1> DEFINE lines == Lines(file)
           texts == TextsIn(bufsiz, file)
           rooms == Rooms(bufsiz, lines)
           spilling == Spilling(bufsiz, file)
<1>1. PICK u \in Seq(Text) : file = FileOf(u)
  BY DEF HInv, Placed, Filed, Written
<1>2. Filed /\ bufsiz \in Nat /\ bufsiz >= 2
  BY DEF HInv, Placed, Filed
<1>3. /\ texts \in Seq(Text) /\ Len(texts) \in Nat
      /\ \A i \in 0..Len(texts) : rooms[i] \in Nat /\ rooms[i] >= 2
  BY <1>1, <1>2, FileGives, Zenon
<1>4. Strays /\ UNCHANGED <<modes, file>>
  BY DEF Load
<1>5. max' = max /\ unique' = unique /\ hent' = hent /\ foreign' = foreign /\ file' = file
  BY <1>4 DEF modes
<1>6. PICK n \in 0..Len(texts) :
        /\ Becomes(LoadedFrom(Store, SubSeq(texts, 1, n)))
        /\ \/ n = Len(texts) /\ Loaded(n, rooms[n])
           \/ n < Len(texts) /\ StopsBehind(n, lines, rooms, n + 1 \in spilling)
           \/ n = 0 /\ Fails /\ UNCHANGED <<bufsiz, overrun>>
  BY Zenon DEF Load
<1> HIDE DEF texts, rooms, lines, spilling
<1>7. SubSeq(texts, 1, n) \in Seq(Text) /\ n \in Nat
  BY <1>3
<1>8. LoadedFrom(Store, SubSeq(texts, 1, n)) \in Stores
  BY <1>7, ModesKept, LoadedIsStore
<1>9. rooms[n] \in Nat /\ rooms[n] >= 2
  BY <1>3
<1>10. LineSize \in Nat /\ LineSize >= 2
  BY HistoryAssumption
<1>11. Filed' /\ RetTyped'
  <2>1. CASE Loaded(n, rooms[n])
    BY <1>2, <1>5, <1>7, <1>9, <2>1, LoadEnds
  <2>2. CASE n < Len(texts) /\ StopsBehind(n, lines, rooms, n + 1 \in spilling)
    <3>1. rooms[n + 1] \in Nat /\ rooms[n + 1] >= 2
      <4>1. n + 1 \in 0..Len(texts)
        BY <1>3, <1>7, <2>2
      <4> QED
        BY <1>3, <4>1, Zenon
    <3>2. \/ Loaded(n, LineSize)
          \/ overrun' = TRUE /\ Fails /\ bufsiz' = rooms[n + 1]
          \/ Fails /\ bufsiz' = rooms[n + 1] /\ UNCHANGED overrun
      BY <2>2, Zenon DEF StopsBehind
    <3>3. CASE Loaded(n, LineSize)
      BY <1>2, <1>5, <1>7, <1>10, <3>3, LoadEnds
    <3>4. CASE Fails /\ bufsiz' = rooms[n + 1] /\ (overrun' = TRUE \/ overrun' = overrun)
      BY <1>2, <1>5, <3>1, <3>4 DEF Filed, Fails, RetTyped
    <3> QED
      BY <3>2, <3>3, <3>4
  <2>3. CASE n = 0 /\ Fails /\ UNCHANGED <<bufsiz, overrun>>
    BY <1>2, <1>5, <2>3 DEF Filed, Fails, RetTyped
  <2> QED
    BY <1>6, <2>1, <2>2, <2>3
<1> QED
  BY <1>4, <1>5, <1>6, <1>8, <1>11, ModesKept, ArrivingKeeps

-----------------------------------------------------------------------------
(* The history                                                             *)

\* No call of history() breaks it.
LEMMA HistoryStep == ASSUME HInv, HistoryNext PROVE Preserved
<1>0. 0..MaxEvents \subseteq Nat /\ 1..MaxEvents \subseteq Nat
  OBVIOUS
<1>1. CASE Moves
  <2>1. CASE First \/ LastEntry \/ NextEntry \/ Prev \/ Curr
    BY <2>1, FirstKeeps, LastKeeps, NextKeeps, PrevKeeps, CurrKeeps
  <2>2. ASSUME NEW num \in 0..MaxEvents, Set(num) \/ SetNth(num) PROVE Preserved
    BY <2>2, SetNumKeeps, SetNthKeeps
  <2>3. ASSUME NEW d \in {Newer, Older}, NEW x, SearchEvent(d, x) \/ SearchString(d, x) PROVE Preserved
    BY <2>3, SearchesKeep
  <2> QED
    BY <1>1, <2>1, <2>2, <2>3, Zenon DEF Moves
<1>2. CASE Changes
  <2>1. ASSUME NEW num \in 0..MaxEvents, Delete(num) \/ DeleteNth(num) PROVE Preserved
    BY <2>1, DeleteKeeps, DeleteNthKeeps
  <2>2. ASSUME NEW text \in Strings, Enter(text) \/ Add(text) \/ AppendTo(text) \/ Replace(text)
        PROVE  Preserved
    BY <2>2, StringIsText, EnterKeeps, AddKeeps, AppendKeeps, ReplaceKeeps
  <2> QED
    BY <1>2, <2>1, <2>2, ClearKeeps, Zenon DEF Changes
<1>3. CASE Setup
  BY <1>3, SetSizeKeeps, SetUniqueKeeps, GetSizeKeeps, SetFunctionsKeeps, SetFunctionsFailsKeeps, Zenon
     DEF Setup
<1>4. CASE Files
  BY <1>4, SaveKeeps, SaveFailsKeeps, SaveStopsKeeps, LoadKeeps, Zenon DEF Files
<1> QED
  BY <1>1, <1>2, <1>3, <1>4 DEF HistoryNext

\* It holds at the start.
LEMMA HistoryStarts == HistoryInit => HInv
<1> SUFFICES ASSUME HistoryInit PROVE HInv
  OBVIOUS
<1>1. list = <<>> /\ cursor = 0 /\ eventid = 0 /\ walk = <<>> /\ file = <<>>
  BY DEF HistoryInit
<1>2. Store = Empty
  BY <1>1, Zenon DEF Store, Empty
<1>3. Filed
  BY <1>1, NothingWritten, HistoryAssumption DEF Filed, HistoryInit
<1>4. Placed
  BY <1>2, <1>3, EmptyIsStore DEF Placed, HistoryInit
<1>5. RetTyped
  BY DEF RetTyped, HistoryInit
<1>6. Walked
  <2>1. Len(walk) = 0 /\ DOMAIN walk = {} /\ Len(list) = 0 /\ walk \in Seq(Nat)
    BY <1>1
  <2> QED
    BY <1>1, <2>1 DEF Walked, WalkInOrder
<1> QED
  BY <1>4, <1>5, <1>6 DEF HInv

\* And it is about the variables alone.
LEMMA HistoryStutters == ASSUME HInv, UNCHANGED historyVars PROVE HInv'
<1>1. /\ list' = list /\ cursor' = cursor /\ eventid' = eventid /\ max' = max /\ unique' = unique
      /\ hent' = hent /\ foreign' = foreign /\ ret' = ret /\ walk' = walk
      /\ file' = file /\ bufsiz' = bufsiz /\ overrun' = overrun
  BY DEF historyVars, store, modes, files
<1>2. Placed'
  BY <1>1 DEF HInv, Placed, Filed, Store
<1>3. RetTyped' /\ Walked'
  BY <1>1 DEF HInv, RetTyped, Walked, WalkInOrder
<1> QED
  BY <1>2, <1>3 DEF HInv

\* The invariant: the numbers go down along the list, the cursor is on an entry or on the
\* head, the file holds the codes of some texts, and a walk that has begun stands at the
\* cursor, whatever calls of history() there were (history.c).
THEOREM HistoryInvariant == HistorySpec => []HInv
<1>1. HInv /\ [HistoryNext]_historyVars => HInv'
  <2>1. ASSUME HInv, HistoryNext PROVE HInv'
    BY <2>1, HistoryStep DEF Preserved, HInv
  <2> QED
    BY <2>1, HistoryStutters
<1> QED
  BY <1>1, HistoryStarts, PTL DEF HistorySpec

\* The cursor is never on an entry that was freed, for any sizes, texts and calls
\* (history_def_delete moves it before the entry goes).
THEOREM CursorIsLive == HistorySpec => []CursorLive
<1>1. HInv => CursorLive
  BY ListFacts, NumbersIs DEF HInv, CursorLive
<1> QED
  BY <1>1, HistoryInvariant, PTL

\* H_FIRST and then H_NEXT return the entries one by one, newest first, and fail only
\* behind the oldest (history_def_first, history_def_next).
THEOREM WalksInOrder == HistorySpec => []WalkInOrder
<1>1. HInv => WalkInOrder
  BY DEF HInv, Walked
<1> QED
  BY <1>1, HistoryInvariant, PTL

\* What H_SAVE writes and H_LOAD then reads into an empty history is what there was, for
\* any texts of any bytes that are shorter in the file than the buffer fgetln has by then
\* (history_save, history_load, fgetln, strvis and strunvis).
THEOREM FilesRoundTrip == HistorySpec => []FileRoundTrips
<1>1. HInv => FileRoundTrips
  <2>1. HInv => list \in Seq(Entry(Text)) /\ max \in Nat /\ bufsiz \in Nat /\ bufsiz >= 2
                /\ DOMAIN list = 1..Len(list)
    BY ListFacts DEF HInv, Placed, Filed
  <2> QED
    BY <2>1, RoundTrips DEF FileRoundTrips, Reloaded, Whole, Short
<1> QED
  BY <1>1, HistoryInvariant, PTL

\* The variables of the history have their types, whatever calls there were.
THEOREM HistoryTyped == HistorySpec => []TypeOK
<1>1. ASSUME HInv PROVE TypeOK
  <2>1. Placed /\ RetTyped /\ Walked
    BY <1>1 DEF HInv
  <2>2. list \in Seq(Entry(Text)) /\ Len(list) \in Nat /\ cursor \in Nat /\ eventid \in Nat
        /\ \A i \in 1..Len(list) : list[i] \in Entry(Text) /\ list[i].num \in Nat \ {0}
    BY <2>1, ListFacts
  <2>3. \A i \in 1..Len(list) : list[i] \in Events
    BY <2>2 DEF Entry, Events, Text
  <2>4. list \in [1..Len(list) -> Events]
    BY <2>2, <2>3
  <2>5. list \in Seq(Events)
    BY <2>2, <2>4
  <2>6. file \in Text
    BY <2>1, FileIs DEF Placed, Filed, Written
  <2>7. max \in Nat /\ unique \in BOOLEAN /\ hent \in Nat \cup {-1} /\ foreign \in BOOLEAN
    BY <2>1 DEF Placed
  <2>9. bufsiz \in Nat /\ overrun \in BOOLEAN
    BY <2>1 DEF Placed, Filed
  <2>8. ret \in [value : Nat \cup {-1}, num : Nat] /\ walk \in Seq(Nat)
    BY <2>1 DEF RetTyped, Walked
  <2> QED
    BY <2>2, <2>5, <2>6, <2>7, <2>8, <2>9 DEF TypeOK, Text
<1> QED
  BY <1>1, HistoryInvariant, PTL

-----------------------------------------------------------------------------
(* Sequences of whatever there is, and the places in them                  *)

IsSeq(l) == \E S : l \in Seq(S)

\* Its length, and its places.
LEMMA SeqIs == ASSUME NEW l, IsSeq(l) PROVE Len(l) \in Nat /\ DOMAIN l = 1..Len(l)
BY LenProperties DEF IsSeq

LEMMA EmptyIsSeq == IsSeq(<<>>) /\ Len(<<>>) = 0
BY EmptySeq DEF IsSeq

\* A part of one.
LEMMA SubIsSeq ==
  ASSUME NEW l, IsSeq(l), NEW m \in 1..Len(l) + 1, NEW n \in 0..Len(l)
  PROVE  IsSeq(SubSeq(l, m, n)) /\ Len(SubSeq(l, m, n)) = IF m <= n THEN n - m + 1 ELSE 0
<1>1. PICK S : l \in Seq(S)
  BY DEF IsSeq
<1>2. Len(l) \in Nat
  BY SeqIs
<1>3. \A i \in m..n : l[i] \in S
  <2>1. ASSUME NEW i \in m..n PROVE i \in 1..Len(l)
    BY <1>2
  <2> QED
    BY <1>1, <2>1, ElementOfSeq
<1>4. m \in Int /\ n \in Int
  BY <1>2
<1> QED
  BY <1>3, <1>4, SubSeqProperties DEF IsSeq

\* Two of them together.
LEMMA JoinIsSeq ==
  ASSUME NEW a, NEW b, IsSeq(a), IsSeq(b)
  PROVE  IsSeq(a \o b) /\ Len(a \o b) = Len(a) + Len(b)
<1>1. PICK S : a \in Seq(S)
  BY DEF IsSeq
<1>2. PICK T : b \in Seq(T)
  BY DEF IsSeq
<1> DEFINE U == S \cup T
<1>3. S \subseteq U /\ T \subseteq U
  OBVIOUS
<1> HIDE DEF U
<1>4. a \in Seq(U) /\ b \in Seq(U)
  BY <1>1, <1>2, <1>3, SeqMonotonic
<1> QED
  BY <1>4, ConcatProperties DEF IsSeq

LEMMA OneIsSeq == ASSUME NEW c PROVE IsSeq(<<c>>) /\ Len(<<c>>) = 1
<1>1. <<c>> \in Seq({c})
  OBVIOUS
<1> QED
  BY <1>1 DEF IsSeq

\* With one more behind.
LEMMA AppendIsSeq ==
  ASSUME NEW l, NEW c, IsSeq(l) PROVE IsSeq(Append(l, c)) /\ Len(Append(l, c)) = Len(l) + 1
<1>1. PICK S : l \in Seq(S)
  BY DEF IsSeq
<1> DEFINE U == S \cup {c}
<1>2. S \subseteq U /\ c \in U
  OBVIOUS
<1> HIDE DEF U
<1>3. l \in Seq(U)
  BY <1>1, <1>2, SeqMonotonic
<1>4. Append(l, c) \in Seq(U) /\ Len(Append(l, c)) = Len(l) + 1
  BY <1>2, <1>3
<1> QED
  BY <1>4 DEF IsSeq

\* What is a function on the first numbers is one.
LEMMA FunctionIsSeq ==
  ASSUME NEW n \in Nat, NEW l, l = [i \in 1..n |-> l[i]]
  PROVE  IsSeq(l) /\ Len(l) = n
<1> DEFINE S == {l[i] : i \in 1..n}
<1>1. \A i \in 1..n : l[i] \in S
  OBVIOUS
<1> HIDE DEF S
<1>2. l \in [1..n -> S]
  BY <1>1
<1>3. l \in Seq(S)
  BY <1>2, SeqDef
<1> QED
  BY <1>2, <1>3 DEF IsSeq

\* With some members replaced it is still one.
LEMMA ExceptIsSeq ==
  ASSUME NEW l, IsSeq(l), NEW i, NEW c
  PROVE  IsSeq([l EXCEPT ![i] = c]) /\ Len([l EXCEPT ![i] = c]) = Len(l)
<1>1. Len(l) \in Nat /\ DOMAIN l = 1..Len(l)
  BY SeqIs
<1> DEFINE e == [l EXCEPT ![i] = c]
<1>2. e = [k \in 1..Len(l) |-> e[k]]
  BY <1>1
<1> HIDE DEF e
<1>3. IsSeq(e) /\ Len(e) = Len(l)
  BY <1>1, <1>2, FunctionIsSeq
<1> QED
  BY <1>3 DEF e

\* The least and the greatest of a set that is not empty are of it (FiniteSetsExt).
LEMMA MinIn ==
  ASSUME NEW S \in SUBSET Nat, S # {}
  PROVE  Min(S) \in S /\ \A y \in S : Min(S) <= y
BY LeastNumber DEF Min

LEMMA MaxIn ==
  ASSUME NEW n \in Nat, NEW S \in SUBSET (0..n), S # {}
  PROVE  Max(S) \in S /\ \A y \in S : y <= Max(S)
<1>1. PICK x \in S : \A y \in S : y <= x
  BY GreatestNumber
<1>2. \A y \in S : y \in Nat
  OBVIOUS
<1>3. \A y \in S : x >= y
  BY <1>1, <1>2
<1>4. Max(S) \in S /\ \A y \in S : Max(S) >= y
  BY <1>3, Zenon DEF Max
<1> QED
  BY <1>2, <1>4

\* The scan for the end of a word, or for its beginning, stops in the line.
LEMMA SkipsUp ==
  ASSUME NEW l, IsSeq(l), NEW p \in 0..Len(l), NEW set
  PROVE  SkipUp(l, p, set) \in p..Len(l)
<1>1. Len(l) \in Nat
  BY SeqIs
<1> DEFINE S == {q \in p..Len(l) : q = Len(l) \/ l[q + 1] \notin set}
<1>2. S \in SUBSET Nat
  BY <1>1
<1>3. Len(l) \in S
  BY <1>1
<1>4. S \subseteq p..Len(l)
  OBVIOUS
<1>5. SkipUp(l, p, set) = Min(S)
  BY DEF SkipUp
<1> HIDE DEF S
<1>6. Min(S) \in S
  BY <1>2, <1>3, MinIn
<1> QED
  BY <1>4, <1>5, <1>6

LEMMA SkipsDown ==
  ASSUME NEW l, NEW p \in Nat, NEW set
  PROVE  SkipDown(l, p, set) \in 0..p
<1> DEFINE S == {q \in 0..p : q = 0 \/ l[q] \notin set}
<1>2. S \in SUBSET (0..p)
  OBVIOUS
<1>3. 0 \in S
  OBVIOUS
<1>5. SkipDown(l, p, set) = Max(S)
  BY DEF SkipDown
<1> HIDE DEF S
<1>6. Max(S) \in S
  BY <1>2, <1>3, MaxIn
<1> QED
  BY <1>2, <1>5, <1>6

\* A recursive definition by one and the same step.
Iterates(n, f, p) == CHOOSE g : g = [i \in 0..n |-> IF i = 0 THEN p ELSE f[g[i - 1]]]

\* f leads from T into T, and g is what it leads to from p, n times.
Within(T, f) == \A x \in T : f[x] \in T
Iterated(T, f, p, n, g) ==
  /\ \A i \in 0..n : g[i] \in T
  /\ g[0] = p
  /\ \A i \in 1..n : g[i] = f[g[i - 1]]

\* What f gives again and again is of T, when f gives something of T for each of T.
LEMMA IteratesIs ==
  ASSUME NEW n \in Nat, NEW T, NEW p \in T, NEW f, Within(T, f)
  PROVE  Iterated(T, f, p, n, Iterates(n, f, p))
<1>0. \A x \in T : f[x] \in T
  BY DEF Within
<1> DEFINE h == [i \in 1..n |-> [x \in T |-> f[x]]]
           Def(g) == g = [i \in 0..n |-> IF i = 0 THEN p ELSE f[g[i - 1]]]
           e == CHOOSE g : Def(g)
<1>1. h \in [1..n -> [T -> T]] /\ \A i \in 1..n, x \in T : h[i][x] = f[x]
  <2> DEFINE k == [x \in T |-> f[x]]
  <2>1. k \in [T -> T] /\ \A x \in T : k[x] = f[x]
    BY <1>0
  <2>2. h = [i \in 1..n |-> k]
    OBVIOUS
  <2> HIDE DEF k, h
  <2> QED
    BY <2>1, <2>2
<1> HIDE DEF h
<1>2. PICK g \in [0..n -> T] : g[0] = p /\ \A i \in 1..n : g[i] = h[i][g[i - 1]]
  <2>1. Recursive(T, n, p, h)
    BY <1>1, Recursion
  <2> QED
    BY <2>1 DEF Recursive
<1>3. ASSUME NEW i \in 1..n PROVE g[i] = f[g[i - 1]]
  <2>1. g[i - 1] \in T
    BY <1>2
  <2> QED
    BY <1>1, <1>2, <2>1, Zenon
<1>4. Def(g)
  <2>1. \A i \in 0..n : g[i] = IF i = 0 THEN p ELSE f[g[i - 1]]
    BY <1>2, <1>3
  <2>2. [i \in 0..n |-> g[i]] = [i \in 0..n |-> IF i = 0 THEN p ELSE f[g[i - 1]]]
    BY <2>1, Zenon
  <2>3. g = [i \in 0..n |-> g[i]]
    OBVIOUS
  <2> QED
    BY <2>2, <2>3, Zenon
<1>5. Def(e)
  BY <1>4, Zenon
<1>6. Iterates(n, f, p) = e
  BY DEF Iterates
<1>7. \A i \in 0..n : e[i] = IF i = 0 THEN p ELSE f[e[i - 1]]
  BY <1>5, Zenon
<1> HIDE DEF e
<1>8. e[0] = p /\ \A i \in 1..n : e[i] = f[e[i - 1]]
  BY <1>7
<1> DEFINE S == {i \in 0..n : e[i] \in T}
<1>9. 0 \in S
  BY <1>8
<1>10. \A i \in 1..n : i - 1 \in S => i \in S
  BY <1>0, <1>8
<1> HIDE DEF S
<1>11. \A i \in 0..n : i \in S
  BY <1>9, <1>10, Induction
<1> QED
  BY <1>6, <1>8, <1>11 DEF S, Iterated

\* And so is what it gives after n times (Times).
LEMMA TimesIn ==
  ASSUME NEW n \in Nat, NEW T, NEW p \in T, NEW f, \A x \in T : f[x] \in T
  PROVE  Times(n, f, p) \in T
<1>1. Times(n, f, p) = Iterates(n, f, p)[n]
  BY DEF Times, Iterates
<1>2. Within(T, f)
  BY DEF Within
<1>3. Iterated(T, f, p, n, Iterates(n, f, p))
  BY <1>2, IteratesIs
<1> QED
  BY <1>1, <1>3 DEF Iterated

-----------------------------------------------------------------------------
(* chared.c: the room, the words                                           *)

\* The buffers grow by at least what is to be added to them, and are no smaller
\* than before (NewSize).
LEMMA Enlarges ==
  ASSUME NEW size \in Nat, size > 2, NEW n \in Nat
  PROVE  /\ NewSize(size, n) \in Nat
         /\ NewSize(size, n) >= 2 * size
         /\ NewSize(size, n) - size >= n
<1> DEFINE f == [x \in Nat |-> 2 * x]
           p == 2 * size
           e == CHOOSE newsz : newsz = [k \in 0..n |-> IF k = 0 THEN 2 * size ELSE 2 * newsz[k - 1]]
           g == Iterates(n, f, p)
<1>1. \A x \in Nat : f[x] \in Nat /\ f[x] = 2 * x
  OBVIOUS
<1>2. p \in Nat
  OBVIOUS
<1> HIDE DEF f
<1> HIDE DEF p
<1>3. /\ \A k \in 0..n : g[k] \in Nat
      /\ g[0] = p
      /\ \A k \in 1..n : g[k] = f[g[k - 1]]
  <2>1. Within(Nat, f)
    BY <1>1 DEF Within
  <2>2. Iterated(Nat, f, p, n, g)
    BY <1>2, <2>1, IteratesIs
  <2> QED
    BY <2>2 DEF Iterated
<1> DEFINE Def(d) == d = [k \in 0..n |-> IF k = 0 THEN 2 * size ELSE 2 * d[k - 1]]
<1>4. \A k \in 0..n : g[k] = IF k = 0 THEN 2 * size ELSE 2 * g[k - 1]
  <2>1. ASSUME NEW k \in 1..n PROVE g[k] = 2 * g[k - 1]
    <3>1. k - 1 \in 0..n
      OBVIOUS
    <3>2. g[k - 1] \in Nat
      BY <1>3, <3>1
    <3> QED
      BY <1>1, <1>3, <3>2
  <2> QED
    BY <1>3, <2>1 DEF p
<1>5. \E d : Def(d)
  <2> DEFINE d == [k \in 0..n |-> g[k]]
  <2>1. \A k \in 0..n : d[k] = g[k]
    OBVIOUS
  <2>2. \A k \in 0..n : d[k] = IF k = 0 THEN 2 * size ELSE 2 * d[k - 1]
    <3>1. ASSUME NEW k \in 0..n, k # 0 PROVE d[k] = 2 * d[k - 1]
      <4>1. k - 1 \in 0..n
        BY <3>1
      <4> QED
        BY <1>4, <2>1, <3>1, <4>1
    <3> QED
      BY <1>4, <2>1, <3>1
  <2>3. d = [k \in 0..n |-> IF k = 0 THEN 2 * size ELSE 2 * d[k - 1]]
    <3>1. [k \in 0..n |-> d[k]] = [k \in 0..n |-> IF k = 0 THEN 2 * size ELSE 2 * d[k - 1]]
      BY <2>2, Zenon
    <3>2. d = [k \in 0..n |-> d[k]]
      OBVIOUS
    <3> HIDE DEF d
    <3> QED
      BY <3>1, <3>2, Zenon
  <2> HIDE DEF d
  <2> QED
    BY <2>3, Zenon
<1>6. Def(e)
  BY <1>5, Zenon
<1>7. NewSize(size, n) = e[Min({k \in 0..n : e[k] - size >= n})]
  BY DEF NewSize
<1>8. \A k \in 0..n : e[k] = IF k = 0 THEN 2 * size ELSE 2 * e[k - 1]
  BY <1>6, Zenon
<1> HIDE DEF e
<1> DEFINE S == {k \in 0..n : e[k] \in Nat /\ e[k] >= 2 * size + k}
<1>9. 0 \in S
  BY <1>8
<1>10. ASSUME NEW k \in 1..n, k - 1 \in S PROVE k \in S
  <2>1. e[k] = 2 * e[k - 1]
    BY <1>8
  <2>2. e[k - 1] \in Nat /\ e[k - 1] >= 2 * size + (k - 1)
    BY <1>10
  <2> QED
    BY <2>1, <2>2
<1> HIDE DEF S
<1>11. \A k \in 0..n : k \in S
  BY <1>9, <1>10, Induction
<1>12. \A k \in 0..n : e[k] \in Nat /\ e[k] >= 2 * size + k
  BY <1>11 DEF S
<1> DEFINE K == {k \in 0..n : e[k] - size >= n}
<1>13. n \in K
  BY <1>12
<1>14. K \in SUBSET Nat
  OBVIOUS
<1> HIDE DEF K
<1>15. Min(K) \in K
  BY <1>13, <1>14, MinIn
<1>16. Min(K) \in 0..n /\ e[Min(K)] - size >= n
  BY <1>15 DEF K
<1>17. e[Min(K)] \in Nat /\ e[Min(K)] >= 2 * size
  BY <1>12, <1>16
<1> QED
  BY <1>7, <1>16, <1>17 DEF K

\* The words begin and end in the line: those of emacs (c__prev_word, c__next_word),
LEMMA PrevWordIn ==
  ASSUME NEW l, IsSeq(l), NEW p \in 0..Len(l), NEW n \in Nat
  PROVE  c__prev_word(l, p, n) \in 0..p
<1>1. Len(l) \in Nat
  BY SeqIs
<1> DEFINE f == [q \in 0..Len(l) |-> SkipDown(l, SkipDown(l, q, Chars \ WordChars), WordChars)]
<1>2. ASSUME NEW x \in 0..p PROVE f[x] \in 0..p
  <2>1. x \in Nat /\ x \in 0..Len(l)
    BY <1>1
  <2>2. SkipDown(l, x, Chars \ WordChars) \in 0..x
    BY <2>1, SkipsDown
  <2>3. SkipDown(l, x, Chars \ WordChars) \in Nat
    BY <2>2
  <2>4. SkipDown(l, SkipDown(l, x, Chars \ WordChars), WordChars)
        \in 0..SkipDown(l, x, Chars \ WordChars)
    BY <2>3, SkipsDown
  <2>5. f[x] = SkipDown(l, SkipDown(l, x, Chars \ WordChars), WordChars)
    BY <2>1
  <2> HIDE DEF f
  <2> QED
    BY <2>2, <2>4, <2>5
<1>3. p \in 0..p
  BY <1>1
<1> HIDE DEF f
<1>4. Times(n, f, p) \in 0..p
  BY <1>2, <1>3, TimesIn
<1> QED
  BY <1>4 DEF c__prev_word, f

LEMMA NextWordIn ==
  ASSUME NEW l, IsSeq(l), NEW p \in 0..Len(l), NEW n \in Nat
  PROVE  c__next_word(l, p, n) \in p..Len(l)
<1>1. Len(l) \in Nat
  BY SeqIs
<1> DEFINE f == [q \in 0..Len(l) |-> SkipUp(l, SkipUp(l, q, Chars \ WordChars), WordChars)]
<1>2. ASSUME NEW x \in p..Len(l) PROVE f[x] \in p..Len(l)
  <2>1. x \in 0..Len(l)
    BY <1>1
  <2>2. SkipUp(l, x, Chars \ WordChars) \in x..Len(l)
    BY <2>1, SkipsUp
  <2>3. SkipUp(l, x, Chars \ WordChars) \in 0..Len(l)
    BY <2>1, <2>2
  <2>4. SkipUp(l, SkipUp(l, x, Chars \ WordChars), WordChars)
        \in SkipUp(l, x, Chars \ WordChars)..Len(l)
    BY <2>3, SkipsUp
  <2>5. f[x] = SkipUp(l, SkipUp(l, x, Chars \ WordChars), WordChars)
    BY <2>1
  <2> HIDE DEF f
  <2> QED
    BY <1>1, <2>2, <2>4, <2>5
<1>3. p \in p..Len(l)
  BY <1>1
<1> HIDE DEF f
<1>4. Times(n, f, p) \in p..Len(l)
  BY <1>2, <1>3, TimesIn
<1> QED
  BY <1>4 DEF c__next_word, f

\* and those of vi (cv_prev_word, cv__endword; cv_next_word is ViNextWordIn).
LEMMA ViPrevWordIn ==
  ASSUME NEW l, IsSeq(l), NEW p \in 0..Len(l), NEW n \in Nat, NEW big
  PROVE  cv_prev_word(l, p, n, big) \in 0..p
<1>1. Len(l) \in Nat
  BY SeqIs
<1> DEFINE R(q) == Max({i \in 1..q : i = 1 \/ l[i] \notin Blanks})
           f == [q \in 0..Len(l) |->
                  IF q = 0 THEN 0
                  ELSE LET r == Max({i \in 1..q : i = 1 \/ l[i] \notin Blanks})
                       IN  SkipDown(l, r, cv__isword(big, l[r]))]
<1>2. ASSUME NEW x \in 0..p PROVE f[x] \in 0..p
  <2>1. x \in Nat /\ x \in 0..Len(l)
    BY <1>1
  <2>2. CASE x = 0
    BY <2>1, <2>2, <1>1
  <2>3. CASE x # 0
    <3> DEFINE S == {i \in 1..x : i = 1 \/ l[i] \notin Blanks}
    <3>1. S \in SUBSET (0..x) /\ 1 \in S
      BY <2>1, <2>3
    <3>2. R(x) = Max(S)
      OBVIOUS
    <3> HIDE DEF S
    <3>3. Max(S) \in S
      BY <2>1, <3>1, MaxIn
    <3>4. R(x) \in 0..x
      BY <3>1, <3>2, <3>3
    <3>5. f[x] = SkipDown(l, R(x), cv__isword(big, l[R(x)]))
      BY <2>1, <2>3
    <3> HIDE DEF R, f
    <3>6. R(x) \in Nat
      BY <3>4
    <3>7. f[x] \in 0..R(x)
      BY <3>5, <3>6, SkipsDown
    <3> QED
      BY <3>4, <3>7
  <2> QED
    BY <2>2, <2>3
<1>3. p \in 0..p
  BY <1>1
<1> HIDE DEF f
<1>4. Times(n, f, p) \in 0..p
  BY <1>2, <1>3, TimesIn
<1> QED
  BY <1>4 DEF cv_prev_word, f

LEMMA ViEndWordIn ==
  ASSUME NEW l, IsSeq(l), NEW p \in 0..Len(l), p < Len(l), NEW n \in Nat, NEW big
  PROVE  cv__endword(l, p, n, big) \in p..Len(l) - 1
<1>1. Len(l) \in Nat
  BY SeqIs
<1> DEFINE f == [q \in 0..Len(l) |->
                LET r == SkipUp(l, q, Blanks)
                IN  IF r = Len(l) THEN r ELSE SkipUp(l, r, cv__isword(big, l[r + 1]))]
<1>2. ASSUME NEW x \in p + 1..Len(l) PROVE f[x] \in p + 1..Len(l)
  <2> DEFINE r == SkipUp(l, x, Blanks)
             w == SkipUp(l, r, cv__isword(big, l[r + 1]))
  <2>1. x \in 0..Len(l)
    BY <1>1
  <2>2. r \in x..Len(l)
    BY <2>1, SkipsUp
  <2>3. f[x] = IF r = Len(l) THEN r ELSE w
    BY <2>1
  <2> HIDE DEF r, f
  <2>4. r \in 0..Len(l)
    BY <2>1, <2>2
  <2>5. w \in r..Len(l)
    BY <2>4, SkipsUp
  <2> HIDE DEF w
  <2> QED
    BY <1>1, <2>2, <2>3, <2>5
<1>3. p + 1 \in p + 1..Len(l)
  BY <1>1
<1> HIDE DEF f
<1>4. Times(n, f, p + 1) \in p + 1..Len(l)
  BY <1>2, <1>3, TimesIn
<1>5. cv__endword(l, p, n, big) = Times(n, f, p + 1) - 1
  BY DEF cv__endword, f
<1> QED
  BY <1>1, <1>4, <1>5

-----------------------------------------------------------------------------
(* What holds of an EditLine                                               *)

EditFields ==
  {"line", "cursor", "size", "kill", "mark", "undo", "type", "alt", "mode", "arg", "doing",
   "pending", "pos", "event", "saved", "last", "cmd", "key", "redo", "pat", "patdir", "chr",
   "chrdir", "till", "pushed", "asked", "meta", "ret", "astray"}

\* Where a mark is, or that it is in no line.
MarkPlaces == Nat \cup {Loose}

\* The buffers, but for the line.
Buffers(s) ==
  /\ DOMAIN s = EditFields /\ DOMAIN s.redo = {"count", "action", "cmd", "key", "text"}
  /\ s.size \in Nat /\ s.size >= BufSiz /\ s.size <= MaxSize
  /\ IsSeq(s.kill) /\ Len(s.kill) <= Limit(s)
  /\ s.undo.kept => /\ IsSeq(s.undo.line) /\ Len(s.undo.line) < Limit(s)
                    /\ s.undo.cursor \in 0..Len(s.undo.line)
  /\ IsSeq(s.saved) /\ Len(s.saved) < Limit(s)
  /\ s.redo.count \in Nat /\ s.mark \in MarkPlaces /\ s.chrdir \in {1, -1}
  /\ s.event \in Nat /\ (Past # <<>> => s.event <= Len(Past))

\* The line, with room for the newline that ends it.
OnLine(s) == IsSeq(s.line) /\ Len(s.line) < Limit(s) /\ s.cursor \in 0..Len(s.line)

Sound(s) == Buffers(s) /\ OnLine(s)

\* What an argument and a pending operator are.
Awaiting(s) == s.arg \in Nat /\ (s.pending # None => s.pos \in 0..Len(s.line))

Ready(s) == Sound(s) /\ Awaiting(s)

\* What a command leaves.
EndedLine(s) == IsSeq(s.line) /\ Len(s.line) <= Limit(s) /\ s.cursor \in 0..Len(s.line)
Fine(r) ==
  \/ r.astray /\ DOMAIN r = EditFields
  \/ /\ Buffers(r)
     /\ IF r.ret = "newline" THEN EndedLine(r) ELSE OnLine(r)
     /\ r.ret = "arghack" => Awaiting(r)

\* And leaves alone: the line of the history that is shown, and the one kept for it.
Stays(s, r) == r.event = s.event /\ r.saved = s.saved

\* There is always room for the newline and the NUL.
LEMMA LimitIs == ASSUME NEW s, Buffers(s) PROVE Limit(s) \in Nat /\ Limit(s) > 0
BY LineEditAssumption DEF Buffers, Limit, Leave

\* The line is as it was when a command is over, whichever code it returns.
LEMMA DoneIs ==
  ASSUME NEW t, Sound(t)
  PROVE  Fine(Done(t)) /\ Fine(Error(t)) /\ Fine(EndOfFile(t))
<1>1. Sound(Done(t)) /\ Done(t).ret = "done"
  BY DEF Sound, Buffers, OnLine, Done, Limit, EditFields
<1>2. Sound(Error(t)) /\ Error(t).ret = "error"
  BY DEF Sound, Buffers, OnLine, Error, Limit, EditFields
<1>3. Sound(EndOfFile(t)) /\ EndOfFile(t).ret = "eof"
  BY DEF Sound, Buffers, OnLine, EndOfFile, Limit, EditFields
<1> QED
  BY <1>1, <1>2, <1>3 DEF Fine, Sound

\* What an edit leaves, and a command.
Edits(s, t) == Sound(t) /\ Stays(s, t)
Good(s, r) == Fine(r) /\ Stays(s, r)

\* So a command that edits and then returns a code leaves the line as it must be,
LEMMA EndGood ==
  ASSUME NEW s, NEW t, Edits(s, t)
  PROVE  Good(s, Done(t)) /\ Good(s, Error(t)) /\ Good(s, EndOfFile(t))
<1>1. Fine(Done(t)) /\ Fine(Error(t)) /\ Fine(EndOfFile(t))
  BY DoneIs DEF Edits
<1>2. Stays(s, Done(t)) /\ Stays(s, Error(t)) /\ Stays(s, EndOfFile(t))
  BY DEF Edits, Stays, Done, Error, EndOfFile, Sound, Buffers, EditFields
<1> QED
  BY <1>1, <1>2 DEF Good

LEMMA SameEdits == ASSUME NEW s, Sound(s) PROVE Edits(s, s)
BY DEF Edits, Stays

\* or it has gone astray,
LEMMA AstrayGood ==
  ASSUME NEW s, NEW t, Buffers(t), Stays(s, t) PROVE Good(s, Done(Astray(t)))
<1>1. Done(Astray(t)).astray /\ DOMAIN Done(Astray(t)) = EditFields
  BY DEF Done, Astray, Buffers, EditFields
<1>2. Stays(s, Done(Astray(t)))
  BY DEF Stays, Done, Astray, Buffers, EditFields
<1> QED
  BY <1>1, <1>2 DEF Good, Fine

\* or waits for the rest of its argument,
LEMMA ArgumentGood ==
  ASSUME NEW s, NEW t, Edits(s, t), Awaiting(t) PROVE Good(s, Argument(t))
<1>1. Sound(Argument(t)) /\ Argument(t).ret = "arghack" /\ Awaiting(Argument(t))
  BY DEF Edits, Sound, Buffers, OnLine, Argument, Limit, EditFields, Awaiting
<1>2. Stays(s, Argument(t))
  BY DEF Edits, Stays, Argument, Sound, Buffers, EditFields
<1> QED
  BY <1>1, <1>2 DEF Good, Fine, Sound

\* or ends the line, which has room for the newline (ed_newline).
LEMMA NewlineGood ==
  ASSUME NEW s, NEW t, Edits(s, t) PROVE Good(s, ed_newline(t))
<1> DEFINE r == ed_newline(t)
           l == Append(t.line, "newline")
<1>1. IsSeq(l) /\ Len(l) = Len(t.line) + 1
  BY AppendIsSeq DEF Edits, Sound, OnLine
<1>2. Len(t.line) \in Nat /\ Limit(t) \in Nat
  BY SeqIs, LimitIs DEF Edits, Sound, OnLine
<1>3. r = [t EXCEPT !.line = l, !.ret = "newline"]
  BY DEF ed_newline, EndOfLine, Edits, Sound, Buffers, EditFields
<1> HIDE DEF l, r
<1>4. Buffers(r)
  BY <1>3 DEF Edits, Sound, Buffers, Limit, EditFields
<1>5. r.ret = "newline" /\ EndedLine(r) /\ Stays(s, r)
  BY <1>1, <1>2, <1>3 DEF Edits, Sound, Buffers, OnLine, EndedLine, Limit, EditFields, Stays
<1> QED
  BY <1>4, <1>5 DEF Good, Fine, r

-----------------------------------------------------------------------------
(* The operations of chared.c                                              *)

Editable(s) == Sound(s) /\ s.arg \in Nat

\* One that changes only the line and the cursor.
LEMMA LineEdits ==
  ASSUME NEW s, Sound(s), NEW l, IsSeq(l), Len(l) < Limit(s), NEW c \in 0..Len(l)
  PROVE  Edits(s, [s EXCEPT !.line = l, !.cursor = c])
BY DEF Edits, Sound, Buffers, OnLine, Limit, EditFields, Stays

\* One that changes only the line, under its cursor,
LEMMA OnlyLineEdits ==
  ASSUME NEW s, Sound(s), NEW l, IsSeq(l), Len(l) < Limit(s), s.cursor \in 0..Len(l)
  PROVE  Edits(s, [s EXCEPT !.line = l])
BY DEF Edits, Sound, Buffers, OnLine, Limit, EditFields, Stays

\* one that moves the cursor,
LEMMA CursorEdits ==
  ASSUME NEW s, Sound(s), NEW c \in 0..Len(s.line)
  PROVE  /\ Edits(s, [s EXCEPT !.cursor = c])
         /\ [s EXCEPT !.cursor = c].line = s.line /\ [s EXCEPT !.cursor = c].cursor = c
BY DEF Edits, Sound, Buffers, OnLine, Limit, EditFields, Stays

\* one that keeps what there is for undo (cv_undo),
LEMMA UndoEdits ==
  ASSUME NEW s, Editable(s)
  PROVE  /\ Edits(s, cv_undo(s)) /\ Editable(cv_undo(s))
         /\ \A x \in EditFields \ {"undo", "redo"} : cv_undo(s)[x] = s[x]
<1> DEFINE r == cv_undo(s)
<1>1. Buffers(r)
  BY DEF Editable, Sound, OnLine, Buffers, EditFields, Limit, cv_undo
<1>2. \A x \in EditFields \ {"undo", "redo"} : r[x] = s[x]
  BY DEF Editable, Sound, Buffers, EditFields, cv_undo
<1> HIDE DEF r
<1>3. OnLine(r) /\ Stays(s, r) /\ r.arg \in Nat
  BY <1>2 DEF Editable, Sound, OnLine, EditFields, Limit, Stays
<1> QED
  BY <1>1, <1>2, <1>3 DEF Edits, Editable, Sound, r

\* and one that fills the cut buffer (cv_yank).
LEMMA YankEdits ==
  ASSUME NEW s, Sound(s), NEW text, IsSeq(text), Len(text) <= Limit(s)
  PROVE  Edits(s, cv_yank(s, text)) /\ \A x \in EditFields \ {"kill"} : cv_yank(s, text)[x] = s[x]
BY DEF Edits, Sound, Buffers, OnLine, Limit, EditFields, Stays, cv_yank

\* What is left of a line when a part of it is taken out, and the part.
LEMMA WithoutIs ==
  ASSUME NEW l, IsSeq(l), NEW to \in 0..Len(l), NEW from \in 0..to
  PROVE  IsSeq(Without(l, from, to)) /\ Len(Without(l, from, to)) = Len(l) - (to - from)
<1>1. Len(l) \in Nat
  BY SeqIs
<1> DEFINE a == SubSeq(l, 1, from)
           b == SubSeq(l, to + 1, Len(l))
<1>2. IsSeq(a) /\ Len(a) = from
  <2>1. 1 \in 1..Len(l) + 1 /\ from \in 0..Len(l)
    BY <1>1
  <2>2. IsSeq(a) /\ Len(a) = IF 1 <= from THEN from - 1 + 1 ELSE 0
    BY <2>1, SubIsSeq
  <2> QED
    BY <2>1, <2>2
<1>3. IsSeq(b) /\ Len(b) = Len(l) - to
  <2>1. to + 1 \in 1..Len(l) + 1 /\ Len(l) \in 0..Len(l)
    BY <1>1
  <2>2. IsSeq(b) /\ Len(b) = IF to + 1 <= Len(l) THEN Len(l) - (to + 1) + 1 ELSE 0
    BY <2>1, SubIsSeq
  <2> QED
    BY <1>1, <2>2
<1>4. Without(l, from, to) = a \o b
  BY DEF Without
<1> HIDE DEF a, b
<1>5. IsSeq(a \o b) /\ Len(a \o b) = Len(a) + Len(b)
  BY <1>2, <1>3, JoinIsSeq
<1> QED
  BY <1>1, <1>2, <1>3, <1>4, <1>5

\* What is taken out of a line is no longer than the line.
LEMMA CutIs ==
  ASSUME NEW s, OnLine(s), NEW from \in 0..Len(s.line), NEW to \in 0..Len(s.line)
  PROVE  /\ IsSeq(SubSeq(s.line, from + 1, to))
         /\ Len(SubSeq(s.line, from + 1, to)) = IF from < to THEN to - from ELSE 0
         /\ Len(SubSeq(s.line, from + 1, to)) <= Len(s.line)
<1> DEFINE l == s.line
           cut == SubSeq(l, from + 1, to)
<1>1. Len(l) \in Nat /\ IsSeq(l)
  BY SeqIs DEF OnLine
<1>2. from + 1 \in 1..Len(l) + 1
  BY <1>1
<1>3. IsSeq(cut) /\ Len(cut) = IF from + 1 <= to THEN to - (from + 1) + 1 ELSE 0
  BY <1>1, <1>2, SubIsSeq
<1>4. from \in 0..Len(l) /\ to \in 0..Len(l)
  OBVIOUS
<1> HIDE DEF cut, l
<1>5. IsSeq(cut) /\ Len(cut) = (IF from < to THEN to - from ELSE 0) /\ Len(cut) <= Len(l)
  BY <1>1, <1>3, <1>4
<1> QED
  BY <1>5 DEF cut, l

\* The smaller of two numbers, as the deletions cut their count.
LEMMA ClippedIs ==
  ASSUME NEW n \in Int, NEW most \in Int
  PROVE  /\ Clipped(n, most) \in Int /\ Clipped(n, most) <= n /\ Clipped(n, most) <= most
         /\ (n >= 0 /\ most >= 0 => Clipped(n, most) >= 0)
         /\ Clipped(n, most) \in {n, most}
BY DEF Clipped

LEMMA ClippedBy ==
  ASSUME NEW n \in Nat, NEW len \in Nat, NEW p \in 0..len
  PROVE  /\ Clipped(n, len - p) \in Nat /\ p + Clipped(n, len - p) \in 0..len
         /\ p \in 0..p + Clipped(n, len - p)
<1> DEFINE m == Clipped(n, len - p)
<1>1. m \in {n, len - p} /\ m <= len - p
  BY DEF Clipped
<1> HIDE DEF m
<1>2. m \in Nat /\ p + m \in 0..len /\ p \in 0..p + m
  BY <1>1
<1> QED
  BY <1>2 DEF m

\* Characters behind the cursor, and before it (c_delafter, c_delbefore).
LEMMA DelafterEdits ==
  ASSUME NEW s, Editable(s), NEW n \in Nat
  PROVE  /\ Edits(s, c_delafter(s, n)) /\ c_delafter(s, n).cursor = s.cursor
         /\ \A x \in EditFields \ {"undo", "redo", "kill", "line"} : c_delafter(s, n)[x] = s[x]
         /\ Len(c_delafter(s, n).line) = Len(s.line) - Clipped(n, Len(s.line) - s.cursor)
<1> DEFINE m == Clipped(n, Len(s.line) - s.cursor)
           u == cv_undo(s)
           cut == SubSeq(s.line, s.cursor + 1, s.cursor + m)
           y == cv_yank(u, cut)
           rest == Without(s.line, s.cursor, s.cursor + m)
           r == [y EXCEPT !.line = rest]
<1>0. OnLine(s) /\ Sound(s) /\ Len(s.line) \in Nat /\ s.cursor \in 0..Len(s.line)
  BY SeqIs DEF Editable, Sound, OnLine
<1>1. m \in Nat /\ s.cursor + m \in 0..Len(s.line) /\ s.cursor \in 0..s.cursor + m
  BY <1>0, ClippedBy
<1>2. c_delafter(s, n) = r
  BY DEF c_delafter
<1> HIDE DEF m
<1>3. IsSeq(cut) /\ Len(cut) <= Len(s.line)
  BY <1>0, <1>1, CutIs
<1>4. IsSeq(rest) /\ Len(rest) = Len(s.line) - m
  <2>1. IsSeq(s.line)
    BY <1>0 DEF OnLine
  <2>2. IsSeq(rest) /\ Len(rest) = Len(s.line) - ((s.cursor + m) - s.cursor)
    BY <1>1, <2>1, WithoutIs
  <2>3. (s.cursor + m) - s.cursor = m
    BY <1>0, <1>1
  <2> HIDE DEF rest
  <2> QED
    BY <2>2, <2>3
<1>5. Edits(s, u) /\ Editable(u) /\ \A x \in EditFields \ {"undo", "redo"} : u[x] = s[x]
  BY UndoEdits
<1> HIDE DEF u, cut, rest
<1>6. Edits(u, y) /\ \A x \in EditFields \ {"kill"} : y[x] = u[x]
  <2>1. Sound(u) /\ u.size = s.size
    BY <1>5 DEF Edits, EditFields
  <2>2. Len(cut) <= Limit(u)
    BY <1>0, <1>3, <2>1, LimitIs DEF OnLine, Limit, Sound
  <2> QED
    BY <1>3, <2>1, <2>2, YankEdits
<1> HIDE DEF y
<1>7. \A x \in EditFields \ {"undo", "redo", "kill"} : y[x] = s[x]
  BY <1>5, <1>6
<1>8. \A x \in EditFields \ {"undo", "redo", "kill", "line"} : r[x] = s[x]
  BY <1>6, <1>7 DEF Edits, Sound, Buffers, EditFields
<1>9. r.line = rest
  BY <1>6 DEF Edits, Sound, Buffers, EditFields
<1>10. Edits(y, r)
  <2>1. Sound(y) /\ y.cursor = s.cursor /\ y.size = s.size
    BY <1>6, <1>7 DEF Edits, EditFields
  <2>2. Limit(y) = Limit(s) /\ Len(s.line) < Limit(s) /\ Limit(s) \in Nat
    BY <1>0, <2>1, LimitIs DEF OnLine, Limit, Sound
  <2>3. Len(rest) \in Nat /\ Len(rest) <= Len(s.line) /\ s.cursor \in 0..Len(rest)
    BY <1>0, <1>1, <1>4
  <2>4. Len(rest) < Limit(y) /\ y.cursor \in 0..Len(rest)
    BY <1>0, <2>1, <2>2, <2>3
  <2> QED
    BY <1>4, <2>1, <2>4, OnlyLineEdits
<1>11. Edits(s, r)
  BY <1>5, <1>6, <1>10 DEF Edits, Stays
<1>12. r.cursor = s.cursor
  BY <1>8 DEF EditFields
<1> HIDE DEF r
<1> QED
  BY <1>2, <1>4, <1>8, <1>9, <1>11, <1>12 DEF m

\* The deletions keep the cursor in the line and what they take in the cut buffer
\* (c_delbefore, and c_delafter1 and c_delbefore1 for one character).
LEMMA DelbeforeEdits ==
  ASSUME NEW s, Editable(s), NEW n \in Nat
  PROVE  Edits(s, c_delbefore(s, n))
<1> DEFINE m == Clipped(n, s.cursor)
           u == cv_undo(s)
           cut == SubSeq(s.line, s.cursor - m + 1, s.cursor)
           y == cv_yank(u, cut)
           rest == Without(s.line, s.cursor - m, s.cursor)
           k == s.cursor - m
           r == [y EXCEPT !.line = rest, !.cursor = @ - m]
<1>0. OnLine(s) /\ Sound(s) /\ Len(s.line) \in Nat /\ s.cursor \in 0..Len(s.line)
  BY SeqIs DEF Editable, Sound, OnLine
<1>1. m \in Nat /\ k \in 0..s.cursor /\ k \in 0..Len(s.line)
  <2>1. s.cursor \in Nat
    BY <1>0
  <2>2. m \in {n, s.cursor} /\ m <= s.cursor
    BY <2>1 DEF Clipped
  <2> HIDE DEF m
  <2> QED
    BY <1>0, <2>1, <2>2
<1>2. c_delbefore(s, n) = r
  BY DEF c_delbefore
<1> HIDE DEF m
<1>3. IsSeq(cut) /\ Len(cut) <= Len(s.line)
  BY <1>0, <1>1, CutIs
<1>4. IsSeq(rest) /\ Len(rest) = Len(s.line) - m
  <2>1. IsSeq(s.line)
    BY <1>0 DEF OnLine
  <2>2. IsSeq(rest) /\ Len(rest) = Len(s.line) - (s.cursor - (s.cursor - m))
    BY <1>0, <1>1, <2>1, WithoutIs
  <2>3. s.cursor - (s.cursor - m) = m
    BY <1>0, <1>1
  <2> HIDE DEF rest
  <2> QED
    BY <2>2, <2>3
<1>5. Edits(s, u) /\ Editable(u) /\ \A x \in EditFields \ {"undo", "redo"} : u[x] = s[x]
  BY UndoEdits
<1> HIDE DEF u, cut, rest
<1>6. Edits(u, y) /\ \A x \in EditFields \ {"kill"} : y[x] = u[x]
  <2>1. Sound(u) /\ u.size = s.size
    BY <1>5 DEF Edits, EditFields
  <2>2. Len(cut) <= Limit(u)
    BY <1>0, <1>3, <2>1, LimitIs DEF OnLine, Limit, Sound
  <2> QED
    BY <1>3, <2>1, <2>2, YankEdits
<1> HIDE DEF y
<1>7. \A x \in EditFields \ {"undo", "redo", "kill"} : y[x] = s[x]
  BY <1>5, <1>6
<1>8. Sound(y) /\ y.cursor = s.cursor /\ y.size = s.size
  BY <1>6, <1>7 DEF Edits, EditFields
<1>9. r = [y EXCEPT !.line = rest, !.cursor = k]
  BY <1>8
<1>10. Edits(y, r)
  <2>2. Limit(y) = Limit(s) /\ Len(s.line) < Limit(s) /\ Limit(s) \in Nat
    BY <1>0, <1>8, LimitIs DEF OnLine, Limit, Sound
  <2>3. Len(rest) \in Nat /\ Len(rest) <= Len(s.line) /\ k \in 0..Len(rest)
    BY <1>0, <1>1, <1>4
  <2>4. Len(rest) < Limit(y)
    BY <1>0, <2>2, <2>3
  <2> HIDE DEF k, r
  <2> QED
    BY <1>4, <1>8, <1>9, <2>3, <2>4, LineEdits
<1>11. Edits(s, r)
  BY <1>5, <1>6, <1>10 DEF Edits, Stays
<1> QED
  BY <1>2, <1>11

LEMMA Delafter1Edits ==
  ASSUME NEW s, Sound(s), s.cursor < Len(s.line) PROVE Edits(s, c_delafter1(s))
<1> DEFINE rest == Without(s.line, s.cursor, s.cursor + 1)
<1>0. IsSeq(s.line) /\ Len(s.line) \in Nat /\ s.cursor \in 0..Len(s.line)
  BY SeqIs DEF Sound, OnLine
<1>1. IsSeq(rest) /\ Len(rest) = Len(s.line) - ((s.cursor + 1) - s.cursor)
  <2>1. s.cursor + 1 \in 0..Len(s.line) /\ s.cursor \in 0..s.cursor + 1
    BY <1>0
  <2> QED
    BY <1>0, <2>1, WithoutIs
<1>2. c_delafter1(s) = [s EXCEPT !.line = rest]
  BY DEF c_delafter1
<1> HIDE DEF rest
<1>3. Len(s.line) < Limit(s) /\ Limit(s) \in Nat
  BY LimitIs DEF Sound, OnLine
<1>4. Len(rest) < Limit(s) /\ s.cursor \in 0..Len(rest)
  BY <1>0, <1>1, <1>3
<1> QED
  BY <1>1, <1>2, <1>4, OnlyLineEdits

LEMMA Delbefore1Edits ==
  ASSUME NEW s, Sound(s), s.cursor > 0 PROVE Edits(s, c_delbefore1(s))
<1> DEFINE rest == Without(s.line, s.cursor - 1, s.cursor)
           k == s.cursor - 1
<1>0. IsSeq(s.line) /\ Len(s.line) \in Nat /\ s.cursor \in 0..Len(s.line)
  BY SeqIs DEF Sound, OnLine
<1>1. IsSeq(rest) /\ Len(rest) = Len(s.line) - (s.cursor - (s.cursor - 1))
  <2>1. s.cursor - 1 \in 0..s.cursor
    BY <1>0
  <2> QED
    BY <1>0, <2>1, WithoutIs
<1>2. c_delbefore1(s) = [s EXCEPT !.line = rest, !.cursor = k]
  BY DEF c_delbefore1, Sound, Buffers, EditFields
<1> HIDE DEF rest
<1>3. Len(s.line) < Limit(s) /\ Limit(s) \in Nat
  BY LimitIs DEF Sound, OnLine
<1>4. Len(rest) < Limit(s) /\ k \in 0..Len(rest)
  BY <1>0, <1>1, <1>3
<1> HIDE DEF k
<1>5. Edits(s, [s EXCEPT !.line = rest, !.cursor = k])
  BY <1>1, <1>4, LineEdits
<1> QED
  BY <1>2, <1>5, Zenon

\* There is room for n characters, or room is made (ch_enlargebufs).
LEMMA RoomIs ==
  ASSUME NEW s, Sound(s), NEW n \in Nat, CanInsert(s, n)
  PROVE  /\ Edits(s, Room(s, n)) /\ Len(s.line) + n < Limit(Room(s, n))
         /\ \A x \in EditFields \ {"size"} : Room(s, n)[x] = s[x]
<1>0. Len(s.line) \in Nat /\ Len(s.line) < Limit(s) /\ DOMAIN s = EditFields
  <2>1. IsSeq(s.line) /\ Len(s.line) < Limit(s) /\ DOMAIN s = EditFields
    BY DEF Sound, OnLine, Buffers
  <2> QED
    BY <2>1, SeqIs
<1>1. CASE HasRoom(s, n)
  <2>1. Room(s, n) = s
    BY <1>1 DEF Room
  <2> QED
    BY <1>1, <2>1, SameEdits DEF HasRoom
<1>2. CASE ~HasRoom(s, n)
  <2> DEFINE z == NewSize(s.size, n)
             r == [s EXCEPT !.size = z]
  <2>1. s.size \in Nat /\ s.size > 2
    BY LineEditAssumption DEF Sound, Buffers
  <2>2. z \in Nat /\ z >= 2 * s.size /\ z - s.size >= n
    BY <2>1, Enlarges
  <2>3. z <= MaxSize
    BY <1>2 DEF CanInsert
  <2>4. Room(s, n) = r
    BY <1>2, <1>0, <2>3 DEF Room, ch_enlargebufs, EditFields
  <2> HIDE DEF z
  <2>5. r.size = z /\ \A x \in EditFields \ {"size"} : r[x] = s[x]
    BY <1>0 DEF EditFields
  <2>6. Limit(r) = z - 2 /\ Limit(s) = s.size - 2 /\ Limit(r) >= Limit(s) /\ Limit(r) \in Nat
    BY <2>1, <2>2, <2>5 DEF Limit, Leave
  <2>7. Len(s.line) + n < Limit(r)
    BY <1>0, <2>1, <2>2, <2>6
  <2>8. DOMAIN r = EditFields
    BY <1>0
  <2> HIDE DEF r
  <2>9. Limit(s) \in Nat
    BY LimitIs DEF Sound
  <2>10. Buffers(r)
    <3>1. /\ r.size \in Nat /\ r.size >= BufSiz /\ r.size <= MaxSize
      BY <2>1, <2>2, <2>3, <2>5, LineEditAssumption DEF Sound, Buffers
    <3>2. /\ r.kill = s.kill /\ r.undo = s.undo /\ r.saved = s.saved /\ r.redo = s.redo
          /\ r.mark = s.mark /\ r.chrdir = s.chrdir /\ r.event = s.event
      BY <2>5 DEF EditFields
    <3>3. IsSeq(r.kill) /\ Len(r.kill) <= Limit(r)
      BY <2>6, <2>9, <3>2, SeqIs DEF Sound, Buffers
    <3>4. r.undo.kept => /\ IsSeq(r.undo.line) /\ Len(r.undo.line) < Limit(r)
                         /\ r.undo.cursor \in 0..Len(r.undo.line)
      BY <2>6, <2>9, <3>2, SeqIs DEF Sound, Buffers
    <3>5. IsSeq(r.saved) /\ Len(r.saved) < Limit(r)
      BY <2>6, <2>9, <3>2, SeqIs DEF Sound, Buffers
    <3> QED
      BY <2>8, <3>1, <3>2, <3>3, <3>4, <3>5 DEF Sound, Buffers
  <2>11. r.line = s.line /\ r.cursor = s.cursor /\ r.event = s.event /\ r.saved = s.saved
    BY <2>5 DEF EditFields
  <2>12. OnLine(r)
    BY <1>0, <2>6, <2>9, <2>11 DEF Sound, OnLine
  <2> QED
    BY <2>4, <2>5, <2>7, <2>10, <2>11, <2>12 DEF Edits, Sound, Stays
<1> QED
  BY <1>1, <1>2

\* The mark is moved.
LEMMA MarkEdits ==
  ASSUME NEW s, Sound(s), NEW n \in MarkPlaces
  PROVE  /\ Edits(s, [s EXCEPT !.mark = n])
         /\ \A x \in EditFields \ {"mark"} : [s EXCEPT !.mark = n][x] = s[x]
BY DEF Edits, Sound, Buffers, OnLine, EditFields, Limit, Stays

\* Without room nothing happens to the line; the mark may be in it no more.
LEMMA NoRoomEdits ==
  ASSUME NEW s, Sound(s), NEW n \in Nat, ~CanInsert(s, n)
  PROVE  /\ Edits(s, Room(s, n))
         /\ \A x \in EditFields \ {"mark"} : Room(s, n)[x] = s[x]
<1> DEFINE loose == [s EXCEPT !.mark = Loose]
<1>1. Loose \in MarkPlaces
  BY DEF MarkPlaces
<1>2. Edits(s, loose) /\ \A x \in EditFields \ {"mark"} : loose[x] = s[x]
  BY <1>1, MarkEdits
<1> HIDE DEF loose
<1>3. Room(s, n) \in {s, loose}
  BY DEF Room, CanInsert, ch_enlargebufs, loose
<1>4. Edits(s, s)
  BY SameEdits
<1> QED
  BY <1>2, <1>3, <1>4, Zenon

\* The line with text at the cursor.
LEMMA SplitIs ==
  ASSUME NEW s, OnLine(s), NEW text, IsSeq(text)
  PROVE  /\ IsSeq(Before(s) \o text \o After(s))
         /\ Len(Before(s) \o text \o After(s)) = Len(s.line) + Len(text)
<1>0. Len(s.line) \in Nat /\ s.cursor \in 0..Len(s.line) /\ Len(text) \in Nat
  BY SeqIs DEF OnLine
<1>1. IsSeq(Before(s)) /\ Len(Before(s)) = s.cursor
  <2>1. 0 \in 0..Len(s.line) /\ s.cursor \in Nat
    BY <1>0
  <2>2. /\ IsSeq(SubSeq(s.line, 0 + 1, s.cursor))
        /\ Len(SubSeq(s.line, 0 + 1, s.cursor)) = IF 0 < s.cursor THEN s.cursor - 0 ELSE 0
    BY <1>0, <2>1, CutIs
  <2>3. Before(s) = SubSeq(s.line, 0 + 1, s.cursor)
    BY DEF Before
  <2> QED
    BY <2>1, <2>2, <2>3
<1>2. IsSeq(After(s)) /\ Len(After(s)) = Len(s.line) - s.cursor
  <2>1. Len(s.line) \in 0..Len(s.line)
    BY <1>0
  <2>2. /\ IsSeq(After(s))
        /\ Len(After(s)) = IF s.cursor < Len(s.line) THEN Len(s.line) - s.cursor ELSE 0
    BY <1>0, <2>1, CutIs DEF After
  <2> QED
    BY <1>0, <2>2
<1> DEFINE a == Before(s)
           b == After(s)
<1> HIDE DEF a, b
<1>3. IsSeq(a \o text) /\ Len(a \o text) = Len(a) + Len(text)
  BY <1>1, JoinIsSeq DEF a
<1> DEFINE c == a \o text
<1> HIDE DEF c
<1>4. IsSeq(c \o b) /\ Len(c \o b) = Len(c) + Len(b)
  BY <1>2, <1>3, JoinIsSeq DEF b, c
<1>5. Len(c \o b) = Len(s.line) + Len(text)
  <2>1. Len(c) = s.cursor + Len(text) /\ Len(b) = Len(s.line) - s.cursor
    BY <1>1, <1>2, <1>3 DEF a, b, c
  <2> QED
    BY <1>0, <1>4, <2>1
<1> QED
  BY <1>4, <1>5 DEF a, b, c

\* What is inserted has the room it needs (c_insert), with the cursor behind it
\* or where it was.
LEMMA InsertEdits ==
  ASSUME NEW s, Sound(s), NEW text, IsSeq(text), CanInsert(s, Len(text))
  PROVE  /\ Edits(s, c_insert(s, text))
         /\ c_insert(s, text).cursor = s.cursor
         /\ Len(c_insert(s, text).line) = Len(s.line) + Len(text)
<1> DEFINE l == Before(s) \o text \o After(s)
           q == Room(s, Len(text))
           r == [q EXCEPT !.line = l]
<1>0. /\ Len(s.line) \in Nat /\ s.cursor \in 0..Len(s.line) /\ Len(text) \in Nat
      /\ OnLine(s)
  BY SeqIs DEF Sound, OnLine
<1>1. IsSeq(l) /\ Len(l) = Len(s.line) + Len(text)
  BY <1>0, SplitIs
<1>2. Edits(s, q) /\ Len(s.line) + Len(text) < Limit(q)
      /\ \A x \in EditFields \ {"size"} : q[x] = s[x]
  BY <1>0, RoomIs
<1>3. c_insert(s, text) = r
  BY DEF c_insert
<1> HIDE DEF l, q
<1>4. q.cursor = s.cursor
  BY <1>2 DEF EditFields
<1>5. Sound(q) /\ Len(l) < Limit(q) /\ q.cursor \in 0..Len(l)
  BY <1>0, <1>1, <1>2, <1>4 DEF Edits
<1>6. Edits(q, r)
  BY <1>1, <1>5, OnlyLineEdits
<1>7. r.line = l /\ r.cursor = q.cursor
  BY <1>5 DEF Sound, Buffers, EditFields
<1> HIDE DEF r
<1> QED
  BY <1>1, <1>2, <1>3, <1>4, <1>6, <1>7 DEF Edits, Stays

LEMMA TypedEdits ==
  ASSUME NEW s, Sound(s), NEW text, IsSeq(text), CanInsert(s, Len(text))
  PROVE  /\ Edits(s, Typed(s, text))
         /\ Edits(s, [Typed(s, text) EXCEPT !.cursor = s.cursor])
<1> DEFINE q == c_insert(s, text)
           k == s.cursor + Len(text)
           r == [q EXCEPT !.cursor = k]
<1>0. Len(s.line) \in Nat /\ s.cursor \in 0..Len(s.line) /\ Len(text) \in Nat
  BY SeqIs DEF Sound, OnLine
<1>1. Edits(s, q) /\ q.cursor = s.cursor /\ Len(q.line) = Len(s.line) + Len(text)
  BY InsertEdits
<1>2. Typed(s, text) = r
  BY <1>1 DEF Typed, Edits, Sound, Buffers, EditFields
<1> HIDE DEF q
<1>3. k \in 0..Len(q.line) /\ s.cursor \in 0..Len(q.line)
  BY <1>0, <1>1
<1> HIDE DEF k
<1>4. Edits(q, r) /\ r.line = q.line
  BY <1>1, <1>3, CursorEdits DEF Edits
<1> HIDE DEF r
<1>5. Edits(r, [r EXCEPT !.cursor = s.cursor])
  BY <1>3, <1>4, CursorEdits DEF Edits
<1> QED
  BY <1>1, <1>2, <1>4, <1>5 DEF Edits, Stays

\* What is written over the line leaves it as long as it is.
LEMMA OverwrittenEdits ==
  ASSUME NEW s, Sound(s), NEW text, IsSeq(text)
  PROVE  /\ Edits(s, Overwritten(s, text))
         /\ Edits(s, [Overwritten(s, text) EXCEPT !.cursor = s.cursor])
<1> DEFINE n == Clipped(Len(text), Len(s.line) - s.cursor)
           a == Before(s)
           b == SubSeq(text, 1, n)
           c == SubSeq(s.line, s.cursor + n + 1, Len(s.line))
           l == a \o b \o c
           k == s.cursor + n
           r == [s EXCEPT !.line = l, !.cursor = k]
<1>0. Len(s.line) \in Nat /\ s.cursor \in 0..Len(s.line) /\ Len(text) \in Nat /\ OnLine(s)
  BY SeqIs DEF Sound, OnLine
<1>1. n \in Nat /\ k \in 0..Len(s.line)
  BY <1>0, ClippedBy
<1>2. n <= Len(text)
  <2>1. Len(s.line) - s.cursor \in Int
    BY <1>0
  <2> QED
    BY <1>0, <2>1, ClippedIs
<1>3. Overwritten(s, text) = r
  BY DEF Overwritten, Sound, Buffers, EditFields
<1> HIDE DEF n
<1>4. IsSeq(a) /\ Len(a) = s.cursor
  <2>1. 0 \in 0..Len(s.line) /\ s.cursor \in Nat
    BY <1>0
  <2>2. /\ IsSeq(SubSeq(s.line, 0 + 1, s.cursor))
        /\ Len(SubSeq(s.line, 0 + 1, s.cursor)) = IF 0 < s.cursor THEN s.cursor - 0 ELSE 0
    BY <1>0, <2>1, CutIs
  <2>3. a = SubSeq(s.line, 0 + 1, s.cursor)
    BY DEF Before
  <2> QED
    BY <2>1, <2>2, <2>3
<1>5. IsSeq(b) /\ Len(b) = n
  <2>1. 1 \in 1..Len(text) + 1 /\ n \in 0..Len(text)
    BY <1>0, <1>1, <1>2
  <2>2. IsSeq(b) /\ Len(b) = IF 1 <= n THEN n - 1 + 1 ELSE 0
    BY <2>1, SubIsSeq
  <2> HIDE DEF b
  <2> QED
    BY <1>1, <2>2
<1>6. IsSeq(c) /\ Len(c) = Len(s.line) - k
  <2>1. Len(s.line) \in 0..Len(s.line)
    BY <1>0
  <2>2. IsSeq(c) /\ Len(c) = IF k < Len(s.line) THEN Len(s.line) - k ELSE 0
    BY <1>0, <1>1, <2>1, CutIs
  <2> HIDE DEF c, k
  <2> QED
    BY <1>0, <1>1, <2>2
<1> HIDE DEF a, b, c, k
<1>7. IsSeq(a \o b) /\ Len(a \o b) = Len(a) + Len(b)
  BY <1>4, <1>5, JoinIsSeq
<1> DEFINE d == a \o b
<1> HIDE DEF d
<1>8. IsSeq(d \o c) /\ Len(d \o c) = Len(d) + Len(c)
  BY <1>6, <1>7, JoinIsSeq DEF d
<1>9. IsSeq(l) /\ Len(l) = Len(s.line)
  <2>1. l = d \o c /\ Len(d) = s.cursor + n /\ k = s.cursor + n
    BY <1>4, <1>5, <1>7 DEF d, k
  <2> HIDE DEF l
  <2> QED
    BY <1>0, <1>1, <1>6, <1>8, <2>1
<1> HIDE DEF l
<1>10. Len(l) < Limit(s) /\ k \in 0..Len(l) /\ s.cursor \in 0..Len(l)
  BY <1>0, <1>1, <1>9 DEF OnLine
<1>11. Edits(s, r)
  BY <1>9, <1>10, LineEdits
<1>12. [r EXCEPT !.cursor = s.cursor] = [s EXCEPT !.line = l]
  BY DEF Sound, Buffers, EditFields
<1>13. r.line = l
  BY DEF Sound, Buffers, EditFields
<1> HIDE DEF r
<1>14. Edits(r, [r EXCEPT !.cursor = s.cursor])
  BY <1>10, <1>11, <1>13, CursorEdits DEF Edits
<1> QED
  BY <1>3, <1>11, <1>14 DEF Edits, Stays

\* The fields that Sound speaks of, and what leaves them alone.
SoundFields ==
  {"line", "cursor", "size", "kill", "undo", "saved", "redo", "mark", "chrdir", "event"}
Alike(s, t) == DOMAIN t = EditFields /\ \A x \in SoundFields : t[x] = s[x]

\* An operation that leaves these fields alone.
LEMMA AlikeEdits == ASSUME NEW s, NEW t, Sound(s), Alike(s, t) PROVE Edits(s, t)
<1>1. /\ t.line = s.line /\ t.cursor = s.cursor /\ t.size = s.size /\ t.kill = s.kill
      /\ t.undo = s.undo /\ t.saved = s.saved /\ t.redo = s.redo /\ t.mark = s.mark
      /\ t.chrdir = s.chrdir /\ t.event = s.event /\ DOMAIN t = EditFields
  BY DEF Alike, SoundFields
<1>2. Limit(t) = Limit(s)
  BY <1>1 DEF Limit
<1> QED
  BY <1>1, <1>2 DEF Edits, Sound, Buffers, OnLine, Stays

\* One operation after another.
LEMMA EditsJoin == ASSUME NEW s, NEW t, NEW u, Edits(s, t), Edits(t, u) PROVE Edits(s, u)
BY DEF Edits, Stays

LEMMA GoodAfter == ASSUME NEW s, NEW t, NEW r, Edits(s, t), Good(t, r) PROVE Good(s, r)
BY DEF Edits, Stays, Good

LEMMA PendingEdits == ASSUME NEW s, Sound(s), NEW p PROVE Edits(s, [s EXCEPT !.pending = p])
<1>1. Alike(s, [s EXCEPT !.pending = p])
  BY DEF Alike, SoundFields, Sound, Buffers, EditFields
<1> QED
  BY <1>1, AlikeEdits

\* A pending operator, applied from where it was given (cv_delfini).
LEMMA DelfiniEdits ==
  ASSUME NEW s, Editable(s), s.pos \in 0..Len(s.line)
  PROVE  Edits(s, cv_delfini(s))
<1> DEFINE n == IF s.cursor = s.pos THEN 1 ELSE s.cursor - s.pos
           at == [s EXCEPT !.cursor = s.pos, !.alt = @ /\ s.pending # "change"]
           back == SubSeq(s.line, s.cursor + 1, s.pos)
           on == SubSeq(Append(s.line, "nul"), s.pos + 1, s.pos + n)
           acted == IF s.pending # "yank"
                    THEN IF n > 0 THEN c_delafter(at, n) ELSE c_delbefore(at, -n)
                    ELSE cv_yank(at, IF n < 0 THEN back ELSE on)
<1>0. /\ Len(s.line) \in Nat /\ s.cursor \in 0..Len(s.line) /\ OnLine(s) /\ Sound(s)
      /\ IsSeq(s.line) /\ DOMAIN s = EditFields
  BY SeqIs DEF Editable, Sound, OnLine, Buffers
<1>1. cv_delfini(s) = [acted EXCEPT !.pending = None]
  BY DEF cv_delfini
<1>2. /\ n \in Int /\ s.pos \in Nat /\ s.pos + n <= Len(s.line) + 1 /\ n # 0
      /\ (n > 0 => s.pos + n >= 0) /\ (n > 1 => n <= Len(s.line))
  <2>1. /\ s.cursor = s.pos => n = 1
        /\ s.cursor # s.pos => n = s.cursor - s.pos
    OBVIOUS
  <2>2. s.cursor \in Nat /\ s.pos \in Nat /\ s.cursor <= Len(s.line) /\ s.pos <= Len(s.line)
    BY <1>0
  <2> HIDE DEF n
  <2> QED
    BY <1>0, <2>1, <2>2
<1>3. Edits(s, at) /\ Editable(at)
  <2> DEFINE t == [s EXCEPT !.cursor = s.pos]
  <2>1. Edits(s, t)
    BY <1>0, CursorEdits
  <2>2. Alike(t, at) /\ at.arg = s.arg
    BY <1>0 DEF Alike, SoundFields, EditFields
  <2> HIDE DEF t, at
  <2>3. Edits(t, at)
    BY <2>1, <2>2, AlikeEdits DEF Edits
  <2> QED
    BY <2>1, <2>2, <2>3 DEF Edits, Editable, Stays
<1> HIDE DEF n, at
<1>4. ASSUME s.pending # "yank" PROVE Edits(s, acted)
  <2>1. CASE n > 0
    <3>1. n \in Nat
      BY <1>2, <2>1
    <3>2. Edits(at, c_delafter(at, n))
      BY <1>3, <3>1, DelafterEdits
    <3>3. acted = c_delafter(at, n)
      BY <1>4, <2>1
    <3> QED
      BY <1>3, <3>2, <3>3, EditsJoin
  <2>2. CASE ~ (n > 0)
    <3>1. -n \in Nat
      BY <1>2, <2>2
    <3>2. Edits(at, c_delbefore(at, -n))
      BY <1>3, <3>1, DelbeforeEdits
    <3>3. acted = c_delbefore(at, -n)
      BY <1>4, <2>2
    <3> QED
      BY <1>3, <3>2, <3>3, EditsJoin
  <2> QED
    BY <2>1, <2>2
<1>5. ASSUME s.pending = "yank" PROVE Edits(s, acted)
  <2> DEFINE text == IF n < 0 THEN back ELSE on
  <2>0. Limit(s) \in Nat /\ Limit(s) > 0 /\ Limit(at) = Limit(s) /\ Len(s.line) < Limit(s)
    <3>1. at.size = s.size
      BY <1>0 DEF at, EditFields
    <3> QED
      BY <1>0, <3>1, LimitIs DEF Sound, OnLine, Limit
  <2>1. IsSeq(back) /\ Len(back) <= Len(s.line)
    BY <1>0, CutIs
  <2>2. n > 0 => IsSeq(on) /\ Len(on) = n
    <3> SUFFICES ASSUME n > 0 PROVE IsSeq(on) /\ Len(on) = n
      OBVIOUS
    <3> DEFINE l == Append(s.line, "nul")
               q == s.pos + n
    <3>1. IsSeq(l) /\ Len(l) = Len(s.line) + 1
      BY <1>0, AppendIsSeq
    <3>2. s.pos + 1 \in 1..Len(l) + 1 /\ q \in 0..Len(l)
      BY <1>0, <1>2, <3>1
    <3> HIDE DEF l, q
    <3>3. /\ IsSeq(SubSeq(l, s.pos + 1, q))
          /\ Len(SubSeq(l, s.pos + 1, q)) = IF s.pos + 1 <= q THEN q - (s.pos + 1) + 1 ELSE 0
      BY <3>1, <3>2, SubIsSeq
    <3>4. s.pos + 1 <= q /\ q - (s.pos + 1) + 1 = n
      BY <1>2 DEF q
    <3> QED
      BY <3>3, <3>4 DEF l, q
  <2>3. n > 0 => n <= Limit(s)
    BY <1>0, <1>2, <2>0
  <2> HIDE DEF back, on
  <2>4. IsSeq(text) /\ Len(text) <= Limit(s)
    BY <1>2, <2>0, <2>1, <2>2, <2>3, SeqIs
  <2> HIDE DEF text
  <2>5. Edits(at, cv_yank(at, text))
    BY <1>3, <2>0, <2>4, YankEdits DEF Editable
  <2>6. acted = cv_yank(at, text)
    BY <1>5 DEF text
  <2> QED
    BY <1>3, <2>5, <2>6, EditsJoin
<1> HIDE DEF acted
<1>6. Edits(s, acted)
  BY <1>4, <1>5
<1>7. Edits(acted, [acted EXCEPT !.pending = None])
  BY <1>6, PendingEdits DEF Edits
<1> QED
  BY <1>1, <1>6, <1>7, EditsJoin

\* A motion to a place in the line, with the operator it ends.
LEMMA MovedGood ==
  ASSUME NEW s, Ready(s), NEW c \in 0..Len(s.line)
  PROVE  Good(s, Moved(s, c))
<1> DEFINE t == [s EXCEPT !.cursor = c]
<1>1. Edits(s, t) /\ t.line = s.line
  BY CursorEdits DEF Ready
<1>2. t.pos = s.pos /\ t.arg = s.arg
  BY DEF Ready, Sound, Buffers, EditFields
<1>3. Moved(s, c) = Done(IF s.type = "vi" /\ s.pending # None THEN cv_delfini(t) ELSE t)
  BY DEF Moved
<1> HIDE DEF t
<1>4. CASE s.type = "vi" /\ s.pending # None
  <2>1. Editable(t) /\ t.pos \in 0..Len(t.line)
    BY <1>1, <1>2, <1>4 DEF Edits, Editable, Ready, Awaiting
  <2>2. Edits(s, cv_delfini(t))
    BY <1>1, <2>1, DelfiniEdits, EditsJoin
  <2> QED
    BY <1>3, <1>4, <2>2, EndGood
<1>5. CASE ~ (s.type = "vi" /\ s.pending # None)
  BY <1>1, <1>3, <1>5, EndGood
<1> QED
  BY <1>4, <1>5

\* What a command may count on.
LEMMA ReadyIs ==
  ASSUME NEW s, Ready(s)
  PROVE  /\ Sound(s) /\ Editable(s) /\ OnLine(s) /\ Buffers(s) /\ DOMAIN s = EditFields
         /\ IsSeq(s.line) /\ Len(s.line) \in Nat /\ s.cursor \in 0..Len(s.line) /\ s.cursor \in Nat
         /\ s.arg \in Nat /\ Len(s.line) < Limit(s) /\ Limit(s) \in Nat
         /\ (s.pending # None => s.pos \in 0..Len(s.line))
         /\ IsSeq(s.kill) /\ Len(s.kill) \in Nat /\ Len(s.kill) <= Limit(s)
         /\ s.mark \in MarkPlaces /\ s.event \in Nat
<1>1. Sound(s) /\ Editable(s) /\ OnLine(s) /\ Buffers(s) /\ DOMAIN s = EditFields
      /\ s.arg \in Nat /\ (s.pending # None => s.pos \in 0..Len(s.line))
      /\ s.mark \in MarkPlaces /\ s.event \in Nat
  BY DEF Ready, Sound, Editable, Awaiting, Buffers
<1>2. IsSeq(s.line) /\ s.cursor \in 0..Len(s.line) /\ Len(s.line) < Limit(s)
      /\ IsSeq(s.kill) /\ Len(s.kill) <= Limit(s)
  BY <1>1 DEF OnLine, Buffers
<1>3. Len(s.line) \in Nat /\ Limit(s) \in Nat /\ Len(s.kill) \in Nat
  BY <1>1, <1>2, SeqIs, LimitIs
<1> QED
  BY <1>1, <1>2, <1>3

-----------------------------------------------------------------------------
(* common.c                                                                *)

\* To command mode, with the cursor back on a character (vi_command_mode).
LEMMA CommandModeGood == ASSUME NEW s, NEW t, Edits(s, t) PROVE Good(s, vi_command_mode(t))
<1> DEFINE k == IF t.cursor > 0 THEN t.cursor - 1 ELSE 0
           u == [t EXCEPT !.cursor = k]
           v == [t EXCEPT !.pending = None, !.doing = FALSE, !.mode = "insert", !.alt = TRUE,
                          !.cursor = k]
<1>1. k \in 0..Len(t.line) /\ DOMAIN t = EditFields
  <2>1. Len(t.line) \in Nat /\ t.cursor \in 0..Len(t.line) /\ DOMAIN t = EditFields
    BY SeqIs DEF Edits, Sound, OnLine, Buffers
  <2> QED
    BY <2>1
<1>2. vi_command_mode(t) = Done(v)
  BY <1>1 DEF vi_command_mode, EditFields
<1> HIDE DEF k
<1>3. Edits(t, u)
  BY <1>1, CursorEdits DEF Edits
<1>4. Alike(u, v)
  BY <1>1 DEF Alike, SoundFields, EditFields
<1> HIDE DEF u, v
<1>5. Edits(s, v)
  BY <1>3, <1>4, AlikeEdits, EditsJoin DEF Edits
<1> QED
  BY <1>2, <1>5, EndGood

\* A character as often as the argument says.
LEMMA CopiesAreSeq ==
  ASSUME NEW n \in Nat, NEW c
  PROVE  IsSeq([i \in 1..n |-> c]) /\ Len([i \in 1..n |-> c]) = n
<1> DEFINE l == [i \in 1..n |-> c]
<1>1. l = [i \in 1..n |-> l[i]]
  OBVIOUS
<1> HIDE DEF l
<1>2. IsSeq(l) /\ Len(l) = n
  BY <1>1, FunctionIsSeq
<1> QED
  BY <1>2 DEF l

\* From here on, one lemma for each command: from a line that is ready for it, it leaves
\* one that is Fine, and the history alone.
LEMMA InsertGood == ASSUME NEW s, Ready(s), NEW c PROVE Good(s, ed_insert(s, c))
<1> DEFINE text == [i \in 1..s.arg |-> c]
           over == IF s.arg = 1 THEN s.mode # "insert" /\ s.cursor < Len(s.line)
                   ELSE s.mode = "replace1"
           t == IF over THEN Overwritten(Room(s, s.arg), text) ELSE Typed(s, text)
<1>1. ed_insert(s, c) = IF c = "nul" THEN Error(s)
                        ELSE IF ~CanInsert(s, s.arg) THEN Error(Room(s, s.arg))
                        ELSE IF s.mode = "replace1" THEN vi_command_mode(t) ELSE Done(t)
  BY DEF ed_insert
<1>2. IsSeq(text) /\ Len(text) = s.arg /\ s.arg \in Nat /\ Sound(s)
  BY ReadyIs, CopiesAreSeq
<1> HIDE DEF text
<1>3. ASSUME CanInsert(s, s.arg) PROVE Edits(s, t)
  <2>1. Edits(s, Room(s, s.arg))
    BY <1>2, <1>3, RoomIs
  <2>2. Edits(Room(s, s.arg), Overwritten(Room(s, s.arg), text))
    BY <1>2, <2>1, OverwrittenEdits DEF Edits
  <2>3. Edits(s, Overwritten(Room(s, s.arg), text))
    BY <2>1, <2>2, EditsJoin
  <2>4. Edits(s, Typed(s, text))
    BY <1>2, <1>3, TypedEdits
  <2> QED
    BY <2>3, <2>4, Zenon
<1> HIDE DEF t
<1>4. Good(s, Error(s))
  BY <1>2, SameEdits, EndGood
<1>5. CanInsert(s, s.arg) => Good(s, vi_command_mode(t)) /\ Good(s, Done(t))
  BY <1>3, CommandModeGood, EndGood
<1>6. ~CanInsert(s, s.arg) => Good(s, Error(Room(s, s.arg)))
  BY <1>2, NoRoomEdits, EndGood
<1> QED
  BY <1>1, <1>4, <1>5, <1>6, Zenon

\* A command that refuses leaves everything as it was.
LEMMA ErrorGood ==
  ASSUME NEW s, Ready(s) PROVE Good(s, Error(s)) /\ Good(s, Done(s)) /\ Good(s, EndOfFile(s))
BY ReadyIs, SameEdits, EndGood

LEMMA QuotedGood == ASSUME NEW s, Ready(s), NEW c PROVE Good(s, ed_quoted_insert(s, c))
BY InsertGood, ErrorGood DEF ed_quoted_insert

LEMMA DeletePrevWordGood == ASSUME NEW s, Ready(s) PROVE Good(s, ed_delete_prev_word(s))
<1> DEFINE w == c__prev_word(s.line, s.cursor, s.arg)
<1>0. /\ Editable(s) /\ IsSeq(s.line) /\ s.cursor \in 0..Len(s.line) /\ s.arg \in Nat
      /\ s.cursor \in Nat
  BY ReadyIs
<1>1. w \in 0..s.cursor
  BY <1>0, PrevWordIn
<1> HIDE DEF w
<1>2. s.cursor - w \in Nat
  BY <1>0, <1>1
<1>3. Good(s, Done(c_delbefore(s, s.cursor - w)))
  BY <1>0, <1>2, DelbeforeEdits, EndGood
<1> QED
  BY <1>3, ErrorGood DEF ed_delete_prev_word, w

LEMMA DeleteNextCharGood == ASSUME NEW s, Ready(s) PROVE Good(s, ed_delete_next_char(s))
<1> DEFINE end == s.cursor = Len(s.line)
           at == IF end THEN [s EXCEPT !.cursor = @ - 1] ELSE s
           cut == c_delafter(at, s.arg)
           last == Len(cut.line)
<1>0. /\ Editable(s) /\ IsSeq(s.line) /\ s.cursor \in 0..Len(s.line) /\ s.arg \in Nat /\ Sound(s)
      /\ s.cursor \in Nat /\ Len(s.line) \in Nat /\ DOMAIN s = EditFields
  BY ReadyIs
<1>1. ASSUME ~ (end /\ s.cursor = 0) PROVE Edits(s, at) /\ Editable(at)
  <2>1. CASE end
    <3> DEFINE k == s.cursor - 1
    <3>1. k \in 0..Len(s.line)
      BY <1>0, <1>1, <2>1
    <3>2. at = [s EXCEPT !.cursor = k]
      BY <1>0, <2>1 DEF EditFields
    <3>3. [s EXCEPT !.cursor = k].arg = s.arg
      BY <1>0 DEF EditFields
    <3> HIDE DEF k, at
    <3> QED
      BY <1>0, <3>1, <3>2, <3>3, CursorEdits DEF Edits, Editable
  <2>2. CASE ~end
    BY <1>0, <2>2, SameEdits
  <2> QED
    BY <2>1, <2>2
<1>2. ed_delete_next_char(s) =
        IF end /\ (s.type = "emacs" \/ s.cursor = 0) THEN Error(s)
        ELSE IF s.type = "vi" /\ cut.cursor >= last /\ cut.cursor > 0
             THEN Done([cut EXCEPT !.cursor = last - 1])
        ELSE Done(cut)
  BY DEF ed_delete_next_char
<1> HIDE DEF at
<1>3. ASSUME ~ (end /\ s.cursor = 0) PROVE Edits(s, cut)
  BY <1>0, <1>1, <1>3, DelafterEdits, EditsJoin
<1> HIDE DEF cut
<1>4. ASSUME ~ (end /\ s.cursor = 0), cut.cursor >= last, cut.cursor > 0
      PROVE Good(s, Done([cut EXCEPT !.cursor = last - 1]))
  <2> DEFINE k == last - 1
  <2>1. Sound(cut)
    BY <1>3, <1>4 DEF Edits
  <2>2. k \in 0..Len(cut.line)
    <3>1. IsSeq(cut.line) /\ cut.cursor \in 0..Len(cut.line)
      BY <2>1 DEF Sound, OnLine
    <3>2. Len(cut.line) \in Nat
      BY <3>1, SeqIs
    <3> QED
      BY <1>4, <3>1, <3>2
  <2> HIDE DEF k
  <2>3. Edits(cut, [cut EXCEPT !.cursor = k])
    BY <2>1, <2>2, CursorEdits
  <2>4. Edits(s, [cut EXCEPT !.cursor = k])
    BY <1>3, <1>4, <2>3, EditsJoin
  <2> QED
    BY <2>4, EndGood DEF k
<1>5. ~ (end /\ s.cursor = 0) => Good(s, Done(cut))
  BY <1>3, EndGood
<1> HIDE DEF last, end
<1> QED
  BY <1>2, <1>4, <1>5, ErrorGood, Zenon

\* The line up to the cursor (ed_kill_line).
LEMMA KillEdits ==
  ASSUME NEW s, Sound(s) PROVE Edits(s, [cv_yank(s, After(s)) EXCEPT !.line = Before(s)])
<1> DEFINE a == After(s)
           b == Before(s)
           y == cv_yank(s, a)
<1>0. OnLine(s) /\ Len(s.line) \in Nat /\ s.cursor \in 0..Len(s.line) /\ Len(s.line) < Limit(s)
      /\ Limit(s) \in Nat
  <2>1. OnLine(s)
    BY DEF Sound
  <2>2. IsSeq(s.line) /\ s.cursor \in 0..Len(s.line) /\ Len(s.line) < Limit(s)
    BY <2>1 DEF OnLine
  <2> QED
    BY <2>1, <2>2, SeqIs, LimitIs DEF Sound
<1>1. IsSeq(a) /\ Len(a) <= Len(s.line)
  <2>1. Len(s.line) \in 0..Len(s.line)
    BY <1>0
  <2> QED
    BY <1>0, <2>1, CutIs DEF After
<1>2. IsSeq(b) /\ Len(b) = s.cursor
  <2>1. 0 \in 0..Len(s.line) /\ s.cursor \in Nat
    BY <1>0
  <2>2. /\ IsSeq(SubSeq(s.line, 0 + 1, s.cursor))
        /\ Len(SubSeq(s.line, 0 + 1, s.cursor)) = IF 0 < s.cursor THEN s.cursor - 0 ELSE 0
    BY <1>0, <2>1, CutIs
  <2>3. b = SubSeq(s.line, 0 + 1, s.cursor)
    BY DEF Before
  <2> QED
    BY <2>1, <2>2, <2>3
<1> HIDE DEF a, b
<1>3. Len(a) <= Limit(s)
  BY <1>0, <1>1, SeqIs
<1>4. Edits(s, y) /\ \A x \in EditFields \ {"kill"} : y[x] = s[x]
  BY <1>1, <1>3, YankEdits
<1> HIDE DEF y
<1>5. y.cursor = s.cursor /\ y.size = s.size
  BY <1>4 DEF EditFields
<1>6. Len(b) < Limit(y) /\ y.cursor \in 0..Len(b)
  BY <1>0, <1>2, <1>5 DEF Limit
<1>7. Edits(y, [y EXCEPT !.line = b])
  BY <1>2, <1>4, <1>6, OnlyLineEdits DEF Edits
<1> QED
  BY <1>4, <1>7, EditsJoin DEF y, a, b

LEMMA KillLineGood == ASSUME NEW s, NEW t, Edits(s, t) PROVE Good(s, ed_kill_line(t))
<1>1. Edits(t, [cv_yank(t, After(t)) EXCEPT !.line = Before(t)])
  BY KillEdits DEF Edits
<1> QED
  BY <1>1, EditsJoin, EndGood DEF ed_kill_line

LEMMA DeletePrevCharGood == ASSUME NEW s, Ready(s) PROVE Good(s, ed_delete_prev_char(s))
BY ReadyIs, DelbeforeEdits, EndGood, ErrorGood DEF ed_delete_prev_char

\* Two characters of a line in each other's place.
LEMMA ExchangedIs ==
  ASSUME NEW l, IsSeq(l), NEW i PROVE IsSeq(Exchanged(l, i)) /\ Len(Exchanged(l, i)) = Len(l)
<1> DEFINE a == [l EXCEPT ![i] = l[i + 1]]
           b == [a EXCEPT ![i + 1] = l[i]]
<1>1. IsSeq(a) /\ Len(a) = Len(l)
  BY ExceptIsSeq
<1> HIDE DEF a
<1>2. IsSeq(b) /\ Len(b) = Len(a)
  BY <1>1, ExceptIsSeq
<1>3. Exchanged(l, i) = b
  BY DEF Exchanged, a
<1> QED
  BY <1>1, <1>2, <1>3

LEMMA TransposeGood == ASSUME NEW s, Ready(s) PROVE Good(s, ed_transpose_chars(s))
<1> DEFINE k == IF s.cursor < Len(s.line) THEN s.cursor + 1 ELSE s.cursor
           at == [s EXCEPT !.cursor = IF @ < Len(s.line) THEN @ + 1 ELSE @]
           l == Exchanged(at.line, at.cursor - 1)
<1>0. Sound(s) /\ IsSeq(s.line) /\ Len(s.line) \in Nat /\ s.cursor \in 0..Len(s.line)
      /\ DOMAIN s = EditFields /\ Len(s.line) < Limit(s)
  BY ReadyIs
<1>1. k \in 0..Len(s.line)
  BY <1>0
<1>2. at = [s EXCEPT !.cursor = k] /\ at.size = s.size
  BY <1>0 DEF EditFields
<1>5. ed_transpose_chars(s) =
        IF s.cursor < Len(s.line) /\ Len(s.line) <= 1 THEN Error(s)
        ELSE IF at.cursor > 1 THEN Done([at EXCEPT !.line = Exchanged(@, at.cursor - 1)])
        ELSE Error(at)
  BY DEF ed_transpose_chars
<1> HIDE DEF k, at
<1>3. Edits(s, at) /\ at.line = s.line /\ at.cursor = k
  BY <1>0, <1>1, <1>2, CursorEdits
<1>4. [at EXCEPT !.line = Exchanged(@, at.cursor - 1)] = [at EXCEPT !.line = l]
  BY <1>3 DEF EditFields, Edits, Sound, Buffers
<1>6. ed_transpose_chars(s) =
        IF s.cursor < Len(s.line) /\ Len(s.line) <= 1 THEN Error(s)
        ELSE IF at.cursor > 1 THEN Done([at EXCEPT !.line = l])
        ELSE Error(at)
  BY <1>4, <1>5, Zenon
<1>7. IsSeq(l) /\ Len(l) = Len(s.line)
  BY <1>0, <1>3, ExchangedIs
<1> HIDE DEF l
<1>8. Edits(at, [at EXCEPT !.line = l])
  <2>1. Len(l) < Limit(at) /\ at.cursor \in 0..Len(l)
    BY <1>0, <1>1, <1>2, <1>3, <1>7 DEF Limit
  <2> QED
    BY <1>3, <1>7, <2>1, OnlyLineEdits DEF Edits
<1>9. Good(s, Done([at EXCEPT !.line = l])) /\ Good(s, Error(at))
  BY <1>3, <1>8, EditsJoin, EndGood
<1> QED
  BY <1>6, <1>9, ErrorGood, Zenon

LEMMA PlainGood ==
  ASSUME NEW s, Ready(s)
  PROVE  /\ Good(s, ed_newline(s)) /\ Good(s, ed_unassigned(s)) /\ Good(s, ed_tty_sigint(s))
         /\ Good(s, ed_clear_screen(s))
<1>1. Edits(s, s)
  BY ReadyIs, SameEdits
<1>2. Good(s, ed_newline(s))
  BY <1>1, NewlineGood
<1> QED
  BY <1>2, ErrorGood DEF ed_unassigned, ed_tty_sigint, ed_clear_screen

LEMMA MoveToEndGood == ASSUME NEW s, Ready(s) PROVE Good(s, ed_move_to_end(s))
<1> DEFINE k == Len(s.line)
           end == [s EXCEPT !.cursor = k]
           j == Len(s.line) - 1
<1>0. Sound(s) /\ IsSeq(s.line) /\ Len(s.line) \in Nat /\ DOMAIN s = EditFields
  BY ReadyIs
<1>1. k \in 0..Len(s.line)
  BY <1>0
<1>2. Edits(s, end)
  BY <1>0, <1>1, CursorEdits
<1>3. Good(s, Moved(s, k))
  BY <1>1, MovedGood
<1>4. Good(s, Done(Astray(end)))
  BY <1>2, AstrayGood DEF Edits, Sound
<1>5. ASSUME s.line # <<>> PROVE Good(s, Done([end EXCEPT !.cursor = @ - 1]))
  <2>1. j \in 0..Len(s.line)
    <3>1. \E S : s.line \in Seq(S)
      BY <1>0 DEF IsSeq
    <3>2. Len(s.line) # 0
      BY <1>5, <3>1, EmptySeq
    <3> QED
      BY <1>0, <3>2
  <2>2. [end EXCEPT !.cursor = @ - 1] = [s EXCEPT !.cursor = j]
    BY <1>0 DEF EditFields
  <2> HIDE DEF j
  <2> QED
    BY <1>0, <2>1, <2>2, CursorEdits, EndGood
<1> HIDE DEF k
<1> QED
  BY <1>3, <1>4, <1>5, Zenon DEF ed_move_to_end, k

LEMMA MoveToBegGood == ASSUME NEW s, Ready(s) PROVE Good(s, ed_move_to_beg(s))
<1> DEFINE k == IF s.type = "vi" THEN SkipUp(s.line, 0, Blanks) ELSE 0
<1>0. IsSeq(s.line) /\ Len(s.line) \in Nat /\ 0 \in 0..Len(s.line)
  BY ReadyIs
<1>1. SkipUp(s.line, 0, Blanks) \in 0..Len(s.line)
  BY <1>0, SkipsUp
<1>2. k \in 0..Len(s.line)
  BY <1>0, <1>1
<1> HIDE DEF k
<1>3. Good(s, Moved(s, k))
  BY <1>2, MovedGood
<1> QED
  BY <1>3 DEF ed_move_to_beg, k

\* vi_to_column calls it with an argument that may be -1, from the beginning.
LEMMA NextCharMoves ==
  ASSUME NEW s, Sound(s), s.arg \in Nat \/ (s.arg = -1 /\ s.cursor = 0),
         s.pending # None => s.pos \in 0..Len(s.line)
  PROVE  Good(s, ed_next_char(s))
<1> DEFINE k == Clipped(s.cursor + s.arg, Len(s.line))
<1>0. IsSeq(s.line) /\ Len(s.line) \in Nat /\ s.cursor \in 0..Len(s.line) /\ Buffers(s)
  BY SeqIs DEF Sound, OnLine
<1>1. Good(s, Error(s)) /\ Good(s, Done(Astray(s)))
  BY <1>0, SameEdits, EndGood, AstrayGood DEF Stays
<1>2. ASSUME ~ (s.cursor + s.arg < 0) PROVE Good(s, Moved(s, k))
  <2>0. s.arg \in Nat
    BY <1>0, <1>2
  <2>1. k \in 0..Len(s.line)
    BY <1>0, <2>0 DEF Clipped
  <2>2. Ready(s)
    BY <2>0 DEF Ready, Awaiting
  <2> HIDE DEF k
  <2> QED
    BY <2>1, <2>2, MovedGood
<1> HIDE DEF k
<1> QED
  BY <1>1, <1>2 DEF ed_next_char, k

LEMMA PrevCharGood == ASSUME NEW s, Ready(s) PROVE Good(s, ed_prev_char(s))
<1> DEFINE k == s.cursor - Clipped(s.arg, s.cursor)
<1>1. k \in 0..Len(s.line)
  <2>1. s.cursor \in 0..Len(s.line) /\ s.arg \in Nat /\ Len(s.line) \in Nat
    BY ReadyIs
  <2> QED
    BY <2>1 DEF Clipped
<1> HIDE DEF k
<1>2. Good(s, Moved(s, k))
  BY <1>1, MovedGood
<1> QED
  BY <1>2, ErrorGood DEF ed_prev_char, k

LEMMA PrevWordGood == ASSUME NEW s, Ready(s) PROVE Good(s, ed_prev_word(s))
<1> DEFINE k == c__prev_word(s.line, s.cursor, s.arg)
<1>1. k \in 0..Len(s.line)
  <2>1. IsSeq(s.line) /\ s.cursor \in 0..Len(s.line) /\ s.arg \in Nat /\ Len(s.line) \in Nat
    BY ReadyIs
  <2>2. k \in 0..s.cursor
    BY <2>1, PrevWordIn
  <2> QED
    BY <2>1, <2>2
<1> HIDE DEF k
<1>2. Good(s, Moved(s, k))
  BY <1>1, MovedGood
<1> QED
  BY <1>2, ErrorGood DEF ed_prev_word, k

\* The n-th member of a set of numbers, counted from the least.
LEMMA NthIs ==
  ASSUME NEW m \in Nat, NEW S \in SUBSET (1..m), NEW n \in Nat \ {0}, n <= Cardinality(S)
  PROVE  \E i \in S : /\ Cardinality({j \in S : j < i}) = n - 1
                      /\ Cardinality({j \in S : j <= i}) = n
<1> DEFINE U(k) == {j \in S : j <= k}
           K == {k \in 0..m : Cardinality(U(k)) >= n}
<1>1. IsFiniteSet(S)
  <2>1. IsFiniteSet(1..m)
    BY FS_Interval
  <2> QED
    BY <2>1, FS_Subset
<1>2. \A k : IsFiniteSet(U(k)) /\ Cardinality(U(k)) \in Nat
  <2> TAKE k
  <2>1. U(k) \subseteq S
    OBVIOUS
  <2> HIDE DEF U
  <2>2. IsFiniteSet(U(k))
    BY <1>1, <2>1, FS_Subset
  <2> QED
    BY <2>2, FS_CardinalityType
<1>3. m \in K
  <2>0. \A j \in S : j <= m
    OBVIOUS
  <2>1. U(m) = S
    BY <2>0
  <2> HIDE DEF U
  <2>2. Cardinality(U(m)) >= n
    BY <1>2, <2>1
  <2> QED
    BY <2>2
<1>4. K \in SUBSET Nat /\ K # {}
  <2>1. K \subseteq 0..m
    OBVIOUS
  <2> HIDE DEF K
  <2> QED
    BY <1>3, <2>1
<1> HIDE DEF K
<1>5. PICK i \in K : \A y \in K : i <= y
  BY <1>4, LeastNumber
<1>6. i \in 0..m /\ Cardinality(U(i)) >= n
  BY <1>5 DEF K
<1>7. i # 0
  <2> SUFFICES ASSUME i = 0 PROVE FALSE
    OBVIOUS
  <2>0. \A j \in S : ~ (j <= i)
    OBVIOUS
  <2>1. U(i) = {}
    BY <2>0
  <2> HIDE DEF U
  <2>2. Cardinality(U(i)) = 0
    BY <2>1, FS_EmptySet
  <2> QED
    BY <1>6, <2>2
<1>8. ~ (Cardinality(U(i - 1)) >= n)
  <2>1. i - 1 \in 0..m
    BY <1>6, <1>7
  <2> SUFFICES ASSUME Cardinality(U(i - 1)) >= n PROVE FALSE
    OBVIOUS
  <2>2. i - 1 \in K
    BY <2>1 DEF K
  <2>3. i <= i - 1
    BY <1>5, <2>2
  <2> QED
    BY <1>6, <2>3
<1>9. i \in S
  <2> SUFFICES ASSUME i \notin S PROVE FALSE
    OBVIOUS
  <2>1. U(i) = U(i - 1)
    <3>1. \A j \in S : j <= i <=> j <= i - 1
      BY <1>6
    <3> QED
      BY <3>1
  <2> HIDE DEF U
  <2> QED
    BY <1>6, <1>8, <2>1
<1>10. U(i) = U(i - 1) \cup {i} /\ i \notin U(i - 1)
  <2>1. \A j \in S : j <= i <=> j <= i - 1 \/ j = i
    BY <1>6
  <2>2. ~ (i <= i - 1)
    BY <1>6
  <2> QED
    BY <1>9, <2>1, <2>2
<1>11. {j \in S : j < i} = U(i - 1)
  <2>1. \A j \in S : j < i <=> j <= i - 1
    BY <1>6
  <2> QED
    BY <2>1
<1>12. {j \in S : j <= i} = U(i)
  OBVIOUS
<1> HIDE DEF U
<1>13. Cardinality(U(i)) = Cardinality(U(i - 1)) + 1
  BY <1>2, <1>10, FS_AddElement
<1>14. Cardinality(U(i - 1)) = n - 1 /\ Cardinality(U(i)) = n
  BY <1>2, <1>6, <1>8, <1>13
<1> QED
  BY <1>9, <1>11, <1>12, <1>14

\* The place in a line of several, as near to the column as it is long.
LEMMA InLineIs ==
  ASSUME NEW s, IsSeq(s.line), NEW i \in 0..Len(s.line), NEW column
  PROVE  InLine(s, i, column) \in 0..Len(s.line)
<1> DEFINE S == {q \in i..Len(s.line) : q = i + column \/ q = Len(s.line) \/ s.line[q + 1] = "newline"}
<1>0. Len(s.line) \in Nat
  BY SeqIs
<1>1. S \in SUBSET Nat /\ S # {} /\ S \subseteq 0..Len(s.line)
  <2>1. Len(s.line) \in S
    BY <1>0
  <2> QED
    BY <1>0, <2>1
<1> HIDE DEF S
<1>2. Min(S) \in S
  BY <1>1, MinIn
<1> QED
  BY <1>1, <1>2 DEF InLine, S

LEMMA LinesLeft ==
  ASSUME NEW s, Ready(s), NEW a, NEW c \in 0..Len(s.line)
  PROVE  /\ Good(s, Done([s EXCEPT !.arg = a, !.cursor = c]))
         /\ Good(s, Error([s EXCEPT !.arg = a]))
<1> DEFINE t == [s EXCEPT !.cursor = c]
           u == [s EXCEPT !.arg = a, !.cursor = c]
           v == [s EXCEPT !.arg = a]
<1>0. Sound(s) /\ DOMAIN s = EditFields
  BY ReadyIs
<1>1. Edits(s, t)
  BY <1>0, CursorEdits
<1>2. Alike(t, u) /\ Alike(s, v)
  BY <1>0 DEF Alike, SoundFields, EditFields
<1> HIDE DEF t, u, v
<1>3. Edits(s, u) /\ Edits(s, v)
  BY <1>0, <1>1, <1>2, AlikeEdits, EditsJoin DEF Edits
<1> QED
  BY <1>3, EndGood DEF u, v

LEMMA PrevLineGood == ASSUME NEW s, Ready(s) PROVE Good(s, ed_prev_line(s))
<1> DEFINE ups  == NewlinesUp(s)
           n    == AtLeastOne(s.arg)
           nth  == CHOOSE i \in ups : Cardinality({j \in ups : j > i}) = n - 1
           S    == {0} \cup {j \in ups : j < nth}
           from == Max(S)
           k    == InLine(s, from, c_hpos(s))
<1>0. IsSeq(s.line) /\ Len(s.line) \in Nat /\ Buffers(s) /\ s.cursor \in 0..Len(s.line)
  BY ReadyIs
<1>1. ed_prev_line(s) =
        IF Cardinality(ups) >= n THEN Done([s EXCEPT !.arg = @ - n, !.cursor = k])
        ELSE IF s.arg = 0 THEN Done(Astray(s))
        ELSE Error([s EXCEPT !.arg = @ - Cardinality(ups)])
  BY DEF ed_prev_line
<1>2. S \in SUBSET (0..Len(s.line)) /\ S # {}
  BY <1>0 DEF NewlinesUp
<1> HIDE DEF S
<1>3. from \in 0..Len(s.line)
  BY <1>0, <1>2, MaxIn
<1> HIDE DEF from
<1>4. k \in 0..Len(s.line)
  BY <1>0, <1>3, InLineIs
<1> HIDE DEF k, n, ups
<1>5. /\ [s EXCEPT !.arg = @ - n, !.cursor = k] = [s EXCEPT !.arg = s.arg - n, !.cursor = k]
      /\ [s EXCEPT !.arg = @ - Cardinality(ups)] = [s EXCEPT !.arg = s.arg - Cardinality(ups)]
  OBVIOUS
<1>6. /\ Good(s, Done([s EXCEPT !.arg = @ - n, !.cursor = k]))
      /\ Good(s, Error([s EXCEPT !.arg = @ - Cardinality(ups)]))
  BY <1>0, <1>4, <1>5, LinesLeft
<1>7. Good(s, Done(Astray(s)))
  BY <1>0, AstrayGood DEF Stays
<1> QED
  BY <1>1, <1>6, <1>7, Zenon

LEMMA NextLineGood == ASSUME NEW s, Ready(s) PROVE Good(s, ed_next_line(s))
<1> DEFINE downs == NewlinesDown(s)
           n     == AtLeastOne(s.arg)
           nth   == CHOOSE i \in downs : Cardinality({j \in downs : j < i}) = n - 1
           k     == InLine(s, nth, c_hpos(s))
<1>0. IsSeq(s.line) /\ Len(s.line) \in Nat /\ Buffers(s) /\ s.arg \in Nat /\ s.cursor \in 0..Len(s.line)
  BY ReadyIs
<1>1. ed_next_line(s) =
        IF Cardinality(downs) >= n THEN Done([s EXCEPT !.arg = @ - n, !.cursor = k])
        ELSE IF s.arg = 0 THEN Done(Astray(s))
        ELSE Error([s EXCEPT !.arg = @ - Cardinality(downs)])
  BY DEF ed_next_line
<1>2. downs \in SUBSET (1..Len(s.line))
  BY DEF NewlinesDown
<1>3. n \in Nat \ {0}
  BY <1>0 DEF AtLeastOne
<1> HIDE DEF n, downs
<1>4. ASSUME Cardinality(downs) >= n PROVE k \in 0..Len(s.line)
  <2>1. n <= Cardinality(downs)
    <3>0. IsFiniteSet(1..Len(s.line))
      <4>1. 1 \in Int /\ Len(s.line) \in Int
        BY <1>0
      <4> QED
        BY <4>1, FS_Interval
    <3>1. IsFiniteSet(downs)
      BY <1>2, <3>0, FS_Subset
    <3>2. Cardinality(downs) \in Nat
      BY <3>1, FS_CardinalityType
    <3> QED
      BY <1>3, <1>4, <3>2
  <2> DEFINE IsNth(i) == Cardinality({j \in downs : j < i}) = n - 1
  <2>2. \E i \in downs : IsNth(i)
    <3>1. \E i \in downs : /\ Cardinality({j \in downs : j < i}) = n - 1
                           /\ Cardinality({j \in downs : j <= i}) = n
      BY <1>0, <1>2, <1>3, <2>1, NthIs
    <3> QED
      BY <3>1, Zenon
  <2>3. nth = CHOOSE i \in downs : IsNth(i)
    OBVIOUS
  <2> HIDE DEF nth, IsNth
  <2>5. nth \in downs
    BY <2>2, <2>3
  <2>4. nth \in 0..Len(s.line)
    BY <1>0, <1>2, <2>5
  <2> QED
    BY <1>0, <2>4, InLineIs
<1> HIDE DEF k
<1>5. /\ [s EXCEPT !.arg = @ - n, !.cursor = k] = [s EXCEPT !.arg = s.arg - n, !.cursor = k]
      /\ [s EXCEPT !.arg = @ - Cardinality(downs)] = [s EXCEPT !.arg = s.arg - Cardinality(downs)]
  OBVIOUS
<1>6. Cardinality(downs) >= n => Good(s, Done([s EXCEPT !.arg = @ - n, !.cursor = k]))
  BY <1>0, <1>4, <1>5, LinesLeft
<1>7. Good(s, Error([s EXCEPT !.arg = @ - Cardinality(downs)]))
  BY <1>0, <1>5, LinesLeft
<1>8. Good(s, Done(Astray(s)))
  BY <1>0, AstrayGood DEF Stays
<1> QED
  BY <1>1, <1>6, <1>7, <1>8, Zenon

\* A digit is worth a number, and so an argument stays one (ed_digit).
LEMMA ValueIs == ASSUME NEW c \in Digits PROVE Value(c) \in Nat
<1>1. \E n \in 0..3 : <<"0", "1", "2", "3">>[n + 1] = c
  <2>1. /\ <<"0", "1", "2", "3">>[0 + 1] = "0" /\ <<"0", "1", "2", "3">>[1 + 1] = "1"
        /\ <<"0", "1", "2", "3">>[2 + 1] = "2" /\ <<"0", "1", "2", "3">>[3 + 1] = "3"
    OBVIOUS
  <2>2. c = "0" \/ c = "1" \/ c = "2" \/ c = "3"
    BY DEF Digits
  <2>3. 0 \in 0..3 /\ 1 \in 0..3 /\ 2 \in 0..3 /\ 3 \in 0..3
    OBVIOUS
  <2> QED
    BY <2>1, <2>2, <2>3, Zenon
<1>2. Value(c) \in 0..3
  BY <1>1, Zenon DEF Value
<1> QED
  BY <1>2

\* A command that only takes an argument.
LEMMA ArgumentTaken ==
  ASSUME NEW s, Ready(s), NEW n \in Nat, NEW d
  PROVE  /\ Good(s, Argument([s EXCEPT !.arg = n]))
         /\ Good(s, Argument([s EXCEPT !.arg = n, !.doing = d]))
<1> DEFINE t == [s EXCEPT !.arg = n]
           u == [s EXCEPT !.arg = n, !.doing = d]
<1>0. Sound(s) /\ DOMAIN s = EditFields
  BY ReadyIs
<1>1. Alike(s, t) /\ Alike(s, u)
  BY <1>0 DEF Alike, SoundFields, EditFields
<1>2. Awaiting(t) /\ Awaiting(u)
  BY <1>0 DEF Ready, Awaiting, EditFields
<1> HIDE DEF t, u
<1>3. Good(s, Argument(t)) /\ Good(s, Argument(u))
  BY <1>0, <1>1, <1>2, AlikeEdits, ArgumentGood
<1> QED
  BY <1>3 DEF t, u

LEMMA DigitGood == ASSUME NEW s, Ready(s), NEW c PROVE Good(s, ed_digit(s, c))
<1>1. ASSUME c \in Digits
      PROVE  /\ Good(s, Argument([s EXCEPT !.arg = Value(c)]))
             /\ Good(s, Argument([s EXCEPT !.arg = @ * 10 + Value(c)]))
  <2>1. Value(c) \in Nat /\ s.arg * 10 + Value(c) \in Nat
    BY <1>1, ValueIs, ReadyIs
  <2> QED
    BY <2>1, ArgumentTaken
<1> QED
  BY <1>1, InsertGood, ErrorGood, Zenon DEF ed_digit

LEMMA ArgumentDigitGood == ASSUME NEW s, Ready(s), NEW c PROVE Good(s, ed_argument_digit(s, c))
<1>1. ASSUME c \in Digits
      PROVE  /\ Good(s, Argument([s EXCEPT !.arg = Value(c), !.doing = TRUE]))
             /\ Good(s, Argument([s EXCEPT !.arg = @ * 10 + Value(c)]))
  <2>1. Value(c) \in Nat /\ s.arg * 10 + Value(c) \in Nat
    BY <1>1, ValueIs, ReadyIs
  <2> QED
    BY <2>1, ArgumentTaken
<1> QED
  BY <1>1, ErrorGood, Zenon DEF ed_argument_digit

-----------------------------------------------------------------------------
(* hist.c, and the history commands of common.c and search.c               *)

\* With l the line under edit: it is kept as long as one of the history is shown, and
\* what was kept is the line again when none is.
KeptOf(s, l) == IF s.event = 0 THEN KeptLine(l) ELSE s.saved
Walks(s, l, r) ==
  /\ r.event # 0 => r.saved = KeptOf(s, l)
  /\ s.event # 0 /\ r.event = 0 /\ r.ret # "newline" => r.line = s.saved

\* A command that leaves the history alone does not walk in it.
LEMMA StaysWalks == ASSUME NEW s, NEW r, Stays(s, r), NEW l PROVE Walks(s, l, r)
BY DEF Stays, Walks, KeptOf

\* What hist_get leaves of an EditLine whose event is e.
Got(s, e, r) ==
  /\ Buffers(r) /\ r.saved = s.saved /\ r.size = s.size
  /\ \/ r.ret = "done" /\ OnLine(r) /\ r.event = e /\ (e = 0 => r.line = s.saved)
     \/ r.ret = "error" /\ r.line = s.line /\ r.cursor = s.cursor /\ r.event # 0 /\ e # 0

\* A line without the character that may end it.
LEMMA LessLastIs ==
  ASSUME NEW l, IsSeq(l), NEW c
  PROVE  IsSeq(LessLast(l, c)) /\ Len(LessLast(l, c)) <= Len(l)
<1>1. Len(l) \in Nat
  BY SeqIs
<1>2. CASE l # <<>> /\ l[Len(l)] = c
  <2>1. Len(l) > 0
    <3>1. \E S : l \in Seq(S)
      BY DEF IsSeq
    <3> QED
      BY <1>1, <1>2, <3>1, EmptySeq
  <2> DEFINE n == Len(l) - 1
  <2>2. 1 \in 1..Len(l) + 1 /\ n \in 0..Len(l)
    BY <1>1, <2>1
  <2> HIDE DEF n
  <2>3. IsSeq(SubSeq(l, 1, n)) /\ Len(SubSeq(l, 1, n)) = IF 1 <= n THEN n - 1 + 1 ELSE 0
    BY <2>2, SubIsSeq
  <2>4. LessLast(l, c) = SubSeq(l, 1, n)
    BY <1>2 DEF LessLast, n
  <2> QED
    BY <1>1, <2>2, <2>3, <2>4
<1>3. CASE ~ (l # <<>> /\ l[Len(l)] = c)
  BY <1>1, <1>3 DEF LessLast
<1> QED
  BY <1>2, <1>3

\* The beginning of a text, of n characters at most.
LEMMA BeginningIs ==
  ASSUME NEW l, IsSeq(l), NEW n \in Nat
  PROVE  /\ IsSeq(SubSeq(l, 1, Clipped(Len(l), n)))
         /\ Len(SubSeq(l, 1, Clipped(Len(l), n))) <= n
         /\ Len(SubSeq(l, 1, Clipped(Len(l), n))) <= Len(l)
<1> DEFINE m == Clipped(Len(l), n)
<1>1. Len(l) \in Nat
  BY SeqIs
<1>2. m \in Nat /\ m <= Len(l) /\ m <= n
  BY <1>1 DEF Clipped
<1> HIDE DEF m
<1>3. 1 \in 1..Len(l) + 1 /\ m \in 0..Len(l)
  BY <1>1, <1>2
<1>4. IsSeq(SubSeq(l, 1, m)) /\ Len(SubSeq(l, 1, m)) = IF 1 <= m THEN m - 1 + 1 ELSE 0
  BY <1>3, SubIsSeq
<1> QED
  BY <1>1, <1>2, <1>4 DEF m

\* A line of the history is cut to the buffer it is fetched into (hist_get).
LEMMA HistoryLineIs ==
  ASSUME NEW s, Buffers(s), NEW text, IsSeq(text)
  PROVE  IsSeq(HistoryLine(s, text)) /\ Len(HistoryLine(s, text)) < Limit(s)
<1> DEFINE n == Limit(s) - 1
           a == SubSeq(text, 1, Clipped(Len(text), n))
           b == LessLast(a, "newline")
           c == LessLast(b, " ")
<1>1. Limit(s) \in Nat /\ n \in Nat
  BY LimitIs
<1>2. HistoryLine(s, text) = c
  BY DEF HistoryLine
<1> HIDE DEF n
<1>3. IsSeq(a) /\ Len(a) <= n
  BY <1>1, BeginningIs
<1> HIDE DEF a
<1>4. IsSeq(b) /\ Len(b) <= Len(a)
  BY <1>3, LessLastIs
<1> HIDE DEF b
<1>5. IsSeq(c) /\ Len(c) <= Len(b)
  BY <1>4, LessLastIs
<1> HIDE DEF c
<1>6. Len(a) \in Nat /\ Len(b) \in Nat /\ Len(c) \in Nat
  BY <1>3, <1>4, <1>5, SeqIs
<1> QED
  BY <1>1, <1>2, <1>3, <1>4, <1>5, <1>6 DEF n

LEMMA ShownIs ==
  ASSUME NEW s, Buffers(s), NEW text, IsSeq(text), Len(text) < Limit(s)
  PROVE  /\ Buffers(Shown(s, text)) /\ OnLine(Shown(s, text)) /\ Shown(s, text).ret = "done"
         /\ Shown(s, text).line = text
         /\ \A x \in EditFields \ {"line", "cursor", "ret"} : Shown(s, text)[x] = s[x]
<1> DEFINE k == IF s.type = "vi" THEN 0 ELSE Len(text)
           r == [s EXCEPT !.line = text, !.cursor = k, !.ret = "done"]
<1>1. Len(text) \in Nat
  BY SeqIs
<1>2. k \in 0..Len(text)
  BY <1>1
<1>3. Shown(s, text) = r
  BY DEF Shown, Done, Buffers, EditFields
<1> HIDE DEF k
<1>4. Buffers(r)
  BY DEF Buffers, EditFields, Limit
<1>5. r.line = text /\ r.cursor = k /\ r.ret = "done" /\ Limit(r) = Limit(s)
  BY DEF Buffers, EditFields, Limit
<1>6. \A x \in EditFields \ {"line", "cursor", "ret"} : r[x] = s[x]
  BY DEF Buffers, EditFields
<1>7. OnLine(r)
  BY <1>2, <1>5 DEF OnLine
<1> HIDE DEF r
<1> QED
  BY <1>3, <1>4, <1>5, <1>6, <1>7

\* The same EditLine with e as its event.
Bears(s, e, t) ==
  DOMAIN t = EditFields /\ t.event = e /\ \A x \in EditFields \ {"event"} : t[x] = s[x]

\* Another event, of those there are.
LEMMA EventIs ==
  ASSUME NEW s, Buffers(s), NEW e \in Nat, NEW t, Bears(s, e, t), Past # <<>> => e <= Len(Past)
  PROVE  Buffers(t)
<1>1. /\ t.size = s.size /\ t.kill = s.kill /\ t.undo = s.undo /\ t.saved = s.saved
      /\ t.redo = s.redo /\ t.mark = s.mark /\ t.chrdir = s.chrdir /\ t.event = e
      /\ DOMAIN t = EditFields
  BY DEF Bears, EditFields
<1> QED
  BY <1>1 DEF Buffers, Limit

LEMMA ErrorIs ==
  ASSUME NEW s, Buffers(s)
  PROVE  /\ Buffers(Error(s)) /\ Error(s).ret = "error"
         /\ \A x \in EditFields \ {"ret"} : Error(s)[x] = s[x]
BY DEF Buffers, EditFields, Limit, Error

\* A line of the history is a line.
LEMMA PastIs ==
  ASSUME NEW e \in Nat, e # 0, Past # <<>>, e <= Len(Past)
  PROVE  IsSeq(Past[e])
<1>1. Past \in Seq(Seq(Chars))
  BY LineEditAssumption
<1>2. Len(Past) \in Nat
  BY <1>1, LenProperties
<1>3. e \in 1..Len(Past)
  BY <1>2
<1>4. Past[e] \in Seq(Chars)
  BY <1>1, <1>3, ElementOfSeq
<1> QED
  BY <1>4 DEF IsSeq

\* hist_get fetches the line of the event, or the one that was kept for it; when there is
\* none, the line is as it was.
LEMMA HistGetOf ==
  ASSUME NEW s, Buffers(s), NEW e \in Nat, NEW t, Bears(s, e, t)
  PROVE  Got(s, e, hist_get(t))
<1> DEFINE u == [t EXCEPT !.event = Len(Past)]
<1>0. Len(Past) \in Nat /\ (Past # <<>> => Len(Past) > 0)
  <2>1. Past \in Seq(Seq(Chars))
    BY LineEditAssumption
  <2> QED
    BY <2>1, EmptySeq, LenProperties
<1>2. t.event = e /\ (\A x \in EditFields \ {"event"} : t[x] = s[x]) /\ DOMAIN t = EditFields
  BY DEF Bears
<1>3. /\ t.line = s.line /\ t.cursor = s.cursor /\ t.size = s.size /\ t.saved = s.saved
      /\ Limit(t) = Limit(s)
  BY <1>2 DEF EditFields, Limit
<1>4. Bears(s, Len(Past), u)
  BY <1>2 DEF EditFields, Bears
<1>5. hist_get(t) =
        IF t.event = 0 THEN Shown(t, t.saved)
        ELSE IF Past = <<>> THEN Error(t)
        ELSE IF t.event > Len(Past) THEN Error(u)
        ELSE Shown(t, HistoryLine(t, Past[t.event]))
  BY DEF hist_get
<1> HIDE DEF u
<1>6. CASE e = 0
  <2>0. Past # <<>> => e <= Len(Past)
    BY <1>0, <1>6
  <2>1. Buffers(t)
    BY <2>0, EventIs
  <2>2. IsSeq(t.saved) /\ Len(t.saved) < Limit(t)
    BY <2>1 DEF Buffers
  <2> DEFINE r == Shown(t, t.saved)
  <2>3. /\ Buffers(r) /\ OnLine(r) /\ r.ret = "done" /\ r.line = t.saved
        /\ \A x \in EditFields \ {"line", "cursor", "ret"} : r[x] = t[x]
    BY <2>1, <2>2, ShownIs
  <2>4. hist_get(t) = r
    BY <1>2, <1>5, <1>6
  <2> HIDE DEF r
  <2>5. r.saved = s.saved /\ r.size = s.size /\ r.event = e /\ r.line = s.saved
    BY <1>2, <1>3, <2>3 DEF EditFields
  <2> QED
    BY <2>3, <2>4, <2>5 DEF Got
<1>7. CASE e # 0 /\ Past = <<>>
  <2>1. Buffers(t)
    BY <1>7, EventIs
  <2> DEFINE r == Error(t)
  <2>2. Buffers(r) /\ r.ret = "error" /\ \A x \in EditFields \ {"ret"} : r[x] = t[x]
    BY <2>1, ErrorIs
  <2>3. hist_get(t) = r
    BY <1>2, <1>5, <1>7
  <2> HIDE DEF r
  <2>4. r.saved = s.saved /\ r.size = s.size /\ r.line = s.line /\ r.cursor = s.cursor /\ r.event = e
    BY <1>2, <1>3, <2>2 DEF EditFields
  <2> QED
    BY <1>7, <2>2, <2>3, <2>4 DEF Got
<1>8. CASE e # 0 /\ Past # <<>> /\ e > Len(Past)
  <2>1. /\ Buffers(u) /\ u.event = Len(Past)
        /\ \A x \in EditFields \ {"event"} : u[x] = s[x]
    <3>1. Past # <<>> => Len(Past) <= Len(Past)
      BY <1>0
    <3> QED
      BY <1>0, <1>4, <3>1, EventIs DEF Bears
  <2> DEFINE r == Error(u)
  <2>2. Buffers(r) /\ r.ret = "error" /\ \A x \in EditFields \ {"ret"} : r[x] = u[x]
    BY <2>1, ErrorIs
  <2>3. hist_get(t) = r
    BY <1>2, <1>5, <1>8
  <2> HIDE DEF r
  <2>4. /\ r.saved = s.saved /\ r.size = s.size /\ r.line = s.line /\ r.cursor = s.cursor
        /\ r.event = Len(Past)
    BY <2>1, <2>2 DEF EditFields
  <2> QED
    BY <1>0, <1>8, <2>2, <2>3, <2>4 DEF Got
<1>9. CASE e # 0 /\ Past # <<>> /\ ~ (e > Len(Past))
  <2>0. e <= Len(Past)
    BY <1>0, <1>9
  <2>1. Buffers(t)
    BY <2>0, EventIs
  <2> DEFINE text == HistoryLine(t, Past[t.event])
  <2>2. IsSeq(text) /\ Len(text) < Limit(t)
    <3>1. IsSeq(Past[t.event])
      BY <1>2, <1>9, <2>0, PastIs
    <3> QED
      BY <2>1, <3>1, HistoryLineIs
  <2> DEFINE r == Shown(t, text)
  <2>4. hist_get(t) = r
    BY <1>2, <1>5, <1>9
  <2> HIDE DEF text
  <2>3. /\ Buffers(r) /\ OnLine(r) /\ r.ret = "done"
        /\ \A x \in EditFields \ {"line", "cursor", "ret"} : r[x] = t[x]
    BY <2>1, <2>2, ShownIs
  <2> HIDE DEF r
  <2>5. r.saved = s.saved /\ r.size = s.size /\ r.event = e
    BY <1>2, <1>3, <2>3 DEF EditFields
  <2> QED
    BY <1>9, <2>3, <2>4, <2>5 DEF Got
<1> QED
  BY <1>6, <1>7, <1>8, <1>9

LEMMA HistGetIs ==
  ASSUME NEW s, Buffers(s), NEW e \in Nat
  PROVE  Got(s, e, hist_get([s EXCEPT !.event = e]))
<1>1. Bears(s, e, [s EXCEPT !.event = e])
  BY DEF Bears, Buffers, EditFields
<1> QED
  BY <1>1, HistGetOf

LEMMA HistGetHere == ASSUME NEW s, Buffers(s) PROVE Got(s, s.event, hist_get(s))
<1>1. Bears(s, s.event, s) /\ s.event \in Nat
  BY DEF Bears, Buffers
<1> QED
  BY <1>1, HistGetOf

\* The line under edit is kept before the first of the history is fetched (hist_get's
\* callers), and no line that was kept is lost.
LEMMA KeptIs ==
  ASSUME NEW s, Buffers(s), IsSeq(s.line), Len(s.line) < Limit(s)
  PROVE  /\ Buffers(Kept(s)) /\ Kept(s).saved = KeptOf(s, s.line)
         /\ \A x \in EditFields \ {"saved"} : Kept(s)[x] = s[x]
<1> DEFINE l == KeptLine(s.line)
<1>0. Len(s.line) \in Nat
  BY SeqIs
<1>1. IsSeq(l) /\ Len(l) = Len(s.line)
  <2>1. l = [i \in 1..Len(s.line) |-> l[i]]
    BY DEF KeptLine
  <2> HIDE DEF l
  <2> QED
    BY <1>0, <2>1, FunctionIsSeq
<1>2. Kept(s) = IF s.event = 0 THEN [s EXCEPT !.saved = l] ELSE s
  BY DEF Kept
<1> HIDE DEF l
<1>3. CASE s.event = 0
  <2>1. Kept(s) = [s EXCEPT !.saved = l]
    BY <1>2, <1>3
  <2>2. Buffers([s EXCEPT !.saved = l])
    BY <1>1 DEF Buffers, EditFields, Limit
  <2>3. [s EXCEPT !.saved = l].saved = l
    BY DEF Buffers, EditFields
  <2>4. \A x \in EditFields \ {"saved"} : [s EXCEPT !.saved = l][x] = s[x]
    BY DEF Buffers
  <2> QED
    BY <1>3, <2>1, <2>2, <2>3, <2>4 DEF KeptOf, l
<1>4. CASE s.event # 0
  BY <1>2, <1>4 DEF KeptOf
<1> QED
  BY <1>3, <1>4

\* The one before the event that is not there: in vi as it was, else the oldest.
LEMMA FetchWalks ==
  ASSUME NEW s, NEW l, NEW t, Buffers(t), NEW e \in Nat,
         e # 0 => t.saved = KeptOf(s, l), s.event # 0 => t.saved = s.saved,
         NEW r, Got(t, e, r)
  PROVE  Walks(s, l, r)
BY DEF Got, Walks, KeptOf

\* What a command leaves, of the history that it may walk in as well.
Goes(s, l, r) == Fine(r) /\ Walks(s, l, r)

LEMMA GoodGoes == ASSUME NEW s, NEW r, Good(s, r), NEW l PROVE Goes(s, l, r)
BY StaysWalks DEF Good, Goes

\* The same line under the same cursor.
LEMMA OnLineAs ==
  ASSUME NEW s, NEW t, OnLine(s), t.line = s.line, t.cursor = s.cursor, t.size = s.size
  PROVE  OnLine(t)
BY DEF OnLine, Limit

\* It is over, and did not end the line.
Over(r) == r.ret \in {"done", "error", "eof"}
LEMMA FineIs == ASSUME NEW r, Buffers(r), OnLine(r), Over(r) PROVE Fine(r)
BY DEF Fine, Over

LEMMA DoneOver ==
  ASSUME NEW r, Buffers(r), OnLine(r)
  PROVE  /\ Fine(Done(r)) /\ Fine(Error(r)) /\ Fine(EndOfFile(r))
         /\ \A x \in EditFields \ {"ret"} : Done(r)[x] = r[x] /\ Error(r)[x] = r[x]
         /\ Done(r).ret = "done" /\ Error(r).ret = "error"
         /\ Buffers(Done(r)) /\ Buffers(Error(r))
<1>1. Fine(Done(r)) /\ Fine(Error(r)) /\ Fine(EndOfFile(r))
  BY DoneIs DEF Sound
<1>2. \A x \in EditFields \ {"ret"} : Done(r)[x] = r[x] /\ Error(r)[x] = r[x]
  BY DEF Done, Error, Buffers
<1>3. Done(r).ret = "done" /\ Error(r).ret = "error"
  BY DEF Done, Error, Buffers, EditFields
<1>4. Buffers(Done(r)) /\ Buffers(Error(r))
  BY DEF Done, Error, Buffers, EditFields, Limit
<1> QED
  BY <1>1, <1>2, <1>3, <1>4

LEMMA WalksAs ==
  ASSUME NEW s, NEW l, NEW r, Walks(s, l, r), r.ret # "newline",
         NEW t, t.event = r.event, t.saved = r.saved, t.line = r.line
  PROVE  Walks(s, l, t)
BY DEF Walks

\* What hist_get leaves, when it is called from a line, is on a line.
LEMMA GotOnLine ==
  ASSUME NEW t, OnLine(t), NEW e, NEW r, Got(t, e, r)
  PROVE  Buffers(r) /\ OnLine(r) /\ Over(r) /\ Fine(r) /\ r.saved = t.saved
<1>1. Buffers(r) /\ Over(r) /\ r.saved = t.saved
  BY DEF Got, Over
<1>2. OnLine(r)
  BY OnLineAs DEF Got
<1> QED
  BY <1>1, <1>2, FineIs

\* An event that is not there gives way to the one that was shown, or to the oldest.
LEMMA NearestGoes ==
  ASSUME NEW s, s.event \in Nat, NEW l, NEW t, Buffers(t), OnLine(t), NEW e \in Nat,
         e # 0 => t.saved = KeptOf(s, l), s.event # 0 => t.saved = s.saved,
         NEW r, Got(t, e, r)
  PROVE  Goes(s, l, OrNearest(r, s.event))
<1> DEFINE u == IF r.type = "vi" THEN [r EXCEPT !.event = s.event] ELSE r
           g == IF r.type = "vi" THEN s.event ELSE r.event
           q == hist_get(u)
<1>1. Buffers(r) /\ OnLine(r) /\ Fine(r) /\ r.saved = t.saved /\ Over(r)
  BY GotOnLine
<1>2. CASE r.ret # "error"
  <2>1. OrNearest(r, s.event) = r
    BY <1>2 DEF OrNearest
  <2>2. Walks(s, l, r)
    BY FetchWalks
  <2> QED
    BY <1>1, <2>1, <2>2 DEF Goes
<1>3. CASE r.ret = "error"
  <2>1. OrNearest(r, s.event) = Done(q)
    BY <1>3 DEF OrNearest
  <2>2. e # 0 /\ r.event # 0 /\ r.event \in Nat
    BY <1>1, <1>3 DEF Got, Buffers
  <2>3. g \in Nat
    BY <2>2
  <2>5. Got(r, g, q)
    BY <1>1, <2>3, HistGetIs, HistGetHere
  <2> HIDE DEF q
  <2>6. Buffers(q) /\ OnLine(q) /\ Over(q)
    BY <1>1, <2>5, GotOnLine
  <2>7. (g # 0 => r.saved = KeptOf(s, l)) /\ (s.event # 0 => r.saved = s.saved)
    BY <1>1, <2>2
  <2> HIDE DEF g
  <2>8. Walks(s, l, q)
    BY <1>1, <2>3, <2>5, <2>7, FetchWalks
  <2>9. /\ Fine(Done(q)) /\ Done(q).event = q.event /\ Done(q).saved = q.saved
        /\ Done(q).line = q.line
    BY <2>6, DoneOver DEF EditFields
  <2>10. Walks(s, l, Done(q))
    BY <2>6, <2>8, <2>9, WalksAs DEF Over
  <2> QED
    BY <2>1, <2>9, <2>10 DEF Goes
<1> QED
  BY <1>2, <1>3

\* The commands of the history forget what was to be undone.
LEMMA NoUndoEdits ==
  ASSUME NEW s, Sound(s), NEW p
  PROVE  /\ Edits(s, [s EXCEPT !.undo = NoUndo])
         /\ Edits(s, [s EXCEPT !.pending = p, !.undo = NoUndo])
<1> DEFINE t == [s EXCEPT !.undo = NoUndo]
<1>1. Edits(s, t)
  BY DEF Edits, Sound, Buffers, OnLine, EditFields, Limit, NoUndo, Stays
<1>2. Alike(t, [s EXCEPT !.pending = p, !.undo = NoUndo])
  BY DEF Sound, Buffers, EditFields, Alike, SoundFields
<1> HIDE DEF t
<1>3. Edits(t, [s EXCEPT !.pending = p, !.undo = NoUndo])
  BY <1>1, <1>2, AlikeEdits DEF Edits
<1> QED
  BY <1>1, <1>3, EditsJoin DEF t

LEMMA KeptSound ==
  ASSUME NEW s, Sound(s)
  PROVE  /\ Sound(Kept(s)) /\ Kept(s).saved = KeptOf(s, s.line)
         /\ \A x \in EditFields \ {"saved"} : Kept(s)[x] = s[x]
<1>1. Buffers(s) /\ OnLine(s) /\ IsSeq(s.line) /\ Len(s.line) < Limit(s)
  BY DEF Sound, OnLine
<1>2. /\ Buffers(Kept(s)) /\ Kept(s).saved = KeptOf(s, s.line)
      /\ \A x \in EditFields \ {"saved"} : Kept(s)[x] = s[x]
  BY <1>1, KeptIs
<1>3. Kept(s).line = s.line /\ Kept(s).cursor = s.cursor /\ Kept(s).size = s.size
  BY <1>2 DEF EditFields
<1> QED
  BY <1>1, <1>2, <1>3, OnLineAs DEF Sound

LEMMA PrevHistoryGoes == ASSUME NEW s, Ready(s) PROVE Goes(s, s.line, ed_prev_history(s))
<1> DEFINE u == [s EXCEPT !.undo = NoUndo]
           t == Kept(u)
           e == s.event + s.arg
           r == hist_get([t EXCEPT !.event = e])
<1>1. Sound(s) /\ s.event \in Nat /\ s.arg \in Nat /\ DOMAIN s = EditFields
  BY ReadyIs
<1>2. Edits(s, u)
  BY <1>1, NoUndoEdits
<1>3. \A x \in EditFields \ {"undo"} : u[x] = s[x]
  BY <1>1
<1> HIDE DEF u
<1>4. u.event = s.event /\ u.line = s.line /\ u.saved = s.saved /\ u.arg = s.arg
  BY <1>3 DEF EditFields
<1>5. /\ Sound(t) /\ t.saved = KeptOf(u, u.line)
      /\ \A x \in EditFields \ {"saved"} : t[x] = u[x]
  BY <1>2, KeptSound DEF Edits
<1>6. t.saved = KeptOf(s, s.line)
  BY <1>4, <1>5 DEF KeptOf
<1> HIDE DEF t
<1>7. [t EXCEPT !.event = @ + s.arg] = [t EXCEPT !.event = e]
  BY <1>4, <1>5 DEF EditFields
<1>8. ed_prev_history(s) = OrNearest(r, s.event)
  BY <1>7 DEF ed_prev_history, t, u
<1>9. e \in Nat
  BY <1>1
<1> HIDE DEF e
<1>10. Got(t, e, r)
  BY <1>5, <1>9, HistGetIs DEF Sound
<1> HIDE DEF r
<1>11. s.event # 0 => t.saved = s.saved
  BY <1>6 DEF KeptOf
<1>12. Goes(s, s.line, OrNearest(r, s.event))
  BY <1>1, <1>5, <1>6, <1>9, <1>10, <1>11, NearestGoes DEF Sound
<1> QED
  BY <1>8, <1>12

LEMMA NextHistoryGoes == ASSUME NEW s, Ready(s) PROVE Goes(s, s.line, ed_next_history(s))
<1> DEFINE e == IF s.event > s.arg THEN s.event - s.arg ELSE 0
           u == [s EXCEPT !.undo = NoUndo]
           r == hist_get([u EXCEPT !.event = e])
<1>1. Sound(s) /\ s.event \in Nat /\ s.arg \in Nat /\ DOMAIN s = EditFields
  BY ReadyIs
<1>2. Edits(s, u) /\ u.saved = s.saved
  BY <1>1, NoUndoEdits DEF EditFields
<1>3. ed_next_history(s) = r
  <2>1. [s EXCEPT !.undo = NoUndo, !.event = IF @ > s.arg THEN @ - s.arg ELSE 0]
        = [u EXCEPT !.event = e]
    BY <1>1 DEF EditFields
  <2> QED
    BY <2>1 DEF ed_next_history
<1>4. e \in Nat /\ (s.event = 0 => e = 0)
  BY <1>1
<1> HIDE DEF e, u
<1>5. Got(u, e, r)
  BY <1>2, <1>4, HistGetIs DEF Edits, Sound
<1> HIDE DEF r
<1>6. Fine(r)
  BY <1>2, <1>5, GotOnLine DEF Edits, Sound
<1>7. (e # 0 => u.saved = KeptOf(s, s.line)) /\ (s.event # 0 => u.saved = s.saved)
  BY <1>2, <1>4 DEF KeptOf
<1>8. Walks(s, s.line, r)
  BY <1>2, <1>4, <1>5, <1>7, FetchWalks DEF Edits, Sound
<1> QED
  BY <1>3, <1>6, <1>8 DEF Goes

\* What a search leaves: the line it found, or the one there was.
Searching(s) == Buffers(s) /\ IsSeq(s.line) /\ Len(s.line) < Limit(s)
Found(s, r) ==
  /\ Buffers(r) /\ Walks(s, s.line, r)
  /\ \/ r.ret = "done" /\ OnLine(r)
     \/ r.ret = "error" /\ r.line = s.line /\ r.cursor = s.cursor /\ r.size = s.size

\* t is s with what the search sets before it looks.
Sets(s, t) ==
  /\ Buffers(t) /\ t.line = s.line /\ t.cursor = s.cursor /\ t.size = s.size /\ t.event = s.event
  /\ s.event # 0 => t.saved = s.saved

\* A search that finds nothing leaves the line.
LEMMA FailedFinds == ASSUME NEW s, NEW t, Sets(s, t) PROVE Found(s, Error(t))
<1>1. Buffers(t)
  BY DEF Sets
<1>2. Buffers(Error(t)) /\ Error(t).ret = "error" /\ \A x \in EditFields \ {"ret"} : Error(t)[x] = t[x]
  BY <1>1, ErrorIs
<1> DEFINE r == Error(t)
<1> HIDE DEF r
<1>3. /\ r.line = s.line /\ r.cursor = s.cursor /\ r.size = s.size /\ r.event = s.event
      /\ (s.event # 0 => r.saved = s.saved)
  BY <1>2 DEF Sets, EditFields, r
<1>4. Walks(s, s.line, r)
  BY <1>3 DEF Walks, KeptOf
<1> QED
  BY <1>2, <1>3, <1>4 DEF Found, r

LEMMA FoundIn ==
  ASSUME NEW s, NEW t, Sets(s, t), NEW e \in Nat, e # 0 => t.saved = KeptOf(s, s.line)
  PROVE  Found(s, hist_get([t EXCEPT !.event = e]))
<1> DEFINE r == hist_get([t EXCEPT !.event = e])
<1>1. Buffers(t) /\ (s.event # 0 => t.saved = s.saved)
  BY DEF Sets
<1>2. Got(t, e, r)
  BY <1>1, HistGetIs
<1> HIDE DEF r
<1>3. Walks(s, s.line, r)
  BY <1>1, <1>2, FetchWalks
<1>4. Found(s, r)
  BY <1>2, <1>3 DEF Found, Got, Sets
<1> QED
  BY <1>4 DEF r

\* The pattern is taken from the line, before the cursor (c_setpat).
LEMMA SetpatSets ==
  ASSUME NEW s, NEW t, Sets(s, t)
  PROVE  Sets(s, c_setpat(t)) /\ c_setpat(t).saved = t.saved
<1> DEFINE r == c_setpat(t)
<1>1. \A x \in EditFields \ {"pat", "astray"} : r[x] = t[x]
  BY DEF c_setpat, Astray, Sets, Buffers, EditFields
<1>2. DOMAIN r = EditFields
  BY DEF c_setpat, Astray, Sets, Buffers
<1> HIDE DEF r
<1>3. /\ r.size = t.size /\ r.kill = t.kill /\ r.undo = t.undo /\ r.saved = t.saved
      /\ r.redo = t.redo /\ r.mark = t.mark /\ r.chrdir = t.chrdir /\ r.event = t.event
      /\ r.line = t.line /\ r.cursor = t.cursor
  BY <1>1 DEF EditFields
<1>4. Buffers(r)
  BY <1>2, <1>3 DEF Sets, Buffers, Limit
<1>5. Sets(s, r) /\ r.saved = t.saved
  BY <1>3, <1>4 DEF Sets
<1> QED
  BY <1>5 DEF r

LEMMA NoUndoSets ==
  ASSUME NEW s, Searching(s)
  PROVE  /\ Sets(s, [s EXCEPT !.pending = None, !.undo = NoUndo])
         /\ [s EXCEPT !.pending = None, !.undo = NoUndo].saved = s.saved
BY DEF Searching, Sets, Buffers, EditFields, Limit, NoUndo

\* The two searches of common.c, from wherever the cursor is.
LEMMA SearchPrevFinds == ASSUME NEW s, Searching(s) PROVE Found(s, ed_search_prev_history(s))
<1> DEFINE u == [s EXCEPT !.pending = None, !.undo = NoUndo]
           from == Kept(u)
           set == c_setpat(from)
           older == Matching(set, s.event + 1..Len(Past))
<1>1. Sets(s, u) /\ u.saved = s.saved
  BY NoUndoSets
<1> HIDE DEF u
<1>2. /\ Buffers(from) /\ from.saved = KeptOf(u, u.line)
      /\ \A x \in EditFields \ {"saved"} : from[x] = u[x]
  <2>1. Buffers(u) /\ IsSeq(u.line) /\ Len(u.line) < Limit(u)
    BY <1>1 DEF Sets, Searching, Limit
  <2> QED
    BY <2>1, KeptIs
<1>3. from.saved = KeptOf(s, s.line)
  BY <1>1, <1>2 DEF Sets, KeptOf
<1>4. Sets(s, from)
  <2>1. from.line = u.line /\ from.cursor = u.cursor /\ from.size = u.size /\ from.event = u.event
    BY <1>2 DEF EditFields
  <2> QED
    BY <1>1, <1>2, <1>3, <2>1 DEF Sets, KeptOf
<1>5. ed_search_prev_history(s) =
        IF Past = <<>> THEN Error(from)
        ELSE IF older = {} THEN Error(set)
        ELSE hist_get([set EXCEPT !.event = Min(older)])
  BY DEF ed_search_prev_history, from, u
<1> HIDE DEF from
<1>6. Sets(s, set) /\ set.saved = from.saved
  BY <1>4, SetpatSets
<1> HIDE DEF set
<1>7. ASSUME older # {} PROVE Min(older) \in Nat
  <2>1. s.event \in Nat
    BY DEF Searching, Buffers
  <2>2. older \in SUBSET Nat
    BY <2>1 DEF Matching
  <2> QED
    BY <1>7, <2>2, MinIn
<1> HIDE DEF older
<1>8. older # {} => Found(s, hist_get([set EXCEPT !.event = Min(older)]))
  BY <1>3, <1>6, <1>7, FoundIn
<1>9. Found(s, Error(from)) /\ Found(s, Error(set))
  BY <1>4, <1>6, FailedFinds
<1> QED
  BY <1>5, <1>8, <1>9, Zenon

LEMMA SearchNextFinds == ASSUME NEW s, Searching(s) PROVE Found(s, ed_search_next_history(s))
<1> DEFINE from == [s EXCEPT !.pending = None, !.undo = NoUndo]
           set == c_setpat(from)
           newer == Matching(set, 1..Clipped(s.event - 1, Len(Past)))
<1>1. Sets(s, from) /\ from.saved = s.saved
  BY NoUndoSets
<1>2. ed_search_next_history(s) =
        IF s.event = 0 \/ Past = <<>> THEN Error(from)
        ELSE IF newer # {} THEN hist_get([set EXCEPT !.event = Max(newer)])
        ELSE IF set.pat = Unset \/ ~el_match(CString(s.saved), set.pat) THEN Error(set)
        ELSE hist_get([set EXCEPT !.event = 0])
  BY DEF ed_search_next_history
<1> HIDE DEF from
<1>3. Sets(s, set) /\ set.saved = from.saved
  BY <1>1, SetpatSets
<1> HIDE DEF set
<1>4. ASSUME newer # {} PROVE Max(newer) \in Nat
  <2>0. Len(Past) \in Nat /\ s.event \in Nat
    <3>1. Past \in Seq(Seq(Chars))
      BY LineEditAssumption
    <3> QED
      BY <3>1, LenProperties DEF Searching, Buffers
  <2>1. newer \in SUBSET (0..Len(Past))
    <3>1. Clipped(s.event - 1, Len(Past)) <= Len(Past) /\ Clipped(s.event - 1, Len(Past)) \in Int
      BY <2>0 DEF Clipped
    <3>2. newer \subseteq 1..Clipped(s.event - 1, Len(Past))
      BY DEF Matching
    <3> DEFINE c == Clipped(s.event - 1, Len(Past))
    <3> HIDE DEF c, newer
    <3>3. newer \subseteq 1..c /\ c <= Len(Past) /\ c \in Int
      BY <3>1, <3>2 DEF c
    <3>4. \A x \in newer : x \in 0..Len(Past)
      BY <2>0, <3>3
    <3> QED
      BY <3>4
  <2> HIDE DEF newer
  <2>2. Max(newer) \in newer
    BY <1>4, <2>0, <2>1, MaxIn
  <2>3. newer \subseteq 0..Len(Past)
    BY <2>1
  <2>4. Max(newer) \in 0..Len(Past)
    BY <2>2, <2>3, Zenon
  <2> QED
    BY <2>0, <2>4
<1> HIDE DEF newer
<1>5. s.event # 0 => set.saved = KeptOf(s, s.line)
  BY <1>1, <1>3 DEF KeptOf
<1>6. s.event # 0 /\ newer # {} => Found(s, hist_get([set EXCEPT !.event = Max(newer)]))
  BY <1>3, <1>4, <1>5, FoundIn
<1>7. Found(s, hist_get([set EXCEPT !.event = 0]))
  <2> DEFINE z == 0
  <2>1. z \in Nat /\ ~ (z # 0)
    OBVIOUS
  <2> HIDE DEF z
  <2>2. Found(s, hist_get([set EXCEPT !.event = z]))
    BY <1>3, <2>1, FoundIn
  <2> QED
    BY <2>2 DEF z
<1>8. Found(s, Error(from)) /\ Found(s, Error(set))
  BY <1>1, <1>3, FailedFinds
<1> QED
  BY <1>2, <1>6, <1>7, <1>8, Zenon

LEMMA SoughtFinds == ASSUME NEW s, Searching(s), NEW dir PROVE Found(s, Sought(s, dir))
BY SearchPrevFinds, SearchNextFinds DEF Sought

LEMMA ReadySearching == ASSUME NEW s, Ready(s) PROVE Searching(s)
BY ReadyIs DEF Searching

LEMMA FoundGoes == ASSUME NEW s, OnLine(s), NEW r, Found(s, r) PROVE Goes(s, s.line, r)
<1>1. OnLine(r)
  BY OnLineAs DEF Found
<1> QED
  BY <1>1, FineIs DEF Found, Goes, Over

LEMMA SearchGoes ==
  ASSUME NEW s, Ready(s)
  PROVE  /\ Goes(s, s.line, ed_search_prev_history(s))
         /\ Goes(s, s.line, ed_search_next_history(s))
BY ReadySearching, ReadyIs, SearchPrevFinds, SearchNextFinds, FoundGoes

\* A string is asked for in place of the line (c_gets).
LEMMA GetsEdits ==
  ASSUME NEW s, Sound(s), NEW answer, NEW prompt
  PROVE  Edits(s, c_gets(s, answer, prompt)) /\ c_gets(s, answer, prompt).line = <<>>
<1> DEFINE k == 0
           t == [s EXCEPT !.line = <<>>, !.cursor = k]
<1>1. IsSeq(<<>>) /\ Len(<<>>) = 0 /\ Limit(s) > 0 /\ k \in 0..Len(<<>>)
  BY EmptyIsSeq, LimitIs DEF Sound
<1> HIDE DEF k
<1>2. Edits(s, t)
  <2>1. Len(<<>>) < Limit(s)
    BY <1>1, LimitIs DEF Sound
  <2> QED
    BY <1>1, <2>1, LineEdits
<1>3. Alike(t, c_gets(s, answer, prompt))
  BY DEF c_gets, Sound, Buffers, EditFields, Alike, SoundFields, k
<1>4. c_gets(s, answer, prompt).line = <<>>
  BY DEF c_gets, Sound, Buffers, EditFields
<1> HIDE DEF t
<1>5. Edits(t, c_gets(s, answer, prompt))
  BY <1>2, <1>3, AlikeEdits DEF Edits
<1> QED
  BY <1>2, <1>4, <1>5, EditsJoin

\* The line is emptied for the answer to a prompt (ed_command).
LEMMA CommandLineGood == ASSUME NEW s, Ready(s), NEW answer PROVE Good(s, ed_command(s, answer))
<1> DEFINE t == c_gets(s, answer, 3)
           u == [t EXCEPT !.alt = FALSE]
<1>1. Edits(s, t)
  BY ReadyIs, GetsEdits
<1> HIDE DEF t
<1>2. Alike(t, u)
  BY <1>1 DEF Edits, Sound, Buffers, EditFields, Alike, SoundFields
<1> HIDE DEF u
<1>3. Edits(s, u)
  BY <1>1, <1>2, AlikeEdits, EditsJoin DEF Edits
<1> QED
  BY <1>3, EndGood DEF ed_command, t, u

-----------------------------------------------------------------------------
(* emacs.c                                                                 *)

LEMMA DeleteOrListGood == ASSUME NEW s, Ready(s) PROVE Good(s, em_delete_or_list(s))
<1>1. Good(s, Done(c_delafter(s, s.arg)))
  BY ReadyIs, DelafterEdits, EndGood
<1>2. ASSUME s.cursor # Len(s.line) PROVE Good(s, Done(c_delafter1(s)))
  <2>1. s.cursor < Len(s.line) /\ Sound(s)
    BY <1>2, ReadyIs
  <2> QED
    BY <2>1, Delafter1Edits, EndGood
<1> QED
  BY <1>1, <1>2, ErrorGood, Zenon DEF em_delete_or_list

LEMMA DeleteNextWordGood == ASSUME NEW s, Ready(s) PROVE Good(s, em_delete_next_word(s))
<1> DEFINE n == c__next_word(s.line, s.cursor, s.arg) - s.cursor
<1>0. /\ Editable(s) /\ IsSeq(s.line) /\ s.cursor \in 0..Len(s.line) /\ s.arg \in Nat
      /\ s.cursor \in Nat /\ Len(s.line) \in Nat
  BY ReadyIs
<1>1. n \in Nat
  <2>1. c__next_word(s.line, s.cursor, s.arg) \in s.cursor..Len(s.line)
    BY <1>0, NextWordIn
  <2> QED
    BY <1>0, <2>1
<1>2. em_delete_next_word(s) = IF s.cursor = Len(s.line) THEN Error(s) ELSE Done(c_delafter(s, n))
  BY DEF em_delete_next_word
<1> HIDE DEF n
<1>3. Good(s, Done(c_delafter(s, n)))
  BY <1>0, <1>1, DelafterEdits, EndGood
<1> QED
  BY <1>2, <1>3, ErrorGood, Zenon

LEMMA YankGood == ASSUME NEW s, Ready(s) PROVE Good(s, em_yank(s))
<1> DEFINE t == [s EXCEPT !.mark = s.cursor]
           put == Typed(t, s.kill)
<1>0. Sound(s) /\ s.cursor \in MarkPlaces /\ IsSeq(s.kill)
  BY ReadyIs DEF MarkPlaces
<1>1. Edits(s, t) /\ \A x \in EditFields \ {"mark"} : t[x] = s[x]
  BY <1>0, MarkEdits
<1>2. em_yank(s) = IF s.kill = <<>> THEN Done(s)
                   ELSE IF ~HasRoom(s, Len(s.kill)) THEN Error(s)
                   ELSE Done(IF s.arg = 1 THEN put ELSE [put EXCEPT !.cursor = s.cursor])
  BY DEF em_yank
<1> HIDE DEF t
<1>3. t.line = s.line /\ t.size = s.size /\ t.cursor = s.cursor
  BY <1>1 DEF EditFields
<1>4. ASSUME HasRoom(s, Len(s.kill))
      PROVE  Edits(s, put) /\ Edits(s, [put EXCEPT !.cursor = s.cursor])
  <2>1. CanInsert(t, Len(s.kill))
    BY <1>3, <1>4 DEF CanInsert, HasRoom, Limit
  <2>2. Edits(t, put) /\ Edits(t, [put EXCEPT !.cursor = t.cursor])
    BY <1>0, <1>1, <2>1, TypedEdits DEF Edits
  <2> HIDE DEF put
  <2>3. Edits(t, [put EXCEPT !.cursor = s.cursor])
    BY <1>3, <2>2
  <2> QED
    BY <1>1, <2>2, <2>3, EditsJoin
<1> HIDE DEF put
<1>5. HasRoom(s, Len(s.kill)) =>
        Good(s, Done(IF s.arg = 1 THEN put ELSE [put EXCEPT !.cursor = s.cursor]))
  BY <1>4, EndGood
<1> QED
  BY <1>2, <1>5, ErrorGood, Zenon

\* The line emptied, with the cut buffer set to it (em_kill_line).
LEMMA EmptiedEdits ==
  ASSUME NEW s, Sound(s) PROVE Edits(s, [cv_yank(s, s.line) EXCEPT !.line = <<>>, !.cursor = 0])
<1> DEFINE y == cv_yank(s, s.line)
           k == 0
<1>0. IsSeq(s.line) /\ Len(s.line) <= Limit(s)
  BY SeqIs, LimitIs DEF Sound, OnLine
<1>1. Edits(s, y)
  BY <1>0, YankEdits
<1> HIDE DEF y
<1>2. IsSeq(<<>>) /\ Len(<<>>) < Limit(y) /\ k \in 0..Len(<<>>)
  BY <1>1, EmptyIsSeq, LimitIs DEF Edits, Sound
<1> HIDE DEF k
<1>3. Edits(y, [y EXCEPT !.line = <<>>, !.cursor = k])
  BY <1>1, <1>2, LineEdits DEF Edits
<1> QED
  BY <1>1, <1>3, EditsJoin DEF y, k

LEMMA KillWholeGood == ASSUME NEW s, NEW t, Edits(s, t) PROVE Good(s, em_kill_line(t))
<1>1. Edits(t, [cv_yank(t, t.line) EXCEPT !.line = <<>>, !.cursor = 0])
  BY EmptiedEdits DEF Edits
<1> QED
  BY <1>1, EditsJoin, EndGood DEF em_kill_line

LEMMA KillRegionGood == ASSUME NEW s, Ready(s) PROVE Good(s, em_kill_region(s))
<1>0. Editable(s) /\ Buffers(s) /\ s.mark \in Nat \cup {Loose} /\ s.cursor \in Nat
  BY ReadyIs DEF MarkPlaces
<1>1. CASE s.mark # Loose /\ s.mark > s.cursor
  <2>1. s.mark - s.cursor \in Nat
    BY <1>0, <1>1
  <2>2. Edits(s, c_delafter(s, s.mark - s.cursor))
    BY <1>0, <2>1, DelafterEdits
  <2> QED
    BY <1>1, <2>2, EndGood DEF em_kill_region
<1>2. CASE s.mark # Loose /\ ~ (s.mark > s.cursor)
  <2>1. s.cursor - s.mark \in Nat
    BY <1>0, <1>2
  <2>2. Edits(s, c_delbefore(s, s.cursor - s.mark))
    BY <1>0, <2>1, DelbeforeEdits
  <2> QED
    BY <1>2, <2>2, EndGood DEF em_kill_region
<1>3. CASE s.mark = Loose
  BY <1>0, <1>3, AstrayGood DEF em_kill_region, Stays
<1> QED
  BY <1>1, <1>2, <1>3

LEMMA CopyRegionGood == ASSUME NEW s, Ready(s) PROVE Good(s, em_copy_region(s))
<1> DEFINE low  == Min({s.mark, s.cursor})
           high == Max({s.mark, s.cursor})
           cut  == SubSeq(s.line, low + 1, high)
<1>0. /\ Sound(s) /\ Buffers(s) /\ OnLine(s) /\ s.mark \in Nat \cup {Loose} /\ s.cursor \in Nat
      /\ Len(s.line) \in Nat /\ s.cursor \in 0..Len(s.line) /\ Len(s.line) < Limit(s)
      /\ Limit(s) \in Nat
  BY ReadyIs DEF MarkPlaces
<1>1. em_copy_region(s) =
        Done(IF s.mark = Loose \/ high > Len(s.line) THEN Astray(s) ELSE cv_yank(s, cut))
  BY DEF em_copy_region
<1>2. Good(s, Done(Astray(s)))
  BY <1>0, AstrayGood DEF Stays
<1>3. ASSUME s.mark # Loose, ~ (high > Len(s.line)) PROVE Good(s, Done(cv_yank(s, cut)))
  <2> HIDE DEF cut
  <2>1. s.mark \in Nat
    BY <1>0, <1>3
  <2>2. low \in {s.mark, s.cursor} /\ low <= s.cursor /\ low <= s.mark
    <3> DEFINE S == {s.mark, s.cursor}
    <3>1. S \in SUBSET Nat /\ S # {} /\ s.cursor \in S /\ s.mark \in S
      BY <1>0, <2>1
    <3> HIDE DEF S
    <3>2. Min(S) \in S /\ \A y \in S : Min(S) <= y
      BY <3>1, MinIn
    <3> QED
      BY <3>1, <3>2 DEF S
  <2>3. high \in {s.mark, s.cursor}
    <3> DEFINE S == {s.mark, s.cursor}
               n == s.mark + s.cursor
    <3>1. n \in Nat /\ S \in SUBSET (0..n) /\ S # {}
      BY <1>0, <2>1
    <3> HIDE DEF S, n
    <3>2. Max(S) \in S
      BY <3>1, MaxIn
    <3> QED
      BY <3>2 DEF S
  <2> HIDE DEF low, high
  <2>4. low \in 0..Len(s.line) /\ high \in 0..Len(s.line)
    BY <1>0, <1>3, <2>1, <2>2, <2>3
  <2>5. IsSeq(cut) /\ Len(cut) <= Len(s.line)
    BY <1>0, <2>4, CutIs DEF cut
  <2>6. Len(cut) <= Limit(s)
    BY <1>0, <2>5, SeqIs
  <2> QED
    BY <1>0, <2>5, <2>6, YankEdits, EndGood
<1> HIDE DEF cut, low, high
<1> QED
  BY <1>1, <1>2, <1>3, Zenon

LEMMA GosmacsGood == ASSUME NEW s, Ready(s) PROVE Good(s, em_gosmacs_transpose(s))
<1> DEFINE l == Exchanged(s.line, s.cursor - 1)
<1>0. /\ Sound(s) /\ IsSeq(s.line) /\ s.cursor \in 0..Len(s.line) /\ Len(s.line) < Limit(s)
      /\ DOMAIN s = EditFields
  BY ReadyIs
<1>1. IsSeq(l) /\ Len(l) = Len(s.line)
  BY <1>0, ExchangedIs
<1>2. em_gosmacs_transpose(s) = IF s.cursor > 1 THEN Done([s EXCEPT !.line = l]) ELSE Error(s)
  BY <1>0 DEF em_gosmacs_transpose, EditFields
<1> HIDE DEF l
<1>3. Edits(s, [s EXCEPT !.line = l])
  BY <1>0, <1>1, OnlyLineEdits
<1> QED
  BY <1>2, <1>3, EndGood, ErrorGood

LEMMA NextWordGood == ASSUME NEW s, Ready(s) PROVE Good(s, em_next_word(s))
<1> DEFINE k == c__next_word(s.line, s.cursor, s.arg)
<1>1. k \in 0..Len(s.line)
  <2>1. IsSeq(s.line) /\ s.cursor \in 0..Len(s.line) /\ s.arg \in Nat /\ Len(s.line) \in Nat
    BY ReadyIs
  <2>2. k \in s.cursor..Len(s.line)
    BY <2>1, NextWordIn
  <2> QED
    BY <2>1, <2>2
<1> HIDE DEF k
<1>2. Good(s, Moved(s, k))
  BY <1>1, MovedGood
<1> QED
  BY <1>2, ErrorGood DEF em_next_word, k

\* A part of the line in other letters.
LEMMA RecasedEdits ==
  ASSUME NEW s, Ready(s), NEW from, NEW f
  PROVE  Edits(s, Recased(s, from, f)) /\ Len(Recased(s, from, f).line) = Len(s.line)
<1> DEFINE end == c__next_word(s.line, s.cursor, s.arg)
           l == [i \in 1..Len(s.line) |-> IF i > from /\ i <= end THEN f[s.line[i]] ELSE s.line[i]]
           r == [s EXCEPT !.line = l, !.cursor = end]
<1>0. /\ Sound(s) /\ IsSeq(s.line) /\ s.cursor \in 0..Len(s.line) /\ s.arg \in Nat
      /\ Len(s.line) \in Nat /\ Len(s.line) < Limit(s) /\ DOMAIN s = EditFields
  BY ReadyIs
<1>1. end \in 0..Len(s.line)
  <2>1. end \in s.cursor..Len(s.line)
    BY <1>0, NextWordIn
  <2> HIDE DEF end
  <2> QED
    BY <1>0, <2>1
<1>2. IsSeq(l) /\ Len(l) = Len(s.line)
  <2>1. l = [i \in 1..Len(s.line) |-> l[i]]
    OBVIOUS
  <2> HIDE DEF l
  <2> QED
    BY <1>0, <2>1, FunctionIsSeq
<1>3. Recased(s, from, f) = r
  BY <1>0 DEF Recased, EditFields
<1> HIDE DEF l, end
<1>4. Edits(s, r)
  BY <1>0, <1>1, <1>2, LineEdits
<1>5. r.line = l
  BY <1>0 DEF EditFields
<1> QED
  BY <1>2, <1>3, <1>4, <1>5

LEMMA CaseGood ==
  ASSUME NEW s, Ready(s) PROVE Good(s, em_upper_case(s)) /\ Good(s, em_lower_case(s))
BY RecasedEdits, EndGood DEF em_upper_case, em_lower_case

LEMMA CapitolGood == ASSUME NEW s, Ready(s) PROVE Good(s, em_capitol_case(s))
<1> DEFINE end   == c__next_word(s.line, s.cursor, s.arg)
           first == Min({i \in s.cursor + 1..end + 1 : i = end + 1 \/ s.line[i] \in Alpha})
           lower == Recased(s, first, AllLower)
           c == Raised(lower.line[first])
           l == [lower.line EXCEPT ![first] = c]
<1>0. /\ Sound(s) /\ IsSeq(s.line) /\ s.cursor \in 0..Len(s.line) /\ s.arg \in Nat
      /\ Len(s.line) \in Nat
  BY ReadyIs
<1>1. end \in 0..Len(s.line)
  <2>1. end \in s.cursor..Len(s.line)
    BY <1>0, NextWordIn
  <2> HIDE DEF end
  <2> QED
    BY <1>0, <2>1
<1>2. em_capitol_case(s) =
        Done(IF first > end THEN [s EXCEPT !.cursor = end]
             ELSE [lower EXCEPT !.line[first] = Raised(@)])
  BY DEF em_capitol_case
<1> HIDE DEF first, end
<1>3. Edits(s, [s EXCEPT !.cursor = end])
  BY <1>0, <1>1, CursorEdits
<1>4. Edits(s, lower)
  BY RecasedEdits
<1> HIDE DEF lower
<1>5. [lower EXCEPT !.line[first] = Raised(@)] = [lower EXCEPT !.line = l]
  BY <1>4 DEF Edits, Sound, Buffers, EditFields
<1>6. IsSeq(lower.line) /\ lower.cursor \in 0..Len(lower.line) /\ Len(lower.line) < Limit(lower)
      /\ Sound(lower)
  BY <1>4 DEF Edits, Sound, OnLine
<1> HIDE DEF c
<1>7. IsSeq(l) /\ Len(l) = Len(lower.line)
  BY <1>6, ExceptIsSeq
<1> HIDE DEF l
<1>8. Edits(lower, [lower EXCEPT !.line = l])
  BY <1>6, <1>7, OnlyLineEdits
<1>9. Edits(s, [lower EXCEPT !.line[first] = Raised(@)])
  BY <1>4, <1>5, <1>8, EditsJoin
<1> QED
  BY <1>2, <1>3, <1>9, EndGood, Zenon

LEMMA SetMarkGood == ASSUME NEW s, Ready(s) PROVE Good(s, em_set_mark(s))
<1>1. Sound(s) /\ s.cursor \in Nat
  BY ReadyIs
<1>2. Edits(s, [s EXCEPT !.mark = s.cursor])
  BY <1>1, MarkEdits DEF MarkPlaces
<1> QED
  BY <1>2, EndGood DEF em_set_mark

LEMMA ExchangeMarkGood == ASSUME NEW s, Ready(s) PROVE Good(s, em_exchange_mark(s))
<1> DEFINE t == [s EXCEPT !.mark = s.cursor]
<1>0. /\ Sound(s) /\ s.cursor \in MarkPlaces /\ s.mark \in Nat \cup {Loose}
      /\ Len(s.line) \in Nat /\ Buffers(s)
  BY ReadyIs DEF MarkPlaces
<1>1. Edits(s, t) /\ \A x \in EditFields \ {"mark"} : t[x] = s[x]
  BY <1>0, MarkEdits
<1>2. [s EXCEPT !.mark = s.cursor, !.cursor = s.mark] = [t EXCEPT !.cursor = s.mark]
  BY DEF Ready, Sound, Buffers, EditFields
<1> HIDE DEF t
<1>3. ASSUME s.mark # Loose, ~ (s.mark > Len(s.line))
      PROVE  Edits(s, [t EXCEPT !.cursor = s.mark])
  <2>1. t.line = s.line
    BY <1>1 DEF EditFields
  <2>2. s.mark \in 0..Len(t.line)
    BY <1>0, <1>3, <2>1
  <2> QED
    BY <1>1, <2>2, CursorEdits, EditsJoin DEF Edits
<1>4. Good(s, Done(Astray(s)))
  BY <1>0, AstrayGood DEF Stays
<1> QED
  BY <1>2, <1>3, <1>4, EndGood DEF em_exchange_mark

LEMMA UniversalGood == ASSUME NEW s, Ready(s) PROVE Good(s, em_universal_argument(s))
<1> DEFINE n == s.arg * 4
<1>1. n \in Nat
  BY ReadyIs
<1>2. [s EXCEPT !.doing = TRUE, !.arg = @ * 4] = [s EXCEPT !.arg = n, !.doing = TRUE]
  BY DEF Ready, Sound, Buffers, EditFields
<1> HIDE DEF n
<1>3. Good(s, Argument([s EXCEPT !.doing = TRUE, !.arg = @ * 4]))
  BY <1>1, <1>2, ArgumentTaken
<1> QED
  BY <1>3, ErrorGood DEF em_universal_argument

LEMMA ToggleGood == ASSUME NEW s, Ready(s) PROVE Good(s, em_toggle_overwrite(s))
<1> DEFINE t == [s EXCEPT !.mode = IF @ = "insert" THEN "replace" ELSE "insert"]
<1>1. Alike(s, t)
  BY DEF Ready, Sound, Buffers, EditFields, Alike, SoundFields
<1> HIDE DEF t
<1>2. Edits(s, t)
  BY <1>1, AlikeEdits, ReadyIs
<1> QED
  BY <1>2, EndGood DEF em_toggle_overwrite, t

LEMMA CopyPrevWordGood == ASSUME NEW s, Ready(s) PROVE Good(s, em_copy_prev_word(s))
<1> DEFINE from == c__prev_word(s.line, s.cursor, s.arg)
           word == SubSeq(s.line, from + 1, s.cursor)
<1>0. /\ Sound(s) /\ IsSeq(s.line) /\ s.cursor \in 0..Len(s.line) /\ s.arg \in Nat
      /\ Len(s.line) \in Nat /\ OnLine(s) /\ Buffers(s)
  BY ReadyIs
<1>1. em_copy_prev_word(s) = IF s.cursor = 0 THEN Error(s)
                             ELSE IF ~HasRoom(s, Len(word)) THEN Done(Astray(s))
                             ELSE Done(Typed(s, word))
  BY DEF em_copy_prev_word
<1>2. from \in 0..Len(s.line)
  <2>1. from \in 0..s.cursor
    BY <1>0, PrevWordIn
  <2> HIDE DEF from
  <2> QED
    BY <1>0, <2>1
<1> HIDE DEF from
<1>3. IsSeq(word)
  BY <1>0, <1>2, CutIs
<1> HIDE DEF word
<1>4. HasRoom(s, Len(word)) => Good(s, Done(Typed(s, word)))
  BY <1>0, <1>3, TypedEdits, EndGood DEF CanInsert
<1>5. Good(s, Done(Astray(s)))
  BY <1>0, AstrayGood DEF Stays
<1> QED
  BY <1>1, <1>4, <1>5, ErrorGood, Zenon

LEMMA EmDeletePrevGood == ASSUME NEW s, Ready(s) PROVE Good(s, em_delete_prev_char(s))
<1>1. Good(s, Done(c_delbefore(s, s.arg)))
  BY ReadyIs, DelbeforeEdits, EndGood
<1>2. ASSUME s.cursor # 0 PROVE Good(s, Done(c_delbefore1(s)))
  <2>1. Sound(s) /\ s.cursor > 0
    BY <1>2, ReadyIs
  <2> QED
    BY <2>1, Delbefore1Edits, EndGood
<1> QED
  BY <1>1, <1>2, ErrorGood, Zenon DEF em_delete_prev_char

-----------------------------------------------------------------------------
(* vi.c                                                                    *)

\* To insertion mode.
LEMMA InsertModeEdits ==
  ASSUME NEW s, NEW t, Edits(s, t), NEW m
  PROVE  Edits(s, InsertMode(t)) /\ Edits(s, [InsertMode(t) EXCEPT !.mode = m])
<1>1. Alike(t, InsertMode(t)) /\ Alike(t, [InsertMode(t) EXCEPT !.mode = m])
  BY DEF Edits, Sound, Buffers, EditFields, Alike, SoundFields, InsertMode
<1> QED
  BY <1>1, AlikeEdits, EditsJoin DEF Edits

LEMMA DoneEdits == ASSUME NEW s, NEW t, Edits(s, t) PROVE Edits(s, Done(t))
<1>1. Alike(t, Done(t))
  BY DEF Edits, Sound, Buffers, EditFields, Alike, SoundFields, Done
<1> QED
  BY <1>1, AlikeEdits, EditsJoin DEF Edits

\* cv_undo, for a command that goes on from it.
LEMMA UndoGives ==
  ASSUME NEW s, Ready(s)
  PROVE  /\ Edits(s, cv_undo(s)) /\ Editable(cv_undo(s)) /\ Sound(cv_undo(s))
         /\ cv_undo(s).line = s.line /\ cv_undo(s).cursor = s.cursor /\ cv_undo(s).size = s.size
         /\ cv_undo(s).arg = s.arg /\ cv_undo(s).pending = s.pending /\ cv_undo(s).pos = s.pos
         /\ cv_undo(s).kill = s.kill /\ DOMAIN cv_undo(s) = EditFields
<1> DEFINE u == cv_undo(s)
<1>1. Edits(s, u) /\ Editable(u) /\ \A x \in EditFields \ {"undo", "redo"} : u[x] = s[x]
  BY UndoEdits, ReadyIs
<1> HIDE DEF u
<1>2. Sound(u) /\ DOMAIN u = EditFields
  BY <1>1 DEF Edits, Sound, Buffers
<1> QED
  BY <1>1, <1>2 DEF EditFields, u

\* An operator that waits for its motion, and one given twice (cv_action).
LEMMA OperatorGood == ASSUME NEW s, Ready(s), NEW action PROVE Good(s, cv_action(s, action))
<1> DEFINE from == IF action = "yank" THEN s ELSE cv_undo(s)
           kept == cv_yank(from, s.line)
           done == [kept EXCEPT !.pending = None, !.alt = @ /\ action # "change"]
           first == [s EXCEPT !.pending = action, !.pos = s.cursor]
           k == 0
<1>0. /\ Sound(s) /\ OnLine(s) /\ DOMAIN s = EditFields /\ s.cursor \in 0..Len(s.line)
      /\ s.arg \in Nat /\ IsSeq(s.line) /\ Len(s.line) < Limit(s) /\ Len(s.line) \in Nat
      /\ Limit(s) \in Nat
  BY ReadyIs
<1>1. cv_action(s, action) =
        IF s.pending = None THEN Argument(first)
        ELSE IF s.pending # action THEN Error(s)
        ELSE IF action = "yank" THEN Done(done)
        ELSE Done([done EXCEPT !.line = <<>>, !.cursor = 0])
  BY DEF cv_action
<1>2. Good(s, Argument(first))
  <2>1. Alike(s, first) /\ Awaiting(first)
    BY <1>0 DEF Alike, SoundFields, EditFields, Awaiting
  <2> HIDE DEF first
  <2> QED
    BY <1>0, <2>1, AlikeEdits, ArgumentGood
<1> HIDE DEF first
<1>3. Edits(s, from) /\ from.size = s.size
  BY <1>0, SameEdits, UndoGives
<1> HIDE DEF from
<1>4. Edits(s, kept)
  <2>1. Len(s.line) <= Limit(from)
    BY <1>0, <1>3 DEF Limit
  <2>2. Edits(from, kept)
    BY <1>0, <1>3, <2>1, YankEdits DEF Edits
  <2> QED
    BY <1>3, <2>2, EditsJoin
<1> HIDE DEF kept
<1>5. Edits(s, done)
  <2>1. Alike(kept, done)
    BY <1>4 DEF Edits, Sound, Buffers, Alike, SoundFields, EditFields
  <2> HIDE DEF done
  <2> QED
    BY <1>4, <2>1, AlikeEdits, EditsJoin DEF Edits
<1> HIDE DEF done
<1>6. Edits(s, [done EXCEPT !.line = <<>>, !.cursor = 0])
  <2>1. IsSeq(<<>>) /\ Len(<<>>) < Limit(done) /\ k \in 0..Len(<<>>)
    BY <1>5, EmptyIsSeq, LimitIs DEF Edits, Sound
  <2> HIDE DEF k
  <2>2. Edits(done, [done EXCEPT !.line = <<>>, !.cursor = k])
    BY <1>5, <2>1, LineEdits DEF Edits
  <2> QED
    BY <1>5, <2>2, EditsJoin DEF k
<1> QED
  BY <1>1, <1>2, <1>5, <1>6, ErrorGood, EndGood, Zenon

LEMMA OperatorsGood ==
  ASSUME NEW s, Ready(s)
  PROVE  Good(s, vi_change_meta(s)) /\ Good(s, vi_delete_meta(s)) /\ Good(s, vi_yank(s))
BY OperatorGood DEF vi_change_meta, vi_delete_meta, vi_yank

\* The cut buffer is put in, behind the cursor or before it (cv_paste).
LEMMA PasteGood == ASSUME NEW s, Ready(s), NEW after PROVE Good(s, cv_paste(s, after))
<1> DEFINE u == cv_undo(s)
           k == IF after /\ s.cursor < Len(s.line) THEN s.cursor + 1 ELSE s.cursor
           at == [u EXCEPT !.cursor = IF after /\ @ < Len(s.line) THEN @ + 1 ELSE @]
           put == c_insert(at, s.kill)
           kept == Room(at, Len(s.kill))
           over == [Overwritten(kept, s.kill) EXCEPT !.cursor = at.cursor]
<1>0. IsSeq(s.kill) /\ Len(s.kill) \in Nat /\ Len(s.line) \in Nat /\ s.cursor \in 0..Len(s.line)
  BY ReadyIs
<1>1. k \in 0..Len(s.line)
  BY <1>0
<1>2. /\ Edits(s, u) /\ Sound(u) /\ u.line = s.line /\ u.cursor = s.cursor /\ u.size = s.size
      /\ DOMAIN u = EditFields
  BY UndoGives
<1>3. cv_paste(s, after) =
        IF s.kill = <<>> THEN Error(s)
        ELSE IF CanInsert(s, Len(s.kill)) THEN Done(put)
        ELSE IF at.cursor + Len(s.kill) > Len(s.line) THEN Error(kept)
        ELSE Done(over)
  BY DEF cv_paste
<1> HIDE DEF u
<1>4. at = [u EXCEPT !.cursor = k] /\ at.size = u.size
  BY <1>2 DEF EditFields
<1> HIDE DEF at, k
<1>5. Edits(u, at) /\ at.line = u.line
  BY <1>1, <1>2, <1>4, CursorEdits
<1>6. Edits(s, at) /\ Sound(at)
  BY <1>2, <1>5, EditsJoin DEF Edits
<1>7. ASSUME CanInsert(s, Len(s.kill)) PROVE Edits(s, put)
  <2>1. CanInsert(at, Len(s.kill))
    BY <1>2, <1>4, <1>5, <1>7 DEF CanInsert, HasRoom, Limit
  <2>2. Edits(at, put)
    BY <1>0, <1>6, <2>1, InsertEdits
  <2> HIDE DEF put
  <2> QED
    BY <1>6, <2>2, EditsJoin
<1>8. ASSUME ~CanInsert(s, Len(s.kill)) PROVE Edits(s, kept) /\ Edits(s, over)
  <2>1. ~CanInsert(at, Len(s.kill))
    BY <1>2, <1>4, <1>5, <1>8 DEF CanInsert, HasRoom, Limit
  <2>2. Edits(at, kept) /\ \A x \in EditFields \ {"mark"} : kept[x] = at[x]
    BY <1>0, <1>6, <2>1, NoRoomEdits
  <2> HIDE DEF kept
  <2>3. kept.cursor = at.cursor
    BY <2>2 DEF EditFields
  <2>4. Edits(kept, over)
    BY <1>0, <2>2, <2>3, OverwrittenEdits DEF Edits
  <2> HIDE DEF over
  <2> QED
    BY <1>6, <2>2, <2>4, EditsJoin
<1> HIDE DEF put, over, kept
<1> QED
  BY <1>3, <1>7, <1>8, ErrorGood, EndGood, Zenon

LEMMA PastesGood ==
  ASSUME NEW s, Ready(s) PROVE Good(s, vi_paste_next(s)) /\ Good(s, vi_paste_prev(s))
BY PasteGood DEF vi_paste_next, vi_paste_prev

LEMMA YankEndGood == ASSUME NEW s, Ready(s) PROVE Good(s, vi_yank_end(s))
<1> DEFINE a == After(s)
<1>0. /\ Sound(s) /\ OnLine(s) /\ Len(s.line) \in Nat /\ s.cursor \in 0..Len(s.line)
      /\ Len(s.line) < Limit(s) /\ Limit(s) \in Nat
  BY ReadyIs
<1>1. IsSeq(a) /\ Len(a) <= Len(s.line)
  <2>1. Len(s.line) \in 0..Len(s.line)
    BY <1>0
  <2> QED
    BY <1>0, <2>1, CutIs DEF After
<1> HIDE DEF a
<1>2. Len(a) <= Limit(s)
  BY <1>0, <1>1, SeqIs
<1>3. Edits(s, cv_yank(s, a))
  BY <1>0, <1>1, <1>2, YankEdits
<1> QED
  BY <1>3, EndGood DEF vi_yank_end, a

\* Motion.
LEMMA MovedOntoGood ==
  ASSUME NEW s, Ready(s), NEW c \in 0..Len(s.line), c < Len(s.line)
  PROVE  Good(s, MovedOnto(s, c))
<1> DEFINE k == c + IF s.type = "vi" /\ s.pending # None THEN 1 ELSE 0
<1>0. Len(s.line) \in Nat
  BY ReadyIs
<1>1. k \in 0..Len(s.line)
  BY <1>0
<1> HIDE DEF k
<1>2. Good(s, Moved(s, k))
  BY <1>1, MovedGood
<1> QED
  BY <1>2 DEF MovedOnto, k

LEMMA ViPrevWordGood ==
  ASSUME NEW s, Ready(s) PROVE Good(s, vi_prev_big_word(s)) /\ Good(s, vi_prev_word(s))
<1>0. IsSeq(s.line) /\ s.cursor \in 0..Len(s.line) /\ s.arg \in Nat /\ Len(s.line) \in Nat
  BY ReadyIs
<1>1. ASSUME NEW big PROVE Good(s, Moved(s, cv_prev_word(s.line, s.cursor, s.arg, big)))
  <2> DEFINE k == cv_prev_word(s.line, s.cursor, s.arg, big)
  <2>1. k \in 0..s.cursor
    BY <1>0, ViPrevWordIn
  <2> HIDE DEF k
  <2>2. k \in 0..Len(s.line)
    BY <1>0, <2>1
  <2> QED
    BY <2>2, MovedGood DEF k
<1>2. Good(s, Done(Astray(s)))
  BY ReadyIs, AstrayGood DEF Stays
<1> QED
  BY <1>1, <1>2, ErrorGood, Zenon DEF vi_prev_big_word, vi_prev_word

LEMMA ViEndWordGood ==
  ASSUME NEW s, Ready(s) PROVE Good(s, vi_end_big_word(s)) /\ Good(s, vi_end_word(s))
<1>0. IsSeq(s.line) /\ s.cursor \in 0..Len(s.line) /\ s.arg \in Nat /\ Len(s.line) \in Nat
  BY ReadyIs
<1>1. ASSUME s.cursor # Len(s.line), NEW big
      PROVE  Good(s, MovedOnto(s, cv__endword(s.line, s.cursor, s.arg, big)))
  <2> DEFINE k == cv__endword(s.line, s.cursor, s.arg, big)
  <2>0. s.cursor < Len(s.line)
    BY <1>0, <1>1
  <2>1. k \in s.cursor..Len(s.line) - 1
    BY <1>0, <2>0, ViEndWordIn
  <2> HIDE DEF k
  <2>2. k \in 0..Len(s.line) /\ k < Len(s.line)
    BY <1>0, <2>1
  <2> QED
    BY <2>2, MovedOntoGood DEF k
<1> QED
  BY <1>1, ErrorGood DEF vi_end_big_word, vi_end_word

LEMMA ViNextWordIn ==
  ASSUME NEW s, Ready(s), NEW big PROVE cv_next_word(s, s.arg, big) \in 0..Len(s.line)
<1> DEFINE l     == s.line
           word  == [q \in 0..Len(l) |->
                       IF q = Len(l) THEN q ELSE SkipUp(l, q, cv__isword(big, l[q + 1]))]
           space == [q \in 0..Len(l) |-> SkipUp(l, word[q], Blanks)]
           most  == Times(s.arg - 1, space, s.cursor)
<1>0. IsSeq(l) /\ s.cursor \in 0..Len(l) /\ s.arg \in Nat /\ Len(l) \in Nat
  BY ReadyIs
<1>1. cv_next_word(s, s.arg, big) =
        IF s.arg = 0 THEN s.cursor ELSE IF s.pending = "change" THEN word[most] ELSE space[most]
  BY DEF cv_next_word
<1>2. \A q \in 0..Len(l) : word[q] \in 0..Len(l)
  <2> TAKE q \in 0..Len(l)
  <2>1. SkipUp(l, q, cv__isword(big, l[q + 1])) \in q..Len(l)
    BY <1>0, SkipsUp
  <2> QED
    BY <1>0, <2>1
<1>3. \A q \in 0..Len(l) : space[q] = SkipUp(l, word[q], Blanks)
  OBVIOUS
<1> HIDE DEF word, space
<1>4. \A q \in 0..Len(l) : space[q] \in 0..Len(l)
  <2> TAKE q \in 0..Len(l)
  <2>1. word[q] \in 0..Len(l)
    BY <1>2
  <2>2. SkipUp(l, word[q], Blanks) \in word[q]..Len(l)
    BY <1>0, <2>1, SkipsUp
  <2> QED
    BY <1>0, <1>3, <2>1, <2>2
<1> HIDE DEF l
<1>5. ASSUME s.arg # 0 PROVE most \in 0..Len(l)
  <2>1. s.arg - 1 \in Nat
    BY <1>0, <1>5
  <2> QED
    BY <1>0, <1>4, <2>1, TimesIn
<1> HIDE DEF most
<1> QED
  BY <1>0, <1>1, <1>2, <1>4, <1>5 DEF l

LEMMA ViNextWordGood ==
  ASSUME NEW s, Ready(s) PROVE Good(s, vi_next_big_word(s)) /\ Good(s, vi_next_word(s))
BY ViNextWordIn, MovedGood, ErrorGood DEF vi_next_big_word, vi_next_word

LEMMA ZeroGood == ASSUME NEW s, Ready(s), NEW c PROVE Good(s, vi_zero(s, c))
<1> DEFINE k == 0
<1>1. k \in 0..Len(s.line)
  BY ReadyIs
<1> HIDE DEF k
<1>2. Good(s, Moved(s, k))
  BY <1>1, MovedGood
<1> QED
  BY <1>2, ArgumentDigitGood DEF vi_zero, k

LEMMA ToColumnGood == ASSUME NEW s, Ready(s) PROVE Good(s, vi_to_column(s))
<1> DEFINE k == 0
           t == [s EXCEPT !.cursor = k]
           u == [s EXCEPT !.cursor = 0, !.arg = @ - 1]
<1>0. /\ Sound(s) /\ DOMAIN s = EditFields /\ s.arg \in Nat /\ Len(s.line) \in Nat
      /\ (s.pending # None => s.pos \in 0..Len(s.line))
  BY ReadyIs
<1>1. k \in 0..Len(s.line)
  BY <1>0
<1>2. Alike(t, u)
  BY <1>0 DEF Alike, SoundFields, EditFields
<1>3. u.arg = s.arg - 1 /\ u.cursor = 0 /\ u.pending = s.pending /\ u.pos = s.pos /\ u.line = s.line
  BY <1>0 DEF EditFields
<1> HIDE DEF k
<1>4. Edits(s, t)
  BY <1>0, <1>1, CursorEdits
<1> HIDE DEF t, u
<1>5. Edits(s, u)
  BY <1>2, <1>4, AlikeEdits, EditsJoin DEF Edits
<1>6. Good(u, ed_next_char(u))
  <2>1. u.arg \in Nat \/ (u.arg = -1 /\ u.cursor = 0)
    BY <1>0, <1>3
  <2>2. u.pending # None => u.pos \in 0..Len(u.line)
    BY <1>0, <1>3
  <2> QED
    BY <1>5, <2>1, <2>2, NextCharMoves DEF Edits
<1> QED
  BY <1>5, <1>6, GoodAfter DEF vi_to_column, u

LEMMA NextCharGood == ASSUME NEW s, Ready(s) PROVE Good(s, ed_next_char(s))
<1>1. Sound(s) /\ s.arg \in Nat /\ (s.pending # None => s.pos \in 0..Len(s.line))
  BY ReadyIs
<1>2. Sound(s)
  BY <1>1
<1>3. s.arg \in Nat
  BY <1>1
<1>4. s.arg \in Nat \/ (s.arg = -1 /\ s.cursor = 0)
  BY <1>3, Zenon
<1> QED
  BY <1>1, <1>2, <1>4, NextCharMoves, Zenon

\* The line up to its first NUL, which vi_match takes for its end.
LEMMA CStringIs ==
  ASSUME NEW l, IsSeq(l) PROVE IsSeq(CString(l)) /\ Len(CString(l)) <= Len(l)
<1> DEFINE S == {i \in 0..Len(l) : i = Len(l) \/ l[i + 1] = "nul"}
           m == Min(S)
<1>0. Len(l) \in Nat
  BY SeqIs
<1>1. S \in SUBSET Nat /\ S # {} /\ S \subseteq 0..Len(l)
  <2>1. Len(l) \in S
    BY <1>0
  <2> QED
    BY <1>0, <2>1
<1>2. CString(l) = SubSeq(l, 1, m)
  BY DEF CString
<1> HIDE DEF S
<1>3. m \in 0..Len(l)
  BY <1>1, MinIn
<1> HIDE DEF m
<1>4. 1 \in 1..Len(l) + 1
  BY <1>0
<1>5. IsSeq(SubSeq(l, 1, m)) /\ Len(SubSeq(l, 1, m)) = IF 1 <= m THEN m - 1 + 1 ELSE 0
  BY <1>3, <1>4, SubIsSeq
<1> QED
  BY <1>0, <1>2, <1>3, <1>5

LEMMA MatchGood == ASSUME NEW s, Ready(s) PROVE Good(s, vi_match(s))
<1> DEFINE l       == s.line
           opens   == {i \in s.cursor + 1..Len(CString(l)) : l[i] \in {"(", ")"}}
           here    == Min(opens)
           Depth(i, j) == Cardinality({k \in i..j : l[k] = "("}) - Cardinality({k \in i..j : l[k] = ")"})
           forward == {j \in here + 1..Len(l) : Depth(here, j) = 0}
           back    == {j \in 1..here - 1 : Depth(j, here) = 0}
<1>0. IsSeq(l) /\ Len(l) \in Nat /\ s.cursor \in Nat
  BY ReadyIs
<1>1. vi_match(s) =
        IF opens = {} THEN Error(s)
        ELSE IF l[here] = "(" THEN IF forward = {} THEN Error(s) ELSE MovedOnto(s, Min(forward) - 1)
        ELSE IF back = {} THEN Error(s) ELSE MovedOnto(s, Max(back) - 1)
  BY DEF vi_match
<1>2. ASSUME opens # {} PROVE here \in 1..Len(l)
  <2>1. IsSeq(CString(l)) /\ Len(CString(l)) <= Len(l)
    BY <1>0, CStringIs
  <2>2. Len(CString(l)) \in Nat
    BY <2>1, SeqIs
  <2>3. opens \subseteq s.cursor + 1..Len(CString(l))
    OBVIOUS
  <2> DEFINE c == Len(CString(l))
  <2> HIDE DEF opens, c
  <2>4. c \in Nat /\ c <= Len(l) /\ opens \subseteq s.cursor + 1..c
    BY <2>1, <2>2, <2>3 DEF c
  <2>5. opens \subseteq 1..Len(l) /\ opens \in SUBSET Nat
    BY <1>0, <2>4
  <2>6. here \in opens
    BY <1>2, <2>5, MinIn
  <2> QED
    BY <2>5, <2>6
<1>3. forward \subseteq here + 1..Len(l) /\ back \subseteq 1..here - 1
  OBVIOUS
<1> HIDE DEF forward, back, opens, here
<1>4. ASSUME opens # {}, forward # {} PROVE Good(s, MovedOnto(s, Min(forward) - 1))
  <2>1. here \in 1..Len(l)
    BY <1>2, <1>4
  <2>2. forward \subseteq 1..Len(l) /\ forward \in SUBSET Nat
    BY <1>0, <1>3, <2>1
  <2>3. Min(forward) \in forward
    BY <1>4, <2>2, MinIn
  <2> DEFINE k == Min(forward) - 1
  <2>5. Min(forward) \in 1..Len(l)
    BY <2>2, <2>3, Zenon
  <2>4. k \in 0..Len(l) /\ k < Len(l)
    BY <1>0, <2>5
  <2> HIDE DEF k
  <2> QED
    BY <2>4, MovedOntoGood DEF k
<1>5. ASSUME opens # {}, back # {} PROVE Good(s, MovedOnto(s, Max(back) - 1))
  <2>1. here \in 1..Len(l)
    BY <1>2, <1>5
  <2>2. back \subseteq 1..Len(l)
    BY <1>0, <1>3, <2>1
  <2>3. back \in SUBSET (0..Len(l))
    BY <1>0, <2>2
  <2>4. Max(back) \in back
    BY <1>0, <1>5, <2>3, MaxIn
  <2> DEFINE k == Max(back) - 1
  <2>6. Max(back) \in 1..Len(l)
    BY <2>2, <2>4, Zenon
  <2>5. k \in 0..Len(l) /\ k < Len(l)
    BY <1>0, <2>6
  <2> HIDE DEF k
  <2> QED
    BY <2>5, MovedOntoGood DEF k
<1> HIDE DEF l
<1> QED
  BY <1>1, <1>4, <1>5, ErrorGood, Zenon

\* Where a search for a character leads (CharFrom).
LEMMA CharFromIn ==
  ASSUME NEW s, Ready(s), NEW direction \in {1, -1}, NEW ch, NEW times, NEW till,
         CharFrom(s, direction, ch, times, till) # -1
  PROVE  /\ CharFrom(s, direction, ch, times, till) \in 0..Len(s.line)
         /\ direction = 1 => CharFrom(s, direction, ch, times, till) < Len(s.line)
<1> DEFINE on == {i \in 0..Len(s.line) - 1 :
                   s.line[i + 1] = ch /\ (direction > 0 => i > s.cursor)
                                      /\ (direction < 0 => i < s.cursor /\ s.cursor < Len(s.line))}
           Nearer(i) == {j \in on : direction * j < direction * i}
           found == {i \in on : Cardinality(Nearer(i)) = times - 1}
           p == CharFrom(s, direction, ch, times, till)
<1>0. Len(s.line) \in Nat /\ s.cursor \in Nat
  BY ReadyIs
<1>1. p = IF found = {} THEN -1 ELSE Max(found) - IF till THEN direction ELSE 0
  BY DEF CharFrom
<1>2. found \subseteq on
  OBVIOUS
<1>3. \A i \in on : /\ i \in Nat /\ i < Len(s.line) /\ (direction = 1 => i > s.cursor)
  BY <1>0
<1> HIDE DEF found, on, p
<1>4. found # {}
  BY <1>1 DEF p
<1>5. found \in SUBSET (0..Len(s.line))
  <2>1. \A i \in on : i \in 0..Len(s.line)
    BY <1>0, <1>3
  <2> QED
    BY <1>2, <2>1
<1>6. Max(found) \in found
  BY <1>0, <1>4, <1>5, MaxIn
<1> DEFINE m == Max(found)
<1> HIDE DEF m
<1>7. m \in Nat /\ m < Len(s.line) /\ (direction = 1 => m > s.cursor)
  BY <1>2, <1>3, <1>6 DEF m
<1>8. p = m - IF till THEN direction ELSE 0
  BY <1>1, <1>4 DEF m
<1>9. p \in 0..Len(s.line) /\ (direction = 1 => p < Len(s.line))
  <2>1. CASE direction = 1
    BY <1>0, <1>7, <1>8, <2>1
  <2>2. CASE direction = -1
    BY <1>0, <1>7, <1>8, <2>2
  <2> QED
    BY <2>1, <2>2
<1> QED
  BY <1>9 DEF p

\* A search in the line finds a place in it (cv_csearch).
LEMMA CharSearchGood ==
  ASSUME NEW s, Ready(s), NEW direction \in {1, -1}, NEW ch, NEW till
  PROVE  Good(s, cv_csearch(s, direction, ch, till))
<1> DEFINE kept == [s EXCEPT !.chr = ch, !.chrdir = direction, !.till = till]
           k == CharFrom(s, direction, ch, s.arg, till)
<1>0. Sound(s) /\ DOMAIN s = EditFields
  BY ReadyIs
<1>1. Edits(s, kept)
  BY <1>0 DEF Edits, Sound, Buffers, OnLine, EditFields, Limit, Stays
<1>2. kept.line = s.line /\ kept.pending = s.pending /\ kept.pos = s.pos /\ kept.arg = s.arg
  BY <1>0 DEF EditFields
<1>3. cv_csearch(s, direction, ch, till) =
        IF ch \in {None, "nul"} THEN Error(s)
        ELSE IF ch = KeyAfterEof THEN EndOfFile(s)
        ELSE IF k = -1 THEN Error(kept)
        ELSE IF direction > 0 THEN MovedOnto(kept, k)
        ELSE Moved(kept, k)
  BY DEF cv_csearch
<1>4. k # -1 => k \in 0..Len(s.line) /\ (direction = 1 => k < Len(s.line))
  BY CharFromIn
<1> HIDE DEF kept, k
<1>5. Ready(kept)
  BY <1>1, <1>2 DEF Ready, Edits, Awaiting
<1>6. ASSUME k # -1 PROVE Good(s, Moved(kept, k))
  <2>1. k \in 0..Len(kept.line)
    BY <1>2, <1>4, <1>6
  <2>2. Good(kept, Moved(kept, k))
    BY <1>5, <2>1, MovedGood
  <2> QED
    BY <1>1, <2>2, GoodAfter
<1>7. ASSUME k # -1, direction > 0 PROVE Good(s, MovedOnto(kept, k))
  <2>1. k \in 0..Len(kept.line) /\ k < Len(kept.line)
    BY <1>2, <1>4, <1>7
  <2>2. Good(kept, MovedOnto(kept, k))
    BY <1>5, <2>1, MovedOntoGood
  <2> QED
    BY <1>1, <2>2, GoodAfter
<1>8. Good(s, Error(kept))
  BY <1>1, EndGood
<1> QED
  BY <1>3, <1>6, <1>7, <1>8, ErrorGood, Zenon

LEMMA ViCharsGood ==
  ASSUME NEW s, Ready(s), NEW c
  PROVE  /\ Good(s, vi_next_char(s, c)) /\ Good(s, vi_prev_char(s, c))
         /\ Good(s, vi_to_next_char(s, c)) /\ Good(s, vi_to_prev_char(s, c))
<1>1. 1 \in {1, -1} /\ -1 \in {1, -1}
  OBVIOUS
<1>2. \A d \in {1, -1} : \A till : Good(s, cv_csearch(s, d, c, till))
  BY CharSearchGood
<1> QED
  BY <1>1, <1>2 DEF vi_next_char, vi_prev_char, vi_to_next_char, vi_to_prev_char

LEMMA ChrdirGood ==
  ASSUME NEW s, NEW r, Good(s, r), NEW d \in {1, -1} PROVE Good(s, [r EXCEPT !.chrdir = d])
<1> DEFINE t == [r EXCEPT !.chrdir = d]
<1>1. DOMAIN r = EditFields
  BY DEF Good, Fine, Buffers
<1>2. t.chrdir = d /\ DOMAIN t = EditFields /\ \A x \in EditFields \ {"chrdir"} : t[x] = r[x]
  BY <1>1 DEF EditFields
<1> HIDE DEF t
<1>3. /\ t.line = r.line /\ t.cursor = r.cursor /\ t.size = r.size /\ t.kill = r.kill
      /\ t.undo = r.undo /\ t.saved = r.saved /\ t.redo = r.redo /\ t.mark = r.mark
      /\ t.event = r.event /\ t.ret = r.ret /\ t.astray = r.astray /\ t.arg = r.arg
      /\ t.pending = r.pending /\ t.pos = r.pos /\ Limit(t) = Limit(r)
  BY <1>2 DEF EditFields, Limit
<1>4. Buffers(r) => Buffers(t)
  BY <1>2, <1>3 DEF Buffers
<1>5. (EndedLine(r) => EndedLine(t)) /\ (OnLine(r) => OnLine(t)) /\ (Awaiting(r) => Awaiting(t))
  BY <1>3 DEF EndedLine, OnLine, Awaiting
<1>6. Fine(t)
  BY <1>2, <1>3, <1>4, <1>5 DEF Good, Fine
<1>7. Stays(s, t)
  BY <1>3 DEF Good, Stays
<1> QED
  BY <1>6, <1>7 DEF Good, t

LEMMA RepeatCharGood ==
  ASSUME NEW s, Ready(s)
  PROVE  Good(s, vi_repeat_next_char(s)) /\ Good(s, vi_repeat_prev_char(s))
<1>1. s.chrdir \in {1, -1}
  BY DEF Ready, Sound, Buffers
<1>2. -s.chrdir \in {1, -1}
  BY <1>1
<1>3. Good(s, vi_repeat_next_char(s))
  BY <1>1, CharSearchGood DEF vi_repeat_next_char
<1>4. Good(s, cv_csearch(s, -s.chrdir, s.chr, s.till))
  BY <1>2, CharSearchGood
<1> QED
  BY <1>1, <1>3, <1>4, ChrdirGood DEF vi_repeat_prev_char

\* Changes.
LEMMA ChangeCaseGood == ASSUME NEW s, Ready(s) PROVE Good(s, vi_change_case(s))
<1> DEFINE u    == cv_undo(s)
           last == Clipped(s.cursor + s.arg, Len(s.line))
           f(x) == IF x \in Lower THEN Raised(x) ELSE Lowered(x)
           l    == [i \in 1..Len(u.line) |->
                      IF i \in s.cursor + 1..last THEN f(u.line[i]) ELSE u.line[i]]
           k    == Clipped(s.cursor + s.arg, Len(s.line) - 1)
           r    == [u EXCEPT !.line = l, !.cursor = k]
<1>0. /\ IsSeq(s.line) /\ s.cursor \in 0..Len(s.line) /\ s.arg \in Nat /\ Len(s.line) \in Nat
      /\ Len(s.line) < Limit(s)
  BY ReadyIs
<1>1. /\ Edits(s, u) /\ Sound(u) /\ u.line = s.line /\ u.size = s.size /\ DOMAIN u = EditFields
  BY UndoGives
<1>2. vi_change_case(s) = IF s.cursor >= Len(s.line) THEN Error(s) ELSE Done(r)
  BY <1>1 DEF vi_change_case, EditFields
<1> HIDE DEF u, f, last
<1>3. IsSeq(l) /\ Len(l) = Len(s.line)
  <2>1. l = [i \in 1..Len(u.line) |-> l[i]]
    OBVIOUS
  <2>2. Len(u.line) \in Nat
    BY <1>0, <1>1
  <2> HIDE DEF l
  <2> QED
    BY <1>1, <2>1, <2>2, FunctionIsSeq
<1> HIDE DEF l
<1>4. ASSUME ~ (s.cursor >= Len(s.line)) PROVE Good(s, Done(r))
  <2>1. k \in 0..Len(l)
    BY <1>0, <1>3, <1>4 DEF Clipped
  <2>2. Len(l) < Limit(u)
    BY <1>0, <1>1, <1>3 DEF Limit
  <2> HIDE DEF k
  <2>3. Edits(u, r)
    BY <1>1, <1>3, <2>1, <2>2, LineEdits
  <2> QED
    BY <1>1, <2>3, EditsJoin, EndGood
<1> HIDE DEF r
<1> QED
  BY <1>2, <1>4, ErrorGood, Zenon

\* What the commands leave that end in insertion mode, from a place in the line.
LEMMA InsertingEdits ==
  ASSUME NEW s, Ready(s), NEW c \in 0..Len(s.line)
  PROVE  Edits(s, InsertMode(cv_undo([s EXCEPT !.cursor = c])))
<1> DEFINE t == [s EXCEPT !.cursor = c]
<1>0. Sound(s) /\ DOMAIN s = EditFields /\ s.arg \in Nat
  BY ReadyIs
<1>1. Edits(s, t) /\ t.arg = s.arg
  BY <1>0, CursorEdits DEF EditFields
<1> HIDE DEF t
<1>2. Edits(t, cv_undo(t))
  BY <1>0, <1>1, UndoEdits DEF Edits, Editable
<1>3. Edits(s, InsertMode(cv_undo(t)))
  BY <1>1, <1>2, EditsJoin, InsertModeEdits
<1> QED
  BY <1>3 DEF t

LEMMA InsertsGood ==
  ASSUME NEW s, Ready(s)
  PROVE  /\ Good(s, vi_insert(s)) /\ Good(s, vi_insert_at_bol(s)) /\ Good(s, vi_add(s))
         /\ Good(s, vi_add_at_eol(s)) /\ Good(s, vi_replace_mode(s))
<1> DEFINE a == 0
           b == IF s.cursor < Len(s.line) THEN s.cursor + 1 ELSE s.cursor
           c == Len(s.line)
<1>0. Len(s.line) \in Nat /\ s.cursor \in 0..Len(s.line) /\ DOMAIN s = EditFields
  BY ReadyIs
<1>1. a \in 0..Len(s.line) /\ b \in 0..Len(s.line) /\ c \in 0..Len(s.line)
  BY <1>0
<1>2. [s EXCEPT !.cursor = IF @ < Len(s.line) THEN @ + 1 ELSE @] = [s EXCEPT !.cursor = b]
  BY <1>0 DEF EditFields
<1> HIDE DEF a, b, c
<1>3. Good(s, vi_insert_at_bol(s))
  BY <1>1, InsertingEdits, EndGood DEF vi_insert_at_bol, a
<1>4. Good(s, vi_add(s))
  BY <1>1, <1>2, InsertingEdits, EndGood DEF vi_add
<1>5. Good(s, vi_add_at_eol(s))
  BY <1>1, InsertingEdits, EndGood DEF vi_add_at_eol, c
<1>6. Good(s, vi_insert(s)) /\ Good(s, vi_replace_mode(s))
  BY UndoGives, InsertModeEdits, EndGood DEF vi_insert, vi_replace_mode
<1> QED
  BY <1>3, <1>4, <1>5, <1>6

LEMMA ReplaceCharGood == ASSUME NEW s, Ready(s) PROVE Good(s, vi_replace_char(s))
<1> DEFINE u == cv_undo(s)
           t == [InsertMode(u) EXCEPT !.mode = "replace1"]
<1>0. s.arg \in Nat /\ (s.pending # None => s.pos \in 0..Len(s.line))
  BY ReadyIs
<1>1. /\ Edits(s, u) /\ u.line = s.line /\ u.arg = s.arg /\ u.pending = s.pending /\ u.pos = s.pos
      /\ DOMAIN u = EditFields
  BY UndoGives
<1> HIDE DEF u
<1>2. Edits(s, t)
  BY <1>1, InsertModeEdits
<1>3. t.line = u.line /\ t.arg = u.arg /\ t.pending = u.pending /\ t.pos = u.pos
  BY <1>1 DEF InsertMode, EditFields
<1> HIDE DEF t
<1>4. Awaiting(t)
  BY <1>0, <1>1, <1>3 DEF Awaiting
<1>5. Good(s, Argument(t))
  BY <1>2, <1>4, ArgumentGood
<1> QED
  BY <1>5, ErrorGood DEF vi_replace_char, t, u

LEMMA SubstitutesGood ==
  ASSUME NEW s, Ready(s)
  PROVE  /\ Good(s, vi_substitute_char(s)) /\ Good(s, vi_substitute_line(s))
         /\ Good(s, vi_change_to_eol(s))
<1>1. Good(s, vi_substitute_char(s))
  BY ReadyIs, DelafterEdits, InsertModeEdits, EndGood DEF vi_substitute_char
<1> DEFINE u == cv_undo(s)
<1>2. Edits(s, u) /\ Sound(u)
  BY UndoGives
<1>3. /\ vi_substitute_line(s) = Done(InsertMode(em_kill_line(u)))
      /\ vi_change_to_eol(s) = Done(InsertMode(ed_kill_line(u)))
  BY DEF vi_substitute_line, vi_change_to_eol
<1> HIDE DEF u
<1>4. Edits(s, em_kill_line(u))
  <2>1. Edits(u, [cv_yank(u, u.line) EXCEPT !.line = <<>>, !.cursor = 0])
    BY <1>2, EmptiedEdits
  <2> QED
    BY <1>2, <2>1, EditsJoin, DoneEdits DEF em_kill_line
<1>5. Edits(s, ed_kill_line(u))
  <2>1. Edits(u, [cv_yank(u, After(u)) EXCEPT !.line = Before(u)])
    BY <1>2, KillEdits
  <2> QED
    BY <1>2, <2>1, EditsJoin, DoneEdits DEF ed_kill_line
<1> QED
  BY <1>1, <1>3, <1>4, <1>5, InsertModeEdits, EndGood

LEMMA UndoGood == ASSUME NEW s, Ready(s) PROVE Good(s, vi_undo(s))
<1> DEFINE kept == [kept |-> TRUE, line |-> s.line, cursor |-> s.cursor]
           r == [s EXCEPT !.line = s.undo.line, !.cursor = s.undo.cursor, !.undo = kept]
<1>1. vi_undo(s) = IF ~s.undo.kept THEN Error(s) ELSE Done(r)
  BY DEF vi_undo
<1>2. kept.kept /\ kept.line = s.line /\ kept.cursor = s.cursor
  OBVIOUS
<1> HIDE DEF kept
<1>3. ASSUME s.undo.kept PROVE Edits(s, r)
  <2>1. /\ IsSeq(s.undo.line) /\ Len(s.undo.line) < Limit(s)
        /\ s.undo.cursor \in 0..Len(s.undo.line) /\ DOMAIN s = EditFields
        /\ IsSeq(s.line) /\ Len(s.line) < Limit(s) /\ s.cursor \in 0..Len(s.line)
        /\ Buffers(s)
    BY <1>3, ReadyIs DEF Buffers
  <2>2. /\ r.line = s.undo.line /\ r.cursor = s.undo.cursor /\ r.undo = kept /\ DOMAIN r = EditFields
        /\ \A x \in EditFields \ {"line", "cursor", "undo"} : r[x] = s[x]
    BY <2>1 DEF EditFields
  <2> HIDE DEF r
  <2>3. /\ r.size = s.size /\ r.kill = s.kill /\ r.saved = s.saved /\ r.redo = s.redo
        /\ r.mark = s.mark /\ r.chrdir = s.chrdir /\ r.event = s.event /\ Limit(r) = Limit(s)
    BY <2>2 DEF EditFields, Limit
  <2>4. OnLine(r)
    BY <2>1, <2>2, <2>3 DEF OnLine
  <2>5. Buffers(r)
    <3>1. r.undo.kept => /\ IsSeq(r.undo.line) /\ Len(r.undo.line) < Limit(r)
                         /\ r.undo.cursor \in 0..Len(r.undo.line)
      BY <1>2, <2>1, <2>2, <2>3
    <3> QED
      BY <2>1, <2>2, <2>3, <3>1 DEF Buffers
  <2> QED
    BY <2>3, <2>4, <2>5 DEF Edits, Sound, Stays
<1> HIDE DEF r
<1> QED
  BY <1>1, <1>3, EndGood, ErrorGood

LEMMA ViDeletesGood ==
  ASSUME NEW s, Ready(s)
  PROVE  /\ Good(s, vi_delete_prev_char(s)) /\ Good(s, vi_kill_line_prev(s))
         /\ Good(s, vi_list_or_eof(s)) /\ Good(s, vi_alias(s))
<1>1. ASSUME s.cursor # 0 PROVE Good(s, Done(c_delbefore1(s)))
  <2>1. Sound(s) /\ s.cursor > 0
    BY <1>1, ReadyIs
  <2> QED
    BY <2>1, Delbefore1Edits, EndGood
<1>2. Good(s, vi_delete_prev_char(s))
  BY <1>1, ErrorGood, Zenon DEF vi_delete_prev_char
<1>3. Good(s, vi_kill_line_prev(s))
  BY ReadyIs, DelbeforeEdits, EndGood DEF vi_kill_line_prev
<1> QED
  BY <1>2, <1>3, ErrorGood DEF vi_list_or_eof, vi_alias

LEMMA CommentGood == ASSUME NEW s, Ready(s) PROVE Good(s, vi_comment_out(s))
<1> DEFINE k == 0
           at == [s EXCEPT !.cursor = 0]
           c == "#"
           room == Room(at, 1)
           l == [room.line EXCEPT ![1] = c]
<1>0. Sound(s) /\ DOMAIN s = EditFields /\ Len(s.line) \in Nat
  BY ReadyIs
<1>1. k \in 0..Len(s.line)
  BY <1>0
<1> HIDE DEF k
<1>2. Edits(s, [s EXCEPT !.cursor = k])
  BY <1>0, <1>1, CursorEdits
<1>3. Edits(s, at) /\ at.line = s.line /\ at.size = s.size
  BY <1>0, <1>2 DEF k, EditFields
<1>4. vi_comment_out(s) =
        ed_newline(IF CanInsert(s, 1) THEN c_insert(at, <<c>>) ELSE [room EXCEPT !.line[1] = c])
  BY DEF vi_comment_out
<1> HIDE DEF at, c
<1>5. ASSUME CanInsert(s, 1) PROVE Edits(s, c_insert(at, <<c>>))
  <2>1. CanInsert(at, 1)
    BY <1>3, <1>5 DEF CanInsert, HasRoom, Limit
  <2>2. IsSeq(<<c>>) /\ Len(<<c>>) = 1
    BY OneIsSeq
  <2> DEFINE text == <<c>>
  <2> HIDE DEF text
  <2>3. IsSeq(text) /\ CanInsert(at, Len(text))
    BY <2>1, <2>2 DEF text
  <2>4. Edits(at, c_insert(at, text))
    BY <1>3, <2>3, InsertEdits DEF Edits
  <2> QED
    BY <1>3, <2>4, EditsJoin DEF text
<1>6. ASSUME ~CanInsert(s, 1) PROVE Edits(s, [room EXCEPT !.line[1] = c])
  <2>1. ~CanInsert(at, 1)
    BY <1>3, <1>6 DEF CanInsert, HasRoom, Limit
  <2>2. Edits(at, room)
    BY <1>3, <2>1, NoRoomEdits DEF Edits
  <2> HIDE DEF room
  <2>3. /\ IsSeq(room.line) /\ room.cursor \in 0..Len(room.line) /\ Len(room.line) < Limit(room)
        /\ Sound(room) /\ DOMAIN room = EditFields
    BY <2>2 DEF Edits, Sound, OnLine, Buffers
  <2>4. IsSeq(l) /\ Len(l) = Len(room.line)
    BY <2>3, ExceptIsSeq
  <2>5. [room EXCEPT !.line[1] = c] = [room EXCEPT !.line = l]
    BY <2>3 DEF EditFields
  <2> HIDE DEF l
  <2>6. Edits(room, [room EXCEPT !.line = l])
    BY <2>3, <2>4, OnlyLineEdits
  <2> QED
    BY <1>3, <2>2, <2>5, <2>6, EditsJoin
<1> HIDE DEF room
<1> QED
  BY <1>4, <1>5, <1>6, NewlineGood

\* The history.  A line that is found is entered (EscapeEnters, Replaced).
LEMMA EndedWalks ==
  ASSUME NEW s, NEW l, NEW r, Walks(s, l, r), NEW t, Sound(t), t.event = r.event, t.saved = r.saved
  PROVE  Goes(s, l, ed_newline(t))
<1> DEFINE q == ed_newline(t)
<1>1. Edits(t, t)
  BY SameEdits
<1>2. Good(t, q)
  BY <1>1, NewlineGood
<1>3. q.ret = "newline"
  BY DEF ed_newline, EndOfLine, Sound, Buffers, EditFields
<1> HIDE DEF q
<1>4. q.event = r.event /\ q.saved = r.saved
  BY <1>2 DEF Good, Stays
<1>5. Walks(s, l, q)
  BY <1>3, <1>4 DEF Walks
<1> QED
  BY <1>2, <1>5 DEF Good, Goes, q

\* The text typed is searched for, from an empty line (cv_search).
LEMMA SearchTextGoes ==
  ASSUME NEW s, Ready(s), NEW dir, NEW answer PROVE Goes(s, <<>>, cv_search(s, dir, answer))
<1> DEFINE got == c_gets(s, answer, 2)
           asked == [got EXCEPT !.patdir = dir]
           text == asked.asked.text
           from == [asked EXCEPT !.pat = IF text = <<>> THEN @ ELSE text, !.last = dir]
           r == Sought(from, dir)
<1>1. Edits(s, got) /\ got.line = <<>>
  BY ReadyIs, GetsEdits
<1>2. cv_search(s, dir, answer) =
        IF asked.asked.gone THEN Done(asked)
        ELSE IF text = <<>> /\ s.pat \in {Unset, <<>>} THEN Error(asked)
        ELSE EscapeEnters(r, answer.end)
  BY DEF cv_search
<1> HIDE DEF got
<1>3. Alike(got, asked)
  BY <1>1 DEF Edits, Sound, Buffers, Alike, SoundFields, EditFields
<1> HIDE DEF asked
<1>4. Edits(s, asked)
  BY <1>1, <1>3, AlikeEdits, EditsJoin DEF Edits
<1> HIDE DEF text
<1>5. Alike(asked, from)
  BY <1>4 DEF Edits, Sound, Buffers, Alike, SoundFields, EditFields
<1> HIDE DEF from
<1>6. Edits(s, from) /\ from.line = <<>>
  <2>1. from.line = asked.line /\ asked.line = got.line
    BY <1>3, <1>5 DEF Alike, SoundFields
  <2> QED
    BY <1>1, <1>4, <1>5, <2>1, AlikeEdits, EditsJoin DEF Edits
<1>7. Found(from, r)
  BY <1>6, SoughtFinds DEF Edits, Sound, OnLine, Searching
<1> HIDE DEF r
<1>8. Goes(from, <<>>, r) /\ OnLine(r) /\ Buffers(r)
  <2>1. Goes(from, from.line, r)
    BY <1>6, <1>7, FoundGoes DEF Edits, Sound
  <2>2. OnLine(r)
    BY <1>6, <1>7, OnLineAs DEF Edits, Sound, Found
  <2> QED
    BY <1>6, <1>7, <2>1, <2>2 DEF Found
<1>9. Walks(s, <<>>, r)
  BY <1>6, <1>8 DEF Goes, Walks, KeptOf, Edits, Stays
<1>10. Goes(s, <<>>, EscapeEnters(r, answer.end))
  <2>1. Goes(s, <<>>, ed_newline(r))
    BY <1>8, <1>9, EndedWalks DEF Sound
  <2>2. Goes(s, <<>>, r)
    BY <1>8, <1>9 DEF Goes
  <2> QED
    BY <2>1, <2>2, Zenon DEF EscapeEnters
<1>11. Goes(s, <<>>, Done(asked)) /\ Goes(s, <<>>, Error(asked))
  BY <1>4, EndGood, GoodGoes
<1> QED
  BY <1>2, <1>10, <1>11, Zenon

\* The same search again, from a line that is emptied with its cursor where it was.
LEMMA RepeatSearchGoes ==
  ASSUME NEW s, Ready(s), NEW dir PROVE Goes(s, <<>>, cv_repeat_srch(s, dir))
<1> DEFINE from == [s EXCEPT !.last = dir, !.line = <<>>]
           r == IF dir \in Searches THEN Sought(from, dir) ELSE Error(from)
           k == s.cursor
<1>0. /\ Buffers(s) /\ DOMAIN s = EditFields /\ s.cursor \in Nat /\ Limit(s) \in Nat /\ Limit(s) > 0
  BY ReadyIs, LimitIs
<1>1. /\ from.line = <<>> /\ \A x \in EditFields \ {"line", "last"} : from[x] = s[x]
  BY <1>0 DEF EditFields
<1>2. DOMAIN from = EditFields
  BY <1>0
<1>3. cv_repeat_srch(s, dir) = Stranded(r, k)
  BY DEF cv_repeat_srch
<1> HIDE DEF from
<1>4. /\ from.size = s.size /\ from.kill = s.kill /\ from.undo = s.undo /\ from.saved = s.saved
      /\ from.redo = s.redo /\ from.mark = s.mark /\ from.chrdir = s.chrdir
      /\ from.event = s.event /\ from.cursor = k /\ Limit(from) = Limit(s)
  BY <1>1 DEF EditFields, Limit
<1>5. Buffers(from)
  BY <1>0, <1>2, <1>4 DEF Buffers
<1>6. Searching(from)
  BY <1>0, <1>1, <1>4, <1>5, EmptyIsSeq DEF Searching
<1>7. Found(from, r)
  <2>1. Found(from, Sought(from, dir))
    BY <1>6, SoughtFinds
  <2>2. Sets(from, from)
    BY <1>5 DEF Sets
  <2>3. Found(from, Error(from))
    BY <2>2, FailedFinds
  <2> QED
    BY <2>1, <2>3
<1> HIDE DEF r, k
<1>8. Walks(s, <<>>, r) /\ Buffers(r) /\ r.ret \in {"done", "error"}
  BY <1>1, <1>4, <1>7 DEF Found, Walks, KeptOf
<1>9. CASE r.ret = "error" /\ k > 0
  <2> DEFINE q == Astray(r)
  <2>1. Stranded(r, k) = q
    BY <1>9 DEF Stranded
  <2>2. q.astray /\ DOMAIN q = EditFields
    BY <1>8 DEF Astray, Buffers, EditFields
  <2>3. q.event = r.event /\ q.saved = r.saved /\ q.line = r.line
    BY <1>8 DEF Astray, Buffers, EditFields
  <2> HIDE DEF q
  <2>4. Walks(s, <<>>, q)
    BY <1>8, <2>3, WalksAs
  <2> QED
    BY <1>3, <2>1, <2>2, <2>4 DEF Goes, Fine
<1>10. CASE ~ (r.ret = "error" /\ k > 0)
  <2>1. Stranded(r, k) = r
    BY <1>10 DEF Stranded
  <2>2. OnLine(r)
    <3>1. CASE r.ret = "done"
      BY <1>7, <3>1 DEF Found
    <3>2. CASE r.ret = "error"
      <4>1. k = 0
        BY <1>0, <1>10, <3>2 DEF k
      <4>2. r.line = <<>> /\ r.cursor = 0 /\ Limit(r) = Limit(s)
        BY <1>1, <1>4, <1>7, <3>2, <4>1 DEF Found, Limit
      <4>3. 0 \in 0..0
        OBVIOUS
      <4> QED
        BY <1>0, <4>2, <4>3, EmptyIsSeq DEF OnLine
    <3> QED
      BY <1>8, <3>1, <3>2
  <2>3. Fine(r)
    BY <1>8, <2>2, FineIs DEF Over
  <2> QED
    BY <1>3, <1>8, <2>1, <2>3 DEF Goes
<1> QED
  BY <1>9, <1>10

LEMMA RepeatsGo ==
  ASSUME NEW s, Ready(s)
  PROVE  /\ Goes(s, <<>>, vi_repeat_search_next(s))
         /\ Goes(s, <<>>, vi_repeat_search_prev(s))
BY RepeatSearchGoes, ErrorGood, GoodGoes DEF vi_repeat_search_next, vi_repeat_search_prev

\* The line as the history, or what was kept, has it (vi_undo_line).
LEMMA UndoLineGood == ASSUME NEW s, Ready(s) PROVE Goes(s, s.line, vi_undo_line(s))
<1> DEFINE u == cv_undo(s)
           r == hist_get(u)
<1>1. Edits(s, u)
  BY UndoGives
<1>2. Got(u, u.event, r)
  BY <1>1, HistGetHere DEF Edits, Sound
<1>3. vi_undo_line(s) = r
  BY DEF vi_undo_line
<1> HIDE DEF r, u
<1>4. Fine(r)
  BY <1>1, <1>2, GotOnLine DEF Edits, Sound
<1>5. /\ u.event \in Nat /\ (u.event # 0 => u.saved = KeptOf(s, s.line))
      /\ (s.event # 0 => u.saved = s.saved) /\ Buffers(u)
  BY <1>1 DEF Edits, Stays, Sound, Buffers, KeptOf
<1>6. Walks(s, s.line, r)
  BY <1>2, <1>5, FetchWalks
<1> QED
  BY <1>3, <1>4, <1>6 DEF Goes

\* There is such a line, or the event is again what it was (There).
LEMMA ThereGoes ==
  ASSUME NEW s, s.event \in Nat, Past # <<>> => s.event <= Len(Past), NEW l,
         NEW t, Sound(t), s.event # 0 => t.saved = s.saved,
         NEW e \in Nat, e # 0 => t.saved = KeptOf(s, l), NEW r, Got(t, e, r)
  PROVE  Goes(s, l, There(r, s.event)) /\ Sound(There(r, s.event))
         /\ There(r, s.event).ret \in {"done", "error"}
<1> DEFINE q == There(r, s.event)
<1>1. Buffers(r) /\ OnLine(r) /\ Over(r) /\ Fine(r) /\ r.saved = t.saved
  BY GotOnLine DEF Sound
<1>2. CASE r.ret # "error"
  <2>1. q = r
    BY <1>2 DEF There
  <2>2. Walks(s, l, r)
    BY FetchWalks DEF Sound
  <2> QED
    BY <1>1, <1>2, <2>1, <2>2 DEF Goes, Sound, Got
<1>3. CASE r.ret = "error"
  <2> DEFINE v == [r EXCEPT !.event = s.event]
  <2>1. q = v
    BY <1>3 DEF There
  <2>2. Bears(r, s.event, v)
    BY <1>1 DEF Bears, Buffers, EditFields
  <2> HIDE DEF v
  <2>3. Buffers(v)
    BY <1>1, <2>2, EventIs
  <2>4. /\ v.line = r.line /\ v.cursor = r.cursor /\ v.size = r.size /\ v.ret = r.ret
        /\ v.event = s.event /\ v.saved = r.saved
    BY <2>2 DEF Bears, EditFields
  <2>5. OnLine(v) /\ Over(v)
    BY <1>1, <2>4, OnLineAs DEF Over
  <2>6. Walks(s, l, v)
    BY <1>1, <2>4 DEF Walks, KeptOf
  <2> QED
    BY <1>3, <2>1, <2>3, <2>4, <2>5, <2>6, FineIs DEF Goes, Sound
<1> QED
  BY <1>2, <1>3

LEMMA SearchesGo ==
  ASSUME NEW s, Ready(s), NEW answer
  PROVE  Goes(s, <<>>, vi_search_prev(s, answer)) /\ Goes(s, <<>>, vi_search_next(s, answer))
BY SearchTextGoes DEF vi_search_prev, vi_search_next

\* With another event than it had, and an error.
Backs(s, l, t, e) ==
  /\ Sound(t) /\ e \in Nat /\ (Past # <<>> => e <= Len(Past))
  /\ (e # 0 => t.saved = KeptOf(s, l)) /\ (e = 0 => s.event = 0)
LEMMA BackGoes ==
  ASSUME NEW s, NEW l, NEW t, NEW e, Backs(s, l, t, e)
  PROVE  /\ Goes(s, l, Error([t EXCEPT !.event = e])) /\ Sound(Error([t EXCEPT !.event = e]))
         /\ Error([t EXCEPT !.event = e]).ret = "error"
<1> DEFINE v == [t EXCEPT !.event = e]
           r == Error(v)
<1>1. Bears(t, e, v)
  BY DEF Backs, Bears, Sound, Buffers, EditFields
<1> HIDE DEF v
<1>2. Buffers(v)
  BY <1>1, EventIs DEF Backs, Sound
<1>3. Buffers(r) /\ r.ret = "error" /\ \A x \in EditFields \ {"ret"} : r[x] = v[x]
  BY <1>2, ErrorIs
<1> HIDE DEF r
<1>4. /\ r.line = t.line /\ r.cursor = t.cursor /\ r.size = t.size /\ r.event = e
      /\ r.saved = t.saved
  BY <1>1, <1>3 DEF Bears, EditFields
<1>5. OnLine(r)
  BY <1>4, OnLineAs DEF Backs, Sound
<1>6. Walks(s, l, r)
  BY <1>4 DEF Backs, Walks
<1>7. Fine(r)
  BY <1>3, <1>5, FineIs DEF Over
<1> QED
  BY <1>3, <1>5, <1>6, <1>7 DEF Goes, Sound, r, v

\* The line whose number the argument is (vi_to_history_line): when there is none, the
\* event is again what it was.
LEMMA HistoryLineGoes ==
  ASSUME NEW s, Ready(s)
  PROVE  /\ Goes(s, s.line, vi_to_history_line(s)) /\ Sound(vi_to_history_line(s))
         /\ vi_to_history_line(s).ret \in {"done", "error"}
<1> DEFINE from == Kept(s)
           one  == 1
           last == Len(Past)
           newest == hist_get([from EXCEPT !.event = one])
           n    == 1 + Len(Past) - s.arg
           got  == hist_get([newest EXCEPT !.event = n])
           old  == hist_get([from EXCEPT !.event = last])
           R(r) == Goes(s, s.line, r) /\ Sound(r) /\ r.ret \in {"done", "error"}
<1>0. /\ s.event \in Nat /\ (Past # <<>> => s.event <= Len(Past)) /\ s.arg \in Nat /\ Sound(s)
  BY ReadyIs DEF Buffers
<1>1. last \in Nat /\ (Past # <<>> => last > 0)
  <2>1. Past \in Seq(Seq(Chars))
    BY LineEditAssumption
  <2> QED
    BY <2>1, EmptySeq, LenProperties
<1>2. Sound(from) /\ from.saved = KeptOf(s, s.line) /\ from.event = s.event
  BY <1>0, KeptSound DEF EditFields
<1>3. vi_to_history_line(s) =
        IF Past = <<>> THEN Error(IF s.doing THEN [from EXCEPT !.event = one] ELSE from)
        ELSE IF s.doing
          THEN IF n < 0 THEN Error([newest EXCEPT !.event = s.event]) ELSE There(got, s.event)
        ELSE There(old, s.event)
  BY DEF vi_to_history_line, Numbered
<1>4. s.event # 0 => from.saved = s.saved
  BY <1>2 DEF KeptOf
<1> HIDE DEF from
<1>5. one \in Nat /\ one # 0
  OBVIOUS
<1> HIDE DEF one, last
<1>6. ASSUME Past = <<>> PROVE R(Error([from EXCEPT !.event = one]))
  <2>1. Backs(s, s.line, from, one)
    BY <1>2, <1>5, <1>6 DEF Backs
  <2> QED
    BY <2>1, BackGoes
<1>7. R(Error(from))
  <2>1. Goes(s, s.line, Error(from))
    <3>1. Buffers(from) /\ OnLine(from)
      BY <1>2 DEF Sound
    <3>2. Fine(Error(from)) /\ \A x \in EditFields \ {"ret"} : Error(from)[x] = from[x]
      BY <3>1, DoneOver
    <3>3. Error(from).event = from.event /\ Error(from).saved = from.saved
      BY <3>2 DEF EditFields
    <3>4. Walks(s, s.line, Error(from))
      BY <1>2, <3>3 DEF Walks
    <3> QED
      BY <3>2, <3>4 DEF Goes
  <2>2. Sound(Error(from)) /\ Error(from).ret = "error"
    <3>1. Buffers(from) /\ OnLine(from)
      BY <1>2 DEF Sound
    <3>2. Buffers(Error(from)) /\ Error(from).ret = "error"
          /\ \A x \in EditFields \ {"ret"} : Error(from)[x] = from[x]
      BY <3>1, DoneOver
    <3>3. /\ Error(from).line = from.line /\ Error(from).cursor = from.cursor
          /\ Error(from).size = from.size
      BY <3>2 DEF EditFields
    <3> QED
      BY <3>1, <3>2, <3>3, OnLineAs DEF Sound
  <2> QED
    BY <2>1, <2>2
<1>8. Got(from, one, newest)
  BY <1>2, <1>5, HistGetIs DEF Sound
<1> HIDE DEF newest
<1>9. Sound(newest) /\ newest.saved = from.saved
  BY <1>2, <1>8, GotOnLine DEF Sound
<1>10. R(Error([newest EXCEPT !.event = s.event]))
  <2> DEFINE e == s.event
             line == s.line
  <2>1. /\ e \in Nat /\ (Past # <<>> => e <= Len(Past)) /\ (e = 0 => s.event = 0)
        /\ (e # 0 => newest.saved = KeptOf(s, line))
    BY <1>0, <1>2, <1>9
  <2> HIDE DEF e, line
  <2>4. Backs(s, line, newest, e)
    BY <1>9, <2>1 DEF Backs
  <2>2. /\ Goes(s, line, Error([newest EXCEPT !.event = e]))
        /\ Sound(Error([newest EXCEPT !.event = e]))
        /\ Error([newest EXCEPT !.event = e]).ret = "error"
    BY <2>4, BackGoes
  <2>3. R(Error([newest EXCEPT !.event = e]))
    <3> DEFINE q == Error([newest EXCEPT !.event = e])
    <3>1. Goes(s, line, q) /\ Sound(q) /\ q.ret = "error"
      BY <2>2
    <3> HIDE DEF q
    <3>2. R(q)
      BY <3>1 DEF line
    <3> QED
      BY <3>2 DEF q
  <2> HIDE DEF R
  <2> QED
    BY <2>3 DEF e
<1>11. ASSUME ~ (n < 0), Past # <<>> PROVE R(There(got, s.event))
  <2>1. n \in Nat
    BY <1>0, <1>1, <1>11 DEF last
  <2> HIDE DEF n
  <2>2. Got(newest, n, got)
    BY <1>9, <2>1, HistGetIs DEF Sound
  <2> HIDE DEF got
  <2>3. newest.saved = KeptOf(s, s.line) /\ (s.event # 0 => newest.saved = s.saved)
    BY <1>2, <1>4, <1>9
  <2> QED
    BY <1>0, <1>9, <2>1, <2>2, <2>3, ThereGoes
<1>12. R(There(old, s.event))
  <2>1. Got(from, last, old)
    BY <1>1, <1>2, HistGetIs DEF Sound
  <2> HIDE DEF old
  <2> QED
    BY <1>0, <1>1, <1>2, <1>4, <2>1, ThereGoes
<1> HIDE DEF n, got, old
<1>13. CASE Past = <<>>
  <2>1. vi_to_history_line(s) = IF s.doing THEN Error([from EXCEPT !.event = one]) ELSE Error(from)
    BY <1>3, <1>13
  <2>2. R(vi_to_history_line(s))
    BY <1>6, <1>7, <1>13, <2>1, Zenon
  <2> QED
    BY <2>2
<1>14. CASE Past # <<>>
  <2>1. R(vi_to_history_line(s))
    BY <1>3, <1>10, <1>11, <1>12, <1>14, Zenon
  <2> QED
    BY <2>1
<1> QED
  BY <1>13, <1>14

\* What the other editor gives back takes the place of what it got.
LEMMA UnendedIs ==
  ASSUME NEW l, IsSeq(l) PROVE IsSeq(Unended(l)) /\ Len(Unended(l)) <= Len(l)
<1>1. Unended(l) = LessLast(l, "newline")
  BY DEF Unended, LessLast
<1> QED
  BY <1>1, LessLastIs

\* It is cut to the length of what went, so it fits (vi_histedit).
LEMMA ReplacedGoes ==
  ASSUME NEW s, NEW l, NEW t, Goes(s, l, t), Sound(t), NEW edited, IsSeq(edited)
  PROVE  Goes(s, l, Replaced(t, edited))
<1> DEFINE k == 0
           a == SubSeq(edited, 1, Clipped(Len(edited), Len(t.line)))
           b == Unended(a)
           u == [t EXCEPT !.line = b, !.cursor = k]
<1>0. Len(t.line) \in Nat /\ Len(t.line) < Limit(t) /\ Limit(t) \in Nat
  <2>1. IsSeq(t.line) /\ Len(t.line) < Limit(t) /\ Buffers(t)
    BY DEF Sound, OnLine
  <2> QED
    BY <2>1, SeqIs, LimitIs
<1>1. Replaced(t, edited) = IF t.ret = "error" THEN t ELSE ed_newline(u)
  <2>1. [t EXCEPT !.cursor = 0, !.line = b] = u
    BY DEF Sound, Buffers, EditFields
  <2> QED
    BY <2>1 DEF Replaced
<1>2. IsSeq(a) /\ Len(a) <= Len(t.line)
  BY <1>0, BeginningIs
<1> HIDE DEF a
<1>3. IsSeq(b) /\ Len(b) <= Len(a)
  BY <1>2, UnendedIs
<1> HIDE DEF b
<1>4. Len(b) < Limit(t) /\ k \in 0..Len(b)
  <2>1. Len(a) \in Nat /\ Len(b) \in Nat
    BY <1>2, <1>3, SeqIs
  <2> QED
    BY <1>0, <1>2, <1>3, <2>1
<1> HIDE DEF k
<1>5. Edits(t, u)
  BY <1>3, <1>4, LineEdits
<1> HIDE DEF u
<1>6. Goes(s, l, ed_newline(u))
  BY <1>5, EndedWalks DEF Goes, Edits, Stays
<1> QED
  BY <1>1, <1>6

LEMMA HisteditGoes ==
  ASSUME NEW s, Ready(s), NEW edited, IsSeq(edited) PROVE Goes(s, s.line, vi_histedit(s, edited))
<1> DEFINE t == IF s.doing THEN vi_to_history_line(s) ELSE Done(s)
<1>1. Edits(s, Done(s)) /\ Good(s, Done(s))
  BY ReadyIs, SameEdits, DoneEdits, EndGood
<1>2. Goes(s, s.line, t) /\ Sound(t)
  BY <1>1, GoodGoes, HistoryLineGoes DEF Edits
<1> HIDE DEF t
<1>3. Goes(s, s.line, Replaced(t, edited))
  BY <1>2, ReplacedGoes
<1> QED
  BY <1>3 DEF vi_histedit, t

\* A word of the newest line, behind a blank.
LEMMA HistoryWordGood == ASSUME NEW s, Ready(s) PROVE Good(s, vi_history_word(s))
<1> DEFINE l      == Past[1]
           ends   == {i \in 1..Len(l) : l[i] \notin Blanks /\ (i < Len(l) => l[i + 1] \in Blanks)}
           end    == IF s.doing THEN CHOOSE i \in ends : Cardinality({j \in ends : j <= i}) = s.arg
                     ELSE Max(ends)
           start  == SkipDown(l, end, Chars \ Blanks)
           word   == <<" ">> \o SubSeq(l, start + 1, end)
           at     == cv_undo(s)
           behind == [at EXCEPT !.cursor = IF @ < Len(s.line) THEN @ + 1 ELSE @]
           k      == IF at.cursor < Len(s.line) THEN at.cursor + 1 ELSE at.cursor
           r      == Done(InsertMode(Typed(behind, word)))
           stray  == Done(Astray(InsertMode(behind)))
           none   == ends = {} \/ (s.doing /\ s.arg \notin 1..Cardinality(ends))
<1>0. /\ Sound(s) /\ s.arg \in Nat /\ DOMAIN s = EditFields /\ Len(s.line) \in Nat
      /\ s.cursor \in 0..Len(s.line)
  BY ReadyIs
<1>1. vi_history_word(s) =
        IF Past = <<>> THEN Error(s) ELSE IF none THEN Error(s)
        ELSE IF ~CanInsert(s, Len(word)) THEN stray ELSE r
  BY DEF vi_history_word
<1>2. /\ Edits(s, at) /\ at.line = s.line /\ at.cursor = s.cursor /\ at.size = s.size
      /\ DOMAIN at = EditFields
  BY UndoGives
<1>3. behind = [at EXCEPT !.cursor = k]
  BY <1>2 DEF EditFields
<1> HIDE DEF at, behind
<1>4. k \in 0..Len(at.line)
  BY <1>0, <1>2
<1> HIDE DEF k
<1>5. Edits(at, behind) /\ behind.line = s.line /\ behind.size = s.size
  BY <1>2, <1>3, <1>4, CursorEdits DEF Edits, EditFields
<1>6. Edits(s, behind) /\ Sound(behind)
  BY <1>2, <1>5, EditsJoin DEF Edits
<1>7. Good(s, stray)
  <2>1. Edits(s, InsertMode(behind))
    BY <1>6, InsertModeEdits
  <2> QED
    BY <2>1, AstrayGood DEF Edits, Sound
<1>8. ASSUME Past # <<>>, ~none PROVE IsSeq(word)
  <2>1. IsSeq(l)
    <3>1. Past \in Seq(Seq(Chars)) /\ 1 \in Nat /\ 1 # 0
      BY LineEditAssumption
    <3>2. 1 <= Len(Past)
      BY <1>8, <3>1, EmptySeq, LenProperties
    <3> QED
      BY <1>8, <3>1, <3>2, PastIs
  <2> HIDE DEF l
  <2>2. Len(l) \in Nat
    BY <2>1, SeqIs
  <2>3. ends \in SUBSET (1..Len(l)) /\ ends # {}
    BY <1>8
  <2>4. s.doing => s.arg \in 1..Cardinality(ends)
    BY <1>8, Zenon
  <2> HIDE DEF ends
  <2>5. end \in ends
    <3>1. CASE s.doing
      <4>1. Cardinality(ends) \in Nat
        <5>1. IsFiniteSet(1..Len(l))
          BY <2>2, FS_Interval
        <5> QED
          BY <2>3, <5>1, FS_Subset, FS_CardinalityType
      <4>2. s.arg \in Nat \ {0} /\ s.arg <= Cardinality(ends)
        BY <2>4, <3>1, <4>1
      <4>3. \E i \in ends : Cardinality({j \in ends : j <= i}) = s.arg
        <5> DEFINE m == Len(l)
                   n == s.arg
        <5>1. m \in Nat /\ n \in Nat \ {0} /\ n <= Cardinality(ends) /\ ends \in SUBSET (1..m)
          BY <2>2, <2>3, <4>2
        <5> HIDE DEF m, n
        <5>2. \E i \in ends : /\ Cardinality({j \in ends : j < i}) = n - 1
                              /\ Cardinality({j \in ends : j <= i}) = n
          BY <5>1, NthIs
        <5> QED
          BY <5>2 DEF n
      <4> QED
        BY <3>1, <4>3
    <3>2. CASE ~s.doing
      <4>1. ends \in SUBSET (0..Len(l))
        BY <2>2, <2>3
      <4>2. Max(ends) \in ends
        BY <2>2, <2>3, <4>1, MaxIn
      <4> QED
        BY <3>2, <4>2
    <3> QED
      BY <3>1, <3>2
  <2> HIDE DEF end
  <2>6. end \in 0..Len(l) /\ end \in Nat
    BY <2>2, <2>3, <2>5
  <2>7. start \in 0..end
    BY <2>6, SkipsDown
  <2> HIDE DEF start
  <2>8. IsSeq(SubSeq(l, start + 1, end))
    <3>1. start + 1 \in 1..Len(l) + 1
      BY <2>2, <2>6, <2>7
    <3> QED
      BY <2>1, <2>6, <3>1, SubIsSeq
  <2> QED
    BY <2>8, OneIsSeq, JoinIsSeq
<1> HIDE DEF word, none
<1>9. ASSUME IsSeq(word), CanInsert(s, Len(word)) PROVE Good(s, r)
  <2>1. CanInsert(behind, Len(word))
    BY <1>5, <1>9 DEF CanInsert, HasRoom, Limit
  <2>2. Edits(s, Typed(behind, word))
    BY <1>6, <1>9, <2>1, TypedEdits, EditsJoin
  <2> QED
    BY <2>2, InsertModeEdits, EndGood
<1> HIDE DEF r, stray
<1> QED
  BY <1>1, <1>7, <1>8, <1>9, ErrorGood, Zenon

\* The line is given up: nothing of it is left, nor of the walk in the history.
LEMMA ResetSound ==
  ASSUME NEW s, Buffers(s)
  PROVE  /\ Ready(ch_reset(s)) /\ Ready(Done(ch_reset(s)))
         /\ ch_reset(s).event = 0 /\ Done(ch_reset(s)).event = 0
         /\ Done(ch_reset(s)).ret = "done" /\ Fine(Done(ch_reset(s)))
<1> DEFINE k == 0
           l == <<>>
           none == None
           r == [s EXCEPT !.line = l, !.cursor = k, !.undo = NoUndo, !.pending = none, !.pos = 0,
                  !.mark = 0, !.alt = FALSE, !.mode = "insert", !.arg = 1, !.doing = FALSE,
                  !.meta = FALSE, !.last = None, !.event = 0]
           d == [r EXCEPT !.ret = "done"]
<1>1. ch_reset(s) = r /\ Done(ch_reset(s)) = d
  BY DEF ch_reset, Done
<1>2. IsSeq(l) /\ Len(l) = 0 /\ k \in 0..Len(l) /\ Limit(s) \in Nat /\ Limit(s) > 0
  BY EmptyIsSeq, LimitIs
<1> HIDE DEF k, l
<1>3. /\ DOMAIN r = EditFields /\ r.line = l /\ r.cursor = k /\ r.undo = NoUndo /\ r.mark = 0
      /\ r.event = 0 /\ r.arg = 1 /\ r.pending = None /\ r.kill = s.kill /\ r.size = s.size
      /\ r.saved = s.saved /\ r.redo = s.redo /\ r.chrdir = s.chrdir
  BY DEF Buffers, EditFields
<1>4. \A x \in EditFields \ {"ret"} : d[x] = r[x]
  BY <1>3
<1>5. DOMAIN d = EditFields /\ d.ret = "done"
  BY <1>3 DEF EditFields
<1> HIDE DEF r, d
<1>6. /\ d.line = l /\ d.cursor = k /\ d.undo = NoUndo /\ d.mark = 0
      /\ d.event = 0 /\ d.arg = 1 /\ d.pending = None /\ d.kill = s.kill /\ d.size = s.size
      /\ d.saved = s.saved /\ d.redo = s.redo /\ d.chrdir = s.chrdir
  BY <1>3, <1>4 DEF EditFields
<1>7. Ready(r)
  BY <1>2, <1>3 DEF Ready, Sound, OnLine, Awaiting, Buffers, Limit, NoUndo, MarkPlaces
<1>8. Ready(d)
  BY <1>2, <1>5, <1>6 DEF Ready, Sound, OnLine, Awaiting, Buffers, Limit, NoUndo, MarkPlaces
<1>9. Fine(d)
  BY <1>5, <1>8, FineIs DEF Ready, Sound, Over
<1> QED
  BY <1>1, <1>3, <1>5, <1>6, <1>7, <1>8, <1>9

-----------------------------------------------------------------------------
(* The table of the commands                                               *)

\* The commands that others call with what they have done themselves.
LEMMA SelfGood ==
  ASSUME NEW s, Ready(s)
  PROVE  /\ Good(s, vi_command_mode(s)) /\ Good(s, ed_kill_line(s)) /\ Good(s, em_kill_line(s))
         /\ Good(s, EndOfFile(s))
<1>1. Edits(s, s)
  BY ReadyIs, SameEdits
<1> QED
  BY <1>1, CommandModeGood, KillLineGood, KillWholeGood, EndGood

\* One of the table, whichever it is: those of common.c,
LEMMA CommonGoes ==
  ASSUME NEW cmd, cmd # "ed_start_over", NEW s, Ready(s), NEW c, NEW more
  PROVE  Goes(s, s.line, CommonCommand(cmd, s, c, more))
<1> DEFINE R(r) == Goes(s, s.line, r)
<1>1. \A r : Good(s, r) => R(r)
  BY GoodGoes
<1>2. R(ed_insert(s, c)) /\ R(ed_digit(s, c)) /\ R(ed_argument_digit(s, c))
  BY <1>1, InsertGood, DigitGood, ArgumentDigitGood
<1>3. R(ed_quoted_insert(s, more)) /\ R(ed_command(s, more))
  BY <1>1, QuotedGood, CommandLineGood
<1>4. /\ R(ed_delete_prev_word(s)) /\ R(ed_delete_next_char(s)) /\ R(ed_delete_prev_char(s))
      /\ R(ed_kill_line(s)) /\ R(ed_transpose_chars(s))
  BY <1>1, DeletePrevWordGood, DeleteNextCharGood, DeletePrevCharGood, SelfGood, TransposeGood
<1>5. R(ed_newline(s)) /\ R(ed_tty_sigint(s)) /\ R(ed_clear_screen(s)) /\ R(ed_unassigned(s))
  BY <1>1, PlainGood
<1>6. /\ R(ed_move_to_end(s)) /\ R(ed_move_to_beg(s)) /\ R(ed_next_char(s)) /\ R(ed_prev_char(s))
      /\ R(ed_prev_word(s)) /\ R(ed_prev_line(s)) /\ R(ed_next_line(s))
  BY <1>1, MoveToEndGood, MoveToBegGood, NextCharGood, PrevCharGood, PrevWordGood, PrevLineGood,
     NextLineGood
<1>7. /\ R(ed_prev_history(s)) /\ R(ed_next_history(s)) /\ R(ed_search_prev_history(s))
      /\ R(ed_search_next_history(s))
  BY PrevHistoryGoes, NextHistoryGoes, SearchGoes
<1> HIDE DEF R
<1>8. R(CommonCommand(cmd, s, c, more))
  BY <1>2, <1>3, <1>4, <1>5, <1>6, <1>7 DEF CommonCommand
<1> QED
  BY <1>8 DEF R

\* of emacs.c,
LEMMA EmacsGoes ==
  ASSUME NEW cmd, cmd # "ed_start_over", NEW s, Ready(s), NEW c, NEW more
  PROVE  Goes(s, s.line, EmacsCommand(cmd, s, c, more))
<1> DEFINE R(r) == Goes(s, s.line, r)
<1>1. \A r : Good(s, r) => R(r)
  BY GoodGoes
<1>2. /\ R(em_delete_or_list(s)) /\ R(em_delete_next_word(s)) /\ R(em_yank(s)) /\ R(em_kill_line(s))
      /\ R(em_kill_region(s)) /\ R(em_copy_region(s))
  BY <1>1, DeleteOrListGood, DeleteNextWordGood, YankGood, SelfGood, KillRegionGood, CopyRegionGood
<1>3. /\ R(em_gosmacs_transpose(s)) /\ R(em_next_word(s)) /\ R(em_upper_case(s))
      /\ R(em_lower_case(s)) /\ R(em_capitol_case(s))
  BY <1>1, GosmacsGood, NextWordGood, CaseGood, CapitolGood
<1>4. /\ R(em_set_mark(s)) /\ R(em_exchange_mark(s)) /\ R(em_universal_argument(s))
      /\ R(em_toggle_overwrite(s)) /\ R(em_copy_prev_word(s)) /\ R(em_delete_prev_char(s))
  BY <1>1, SetMarkGood, ExchangeMarkGood, UniversalGood, ToggleGood, CopyPrevWordGood,
     EmDeletePrevGood
<1>5. R(CommonCommand(cmd, s, c, more))
  BY CommonGoes
<1> HIDE DEF R
<1>6. R(EmacsCommand(cmd, s, c, more))
  BY <1>2, <1>3, <1>4, <1>5 DEF EmacsCommand
<1> QED
  BY <1>6 DEF R

\* the motions of vi.c,
LEMMA MotionGoes ==
  ASSUME NEW cmd, cmd # "ed_start_over", NEW s, Ready(s), NEW c, NEW more
  PROVE  Goes(s, s.line, ViMotion(cmd, s, c, more))
<1> DEFINE R(r) == Goes(s, s.line, r)
<1>1. \A r : Good(s, r) => R(r)
  BY GoodGoes
<1>2. /\ R(vi_prev_big_word(s)) /\ R(vi_prev_word(s)) /\ R(vi_next_big_word(s)) /\ R(vi_next_word(s))
      /\ R(vi_end_big_word(s)) /\ R(vi_end_word(s))
  BY <1>1, ViPrevWordGood, ViNextWordGood, ViEndWordGood
<1>3. R(vi_zero(s, c)) /\ R(vi_to_column(s)) /\ R(vi_match(s))
  BY <1>1, ZeroGood, ToColumnGood, MatchGood
<1>4. /\ R(vi_next_char(s, more)) /\ R(vi_prev_char(s, more)) /\ R(vi_to_next_char(s, more))
      /\ R(vi_to_prev_char(s, more))
  BY <1>1, ViCharsGood
<1>5. R(vi_repeat_next_char(s)) /\ R(vi_repeat_prev_char(s))
  BY <1>1, RepeatCharGood
<1>6. R(EmacsCommand(cmd, s, c, more))
  BY EmacsGoes
<1> HIDE DEF R
<1>7. R(ViMotion(cmd, s, c, more))
  BY <1>2, <1>3, <1>4, <1>5, <1>6 DEF ViMotion
<1> QED
  BY <1>7 DEF R

\* The line that a command leaves for another of the history: the searches of vi have
\* emptied it.
LineOf(s, cmd) == IF cmd \in Emptying THEN <<>> ELSE s.line

\* and all of them.  What another editor gives back has to be a text.
LEMMA RunGoes ==
  ASSUME NEW cmd, cmd # "ed_start_over", NEW s, Ready(s), NEW c,
         NEW more, cmd = "vi_histedit" => IsSeq(more)
  PROVE  Goes(s, LineOf(s, cmd), Run(cmd, s, c, more))
<1> DEFINE R(r) == Goes(s, LineOf(s, cmd), r)
<1>1. \A r : Good(s, r) => R(r)
  BY GoodGoes
<1>2. R(vi_change_meta(s)) /\ R(vi_delete_meta(s)) /\ R(vi_yank(s)) /\ R(vi_yank_end(s))
  BY <1>1, OperatorsGood, YankEndGood
<1>3. R(vi_paste_next(s)) /\ R(vi_paste_prev(s)) /\ R(vi_change_case(s))
  BY <1>1, PastesGood, ChangeCaseGood
<1>4. /\ R(vi_insert(s)) /\ R(vi_insert_at_bol(s)) /\ R(vi_add(s)) /\ R(vi_add_at_eol(s))
      /\ R(vi_replace_mode(s))
  BY <1>1, InsertsGood
<1>5. /\ R(vi_replace_char(s)) /\ R(vi_substitute_char(s)) /\ R(vi_substitute_line(s))
      /\ R(vi_change_to_eol(s)) /\ R(vi_undo(s))
  BY <1>1, ReplaceCharGood, SubstitutesGood, UndoGood
<1>6. /\ R(vi_delete_prev_char(s)) /\ R(vi_kill_line_prev(s)) /\ R(vi_command_mode(s))
      /\ R(vi_list_or_eof(s)) /\ R(vi_alias(s)) /\ R(vi_comment_out(s)) /\ R(vi_history_word(s))
  BY <1>1, ViDeletesGood, SelfGood, CommentGood, HistoryWordGood
<1>7. cmd \notin Emptying =>
        /\ R(vi_undo_line(s)) /\ R(vi_to_history_line(s)) /\ R(ViMotion(cmd, s, c, more))
        /\ (cmd = "vi_histedit" => R(vi_histedit(s, more)))
  BY UndoLineGood, HistoryLineGoes, HisteditGoes, MotionGoes DEF LineOf
<1>8. cmd \in Emptying =>
        /\ R(vi_search_prev(s, more)) /\ R(vi_search_next(s, more))
        /\ R(vi_repeat_search_next(s)) /\ R(vi_repeat_search_prev(s))
  BY SearchesGo, RepeatsGo DEF LineOf
<1> HIDE DEF R
<1>9. R(Run(cmd, s, c, more))
  BY <1>2, <1>3, <1>4, <1>5, <1>6, <1>7, <1>8 DEF Run, Emptying
<1> QED
  BY <1>9 DEF R

\* The line that is started over is a new one.
LEMMA RunStartsOver ==
  ASSUME NEW s, Ready(s), NEW c, NEW more
  PROVE  Run("ed_start_over", s, c, more) = Done(ch_reset(s))
BY DEF Run, ViMotion, EmacsCommand, CommonCommand, ed_start_over

-----------------------------------------------------------------------------
(* read.c: the loop                                                        *)

\* What el_gets finds between two keys.
Settled(s) == Buffers(s) /\ Awaiting(s) /\ IF s.ret = "newline" THEN EndedLine(s) ELSE OnLine(s)
Standing(s) == s.astray \/ Settled(s)

\* A command is run from a line that is ready for it.
LEMMA LoopReady == ASSUME NEW s, Standing(s), InLoop(s) PROVE Ready(s)
BY DEF Standing, Settled, InLoop, Ready, Sound

\* The fields of the record that vi_redo uses are not among what the command needs.
Starts(s, t) ==
  /\ DOMAIN t = EditFields /\ DOMAIN t.redo = DOMAIN s.redo /\ t.redo.count = s.redo.count
  /\ \A x \in SoundFields \ {"redo"} : t[x] = s[x]

\* So the line is ready when they are.
LEMMA StartsReady ==
  ASSUME NEW s, Sound(s), NEW t, Starts(s, t)
  PROVE  /\ Sound(t) /\ t.line = s.line /\ t.cursor = s.cursor /\ t.event = s.event
         /\ t.saved = s.saved
<1>1. /\ t.line = s.line /\ t.cursor = s.cursor /\ t.size = s.size /\ t.kill = s.kill
      /\ t.undo = s.undo /\ t.saved = s.saved /\ t.mark = s.mark
      /\ t.chrdir = s.chrdir /\ t.event = s.event /\ DOMAIN t = EditFields
      /\ DOMAIN t.redo = DOMAIN s.redo /\ t.redo.count = s.redo.count
  BY DEF Starts, SoundFields
<1>2. Buffers(t)
  BY <1>1 DEF Sound, Buffers, Limit
<1> QED
  BY <1>1, <1>2, OnLineAs DEF Sound

LEMMA StartsJoin ==
  ASSUME NEW s, NEW t, NEW u, Starts(s, t), Starts(t, u) PROVE Starts(s, u)
BY DEF Starts

LEMMA TextStarts ==
  ASSUME NEW s, Sound(s), NEW text
  PROVE  /\ Starts(s, [s EXCEPT !.redo.text = text])
         /\ \A x \in EditFields \ {"redo"} : [s EXCEPT !.redo.text = text][x] = s[x]
<1> DEFINE q == [s.redo EXCEPT !.text = text]
           r == [s EXCEPT !.redo = q]
<1>1. DOMAIN q = DOMAIN s.redo /\ q.count = s.redo.count
  BY DEF Sound, Buffers
<1>2. [s EXCEPT !.redo.text = text] = r
  BY DEF Sound, Buffers, EditFields
<1> HIDE DEF q
<1>3. DOMAIN r = EditFields /\ r.redo = q /\ \A x \in EditFields \ {"redo"} : r[x] = s[x]
  BY DEF Sound, Buffers, EditFields
<1> HIDE DEF r
<1>4. SoundFields \subseteq EditFields
  BY DEF SoundFields, EditFields
<1> QED
  BY <1>1, <1>2, <1>3, <1>4 DEF Starts

\* The keys that are recorded (Recorded), and what vi_redo sets up (Started): its argument
\* is the count it recorded, and its operator starts from the cursor.
LEMMA RecordedStarts ==
  ASSUME NEW s, Sound(s), NEW cmd, NEW key
  PROVE  /\ Starts(s, Recorded(s, cmd, key))
         /\ \A x \in EditFields \ {"redo"} : Recorded(s, cmd, key)[x] = s[x]
         /\ Recorded(s, cmd, key).redo.cmd = s.redo.cmd
<1> DEFINE R(r) == /\ Starts(s, r) /\ \A x \in EditFields \ {"redo"} : r[x] = s[x]
                   /\ r.redo.cmd = s.redo.cmd
<1>1. R(s)
  BY DEF Starts, Sound, Buffers
<1>2. ASSUME NEW text PROVE R([s EXCEPT !.redo.text = text])
  <2>1. [s EXCEPT !.redo.text = text].redo.cmd = s.redo.cmd
    BY DEF Sound, Buffers, EditFields
  <2> QED
    BY <2>1, TextStarts
<1>3. [s EXCEPT !.redo.text = Append(@, key)] = [s EXCEPT !.redo.text = Append(s.redo.text, key)]
  BY DEF Sound, Buffers, EditFields
<1> HIDE DEF R
<1>4. R(Recorded(s, cmd, key))
  BY <1>1, <1>2, <1>3, Zenon DEF Recorded
<1> QED
  BY <1>4 DEF R

LEMMA StartedReady ==
  ASSUME NEW s, Ready(s), NEW cmd, NEW key
  PROVE  LET t == Started(s, cmd, key)
         IN  /\ Ready(t) /\ t.event = s.event /\ t.saved = s.saved /\ t.line = s.line
             /\ t.cmd = Asking(s, cmd)
<1> DEFINE a == Recorded(s, cmd, key)
           b == [a EXCEPT !.cmd = cmd, !.key = key]
           text == Redoable(b)
           c == [b EXCEPT !.redo.text = text]
           d == [c EXCEPT !.doing = b.doing \/ b.redo.count # 0,
                    !.arg = IF ~b.doing /\ b.redo.count # 0 THEN b.redo.count ELSE b.arg,
                    !.pos = b.cursor, !.pending = b.redo.action,
                    !.pushed = b.pushed \o text,
                    !.cmd = b.redo.cmd, !.key = b.redo.key]
           R(t) == /\ Ready(t) /\ t.event = s.event /\ t.saved = s.saved /\ t.line = s.line
                   /\ t.cmd = Asking(s, cmd)
<1>0. Sound(s) /\ Awaiting(s)
  BY DEF Ready
<1>1. /\ Starts(s, a) /\ (\A x \in EditFields \ {"redo"} : a[x] = s[x])
      /\ a.redo.cmd = s.redo.cmd
  BY <1>0, RecordedStarts
<1> HIDE DEF a
<1>2. /\ DOMAIN b = EditFields /\ b.cmd = cmd /\ b.redo = a.redo
      /\ \A x \in EditFields \ {"cmd", "key"} : b[x] = a[x]
  BY <1>1 DEF Starts, EditFields
<1> HIDE DEF b
<1>3. Starts(a, b)
  BY <1>2 DEF Starts, SoundFields, EditFields
<1>4. Starts(s, b)
  BY <1>1, <1>3, StartsJoin
<1>5. /\ Sound(b) /\ b.line = s.line /\ b.cursor = s.cursor /\ b.event = s.event
      /\ b.saved = s.saved
  BY <1>0, <1>4, StartsReady
<1>6. ASSUME cmd # "vi_redo" PROVE R(b)
  <2>1. b.arg = s.arg /\ b.pending = s.pending /\ b.pos = s.pos
    BY <1>1, <1>2 DEF EditFields
  <2> QED
    BY <1>0, <1>2, <1>5, <1>6, <2>1 DEF Ready, Awaiting, Asking
<1>7. ASSUME cmd = "vi_redo" PROVE R(Redone(b))
  <2>1. Redone(b) = d
    BY <1>2 DEF Redone, EditFields
  <2>2. Starts(b, c) /\ (\A x \in EditFields \ {"redo"} : c[x] = b[x])
    BY <1>5, TextStarts
  <2> HIDE DEF c
  <2>3. /\ DOMAIN d = EditFields /\ d.pos = b.cursor /\ d.cmd = b.redo.cmd /\ d.redo = c.redo
        /\ d.arg = IF ~b.doing /\ b.redo.count # 0 THEN b.redo.count ELSE b.arg
        /\ \A x \in SoundFields : d[x] = c[x]
    BY <2>2 DEF Starts, EditFields, SoundFields
  <2> HIDE DEF d
  <2>4. Starts(b, d)
    <3>1. Starts(c, d)
      BY <2>3 DEF Starts
    <3> QED
      BY <2>2, <3>1, StartsJoin
  <2>5. /\ Sound(d) /\ d.line = b.line /\ d.cursor = b.cursor /\ d.event = b.event
        /\ d.saved = b.saved
    BY <1>5, <2>4, StartsReady
  <2>6. d.arg \in Nat
    <3>1. b.arg = s.arg /\ b.redo.count \in Nat
      BY <1>1, <1>2, <1>5 DEF EditFields, Sound, Buffers
    <3> QED
      BY <1>0, <2>3, <3>1 DEF Awaiting
  <2>7. d.pos \in 0..Len(d.line)
    BY <1>5, <2>3, <2>5 DEF Sound, OnLine
  <2>8. d.cmd = Asking(s, cmd)
    BY <1>1, <1>2, <1>7, <2>3 DEF Asking
  <2> QED
    BY <1>5, <2>1, <2>5, <2>6, <2>7, <2>8 DEF Ready, Awaiting
<1>8. Started(s, cmd, key) = IF cmd = "vi_redo" THEN Redone(b) ELSE b
  BY DEF Started, b, a
<1> HIDE DEF R
<1>9. R(Started(s, cmd, key))
  BY <1>6, <1>7, <1>8
<1> QED
  BY <1>9 DEF R

\* A key that is taken from those that are pushed.
LEMMA PoppedReady ==
  ASSUME NEW s, Ready(s)
  PROVE  /\ Ready(Popped(s)) /\ Popped(s).event = s.event /\ Popped(s).saved = s.saved
         /\ Popped(s).line = s.line /\ Popped(s).redo = s.redo /\ Popped(s).cmd = s.cmd
<1> DEFINE t == Popped(s)
<1>0. Sound(s) /\ Awaiting(s) /\ DOMAIN s = EditFields
  BY DEF Ready, Sound, Buffers
<1>1. DOMAIN t = EditFields /\ \A x \in EditFields \ {"pushed"} : t[x] = s[x]
  BY <1>0 DEF Popped
<1> HIDE DEF t
<1>2. Alike(s, t)
  BY <1>1 DEF Alike, SoundFields, EditFields
<1>3. Sound(t)
  BY <1>0, <1>2, AlikeEdits DEF Edits
<1>4. /\ t.event = s.event /\ t.saved = s.saved /\ t.line = s.line /\ t.redo = s.redo
      /\ t.cmd = s.cmd /\ t.arg = s.arg /\ t.pending = s.pending /\ t.pos = s.pos
  BY <1>1 DEF EditFields
<1> QED
  BY <1>0, <1>3, <1>4 DEF Ready, Awaiting, t

\* The command, with the character it asks for.
LEMMA PerformGoes ==
  ASSUME NEW cmd, NEW s, Ready(s), NEW key, NEW more, cmd = "vi_histedit" => IsSeq(more)
  PROVE  /\ cmd # "ed_start_over" => Goes(s, LineOf(s, cmd), Perform(s, cmd, key, more))
         /\ cmd = "ed_start_over" => Perform(s, cmd, key, more) = Done(ch_reset(s))
<1> DEFINE c == CharOf(key)
           m == Getc(s, more)
           p == Popped(s)
<1>1. Perform(s, cmd, key, more) =
        IF cmd \in AsksCharacter THEN Run(cmd, p, c, m) ELSE Run(cmd, s, c, more)
  BY DEF Perform
<1> HIDE DEF c, m
<1>2. /\ Ready(p) /\ p.event = s.event /\ p.saved = s.saved /\ p.line = s.line
  BY PoppedReady
<1> HIDE DEF p
<1>3. ASSUME cmd # "ed_start_over", cmd \in AsksCharacter
      PROVE  Goes(s, LineOf(s, cmd), Run(cmd, p, c, m))
  <2>1. cmd # "vi_histedit"
    BY <1>3 DEF AsksCharacter
  <2>2. Goes(p, LineOf(p, cmd), Run(cmd, p, c, m))
    BY <1>2, <1>3, <2>1, RunGoes
  <2>3. LineOf(p, cmd) = LineOf(s, cmd)
    BY <1>2 DEF LineOf
  <2> QED
    BY <1>2, <2>2, <2>3 DEF Goes, Walks, KeptOf
<1>4. ASSUME cmd # "ed_start_over" PROVE Goes(s, LineOf(s, cmd), Run(cmd, s, c, more))
  BY <1>4, RunGoes
<1>5. ASSUME cmd = "ed_start_over"
      PROVE  cmd \notin AsksCharacter /\ Run(cmd, s, c, more) = Done(ch_reset(s))
  BY <1>5, RunStartsOver DEF AsksCharacter
<1> QED
  BY <1>1, <1>3, <1>4, <1>5

\* Behind it the argument and the operator are gone, unless it only took an argument.
LEMMA FinishedStands ==
  ASSUME NEW s, Fine(s), NEW cmd
  PROVE  LET r == Finished(s, cmd)
         IN  /\ Standing(r) /\ r.event = s.event /\ r.saved = s.saved /\ r.line = s.line
             /\ r.ret = s.ret /\ r.cmd = s.cmd
<1> DEFINE r == Finished(s, cmd)
           q == [s EXCEPT !.last = cmd, !.arg = 1, !.doing = FALSE, !.pending = None]
           p == [s EXCEPT !.last = cmd]
<1>0. DOMAIN s = EditFields
  BY DEF Fine, Buffers
<1>1. r = IF s.ret = "arghack" THEN p ELSE q
  BY DEF Finished
<1>2. /\ DOMAIN q = EditFields /\ q.arg = 1 /\ q.pending = None
      /\ \A x \in EditFields \ {"last", "arg", "doing", "pending"} : q[x] = s[x]
  BY <1>0 DEF EditFields
<1>3. DOMAIN p = EditFields /\ \A x \in EditFields \ {"last"} : p[x] = s[x]
  BY <1>0
<1> HIDE DEF p, q, r
<1>4. /\ DOMAIN r = EditFields
      /\ \A x \in EditFields \ {"last", "arg", "doing", "pending"} : r[x] = s[x]
  BY <1>1, <1>2, <1>3
<1>5. /\ r.line = s.line /\ r.cursor = s.cursor /\ r.size = s.size /\ r.kill = s.kill
      /\ r.undo = s.undo /\ r.saved = s.saved /\ r.redo = s.redo /\ r.mark = s.mark
      /\ r.chrdir = s.chrdir /\ r.event = s.event /\ r.ret = s.ret /\ r.cmd = s.cmd
      /\ r.astray = s.astray
  BY <1>4 DEF EditFields
<1>6. ASSUME Buffers(s), IF s.ret = "newline" THEN EndedLine(s) ELSE OnLine(s),
             s.ret = "arghack" => Awaiting(s)
      PROVE  Settled(r)
  <2>1. Buffers(r)
    BY <1>4, <1>5, <1>6 DEF Buffers, Limit
  <2>2. IF r.ret = "newline" THEN EndedLine(r) ELSE OnLine(r)
    BY <1>5, <1>6 DEF EndedLine, OnLine, Limit
  <2>3. CASE s.ret = "arghack"
    <3>1. r.arg = s.arg /\ r.pending = s.pending /\ r.pos = s.pos
      BY <1>1, <1>3, <2>3 DEF EditFields
    <3>2. Awaiting(r)
      BY <1>5, <1>6, <2>3, <3>1 DEF Awaiting
    <3> QED
      BY <2>1, <2>2, <3>2 DEF Settled
  <2>4. CASE s.ret # "arghack"
    <3>1. r.arg = 1 /\ r.pending = None
      BY <1>1, <1>2, <2>4
    <3>2. Awaiting(r)
      BY <3>1 DEF Awaiting
    <3> QED
      BY <2>1, <2>2, <3>2 DEF Settled
  <2> QED
    BY <2>3, <2>4
<1>7. Standing(r)
  BY <1>5, <1>6 DEF Fine, Standing
<1> QED
  BY <1>5, <1>7 DEF r

\* One round of the loop: cmd is what runs.
Rounds(s, cmd, r) ==
  /\ Standing(r)
  /\ cmd # "ed_start_over" => Walks(s, LineOf(s, cmd), r)
  /\ cmd = "ed_start_over" => r.cmd = cmd /\ r.event = 0

\* A round of the loop leads from between two keys to between two keys.
LEMMA ProcessedStands ==
  ASSUME NEW s, Ready(s), NEW key, NEW more,
         Asking(s, Command(s, key)) = "vi_histedit" => IsSeq(more)
  PROVE  Rounds(s, Asking(s, Command(s, key)), Processed(s, key, more))
<1> DEFINE cmd == Command(s, key)
           run == Asking(s, cmd)
           t == Started(s, cmd, key)
           r == Perform(t, t.cmd, t.key, more)
           q == Finished(r, cmd)
<1>1. Processed(s, key, more) = q
  BY DEF Processed
<1> HIDE DEF cmd
<1>2. /\ Ready(t) /\ t.event = s.event /\ t.saved = s.saved /\ t.line = s.line /\ t.cmd = run
  BY StartedReady
<1>0. run = "vi_histedit" => IsSeq(more)
  BY DEF cmd
<1> HIDE DEF t, run
<1>3. /\ run # "ed_start_over" => Goes(t, LineOf(t, run), r)
      /\ run = "ed_start_over" => r = Done(ch_reset(t))
  BY <1>0, <1>2, PerformGoes
<1> HIDE DEF r
<1>4. ASSUME run = "ed_start_over" PROVE Fine(r) /\ r.event = 0 /\ r.cmd = run
  <2>1. Buffers(t) /\ DOMAIN t = EditFields
    BY <1>2 DEF Ready, Sound, Buffers
  <2>2. Done(ch_reset(t)).cmd = t.cmd
    BY <2>1 DEF Done, ch_reset, EditFields
  <2> QED
    BY <1>2, <1>3, <1>4, <2>1, <2>2, ResetSound
<1>5. Fine(r)
  BY <1>3, <1>4 DEF Goes
<1>6. /\ Standing(q) /\ q.event = r.event /\ q.saved = r.saved /\ q.line = r.line
      /\ q.ret = r.ret /\ q.cmd = r.cmd
  BY <1>5, FinishedStands
<1> HIDE DEF q
<1>7. run # "ed_start_over" => Walks(s, LineOf(s, run), q)
  BY <1>2, <1>3, <1>6 DEF Goes, Walks, KeptOf, LineOf
<1> QED
  BY <1>1, <1>4, <1>6, <1>7 DEF Rounds, run, cmd

\* A new EditLine is ready (ch_init).
LEMMA InitReady == ASSUME NEW type PROVE Ready(ch_init(type)) /\ ch_init(type).event = 0
<1> DEFINE s == ch_init(type)
           k == 0
           l == <<>>
<1>0. IsSeq(l) /\ Len(l) = 0 /\ k \in 0..Len(l) /\ Limit(s) \in Nat /\ Limit(s) > 0
      /\ BufSiz \in Nat /\ BufSiz <= MaxSize
  BY EmptyIsSeq, LineEditAssumption DEF ch_init, Limit, Leave
<1>1. /\ DOMAIN s = EditFields /\ DOMAIN s.redo = {"count", "action", "cmd", "key", "text"}
      /\ s.line = l /\ s.cursor = k /\ s.size = BufSiz /\ s.kill = l /\ s.mark = 0
      /\ s.undo.kept = FALSE /\ s.redo.count = 0 /\ s.saved = l /\ s.event = 0 /\ s.chrdir = 1
      /\ s.arg = 1 /\ s.pending = None
  BY DEF ch_init, EditFields, NoUndo
<1> HIDE DEF s, k, l
<1>2. Buffers(s)
  BY <1>0, <1>1 DEF Buffers, MarkPlaces
<1>3. OnLine(s) /\ Awaiting(s)
  BY <1>0, <1>1 DEF OnLine, Awaiting
<1>4. Ready(s) /\ s.event = 0
  BY <1>1, <1>2, <1>3 DEF Ready, Sound
<1> QED
  BY <1>4 DEF s

LEMMA ReadyStands == ASSUME NEW s, Ready(s), s.ret # "newline" PROVE Standing(s)
BY DEF Ready, Sound, Standing, Settled

\* What has been typed before leaves the loop between two keys.
LEMMA RetypedStands ==
  ASSUME NEW s, Standing(s), NEW keys, Len(keys) \in Nat PROVE Standing(Retyped(s, keys))
<1> DEFINE n == Len(keys)
           St(i, x) == IF InLoop(x) /\ Asking(x, Command(x, keys[i])) \notin AsksMore
                         THEN Processed(x, keys[i], None)
                       ELSE x
           Def(g, k) == g = [i \in 0..k |-> IF i = 0 THEN s ELSE St(i, g[i - 1])]
           e == CHOOSE g : Def(g, n)
<1>1. Retyped(s, keys) = e[n]
  BY DEF Retyped
<1>2. ASSUME NEW x, Standing(x), NEW i PROVE Standing(St(i, x))
  <2> DEFINE key == keys[i]
             none == None
  <2>1. ASSUME InLoop(x), Asking(x, Command(x, key)) \notin AsksMore
        PROVE  Standing(Processed(x, key, none))
    <3>1. Ready(x)
      BY <1>2, <2>1, LoopReady
    <3>2. Asking(x, Command(x, key)) # "vi_histedit"
      BY <2>1 DEF AsksMore, AsksText
    <3> HIDE DEF key, none
    <3>3. Rounds(x, Asking(x, Command(x, key)), Processed(x, key, none))
      BY <3>1, <3>2, ProcessedStands
    <3> QED
      BY <3>3 DEF Rounds
  <2> QED
    BY <1>2, <2>1, Zenon
<1> HIDE DEF St
<1> DEFINE S == {k \in 0..n : \E g : Def(g, k)}
<1>3. 0 \in S
  <2> DEFINE g == [i \in 0..0 |-> s]
  <2>1. g = [i \in 0..0 |-> IF i = 0 THEN s ELSE St(i, g[i - 1])]
    OBVIOUS
  <2>2. Def(g, 0)
    BY <2>1
  <2> HIDE DEF Def
  <2>3. \E q : Def(q, 0)
    BY <2>2
  <2> QED
    BY <2>3
<1>4. ASSUME NEW k \in 1..n, k - 1 \in S PROVE k \in S
  <2>1. PICK g : Def(g, k - 1)
    BY <1>4
  <2> DEFINE h == [i \in 0..k |-> IF i = k THEN St(k, g[k - 1]) ELSE g[i]]
  <2>2. \A i \in 0..k - 1 : g[i] = IF i = 0 THEN s ELSE St(i, g[i - 1])
    BY <2>1, Zenon
  <2>3. \A i \in 0..k - 1 : h[i] = g[i]
    OBVIOUS
  <2>4. h[k] = St(k, g[k - 1]) /\ h = [i \in 0..k |-> h[i]]
    OBVIOUS
  <2> HIDE DEF h
  <2>5. ASSUME NEW i \in 0..k PROVE h[i] = IF i = 0 THEN s ELSE St(i, h[i - 1])
    <3>1. CASE i = k
      <4>1. i # 0 /\ i - 1 \in 0..k - 1
        BY <3>1
      <4>2. h[i - 1] = g[k - 1]
        BY <2>3, <3>1, <4>1
      <4> QED
        BY <2>4, <3>1, <4>1, <4>2
    <3>2. CASE i # k
      <4>1. i \in 0..k - 1 /\ (i # 0 => i - 1 \in 0..k - 1)
        BY <3>2
      <4>2. h[i] = g[i] /\ (i # 0 => h[i - 1] = g[i - 1])
        BY <2>3, <4>1
      <4> QED
        BY <2>2, <4>1, <4>2
    <3> QED
      BY <3>1, <3>2
  <2>6. [i \in 0..k |-> h[i]] = [i \in 0..k |-> IF i = 0 THEN s ELSE St(i, h[i - 1])]
    BY <2>5, Zenon
  <2>7. Def(h, k)
    BY <2>4, <2>6, Zenon
  <2> HIDE DEF Def
  <2>8. k \in 0..n /\ \E q : Def(q, k)
    BY <2>7
  <2> QED
    BY <2>8
<1>5. n \in S
  <2>1. n \in Nat
    OBVIOUS
  <2> HIDE DEF n, S
  <2>2. \A i \in 0..n : i \in S
    BY <1>3, <1>4, <2>1, Induction
  <2> QED
    BY <2>1, <2>2
<1>6. Def(e, n)
  BY <1>5, Zenon
<1>7. \A i \in 0..n : e[i] = IF i = 0 THEN s ELSE St(i, e[i - 1])
  BY <1>6, Zenon
<1> HIDE DEF e, S, Def
<1> DEFINE T == {i \in 0..n : Standing(e[i])}
<1>8. 0 \in T
  BY <1>7
<1>9. ASSUME NEW i \in 1..n, i - 1 \in T PROVE i \in T
  <2>1. i \in 0..n /\ i # 0
    OBVIOUS
  <2>2. e[i] = St(i, e[i - 1])
    BY <1>7, <2>1
  <2>3. Standing(e[i - 1])
    BY <1>9
  <2> QED
    BY <1>2, <2>1, <2>2, <2>3
<1>10. n \in T
  <2>1. n \in Nat
    OBVIOUS
  <2> HIDE DEF n, T
  <2>2. \A i \in 0..n : i \in T
    BY <1>8, <1>9, <2>1, Induction
  <2> QED
    BY <2>1, <2>2
<1> QED
  BY <1>1, <1>10

-----------------------------------------------------------------------------
(* The invariant of the editor                                             *)

\* The loop is between two keys, and what is kept for the end of a walk in the history
\* is the line that the user left for it.
EditorInvariant ==
  Standing(ed) /\ (~ed.astray /\ ed.event # 0 => ed.saved = KeptLine(left))

\* It holds at first, whatever has been typed before,
LEMMA EditorInitially == EditorInit => EditorInvariant
<1> SUFFICES ASSUME EditorInit PROVE EditorInvariant
  OBVIOUS
<1>1. PICK t \in TypedLines : ed = Retyped(ch_init(t[1]), t[2])
  BY DEF EditorInit
<1>2. Len(t[2]) \in Nat
  BY EditorAssumption
<1> DEFINE s == ch_init(t[1])
           keys == t[2]
<1>3. Standing(s)
  <2>1. s.ret = "done"
    BY DEF ch_init
  <2>2. Ready(s)
    BY InitReady
  <2> HIDE DEF s
  <2> QED
    BY <2>1, <2>2, ReadyStands
<1> HIDE DEF s, keys
<1>4. Standing(Retyped(s, keys))
  BY <1>2, <1>3, RetypedStands DEF keys
<1>5. ed.event = 0
  BY DEF EditorInit
<1> QED
  BY <1>1, <1>4, <1>5 DEF EditorInvariant, s, keys

\* A key is read, and left is the line that the walk in the history started from.
LEMMA ReadsStands ==
  ASSUME NEW s, Ready(s), NEW key, Reads(s, key), ed.event = s.event, ed.line = s.line
  PROVE  /\ Rounds(s, Asking(s, Command(s, key)), ed')
         /\ left' = IF ed'.event = 0 THEN Unset
                    ELSE IF ed.event # 0 THEN left
                    ELSE LineOf(s, Asking(s, Command(s, key)))
<1> DEFINE run == Asking(s, Command(s, key))
<1>1. PICK more \in MoreFor(s, Command(s, key)) :
        /\ ed' = Processed(s, key, more)
        /\ left' = IF ed'.event = 0 THEN Unset
                   ELSE IF ed.event # 0 THEN left
                   ELSE IF run \in Emptying THEN <<>> ELSE ed.line
  BY DEF Reads
<1>2. run = "vi_histedit" => IsSeq(more)
  <2> SUFFICES ASSUME run = "vi_histedit" PROVE IsSeq(more)
    OBVIOUS
  <2>1. run \notin AsksCharacter /\ run \notin AsksString /\ run \in AsksText
    BY DEF AsksCharacter, AsksString, AsksText
  <2>2. MoreFor(s, Command(s, key)) = EditedTexts
    BY <2>1 DEF MoreFor
  <2>3. more \in Seq(Chars)
    BY <2>2, EditorAssumption
  <2> QED
    BY <2>3 DEF IsSeq
<1>3. Rounds(s, run, Processed(s, key, more))
  BY <1>2, ProcessedStands
<1> HIDE DEF run
<1>4. Rounds(s, run, ed')
  BY <1>1, <1>3, Zenon
<1>5. (IF run \in Emptying THEN <<>> ELSE ed.line) = LineOf(s, run)
  BY DEF LineOf
<1> QED
  BY <1>1, <1>4, <1>5 DEF run

\* What a round leaves of the invariant.
LEMMA RoundKeeps ==
  ASSUME EditorInvariant, NEW s, NEW cmd, Rounds(s, cmd, ed'),
         ~ed.astray, ed.event = s.event, ed.saved = s.saved,
         left' = IF ed'.event = 0 THEN Unset
                 ELSE IF ed.event # 0 THEN left
                 ELSE LineOf(s, cmd)
  PROVE  EditorInvariant'
<1>1. Standing(ed')
  BY DEF Rounds
<1>2. ASSUME ed'.event # 0 PROVE ed'.saved = KeptLine(left')
  <2>1. cmd # "ed_start_over"
    BY <1>2 DEF Rounds
  <2>2. ed'.saved = KeptOf(s, LineOf(s, cmd))
    BY <1>2, <2>1 DEF Rounds, Walks
  <2>3. CASE ed.event = 0
    BY <1>2, <2>2, <2>3 DEF KeptOf
  <2>4. CASE ed.event # 0
    BY <1>2, <2>2, <2>4 DEF KeptOf, EditorInvariant
  <2> QED
    BY <2>3, <2>4
<1> QED
  BY <1>1, <1>2 DEF EditorInvariant

\* Either way that a key comes to the loop, it is read from an EditLine that stands.
LEMMA KeysAreRead ==
  ASSUME EditorInvariant, Type \/ ReadPushed
  PROVE  \E s, key : /\ Ready(s) /\ Reads(s, key) /\ InLoop(ed)
                     /\ ed.event = s.event /\ ed.line = s.line /\ ed.saved = s.saved
<1>1. CASE Type
  <2>1. InLoop(ed) /\ \E k \in TypedKeys : Reads(ed, k[2])
    BY <1>1 DEF Type
  <2>2. Ready(ed)
    BY <2>1, LoopReady DEF EditorInvariant
  <2> QED
    BY <2>1, <2>2
<1>2. CASE ReadPushed
  <2> DEFINE s == Popped(ed)
             key == Head(ed.pushed)
  <2>1. InLoop(ed) /\ Reads(s, key)
    BY <1>2 DEF ReadPushed
  <2>2. Ready(ed)
    BY <2>1, LoopReady DEF EditorInvariant
  <2>3. Ready(s) /\ s.event = ed.event /\ s.saved = ed.saved /\ s.line = ed.line
    BY <2>2, PoppedReady
  <2> HIDE DEF s, key
  <2> QED
    BY <2>1, <2>3
<1> QED
  BY <1>1, <1>2

\* and every step keeps it.
LEMMA EditorStep == EditorInvariant /\ [EditorNext]_editorVars => EditorInvariant'
<1> SUFFICES ASSUME EditorInvariant, [EditorNext]_editorVars PROVE EditorInvariant'
  OBVIOUS
<1>1. CASE Type \/ ReadPushed
  <2>1. PICK s, key : /\ Ready(s) /\ Reads(s, key) /\ InLoop(ed)
                      /\ ed.event = s.event /\ ed.line = s.line /\ ed.saved = s.saved
    BY <1>1, KeysAreRead
  <2>2. /\ Rounds(s, Asking(s, Command(s, key)), ed')
        /\ left' = IF ed'.event = 0 THEN Unset
                   ELSE IF ed.event # 0 THEN left
                   ELSE LineOf(s, Asking(s, Command(s, key)))
    BY <2>1, ReadsStands
  <2>3. ~ed.astray
    BY <2>1 DEF InLoop
  <2> QED
    BY <2>1, <2>2, <2>3, RoundKeeps
<1>2. CASE el_gets
  <2>1. Buffers(ed) /\ ed' = Done(ch_reset(ed))
    BY <1>2 DEF el_gets, EditorInvariant, Standing, Settled
  <2>2. Ready(ed') /\ ed'.event = 0 /\ ed'.ret = "done"
    BY <2>1, ResetSound
  <2>3. Standing(ed')
    BY <2>2, ReadyStands
  <2> QED
    BY <2>2, <2>3 DEF EditorInvariant
<1>3. CASE UNCHANGED editorVars
  BY <1>3 DEF EditorInvariant, editorVars, Standing, Settled, Buffers, Awaiting, EndedLine, OnLine, Limit
<1> QED
  BY <1>1, <1>2, <1>3 DEF EditorNext

\* It puts everything in its buffer.
LEMMA EditorInBounds == EditorInvariant => InBounds
<1> SUFFICES ASSUME EditorInvariant, ~ed.astray PROVE InBounds
  BY DEF InBounds
<1>1. Settled(ed)
  BY DEF EditorInvariant, Standing
<1>2. Buffers(ed) /\ Awaiting(ed)
  BY <1>1 DEF Settled
<1>3. Limit(ed) \in Nat /\ IsSeq(ed.line) /\ Len(ed.line) <= Limit(ed) /\ ed.cursor \in 0..Len(ed.line)
  <2>1. Limit(ed) \in Nat
    BY <1>2, LimitIs
  <2>2. EndedLine(ed) \/ OnLine(ed)
    BY <1>1 DEF Settled
  <2>3. IsSeq(ed.line) /\ (Len(ed.line) <= Limit(ed) \/ Len(ed.line) < Limit(ed))
        /\ ed.cursor \in 0..Len(ed.line)
    BY <2>2 DEF EndedLine, OnLine
  <2>4. Len(ed.line) \in Nat
    BY <2>3, SeqIs
  <2> QED
    BY <2>1, <2>3, <2>4
<1>4. ed.undo.kept => ed.undo.cursor \in 0..Len(ed.undo.line) /\ Len(ed.undo.line) <= Limit(ed)
  <2> SUFFICES ASSUME ed.undo.kept
               PROVE  ed.undo.cursor \in 0..Len(ed.undo.line) /\ Len(ed.undo.line) <= Limit(ed)
    OBVIOUS
  <2>1. /\ IsSeq(ed.undo.line) /\ Len(ed.undo.line) < Limit(ed)
        /\ ed.undo.cursor \in 0..Len(ed.undo.line)
    BY <1>2 DEF Buffers
  <2>2. Len(ed.undo.line) \in Nat
    BY <2>1, SeqIs
  <2> QED
    BY <1>3, <2>1, <2>2
<1>5. Past # <<>> => ed.event \in 0..Len(Past)
  <2>1. Len(Past) \in Nat
    BY LineEditAssumption, LenProperties
  <2> QED
    BY <1>2, <2>1 DEF Buffers
<1>6. ed.size <= MaxSize /\ Len(ed.kill) <= Limit(ed) /\ (ed.pending # None => ed.pos \in 0..Len(ed.line))
  BY <1>2 DEF Buffers, Awaiting
<1> QED
  BY <1>3, <1>4, <1>5, <1>6 DEF InBounds

\* So it always holds.
LEMMA EditorInvariantHolds == EditorSpec => []EditorInvariant
BY EditorInitially, EditorStep, PTL DEF EditorSpec

\* chared.c and the commands: the cursor, the undo and the cut buffer, the start of an
\* operator and the line of the history that is shown are where the line, the buffers and
\* the history have them, for any history, keys, bindings, answers and buffer sizes.
THEOREM EditorStaysInBounds == EditorSpec => []InBounds
BY EditorInvariantHolds, EditorInBounds, PTL

\* Of one step.
Returned ==
  ed.event > 0 /\ ed'.event = 0 /\ InLoop(ed) /\ ed'.ret # "newline" /\ ed'.cmd # "ed_start_over" =>
    ed'.line = KeptLine(left)

\* A step that leaves the history does so by hist_get, with what is kept as the line.
LEMMA EditorReturns == EditorInvariant /\ [EditorNext]_editorVars => [Returned]_editorVars
<1> SUFFICES ASSUME EditorInvariant, EditorNext, ed.event > 0, ed'.event = 0, InLoop(ed),
                    ed'.ret # "newline", ed'.cmd # "ed_start_over"
             PROVE  ed'.line = KeptLine(left)
  BY DEF Returned
<1>1. ~el_gets
  BY DEF el_gets, InLoop
<1>2. Type \/ ReadPushed
  BY <1>1 DEF EditorNext
<1>3. PICK s, key : /\ Ready(s) /\ Reads(s, key) /\ InLoop(ed)
                    /\ ed.event = s.event /\ ed.line = s.line /\ ed.saved = s.saved
  BY <1>2, KeysAreRead
<1> DEFINE cmd == Asking(s, Command(s, key))
<1>4. Rounds(s, cmd, ed')
  BY <1>3, ReadsStands
<1> HIDE DEF cmd
<1>5. s.event \in Nat /\ s.event # 0
  BY <1>3, ReadyIs
<1>6. Walks(s, LineOf(s, cmd), ed')
  BY <1>4 DEF Rounds
<1>7. ed'.line = s.saved
  BY <1>5, <1>6 DEF Walks
<1>8. ed.saved = KeptLine(left)
  BY <1>3, <1>5 DEF EditorInvariant, InLoop
<1> QED
  BY <1>3, <1>7, <1>8

\* hist.c, hist_get: who comes back from the history finds the line as it was left, by
\* whichever of the commands, and with whichever they went.
THEOREM EditorReturnsToTyped == EditorSpec => ReturnsToTyped
<1>1. EditorInvariant /\ [EditorNext]_editorVars => [Returned]_editorVars
  BY EditorReturns
<1> QED
  BY <1>1, EditorInvariantHolds, PTL DEF EditorSpec, ReturnsToTyped, Returned

================================================================================
