---------------------------------- MODULE Tty ----------------------------------
(***************************************************************************)
(* The terminal under el_gets: tty.c switches it between the settings of   *)
(* the program and those of the editor and follows what the user changes   *)
(* meanwhile, sig.c does so when a signal stops, ends or resumes the       *)
(* program in the middle of a line, read.c retries what a signal has       *)
(* interrupted.  A signal may come between any two steps.                  *)
(*                                                                         *)
(* Settings (termios) are four sets of bits and the control characters.    *)
(***************************************************************************)
EXTENDS Naturals, Sequences

CONSTANTS
  Original,       \* the settings of the terminal before el_init
  UserBits,       \* <<word, bit>>: what the user switches, from a shell for instance
  UserChars,      \* <<function, character>>: the characters the user sets
  SettyBits,      \* <<mode, word, bit, sign>>: what the program passes to setty
  SettyChars,     \* <<mode, function, character>>: the same
  MaxCalls, MaxSignals, MaxChanges  \* bounds: lines read, signals, changes of settings

Words == {"iflag", "oflag", "cflag", "lflag"}
Functions == {"erase", "werase", "susp", "dsusp", "min"}  \* those that are told apart
c_cc == Functions \ {"dsusp"}                             \* what the terminal has of them
Off == "off"                                              \* _POSIX_VDISABLE
Signals == {"INT", "TSTP", "CONT", "WINCH"}      \* HUP, QUIT and TERM are as INT

ASSUME TtyAssumption ==
  /\ MaxCalls \in Nat /\ MaxSignals \in Nat /\ MaxChanges \in Nat
  /\ DOMAIN Original = Words \cup {"cc"}
  /\ \A u \in UserBits : u[1] \in Words
  /\ \A u \in UserChars : u[1] \in c_cc
  /\ \A y \in SettyBits \cup SettyChars : y[1] \in {"ex", "ed"}
  /\ \A y \in SettyChars : y[2] \in c_cc

\* The terminal is in canonical mode when the program starts, and neither the user nor
\* setty takes it out of that mode: the library is answerable for what it changes itself.
ASSUME CanonicalAssumption ==
  /\ "ICANON" \in Original.lflag
  /\ \A u \in UserBits : u[2] # "ICANON"
  /\ \A y \in SettyBits : y[3] # "ICANON"

VARIABLES
  term,      \* the settings the terminal has
  tty,       \* el_tty, with the flag EDIT_DISABLED
  disp,      \* who handles each signal: "handler" of sig.c, "caught" by the program, "default"
  sig,       \* el_signal: [no, saved]
  pc,        \* where el_gets is
  read,      \* read_char: [quoted, tried, eintr]
  status,    \* "running", "stopped", "dead" or "ended", after el_end
  want,      \* the settings the user or the program last asked for, those unnoticed, and
             \* how the program has each signal handled
  missed,    \* a signal, or the builtin edit, came where the code is not ready for it
  count      \* [calls, signals, changes] so far

vars == <<term, tty, disp, sig, pc, read, status, want, missed, count>>

-----------------------------------------------------------------------------
(* tty.c *)

Perm(set, clr) == [set |-> set, clr |-> clr]

ttyperm ==
  [ex |-> [iflag |-> Perm({"ICRNL"}, {"INLCR", "IGNCR"}),
           oflag |-> Perm({"OPOST", "ONLCR"}, {"ONLRET"}),
           cflag |-> Perm({}, {}),
           lflag |-> Perm({"ISIG", "ICANON", "ECHO", "ECHOE", "ECHOCTL", "IEXTEN"},
                          {"NOFLSH", "ECHONL", "EXTPROC", "FLUSHO"}),
           chars |-> Perm({}, {})],
   ed |-> [iflag |-> Perm({"INLCR", "ICRNL"}, {"IGNCR"}),
           oflag |-> Perm({"OPOST", "ONLCR"}, {"ONLRET"}),
           cflag |-> Perm({}, {}),
           lflag |-> Perm({"ISIG"}, {"NOFLSH", "ICANON", "ECHO", "ECHOK", "ECHONL", "EXTPROC",
                                     "IEXTEN", "FLUSHO"}),
           chars |-> Perm({"min", "susp", "dsusp"}, {})],
   qu |-> [iflag |-> Perm({}, {"IXON", "IXOFF", "INLCR", "ICRNL"}),
           oflag |-> Perm({}, {}),
           cflag |-> Perm({}, {}),
           lflag |-> Perm({}, {"ISIG", "IEXTEN"}),
           chars |-> Perm({}, {})]]

ttychar ==
  [ex |-> [erase |-> "C-?", werase |-> "C-w", susp |-> "C-z", dsusp |-> "C-y", min |-> Off],
   ed |-> [erase |-> "C-?", werase |-> Off, susp |-> "C-z", dsusp |-> Off, min |-> "1"]]

Zero == [w \in Words \cup {"cc"} |-> IF w = "cc" THEN [f \in c_cc |-> Off] ELSE {}]

\* A function the terminal lacks keeps the zero of t_c[TS_IO].
tty__getchar(td) == [f \in Functions |-> IF f \in c_cc THEN td.cc[f] ELSE Off]
tty__setchar(td, c) == [td EXCEPT !.cc = [f \in c_cc |-> c[f]]]

tty__cooked_mode(x) == "ICANON" \in x.lflag

Masked(bits, p) == (bits \ p.clr) \cup p.set
MaskedWords(x, perm) == [w \in DOMAIN x |-> IF w = "cc" THEN x[w] ELSE Masked(x[w], perm[w])]

\* tty_setup: characters the user has disabled are enabled for the program, those
\* the editor has disabled stay so, and CMIN is the editor's own.
tty_setup(t, x) ==
  LET ts == tty__getchar(x)
      SetIn(mode, f) == ts[f] # Off /\ (mode = "ed" => t.c.ed[f] # Off /\ f # "min")
      c == IF tty__cooked_mode(x)
           THEN [mode \in {"ex", "ed"} |->
                   [f \in Functions |-> IF SetIn(mode, f) THEN ts[f] ELSE t.c[mode][f]]]
           ELSE t.c
  IN  [t EXCEPT !.or = x, !.c = c,
                !.ex = tty__setchar(MaskedWords(x, t.perm.ex), c.ex),
                !.ed = tty__setchar(MaskedWords(x, t.perm.ed), c.ed)]

\* With EDIT_DISABLED set already, as terminal_set does for TERM=emacs, nothing is read.
tty_init(disabled) ==
  LET t == [mode |-> "ex", or |-> Zero, ex |-> Zero, ed |-> Zero, c |-> ttychar,
            perm |-> ttyperm, disabled |-> disabled]
  IN  IF disabled THEN t ELSE tty_setup(t, Original)

\* What tty_rawmode believes of the settings x it finds, which are those of a cooked
\* terminal: a word that is neither what the program nor what the editor uses, ...
Noticed(t, x, w) == x[w] # t.ex[w] /\ (w # "cflag" => x[w] # t.ed[w])
Followed(t, x, mode) ==
  [w \in DOMAIN x |-> IF w # "cc" /\ Noticed(t, x, w) THEN Masked(x[w], t.perm[mode][w])
                      ELSE t[mode][w]]

\* ... and each character that is not what the program's was.
FollowedChars(t, ts, mode) ==
  [f \in Functions |->
     IF f \in t.perm[mode].chars.clr THEN Off
     ELSE IF f \notin t.perm[mode].chars.set /\ ts[f] # t.c.ex[f] THEN ts[f]
     ELSE t.c[mode][f]]

\* What is taken over of the settings x.
BelieveAll(t, x) ==
  LET ts == tty__getchar(x)
      c == [mode \in {"ex", "ed"} |-> FollowedChars(t, ts, mode)]
      Keep(mode) == IF ts # t.c.ex THEN tty__setchar(Followed(t, x, mode), c[mode])
                    ELSE Followed(t, x, mode)
  IN  [t EXCEPT !.ex = Keep("ex"), !.ed = Keep("ed"), !.c = IF ts # t.c.ex THEN c ELSE @]

\* "But we only believe changes that are made to cooked mode!"
Believe(t, x) == IF tty__cooked_mode(x) THEN BelieveAll(t, x) ELSE t

\* Whether tty_rawmode and tty_cookedmode do anything.
GoesRaw(t) == t.mode = "ex" /\ ~t.disabled
\* Mutant: a quoted character is left raw.
GoesCookedOnce(t) == t.mode = "ed" /\ ~t.disabled

GoesCooked(t) == t.mode # "ex" /\ ~t.disabled
-----------------------------------------------------------------------------
(* sig.c *)

\* Mutant: the library's handler is kept like any other.
sig_setKeepsAny ==
  /\ disp' = [i \in Signals |-> "handler"]
  /\ sig' = [sig EXCEPT !.saved = disp]

\* The program's handlers are kept, and the library's own never taken for one of them.
sig_set ==
  /\ disp' = [i \in Signals |-> "handler"]
  /\ sig' = [sig EXCEPT !.saved = [i \in Signals |-> IF disp[i] = "handler" THEN @[i] ELSE disp[i]]]

sig_clr ==
  /\ disp' = [i \in Signals |-> IF sig.saved[i] = "err" THEN disp[i] ELSE sig.saved[i]]
  /\ UNCHANGED sig

\* What the handler does to the terminal: as tty_rawmode, as tty_cookedmode, or nothing.
TerminalFor(i) ==
  CASE i = "CONT" /\ GoesRaw(tty) ->
         LET t == Believe(tty, term) IN [tty |-> [t EXCEPT !.mode = "ed"], term |-> t.ed]
    [] i \in {"INT", "TSTP"} /\ GoesCooked(tty) ->
         [tty |-> [tty EXCEPT !.mode = "ex"], term |-> tty.ex]
    [] OTHER -> [tty |-> tty, term |-> term]

Default(i, st) == IF i = "INT" THEN "dead" ELSE IF i = "TSTP" THEN "stopped" ELSE st

\* The signal is handled, its handler given back, and the signal sent again.
sig_handler(i) ==
  /\ tty' = TerminalFor(i).tty
  /\ term' = TerminalFor(i).term
  /\ disp' = [disp EXCEPT ![i] = sig.saved[i]]
  /\ sig' = [no |-> i, saved |-> [sig.saved EXCEPT ![i] = "err"]]
  /\ status' = IF sig.saved[i] = "default" THEN Default(i, "running") ELSE "running"
  /\ read' = [read EXCEPT !.eintr = (pc = "reading") \/ @]

\* Between setting the terminal and saying so.
Marking == {"marking first", "marking", "quoting", "unquoting"}

\* A signal that stops or ends the program meets no handler, or one that is misled by
\* t_mode; one that resumes it meets a handler after the line has been read.
Misses(i) ==
  \/ i \in {"INT", "TSTP"} /\ ~tty__cooked_mode(term) /\ (disp[i] # "handler" \/ pc \in Marking)
  \/ i = "CONT" /\ disp[i] = "handler" /\ pc \in {"idle", "clearing"}

Signal(i) ==
  /\ status = "running"
  /\ count.signals < MaxSignals
  /\ count' = [count EXCEPT !.signals = @ + 1]
  /\ missed' = (missed \/ Misses(i))
  /\ \/ disp[i] = "handler" /\ sig_handler(i)
     \/ /\ disp[i] = "default" /\ i \in {"INT", "TSTP"}
        /\ status' = Default(i, status)
        /\ UNCHANGED <<tty, term, disp, sig, read>>
     \/ /\ disp[i] = "caught" /\ pc = "reading"
        /\ read' = [read EXCEPT !.eintr = TRUE]
        /\ UNCHANGED <<tty, term, disp, sig, status>>
  /\ UNCHANGED <<pc, want>>

Resume ==
  /\ status = "stopped"
  /\ missed' = (missed \/ Misses("CONT"))
  /\ IF disp["CONT"] = "handler" THEN sig_handler("CONT")
     ELSE status' = "running" /\ UNCHANGED <<tty, term, disp, sig, read>>
  /\ UNCHANGED <<pc, want, count>>

-----------------------------------------------------------------------------
(* The user, who may change the settings while the program does not read *)

\* A word set to what the editor uses goes unnoticed, so do the characters set back to
\* those the program had before setty, and so does every change made while t_mode says,
\* or is about to say, that the terminal is raw: no cooked one is looked for then.
Unnoticed(x) ==
  IF pc \in Marking \/ tty.mode # "ex" THEN DOMAIN x
  ELSE {w \in Words \ {"cflag"} : x[w] = tty.ed[w] /\ x[w] # tty.ex[w]}
         \cup {w \in {"cc"} : tty__getchar(x) = tty.c.ex /\ x.cc # tty.ex.cc}

UserSets(x) ==
  /\ status = "stopped" \/ (status = "running" /\ pc = "idle")
  /\ count.changes < MaxChanges
  /\ tty__cooked_mode(term)
  /\ term' = x
  /\ want' = [want EXCEPT !.set = x, !.unnoticed = Unnoticed(x)]
  /\ count' = [count EXCEPT !.changes = @ + 1]
  /\ UNCHANGED <<tty, disp, sig, pc, read, status, missed>>

Switched(bits, b) == IF b \in bits THEN bits \ {b} ELSE bits \cup {b}
UserChanges ==
  \/ \E u \in UserBits : UserSets([term EXCEPT ![u[1]] = Switched(@, u[2])])
  \/ \E u \in UserChars : UserSets([term EXCEPT !.cc[u[1]] = u[2]])

-----------------------------------------------------------------------------
(* The program: el_set between two lines, and el_end *)

Idle == status = "running" /\ pc = "idle"

\* What setty leaves in the terminal, if the mode it is for is the one the terminal is
\* in: all zero, if they have never been read.
Stty(t, mode) ==
  /\ Idle
  /\ count.changes < MaxChanges
  /\ tty' = t
  /\ term' = IF tty.mode = mode THEN t[mode] ELSE term
  /\ want' = IF mode = "ex" THEN [want EXCEPT !.set = t.ex] ELSE want
  /\ count' = [count EXCEPT !.changes = @ + 1]
  /\ UNCHANGED <<disp, sig, pc, read, status, missed>>

\* Of the names setty takes, those of the modes that are told apart.
ttymodes ==
  ({"iflag"} \X {"INLCR", "IGNCR", "ICRNL", "IXON", "IXOFF"})
    \cup ({"oflag"} \X {"OPOST", "ONLCR", "ONLRET"})
    \cup ({"cflag"} \X {"CSTOPB"})
    \cup ({"lflag"} \X {"ISIG", "ICANON", "ECHO", "ECHOE", "ECHOK", "ECHONL", "ECHOCTL",
                         "NOFLSH", "TOSTOP", "IEXTEN", "FLUSHO", "EXTPROC"})

Signed(p, bit, sign) ==
  Perm(IF sign = "+" THEN p.set \cup {bit} ELSE p.set \ {bit},
       IF sign = "-" THEN p.clr \cup {bit} ELSE p.clr \ {bit})

\* A mode changes what the user is let change; it reaches the settings themselves only
\* when the user next changes their word.  A character is set, and not noted in t_c.
tty_stty ==
  \/ \E y \in {y \in SettyBits : <<y[2], y[3]>> \in ttymodes} :
       Stty([tty EXCEPT !.perm[y[1]][y[2]] = Signed(@, y[3], y[4])], y[1])
  \/ \E y \in SettyChars : Stty([tty EXCEPT ![y[1]].cc[y[2]] = y[3]], y[1])

\* el_set(EL_EDITMODE).
EditMode ==
  /\ Idle /\ count.calls < MaxCalls
  /\ tty' = [tty EXCEPT !.disabled = ~@]
  /\ UNCHANGED <<term, disp, sig, pc, read, status, want, missed, count>>

\* The builtin edit, from a line of .editrc for instance: on makes the terminal raw there
\* and then, for whatever runs before the next line is read.
el_editmode ==
  /\ Idle /\ count.changes < MaxChanges
  /\ \/ LET t == [tty EXCEPT !.disabled = FALSE]
        IN  /\ tty' = IF GoesRaw(t) THEN [Believe(t, term) EXCEPT !.mode = "ed"] ELSE t
            /\ term' = IF GoesRaw(t) THEN tty'.ed ELSE term
            /\ missed' = TRUE
     \/ /\ tty' = [tty EXCEPT !.disabled = TRUE, !.mode = IF GoesCooked(tty) THEN "ex" ELSE @]
        /\ term' = IF GoesCooked(tty) THEN tty.ex ELSE term
        /\ UNCHANGED missed
  /\ count' = [count EXCEPT !.changes = @ + 1]
  /\ UNCHANGED <<disp, sig, pc, read, status, want>>

\* el_end: tty_end puts back what tty_setup found, and zeros if it has not looked.
el_end ==
  /\ Idle
  /\ term' = tty.or
  /\ tty' = IF GoesCooked(tty) THEN [tty EXCEPT !.mode = "ex"] ELSE tty
  /\ status' = "ended"
  /\ UNCHANGED <<disp, sig, pc, read, want, missed, count>>

-----------------------------------------------------------------------------
(* read.c: el_gets *)

Step(from, to) == status = "running" /\ pc = from /\ pc' = to
Quiet == UNCHANGED <<status, want, missed, count>>

GetsBegins ==
  /\ count.calls < MaxCalls
  /\ Step("idle", "begin")
  /\ count' = [count EXCEPT !.calls = @ + 1]
  /\ read' = [quoted |-> FALSE, tried |-> FALSE, eintr |-> FALSE, failed |-> FALSE]
  /\ UNCHANGED <<term, tty, disp, sig, status, want, missed>>

\* tty_rawmode up to tty_setty, and the assignment of t_mode after it.
RawSets ==
  /\ tty' = Believe(tty, term)
  /\ term' = tty'.ed
  /\ UNCHANGED <<disp, sig, read>>

RawMarks(from, to) ==
  /\ Step(from, to)
  /\ tty' = [tty EXCEPT !.mode = "ed"]
  /\ UNCHANGED <<term, disp, sig>>
  /\ Quiet

\* Before the prompt the terminal is made raw unless input is waiting.
TakesTerminal ==
  \/ Step("begin", "marking first") /\ GoesRaw(tty) /\ RawSets /\ Quiet
  \/ Step("begin", "preparing") /\ UNCHANGED <<term, tty, disp, sig, read>> /\ Quiet
  \/ Step("begin", "idle") /\ GoesRaw(tty) /\ UNCHANGED <<term, tty, disp, sig, read>> /\ Quiet

read_prepare ==
  /\ Step("preparing", "next")
  /\ sig_set
  /\ UNCHANGED <<term, tty, read>>
  /\ Quiet

\* read_char begins to wait for a character.
Waits == /\ sig' = [sig EXCEPT !.no = "none"]
         /\ read' = [read EXCEPT !.tried = FALSE, !.eintr = FALSE]

\* el_getc without a key at hand, which cannot go on if the terminal cannot be made raw.
el_getc ==
  \/ Step("next", "marking") /\ GoesRaw(tty) /\ RawSets /\ Quiet
  \/ Step("next", "reading") /\ ~GoesRaw(tty) /\ Waits /\ UNCHANGED <<term, tty, disp>> /\ Quiet
  \/ Step("next", "finishing") /\ GoesRaw(tty) /\ UNCHANGED <<term, tty, disp, sig, read>> /\ Quiet

Marks ==
  \/ RawMarks("marking first", "preparing") /\ UNCHANGED read
  \/ /\ Step("marking", "reading")
     /\ tty' = [tty EXCEPT !.mode = "ed"]
     /\ Waits /\ UNCHANGED <<term, disp>> /\ Quiet

\* With EDIT_DISABLED el_gets returns at once, without read_finish.
Returns == IF tty.disabled THEN "idle" ELSE "finishing"

\* tty_noquotemode, after a quoted character or none.
Unquotes(from, failed) ==
  /\ read.quoted
  /\ read' = [read EXCEPT !.quoted = FALSE, !.failed = failed, !.eintr = FALSE]
  /\ IF tty.mode = "qu" THEN Step(from, "unquoting") /\ term' = tty.ed
     ELSE Step(from, IF failed THEN "finishing" ELSE "next") /\ UNCHANGED term
  /\ UNCHANGED <<tty, disp, sig>> /\ Quiet

\* A key: one that is edited in, the one that quotes the next, or the end of the line.
\* Quoting does not look at the settings of a terminal that is cooked.
KeyFrom(from) ==
  /\ ~read.eintr
  /\ \/ Unquotes(from, FALSE)
     \/ ~read.quoted /\ Step(from, "next") /\ UNCHANGED <<term, tty, disp, sig, read>> /\ Quiet
     \/ ~read.quoted /\ Step(from, Returns) /\ UNCHANGED <<term, tty, disp, sig, read>> /\ Quiet
     \/ /\ ~read.quoted /\ ~tty.disabled
        /\ Step(from, "quoting")
        /\ term' = MaskedWords(tty.ed, tty.perm.qu)
        /\ want' = IF tty.mode = "ex" THEN [want EXCEPT !.unnoticed = DOMAIN term] ELSE want
        /\ UNCHANGED <<tty, disp, sig, read, status, missed, count>>

\* It comes from read_char, or el_getc has it at hand and leaves the terminal as it is:
\* one that was pushed, or that read_preread has found waiting.
Key == KeyFrom("reading") \/ (~tty.disabled /\ KeyFrom("next"))

QuoteMarks ==
  \/ /\ Step("quoting", "next")
     /\ tty' = [tty EXCEPT !.mode = "qu"]
     /\ read' = [read EXCEPT !.quoted = TRUE]
     /\ UNCHANGED <<term, disp, sig>> /\ Quiet
  \/ RawMarks("unquoting", IF read.failed THEN "finishing" ELSE "next") /\ UNCHANGED read

\* read() was interrupted: after SIGCONT and SIGWINCH all handlers are set again, any
\* other signal is forgiven once.
Interrupted ==
  /\ read.eintr
  /\ \/ /\ sig.no \in {"CONT", "WINCH"}
        /\ Step("reading", "again")
        /\ sig_set
        /\ read' = [read EXCEPT !.eintr = FALSE]
        /\ UNCHANGED <<term, tty>> /\ Quiet
     \/ /\ sig.no \notin {"CONT", "WINCH"} /\ ~read.tried
        /\ Step("reading", "reading")
        /\ read' = [read EXCEPT !.tried = TRUE, !.eintr = FALSE]
        /\ UNCHANGED <<term, tty, disp, sig>> /\ Quiet
     \/ /\ sig.no \notin {"CONT", "WINCH"} /\ read.tried /\ ~read.quoted
        /\ Step("reading", Returns)
        /\ UNCHANGED <<term, tty, disp, sig, read>> /\ Quiet
     \/ sig.no \notin {"CONT", "WINCH"} /\ read.tried /\ Unquotes("reading", TRUE)

Again == /\ Step("again", "reading")
         /\ sig' = [sig EXCEPT !.no = "none"]
         /\ UNCHANGED <<term, tty, disp, read>> /\ Quiet

\* read_finish: tty_cookedmode, and then sig_clr.
FinishCooks ==
  /\ Step("finishing", "clearing")
  /\ missed' = (missed /\ ~GoesCooked(tty))
  /\ IF GoesCooked(tty) THEN tty' = [tty EXCEPT !.mode = "ex"] /\ term' = tty.ex
     ELSE UNCHANGED <<tty, term>>
  /\ UNCHANGED <<disp, sig, read, status, want, count>>

FinishClears ==
  /\ Step("clearing", "idle")
  /\ sig_clr
  /\ UNCHANGED <<term, tty, read>> /\ Quiet

Init ==
  /\ \E disabled \in BOOLEAN : tty = tty_init(disabled)
  /\ term = IF tty.disabled THEN Original ELSE tty.ex
  /\ disp \in [Signals -> {"default", "caught"}]
  /\ disp["TSTP"] = "default" /\ disp["CONT"] = "default" /\ disp["WINCH"] = "default"
  /\ sig = [no |-> "none", saved |-> [i \in Signals |-> "err"]]
  /\ pc = "idle"
  /\ read = [quoted |-> FALSE, tried |-> FALSE, eintr |-> FALSE, failed |-> FALSE]
  /\ status = "running"
  /\ want = [set |-> term, unnoticed |-> {}, handlers |-> disp]
  /\ missed = FALSE
  /\ count = [calls |-> 0, signals |-> 0, changes |-> 0]

Next ==
  \/ \E i \in Signals : Signal(i)
  \/ Resume \/ UserChanges \/ tty_stty \/ EditMode \/ el_editmode \/ el_end
  \/ GetsBegins \/ TakesTerminal \/ read_prepare \/ el_getc \/ Marks \/ Key \/ QuoteMarks
  \/ Interrupted \/ Again \/ FinishCooks \/ FinishClears

Spec == Init /\ [][Next]_vars

-----------------------------------------------------------------------------
(* Properties *)

\* The settings the user or the program last asked for are those of the terminal
\* whenever the library has given it back, through any number of lines, stops and
\* signals: all but the bits and characters it keeps to itself, and but a word that was
\* set to what the editor uses, which goes unnoticed (tty_rawmode, tty_cookedmode).
UserSettingsKept ==
  (tty.mode = "ex" /\ pc \notin Marking /\ status # "ended" /\ tty__cooked_mode(term)) =>
    /\ \A w \in Words \ want.unnoticed :
         LET own == tty.perm.ex[w].set \cup tty.perm.ex[w].clr
         IN  term[w] \ own = want.set[w] \ own
    /\ "cc" \notin want.unnoticed =>
         \A f \in c_cc \ (tty.perm.ex.chars.set \cup tty.perm.ex.chars.clr) :
           term.cc[f] = want.set.cc[f]

\* Between two lines, while the program is stopped and after its death the terminal is
\* not left raw, unless a signal has found the library unready for it, the builtin edit
\* has made it so, or EDIT_DISABLED has kept tty_init from reading the settings (sig_handler, tty_cookedmode, read_finish).
CookedOutside ==
  (pc = "idle" \/ status # "running") /\ ~missed /\ tty.or # Zero => tty__cooked_mode(term)

\* Between two lines each signal is handled as the program has it handled, whatever
\* signals have come meanwhile and how often the handlers were set again; unless the
\* last line was read with EDIT_DISABLED (sig_set, sig_clr, sig_handler, read_char).
HandlersGivenBack ==
  [][pc = "clearing" /\ pc' = "idle" =>
       \A i \in Signals : disp'[i] = want.handlers[i]]_vars
===============================================================================
