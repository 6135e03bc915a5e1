------------------------------- MODULE History -------------------------------
(***************************************************************************)
(* libedit/src/history.c: the history the shell keeps of its statements    *)
(* and lets its user walk through.  The circular list is a sequence, its   *)
(* newest entry first; the pointer to the current entry is the number of   *)
(* that entry, or 0 when it points to the head of the list.  Memory that   *)
(* cannot be had leaves the list as it was, and is left out but where a    *)
(* file is read or written.  A text is a sequence of bytes, for the file   *)
(* holds it encoded; the file is read by the fgetln of libedit, which      *)
(* stands in for the one the C library of Linux has not.                   *)
(***************************************************************************)
EXTENDS Integers, Sequences, SequencesExt, Vis

CONSTANTS
  Strings,     \* what is entered: non-empty sequences of bytes other than NUL
  Sizes,       \* arguments of H_SETSIZE that are not negative
  LineSize,    \* BUFSIZ, by which fgetln's buffer grows
  TextSize,    \* 1024, by which history_load's buffer grows
  MaxEvents,   \* bound: events numbered since the list was last cleared
  MaxText      \* bound: a text that is longer is not appended to, nor saved

VARIABLES
  list,     \* the entries: number and text, newest first
  cursor,   \* the current entry's number, or 0
  max,      \* how many entries are kept
  eventid,  \* the last number given
  unique,   \* H_UNIQUE
  hent,     \* h_ent: the number of the entry H_ENTER made last
  foreign,  \* H_FUNC has put other functions in place of the default ones
  file,     \* the bytes behind the cookie in the file of H_SAVE and H_LOAD
  bufsiz,   \* how large the buffer is that fgetln keeps from call to call
  overrun,  \* history_load has written behind its buffer: nothing is known then
  \* History:
  ret,      \* what the last call returned: its value and its event's number
  walk      \* the numbers an H_FIRST and the H_NEXT behind it have returned

store == <<list, cursor, eventid>>
modes == <<max, unique, hent, foreign>>
files == <<file, bufsiz, overrun>>
historyVars == <<store, modes, files, ret, walk>>

ASSUME HistoryAssumption ==
  /\ Strings \subseteq Seq(1..255) \ {<<>>}
  /\ Sizes \subseteq Nat
  /\ LineSize \in Nat /\ LineSize >= 2
  /\ TextSize \in Nat \ {0}
  /\ MaxEvents \in Nat /\ MaxText \in Nat

-----------------------------------------------------------------------------
(* The list.  A store is a record of the variables of that name.           *)

Store     == [list |-> list, cursor |-> cursor, eventid |-> eventid]
Becomes(s) == list' = s.list /\ cursor' = s.cursor /\ eventid' = s.eventid
Empty     == [list |-> <<>>, cursor |-> 0, eventid |-> 0]

Numbers(l) == {l[i].num : i \in DOMAIN l}
Place(l, num) == CHOOSE i \in DOMAIN l : l[i].num = num

\* Mutant: the cursor is left on the entry that is freed.
DeletedUnderCursor(s, k) == [s EXCEPT !.list = RemoveAt(@, k)]

\* history_def_delete: the cursor moves to the newer neighbour, or else to the
\* older one, or to the head of a list that is now empty.
Deleted(s, k) ==
  [s EXCEPT
     !.list = RemoveAt(@, k),
     !.cursor = IF @ # s.list[k].num THEN @
                ELSE IF k > 1 THEN s.list[k - 1].num
                ELSE IF Len(s.list) > 1 THEN s.list[2].num ELSE 0]

\* history_def_insert
Inserted(s, text) ==
  [list |-> <<[num |-> s.eventid + 1, text |-> text]>> \o s.list,
   cursor |-> s.eventid + 1, eventid |-> s.eventid + 1]

\* The oldest entries are deleted until the size is kept; with a size of 0 the
\* new entry goes with them.
Trimmed(s, size) ==
  [s EXCEPT !.list = SubSeq(@, 1, IF Len(@) < size THEN Len(@) ELSE size),
            !.cursor = IF size = 0 THEN 0 ELSE @]

Duplicate(s, text) == unique /\ s.list # <<>> /\ s.list[1].text = text

\* history_def_enter
Entered(s, text) ==
  IF Duplicate(s, text) THEN s ELSE Trimmed(Inserted(s, text), max)

-----------------------------------------------------------------------------
(* history() over the default functions.                                   *)

ByDefault == ~foreign

Succeeds(value, num) == ret' = [value |-> value, num |-> num]
Fails                == ret' = [value |-> -1, num |-> 0]

\* A walk ends with any other call.
Strays == walk' = <<>>

\* A function that puts the cursor on the entry at place k and returns it.
MovesTo(k) ==
  /\ cursor' = list[k].num
  /\ Succeeds(0, list[k].num)
  /\ UNCHANGED <<list, eventid, modes, files>>

\* One that finds nothing, with the cursor left where the search ended.
NotFound(where) ==
  /\ cursor' = where
  /\ Fails
  /\ UNCHANGED <<list, eventid, modes, files>>

First ==
  /\ ByDefault
  /\ IF list # <<>> THEN MovesTo(1) ELSE NotFound(0)
  /\ walk' = IF list # <<>> THEN <<list[1].num>> ELSE <<>>

LastEntry ==
  /\ ByDefault
  /\ IF list # <<>> THEN MovesTo(Len(list)) ELSE NotFound(0)
  /\ Strays

\* Mutant: the entry behind the next is returned.
NextSkips ==
  /\ ByDefault
  /\ IF cursor # 0 /\ Place(list, cursor) + 1 < Len(list)
       THEN /\ MovesTo(Place(list, cursor) + 2)
            /\ walk' = IF walk = <<>> THEN walk ELSE Append(walk, cursor')
       ELSE /\ NotFound(cursor)
            /\ UNCHANGED walk

\* The next entry is the older one.
NextEntry ==
  /\ ByDefault
  /\ IF cursor # 0 /\ Place(list, cursor) < Len(list)
       THEN /\ MovesTo(Place(list, cursor) + 1)
            /\ walk' = IF walk = <<>> THEN walk ELSE Append(walk, cursor')
       ELSE /\ NotFound(cursor)
            /\ UNCHANGED walk

Prev ==
  /\ ByDefault
  /\ IF cursor # 0 /\ Place(list, cursor) > 1
       THEN MovesTo(Place(list, cursor) - 1)
       ELSE NotFound(cursor)
  /\ Strays

Curr ==
  /\ ByDefault
  /\ IF cursor # 0 THEN MovesTo(Place(list, cursor)) ELSE NotFound(cursor)
  /\ Strays

\* H_SET: a number that is not there leaves the cursor on the head.
SetResult(num) ==
  IF list = <<>> THEN cursor ELSE IF num \in Numbers(list) THEN num ELSE 0

Set(num) ==
  /\ ByDefault
  /\ cursor' = SetResult(num)
  /\ IF list # <<>> /\ num \in Numbers(list) THEN Succeeds(0, 0) ELSE Fails
  /\ Strays
  /\ UNCHANGED <<list, eventid, modes, files>>

\* history_set_nth counts from the oldest entry, which is 0.
Nth(n) == Len(list) - n

\* H_DELDATA with the value that only sets the cursor.
SetNth(n) ==
  /\ ByDefault
  /\ IF Nth(n) >= 1
       THEN cursor' = list[Nth(n)].num /\ Succeeds(0, 0)
       ELSE cursor' = (IF list = <<>> THEN cursor ELSE 0) /\ Fails
  /\ Strays
  /\ UNCHANGED <<list, eventid, modes, files>>

\* H_DELDATA and H_DEL: the cursor goes to the entry first, and so moves on.
DeletesAt(k) ==
  /\ Becomes(Deleted([Store EXCEPT !.cursor = list[k].num], k))
  /\ Succeeds(0, list[k].num)
  /\ UNCHANGED <<modes, files>>

DeleteNth(n) ==
  /\ ByDefault
  /\ IF Nth(n) >= 1 THEN DeletesAt(Nth(n))
     ELSE NotFound(IF list = <<>> THEN cursor ELSE 0)
  /\ Strays

Delete(num) ==
  /\ ByDefault
  /\ IF num \in Numbers(list) THEN DeletesAt(Place(list, num))
     ELSE NotFound(SetResult(num))
  /\ Strays

\* H_ENTER remembers the event's number, which a duplicate leaves at 0.
Enter(text) ==
  /\ ByDefault
  /\ eventid < MaxEvents
  /\ Becomes(Entered(Store, text))
  /\ IF Duplicate(Store, text)
       THEN Succeeds(0, 0) /\ hent' = 0
       ELSE Succeeds(1, eventid + 1) /\ hent' = eventid + 1
  /\ Strays
  /\ UNCHANGED <<max, unique, foreign, files>>

\* history_def_add: text goes behind that of the current entry; without one an
\* entry is made, and h_ent does not learn of it.
Adds(at, text) ==
  IF at = 0
    THEN /\ eventid < MaxEvents
         /\ Becomes(Entered(Store, text))
         /\ IF Duplicate(Store, text) THEN Succeeds(0, 0) ELSE Succeeds(1, eventid + 1)
    ELSE LET k == Place(list, at)
         IN  /\ Len(list[k].text) <= MaxText
             /\ list' = [list EXCEPT ![k].text = @ \o text]
             /\ cursor' = at
             /\ Succeeds(0, at)
             /\ UNCHANGED eventid

Add(text) ==
  /\ ByDefault
  /\ Adds(cursor, text)
  /\ Strays
  /\ UNCHANGED <<modes, files>>

\* H_APPEND: to the entry that H_ENTER made last, wherever the cursor is.
AppendTo(text) ==
  /\ ByDefault
  /\ IF list # <<>> /\ hent \in Numbers(list)
       THEN Adds(hent, text) /\ UNCHANGED <<modes, files>>
       ELSE NotFound(SetResult(hent))
  /\ Strays

\* H_REPLACE puts a text in place of the current one; without a current entry
\* it goes to the head of the list, where nobody reads it.
Replace(text) ==
  /\ ByDefault
  /\ list' = [i \in DOMAIN list |->
                IF list[i].num = cursor THEN [list[i] EXCEPT !.text = text] ELSE list[i]]
  /\ Succeeds(0, 0)
  /\ Strays
  /\ UNCHANGED <<cursor, eventid, modes, files>>

Clear ==
  /\ ByDefault
  /\ Becomes(Empty)
  /\ Succeeds(0, 0)
  /\ Strays
  /\ UNCHANGED <<modes, files>>

\* H_PREV_EVENT and H_NEXT_EVDATA go to newer entries, H_NEXT_EVENT to older
\* ones, each from the current one; what is not found leaves the cursor at the
\* end it came to.
Newer == -1
Older == 1

Search(direction, matching) ==
  LET here == Place(list, cursor)
      end  == IF direction = Older THEN Len(list) ELSE 1
      seen == {i \in matching : (i - here) * direction >= 0}
  IN  IF cursor = 0 THEN NotFound(0)
      ELSE IF seen = {} THEN NotFound(list[end].num)
      ELSE MovesTo(IF direction = Older THEN Min(seen) ELSE Max(seen))

SearchEvent(direction, num) ==
  /\ ByDefault
  /\ Search(direction, {i \in DOMAIN list : list[i].num = num})
  /\ Strays

\* H_PREV_STR goes to older entries and H_NEXT_STR to newer ones.
SearchString(direction, text) ==
  /\ ByDefault
  /\ Search(direction, {i \in DOMAIN list : IsPrefix(text, list[i].text)})
  /\ Strays

SetSize(size) ==
  /\ ByDefault
  /\ max' = size
  /\ Succeeds(0, 0)
  /\ Strays
  /\ UNCHANGED <<store, unique, hent, foreign, files>>

SetUnique ==
  /\ ByDefault
  /\ unique' = ~unique
  /\ Succeeds(0, 0)
  /\ Strays
  /\ UNCHANGED <<store, max, hent, foreign, files>>

\* H_GETSIZE and H_GETUNIQUE read; with other functions, and for a negative
\* size, these four are refused.
GetSize ==
  /\ IF foreign THEN Fails ELSE Succeeds(0, Len(list))
  /\ Strays
  /\ UNCHANGED <<store, modes, files>>

-----------------------------------------------------------------------------
(* The file. *)

Texts(l) == [i \in DOMAIN l |-> l[i].text]

\* A text is a line of its own.
FileOf(texts) == FlattenSeq([i \in DOMAIN texts |-> strvis(texts[i]) \o <<Newline>>])

\* fgetln: the file up to each newline.
Takes(acc, c) ==
  IF c = Newline THEN [done |-> Append(acc.done, acc.line), line |-> <<>>]
  ELSE [acc EXCEPT !.line = Append(@, c)]

Fetches(acc, bytes) ==
  LET read[i \in 0..Len(bytes)] == IF i = 0 THEN acc ELSE Takes(read[i - 1], bytes[i])
  IN  read

Lines(bytes) ==
  LET read == Fetches([done |-> <<>>, line |-> <<>>], bytes)[Len(bytes)]
  IN  IF read.line = <<>> THEN read.done ELSE Append(read.done, read.line)

\* How often fgetln has to go on reading a line: its buffer holds the line and
\* its newline, or else all but one byte of either, and LineSize is added to it
\* for each LineSize - 1 bytes that are left.
Rereads(room, line) ==
  IF Len(line) < room - 1 THEN 0
  ELSE (Len(line) - room + LineSize) \div (LineSize - 1)

Grown(room, line) == room + Rereads(room, line) * LineSize

\* How large that buffer is before each of the lines, and behind the last.
Rooms(room, lines) ==
  LET size[i \in 0..Len(lines)] ==
        IF i = 0 THEN room ELSE Grown(size[i - 1], lines[i])
  IN  size

\* sz: with each reading fgets leaves a NUL of its own in the buffer, and fgetln
\* goes on behind it.
Length(room, line) == Len(line) + Rereads(room, line)

\* What strunvis makes of the line, which ends for it with the first NUL.
DecodedLine(room, line) ==
  strunvis(SubSeq(line, 1, IF Len(line) < room THEN Len(line) ELSE room - 1))

\* The number that a line cut short ends with may be a NUL.
strlen(text) ==
  CHOOSE n \in 0..Len(text) :
    /\ \A i \in 1..n : text[i] # 0
    /\ n < Len(text) => text[n + 1] = 0

UpToNul(text) == SubSeq(text, 1, strlen(text))

TextsIn(room, bytes) ==
  LET lines == Lines(bytes)
      rooms == Rooms(room, lines)
  IN  [i \in DOMAIN lines |-> UpToNul(DecodedLine(rooms[i - 1], lines[i]))]

\* max_size at each of the lines: it grows for a line that is longer.
TextRooms(rooms, lines) ==
  LET longest[i \in 0..Len(lines)] ==
        IF i = 0 THEN TextSize
        ELSE LET sz == Length(rooms[i - 1], lines[i])
             IN  IF longest[i - 1] < sz THEN ((sz + TextSize) \div TextSize) * TextSize
                 ELSE longest[i - 1]
  IN  longest

\* The lines whose text does not fit with its NUL, for nothing of it was encoded
\* and its line has all the bytes of the buffer.
Spilling(room, bytes) ==
  LET lines == Lines(bytes)
      rooms == Rooms(room, lines)
      sizes == TextRooms(rooms, lines)
  IN  {i \in DOMAIN lines : Len(DecodedLine(rooms[i - 1], lines[i])) >= sizes[i]}

\* history_save writes from the oldest entry to the newest, where the cursor is
\* left.
Saved == Reverse(Texts(list))

\* Of the runs: no text that was put together is written.
Plain == \A i \in DOMAIN list : Len(list[i].text) <= MaxText

Save ==
  /\ ByDefault /\ Plain
  /\ file' = FileOf(Saved)
  /\ cursor' = IF list = <<>> THEN 0 ELSE list[1].num
  /\ Succeeds(Len(list), 0)
  /\ Strays
  /\ UNCHANGED <<list, eventid, modes, bufsiz, overrun>>

\* The file cannot be opened, or cannot be written to once it is emptied.
SaveFails ==
  /\ ByDefault /\ Plain
  /\ file' \in {file, <<>>}
  /\ Fails
  /\ Strays
  /\ UNCHANGED <<store, modes, bufsiz, overrun>>

\* There is no memory for the entry behind the first n, to which the cursor has
\* gone already.
SaveStops ==
  /\ ByDefault /\ Plain
  /\ \E n \in 0..Len(list) - 1 :
       /\ file' = FileOf(SubSeq(Saved, 1, n))
       /\ cursor' = list[Len(list) - n].num
  /\ Fails
  /\ Strays
  /\ UNCHANGED <<list, eventid, modes, bufsiz, overrun>>

\* The store after each of the texts, and before the first.
Loads(s, texts) ==
  LET load[i \in 0..Len(texts)] == IF i = 0 THEN s ELSE Entered(load[i - 1], texts[i])
  IN  load

LoadedFrom(s, texts) == Loads(s, texts)[Len(texts)]

Loaded(n, room) ==
  /\ Succeeds(n, 0)
  /\ bufsiz' = room
  /\ UNCHANGED overrun

\* The line behind the first n ends the loading: fgetln has no memory for it, and
\* then it is as if the file had ended; the text has no room; or no entry can be
\* made of it, nor memory be had for its text.
StopsBehind(n, lines, rooms, spills) ==
  \/ Rereads(rooms[n], lines[n + 1]) > 0 /\ Loaded(n, LineSize)
  \/ spills /\ overrun' = TRUE /\ Fails /\ bufsiz' = rooms[n + 1]
  \/ ~spills /\ Fails /\ bufsiz' = rooms[n + 1] /\ UNCHANGED overrun

\* history_load enters what the file says on top of what there is, and returns
\* how many texts that were.
Load ==
  /\ ByDefault
  /\ LET lines == Lines(file)
         texts == TextsIn(bufsiz, file)
         rooms == Rooms(bufsiz, lines)
         spilling == Spilling(bufsiz, file)
     IN  /\ eventid + Len(texts) <= MaxEvents
         /\ \E n \in 0..Len(texts) :
              /\ spilling \cap 1..n = {}
              /\ Becomes(LoadedFrom(Store, SubSeq(texts, 1, n)))
              /\ \/ n = Len(texts) /\ Loaded(n, rooms[n])
                 \/ n < Len(texts) /\ StopsBehind(n, lines, rooms, n + 1 \in spilling)
                 \/ n = 0 /\ Fails /\ UNCHANGED <<bufsiz, overrun>>
  /\ Strays
  /\ UNCHANGED <<modes, file>>

-----------------------------------------------------------------------------
(* H_FUNC *)

\* All functions are given: the default list is cleared and no longer used.
SetFunctions ==
  /\ IF foreign THEN UNCHANGED store ELSE Becomes(Empty)
  /\ foreign' = TRUE
  /\ hent' = -1
  /\ Succeeds(0, 0)
  /\ Strays
  /\ UNCHANGED <<max, unique, files>>

\* One is missing: that is an error, but it brings the default ones back, with
\* a new list that keeps nothing.
SetFunctionsFails ==
  /\ IF foreign THEN Becomes(Empty) /\ max' = 0 /\ unique' = FALSE
     ELSE UNCHANGED <<store, max, unique>>
  /\ foreign' = FALSE
  /\ hent' = -1
  /\ Fails
  /\ Strays
  /\ UNCHANGED files

-----------------------------------------------------------------------------

HistoryInit ==
  /\ list = <<>> /\ cursor = 0 /\ eventid = 0
  /\ max = 0
  /\ unique = FALSE
  /\ hent = -1
  /\ foreign = FALSE
  /\ file = <<>>
  /\ bufsiz = LineSize
  /\ overrun = FALSE
  /\ ret = [value |-> 0, num |-> 0]
  /\ walk = <<>>

Moves ==
  \/ First \/ LastEntry \/ NextEntry \/ Prev \/ Curr
  \/ \E num \in 0..MaxEvents : Set(num) \/ SetNth(num)
  \/ \E d \in {Newer, Older} :
       \/ \E num \in 1..MaxEvents : SearchEvent(d, num)
       \/ \E text \in Strings : SearchString(d, text)

Changes ==
  \/ \E num \in 0..MaxEvents : Delete(num) \/ DeleteNth(num)
  \/ \E text \in Strings : Enter(text) \/ Add(text) \/ AppendTo(text) \/ Replace(text)
  \/ Clear

Setup ==
  \/ \E size \in Sizes : SetSize(size)
  \/ SetUnique
  \/ GetSize
  \/ SetFunctions
  \/ SetFunctionsFails

Files == Save \/ SaveFails \/ SaveStops \/ Load

HistoryNext == ~overrun /\ (Moves \/ Changes \/ Setup \/ Files)

HistorySpec == HistoryInit /\ [][HistoryNext]_historyVars

-----------------------------------------------------------------------------
(* Properties. *)

Events == [num : Nat \ {0}, text : Seq(1..255)]

TypeOK ==
  /\ list \in Seq(Events)
  /\ cursor \in Nat
  /\ max \in Nat
  /\ eventid \in Nat
  /\ unique \in BOOLEAN
  /\ hent \in Nat \cup {-1}
  /\ foreign \in BOOLEAN
  /\ file \in Seq(1..255)
  /\ bufsiz \in Nat
  /\ overrun \in BOOLEAN
  /\ ret \in [value : Nat \cup {-1}, num : Nat]
  /\ walk \in Seq(Nat)

\* The cursor is never on an entry that was freed, whichever way the entry went:
\* by number, by place, by the size or with all others (history_def_delete).
CursorLive == cursor = 0 \/ cursor \in Numbers(list)

\* A walk by H_FIRST and H_NEXT returns the entries one by one, newest first,
\* and fails only behind the oldest (history_def_first, history_def_next).
WalkInOrder ==
  /\ Len(walk) <= Len(list)
  /\ \A i \in DOMAIN walk : walk[i] = list[i].num
  /\ walk # <<>> /\ ret.value = -1 => Len(walk) = Len(list)

\* What history_load makes of the file history_save has written, in an empty
\* history.
Reloaded == Texts(LoadedFrom(Empty, TextsIn(bufsiz, FileOf(Saved))).list)

\* The size allows all entries, and adjacent duplicates are not to be dropped.
Whole == ByDefault /\ Len(list) <= max /\ ~unique

\* Every text fits into fgetln's buffer, and into history_load's with its NUL.
Short ==
  /\ \A i \in DOMAIN list : Len(strvis(list[i].text)) < bufsiz
  /\ Spilling(bufsiz, FileOf(Saved)) = {}

\* What is saved and then loaded is what there was, every text with the white
\* space, the newlines and the control characters in it, if no text is too long
\* for the buffers there are (history_save writes in the order in which
\* history_load enters; strunvis undoes strvis).
FileRoundTrips == Whole /\ Short => Reloaded = Texts(list)
==============================================================================
