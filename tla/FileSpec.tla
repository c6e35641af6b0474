------------------------------ MODULE FileSpec ------------------------------
(***************************************************************************)
(* What the file system of a removable card promises, whatever it keeps in *)
(* windows and buffers.  A file is a sequence of bytes.  A call that       *)
(* succeeds does to it what its name says, and nothing to any other file;  *)
(* a call fails only for a reason; and after a disk error, or after the    *)
(* card was pulled, only the files that were being changed are uncertain.  *)
(*                                                                         *)
(* `unsure' are those files: what a call finds in one is not said, and one *)
(* that changes such a file may damage the others of its card.             *)
(***************************************************************************)
EXTENDS Integers, Sequences, FiniteSets

CONSTANTS Name, Card, Handle, MaxFiles

VARIABLES
  card,      \* the card that is in the slot, or was last
  in,        \* is it there?
  new,       \* was it not used yet?
  before,    \* the card before that one
  files,     \* of a card and a name: [there, data]
  open,      \* of a handle: [used, live, broken, stray, name, rd, wr, pos]
  unsure,    \* of a card: the names that are uncertain
  unsynced,  \* the names whose changes may not be on the card yet
  call       \* the last call, [op, h, name, to, how, n, data], and its result, [ok, hit, out]

vars == <<card, in, new, before, files, open, unsure, unsynced, call>>

h == call'.h
Now(n) == files[card][n]
New(n) == files'[card][n]

---------------------------------------------------------------------------
(* What a call may do to the files of the card, and when it may fail.      *)

Intact(names) ==
  /\ \A c \in Card \ {card} : files'[c] = files[c]
  /\ \A n \in names \ unsure[card] : New(n) = Now(n)

Nothing == Intact(Name) /\ unsure' = unsure

\* `names' become uncertain.
Harm(names) ==
  LET more == IF names \cap unsure[card] = {} THEN names ELSE Name
  IN unsure' = [unsure EXCEPT ![card] = @ \cup more] /\ Intact(Name \ unsure'[card])

\* A call that changes the files `changed' either has its effect, or is refused and does
\* nothing, or the card fails and they are uncertain.
Outcome(changed, refused, effect) ==
  \/ call'.ok /\ ~refused /\ effect /\ Intact(Name \ changed) /\ unsure' = unsure
  \/ ~call'.ok /\ refused /\ Nothing
  \/ ~call'.ok /\ (call'.hit \/ ~in) /\ Harm(changed)

Unsynced(names) == unsynced \subseteq unsynced' /\ unsynced' \subseteq unsynced \cup names
\* The card may be pulled during a call.
SameCard == card' = card /\ (in' = in \/ (call'.hit /\ ~in'))

ByName(names, refused, effect) ==
  /\ SameCard /\ Unsynced({}) /\ open' = open
  /\ IF names \cap unsure[card] = {} THEN Outcome(names, refused, effect) ELSE Harm(names)

\* A handle whose volume is gone does nothing any more, nor does one that met an error.
ByHandle(changes, refused, effect) ==
  LET o == open[h]
      changed == IF changes THEN {o.name} ELSE {}
  IN /\ SameCard /\ Unsynced(changed)
     /\ o.used
     /\ \A k \in Handle \ {h} : open'[k] = open[k]
     /\ \E p \in {open'[h].pos}, b \in {TRUE, o.broken}, s \in {TRUE, o.stray} :
          open'[h] = [o EXCEPT !.pos = p, !.broken = b, !.stray = s]
     /\ call'.ok => open'[h].broken = o.broken
     /\ CASE ~o.live -> ~call'.ok /\ Nothing
          [] o.live /\ o.name \notin unsure[card] /\ ~o.stray ->
               Outcome(changed, refused \/ o.broken, effect)
          [] OTHER -> Harm(IF o.wr THEN {o.name} ELSE {})

---------------------------------------------------------------------------
(* The calls.                                                              *)

Open ==
  LET how == call'.how
      n == call'.name
      there == Now(n).there
      full == Cardinality({m \in Name : Now(m).there}) = MaxFiles
      refused == \/ ~there /\ (~how.creat \/ full)
                 \/ there /\ how.creat /\ how.excl
                 \/ there /\ how.trunc /\ ~how.creat /\ ~how.wr
      changed == IF how.trunc \/ how.creat THEN {n} ELSE {}
  IN /\ SameCard /\ Unsynced(changed)
     /\ ~open[h].used
     /\ \A k \in Handle \ {h} : open'[k] = open[k]
     /\ open'[h].used = call'.ok
     /\ IF n \in unsure[card] THEN Harm(changed)
        ELSE Outcome(changed, refused,
          /\ New(n) = IF how.trunc \/ ~there THEN [there |-> TRUE, data |-> <<>>] ELSE Now(n)
          /\ open'[h] = [used |-> TRUE, live |-> TRUE, broken |-> FALSE, stray |-> FALSE,
                         name |-> n, rd |-> how.rd, wr |-> how.wr,
                         pos |-> IF how.app THEN Len(New(n).data) ELSE 0])

\* The bytes from the position on, as many as were asked for and there are.
Read ==
  LET o == open[h]
      data == Now(o.name).data
      top == IF o.pos + call'.n < Len(data) THEN o.pos + call'.n ELSE Len(data)
  IN ByHandle(FALSE, ~o.rd, /\ call'.out = SubSeq(data, o.pos + 1, top)
                            /\ open'[h].pos = top)

\* Bytes take the place of old ones or follow them, fewer than were given if the card is full.
Write ==
  LET o == open[h]
      old == Now(o.name).data
      data == New(o.name).data
      top == open'[h].pos
  IN ByHandle(TRUE, ~o.wr,
       /\ top - o.pos \in 0 .. Len(call'.data)
       /\ Len(data) = IF top > Len(old) THEN top ELSE Len(old)
       /\ \A i \in 1 .. Len(data) :
            data[i] = IF i \in o.pos + 1 .. top THEN call'.data[i - o.pos] ELSE old[i])

\* A file is stretched to reach the offset, as far as the card has room; what the new
\* bytes are is not said.
Stretched(old, data, size) ==
  /\ Len(data) <= size /\ Len(data) >= Len(old)
  /\ SubSeq(data, 1, Len(old)) = old

\* A reader stays within the file.
Seek ==
  LET o == open[h]
      old == Now(o.name).data
      data == New(o.name).data
  IN ByHandle(o.wr, FALSE,
       IF call'.n <= Len(old) THEN data = old /\ open'[h].pos = call'.n
       ELSE IF o.wr THEN Stretched(old, data, call'.n) /\ open'[h].pos = Len(data)
       ELSE data = old /\ open'[h].pos = Len(old))

Ftruncate ==
  LET o == open[h]
      old == Now(o.name).data
      data == New(o.name).data
  IN ByHandle(o.wr, ~o.wr,
       /\ IF call'.n <= Len(old) THEN data = SubSeq(old, 1, call'.n)
          ELSE Stretched(old, data, call'.n)
       /\ open'[h].pos = IF o.pos > call'.n THEN call'.n ELSE o.pos)

\* What was changed through this handle is on the card, if the call says so.
Fsync ==
  LET n == open[h].name
  IN /\ open[h].used /\ SameCard
     /\ IF ~open[h].live THEN ~call'.ok /\ Nothing
        ELSE IF n \in unsure[card] \/ open[h].stray
             THEN Harm(IF open[h].wr THEN {n} ELSE {})
             ELSE Outcome({n}, FALSE, Intact(Name))
     /\ \/ unsynced' = unsynced \ {n} /\ open[h].live
        \/ unsynced' = unsynced /\ ~(call'.ok /\ open[h].live)

\* ... and the handle is released in any case.
Close ==
  /\ Fsync
  /\ open[h].live => unsynced' = unsynced \ {open[h].name}
  /\ ~open'[h].used /\ \A k \in Handle \ {h} : open'[k] = open[k]

Unlink ==
  ByName({call'.name}, ~Now(call'.name).there, ~New(call'.name).there)

Rename ==
  LET n == call'.name
      m == call'.to
      full == Cardinality({k \in Name : Now(k).there}) = MaxFiles
  IN ByName({n, m}, ~Now(n).there \/ Now(m).there \/ full,
            ~New(n).there /\ New(m) = Now(n))

GetFree == ByName({}, FALSE, TRUE)

---------------------------------------------------------------------------
(* The card.                                                               *)

\* Reads and writes that find the card gone fail.  One that was not used makes the files
\* of the card before it come back: those that were being changed stay uncertain.
Pull ==
  /\ in /\ ~in'
  /\ card' = IF new THEN before ELSE card
  /\ \A k \in Handle : open'[k] \in {open[k], [open[k] EXCEPT !.live = new]}
  /\ \A c \in Card, n \in Name : n \notin unsure[c] => files'[c][n] = files[c][n]
  /\ unsynced' \subseteq unsynced \cup unsure[card']
  /\ new \/ UNCHANGED <<files, open, unsynced>>
  /\ UNCHANGED <<unsure, call>>

\* The volume is mounted anew; changes that had not reached the card it had are lost.
Insert ==
  /\ ~in /\ in' /\ new' /\ before' = card
  /\ card' \in Card
  /\ open' = [k \in Handle |-> [open[k] EXCEPT !.live = FALSE]]
  /\ unsure' = [unsure EXCEPT ![card] = @ \cup unsynced]
  /\ Intact(Name \ unsure'[card])
  /\ unsynced' = {} /\ UNCHANGED call

Call ==
  CASE call'.op = "open" -> Open
    [] call'.op = "read" -> Read
    [] call'.op = "write" -> Write
    [] call'.op = "seek" -> Seek
    [] call'.op = "ftruncate" -> Ftruncate
    [] call'.op = "fsync" -> Fsync /\ open' = open
    [] call'.op = "close" -> Close
    [] call'.op = "unlink" -> Unlink
    [] call'.op = "rename" -> Rename
    [] call'.op = "getfree" -> GetFree
    [] OTHER -> FALSE

Next == Pull \/ Insert \/ Call

Init == 
  /\ in = TRUE /\ card \in Card
  /\ \A k \in Handle : ~open[k].used
  /\ unsure = [c \in Card |-> {}] /\ unsynced = {}

Spec == Init /\ [][Next]_vars
=============================================================================
