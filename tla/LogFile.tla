------------------------------ MODULE LogFile ------------------------------
(***************************************************************************)
(* FileLogWriter of log/file.go: the agent's own log, rotated when it has  *)
(* Maxlines lines, Maxsize bytes or lines of another day, and kept for     *)
(* Maxdays days.  The goroutine of the Logger is the only caller of        *)
(* WriteMsg, so that one message is one step; the walk that deletes old    *)
(* files runs beside it, and the process may die and be restarted between  *)
(* any two steps.                                                          *)
(*                                                                         *)
(* The file system is part of the model: a name leads to an inode, an open *)
(* descriptor keeps writing to its inode whatever the name leads to, and a *)
(* rename or a create may fail.  Rotate and Daily are on, as shipped; with *)
(* Daily off, keep MaxDay at 1.                                            *)
(***************************************************************************)
EXTENDS Naturals, Sequences

CONSTANTS
  Lengths,    \* len(msg) of the messages
  Maxlines, Maxsize, Maxdays,
  MaxNum,     \* the last number a rotated file may get in a day: 999
  MaxDay,     \* bound on the days
  MaxMsgs,    \* bound on the messages
  MaxCrash    \* bound on the restarts

ASSUME ConstantsAssumption ==
  /\ Lengths \subseteq Nat
  /\ Maxlines \in Nat \ {0} /\ Maxsize \in Nat \ {0} /\ Maxdays \in Nat \ {0}
  /\ MaxNum \in Nat \ {0} /\ MaxDay \in Nat \ {0} /\ MaxMsgs \in Nat /\ MaxCrash \in Nat

VARIABLES
  day,        \* the wall clock's day; Day() of the code, which no month end wraps here
  running,    \* the agent runs, with this writer as an output of its Logger
  fd,         \* the inode of mw.fd, or Closed
  curlines,   \* maxlines_curlines
  cursize,    \* maxsize_cursize
  opendate,   \* daily_opendate
  failed,     \* docheck of the last message reported an error on stderr
  deleting,   \* a deleteOldLog goroutine is under way
  names,      \* the inode that a file name leads to, or Absent
  inodes,     \* the files ever created: modification day, size in bytes and lines
  msgs,       \* history: the number of messages given to WriteMsg
  lost,       \* history: the messages written to no file
  runs        \* history: the number of times the agent was started

vars == <<day, running, fd, curlines, cursize, opendate, failed, deleting,
          names, inodes, msgs, lost, runs>>

Closed == 0
Absent == 0
Filename == <<0, 0>>
Archives(d) == {<<d, num>> : num \in 1..MaxNum}    \* Filename.<day>.<num>
Names == {Filename} \cup UNION {Archives(d) : d \in 1..MaxDay}

(* WriteMsg counts 24 for the prefix; Println writes a time of 20          *)
(* characters, the message and a newline.                                  *)
Counted(n) == n + 24
Written(n) == n + 21
Size(i) == inodes[i].size

(* Fault: the file's lines are not counted when it is opened again. *)
NoLineCount(i) == 0

(* len(strings.Split(content, "\n")), one more than there are lines. *)
LineCount(i) == IF inodes[i].lines = <<>> THEN 0 ELSE Len(inodes[i].lines) + 1

(* Fault: a file that does not exist is not created. *)
NotCreated(t) == t

(* O_CREATE: a new file at the end of the table t of inodes. *)
Created(t) == Append(t, [mtime |-> day, size |-> 0, lines |-> <<>>])

Init ==
  /\ day = 1
  /\ running = TRUE
  /\ names = [n \in Names |-> IF n = Filename THEN 1 ELSE Absent]
  /\ inodes = <<[mtime |-> 1, size |-> 0, lines |-> <<>>]>>
  /\ fd = 1 /\ curlines = 0 /\ cursize = 0 /\ opendate = 1
  /\ failed = FALSE /\ deleting = FALSE
  /\ msgs = 0 /\ lost = {} /\ runs = 1

(* Fault: the change of day is not looked at. *)
DueWithoutDay == curlines >= Maxlines \/ cursize >= Maxsize

Due == curlines >= Maxlines \/ cursize >= Maxsize \/ day # opendate

(* Fault: the search for a free name stops at the first one. *)
FirstSlot(n) == n = <<day, 1>>

(* The name a rotated file gets: the first of today's that is free. *)
Slot(n) ==
  /\ n \in Archives(day) /\ names[n] = Absent
  /\ \A m \in Archives(day) : m[2] < n[2] => names[m] # Absent

(* Println to the inode i, in the table t of inodes; a write to a closed   *)
(* descriptor fails and its error is not looked at.                        *)
Println(t, i, n) ==
  LET line == [id |-> msgs + 1, day |-> day, len |-> n, run |-> runs] IN
    /\ msgs' = msgs + 1
    /\ IF i = Closed
         THEN inodes' = t /\ lost' = lost \cup {msgs + 1}
         ELSE inodes' = [t EXCEPT ![i] = [mtime |-> day, size |-> @.size + Written(n),
                                          lines |-> Append(@.lines, line)]]
              /\ lost' = lost

Count(lines, size, n) == curlines' = lines + 1 /\ cursize' = size + Counted(n)

(* Either nothing is due, or a rotation is and the log has no file to      *)
(* rotate: DoRotate returns nil without opening one.                       *)
WriteHere(n) ==
  /\ ~Due \/ names[Filename] = Absent
  /\ Count(curlines, cursize, n)
  /\ Println(inodes, fd, n)
  /\ failed' = FALSE
  /\ UNCHANGED <<fd, opendate, names, deleting>>

(* The line goes to the old file, uncounted. *)
NoFreeNumber(n) ==
  /\ Due /\ names[Filename] # Absent
  /\ ~\E slot \in Names : Slot(slot)
  /\ Println(inodes, fd, n)
  /\ failed' = TRUE
  /\ UNCHANGED <<fd, curlines, cursize, opendate, names, deleting>>

(* The descriptor was closed before the rename. *)
RenameFails(n) ==
  /\ Due /\ names[Filename] # Absent
  /\ \E slot \in Names : Slot(slot)
  /\ fd' = Closed
  /\ Println(inodes, Closed, n)
  /\ failed' = TRUE
  /\ UNCHANGED <<curlines, cursize, opendate, names, deleting>>

CreateFails(n) ==
  /\ Due /\ names[Filename] # Absent
  /\ \E slot \in Names :
       Slot(slot) /\ names' = [names EXCEPT ![slot] = names[Filename], ![Filename] = Absent]
  /\ fd' = Closed
  /\ Println(inodes, Closed, n)
  /\ failed' = TRUE
  /\ UNCHANGED <<curlines, cursize, opendate, deleting>>

Rotate(n) ==
  LET new == Len(inodes) + 1 IN
    /\ Due /\ names[Filename] # Absent
    /\ \E slot \in Names :
         Slot(slot) /\ names' = [names EXCEPT ![slot] = names[Filename], ![Filename] = new]
    /\ fd' = new
    /\ Count(0, 0, n)
    /\ opendate' = day
    /\ Println(Created(inodes), new, n)
    /\ failed' = FALSE
    /\ deleting' = TRUE

WriteMsg ==
  /\ running /\ msgs < MaxMsgs
  /\ \E n \in Lengths :
       WriteHere(n) \/ NoFreeNumber(n) \/ RenameFails(n) \/ CreateFails(n) \/ Rotate(n)
  /\ UNCHANGED <<day, running, runs>>

(* Fault: a file's age is counted to the end of the day. *)
ExpiredToday(i) == inodes[i].mtime + Maxdays <= day + 1

(* Modified at least Maxdays days ago: certainly if more days have begun   *)
(* since, at some times of the day if exactly Maxdays have.                *)
Expired(i) == inodes[i].mtime + Maxdays <= day

(* The walk removes expired files that have the log's name as a prefix,    *)
(* Filename itself too; an error ends it early.                            *)
DeleteOldLog ==
  /\ deleting
  /\ \E gone \in SUBSET {n \in Names : names[n] # Absent /\ Expired(names[n])} :
       names' = [n \in Names |-> IF n \in gone THEN Absent ELSE names[n]]
  /\ deleting' = FALSE
  /\ UNCHANGED <<day, running, fd, curlines, cursize, opendate, failed, inodes, msgs, lost, runs>>

(* The walk of a directory takes less than a day. *)
NextDay ==
  /\ day < MaxDay /\ ~deleting
  /\ day' = day + 1
  /\ UNCHANGED <<running, fd, curlines, cursize, opendate, failed, deleting, names, inodes,
                 msgs, lost, runs>>

Crash ==
  /\ running /\ runs <= MaxCrash
  /\ running' = FALSE /\ fd' = Closed /\ deleting' = FALSE
  /\ UNCHANGED <<day, curlines, cursize, opendate, failed, names, inodes, msgs, lost, runs>>

(* Init of a new writer: the file is opened, or created if need be; when   *)
(* that fails the process ends and is started again.                       *)
StartLogger ==
  /\ ~running
  /\ running' = TRUE /\ runs' = runs + 1
  /\ IF names[Filename] # Absent
       THEN /\ fd' = names[Filename]
            /\ curlines' = LineCount(fd') /\ cursize' = Size(fd')
            /\ UNCHANGED <<names, inodes>>
       ELSE /\ fd' = Len(inodes) + 1
            /\ curlines' = 0 /\ cursize' = 0
            /\ names' = [names EXCEPT ![Filename] = fd']
            /\ inodes' = Created(inodes)
  /\ opendate' = day
  /\ UNCHANGED <<day, failed, deleting, msgs, lost>>

(* At the bounds the agent has nothing to log. *)
Quiet == running /\ msgs = MaxMsgs /\ UNCHANGED vars

Next == WriteMsg \/ DeleteOldLog \/ NextDay \/ Crash \/ StartLogger \/ Quiet

Spec == Init /\ [][Next]_vars
-----------------------------------------------------------------------------
Lines == [id: Nat, day: Nat, len: Lengths, run: Nat]
Inodes == [mtime: Nat, size: Nat, lines: Seq(Lines)]

TypeOK ==
  /\ day \in 1..MaxDay /\ opendate \in 1..day
  /\ running \in BOOLEAN /\ failed \in BOOLEAN /\ deleting \in BOOLEAN
  /\ inodes \in Seq(Inodes)
  /\ fd \in 0..Len(inodes)
  /\ curlines \in Nat /\ cursize \in Nat
  /\ names \in [Names -> 0..Len(inodes)]
  /\ msgs \in Nat /\ lost \subseteq 1..msgs
  /\ runs \in Nat

(* In the step a line is added to inode i. *)
Grows(i) == i \in DOMAIN inodes' /\ i = fd' /\ msgs' = msgs + 1

LinesBefore(i) == IF i \in DOMAIN inodes THEN inodes[i].lines ELSE <<>>

(* A file of Maxlines lines, or of Maxsize bytes, gets no more lines,      *)
(* across restarts too, as long as a number of today is free for it.       *)
BoundedFile ==
  [][\A i \in DOMAIN inodes' :
       Grows(i) /\ (\E slot \in Names : Slot(slot)) =>
         /\ Len(LinesBefore(i)) < Maxlines
         /\ i \in DOMAIN inodes => Size(i) < Maxsize]_vars

(* The lines that one run of the agent writes to a file are of one day,    *)
(* as long as a number of the day is free: no failed rotation, and no      *)
(* rotation for another reason, makes the writer miss the change of day.   *)
DayPerRun ==
  [][\A i \in DOMAIN inodes' :
       Grows(i) /\ (\E slot \in Names : Slot(slot)) =>
         \A k \in DOMAIN LinesBefore(i) :
           LinesBefore(i)[k].run = runs => LinesBefore(i)[k].day = day]_vars

(* An open descriptor leads to the file that has the log's name: no line   *)
(* goes to a file already rotated, or deleted.                             *)
WritesToNamedFile == fd # Closed => fd = names[Filename]

(* Every message less than Maxdays days old that reached a file is in a    *)
(* file of the log directory: no rotation takes the name of another file,  *)
(* and no walk deletes a file that has recent lines.                       *)
OnDisk == UNION {{inodes[names[n]].lines[k].id : k \in DOMAIN inodes[names[n]].lines} :
                 n \in {m \in Names : names[m] # Absent}}

KeepsRecent ==
  \A i \in DOMAIN inodes : \A k \in DOMAIN inodes[i].lines :
    inodes[i].lines[k].day + Maxdays > day => inodes[i].lines[k].id \in OnDisk

(* log/file.go:168, "DoRotate means it need to write file in new file":    *)
(* when a rotation was due and reported no error, the line goes to the     *)
(* file that has the log's name.                                           *)
WritesToNewFile ==
  [][(msgs' = msgs + 1 /\ Due /\ ~failed') => (fd' # Closed /\ fd' = names'[Filename])]_vars
=============================================================================
