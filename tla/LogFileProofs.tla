---------------------------- MODULE LogFileProofs ----------------------------
(***************************************************************************)
(* Proofs about LogFile for every limit, every set of message lengths and  *)
(* every bound.                                                            *)
(***************************************************************************)
EXTENDS LogFile, TLAPS

USE ConstantsAssumption DEF ConstantsAssumption

(* A file's lines are no younger than the file, and of no later run.       *)
Dated ==
  \A i \in DOMAIN inodes :
    /\ inodes[i].mtime \in 1..day
    /\ \A k \in DOMAIN inodes[i].lines :
         inodes[i].lines[k].day \in 1..inodes[i].mtime /\ inodes[i].lines[k].run \in 0..runs

(* A file that has a recent line has a name. *)
Linked ==
  \A i \in DOMAIN inodes : \A k \in DOMAIN inodes[i].lines :
    inodes[i].lines[k].day + Maxdays > day => \E name \in Names : names[name] = i

(* While the walk goes on, the log's own file was written today: a walk    *)
(* begins at a rotation, which makes a new file.                           *)
WalkSparesLog ==
  deleting => /\ running
              /\ names[Filename] # Absent => inodes[names[Filename]].mtime = day

(* The open file has no line of this run that is older than its opening.   *)
RunLines ==
  fd # Closed =>
    \A k \in DOMAIN inodes[fd].lines :
      inodes[fd].lines[k].run = runs => inodes[fd].lines[k].day >= opendate

(* The open file is no longer than it was counted, or a rotation is due:   *)
(* lines go uncounted only while the day has no free number.               *)
CountsCover ==
  fd # Closed => Due \/ (Len(inodes[fd].lines) <= curlines /\ inodes[fd].size <= cursize)

IInv == TypeOK /\ Dated /\ WritesToNamedFile /\ Linked /\ WalkSparesLog /\ RunLines /\ CountsCover
-----------------------------------------------------------------------------
LEMMA FilenameType == Filename \in Names /\ \A d \in Nat : Filename \notin Archives(d)
BY DEF Filename, Names, Archives

Line(n) == [id |-> msgs + 1, day |-> day, len |-> n, run |-> runs]

(* A file after the line was added. *)
Longer(file, n) ==
  [mtime |-> day, size |-> file.size + Written(n), lines |-> Append(file.lines, Line(n))]

LEMMA LongerType == ASSUME TypeOK, NEW file \in Inodes, NEW n \in Lengths
                    PROVE  Longer(file, n) \in Inodes
<1>1. Line(n) \in Lines
  BY DEF Line, Lines, TypeOK
<1>2. Append(file.lines, Line(n)) \in Seq(Lines)
  BY <1>1 DEF Inodes
<1>3. file.size + Written(n) \in Nat /\ day \in Nat
  <2>1. file.size \in Nat /\ n \in Nat
    BY DEF Inodes
  <2> QED BY <2>1 DEF Written, TypeOK
<1> QED BY <1>2, <1>3 DEF Longer, Inodes

(* Println adds the line to the open file, if one is open, and changes no  *)
(* other file.                                                             *)
LEMMA PrintlnFacts ==
  ASSUME TypeOK, NEW t \in Seq(Inodes), NEW i \in 0..Len(t), NEW n \in Lengths, Println(t, i, n)
  PROVE  /\ inodes' \in Seq(Inodes) /\ Len(inodes') = Len(t)
         /\ msgs' = msgs + 1 /\ lost' \subseteq 1..msgs'
         /\ \A j \in DOMAIN t : j # i => inodes'[j] = t[j]
         /\ i # Closed => inodes'[i] = Longer(t[i], n)
<1>1. msgs \in Nat /\ lost \subseteq 1..msgs /\ i \in Nat
  BY DEF TypeOK
<1>2. msgs' = msgs + 1
  BY DEF Println
<1>3. CASE i = Closed
  <2>1. inodes' = t /\ lost' = lost \cup {msgs + 1}
    BY <1>3 DEF Println
  <2> QED BY <1>1, <1>2, <1>3, <2>1
<1>4. CASE i # Closed
  <2>1. i \in 1..Len(t) /\ t[i] \in Inodes
    BY <1>1, <1>4 DEF Closed
  <2> DEFINE file == Longer(t[i], n)
  <2>4. file \in Inodes
    BY <2>1, LongerType
  <2>5. inodes' = [t EXCEPT ![i] = file] /\ lost' = lost
    BY <1>4, <2>1 DEF Println, Line, Longer
  <2> HIDE DEF file
  <2>6. /\ inodes' \in Seq(Inodes) /\ Len(inodes') = Len(t) /\ inodes'[i] = file
        /\ \A j \in DOMAIN t : j # i => inodes'[j] = t[j]
    BY <2>1, <2>4, <2>5
  <2> QED BY <1>1, <1>2, <2>5, <2>6 DEF file
<1> QED BY <1>3, <1>4

(* A new file is the last one, is empty and is of today. *)
LEMMA CreatedFacts ==
  ASSUME TypeOK
  PROVE  /\ Created(inodes) \in Seq(Inodes) /\ Len(Created(inodes)) = Len(inodes) + 1
         /\ \A j \in DOMAIN inodes : Created(inodes)[j] = inodes[j]
         /\ Created(inodes)[Len(inodes) + 1] = [mtime |-> day, size |-> 0, lines |-> <<>>]
<1>1. [mtime |-> day, size |-> 0, lines |-> <<>>] \in Inodes
  BY DEF Inodes, TypeOK
<1> QED BY <1>1 DEF Created, TypeOK

LEMMA InitInv == Init => IInv
<1> SUFFICES ASSUME Init PROVE IInv
  OBVIOUS
<1>1. inodes = <<[mtime |-> 1, size |-> 0, lines |-> <<>>]>> /\ [mtime |-> 1, size |-> 0, lines |-> <<>>] \in Inodes
  BY DEF Init, Inodes
<1>2. inodes \in Seq(Inodes) /\ Len(inodes) = 1 /\ inodes[1] = [mtime |-> 1, size |-> 0, lines |-> <<>>]
  BY <1>1
<1>3. TypeOK
  <2>1. names \in [Names -> 0..1]
    BY DEF Init, Absent
  <2>2. day \in 1..MaxDay /\ opendate \in 1..day /\ fd \in 0..Len(inodes)
    BY <1>2 DEF Init
  <2>3. msgs \in Nat /\ lost \subseteq 1..msgs /\ runs \in Nat /\ curlines \in Nat /\ cursize \in Nat
    BY DEF Init
  <2> QED BY <1>2, <2>1, <2>2, <2>3 DEF Init, TypeOK
<1>4. /\ DOMAIN inodes[1].lines = {} /\ DOMAIN inodes = {1}
      /\ Len(inodes[1].lines) = 0 /\ inodes[1].size = 0
  BY <1>2
<1> QED
  BY <1>2, <1>3, <1>4, FilenameType
     DEF Init, IInv, Dated, Linked, WritesToNamedFile, WalkSparesLog, RunLines,
         CountsCover
-----------------------------------------------------------------------------
(* A line of the table after a line was written to the open file, or to    *)
(* none, is a line of the table before, or the new one.                    *)
LEMMA LinesAfterWrite ==
  ASSUME TypeOK, NEW n \in Lengths, Println(inodes, fd, n)
  PROVE  /\ DOMAIN inodes' = DOMAIN inodes
         /\ \A i \in DOMAIN inodes :
              /\ inodes'[i].mtime = inodes[i].mtime \/ (i = fd /\ inodes'[i].mtime = day)
              /\ \A k \in DOMAIN inodes'[i].lines :
                   \/ k \in DOMAIN inodes[i].lines /\ inodes'[i].lines[k] = inodes[i].lines[k]
                   \/ i = fd /\ fd # Closed /\ inodes'[i].lines[k] = Line(n) /\ inodes'[i].mtime = day
<1>1. inodes \in Seq(Inodes) /\ fd \in 0..Len(inodes)
  BY DEF TypeOK
<1>2. /\ inodes' \in Seq(Inodes) /\ Len(inodes') = Len(inodes)
      /\ \A j \in DOMAIN inodes : j # fd => inodes'[j] = inodes[j]
      /\ fd # Closed => inodes'[fd] = Longer(inodes[fd], n)
  BY <1>1, PrintlnFacts
<1>3. DOMAIN inodes' = DOMAIN inodes /\ DOMAIN inodes = 1..Len(inodes)
  BY <1>1, <1>2
<1>4. ASSUME fd # Closed, NEW k \in DOMAIN inodes'[fd].lines
      PROVE  \/ k \in DOMAIN inodes[fd].lines /\ inodes'[fd].lines[k] = inodes[fd].lines[k]
             \/ inodes'[fd].lines[k] = Line(n)
  <2>1. inodes[fd] \in Inodes
    BY <1>1, <1>4 DEF Closed
  <2>2. inodes[fd].lines \in Seq(Lines)
    BY <2>1 DEF Inodes
  <2>3. inodes'[fd].lines = Append(inodes[fd].lines, Line(n))
    BY <1>2, <1>4 DEF Longer
  <2>4. k \in 1..(Len(inodes[fd].lines) + 1) /\ DOMAIN inodes[fd].lines = 1..Len(inodes[fd].lines)
        /\ Len(inodes[fd].lines) \in Nat
    BY <1>4, <2>2, <2>3
  <2> QED BY <2>2, <2>3, <2>4
<1>5. ASSUME NEW i \in DOMAIN inodes, i = fd
      PROVE  fd # Closed /\ inodes'[i].mtime = day
  BY <1>2, <1>3, <1>5 DEF Closed, Longer
<1>6. ASSUME NEW i \in DOMAIN inodes, i # fd
      PROVE  inodes'[i] = inodes[i]
  BY <1>2, <1>6
<1>7. ASSUME NEW i \in DOMAIN inodes
      PROVE  /\ inodes'[i].mtime = inodes[i].mtime \/ (i = fd /\ inodes'[i].mtime = day)
             /\ \A k \in DOMAIN inodes'[i].lines :
                  \/ k \in DOMAIN inodes[i].lines /\ inodes'[i].lines[k] = inodes[i].lines[k]
                  \/ i = fd /\ fd # Closed /\ inodes'[i].lines[k] = Line(n) /\ inodes'[i].mtime = day
  <2>1. CASE i = fd
    BY <1>4, <1>5, <2>1
  <2>2. CASE i # fd
    <3>1. inodes'[i] = inodes[i]
      BY <1>6, <2>2
    <3> QED BY <3>1
  <2> QED BY <2>1, <2>2
<1> QED BY <1>3, <1>7

(* A line is written to the file that is open, or to none if none is.      *)
LEMMA WriteInPlace ==
  ASSUME IInv, NEW n \in Lengths, Println(inodes, fd, n),
         Count(curlines, cursize, n) \/ (Due /\ UNCHANGED <<curlines, cursize>>),
         failed' \in BOOLEAN,
         UNCHANGED <<day, running, fd, opendate, deleting, names, runs>>
  PROVE  IInv'
<1> USE DEF IInv
<1>1. fd \in 0..Len(inodes) /\ inodes \in Seq(Inodes) /\ day \in Nat /\ day >= 1 /\ runs \in Nat
  BY DEF TypeOK
<1>2. /\ inodes' \in Seq(Inodes) /\ Len(inodes') = Len(inodes)
      /\ msgs' = msgs + 1 /\ lost' \subseteq 1..msgs'
  BY <1>1, PrintlnFacts
<1>3. TypeOK'
  <2>1. curlines' \in Nat /\ cursize' \in Nat
    BY DEF Count, Counted, TypeOK
  <2> QED BY <1>1, <1>2, <2>1 DEF TypeOK
<1>4. Line(n).day = day /\ Line(n).run = runs
  BY DEF Line
<1>5. Dated'
  <2>1. SUFFICES ASSUME NEW i \in DOMAIN inodes
                 PROVE  /\ inodes'[i].mtime \in 1..day
                        /\ \A k \in DOMAIN inodes'[i].lines :
                             /\ inodes'[i].lines[k].day \in 1..inodes'[i].mtime
                             /\ inodes'[i].lines[k].run \in 0..runs
    BY LinesAfterWrite DEF Dated
  <2>2. inodes'[i].mtime = inodes[i].mtime \/ inodes'[i].mtime = day
    BY LinesAfterWrite
  <2>3. inodes[i].mtime \in 1..day
    BY DEF Dated
  <2>4. inodes'[i].mtime \in 1..day /\ inodes[i].mtime <= inodes'[i].mtime
    BY <1>1, <2>2, <2>3
  <2>5. ASSUME NEW k \in DOMAIN inodes'[i].lines
        PROVE  /\ inodes'[i].lines[k].day \in 1..inodes'[i].mtime
               /\ inodes'[i].lines[k].run \in 0..runs
    <3>1. CASE k \in DOMAIN inodes[i].lines /\ inodes'[i].lines[k] = inodes[i].lines[k]
      <4>1. inodes[i].lines[k].day \in 1..inodes[i].mtime /\ inodes[i].lines[k].run \in 0..runs
        BY <3>1 DEF Dated
      <4> QED BY <2>3, <2>4, <3>1, <4>1
    <3>2. CASE inodes'[i].lines[k] = Line(n) /\ inodes'[i].mtime = day
      BY <1>1, <1>4, <3>2
    <3> QED BY <2>5, <3>1, <3>2, LinesAfterWrite
  <2> QED BY <2>4, <2>5
<1>6. WritesToNamedFile'
  BY DEF WritesToNamedFile
<1>7. Linked'
  BY <1>4, LinesAfterWrite, FilenameType DEF Linked, WritesToNamedFile
<1>8. WalkSparesLog'
  <2>1. names[Filename] \in 0..Len(inodes)
    BY FilenameType DEF TypeOK
  <2>2. names[Filename] # Absent => names[Filename] \in DOMAIN inodes
    BY <1>1, <2>1 DEF Absent
  <2> QED BY <2>2, LinesAfterWrite DEF WalkSparesLog
<1>9. RunLines'
  <2>1. opendate <= day
    BY DEF TypeOK
  <2>2. fd # Closed => fd \in DOMAIN inodes
    BY <1>1 DEF Closed
  <2> QED BY <1>4, <2>1, <2>2, LinesAfterWrite DEF RunLines
<1>10. CountsCover'
  <2>1. SUFFICES ASSUME fd # Closed
                 PROVE  Due' \/ (Len(inodes'[fd].lines) <= curlines' /\ inodes'[fd].size <= cursize')
    BY DEF CountsCover
  <2>2. CASE UNCHANGED <<curlines, cursize>> /\ Due
    BY <2>2 DEF Due
  <2>3. CASE Count(curlines, cursize, n)
    <3>1. inodes'[fd] = Longer(inodes[fd], n)
      BY <1>1, <2>1, PrintlnFacts
    <3>2. inodes[fd] \in Inodes
      BY <1>1, <2>1 DEF Closed
    <3>3. inodes[fd].lines \in Seq(Lines) /\ inodes[fd].size \in Nat
      BY <3>2 DEF Inodes
    <3>4. Len(inodes'[fd].lines) = Len(inodes[fd].lines) + 1 /\ Len(inodes[fd].lines) \in Nat
      BY <3>1, <3>3 DEF Longer
    <3>5. inodes'[fd].size = inodes[fd].size + (n + 21)
      BY <3>1 DEF Longer, Written
    <3>6. curlines' = curlines + 1 /\ cursize' = cursize + (n + 24)
      BY <2>3 DEF Count, Counted
    <3>7. curlines \in Nat /\ cursize \in Nat /\ n \in Nat
      BY DEF TypeOK
    <3>8. CASE Len(inodes[fd].lines) <= curlines /\ inodes[fd].size <= cursize
      <4>1. Len(inodes'[fd].lines) <= curlines'
        BY <3>4, <3>6, <3>7, <3>8
      <4>2. inodes'[fd].size <= cursize'
        BY <3>3, <3>5, <3>6, <3>7, <3>8
      <4> QED BY <4>1, <4>2
    <3>9. CASE Due
      BY <3>6, <3>7, <3>9 DEF Due
    <3> QED BY <2>1, <3>8, <3>9 DEF CountsCover
  <2> QED BY <2>2, <2>3
<1> QED BY <1>3, <1>5, <1>6, <1>7, <1>8, <1>9, <1>10

(* The old file gets a name and the log's own name may be without a file:  *)
(* nothing of the table changes, and no file is open.                      *)
LEMMA RotationFails ==
  ASSUME IInv, NEW n \in Lengths, Println(inodes, Closed, n), fd' = Closed, failed' = TRUE,
         UNCHANGED <<day, running, curlines, cursize, opendate, deleting, runs>>,
         NEW slot \in Names, Slot(slot),
         \/ names' = names
         \/ names' = [names EXCEPT ![slot] = names[Filename], ![Filename] = Absent]
  PROVE  IInv'
<1> USE DEF IInv
<1>1. inodes \in Seq(Inodes) /\ Closed \in 0..Len(inodes)
  BY DEF TypeOK, Closed
<1>2. inodes' = inodes /\ msgs' = msgs + 1 /\ lost' \subseteq 1..msgs'
  BY <1>1, PrintlnFacts DEF Println
<1>3. names[slot] = Absent /\ slot # Filename
  BY FilenameType DEF Slot, TypeOK
<1>4. TypeOK'
  <2>1. names' \in [Names -> 0..Len(inodes)]
    BY FilenameType, <1>1 DEF TypeOK, Absent, Closed
  <2> QED BY <1>1, <1>2, <2>1 DEF TypeOK
<1>5. Dated' /\ WritesToNamedFile' /\ RunLines' /\ CountsCover'
  BY <1>2 DEF Dated, WritesToNamedFile, RunLines, CountsCover
<1>6. \A i \in DOMAIN inodes : (\E name \in Names : names[name] = i) => \E name \in Names : names'[name] = i
  <2>1. SUFFICES ASSUME NEW i \in DOMAIN inodes, NEW name \in Names, names[name] = i
                 PROVE  \E m \in Names : names'[m] = i
    OBVIOUS
  <2>2. i # Absent
    BY <1>1 DEF Absent
  <2>3. names \in [Names -> 0..Len(inodes)]
    BY DEF TypeOK
  <2>4. CASE name = Filename
    BY <1>3, <2>1, <2>3, <2>4, FilenameType
  <2>5. CASE name # Filename
    BY <1>3, <2>1, <2>2, <2>3, <2>5, FilenameType
  <2> QED BY <2>4, <2>5
<1>7. Linked'
  BY <1>2, <1>6 DEF Linked
<1>8. WalkSparesLog'
  <2>1. names'[Filename] = names[Filename] \/ names'[Filename] = Absent
    BY <1>3, FilenameType DEF TypeOK
  <2> QED BY <1>2, <2>1 DEF WalkSparesLog
<1> QED BY <1>4, <1>5, <1>7, <1>8

LEMMA RotateInv == ASSUME IInv, NEW n \in Lengths, Rotate(n), UNCHANGED <<day, running, runs>>, running
                   PROVE  IInv'
<1> USE DEF IInv
<1> DEFINE new == Len(inodes) + 1
           t == Created(inodes)
<1>1. PICK slot \in Names :
        Slot(slot) /\ names' = [names EXCEPT ![slot] = names[Filename], ![Filename] = new]
  BY DEF Rotate
<1>2. /\ fd' = new /\ Println(t, new, n) /\ opendate' = day /\ failed' = FALSE /\ deleting' = TRUE
      /\ curlines' = 1 /\ cursize' = n + 24
  BY DEF Rotate, Count, Counted
<1>3. inodes \in Seq(Inodes) /\ Len(inodes) \in Nat /\ names \in [Names -> 0..Len(inodes)] /\ day \in Nat /\ runs \in Nat
  BY DEF TypeOK
<1>4. /\ t \in Seq(Inodes) /\ Len(t) = new /\ t[new] = [mtime |-> day, size |-> 0, lines |-> <<>>]
      /\ \A j \in DOMAIN inodes : t[j] = inodes[j]
  BY CreatedFacts
<1> HIDE DEF t
<1>5. new \in 0..Len(t) /\ new # Closed
  BY <1>3, <1>4 DEF Closed
<1>6. /\ inodes' \in Seq(Inodes) /\ Len(inodes') = new
      /\ msgs' = msgs + 1 /\ lost' \subseteq 1..msgs'
      /\ \A j \in DOMAIN t : j # new => inodes'[j] = t[j]
      /\ inodes'[new] = Longer(t[new], n)
  BY <1>2, <1>4, <1>5, PrintlnFacts
<1>7. /\ DOMAIN inodes' = DOMAIN inodes \cup {new} /\ new \notin DOMAIN inodes
      /\ \A j \in DOMAIN inodes : inodes'[j] = inodes[j]
  BY <1>3, <1>4, <1>6
<1>8. /\ inodes'[new].mtime = day /\ DOMAIN inodes'[new].lines = {1}
      /\ inodes'[new].lines[1].day = day /\ inodes'[new].lines[1].run = runs
      /\ Len(inodes'[new].lines) = 1 /\ inodes'[new].size = n + 21
  <2>1. /\ inodes'[new].lines = Append(<<>>, Line(n)) /\ inodes'[new].mtime = day
        /\ inodes'[new].size = n + 21
    BY <1>4, <1>6 DEF Longer, Written
  <2>2. Append(<<>>, Line(n)) = <<Line(n)>>
    OBVIOUS
  <2> QED BY <2>1, <2>2 DEF Line
<1>9. names[slot] = Absent /\ slot # Filename /\ Filename \in Names
  BY <1>1, FilenameType DEF Slot, TypeOK
<1>10. names' \in [Names -> 0..new] /\ names'[Filename] = new /\ names'[slot] = names[Filename]
       /\ \A m \in Names : m # slot /\ m # Filename => names'[m] = names[m]
  BY <1>1, <1>3, <1>9
<1>11. TypeOK'
  <2>1. curlines' \in Nat /\ cursize' \in Nat /\ fd' \in 0..Len(inodes') /\ opendate' \in 1..day /\ msgs' \in Nat
    BY <1>2, <1>3, <1>6 DEF TypeOK
  <2>2. names' \in [Names -> 0..Len(inodes')]
    BY <1>6, <1>10
  <2> QED BY <1>2, <1>6, <2>1, <2>2 DEF TypeOK
<1>12. Dated'
  <2>1. day \in 1..day /\ runs \in 0..runs
    BY <1>3 DEF TypeOK
  <2> QED BY <1>7, <1>8, <2>1 DEF Dated
<1>13. WritesToNamedFile'
  BY <1>2, <1>10 DEF WritesToNamedFile
<1>14. Linked'
  <2>1. ASSUME NEW i \in DOMAIN inodes, NEW m \in Names, names[m] = i
        PROVE  \E name \in Names : names'[name] = i
    <3>1. m # slot
      BY <1>3, <1>9, <2>1 DEF Absent
    <3>2. CASE m = Filename
      BY <1>10, <2>1, <3>2
    <3> QED BY <1>10, <2>1, <3>1, <3>2
  <2>2. \E name \in Names : names'[name] = new
    BY <1>9, <1>10
  <2> QED BY <1>7, <2>1, <2>2 DEF Linked
<1>15. WalkSparesLog'
  BY <1>8, <1>10 DEF WalkSparesLog
<1>16. RunLines'
  BY <1>2, <1>3, <1>8 DEF RunLines
<1>17. CountsCover'
  BY <1>2, <1>8 DEF CountsCover
<1> QED BY <1>11, <1>12, <1>13, <1>14, <1>15, <1>16, <1>17

LEMMA WriteMsgInv == ASSUME IInv, WriteMsg PROVE IInv'
<1>1. PICK n \in Lengths :
        WriteHere(n) \/ NoFreeNumber(n) \/ RenameFails(n) \/ CreateFails(n) \/ Rotate(n)
  BY DEF WriteMsg
<1>2. running /\ UNCHANGED <<day, running, runs>>
  BY DEF WriteMsg
<1>4. CASE WriteHere(n)
  BY <1>2, <1>4, WriteInPlace DEF WriteHere
<1>5. CASE NoFreeNumber(n)
  BY <1>2, <1>5, WriteInPlace DEF NoFreeNumber
<1>6. CASE RenameFails(n)
  BY <1>2, <1>6, RotationFails DEF RenameFails
<1>7. CASE CreateFails(n)
  BY <1>2, <1>7, RotationFails DEF CreateFails
<1>8. CASE Rotate(n)
  BY <1>2, <1>8, RotateInv
<1> QED BY <1>1, <1>4, <1>5, <1>6, <1>7, <1>8

LEMMA DeleteOldLogInv == ASSUME IInv, DeleteOldLog PROVE IInv'
<1> USE DEF IInv
<1>1. PICK gone \in SUBSET {m \in Names : names[m] # Absent /\ Expired(names[m])} :
        names' = [m \in Names |-> IF m \in gone THEN Absent ELSE names[m]]
  BY DEF DeleteOldLog
<1>2. deleting /\ deleting' = FALSE
      /\ UNCHANGED <<day, running, fd, curlines, cursize, opendate, failed, inodes, msgs, lost, runs>>
  BY DEF DeleteOldLog
<1>3. inodes \in Seq(Inodes) /\ names \in [Names -> 0..Len(inodes)] /\ day \in Nat
  BY DEF TypeOK
<1>4. TypeOK'
  <2>1. names' \in [Names -> 0..Len(inodes)]
    BY <1>1, <1>3 DEF Absent
  <2> QED BY <1>2, <2>1 DEF TypeOK
<1>5. Dated' /\ RunLines' /\ WalkSparesLog' /\ CountsCover'
  BY <1>2 DEF Dated, RunLines, WalkSparesLog, CountsCover, Due
<1>6. WritesToNamedFile'
  <2>1. Filename \notin gone
    BY <1>1, <1>2, <1>3, FilenameType DEF WalkSparesLog, Expired
  <2> QED BY <1>1, <1>2, <2>1, FilenameType DEF WritesToNamedFile
<1>7. Linked'
  <2>1. SUFFICES ASSUME NEW i \in DOMAIN inodes, NEW k \in DOMAIN inodes[i].lines,
                        inodes[i].lines[k].day + Maxdays > day
                 PROVE  \E m \in Names : names'[m] = i
    BY <1>2 DEF Linked
  <2>2. PICK m \in Names : names[m] = i
    BY <2>1 DEF Linked
  <2>3. m \notin gone
    BY <1>1, <1>3, <2>1, <2>2 DEF Dated, Expired
  <2> QED BY <1>1, <2>2, <2>3
<1> QED BY <1>4, <1>5, <1>6, <1>7

LEMMA NextDayInv == ASSUME IInv, NextDay PROVE IInv'
<1> USE DEF IInv
<1>1. /\ day' = day + 1 /\ day < MaxDay /\ ~deleting
      /\ UNCHANGED <<running, fd, curlines, cursize, opendate, failed, deleting, names, inodes,
                     msgs, lost, runs>>
  BY DEF NextDay
<1>2. TypeOK'
  BY <1>1 DEF TypeOK
<1>3. Dated'
  <2>1. \A i \in DOMAIN inodes : inodes[i].mtime \in 1..(day + 1)
    BY DEF Dated, TypeOK
  <2> QED BY <1>1, <2>1 DEF Dated
<1>4. WritesToNamedFile' /\ WalkSparesLog' /\ RunLines'
  BY <1>1 DEF WritesToNamedFile, WalkSparesLog, RunLines
<1>5. Linked'
  <2>1. SUFFICES ASSUME NEW i \in DOMAIN inodes, NEW k \in DOMAIN inodes[i].lines,
                        inodes[i].lines[k].day + Maxdays > day + 1
                 PROVE  \E m \in Names : names[m] = i
    BY <1>1 DEF Linked
  <2>2. inodes[i].mtime \in 1..day /\ inodes[i].lines[k].day \in 1..inodes[i].mtime
    BY DEF Dated
  <2>3. day \in Nat
    BY DEF TypeOK
  <2> QED BY <2>1, <2>2, <2>3 DEF Linked
<1>6. CountsCover'
  BY <1>1 DEF CountsCover, Due, TypeOK
<1> QED BY <1>2, <1>3, <1>4, <1>5, <1>6

LEMMA CrashInv == ASSUME IInv, Crash PROVE IInv'
<1> USE DEF IInv, Crash
<1>1. fd' = 0 /\ 0 \in 0..Len(inodes) /\ UNCHANGED inodes
  BY DEF TypeOK, Closed
<1>2. TypeOK'
  BY <1>1 DEF TypeOK
<1>3. Dated' /\ Linked'
  BY DEF Dated, Linked
<1>4. WritesToNamedFile' /\ WalkSparesLog' /\ RunLines' /\ CountsCover'
  BY DEF WritesToNamedFile, WalkSparesLog, RunLines, CountsCover
<1> QED BY <1>2, <1>3, <1>4

LEMMA StartLoggerInv == ASSUME IInv, StartLogger PROVE IInv'
<1> USE DEF IInv
<1> DEFINE new == Len(inodes) + 1
<1>1. /\ running' = TRUE /\ runs' = runs + 1 /\ opendate' = day
      /\ UNCHANGED <<day, failed, deleting, msgs, lost>> /\ ~running
  BY DEF StartLogger
<1>2. /\ inodes \in Seq(Inodes) /\ Len(inodes) \in Nat /\ names \in [Names -> 0..Len(inodes)]
      /\ day \in 1..MaxDay /\ runs \in Nat
  BY DEF TypeOK
<1>3. ~deleting
  BY <1>1 DEF WalkSparesLog
<1>4. Filename \in Names
  BY FilenameType
<1>5. \A i \in DOMAIN inodes : \A k \in DOMAIN inodes[i].lines : inodes[i].lines[k].run # runs + 1
  BY <1>2 DEF Dated
<1>6. CASE names[Filename] # Absent
  <2>1. /\ fd' = names[Filename] /\ curlines' = LineCount(fd') /\ cursize' = inodes[fd'].size
        /\ UNCHANGED <<names, inodes>>
    BY <1>6 DEF StartLogger, Size
  <2>2. fd' \in DOMAIN inodes
    BY <1>2, <1>4, <1>6, <2>1 DEF Absent
  <2>3. curlines' \in Nat /\ cursize' \in Nat /\ Len(inodes[fd'].lines) <= curlines'
    <3>1. inodes[fd'] \in Inodes
      BY <1>2, <2>2
    <3>2. inodes[fd'].lines \in Seq(Lines) /\ inodes[fd'].size \in Nat
      BY <3>1 DEF Inodes
    <3>3. Len(inodes[fd'].lines) \in Nat /\ (inodes[fd'].lines = <<>> => Len(inodes[fd'].lines) = 0)
      BY <3>2
    <3> QED BY <2>1, <3>2, <3>3 DEF LineCount
  <2>4. TypeOK'
    BY <1>1, <1>2, <2>1, <2>2, <2>3 DEF TypeOK
  <2>5. Dated'
    BY <1>1, <1>2, <2>1 DEF Dated
  <2>6. WritesToNamedFile' /\ WalkSparesLog' /\ Linked'
    BY <1>1, <1>3, <2>1 DEF WritesToNamedFile, WalkSparesLog, Linked
  <2>7. RunLines'
    BY <1>1, <1>5, <2>1, <2>2 DEF RunLines
  <2>8. CountsCover'
    BY <2>1, <2>2, <2>3, <2>4 DEF CountsCover, TypeOK
  <2> QED BY <2>4, <2>5, <2>6, <2>7, <2>8
<1>7. CASE names[Filename] = Absent
  <2>1. /\ fd' = new /\ curlines' = 0 /\ cursize' = 0 /\ names' = [names EXCEPT ![Filename] = new]
        /\ inodes' = Created(inodes)
    BY <1>7 DEF StartLogger
  <2>2. /\ inodes' \in Seq(Inodes) /\ Len(inodes') = new
        /\ \A j \in DOMAIN inodes : inodes'[j] = inodes[j]
        /\ inodes'[new] = [mtime |-> day, size |-> 0, lines |-> <<>>]
    BY <2>1, CreatedFacts
  <2>3. DOMAIN inodes' = DOMAIN inodes \cup {new} /\ new \notin DOMAIN inodes
    BY <1>2, <2>2
  <2>4. /\ inodes'[new].mtime = day /\ DOMAIN inodes'[new].lines = {}
        /\ Len(inodes'[new].lines) = 0 /\ inodes'[new].size = 0
    BY <2>2
  <2>5. /\ names' \in [Names -> 0..new] /\ names'[Filename] = new
        /\ \A m \in Names : m # Filename => names'[m] = names[m]
    BY <1>2, <1>4, <2>1
  <2>6. TypeOK'
    <3>1. fd' \in 0..Len(inodes') /\ names' \in [Names -> 0..Len(inodes')] /\ opendate' \in 1..day
      BY <1>1, <1>2, <2>1, <2>2, <2>5
    <3> QED BY <1>1, <1>2, <2>1, <2>2, <3>1 DEF TypeOK
  <2>7. Dated'
    BY <1>1, <1>2, <2>2, <2>3, <2>4 DEF Dated
  <2>8. WritesToNamedFile' /\ WalkSparesLog'
    BY <1>1, <1>3, <2>1, <2>5 DEF WritesToNamedFile, WalkSparesLog
  <2>9. Linked'
    <3>1. \A i \in DOMAIN inodes, m \in Names : names[m] = i => names'[m] = i
      BY <1>2, <1>7, <2>5 DEF Absent
    <3>2. ASSUME NEW i \in DOMAIN inodes', NEW k \in DOMAIN inodes'[i].lines,
                 inodes'[i].lines[k].day + Maxdays > day
          PROVE  \E m \in Names : names'[m] = i
      BY <2>2, <2>3, <2>4, <3>1, <3>2 DEF Linked
    <3> QED BY <1>1, <3>2 DEF Linked
  <2>10. RunLines'
    BY <2>1, <2>4 DEF RunLines
  <2>11. CountsCover'
    BY <2>1, <2>4 DEF CountsCover
  <2> QED BY <2>6, <2>7, <2>8, <2>9, <2>10, <2>11
<1> QED BY <1>6, <1>7

LEMMA NextInv == IInv /\ [Next]_vars => IInv'
<1> SUFFICES ASSUME IInv, [Next]_vars PROVE IInv'
  OBVIOUS
<1>1. CASE Quiet \/ UNCHANGED vars
  <2>1. UNCHANGED vars
    BY <1>1 DEF Quiet
  <2> QED
    BY <2>1 DEF vars, IInv, TypeOK, Dated, WritesToNamedFile, Linked, WalkSparesLog, RunLines,
                CountsCover, Due
<1> QED
  BY <1>1, WriteMsgInv, DeleteOldLogInv, NextDayInv, CrashInv, StartLoggerInv DEF Next

LEMMA Invariance == Spec => []IInv
BY InitInv, NextInv, PTL DEF Spec

(* A message recent enough to be kept is found under some name. *)
LEMMA LinkedKeeps == TypeOK /\ Linked => KeepsRecent
<1> SUFFICES ASSUME TypeOK, Linked, NEW i \in DOMAIN inodes, NEW k \in DOMAIN inodes[i].lines,
                    inodes[i].lines[k].day + Maxdays > day
             PROVE  inodes[i].lines[k].id \in OnDisk
  BY DEF KeepsRecent
<1>1. PICK name \in Names : names[name] = i
  BY DEF Linked
<1>2. names[name] # Absent
  BY <1>1 DEF TypeOK, Absent
<1> QED BY <1>1, <1>2 DEF OnDisk

(* FileLogWriter of log/file.go: its counters, its descriptor and the names *)
(* it gives have their types in every state.                               *)
THEOREM TypeCorrect == Spec => []TypeOK
BY Invariance, PTL DEF IInv

(* DoRotate and Init of log/file.go: the open descriptor is that of the    *)
(* file with the log's name, whatever failed, and deleteOldLog never takes *)
(* that name away while the file is open.                                  *)
THEOREM WritesToNamedFileCorrect == Spec => []WritesToNamedFile
BY Invariance, PTL DEF IInv

(* A message that reached a file stays in the log directory for Maxdays    *)
(* days, through rotations, failures, walks and restarts.                  *)
THEOREM KeepsRecentCorrect == Spec => []KeepsRecent
BY Invariance, LinkedKeeps, PTL DEF IInv
-----------------------------------------------------------------------------
(* One step of DayPerRun.  A line is added only by WriteMsg; with a number *)
(* free, to a file opened on the day of the line, or to a new file.        *)
DayPerRunStep ==
  \A i \in DOMAIN inodes' :
    Grows(i) /\ (\E slot \in Names : Slot(slot)) =>
      \A k \in DOMAIN LinesBefore(i) :
        LinesBefore(i)[k].run = runs => LinesBefore(i)[k].day = day

(* With a number free, a file that has lines gets one more only if it is   *)
(* the open file and no rotation is due.                                   *)
LEMMA GrowsNotDue ==
  ASSUME IInv, [Next]_vars, NEW i \in DOMAIN inodes, Grows(i), NEW slot \in Names, Slot(slot)
  PROVE  i = fd /\ fd # Closed /\ ~Due
<1> USE DEF IInv
<1>1. i = fd' /\ msgs' = msgs + 1 /\ msgs \in Nat
  BY DEF Grows, TypeOK
<1>2. WriteMsg
  BY <1>1 DEF Next, DeleteOldLog, NextDay, Crash, StartLogger, Quiet, vars
<1>3. PICK n \in Lengths :
        WriteHere(n) \/ NoFreeNumber(n) \/ RenameFails(n) \/ CreateFails(n) \/ Rotate(n)
  BY <1>2 DEF WriteMsg
<1>4. ~NoFreeNumber(n)
  BY DEF NoFreeNumber
<1>5. inodes \in Seq(Inodes) /\ fd \in 0..Len(inodes)
  BY DEF TypeOK
<1>6. ~Rotate(n)
  BY <1>1, <1>5 DEF Rotate
<1>7. ~RenameFails(n) /\ ~CreateFails(n)
  BY <1>1, <1>5 DEF RenameFails, CreateFails, Closed
<1>8. WriteHere(n) /\ fd' = fd
  BY <1>3, <1>4, <1>6, <1>7 DEF WriteHere
<1>9. fd # Closed
  BY <1>1, <1>5, <1>8 DEF Closed
<1> QED BY <1>1, <1>8, <1>9 DEF WriteHere, WritesToNamedFile, Closed, Absent

LEMMA NextDayPerRun == ASSUME IInv, [Next]_vars PROVE DayPerRunStep
<1> USE DEF IInv
<1> SUFFICES ASSUME NEW i \in DOMAIN inodes', Grows(i), NEW slot \in Names, Slot(slot),
                    NEW k \in DOMAIN LinesBefore(i), LinesBefore(i)[k].run = runs
             PROVE  LinesBefore(i)[k].day = day
  BY DEF DayPerRunStep
<1>1. i \in DOMAIN inodes /\ LinesBefore(i) = inodes[i].lines
  BY DEF LinesBefore
<1>2. i = fd /\ fd # Closed /\ ~Due
  BY <1>1, GrowsNotDue
<1>3. /\ inodes[i].lines[k].day >= opendate /\ inodes[i].lines[k].day \in 1..inodes[i].mtime
      /\ inodes[i].mtime \in 1..day
  BY <1>1, <1>2 DEF RunLines, Dated
<1> QED BY <1>1, <1>2, <1>3 DEF Due, TypeOK

(* One step of BoundedFile. *)
BoundedFileStep ==
  \A i \in DOMAIN inodes' :
    Grows(i) /\ (\E slot \in Names : Slot(slot)) =>
      /\ Len(LinesBefore(i)) < Maxlines
      /\ i \in DOMAIN inodes => Size(i) < Maxsize

LEMMA NextBoundedFile == ASSUME IInv, [Next]_vars PROVE BoundedFileStep
<1> USE DEF IInv
<1> SUFFICES ASSUME NEW i \in DOMAIN inodes', Grows(i), NEW slot \in Names, Slot(slot)
             PROVE  /\ Len(LinesBefore(i)) < Maxlines
                    /\ i \in DOMAIN inodes => Size(i) < Maxsize
  BY DEF BoundedFileStep
<1>1. CASE i \in DOMAIN inodes
  <2>1. i = fd /\ fd # Closed /\ ~Due
    BY <1>1, GrowsNotDue
  <2>2. Len(inodes[i].lines) <= curlines /\ inodes[i].size <= cursize
    BY <2>1 DEF CountsCover
  <2>3. curlines < Maxlines /\ cursize < Maxsize
    BY <2>1 DEF Due, TypeOK
  <2>4. inodes[i] \in Inodes
    BY <1>1 DEF TypeOK
  <2>5. inodes[i].lines \in Seq(Lines) /\ inodes[i].size \in Nat
    BY <2>4 DEF Inodes
  <2>6. Len(inodes[i].lines) \in Nat
    BY <2>5
  <2> QED BY <1>1, <2>2, <2>3, <2>5, <2>6 DEF LinesBefore, Size, TypeOK
<1>2. CASE i \notin DOMAIN inodes
  <2>1. LinesBefore(i) = <<>>
    BY <1>2 DEF LinesBefore
  <2> QED BY <1>2, <2>1
<1> QED BY <1>1, <1>2

(* docheck, initFd and DoRotate of log/file.go: a file of Maxlines lines,  *)
(* or of Maxsize bytes, gets no more lines while a number of the day is    *)
(* free, whatever failed or restarted before.                              *)
THEOREM BoundedFileCorrect == Spec => BoundedFile
<1>1. IInv /\ [Next]_vars => [BoundedFileStep]_vars
  BY NextBoundedFile
<1> QED BY <1>1, Invariance, PTL DEF Spec, BoundedFile, BoundedFileStep

(* docheck and DoRotate of log/file.go: no failed rotation, and no         *)
(* rotation for another reason, makes the writer miss a change of day.     *)
THEOREM DayPerRunCorrect == Spec => DayPerRun
<1>1. IInv /\ [Next]_vars => [DayPerRunStep]_vars
  BY NextDayPerRun
<1> QED BY <1>1, Invariance, PTL DEF Spec, DayPerRun, DayPerRunStep
=============================================================================
