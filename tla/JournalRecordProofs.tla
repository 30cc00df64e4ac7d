-------------------------- MODULE JournalRecordProofs ------------------------
(***************************************************************************)
(* What a journal cut anywhere still says, and that verify, rollback and   *)
(* repair can rely on it, for every state root and any number of saves.    *)
(***************************************************************************)
EXTENDS JournalRecord, RecordFileProofs

-----------------------------------------------------------------------------
(* The record file *)

RecordKeys == {"PARTBOOTER_OPERATION_V1", "operation_id", "plan_id", "backup_root", "status",
               "summary", "step"}

(* Six lines and then the steps *)
RecordLaid(lines, journal) ==
  /\ lines[1] = Line("PARTBOOTER_OPERATION_V1", "any")
  /\ lines[2] = Line("operation_id", journal.operation)
  /\ lines[3] = Line("plan_id", journal.plan)
  /\ lines[4] = Line("backup_root", journal.path)
  /\ lines[5] = Line("status", journal.status)
  /\ lines[6] = Line("summary", "any")
  /\ \A i \in 1..Len(journal.steps) : lines[6 + i] = Line("step", journal.steps[i])

(* Six items, each at its place. *)
LEMMA SixItems ==
  ASSUME NEW items, NEW a \in items, NEW b \in items, NEW c \in items,
         NEW d \in items, NEW e \in items, NEW f \in items,
         NEW six, six = <<a, b, c, d, e, f>>
  PROVE  /\ six \in Seq(items) /\ Len(six) = 6
         /\ six[1] = a /\ six[2] = b /\ six[3] = c /\ six[4] = d /\ six[5] = e /\ six[6] = f
<1>1. six \in Seq(items)
  OBVIOUS
<1>2. Len(six) = 6
  OBVIOUS
<1>3. six[1] = a /\ six[2] = b /\ six[3] = c /\ six[4] = d /\ six[5] = e /\ six[6] = f
  OBVIOUS
<1> QED BY <1>1, <1>2, <1>3

(* The lines of a journal: six, and one for each step. *)
LEMMA RecordLayout ==
  ASSUME NEW values, NEW journal, journal.steps \in Seq(values),
         {"any", journal.operation, journal.plan, journal.path, journal.status} \subseteq values
  PROVE  /\ ToRecordFile(journal) \in Seq(LinesOf(RecordKeys, values))
         /\ Len(ToRecordFile(journal)) = 6 + Len(journal.steps)
         /\ RecordLaid(ToRecordFile(journal), journal)
<1> DEFINE L == LinesOf(RecordKeys, values)
           a == Line("PARTBOOTER_OPERATION_V1", "any")
           b == Line("operation_id", journal.operation)
           c == Line("plan_id", journal.plan)
           d == Line("backup_root", journal.path)
           e == Line("status", journal.status)
           f == Line("summary", "any")
<1>1. a \in L /\ b \in L /\ c \in L /\ d \in L /\ e \in L /\ f \in L
  <2>1. \A key \in RecordKeys, value \in values : Line(key, value) \in L
    BY DEF Line, LinesOf, States
  <2>2. {"PARTBOOTER_OPERATION_V1", "operation_id", "plan_id", "backup_root", "status",
         "summary", "step"} \subseteq RecordKeys
    BY DEF RecordKeys
  <2>3. /\ "any" \in values /\ journal.operation \in values /\ journal.plan \in values
        /\ journal.path \in values /\ journal.status \in values
    OBVIOUS
  <2> HIDE DEF L
  <2> QED BY <2>1, <2>2, <2>3
<1>2. PICK T \in Seq(L) :
        /\ T = Lines("step", journal.steps) /\ Len(T) = Len(journal.steps)
        /\ \A i \in 1..Len(journal.steps) : T[i] = Line("step", journal.steps[i])
  <2>1. "step" \in RecordKeys
    BY DEF RecordKeys
  <2>2. \A seq \in Seq(values) :
          /\ Lines("step", seq) \in Seq(L) /\ Len(Lines("step", seq)) = Len(seq)
          /\ \A i \in 1..Len(seq) : Lines("step", seq)[i] = Line("step", seq[i])
    BY <2>1, LinesShape
  <2> HIDE DEF L
  <2> QED BY <2>2
<1> HIDE DEF L, a, b, c, d, e, f
<1>3. PICK H \in Seq(L) :
        /\ H = <<a, b, c, d, e, f>> /\ Len(H) = 6
        /\ H[1] = a /\ H[2] = b /\ H[3] = c /\ H[4] = d /\ H[5] = e /\ H[6] = f
  <2>1. PICK six : six = <<a, b, c, d, e, f>>
    OBVIOUS
  <2>2. six \in Seq(L)
    BY <1>1, <2>1, SixItems
  <2>3. Len(six) = 6
    BY <1>1, <2>1, SixItems
  <2>4. six[1] = a /\ six[2] = b /\ six[3] = c /\ six[4] = d /\ six[5] = e /\ six[6] = f
    BY <1>1, <2>1, SixItems
  <2> QED BY <2>1, <2>2, <2>3, <2>4, Zenon
<1>4. /\ H \o T \in Seq(L) /\ Len(H \o T) = 6 + Len(journal.steps)
      /\ \A i \in 1..6 : (H \o T)[i] = H[i]
      /\ \A i \in 1..Len(journal.steps) : (H \o T)[6 + i] = T[i]
  <2>1. /\ H \o T \in Seq(L) /\ Len(H \o T) = Len(H) + Len(T)
        /\ \A i \in 1..Len(H) : (H \o T)[i] = H[i]
        /\ \A i \in 1..Len(T) : (H \o T)[Len(H) + i] = T[i]
    BY Joined
  <2> QED BY <1>2, <1>3, <2>1
<1>5. ToRecordFile(journal) = H \o T
  <2>1. ToRecordFile(journal) = <<a, b, c, d, e, f>> \o Lines("step", journal.steps)
    BY DEF ToRecordFile, a, b, c, d, e, f
  <2> QED BY <1>2, <1>3, <2>1
<1>6. /\ (H \o T)[1] = a /\ (H \o T)[2] = b /\ (H \o T)[3] = c
      /\ (H \o T)[4] = d /\ (H \o T)[5] = e /\ (H \o T)[6] = f
  BY <1>3, <1>4
<1>7. \A i \in 1..Len(journal.steps) : (H \o T)[6 + i] = Line("step", journal.steps[i])
  BY <1>2, <1>4
<1>8. RecordLaid(H \o T, journal)
  BY <1>6, <1>7 DEF RecordLaid, a, b, c, d, e, f
<1> QED BY <1>4, <1>5, <1>8 DEF L

(* Which lines the reader takes for what *)
RecordPlaces(lines, size) ==
  \A i \in 1..6 + size :
    /\ lines[i].key = "PARTBOOTER_OPERATION_V1" <=> i = 1
    /\ lines[i].key = "operation_id" <=> i = 2
    /\ lines[i].key = "plan_id" <=> i = 3
    /\ lines[i].key = "backup_root" <=> i = 4
    /\ lines[i].key = "status" <=> i = 5
    /\ lines[i].key = "summary" <=> i = 6
    /\ lines[i].key = "step" <=> i \in 7..6 + size

(* Where the lines of each key are. *)
LEMMA RecordKeyPlaces ==
  ASSUME NEW lines, NEW journal, RecordLaid(lines, journal),
         NEW size \in Nat, size = Len(journal.steps), Len(lines) = 6 + size
  PROVE  AllWhole(lines) /\ RecordPlaces(lines, size)
<1>1. \A key, value : Line(key, value).key = key /\ Line(key, value).state = "whole"
  BY DEF Line
<1>2. \A i \in 1..6 : /\ lines[i].state = "whole"
                      /\ lines[i].key = <<"PARTBOOTER_OPERATION_V1", "operation_id", "plan_id",
                                          "backup_root", "status", "summary">>[i]
  BY <1>1 DEF RecordLaid
<1>3. \A i \in 7..6 + size : lines[i].state = "whole" /\ lines[i].key = "step"
  <2>1. \A i \in 1..size : lines[6 + i] = Line("step", journal.steps[i])
    BY DEF RecordLaid
  <2>2. \A i \in 7..6 + size : i - 6 \in 1..size /\ 6 + (i - 6) = i
    OBVIOUS
  <2>3. \A i \in 7..6 + size : lines[i] = Line("step", journal.steps[i - 6])
    BY <2>1, <2>2
  <2> QED BY <1>1, <2>3
<1>4. \A i \in 1..6 + size : i \in 1..6 \/ i \in 7..6 + size
  OBVIOUS
<1>5. AllWhole(lines)
  BY <1>2, <1>3, <1>4 DEF AllWhole
<1>6. /\ lines[1].key = "PARTBOOTER_OPERATION_V1" /\ lines[2].key = "operation_id"
      /\ lines[3].key = "plan_id" /\ lines[4].key = "backup_root"
      /\ lines[5].key = "status" /\ lines[6].key = "summary"
  BY <1>1 DEF RecordLaid
<1>7. RecordPlaces(lines, size)
  <2> SUFFICES ASSUME NEW i \in 1..6 + size
               PROVE  /\ lines[i].key = "PARTBOOTER_OPERATION_V1" <=> i = 1
                      /\ lines[i].key = "operation_id" <=> i = 2
                      /\ lines[i].key = "plan_id" <=> i = 3
                      /\ lines[i].key = "backup_root" <=> i = 4
                      /\ lines[i].key = "status" <=> i = 5
                      /\ lines[i].key = "summary" <=> i = 6
                      /\ lines[i].key = "step" <=> i \in 7..6 + size
    BY DEF RecordPlaces
  <2>1. CASE i \in 7..6 + size
    BY <1>3, <2>1
  <2>2. CASE i \in 1..6
    BY <1>6, <2>2
  <2> QED BY <1>4, <2>1, <2>2
<1> QED BY <1>5, <1>7

(* The journal, but for the steps at its end *)
SaysOf(read, journal) ==
  /\ read.operation = journal.operation /\ read.plan = journal.plan
  /\ read.path = Reread(journal.path) /\ read.status = journal.status
  /\ \E size \in 0..Len(journal.steps) : read.steps = [i \in 1..size |-> journal.steps[i]]

(* What the reader makes of a file cut anywhere *)
LEMMA RecordReadBack ==
  ASSUME NEW values, NEW journal, journal.steps \in Seq(values),
         {"any", journal.operation, journal.plan, journal.path, journal.status} \subseteq values,
         NEW f \in FilesOf(journal)
  PROVE  /\ f \in Seq(LinesOf(RecordKeys, values))
         /\ Loads(f) => SaysOf(FromRecordFile(f), journal)
<1> DEFINE lines == ToRecordFile(journal)
           breakable == {i \in DOMAIN lines : FreeText(lines[i])}
<1>1. PICK size \in Nat : size = Len(journal.steps)
  BY LenProperties
<1>2. /\ lines \in Seq(LinesOf(RecordKeys, values))
      /\ Len(lines) = 6 + size
      /\ RecordLaid(lines, journal)
  BY <1>1, RecordLayout
<1>3. f \in Written(lines, breakable)
  BY DEF FilesOf
<1> HIDE DEF lines
<1>4. AllWhole(lines) /\ RecordPlaces(lines, size)
  BY <1>1, <1>2, RecordKeyPlaces
<1>5. breakable \in SUBSET (1..Len(lines))
  BY <1>2, LenProperties
<1> HIDE DEF breakable
<1>6. f \in Seq(LinesOf(RecordKeys, values)) /\ CutShort(f, lines)
  BY <1>2, <1>3, <1>4, <1>5, WrittenShape
<1>7. PICK n \in 0..6 + size :
        /\ n = Len(f) /\ DOMAIN f = 1..n
        /\ \A i \in 1..n :
             /\ f[i].key = lines[i].key
             /\ f[i].value = lines[i].value
             /\ i < n => f[i].state = "whole"
  <2>1. PICK k \in Nat : k = Len(f) /\ DOMAIN f = 1..k
    BY <1>6, LenProperties
  <2>2. k <= 6 + size
    BY <1>2, <1>6, <2>1 DEF CutShort
  <2>3. k \in 0..6 + size
    BY <1>1, <2>1, <2>2
  <2> QED BY <1>6, <2>1, <2>3 DEF CutShort
<1> SUFFICES ASSUME Loads(f)
             PROVE  SaysOf(FromRecordFile(f), journal)
  BY <1>6
<1>8. \A i \in 1..n : i \in 1..6 + size
  BY <1>7
<1>9. n >= 6 /\ f[6].state # "short"
  <2>1. PICK i \in 1..n : f[i].key = "summary" /\ f[i].state \in {"whole", "last"}
    BY <1>7 DEF Loads, Has
  <2>2. i = 6
    BY <1>4, <1>7, <1>8, <2>1 DEF RecordPlaces
  <2> QED BY <2>1, <2>2
<1>10. \A i \in 1..5 : i \in DOMAIN f /\ f[i].state = "whole"
  <2>1. \A i \in 1..5 : i \in 1..n /\ i < n
    BY <1>9
  <2> QED BY <1>7, <2>1
<1>11. /\ OnlyAt(f, "operation_id", 2) /\ OnlyAt(f, "plan_id", 3)
       /\ OnlyAt(f, "backup_root", 4) /\ OnlyAt(f, "status", 5)
  <2>1. \A i \in DOMAIN f : /\ f[i].key = "operation_id" <=> i = 2
                            /\ f[i].key = "plan_id" <=> i = 3
                            /\ f[i].key = "backup_root" <=> i = 4
                            /\ f[i].key = "status" <=> i = 5
    BY <1>4, <1>7, <1>8 DEF RecordPlaces
  <2>2. 2 \in 1..5 /\ 3 \in 1..5 /\ 4 \in 1..5 /\ 5 \in 1..5
    OBVIOUS
  <2> QED BY <1>10, <2>1, <2>2 DEF OnlyAt
<1>12. /\ Fields(f, "operation_id")[1] = f[2] /\ Fields(f, "plan_id")[1] = f[3]
       /\ Fields(f, "backup_root")[1] = f[4] /\ Fields(f, "status")[1] = f[5]
  BY <1>11, OnlyField
<1>13. /\ f[2].value = journal.operation /\ f[3].value = journal.plan
       /\ f[4].value = journal.path /\ f[5].value = journal.status
  <2>1. 2 \in 1..n /\ 3 \in 1..n /\ 4 \in 1..n /\ 5 \in 1..n
    BY <1>9
  <2>2. /\ lines[2].value = journal.operation /\ lines[3].value = journal.plan
        /\ lines[4].value = journal.path /\ lines[5].value = journal.status
    BY <1>2 DEF RecordLaid, Line
  <2> QED BY <1>7, <2>1, <2>2
<1>14. \E k \in 0..size : FromRecordFile(f).steps = [i \in 1..k |-> journal.steps[i]]
  <2> DEFINE places == {i \in DOMAIN f : f[i].key = "step" /\ f[i].state # "short"}
  <2>1. PICK end \in Nat : /\ end \in 6..n
                           /\ end = (IF n > 6 /\ f[n].state = "short" THEN n - 1 ELSE n)
    <3>1. CASE n > 6 /\ f[n].state = "short"
      <4>1. n - 1 \in Nat /\ n - 1 \in 6..n
        BY <3>1
      <4> QED BY <3>1, <4>1
    <3>2. CASE ~(n > 6 /\ f[n].state = "short")
      <4>1. n \in Nat /\ n \in 6..n
        BY <1>9
      <4> QED BY <3>2, <4>1
    <3> QED BY <3>1, <3>2
  <2>2. places = 7..end
    <3>1. \A i \in 1..n : f[i].key = "step" <=> i \in 7..6 + size
      BY <1>4, <1>7, <1>8 DEF RecordPlaces
    <3>2. \A i \in places : i \in 1..n /\ i \in 7..n /\ ~(i = n /\ f[n].state = "short")
      BY <1>7, <3>1
    <3>3. \A i \in places : i \in 7..end
      BY <2>1, <3>2
    <3>4. \A i \in 7..end : i \in 1..n /\ i \in 7..6 + size /\ (i < n \/ f[n].state # "short")
      BY <2>1
    <3>5. \A i \in 7..end : i \in 1..n /\ f[i].key = "step" /\ f[i].state # "short"
      BY <1>7, <3>1, <3>4
    <3>6. \A i \in 7..end : i \in places
      BY <1>7, <3>5
    <3> QED BY <3>3, <3>6
  <2>3. Fields(f, "step") = Picked(f, places)
    BY DEF Fields
  <2> HIDE DEF places
  <2>4. PICK k \in 0..size : end = 6 + k
    <3>1. end - 6 \in 0..size /\ end = 6 + (end - 6)
      BY <1>1, <1>7, <2>1
    <3> QED BY <3>1
  <2>5. Window(Picked(f, places), f, 7, k)
    <3>1. 7 + k = end + 1 /\ k \in Nat
      BY <1>1, <2>1, <2>4
    <3> QED BY <2>1, <2>2, <3>1, PickedRange
  <2>6. DOMAIN Fields(f, "step") = 1..k /\ \A i \in 1..k : Fields(f, "step")[i] = f[6 + i]
    <3>1. \A i \in 1..k : 7 + i - 1 = 6 + i
      BY <2>4
    <3> QED BY <2>3, <2>5, <3>1 DEF Window
  <2>7. \A i \in 1..k : f[6 + i].value = journal.steps[i]
    <3>1. \A i \in 1..k : 6 + i \in 1..n /\ i \in 1..size
      BY <1>1, <1>7, <2>1, <2>4
    <3>2. \A i \in 1..size : lines[6 + i] = Line("step", journal.steps[i])
      BY <1>1, <1>2 DEF RecordLaid
    <3>3. \A value : Line("step", value).value = value
      BY DEF Line
    <3> QED BY <1>7, <3>1, <3>2, <3>3
  <2>8. FromRecordFile(f).steps = [i \in DOMAIN Fields(f, "step") |-> Fields(f, "step")[i].value]
    BY DEF FromRecordFile, Values
  <2>9. FromRecordFile(f).steps = [i \in 1..k |-> journal.steps[i]]
    BY <2>6, <2>7, <2>8
  <2> QED BY <2>9
<1>15. /\ FromRecordFile(f).operation = journal.operation /\ FromRecordFile(f).plan = journal.plan
       /\ FromRecordFile(f).path = Reread(journal.path) /\ FromRecordFile(f).status = journal.status
  BY <1>12, <1>13 DEF FromRecordFile
<1> QED BY <1>1, <1>14, <1>15 DEF SaysOf

-----------------------------------------------------------------------------
(* The invariant *)

(* An empty file is no journal. *)
LEMMA EmptyDoesNotLoad == ~Loads(<<>>)
<1>1. DOMAIN <<>> = {}
  OBVIOUS
<1> QED BY <1>1 DEF Loads, Has

(* What a step may rely on after it has read the journal: it is the one saved last,
   but for steps at its end *)
LoadedSays(read) ==
  /\ IsJournal(saved) /\ file \in FilesOf(saved)
  /\ SaysOf(read, saved) /\ IsJournal(read)
  /\ "metadata" \in there =>
       /\ read.status \in {"applied", "repair-suggested"}
       /\ ~Contains(read.steps, Marker)

(* What a save leaves, if it loads, says what was saved but for steps at its end. *)
LEMMA SavedReadBack ==
  ASSUME IsJournal(saved), NEW f \in FilesOf(saved)
  PROVE  /\ \E values : f \in Seq(LinesOf(RecordKeys, values))
         /\ Loads(f) => SaysOf(FromRecordFile(f), saved)
<1> DEFINE others == {"any", saved.operation, saved.plan, saved.path, saved.status}
<1>1. PICK values : values = Records \union others
  OBVIOUS
<1>2. saved.steps \in Seq(values)
  <2>1. Records \subseteq values
    BY <1>1
  <2> QED BY <2>1, SeqWider DEF IsJournal
<1>3. others \subseteq values
  BY <1>1
<1> QED BY <1>2, <1>3, RecordReadBack

(* So a command that loads the file of an operation has that journal in hand. *)
LEMMA LoadedJournal ==
  ASSUME JournalInv, Loads(file)
  PROVE  LoadedSays(FromRecordFile(file))
<1>1. /\ IsJournal(saved) /\ file \in FilesOf(saved)
      /\ "metadata" \in there =>
           saved.status \in {"applied", "repair-suggested"} /\ ~Contains(saved.steps, Marker)
  BY EmptyDoesNotLoad DEF JournalInv, SavedInFile
<1>2. PICK read : read = FromRecordFile(file)
  OBVIOUS
<1>3. SaysOf(read, saved)
  BY <1>1, <1>2, SavedReadBack
<1>4. PICK size \in 0..Len(saved.steps) : read.steps = [i \in 1..size |-> saved.steps[i]]
  BY <1>3 DEF SaysOf
<1>5. /\ Len(saved.steps) \in Nat /\ DOMAIN saved.steps = 1..Len(saved.steps)
      /\ \A i \in 1..Len(saved.steps) : saved.steps[i] \in Records
  BY <1>1, LenProperties, ElementOfSeq DEF IsJournal
<1>6. /\ read.steps \in Seq(Records) /\ Len(read.steps) = size /\ DOMAIN read.steps = 1..size
      /\ \A i \in 1..size : i \in DOMAIN saved.steps /\ read.steps[i] = saved.steps[i]
  <2>1. size \in Nat /\ \A i \in 1..size : i \in 1..Len(saved.steps)
    BY <1>5
  <2>2. [i \in 1..size |-> saved.steps[i]] \in [1..size -> Records]
    BY <1>5, <2>1
  <2> QED BY <1>4, <1>5, <2>1, <2>2
<1>7. IsJournal(read)
  <2>1. Reread(saved.path) = Reread("root")
    BY <1>1 DEF IsJournal, Reread
  <2> QED BY <1>1, <1>3, <1>6, <2>1 DEF IsJournal, SaysOf
<1>8. ASSUME ~Contains(saved.steps, Marker)
      PROVE  ~Contains(read.steps, Marker)
  BY <1>5, <1>6, <1>8 DEF Contains
<1> QED BY <1>1, <1>2, <1>3, <1>7, <1>8 DEF LoadedSays, SaysOf

(* Before apply there is nothing. *)
LEMMA JournalInit == Init => JournalInv
BY SavesAssumption DEF Init, JournalInv, SavedInFile, ReportIsCurrent

(* A save keeps the invariant when its journal is one and tells of the machine. *)
LEMMA SaveKeeps ==
  ASSUME JournalInv, root' = root, NEW journal, Save(journal), IsJournal(journal),
         there' \subseteq Artifacts,
         "metadata" \in there' => /\ journal.status \in {"applied", "repair-suggested"}
                                  /\ ~Contains(journal.steps, Marker)
  PROVE  JournalInv'
<1>1. saves' \in 0..MaxSaves /\ root' \in Roots
  BY SavesAssumption DEF JournalInv, Save
<1>2. saved' = journal /\ file' \in FilesOf(journal) /\ report' = NoReport
  BY DEF Save
<1>3. IsJournal(saved)'
  BY <1>2 DEF IsJournal, Reread
<1>4. SavedInFile'
  BY <1>2, <1>3 DEF SavedInFile
<1>5. ReportIsCurrent'
  BY <1>2 DEF ReportIsCurrent
<1> QED BY <1>1, <1>4, <1>5 DEF JournalInv

(* So does what leaves the journal alone and the machine with less. *)
LEMMA TakingAwayKeeps ==
  ASSUME JournalInv, UNCHANGED <<root, file, saved, saves>>, report' = NoReport,
         there' \subseteq there
  PROVE  JournalInv'
<1>1. saves' \in 0..MaxSaves /\ root' \in Roots /\ there' \subseteq Artifacts
  BY DEF JournalInv
<1>2. IsJournal(saved) => IsJournal(saved)'
  BY DEF IsJournal, Reread
<1>3. SavedInFile'
  BY <1>2 DEF JournalInv, SavedInFile
<1>4. ReportIsCurrent'
  BY DEF ReportIsCurrent
<1> QED BY <1>1, <1>3, <1>4 DEF JournalInv

(* Apply saves the first journal, together with the artifacts it speaks of. *)
LEMMA ApplyKeeps == JournalInv /\ Apply => JournalInv'
<1> SUFFICES ASSUME JournalInv, Apply
             PROVE  JournalInv'
  OBVIOUS
<1> DEFINE Made(payload, count) ==
             [operation |-> "op", plan |-> "plan", path |-> Reread("root"),
              status |-> IF payload = "winpe" THEN "applied" ELSE "checkpointed",
              steps |-> StepRecords(payload, count)]
<1>1. PICK payload \in {"winpe", "linux-iso"}, count \in 0..Len(Kinds) :
        /\ there' = {"backups", "plan"} \union
                    (IF payload = "winpe" THEN {"metadata", "staged", "entry"} ELSE {})
        /\ Save(Made(payload, count))
  BY DEF Apply
<1>2. PICK journal : journal = Made(payload, count) /\ Save(journal)
  BY <1>1
<1>3. Len(Kinds) = 6
  BY DEF Kinds
<1>4. count \in 0..6
  BY <1>3
<1>5. \A i \in 1..count : /\ StepRecords(payload, count)[i] \in Records
                          /\ StepRecords(payload, count)[i].id = i
  <2>1. \A i \in 1..6 : i \in DOMAIN Kinds
    BY DEF Kinds
  <2>2. \A i \in 1..count : i \in 1..6
    BY <1>4
  <2>3. \A i \in 1..count, outcome \in {"completed", "skipped"} :
          StepRecord(i, Kinds[i], outcome) \in Records /\ StepRecord(i, Kinds[i], outcome).id = i
    BY <2>1, <2>2 DEF StepRecord, Records
  <2>4. \A i \in 1..count : \E outcome \in {"completed", "skipped"} :
          StepRecords(payload, count)[i] = StepRecord(i, Kinds[i], outcome)
    BY DEF StepRecords
  <2> QED BY <2>3, <2>4
<1>6. /\ StepRecords(payload, count) \in Seq(Records)
      /\ Len(StepRecords(payload, count)) = count
      /\ DOMAIN StepRecords(payload, count) = 1..count
  <2>1. DOMAIN StepRecords(payload, count) = 1..count
    BY DEF StepRecords
  <2>2. StepRecords(payload, count) \in [1..count -> Records]
    BY <1>5, <2>1 DEF StepRecords
  <2> QED BY <1>4, <2>1, <2>2
<1>7. IsJournal(journal)
  BY <1>2, <1>5, <1>6 DEF IsJournal, Statuses
<1>8. ~Contains(journal.steps, Marker)
  BY <1>2, <1>4, <1>5, <1>6 DEF Contains, Marker, StepRecord
<1>9. "metadata" \in there' => journal.status = "applied"
  BY <1>1, <1>2
<1>10. root' = root /\ there' \subseteq Artifacts
  BY <1>1 DEF Apply, Artifacts
<1> QED BY <1>2, <1>7, <1>8, <1>9, <1>10, SaveKeeps

(* Rollback saves what it loaded, marked, once the metadata is gone. *)
LEMMA RollbackKeeps == JournalInv /\ Rollback => JournalInv'
<1> SUFFICES ASSUME JournalInv, Rollback
             PROVE  JournalInv'
  OBVIOUS
<1>1. PICK read : read = FromRecordFile(file)
  OBVIOUS
<1>2. IsJournal(read)
  BY <1>1, LoadedJournal DEF Rollback, LoadedSays
<1>3. PICK journal : /\ journal = [read EXCEPT !.status = "rolled-back",
                                               !.steps = Append(@, Marker)]
                     /\ Save(journal)
  BY <1>1 DEF Rollback
<1>4. /\ journal.operation = read.operation /\ journal.plan = read.plan
      /\ journal.path = read.path /\ journal.status = "rolled-back"
      /\ journal.steps = Append(read.steps, Marker)
  BY <1>1, <1>3 DEF FromRecordFile
<1>5. Marker \in Records
  <2>1. Kinds[6] = "verify-boot-entry" /\ 6 \in DOMAIN Kinds
    BY DEF Kinds
  <2> QED BY <2>1 DEF Marker, StepRecord, Records
<1>6. /\ Append(read.steps, Marker) \in Seq(Records)
      /\ \A i \in DOMAIN Append(read.steps, Marker) :
           Append(read.steps, Marker)[i].id \in {i, 255}
  <2>1. PICK steps \in Seq(Records), marker \in Records :
          steps = read.steps /\ marker = Marker /\ marker.id = 255
    BY <1>2, <1>5 DEF IsJournal, Marker, StepRecord
  <2>2. Append(steps, marker) \in Seq(Records)
    OBVIOUS
  <2>3. /\ Len(steps) \in Nat /\ DOMAIN Append(steps, marker) = 1..Len(steps) + 1
        /\ Append(steps, marker)[Len(steps) + 1] = marker
        /\ \A i \in 1..Len(steps) : Append(steps, marker)[i] = steps[i]
    BY AppendProperties, LenProperties
  <2>4. \A i \in 1..Len(steps) : steps[i].id \in {i, 255}
    BY <1>2, <2>1 DEF IsJournal
  <2>5. \A i \in 1..Len(steps) + 1 : i \in 1..Len(steps) \/ i = Len(steps) + 1
    BY <2>3
  <2>6. \A i \in DOMAIN Append(steps, marker) : Append(steps, marker)[i].id \in {i, 255}
    BY <2>1, <2>3, <2>4, <2>5
  <2> QED BY <2>1, <2>2, <2>6
<1>7. IsJournal(journal)
  BY <1>2, <1>4, <1>6 DEF IsJournal, Statuses
<1>8. root' = root /\ there' \subseteq Artifacts /\ "metadata" \notin there'
  BY DEF Rollback, JournalInv
<1> QED BY <1>3, <1>7, <1>8, SaveKeeps

(* Repair saves what it loaded with another status. *)
LEMMA RepairKeeps == JournalInv /\ Repair => JournalInv'
<1> SUFFICES ASSUME JournalInv, Repair
             PROVE  JournalInv'
  OBVIOUS
<1>1. PICK read : read = FromRecordFile(file)
  OBVIOUS
<1>2. LoadedSays(read)
  BY <1>1, LoadedJournal DEF Repair
<1>3. PICK journal : /\ journal = [read EXCEPT !.status = "repair-suggested"]
                     /\ Save(journal)
  BY <1>1 DEF Repair
<1>4. /\ journal.operation = read.operation /\ journal.plan = read.plan
      /\ journal.path = read.path /\ journal.status = "repair-suggested"
      /\ journal.steps = read.steps
  BY <1>1, <1>3 DEF FromRecordFile
<1>5. IsJournal(journal)
  BY <1>2, <1>4 DEF LoadedSays, IsJournal, Statuses
<1>6. root' = root /\ there' = there /\ there' \subseteq Artifacts
  BY DEF Repair, JournalInv
<1> QED BY <1>2, <1>3, <1>4, <1>5, <1>6, SaveKeeps DEF LoadedSays

(* Verify only reports, on the file and the artifacts as they are. *)
LEMMA VerifyKeeps == JournalInv /\ Verify => JournalInv'
<1> SUFFICES ASSUME JournalInv, Verify
             PROVE  JournalInv'
  OBVIOUS
<1>1. UNCHANGED <<root, file, there, saved, saves>> /\ Loads(file)
  BY DEF Verify
<1>2. SavedInFile'
  <2>1. IsJournal(saved) => IsJournal(saved)'
    BY <1>1 DEF IsJournal, Reread
  <2> QED BY <1>1, <2>1 DEF JournalInv, SavedInFile
<1>3. ReportIsCurrent'
  <2>1. \A answered \in BOOLEAN : ReportOf(FromRecordFile(file), answered)'
                                  = ReportOf(FromRecordFile(file), answered)
    BY <1>1 DEF ReportOf, BackupFound, FullBootPathExpected, FromRecordFile, Reread
  <2>2. PICK answered \in BOOLEAN : report' = ReportOf(FromRecordFile(file), answered)
    BY DEF Verify
  <2>3. Loads(file)'
    BY <1>1
  <2> QED BY <2>1, <2>2, <2>3 DEF ReportIsCurrent
<1> QED BY <1>1, <1>2, <1>3 DEF JournalInv

(* Cut rollbacks and losses only take artifacts away. *)
LEMMA JournalNext == JournalInv /\ [Next]_vars => JournalInv'
<1> SUFFICES ASSUME JournalInv, [Next]_vars
             PROVE  JournalInv'
  OBVIOUS
<1>1. CASE Apply
  BY <1>1, ApplyKeeps
<1>2. CASE Rollback
  BY <1>2, RollbackKeeps
<1>3. CASE CutRollback
  <2>1. there' \subseteq there /\ report' = NoReport /\ UNCHANGED <<root, file, saved, saves>>
    BY <1>3 DEF CutRollback
  <2> QED BY <2>1, TakingAwayKeeps
<1>4. CASE Repair
  BY <1>4, RepairKeeps
<1>5. CASE Verify
  BY <1>5, VerifyKeeps
<1>6. CASE \E artifact \in {"backups", "plan", "staged", "entry"} : Lose(artifact)
  <2>1. there' \subseteq there /\ report' = NoReport /\ UNCHANGED <<root, file, saved, saves>>
    BY <1>6 DEF Lose
  <2> QED BY <2>1, TakingAwayKeeps
<1>7. CASE UNCHANGED vars
  <2>1. UNCHANGED <<root, file, there, report, saved, saves>>
    BY <1>7 DEF vars
  <2>2. SavedInFile'
    <3>1. IsJournal(saved) => IsJournal(saved)'
      BY <2>1 DEF IsJournal, Reread
    <3> QED BY <2>1, <3>1 DEF JournalInv, SavedInFile
  <2>3. ReportIsCurrent'
    <3>1. \A answered \in BOOLEAN : ReportOf(FromRecordFile(file), answered)'
                                    = ReportOf(FromRecordFile(file), answered)
      BY <2>1 DEF ReportOf, BackupFound, FullBootPathExpected, FromRecordFile, Reread
    <3>2. Loads(file)' <=> Loads(file)
      BY <2>1
    <3> QED BY <2>1, <3>1, <3>2 DEF JournalInv, ReportIsCurrent
  <2> QED BY <2>1, <2>2, <2>3 DEF JournalInv
<1> QED BY <1>1, <1>2, <1>3, <1>4, <1>5, <1>6, <1>7 DEF Next

(* In every state the file is what a save left of the last journal, metadata on the
   disk is of an operation no rollback has recorded, and a report is of the file and
   the machine as they are, for every state root and any number of saves. *)
THEOREM JournalInvCorrect == Spec => []JournalInv
BY JournalInit, JournalNext, PTL DEF Spec

-----------------------------------------------------------------------------
(* What follows from it *)

LEMMA InvLoadedIsSaved == JournalInv => LoadedIsSaved
<1> SUFFICES ASSUME JournalInv, Loads(file), NEW read, read = FromRecordFile(file)
             PROVE  /\ <<read.operation, read.plan, read.status>> =
                         <<saved.operation, saved.plan, saved.status>>
                    /\ IsPrefix(read.steps, saved.steps)
  BY DEF LoadedIsSaved
<1>1. IsJournal(saved) /\ SaysOf(read, saved)
  BY LoadedJournal DEF LoadedSays
<1>2. PICK size \in 0..Len(saved.steps) : read.steps = [i \in 1..size |-> saved.steps[i]]
  BY <1>1 DEF SaysOf
<1>3. PICK steps \in Seq(Records) : steps = saved.steps /\ Len(steps) \in Nat
  BY <1>1, LenProperties DEF IsJournal
<1>4. size \in Nat /\ size <= Len(steps)
  BY <1>2, <1>3
<1>5. \A i \in 1..size : steps[i] \in Records
  BY <1>3, <1>4, ElementOfSeq
<1>6. PICK front \in Seq(Records) : /\ front = [i \in 1..size |-> steps[i]]
                                    /\ Len(front) = size
  <2>1. PICK front : front = [i \in 1..size |-> steps[i]]
    OBVIOUS
  <2>2. front \in [1..size -> Records]
    BY <1>5, <2>1
  <2>3. front \in Seq(Records) /\ Len(front) = size
    BY <1>4, <2>2
  <2> QED BY <2>1, <2>3
<1>7. SubSeq(front, 1, size) = front
  BY <1>4, <1>6
<1>8. SubSeq(steps, 1, size) = front
  BY <1>3, <1>4, <1>6
<1>9. IsPrefix(read.steps, saved.steps)
  BY <1>2, <1>3, <1>4, <1>6, <1>7, <1>8 DEF IsPrefix
<1> QED BY <1>1, <1>9 DEF SaysOf

(* A journal that can be read says what was saved last, but for steps at its end. *)
THEOREM LoadedIsSavedCorrect == Spec => []LoadedIsSaved
BY JournalInvCorrect, InvLoadedIsSaved, PTL

(* The marker is in the saved steps, and IsJournal ties those to the status. *)
LEMMA InvMarkerMeansRolledBack == JournalInv => MarkerMeansRolledBack
BY LoadedJournal DEF MarkerMeansRolledBack, LoadedSays

(* While an operation has metadata to restore from, its journal has no marker. *)
THEOREM MarkerMeansRolledBackCorrect == Spec => []MarkerMeansRolledBack
BY JournalInvCorrect, InvMarkerMeansRolledBack, PTL

(* What a report was made of *)
ReportMadeOf(read, answered) ==
  LoadedSays(read) /\ report = ReportOf(read, answered)

(* A report that is there was made from a journal that loads. *)
LEMMA ReportMade ==
  ASSUME JournalInv, report # NoReport
  PROVE  \E answered \in BOOLEAN : ReportMadeOf(FromRecordFile(file), answered)
BY LoadedJournal DEF JournalInv, ReportIsCurrent, ReportMadeOf

(* A report that is not verified has a warning, status by status. *)
LEMMA InvFailureExplained == JournalInv => FailureExplained
<1> SUFFICES ASSUME JournalInv, report # NoReport, ~report.verified,
                    report.status # "repair-suggested"
             PROVE  report.warnings # {}
  BY DEF FailureExplained
<1>1. PICK answered \in BOOLEAN, read \in {FromRecordFile(file)} : ReportMadeOf(read, answered)
  BY ReportMade
<1>2. report.status = read.status
  BY <1>1 DEF ReportMadeOf, ReportOf
<1>3. FullBootPathExpected(read.status) => read.status = "applied"
  BY <1>1, <1>2 DEF ReportMadeOf, LoadedSays, FullBootPathExpected
<1>4. CASE ~BackupFound(read)
  <2>1. "backup" \in report.warnings
    BY <1>1, <1>4 DEF ReportMadeOf, ReportOf, WarningsOf
  <2> QED BY <2>1
<1>5. CASE "plan" \notin there
  <2>1. "plan" \in report.warnings
    BY <1>1, <1>5 DEF ReportMadeOf, ReportOf, WarningsOf
  <2> QED BY <2>1
<1>6. CASE BackupFound(read) /\ "plan" \in there
  <2>1. read.status = "applied" /\ "metadata" \in there
        /\ ("staged" \notin there \/ ~(answered /\ "entry" \in there))
    <3>1. FullBootPathExpected(read.status)
      BY <1>1, <1>6 DEF ReportMadeOf, ReportOf
    <3>2. read.status = "applied"
      BY <1>3, <3>1
    <3> QED BY <1>1, <1>6, <3>2 DEF ReportMadeOf, ReportOf
  <2>2. CASE "staged" \notin there
    <3>1. "staged" \in report.warnings
      BY <1>1, <2>1, <2>2 DEF ReportMadeOf, ReportOf, WarningsOf
    <3> QED BY <3>1
  <2>3. CASE ~(answered /\ "entry" \in there)
    <3>1. "entry" \in report.warnings
      BY <1>1, <2>1, <2>3 DEF ReportMadeOf, ReportOf, WarningsOf
    <3> QED BY <3>1
  <2> QED BY <2>1, <2>2, <2>3
<1> QED BY <1>4, <1>5, <1>6

(* When verify does not verify, it gives a warning, unless repair has overwritten the
   status. *)
THEOREM FailureExplainedCorrect == Spec => []FailureExplained
BY JournalInvCorrect, InvFailureExplained, PTL

(* The type of the variables follows from the invariant. *)
LEMMA InvJournalType == JournalInv => TypeOK
<1> SUFFICES ASSUME JournalInv
             PROVE  TypeOK
  OBVIOUS
<1>1. \A i \in DOMAIN file : file[i].state \in {"whole", "short", "last", "broken"}
  <2>1. CASE file = <<>>
    BY <2>1
  <2>2. CASE IsJournal(saved) /\ file \in FilesOf(saved)
    <3>1. PICK values : file \in Seq(LinesOf(RecordKeys, values))
      BY <2>2, SavedReadBack
    <3>2. \A i \in DOMAIN file : file[i] \in LinesOf(RecordKeys, values)
      BY <3>1, LenProperties, ElementOfSeq
    <3> QED BY <3>2 DEF LinesOf, States
  <2> QED BY <2>1, <2>2 DEF JournalInv, SavedInFile
<1>2. report = NoReport \/ (report.verified \in BOOLEAN /\ report.status \in Statuses)
  <2> SUFFICES ASSUME report # NoReport
               PROVE  report.verified \in BOOLEAN /\ report.status \in Statuses
    OBVIOUS
  <2>1. PICK answered \in BOOLEAN, read \in {FromRecordFile(file)} : ReportMadeOf(read, answered)
    BY ReportMade
  <2> QED BY <2>1 DEF ReportMadeOf, ReportOf, LoadedSays, IsJournal
<1>3. saved = NoJournal \/
        /\ saved.status \in Statuses
        /\ \A i \in DOMAIN saved.steps : saved.steps[i].id \in {i, 255}
  BY DEF JournalInv, SavedInFile, IsJournal
<1> QED BY <1>1, <1>2, <1>3 DEF TypeOK, JournalInv

(* Every line of the file is whole or the one a write stopped in, and every journal and
   report has one of the four statuses. *)
THEOREM JournalTypeCorrect == Spec => []TypeOK
BY JournalInvCorrect, InvJournalType, PTL

(* The path in a journal that loads is the right one exactly if the root is ASCII. *)
LEMMA LoadedPath ==
  ASSUME JournalInv, NEW read, LoadedSays(read)
  PROVE  read.path = "root" <=> Ascii(root)
<1>1. root \in Seq(Byte)
  BY RootsAssumption DEF JournalInv
<1>2. Trip(root) = root <=> Ascii(root)
  BY <1>1, AsciiComesBack
<1>3. read.path = Reread("root")
  BY DEF LoadedSays, IsJournal
<1> QED BY <1>2, <1>3 DEF Reread

(* The path is the root as one trip leaves it, and ASCII is what a trip keeps. *)
LEMMA InvRootSurvives == JournalInv => RootSurvives
BY LoadedJournal, LoadedPath DEF RootSurvives

(* The backups are found again if the state root is ASCII, and never otherwise. *)
THEOREM RootSurvivesCorrect == Spec => []RootSurvives
BY JournalInvCorrect, InvRootSurvives, PTL

(* What a report that says verified rests on, artifact by artifact. *)
LEMMA InvVerifiedIsIntact == JournalInv => VerifiedIsIntact
<1> SUFFICES ASSUME JournalInv, report # NoReport, Ascii(root), "metadata" \in there
             PROVE  /\ report.verified => there = Artifacts
                    /\ there = Artifacts => report.verified \/ report.warnings \subseteq {"entry"}
  BY DEF VerifiedIsIntact
<1>1. PICK answered \in BOOLEAN, read \in {FromRecordFile(file)} : ReportMadeOf(read, answered)
  BY ReportMade
<1>2. FullBootPathExpected(read.status)
  BY DEF FullBootPathExpected
<1>3. ASSUME report.verified
      PROVE  there = Artifacts
  <2>1. /\ "backups" \in there /\ "plan" \in there /\ "staged" \in there /\ "entry" \in there
    BY <1>1, <1>2, <1>3 DEF ReportMadeOf, ReportOf, BackupFound
  <2>2. there \subseteq Artifacts
    BY DEF JournalInv
  <2> QED BY <2>1, <2>2 DEF Artifacts
<1>4. ASSUME there = Artifacts
      PROVE  report.verified \/ report.warnings \subseteq {"entry"}
  <2>1. BackupFound(read) /\ "plan" \in there /\ "staged" \in there /\ "entry" \in there
    <3>1. read.path = "root"
      BY <1>1, LoadedPath DEF ReportMadeOf
    <3> QED BY <1>4, <3>1 DEF BackupFound, Artifacts
  <2>2. read.status # "checkpointed"
    BY <1>1 DEF ReportMadeOf, LoadedSays
  <2>3. "backup" \notin report.warnings /\ "plan" \notin report.warnings
        /\ "staged" \notin report.warnings /\ "checkpoint" \notin report.warnings
    BY <1>1, <2>1, <2>2 DEF ReportMadeOf, ReportOf, WarningsOf
  <2>4. report.warnings \subseteq {"checkpoint", "staged", "entry", "backup", "plan"}
    BY <1>1 DEF ReportMadeOf, ReportOf, WarningsOf
  <2> QED BY <2>3, <2>4
<1> QED BY <1>3, <1>4

(* When the operation has its metadata and the root is ASCII, verified means that all
   five artifacts are there, and a false alarm is about the boot entry alone. *)
THEOREM VerifiedIsIntactCorrect == Spec => []VerifiedIsIntact
BY JournalInvCorrect, InvVerifiedIsIntact, PTL

=============================================================================
