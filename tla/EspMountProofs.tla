--------------------------- MODULE EspMountProofs ----------------------------
(***************************************************************************)
(* The drive letters of the ESP for any number of processes and letters.   *)
(***************************************************************************)
EXTENDS EspMount, TLAPS

(* The invariant holds before the first command. *)
LEMMA InvInit ==
  ASSUME Init
  PROVE  Inv
BY DEF Init, Inv, TypeOK, Mapped, Kept, Empty, Lasting, Reading, OneLetterEach, LettersReturned,
       Calls

(* Every step keeps the types; Stop may rely on a mounted process being past
   the mount, where its source is a letter. *)
LEMMA TypeNext ==
  ASSUME TypeOK, Kept, [Next]_vars
  PROVE  TypeOK'
<1> USE DEF TypeOK, Calls, Goto, Return
<1>1. ASSUME NEW p \in Procs, Step(p)
      PROVE  TypeOK'
  <2>1. CASE Probe(p)
    BY <2>1 DEF Probe, machineVars
  <2>2. CASE FindLetter(p)
    <3>1. CASE Return(p)
      BY <2>2, <3>1 DEF FindLetter, machineVars
    <3>2. CASE ~Return(p)
      BY <2>2, <3>2 DEF FindLetter, machineVars
    <3> QED BY <3>1, <3>2
  <2>3. CASE Mount(p)
    <3>1. CASE Return(p) /\ UNCHANGED machineVars
      BY <3>1 DEF machineVars
    <3>2. CASE ~(Return(p) /\ UNCHANGED machineVars)
      <4>1. /\ source[p] \in Letters
            /\ drives' = [drives EXCEPT ![source[p]] = "esp"]
            /\ mapper' = [mapper EXCEPT ![source[p]] = p]
            /\ pc' = [pc EXCEPT ![p] = "copy"]
            /\ mounted' = [mounted EXCEPT ![p] = TRUE]
            /\ UNCHANGED <<leaked, source, read, copied, borrowed>>
        BY <2>3, <3>2 DEF Mount
      <4> QED BY <4>1
    <3> QED BY <3>1, <3>2
  <2>4. CASE CheckCode(p)
    BY <2>4 DEF CheckCode, machineVars
  <2>5. CASE Stop(p)
    BY <2>5 DEF Stop, Kept
  <2>6. CASE StartCopy(p) \/ EndCopy(p)
    BY <2>6 DEF StartCopy, EndCopy, machineVars
  <2>7. CASE Unmount(p)
    BY <2>7 DEF Unmount, Release
  <2> QED BY <1>1, <2>1, <2>2, <2>3, <2>4, <2>5, <2>6, <2>7 DEF Step
<1>2. ASSUME NEW l \in Letters, VolumeComes(l) \/ VolumeGoes(l)
      PROVE  TypeOK'
  BY <1>2 DEF VolumeComes, VolumeGoes, Release, procVars
<1>3. CASE UNCHANGED vars
  BY <1>3 DEF vars, machineVars, procVars
<1> QED BY <1>1, <1>2, <1>3 DEF Next

(* Every step keeps the invariant. *)
LEMMA InvNext ==
  ASSUME Inv, [Next]_vars
  PROVE  Inv'
<1> USE DEF Inv
<1>1. TypeOK'
  BY TypeNext
<1>2. ASSUME NEW p \in Procs, Step(p)
      PROVE  /\ Mapped' /\ Kept' /\ Empty' /\ Lasting' /\ Reading'
             /\ OneLetterEach' /\ LettersReturned'
  <2> USE ProcsAssumption DEF TypeOK, Calls, Goto, Return, Mapped, Kept, Empty, Lasting,
                              Reading, OneLetterEach, LettersReturned
  <2>1. CASE Probe(p)
    BY <1>2, <2>1 DEF Probe, machineVars
  <2>2. CASE FindLetter(p)
    BY <1>2, <2>2 DEF FindLetter, machineVars
  <2>3. CASE Mount(p)
    BY <1>2, <2>3 DEF Mount, machineVars
  <2>4. CASE StartCopy(p)
    BY <1>2, <2>4 DEF StartCopy, machineVars
  <2>5. CASE EndCopy(p)
    BY <1>2, <2>5 DEF EndCopy, machineVars
  <2>6. CASE Unmount(p)
    <3> DEFINE l == source[p]
    <3>1. /\ l \in Letters /\ mounted[p] /\ mapper[l] = p /\ l \notin leaked
          /\ pc' = [pc EXCEPT ![p] = "check"]
          /\ UNCHANGED <<source, mounted, copied, borrowed>>
      BY <1>2, <2>6 DEF Unmount
    <3>2. \A q \in Procs : q # p /\ pc[q] \in {"copy", "copying", "unmount"} =>
            q \in borrowed \/ source[q] # l
      BY <3>1
    <3>3. CASE Release(l)
      <4>1. /\ drives' = [drives EXCEPT ![l] = "free"]
            /\ mapper' = [mapper EXCEPT ![l] = NoProc]
            /\ leaked' = leaked
            /\ \A q \in Procs : read'[q] = IF pc[q] = "copying" /\ source[q] = l
                                           THEN "broken" ELSE read[q]
        BY <3>1, <3>3 DEF Release
      <4>2. Mapped' /\ Empty' /\ OneLetterEach'
        BY <3>1, <4>1
      <4>3. Kept'
        BY <3>1, <4>1
      <4>4. Lasting'
        <5> SUFFICES ASSUME NEW q \in Procs \ borrowed', pc'[q] \in {"copy", "copying"}
                     PROVE  /\ drives'[source[q]] = "esp"
                            /\ ~mounted[q] => mapper'[source[q]] = NoProc \/ source[q] \in leaked'
          BY <3>1
        <5>1. q # p /\ pc[q] = pc'[q] /\ q \notin borrowed
          BY <3>1
        <5>2. source[q] \in Letters /\ source[q] # l
          BY <3>2, <5>1
        <5> QED BY <4>1, <5>1, <5>2
      <4>5. Reading'
        <5> SUFFICES ASSUME NEW q \in Procs \ borrowed', pc'[q] \in {"copying", "unmount", "check"}
                     PROVE  read'[q] = "esp"
          OBVIOUS
        <5>1. /\ q \notin borrowed
              /\ (q = p /\ pc[p] = "unmount") \/ (q # p /\ pc[q] = pc'[q])
          BY <2>6, <3>1 DEF Unmount
        <5>2. read[q] = "esp"
          BY <5>1
        <5> QED BY <3>2, <4>1, <5>1, <5>2
      <4>6. LettersReturned'
        BY <3>1, <4>1
      <4> QED BY <4>2, <4>3, <4>4, <4>5, <4>6
    <3>4. CASE leaked' = leaked \union {l} /\ UNCHANGED <<drives, mapper, read>>
      <4>1. Mapped' /\ Empty' /\ OneLetterEach'
        BY <3>1, <3>4
      <4>2. Kept'
        BY <3>1, <3>4
      <4>3. Lasting'
        <5> SUFFICES ASSUME NEW q \in Procs \ borrowed', pc'[q] \in {"copy", "copying"}
                     PROVE  /\ drives'[source[q]] = "esp"
                            /\ ~mounted[q] => mapper'[source[q]] = NoProc \/ source[q] \in leaked'
          BY <3>1
        <5>1. q # p /\ pc[q] = pc'[q] /\ q \notin borrowed
          BY <3>1
        <5> QED BY <3>4, <5>1
      <4>4. Reading'
        <5> SUFFICES ASSUME NEW q \in Procs \ borrowed', pc'[q] \in {"copying", "unmount", "check"}
                     PROVE  read'[q] = "esp"
          OBVIOUS
        <5>1. /\ q \notin borrowed
              /\ (q = p /\ pc[p] = "unmount") \/ (q # p /\ pc[q] = pc'[q])
          BY <2>6, <3>1 DEF Unmount
        <5>2. read[q] = "esp"
          BY <5>1
        <5> QED BY <3>4, <5>2
      <4>5. LettersReturned'
        BY <3>1, <3>4
      <4> QED BY <4>1, <4>2, <4>3, <4>4, <4>5
    <3> QED BY <2>6, <3>3, <3>4 DEF Unmount
  <2>7. CASE CheckCode(p)
    BY <1>2, <2>7 DEF CheckCode, machineVars
  <2>8. CASE Stop(p)
    BY <1>2, <2>8 DEF Stop, machineVars
  <2> QED BY <1>2, <2>1, <2>2, <2>3, <2>4, <2>5, <2>6, <2>7, <2>8 DEF Step
<1>3. ASSUME NEW l \in Letters, VolumeComes(l) \/ VolumeGoes(l)
      PROVE  /\ Mapped' /\ Kept' /\ Empty' /\ Lasting' /\ Reading'
             /\ OneLetterEach' /\ LettersReturned'
  <2> USE ProcsAssumption DEF TypeOK, Calls, Mapped, Kept, Empty, Lasting,
                              Reading, OneLetterEach, LettersReturned
  <2>1. CASE VolumeComes(l)
    BY <2>1 DEF VolumeComes, procVars
  <2>2. CASE VolumeGoes(l)
    BY <2>2 DEF VolumeGoes, Release
  <2> QED BY <1>3, <2>1, <2>2
<1>4. CASE UNCHANGED vars
  BY <1>4 DEF vars, machineVars, procVars, TypeOK, Mapped, Kept, Empty, Lasting, Reading,
              OneLetterEach, LettersReturned
<1> QED BY <1>1, <1>2, <1>3, <1>4 DEF Next

(* The invariant holds in every state the checkpoints can reach. *)
THEOREM InvCorrect == Spec => []Inv
<1>1. Init => Inv
  BY InvInit
<1>2. Inv /\ [Next]_vars => Inv'
  BY InvNext
<1> QED BY <1>1, <1>2, PTL DEF Spec

(* The types, with a letter at hand whenever one is used. *)
THEOREM TypeCorrect == Spec => []TypeOK
<1>1. Inv => TypeOK
  BY DEF Inv
<1> QED BY <1>1, InvCorrect, PTL

(* A complete copy is a copy of the ESP, unless it was taken through a letter
   that another command was using (lib.rs:276-303). *)
THEOREM CopyIsOfEspCorrect == Spec => []CopyIsOfEsp
<1>1. Inv => CopyIsOfEsp
  BY DEF Inv, Reading, CopyIsOfEsp
<1> QED BY <1>1, InvCorrect, PTL

(* No process ever gives the ESP two letters that last, so what crashes leave
   behind is bounded by the number of processes (lib.rs:276-284). *)
THEOREM OneLetterEachCorrect == Spec => []OneLetterEach
<1>1. Inv => OneLetterEach
  BY DEF Inv
<1> QED BY <1>1, InvCorrect, PTL

(* A letter is released before robocopy's answer is looked at
   (lib.rs:294-303). *)
THEOREM LettersReturnedCorrect == Spec => []LettersReturned
<1>1. Inv => LettersReturned
  BY DEF Inv
<1> QED BY <1>1, InvCorrect, PTL

(* A letter the operator or another command gave the ESP is never taken away
   (lib.rs:294-296). *)
THEOREM OnlyMapperReleasesCorrect == Spec => OnlyMapperReleases
<1> DEFINE Kind(l) == drives[l] = "esp" /\ drives'[l] # "esp" =>
                        mapper[l] # NoProc /\ pc[mapper[l]] = "unmount"
<1>1. ASSUME Inv, [Next]_vars
      PROVE  [\A l \in Letters : Kind(l)]_vars
  <2> SUFFICES ASSUME Next, NEW l \in Letters
               PROVE  Kind(l)
    BY <1>1
  <2> USE <1>1, ProcsAssumption DEF Inv, TypeOK, Kept
  <2>1. ASSUME NEW p \in Procs, Step(p)
        PROVE  Kind(l)
    BY <2>1 DEF Step, Probe, FindLetter, Mount, StartCopy, EndCopy, Unmount, Release, CheckCode,
                Stop, machineVars
  <2>2. ASSUME NEW k \in Letters, VolumeComes(k) \/ VolumeGoes(k)
        PROVE  Kind(l)
    BY <2>2 DEF VolumeComes, VolumeGoes, Release
  <2> QED BY <2>1, <2>2 DEF Next
<1> QED BY <1>1, InvCorrect, PTL DEF Spec, OnlyMapperReleases

=============================================================================
