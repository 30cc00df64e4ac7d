------------------------------ MODULE EspMount -------------------------------
(***************************************************************************)
(* crates/windows: create_backup_checkpoint, its first half.  robocopy     *)
(* reads the EFI system partition through a drive letter: the one the      *)
(* probe reports, or else a free one the command maps for the time of the  *)
(* copy.  Letters are the machine's, so several commands, and volumes that *)
(* come and go, meet in them.  Lifecycle sees all of this as CopyEsp.      *)
(***************************************************************************)
EXTENDS Naturals

CONSTANTS
  Procs,    \* the PartBooter processes
  Letters,  \* T to Z, as numbers: a later letter is a larger one
  NoLetter, \* no drive letter
  NoProc    \* nobody

ASSUME LettersAssumption == Letters \subseteq Nat /\ NoLetter \notin Letters

ASSUME ProcsAssumption == NoProc \notin Procs

VARIABLES
  drives,  \* what a letter stands for: "free", "esp" or "other"
  mapper,  \* history: the process that gave the ESP this letter
  leaked,  \* history: the letters whose mapper stopped, or failed to unmount
  pc,      \* the call a process makes next
  source,  \* esp_source, by its letter
  mounted, \* mounted_drive is Some
  read,    \* what robocopy reads: "nothing", "esp", "other" or "broken"
  copied,  \* robocopy_succeeded
  borrowed \* history: the processes whose probe reported the letter of a running one

machineVars == <<drives, mapper, leaked>>
procVars == <<pc, source, mounted, read, copied, borrowed>>
vars == <<machineVars, procVars>>

Calls == {"idle", "find", "mount", "copy", "copying", "unmount", "check"}

TypeOK ==
  /\ drives \in [Letters -> {"free", "esp", "other"}]
  /\ mapper \in [Letters -> Procs \union {NoProc}]
  /\ leaked \subseteq Letters
  /\ pc \in [Procs -> Calls]
  /\ source \in [Procs -> Letters \union {NoLetter}]
  /\ \A p \in Procs : pc[p] \notin {"idle", "find"} => source[p] \in Letters
  /\ mounted \in [Procs -> BOOLEAN]
  /\ read \in [Procs -> {"nothing", "esp", "other", "broken"}]
  /\ copied \in [Procs -> BOOLEAN]
  /\ borrowed \subseteq Procs

Init ==
  /\ drives \in [Letters -> {"free", "esp", "other"}]
  /\ mapper = [l \in Letters |-> NoProc]
  /\ leaked = {}
  /\ pc = [p \in Procs |-> "idle"]
  /\ source = [p \in Procs |-> NoLetter]
  /\ mounted = [p \in Procs |-> FALSE]
  /\ read = [p \in Procs |-> "nothing"]
  /\ copied = [p \in Procs |-> FALSE]
  /\ borrowed = {}

-----------------------------------------------------------------------------
Goto(p, call) == pc' = [pc EXCEPT ![p] = call]

(* The command ends, with an error or without. *)
Return(p) ==
  /\ Goto(p, "idle")
  /\ source' = [source EXCEPT ![p] = NoLetter]
  /\ mounted' = [mounted EXCEPT ![p] = FALSE]
  /\ read' = [read EXCEPT ![p] = "nothing"]
  /\ copied' = [copied EXCEPT ![p] = FALSE]
  /\ borrowed' = borrowed \ {p}

(* Fault: no reported mount point counts as usable. *)
ProbeAlwaysFinds(p) ==
  /\ pc[p] = "idle"
  /\ Goto(p, "find")
  /\ UNCHANGED <<machineVars, source, mounted, read, copied, borrowed>>

(* The probe, at the start of apply, reports a letter of the ESP when it has
   one; is_usable_mount_point accepts nothing but a letter. *)
Probe(p) ==
  /\ pc[p] = "idle"
  /\ \/ /\ \A l \in Letters : drives[l] # "esp"
        /\ Goto(p, "find")
        /\ UNCHANGED <<source, borrowed>>
     \/ \E l \in Letters :
          /\ drives[l] = "esp"
          /\ source' = [source EXCEPT ![p] = l]
          /\ borrowed' = IF mapper[l] # NoProc /\ l \notin leaked THEN borrowed \union {p}
                         ELSE borrowed
          /\ Goto(p, "copy")
  /\ UNCHANGED <<machineVars, mounted, read, copied>>

(* Fault: with no free letter the loop ends on none, without an error. *)
FindLetterOrNone(p) ==
  /\ pc[p] = "find"
  /\ \/ \E l \in Letters :
          /\ drives[l] = "free"
          /\ source' = [source EXCEPT ![p] = l]
     \/ (\A l \in Letters : drives[l] # "free") /\ UNCHANGED source
  /\ Goto(p, "mount")
  /\ UNCHANGED <<machineVars, mounted, read, copied, borrowed>>

(* find_free_drive_letter: the last free one, or an error. *)
FindLetter(p) ==
  /\ pc[p] = "find"
  /\ \/ \E l \in Letters :
          /\ drives[l] = "free"
          /\ \A k \in Letters : k > l => drives[k] # "free"
          /\ source' = [source EXCEPT ![p] = l]
          /\ Goto(p, "mount")
          /\ UNCHANGED <<mounted, read, copied, borrowed>>
     \/ (\A l \in Letters : drives[l] # "free") /\ Return(p)
  /\ UNCHANGED machineVars

(* Fault: the status of mountvol is ignored. *)
MountUnchecked(p) ==
  /\ pc[p] = "mount"
  /\ \/ /\ drives[source[p]] = "free"
        /\ drives' = [drives EXCEPT ![source[p]] = "esp"]
        /\ mapper' = [mapper EXCEPT ![source[p]] = p]
        /\ UNCHANGED leaked
     \/ UNCHANGED machineVars
  /\ mounted' = [mounted EXCEPT ![p] = TRUE]
  /\ Goto(p, "copy")
  /\ UNCHANGED <<source, read, copied, borrowed>>

(* mountvol <letter> /s takes a letter nobody has, and may fail on one. *)
Mount(p) ==
  /\ pc[p] = "mount"
  /\ \/ /\ drives[source[p]] = "free"
        /\ drives' = [drives EXCEPT ![source[p]] = "esp"]
        /\ mapper' = [mapper EXCEPT ![source[p]] = p]
        /\ mounted' = [mounted EXCEPT ![p] = TRUE]
        /\ Goto(p, "copy")
        /\ UNCHANGED <<leaked, source, read, copied, borrowed>>
     \/ UNCHANGED machineVars /\ Return(p)

(* robocopy starts, on whatever the letter stands for now. *)
StartCopy(p) ==
  /\ pc[p] = "copy"
  /\ read' = [read EXCEPT ![p] = IF drives[source[p]] = "free" THEN "broken"
                                 ELSE drives[source[p]]]
  /\ Goto(p, "copying")
  /\ UNCHANGED <<machineVars, source, mounted, copied, borrowed>>

(* Fault: a robocopy that failed returns before the letter is released. *)
EndCopyEarlyReturn(p) ==
  /\ pc[p] = "copying"
  /\ \/ /\ read[p] # "broken"
        /\ copied' = [copied EXCEPT ![p] = TRUE]
        /\ Goto(p, IF mounted[p] THEN "unmount" ELSE "check")
        /\ UNCHANGED <<source, mounted, read, borrowed>>
     \/ Return(p)
  /\ UNCHANGED machineVars

(* Fault: every command unmounts its source. *)
EndCopyAlwaysUnmounts(p) ==
  /\ pc[p] = "copying"
  /\ \E ok \in BOOLEAN :
       /\ ok => read[p] # "broken"
       /\ copied' = [copied EXCEPT ![p] = ok]
  /\ Goto(p, "unmount")
  /\ UNCHANGED <<machineVars, source, mounted, read, borrowed>>

(* robocopy ends; without its source it cannot have succeeded. *)
EndCopy(p) ==
  /\ pc[p] = "copying"
  /\ \E ok \in BOOLEAN :
       /\ ok => read[p] # "broken"
       /\ copied' = [copied EXCEPT ![p] = ok]
  /\ Goto(p, IF mounted[p] THEN "unmount" ELSE "check")
  /\ UNCHANGED <<machineVars, source, mounted, read, borrowed>>

(* A letter goes away under the copies that read from it. *)
Release(l) ==
  /\ drives' = [drives EXCEPT ![l] = "free"]
  /\ mapper' = [mapper EXCEPT ![l] = NoProc]
  /\ leaked' = leaked \ {l}
  /\ read' = [q \in Procs |-> IF pc[q] = "copying" /\ source[q] = l THEN "broken" ELSE read[q]]

(* mountvol <letter> /d, whose failure is ignored *)
Unmount(p) ==
  /\ pc[p] = "unmount"
  /\ \/ Release(source[p])
     \/ leaked' = leaked \union {source[p]} /\ UNCHANGED <<drives, mapper, read>>
  /\ Goto(p, "check")
  /\ UNCHANGED <<source, mounted, copied, borrowed>>

(* The exit code is looked at only now. *)
CheckCode(p) ==
  /\ pc[p] = "check"
  /\ Return(p)
  /\ UNCHANGED machineVars

(* The process dies, or robocopy cannot be started: the letter stays. *)
Stop(p) ==
  /\ pc[p] # "idle"
  /\ leaked' = IF mounted[p] /\ pc[p] # "check" THEN leaked \union {source[p]} ELSE leaked
  /\ Return(p)
  /\ UNCHANGED <<drives, mapper>>

(* Other volumes take and leave letters. *)
VolumeComes(l) ==
  /\ drives[l] = "free"
  /\ drives' = [drives EXCEPT ![l] = "other"]
  /\ UNCHANGED <<mapper, leaked, procVars>>

VolumeGoes(l) ==
  /\ drives[l] = "other"
  /\ Release(l)
  /\ UNCHANGED <<pc, source, mounted, copied, borrowed>>

Step(p) ==
  \/ Probe(p) \/ FindLetter(p) \/ Mount(p) \/ StartCopy(p) \/ EndCopy(p)
  \/ Unmount(p) \/ CheckCode(p) \/ Stop(p)

Next ==
  \/ \E p \in Procs : Step(p)
  \/ \E l \in Letters : VolumeComes(l) \/ VolumeGoes(l)

Spec == Init /\ [][Next]_vars

-----------------------------------------------------------------------------
(* A copy that counts as the backup of the ESP is one of the ESP to the end,
   whichever commands and volumes took letters at the same time, but for one
   case: the letter was not the command's own, and the probe met it while the
   command that mapped it was still using it (lib.rs:276-303; README.md:40 says
   apply "backs up the EFI System Partition").  A letter that was left behind
   is as good as one of the ESP's own. *)
CopyIsOfEsp ==
  \A p \in Procs \ borrowed :
    pc[p] = "check" /\ copied[p] => read[p] = "esp"

(* Letters that crashes, failed unmounts and a robocopy that did not start
   leave behind do not add up: a process never holds two, so the letters the
   ESP has from PartBooter are at most as many as the processes that run at
   once (lib.rs:276-284, where a letter the ESP has is used again). *)
OneLetterEach ==
  \A k, l \in Letters : mapper[k] = mapper[l] /\ mapper[k] # NoProc => k = l

(* No command takes away a letter it did not map (lib.rs:294-296). *)
OnlyMapperReleases ==
  [][\A l \in Letters :
       drives[l] = "esp" /\ drives'[l] # "esp" =>
         mapper[l] # NoProc /\ pc[mapper[l]] = "unmount"]_vars

(* A letter the ESP has from PartBooter is in use by the command that mapped
   it, or was left by one that was killed, could not start robocopy or failed
   to unmount: whatever robocopy answers, the letter is released before the
   answer is looked at (lib.rs:294-303). *)
LettersReturned ==
  \A l \in Letters :
    mapper[l] # NoProc =>
      \/ l \in leaked
      \/ /\ pc[mapper[l]] \in {"copy", "copying", "unmount"}
         /\ mounted[mapper[l]]
         /\ source[mapper[l]] = l

-----------------------------------------------------------------------------
(* The inductive invariant behind CopyIsOfEsp, OneLetterEach, LettersReturned
   and OnlyMapperReleases.  A letter with a mapper is the ESP's; a process that
   mounted one still has it, and it is not one left behind; one that is about
   to mount has none. *)
Mapped ==
  /\ \A l \in Letters : mapper[l] # NoProc => drives[l] = "esp"
  /\ \A l \in leaked : mapper[l] # NoProc

Kept ==
  \A p \in Procs :
    /\ mounted[p] => pc[p] \in {"copy", "copying", "unmount", "check"} /\ p \notin borrowed
    /\ mounted[p] /\ pc[p] # "check" => mapper[source[p]] = p /\ source[p] \notin leaked
    /\ pc[p] = "unmount" => mounted[p]
    /\ pc[p] \in {"idle", "find", "mount"} => p \notin borrowed

Empty == \A p \in Procs : pc[p] \in {"find", "mount"} => \A l \in Letters : mapper[l] # p

(* A letter that was not reported while in use by another command stays the
   ESP's: it is the command's own, was left behind, or never had a mapper. *)
Lasting ==
  \A p \in Procs \ borrowed :
    pc[p] \in {"copy", "copying"} =>
      /\ drives[source[p]] = "esp"
      /\ ~mounted[p] => mapper[source[p]] = NoProc \/ source[p] \in leaked

Reading ==
  \A p \in Procs \ borrowed :
    pc[p] \in {"copying", "unmount", "check"} => read[p] = "esp"

Inv ==
  /\ TypeOK /\ Mapped /\ Kept /\ Empty /\ Lasting /\ Reading
  /\ OneLetterEach /\ LettersReturned

=============================================================================
