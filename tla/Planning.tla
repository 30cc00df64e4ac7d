------------------------------ MODULE Planning -------------------------------
(***************************************************************************)
(* From the machine to the admission of a plan: the probe script and what  *)
(* crates/windows makes of its answer, the payload detectors, build_plan,  *)
(* the plan file between the plan and the apply command, and the checks at *)
(* the head of apply_plan, behind which Lifecycle begins.                  *)
(*                                                                         *)
(* plan and apply are processes of their own, at any distance in time: the *)
(* machine may be another one at apply, and the plan file may have been    *)
(* cut short while it was written.                                         *)
(***************************************************************************)
EXTENDS RecordFile

CONSTANTS
  Machines, \* what a machine can be like when it is probed
  Names     \* the files a plan is asked for

Facts == [registry   : {"uefi", "bios", "unreadable"}, \* PEFirmwareType
          loader     : {"efi", "exe", "unknown"},      \* path of {current}
          disk       : {"gpt", "mbr", "other", "none"},
          esp        : {"none", "bare", "path", "volume"},
          secureBoot : {"on", "off", "unknown"},
          bitlocker  : {"on", "off", "failed", "no cmdlet"}]

FileNames == [ext   : {"iso", "wim", "other", "none"},
              words : SUBSET {"ubuntu", "debian", "fedora", "winpe", "boot"}]

ASSUME InputsAssumption == Machines \subseteq Facts /\ Names \subseteq FileNames

VARIABLES
  file, \* the plan file, line by line
  made, \* history: the plan that was built, and the doubts there were
  last  \* the last command: what it probed and how it ended

vars == <<file, made, last>>

-----------------------------------------------------------------------------
(* PROBE_SCRIPT.  An ESP is "bare" without access path and volume, "path" with
   an access path whose volume cannot be read, else "volume". *)
HasEsp(m) == m.esp # "none"

EspVolumeKnown(m) == m.esp \in {"path", "volume"}

(* The registry, else the loader Windows was booted by. *)
LooksUefi(m) == m.registry = "uefi" \/ m.loader = "efi"

(* A GPT disk and an ESP outweigh both. *)
Inferred(m) == ~LooksUefi(m) /\ m.disk = "gpt" /\ HasEsp(m)

FirmwareMode(m) == IF LooksUefi(m) \/ Inferred(m) THEN "uefi" ELSE "bios"

(* The warnings, in the order the script meets them. *)
WarningOrder == <<"no system disk", "Secure Boot unknown", "no BitLocker cmdlet",
                  "firmware inferred", "firmware unknown", "no ESP metadata", "no ESP",
                  "not UEFI", "not GPT", "no ESP volume">>

(* Fault: a machine without an ESP is turned down without a warning. *)
RaisedButNoEsp(m, w) ==
  CASE w = "no system disk"      -> m.disk = "none"
    [] w = "Secure Boot unknown" -> m.secureBoot = "unknown"
    [] w = "no BitLocker cmdlet" -> m.bitlocker = "no cmdlet"
    [] w = "firmware inferred"   -> Inferred(m)
    [] w = "firmware unknown"    -> FirmwareMode(m) # "uefi" /\ m.registry = "unreadable"
    [] w = "no ESP metadata"     -> m.esp \in {"bare", "path"}
    [] w = "no ESP"              -> FALSE
    [] w = "not UEFI"            -> FirmwareMode(m) # "uefi"
    [] w = "not GPT"             -> m.disk # "gpt"
    [] w = "no ESP volume"       -> m.esp = "bare"

Raised(m, w) ==
  CASE w = "no system disk"      -> m.disk = "none"
    [] w = "Secure Boot unknown" -> m.secureBoot = "unknown"
    [] w = "no BitLocker cmdlet" -> m.bitlocker = "no cmdlet"
    [] w = "firmware inferred"   -> Inferred(m)
    [] w = "firmware unknown"    -> FirmwareMode(m) # "uefi" /\ m.registry = "unreadable"
    [] w = "no ESP metadata"     -> m.esp \in {"bare", "path"}
    [] w = "no ESP"              -> ~HasEsp(m)
    [] w = "not UEFI"            -> FirmwareMode(m) # "uefi"
    [] w = "not GPT"             -> m.disk # "gpt"
    [] w = "no ESP volume"       -> ~EspVolumeKnown(m)

(* $warnings, each pushed when the script gets there *)
WarningsOf(m) ==
  Picked(WarningOrder, {i \in DOMAIN WarningOrder : Raised(m, WarningOrder[i])})

(* Fault: the script does not ask for the ESP's volume path. *)
SupportedWithoutVolume(m) ==
  FirmwareMode(m) = "uefi" /\ m.disk = "gpt" /\ HasEsp(m)

Supported(m) ==
  FirmwareMode(m) = "uefi" /\ m.disk = "gpt" /\ HasEsp(m) /\ EspVolumeKnown(m)

(* Fault: the partition style is taken over as it is printed. *)
ProbeOfRawStyle(m) ==
  [firmware   |-> FirmwareMode(m),
   style      |-> m.disk,
   secureBoot |-> m.secureBoot = "on",
   bitlocker  |-> m.bitlocker = "on",
   volume     |-> EspVolumeKnown(m),
   warnings   |-> WarningsOf(m),
   supported  |-> Supported(m)]

(* parse_probe_output of what the script prints: a style that is neither gpt
   nor mbr is unknown; every key is there, each but warning once. *)
ProbeOf(m) ==
  [firmware   |-> FirmwareMode(m),
   style      |-> IF m.disk \in {"gpt", "mbr"} THEN m.disk ELSE "unknown",
   secureBoot |-> m.secureBoot = "on",
   bitlocker  |-> m.bitlocker = "on",
   volume     |-> EspVolumeKnown(m),
   warnings   |-> WarningsOf(m),
   supported  |-> Supported(m)]

-----------------------------------------------------------------------------
(* validate_probe: its first complaint, or none. *)
ProbeError(probe) ==
  IF ~probe.supported THEN "unsupported"
  ELSE IF probe.firmware # "uefi" THEN "only UEFI"
  ELSE IF probe.style # "gpt" THEN "only GPT"
  ELSE IF ~probe.volume THEN "no ESP volume"
  ELSE "none"

Distros == {"ubuntu", "debian", "fedora"}

WinPeWords == {"winpe", "boot"}

(* inspect_payload: the WinPE detector, then the ISO detector. *)
Payload(name) ==
  [name |-> name,
   kind |-> CASE name.ext = "wim" -> "winpe" [] name.ext = "iso" -> "linux-iso"
              [] OTHER -> "unsupported",
   supported |-> \/ name.ext = "wim" /\ name.words \intersect WinPeWords # {}
                 \/ name.ext = "iso" /\ name.words \intersect Distros # {}]

Steps == <<"backup-esp", "snapshot-boot-config", "stage-payload",
           "write-loader-config", "register-boot-entry", "verify-boot-entry">>

When(condition, flag) == IF condition THEN <<flag>> ELSE <<>>

(* Fault: the warnings of the probe are forgotten. *)
RiskFlagsNoWarnings(probe, payload) ==
  <<"additive-only">> \o When(probe.bitlocker, "BitLocker detected")
    \o When(probe.secureBoot /\ payload.kind = "linux-iso", "Secure Boot review")

(* What the operator should look at before apply, in the plan's order. *)
RiskFlags(probe, payload) ==
  <<"additive-only">> \o When(probe.bitlocker, "BitLocker detected") \o probe.warnings
    \o When(probe.secureBoot /\ payload.kind = "linux-iso", "Secure Boot review")

-----------------------------------------------------------------------------
(* The plan file *)
HeaderKeys == <<"PARTBOOTER_PLAN_V1", "version", "plan_id", "target_volume",
                "backup_root", "created_at", "replace_default_boot_path">>

(* No property is about what stands in these lines. *)
Header == [i \in DOMAIN HeaderKeys |-> Line(HeaderKeys[i], "any")]

(* Fault: created_at and the policy come after the payload. *)
ToPlanFilePayloadEarly(plan) ==
  SubSeq(Header, 1, 5) \o Lines("payload", <<plan.payload>>) \o SubSeq(Header, 6, 7)
    \o Lines("risk", plan.risks) \o Lines("step", plan.steps)

ToPlanFile(plan) ==
  Header \o Lines("payload", <<plan.payload>>)
    \o Lines("risk", plan.risks) \o Lines("step", plan.steps)

(* Only names and paths hold what can be escaped or is not ASCII. *)
FreeText(line) ==
  line.key \in {"target_volume", "backup_root", "payload"} \/ line.value = "stage-payload"

(* from_plan_file succeeds: the fields it asks for in the end are there. *)
Readable(lines) ==
  /\ \A i \in DOMAIN lines : lines[i].state # "broken"
  /\ Has(lines, "PARTBOOTER_PLAN_V1", {"whole"})
  /\ Has(lines, "version", {"whole"})
  /\ \A key \in {"plan_id", "target_volume", "backup_root", "created_at", "payload"} :
       Has(lines, key, {"whole", "last"})

(* from_plan_file.  The payload's last field is its support state. *)
FromPlanFile(lines) ==
  LET payload == Fields(lines, "payload")[1]
      risks == Fields(lines, "risk") IN
  [payload |-> [payload.value EXCEPT !.supported = @ /\ payload.state = "whole"],
   intact  |-> \A i \in 1..6 : Has(lines, HeaderKeys[i], {"whole"}),
   risks   |-> [i \in DOMAIN risks |->
                  IF risks[i].state = "whole" THEN risks[i].value ELSE "cut"],
   steps   |-> Values(Fields(lines, "step"))]

-----------------------------------------------------------------------------
NoPlan == [intact |-> FALSE]

NoMachine == [disk |-> "none"]

NoProbe == [style |-> "unknown"]

NoFile == <<>>

(* How a command ended: "done", or the error it stopped with, and what it
   probed and read. *)
Ended(command, outcome, m, probe, plan) ==
  [command |-> command, outcome |-> outcome, machine |-> m, probe |-> probe, plan |-> plan]

(* validate_probe and then validate_payload, in both commands *)
Verdict(probe, payload) ==
  IF ProbeError(probe) # "none" THEN ProbeError(probe)
  ELSE IF payload.supported THEN "done" ELSE "payload"

(* The facts an operator should have looked at before apply. *)
DoubtsOf(m, payload) ==
  {d \in {"firmware inferred", "Secure Boot unknown", "no BitLocker cmdlet",
          "BitLocker detected", "BitLocker unread", "no ESP metadata", "Secure Boot review"} :
     CASE d = "firmware inferred"   -> m.registry # "uefi" /\ m.loader # "efi"
       [] d = "Secure Boot unknown" -> m.secureBoot = "unknown"
       [] d = "no BitLocker cmdlet" -> m.bitlocker = "no cmdlet"
       [] d = "BitLocker detected"  -> m.bitlocker = "on"
       [] d = "BitLocker unread"    -> m.bitlocker = "failed"
       [] d = "no ESP metadata"     -> m.esp # "volume"
       [] d = "Secure Boot review"  -> m.secureBoot = "on" /\ payload.name.ext = "iso"}

Init ==
  /\ file = NoFile
  /\ made = [plan |-> NoPlan, doubts |-> {}]
  /\ last = Ended("none", "done", NoMachine, NoProbe, NoPlan)

PlanOf(m, name) ==
  [payload |-> Payload(name), intact |-> TRUE,
   risks |-> RiskFlags(ProbeOf(m), Payload(name)), steps |-> Steps]

(* What fs::write of the plan file may leave *)
FilesOf(plan) ==
  LET lines == ToPlanFile(plan) IN
    Written(lines, {i \in DOMAIN lines : FreeText(lines[i])})

(* build_plan, and the plan command, which writes the file.  Bound: one plan. *)
BuildPlan(m, name) ==
  LET verdict == Verdict(ProbeOf(m), Payload(name)) IN
  /\ made.plan = NoPlan
  /\ \/ /\ verdict # "done"
        /\ last' = Ended("plan", verdict, m, ProbeOf(m), NoPlan)
        /\ UNCHANGED <<file, made>>
     \/ /\ verdict = "done"
        /\ file' \in FilesOf(PlanOf(m, name))
        /\ made' = [plan |-> PlanOf(m, name), doubts |-> DoubtsOf(m, Payload(name))]
        /\ last' = Ended("plan", verdict, NoMachine, NoProbe, NoPlan)

(* Fault: apply trusts the plan and does not validate the probe again. *)
ApplyTrustsPlan(m) ==
  /\ last.command = "plan" /\ made.plan # NoPlan
  /\ Readable(file)
  /\ FromPlanFile(file).payload.supported
  /\ last' = Ended("apply", "done", m, ProbeOf(m), FromPlanFile(file))
  /\ UNCHANGED <<file, made>>

(* The apply command up to ensure_layout, which changes neither the file nor
   the machine.  Bound: one apply. *)
Apply(m) ==
  /\ last.command = "plan" /\ made.plan # NoPlan
  /\ \/ /\ ~Readable(file)
        /\ last' = Ended("apply", "plan file", NoMachine, NoProbe, NoPlan)
     \/ /\ Readable(file)
        /\ LET plan == FromPlanFile(file) IN
             last' = Ended("apply", Verdict(ProbeOf(m), plan.payload), m, ProbeOf(m), plan)
  /\ UNCHANGED <<file, made>>

Next ==
  \/ \E m \in Machines, name \in Names : BuildPlan(m, name)
  \/ \E m \in Machines : Apply(m)

Spec == Init /\ [][Next]_vars

-----------------------------------------------------------------------------
Outcomes == {"done", "unsupported", "only UEFI", "only GPT", "no ESP volume",
             "payload", "plan file"}

TypeOK ==
  /\ made.plan # NoPlan => made.plan.payload.name \in Names
  /\ last.command \in {"none", "plan", "apply"}
  /\ last.outcome \in Outcomes
  /\ last.machine # NoMachine => last.machine \in Machines
  /\ last.probe # NoProbe =>
       /\ last.probe.firmware \in {"uefi", "bios"}
       /\ last.probe.style \in {"gpt", "mbr", "unknown"}

Items(seq) == {seq[i] : i \in DOMAIN seq}

Applied == last.command = "apply" /\ last.outcome = "done"

(* Whatever the machine was when the plan was made, and however the plan file
   was cut short, apply goes ahead only on a machine that now has a GPT disk
   and an ESP with an address, and with an image the detectors list
   (service.rs:209-212, "Unsupported or risky environments fail early",
   docs/product/vision.md:49). *)
AdmittedIsFit ==
  Applied =>
    /\ last.machine.disk = "gpt" /\ last.machine.esp \in {"path", "volume"}
    /\ LET name == last.plan.payload.name IN
         \/ name.ext = "iso" /\ name.words \intersect Distros # {}
         \/ name.ext = "wim" /\ name.words \intersect WinPeWords # {}

(* A plan file apply accepts, cut short or not, names the plan, the volume, the
   backup root and the payload that were planned, and as long as it has a step
   it has every risk flag (model.rs:415-592, where the order of the lines
   matters). *)
AppliedAsPlanned ==
  Applied =>
    /\ last.plan.intact
    /\ last.plan.payload = made.plan.payload
    /\ last.plan.steps # <<>> => last.plan.risks = made.plan.risks

(* A machine that is turned down is told why: each requirement it misses is a
   warning of the error (service.rs:363-373 and the script, "clear blockers",
   docs/product/vision.md:49); so the fallback "no additional probe detail was
   recorded" is never printed. *)
BlockedIsExplained ==
  last.outcome = "unsupported" =>
    LET m == last.machine
        told == Items(last.probe.warnings) IN
    /\ told # {}
    /\ m.disk # "gpt" => "not GPT" \in told
    /\ m.esp = "none" => "no ESP" \in told
    /\ m.esp = "bare" => "no ESP volume" \in told
    /\ /\ m.registry # "uefi" /\ m.loader # "efi"
       /\ m.disk # "gpt" \/ m.esp = "none"
       => "not UEFI" \in told

(* The verdict of the script and the checks of validate_probe agree: a machine
   is never turned down by a check the script had let pass (the script's
   $supported, lib.rs:115-130, against service.rs:375-391). *)
ValidatorAgrees ==
  last.outcome \notin {"only UEFI", "only GPT", "no ESP volume"}

(* Each doubt there was about the machine, and each fact to review, when the
   plan was made is a risk flag of the plan (service.rs:100-136), but for one: a
   BitLocker query that fails, its error silenced, passes for a machine without
   BitLocker (lib.rs:47), although docs/security/threat-model.md:36 would "block
   apply when required probe facts are missing or unsupported". *)
DoubtsFlagged ==
  made.plan # NoPlan =>
    made.doubts \ Items(made.plan.risks) = made.doubts \intersect {"BitLocker unread"}

-----------------------------------------------------------------------------
(* The inductive invariant behind the others. *)

(* The plan is of a machine and a payload that passed, and its file is what a
   write of it leaves. *)
PlanMade ==
  made.plan # NoPlan =>
    \E m \in Machines, name \in Names :
      /\ Verdict(ProbeOf(m), Payload(name)) = "done"
      /\ made = [plan |-> PlanOf(m, name), doubts |-> DoubtsOf(m, Payload(name))]
      /\ file \in FilesOf(PlanOf(m, name))

(* No command yet, a plan that was written, or a plan file that is unreadable *)
NothingJudged ==
  {Ended("none", "done", NoMachine, NoProbe, NoPlan),
   Ended("plan", "done", NoMachine, NoProbe, NoPlan),
   Ended("apply", "plan file", NoMachine, NoProbe, NoPlan)}

(* Else a command ends with the verdict on the machine it probed: plan with a
   complaint, apply also with none. *)
LastJudged ==
  \/ last \in NothingJudged
  \/ \E m \in Machines, name \in Names :
       LET verdict == Verdict(ProbeOf(m), Payload(name)) IN
       verdict # "done" /\ last = Ended("plan", verdict, m, ProbeOf(m), NoPlan)
  \/ \E m \in Machines :
       LET plan == FromPlanFile(file) IN
       /\ made.plan # NoPlan /\ Readable(file)
       /\ last = Ended("apply", Verdict(ProbeOf(m), plan.payload), m, ProbeOf(m), plan)

PlanInv == PlanMade /\ LastJudged

=============================================================================
