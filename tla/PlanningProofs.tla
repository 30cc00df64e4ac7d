---------------------------- MODULE PlanningProofs ---------------------------
(***************************************************************************)
(* What a plan file cut anywhere still says, and what the verdicts of plan *)
(* and apply rest on, for every set of machines and of file names: the     *)
(* script and validate_probe agree, what is admitted is fit and as it was  *)
(* planned, what is doubtful is flagged, what is refused is explained.     *)
(***************************************************************************)
EXTENDS Planning, RecordFileProofs

(* A machine the script supports passes every check of validate_probe. *)
LEMMA SupportedPasses ==
  ASSUME NEW m, Supported(m)
  PROVE  ProbeError(ProbeOf(m)) = "none"
<1>1. /\ ProbeOf(m).supported = Supported(m)
      /\ ProbeOf(m).firmware = FirmwareMode(m)
      /\ ProbeOf(m).style = (IF m.disk \in {"gpt", "mbr"} THEN m.disk ELSE "unknown")
      /\ ProbeOf(m).volume = EspVolumeKnown(m)
  BY DEF ProbeOf
<1>2. FirmwareMode(m) = "uefi" /\ m.disk = "gpt" /\ EspVolumeKnown(m)
  BY DEF Supported
<1>3. /\ ProbeOf(m).supported
      /\ ProbeOf(m).firmware = "uefi"
      /\ ProbeOf(m).style = "gpt"
      /\ ProbeOf(m).volume
  BY <1>1, <1>2
<1> QED
  BY <1>3 DEF ProbeError

(* A machine it does not support is turned down by the first check. *)
LEMMA UnsupportedStops ==
  ASSUME NEW m, ~Supported(m)
  PROVE  ProbeError(ProbeOf(m)) = "unsupported"
<1>1. ProbeOf(m).supported = Supported(m)
  BY DEF ProbeOf
<1> QED
  BY <1>1 DEF ProbeError

(* So neither command ends with one of the checks behind the first. *)
LEMMA VerdictAgrees ==
  ASSUME NEW m, NEW payload
  PROVE  Verdict(ProbeOf(m), payload) \in {"done", "unsupported", "payload"}
<1>1. ProbeError(ProbeOf(m)) \in {"none", "unsupported"}
  BY SupportedPasses, UnsupportedStops
<1> QED
  BY <1>1 DEF Verdict

(* No verdict yet *)
LEMMA AgreesInit == Init => ValidatorAgrees
BY DEF Init, Ended, ValidatorAgrees

(* Only the two commands judge a machine. *)
LEMMA AgreesNext ==
  ASSUME ValidatorAgrees, [Next]_vars
  PROVE  ValidatorAgrees'
<1>1. ASSUME NEW m \in Machines, NEW name \in Names, BuildPlan(m, name)
      PROVE  ValidatorAgrees'
  <2>1. last'.outcome = Verdict(ProbeOf(m), Payload(name))
    BY <1>1 DEF BuildPlan, Ended
  <2> QED
    BY <2>1, VerdictAgrees DEF ValidatorAgrees
<1>2. ASSUME NEW m \in Machines, Apply(m)
      PROVE  ValidatorAgrees'
  <2>1. CASE last' = Ended("apply", "plan file", NoMachine, NoProbe, NoPlan)
    <3>1. last'.outcome = "plan file"
      BY <2>1 DEF Ended
    <3> QED
      BY <3>1 DEF ValidatorAgrees
  <2>2. ASSUME NEW plan,
               last' = Ended("apply", Verdict(ProbeOf(m), plan.payload), m, ProbeOf(m), plan)
        PROVE  ValidatorAgrees'
    <3>1. last'.outcome = Verdict(ProbeOf(m), plan.payload)
      BY <2>2 DEF Ended
    <3> QED
      BY <3>1, VerdictAgrees DEF ValidatorAgrees
  <2> QED
    BY <1>2, <2>1, <2>2 DEF Apply
<1>3. CASE UNCHANGED vars
  BY <1>3 DEF vars, ValidatorAgrees
<1> QED
  BY <1>1, <1>2, <1>3 DEF Next

(* A machine is never turned down by a check of validate_probe the script had
   let pass (lib.rs:115-130, service.rs:362-393). *)
THEOREM ValidatorAgreesCorrect == Spec => []ValidatorAgrees
<1> QED
  BY AgreesInit, AgreesNext, PTL DEF Spec

-----------------------------------------------------------------------------
(* The plan file *)

PlanKeys == {"PARTBOOTER_PLAN_V1", "version", "plan_id", "target_volume", "backup_root",
             "created_at", "replace_default_boot_path", "payload", "risk", "step"}

(* Seven lines without a value *)
LEMMA HeaderShape ==
  ASSUME NEW values, "any" \in values
  PROVE  /\ Header \in Seq(LinesOf(PlanKeys, values)) /\ Len(Header) = 7
         /\ \A i \in 1..7 : Header[i] = Line(HeaderKeys[i], "any")
<1>1. DOMAIN HeaderKeys = 1..7 /\ \A i \in 1..7 : HeaderKeys[i] \in PlanKeys
  BY DEF HeaderKeys, PlanKeys
<1>2. Header = [i \in 1..7 |-> Line(HeaderKeys[i], "any")]
  BY <1>1 DEF Header
<1>3. Header \in [1..7 -> LinesOf(PlanKeys, values)]
  BY <1>1, <1>2 DEF Line, LinesOf, States
<1>4. Header \in Seq(LinesOf(PlanKeys, values))
  BY <1>3, SeqDef
<1>5. DOMAIN Header = 1..7 /\ \A i \in 1..7 : Header[i] = Line(HeaderKeys[i], "any")
  BY <1>2
<1>6. Len(Header) \in Nat /\ DOMAIN Header = 1..Len(Header)
  BY <1>4, LenProperties
<1>7. \A n \in Nat : 1..7 = 1..n => n = 7
  <2> SUFFICES ASSUME NEW n \in Nat, 1..7 = 1..n PROVE n = 7
    OBVIOUS
  <2>1. 7 \in 1..n /\ (n >= 1 => n \in 1..7)
    OBVIOUS
  <2> QED BY <2>1
<1>8. Len(Header) = 7
  BY <1>5, <1>6, <1>7
<1> QED BY <1>4, <1>5, <1>8

PlanLines(payload, risks, steps) ==
  Header \o Lines("payload", <<payload>>) \o Lines("risk", risks) \o Lines("step", steps)

(* Behind the header the payload's line, the risks and the steps *)
Laid(lines, payload, risks, steps) ==
  /\ lines[8] = Line("payload", payload)
  /\ \A i \in 1..7 : lines[i] = Line(HeaderKeys[i], "any")
  /\ \A i \in 1..Len(risks) : lines[8 + i] = Line("risk", risks[i])
  /\ \A i \in 1..Len(steps) : lines[8 + Len(risks) + i] = Line("step", steps[i])

(* The lines of a plan file: eight, then the risks and the steps. *)
LEMMA Layout ==
  ASSUME NEW values, "any" \in values, NEW payload \in values,
         NEW risks \in Seq(values), NEW steps \in Seq(values)
  PROVE  /\ PlanLines(payload, risks, steps) \in Seq(LinesOf(PlanKeys, values))
         /\ Len(PlanLines(payload, risks, steps)) = 8 + Len(risks) + Len(steps)
         /\ Laid(PlanLines(payload, risks, steps), payload, risks, steps)
<1>0. PICK R, S : R = Len(risks) /\ S = Len(steps)
  OBVIOUS
<1>1. R \in Nat /\ S \in Nat
  BY <1>0, LenProperties
<1>2. "payload" \in PlanKeys /\ "risk" \in PlanKeys /\ "step" \in PlanKeys
  BY DEF PlanKeys
<1> DEFINE L == LinesOf(PlanKeys, values)
<1>3. PICK P \in Seq(L) :
        P = Lines("payload", <<payload>>) /\ Len(P) = 1 /\ P[1] = Line("payload", payload)
  <2>1. <<payload>> \in Seq(values) /\ Len(<<payload>>) = 1 /\ <<payload>>[1] = payload
    OBVIOUS
  <2>2. /\ Lines("payload", <<payload>>) \in Seq(LinesOf(PlanKeys, values))
        /\ Len(Lines("payload", <<payload>>)) = Len(<<payload>>)
        /\ \A i \in 1..Len(<<payload>>) :
             Lines("payload", <<payload>>)[i] = Line("payload", <<payload>>[i])
    <3>1. \A seq \in Seq(values) :
            /\ Lines("payload", seq) \in Seq(LinesOf(PlanKeys, values))
            /\ Len(Lines("payload", seq)) = Len(seq)
            /\ \A i \in 1..Len(seq) : Lines("payload", seq)[i] = Line("payload", seq[i])
      BY <1>2, LinesShape
    <3> QED BY <2>1, <3>1, Zenon
  <2> QED BY <2>1, <2>2
<1>4. PICK Q \in Seq(L) :
        Q = Lines("risk", risks) /\ Len(Q) = R /\ \A i \in 1..R : Q[i] = Line("risk", risks[i])
  BY <1>0, <1>2, LinesShape
<1>5. PICK T \in Seq(L) :
        T = Lines("step", steps) /\ Len(T) = S /\ \A i \in 1..S : T[i] = Line("step", steps[i])
  BY <1>0, <1>2, LinesShape
<1> HIDE DEF L
<1>6. PICK A \in Seq(L) :
        /\ A = Header \o P /\ Len(A) = 8
        /\ \A i \in 1..7 : A[i] = Line(HeaderKeys[i], "any")
        /\ A[8] = Line("payload", payload)
  <2>1. PICK H \in Seq(L) :
          H = Header /\ Len(H) = 7 /\ \A i \in 1..7 : H[i] = Line(HeaderKeys[i], "any")
    BY HeaderShape DEF L
  <2>2. /\ H \o P \in Seq(L) /\ Len(H \o P) = 8
        /\ \A i \in 1..7 : (H \o P)[i] = H[i]
        /\ (H \o P)[8] = P[1]
    <3>1. /\ H \o P \in Seq(L) /\ Len(H \o P) = Len(H) + Len(P)
          /\ \A i \in 1..Len(H) : (H \o P)[i] = H[i]
          /\ \A i \in 1..Len(P) : (H \o P)[Len(H) + i] = P[i]
      BY Joined
    <3>2. Len(P) = 1 /\ Len(H) = 7
      BY <1>3, <2>1, Zenon
    <3>3. 1 \in 1..Len(P) /\ Len(H) + 1 = 8 /\ Len(H) + Len(P) = 8
      BY <3>2
    <3> QED BY <3>1, <3>2, <3>3
  <2>3. (H \o P)[8] = Line("payload", payload) /\ Header \o P = H \o P
    BY <1>3, <2>1, <2>2
  <2>4. \A i \in 1..7 : (H \o P)[i] = Line(HeaderKeys[i], "any")
    BY <2>1, <2>2
  <2> QED BY <2>2, <2>3, <2>4
<1>7. PICK B \in Seq(L) :
        /\ B = A \o Q /\ Len(B) = 8 + R
        /\ \A i \in 1..8 : B[i] = A[i]
        /\ \A i \in 1..R : B[8 + i] = Line("risk", risks[i])
  <2>1. /\ A \o Q \in Seq(L) /\ Len(A \o Q) = 8 + R
        /\ \A i \in 1..8 : (A \o Q)[i] = A[i]
        /\ \A i \in 1..R : (A \o Q)[8 + i] = Q[i]
    <3>1. /\ A \o Q \in Seq(L) /\ Len(A \o Q) = Len(A) + Len(Q)
          /\ \A i \in 1..Len(A) : (A \o Q)[i] = A[i]
          /\ \A i \in 1..Len(Q) : (A \o Q)[Len(A) + i] = Q[i]
      BY Joined
    <3> QED BY <1>4, <1>6, <3>1
  <2>2. \A i \in 1..R : (A \o Q)[8 + i] = Line("risk", risks[i])
    BY <1>4, <2>1
  <2> QED BY <2>1, <2>2
<1>8. PICK C \in Seq(L) :
        /\ C = B \o T /\ Len(C) = 8 + R + S
        /\ \A i \in 1..8 + R : C[i] = B[i]
        /\ \A i \in 1..S : C[8 + R + i] = Line("step", steps[i])
  <2>1. 8 + R \in Nat
    BY <1>1
  <2>2. /\ B \o T \in Seq(L) /\ Len(B \o T) = 8 + R + S
        /\ \A i \in 1..8 + R : (B \o T)[i] = B[i]
        /\ \A i \in 1..S : (B \o T)[8 + R + i] = T[i]
    <3>1. /\ B \o T \in Seq(L) /\ Len(B \o T) = Len(B) + Len(T)
          /\ \A i \in 1..Len(B) : (B \o T)[i] = B[i]
          /\ \A i \in 1..Len(T) : (B \o T)[Len(B) + i] = T[i]
      BY Joined
    <3> QED BY <1>5, <1>7, <3>1
  <2>3. \A i \in 1..S : (B \o T)[8 + R + i] = Line("step", steps[i])
    BY <1>5, <2>2
  <2> QED BY <2>2, <2>3
<1>9. /\ \A i \in 1..7 : C[i] = Line(HeaderKeys[i], "any")
      /\ C[8] = Line("payload", payload)
      /\ \A i \in 1..R : C[8 + i] = Line("risk", risks[i])
  <2>1. /\ \A i \in 1..8 : i \in 1..8 + R
        /\ \A i \in 1..R : 8 + i \in 1..8 + R
        /\ \A i \in 1..7 : i \in 1..8
        /\ 8 \in 1..8
    BY <1>1
  <2> QED BY <1>6, <1>7, <1>8, <2>1
<1>10. C = PlanLines(payload, risks, steps)
  BY <1>3, <1>4, <1>5, <1>6, <1>7, <1>8 DEF PlanLines
<1>11. Laid(C, payload, risks, steps)
  BY <1>0, <1>8, <1>9 DEF Laid
<1> QED BY <1>0, <1>8, <1>10, <1>11 DEF L

(* Which lines of the file the reader takes for what *)
PlacesOf(lines, R, S) ==
  \A i \in 1..8 + R + S :
    /\ lines[i].key = "payload" <=> i = 8
    /\ lines[i].key = "risk" <=> i \in 9..8 + R
    /\ lines[i].key = "step" <=> i \in 9 + R..8 + R + S

(* Where the lines of each key are. *)
LEMMA KeyPlaces ==
  ASSUME NEW lines, NEW payload, NEW risks, NEW steps, Laid(lines, payload, risks, steps),
         NEW R \in Nat, R = Len(risks), NEW S \in Nat, S = Len(steps),
         Len(lines) = 8 + R + S
  PROVE  AllWhole(lines) /\ PlacesOf(lines, R, S)
<1>0. /\ \A i \in 1..7 : lines[i] = Line(HeaderKeys[i], "any")
      /\ lines[8] = Line("payload", payload)
      /\ \A i \in 1..R : lines[8 + i] = Line("risk", risks[i])
      /\ \A i \in 1..S : lines[8 + R + i] = Line("step", steps[i])
  BY DEF Laid
<1>1. \A key, value : Line(key, value).key = key /\ Line(key, value).state = "whole"
  BY DEF Line
<1>2. \A i \in 1..7 : HeaderKeys[i] \notin {"payload", "risk", "step"}
  BY DEF HeaderKeys
<1> SUFFICES ASSUME NEW i \in 1..8 + R + S
             PROVE  /\ lines[i].state = "whole"
                    /\ lines[i].key = "payload" <=> i = 8
                    /\ lines[i].key = "risk" <=> i \in 9..8 + R
                    /\ lines[i].key = "step" <=> i \in 9 + R..8 + R + S
  BY DEF AllWhole, PlacesOf
<1>3. CASE i \in 1..7
  <2>1. lines[i].state = "whole" /\ lines[i].key \notin {"payload", "risk", "step"}
    BY <1>0, <1>1, <1>2, <1>3
  <2> QED BY <1>3, <2>1
<1>4. CASE i = 8
  <2>1. lines[i].state = "whole" /\ lines[i].key = "payload"
    BY <1>0, <1>1, <1>4
  <2> QED BY <1>4, <2>1
<1>5. CASE i \in 9..8 + R
  <2>1. i - 8 \in 1..R /\ 8 + (i - 8) = i
    BY <1>5
  <2>2. lines[i] = Line("risk", risks[i - 8])
    BY <1>0, <2>1
  <2>3. lines[i].state = "whole" /\ lines[i].key = "risk"
    BY <1>1, <2>2
  <2> QED BY <1>5, <2>3
<1>6. CASE i \in 9 + R..8 + R + S
  <2>1. i - 8 - R \in 1..S /\ 8 + R + (i - 8 - R) = i
    BY <1>6
  <2>2. lines[i] = Line("step", steps[i - 8 - R])
    BY <1>0, <2>1
  <2>3. lines[i].state = "whole" /\ lines[i].key = "step"
    BY <1>1, <2>2
  <2> QED BY <1>6, <2>3
<1> QED BY <1>3, <1>4, <1>5, <1>6

(* The header and the payload are there, the payload's last field aside; with a
   step, so are all the risks. *)
ReadsAs(read, payload, risks) ==
  /\ read.intact
  /\ \E state : read.payload = [payload EXCEPT !.supported = @ /\ state = "whole"]
  /\ read.steps # <<>> => read.risks = risks

(* What the reader makes of a file cut anywhere *)
LEMMA ReadBack ==
  ASSUME NEW values, "any" \in values, NEW payload \in values,
         NEW risks \in Seq(values), NEW steps \in Seq(values),
         NEW lines, lines = PlanLines(payload, risks, steps),
         NEW breakable \in SUBSET (1..Len(lines)), NEW f \in Written(lines, breakable),
         Readable(f)
  PROVE  ReadsAs(FromPlanFile(f), payload, risks)
<1>0. PICK R \in Nat, S \in Nat : R = Len(risks) /\ S = Len(steps)
  BY LenProperties
<1>1. /\ lines \in Seq(LinesOf(PlanKeys, values))
      /\ Len(lines) = 8 + R + S
      /\ Laid(lines, payload, risks, steps)
  BY <1>0, Layout
<1>2. AllWhole(lines) /\ PlacesOf(lines, R, S)
  BY <1>0, <1>1, KeyPlaces
<1>3. PICK n \in 0..8 + R + S :
        /\ n = Len(f) /\ DOMAIN f = 1..n
        /\ \A i \in 1..n :
             /\ f[i].key = lines[i].key
             /\ f[i].value = lines[i].value
             /\ i < n => f[i].state = "whole"
  <2>1. f \in Seq(LinesOf(PlanKeys, values)) /\ CutShort(f, lines)
    BY <1>1, <1>2, WrittenShape
  <2>2. Len(f) \in Nat /\ DOMAIN f = 1..Len(f)
    BY <2>1, LenProperties
  <2>3. PICK k \in Nat : k = Len(f)
    BY <2>2
  <2>4. k <= 8 + R + S
    BY <1>1, <2>1, <2>3 DEF CutShort
  <2>5. k \in 0..8 + R + S
    BY <1>0, <2>3, <2>4
  <2> QED BY <2>1, <2>2, <2>3, <2>5 DEF CutShort
<1>4. \A i \in 1..n : i \in 1..8 + R + S
  BY <1>3
<1>5. /\ n >= 8 /\ 8 \in 1..n
      /\ f[8].state # "short"
  <2>1. PICK i \in 1..n : f[i].key = "payload" /\ f[i].state \in {"whole", "last"}
    BY <1>3 DEF Readable, Has
  <2>2. i = 8
    BY <1>2, <1>3, <1>4, <2>1 DEF PlacesOf
  <2> QED BY <2>1, <2>2
<1>6. \A i \in 1..7 : i \in 1..n /\ f[i].state = "whole" /\ f[i].key = HeaderKeys[i]
  <2>1. \A i \in 1..7 : i \in 1..n /\ i < n
    BY <1>5
  <2>2. \A i \in 1..7 : lines[i].key = HeaderKeys[i]
    BY <1>1 DEF Laid, Line
  <2> QED BY <1>3, <2>1, <2>2
<1>7. FromPlanFile(f).intact
  <2>1. \A i \in 1..6 : Has(f, HeaderKeys[i], {"whole"})
    <3>1. \A i \in 1..6 : i \in 1..7 /\ i \in DOMAIN f
      BY <1>3, <1>6
    <3> QED BY <1>6, <3>1 DEF Has
  <2> QED BY <2>1 DEF FromPlanFile
<1>8. Fields(f, "payload")[1] = f[8]
  <2>1. \A i \in DOMAIN f : f[i].key = "payload" <=> i = 8
    BY <1>2, <1>3, <1>4 DEF PlacesOf
  <2>2. OnlyAt(f, "payload", 8)
    BY <1>3, <1>5, <2>1 DEF OnlyAt
  <2> QED BY <2>2, OnlyField
<1>9. FromPlanFile(f).payload = [payload EXCEPT !.supported = @ /\ f[8].state = "whole"]
  <2>1. f[8].value = payload
    BY <1>1, <1>3, <1>5 DEF Laid, Line
  <2> QED BY <1>8, <2>1 DEF FromPlanFile
<1>10. ASSUME FromPlanFile(f).steps # <<>>
       PROVE  FromPlanFile(f).risks = risks
  <2>1. PICK i \in 1..n : f[i].key = "step"
    <3> SUFFICES ASSUME \A i \in 1..n : f[i].key # "step"
                 PROVE  FALSE
      OBVIOUS
    <3> DEFINE places == {i \in DOMAIN f : f[i].key = "step" /\ f[i].state # "short"}
    <3>1. places = {}
      BY <1>3
    <3>2. Fields(f, "step") = Picked(f, places)
      BY DEF Fields
    <3> HIDE DEF places
    <3>3. Fields(f, "step") = <<>>
      <4>1. Cardinality({}) = 0
        BY FS_EmptySet
      <4>2. Picked(f, {}) = [k \in 1..0 |-> f[Nth({}, k)]]
        BY <4>1 DEF Picked
      <4>3. Picked(f, {}) = <<>>
        BY <4>2
      <4> QED BY <3>1, <3>2, <4>3
    <3>4. Values(<<>>) = <<>>
      BY DEF Values
    <3>5. FromPlanFile(f).steps = Values(Fields(f, "step"))
      BY DEF FromPlanFile
    <3> QED BY <1>10, <3>3, <3>4, <3>5
  <2>2. n >= 9 + R
    <3>1. i \in 9 + R..8 + R + S
      BY <1>2, <1>3, <1>4, <2>1 DEF PlacesOf
    <3> QED BY <1>1, <1>3, <2>1, <3>1
  <2>3. \A j \in 9..8 + R : j \in 1..n /\ j < n
    BY <1>1, <1>3, <2>2
  <2>4. \A j \in 9..8 + R : f[j].key = "risk" /\ f[j].state = "whole" /\ f[j].value = lines[j].value
    <3>1. \A j \in 9..8 + R : lines[j].key = "risk"
      BY <1>2, <1>4, <2>3 DEF PlacesOf
    <3> QED BY <1>3, <2>3, <3>1
  <2> DEFINE places == {j \in DOMAIN f : f[j].key = "risk" /\ f[j].state # "short"}
  <2>5. places = 9..8 + R
    <3>1. \A j \in 1..n : f[j].key = "risk" <=> j \in 9..8 + R
      BY <1>2, <1>3, <1>4 DEF PlacesOf
    <3>2. \A j \in 9..8 + R : j \in places
      BY <1>3, <2>3, <2>4
    <3>3. \A j \in places : j \in 9..8 + R
      BY <1>3, <3>1
    <3> QED BY <3>2, <3>3
  <2>6. Fields(f, "risk") = Picked(f, places)
    BY DEF Fields
  <2> HIDE DEF places
  <2>7. /\ DOMAIN Picked(f, places) = 1..R
        /\ \A k \in 1..R : Picked(f, places)[k] = f[9 + k - 1]
    <3>1. 8 + R \in Nat /\ 9 + R = 8 + R + 1
      BY <1>0
    <3>2. Window(Picked(f, places), f, 9, R)
      BY <1>0, <2>5, <3>1, PickedRange
    <3> QED BY <3>2 DEF Window
  <2>8. DOMAIN Fields(f, "risk") = 1..R /\ \A k \in 1..R : Fields(f, "risk")[k] = f[8 + k]
    <3>1. \A k \in 1..R : 9 + k - 1 = 8 + k
      OBVIOUS
    <3> QED BY <2>6, <2>7, <3>1
  <2>9. \A k \in 1..R : f[8 + k].state = "whole" /\ f[8 + k].value = risks[k]
    <3>1. \A k \in 1..R : 8 + k \in 9..8 + R
      BY <1>1
    <3>2. \A k \in 1..R : lines[8 + k].value = risks[k]
      <4>1. \A k \in 1..R : lines[8 + k] = Line("risk", risks[k])
        BY <1>0, <1>1 DEF Laid
      <4>2. \A value : Line("risk", value).value = value
        BY DEF Line
      <4> QED BY <4>1, <4>2
    <3> QED BY <2>4, <3>1, <3>2
  <2>10. FromPlanFile(f).risks =
           [k \in DOMAIN Fields(f, "risk") |->
              IF Fields(f, "risk")[k].state = "whole" THEN Fields(f, "risk")[k].value ELSE "cut"]
    BY DEF FromPlanFile
  <2>11. FromPlanFile(f).risks = [k \in 1..R |-> risks[k]]
    BY <2>8, <2>9, <2>10
  <2>12. risks = [k \in 1..R |-> risks[k]]
    BY <1>0, LenProperties
  <2> QED BY <2>11, <2>12
<1> QED BY <1>7, <1>9, <1>10 DEF ReadsAs

-----------------------------------------------------------------------------
(* The flags of a plan *)

(* Joining loses no item. *)
LEMMA ItemsJoined ==
  ASSUME NEW items, NEW s \in Seq(items), NEW t \in Seq(items), NEW u, u = s \o t
  PROVE  u \in Seq(items) /\ Items(s) \subseteq Items(u) /\ Items(t) \subseteq Items(u)
<1>1. PICK k \in Nat, n \in Nat : k = Len(s) /\ n = Len(t)
  BY LenProperties
<1>2. /\ u \in Seq(items) /\ Len(u) = k + n
      /\ \A i \in 1..k : u[i] = s[i]
      /\ \A i \in 1..n : u[k + i] = t[i]
  BY <1>1, Joined
<1>3. DOMAIN s = 1..k /\ DOMAIN t = 1..n /\ DOMAIN u = 1..k + n
  BY <1>1, <1>2, LenProperties
<1>4. \A i \in 1..k : i \in 1..k + n
  BY <1>1
<1>5. \A i \in 1..n : k + i \in 1..k + n
  BY <1>1
<1> QED BY <1>2, <1>3, <1>4, <1>5 DEF Items

(* What the script can warn of, and what a plan can flag *)
Warnings == {WarningOrder[i] : i \in 1..10}

Flags == Warnings \union {"additive-only", "BitLocker detected", "Secure Boot review"}

(* A warning the script raises is among those it prints. *)
LEMMA Warned ==
  ASSUME NEW m
  PROVE  /\ WarningsOf(m) \in Seq(Warnings)
         /\ \A i \in 1..10 : Raised(m, WarningOrder[i]) => WarningOrder[i] \in Items(WarningsOf(m))
<1> DEFINE places == {i \in DOMAIN WarningOrder : Raised(m, WarningOrder[i])}
<1>1. DOMAIN WarningOrder = 1..10
  BY DEF WarningOrder
<1>2. places \in SUBSET Nat /\ IsFiniteSet(places)
  <2>1. places \in SUBSET (1..10)
    BY <1>1
  <2>2. IsFiniteSet(1..10)
    BY 1 \in Int, 10 \in Int, FS_Interval
  <2> QED BY <2>1, <2>2, FS_Subset
<1>3. WarningsOf(m) = Picked(WarningOrder, places)
  BY DEF WarningsOf
<1>4. \A i \in 1..10 : Raised(m, WarningOrder[i]) => i \in places
  BY <1>1
<1>11. places \subseteq 1..10
  BY <1>1
<1> HIDE DEF places
<1>5. PICK size \in Nat : size = Cardinality(places)
  BY <1>2, FS_CardinalityType
<1>6. WarningsOf(m) = [n \in 1..size |-> WarningOrder[Nth(places, n)]]
  BY <1>3, <1>5 DEF Picked
<1>7. \A i \in places : \E n \in 1..size : WarningsOf(m)[n] = WarningOrder[i]
  BY <1>2, <1>3, <1>5, PickedItems
<1>8. DOMAIN WarningsOf(m) = 1..size
  BY <1>6
<1>9. \A i \in places : WarningOrder[i] \in Items(WarningsOf(m))
  BY <1>7, <1>8 DEF Items
<1>10. WarningsOf(m) \in Seq(Warnings)
  <2>1. \A n \in 1..size : \E i \in places : WarningsOf(m)[n] = WarningOrder[i]
    BY <1>2, <1>3, <1>5, PickedFrom
  <2>2. \A n \in 1..size : WarningsOf(m)[n] \in Warnings
    BY <1>11, <2>1 DEF Warnings
  <2>3. WarningsOf(m) \in [1..size -> Warnings]
    BY <1>6, <2>2
  <2> QED BY <2>3, SeqDef
<1> QED BY <1>4, <1>9, <1>10

(* A flag by itself *)
LEMMA OneFlag ==
  ASSUME NEW items, NEW flag \in items
  PROVE  <<flag>> \in Seq(items) /\ flag \in Items(<<flag>>)
<1>1. <<flag>> \in Seq(items) /\ <<flag>>[1] = flag /\ 1 \in DOMAIN <<flag>>
  OBVIOUS
<1> QED BY <1>1 DEF Items

(* The flags of a plan hold the warnings, and what the two conditions add. *)
LEMMA FlagsOf ==
  ASSUME NEW probe, NEW payload, NEW items, probe.warnings \in Seq(items),
         {"additive-only", "BitLocker detected", "Secure Boot review"} \subseteq items
  PROVE  /\ RiskFlags(probe, payload) \in Seq(items)
         /\ Items(probe.warnings) \subseteq Items(RiskFlags(probe, payload))
         /\ probe.bitlocker => "BitLocker detected" \in Items(RiskFlags(probe, payload))
         /\ probe.secureBoot /\ payload.kind = "linux-iso"
              => "Secure Boot review" \in Items(RiskFlags(probe, payload))
<1> DEFINE review == probe.secureBoot /\ payload.kind = "linux-iso"
           a == <<"additive-only">>
           b == When(probe.bitlocker, "BitLocker detected")
           w == probe.warnings
           c == When(review, "Secure Boot review")
<1>1. \A flag \in items : <<flag>> \in Seq(items) /\ flag \in Items(<<flag>>)
  BY OneFlag
<1>2. ASSUME NEW flag \in items, NEW condition
      PROVE  When(condition, flag) \in Seq(items) /\ (condition => flag \in Items(When(condition, flag)))
  <2>1. CASE condition
    <3>1. When(condition, flag) = <<flag>>
      BY <2>1 DEF When
    <3> QED BY <1>1, <3>1
  <2>2. CASE ~condition
    <3>1. When(condition, flag) = <<>>
      BY <2>2 DEF When
    <3> QED BY <2>2, <3>1, EmptySeq
  <2> QED BY <2>1, <2>2
<1>3. a \in Seq(items)
  BY <1>1
<1>4. b \in Seq(items) /\ (probe.bitlocker => "BitLocker detected" \in Items(b))
  BY <1>2
<1>5. c \in Seq(items) /\ (review => "Secure Boot review" \in Items(c))
  BY <1>2
<1>6. RiskFlags(probe, payload) = ((a \o b) \o w) \o c
  BY DEF RiskFlags
<1>7. w \in Seq(items)
  OBVIOUS
<1> HIDE DEF a, b, c, w
<1>8. PICK ab, abw, abwc : ab = a \o b /\ abw = ab \o w /\ abwc = abw \o c
  OBVIOUS
<1>9. ab \in Seq(items) /\ Items(b) \subseteq Items(ab)
  BY <1>3, <1>4, <1>8, ItemsJoined
<1>10. abw \in Seq(items) /\ Items(ab) \subseteq Items(abw) /\ Items(w) \subseteq Items(abw)
  BY <1>7, <1>8, <1>9, ItemsJoined
<1>11. abwc \in Seq(items) /\ Items(abw) \subseteq Items(abwc) /\ Items(c) \subseteq Items(abwc)
  BY <1>5, <1>8, <1>10, ItemsJoined
<1>12. RiskFlags(probe, payload) = abwc
  BY <1>6, <1>8
<1> QED BY <1>4, <1>5, <1>9, <1>10, <1>11, <1>12 DEF w

-----------------------------------------------------------------------------
(* What passes and what is turned down *)

(* The verdict is decided by the script's and the payload's support. *)
LEMMA VerdictIs ==
  ASSUME NEW m, NEW payload
  PROVE  /\ Verdict(ProbeOf(m), payload) = "done" <=> Supported(m) /\ payload.supported
         /\ Verdict(ProbeOf(m), payload) = "unsupported" <=> ~Supported(m)
<1>1. CASE Supported(m)
  <2>1. ProbeError(ProbeOf(m)) = "none"
    BY <1>1, SupportedPasses
  <2> QED BY <1>1, <2>1 DEF Verdict
<1>2. CASE ~Supported(m)
  <2>1. ProbeError(ProbeOf(m)) = "unsupported"
    BY <1>2, UnsupportedStops
  <2> QED BY <1>2, <2>1 DEF Verdict
<1> QED BY <1>1, <1>2

(* The flags of the plan build_plan makes *)
LEMMA PlanFlags ==
  ASSUME NEW m, NEW name
  PROVE  /\ PlanOf(m, name).risks \in Seq(Flags)
         /\ Items(WarningsOf(m)) \subseteq Items(PlanOf(m, name).risks)
         /\ m.bitlocker = "on" => "BitLocker detected" \in Items(PlanOf(m, name).risks)
         /\ m.secureBoot = "on" /\ name.ext = "iso"
              => "Secure Boot review" \in Items(PlanOf(m, name).risks)
<1> DEFINE probe == ProbeOf(m)
           payload == Payload(name)
<1>1. /\ probe.warnings = WarningsOf(m)
      /\ probe.bitlocker = (m.bitlocker = "on")
      /\ probe.secureBoot = (m.secureBoot = "on")
  BY DEF ProbeOf
<1>2. name.ext = "iso" => payload.kind = "linux-iso"
  BY DEF Payload
<1>3. PlanOf(m, name).risks = RiskFlags(probe, payload)
  BY DEF PlanOf
<1> HIDE DEF probe, payload
<1>4. probe.warnings \in Seq(Flags)
  <2>1. WarningsOf(m) \in Seq(Warnings) /\ Warnings \subseteq Flags
    BY Warned DEF Flags
  <2>2. WarningsOf(m) \in Seq(Flags)
    BY <2>1, SeqWider
  <2> QED BY <1>1, <2>2
<1>5. {"additive-only", "BitLocker detected", "Secure Boot review"} \subseteq Flags
  BY DEF Flags
<1> DEFINE told == Items(RiskFlags(probe, payload))
<1>8. /\ RiskFlags(probe, payload) \in Seq(Flags)
      /\ Items(probe.warnings) \subseteq told
      /\ probe.bitlocker => "BitLocker detected" \in told
      /\ probe.secureBoot /\ payload.kind = "linux-iso" => "Secure Boot review" \in told
  BY <1>4, <1>5, FlagsOf
<1> QED BY <1>1, <1>2, <1>3, <1>8

(* Each doubt about a machine that passes is a flag of its plan, but the one
   about a BitLocker query that failed. *)
LEMMA DoubtsAreFlags ==
  ASSUME NEW m \in Facts, NEW name \in FileNames, Supported(m)
  PROVE  LET doubts == DoubtsOf(m, Payload(name)) IN
           doubts \ Items(PlanOf(m, name).risks) = doubts \intersect {"BitLocker unread"}
<1> DEFINE told == Items(PlanOf(m, name).risks)
<1>1. Payload(name).name = name
  BY DEF Payload
<1>4. /\ Items(WarningsOf(m)) \subseteq told
      /\ m.bitlocker = "on" => "BitLocker detected" \in told
      /\ m.secureBoot = "on" /\ name.ext = "iso" => "Secure Boot review" \in told
  BY PlanFlags
<1> HIDE DEF told
<1>5. \A i \in 1..10 : Raised(m, WarningOrder[i]) => WarningOrder[i] \in told
  BY <1>4, Warned
<1>6. ASSUME m.registry # "uefi" /\ m.loader # "efi"
      PROVE  "firmware inferred" \in told
  <2>1. WarningOrder[4] = "firmware inferred" /\ 4 \in 1..10
    BY DEF WarningOrder
  <2>2. Raised(m, "firmware inferred")
    BY <1>6 DEF Raised, Supported, FirmwareMode, LooksUefi
  <2> QED BY <1>5, <2>1, <2>2
<1>7. ASSUME m.secureBoot = "unknown"
      PROVE  "Secure Boot unknown" \in told
  <2>1. WarningOrder[2] = "Secure Boot unknown" /\ 2 \in 1..10
    BY DEF WarningOrder
  <2>2. Raised(m, "Secure Boot unknown")
    BY <1>7 DEF Raised
  <2> QED BY <1>5, <2>1, <2>2
<1>8. ASSUME m.bitlocker = "no cmdlet"
      PROVE  "no BitLocker cmdlet" \in told
  <2>1. WarningOrder[3] = "no BitLocker cmdlet" /\ 3 \in 1..10
    BY DEF WarningOrder
  <2>2. Raised(m, "no BitLocker cmdlet")
    BY <1>8 DEF Raised
  <2> QED BY <1>5, <2>1, <2>2
<1>9. ASSUME m.esp # "volume"
      PROVE  "no ESP metadata" \in told
  <2>1. WarningOrder[6] = "no ESP metadata" /\ 6 \in 1..10
    BY DEF WarningOrder
  <2>2. m.esp = "path"
    BY <1>9 DEF Supported, EspVolumeKnown
  <2>3. Raised(m, "no ESP metadata")
    BY <2>2 DEF Raised
  <2> QED BY <1>5, <2>1, <2>3
<1>10. \A d \in DoubtsOf(m, Payload(name)) : d # "BitLocker unread" => d \in told
  BY <1>1, <1>4, <1>6, <1>7, <1>8, <1>9 DEF DoubtsOf
<1>11. "BitLocker unread" \notin told
  <2>1. told \subseteq Flags
    <3>1. PlanOf(m, name).risks \in Seq(Flags)
      BY PlanFlags
    <3>2. \A i \in DOMAIN PlanOf(m, name).risks : PlanOf(m, name).risks[i] \in Flags
      BY <3>1, LenProperties
    <3> QED BY <3>2 DEF told, Items
  <2>2. "BitLocker unread" \notin Warnings
    <3>1. \A i \in 1..10 : WarningOrder[i] # "BitLocker unread"
      <4>1. /\ WarningOrder[1] # "BitLocker unread" /\ WarningOrder[2] # "BitLocker unread"
            /\ WarningOrder[3] # "BitLocker unread" /\ WarningOrder[4] # "BitLocker unread"
            /\ WarningOrder[5] # "BitLocker unread" /\ WarningOrder[6] # "BitLocker unread"
            /\ WarningOrder[7] # "BitLocker unread" /\ WarningOrder[8] # "BitLocker unread"
            /\ WarningOrder[9] # "BitLocker unread" /\ WarningOrder[10] # "BitLocker unread"
        BY DEF WarningOrder
      <4>2. \A i \in 1..10 : \/ i = 1 \/ i = 2 \/ i = 3 \/ i = 4 \/ i = 5
                              \/ i = 6 \/ i = 7 \/ i = 8 \/ i = 9 \/ i = 10
        OBVIOUS
      <4> QED BY <4>1, <4>2
    <3> QED BY <3>1 DEF Warnings
  <2> QED BY <2>1, <2>2 DEF Flags
<1> QED BY <1>10, <1>11 DEF told

(* A machine that does not pass has a warning for each requirement it misses. *)
LEMMA MissesAreTold ==
  ASSUME NEW m \in Facts, ~Supported(m)
  PROVE  LET told == Items(WarningsOf(m)) IN
         /\ told # {}
         /\ m.disk # "gpt" => "not GPT" \in told
         /\ m.esp = "none" => "no ESP" \in told
         /\ m.esp = "bare" => "no ESP volume" \in told
         /\ /\ m.registry # "uefi" /\ m.loader # "efi"
            /\ m.disk # "gpt" \/ m.esp = "none"
            => "not UEFI" \in told
<1> DEFINE told == Items(WarningsOf(m))
<1>1. \A i \in 1..10 : Raised(m, WarningOrder[i]) => WarningOrder[i] \in told
  BY Warned
<1> HIDE DEF told
<1>2. /\ WarningOrder[7] = "no ESP" /\ WarningOrder[8] = "not UEFI"
      /\ WarningOrder[9] = "not GPT" /\ WarningOrder[10] = "no ESP volume"
  BY DEF WarningOrder
<1>3. /\ Raised(m, "no ESP") <=> ~HasEsp(m)
      /\ Raised(m, "not UEFI") <=> FirmwareMode(m) # "uefi"
      /\ Raised(m, "not GPT") <=> m.disk # "gpt"
      /\ Raised(m, "no ESP volume") <=> ~EspVolumeKnown(m)
  BY DEF Raised
<1>4. /\ ~HasEsp(m) => "no ESP" \in told
      /\ FirmwareMode(m) # "uefi" => "not UEFI" \in told
      /\ m.disk # "gpt" => "not GPT" \in told
      /\ ~EspVolumeKnown(m) => "no ESP volume" \in told
  <2>1. 7 \in 1..10 /\ 8 \in 1..10 /\ 9 \in 1..10 /\ 10 \in 1..10
    OBVIOUS
  <2> QED BY <1>1, <1>2, <1>3, <2>1
<1>5. m.esp = "none" => ~HasEsp(m)
  BY DEF HasEsp
<1>6. m.esp = "bare" => ~EspVolumeKnown(m)
  BY DEF EspVolumeKnown
<1>7. m.registry # "uefi" /\ m.loader # "efi" /\ (m.disk # "gpt" \/ m.esp = "none")
        => FirmwareMode(m) # "uefi"
  BY DEF FirmwareMode, LooksUefi, Inferred, HasEsp
<1>8. told # {}
  BY <1>4 DEF Supported
<1> QED BY <1>4, <1>5, <1>6, <1>7, <1>8 DEF told

-----------------------------------------------------------------------------
(* The inductive invariant *)

LEMMA MadeInit == Init => PlanInv
BY DEF Init, PlanInv, PlanMade, LastJudged, NothingJudged

(* Apply keeps the plan and the file; both commands end with their verdict. *)
LEMMA MadeNext ==
  ASSUME PlanInv, [Next]_vars
  PROVE  PlanInv'
<1>1. ASSUME NEW m \in Machines, NEW name \in Names, BuildPlan(m, name)
      PROVE  PlanInv'
  <2> DEFINE verdict == Verdict(ProbeOf(m), Payload(name))
  <2>1. CASE /\ verdict # "done"
             /\ last' = Ended("plan", verdict, m, ProbeOf(m), NoPlan)
             /\ UNCHANGED <<file, made>>
    <3>1. PlanMade'
      BY <2>1 DEF PlanInv, PlanMade
    <3>2. LastJudged'
      BY <2>1 DEF LastJudged
    <3> QED BY <3>1, <3>2 DEF PlanInv
  <2>2. CASE /\ verdict = "done"
             /\ file' \in FilesOf(PlanOf(m, name))
             /\ made' = [plan |-> PlanOf(m, name), doubts |-> DoubtsOf(m, Payload(name))]
             /\ last' = Ended("plan", verdict, NoMachine, NoProbe, NoPlan)
    <3>1. PlanMade'
      BY <2>2 DEF PlanMade
    <3>2. LastJudged'
      BY <2>2 DEF LastJudged, NothingJudged
    <3> QED BY <3>1, <3>2 DEF PlanInv
  <2> QED BY <1>1, <2>1, <2>2 DEF BuildPlan
<1>2. ASSUME NEW m \in Machines, Apply(m)
      PROVE  PlanInv'
  <2>1. PlanMade'
    BY <1>2 DEF Apply, PlanInv, PlanMade
  <2>2. LastJudged'
    <3>1. CASE last' = Ended("apply", "plan file", NoMachine, NoProbe, NoPlan)
      BY <3>1 DEF LastJudged, NothingJudged
    <3>2. CASE /\ Readable(file)
               /\ last' = Ended("apply", Verdict(ProbeOf(m), FromPlanFile(file).payload), m,
                                ProbeOf(m), FromPlanFile(file))
      <4>1. file' = file /\ made' = made /\ made.plan # NoPlan
        BY <1>2 DEF Apply
      <4>2. /\ made'.plan # NoPlan /\ Readable(file')
            /\ last' = Ended("apply", Verdict(ProbeOf(m), FromPlanFile(file').payload), m,
                             ProbeOf(m), FromPlanFile(file'))
        BY <3>2, <4>1
      <4> QED BY <4>2 DEF LastJudged
    <3> QED BY <1>2, <3>1, <3>2 DEF Apply
  <2> QED BY <2>1, <2>2 DEF PlanInv
<1>3. CASE UNCHANGED vars
  BY <1>3 DEF vars, PlanInv, PlanMade, LastJudged
<1> QED BY <1>1, <1>2, <1>3 DEF Next

(* What was planned can be read back from its file, however it was cut. *)
LEMMA PlanReadBack ==
  ASSUME PlanInv, made.plan # NoPlan, Readable(file)
  PROVE  \E m \in Machines, name \in Names :
           /\ Payload(name).supported
           /\ made.plan = PlanOf(m, name)
           /\ ReadsAs(FromPlanFile(file), Payload(name), made.plan.risks)
<1>1. PICK m \in Machines, name \in Names :
        /\ Verdict(ProbeOf(m), Payload(name)) = "done"
        /\ made = [plan |-> PlanOf(m, name), doubts |-> DoubtsOf(m, Payload(name))]
        /\ file \in FilesOf(PlanOf(m, name))
  BY DEF PlanInv, PlanMade
<1>2. Payload(name).supported
  BY <1>1, VerdictIs
<1> DEFINE plan == PlanOf(m, name)
           risks == plan.risks
           steps == plan.steps
           lines == ToPlanFile(plan)
           breakable == {i \in DOMAIN lines : FreeText(lines[i])}
<1>3. /\ plan.payload = Payload(name)
      /\ risks = RiskFlags(ProbeOf(m), Payload(name))
      /\ steps = Steps
  BY DEF PlanOf
<1>4. PICK values : /\ "any" \in values /\ Payload(name) \in values
                    /\ risks \in Seq(values) /\ steps \in Seq(values)
  <2>1. PICK items : risks \in Seq(items)
    BY PlanFlags
  <2> DEFINE kinds == {"backup-esp", "snapshot-boot-config", "stage-payload",
                       "write-loader-config", "register-boot-entry", "verify-boot-entry"}
  <2>2. Steps \in Seq(kinds)
    BY DEF Steps
  <2> HIDE DEF kinds
  <2>3. PICK values : values = items \union kinds \union {"any", Payload(name)}
    OBVIOUS
  <2>4. items \subseteq values /\ kinds \subseteq values
    BY <2>3
  <2>5. risks \in Seq(values) /\ Steps \in Seq(values)
    <3> HIDE DEF risks
    <3> QED BY <2>1, <2>2, <2>4, SeqWider
  <2>6. "any" \in values /\ Payload(name) \in values
    BY <2>3
  <2> QED BY <1>3, <2>5, <2>6
<1>5. file \in Written(lines, breakable)
  BY <1>1 DEF FilesOf
<1>6. lines = PlanLines(Payload(name), risks, steps)
  BY <1>3 DEF ToPlanFile, PlanLines
<1> HIDE DEF risks, steps, lines, plan
<1>7. breakable \in SUBSET (1..Len(lines))
  <2>1. lines \in Seq(LinesOf(PlanKeys, values))
    BY <1>4, <1>6, Layout
  <2>2. DOMAIN lines = 1..Len(lines)
    BY <2>1, LenProperties
  <2> QED BY <2>2
<1> HIDE DEF breakable
<1>8. ReadsAs(FromPlanFile(file), Payload(name), risks)
  BY <1>4, <1>5, <1>6, <1>7, ReadBack
<1>9. made.plan = PlanOf(m, name) /\ made.plan.risks = risks
  BY <1>1 DEF plan, risks
<1> QED BY <1>2, <1>8, <1>9

(* Whatever was probed, planned and written, the plan is of a machine and a
   payload that passed, its file is what a write of it leaves, and the last
   command ended as its probe and its file decide (service.rs:93-214). *)
THEOREM PlanInvCorrect == Spec => []PlanInv
<1> QED
  BY MadeInit, MadeNext, PTL DEF Spec

-----------------------------------------------------------------------------
(* What follows from it *)

(* How a command ends that probed nothing *)
LEMMA EarlyEnds ==
  ASSUME NEW end \in NothingJudged
  PROVE  /\ end.command \in {"none", "plan", "apply"} /\ end.outcome \in {"done", "plan file"}
         /\ end.machine = NoMachine /\ end.probe = NoProbe
         /\ ~(end.command = "apply" /\ end.outcome = "done")
<1>1. \A command, outcome, m, probe, plan :
        LET e == Ended(command, outcome, m, probe, plan) IN
        e.command = command /\ e.outcome = outcome /\ e.machine = m /\ e.probe = probe
  BY DEF Ended
<1>2. ASSUME NEW command, NEW outcome, end = Ended(command, outcome, NoMachine, NoProbe, NoPlan)
      PROVE  /\ end.command = command /\ end.outcome = outcome
             /\ end.machine = NoMachine /\ end.probe = NoProbe
  BY <1>1, <1>2
<1>3. \/ end = Ended("none", "done", NoMachine, NoProbe, NoPlan)
      \/ end = Ended("plan", "done", NoMachine, NoProbe, NoPlan)
      \/ end = Ended("apply", "plan file", NoMachine, NoProbe, NoPlan)
  BY DEF NothingJudged
<1>4. \/ end.command = "none" /\ end.outcome = "done"
      \/ end.command = "plan" /\ end.outcome = "done"
      \/ end.command = "apply" /\ end.outcome = "plan file"
  BY <1>2, <1>3
<1>5. end.machine = NoMachine /\ end.probe = NoProbe
  BY <1>2, <1>3
<1> QED BY <1>4, <1>5

(* An apply that goes ahead probed a machine that passes, and read a plan whose
   payload is supported. *)
LEMMA WhenApplied ==
  ASSUME PlanInv, Applied
  PROVE  /\ made.plan # NoPlan /\ Readable(file)
         /\ last.plan = FromPlanFile(file) /\ last.plan.payload.supported
         /\ last.machine \in Machines /\ Supported(last.machine)
<1>1. PICK m \in Machines :
        /\ made.plan # NoPlan /\ Readable(file)
        /\ last = Ended("apply", Verdict(ProbeOf(m), FromPlanFile(file).payload), m, ProbeOf(m),
                        FromPlanFile(file))
  <2>1. last.command = "apply" /\ last.outcome = "done"
    BY DEF Applied
  <2>2. last \notin NothingJudged
    BY <2>1, EarlyEnds
  <2>3. \A m, verdict : last # Ended("plan", verdict, m, ProbeOf(m), NoPlan)
    BY <2>1 DEF Ended
  <2> QED BY <2>2, <2>3 DEF PlanInv, LastJudged
<1>2. /\ last.machine = m /\ last.plan = FromPlanFile(file)
      /\ Verdict(ProbeOf(m), FromPlanFile(file).payload) = "done"
  BY <1>1 DEF Ended, Applied
<1> QED BY <1>1, <1>2, VerdictIs

(* An apply that ends well has judged its machine and a payload the plan had. *)
LEMMA FitFollows == PlanInv => AdmittedIsFit
<1> SUFFICES ASSUME PlanInv, Applied
             PROVE  /\ last.machine.disk = "gpt" /\ last.machine.esp \in {"path", "volume"}
                    /\ LET name == last.plan.payload.name IN
                         \/ name.ext = "iso" /\ name.words \intersect Distros # {}
                         \/ name.ext = "wim" /\ name.words \intersect WinPeWords # {}
  BY DEF AdmittedIsFit
<1>1. last.machine.disk = "gpt" /\ last.machine.esp \in {"path", "volume"}
  BY WhenApplied DEF Supported, EspVolumeKnown
<1>2. PICK name \in Names :
        Payload(name).supported /\ ReadsAs(last.plan, Payload(name), made.plan.risks)
  BY WhenApplied, PlanReadBack
<1>3. last.plan.payload.name = name
  BY <1>2 DEF ReadsAs, Payload
<1>4. \/ name.ext = "iso" /\ name.words \intersect Distros # {}
      \/ name.ext = "wim" /\ name.words \intersect WinPeWords # {}
  BY <1>2 DEF Payload
<1> QED BY <1>1, <1>3, <1>4

(* Whatever the machine was when the plan was made, and however its file was
   cut, apply goes ahead only on a fit machine with a listed image
   (service.rs:209-212). *)
THEOREM AdmittedIsFitCorrect == Spec => []AdmittedIsFit
<1> QED
  BY PlanInvCorrect, FitFollows, PTL

(* What is read back differs from the plan in lines that were cut off. *)
LEMMA AsPlannedFollows == PlanInv => AppliedAsPlanned
<1> SUFFICES ASSUME PlanInv, Applied
             PROVE  /\ last.plan.intact
                    /\ last.plan.payload = made.plan.payload
                    /\ last.plan.steps # <<>> => last.plan.risks = made.plan.risks
  BY DEF AppliedAsPlanned
<1>1. PICK m \in Machines, name \in Names :
        /\ Payload(name).supported /\ made.plan = PlanOf(m, name)
        /\ ReadsAs(last.plan, Payload(name), made.plan.risks)
  BY WhenApplied, PlanReadBack
<1>2. made.plan.payload = Payload(name)
  BY <1>1 DEF PlanOf
<1>3. PICK state :
        last.plan.payload = [Payload(name) EXCEPT !.supported = @ /\ state = "whole"]
  BY <1>1 DEF ReadsAs
<1>4. last.plan.payload.supported
  BY WhenApplied
<1>5. last.plan.payload = Payload(name)
  <2>1. Payload(name).supported = TRUE
    BY <1>1 DEF Payload
  <2>2. (Payload(name).supported /\ state = "whole") = TRUE
    BY <1>3, <1>4, <2>1 DEF Payload
  <2> QED BY <1>3, <2>1, <2>2 DEF Payload
<1> QED BY <1>1, <1>2, <1>5 DEF ReadsAs

(* A plan file that apply accepts, however it was cut, is of the plan that was
   made (model.rs:415-592). *)
THEOREM AppliedAsPlannedCorrect == Spec => []AppliedAsPlanned
<1> QED
  BY PlanInvCorrect, AsPlannedFollows, PTL

(* Each verdict but "done" is a complaint with its reason. *)
LEMMA ExplainedFollows == PlanInv => BlockedIsExplained
<1> SUFFICES ASSUME PlanInv, last.outcome = "unsupported"
             PROVE  \E m \in Facts : /\ ~Supported(m)
                                     /\ last.machine = m /\ last.probe.warnings = WarningsOf(m)
  BY MissesAreTold DEF BlockedIsExplained
<1>1. last \notin NothingJudged
  BY EarlyEnds
<1>2. PICK m \in Machines : \E command, payload, plan :
        last = Ended(command, Verdict(ProbeOf(m), payload), m, ProbeOf(m), plan)
  BY <1>1 DEF PlanInv, LastJudged
<1>3. PICK command, payload, plan :
        last = Ended(command, Verdict(ProbeOf(m), payload), m, ProbeOf(m), plan)
  BY <1>2
<1>4. /\ last.machine = m /\ last.probe = ProbeOf(m)
      /\ Verdict(ProbeOf(m), payload) = "unsupported"
  BY <1>3 DEF Ended
<1>5. ProbeOf(m).warnings = WarningsOf(m)
  BY DEF ProbeOf
<1>6. m \in Facts
  BY InputsAssumption
<1> QED BY <1>4, <1>5, <1>6, VerdictIs

(* A machine that is turned down, by plan or by apply, is told each requirement
   it misses (service.rs:363-373). *)
THEOREM BlockedIsExplainedCorrect == Spec => []BlockedIsExplained
<1> QED
  BY PlanInvCorrect, ExplainedFollows, PTL

(* Every doubt but one has its flag. *)
LEMMA FlaggedFollows == PlanInv => DoubtsFlagged
<1> SUFFICES ASSUME PlanInv, made.plan # NoPlan
             PROVE  made.doubts \ Items(made.plan.risks)
                      = made.doubts \intersect {"BitLocker unread"}
  BY DEF DoubtsFlagged
<1>1. PICK m \in Machines, name \in Names :
        /\ Verdict(ProbeOf(m), Payload(name)) = "done"
        /\ made = [plan |-> PlanOf(m, name), doubts |-> DoubtsOf(m, Payload(name))]
  BY DEF PlanInv, PlanMade
<1>2. m \in Facts /\ name \in FileNames
  BY InputsAssumption
<1>3. Supported(m)
  BY <1>1, VerdictIs
<1> QED BY <1>1, <1>2, <1>3, DoubtsAreFlags

(* Each doubt there was when the plan was made is one of its flags, but for a
   BitLocker query that failed (service.rs:100-136). *)
THEOREM DoubtsFlaggedCorrect == Spec => []DoubtsFlagged
<1> QED
  BY PlanInvCorrect, FlaggedFollows, PTL

(* The type of the variables follows from the invariant. *)
LEMMA PlanTypeFollows == PlanInv => TypeOK
<1> SUFFICES ASSUME PlanInv PROVE TypeOK
  OBVIOUS
<1>1. made.plan # NoPlan => made.plan.payload.name \in Names
  <2> SUFFICES ASSUME made.plan # NoPlan
               PROVE  made.plan.payload.name \in Names
    OBVIOUS
  <2>1. PICK m \in Machines, name \in Names : made.plan = PlanOf(m, name)
    BY DEF PlanInv, PlanMade
  <2> QED BY <2>1 DEF PlanOf, Payload
<1>2. CASE last \in NothingJudged
  <2>1. /\ last.command \in {"none", "plan", "apply"} /\ last.outcome \in {"done", "plan file"}
        /\ last.machine = NoMachine /\ last.probe = NoProbe
    BY <1>2, EarlyEnds
  <2> QED BY <1>1, <2>1 DEF TypeOK, Outcomes
<1>3. ASSUME NEW m \in Machines, NEW command \in {"plan", "apply"}, NEW payload, NEW plan,
             last = Ended(command, Verdict(ProbeOf(m), payload), m, ProbeOf(m), plan)
      PROVE  TypeOK
  <2>1. /\ last.command = command /\ last.machine = m /\ last.probe = ProbeOf(m)
        /\ last.outcome = Verdict(ProbeOf(m), payload)
    BY <1>3 DEF Ended
  <2>2. last.outcome \in Outcomes
    BY <2>1, VerdictAgrees DEF Outcomes
  <2>3. ProbeOf(m).firmware = FirmwareMode(m) /\ FirmwareMode(m) \in {"uefi", "bios"}
    BY DEF ProbeOf, FirmwareMode
  <2>4. ProbeOf(m).style = (IF m.disk \in {"gpt", "mbr"} THEN m.disk ELSE "unknown")
    BY DEF ProbeOf
  <2>5. ProbeOf(m).style \in {"gpt", "mbr", "unknown"}
    BY <2>4
  <2> QED BY <1>1, <2>1, <2>2, <2>3, <2>5 DEF TypeOK
<1> QED BY <1>2, <1>3 DEF PlanInv, LastJudged

(* The state of the two commands has its type. *)
THEOREM PlanTypeCorrect == Spec => []TypeOK
<1> QED
  BY PlanInvCorrect, PlanTypeFollows, PTL

=============================================================================
