--------------------------- MODULE BootRegistration --------------------------
(***************************************************************************)
(* crates/windows: register_winpe_boot_entry, one bcdedit command a step.  *)
(* Lifecycle shows a registration as two steps, the new object and the     *)
(* entry in the boot menu; here are the commands between them, each of     *)
(* which may fail, run by several processes on one store.  All WinPE       *)
(* entries share one object, {ramdiskoptions}, which Windows may own.      *)
(***************************************************************************)
CONSTANTS
  Procs,   \* the PartBooter processes
  Guids,   \* identifiers bcdedit /create can return
  NoGuid   \* none of them

ASSUME GuidsAssumption == NoGuid \notin Guids

VARIABLES
  entry,    \* the values set on a boot entry
  objects,  \* the boot entries in the store
  shown,    \* those in the display order
  given,    \* history: the identifiers bcdedit gave out
  options,  \* the values of {ramdiskoptions}, by the element's name
  at,       \* the command a process runs next
  mine,     \* entry_id: the entry a process registers
  candidate \* the spelling of the loader device it tries

storeVars == <<entry, objects, shown, given, options>>
vars == <<storeVars, at, mine, candidate>>

-----------------------------------------------------------------------------
(* The two spellings of the loader device; "volume" is tried first. *)
Devices == {"volume", "boot"}

(* The commands after the device is set, and the one that follows each. *)
ElementNames == {"path", "systemroot", "winpe", "detecthal", "nx"}
After == [path |-> "systemroot", systemroot |-> "winpe", winpe |-> "detecthal",
          detecthal |-> "nx", nx |-> "show"]

Blank == [device |-> "unset", osdevice |-> "unset", set |-> {}]

Entries == [device   : Devices \union {"unset"},
            osdevice : Devices \union {"unset"},
            set      : SUBSET ElementNames]

(* An element of {ramdiskoptions} is missing, Windows' or PartBooter's; without
   the object, no element can be set. *)
OptionNames == {"ramdisksdidevice", "ramdisksdipath"}
NoOptions == [n \in OptionNames |-> "no object"]
Bare == [n \in OptionNames |-> "unset"]
Ours == [n \in OptionNames |-> "partbooter"]
OptionValues == [OptionNames -> {"no object", "unset", "windows", "partbooter"}]

(* The commands whose failure makes the registration delete the entry. *)
InClosure == {"sdidevice", "sdipath", "device", "osdevice", "show"} \union ElementNames

Calls == {"idle", "create", "enum", "create-options", "resolve", "delete"} \union InClosure

TypeOK ==
  /\ entry \in [Guids -> Entries]
  /\ objects \subseteq given
  /\ shown \subseteq objects
  /\ given \subseteq Guids
  /\ options \in OptionValues
  /\ at \in [Procs -> Calls]
  /\ mine \in [Procs -> Guids \union {NoGuid}]
  /\ candidate \in [Procs -> Devices]

Init ==
  /\ entry = [g \in Guids |-> Blank]
  /\ objects = {}
  /\ shown = {}
  /\ given = {}
  /\ options \in {NoOptions, [n \in OptionNames |-> "windows"]}
  /\ at = [p \in Procs |-> "idle"]
  /\ mine = [p \in Procs |-> NoGuid]
  /\ candidate = [p \in Procs |-> "volume"]

-----------------------------------------------------------------------------
Goto(p, call) ==
  /\ at' = [at EXCEPT ![p] = call]
  /\ UNCHANGED <<mine, candidate>>

Return(p) ==
  /\ at' = [at EXCEPT ![p] = "idle"]
  /\ mine' = [mine EXCEPT ![p] = NoGuid]
  /\ candidate' = [candidate EXCEPT ![p] = "volume"]

Call(p) ==
  /\ at[p] = "idle"
  /\ Goto(p, "create")
  /\ UNCHANGED storeVars

(* create_bcd_object.  An answer in which parse_guid_from_bcd_output finds no
   GUID leaves the object in the store. *)
CreateObject(p) ==
  /\ at[p] = "create"
  /\ \E g \in Guids \ given :
       /\ objects' = objects \union {g}
       /\ given' = given \union {g}
       /\ \/ /\ at' = [at EXCEPT ![p] = "enum"]
             /\ mine' = [mine EXCEPT ![p] = g]
             /\ UNCHANGED candidate
          \/ Return(p)
  /\ UNCHANGED <<entry, shown, options>>

(* ensure_ramdisk_options_object: a bcdedit /enum that fails, for whatever
   reason, means that there is none. *)
EnumOptions(p) ==
  /\ at[p] = "enum"
  /\ \/ Goto(p, "create-options")
     \/ options # NoOptions /\ Goto(p, "resolve")
  /\ UNCHANGED storeVars

(* bcdedit does not create an object that is there.  An error here, or in the
   next command, returns without deleting the boot entry. *)
CreateOptions(p) ==
  /\ at[p] = "create-options"
  /\ IF options = NoOptions
     THEN options' = Bare /\ Goto(p, "resolve")
     ELSE UNCHANGED options /\ Return(p)
  /\ UNCHANGED <<entry, objects, shown, given>>

ResolveOptions(p) ==
  /\ at[p] = "resolve" /\ options # NoOptions
  /\ Goto(p, "sdidevice")
  /\ UNCHANGED storeVars

(* configure_ramdisk_options *)
SetOption(p, name, next) ==
  /\ options # NoOptions
  /\ options' = [options EXCEPT ![name] = "partbooter"]
  /\ Goto(p, next)
  /\ UNCHANGED <<entry, objects, shown, given>>

SetSdiDevice(p) == at[p] = "sdidevice" /\ SetOption(p, "ramdisksdidevice", "sdipath")

SetSdiPath(p) == at[p] = "sdipath" /\ SetOption(p, "ramdisksdipath", "device")

SetEntry(p, value) ==
  /\ mine[p] \in objects
  /\ entry' = [entry EXCEPT ![mine[p]] = value]
  /\ UNCHANGED <<objects, shown, given, options>>

(* Fault: the loop over the spellings runs past the last one. *)
NextSpellingTooFar(p) ==
  candidate' = [candidate EXCEPT ![p] = IF @ = "volume" THEN "boot" ELSE "none"]

NextSpelling(p) ==
  /\ candidate[p] = "volume"
  /\ candidate' = [candidate EXCEPT ![p] = "boot"]

(* configure_ramdisk_loader_device: when the first spelling is refused the
   second one is tried, and the failure of osdevice ends the registration. *)
SetDevice(p) ==
  /\ at[p] = "device"
  /\ \/ /\ SetEntry(p, [entry[mine[p]] EXCEPT !.device = candidate[p]])
        /\ Goto(p, "osdevice")
     \/ /\ NextSpelling(p)
        /\ UNCHANGED <<storeVars, at, mine>>

(* Fault: osdevice gets the first spelling whatever device was set to. *)
SetOsDeviceFirst(p) ==
  /\ at[p] = "osdevice"
  /\ SetEntry(p, [entry[mine[p]] EXCEPT !.osdevice = "volume"])
  /\ Goto(p, "path")

SetOsDevice(p) ==
  /\ at[p] = "osdevice"
  /\ SetEntry(p, [entry[mine[p]] EXCEPT !.osdevice = candidate[p]])
  /\ Goto(p, "path")

SetElement(p) ==
  /\ at[p] \in ElementNames
  /\ SetEntry(p, [entry[mine[p]] EXCEPT !.set = @ \union {at[p]}])
  /\ Goto(p, After[at[p]])

(* Fault: the test of the result is the wrong way round. *)
ShowInverted(p) ==
  /\ at[p] = "show"
  /\ mine[p] \in objects
  /\ shown' = shown \union {mine[p]}
  /\ Goto(p, "delete")
  /\ UNCHANGED <<entry, objects, given, options>>

(* add_bcd_display_order *)
Show(p) ==
  /\ at[p] = "show"
  /\ mine[p] \in objects
  /\ shown' = shown \union {mine[p]}
  /\ Return(p)
  /\ UNCHANGED <<entry, objects, given, options>>

(* A command inside the registration closure fails: the entry is deleted. *)
FailInClosure(p) ==
  /\ at[p] \in InClosure
  /\ at[p] = "device" => candidate[p] = "boot"
  /\ Goto(p, "delete")
  /\ UNCHANGED storeVars

(* delete_bcd_object, whose own failure is ignored. *)
DeleteObject(p) ==
  /\ at[p] = "delete"
  /\ \/ /\ objects' = objects \ {mine[p]}
        /\ shown' = shown \ {mine[p]}
        /\ entry' = [entry EXCEPT ![mine[p]] = Blank]
     \/ UNCHANGED <<objects, shown, entry>>
  /\ Return(p)
  /\ UNCHANGED <<given, options>>

(* An error before the closure returns at once; the process may die anywhere. *)
Stop(p) ==
  /\ at[p] # "idle"
  /\ Return(p)
  /\ UNCHANGED storeVars

Step(p) ==
  \/ CreateObject(p) \/ EnumOptions(p) \/ CreateOptions(p) \/ ResolveOptions(p)
  \/ SetSdiDevice(p) \/ SetSdiPath(p) \/ SetDevice(p)
  \/ SetOsDevice(p) \/ SetElement(p) \/ Show(p) \/ FailInClosure(p)
  \/ DeleteObject(p)

Next == \E p \in Procs : Call(p) \/ Step(p) \/ Stop(p)

Spec == Init /\ [][Next]_vars

-----------------------------------------------------------------------------
(* The boot entry is complete in a store with these values and ramdisk options. *)
Configured(g, values, opts) ==
  /\ values[g].device # "unset"
  /\ values[g].osdevice = values[g].device
  /\ values[g].set = ElementNames
  /\ opts = Ours

(* An entry the boot menu offers is complete, however many registrations ran,
   failed or died around it: loader and system device agree, every element is
   set, and the ramdisk options are PartBooter's (lib.rs:402-424, where the
   display order comes last and {ramdiskoptions} is shared). *)
ShownIsConfigured == \A g \in shown : Configured(g, entry, options)

(* The commands of a registration amount to the two steps the service relies
   on: an entry created, then registered or withdrawn, and a registered entry
   is never withdrawn by a registration (lib.rs:433-438). *)
LifeOf ==
  [g \in Guids |-> CASE g \notin given -> "unknown"
                    [] g \in given \ objects -> "withdrawn"
                    [] g \in objects \ shown -> "created"
                    [] g \in shown -> "registered"]

Life == INSTANCE EntryLife WITH life <- LifeOf

ImplementsEntryLife == Life!LifeSpec

-----------------------------------------------------------------------------
(* The inductive invariant behind both.  A process past create holds an entry
   of its own that is not shown yet. *)
Holds ==
  \A p \in Procs :
    IF at[p] \in {"idle", "create"}
    THEN mine[p] = NoGuid
    ELSE mine[p] \in given \ shown

Alone == \A p, q \in Procs : mine[p] = mine[q] /\ mine[p] # NoGuid => p = q

(* The elements set when a process reaches a command. *)
Done == [path |-> {}, systemroot |-> {"path"}, winpe |-> {"path", "systemroot"},
         detecthal |-> {"path", "systemroot", "winpe"},
         nx |-> {"path", "systemroot", "winpe", "detecthal"},
         show |-> ElementNames]

(* The commands before this one took effect on the entry and the options. *)
ReachedBy(p) ==
  /\ at[p] = "osdevice" => entry[mine[p]].device = candidate[p]
  /\ at[p] \in ElementNames \union {"show"} =>
       /\ entry[mine[p]].device \in Devices
       /\ entry[mine[p]].osdevice = entry[mine[p]].device
       /\ Done[at[p]] \subseteq entry[mine[p]].set
  /\ at[p] = "sdipath" => options["ramdisksdidevice"] = "partbooter"
  /\ at[p] \in InClosure \ {"sdidevice", "sdipath"} => options = Ours

(* The part of the invariant that no import can take away *)
Owned ==
  /\ TypeOK
  /\ Holds
  /\ Alone

Inv ==
  /\ Owned
  /\ \A p \in Procs : ReachedBy(p)
  /\ ShownIsConfigured

=============================================================================
