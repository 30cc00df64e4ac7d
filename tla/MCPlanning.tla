------------------------------ MODULE MCPlanning -----------------------------
(***************************************************************************)
(* The machines, at plan and again at apply, that differ from a good one   *)
(* in at most two facts, or in any of those about firmware and disk; and a *)
(* file of each kind the detectors tell apart.                             *)
(***************************************************************************)
EXTENDS Planning

GoodMachine == [registry |-> "uefi", loader |-> "efi", disk |-> "gpt",
                esp |-> "volume", secureBoot |-> "off", bitlocker |-> "off"]

MCMachines ==
  {m \in Facts :
     LET odd == {f \in DOMAIN m : m[f] # GoodMachine[f]} IN
       Cardinality(odd) <= 2 \/ odd \subseteq {"registry", "loader", "disk", "esp"}}

Named(ext, words) == [ext |-> ext, words |-> words]

MCNames == {Named("iso", {"ubuntu"}), Named("iso", {"boot"}),
            Named("wim", {"boot"}), Named("wim", {}),
            Named("other", {"winpe"}), Named("none", {})}

=============================================================================
