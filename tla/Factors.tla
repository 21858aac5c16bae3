------------------------------- MODULE Factors -------------------------------
(****************************************************************************)
(* Hardware factors (slhwid/core.py): the raw signals a collector reads and *)
(* the two schemas that group them into slots, each of which is one vote in *)
(* a recovery.  A value is a number: which string it is does not matter,    *)
(* only whether it is missing or has changed.  The value of a slot is the   *)
(* values of its members, as the hash of a group stands for them.           *)
(****************************************************************************)
EXTENDS Integers, FiniteSets

Missing == 0

Legacy == 1
Current == 2

LegacyNames ==
  {"slstore", "machine_guid", "product_uuid", "board_serial", "cpu_id", "disk_serial", "mac",
   "ram_total", "volume_id", "computer_name", "firmware", "gpu_id", "monitor_edid", "os_build"}

DirectNames ==
  {"slstore", "machine_guid", "cpu_id", "disk_serial", "ram_total", "volume_id", "firmware",
   "tpm_ek", "memory_modules", "nic_identity", "battery_serial"}

Groups ==
  [platform_identity |-> {"system_uuid", "board_serial", "system_serial", "chassis_serial"},
   display_group |-> {"gpu_id", "monitor_edid"},
   software_environment |-> {"computer_name", "os_build"}]

CurrentNames == DirectNames \cup DOMAIN Groups

RawNames == LegacyNames \cup DirectNames \cup UNION {Groups[g] : g \in DOMAIN Groups}

SlotNames(norm) == IF norm = Legacy THEN LegacyNames ELSE CurrentNames

\* The raw signals that a slot of a schema stands for.
Members(norm, slot) ==
  IF norm = Current /\ slot \in DOMAIN Groups THEN Groups[slot] ELSE {slot}

\* project_factors: the slots of which some member is present.
Project(raw, norm) ==
  LET present == {s \in SlotNames(norm) : \E r \in Members(norm, s) : raw[r] # Missing}
  IN  [s \in present |-> [r \in Members(norm, s) |-> raw[r]]]

\* The slot of the current schema that stands for a slot of either.
CurrentName(name) ==
  CASE name \in Groups.platform_identity \cup {"product_uuid"} -> "platform_identity"
    [] name \in Groups.display_group -> "display_group"
    [] name \in Groups.software_environment -> "software_environment"
    [] name = "mac" -> "nic_identity"
    [] OTHER -> name

\* Mutant of MapMandatory: hard locks keep the names of the legacy schema.
KeepMandatory(names) == names

MapMandatory(names) == {CurrentName(n) : n \in names}
==============================================================================
