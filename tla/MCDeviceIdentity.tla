--------------------------- MODULE MCDeviceIdentity --------------------------
(****************************************************************************)
(* Instances of DeviceIdentity for TLC: a machine with nine factor slots,   *)
(* of which seven recover the key, and two programs.                        *)
(****************************************************************************)
EXTENDS DeviceIdentity

CONSTANTS p1, p2

\* p2 locks more than the default; disk_serial may have drifted by then.
DiskLock == [a \in Apps |-> IF a = p2 THEN {"disk_serial"} ELSE {}]

\* p2 locks all the factors but two: with these, nine of nine are needed.
ManyLocks == [a \in Apps |-> IF a = p2 THEN {"machine_guid", "cpu_id", "ram_total", "nic_identity",
                                             "system_uuid", "gpu_id", "os_build"} ELSE {}]

\* Nine slots of the current schema, and ten of the legacy one.
NineSlots == {"machine_guid", "cpu_id", "disk_serial", "ram_total", "nic_identity", "mac",
              "system_uuid", "product_uuid", "gpu_id", "monitor_edid", "computer_name", "os_build"}
==============================================================================
