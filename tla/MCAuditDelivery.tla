--------------------------- MODULE MCAuditDelivery ---------------------------
(* Two machines with one own-auditor's hotkey, and the beacon-auditor of   *)
(* the same hotkey.                                                        *)
EXTENDS AuditDelivery

MCHosts == {"own1", "own2", "beacon"}
MCHotkeyOf == [h \in MCHosts |-> "hotkey"]
MCModeOf == [h \in MCHosts |-> IF h = "beacon" THEN "beacon" ELSE "own_audit"]
=============================================================================
