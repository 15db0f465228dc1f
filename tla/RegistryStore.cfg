SPECIFICATION Spec
CONSTANTS
    Windows = TRUE
    Faults = {"write", "wipe", "shelve", "replace", "sweep"}
    MaxSaves = 4
INVARIANTS CrashSafe IdleDurable
PROPERTIES AckedNeverRegresses ImplementsDurable
