CONSTANTS
    WordBits = 16
    UnitBits = 3
    Numbers = {0, 1, 3, 8191, 8192, 65535, 65536}
    UnitWords = {"b", "KB", "kib", "mb", "GB", "tb", "TiB", "pb"}
SPECIFICATION Spec
INVARIANT InitializedLimitsPositive
CHECK_DEADLOCK FALSE
