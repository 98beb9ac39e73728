\* Two callers of set_api_key share one temporary file; a rename is retried as often as the code does.
SPECIFICATION KeysSpec
CONSTANTS
  KeyModels = {"m1", "m2", "gone"}
  EnabledModels = {"m1", "m2"}
  KeyRequests <- MCKeyRequests
  KeyCallers = {"t1", "t2"}
  KeyCrypto = TRUE
  RenameTries = 5
  DiskFails = FALSE
  KeyInits = 1
  KeyCallsMax = 2
PROPERTY
  StoreNeverVanishes
CHECK_DEADLOCK FALSE
