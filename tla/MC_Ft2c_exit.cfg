CONSTANTS
  MAX_POPCORN_NODES <- MC_MAX_POPCORN_NODES
  Cluster <- MC_Cluster
  Args <- MC_Args
  Argcs <- MC_Argcs
  Tids <- MC_Tids
  CreateMayFail = FALSE
  SpinHoisted = FALSE
SPECIFICATION Spec
INVARIANT ExitZeroOnlyIfPassed
