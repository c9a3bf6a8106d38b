\* pthread_create may fail; its result is not checked.  The process really
\* stops (main blocks in the barrier), so deadlock is not an error here.
CONSTANTS
  MAX_POPCORN_NODES <- MC_MAX_POPCORN_NODES
  Cluster <- MC_Cluster
  Args <- MC_Args
  Argcs <- MC_Argcs
  Tids <- MC_Tids
  CreateMayFail = TRUE
  SpinHoisted = FALSE
SPECIFICATION Spec
CHECK_DEADLOCK FALSE
PROPERTY Termination
