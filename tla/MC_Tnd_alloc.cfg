\* tnd: an unchecked malloc in __init_thread_params crashes main.
CONSTANTS
  MAX_POPCORN_NODES <- MC_MAX_POPCORN_NODES
  Cluster <- MC_Cluster
  Args <- MC_Args
  NThreadArgs <- MC_NThreadArgs
  Tids <- MC_Tids
SPECIFICATION Spec
PROPERTY InitFailureReported
\* main hangs in pthread_barrier_wait once its threads are gone.
CHECK_DEADLOCK FALSE
