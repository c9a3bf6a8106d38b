\* tnd: nodes 0 and 2 pass main's checks and overrun arch_types[2].
CONSTANTS
  MAX_POPCORN_NODES <- MC_MAX_POPCORN_NODES
  Cluster <- MC_ClusterHigh
  Args <- MC_Args
  NThreadArgs <- MC_NThreadArgs
  Tids <- MC_Tids
SPECIFICATION Spec
INVARIANT ArchIndexInBounds
\* main hangs in pthread_barrier_wait once its threads are gone.
CHECK_DEADLOCK FALSE
