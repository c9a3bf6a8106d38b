\* tnd: the checks that hold for every interleaving of main and two threads.
CONSTANTS
  MAX_POPCORN_NODES <- MC_MAX_POPCORN_NODES
  Cluster <- MC_Cluster
  Args <- MC_Args
  NThreadArgs <- MC_NThreadArgs
  Tids <- MC_Tids
SPECIFICATION Spec
INVARIANTS
  TypeOK
  DoneCarriesError
  ThreadWhereExpected
  AllDoneBounded
PROPERTIES
  ThreadProgress
  VerdictFinal
\* main really stops for good in pthread_barrier_wait once the threads are
\* gone (MainReports shows it); that final state is not an error of the model.
CHECK_DEADLOCK FALSE
