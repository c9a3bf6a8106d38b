\* ft2c built with the load of done hoisted out of the spin at line 367.
CONSTANTS
  MAX_POPCORN_NODES <- MC_MAX_POPCORN_NODES
  Cluster <- MC_Cluster
  Args <- MC_Args
  Argcs <- MC_Argcs
  Tids <- MC_Tids
  CreateMayFail = FALSE
  SpinHoisted = TRUE
SPECIFICATION Spec
PROPERTY Termination
