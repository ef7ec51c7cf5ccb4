SPECIFICATION Spec
CONSTANTS
  NULL = NULL
  Programas <- Archivos
  MaxPid = 1
  Largo = 3
INVARIANTS
  ResultadoEsperado
PROPERTIES
  ImplementaInterprete
CHECK_DEADLOCK FALSE
