SPECIFICATION Spec
CONSTANTS
  NULL = NULL
  Programas <- Archivos
  MaxPid = 2
  Largo = 1
INVARIANTS
  TypeOK
  CaidasSoloPorElPrograma
PROPERTIES
  TodoContextoTermina
  LaCpuCaeConElKernel
CHECK_DEADLOCK FALSE
