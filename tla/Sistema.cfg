SPECIFICATION Spec
CONSTANTS
  NULL = NULL
  GRADO_MULTIPROGRAMACION = 2
  MaxPid = 2
  MaxFinalizaciones = 0
  Programas <- ProgramasMC
INVARIANTS
  UnSoloProceso
  ExecEsLoQueEjecutaLaCpu
PROPERTIES
  ImplementaKernel
  ImplementaEjecucion
  SegundaAdmisionMata
  ElPrimeroSeEjecuta
  LaCaidaSePropaga
CHECK_DEADLOCK FALSE
