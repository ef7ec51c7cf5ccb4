SPECIFICATION Spec
CONSTANTS
  NULL = NULL
  GRADO_MULTIPROGRAMACION = 2
  MaxPid = 3
  MaxFinalizaciones = 0
  RespuestaMemoria <- RespuestaContrato
  RespuestasCpu <- CpuContrato
  Caidas <- Ninguno
INVARIANTS
  NingunProcesoPerdido
CHECK_DEADLOCK FALSE
