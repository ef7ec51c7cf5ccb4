SPECIFICATION Spec
CONSTANTS
  NULL = NULL
  GRADO_MULTIPROGRAMACION = 2
  MaxPid = 2
  MaxFinalizaciones = 1
  RespuestaMemoria <- RespuestaContrato
  RespuestasCpu <- CpuContrato
  Caidas <- Ninguno
INVARIANTS
  NoEncontradoNoExiste
CHECK_DEADLOCK FALSE
