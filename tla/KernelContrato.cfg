SPECIFICATION Spec
CONSTANTS
  NULL = NULL
  GRADO_MULTIPROGRAMACION = 2
  MaxPid = 3
  MaxFinalizaciones = 1
  RespuestaMemoria <- RespuestaContrato
  RespuestasCpu <- CpuContrato
  Caidas <- Ninguno
INVARIANTS
  TypeOK
  CuentasDeSemaforos
  ExecSinCarrera
  CargadoAntesDeEjecutar
  RespuestaDelQueEjecuta
PROPERTIES
  ImplementaFIFO
  AdmisionProgresa
  AdmitidoTermina
CHECK_DEADLOCK FALSE
