SPECIFICATION Spec
CONSTANTS
  NULL = NULL
  GRADO_MULTIPROGRAMACION = 2
  MaxPid = 2
  MaxFinalizaciones = 1
  RespuestaMemoria <- RespuestaReal
  RespuestasCpu <- CpuAbierta
  Caidas <- Todos
INVARIANTS
  CargadoAntesDeEjecutar
  UnaSolaConfirmacion
PROPERTIES
  ImplementaFIFO
  SoloLaCpuMudaCuelga
  AdmisionProgresa
CHECK_DEADLOCK FALSE
