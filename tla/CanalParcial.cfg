SPECIFICATION Spec
CONSTANTS
  BASURA = BASURA
  Mensajes <- MensajesMC
  MaxEnviados = 2
INVARIANTS
  TerminadorCopiado
CHECK_DEADLOCK FALSE
