SPECIFICATION Spec
CONSTANTS
  BASURA = BASURA
  Mensajes <- MensajesMC
  MaxEnviados = 2
INVARIANTS
  TypeOK
  FronteraDeTrama
PROPERTIES
  ImplementaCola
CHECK_DEADLOCK FALSE
