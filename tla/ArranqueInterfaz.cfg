SPECIFICATION Spec
CONSTANTS
  io1 = io1
  io2 = io2
  NADIE = NADIE
  Interfaces <- UnaInterfaz
  Ocupados <- Ninguno
PROPERTIES
  InterfazAtendida
CHECK_DEADLOCK FALSE
