SPECIFICATION Spec
CONSTANTS
  io1 = io1
  io2 = io2
  NADIE = NADIE
  Interfaces <- DosInterfaces
  Ocupados <- Puertos
INVARIANTS
  TypeOK
  RolesCorrectos
  ConsolaConTodos
PROPERTIES
  ArranqueCompleto
  SinEsperaCircular
CHECK_DEADLOCK FALSE
