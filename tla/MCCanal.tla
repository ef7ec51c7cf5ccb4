-------------------------------- MODULE MCCanal --------------------------------
(***************************************************************************)
(* Instances of Canal for TLC.                                             *)
(***************************************************************************)
EXTENDS CanalProps

\* Strings of one and two letters.  Some fields hold the code of an operation, and a
\* package holds none, one or two values, one of them empty.
MensajesMC ==
  [proceso_nuevo |-> {[pid |-> Int32(0), path |-> <<47>>],
                      [pid |-> Int32(PROCESO_NUEVO), path |-> <<97>>]},
   contexto      |-> {[pid |-> Int32(0), programCounter |-> Int32(1), AX |-> <<7>>],
                      [pid |-> Int32(1), programCounter |-> Int32(HEADER_proceso_a_ejecutar),
                       AX |-> <<0>>]},
   fetch         |-> {[pid |-> Int32(0), programCounter |-> Int32(1)],
                      [pid |-> Int32(HEADER_CPU_FETCH), programCounter |-> Int32(0)]},
   instruccion   |-> {[instruccion |-> <<83>>], [instruccion |-> <<69, 88>>]},
   interfaz      |-> {[nombre |-> <<73>>], [nombre |-> <<73, 79>>]},
   mensaje       |-> {<<<<72>>>>, <<<<72, 111>>>>},
   paquete       |-> {<<>>, <<<<65>>>>, <<<<>>, <<66, 67>>>>}]
=============================================================================
