------------------------------- MODULE CanalProps -------------------------------
(***************************************************************************)
(* What a connection of module Canal must satisfy.                         *)
(***************************************************************************)
EXTENDS Canal

Dato == Byte \union {BASURA}

\* A buffer never holds more than was allocated for it.
TypeOK ==
  /\ canal \in Canales
  /\ red \in Seq(Byte) /\ llegado \in Seq(Byte)
  /\ receptor \in {"header", "tamanio", "cuerpo", "desempaquetar", "caido"}
  /\ op \in Int
  /\ buffer.size \in Int /\ buffer.datos \in Seq(Dato)
  /\ buffer.datos = <<>> \/ Len(buffer.datos) <= buffer.size
  /\ corto \in BOOLEAN

-----------------------------------------------------------------------------
\* The paquete functions wait for all they ask for and have no excuse.
Roto == corto /\ canal \in Streams

Cola == INSTANCE ColaDeMensajes WITH roto <- Roto

(***************************************************************************)
(* Each function that packs agrees with the one that unpacks in another    *)
(* program (order of the fields, sizes, the zero of a string), and no      *)
(* cutting by the network matters to a reader that waits: every message    *)
(* sent arrives, once, in order and unaltered.  The one thing that breaks  *)
(* a stream is a recv that returned less than it asked for (stream.c:35,   *)
(* 40), and it cannot break a paquete (mensajes.c:91, 106, 108).           *)
(***************************************************************************)
ImplementaCola == Cola!Spec

(***************************************************************************)
(* Between two messages the reader is between two frames: what was sent    *)
(* has been read to the last byte, so that no byte of one message is taken *)
(* for the header of the next.                                             *)
(***************************************************************************)
FronteraDeTrama ==
  (receptor = "header" /\ Len(recibidos) = Len(enviados) /\ ~Roto)
     => red = <<>> /\ llegado = <<>>

-----------------------------------------------------------------------------
(* What a comment of the code says, and does not hold *)

(***************************************************************************)
(* "Se tiene en cuenta el '\0', del otro lado va a copiarse también"       *)
(* (utils/mensajes.c:169): a string is unpacked with its final zero.       *)
(***************************************************************************)
TerminadorCopiado ==
  \A i \in 1..Len(recibidos) :
     \A c \in {"path", "instruccion", "nombre"} \intersect DOMAIN recibidos[i].campos :
        BASURA \notin Range(recibidos[i].campos[c])
=============================================================================
