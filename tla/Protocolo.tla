------------------------------ MODULE Protocolo ------------------------------
(***************************************************************************)
(* The one-byte operation codes every module puts in front of a message    *)
(* (utils/src/utils/protocolo.h).  They are the ordinals of the C          *)
(* enumeration: the values matter, because a byte of one field can be read *)
(* as a header (SET = 0 is also every byte of a length that is zero).      *)
(***************************************************************************)
EXTENDS Naturals, Sequences

\* What one element of a socket stream can be.
Byte == 0..255

SET == 0
PROCESO_NUEVO == 17
CONF_PR_NUEVO == 18
HEADER_proceso_a_ejecutar == 19
HEADER_proceso_terminado == 20
HEADER_CPU_FETCH == 21

\* The largest int.
MaxInt == 2147483647

\* An int as the four bytes memcpy puts on the wire (little endian), for 0..MaxInt.
Int32(n) ==
  LET a == n \div 256
      b == a \div 256
  IN <<n % 256, a % 256, b % 256, b \div 256>>

(***************************************************************************)
(* stream_crear: a frame is the header, the length of the buffer, and the  *)
(* buffer.  stream_enviar_buffer_vacio sends a frame too, not a lone       *)
(* header: its length field is there and is zero.                          *)
(***************************************************************************)
StreamCrear(header, buffer) == <<header>> \o Int32(Len(buffer)) \o buffer
Mut_HeaderSolo(header) == <<header>>
StreamVacio(header) == StreamCrear(header, <<>>)
=============================================================================
