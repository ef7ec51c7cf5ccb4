--------------------------------- MODULE Canal ---------------------------------
(***************************************************************************)
(* One direction of one connection, byte by byte: how a message is packed, *)
(* sent, read with recv and unpacked (utils/stream.c, utils/mensajes.c),   *)
(* for every message of the four programs, and for the paquete and mensaje *)
(* functions of utils, which have their own frame.                         *)
(*                                                                         *)
(* The network may cut what was sent anywhere.  recv takes what has        *)
(* arrived, up to what it was asked for; only the paquete functions pass   *)
(* MSG_WAITALL.  Both ends stay open, malloc does not fail, and what the   *)
(* caller does with a damaged message is left out.                         *)
(*                                                                         *)
(* The value of a field is the bytes memcpy copies, a string without its   *)
(* final zero.  BASURA is a byte of a buffer that nobody has written.      *)
(***************************************************************************)
EXTENDS Integers, SequencesExt, Protocolo

CONSTANTS
  BASURA,
  Mensajes,     \* for each channel, the fields its messages may have
  MaxEnviados   \* bound: messages sent

ASSUME CanalAssumption == BASURA \notin Byte /\ MaxEnviados \in Nat

VARIABLES
  canal,                \* which message this connection carries
  enviados, recibidos,  \* histories: what was sent, and what was unpacked
  red, llegado,         \* bytes on the way, and bytes the receiver may read
  receptor, op, buffer, campos,   \* the receiver: point, header, t_buffer, fields so far
  corto                 \* history: a recv has returned less than it was asked for

vars == <<canal, enviados, recibidos, red, llegado, receptor, op, buffer, campos, corto>>

-----------------------------------------------------------------------------
(* What each function packs, and what the function at the other end        *)
(* unpacks: the headers it accepts, what it does with another one, and the *)
(* fields with the size each call asks for.                                *)

MENSAJE == 1
PAQUETE == 2

iniciar_proceso_en_memoria ==
  [op |-> PROCESO_NUEVO, campos |-> <<<<"pid", "int">>, <<"path", "string">>>>]
atender_proceso_nuevo ==
  [acepta |-> {PROCESO_NUEVO}, otro |-> "header",
   campos |-> <<<<"pid", "int">>, <<"path", "string">>>>]

kernel_enviar_pcb_a_cpu ==
  [op |-> HEADER_proceso_a_ejecutar,
   campos |-> <<<<"pid", "int">>, <<"programCounter", "int">>, <<"AX", "byte">>>>]
Mut_RegistrosPrimero ==
  [acepta |-> {HEADER_proceso_a_ejecutar}, otro |-> "caido",
   campos |-> <<<<"AX", "byte">>, <<"pid", "int">>, <<"programCounter", "int">>>>]
atender_peticiones_kernel ==
  [acepta |-> {HEADER_proceso_a_ejecutar}, otro |-> "caido",
   campos |-> <<<<"pid", "int">>, <<"programCounter", "int">>, <<"AX", "byte">>>>]

pedir_instruccion ==
  [op |-> HEADER_CPU_FETCH, campos |-> <<<<"pid", "int">>, <<"programCounter", "int">>>>]
enviar_instruccion_a_Cpu ==
  [acepta |-> {HEADER_CPU_FETCH}, otro |-> "header",
   campos |-> <<<<"pid", "int">>, <<"programCounter", "int">>>>]

\* The header is zero, and the CPU does not look at it.
devolver_instruccion == [op |-> SET, campos |-> <<<<"instruccion", "string">>>>]
rastrear_instruccion ==
  [acepta |-> Byte, otro |-> "header", campos |-> <<<<"instruccion", "string">>>>]

\* Nor does the thread for the I/O interfaces, which memoria has but does not start.
enviarDatosAServidor == [op |-> 1, campos |-> <<<<"nombre", "string">>>>]
escuchar_conexiones_IO ==
  [acepta |-> Byte, otro |-> "header", campos |-> <<<<"nombre", "string">>>>]

Emisor ==
  [proceso_nuevo |-> iniciar_proceso_en_memoria, contexto |-> kernel_enviar_pcb_a_cpu,
   fetch |-> pedir_instruccion, instruccion |-> devolver_instruccion,
   interfaz |-> enviarDatosAServidor]
Receptor ==
  [proceso_nuevo |-> atender_proceso_nuevo, contexto |-> atender_peticiones_kernel,
   fetch |-> enviar_instruccion_a_Cpu, instruccion |-> rastrear_instruccion,
   interfaz |-> escuchar_conexiones_IO]

Streams == DOMAIN Emisor
Canales == Streams \union {"mensaje", "paquete"}

-----------------------------------------------------------------------------
(* Packing and sending *)

\* buffer_crear
BufferVacio == [size |-> 0, datos |-> <<>>]

buffer_empaquetar_string(string) == Int32(Len(string) + 1) \o string \o <<0>>

\* buffer_empaquetar and buffer_empaquetar_registros copy the bytes.
CampoEmpaquetado(campo, valores) ==
  IF campo[2] = "string" THEN buffer_empaquetar_string(valores[campo[1]]) ELSE valores[campo[1]]
Empaquetado(plan, valores) ==
  FlattenSeq([i \in 1..Len(plan) |-> CampoEmpaquetado(plan[i], valores)])

\* stream_enviar sends header, length and bufferSize bytes.
Mut_UnByteDeMas(stream, bufferSize) == stream \o <<0>>
stream_enviar(stream, bufferSize) == SubSeq(stream, 1, 1 + 4 + bufferSize)

agregar_a_paquete(valor) == Int32(Len(valor)) \o valor
serializar_paquete(codigo, buf) == Int32(codigo) \o Int32(Len(buf)) \o buf

enviar_mensaje(mensaje) == serializar_paquete(MENSAJE, mensaje \o <<0>>)
Agregados(valores) == FlattenSeq([i \in 1..Len(valores) |-> agregar_a_paquete(valores[i])])
enviar_paquete(valores) == serializar_paquete(PAQUETE, Agregados(valores))

(***************************************************************************)
(* The values a caller has: the bytes of each field, four for an int, one  *)
(* for a register, none of them zero in a string.  And the lengths the     *)
(* code adds up are ints: the longest is that of enviar_mensaje, a string, *)
(* its zero and eight bytes more.                                          *)
(***************************************************************************)
Ancho == [int |-> 4, byte |-> 1]
Corta == {s \in Seq(Byte) : Len(s) < MaxInt - 8}
SinCeros(s) == \A i \in 1..Len(s) : s[i] # 0

ASSUME MensajesAssumption ==
  /\ \A c \in Streams : \A valores \in Mensajes[c] :
       LET plan == Emisor[c].campos IN
       /\ valores \in [{plan[i][1] : i \in 1..Len(plan)} -> Corta]
       /\ \A i \in 1..Len(plan) :
            IF plan[i][2] = "string" THEN SinCeros(valores[plan[i][1]])
            ELSE Len(valores[plan[i][1]]) = Ancho[plan[i][2]]
       /\ Empaquetado(plan, valores) \in Corta
  /\ \A valores \in Mensajes["mensaje"] :
       valores = <<valores[1]>> /\ valores[1] \in Corta /\ SinCeros(valores[1])
  /\ \A valores \in Mensajes["paquete"] :
       valores \in Seq(Corta) /\ Agregados(valores) \in Corta

Envia(codigo, valores, trama) ==
  /\ Len(enviados) < MaxEnviados
  /\ enviados' = Append(enviados, [op |-> codigo, campos |-> valores])
  /\ red' = red \o trama
  /\ UNCHANGED <<canal, recibidos, llegado, receptor, op, buffer, campos, corto>>

\* Each message of the programs waits for the answer to the one before; an interface
\* sends its name once.
EnviarStream ==
  /\ canal \in Streams
  /\ Len(recibidos) >= Len(enviados)
  /\ canal = "interfaz" => enviados = <<>>
  /\ \E valores \in Mensajes[canal] :
       LET buf == Empaquetado(Emisor[canal].campos, valores) IN
       Envia(Emisor[canal].op, valores,
             stream_enviar(StreamCrear(Emisor[canal].op, buf), Len(buf)))

\* Nothing paces the calls of these two.
EnviarMensaje ==
  /\ canal = "mensaje"
  /\ \E valores \in Mensajes[canal] : Envia(MENSAJE, valores, enviar_mensaje(valores[1]))

EnviarPaquete ==
  /\ canal = "paquete"
  /\ \E valores \in Mensajes[canal] : Envia(PAQUETE, valores, enviar_paquete(valores))

\* TCP keeps the order of the bytes and nothing else of the call that sent them.
Llega ==
  /\ \E n \in 1..Len(red) : /\ llegado' = llegado \o SubSeq(red, 1, n)
                            /\ red' = SubSeq(red, n + 1, Len(red))
  /\ UNCHANGED <<canal, enviados, recibidos, receptor, op, buffer, campos, corto>>

-----------------------------------------------------------------------------
(* Receiving a stream *)

\* An int, from its bytes: one that has not arrived is zero, and the last has the sign.
Entero(bytes) ==
  LET b(i)  == IF i <= Len(bytes) THEN bytes[i] ELSE 0
      signo == IF b(4) < 128 THEN b(4) ELSE b(4) - 256
  IN b(1) + 256 * (b(2) + 256 * (b(3) + 256 * signo))

\* recv(n) with some byte there, and recv(n, MSG_WAITALL).
HayPara(n, esperaTodo) == Len(llegado) >= (IF esperaTodo THEN n ELSE 1)
Leidos(n) == SubSeq(llegado, 1, IF n < Len(llegado) THEN n ELSE Len(llegado))

Recv(desde, n, hasta) ==
  /\ receptor = desde /\ receptor' = hasta
  /\ llegado' = SubSeq(llegado, Len(Leidos(n)) + 1, Len(llegado))
  /\ UNCHANGED <<canal, enviados, recibidos, red, campos>>

stream_recibir_header ==
  /\ canal \in Streams /\ HayPara(1, FALSE)
  /\ Recv("header", 1, IF Head(llegado) \in Receptor[canal].acepta THEN "tamanio"
                       ELSE Receptor[canal].otro)
  /\ op' = Head(llegado)
  /\ UNCHANGED <<buffer, corto>>

\* size is zero before: the bytes that have not arrived stay zero.
stream_recibir_buffer_size ==
  /\ canal \in Streams /\ HayPara(4, FALSE)
  /\ LET size == Entero(Leidos(4)) IN
     /\ Recv("tamanio", 4, IF size > 0 THEN "cuerpo" ELSE "desempaquetar")
     /\ buffer' = [size |-> size, datos |-> <<>>]
  /\ corto' = (corto \/ Len(llegado) < 4)
  /\ UNCHANGED op

\* One recv, and the rest of malloc(size) is never written.
stream_recibir_buffer_stream ==
  /\ canal \in Streams /\ HayPara(buffer.size, FALSE)
  /\ Recv("cuerpo", buffer.size, "desempaquetar")
  /\ buffer' = [buffer EXCEPT !.datos = Leidos(buffer.size)]
  /\ corto' = (corto \/ Len(llegado) < buffer.size)
  /\ UNCHANGED op

-----------------------------------------------------------------------------
(* Unpacking *)

Tomados(n) == [i \in 1..n |-> IF i <= Len(buffer.datos) THEN buffer.datos[i] ELSE BASURA]
Resto(n) == [size |-> buffer.size - n, datos |-> SubSeq(buffer.datos, n + 1, Len(buffer.datos))]

\* What strlen and string_split see of the n bytes behind the first desde: up to a zero,
\* or garbage.
Cadena(desde, n) ==
  LET fin   == IF desde + n < Len(buffer.datos) THEN desde + n ELSE Len(buffer.datos)
      ceros == {i \in (desde + 1)..fin : buffer.datos[i] = 0}
  IN IF ceros = {} THEN Append(SubSeq(buffer.datos, desde + 1, fin), BASURA)
     ELSE SubSeq(buffer.datos, desde + 1, (CHOOSE i \in ceros : \A j \in ceros : i <= j) - 1)

\* buffer_desempaquetar exits on an empty buffer and, with less in it than it is asked
\* for, hands memmove a negative count.
Alcanza(n, size) == size > 0 /\ n <= size

Campo == Receptor[canal].campos[Len(campos) + 1]

\* An int nobody wrote may be any: none, some and too many bytes stand for all.
Largos == IF BASURA \in Range(Tomados(4)) THEN {0, 1, buffer.size} ELSE {Entero(Tomados(4))}

\* The caller has all the fields: it uses them, frees the buffer and reads the next header.
Entrega(valores) ==
  /\ recibidos' = Append(recibidos, [op |-> op, campos |-> valores])
  /\ receptor' = "header" /\ op' = 0 /\ campos' = <<>> /\ buffer' = BufferVacio

Desempaqueta(valor, resto) ==
  LET completos == Append(campos, <<Campo[1], valor>>)
      porNombre == [c \in {completos[i][1] : i \in 1..Len(completos)} |->
                      completos[CHOOSE i \in 1..Len(completos) : completos[i][1] = c][2]]
  IN /\ IF Len(completos) < Len(Receptor[canal].campos)
        THEN campos' = completos /\ buffer' = resto /\ UNCHANGED <<receptor, op, recibidos>>
        ELSE Entrega(porNombre)
     /\ UNCHANGED <<canal, enviados, red, llegado, corto>>

buffer_desempaquetar ==
  /\ canal \in Streams /\ receptor = "desempaquetar" /\ Campo[2] # "string"
  /\ LET n == Ancho[Campo[2]] IN
     /\ Alcanza(n, buffer.size)
     /\ Desempaqueta(Tomados(n), Resto(n))

buffer_desempaquetar_string ==
  /\ canal \in Streams /\ receptor = "desempaquetar" /\ Campo[2] = "string"
  /\ Alcanza(4, buffer.size)
  /\ \E largo \in Largos :
       /\ largo > 0 /\ Alcanza(largo, buffer.size - 4)
       /\ Desempaqueta(Cadena(4, largo), Resto(4 + largo))

\* exit, the fault of memmove or of memcpy with a negative count, or that of the caller
\* with a string of no bytes, which realloc has freed.
DesempaquetarRompe ==
  /\ canal \in Streams /\ receptor = "desempaquetar"
  /\ IF Campo[2] # "string" THEN ~Alcanza(Ancho[Campo[2]], buffer.size)
     ELSE Alcanza(4, buffer.size)
            => \E largo \in Largos : largo <= 0 \/ ~Alcanza(largo, buffer.size - 4)
  /\ receptor' = "caido"
  /\ UNCHANGED <<canal, enviados, recibidos, red, llegado, op, buffer, campos, corto>>

-----------------------------------------------------------------------------
(* Receiving a mensaje or a paquete *)

recibir_operacion ==
  /\ canal \notin Streams /\ HayPara(4, TRUE)
  /\ Recv("header", 4, "tamanio")
  /\ op' = Entero(Leidos(4))
  /\ UNCHANGED <<buffer, corto>>

recibir_buffer_size ==
  /\ canal \notin Streams /\ HayPara(4, TRUE)
  /\ Recv("tamanio", 4, "cuerpo")
  /\ buffer' = [size |-> Entero(Leidos(4)), datos |-> <<>>]
  /\ UNCHANGED <<op, corto>>

\* Reads whatever is there into a buffer of size bytes.
Mut_SinLimite ==
  /\ canal \notin Streams /\ HayPara(buffer.size, TRUE)
  /\ Recv("cuerpo", Len(llegado), "desempaquetar")
  /\ buffer' = [buffer EXCEPT !.datos = llegado]
  /\ UNCHANGED <<op, corto>>

recibir_buffer_stream ==
  /\ canal \notin Streams /\ HayPara(buffer.size, TRUE)
  /\ Recv("cuerpo", buffer.size, "desempaquetar")
  /\ buffer' = [buffer EXCEPT !.datos = Leidos(buffer.size)]
  /\ UNCHANGED <<op, corto>>

\* The caller would choose by the operation between this one and the next.
recibir_mensaje ==
  /\ canal \notin Streams /\ receptor = "desempaquetar" /\ op = MENSAJE
  /\ Entrega(<<Cadena(0, buffer.size)>>)
  /\ UNCHANGED <<canal, enviados, red, llegado, corto>>

\* while(desplazamiento < size): one value.
recibir_paquete_valor ==
  /\ canal \notin Streams /\ receptor = "desempaquetar" /\ op = PAQUETE
  /\ buffer.size > 0
  /\ LET tamanio == Entero(Tomados(4)) IN
     /\ campos' = Append(campos, SubSeq(Tomados(4 + tamanio), 5, 4 + tamanio))
     /\ buffer' = Resto(4 + tamanio)
  /\ UNCHANGED <<canal, enviados, recibidos, red, llegado, receptor, op, corto>>

recibir_paquete ==
  /\ canal \notin Streams /\ receptor = "desempaquetar" /\ op = PAQUETE
  /\ buffer.size = 0
  /\ Entrega(campos)
  /\ UNCHANGED <<canal, enviados, red, llegado, corto>>

-----------------------------------------------------------------------------
Init ==
  /\ canal \in Canales
  /\ enviados = <<>> /\ recibidos = <<>> /\ red = <<>> /\ llegado = <<>>
  /\ receptor = "header" /\ op = 0 /\ campos = <<>>
  /\ buffer = BufferVacio
  /\ corto = FALSE

Emite == EnviarStream \/ EnviarMensaje \/ EnviarPaquete
Recibe ==
  \/ stream_recibir_header \/ stream_recibir_buffer_size \/ stream_recibir_buffer_stream
  \/ buffer_desempaquetar \/ buffer_desempaquetar_string \/ DesempaquetarRompe
  \/ recibir_operacion \/ recibir_buffer_size \/ recibir_buffer_stream
  \/ recibir_mensaje \/ recibir_paquete_valor \/ recibir_paquete

Next == Emite \/ Llega \/ Recibe

\* The network delivers and the receiver runs; nobody has to send.
Spec == Init /\ [][Next]_vars /\ WF_vars(Llega) /\ WF_vars(Recibe)
=============================================================================
