---------------------------- MODULE ColaDeMensajes ----------------------------
(***************************************************************************)
(* What a connection promises, with neither bytes nor buffers: the         *)
(* messages sent are received, each once, in order and unaltered, for as   *)
(* long as nothing has broken the connection.                              *)
(***************************************************************************)
EXTENDS Naturals, Sequences

VARIABLES enviados, recibidos, roto

vars == <<enviados, recibidos, roto>>

Init == enviados = <<>> /\ recibidos = <<>> /\ roto = FALSE

\* One message more, whatever it is.
Enviar ==
  /\ Len(enviados') = Len(enviados) + 1
  /\ SubSeq(enviados', 1, Len(enviados)) = enviados
  /\ UNCHANGED <<recibidos, roto>>

Entregar ==
  /\ ~roto
  /\ Len(recibidos) < Len(enviados)
  /\ recibidos' = Append(recibidos, enviados[Len(recibidos) + 1])
  /\ UNCHANGED <<enviados, roto>>

\* Afterwards nothing is promised.
Romperse == roto' = TRUE

Next == Enviar \/ Entregar \/ Romperse

\* A message sent is not held for ever.
Spec == Init /\ [][Next]_vars /\ WF_vars(Entregar)
=============================================================================
