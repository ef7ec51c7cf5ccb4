--------------------------- MODULE PlanificadorFIFO ---------------------------
(***************************************************************************)
(* What the kernel promises about scheduling, with neither threads nor     *)
(* semaphores: processes are created with growing identifiers, at most     *)
(* Grado of them are ever admitted, an admission never goes back to an     *)
(* older process, one process executes at a time, and dispatch and         *)
(* termination follow the order of admission (first in, first out).        *)
(*                                                                         *)
(* Each component is the sequence of the processes that have reached that  *)
(* point of their life, in the order in which they did.                    *)
(***************************************************************************)
EXTENDS Naturals, Sequences

CONSTANTS Grado, MaxPid

VARIABLES creados,       \* how many processes have been created
          admitidos, despachados, terminados

vars == <<creados, admitidos, despachados, terminados>>

Init ==
  /\ creados = 0
  /\ admitidos = <<>> /\ despachados = <<>> /\ terminados = <<>>

Crear ==
  /\ creados < MaxPid
  /\ creados' = creados + 1
  /\ UNCHANGED <<admitidos, despachados, terminados>>

\* A process younger than every process admitted before.
Admitir(p) ==
  /\ Len(admitidos) < Grado
  /\ \A i \in 1..Len(admitidos) : admitidos[i] < p
  /\ admitidos' = Append(admitidos, p)
  /\ UNCHANGED <<creados, despachados, terminados>>

Despachar ==
  /\ despachados = terminados
  /\ Len(despachados) < Len(admitidos)
  /\ despachados' = Append(despachados, admitidos[Len(despachados) + 1])
  /\ UNCHANGED <<creados, admitidos, terminados>>

Terminar ==
  /\ Len(terminados) < Len(despachados)
  /\ terminados' = Append(terminados, despachados[Len(terminados) + 1])
  /\ UNCHANGED <<creados, admitidos, despachados>>

Next ==
  \/ Crear
  \/ \E p \in 0..(creados - 1) : Admitir(p)
  \/ Despachar
  \/ Terminar

Spec == Init /\ [][Next]_vars
=============================================================================
