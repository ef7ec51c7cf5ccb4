-------------------------------- MODULE Sistema --------------------------------
(***************************************************************************)
(* The kernel, memoria and the CPU together: the threads of module Kernel  *)
(* with, as peers, the memoria and the CPU of module Ejecucion, over the   *)
(* same sockets.  A step is a step of one thread of one program; the       *)
(* actions are those of the two modules, and neither the open peers of     *)
(* Kernel nor the reduced kernel of Ejecucion takes any.                   *)
(***************************************************************************)
EXTENDS Integers, Sequences, Protocolo

CONSTANTS NULL, GRADO_MULTIPROGRAMACION, MaxPid, MaxFinalizaciones, Programas

VARIABLES
  \* the kernel
  kernel, consola, pidConsola, vistaNew, siguientePID, estado, procesosEnExit, semPcbEnExit,
  lp, pcbLP, semGradoMultiprogramacion, cp, pcbCP, atender, pcbAtender, atendidos,
  procesosEnNew, procesosEnReady, pcbEnExec,
  semProcesoEnNew, semProcesoEnReady, semPcbEnExec, dispatchPermitido,
  \* memoria and the CPU
  archivo, memoria, memKernel, pidCargado, memCpu, hallada, procesosEnMemoria,
  cpu, cpuPc, contexto, instruccion,
  \* sockets
  kernel_memoria, memoria_kernel, kernel_cpu, cpu_memoria, memoria_cpu

Caidos == (IF memoria # "vivo" THEN {"memoria"} ELSE {})
          \union (IF cpu # "vivo" THEN {"cpu"} ELSE {})

PidsEnMemoria == [i \in 1..Len(procesosEnMemoria) |-> procesosEnMemoria[i][1]]

\* The kernel over the sockets of the system.  cpu/src never writes to the socket of the
\* kernel.
K == INSTANCE KernelProps WITH
       aMemoria <- kernel_memoria, deMemoria <- memoria_kernel, cargados <- PidsEnMemoria,
       aCpu <- kernel_cpu, deCpu <- <<>>, caidos <- Caidos,
       RespuestaMemoria <- StreamVacio(CONF_PR_NUEVO), RespuestasCpu <- {<<>>},
       Caidas <- {"memoria", "cpu"}

\* The processes the long-term scheduler has asked memoria for: the one it is about to ask
\* for is in READY already.
Pedidos == IF lp = "enviar" THEN SubSeq(K!Admitidos, 1, Len(K!Admitidos) - 1) ELSE K!Admitidos

\* memoria and the CPU, with the kernel as they see it.
E == INSTANCE EjecucionProps WITH
       kernel <- IF kernel = "vivo" THEN "vivo" ELSE "fin",
       pedidos <- Pedidos, esperaConf <- lp = "confirmar", despachado <- atender = "recibir"

\* What each of the two modules assumes.
ASSUME SistemaAssumption ==
  /\ NULL \notin Nat \union Programas
  /\ GRADO_MULTIPROGRAMACION \in Nat /\ MaxFinalizaciones \in Nat
  /\ MaxPid \in Nat \ {0}
  /\ Programas \subseteq Seq(E!Palabras)
  /\ \A palabras \in E!Palabras :
        \/ palabras[1] # "SET" \/ E!Incompleta(palabras)
        \/ palabras[2] # "AX"
        \/ Len(palabras) > 2 /\ palabras[3] \in Int

hilosKernel == <<kernel, consola, pidConsola, vistaNew, siguientePID, estado, procesosEnExit,
                 semPcbEnExit, lp, pcbLP, semGradoMultiprogramacion, cp, pcbCP, atender,
                 pcbAtender, atendidos, procesosEnNew, procesosEnReady, pcbEnExec,
                 semProcesoEnNew, semProcesoEnReady, semPcbEnExec, dispatchPermitido>>
memoriaCpu == <<archivo, memoria, memKernel, pidCargado, memCpu, hallada, procesosEnMemoria,
                cpu, cpuPc, contexto, instruccion, cpu_memoria, memoria_cpu>>
vars == <<hilosKernel, memoriaCpu, kernel_memoria, memoria_kernel, kernel_cpu>>

Init == E!InitMemoriaCpu /\ K!Init

ConsolaComando         == UNCHANGED memoriaCpu /\ K!ConsolaComando
ConsolaSigue           == UNCHANGED memoriaCpu /\ K!ConsolaSigue
PlanificadorLargoPlazo == UNCHANGED memoriaCpu /\ K!PlanificadorLargoPlazo
PlanificadorCortoPlazo == UNCHANGED memoriaCpu /\ K!PlanificadorCortoPlazo
AtenderPcb             == UNCHANGED memoriaCpu /\ K!AtenderPcb

HiloKernel == UNCHANGED hilosKernel /\ E!HiloKernel
HiloCpu    == UNCHANGED hilosKernel /\ E!HiloCpu
Cpu        == UNCHANGED hilosKernel /\ E!Cpu
MemCae     == UNCHANGED hilosKernel /\ (E!MemCaeConElKernel \/ E!MemCaeConLaCpu)

Next ==
  \/ ConsolaComando \/ ConsolaSigue
  \/ PlanificadorLargoPlazo \/ PlanificadorCortoPlazo \/ AtenderPcb
  \/ HiloKernel \/ HiloCpu \/ MemCae
  \/ Cpu

\* Every thread of every program is scheduled; the user and the garbage headers are not.
Fairness ==
  /\ WF_vars(ConsolaSigue)
  /\ WF_vars(PlanificadorLargoPlazo)
  /\ WF_vars(PlanificadorCortoPlazo)
  /\ WF_vars(AtenderPcb)
  /\ WF_vars(HiloKernel)
  /\ WF_vars(HiloCpu)
  /\ WF_vars(Cpu)

Spec == Init /\ [][Next]_vars /\ Fairness
=============================================================================
