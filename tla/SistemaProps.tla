----------------------------- MODULE SistemaProps -----------------------------
(***************************************************************************)
(* What the programs must satisfy when they run together.                  *)
(***************************************************************************)
EXTENDS Sistema

-----------------------------------------------------------------------------
(* Each component keeps to what the other one assumes of it *)

\* A request memoria has not confirmed yet is still to be answered.
SinConfirmar == IF memKernel = "confirmar" THEN <<pidCargado>> ELSE <<>>

\* The system as the kernel sees it: a process counts as loaded once its confirmation is
\* sent, and what was sent to a program that ended is lost.
AMemoriaVista == IF memoria = "vivo" THEN SinConfirmar \o kernel_memoria ELSE <<>>
CargadosVistos == SubSeq(PidsEnMemoria, 1, Len(PidsEnMemoria) - Len(SinConfirmar))
ACpuVista == IF cpu = "vivo" THEN kernel_cpu ELSE <<>>

Visto == INSTANCE KernelProps WITH
           aMemoria <- AMemoriaVista, deMemoria <- memoria_kernel, cargados <- CargadosVistos,
           aCpu <- ACpuVista, deCpu <- <<>>, caidos <- Caidos,
           RespuestaMemoria <- StreamVacio(CONF_PR_NUEVO), RespuestasCpu <- {<<>>},
           Caidas <- {"memoria", "cpu"}

(***************************************************************************)
(* memoria and the CPU do nothing that the open peers of module Kernel     *)
(* cannot do: each request gets one frame or the death of memoria, and the *)
(* CPU takes a context and sends nothing.  So what is proved and checked   *)
(* of the kernel for all peers holds of the kernel in this system.         *)
(***************************************************************************)
ImplementaKernel == Visto!Init /\ [][Visto!Next]_(Visto!vars)

(***************************************************************************)
(* The kernel does nothing that the reduced kernel of module Ejecucion     *)
(* cannot do: it asks for one process at a time, dispatches the first only *)
(* after memoria confirmed it, and dispatches no other.  So what is        *)
(* checked of memoria and the CPU in that module holds here.               *)
(***************************************************************************)
ImplementaEjecucion == E!Init /\ [][E!Next]_(E!vars)

-----------------------------------------------------------------------------
(* Safety across programs *)

(***************************************************************************)
(* While the CPU executes a context, the kernel has that process, and no   *)
(* other, in EXEC and waits for it (planificadores.c:305-312), and memoria *)
(* knows its instructions.  Only a memoria that ended is not asked: the    *)
(* header of a closed socket may have confirmed the process.               *)
(***************************************************************************)
ExecEsLoQueEjecutaLaCpu ==
  (cpu = "vivo" /\ cpuPc # "esperar") =>
     /\ pcbEnExec = <<contexto.pid>> /\ atender = "recibir"
     /\ memoria = "vivo" => E!Conocido(contexto.pid)

(***************************************************************************)
(* The CPU goes back to reading without answering (atender_kernel.c:119-   *)
(* 124), so the one permission to dispatch (kernel/src/main.c:46) is never *)
(* given back: only the first process of the system is ever dispatched,    *)
(* also when the closed socket of a memoria that ended lets others be      *)
(* admitted.                                                               *)
(***************************************************************************)
UnSoloProceso == Len(atendidos \o pcbEnExec) <= 1

-----------------------------------------------------------------------------
(* Progress across programs *)

(***************************************************************************)
(* memoria sends a frame of five bytes and the kernel reads one of them    *)
(* (planificadores.c:206), so by the time a second process is loaded the   *)
(* next header is the first byte of an old length, and the admission ends  *)
(* the kernel (line 210).                                                  *)
(***************************************************************************)
SegundaAdmisionMata ==
  (lp = "confirmar" /\ Len(procesosEnMemoria) >= 2) ~> (kernel # "vivo")

(***************************************************************************)
(* A process created at the console gets to execute an instruction: from   *)
(* NEW through three threads of the kernel, the loading in memoria, the    *)
(* dispatch and the fetch, no step is missing, unless a program ends.      *)
(***************************************************************************)
ElPrimeroSeEjecuta ==
  (siguientePID > 0)
     ~> (contexto.programCounter > 0 \/ {kernel, memoria, cpu} # {"vivo"})

(***************************************************************************)
(* The fault of memoria's thread for the CPU (a program that runs past its *)
(* last line) takes the three programs: the CPU finds its socket closed in *)
(* the middle of the fetch and exits, and so does the kernel, which waits  *)
(* for the CPU.                                                            *)
(***************************************************************************)
LaCaidaSePropaga == (memoria = "segfault") ~> (cpu # "vivo" /\ kernel # "vivo")
=============================================================================
