----------------------------- MODULE KernelProps -----------------------------
(***************************************************************************)
(* What the kernel of module Kernel must satisfy.                          *)
(***************************************************************************)
EXTENDS Kernel

PidONulo == Pid \union {NULL}

TipoConsola ==
  /\ kernel \in {"vivo", "exit", "segfault", "sigpipe", "fin"}
  /\ consola \in {"leer", "enlazar", "postear", "buscarNew", "buscarReady", "buscarExec",
                  "buscarBloq", "finalizar"}
  /\ pidConsola \in 0..MaxPid \union {NULL}
  /\ vistaNew \in Seq(Pid)
  /\ siguientePID \in 0..MaxPid
  /\ estado \in [Pid -> Estados]
  /\ procesosEnExit \in Seq(Pid)
  /\ semPcbEnExit \in Nat

TipoHilos ==
  /\ lp \in {"esperarNew", "esperarGrado", "sacarDeNew", "agregarAReady", "enviar",
             "confirmar", "postear"}
  /\ pcbLP \in PidONulo
  /\ semGradoMultiprogramacion \in Nat
  /\ cp \in {"esperarDispatch", "esperarReady", "sacarDeReady", "agregarAExec", "postearExec"}
  /\ pcbCP \in PidONulo
  /\ atender \in {"esperarExec", "tomarPcb", "enviar", "recibir", "postearDispatch"}
  /\ pcbAtender \in PidONulo
  /\ atendidos \in Seq(Pid)

TipoListas ==
  /\ procesosEnNew \in Seq(Pid)
  /\ procesosEnReady \in Seq(Pid)
  /\ pcbEnExec \in Seq(Pid)

TipoSemaforos ==
  /\ semProcesoEnNew \in Nat
  /\ semProcesoEnReady \in Nat
  /\ semPcbEnExec \in Nat
  /\ dispatchPermitido \in Nat

TipoRed ==
  /\ aMemoria \in Seq(Pid)
  /\ deMemoria \in Seq(Byte)
  /\ cargados \in Seq(Pid)
  /\ aCpu \in Seq(Pid)
  /\ deCpu \in Seq(Byte)
  /\ caidos \in SUBSET Caidas

TypeOK == TipoConsola /\ TipoHilos /\ TipoListas /\ TipoSemaforos /\ TipoRed

-----------------------------------------------------------------------------
(* Semaphores and lists *)

\* 1 when the thread is at one of the points, 0 otherwise: a token it holds.
EnMano(hilo, puntos) == IF hilo \in puntos THEN 1 ELSE 0

(***************************************************************************)
(* Each counting semaphore agrees with its list: the tokens posted plus    *)
(* those a thread has taken and not yet used are the PCBs in the list.     *)
(* This is what lets a thread take the head of a list right after          *)
(* sem_wait without looking whether there is one                           *)
(* (planificadores.c:237-243, 302-305).                                    *)
(***************************************************************************)
CuentaReady ==
  Len(procesosEnReady) = semProcesoEnReady
                         + EnMano(cp, {"sacarDeReady"})
                         + EnMano(lp, {"enviar", "confirmar", "postear"})

CuentaExec ==
  Len(pcbEnExec) = semPcbEnExec
                   + EnMano(cp, {"postearExec"})
                   + EnMano(atender, {"tomarPcb", "enviar", "recibir"})

\* Exactly one permission to dispatch exists: in the semaphore, on its way with a
\* PCB through the short-term scheduler, with the PCB executing, or on its way back.
CuentaDispatch ==
  1 = dispatchPermitido
      + EnMano(cp, {"esperarReady", "sacarDeReady", "agregarAExec"})
      + Len(pcbEnExec)
      + EnMano(atender, {"postearDispatch"})

\* In NEW the unlocked list_add may lose PCBs, never make one up: there are at most
\* as many as tokens.
CuentaNew ==
  Len(procesosEnNew) <= semProcesoEnNew
                        + EnMano(consola, {"postear"})
                        + EnMano(lp, {"esperarGrado", "sacarDeNew"})

CuentasDeSemaforos == CuentaReady /\ CuentaExec /\ CuentaDispatch /\ CuentaNew

(***************************************************************************)
(* list_add(pcbEnExec) at planificadores.c:252 does not take mutex_Ex.     *)
(* The semaphores keep it apart from list_get and list_remove in           *)
(* atender_pcb (lines 305 and 317) all the same: the short-term scheduler  *)
(* is never about to write the list while the other thread uses it, nor    *)
(* while the list holds another PCB.                                       *)
(***************************************************************************)
ExecSinCarrera ==
  cp = "agregarAExec" => /\ atender = "esperarExec"
                         /\ semPcbEnExec = 0
                         /\ pcbEnExec = <<>>

-----------------------------------------------------------------------------
(* Kernel and CPU *)

(***************************************************************************)
(* kernel_recibir_pcb_actualizado_de_cpu drops the PID and the program     *)
(* counter the CPU returns (planificadores.c:279-283, the comparison is    *)
(* commented out) and atender_pcb removes whatever is first in EXEC (line  *)
(* 317).  With a CPU that answers each context once the answer is still    *)
(* for that process: a context or its answer is in the sockets only while  *)
(* atender_pcb waits for it, never both, and none is left over that the    *)
(* next process would take for its own.                                    *)
(***************************************************************************)
RespuestaDelQueEjecuta ==
  LET enVuelo == aCpu \o deCpu IN
  /\ enVuelo # <<>> => atender = "recibir" /\ Len(enVuelo) = 1
  /\ aCpu # <<>> => aCpu = <<pcbAtender>>
  /\ atender \in {"enviar", "recibir"} => pcbEnExec = <<pcbAtender>>

-----------------------------------------------------------------------------
(* Kernel and memoria *)

(***************************************************************************)
(* A PCB reaches the executing list only after memoria has loaded its      *)
(* instructions: planificador_largo_plazo puts it in READY before asking   *)
(* memoria (line 198) and only the semaphore posted after the confirmation *)
(* (line 219) holds the short-term scheduler back.  Without it the CPU     *)
(* would fetch from a process memoria does not know.  Only a memoria that  *)
(* died, whose closed socket leaves the header uninitialized, escapes it.  *)
(***************************************************************************)
CargadoAntesDeEjecutar ==
  "memoria" \notin caidos => Range(pcbEnExec) \subseteq Range(cargados)

\* The order of the loads in memoria is the order of admission in the kernel: each
\* process the schedulers still hold or have attended was loaded in that order.
Admitidos == atendidos \o pcbEnExec
             \o (IF cp = "agregarAExec" THEN <<pcbCP>> ELSE <<>>) \o procesosEnReady

-----------------------------------------------------------------------------
(* Refinement *)

FIFO == INSTANCE PlanificadorFIFO WITH
          Grado       <- GRADO_MULTIPROGRAMACION,
          creados     <- siguientePID,
          admitidos   <- Admitidos,
          despachados <- atendidos \o pcbEnExec
                         \o (IF cp = "agregarAExec" THEN <<pcbCP>> ELSE <<>>),
          terminados  <- atendidos

(***************************************************************************)
(* The four threads, with their unlocked accesses, implement the abstract  *)
(* FIFO scheduler: no overtaking, one process executing, at most           *)
(* GRADO_MULTIPROGRAMACION admissions.                                     *)
(***************************************************************************)
ImplementaFIFO == FIFO!Spec

-----------------------------------------------------------------------------
(* Errors and progress *)

\* Processes past their confirmation: those in READY and beyond, but the one that
\* planificador_largo_plazo has put in READY before asking.
Confirmados ==
  Len(atendidos) + Len(pcbEnExec) + EnMano(cp, {"agregarAExec"}) + Len(procesosEnReady)
    - EnMano(lp, {"enviar", "confirmar"})

(***************************************************************************)
(* planificador_largo_plazo takes one byte of memoria's five-byte answer   *)
(* (planificadores.c:206-211).  The other four stay in the socket and come *)
(* before any later answer, so a memoria that has loaded one process never *)
(* has a second one confirmed: neither if it goes on answering nor if it   *)
(* dies, when an empty socket would have let a header never written pass.  *)
(***************************************************************************)
UnaSolaConfirmacion == cargados # <<>> => Confirmados <= 1

\* The long-term scheduler waits for a slot and none is left.  Nothing ever posts
\* semGradoMultiprogramacion: the thread that would is not started (lines 182-184).
GradoAgotado == lp = "esperarGrado" /\ semGradoMultiprogramacion = 0

(***************************************************************************)
(* A process the console has created is admitted, unless the kernel ends   *)
(* or its slots are used up.  In particular the race on procesosEnNew may  *)
(* kill the kernel but cannot make the long-term scheduler wait for a      *)
(* process that is not there while slots are left.                         *)
(***************************************************************************)
AdmisionProgresa ==
  \A p \in Pid : (p < siguientePID)
                 ~> (p \in Range(Admitidos) \/ GradoAgotado \/ kernel # "vivo")

(***************************************************************************)
(* A process in READY runs to its end or the kernel ends: no token is lost *)
(* between the three threads, and a scheduler blocked for want of slots    *)
(* does not hold back the processes already admitted.                      *)
(***************************************************************************)
AdmitidoTermina ==
  \A p \in Pid : (p \in Range(Admitidos)) ~> (p \in Range(atendidos) \/ kernel # "vivo")

\* The CPU took the context, lives, and has answered nothing: what the repository's CPU
\* does (cpu/src/atender_kernel.c:119-124).
CpuMuda == "cpu" \notin caidos /\ aCpu = <<>> /\ deCpu = <<>>

(***************************************************************************)
(* The long-term scheduler does not wait for ever for memoria's            *)
(* confirmation (line 206), whether memoria answers or dies and whatever   *)
(* the CPU does.  atender_pcb may wait for ever for the CPU (line 312),    *)
(* but of one cause only: a CPU that lives and does not answer.  An answer *)
(* left in the socket, a context that nobody takes or a CPU that died does *)
(* not leave it waiting.                                                   *)
(***************************************************************************)
SoloLaCpuMudaCuelga ==
  /\ (lp = "confirmar") ~> (lp # "confirmar" \/ kernel # "vivo")
  /\ <>[](atender = "recibir" /\ kernel = "vivo") => <>[]CpuMuda

-----------------------------------------------------------------------------
(* What the comments and the messages of the code say, and does not hold *)

(***************************************************************************)
(* "No se encontro al proceso <%d> en el sistema" (planificadores.c:114)   *)
(* is said only of processes that were never created or have ended.        *)
(***************************************************************************)
NoEncontradoNoExiste ==
  consola = "buscarBloq" => pidConsola >= siguientePID \/ pidConsola \in Range(atendidos)

(***************************************************************************)
(* "Se finaliza PCB <ID %d> por motivo: FINALIZACION_POR_COMANDO_DE_       *)
(* CONSOLA" (planificadores.c:151): what was finalized is not sent to the  *)
(* CPU afterwards.                                                         *)
(***************************************************************************)
FinalizadoNoSeEjecuta ==
  [][aCpu' # Append(aCpu, pcbAtender) \/ estado[pcbAtender] # "EXIT"]_vars

(***************************************************************************)
(* "Se crea el proceso <%d> en NEW" (planificadores.c:86): as long as the  *)
(* kernel lives, a process it has created is in a list, in the hands of a  *)
(* thread, or attended.                                                    *)
(***************************************************************************)
NingunProcesoPerdido ==
  kernel = "vivo" =>
    \A p \in 0..(siguientePID - 1) :
       \/ consola = "enlazar" /\ p = pidConsola
       \/ p \in Range(procesosEnNew) \/ p = pcbLP \/ p \in Range(Admitidos)
=============================================================================
