-------------------------------- MODULE Kernel --------------------------------
(***************************************************************************)
(* The kernel process (kernel/src): the interactive console (main thread), *)
(* the long-term scheduler (planificador_largo_plazo), the short-term      *)
(* scheduler (planificador_corto_plazo) and the thread that hands the      *)
(* executing PCB to the CPU (atender_pcb), with the lists, semaphores and  *)
(* sockets they share.                                                     *)
(*                                                                         *)
(* Every sem_wait, sem_post, critical section, send and recv is an action  *)
(* of its thread.  What is locked in the code is one action; what is not   *)
(* (list_add on procesosEnNew, the search of the console) is split where   *)
(* another thread can get in between.                                      *)
(*                                                                         *)
(* The two peers are open: RespuestaMemoria is what memoria writes for a   *)
(* PROCESO_NUEVO, RespuestasCpu the answers the CPU may give to a context, *)
(* Caidas the peers that may die.  The modules that instantiate the kernel *)
(* choose either the contract the kernel's own recv calls expect or what   *)
(* the programs under memoria/ and cpu/ do.                                *)
(***************************************************************************)
EXTENDS Integers, Functions, Protocolo

CONSTANTS
  NULL,                       \* no PCB
  GRADO_MULTIPROGRAMACION,    \* from the configuration file
  MaxPid,                     \* bound: processes the user creates
  MaxFinalizaciones,          \* bound: FINALIZAR_PROCESO commands that find a PCB
  RespuestaMemoria,           \* bytes memoria writes after loading a process
  RespuestasCpu,              \* headers of the frames the CPU may answer with
  Caidas                      \* peers that may die: subset of {"memoria", "cpu"}

ASSUME KernelAssumption ==
  /\ GRADO_MULTIPROGRAMACION \in Nat
  /\ MaxPid \in Nat
  /\ MaxFinalizaciones \in Nat
  /\ NULL \notin Nat
  /\ RespuestaMemoria \in Seq(Byte)
  /\ RespuestasCpu \subseteq Seq(Byte)
  /\ Caidas \subseteq {"memoria", "cpu"}

VARIABLES
  kernel,           \* "vivo", or how the process ended
  \* written by the console only
  consola, pidConsola, vistaNew, siguientePID, estado, procesosEnExit, semPcbEnExit,
  \* long-term scheduler
  lp, pcbLP, semGradoMultiprogramacion,
  \* short-term scheduler
  cp, pcbCP,
  \* atender_pcb; atendidos is a history: the PCBs it has taken out of pcbEnExec
  atender, pcbAtender, atendidos,
  \* shared lists and semaphores
  procesosEnNew, procesosEnReady, pcbEnExec,
  semProcesoEnNew, semProcesoEnReady, semPcbEnExec, dispatchPermitido,
  \* sockets and peers: cargados is memoria's procesosEnMemoria
  aMemoria, deMemoria, cargados, aCpu, deCpu, caidos

consolaVars == <<consola, pidConsola, vistaNew, siguientePID, estado,
                 procesosEnExit, semPcbEnExit>>
lpVars == <<lp, pcbLP, semGradoMultiprogramacion>>
cpVars == <<cp, pcbCP>>
atenderVars == <<atender, pcbAtender, atendidos>>
listas == <<procesosEnNew, procesosEnReady, pcbEnExec>>
semaforos == <<semProcesoEnNew, semProcesoEnReady, semPcbEnExec, dispatchPermitido>>
redMemoria == <<aMemoria, deMemoria, cargados>>
redCpu == <<aCpu, deCpu>>
red == <<redMemoria, redCpu, caidos>>
vars == <<kernel, consolaVars, lpVars, cpVars, atenderVars, listas, semaforos, red>>

Pid == 0..(MaxPid - 1)

(***************************************************************************)
(* The small decisions of the code, one operator each.  An operator named  *)
(* Mut_... is not part of the model: it is a plausible bug in the decision *)
(* that follows it, used to show that a property would notice.             *)
(***************************************************************************)

\* obtener_siguiente_pid returns the counter before incrementing it.
Mut_PreIncremento == siguientePID + 1
NuevoPID == siguientePID

\* sem_init(&dispatchPermitido, 0, 1): one process executes at a time.
Mut_DosDispatch == 2
DispatchInicial == 1

\* list_add: at the end.
Mut_EncolarPrimero(lista, pcb) == <<pcb>> \o lista
Encolar(lista, pcb) == Append(lista, pcb)

\* list_remove(pcbEnExec, 0) when the CPU answers.
Mut_SinSacarDeExec == pcbEnExec
ExecTrasRespuesta == Tail(pcbEnExec)

\* Which header the long-term scheduler takes as a confirmation.
Mut_Confirma(header) == TRUE
Confirma(header) == header = CONF_PR_NUEVO

\* est_pcb: the values pcb->estado can take.
Estados == {"NEW", "READY", "EXEC", "BLOCKED", "EXIT"}

Init ==
  /\ kernel = "vivo"
  /\ consola = "leer" /\ pidConsola = NULL /\ vistaNew = <<>>
  /\ siguientePID = 0
  /\ estado = [p \in Pid |-> "NEW"]
  /\ procesosEnExit = <<>> /\ semPcbEnExit = 0
  /\ lp = "esperarNew" /\ pcbLP = NULL
  /\ semGradoMultiprogramacion = GRADO_MULTIPROGRAMACION
  /\ cp = "esperarDispatch" /\ pcbCP = NULL
  /\ atender = "esperarExec" /\ pcbAtender = NULL /\ atendidos = <<>>
  /\ procesosEnNew = <<>> /\ procesosEnReady = <<>> /\ pcbEnExec = <<>>
  /\ semProcesoEnNew = 0 /\ semProcesoEnReady = 0 /\ semPcbEnExec = 0
  /\ dispatchPermitido = DispatchInicial
  /\ aMemoria = <<>> /\ deMemoria = <<>> /\ cargados = <<>>
  /\ aCpu = <<>> /\ deCpu = <<>>
  /\ caidos = {}

(***************************************************************************)
(* A step of one thread moves its program point and leaves alone whatever  *)
(* no code of that thread writes.                                          *)
(***************************************************************************)
PasoConsola(desde, hasta) ==
  /\ kernel = "vivo" /\ consola = desde /\ consola' = hasta
  /\ UNCHANGED <<kernel, lpVars, cpVars, atenderVars, procesosEnReady, pcbEnExec,
                 semProcesoEnReady, semPcbEnExec, dispatchPermitido, red>>

PasoLP(desde, hasta) ==
  /\ kernel = "vivo" /\ lp = desde /\ lp' = hasta
  /\ UNCHANGED <<kernel, consolaVars, cpVars, atenderVars, pcbEnExec, semPcbEnExec,
                 dispatchPermitido, cargados, redCpu, caidos>>

PasoCP(desde, hasta) ==
  /\ kernel = "vivo" /\ cp = desde /\ cp' = hasta
  /\ UNCHANGED <<kernel, consolaVars, lpVars, atenderVars, procesosEnNew, semProcesoEnNew, red>>

PasoAtender(desde, hasta) ==
  /\ kernel = "vivo" /\ atender = desde /\ atender' = hasta
  /\ UNCHANGED <<kernel, consolaVars, lpVars, cpVars, procesosEnNew, procesosEnReady,
                 semProcesoEnNew, semProcesoEnReady, redMemoria, caidos>>

PasoPar == UNCHANGED <<kernel, consolaVars, lpVars, cpVars, atenderVars, listas, semaforos>>

\* The process ends: exit(), a signal, or main returning.
Termina(causa) ==
  /\ kernel = "vivo" /\ kernel' = causa
  /\ UNCHANGED <<consolaVars, lpVars, cpVars, atenderVars, listas, semaforos, red>>

-----------------------------------------------------------------------------
(* Console: iniciar_consola_interactiva reads a line and runs the command. *)
(* The other commands are accepted and do nothing.                         *)

(***************************************************************************)
(* INICIAR_PROCESO path: iniciar_proceso_en_kernel takes a PID, builds the *)
(* PCB in NEW and enters list_add without mutex_New.  vistaNew is the list *)
(* as list_add walks it to find the last element.                          *)
(***************************************************************************)
IniciarProceso ==
  /\ PasoConsola("leer", "enlazar")
  /\ siguientePID < MaxPid
  /\ pidConsola' = NuevoPID
  /\ siguientePID' = siguientePID + 1
  /\ estado' = [estado EXCEPT ![NuevoPID] = "NEW"]
  /\ vistaNew' = procesosEnNew
  /\ UNCHANGED <<procesosEnExit, semPcbEnExit, procesosEnNew, semProcesoEnNew>>

(***************************************************************************)
(* What procesosEnNew can hold after list_add links the new element.  If   *)
(* nobody took an element out meanwhile, it is appended.  If the long-term *)
(* scheduler did, the access is a data race: the element may be linked to  *)
(* a node that is no longer in the list, or the element count may lose an  *)
(* update, and it is not reachable any more.                               *)
(***************************************************************************)
ResultadosDeEnlazar ==
  IF vistaNew = procesosEnNew
  THEN {Append(procesosEnNew, pidConsola)}
  ELSE {procesosEnNew} \union
       (IF procesosEnNew = <<>> THEN {} ELSE {Append(procesosEnNew, pidConsola)})

EnlazarEnNew ==
  /\ PasoConsola("enlazar", "postear")
  /\ procesosEnNew' \in ResultadosDeEnlazar
  /\ vistaNew' = <<>>
  /\ UNCHANGED <<pidConsola, siguientePID, estado, procesosEnExit, semPcbEnExit,
                 semProcesoEnNew>>

\* The same race can also crash: list_add writes to a node already freed.
EnlazarRompe ==
  /\ consola = "enlazar"
  /\ vistaNew # procesosEnNew
  /\ Termina("segfault")

Mut_PostearNewOlvida ==
  /\ PasoConsola("postear", "leer")
  /\ pidConsola' = NULL
  /\ UNCHANGED <<vistaNew, siguientePID, estado, procesosEnExit, semPcbEnExit, procesosEnNew,
                 semProcesoEnNew>>

PostearNew ==
  /\ PasoConsola("postear", "leer")
  /\ semProcesoEnNew' = semProcesoEnNew + 1
  /\ pidConsola' = NULL
  /\ UNCHANGED <<vistaNew, siguientePID, estado, procesosEnExit, semPcbEnExit, procesosEnNew>>

\* FINALIZAR_PROCESO pid, for any number the user types: MaxPid stands for the
\* ones no process has.
FinalizarProceso ==
  /\ PasoConsola("leer", "buscarNew")
  /\ Len(procesosEnExit) < MaxFinalizaciones
  /\ pidConsola' \in 0..MaxPid
  /\ UNCHANGED <<vistaNew, siguientePID, estado, procesosEnExit, semPcbEnExit,
                 procesosEnNew, semProcesoEnNew>>

(***************************************************************************)
(* ubicar_pcb_por_id_en_sistema: one list_find after the other, without    *)
(* any mutex, so the other threads move PCBs between the searches.         *)
(***************************************************************************)
Buscar(aqui, lista, despues) ==
  /\ PasoConsola(aqui, IF pidConsola \in Range(lista) THEN "finalizar" ELSE despues)
  /\ UNCHANGED <<pidConsola, vistaNew, siguientePID, estado, procesosEnExit, semPcbEnExit,
                 procesosEnNew, semProcesoEnNew>>

UbicarPcb ==
  \/ Buscar("buscarNew", procesosEnNew, "buscarReady")
  \/ Buscar("buscarReady", procesosEnReady, "buscarExec")
  \/ Buscar("buscarExec", pcbEnExec, "buscarBloq")

\* list_find stands on a node that list_remove of another thread frees: that thread
\* is at its list_remove, inside a mutex that the search does not take.
BuscarRompe ==
  /\ \/ consola = "buscarNew" /\ lp = "sacarDeNew" /\ procesosEnNew # <<>>
     \/ consola = "buscarReady" /\ cp = "sacarDeReady"
     \/ consola = "buscarExec" /\ atender = "recibir" /\ deCpu # <<>>
  /\ Termina("segfault")

\* Nothing is ever added to procesosEnBloq, so the last search returns NULL and
\* finalizar_proceso writes pcb->estado through it.
FinalizarNulo ==
  /\ consola = "buscarBloq"
  /\ Termina("segfault")

\* finalizar_proceso: marks the PCB and queues it in EXIT.  The PCB also stays
\* in the list it was found in.
FinalizarPcb ==
  /\ PasoConsola("finalizar", "leer")
  /\ estado' = [estado EXCEPT ![pidConsola] = "EXIT"]
  /\ procesosEnExit' = Append(procesosEnExit, pidConsola)
  /\ semPcbEnExit' = semPcbEnExit + 1
  /\ pidConsola' = NULL
  /\ UNCHANGED <<vistaNew, siguientePID, procesosEnNew, semProcesoEnNew>>

\* INICIAR_PROCESO or FINALIZAR_PROCESO without an argument, strdup(NULL) and
\* atoi(NULL); or end of file, for which readline returns NULL.
ComandoSinArgumento ==
  /\ consola = "leer"
  /\ Termina("segfault")

\* An empty line ends the loop; main returns and takes every thread with it.
CerrarConsola ==
  /\ consola = "leer"
  /\ Termina("fin")

ConsolaComando == IniciarProceso \/ FinalizarProceso \/ ComandoSinArgumento \/ CerrarConsola
ConsolaSigue == EnlazarEnNew \/ EnlazarRompe \/ PostearNew \/ UbicarPcb
                \/ BuscarRompe \/ FinalizarNulo \/ FinalizarPcb

-----------------------------------------------------------------------------
(* planificador_largo_plazo *)

LPEsperarNew ==
  /\ PasoLP("esperarNew", "esperarGrado")
  /\ semProcesoEnNew > 0
  /\ semProcesoEnNew' = semProcesoEnNew - 1
  /\ UNCHANGED <<pcbLP, semGradoMultiprogramacion, procesosEnNew, procesosEnReady,
                 semProcesoEnReady, aMemoria, deMemoria>>

LPEsperarGrado ==
  /\ PasoLP("esperarGrado", "sacarDeNew")
  /\ semGradoMultiprogramacion > 0
  /\ semGradoMultiprogramacion' = semGradoMultiprogramacion - 1
  /\ UNCHANGED <<pcbLP, procesosEnNew, procesosEnReady, semProcesoEnNew, semProcesoEnReady,
                 aMemoria, deMemoria>>

LPSacarDeNew ==
  /\ PasoLP("sacarDeNew", "agregarAReady")
  /\ procesosEnNew # <<>>
  /\ pcbLP' = Head(procesosEnNew)
  /\ procesosEnNew' = Tail(procesosEnNew)
  /\ UNCHANGED <<semGradoMultiprogramacion, procesosEnReady, semProcesoEnNew,
                 semProcesoEnReady, aMemoria, deMemoria>>

\* The element the semaphore counted is not reachable: list_remove follows a NULL
\* head or returns NULL, and pathInstrucciones is read through it.
LPSacarDeNewVacia ==
  /\ lp = "sacarDeNew"
  /\ procesosEnNew = <<>>
  /\ Termina("segfault")

LPAgregarAReady ==
  /\ PasoLP("agregarAReady", "enviar")
  /\ procesosEnReady' = Encolar(procesosEnReady, pcbLP)
  /\ UNCHANGED <<pcbLP, semGradoMultiprogramacion, procesosEnNew, semProcesoEnNew,
                 semProcesoEnReady, aMemoria, deMemoria>>

\* The process is announced as ready without waiting for memoria.
Mut_EnviarSinEsperar ==
  /\ PasoLP("enviar", "postear")
  /\ aMemoria' = Append(aMemoria, pcbLP)
  /\ UNCHANGED <<pcbLP, semGradoMultiprogramacion, procesosEnNew, procesosEnReady,
                 semProcesoEnNew, semProcesoEnReady, deMemoria>>

\* iniciar_proceso_en_memoria.  A send to a peer that died is lost or, once the
\* reset has arrived, raises SIGPIPE.
LPEnviarAMemoria ==
  /\ PasoLP("enviar", "confirmar")
  /\ aMemoria' = IF "memoria" \in caidos THEN aMemoria ELSE Append(aMemoria, pcbLP)
  /\ UNCHANGED <<pcbLP, semGradoMultiprogramacion, procesosEnNew, procesosEnReady,
                 semProcesoEnNew, semProcesoEnReady, deMemoria>>

LPEnviarSigpipe ==
  /\ lp = "enviar"
  /\ "memoria" \in caidos
  /\ Termina("sigpipe")

(***************************************************************************)
(* stream_recibir_header reads ONE byte of the answer; whatever follows it *)
(* stays in the socket for the next process.                               *)
(***************************************************************************)
LPConfirmar ==
  /\ PasoLP("confirmar", "postear")
  /\ deMemoria # <<>>
  /\ Confirma(Head(deMemoria))
  /\ deMemoria' = Tail(deMemoria)
  /\ UNCHANGED <<pcbLP, semGradoMultiprogramacion, procesosEnNew, procesosEnReady,
                 semProcesoEnNew, semProcesoEnReady, aMemoria>>

LPRechazar ==
  /\ lp = "confirmar"
  /\ deMemoria # <<>>
  /\ ~Confirma(Head(deMemoria))
  /\ Termina("exit")

(***************************************************************************)
(* recv returns 0 when memoria has closed the socket, and the header is a  *)
(* local that was never written: any value, CONF_PR_NUEVO included.        *)
(***************************************************************************)
LPConfirmarBasura ==
  /\ PasoLP("confirmar", "postear")
  /\ deMemoria = <<>>
  /\ "memoria" \in caidos
  /\ UNCHANGED <<pcbLP, semGradoMultiprogramacion, procesosEnNew, procesosEnReady,
                 semProcesoEnNew, semProcesoEnReady, aMemoria, deMemoria>>

LPRechazarBasura ==
  /\ lp = "confirmar"
  /\ deMemoria = <<>>
  /\ "memoria" \in caidos
  /\ Termina("exit")

LPPostearReady ==
  /\ PasoLP("postear", "esperarNew")
  /\ semProcesoEnReady' = semProcesoEnReady + 1
  /\ pcbLP' = NULL
  /\ UNCHANGED <<semGradoMultiprogramacion, procesosEnNew, procesosEnReady, semProcesoEnNew,
                 aMemoria, deMemoria>>

PlanificadorLargoPlazo ==
  \/ LPEsperarNew \/ LPEsperarGrado \/ LPSacarDeNew \/ LPSacarDeNewVacia
  \/ LPAgregarAReady \/ LPEnviarAMemoria \/ LPEnviarSigpipe
  \/ LPConfirmar \/ LPRechazar \/ LPConfirmarBasura \/ LPRechazarBasura \/ LPPostearReady

-----------------------------------------------------------------------------
(* planificador_corto_plazo, with ALGORITMO_PLANIFICACION = FIFO *)

CPEsperarDispatch ==
  /\ PasoCP("esperarDispatch", "esperarReady")
  /\ dispatchPermitido > 0
  /\ dispatchPermitido' = dispatchPermitido - 1
  /\ UNCHANGED <<pcbCP, procesosEnReady, pcbEnExec, semProcesoEnReady, semPcbEnExec>>

CPEsperarReady ==
  /\ PasoCP("esperarReady", "sacarDeReady")
  /\ semProcesoEnReady > 0
  /\ semProcesoEnReady' = semProcesoEnReady - 1
  /\ UNCHANGED <<pcbCP, procesosEnReady, pcbEnExec, semPcbEnExec, dispatchPermitido>>

CPSacarDeReady ==
  /\ PasoCP("sacarDeReady", "agregarAExec")
  /\ pcbCP' = Head(procesosEnReady)
  /\ procesosEnReady' = Tail(procesosEnReady)
  /\ UNCHANGED <<pcbEnExec, semProcesoEnReady, semPcbEnExec, dispatchPermitido>>

\* list_add on pcbEnExec, without mutex_Ex.
CPAgregarAExec ==
  /\ PasoCP("agregarAExec", "postearExec")
  /\ pcbEnExec' = Encolar(pcbEnExec, pcbCP)
  /\ pcbCP' = NULL
  /\ UNCHANGED <<procesosEnReady, semProcesoEnReady, semPcbEnExec, dispatchPermitido>>

CPPostearExec ==
  /\ PasoCP("postearExec", "esperarDispatch")
  /\ semPcbEnExec' = semPcbEnExec + 1
  /\ UNCHANGED <<pcbCP, procesosEnReady, pcbEnExec, semProcesoEnReady, dispatchPermitido>>

PlanificadorCortoPlazo ==
  CPEsperarDispatch \/ CPEsperarReady \/ CPSacarDeReady \/ CPAgregarAExec \/ CPPostearExec

-----------------------------------------------------------------------------
(* atender_pcb *)

AtEsperarExec ==
  /\ PasoAtender("esperarExec", "tomarPcb")
  /\ semPcbEnExec > 0
  /\ semPcbEnExec' = semPcbEnExec - 1
  /\ UNCHANGED <<pcbAtender, atendidos, pcbEnExec, dispatchPermitido, aCpu, deCpu>>

\* list_get(pcbEnExec, 0): the PCB stays in the list while it runs.
AtTomarPcb ==
  /\ PasoAtender("tomarPcb", "enviar")
  /\ pcbAtender' = Head(pcbEnExec)
  /\ UNCHANGED <<atendidos, pcbEnExec, semPcbEnExec, dispatchPermitido, aCpu, deCpu>>

\* kernel_enviar_pcb_a_cpu
AtEnviarACpu ==
  /\ PasoAtender("enviar", "recibir")
  /\ aCpu' = IF "cpu" \in caidos THEN aCpu ELSE Append(aCpu, pcbAtender)
  /\ UNCHANGED <<pcbAtender, atendidos, pcbEnExec, semPcbEnExec, dispatchPermitido, deCpu>>

AtEnviarSigpipe ==
  /\ atender = "enviar"
  /\ "cpu" \in caidos
  /\ Termina("sigpipe")

(***************************************************************************)
(* The header and the PCB frame of the answer, then list_remove, then the  *)
(* switch.  kernel_recibir_pcb_actualizado_de_cpu compares neither the PID *)
(* received nor the program counter with the PCB it holds.                 *)
(***************************************************************************)
AtProcesoTerminado ==
  /\ PasoAtender("recibir", "postearDispatch")
  /\ deCpu # <<>>
  /\ Head(deCpu) = HEADER_proceso_terminado
  /\ deCpu' = Tail(deCpu)
  /\ pcbEnExec' = ExecTrasRespuesta
  /\ atendidos' = Append(atendidos, pcbAtender)
  /\ pcbAtender' = NULL
  /\ UNCHANGED <<semPcbEnExec, dispatchPermitido, aCpu>>

AtOtraRespuesta ==
  /\ atender = "recibir"
  /\ deCpu # <<>>
  /\ Head(deCpu) # HEADER_proceso_terminado
  /\ Termina("exit")

\* The recv that returned nothing is tried again.
Mut_AtReintenta ==
  /\ kernel = "vivo" /\ atender = "recibir"
  /\ deCpu = <<>>
  /\ "cpu" \in caidos
  /\ UNCHANGED vars

\* The CPU closed the socket: the header is garbage, the frame is empty and
\* buffer_desempaquetar exits.
AtCpuCerrada ==
  /\ atender = "recibir"
  /\ deCpu = <<>>
  /\ "cpu" \in caidos
  /\ Termina("exit")

Mut_SinPostearDispatch ==
  /\ PasoAtender("postearDispatch", "esperarExec")
  /\ UNCHANGED <<pcbAtender, atendidos, pcbEnExec, semPcbEnExec, dispatchPermitido, aCpu, deCpu>>

AtPostearDispatch ==
  /\ PasoAtender("postearDispatch", "esperarExec")
  /\ dispatchPermitido' = dispatchPermitido + 1
  /\ UNCHANGED <<pcbAtender, atendidos, pcbEnExec, semPcbEnExec, aCpu, deCpu>>

AtenderPcb ==
  \/ AtEsperarExec \/ AtTomarPcb \/ AtEnviarACpu \/ AtEnviarSigpipe
  \/ AtProcesoTerminado \/ AtOtraRespuesta \/ AtCpuCerrada \/ AtPostearDispatch

-----------------------------------------------------------------------------
(* The peers at the other end of the sockets *)

\* atender_proceso_nuevo loads the process and answers.
MemoriaAtiende ==
  /\ PasoPar
  /\ "memoria" \notin caidos
  /\ aMemoria # <<>>
  /\ aMemoria' = Tail(aMemoria)
  /\ cargados' = Append(cargados, Head(aMemoria))
  /\ deMemoria' = deMemoria \o RespuestaMemoria
  /\ UNCHANGED <<redCpu, caidos>>

\* The request is dropped and the socket stays open.
Mut_MemoriaCalla ==
  /\ PasoPar
  /\ "memoria" \in Caidas
  /\ aMemoria # <<>>
  /\ aMemoria' = <<>>
  /\ UNCHANGED <<deMemoria, cargados, redCpu, caidos>>

\* exit(1) when the instruction file cannot be opened, or a fault of the thread that
\* serves the CPU, at any time.
MemoriaCae ==
  /\ PasoPar
  /\ "memoria" \in Caidas \ caidos
  /\ aMemoria' = <<>>
  /\ caidos' = caidos \union {"memoria"}
  /\ UNCHANGED <<deMemoria, cargados, redCpu>>

\* The context is not consumed, so it is answered again.
Mut_CpuRepite ==
  /\ PasoPar
  /\ "cpu" \notin caidos
  /\ aCpu # <<>>
  /\ \E respuesta \in RespuestasCpu : deCpu' = deCpu \o respuesta
  /\ UNCHANGED <<redMemoria, aCpu, caidos>>

\* The CPU takes the context and may answer; it may also never answer.
CpuAtiende ==
  /\ PasoPar
  /\ "cpu" \notin caidos
  /\ aCpu # <<>>
  /\ aCpu' = Tail(aCpu)
  /\ \E respuesta \in RespuestasCpu : deCpu' = deCpu \o respuesta
  /\ UNCHANGED <<redMemoria, caidos>>

CpuCae ==
  /\ PasoPar
  /\ "cpu" \in Caidas \ caidos
  /\ aCpu' = <<>>
  /\ caidos' = caidos \union {"cpu"}
  /\ UNCHANGED <<redMemoria, deCpu>>

Pares == MemoriaAtiende \/ MemoriaCae \/ CpuAtiende \/ CpuCae

-----------------------------------------------------------------------------
Next ==
  \/ ConsolaComando \/ ConsolaSigue
  \/ PlanificadorLargoPlazo
  \/ PlanificadorCortoPlazo
  \/ AtenderPcb
  \/ Pares

(***************************************************************************)
(* Threads are scheduled by the operating system and every semaphore has   *)
(* one waiter, so each thread is weakly fair.  The user is not: commands   *)
(* may stop at any time.  The peers take what they were sent, or die: that *)
(* a CPU has taken a context does not say that it answers, RespuestasCpu   *)
(* does.                                                                   *)
(***************************************************************************)
Fairness ==
  /\ WF_vars(ConsolaSigue)
  /\ WF_vars(PlanificadorLargoPlazo)
  /\ WF_vars(PlanificadorCortoPlazo)
  /\ WF_vars(AtenderPcb)
  /\ WF_vars(MemoriaAtiende)
  /\ WF_vars(CpuAtiende)

Spec == Init /\ [][Next]_vars /\ Fairness
=============================================================================
