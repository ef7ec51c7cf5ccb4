----------------------------- MODULE KernelProofs -----------------------------
(***************************************************************************)
(* Theorems about the kernel, for every value of its constants: any degree *)
(* of multiprogramming, any number of processes and commands, any answers  *)
(* of the peers and any of their deaths.                                   *)
(*                                                                         *)
(* TypeOK is not inductive: taking the head of a list keeps its type only  *)
(* if the list is not empty, which the semaphores know and the list does   *)
(* not.  So types, pointers and accounts are proved together, one lemma    *)
(* for each part of the invariant, with one step for each action that      *)
(* disturbs that part.                                                     *)
(***************************************************************************)
EXTENDS KernelProps, TLAPS

\* A thread holds a PCB where its code dereferences the pointer.
Punteros ==
  /\ lp \in {"agregarAReady", "enviar", "confirmar", "postear"} => pcbLP \in Pid
  /\ cp = "agregarAExec" => pcbCP \in Pid
  /\ atender \in {"enviar", "recibir"} => pcbAtender \in Pid
  /\ consola \in {"enlazar", "finalizar"} => pidConsola \in Pid

IInv == TypeOK /\ Punteros /\ CuentasDeSemaforos

\* The steps of each thread that do not end the process.
PasosConsola == IniciarProceso \/ EnlazarEnNew \/ PostearNew \/ FinalizarProceso
                \/ UbicarPcb \/ FinalizarPcb
PasosLP == LPEsperarNew \/ LPEsperarGrado \/ LPSacarDeNew \/ LPAgregarAReady
           \/ LPEnviarAMemoria \/ LPConfirmar \/ LPConfirmarBasura \/ LPPostearReady
PasosAtender == AtEsperarExec \/ AtTomarPcb \/ AtEnviarACpu \/ AtProcesoTerminado
                \/ AtPostearDispatch
FinDelKernel == \E causa \in {"exit", "segfault", "sigpipe", "fin"} : Termina(causa)

\* Every step is a step of one thread or of a peer, or ends the kernel.
LEMMA Desglose ==
  [Next]_vars => \/ PasosConsola \/ PasosLP \/ PlanificadorCortoPlazo \/ PasosAtender
                 \/ Pares \/ FinDelKernel \/ UNCHANGED vars
  BY DEF Next, ConsolaComando, ConsolaSigue, PlanificadorLargoPlazo, AtenderPcb,
         PasosConsola, PasosLP, PasosAtender, FinDelKernel, EnlazarRompe, BuscarRompe,
         FinalizarNulo,
         ComandoSinArgumento, CerrarConsola, LPSacarDeNewVacia, LPEnviarSigpipe, LPRechazar,
         LPRechazarBasura, AtEnviarSigpipe, AtOtraRespuesta, AtCpuCerrada

\* What the steps of each thread leave alone.
LEMMA Ajeno ==
  /\ PasosConsola => UNCHANGED <<kernel, lpVars, cpVars, atenderVars, procesosEnReady,
                                 pcbEnExec, semProcesoEnReady, semPcbEnExec,
                                 dispatchPermitido, red>>
  /\ PasosLP => UNCHANGED <<kernel, consolaVars, cpVars, atenderVars, pcbEnExec,
                            semPcbEnExec, dispatchPermitido, cargados, redCpu, caidos>>
  /\ PlanificadorCortoPlazo => UNCHANGED <<kernel, consolaVars, lpVars, atenderVars,
                                           procesosEnNew, semProcesoEnNew, red>>
  /\ PasosAtender => UNCHANGED <<kernel, consolaVars, lpVars, cpVars, procesosEnNew,
                                 procesosEnReady, semProcesoEnNew, semProcesoEnReady,
                                 redMemoria, caidos>>
  /\ Pares => UNCHANGED <<kernel, consolaVars, lpVars, cpVars, atenderVars, listas,
                          semaforos>>
  /\ FinDelKernel => UNCHANGED <<consolaVars, lpVars, cpVars, atenderVars, listas,
                                 semaforos, red>>
<1>1. PasosConsola => UNCHANGED <<kernel, lpVars, cpVars, atenderVars, procesosEnReady,
                                  pcbEnExec, semProcesoEnReady, semPcbEnExec,
                                  dispatchPermitido, red>>
  BY DEF PasosConsola, IniciarProceso, EnlazarEnNew, PostearNew, FinalizarProceso, UbicarPcb,
         Buscar, FinalizarPcb, PasoConsola
<1>2. PasosLP => UNCHANGED <<kernel, consolaVars, cpVars, atenderVars, pcbEnExec,
                             semPcbEnExec, dispatchPermitido, cargados, redCpu, caidos>>
  BY DEF PasosLP, LPEsperarNew, LPEsperarGrado, LPSacarDeNew, LPAgregarAReady,
         LPEnviarAMemoria, LPConfirmar, LPConfirmarBasura, LPPostearReady, PasoLP
<1>3. PlanificadorCortoPlazo => UNCHANGED <<kernel, consolaVars, lpVars, atenderVars,
                                            procesosEnNew, semProcesoEnNew, red>>
  BY DEF PlanificadorCortoPlazo, CPEsperarDispatch, CPEsperarReady, CPSacarDeReady,
         CPAgregarAExec, CPPostearExec, PasoCP
<1>4. PasosAtender => UNCHANGED <<kernel, consolaVars, lpVars, cpVars, procesosEnNew,
                                  procesosEnReady, semProcesoEnNew, semProcesoEnReady,
                                  redMemoria, caidos>>
  BY DEF PasosAtender, AtEsperarExec, AtTomarPcb, AtEnviarACpu, AtProcesoTerminado,
         AtPostearDispatch, PasoAtender
<1>5. Pares => UNCHANGED <<kernel, consolaVars, lpVars, cpVars, atenderVars, listas,
                           semaforos>>
  BY DEF Pares, MemoriaAtiende, MemoriaCae, CpuAtiende, CpuCae, PasoPar
<1>6. FinDelKernel => UNCHANGED <<consolaVars, lpVars, cpVars, atenderVars, listas,
                                  semaforos, red>>
  BY DEF FinDelKernel, Termina
<1> QED
  BY <1>1, <1>2, <1>3, <1>4, <1>5, <1>6

\* Head and Tail of a list that is not empty keep the type of its elements.
LEMMA CabezaYCola ==
  ASSUME NEW S, NEW s \in Seq(S), s # <<>>
  PROVE  Head(s) \in S /\ Tail(s) \in Seq(S) /\ Len(Tail(s)) = Len(s) - 1 /\ Len(s) > 0
  OBVIOUS

\* The elements of a list are of its type.
LEMMA RangoDeLista ==
  ASSUME NEW S, NEW s \in Seq(S)
  PROVE  Range(s) \subseteq S
  BY DEF Range

\* The elements of a list to which one is appended, and of a list without its head.
LEMMA RangoAlAgregar ==
  ASSUME NEW S, NEW s \in Seq(S), NEW e \in S
  PROVE  Range(Append(s, e)) = Range(s) \union {e}
<1> DEFINE t == Append(s, e)
<1>1. /\ DOMAIN t = DOMAIN s \union {Len(s) + 1}
      /\ t[Len(s) + 1] = e /\ \A i \in DOMAIN s : t[i] = s[i]
  OBVIOUS
<1> HIDE DEF t
<1>2. Range(t) \subseteq Range(s) \union {e}
  BY <1>1 DEF Range
<1>3. Range(s) \subseteq Range(t) /\ e \in Range(t)
  BY <1>1 DEF Range
<1>4. Range(t) = Range(s) \union {e}
  BY <1>2, <1>3
<1> QED
  BY <1>4 DEF t

LEMMA RangoDeLaCola ==
  ASSUME NEW S, NEW s \in Seq(S), s # <<>>
  PROVE  Range(Tail(s)) \subseteq Range(s)
  BY DEF Range

\* When a thread takes the head of a list without looking, there is one.
LEMMA ListasNoVacias ==
  ASSUME IInv
  PROVE  /\ cp = "sacarDeReady" => procesosEnReady # <<>>
         /\ atender \in {"tomarPcb", "enviar", "recibir"} => pcbEnExec # <<>>
  BY DEF IInv, TypeOK, TipoHilos, TipoListas, TipoSemaforos, CuentasDeSemaforos, CuentaReady,
         CuentaExec, EnMano

\* What the console writes keeps its type: the pid it takes is below the bound, and
\* it finalizes only a PCB that it found.
LEMMA ConservaTipoConsola == IInv /\ [Next]_vars => TipoConsola'
<1> SUFFICES ASSUME IInv, [Next]_vars PROVE TipoConsola'
  OBVIOUS
<1> USE KernelAssumption DEF IInv, TypeOK, TipoConsola, TipoListas, Punteros, Pid, consolaVars
<1>1. CASE IniciarProceso
  <2>1. siguientePID \in Pid
    BY <1>1 DEF IniciarProceso, NuevoPID, PasoConsola
  <2>2. estado' \in [Pid -> Estados]
    BY <1>1, <2>1 DEF IniciarProceso, NuevoPID, PasoConsola, Estados
  <2> QED
    BY <1>1, <2>1, <2>2 DEF IniciarProceso, NuevoPID, PasoConsola
<1>2. CASE EnlazarEnNew
  BY <1>2 DEF EnlazarEnNew, PasoConsola
<1>3. CASE PostearNew
  BY <1>3 DEF PostearNew, PasoConsola
<1>4. CASE FinalizarProceso
  BY <1>4 DEF FinalizarProceso, PasoConsola
<1>5. CASE UbicarPcb
  BY <1>5 DEF UbicarPcb, Buscar, PasoConsola
<1>6. CASE FinalizarPcb
  <2>1. pidConsola \in Pid
    BY <1>6 DEF FinalizarPcb, PasoConsola
  <2>2. estado' \in [Pid -> Estados]
    BY <1>6, <2>1 DEF FinalizarPcb, PasoConsola, Estados
  <2> QED
    BY <1>6, <2>1, <2>2 DEF FinalizarPcb, PasoConsola
<1>7. CASE PasosLP \/ PlanificadorCortoPlazo \/ PasosAtender \/ Pares \/ UNCHANGED vars
  BY <1>7, Ajeno DEF vars
<1>8. CASE FinDelKernel
  BY <1>8 DEF FinDelKernel, Termina
<1> QED
  BY <1>1, <1>2, <1>3, <1>4, <1>5, <1>6, <1>7, <1>8, Desglose DEF PasosConsola

\* The pointers of the three scheduler threads keep their type: each takes the head
\* of a list that is not empty.
LEMMA ConservaTipoHilos == IInv /\ [Next]_vars => TipoHilos'
<1> SUFFICES ASSUME IInv, [Next]_vars PROVE TipoHilos'
  OBVIOUS
<1> USE KernelAssumption DEF IInv, TypeOK, TipoHilos, TipoListas, Punteros, PidONulo, Pid,
       lpVars, cpVars, atenderVars
<1>1. CASE LPSacarDeNew
  <2>1. Head(procesosEnNew) \in Pid
    BY <1>1, CabezaYCola DEF LPSacarDeNew, PasoLP
  <2> QED
    BY <1>1, <2>1 DEF LPSacarDeNew, PasoLP
<1>2. CASE CPSacarDeReady
  <2>1. Head(procesosEnReady) \in Pid
    BY <1>2, CabezaYCola, ListasNoVacias DEF CPSacarDeReady, PasoCP
  <2> QED
    BY <1>2, <2>1 DEF CPSacarDeReady, PasoCP
<1>3. CASE AtTomarPcb
  <2>1. Head(pcbEnExec) \in Pid
    BY <1>3, CabezaYCola, ListasNoVacias DEF AtTomarPcb, PasoAtender
  <2> QED
    BY <1>3, <2>1 DEF AtTomarPcb, PasoAtender
<1>4. CASE AtProcesoTerminado
  BY <1>4 DEF AtProcesoTerminado, ExecTrasRespuesta, PasoAtender
<1>5. CASE LPEsperarNew \/ LPEsperarGrado \/ LPAgregarAReady \/ LPEnviarAMemoria
           \/ LPConfirmar \/ LPConfirmarBasura \/ LPPostearReady
  <2>1. /\ lp' \in {"esperarNew", "esperarGrado", "sacarDeNew", "enviar", "confirmar", "postear"}
        /\ pcbLP' \in {pcbLP, NULL}
        /\ UNCHANGED <<cpVars, atenderVars>>
    BY <1>5 DEF LPEsperarNew, LPEsperarGrado, LPAgregarAReady, LPEnviarAMemoria, LPConfirmar,
           LPConfirmarBasura, LPPostearReady, PasoLP
  <2>2. semGradoMultiprogramacion' \in Nat
    BY <1>5 DEF LPEsperarNew, LPEsperarGrado, LPAgregarAReady, LPEnviarAMemoria, LPConfirmar,
           LPConfirmarBasura, LPPostearReady, PasoLP
  <2> QED
    BY <2>1, <2>2
<1>6. CASE CPEsperarDispatch \/ CPEsperarReady \/ CPAgregarAExec \/ CPPostearExec
  BY <1>6 DEF CPEsperarDispatch, CPEsperarReady, CPAgregarAExec, Encolar, CPPostearExec,
         PasoCP
<1>7. CASE AtEsperarExec \/ AtEnviarACpu \/ AtPostearDispatch
  BY <1>7 DEF AtEsperarExec, AtEnviarACpu, AtPostearDispatch, PasoAtender
<1>8. CASE PasosConsola \/ Pares \/ FinDelKernel \/ UNCHANGED vars
  BY <1>8, Ajeno DEF vars
<1> QED
  BY <1>1, <1>2, <1>3, <1>4, <1>5, <1>6, <1>7, <1>8, Desglose DEF PasosLP,
         PlanificadorCortoPlazo, PasosAtender

\* The shared lists only ever hold identifiers that were handed out.
LEMMA ConservaTipoListas == IInv /\ [Next]_vars => TipoListas'
<1> SUFFICES ASSUME IInv, [Next]_vars PROVE TipoListas'
  OBVIOUS
<1> USE KernelAssumption DEF IInv, TypeOK, TipoListas, Punteros, listas
<1>1. CASE EnlazarEnNew
  <2>1. pidConsola \in Pid
    BY <1>1 DEF EnlazarEnNew, PasoConsola
  <2>2. Append(procesosEnNew, pidConsola) \in Seq(Pid)
    BY <2>1
  <2>3. procesosEnNew' \in Seq(Pid)
    BY <1>1, <2>2 DEF EnlazarEnNew, ResultadosDeEnlazar
  <2> QED
    BY <1>1, <2>1, <2>2, <2>3 DEF EnlazarEnNew, PasoConsola
<1>2. CASE LPSacarDeNew
  <2>1. procesosEnNew' \in Seq(Pid)
    BY <1>2, CabezaYCola DEF LPSacarDeNew, PasoLP
  <2> QED
    BY <1>2, <2>1 DEF LPSacarDeNew, PasoLP
<1>3. CASE LPAgregarAReady
  BY <1>3 DEF LPAgregarAReady, Encolar, PasoLP
<1>4. CASE CPSacarDeReady
  <2>1. procesosEnReady' \in Seq(Pid)
    BY <1>4, CabezaYCola, ListasNoVacias DEF CPSacarDeReady, PasoCP
  <2> QED
    BY <1>4, <2>1 DEF CPSacarDeReady, PasoCP
<1>5. CASE CPAgregarAExec
  BY <1>5 DEF CPAgregarAExec, Encolar, PasoCP
<1>6. CASE AtProcesoTerminado
  <2>1. pcbEnExec' \in Seq(Pid)
    BY <1>6, CabezaYCola, ListasNoVacias DEF AtProcesoTerminado, ExecTrasRespuesta,
           PasoAtender
  <2> QED
    BY <1>6, <2>1 DEF AtProcesoTerminado, ExecTrasRespuesta, PasoAtender
<1>7. CASE IniciarProceso \/ PostearNew \/ FinalizarProceso \/ UbicarPcb \/ FinalizarPcb
  BY <1>7 DEF IniciarProceso, NuevoPID, PostearNew, FinalizarProceso, UbicarPcb, Buscar,
         FinalizarPcb, PasoConsola
<1>8. CASE LPEsperarNew \/ LPEsperarGrado \/ LPEnviarAMemoria \/ LPConfirmar
           \/ LPConfirmarBasura \/ LPPostearReady
  BY <1>8 DEF LPEsperarNew, LPEsperarGrado, LPEnviarAMemoria, LPConfirmar, Confirma,
         LPConfirmarBasura, LPPostearReady, PasoLP
<1>9. CASE CPEsperarDispatch \/ CPEsperarReady \/ CPPostearExec
  BY <1>9 DEF CPEsperarDispatch, CPEsperarReady, CPPostearExec, PasoCP
<1>10. CASE AtEsperarExec \/ AtTomarPcb \/ AtEnviarACpu \/ AtPostearDispatch
  BY <1>10 DEF AtEsperarExec, AtTomarPcb, AtEnviarACpu, AtPostearDispatch, PasoAtender
<1>11. CASE Pares \/ FinDelKernel \/ UNCHANGED vars
  BY <1>11, Ajeno DEF vars
<1> QED
  BY <1>1, <1>2, <1>3, <1>4, <1>5, <1>6, <1>7, <1>8, <1>9, <1>10, <1>11, Desglose DEF
         PasosConsola, PasosLP, PlanificadorCortoPlazo, PasosAtender

\* sem_wait never takes a semaphore below zero.
LEMMA ConservaTipoSemaforos == IInv /\ [Next]_vars => TipoSemaforos'
<1> SUFFICES ASSUME IInv, [Next]_vars PROVE TipoSemaforos'
  OBVIOUS
<1> USE KernelAssumption DEF IInv, TypeOK, TipoSemaforos, semaforos
<1>1. CASE IniciarProceso \/ EnlazarEnNew \/ PostearNew \/ FinalizarProceso
           \/ UbicarPcb \/ FinalizarPcb
  BY <1>1 DEF IniciarProceso, NuevoPID, EnlazarEnNew, PostearNew, FinalizarProceso, UbicarPcb,
         Buscar, FinalizarPcb, PasoConsola
<1>2. CASE LPEsperarNew \/ LPEsperarGrado \/ LPSacarDeNew \/ LPAgregarAReady
           \/ LPEnviarAMemoria \/ LPConfirmar \/ LPConfirmarBasura \/ LPPostearReady
  BY <1>2 DEF LPEsperarNew, LPEsperarGrado, LPSacarDeNew, LPAgregarAReady, Encolar,
         LPEnviarAMemoria, LPConfirmar, Confirma, LPConfirmarBasura, LPPostearReady, PasoLP
<1>3. CASE CPEsperarDispatch \/ CPEsperarReady \/ CPSacarDeReady \/ CPAgregarAExec \/ CPPostearExec
  BY <1>3 DEF CPEsperarDispatch, CPEsperarReady, CPSacarDeReady, CPAgregarAExec, Encolar,
         CPPostearExec, PasoCP
<1>4. CASE AtEsperarExec \/ AtTomarPcb \/ AtEnviarACpu \/ AtProcesoTerminado \/ AtPostearDispatch
  BY <1>4 DEF AtEsperarExec, AtTomarPcb, AtEnviarACpu, AtProcesoTerminado, ExecTrasRespuesta,
         AtPostearDispatch, PasoAtender
<1>5. CASE Pares \/ FinDelKernel \/ UNCHANGED vars
  BY <1>5, Ajeno DEF vars
<1> QED
  BY <1>1, <1>2, <1>3, <1>4, <1>5, Desglose DEF PasosConsola, PasosLP, PlanificadorCortoPlazo,
         PasosAtender

\* What travels over the sockets keeps its type.
LEMMA ConservaTipoRed == IInv /\ [Next]_vars => TipoRed'
<1> SUFFICES ASSUME IInv, [Next]_vars PROVE TipoRed'
  OBVIOUS
<1> USE KernelAssumption DEF IInv, TypeOK, TipoRed, Punteros, redMemoria, redCpu, red
<1>1. CASE LPEnviarAMemoria
  <2>1. pcbLP \in Pid
    BY <1>1 DEF LPEnviarAMemoria, PasoLP
  <2>2. Append(aMemoria, pcbLP) \in Seq(Pid)
    BY <2>1
  <2> QED
    BY <1>1, <2>1, <2>2 DEF LPEnviarAMemoria, PasoLP
<1>2. CASE LPConfirmar
  <2>1. deMemoria' \in Seq(Byte)
    BY <1>2, CabezaYCola DEF LPConfirmar, Confirma, PasoLP
  <2> QED
    BY <1>2, <2>1 DEF LPConfirmar, Confirma, PasoLP
<1>3. CASE AtEnviarACpu
  <2>1. pcbAtender \in Pid
    BY <1>3 DEF AtEnviarACpu, PasoAtender
  <2>2. Append(aCpu, pcbAtender) \in Seq(Pid)
    BY <2>1
  <2> QED
    BY <1>3, <2>1, <2>2 DEF AtEnviarACpu, PasoAtender
<1>4. CASE AtProcesoTerminado
  <2>1. deCpu' \in Seq(Byte)
    BY <1>4, CabezaYCola DEF AtProcesoTerminado, ExecTrasRespuesta, PasoAtender
  <2> QED
    BY <1>4, <2>1 DEF AtProcesoTerminado, ExecTrasRespuesta, PasoAtender
<1>5. CASE MemoriaAtiende
  <2>1. Head(aMemoria) \in Pid /\ aMemoria' \in Seq(Pid)
    BY <1>5, CabezaYCola DEF MemoriaAtiende, PasoPar
  <2>2. cargados' \in Seq(Pid) /\ deMemoria' \in Seq(Byte)
    BY <1>5, <2>1 DEF MemoriaAtiende
  <2> QED
    BY <1>5, <2>1, <2>2 DEF MemoriaAtiende, PasoPar
<1>6. CASE MemoriaCae
  BY <1>6 DEF MemoriaCae, PasoPar
<1>7. CASE CpuAtiende
  <2>1. aCpu' \in Seq(Pid)
    BY <1>7, CabezaYCola DEF CpuAtiende, PasoPar
  <2>2. deCpu' \in Seq(Byte)
    BY <1>7 DEF CpuAtiende
  <2> QED
    BY <1>7, <2>1, <2>2 DEF CpuAtiende, PasoPar
<1>8. CASE CpuCae
  BY <1>8 DEF CpuCae, PasoPar
<1>9. CASE LPEsperarNew \/ LPEsperarGrado \/ LPSacarDeNew \/ LPAgregarAReady
           \/ LPConfirmarBasura \/ LPPostearReady
  BY <1>9 DEF LPEsperarNew, LPEsperarGrado, LPSacarDeNew, LPAgregarAReady, Encolar,
         LPConfirmarBasura, LPPostearReady, PasoLP
<1>10. CASE AtEsperarExec \/ AtTomarPcb \/ AtPostearDispatch
  BY <1>10 DEF AtEsperarExec, AtTomarPcb, AtPostearDispatch, PasoAtender
<1>11. CASE PasosConsola \/ PlanificadorCortoPlazo \/ FinDelKernel \/ UNCHANGED vars
  BY <1>11, Ajeno DEF vars
<1> QED
  BY <1>1, <1>2, <1>3, <1>4, <1>5, <1>6, <1>7, <1>8, <1>9, <1>10, <1>11, Desglose DEF PasosLP,
         PasosAtender, Pares

\* A pointer is set before the program point that dereferences it.
LEMMA ConservaPunteros == IInv /\ [Next]_vars => Punteros'
<1> SUFFICES ASSUME IInv, [Next]_vars PROVE Punteros'
  OBVIOUS
<1> USE KernelAssumption DEF IInv, TypeOK, Punteros, TipoConsola, TipoListas, Pid,
       consolaVars, lpVars, cpVars, atenderVars
<1>1. CASE IniciarProceso
  BY <1>1 DEF IniciarProceso, NuevoPID, PasoConsola
<1>2. CASE UbicarPcb
  <2>1. /\ Range(procesosEnNew) \subseteq Pid
        /\ Range(procesosEnReady) \subseteq Pid
        /\ Range(pcbEnExec) \subseteq Pid
    BY RangoDeLista
  <2>2. ASSUME NEW aqui, NEW lista, NEW despues \in {"buscarReady", "buscarExec", "buscarBloq"},
               Range(lista) \subseteq Pid, Buscar(aqui, lista, despues)
        PROVE  consola' = "finalizar" => pidConsola \in Pid
    BY <2>2 DEF Buscar, PasoConsola
  <2>3. consola' = "finalizar" => pidConsola \in Pid
    BY <1>2, <2>1, <2>2 DEF UbicarPcb
  <2>4. /\ consola' # "enlazar" /\ UNCHANGED pidConsola
        /\ UNCHANGED <<lpVars, cpVars, atenderVars>>
    BY <1>2 DEF UbicarPcb, Buscar, PasoConsola
  <2> QED
    BY <2>3, <2>4
<1>3. CASE LPSacarDeNew
  <2>1. Head(procesosEnNew) \in Pid
    BY <1>3, CabezaYCola DEF LPSacarDeNew, PasoLP
  <2> QED
    BY <1>3, <2>1 DEF LPSacarDeNew, PasoLP
<1>4. CASE CPSacarDeReady
  <2>1. Head(procesosEnReady) \in Pid
    BY <1>4, CabezaYCola, ListasNoVacias DEF CPSacarDeReady, PasoCP
  <2> QED
    BY <1>4, <2>1 DEF CPSacarDeReady, PasoCP
<1>5. CASE AtTomarPcb
  <2>1. Head(pcbEnExec) \in Pid
    BY <1>5, CabezaYCola, ListasNoVacias DEF AtTomarPcb, PasoAtender
  <2> QED
    BY <1>5, <2>1 DEF AtTomarPcb, PasoAtender
<1>6. CASE EnlazarEnNew \/ PostearNew \/ FinalizarProceso \/ FinalizarPcb
  BY <1>6 DEF EnlazarEnNew, PostearNew, FinalizarProceso, FinalizarPcb, PasoConsola
<1>7. CASE LPEsperarNew \/ LPEsperarGrado \/ LPAgregarAReady \/ LPEnviarAMemoria
           \/ LPConfirmar \/ LPConfirmarBasura \/ LPPostearReady
  BY <1>7 DEF LPEsperarNew, LPEsperarGrado, LPAgregarAReady, Encolar, LPEnviarAMemoria,
         LPConfirmar, Confirma, LPConfirmarBasura, LPPostearReady, PasoLP
<1>8. CASE CPEsperarDispatch \/ CPEsperarReady \/ CPAgregarAExec \/ CPPostearExec
  BY <1>8 DEF CPEsperarDispatch, CPEsperarReady, CPAgregarAExec, Encolar, CPPostearExec,
         PasoCP
<1>9. CASE AtEsperarExec \/ AtEnviarACpu \/ AtProcesoTerminado \/ AtPostearDispatch
  BY <1>9 DEF AtEsperarExec, AtEnviarACpu, AtProcesoTerminado, ExecTrasRespuesta,
         AtPostearDispatch, PasoAtender
<1>10. CASE Pares \/ FinDelKernel \/ UNCHANGED vars
  BY <1>10, Ajeno DEF vars
<1> QED
  BY <1>1, <1>2, <1>3, <1>4, <1>5, <1>6, <1>7, <1>8, <1>9, <1>10, Desglose DEF PasosConsola,
         PasosLP, PlanificadorCortoPlazo, PasosAtender

\* READY: the long-term scheduler appends first and posts last, the short-term one
\* waits first and removes after.
LEMMA ConservaCuentaReady == IInv /\ [Next]_vars => CuentaReady'
<1> SUFFICES ASSUME IInv, [Next]_vars PROVE CuentaReady'
  OBVIOUS
<1> USE KernelAssumption DEF IInv, TypeOK, CuentasDeSemaforos, TipoHilos, TipoListas,
       TipoSemaforos, EnMano, CuentaReady, lpVars, cpVars, atenderVars, listas, semaforos
<1>1. CASE LPAgregarAReady
  BY <1>1 DEF LPAgregarAReady, Encolar, PasoLP
<1>2. CASE LPPostearReady
  BY <1>2 DEF LPPostearReady, PasoLP
<1>3. CASE CPEsperarReady
  BY <1>3 DEF CPEsperarReady, PasoCP
<1>4. CASE CPSacarDeReady
  <2>1. Len(procesosEnReady') = Len(procesosEnReady) - 1
    BY <1>4, CabezaYCola, ListasNoVacias DEF CPSacarDeReady, PasoCP
  <2> QED
    BY <1>4, <2>1 DEF CPSacarDeReady, PasoCP
<1>5. CASE LPEsperarNew \/ LPEsperarGrado \/ LPSacarDeNew \/ LPEnviarAMemoria
           \/ LPConfirmar \/ LPConfirmarBasura
  BY <1>5 DEF LPEsperarNew, LPEsperarGrado, LPSacarDeNew, LPEnviarAMemoria, LPConfirmar,
         Confirma, LPConfirmarBasura, PasoLP
<1>6. CASE CPEsperarDispatch \/ CPAgregarAExec \/ CPPostearExec
  BY <1>6 DEF CPEsperarDispatch, CPAgregarAExec, Encolar, CPPostearExec, PasoCP
<1>7. CASE PasosConsola \/ PasosAtender \/ Pares \/ FinDelKernel \/ UNCHANGED vars
  BY <1>7, Ajeno DEF vars
<1> QED
  BY <1>1, <1>2, <1>3, <1>4, <1>5, <1>6, <1>7, Desglose DEF PasosLP, PlanificadorCortoPlazo

\* EXEC: the PCB stays in the list from the sem_wait of atender_pcb until it removes it.
LEMMA ConservaCuentaExec == IInv /\ [Next]_vars => CuentaExec'
<1> SUFFICES ASSUME IInv, [Next]_vars PROVE CuentaExec'
  OBVIOUS
<1> USE KernelAssumption DEF IInv, TypeOK, CuentasDeSemaforos, TipoHilos, TipoListas,
       TipoSemaforos, EnMano, CuentaExec, lpVars, cpVars, atenderVars, listas, semaforos
<1>1. CASE CPAgregarAExec
  <2>1. pcbCP \in Pid
    BY <1>1 DEF CPAgregarAExec, Encolar, PasoCP, Punteros
  <2>2. Len(pcbEnExec') = Len(pcbEnExec) + 1
    BY <1>1, <2>1 DEF CPAgregarAExec, Encolar, PasoCP
  <2> QED
    BY <1>1, <2>1, <2>2 DEF CPAgregarAExec, Encolar, PasoCP
<1>2. CASE CPPostearExec
  BY <1>2 DEF CPPostearExec, PasoCP
<1>3. CASE AtEsperarExec
  BY <1>3 DEF AtEsperarExec, PasoAtender
<1>4. CASE AtProcesoTerminado
  <2>1. Len(pcbEnExec') = Len(pcbEnExec) - 1
    BY <1>4, CabezaYCola, ListasNoVacias DEF AtProcesoTerminado, ExecTrasRespuesta,
           PasoAtender
  <2> QED
    BY <1>4, <2>1 DEF AtProcesoTerminado, ExecTrasRespuesta, PasoAtender
<1>5. CASE CPEsperarDispatch \/ CPEsperarReady \/ CPSacarDeReady
  BY <1>5 DEF CPEsperarDispatch, CPEsperarReady, CPSacarDeReady, PasoCP
<1>6. CASE AtTomarPcb \/ AtEnviarACpu \/ AtPostearDispatch
  BY <1>6 DEF AtTomarPcb, AtEnviarACpu, AtPostearDispatch, PasoAtender
<1>7. CASE PasosConsola \/ PasosLP \/ Pares \/ FinDelKernel \/ UNCHANGED vars
  BY <1>7, Ajeno DEF vars
<1> QED
  BY <1>1, <1>2, <1>3, <1>4, <1>5, <1>6, <1>7, Desglose DEF PlanificadorCortoPlazo,
         PasosAtender

\* The one permission to dispatch is neither lost nor duplicated.
LEMMA ConservaCuentaDispatch == IInv /\ [Next]_vars => CuentaDispatch'
<1> SUFFICES ASSUME IInv, [Next]_vars PROVE CuentaDispatch'
  OBVIOUS
<1> USE KernelAssumption DEF IInv, TypeOK, CuentasDeSemaforos, TipoHilos, TipoListas,
       TipoSemaforos, EnMano, CuentaDispatch, lpVars, cpVars, atenderVars, listas, semaforos
<1>1. CASE CPEsperarDispatch
  BY <1>1 DEF CPEsperarDispatch, PasoCP
<1>2. CASE CPAgregarAExec
  <2>1. pcbCP \in Pid
    BY <1>2 DEF CPAgregarAExec, Encolar, PasoCP, Punteros
  <2>2. Len(pcbEnExec') = Len(pcbEnExec) + 1
    BY <1>2, <2>1 DEF CPAgregarAExec, Encolar, PasoCP
  <2> QED
    BY <1>2, <2>1, <2>2 DEF CPAgregarAExec, Encolar, PasoCP
<1>3. CASE AtProcesoTerminado
  <2>1. Len(pcbEnExec') = Len(pcbEnExec) - 1
    BY <1>3, CabezaYCola, ListasNoVacias DEF AtProcesoTerminado, ExecTrasRespuesta,
           PasoAtender
  <2>2. /\ atender = "recibir" /\ atender' = "postearDispatch"
        /\ UNCHANGED <<cp, dispatchPermitido>>
    BY <1>3 DEF AtProcesoTerminado, PasoAtender
  <2> QED
    BY <2>1, <2>2
<1>4. CASE AtPostearDispatch
  BY <1>4 DEF AtPostearDispatch, PasoAtender
<1>5. CASE CPEsperarReady \/ CPSacarDeReady \/ CPPostearExec
  BY <1>5 DEF CPEsperarReady, CPSacarDeReady, CPPostearExec, PasoCP
<1>6. CASE AtEsperarExec \/ AtTomarPcb \/ AtEnviarACpu
  BY <1>6 DEF AtEsperarExec, AtTomarPcb, AtEnviarACpu, PasoAtender
<1>7. CASE PasosConsola \/ PasosLP \/ Pares \/ FinDelKernel \/ UNCHANGED vars
  BY <1>7, Ajeno DEF vars
<1> QED
  BY <1>1, <1>2, <1>3, <1>4, <1>5, <1>6, <1>7, Desglose DEF PlanificadorCortoPlazo,
         PasosAtender

\* NEW: the unlocked list_add may lose a PCB, and so the list is at most as long as
\* the tokens say.
LEMMA ConservaCuentaNew == IInv /\ [Next]_vars => CuentaNew'
<1> SUFFICES ASSUME IInv, [Next]_vars PROVE CuentaNew'
  OBVIOUS
<1> USE KernelAssumption DEF IInv, TypeOK, CuentasDeSemaforos, TipoHilos, TipoListas,
       TipoSemaforos, EnMano, TipoConsola, CuentaNew, consolaVars, lpVars, cpVars,
       atenderVars, listas, semaforos
<1>1. CASE EnlazarEnNew
  <2>1. pidConsola \in Pid
    BY <1>1 DEF EnlazarEnNew, PasoConsola, Punteros
  <2>2. Len(Append(procesosEnNew, pidConsola)) = Len(procesosEnNew) + 1
    BY <2>1
  <2>3. Len(procesosEnNew') <= Len(procesosEnNew) + 1
    BY <1>1, <2>2 DEF EnlazarEnNew, ResultadosDeEnlazar
  <2> QED
    BY <1>1, <2>1, <2>2, <2>3 DEF EnlazarEnNew, PasoConsola
<1>2. CASE PostearNew
  BY <1>2 DEF PostearNew, PasoConsola
<1>3. CASE LPEsperarNew
  BY <1>3 DEF LPEsperarNew, PasoLP
<1>4. CASE LPSacarDeNew
  <2>1. Len(procesosEnNew') = Len(procesosEnNew) - 1
    BY <1>4, CabezaYCola DEF LPSacarDeNew, PasoLP
  <2> QED
    BY <1>4, <2>1 DEF LPSacarDeNew, PasoLP
<1>5. CASE IniciarProceso \/ FinalizarProceso \/ UbicarPcb \/ FinalizarPcb
  BY <1>5 DEF IniciarProceso, NuevoPID, FinalizarProceso, UbicarPcb, Buscar, FinalizarPcb,
         PasoConsola
<1>6. CASE LPEsperarGrado \/ LPAgregarAReady \/ LPEnviarAMemoria \/ LPConfirmar
           \/ LPConfirmarBasura \/ LPPostearReady
  BY <1>6 DEF LPEsperarGrado, LPAgregarAReady, Encolar, LPEnviarAMemoria, LPConfirmar,
         Confirma, LPConfirmarBasura, LPPostearReady, PasoLP
<1>7. CASE PlanificadorCortoPlazo \/ PasosAtender \/ Pares \/ FinDelKernel \/ UNCHANGED vars
  BY <1>7, Ajeno DEF vars
<1> QED
  BY <1>1, <1>2, <1>3, <1>4, <1>5, <1>6, <1>7, Desglose DEF PasosConsola, PasosLP

\* iniciar_estructuras establishes the invariant.
LEMMA Inicial == Init => IInv
  BY KernelAssumption
  DEF Init, IInv, TypeOK, TipoConsola, TipoHilos, TipoListas, TipoSemaforos, TipoRed, Punteros,
      CuentasDeSemaforos, CuentaReady, CuentaExec, CuentaDispatch, CuentaNew, EnMano,
      DispatchInicial, PidONulo, Pid, Estados

\* Every step preserves it.
LEMMA Inductiva == IInv /\ [Next]_vars => IInv'
  BY ConservaTipoConsola, ConservaTipoHilos, ConservaTipoListas, ConservaTipoSemaforos,
     ConservaTipoRed, ConservaPunteros, ConservaCuentaReady, ConservaCuentaExec,
     ConservaCuentaDispatch, ConservaCuentaNew
  DEF IInv, TypeOK, CuentasDeSemaforos

(***************************************************************************)
(* The inductive invariant of the kernel: types, pointers set where the    *)
(* threads dereference them, and the accounts of the semaphores.           *)
(***************************************************************************)
THEOREM InvarianteKernel == Spec => []IInv
  BY Inicial, Inductiva, PTL DEF Spec

\* Type correctness: in particular no thread ever dereferences an empty list.
THEOREM TipoCorrecto == Spec => []TypeOK
<1>1. IInv => TypeOK
  BY DEF IInv
<1> QED
  BY <1>1, InvarianteKernel, PTL

(***************************************************************************)
(* Semaphores and lists agree in every reachable state, whatever the       *)
(* degree of multiprogramming, the interleaving and the peers.             *)
(***************************************************************************)
THEOREM SemaforosCorrectos == Spec => []CuentasDeSemaforos
<1>1. IInv => CuentasDeSemaforos
  BY DEF IInv
<1> QED
  BY <1>1, InvarianteKernel, PTL

(***************************************************************************)
(* The unlocked list_add on pcbEnExec never overlaps the other thread's    *)
(* use of the list.                                                        *)
(***************************************************************************)
THEOREM SinCarreraEnExec == Spec => []ExecSinCarrera
<1>1. IInv => ExecSinCarrera
  <2> SUFFICES ASSUME IInv, cp = "agregarAExec"
               PROVE  atender = "esperarExec" /\ semPcbEnExec = 0 /\ pcbEnExec = <<>>
    BY DEF ExecSinCarrera
  <2>1. /\ pcbEnExec \in Seq(Pid) /\ semPcbEnExec \in Nat /\ dispatchPermitido \in Nat
        /\ CuentaExec /\ CuentaDispatch
        /\ atender \in {"esperarExec", "tomarPcb", "enviar", "recibir", "postearDispatch"}
    BY DEF IInv, TypeOK, TipoHilos, TipoListas, TipoSemaforos, CuentasDeSemaforos
  <2>2. Len(pcbEnExec) = 0 /\ atender # "postearDispatch"
    BY <2>1 DEF CuentaDispatch, EnMano
  <2>3. semPcbEnExec = 0 /\ atender \notin {"tomarPcb", "enviar", "recibir"}
    BY <2>1, <2>2 DEF CuentaExec, EnMano
  <2> QED
    BY <2>1, <2>2, <2>3
<1> QED
  BY <1>1, InvarianteKernel, PTL
=============================================================================
