----------------------------- MODULE SistemaProofs -----------------------------
(***************************************************************************)
(* The kernel, memoria and the CPU together.  Each one keeps to what the   *)
(* other assumed of it, so what was proved of the kernel for all peers and *)
(* of memoria and the CPU for all kernels holds of the system.             *)
(***************************************************************************)
EXTENDS SistemaProps, SequenceTheorems, TLAPS

\* What is proved of the kernel, over the system as the kernel sees it.
VP == INSTANCE KernelFIFOProofs WITH
        aMemoria <- AMemoriaVista, deMemoria <- memoria_kernel, cargados <- CargadosVistos,
        aCpu <- ACpuVista, deCpu <- <<>>, caidos <- Caidos,
        RespuestaMemoria <- StreamVacio(CONF_PR_NUEVO), RespuestasCpu <- {<<>>},
        Caidas <- {"memoria", "cpu"}

\* What is proved of memoria and the CPU.
EP == INSTANCE EjecucionProofs WITH
        kernel <- IF kernel = "vivo" THEN "vivo" ELSE "fin",
        pedidos <- Pedidos, esperaConf <- lp = "confirmar", despachado <- atender = "recibir"

Pids == 0..(MaxPid - 1)

\* The PCB the long-term scheduler is about to ask memoria for is the last it admitted, and
\* younger than the others.
UltimoAdmitido ==
  LET n == Len(VP!Admitidos) IN
  lp = "enviar" => /\ n > 0 /\ VP!Admitidos[n] = pcbLP
                   /\ \A i \in 1..(n - 1) : VP!Admitidos[i] < pcbLP

\* What memoria is about to confirm is the last it loaded.
UltimoCargado ==
  LET n == Len(procesosEnMemoria) IN
  memKernel = "confirmar" => n > 0 /\ procesosEnMemoria[n][1] = pidCargado

SInv == VP!IInv /\ VP!FInv /\ EP!EInv /\ atendidos = <<>> /\ UltimoAdmitido /\ UltimoCargado

-----------------------------------------------------------------------------
(* What the two modules assume *)

LEMMA SupuestosEjecucion == EP!EjecucionAssumption /\ EP!ProgramasAssumption
  BY SistemaAssumption
  DEF EP!EjecucionAssumption, EP!ProgramasAssumption, EP!Palabras, E!Palabras,
      EP!Incompleta, E!Incompleta

LEMMA SupuestosKernel == VP!KernelAssumption
<1>1. StreamVacio(CONF_PR_NUEVO) \in Seq(Byte)
  BY SupuestosEjecucion, EP!TramaDeBytes
  DEF EP!StreamVacio, StreamVacio, EP!StreamCrear, StreamCrear, EP!Int32, Int32,
      EP!CONF_PR_NUEVO, CONF_PR_NUEVO, EP!Byte, Byte
<1>2. {<<>>} \subseteq Seq(Byte)
  OBVIOUS
<1> QED
  BY <1>1, <1>2, SistemaAssumption DEF VP!KernelAssumption, VP!Byte, Byte

\* Types of what the proofs of this module read.
LEMMA Tipos ==
  ASSUME SInv
  PROVE  /\ kernel_memoria \in Seq(Pids) /\ kernel_cpu \in Seq(Pids)
         /\ procesosEnMemoria \in Seq(Pids \X Programas) /\ contexto.pid \in Pids
         /\ archivo \in [Pids -> Programas \union {NULL}]
         /\ VP!Admitidos \in Seq(Pids) /\ Pids \subseteq Nat
         /\ lp \in {"agregarAReady", "enviar", "confirmar", "postear"} => pcbLP \in Pids
         /\ atender \in {"enviar", "recibir"} => pcbAtender \in Pids
<1>1. VP!Pid = Pids /\ EP!Pid = Pids /\ Pids \subseteq Nat
  BY SistemaAssumption DEF VP!Pid, EP!Pid, Pids
<1>2. VP!Admitidos \in Seq(Pids)
  BY <1>1, SupuestosKernel, VP!TipoDelMapa DEF SInv
<1>3. /\ kernel_memoria \in Seq(Pids) /\ kernel_cpu \in Seq(Pids)
      /\ procesosEnMemoria \in Seq(Pids \X Programas) /\ contexto.pid \in Pids
      /\ archivo \in [Pids -> Programas \union {NULL}]
  BY <1>1 DEF SInv, EP!EInv, EP!TypeOK, EP!TipoKernel, EP!TipoRed, EP!TipoMemoria, EP!TipoCpu,
              EP!Contexto
<1> QED
  BY <1>1, <1>2, <1>3 DEF SInv, VP!IInv, VP!Punteros

-----------------------------------------------------------------------------
(* Sequences *)

\* A sequence from its head, and from its last element.
LEMMA DePuntaAPunta ==
  ASSUME NEW S, NEW s \in Seq(S)
  PROVE  /\ SubSeq(s, 1, Len(s)) = s
         /\ \A e \in S : SubSeq(Append(s, e), 1, Len(s)) = s
         /\ s # <<>> => /\ <<Head(s)>> \o Tail(s) = s
                        /\ Append(SubSeq(s, 1, Len(s) - 1), s[Len(s)]) = s
                        /\ Len(SubSeq(s, 1, Len(s) - 1)) = Len(s) - 1
                        /\ \A i \in 1..(Len(s) - 1) : SubSeq(s, 1, Len(s) - 1)[i] = s[i]
<1>1. SubSeq(s, 1, Len(s)) = s
  OBVIOUS
<1>2. ASSUME NEW e \in S PROVE SubSeq(Append(s, e), 1, Len(s)) = s
  OBVIOUS
<1>3. ASSUME s # <<>> PROVE <<Head(s)>> \o Tail(s) = s
  BY <1>3
<1>4. ASSUME s # <<>> PROVE Append(SubSeq(s, 1, Len(s) - 1), s[Len(s)]) = s
  BY <1>4
<1>5. ASSUME s # <<>>
      PROVE  /\ Len(SubSeq(s, 1, Len(s) - 1)) = Len(s) - 1
             /\ \A i \in 1..(Len(s) - 1) : SubSeq(s, 1, Len(s) - 1)[i] = s[i]
  <2>1. Len(s) \in Nat /\ Len(s) > 0
    BY <1>5
  <2>2. Len(s) - 1 \in Int /\ 1 \in Int /\ \A i \in 1..(Len(s) - 1) : s[i] \in S
    BY <2>1
  <2>3. Len(SubSeq(s, 1, Len(s) - 1)) = IF 1 <= Len(s) - 1 THEN (Len(s) - 1) - 1 + 1 ELSE 0
    BY <2>2, SubSeqProperties
  <2>4. \A i \in 1..((Len(s) - 1) - 1 + 1) : SubSeq(s, 1, Len(s) - 1)[i] = s[1 + i - 1]
    BY <2>2, SubSeqProperties
  <2>5. Len(SubSeq(s, 1, Len(s) - 1)) = Len(s) - 1
    <3>1. ASSUME NEW n \in Nat PROVE (IF 1 <= n THEN n - 1 + 1 ELSE 0) = n
      OBVIOUS
    <3>2. Len(s) - 1 \in Nat
      BY <2>1
    <3> QED
      BY <2>3, <3>1, <3>2, Zenon
  <2>6. (Len(s) - 1) - 1 + 1 = Len(s) - 1 /\ \A i \in 1..(Len(s) - 1) : 1 + i - 1 = i
    BY <2>1
  <2> QED
    BY <2>4, <2>5, <2>6
<1> QED
  BY <1>1, <1>2, <1>3, <1>4, <1>5

\* The identifiers of a list of processes to which one is appended.
LEMMA PrimerosAlAgregar ==
  ASSUME NEW S, NEW T, NEW s \in Seq(S \X T), NEW e \in S \X T
  PROVE  /\ [i \in 1..Len(s) |-> s[i][1]] \in Seq(S)
         /\ [i \in 1..Len(Append(s, e)) |-> Append(s, e)[i][1]]
              = Append([i \in 1..Len(s) |-> s[i][1]], e[1])
<1> DEFINE t == Append(s, e)
           u == [i \in 1..Len(t) |-> t[i][1]]
           v == [i \in 1..Len(s) |-> s[i][1]]
<1>1. /\ t \in Seq(S \X T) /\ Len(t) = Len(s) + 1 /\ t[Len(s) + 1] = e /\ Len(s) \in Nat
      /\ \A i \in 1..Len(s) : t[i] = s[i]
  BY AppendProperties
<1>2. v \in Seq(S) /\ Len(v) = Len(s) /\ e[1] \in S
  OBVIOUS
<1> HIDE DEF t
<1>3. u \in Seq(S) /\ Len(u) = Len(t)
  BY <1>1
<1>4. \A i \in 1..Len(s) : u[i] = v[i]
  BY <1>1
<1>5. u[Len(s) + 1] = e[1]
  BY <1>1
<1> HIDE DEF u, v
<1>6. /\ Append(v, e[1]) \in Seq(S) /\ Len(Append(v, e[1])) = Len(v) + 1
      /\ Append(v, e[1])[Len(v) + 1] = e[1] /\ \A i \in 1..Len(v) : Append(v, e[1])[i] = v[i]
  BY <1>2, AppendProperties
<1>7. u = Append(v, e[1])
  BY <1>1, <1>2, <1>3, <1>4, <1>5, <1>6, SeqEqual
<1> QED
  BY <1>2, <1>7 DEF t, u, v

-----------------------------------------------------------------------------
(* The steps of the kernel, as it sees them *)

\* What a step of the kernel does to the sockets it sees.
LEMMA RedVista ==
  ASSUME UNCHANGED memoriaCpu
  PROVE  /\ Caidos' = Caidos /\ CargadosVistos' = CargadosVistos
         /\ UNCHANGED kernel_memoria => AMemoriaVista' = AMemoriaVista
         /\ UNCHANGED kernel_cpu => ACpuVista' = ACpuVista
         /\ K!red' = K!red => VP!red' = VP!red
<1>1. /\ Caidos' = Caidos /\ CargadosVistos' = CargadosVistos
      /\ UNCHANGED kernel_memoria => AMemoriaVista' = AMemoriaVista
      /\ UNCHANGED kernel_cpu => ACpuVista' = ACpuVista
  BY DEF memoriaCpu, Caidos, CargadosVistos, PidsEnMemoria, AMemoriaVista, ACpuVista, SinConfirmar
<1> QED
  BY <1>1 DEF K!red, VP!red, K!redMemoria, VP!redMemoria, K!redCpu, VP!redCpu

\* The console touches no socket.
LEMMA ConsolaVista == K!ConsolaComando /\ UNCHANGED memoriaCpu => VP!ConsolaComando
<1> SUFFICES ASSUME K!ConsolaComando, UNCHANGED memoriaCpu PROVE VP!ConsolaComando
  OBVIOUS
<1> QED
  BY RedVista
  DEF K!ConsolaComando, VP!ConsolaComando, K!IniciarProceso, VP!IniciarProceso,
      K!FinalizarProceso, VP!FinalizarProceso, K!ComandoSinArgumento, VP!ComandoSinArgumento,
      K!CerrarConsola, VP!CerrarConsola, K!PasoConsola, VP!PasoConsola, K!NuevoPID, VP!NuevoPID,
      K!Pid, VP!Pid, K!consolaVars, VP!consolaVars, K!lpVars, VP!lpVars, K!cpVars, VP!cpVars,
      K!atenderVars, VP!atenderVars, K!listas, VP!listas, K!semaforos, VP!semaforos, K!Termina,
      VP!Termina

\* Nor does the rest of a command.
LEMMA ConsolaSigueVista == K!ConsolaSigue /\ UNCHANGED memoriaCpu => VP!ConsolaSigue
<1> SUFFICES ASSUME K!ConsolaSigue, UNCHANGED memoriaCpu PROVE VP!ConsolaSigue
  OBVIOUS
<1> QED
  BY RedVista
  DEF K!ConsolaSigue, VP!ConsolaSigue, K!EnlazarEnNew, VP!EnlazarEnNew, K!EnlazarRompe,
      VP!EnlazarRompe, K!ResultadosDeEnlazar, VP!ResultadosDeEnlazar, K!PostearNew,
      VP!PostearNew, K!UbicarPcb, VP!UbicarPcb, K!Buscar, VP!Buscar, K!BuscarRompe,
      VP!BuscarRompe, K!FinalizarNulo, VP!FinalizarNulo, K!FinalizarPcb, VP!FinalizarPcb,
      K!PasoConsola, VP!PasoConsola, K!Range, VP!Range, K!consolaVars, VP!consolaVars, K!lpVars,
      VP!lpVars, K!cpVars, VP!cpVars, K!atenderVars, VP!atenderVars, K!listas, VP!listas,
      K!semaforos, VP!semaforos, K!Termina, VP!Termina

\* Nor does the short-term scheduler.
LEMMA CortoPlazoVisto ==
  K!PlanificadorCortoPlazo /\ UNCHANGED memoriaCpu => VP!PlanificadorCortoPlazo
<1> SUFFICES ASSUME K!PlanificadorCortoPlazo, UNCHANGED memoriaCpu PROVE VP!PlanificadorCortoPlazo
  OBVIOUS
<1> QED
  BY RedVista
  DEF K!PlanificadorCortoPlazo, VP!PlanificadorCortoPlazo, K!CPEsperarDispatch,
      VP!CPEsperarDispatch, K!CPEsperarReady, VP!CPEsperarReady, K!CPSacarDeReady,
      VP!CPSacarDeReady, K!CPAgregarAExec, VP!CPAgregarAExec, K!CPPostearExec, VP!CPPostearExec,
      K!Encolar, VP!Encolar, K!PasoCP, VP!PasoCP, K!consolaVars, VP!consolaVars, K!lpVars,
      VP!lpVars, K!cpVars, VP!cpVars, K!atenderVars, VP!atenderVars

\* The long-term scheduler sends a request behind those that are still to be answered.
LEMMA LargoPlazoVisto ==
  SInv /\ K!PlanificadorLargoPlazo /\ UNCHANGED memoriaCpu => VP!PlanificadorLargoPlazo
<1> SUFFICES ASSUME SInv, K!PlanificadorLargoPlazo, UNCHANGED memoriaCpu
             PROVE  VP!PlanificadorLargoPlazo
  OBVIOUS
<1>1. CASE K!LPEnviarAMemoria
  <2>1. /\ lp = "enviar" /\ kernel_memoria' = IF "memoria" \in Caidos THEN kernel_memoria
                                              ELSE Append(kernel_memoria, pcbLP)
        /\ UNCHANGED <<kernel_cpu, memoria, memKernel, pidCargado>>
    BY <1>1 DEF K!LPEnviarAMemoria, K!PasoLP, K!redCpu, memoriaCpu
  <2>2. pcbLP \in Pids /\ kernel_memoria \in Seq(Pids)
    BY <2>1, Tipos
  <2>3. SinConfirmar \o Append(kernel_memoria, pcbLP)
          = Append(SinConfirmar \o kernel_memoria, pcbLP)
    BY <2>2 DEF SinConfirmar
  <2>4. AMemoriaVista' = IF "memoria" \in Caidos THEN AMemoriaVista
                         ELSE Append(AMemoriaVista, pcbLP)
    BY <2>1, <2>3 DEF AMemoriaVista, SinConfirmar, Caidos
  <2>5. VP!LPEnviarAMemoria
    BY <1>1, <2>4, RedVista
    DEF K!LPEnviarAMemoria, VP!LPEnviarAMemoria, K!PasoLP, VP!PasoLP, K!redCpu, VP!redCpu,
        K!consolaVars, VP!consolaVars, K!cpVars, VP!cpVars, K!atenderVars, VP!atenderVars
  <2> QED
    BY <2>5 DEF VP!PlanificadorLargoPlazo
<1>2. CASE ~K!LPEnviarAMemoria
  BY <1>2, RedVista
  DEF K!PlanificadorLargoPlazo, VP!PlanificadorLargoPlazo, K!LPEsperarNew, VP!LPEsperarNew,
      K!LPEsperarGrado, VP!LPEsperarGrado, K!LPSacarDeNew, VP!LPSacarDeNew, K!LPSacarDeNewVacia,
      VP!LPSacarDeNewVacia, K!LPAgregarAReady, VP!LPAgregarAReady, K!LPEnviarSigpipe,
      VP!LPEnviarSigpipe, K!LPConfirmar, VP!LPConfirmar, K!LPRechazar, VP!LPRechazar,
      K!LPConfirmarBasura, VP!LPConfirmarBasura, K!LPRechazarBasura, VP!LPRechazarBasura,
      K!LPPostearReady, VP!LPPostearReady, K!Confirma, VP!Confirma, K!CONF_PR_NUEVO,
      VP!CONF_PR_NUEVO, K!Encolar, VP!Encolar, K!PasoLP, VP!PasoLP, K!redCpu, VP!redCpu,
      K!consolaVars, VP!consolaVars, K!lpVars, VP!lpVars, K!cpVars, VP!cpVars, K!atenderVars,
      VP!atenderVars, K!listas, VP!listas, K!semaforos, VP!semaforos, K!Termina, VP!Termina
<1> QED
  BY <1>1, <1>2

\* atender_pcb sends a context to the CPU.
LEMMA AtenderVisto == K!AtenderPcb /\ UNCHANGED memoriaCpu => VP!AtenderPcb
<1> SUFFICES ASSUME K!AtenderPcb, UNCHANGED memoriaCpu PROVE VP!AtenderPcb
  OBVIOUS
<1>1. CASE K!AtEnviarACpu
  <2>1. kernel_cpu' = (IF "cpu" \in Caidos THEN kernel_cpu ELSE Append(kernel_cpu, pcbAtender))
        /\ UNCHANGED <<kernel_memoria, memoria_kernel, cpu>>
    BY <1>1 DEF K!AtEnviarACpu, K!PasoAtender, K!redMemoria, memoriaCpu
  <2>2. ACpuVista' = IF "cpu" \in Caidos THEN ACpuVista ELSE Append(ACpuVista, pcbAtender)
    BY <2>1 DEF ACpuVista, Caidos
  <2>3. VP!AtEnviarACpu
    BY <1>1, <2>1, <2>2, RedVista
    DEF K!AtEnviarACpu, VP!AtEnviarACpu, K!PasoAtender, VP!PasoAtender, K!redMemoria,
        VP!redMemoria, K!consolaVars, VP!consolaVars, K!lpVars, VP!lpVars, K!cpVars, VP!cpVars
  <2> QED
    BY <2>3 DEF VP!AtenderPcb
<1>2. CASE ~K!AtEnviarACpu
  BY <1>2, RedVista
  DEF K!AtenderPcb, VP!AtenderPcb, K!AtEsperarExec, VP!AtEsperarExec, K!AtTomarPcb,
      VP!AtTomarPcb, K!AtEnviarSigpipe, VP!AtEnviarSigpipe, K!AtProcesoTerminado,
      VP!AtProcesoTerminado, K!AtOtraRespuesta, VP!AtOtraRespuesta, K!AtCpuCerrada,
      VP!AtCpuCerrada, K!AtPostearDispatch, VP!AtPostearDispatch, K!HEADER_proceso_terminado,
      VP!HEADER_proceso_terminado, K!PasoAtender, VP!PasoAtender, K!redMemoria, VP!redMemoria,
      K!consolaVars, VP!consolaVars, K!lpVars, VP!lpVars, K!cpVars, VP!cpVars, K!atenderVars,
      VP!atenderVars, K!listas, VP!listas, K!semaforos, VP!semaforos, K!Termina, VP!Termina
<1> QED
  BY <1>1, <1>2

-----------------------------------------------------------------------------
(* The steps of memoria and the CPU, as the kernel sees them *)

\* The actions of memoria and the CPU are those their proofs are about.
LEMMA MismosPares ==
  /\ E!HiloKernel \/ E!HiloCpu \/ E!MemCaeConElKernel \/ E!MemCaeConLaCpu => EP!PasosMemoria
  /\ E!Cpu => EP!Cpu
  BY DEF EP!PasosMemoria, E!HiloKernel, EP!HiloKernel, E!MemCarga, EP!MemCarga, E!MemNoAbre,
         EP!MemNoAbre,
         E!MemConfirma, EP!MemConfirma, E!HiloCpu, EP!HiloCpu, E!MemBusca, EP!MemBusca,
         E!MemBuscaNulo, EP!MemBuscaNulo, E!MemResponde, EP!MemResponde, E!MemCaeConElKernel,
         EP!MemCaeConElKernel, E!MemCaeConLaCpu, EP!MemCaeConLaCpu, E!Cpu, EP!Cpu,
         E!CpuRecibeContexto, EP!CpuRecibeContexto, E!CpuSinKernel, EP!CpuSinKernel, E!CpuPide,
         EP!CpuPide, E!CpuRecibe, EP!CpuRecibe, E!CpuSinMemoria, EP!CpuSinMemoria, E!CpuEjecuta,
         EP!CpuEjecuta, E!CpuEjecutaIncompleta, EP!CpuEjecutaIncompleta, E!Para, EP!Para,
         E!Incompleta, EP!Incompleta, E!EfectoSET, EP!EfectoSET, E!Enviado, EP!Enviado,
         E!PasoMemoria, EP!PasoMemoria, E!PasoCpu, EP!PasoCpu, E!kernelVars, EP!kernelVars,
         E!memKernelVars, EP!memKernelVars, E!memCpuVars, EP!memCpuVars, E!cpuVars, EP!cpuVars,
         E!Conocido, EP!Conocido, E!Instrucciones, EP!Instrucciones, E!Indice, EP!Indice,
         E!CONF_PR_NUEVO, EP!CONF_PR_NUEVO, E!StreamVacio, EP!StreamVacio, E!StreamCrear,
         EP!StreamCrear, E!Int32, EP!Int32

\* Nothing of the kernel moves.
LEMMA HilosQuietos ==
  UNCHANGED hilosKernel => VP!PasoPar
  BY DEF hilosKernel, VP!PasoPar, VP!consolaVars, VP!lpVars, VP!cpVars, VP!atenderVars, VP!listas,
         VP!semaforos

\* memoria loads a process: it is still to be confirmed.  memoria confirms it: now the
\* kernel sees it loaded.
LEMMA CargaVista ==
  ASSUME SInv, UNCHANGED hilosKernel
  PROVE  /\ EP!MemCarga => UNCHANGED VP!vars
         /\ EP!MemConfirma => VP!MemoriaAtiende
<1>1. ASSUME EP!MemCarga PROVE UNCHANGED VP!vars
  <2> DEFINE pid == Head(kernel_memoria)
             proceso == <<pid, archivo[pid]>>
  <2>1. /\ memoria = "vivo" /\ memoria' = "vivo" /\ memKernel = "esperar"
        /\ memKernel' = "confirmar"
        /\ pidCargado' = pid /\ kernel_memoria # <<>> /\ kernel_memoria' = Tail(kernel_memoria)
        /\ procesosEnMemoria' = Append(procesosEnMemoria, proceso) /\ archivo[pid] # NULL
        /\ UNCHANGED <<cpu, kernel_cpu, memoria_kernel>>
    BY <1>1 DEF EP!MemCarga, EP!PasoMemoria, EP!cpuVars
  <2>2. pid \in Pids /\ proceso \in Pids \X Programas
    BY <2>1, Tipos
  <2>3. AMemoriaVista' = AMemoriaVista
    <3>1. AMemoriaVista = <<>> \o kernel_memoria /\ AMemoriaVista' = <<pid>> \o Tail(kernel_memoria)
      BY <2>1 DEF AMemoriaVista, SinConfirmar
    <3> QED
      BY <2>1, <3>1, Tipos, DePuntaAPunta
  <2>4. PidsEnMemoria \in Seq(Pids) /\ PidsEnMemoria' = Append(PidsEnMemoria, pid)
    <3> DEFINE s == procesosEnMemoria
    <3>1. s \in Seq(Pids \X Programas) /\ s' = Append(s, proceso) /\ proceso[1] = pid
      BY <2>1, Tipos
    <3>2. /\ PidsEnMemoria = [i \in 1..Len(s) |-> s[i][1]]
          /\ PidsEnMemoria' = [i \in 1..Len(s') |-> s'[i][1]]
      BY DEF PidsEnMemoria
    <3> HIDE DEF s, proceso
    <3>3. /\ [i \in 1..Len(s) |-> s[i][1]] \in Seq(Pids)
          /\ [i \in 1..Len(Append(s, proceso)) |-> Append(s, proceso)[i][1]]
              = Append([i \in 1..Len(s) |-> s[i][1]], proceso[1])
      BY <2>2, <3>1, PrimerosAlAgregar
    <3> QED
      BY <3>1, <3>2, <3>3
  <2>5. CargadosVistos' = CargadosVistos
    <3>1. /\ CargadosVistos = SubSeq(PidsEnMemoria, 1, Len(PidsEnMemoria))
          /\ CargadosVistos' = SubSeq(PidsEnMemoria', 1, Len(PidsEnMemoria))
      BY <2>1, <2>2, <2>4 DEF CargadosVistos, SinConfirmar
    <3> QED
      BY <2>2, <2>4, <3>1, DePuntaAPunta
  <2> QED
    BY <2>1, <2>3, <2>5, HilosQuietos
    DEF VP!vars, VP!PasoPar, VP!red, VP!redMemoria, VP!redCpu, Caidos, ACpuVista
<1>2. ASSUME EP!MemConfirma PROVE VP!MemoriaAtiende
  <2>1. /\ memoria = "vivo" /\ memoria' = "vivo" /\ memKernel = "confirmar"
        /\ memKernel' = "esperar"
        /\ UNCHANGED <<cpu, kernel_cpu, kernel_memoria, procesosEnMemoria>>
        /\ memoria_kernel' = memoria_kernel \o StreamVacio(CONF_PR_NUEVO)
    BY <1>2 DEF EP!MemConfirma, EP!PasoMemoria, EP!cpuVars, EP!StreamVacio, StreamVacio,
                EP!StreamCrear, StreamCrear, EP!Int32, Int32, EP!CONF_PR_NUEVO, CONF_PR_NUEVO
  <2>2. /\ PidsEnMemoria \in Seq(Pids) /\ PidsEnMemoria # <<>> /\ PidsEnMemoria' = PidsEnMemoria
        /\ PidsEnMemoria[Len(PidsEnMemoria)] = pidCargado
    <3>1. /\ procesosEnMemoria \in Seq(Pids \X Programas) /\ Len(procesosEnMemoria) > 0
          /\ procesosEnMemoria[Len(procesosEnMemoria)][1] = pidCargado
      BY <2>1, Tipos DEF SInv, UltimoCargado
    <3>2. \A i \in 1..Len(procesosEnMemoria) : procesosEnMemoria[i][1] \in Pids
      BY <3>1
    <3>3. PidsEnMemoria \in Seq(Pids) /\ Len(PidsEnMemoria) = Len(procesosEnMemoria)
      BY <3>1, <3>2 DEF PidsEnMemoria
    <3>4. PidsEnMemoria[Len(procesosEnMemoria)] = pidCargado
      BY <3>1 DEF PidsEnMemoria
    <3>5. PidsEnMemoria' = PidsEnMemoria
      BY <2>1 DEF PidsEnMemoria
    <3> QED
      BY <3>1, <3>3, <3>4, <3>5
  <2>3. pidCargado \in Pids
    BY <2>2
  <2>4. AMemoriaVista = <<pidCargado>> \o kernel_memoria /\ AMemoriaVista' = <<>> \o kernel_memoria
    BY <2>1 DEF AMemoriaVista, SinConfirmar
  <2>5. AMemoriaVista # <<>> /\ Head(AMemoriaVista) = pidCargado
        /\ AMemoriaVista' = Tail(AMemoriaVista)
    <3>1. ASSUME NEW s \in Seq(Pids), NEW e \in Pids
          PROVE  /\ <<e>> \o s # <<>> /\ Head(<<e>> \o s) = e
                 /\ Tail(<<e>> \o s) = <<>> \o s
      OBVIOUS
    <3>2. kernel_memoria \in Seq(Pids)
      BY Tipos
    <3> QED
      BY <2>3, <2>4, <3>1, <3>2
  <2>6. /\ CargadosVistos = SubSeq(PidsEnMemoria, 1, Len(PidsEnMemoria) - 1)
        /\ CargadosVistos' = SubSeq(PidsEnMemoria, 1, Len(PidsEnMemoria))
    BY <2>1, <2>2 DEF CargadosVistos, SinConfirmar
  <2>7. CargadosVistos' = Append(CargadosVistos, pidCargado)
    <3>1. ASSUME NEW s \in Seq(Pids), s # <<>>
          PROVE  SubSeq(s, 1, Len(s)) = Append(SubSeq(s, 1, Len(s) - 1), s[Len(s)])
      BY <3>1, DePuntaAPunta
    <3> QED
      BY <2>2, <2>6, <3>1
  <2> QED
    BY <2>1, <2>5, <2>7, HilosQuietos DEF VP!MemoriaAtiende, VP!redCpu, Caidos, ACpuVista
<1> QED
  BY <1>1, <1>2

\* The rest of what memoria does, the kernel sees only if memoria ends.
LEMMA MemoriaVista ==
  ASSUME SInv, UNCHANGED hilosKernel, EP!PasosMemoria
  PROVE  VP!Pares \/ UNCHANGED VP!vars
<1>1. CASE EP!MemCarga \/ EP!MemConfirma
  BY <1>1, CargaVista DEF VP!Pares
<1>2. CASE EP!MemBusca \/ EP!MemResponde
  <2>1. UNCHANGED <<memoria, memKernel, pidCargado, procesosEnMemoria, cpu, kernel_memoria,
                    memoria_kernel, kernel_cpu>>
    BY <1>2 DEF EP!MemBusca, EP!MemResponde, EP!PasoMemoria, EP!memKernelVars, EP!cpuVars
  <2> QED
    BY <2>1, HilosQuietos
    DEF VP!vars, VP!PasoPar, VP!red, VP!redMemoria, VP!redCpu, Caidos, ACpuVista, AMemoriaVista,
        CargadosVistos, SinConfirmar, PidsEnMemoria
<1>3. CASE EP!FinDeMemoria
  <2>1. /\ memoria = "vivo" /\ memoria' # "vivo"
        /\ UNCHANGED <<memKernel, procesosEnMemoria, pidCargado, cpu, memoria_kernel, kernel_cpu>>
    BY <1>3, SupuestosEjecucion, EP!Ajeno DEF EP!memKernelVars, EP!cpuVars
  <2> QED
    BY <2>1, HilosQuietos
    DEF VP!Pares, VP!MemoriaCae, VP!redCpu, Caidos, ACpuVista, AMemoriaVista, CargadosVistos,
        SinConfirmar, PidsEnMemoria
<1> QED
  BY <1>1, <1>2, <1>3 DEF EP!PasosMemoria, EP!FinDeMemoria

\* The CPU takes the context and answers nothing, or ends.
LEMMA CpuVista ==
  ASSUME SInv, UNCHANGED hilosKernel, EP!Cpu
  PROVE  VP!Pares \/ UNCHANGED VP!vars
<1>1. cpu = "vivo" /\ UNCHANGED <<memoria, memKernel, pidCargado, procesosEnMemoria,
                                   kernel_memoria, memoria_kernel>>
  BY SupuestosEjecucion, EP!Ajeno DEF EP!memKernelVars
<1>2. /\ AMemoriaVista' = AMemoriaVista /\ CargadosVistos' = CargadosVistos
      /\ ("memoria" \in Caidos') = ("memoria" \in Caidos)
  BY <1>1 DEF AMemoriaVista, CargadosVistos, SinConfirmar, PidsEnMemoria, Caidos
<1>3. CASE EP!CpuRecibeContexto
  <2>1. cpu' = "vivo" /\ kernel_cpu # <<>> /\ kernel_cpu' = Tail(kernel_cpu)
    BY <1>3 DEF EP!CpuRecibeContexto, EP!PasoCpu
  <2> QED
    BY <1>1, <1>2, <2>1, HilosQuietos
    DEF VP!Pares, VP!CpuAtiende, VP!redMemoria, Caidos, ACpuVista
<1>4. CASE EP!CpuPide \/ EP!CpuRecibe \/ EP!CpuEjecuta
  <2>1. UNCHANGED <<cpu, kernel_cpu>>
    BY <1>4 DEF EP!CpuPide, EP!CpuRecibe, EP!CpuEjecuta, EP!PasoCpu
  <2> QED
    BY <1>1, <1>2, <2>1, HilosQuietos
    DEF VP!vars, VP!PasoPar, VP!red, VP!redMemoria, VP!redCpu, Caidos, ACpuVista
<1>5. CASE EP!FinDeLaCpu
  <2>1. cpu' # "vivo" /\ UNCHANGED kernel_cpu
    BY <1>5, SupuestosEjecucion, EP!Ajeno
  <2> QED
    BY <1>1, <1>2, <2>1, HilosQuietos
    DEF VP!Pares, VP!CpuCae, VP!redMemoria, Caidos, ACpuVista
<1> QED
  BY <1>3, <1>4, <1>5 DEF EP!Cpu, EP!FinDeLaCpu

-----------------------------------------------------------------------------
(* The steps of the kernel, as memoria and the CPU see them *)

HilosDelKernel == K!ConsolaComando \/ K!ConsolaSigue \/ K!PlanificadorLargoPlazo
                  \/ K!PlanificadorCortoPlazo \/ K!AtenderPcb

\* The kernel is one the theorems about it speak of.
LEMMA HilosVistos == SInv /\ HilosDelKernel /\ UNCHANGED memoriaCpu => VP!Next
  BY ConsolaVista, ConsolaSigueVista, LargoPlazoVisto, CortoPlazoVisto, AtenderVisto
  DEF HilosDelKernel, VP!Next

EnviaAMemoria == lp = "enviar" /\ lp' # "enviar"

\* The kernel ends, sends, reads, or does something nobody else sees.  The CPU never answers.
LEMMA LoQueSeVe ==
  ASSUME HilosDelKernel
  PROVE  \/ \E causa \in {"exit", "segfault", "sigpipe", "fin"} : K!Termina(causa)
         \/ K!LPEnviarAMemoria \/ K!LPConfirmar \/ K!LPConfirmarBasura \/ K!AtEnviarACpu
         \/ /\ ~EnviaAMemoria
            /\ UNCHANGED <<kernel, kernel_memoria, memoria_kernel, kernel_cpu>>
            /\ (lp' = "confirmar") = (lp = "confirmar")
            /\ (atender' = "recibir") = (atender = "recibir")
<1> USE DEF EnviaAMemoria, K!red, K!redMemoria, K!redCpu, K!lpVars, K!atenderVars
<1>1. CASE K!ConsolaComando \/ K!ConsolaSigue
  BY <1>1 DEF K!ConsolaComando, K!IniciarProceso, K!FinalizarProceso, K!ComandoSinArgumento,
              K!CerrarConsola, K!ConsolaSigue, K!EnlazarEnNew, K!EnlazarRompe, K!PostearNew,
              K!UbicarPcb, K!Buscar, K!BuscarRompe, K!FinalizarNulo, K!FinalizarPcb,
              K!PasoConsola
<1>2. CASE K!PlanificadorLargoPlazo
  BY <1>2 DEF K!PlanificadorLargoPlazo, K!LPEsperarNew, K!LPEsperarGrado, K!LPSacarDeNew,
              K!LPSacarDeNewVacia, K!LPAgregarAReady, K!LPEnviarSigpipe, K!LPRechazar,
              K!LPRechazarBasura, K!LPPostearReady, K!PasoLP
<1>3. CASE K!PlanificadorCortoPlazo
  BY <1>3 DEF K!PlanificadorCortoPlazo, K!CPEsperarDispatch, K!CPEsperarReady, K!CPSacarDeReady,
              K!CPAgregarAExec, K!CPPostearExec, K!PasoCP
<1>4. CASE K!AtenderPcb
  BY <1>4 DEF K!AtenderPcb, K!AtEsperarExec, K!AtTomarPcb, K!AtEnviarSigpipe,
              K!AtProcesoTerminado, K!AtOtraRespuesta, K!AtCpuCerrada, K!AtPostearDispatch,
              K!PasoAtender
<1> QED
  BY <1>1, <1>2, <1>3, <1>4 DEF HilosDelKernel

\* Nobody is attended, and only list_add on READY admits.
LEMMA Admisiones ==
  ASSUME SInv, [VP!Next]_VP!vars
  PROVE  /\ atendidos' = atendidos
         /\ \/ /\ lp = "agregarAReady" /\ lp' = "enviar" /\ UNCHANGED pcbLP
               /\ VP!Admitidos' = Append(VP!Admitidos, pcbLP)
            \/ /\ VP!Admitidos' = VP!Admitidos
               /\ lp' = "enviar" => lp = "enviar" /\ UNCHANGED pcbLP
<1> USE SupuestosKernel DEF SInv
<1>1. CASE VP!LPAgregarAReady
  BY <1>1, VP!PasoAdmitir DEF VP!LPAgregarAReady, VP!PasoLP
<1>2. ~VP!AtProcesoTerminado
  BY DEF VP!AtProcesoTerminado
<1>3. CASE ~VP!LPAgregarAReady
  <2>1. /\ UNCHANGED <<VP!Admitidos, atendidos>>
    <3>1. CASE VP!CPSacarDeReady
      BY <3>1, VP!PasoDespachar
    <3>2. CASE ~VP!CPSacarDeReady
      BY <1>2, <1>3, <3>2, VP!PasoInvisible
    <3> QED
      BY <3>1, <3>2
  <2>2. lp' = "enviar" => lp = "enviar" /\ UNCHANGED pcbLP
    <3>1. CASE VP!PasosLP
      BY <1>3, <3>1 DEF VP!PasosLP, VP!LPEsperarNew, VP!LPEsperarGrado, VP!LPSacarDeNew,
         VP!LPEnviarAMemoria, VP!LPConfirmar, VP!LPConfirmarBasura, VP!LPPostearReady, VP!PasoLP
    <3>2. CASE ~VP!PasosLP
      BY <3>2, VP!Desglose, VP!Ajeno DEF VP!vars, VP!lpVars
    <3> QED
      BY <3>1, <3>2
  <2> QED
    BY <2>1, <2>2
<1> QED
  BY <1>1, <1>3

\* What the other two see as asked for grows when the request is sent.
LEMMA PedidosCrecen ==
  ASSUME SInv, [VP!Next]_VP!vars
  PROVE  /\ EnviaAMemoria => /\ Pedidos' = Append(Pedidos, pcbLP)
                             /\ \A i \in 1..Len(Pedidos) : Pedidos[i] < pcbLP
         /\ ~EnviaAMemoria => Pedidos' = Pedidos
<1> DEFINE A == VP!Admitidos
           n == Len(A)
<1>1. A \in Seq(Pids) /\ n \in Nat
  BY Tipos
<1>2. K!Admitidos = A
  BY DEF K!Admitidos, VP!Admitidos
<1>3. Pedidos = IF lp = "enviar" THEN SubSeq(A, 1, n - 1) ELSE A
  BY <1>2 DEF Pedidos
<1>4. Pedidos' = IF lp' = "enviar" THEN SubSeq(A', 1, n' - 1) ELSE A'
  BY <1>2 DEF Pedidos, K!Admitidos, VP!Admitidos
<1>5. lp = "enviar" => n > 0 /\ A[n] = pcbLP /\ \A i \in 1..(n - 1) : A[i] < pcbLP
  BY DEF SInv, UltimoAdmitido
<1>6. CASE /\ lp = "agregarAReady" /\ lp' = "enviar" /\ A' = Append(A, pcbLP)
  <2>1. pcbLP \in Pids
    BY <1>6, Tipos
  <2>2. n' - 1 = n
    BY <1>1, <1>6, <2>1
  <2> HIDE DEF A
  <2> QED
    BY <1>1, <1>3, <1>4, <1>6, <2>1, <2>2, DePuntaAPunta DEF EnviaAMemoria
<1>7. CASE A' = A /\ (lp' = "enviar" => lp = "enviar")
  <2> HIDE DEF A
  <2>1. CASE EnviaAMemoria
    <3>1. Pedidos = SubSeq(A, 1, n - 1) /\ Pedidos' = A /\ A # <<>>
      BY <1>1, <1>3, <1>4, <1>5, <1>7, <2>1 DEF EnviaAMemoria
    <3>2. Append(SubSeq(A, 1, n - 1), A[n]) = A
      BY <1>1, <3>1, DePuntaAPunta
    <3>3. n > 0 /\ A[n] = pcbLP /\ \A i \in 1..(n - 1) : A[i] < pcbLP
      BY <1>5, <2>1 DEF EnviaAMemoria
    <3>4. Len(SubSeq(A, 1, n - 1)) = n - 1 /\ \A i \in 1..(n - 1) : SubSeq(A, 1, n - 1)[i] = A[i]
      BY <1>1, <3>1, DePuntaAPunta
    <3> QED
      BY <2>1, <3>1, <3>2, <3>3, <3>4
  <2>2. CASE ~EnviaAMemoria
    BY <1>3, <1>4, <1>7, <2>2 DEF EnviaAMemoria
  <2> QED
    BY <2>1, <2>2
<1> QED
  BY <1>6, <1>7, Admisiones

\* The PCB that is dispatched is the first that was asked for, and memoria has confirmed it.
LEMMA PrimerPedido ==
  ASSUME SInv, atender \in {"enviar", "recibir"}
  PROVE  /\ Pedidos # <<>> /\ Head(Pedidos) = pcbAtender
         /\ Len(Pedidos) > 1 \/ (Len(Pedidos) = 1 /\ lp # "confirmar")
<1> USE SupuestosKernel DEF SInv
<1>1. pcbAtender \in Pids /\ procesosEnReady \in Seq(Pids)
  BY Tipos DEF VP!IInv, VP!TypeOK, VP!TipoListas, VP!Pid, Pids
<1>2. pcbEnExec = <<pcbAtender>>
  BY DEF VP!FInv, VP!ElQueAtiende
<1>3. cp # "agregarAExec"
  BY <1>1, <1>2, VP!ExecVacia
<1>4. K!Admitidos = <<>> \o <<pcbAtender>> \o <<>> \o procesosEnReady
  BY <1>2, <1>3 DEF K!Admitidos
<1>5. K!Admitidos = <<pcbAtender>> \o procesosEnReady
  BY <1>1, <1>4
<1>6. lp \in {"enviar", "confirmar"} => Len(procesosEnReady) > 0
  BY DEF VP!IInv, VP!TypeOK, VP!TipoSemaforos, VP!CuentasDeSemaforos, VP!CuentaReady, VP!EnMano
<1>7. CASE lp = "enviar"
  <2>1. Pedidos = SubSeq(<<pcbAtender>> \o procesosEnReady, 1, Len(procesosEnReady))
    BY <1>1, <1>5, <1>7 DEF Pedidos
  <2>2. Len(Pedidos) = Len(procesosEnReady) /\ Len(procesosEnReady) > 0 /\ Pedidos[1] = pcbAtender
    BY <1>1, <1>6, <1>7, <2>1
  <2> QED
    BY <1>1, <1>7, <2>1, <2>2
<1>8. CASE lp # "enviar"
  BY <1>1, <1>5, <1>6, <1>8 DEF Pedidos
<1> QED
  BY <1>7, <1>8

\* A step of the kernel is one of the reduced kernel, or is not seen.
LEMMA KernelReducido ==
  SInv /\ HilosDelKernel /\ UNCHANGED memoriaCpu => [EP!Next]_EP!vars
<1> SUFFICES ASSUME SInv, HilosDelKernel, UNCHANGED memoriaCpu PROVE [EP!Next]_EP!vars
  OBVIOUS
<1>1. VP!Next /\ [VP!Next]_VP!vars
  BY HilosVistos
<1>2. UNCHANGED <<archivo, memoria, EP!memKernelVars, EP!memCpuVars, procesosEnMemoria, EP!cpuVars,
                  cpu_memoria, memoria_cpu>>
  BY DEF memoriaCpu, EP!memKernelVars, EP!memCpuVars, EP!cpuVars
<1>3. CASE \E causa \in {"exit", "segfault", "sigpipe", "fin"} : K!Termina(causa)
  <2>1. /\ kernel = "vivo" /\ kernel' # "vivo"
        /\ UNCHANGED <<lp, atender, kernel_memoria, memoria_kernel, kernel_cpu>>
    BY <1>3 DEF K!Termina, K!lpVars, K!atenderVars, K!red, K!redMemoria, K!redCpu
  <2>2. Pedidos' = Pedidos
    BY <1>1, <2>1, PedidosCrecen DEF EnviaAMemoria
  <2>3. EP!KernelTermina
    BY <1>2, <2>1, <2>2 DEF EP!KernelTermina, EP!PasoKernel
  <2> QED
    BY <2>3 DEF EP!Next
<1>4. CASE K!LPEnviarAMemoria
  <2>1. /\ kernel = "vivo" /\ kernel' = kernel /\ lp = "enviar" /\ lp' = "confirmar"
        /\ kernel_memoria' = IF "memoria" \in Caidos THEN kernel_memoria
                             ELSE Append(kernel_memoria, pcbLP)
        /\ UNCHANGED <<atender, memoria_kernel, kernel_cpu>>
    BY <1>4 DEF K!LPEnviarAMemoria, K!PasoLP, K!atenderVars, K!redCpu
  <2>2. Pedidos' = Append(Pedidos, pcbLP) /\ \A i \in 1..Len(Pedidos) : Pedidos[i] < pcbLP
    BY <1>1, <2>1, PedidosCrecen DEF EnviaAMemoria
  <2>3. pcbLP \in EP!Pid
    BY <2>1, Tipos DEF EP!Pid, Pids
  <2>4. EP!KernelPideProceso(pcbLP)
    BY <1>2, <2>1, <2>2 DEF EP!KernelPideProceso, EP!PasoKernel, EP!Enviado, Caidos
  <2> QED
    BY <2>3, <2>4 DEF EP!Next
<1>5. CASE K!LPConfirmar \/ K!LPConfirmarBasura
  <2>1. /\ kernel = "vivo" /\ kernel' = kernel /\ lp = "confirmar" /\ lp' = "postear"
        /\ \/ /\ memoria_kernel # <<>> /\ Head(memoria_kernel) = CONF_PR_NUEVO
              /\ memoria_kernel' = Tail(memoria_kernel)
           \/ memoria_kernel = <<>> /\ memoria # "vivo" /\ UNCHANGED memoria_kernel
        /\ UNCHANGED <<atender, kernel_memoria, kernel_cpu>>
    BY <1>5 DEF K!LPConfirmar, K!LPConfirmarBasura, K!PasoLP, K!atenderVars, K!redCpu, K!Confirma,
       K!CONF_PR_NUEVO, CONF_PR_NUEVO, Caidos
  <2>2. Pedidos' = Pedidos
    BY <1>1, <2>1, PedidosCrecen DEF EnviaAMemoria
  <2>3. EP!KernelConfirma
    BY <1>2, <2>1, <2>2 DEF EP!KernelConfirma, EP!PasoKernel, EP!CONF_PR_NUEVO, CONF_PR_NUEVO
  <2> QED
    BY <2>3 DEF EP!Next
<1>6. CASE K!AtEnviarACpu
  <2>1. /\ kernel = "vivo" /\ kernel' = kernel /\ atender = "enviar" /\ atender' = "recibir"
        /\ kernel_cpu' = IF "cpu" \in Caidos THEN kernel_cpu ELSE Append(kernel_cpu, pcbAtender)
        /\ UNCHANGED <<lp, kernel_memoria, memoria_kernel>>
    BY <1>6 DEF K!AtEnviarACpu, K!PasoAtender, K!lpVars, K!redMemoria
  <2>2. Pedidos' = Pedidos
    BY <1>1, <2>1, PedidosCrecen DEF EnviaAMemoria
  <2>3. Head(Pedidos) = pcbAtender /\ (Len(Pedidos) > 1 \/ (Len(Pedidos) = 1 /\ lp # "confirmar"))
    BY <2>1, PrimerPedido
  <2>4. EP!KernelDespacha
    BY <1>2, <2>1, <2>2, <2>3 DEF EP!KernelDespacha, EP!PasoKernel, EP!Enviado, Caidos
  <2> QED
    BY <2>4 DEF EP!Next
<1>7. CASE /\ ~EnviaAMemoria
           /\ UNCHANGED <<kernel, kernel_memoria, memoria_kernel, kernel_cpu>>
           /\ (lp' = "confirmar") = (lp = "confirmar")
           /\ (atender' = "recibir") = (atender = "recibir")
  <2>1. Pedidos' = Pedidos
    BY <1>1, <1>7, PedidosCrecen
  <2>2. UNCHANGED EP!vars
    BY <1>2, <1>7, <2>1 DEF EP!vars, EP!kernelVars, EP!red
  <2> QED
    BY <2>2
<1> QED
  BY <1>3, <1>4, <1>5, <1>6, <1>7, LoQueSeVe

-----------------------------------------------------------------------------
(* The invariant *)

\* A step of the system is one of the kernel or one of the others.
LEMMA DesgloseSistema ==
  [Next]_vars => \/ HilosDelKernel /\ UNCHANGED memoriaCpu
                 \/ UNCHANGED hilosKernel /\ (EP!PasosMemoria \/ EP!Cpu)
                 \/ UNCHANGED vars
  BY MismosPares
  DEF Next, ConsolaComando, ConsolaSigue, PlanificadorLargoPlazo, PlanificadorCortoPlazo,
      AtenderPcb, HiloKernel, HiloCpu, MemCae, Cpu, HilosDelKernel

\* The system is one that the kernel may meet.
LEMMA PasoVisto == SInv /\ [Next]_vars => [VP!Next]_VP!vars
<1> SUFFICES ASSUME SInv, [Next]_vars PROVE [VP!Next]_VP!vars
  OBVIOUS
<1>1. CASE HilosDelKernel /\ UNCHANGED memoriaCpu
  BY <1>1, HilosVistos
<1>2. CASE UNCHANGED hilosKernel /\ (EP!PasosMemoria \/ EP!Cpu)
  BY <1>2, MemoriaVista, CpuVista DEF VP!Next
<1>3. CASE UNCHANGED vars
  <2>1. UNCHANGED <<hilosKernel, memoriaCpu, kernel_memoria, memoria_kernel, kernel_cpu>>
    BY <1>3 DEF vars
  <2> QED
    BY <2>1, RedVista, HilosQuietos
    DEF VP!vars, VP!PasoPar, VP!red, VP!redMemoria, VP!redCpu
<1> QED
  BY <1>1, <1>2, <1>3, DesgloseSistema

\* The system is one that memoria and the CPU may meet.
LEMMA PasoEjecucion == SInv /\ [Next]_vars => [EP!Next]_EP!vars
<1> SUFFICES ASSUME SInv, [Next]_vars PROVE [EP!Next]_EP!vars
  OBVIOUS
<1>1. CASE HilosDelKernel /\ UNCHANGED memoriaCpu
  BY <1>1, KernelReducido
<1>2. CASE UNCHANGED hilosKernel /\ (EP!PasosMemoria \/ EP!Cpu)
  BY <1>2 DEF EP!Next, EP!PasosMemoria, EP!HiloKernel, EP!HiloCpu
<1>3. CASE UNCHANGED vars
  <2>1. K!Admitidos' = K!Admitidos /\ UNCHANGED <<kernel, lp, atender>>
    BY <1>3 DEF vars, hilosKernel, K!Admitidos
  <2> QED
    BY <1>3, <2>1
    DEF vars, memoriaCpu, Pedidos, EP!vars, EP!kernelVars, EP!memKernelVars, EP!memCpuVars,
        EP!cpuVars, EP!red
<1> QED
  BY <1>1, <1>2, <1>3, DesgloseSistema

\* The PCB the long-term scheduler has admitted stays the last until it is asked for.
LEMMA ConservaUltimos ==
  SInv /\ [Next]_vars => atendidos' = <<>> /\ UltimoAdmitido' /\ UltimoCargado'
<1> SUFFICES ASSUME SInv, [Next]_vars PROVE atendidos' = <<>> /\ UltimoAdmitido' /\ UltimoCargado'
  OBVIOUS
<1>1. atendidos' = <<>>
  BY PasoVisto, Admisiones DEF SInv
<1>2. UltimoAdmitido'
  <2> DEFINE A == VP!Admitidos
  <2>1. A \in Seq(Pids)
    BY Tipos
  <2>2. CASE lp = "agregarAReady" /\ UNCHANGED pcbLP /\ A' = Append(A, pcbLP)
    <3>1. pcbLP \in Pids
      BY <2>2, Tipos
    <3>2. \A i \in 1..Len(A) : A[i] < pcbLP
      <4>1. \A a \in VP!Range(A) : a < pcbLP
        BY <2>2 DEF SInv, VP!FInv, VP!Orden, VP!Antes, VP!TomadoDeNew
      <4>2. \A i \in 1..Len(A) : A[i] \in VP!Range(A)
        BY <2>1 DEF VP!Range
      <4> QED
        BY <4>1, <4>2
    <3>3. /\ Len(A') = Len(A) + 1 /\ A'[Len(A) + 1] = pcbLP /\ Len(A) \in Nat
          /\ \A i \in 1..Len(A) : A'[i] = A[i]
      BY <2>1, <2>2, <3>1, AppendProperties
    <3> HIDE DEF A
    <3>4. Len(A') > 0 /\ A'[Len(A')] = pcbLP' /\ \A i \in 1..(Len(A') - 1) : A'[i] < pcbLP'
      BY <2>2, <3>2, <3>3
    <3> QED
      BY <3>4 DEF UltimoAdmitido, A
  <2>3. CASE A' = A /\ (lp' = "enviar" => lp = "enviar" /\ UNCHANGED pcbLP)
    BY <2>3 DEF SInv, UltimoAdmitido
  <2> QED
    BY <2>2, <2>3, PasoVisto, Admisiones
<1>3. UltimoCargado'
  <2>1. CASE UNCHANGED <<memKernel, pidCargado, procesosEnMemoria>>
    BY <2>1 DEF SInv, UltimoCargado
  <2>2. CASE EP!MemCarga
    <3> DEFINE proceso == <<Head(kernel_memoria), archivo[Head(kernel_memoria)]>>
    <3>1. /\ kernel_memoria # <<>> /\ archivo[Head(kernel_memoria)] # NULL
          /\ procesosEnMemoria' = Append(procesosEnMemoria, proceso)
          /\ pidCargado' = Head(kernel_memoria)
      BY <2>2 DEF EP!MemCarga
    <3>2. proceso \in Pids \X Programas /\ procesosEnMemoria \in Seq(Pids \X Programas)
      BY <3>1, Tipos
    <3>3. /\ Len(procesosEnMemoria') = Len(procesosEnMemoria) + 1
          /\ procesosEnMemoria'[Len(procesosEnMemoria) + 1] = proceso
      BY <3>1, <3>2, AppendProperties
    <3>4. Len(procesosEnMemoria) \in Nat /\ proceso[1] = pidCargado'
      BY <3>1, <3>2
    <3> HIDE DEF proceso
    <3> QED
      BY <3>3, <3>4 DEF UltimoCargado
  <2>3. CASE EP!MemConfirma
    BY <2>3 DEF EP!MemConfirma, UltimoCargado
  <2>4. CASE EP!MemBusca \/ EP!MemResponde \/ EP!FinDeMemoria
    BY <2>1, <2>4, SupuestosEjecucion, EP!Ajeno DEF EP!MemBusca, EP!MemResponde, EP!memKernelVars
  <2>5. CASE EP!Cpu \/ UNCHANGED memoriaCpu \/ UNCHANGED vars
    BY <2>1, <2>5, SupuestosEjecucion, EP!Ajeno DEF EP!memKernelVars, memoriaCpu, vars
  <2> QED
    BY <2>2, <2>3, <2>4, <2>5, DesgloseSistema DEF EP!PasosMemoria, EP!FinDeMemoria
<1> QED
  BY <1>1, <1>2, <1>3

\* At the start nobody has asked for anything.
LEMMA InicialSistema == Init => SInv /\ VP!Init /\ EP!Init
<1> SUFFICES ASSUME Init PROVE SInv /\ VP!Init /\ EP!Init
  OBVIOUS
<1>1. E!InitMemoriaCpu /\ K!Init
  BY DEF Init
<1>2. VP!Init
  <2>1. /\ memoria = "vivo" /\ cpu = "vivo" /\ memKernel = "esperar" /\ procesosEnMemoria = <<>>
        /\ kernel_memoria = <<>> /\ memoria_kernel = <<>> /\ kernel_cpu = <<>>
    BY <1>1 DEF E!InitMemoriaCpu
  <2>2. PidsEnMemoria = <<>> /\ SinConfirmar = <<>>
    BY <2>1 DEF PidsEnMemoria, SinConfirmar
  <2>3. AMemoriaVista = <<>> /\ CargadosVistos = <<>> /\ ACpuVista = <<>> /\ Caidos = {}
    BY <2>1, <2>2 DEF AMemoriaVista, CargadosVistos, ACpuVista, Caidos
  <2> QED
    BY <1>1, <2>1, <2>3 DEF K!Init, VP!Init, K!Pid, VP!Pid, K!DispatchInicial, VP!DispatchInicial
<1>3. EP!Init
  <2>1. /\ kernel = "vivo" /\ lp = "esperarNew" /\ atender = "esperarExec" /\ Pedidos = <<>>
    BY <1>1 DEF K!Init, Pedidos, K!Admitidos
  <2> QED
    BY <1>1, <2>1 DEF EP!Init, EP!InitKernel, EP!InitMemoriaCpu, E!InitMemoriaCpu, E!Pid, EP!Pid
<1>4. VP!IInv /\ VP!FInv
  BY <1>2, SupuestosKernel, VP!Inicial, VP!InicialFIFO
<1>5. EP!EInv
  BY <1>3, SupuestosEjecucion, EP!Inicial
<1>6. atendidos = <<>> /\ UltimoAdmitido /\ UltimoCargado
  BY <1>1 DEF K!Init, E!InitMemoriaCpu, UltimoAdmitido, UltimoCargado
<1> QED
  BY <1>2, <1>3, <1>4, <1>5, <1>6 DEF SInv

\* Each component keeps its own invariant because of what the other one does.
LEMMA InductivaSistema == SInv /\ [Next]_vars => SInv'
<1> SUFFICES ASSUME SInv, [Next]_vars PROVE SInv'
  OBVIOUS
<1>1. VP!IInv' /\ VP!FInv'
  BY PasoVisto, SupuestosKernel, VP!Inductiva, VP!InductivaFIFO DEF SInv
<1>2. EP!EInv'
  BY PasoEjecucion, SupuestosEjecucion, EP!Inductiva DEF SInv
<1> QED
  BY <1>1, <1>2, ConservaUltimos DEF SInv

\* SInv holds at every moment.
THEOREM InvarianteSistema == Spec => []SInv
  BY InicialSistema, InductivaSistema, PTL DEF Spec

-----------------------------------------------------------------------------
(* The theorems *)

\* Visto and VP are the same kernel, and E and EP the same memoria and CPU.
LEMMA MismoKernel == (VP!Init => Visto!Init) /\ ([VP!Next]_VP!vars => [Visto!Next]_Visto!vars)
  BY DEF VP!Next, Visto!Next, VP!vars, Visto!vars, VP!Init, Visto!Init, VP!Pares, Visto!Pares,
         VP!MemoriaAtiende, Visto!MemoriaAtiende, VP!MemoriaCae, Visto!MemoriaCae,
         VP!CpuAtiende, Visto!CpuAtiende, VP!CpuCae, Visto!CpuCae, VP!PasoPar, Visto!PasoPar,
         VP!DispatchInicial, Visto!DispatchInicial, VP!PlanificadorLargoPlazo,
         Visto!PlanificadorLargoPlazo, VP!LPEnviarAMemoria, Visto!LPEnviarAMemoria,
         VP!LPEsperarNew, Visto!LPEsperarNew, VP!LPEsperarGrado, Visto!LPEsperarGrado,
         VP!LPSacarDeNew, Visto!LPSacarDeNew, VP!LPSacarDeNewVacia, Visto!LPSacarDeNewVacia,
         VP!LPAgregarAReady, Visto!LPAgregarAReady, VP!LPEnviarSigpipe, Visto!LPEnviarSigpipe,
         VP!LPConfirmar, Visto!LPConfirmar, VP!LPRechazar, Visto!LPRechazar,
         VP!LPConfirmarBasura, Visto!LPConfirmarBasura, VP!LPRechazarBasura,
         Visto!LPRechazarBasura, VP!LPPostearReady, Visto!LPPostearReady, VP!Confirma,
         Visto!Confirma, VP!CONF_PR_NUEVO, Visto!CONF_PR_NUEVO, VP!Encolar, Visto!Encolar,
         VP!PasoLP, Visto!PasoLP, VP!redCpu, Visto!redCpu, VP!redMemoria, Visto!redMemoria,
         VP!red, Visto!red, VP!ConsolaComando, Visto!ConsolaComando, VP!IniciarProceso,
         Visto!IniciarProceso, VP!FinalizarProceso, Visto!FinalizarProceso,
         VP!ComandoSinArgumento, Visto!ComandoSinArgumento, VP!CerrarConsola,
         Visto!CerrarConsola, VP!PasoConsola, Visto!PasoConsola, VP!NuevoPID, Visto!NuevoPID,
         VP!Pid, Visto!Pid, VP!ConsolaSigue, Visto!ConsolaSigue, VP!EnlazarEnNew,
         Visto!EnlazarEnNew, VP!EnlazarRompe, Visto!EnlazarRompe, VP!ResultadosDeEnlazar,
         Visto!ResultadosDeEnlazar, VP!PostearNew, Visto!PostearNew, VP!UbicarPcb,
         Visto!UbicarPcb, VP!Buscar, Visto!Buscar, VP!BuscarRompe, Visto!BuscarRompe,
         VP!FinalizarNulo, Visto!FinalizarNulo, VP!FinalizarPcb, Visto!FinalizarPcb, VP!Range,
         Visto!Range, VP!PlanificadorCortoPlazo, Visto!PlanificadorCortoPlazo,
         VP!CPEsperarDispatch, Visto!CPEsperarDispatch, VP!CPEsperarReady, Visto!CPEsperarReady,
         VP!CPSacarDeReady, Visto!CPSacarDeReady, VP!CPAgregarAExec, Visto!CPAgregarAExec,
         VP!CPPostearExec, Visto!CPPostearExec, VP!PasoCP, Visto!PasoCP, VP!AtenderPcb,
         Visto!AtenderPcb, VP!AtEsperarExec, Visto!AtEsperarExec, VP!AtTomarPcb,
         Visto!AtTomarPcb, VP!AtEnviarACpu, Visto!AtEnviarACpu, VP!AtEnviarSigpipe,
         Visto!AtEnviarSigpipe, VP!AtProcesoTerminado, Visto!AtProcesoTerminado,
         VP!AtOtraRespuesta, Visto!AtOtraRespuesta, VP!AtCpuCerrada, Visto!AtCpuCerrada,
         VP!AtPostearDispatch, Visto!AtPostearDispatch, VP!ExecTrasRespuesta,
         Visto!ExecTrasRespuesta, VP!HEADER_proceso_terminado, Visto!HEADER_proceso_terminado,
         VP!PasoAtender, Visto!PasoAtender, VP!consolaVars, Visto!consolaVars, VP!lpVars,
         Visto!lpVars, VP!cpVars, Visto!cpVars, VP!atenderVars, Visto!atenderVars, VP!listas,
         Visto!listas, VP!semaforos, Visto!semaforos, VP!Termina, Visto!Termina

LEMMA MismaEjecucion == (EP!Init => E!Init) /\ ([EP!Next]_EP!vars => [E!Next]_E!vars)
  BY DEF EP!Init, E!Init, EP!InitKernel, E!InitKernel, EP!InitMemoriaCpu, E!InitMemoriaCpu,
         E!HiloKernel, EP!HiloKernel, E!MemCarga, EP!MemCarga, E!MemNoAbre, EP!MemNoAbre,
         E!MemConfirma, EP!MemConfirma, E!HiloCpu, EP!HiloCpu, E!MemBusca, EP!MemBusca,
         E!MemBuscaNulo, EP!MemBuscaNulo, E!MemResponde, EP!MemResponde, E!MemCaeConElKernel,
         EP!MemCaeConElKernel, E!MemCaeConLaCpu, EP!MemCaeConLaCpu, E!Cpu, EP!Cpu,
         E!CpuRecibeContexto, EP!CpuRecibeContexto, E!CpuSinKernel, EP!CpuSinKernel, E!CpuPide,
         EP!CpuPide, E!CpuRecibe, EP!CpuRecibe, E!CpuSinMemoria, EP!CpuSinMemoria, E!CpuEjecuta,
         EP!CpuEjecuta, E!CpuEjecutaIncompleta, EP!CpuEjecutaIncompleta, E!Para, EP!Para,
         E!Incompleta, EP!Incompleta, E!EfectoSET, EP!EfectoSET, E!Enviado, EP!Enviado,
         E!PasoMemoria, EP!PasoMemoria, E!PasoCpu, EP!PasoCpu, E!PasoKernel, EP!PasoKernel,
         E!kernelVars, EP!kernelVars, E!memKernelVars, EP!memKernelVars, E!memCpuVars,
         EP!memCpuVars, E!cpuVars, EP!cpuVars, E!Conocido, EP!Conocido, E!Instrucciones,
         EP!Instrucciones, E!Indice, EP!Indice, E!CONF_PR_NUEVO, EP!CONF_PR_NUEVO,
         E!StreamVacio, EP!StreamVacio, E!StreamCrear, EP!StreamCrear, E!Int32, EP!Int32,
         E!Next, EP!Next, E!KernelPideProceso, EP!KernelPideProceso, E!KernelConfirma,
         EP!KernelConfirma, E!KernelRechaza, EP!KernelRechaza, E!KernelDespacha,
         EP!KernelDespacha, E!KernelTermina, EP!KernelTermina, E!Pid, EP!Pid, E!vars, EP!vars,
         E!red, EP!red

(***************************************************************************)
(* memoria and the CPU do nothing the open peers of module Kernel cannot   *)
(* do (ImplementaKernel): each request gets one frame or the death of      *)
(* memoria, and the CPU takes a context and sends nothing.                 *)
(***************************************************************************)
THEOREM SistemaImplementaKernel == Spec => ImplementaKernel
<1>1. Init => Visto!Init
  BY InicialSistema, MismoKernel
<1>2. SInv /\ [Next]_vars => [Visto!Next]_Visto!vars
  BY PasoVisto, MismoKernel
<1> QED
  BY <1>1, <1>2, InvarianteSistema, PTL DEF Spec, ImplementaKernel

(***************************************************************************)
(* The kernel does nothing the reduced kernel of module Ejecucion cannot   *)
(* do (ImplementaEjecucion): one request at a time, for younger and        *)
(* younger processes, and only the first is dispatched, once confirmed.    *)
(***************************************************************************)
THEOREM SistemaImplementaEjecucion == Spec => ImplementaEjecucion
<1>1. Init => E!Init
  BY InicialSistema, MismaEjecucion
<1>2. SInv /\ [Next]_vars => [E!Next]_E!vars
  BY PasoEjecucion, MismaEjecucion
<1> QED
  BY <1>1, <1>2, InvarianteSistema, PTL DEF Spec, ImplementaEjecucion

(***************************************************************************)
(* The CPU goes back to reading without answering (atender_kernel.c:119-   *)
(* 124), so only the first process of the system is ever dispatched        *)
(* (UnSoloProceso), whatever the degree of multiprogramming.               *)
(***************************************************************************)
THEOREM SoloUnProceso == Spec => []UnSoloProceso
<1>1. SInv => UnSoloProceso
  <2> SUFFICES ASSUME SInv PROVE Len(atendidos \o pcbEnExec) <= 1
    BY DEF UnSoloProceso
  <2>2. pcbEnExec \in Seq(VP!Pid) /\ Len(pcbEnExec) <= 1
    BY SupuestosKernel, VP!UnoEnExec DEF SInv
  <2>3. <<>> \o pcbEnExec = pcbEnExec
    BY <2>2
  <2> QED
    BY <2>2, <2>3 DEF SInv
<1> QED
  BY <1>1, InvarianteSistema, PTL

(***************************************************************************)
(* What the CPU executes is what the kernel has in EXEC and waits for, and *)
(* memoria knows its instructions (ExecEsLoQueEjecutaLaCpu,                *)
(* planificadores.c:305-312).                                              *)
(***************************************************************************)
THEOREM ExecYCpuDeAcuerdo == Spec => []ExecEsLoQueEjecutaLaCpu
<1>1. SInv => ExecEsLoQueEjecutaLaCpu
  <2> SUFFICES ASSUME SInv, cpu = "vivo", cpuPc # "esperar"
               PROVE  /\ pcbEnExec = <<contexto.pid>> /\ atender = "recibir"
                      /\ memoria = "vivo" => E!Conocido(contexto.pid)
    BY DEF ExecEsLoQueEjecutaLaCpu
  <2>1. atender = "recibir" /\ contexto.pid = Head(Pedidos)
        /\ (memoria = "vivo" => procesosEnMemoria # <<>>)
    BY DEF SInv, EP!EInv, EP!Despacho
  <2>2. pcbEnExec = <<contexto.pid>>
    BY <2>1, PrimerPedido DEF SInv, VP!FInv, VP!ElQueAtiende
  <2>3. memoria = "vivo" => EP!Conocido(contexto.pid)
    BY <2>1, SupuestosEjecucion, EP!Hallado DEF SInv, EP!EInv
  <2> QED
    BY <2>1, <2>2, <2>3 DEF EP!Conocido, E!Conocido
<1> QED
  BY <1>1, InvarianteSistema, PTL

-----------------------------------------------------------------------------
(* What the components promise, of the system *)

(***************************************************************************)
(* The CPU of the system executes the file of its process, every line once *)
(* and in order (EP!ImplementaInterprete, cpu atender_kernel.c:82-124),    *)
(* over the requests and the dispatches the real kernel makes.             *)
(***************************************************************************)
THEOREM SistemaImplementaInterprete == Spec => EP!ImplementaInterprete
<1>1. Init => EP!I!Init
  BY InicialSistema DEF EP!Init, EP!InitMemoriaCpu, EP!I!Init
<1>2. SInv /\ [Next]_vars => [EP!I!Comenzar \/ EP!I!Ejecutar]_EP!I!vars
  BY PasoEjecucion, SupuestosEjecucion, EP!PasoInterprete DEF SInv
<1> QED
  BY <1>1, <1>2, InvarianteSistema, PTL DEF EP!ImplementaInterprete, EP!I!Spec, Spec

(***************************************************************************)
(* The processes of the system are admitted, dispatched and run without    *)
(* overtaking and one at a time (VP!ImplementaFIFO, planificadores.c:      *)
(* 188-247), whatever memoria and the CPU do.                              *)
(***************************************************************************)
THEOREM SistemaImplementaFIFO == Spec => VP!ImplementaFIFO
<1>1. Init => VP!FIFO!Init
  BY InicialSistema, SupuestosKernel, VP!InicialFIFO
<1>2. SInv /\ [Next]_vars => [VP!FIFO!Next]_VP!FIFO!vars
  BY PasoVisto, SupuestosKernel, VP!PasoFIFO DEF SInv
<1> QED
  BY <1>1, <1>2, InvarianteSistema, PTL DEF VP!ImplementaFIFO, VP!FIFO!Spec, Spec
================================================================================
