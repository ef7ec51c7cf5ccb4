-------------------------- MODULE KernelCargaProofs --------------------------
(***************************************************************************)
(* Nothing is executed before memoria has loaded it, for every value of    *)
(* the constants and every answer of memoria in which only the first byte  *)
(* can be taken for a confirmation.  The frame memoria sends is such an    *)
(* answer, and so is the single byte the kernel expects.                   *)
(*                                                                         *)
(* The kernel does not look at whom a confirmation is for: it takes the    *)
(* next byte of the socket.  So the proof follows that byte from the       *)
(* request to the answer, and then the process through READY and EXEC.     *)
(***************************************************************************)
EXTENDS KernelProofs

UnaConfirmacion == \A i \in 2..Len(RespuestaMemoria) : ~Confirma(RespuestaMemoria[i])

\* The next byte of the socket, if there is one, confirms nothing.
NadaQueConfirmar == deMemoria = <<>> \/ ~Confirma(Head(deMemoria))

\* Where the request of the long-term scheduler is: not sent or with an answer that
\* does not confirm it; on its way; or loaded, with its answer next in the socket.
Entrega ==
  \/ aMemoria = <<>> /\ NadaQueConfirmar
  \/ lp = "confirmar" /\ aMemoria = <<pcbLP>> /\ NadaQueConfirmar
  \/ lp = "confirmar" /\ aMemoria = <<>> /\ deMemoria = RespuestaMemoria
     /\ pcbLP \in Range(cargados)

Confirmado == lp = "postear" => pcbLP \in Range(cargados)

\* READY holds loaded processes and, last, the one being loaded.
SinCargar == EnMano(lp, {"enviar", "confirmar"})

ReadyCargado ==
  /\ \A i \in 1..(Len(procesosEnReady) - SinCargar) : procesosEnReady[i] \in Range(cargados)
  /\ SinCargar = 1 => procesosEnReady[Len(procesosEnReady)] = pcbLP

ExecCargado ==
  /\ cp = "agregarAExec" => pcbCP \in Range(cargados)
  /\ Range(pcbEnExec) \subseteq Range(cargados)

Carga == Entrega /\ Confirmado /\ ReadyCargado /\ ExecCargado

CInv == "memoria" \notin caidos => Carga

-----------------------------------------------------------------------------
\* A memoria that died does not come back.
LEMMA CaidaDefinitiva == [Next]_vars => caidos \subseteq caidos'
  BY Desglose, Ajeno
  DEF red, vars, Pares, MemoriaAtiende, MemoriaCae, CpuAtiende, CpuCae

\* What was loaded stays loaded.
LEMMA CargadosCrece ==
  ASSUME IInv, [Next]_vars
  PROVE  Range(cargados) \subseteq Range(cargados')
<1>1. CASE MemoriaAtiende
  <2>1. cargados \in Seq(Pid) /\ Head(aMemoria) \in Pid
    BY <1>1, CabezaYCola DEF IInv, TypeOK, TipoRed, MemoriaAtiende
  <2> QED
    BY <1>1, <2>1, RangoAlAgregar DEF MemoriaAtiende
<1>2. CASE ~MemoriaAtiende
  BY <1>2, Desglose, Ajeno DEF red, redMemoria, vars, Pares, MemoriaCae, CpuAtiende, CpuCae
<1> QED
  BY <1>1, <1>2

\* The request and its answer.
LEMMA ConservaEntrega ==
  ASSUME UnaConfirmacion, IInv, Carga, [Next]_vars, "memoria" \notin caidos'
  PROVE  Entrega'
<1> USE DEF Carga, Entrega, NadaQueConfirmar
<1>0. "memoria" \notin caidos
  BY CaidaDefinitiva
<1>t. /\ aMemoria \in Seq(Pid) /\ deMemoria \in Seq(Byte) /\ cargados \in Seq(Pid)
      /\ RespuestaMemoria \in Seq(Byte)
  BY KernelAssumption DEF IInv, TypeOK, TipoRed
<1>1. CASE LPEnviarAMemoria
  <2>1. lp = "enviar" /\ lp' = "confirmar" /\ UNCHANGED <<deMemoria, pcbLP>>
    BY <1>1 DEF LPEnviarAMemoria, PasoLP
  <2>2. aMemoria' = Append(aMemoria, pcbLP) /\ aMemoria = <<>>
    BY <1>0, <1>1, <2>1 DEF LPEnviarAMemoria
  <2> QED
    BY <2>1, <2>2
<1>2. CASE LPConfirmar
  <2>1. deMemoria # <<>> /\ Confirma(Head(deMemoria))
        /\ deMemoria' = Tail(deMemoria) /\ UNCHANGED aMemoria
    BY <1>2 DEF LPConfirmar
  <2>2. aMemoria = <<>> /\ deMemoria = RespuestaMemoria
    BY <2>1
  <2>3. Len(RespuestaMemoria) >= 1 /\ Len(Tail(RespuestaMemoria)) = Len(RespuestaMemoria) - 1
    BY <1>t, <2>1, <2>2
  <2>4. CASE Tail(RespuestaMemoria) # <<>>
    <3>1. 2 \in 2..Len(RespuestaMemoria) /\ Head(Tail(RespuestaMemoria)) = RespuestaMemoria[2]
      BY <1>t, <2>3, <2>4
    <3> QED
      BY <2>1, <2>2, <3>1 DEF UnaConfirmacion, Confirma
  <2> QED
    BY <2>1, <2>2, <2>4
<1>3. CASE LPConfirmarBasura
  BY <1>0, <1>3 DEF LPConfirmarBasura
<1>4. CASE LPEsperarNew \/ LPEsperarGrado \/ LPSacarDeNew \/ LPAgregarAReady \/ LPPostearReady
  <2>1. lp # "confirmar" /\ UNCHANGED <<aMemoria, deMemoria>>
    BY <1>4 DEF LPEsperarNew, LPEsperarGrado, LPSacarDeNew, LPAgregarAReady, LPPostearReady,
           PasoLP
  <2> QED
    BY <2>1 DEF Confirma
<1>5. CASE MemoriaAtiende
  <2>1. lp = "confirmar" /\ aMemoria = <<pcbLP>> /\ NadaQueConfirmar
    BY <1>5 DEF MemoriaAtiende
  <2>2. /\ UNCHANGED <<lp, pcbLP>>
        /\ aMemoria' = Tail(aMemoria) /\ cargados' = Append(cargados, Head(aMemoria))
        /\ deMemoria' = deMemoria \o RespuestaMemoria
    BY <1>5 DEF MemoriaAtiende, PasoPar, lpVars
  <2>3. aMemoria' = <<>> /\ pcbLP' \in Range(cargados')
    <3>1. Head(aMemoria) = pcbLP /\ pcbLP \in Pid /\ Tail(aMemoria) = <<>>
      BY <1>t, <2>1
    <3> QED
      BY <1>t, <2>2, <3>1, RangoAlAgregar
  <2>4. CASE deMemoria = <<>>
    BY <1>t, <2>1, <2>2, <2>3, <2>4
  <2>5. CASE deMemoria # <<>>
    <3>1. Len(deMemoria) > 0
      BY <1>t, <2>5
    <3>2. Head(deMemoria') = Head(deMemoria)
      BY <1>t, <2>2, <3>1
    <3> QED
      BY <2>1, <2>2, <2>3, <2>5, <3>2 DEF Confirma
  <2> QED
    BY <2>4, <2>5
<1>6. CASE MemoriaCae
  BY <1>6 DEF MemoriaCae
<1>7. CASE PasosConsola \/ PlanificadorCortoPlazo \/ PasosAtender \/ CpuAtiende \/ CpuCae
           \/ FinDelKernel \/ UNCHANGED vars
  <2>1. UNCHANGED <<lp, pcbLP, redMemoria>>
    BY <1>7, Ajeno DEF vars, red, lpVars, redMemoria, CpuAtiende, CpuCae, PasoPar
  <2> QED
    BY <2>1 DEF redMemoria, Confirma
<1> QED
  BY <1>1, <1>2, <1>3, <1>4, <1>5, <1>6, <1>7, Desglose DEF PasosLP, Pares

\* The confirmation the scheduler takes is the one for the process it holds.
LEMMA ConservaConfirmado ==
  ASSUME IInv, Carga, [Next]_vars, "memoria" \notin caidos'
  PROVE  Confirmado'
<1> USE DEF Carga, Confirmado
<1>0. "memoria" \notin caidos /\ Range(cargados) \subseteq Range(cargados')
  BY CaidaDefinitiva, CargadosCrece
<1>1. CASE LPConfirmar
  <2>1. pcbLP \in Range(cargados) /\ UNCHANGED pcbLP
    BY <1>1 DEF LPConfirmar, Entrega, NadaQueConfirmar
  <2> QED
    BY <1>0, <2>1
<1>2. CASE LPConfirmarBasura
  BY <1>0, <1>2 DEF LPConfirmarBasura
<1>3. CASE LPEsperarNew \/ LPEsperarGrado \/ LPSacarDeNew \/ LPAgregarAReady
           \/ LPEnviarAMemoria \/ LPPostearReady
  <2>1. lp' # "postear"
    BY <1>3 DEF LPEsperarNew, LPEsperarGrado, LPSacarDeNew, LPAgregarAReady,
           LPEnviarAMemoria, LPPostearReady, PasoLP
  <2> QED
    BY <2>1
<1>4. CASE ~PasosLP
  <2>1. UNCHANGED <<lp, pcbLP>>
    BY <1>4, Ajeno, Desglose DEF vars, lpVars
  <2> QED
    BY <1>0, <2>1
<1> QED
  BY <1>1, <1>2, <1>3, <1>4 DEF PasosLP

\* The short-term scheduler never reaches the process that is being loaded: there is
\* one token for each of the others.
LEMMA CabezaCargada ==
  ASSUME IInv, ReadyCargado, cp = "sacarDeReady"
  PROVE  Len(procesosEnReady) > SinCargar /\ Head(procesosEnReady) \in Range(cargados)
<1>1. procesosEnReady \in Seq(Pid) /\ semProcesoEnReady \in Nat /\ CuentaReady
  BY DEF IInv, TypeOK, TipoListas, TipoSemaforos, CuentasDeSemaforos
<1>2. Len(procesosEnReady) > SinCargar /\ SinCargar \in {0, 1}
  BY <1>1 DEF CuentaReady, SinCargar, EnMano
<1>3. 1 \in 1..(Len(procesosEnReady) - SinCargar) /\ Head(procesosEnReady) = procesosEnReady[1]
  BY <1>1, <1>2
<1> QED
  BY <1>2, <1>3 DEF ReadyCargado

\* READY: what the short-term scheduler may take is loaded.
LEMMA ConservaReadyCargado ==
  ASSUME IInv, Carga, [Next]_vars, "memoria" \notin caidos'
  PROVE  ReadyCargado'
<1>0. "memoria" \notin caidos /\ Range(cargados) \subseteq Range(cargados')
  BY CaidaDefinitiva, CargadosCrece
<1>t. procesosEnReady \in Seq(Pid) /\ SinCargar \in {0, 1}
  BY DEF IInv, TypeOK, TipoListas, SinCargar, EnMano
<1>r. ReadyCargado
  BY DEF Carga
<1>1. CASE LPAgregarAReady
  <2>1. /\ SinCargar = 0 /\ SinCargar' = 1
        /\ procesosEnReady' = Append(procesosEnReady, pcbLP) /\ UNCHANGED pcbLP
    BY <1>1 DEF LPAgregarAReady, Encolar, PasoLP, SinCargar, EnMano
  <2>2. pcbLP \in Pid
    BY <1>1 DEF LPAgregarAReady, PasoLP, IInv, Punteros
  <2>3. /\ Len(procesosEnReady') = Len(procesosEnReady) + 1
        /\ procesosEnReady'[Len(procesosEnReady')] = pcbLP
        /\ \A i \in 1..Len(procesosEnReady) : procesosEnReady'[i] = procesosEnReady[i]
    BY <1>t, <2>1, <2>2
  <2> QED
    BY <1>0, <1>r, <1>t, <2>1, <2>3 DEF ReadyCargado
<1>2. CASE LPConfirmar
  <2>1. /\ SinCargar = 1 /\ SinCargar' = 0 /\ UNCHANGED procesosEnReady
    BY <1>2 DEF LPConfirmar, PasoLP, SinCargar, EnMano
  <2>2. pcbLP \in Range(cargados)
    BY <1>2 DEF LPConfirmar, Carga, Entrega, NadaQueConfirmar
  <2> QED
    BY <1>0, <1>r, <1>t, <2>1, <2>2 DEF ReadyCargado
<1>3. CASE CPSacarDeReady
  <2>1. /\ cp = "sacarDeReady" /\ procesosEnReady' = Tail(procesosEnReady)
        /\ UNCHANGED <<lp, pcbLP>>
    BY <1>3 DEF CPSacarDeReady, PasoCP, lpVars
  <2>2. Len(procesosEnReady) > SinCargar /\ SinCargar' = SinCargar
    BY <1>r, <2>1, CabezaCargada DEF SinCargar, EnMano
  <2>3. /\ Len(procesosEnReady') = Len(procesosEnReady) - 1
        /\ \A i \in 1..Len(procesosEnReady') : procesosEnReady'[i] = procesosEnReady[i + 1]
    BY <1>t, <2>1, <2>2
  <2> QED
    BY <1>0, <1>r, <1>t, <2>1, <2>2, <2>3 DEF ReadyCargado
<1>4. CASE LPConfirmarBasura
  BY <1>0, <1>4 DEF LPConfirmarBasura
<1>5. CASE LPEsperarNew \/ LPEsperarGrado \/ LPSacarDeNew \/ LPEnviarAMemoria \/ LPPostearReady
  <2>1. /\ SinCargar' = SinCargar /\ UNCHANGED procesosEnReady
        /\ SinCargar = 1 => UNCHANGED pcbLP
    BY <1>5 DEF LPEsperarNew, LPEsperarGrado, LPSacarDeNew, LPEnviarAMemoria, LPPostearReady,
           PasoLP, SinCargar, EnMano
  <2> QED
    BY <1>0, <1>r, <2>1 DEF ReadyCargado
<1>6. CASE ~PasosLP /\ ~CPSacarDeReady
  <2>1. UNCHANGED <<lp, pcbLP, procesosEnReady>>
    BY <1>6, Ajeno, Desglose DEF vars, lpVars, listas, PlanificadorCortoPlazo,
           CPEsperarDispatch, CPEsperarReady, CPAgregarAExec, CPPostearExec, PasoCP
  <2> QED
    BY <1>0, <1>r, <2>1 DEF ReadyCargado, SinCargar, EnMano
<1> QED
  BY <1>1, <1>2, <1>3, <1>4, <1>5, <1>6 DEF PasosLP

\* EXEC: only what was taken from READY gets there.
LEMMA ConservaExecCargado ==
  ASSUME IInv, Carga, [Next]_vars, "memoria" \notin caidos'
  PROVE  ExecCargado'
<1>0. Range(cargados) \subseteq Range(cargados')
  BY CargadosCrece
<1>e. ExecCargado /\ ReadyCargado /\ pcbEnExec \in Seq(Pid)
  BY DEF Carga, IInv, TypeOK, TipoListas
<1>1. CASE CPSacarDeReady
  <2>1. Head(procesosEnReady) \in Range(cargados)
    BY <1>1, <1>e, CabezaCargada DEF CPSacarDeReady, PasoCP
  <2> QED
    BY <1>0, <1>1, <1>e, <2>1 DEF CPSacarDeReady, ExecCargado
<1>2. CASE CPAgregarAExec
  <2>1. pcbEnExec' = Append(pcbEnExec, pcbCP) /\ cp = "agregarAExec" /\ cp' = "postearExec"
    BY <1>2 DEF CPAgregarAExec, Encolar, PasoCP
  <2>2. pcbCP \in Pid
    BY <2>1 DEF IInv, Punteros
  <2>3. Range(pcbEnExec') = Range(pcbEnExec) \union {pcbCP}
    BY <1>e, <2>1, <2>2, RangoAlAgregar
  <2> QED
    BY <1>0, <1>e, <2>1, <2>3 DEF ExecCargado
<1>3. CASE AtProcesoTerminado
  <2>1. pcbEnExec' = Tail(pcbEnExec) /\ pcbEnExec # <<>> /\ UNCHANGED <<cp, pcbCP>>
    BY <1>3, ListasNoVacias DEF AtProcesoTerminado, ExecTrasRespuesta, PasoAtender, cpVars
  <2>2. Range(pcbEnExec') \subseteq Range(pcbEnExec)
    BY <1>e, <2>1, RangoDeLaCola
  <2> QED
    BY <1>0, <1>e, <2>1, <2>2 DEF ExecCargado
<1>4. CASE CPEsperarDispatch \/ CPEsperarReady \/ CPPostearExec
  <2>1. cp' # "agregarAExec" /\ UNCHANGED pcbEnExec
    BY <1>4 DEF CPEsperarDispatch, CPEsperarReady, CPPostearExec, PasoCP
  <2> QED
    BY <1>0, <1>e, <2>1 DEF ExecCargado
<1>5. CASE ~PlanificadorCortoPlazo /\ ~AtProcesoTerminado
  <2>1. UNCHANGED <<cp, pcbCP, pcbEnExec>>
    BY <1>5, Ajeno, Desglose DEF vars, cpVars, listas, PasosAtender, AtEsperarExec,
           AtTomarPcb, AtEnviarACpu, AtPostearDispatch
  <2> QED
    BY <1>0, <1>e, <2>1 DEF ExecCargado
<1> QED
  BY <1>1, <1>2, <1>3, <1>4, <1>5 DEF PlanificadorCortoPlazo

\* At the start nothing was requested and the lists are empty.
LEMMA InicialCarga == Init => CInv
  BY DEF Init, CInv, Carga, Entrega, NadaQueConfirmar, Confirmado, ReadyCargado, SinCargar,
         EnMano, ExecCargado, Range

\* Every step preserves it.
LEMMA InductivaCarga ==
  ASSUME UnaConfirmacion
  PROVE  IInv /\ CInv /\ [Next]_vars => CInv'
<1> SUFFICES ASSUME IInv, CInv, [Next]_vars, "memoria" \notin caidos' PROVE Carga'
  BY DEF CInv
<1>1. Carga
  BY CaidaDefinitiva DEF CInv
<1> QED
  BY <1>1, ConservaEntrega, ConservaConfirmado, ConservaReadyCargado, ConservaExecCargado
  DEF Carga

(***************************************************************************)
(* Whatever is in EXEC was loaded by memoria first, although READY gets it *)
(* before memoria is asked: for every degree of multiprogramming, every    *)
(* number of processes and every interleaving, as long as memoria lives    *)
(* and its answer confirms once.                                           *)
(***************************************************************************)
THEOREM CargaCorrecta ==
  ASSUME UnaConfirmacion
  PROVE  Spec => []CargadoAntesDeEjecutar
<1>1. IInv /\ CInv => CargadoAntesDeEjecutar
  BY DEF CInv, Carga, ExecCargado, CargadoAntesDeEjecutar
<1>2. IInv /\ CInv /\ [Next]_vars => CInv'
  BY InductivaCarga
<1> QED
  BY <1>1, <1>2, InicialCarga, InvarianteKernel, PTL DEF Spec
=============================================================================
