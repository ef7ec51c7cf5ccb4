------------------------- MODULE KernelContratoProofs -------------------------
(***************************************************************************)
(* What comes of the way the kernel reads its peers' answers, for every    *)
(* value of the other constants and whoever dies.                          *)
(*                                                                         *)
(*   - With a CPU that answers a context with at most one frame, the       *)
(*     answer that atender_pcb takes is for the process it holds, although *)
(*     it compares nothing.  The frame may carry any header.               *)
(*   - With the five bytes memoria writes, of which the kernel takes one,  *)
(*     a second process is never confirmed.                                *)
(***************************************************************************)
EXTENDS KernelProofs, SequenceTheorems

UnaRespuesta == \A respuesta \in RespuestasCpu : Len(respuesta) <= 1

-----------------------------------------------------------------------------
(* The answer of the CPU *)

\* A context or its answer is in the sockets only while atender_pcb waits for it.
EnVueloAcotado ==
  /\ Len(aCpu) + Len(deCpu) <= 1
  /\ aCpu # <<>> \/ deCpu # <<>> => atender = "recibir"
  /\ aCpu # <<>> => aCpu = <<pcbAtender>>

\* The PCB atender_pcb holds is the one in EXEC.
ElQueAtiende == atender \in {"enviar", "recibir"} => pcbEnExec = <<pcbAtender>>

RInv == EnVueloAcotado /\ ElQueAtiende

\* A list with at most one element that is not empty.
LEMMA ListaUnitaria ==
  ASSUME NEW S, NEW s \in Seq(S), s # <<>>, Len(s) <= 1
  PROVE  s = <<Head(s)>>
<1>1. Len(s) = 1 /\ Head(s) \in S
  OBVIOUS
<1>2. /\ <<Head(s)>> \in Seq(S) /\ Len(<<Head(s)>>) = 1
      /\ <<Head(s)>>[1] = s[1]
  BY <1>1
<1> QED
  BY <1>1, <1>2, SeqEqual

\* At most one PCB is in EXEC, and none is on its way while there is one.
LEMMA UnoEnExec ==
  ASSUME IInv
  PROVE  /\ pcbEnExec \in Seq(Pid) /\ Len(pcbEnExec) <= 1
         /\ pcbEnExec # <<>> => cp \notin {"esperarReady", "sacarDeReady", "agregarAExec"}
<1>1. /\ pcbEnExec \in Seq(Pid) /\ dispatchPermitido \in Nat /\ CuentaDispatch
  BY DEF IInv, TypeOK, TipoListas, TipoSemaforos, CuentasDeSemaforos
<1>2. /\ EnMano(cp, {"esperarReady", "sacarDeReady", "agregarAExec"}) \in {0, 1}
      /\ cp \in {"esperarReady", "sacarDeReady", "agregarAExec"}
           => EnMano(cp, {"esperarReady", "sacarDeReady", "agregarAExec"}) = 1
      /\ EnMano(atender, {"postearDispatch"}) \in {0, 1}
  BY DEF EnMano
<1>3. Len(pcbEnExec) \in Nat /\ (pcbEnExec # <<>> => Len(pcbEnExec) > 0)
  BY <1>1
<1> QED
  BY <1>1, <1>2, <1>3 DEF CuentaDispatch

\* The PCB that atender_pcb took stays the first and only one until it is removed.
LEMMA ConservaElQueAtiende ==
  ASSUME IInv, ElQueAtiende, [Next]_vars
  PROVE  ElQueAtiende'
<1> USE DEF ElQueAtiende
<1>1. CASE AtTomarPcb
  <2>1. /\ pcbEnExec # <<>> /\ UNCHANGED pcbEnExec /\ pcbAtender' = Head(pcbEnExec)
    BY <1>1, ListasNoVacias DEF AtTomarPcb, PasoAtender
  <2>2. pcbEnExec = <<Head(pcbEnExec)>>
    BY <2>1, UnoEnExec, ListaUnitaria
  <2> QED
    BY <2>1, <2>2
<1>2. CASE AtEnviarACpu
  BY <1>2 DEF AtEnviarACpu, PasoAtender
<1>3. CASE AtEsperarExec \/ AtProcesoTerminado \/ AtPostearDispatch
  BY <1>3 DEF AtEsperarExec, AtProcesoTerminado, AtPostearDispatch, PasoAtender
<1>4. CASE CPAgregarAExec
  <2>1. cp = "agregarAExec" /\ UNCHANGED atender
    BY <1>4 DEF CPAgregarAExec, PasoCP, atenderVars
  <2>2. atender \notin {"enviar", "recibir"}
    BY <2>1, UnoEnExec, ListasNoVacias
  <2> QED
    BY <2>1, <2>2
<1>5. CASE CPEsperarDispatch \/ CPEsperarReady \/ CPSacarDeReady \/ CPPostearExec
  BY <1>5 DEF CPEsperarDispatch, CPEsperarReady, CPSacarDeReady, CPPostearExec, PasoCP,
         atenderVars
<1>6. CASE PasosConsola \/ PasosLP \/ Pares \/ FinDelKernel \/ UNCHANGED vars
  BY <1>6, Ajeno DEF vars, atenderVars, listas
<1> QED
  BY <1>1, <1>2, <1>3, <1>4, <1>5, <1>6, Desglose DEF PasosAtender, PlanificadorCortoPlazo

\* A context is sent only when nothing of the process before it is left in the sockets.
LEMMA ConservaEnVuelo ==
  ASSUME UnaRespuesta, IInv, EnVueloAcotado, [Next]_vars
  PROVE  EnVueloAcotado'
<1> USE DEF EnVueloAcotado
<1>t. aCpu \in Seq(Pid) /\ deCpu \in Seq(Byte) /\ RespuestasCpu \subseteq Seq(Byte)
  BY KernelAssumption DEF IInv, TypeOK, TipoRed
<1>1. CASE AtEnviarACpu
  <2>1. /\ aCpu = <<>> /\ deCpu = <<>> /\ UNCHANGED <<deCpu, pcbAtender>>
        /\ atender' = "recibir" /\ aCpu' \in {aCpu, Append(aCpu, pcbAtender)}
    BY <1>1 DEF AtEnviarACpu, PasoAtender
  <2> QED
    BY <2>1
<1>2. CASE AtProcesoTerminado
  <2>1. deCpu # <<>> /\ deCpu' = Tail(deCpu) /\ UNCHANGED aCpu
    BY <1>2 DEF AtProcesoTerminado
  <2>2. aCpu = <<>> /\ deCpu' = <<>>
    BY <1>t, <2>1
  <2> QED
    BY <2>1, <2>2
<1>3. CASE AtEsperarExec \/ AtTomarPcb \/ AtPostearDispatch
  <2>1. atender # "recibir" /\ UNCHANGED <<aCpu, deCpu>>
    BY <1>3 DEF AtEsperarExec, AtTomarPcb, AtPostearDispatch, PasoAtender
  <2> QED
    BY <2>1
<1>4. CASE CpuAtiende
  <2>1. /\ aCpu # <<>> /\ aCpu' = Tail(aCpu) /\ UNCHANGED atender
    BY <1>4 DEF CpuAtiende, PasoPar, atenderVars
  <2>2. PICK respuesta \in RespuestasCpu : deCpu' = deCpu \o respuesta
    BY <1>4 DEF CpuAtiende
  <2>3. deCpu = <<>> /\ aCpu' = <<>> /\ Len(respuesta) <= 1 /\ respuesta \in Seq(Byte)
    BY <1>t, <2>1 DEF UnaRespuesta
  <2>4. deCpu' = respuesta
    BY <2>2, <2>3
  <2> QED
    BY <2>1, <2>3, <2>4
<1>5. CASE CpuCae
  BY <1>5, <1>t DEF CpuCae, PasoPar, atenderVars
<1>6. CASE PasosConsola \/ PasosLP \/ PlanificadorCortoPlazo \/ MemoriaAtiende \/ MemoriaCae
           \/ FinDelKernel \/ UNCHANGED vars
  <2>1. UNCHANGED <<atender, pcbAtender, aCpu, deCpu>>
    BY <1>6, Ajeno DEF vars, red, redCpu, atenderVars, MemoriaAtiende, MemoriaCae, PasoPar
  <2> QED
    BY <2>1
<1> QED
  BY <1>1, <1>2, <1>3, <1>4, <1>5, <1>6, Desglose DEF PasosAtender, Pares

(***************************************************************************)
(* With a CPU that answers each context at most once, what atender_pcb     *)
(* receives and what it removes from EXEC belong to the process it sent    *)
(* (planificadores.c:279-283 and 317), for every degree of                 *)
(* multiprogramming, any other answer of memoria and any death.            *)
(***************************************************************************)
THEOREM RespuestaCorrecta ==
  ASSUME UnaRespuesta
  PROVE  Spec => []RespuestaDelQueEjecuta
<1>1. Init => RInv
  BY DEF Init, RInv, EnVueloAcotado, ElQueAtiende
<1>2. IInv /\ RInv /\ [Next]_vars => RInv'
  BY ConservaElQueAtiende, ConservaEnVuelo DEF RInv
<1>3. IInv /\ RInv => RespuestaDelQueEjecuta
  <2> SUFFICES ASSUME IInv, RInv PROVE RespuestaDelQueEjecuta
    OBVIOUS
  <2>1. aCpu \in Seq(Pid) /\ deCpu \in Seq(Byte) /\ Pid \subseteq Nat /\ Byte \subseteq Nat
    BY KernelAssumption DEF IInv, TypeOK, TipoRed, Pid, Byte
  <2>2. aCpu \in Seq(Nat) /\ deCpu \in Seq(Nat)
    BY <2>1, SeqMonotonic
  <2>3. /\ Len(aCpu \o deCpu) = Len(aCpu) + Len(deCpu)
        /\ aCpu \o deCpu # <<>> => aCpu # <<>> \/ deCpu # <<>>
        /\ aCpu \o deCpu # <<>> => Len(aCpu \o deCpu) >= 1
    BY <2>2
  <2>4. aCpu \o deCpu # <<>> => Len(aCpu \o deCpu) = 1
    BY <2>2, <2>3 DEF RInv, EnVueloAcotado
  <2> QED
    BY <2>3, <2>4 DEF RInv, EnVueloAcotado, ElQueAtiende, RespuestaDelQueEjecuta
<1> QED
  BY <1>1, <1>2, <1>3, InvarianteKernel, PTL DEF Spec

-----------------------------------------------------------------------------
(* The bytes left over by memoria's first answer *)

\* Before memoria has loaded a process nothing has come from it, and only its closed
\* socket can pass for a confirmation.  Afterwards the socket is never empty, and the
\* byte that does not confirm is second in it, or first once a process was confirmed.
Sobras ==
  /\ cargados = <<>> => deMemoria = <<>> /\ ("memoria" \notin caidos => Confirmados = 0)
  /\ cargados # <<>> =>
       \/ Confirmados = 0 /\ Len(deMemoria) >= 2 /\ ~Confirma(deMemoria[2])
       \/ Confirmados = 1 /\ Len(deMemoria) >= 1 /\ ~Confirma(deMemoria[1])

\* The header of memoria's frame is followed by the length of an empty buffer.
LEMMA TramaDeMemoria ==
  LET trama == StreamVacio(CONF_PR_NUEVO) IN
    trama \in Seq(Nat) /\ Len(trama) = 5 /\ ~Confirma(trama[2])
<1>1. Int32(0) = <<0, 0, 0, 0>>
  BY DEF Int32
<1> DEFINE vacio == <<>>
<1>2. Len(vacio) = 0
  OBVIOUS
<1>3. StreamVacio(CONF_PR_NUEVO) = <<18>> \o <<0, 0, 0, 0>> \o <<>>
  BY <1>1, <1>2 DEF StreamVacio, StreamCrear, CONF_PR_NUEVO
<1> DEFINE s == <<18>>
           t == <<0, 0, 0, 0>>
<1>4. s \in Seq(Nat) /\ t \in Seq(Nat) /\ Len(s) = 1 /\ Len(t) = 4 /\ t[1] = 0
  OBVIOUS
<1>5. StreamVacio(CONF_PR_NUEVO) = s \o t \o <<>>
  BY <1>3
<1> HIDE DEF s, t
<1>6. /\ s \o t \in Seq(Nat) /\ Len(s \o t) = 5
      /\ (s \o t)[2] = 0
  <2>1. /\ s \o t \in Seq(Nat) /\ Len(s \o t) = Len(s) + Len(t)
        /\ \A i \in 1..(Len(s) + Len(t)) : (s \o t)[i] = IF i <= Len(s) THEN s[i] ELSE t[i - Len(s)]
    BY <1>4, ConcatProperties
  <2>2. Len(s) + Len(t) = 5 /\ 2 \in 1..(Len(s) + Len(t)) /\ ~(2 <= Len(s)) /\ 2 - Len(s) = 1
    BY <1>4
  <2> QED
    BY <1>4, <2>1, <2>2
<1>7. StreamVacio(CONF_PR_NUEVO) = s \o t
  BY <1>5, <1>6, ConcatEmptySeq
<1>8. \A x : x = 0 => ~Confirma(x)
  BY DEF Confirma, CONF_PR_NUEVO
<1> QED
  BY <1>6, <1>7, <1>8

\* Only planificador_largo_plazo, going past its recv, changes how many are confirmed.
LEMMA CuentaConfirmados ==
  ASSUME IInv, [Next]_vars
  PROVE  /\ Confirmados \in Int
         /\ LPConfirmar \/ LPConfirmarBasura => Confirmados' = Confirmados + 1
         /\ ~(LPConfirmar \/ LPConfirmarBasura) => Confirmados' = Confirmados
<1>t. /\ procesosEnReady \in Seq(Pid) /\ pcbEnExec \in Seq(Pid) /\ atendidos \in Seq(Pid)
      /\ Len(procesosEnReady) \in Nat /\ Len(pcbEnExec) \in Nat /\ Len(atendidos) \in Nat
  BY DEF IInv, TypeOK, TipoListas, TipoHilos
<1>e. /\ EnMano(cp, {"agregarAExec"}) \in {0, 1} /\ EnMano(lp, {"enviar", "confirmar"}) \in {0, 1}
  BY DEF EnMano
<1>0. Confirmados \in Int
  BY <1>t, <1>e DEF Confirmados
<1>1. CASE LPAgregarAReady
  <2>1. /\ lp = "agregarAReady" /\ lp' = "enviar" /\ UNCHANGED <<atendidos, pcbEnExec, cp>>
        /\ procesosEnReady' = Append(procesosEnReady, pcbLP)
    BY <1>1 DEF LPAgregarAReady, PasoLP, atenderVars, cpVars, Encolar
  <2>2. Len(procesosEnReady') = Len(procesosEnReady) + 1
    BY <1>t, <2>1
  <2>3. Confirmados' = Confirmados
    BY <1>t, <1>e, <2>1, <2>2 DEF Confirmados, EnMano
  <2> QED
    BY <1>0, <2>1, <2>3 DEF LPConfirmar, LPConfirmarBasura, PasoLP
<1>2. CASE LPConfirmar \/ LPConfirmarBasura
  <2>1. /\ lp = "confirmar" /\ lp' = "postear"
        /\ UNCHANGED <<atendidos, pcbEnExec, cp, procesosEnReady>>
    BY <1>2 DEF LPConfirmar, LPConfirmarBasura, PasoLP, atenderVars, cpVars
  <2> QED
    BY <1>0, <1>2, <1>t, <1>e, <2>1 DEF Confirmados, EnMano
<1>3. CASE LPEsperarNew \/ LPEsperarGrado \/ LPSacarDeNew \/ LPEnviarAMemoria \/ LPPostearReady
  <2>1. /\ UNCHANGED <<atendidos, pcbEnExec, cp, procesosEnReady>> /\ lp # "confirmar"
        /\ lp \in {"enviar", "confirmar"} <=> lp' \in {"enviar", "confirmar"}
    BY <1>3 DEF LPEsperarNew, LPEsperarGrado, LPSacarDeNew, LPEnviarAMemoria, LPPostearReady,
           PasoLP, atenderVars, cpVars
  <2> QED
    BY <1>0, <2>1 DEF Confirmados, EnMano, LPConfirmar, LPConfirmarBasura, PasoLP
<1>4. CASE CPSacarDeReady
  <2>1. /\ cp = "sacarDeReady" /\ cp' = "agregarAExec" /\ procesosEnReady # <<>>
        /\ UNCHANGED <<atendidos, pcbEnExec, lp>> /\ procesosEnReady' = Tail(procesosEnReady)
    BY <1>4, ListasNoVacias DEF CPSacarDeReady, PasoCP, atenderVars, lpVars
  <2>2. Len(procesosEnReady') = Len(procesosEnReady) - 1
    BY <1>t, <2>1
  <2>3. Confirmados' = Confirmados
    BY <1>t, <1>e, <2>1, <2>2 DEF Confirmados, EnMano
  <2> QED
    BY <1>0, <2>1, <2>3 DEF LPConfirmar, LPConfirmarBasura, PasoLP
<1>5. CASE CPAgregarAExec
  <2>1. /\ cp = "agregarAExec" /\ cp' = "postearExec" /\ UNCHANGED <<atendidos, lp, procesosEnReady>>
        /\ pcbEnExec' = Append(pcbEnExec, pcbCP)
    BY <1>5 DEF CPAgregarAExec, PasoCP, atenderVars, lpVars, Encolar
  <2>2. Len(pcbEnExec') = Len(pcbEnExec) + 1
    BY <1>t, <2>1
  <2>3. Confirmados' = Confirmados
    BY <1>t, <1>e, <2>1, <2>2 DEF Confirmados, EnMano
  <2> QED
    BY <1>0, <2>1, <2>3 DEF LPConfirmar, LPConfirmarBasura, PasoLP
<1>6. CASE CPEsperarDispatch \/ CPEsperarReady \/ CPPostearExec
  <2>1. /\ UNCHANGED <<atendidos, pcbEnExec, lp, procesosEnReady>>
        /\ cp # "agregarAExec" /\ cp' # "agregarAExec"
    BY <1>6 DEF CPEsperarDispatch, CPEsperarReady, CPPostearExec, PasoCP, atenderVars, lpVars
  <2> QED
    BY <1>0, <2>1 DEF Confirmados, EnMano, LPConfirmar, LPConfirmarBasura, PasoLP
<1>7. CASE AtProcesoTerminado
  <2>1. /\ pcbEnExec # <<>> /\ pcbEnExec' = Tail(pcbEnExec) /\ UNCHANGED <<lp, cp, procesosEnReady>>
        /\ atendidos' = Append(atendidos, pcbAtender)
    BY <1>7, ListasNoVacias
    DEF AtProcesoTerminado, PasoAtender, lpVars, cpVars, ExecTrasRespuesta
  <2>2. Len(pcbEnExec') = Len(pcbEnExec) - 1 /\ Len(atendidos') = Len(atendidos) + 1
    BY <1>t, <2>1
  <2>3. Confirmados' = Confirmados
    BY <1>t, <1>e, <2>1, <2>2 DEF Confirmados, EnMano
  <2> QED
    BY <1>0, <2>1, <2>3 DEF LPConfirmar, LPConfirmarBasura, PasoLP
<1>8. CASE AtEsperarExec \/ AtTomarPcb \/ AtEnviarACpu \/ AtPostearDispatch
  <2>1. UNCHANGED <<atendidos, pcbEnExec, lp, cp, procesosEnReady>>
    BY <1>8 DEF AtEsperarExec, AtTomarPcb, AtEnviarACpu, AtPostearDispatch, PasoAtender,
           lpVars, cpVars
  <2> QED
    BY <1>0, <2>1 DEF Confirmados, EnMano, LPConfirmar, LPConfirmarBasura, PasoLP
<1>9. CASE PasosConsola \/ Pares \/ FinDelKernel \/ UNCHANGED vars
  <2>1. UNCHANGED <<atendidos, pcbEnExec, lp, cp, procesosEnReady>>
    BY <1>9, Ajeno DEF vars, atenderVars, lpVars, cpVars, listas
  <2> QED
    BY <1>0, <2>1 DEF Confirmados, EnMano, LPConfirmar, LPConfirmarBasura, PasoLP
<1> QED
  BY <1>1, <1>2, <1>3, <1>4, <1>5, <1>6, <1>7, <1>8, <1>9, Desglose
  DEF PasosLP, PasosAtender, PlanificadorCortoPlazo

\* What arrives on a socket leaves the first two bytes where they were.
LEMMA LlegaDetras ==
  ASSUME NEW S, NEW a \in Seq(S), NEW r \in Seq(S)
  PROVE  /\ Len(a \o r) = Len(a) + Len(r)
         /\ Len(a) >= 1 => (a \o r)[1] = a[1]
         /\ Len(a) >= 2 => (a \o r)[2] = a[2]
<1>0. Len(a) \in Nat /\ Len(r) \in Nat
  OBVIOUS
<1>1. /\ Len(a \o r) = Len(a) + Len(r)
      /\ \A i \in 1..(Len(a) + Len(r)) : (a \o r)[i] = IF i <= Len(a) THEN a[i] ELSE r[i - Len(a)]
  BY ConcatProperties
<1>2. /\ Len(a) >= 1 => 1 \in 1..(Len(a) + Len(r)) /\ 1 <= Len(a)
      /\ Len(a) >= 2 => 2 \in 1..(Len(a) + Len(r)) /\ 2 <= Len(a)
  BY <1>0
<1> QED
  BY <1>1, <1>2

\* The byte that does not confirm stays in front of everything memoria writes later.
LEMMA ConservaSobras ==
  ASSUME RespuestaMemoria = StreamVacio(CONF_PR_NUEVO), IInv, Sobras, [Next]_vars
  PROVE  Sobras'
<1> USE DEF Sobras, Confirma
<1>t. /\ deMemoria \in Seq(Byte) /\ cargados \in Seq(Pid) /\ RespuestaMemoria \in Seq(Byte)
      /\ Len(RespuestaMemoria) = 5 /\ ~Confirma(RespuestaMemoria[2])
  BY KernelAssumption, TramaDeMemoria DEF IInv, TypeOK, TipoRed
<1>1. CASE MemoriaAtiende
  <2>1. /\ "memoria" \notin caidos /\ deMemoria' = deMemoria \o RespuestaMemoria
        /\ cargados' = Append(cargados, Head(aMemoria)) /\ lp' = lp
    BY <1>1 DEF MemoriaAtiende, PasoPar, lpVars
  <2>2. ~(LPConfirmar \/ LPConfirmarBasura)
    <3>1. cargados' # cargados
      BY <1>t, <2>1
    <3> QED
      BY <3>1 DEF LPConfirmar, LPConfirmarBasura, PasoLP
  <2>3. Confirmados' = Confirmados /\ cargados' # <<>>
    BY <1>t, <2>1, <2>2, CuentaConfirmados
  <2>4. CASE cargados = <<>>
    <3>1. deMemoria' = RespuestaMemoria
      BY <1>t, <2>1, <2>4, ConcatEmptySeq
    <3>2. Confirmados' = 0
      BY <2>1, <2>3, <2>4
    <3>3. Len(deMemoria') = 5 /\ deMemoria'[2] = RespuestaMemoria[2]
      BY <1>t, <3>1
    <3>4. Len(deMemoria') >= 2 /\ ~Confirma(deMemoria'[2])
      BY <1>t, <3>3
    <3> QED
      BY <2>3, <3>2, <3>4
  <2>5. CASE cargados # <<>>
    <3>1. /\ Len(deMemoria') = Len(deMemoria) + 5
          /\ Len(deMemoria) >= 1 => deMemoria'[1] = deMemoria[1]
          /\ Len(deMemoria) >= 2 => deMemoria'[2] = deMemoria[2]
      <4> DEFINE a == deMemoria
                 r == RespuestaMemoria
                 b == deMemoria'
      <4>1. a \in Seq(Byte) /\ r \in Seq(Byte) /\ Len(r) = 5 /\ b = a \o r
        BY <1>t, <2>1
      <4> HIDE DEF a, r, b
      <4>2. /\ Len(a \o r) = Len(a) + Len(r)
            /\ Len(a) >= 1 => (a \o r)[1] = a[1]
            /\ Len(a) >= 2 => (a \o r)[2] = a[2]
        BY <4>1, LlegaDetras
      <4>3. /\ Len(b) = Len(a) + 5
            /\ Len(a) >= 1 => b[1] = a[1]
            /\ Len(a) >= 2 => b[2] = a[2]
        BY <4>1, <4>2
      <4> QED
        BY <4>3 DEF a, b
    <3> QED
      BY <1>t, <2>3, <2>5, <3>1
  <2> QED
    BY <2>4, <2>5
<1>2. CASE LPConfirmar
  <2>1. /\ deMemoria # <<>> /\ Confirma(deMemoria[1]) /\ deMemoria' = Tail(deMemoria)
        /\ UNCHANGED <<cargados, caidos>> /\ Confirmados' = Confirmados + 1
    BY <1>2, <1>t, CuentaConfirmados DEF LPConfirmar, PasoLP
  <2>2. /\ cargados # <<>> /\ Confirmados = 0 /\ Len(deMemoria) >= 2 /\ ~Confirma(deMemoria[2])
    BY <2>1
  <2>3. Len(deMemoria') >= 1 /\ deMemoria'[1] = deMemoria[2]
    BY <1>t, <2>1, <2>2
  <2> QED
    BY <2>1, <2>2, <2>3
<1>3. CASE LPConfirmarBasura
  <2>1. /\ deMemoria = <<>> /\ "memoria" \in caidos /\ UNCHANGED <<deMemoria, cargados, caidos>>
    BY <1>3 DEF LPConfirmarBasura, PasoLP
  <2> QED
    BY <1>t, <2>1
<1>4. CASE ~MemoriaAtiende /\ ~LPConfirmar /\ ~LPConfirmarBasura
  <2>1. Confirmados' = Confirmados
    BY <1>4, CuentaConfirmados
  <2>2. UNCHANGED <<deMemoria, cargados>> /\ caidos \subseteq caidos'
    <3>1. CASE MemoriaCae \/ CpuAtiende \/ CpuCae
      BY <3>1 DEF MemoriaCae, CpuAtiende, CpuCae, redMemoria
    <3>2. CASE LPEsperarNew \/ LPEsperarGrado \/ LPSacarDeNew \/ LPAgregarAReady
               \/ LPEnviarAMemoria \/ LPPostearReady
      BY <3>2 DEF LPEsperarNew, LPEsperarGrado, LPSacarDeNew, LPAgregarAReady,
             LPEnviarAMemoria, LPPostearReady, PasoLP
    <3>3. CASE PasosConsola \/ PlanificadorCortoPlazo \/ PasosAtender \/ FinDelKernel
               \/ UNCHANGED vars
      BY <3>3, Ajeno DEF vars, red, redMemoria
    <3> QED
      BY <1>4, <3>1, <3>2, <3>3, Desglose DEF PasosLP, Pares
  <2> QED
    BY <2>1, <2>2
<1> QED
  BY <1>1, <1>2, <1>3, <1>4

(***************************************************************************)
(* With the frame memoria writes (memoria/src/atender_peticiones.c:59), of *)
(* which planificador_largo_plazo reads one byte (planificadores.c:206),   *)
(* no second process is confirmed once memoria has loaded one              *)
(* (UnaSolaConfirmacion), for any degree of multiprogramming and any       *)
(* number of processes, whatever the CPU answers and whoever dies.         *)
(***************************************************************************)
THEOREM SegundaConfirmacionNoLlega ==
  ASSUME RespuestaMemoria = StreamVacio(CONF_PR_NUEVO)
  PROVE  Spec => []UnaSolaConfirmacion
<1>1. Init => Sobras
  BY DEF Init, Sobras, Confirmados, EnMano
<1>2. IInv /\ Sobras /\ [Next]_vars => Sobras'
  BY ConservaSobras
<1>3. Sobras => UnaSolaConfirmacion
  BY DEF Sobras, UnaSolaConfirmacion
<1> QED
  BY <1>1, <1>2, <1>3, InvarianteKernel, PTL DEF Spec
=============================================================================
