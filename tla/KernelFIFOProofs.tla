--------------------------- MODULE KernelFIFOProofs ---------------------------
(***************************************************************************)
(* The kernel implements the FIFO scheduler of PlanificadorFIFO, for every *)
(* value of the constants: any degree of multiprogramming, any answers of  *)
(* the peers, any deaths.                                                  *)
(*                                                                         *)
(* Which step is which: INICIAR_PROCESO creates, list_add on READY admits, *)
(* list_remove from READY dispatches, list_remove from EXEC terminates;    *)
(* every other step of the four threads is a stutter.  That an admission   *)
(* never goes back to an older process needs an invariant on the           *)
(* identifiers (Orden): admitted, in the hands of the long-term scheduler, *)
(* in NEW, in the hands of the console, not handed out, in this order.     *)
(* The race on procesosEnNew may lose a PCB, never exchange two.  That no  *)
(* more than GRADO_MULTIPROGRAMACION are admitted needs another (Lugares): *)
(* the slots of the semaphore, those in use and the one in the hands of    *)
(* the long-term scheduler are all there ever were.                        *)
(***************************************************************************)
EXTENDS KernelContratoProofs

EnCamino == IF cp = "agregarAExec" THEN <<pcbCP>> ELSE <<>>
Despachados == atendidos \o pcbEnExec \o EnCamino

\* The PCB the long-term scheduler has taken from NEW and not yet admitted, and the one
\* the console is about to link.
TomadoDeNew == IF lp = "agregarAReady" THEN {pcbLP} ELSE {}
PorEnlazar == IF consola = "enlazar" THEN {pidConsola} ELSE {}

Antes(A, B) == \A a \in A, b \in B : a < b

Orden ==
  /\ Antes(Range(Admitidos), TomadoDeNew)
  /\ Antes(Range(Admitidos) \union TomadoDeNew, Range(procesosEnNew))
  /\ \A i, j \in 1..Len(procesosEnNew) : i < j => procesosEnNew[i] < procesosEnNew[j]
  /\ Antes(Range(Admitidos) \union TomadoDeNew \union Range(procesosEnNew), PorEnlazar)
  /\ Antes(Range(Admitidos) \union TomadoDeNew \union Range(procesosEnNew) \union PorEnlazar,
           {siguientePID})

\* Nothing gives a slot back.
Lugares ==
  GRADO_MULTIPROGRAMACION = semGradoMultiprogramacion + Len(Admitidos)
                            + EnMano(lp, {"sacarDeNew", "agregarAReady"})

FInv == ElQueAtiende /\ Orden /\ Lugares

-----------------------------------------------------------------------------
(* Sequences *)

LEMMA AgregarAlConcatenar ==
  ASSUME NEW S, NEW s \in Seq(S), NEW t \in Seq(S), NEW e \in S
  PROVE  /\ s \o Append(t, e) = Append(s \o t, e)
         /\ s \o <<e>> = Append(s, e)
         /\ s \o <<>> = s
  OBVIOUS

\* Moving the head of a list to the end of what precedes it.
LEMMA MoverCabeza ==
  ASSUME NEW S, NEW s \in Seq(S), NEW t \in Seq(S), t # <<>>
  PROVE  /\ Append(s, Head(t)) \o Tail(t) = s \o t
         /\ (s \o t)[Len(s) + 1] = Head(t)
         /\ Len(s) < Len(s \o t)
<1> DEFINE u == Append(s, Head(t)) \o Tail(t)
           v == s \o t
<1>1. /\ Head(t) \in S /\ Tail(t) \in Seq(S) /\ Len(Tail(t)) = Len(t) - 1 /\ Len(t) > 0
      /\ \A i \in 1..Len(Tail(t)) : Tail(t)[i] = t[i + 1]
  BY HeadTailProperties
<1>2. u \in Seq(S) /\ v \in Seq(S) /\ Len(u) = Len(v) /\ Len(v) = Len(s) + Len(t)
  BY <1>1
<1>3. \A i \in 1..Len(u) : u[i] = v[i]
  <2> TAKE i \in 1..Len(u)
  <2>1. CASE i <= Len(s)
    BY <1>1, <1>2, <2>1
  <2>2. CASE i = Len(s) + 1
    BY <1>1, <1>2, <2>2
  <2>3. CASE i > Len(s) + 1
    BY <1>1, <1>2, <2>3
  <2> QED
    BY <1>2, <2>1, <2>2, <2>3
<1>4. u = v
  BY <1>2, <1>3, SeqEqual
<1> QED
  BY <1>1, <1>2, <1>4

-----------------------------------------------------------------------------
(* The mapping *)

\* What the mapping reads is made of identifiers.
LEMMA TipoDelMapa ==
  ASSUME IInv
  PROVE  /\ EnCamino \in Seq(Pid) /\ Despachados \in Seq(Pid) /\ Admitidos \in Seq(Pid)
         /\ atendidos \in Seq(Pid) /\ pcbEnExec \in Seq(Pid) /\ procesosEnReady \in Seq(Pid)
         /\ Admitidos = Despachados \o procesosEnReady
<1>1. atendidos \in Seq(Pid) /\ pcbEnExec \in Seq(Pid) /\ procesosEnReady \in Seq(Pid)
  BY DEF IInv, TypeOK, TipoHilos, TipoListas
<1>2. EnCamino \in Seq(Pid)
  BY DEF IInv, Punteros, EnCamino
<1> QED
  BY <1>1, <1>2 DEF Despachados, Admitidos, EnCamino

\* While the short-term scheduler holds the permission, EXEC is empty.
LEMMA ExecVacia ==
  ASSUME IInv, cp \in {"esperarReady", "sacarDeReady", "agregarAExec"}
  PROVE  pcbEnExec = <<>>
  BY UnoEnExec

\* list_add on READY admits.
LEMMA PasoAdmitir ==
  ASSUME IInv, LPAgregarAReady
  PROVE  /\ Admitidos' = Append(Admitidos, pcbLP)
         /\ UNCHANGED <<siguientePID, Despachados, atendidos>>
<1>1. /\ procesosEnReady' = Append(procesosEnReady, pcbLP) /\ lp = "agregarAReady"
      /\ UNCHANGED <<siguientePID, cp, pcbCP, atendidos, pcbEnExec>>
  BY DEF LPAgregarAReady, Encolar, PasoLP, consolaVars, cpVars, atenderVars
<1>2. pcbLP \in Pid
  BY <1>1 DEF IInv, Punteros
<1>3. UNCHANGED Despachados
  BY <1>1 DEF Despachados, EnCamino
<1>4. Admitidos' = Despachados \o Append(procesosEnReady, pcbLP)
  BY <1>1, <1>3 DEF Admitidos, Despachados, EnCamino
<1>5. Admitidos' = Append(Admitidos, pcbLP)
  <2>1. /\ Despachados \in Seq(Pid) /\ procesosEnReady \in Seq(Pid)
        /\ Admitidos = Despachados \o procesosEnReady
    BY TipoDelMapa
  <2>2. Despachados \o Append(procesosEnReady, pcbLP)
          = Append(Despachados \o procesosEnReady, pcbLP)
    BY <1>2, <2>1, AgregarAlConcatenar
  <2> QED
    BY <1>4, <2>1, <2>2
<1> QED
  BY <1>1, <1>3, <1>5

\* list_remove from READY dispatches the process that waited longest.
LEMMA PasoDespachar ==
  ASSUME IInv, CPSacarDeReady
  PROVE  /\ Despachados = atendidos /\ Len(Despachados) < Len(Admitidos)
         /\ Despachados' = Append(Despachados, Admitidos[Len(Despachados) + 1])
         /\ UNCHANGED <<siguientePID, Admitidos, atendidos>>
<1>1. /\ cp = "sacarDeReady" /\ cp' = "agregarAExec" /\ pcbCP' = Head(procesosEnReady)
      /\ procesosEnReady' = Tail(procesosEnReady)
      /\ UNCHANGED <<siguientePID, atendidos, pcbEnExec>>
  BY DEF CPSacarDeReady, PasoCP, consolaVars, atenderVars
<1>2. pcbEnExec = <<>> /\ procesosEnReady # <<>> /\ Head(procesosEnReady) \in Pid
  BY <1>1, ExecVacia, ListasNoVacias, TipoDelMapa, CabezaYCola
<1>3. Despachados = atendidos
  BY <1>1, <1>2, TipoDelMapa DEF Despachados, EnCamino
<1>4. Despachados' = Append(atendidos, Head(procesosEnReady))
  <2>1. Despachados' = atendidos \o <<>> \o <<Head(procesosEnReady)>>
    BY <1>1, <1>2 DEF Despachados, EnCamino
  <2> QED
    BY <1>2, <2>1, TipoDelMapa, AgregarAlConcatenar
<1>5. /\ Admitidos = atendidos \o procesosEnReady
      /\ Admitidos' = Append(atendidos, Head(procesosEnReady)) \o Tail(procesosEnReady)
  BY <1>1, <1>3, <1>4, TipoDelMapa DEF Admitidos, Despachados, EnCamino
<1> QED
  BY <1>1, <1>2, <1>3, <1>4, <1>5, TipoDelMapa, MoverCabeza

\* list_remove from EXEC terminates the process that executes.
LEMMA PasoTerminar ==
  ASSUME IInv, ElQueAtiende, AtProcesoTerminado
  PROVE  /\ Len(atendidos) < Len(Despachados)
         /\ atendidos' = Append(atendidos, Despachados[Len(atendidos) + 1])
         /\ UNCHANGED <<siguientePID, Admitidos, Despachados>>
<1>1. /\ atender = "recibir" /\ pcbEnExec' = Tail(pcbEnExec)
      /\ atendidos' = Append(atendidos, pcbAtender)
      /\ UNCHANGED <<siguientePID, cp, pcbCP, procesosEnReady>>
  BY DEF AtProcesoTerminado, ExecTrasRespuesta, PasoAtender, consolaVars, cpVars
<1>2. pcbEnExec = <<pcbAtender>> /\ cp # "agregarAExec" /\ pcbAtender \in Pid
  BY <1>1, UnoEnExec, ListasNoVacias DEF ElQueAtiende, IInv, Punteros
<1>3. Despachados = Append(atendidos, pcbAtender)
  <2>1. Despachados = atendidos \o <<pcbAtender>> \o <<>>
    BY <1>2 DEF Despachados, EnCamino
  <2> QED
    BY <1>2, <2>1, TipoDelMapa, AgregarAlConcatenar
<1>4. Despachados' = Append(atendidos, pcbAtender)
  <2>1. Despachados' = Append(atendidos, pcbAtender) \o <<>> \o <<>>
    BY <1>1, <1>2 DEF Despachados, EnCamino
  <2>2. Append(atendidos, pcbAtender) \in Seq(Pid)
    BY <1>2, TipoDelMapa
  <2> QED
    BY <1>2, <2>1, <2>2, AgregarAlConcatenar
<1>5. UNCHANGED Admitidos
  BY <1>1, <1>3, <1>4 DEF Admitidos, Despachados, EnCamino
<1>6. Len(atendidos) < Len(Despachados) /\ Despachados[Len(atendidos) + 1] = pcbAtender
  BY <1>2, <1>3, TipoDelMapa
<1> QED
  BY <1>1, <1>3, <1>4, <1>5, <1>6

\* Every other step leaves the mapping alone.
LEMMA PasoInvisible ==
  ASSUME IInv, [Next]_vars, ~LPAgregarAReady, ~CPSacarDeReady, ~AtProcesoTerminado
  PROVE  UNCHANGED <<Admitidos, Despachados, atendidos>>
<1> USE DEF Admitidos, Despachados, EnCamino
<1>1. CASE CPAgregarAExec
  <2>1. /\ cp = "agregarAExec" /\ cp' = "postearExec" /\ pcbEnExec' = Append(pcbEnExec, pcbCP)
        /\ UNCHANGED <<atendidos, procesosEnReady>>
    BY <1>1 DEF CPAgregarAExec, Encolar, PasoCP, atenderVars
  <2>2. pcbEnExec = <<>> /\ pcbCP \in Pid
    BY <2>1, ExecVacia DEF IInv, Punteros
  <2>3. Despachados = atendidos \o <<>> \o <<pcbCP>>
    BY <2>1, <2>2
  <2>4. Despachados' = atendidos \o <<pcbCP>> \o <<>>
    <3>1. Append(<<>>, pcbCP) = <<pcbCP>>
      BY <2>2
    <3> QED
      BY <2>1, <2>2, <3>1
  <2>5. Despachados' = Despachados
    <3>1. /\ atendidos \in Seq(Pid) /\ atendidos \o <<pcbCP>> \in Seq(Pid)
          /\ atendidos \o <<>> = atendidos
      BY <2>2, TipoDelMapa
    <3> QED
      <4>1. ASSUME NEW s \in Seq(Pid) PROVE s \o <<>> = s
        BY ConcatEmptySeq
      <4>2. (atendidos \o <<pcbCP>>) \o <<>> = atendidos \o <<pcbCP>>
        BY <3>1, <4>1
      <4> QED
        BY <2>3, <2>4, <3>1, <4>2
  <2> QED
    BY <2>1, <2>5
<1>2. CASE CPEsperarDispatch \/ CPEsperarReady \/ CPPostearExec
  <2>1. /\ cp # "agregarAExec" /\ cp' # "agregarAExec"
        /\ UNCHANGED <<atendidos, pcbEnExec, procesosEnReady>>
    BY <1>2 DEF CPEsperarDispatch, CPEsperarReady, CPPostearExec, PasoCP, atenderVars
  <2> QED
    BY <2>1
<1>3. CASE ~PlanificadorCortoPlazo
  <2>1. CASE PasosLP
    BY <2>1, Ajeno DEF cpVars, atenderVars, PasosLP, LPEsperarNew, LPEsperarGrado,
           LPSacarDeNew, LPEnviarAMemoria, LPConfirmar, LPConfirmarBasura, LPPostearReady
  <2>2. CASE PasosAtender
    BY <2>2, Ajeno DEF cpVars, PasosAtender, AtEsperarExec, AtTomarPcb, AtEnviarACpu,
           AtPostearDispatch
  <2>3. CASE PasosConsola \/ Pares \/ FinDelKernel \/ UNCHANGED vars
    BY <2>3, Ajeno DEF vars, cpVars, atenderVars, listas
  <2> QED
    BY <1>3, <2>1, <2>2, <2>3, Desglose
<1> QED
  BY <1>1, <1>2, <1>3 DEF PlanificadorCortoPlazo

-----------------------------------------------------------------------------
(* The order of the identifiers *)

\* What the order is about are identifiers, all of them numbers.
LEMMA TipoDelOrden ==
  ASSUME IInv
  PROVE  /\ Range(Admitidos) \subseteq Nat /\ TomadoDeNew \subseteq Nat
         /\ Range(procesosEnNew) \subseteq Nat /\ PorEnlazar \subseteq Nat
         /\ siguientePID \in Nat /\ procesosEnNew \in Seq(Pid) /\ Pid \subseteq Nat
<1>1. /\ procesosEnNew \in Seq(Pid) /\ siguientePID \in Nat /\ Pid \subseteq Nat
  BY KernelAssumption DEF IInv, TypeOK, TipoListas, TipoConsola, Pid
<1>2. Range(Admitidos) \subseteq Pid /\ Range(procesosEnNew) \subseteq Pid
  BY <1>1, TipoDelMapa, RangoDeLista
<1>3. TomadoDeNew \subseteq Pid /\ PorEnlazar \subseteq Pid
  BY DEF IInv, Punteros, TomadoDeNew, PorEnlazar
<1> QED
  BY <1>1, <1>2, <1>3

\* A growing list whose head is taken, and one to which something greater is appended.
LEMMA Creciente ==
  ASSUME NEW S \in SUBSET Nat, NEW s \in Seq(S),
         \A i, j \in 1..Len(s) : i < j => s[i] < s[j]
  PROVE  /\ s # <<>> => /\ Antes({Head(s)}, Range(Tail(s)))
                        /\ \A i, j \in 1..Len(Tail(s)) : i < j => Tail(s)[i] < Tail(s)[j]
         /\ \A e \in S : Antes(Range(s), {e}) =>
               \A i, j \in 1..Len(Append(s, e)) : i < j => Append(s, e)[i] < Append(s, e)[j]
<1>1. ASSUME s # <<>>
      PROVE  /\ Antes({Head(s)}, Range(Tail(s)))
             /\ \A i, j \in 1..Len(Tail(s)) : i < j => Tail(s)[i] < Tail(s)[j]
  <2>1. /\ Tail(s) \in Seq(S) /\ Len(Tail(s)) = Len(s) - 1 /\ Len(s) > 0
        /\ \A i \in 1..Len(Tail(s)) : Tail(s)[i] = s[i + 1]
        /\ Head(s) = s[1]
    BY <1>1
  <2>2. \A i \in 1..Len(Tail(s)) : i + 1 \in 1..Len(s) /\ 1 < i + 1 /\ Head(s) < Tail(s)[i]
    BY <2>1
  <2>3. Antes({Head(s)}, Range(Tail(s)))
    BY <2>1, <2>2 DEF Antes, Range
  <2> QED
    BY <2>1, <2>2, <2>3
<1>2. ASSUME NEW e \in S, Antes(Range(s), {e})
      PROVE  \A i, j \in 1..Len(Append(s, e)) : i < j => Append(s, e)[i] < Append(s, e)[j]
  <2>1. \A i \in 1..Len(s) : s[i] < e
    BY <1>2 DEF Antes, Range
  <2>2. /\ Len(Append(s, e)) = Len(s) + 1 /\ Append(s, e)[Len(s) + 1] = e
        /\ \A i \in 1..Len(s) : Append(s, e)[i] = s[i]
    OBVIOUS
  <2> QED
    BY <2>1, <2>2
<1> QED
  BY <1>1, <1>2

\* The console: a new identifier is greater than every other, and the race on NEW either
\* appends it or loses it.
LEMMA ConservaOrdenConsola ==
  ASSUME IInv, Orden, PasosConsola, UNCHANGED Admitidos
  PROVE  Orden'
<1> USE TipoDelOrden DEF Orden
<1>t. UNCHANGED TomadoDeNew
  BY Ajeno DEF TomadoDeNew, lpVars
<1>1. CASE IniciarProceso
  <2>1. /\ PorEnlazar = {} /\ PorEnlazar' = {siguientePID} /\ siguientePID' = siguientePID + 1
        /\ UNCHANGED procesosEnNew
    BY <1>1 DEF IniciarProceso, NuevoPID, PasoConsola, PorEnlazar
  <2> QED
    BY <1>t, <2>1 DEF Antes
<1>2. CASE EnlazarEnNew
  <2>1. /\ PorEnlazar = {pidConsola} /\ PorEnlazar' = {} /\ UNCHANGED siguientePID
        /\ pidConsola \in Pid
        /\ procesosEnNew' \in {procesosEnNew, Append(procesosEnNew, pidConsola)}
    BY <1>2 DEF EnlazarEnNew, ResultadosDeEnlazar, PasoConsola, PorEnlazar, IInv, Punteros
  <2>2. CASE procesosEnNew' = procesosEnNew
    BY <1>t, <2>1, <2>2 DEF Antes
  <2>3. CASE procesosEnNew' = Append(procesosEnNew, pidConsola)
    <3>1. Range(procesosEnNew') = Range(procesosEnNew) \union {pidConsola}
      BY <2>1, <2>3, RangoAlAgregar
    <3>2. Antes(Range(procesosEnNew), {pidConsola})
      BY <2>1 DEF Antes
    <3>3. \A i, j \in 1..Len(procesosEnNew') : i < j => procesosEnNew'[i] < procesosEnNew'[j]
      BY <2>1, <2>3, <3>2, Creciente
    <3> QED
      BY <1>t, <2>1, <3>1, <3>3 DEF Antes
  <2> QED
    BY <2>1, <2>2, <2>3
<1>3. CASE PostearNew \/ FinalizarProceso \/ UbicarPcb \/ FinalizarPcb
  <2>1. PorEnlazar = {} /\ PorEnlazar' = {} /\ UNCHANGED <<procesosEnNew, siguientePID>>
    BY <1>3 DEF PostearNew, FinalizarProceso, UbicarPcb, Buscar, FinalizarPcb, PasoConsola,
           PorEnlazar
  <2> QED
    BY <1>t, <2>1
<1> QED
  BY <1>1, <1>2, <1>3 DEF PasosConsola

\* The long-term scheduler takes the oldest of NEW and admits it.
LEMMA ConservaOrdenLP ==
  ASSUME IInv, Orden, PasosLP, LPAgregarAReady \/ UNCHANGED Admitidos
  PROVE  Orden'
<1> USE TipoDelOrden DEF Orden
<1>c. UNCHANGED <<PorEnlazar, siguientePID>>
  BY Ajeno DEF PorEnlazar, consolaVars
<1>1. CASE LPSacarDeNew
  <2>1. /\ procesosEnNew # <<>> /\ procesosEnNew' = Tail(procesosEnNew)
        /\ TomadoDeNew' = {Head(procesosEnNew)}
    BY <1>1 DEF LPSacarDeNew, PasoLP, TomadoDeNew
  <2>2. /\ Range(procesosEnNew') \subseteq Range(procesosEnNew)
        /\ Head(procesosEnNew) \in Range(procesosEnNew)
    BY <2>1 DEF Range
  <2>3. /\ Antes(TomadoDeNew', Range(procesosEnNew'))
        /\ \A i, j \in 1..Len(procesosEnNew') : i < j => procesosEnNew'[i] < procesosEnNew'[j]
    BY <2>1, Creciente
  <2>4. UNCHANGED Admitidos
    BY <1>1 DEF LPSacarDeNew, LPAgregarAReady, PasoLP
  <2> QED
    BY <1>c, <2>1, <2>2, <2>3, <2>4 DEF Antes
<1>2. CASE LPAgregarAReady
  <2>1. /\ TomadoDeNew = {pcbLP} /\ TomadoDeNew' = {} /\ UNCHANGED procesosEnNew
    BY <1>2 DEF LPAgregarAReady, PasoLP, TomadoDeNew
  <2>2. Range(Admitidos') = Range(Admitidos) \union {pcbLP}
    <3>1. pcbLP \in Pid
      BY <1>2 DEF LPAgregarAReady, PasoLP, IInv, Punteros
    <3>2. Admitidos \in Seq(Pid) /\ Admitidos' = Append(Admitidos, pcbLP)
      BY <1>2, PasoAdmitir, TipoDelMapa
    <3> QED
      BY <3>1, <3>2, RangoAlAgregar
  <2> QED
    BY <1>c, <2>1, <2>2 DEF Antes
<1>3. CASE LPEsperarNew \/ LPEsperarGrado \/ LPEnviarAMemoria \/ LPConfirmar
           \/ LPConfirmarBasura \/ LPPostearReady
  <2>1. TomadoDeNew = {} /\ TomadoDeNew' = {} /\ UNCHANGED procesosEnNew /\ lp # "agregarAReady"
    BY <1>3 DEF LPEsperarNew, LPEsperarGrado, LPEnviarAMemoria, LPConfirmar,
           LPConfirmarBasura, LPPostearReady, PasoLP, TomadoDeNew
  <2>2. UNCHANGED Admitidos
    BY <2>1 DEF LPAgregarAReady, PasoLP
  <2> QED
    BY <1>c, <2>1, <2>2
<1> QED
  BY <1>1, <1>2, <1>3 DEF PasosLP

LEMMA ConservaOrden ==
  ASSUME IInv, ElQueAtiende, Orden, [Next]_vars
  PROVE  Orden'
<1>1. LPAgregarAReady \/ UNCHANGED Admitidos
  BY PasoDespachar, PasoTerminar, PasoInvisible
<1>2. CASE PasosLP
  BY <1>1, <1>2, ConservaOrdenLP
<1>3. CASE PasosConsola
  <2>1. UNCHANGED Admitidos
    BY <1>1, <1>3, Ajeno DEF LPAgregarAReady, PasoLP, lpVars
  <2> QED
    BY <1>3, <2>1, ConservaOrdenConsola
<1>4. CASE ~PasosLP /\ ~PasosConsola
  <2>1. UNCHANGED <<consola, pidConsola, siguientePID, lp, pcbLP, procesosEnNew, Admitidos>>
    BY <1>1, <1>4, Ajeno, Desglose DEF vars, consolaVars, lpVars, listas, PasosLP
  <2> QED
    BY <2>1 DEF Orden, TomadoDeNew, PorEnlazar, Antes
<1> QED
  BY <1>2, <1>3, <1>4

-----------------------------------------------------------------------------
(* The slots *)

LEMMA ConservaLugares ==
  ASSUME IInv, ElQueAtiende, Lugares, [Next]_vars
  PROVE  Lugares'
<1> USE DEF Lugares, EnMano
<1>t. /\ semGradoMultiprogramacion \in Nat /\ Len(Admitidos) \in Nat
  BY TipoDelMapa DEF IInv, TypeOK, TipoHilos
<1>0. LPAgregarAReady \/ UNCHANGED Admitidos
  BY PasoDespachar, PasoTerminar, PasoInvisible
<1>1. CASE LPAgregarAReady
  <2>1. /\ lp = "agregarAReady" /\ lp' = "enviar" /\ UNCHANGED semGradoMultiprogramacion
    BY <1>1 DEF LPAgregarAReady, PasoLP
  <2>2. Len(Admitidos') = Len(Admitidos) + 1
    <3>1. pcbLP \in Pid
      BY <2>1 DEF IInv, Punteros
    <3> QED
      BY <1>1, <3>1, PasoAdmitir, TipoDelMapa
  <2> QED
    BY <1>t, <2>1, <2>2
<1>2. CASE LPEsperarGrado
  <2>1. /\ lp = "esperarGrado" /\ lp' = "sacarDeNew" /\ UNCHANGED Admitidos
        /\ semGradoMultiprogramacion' = semGradoMultiprogramacion - 1
    BY <1>0, <1>2 DEF LPEsperarGrado, LPAgregarAReady, PasoLP
  <2> QED
    BY <1>t, <2>1
<1>3. CASE LPSacarDeNew
  <2>1. /\ lp = "sacarDeNew" /\ lp' = "agregarAReady" /\ UNCHANGED Admitidos
        /\ UNCHANGED semGradoMultiprogramacion
    BY <1>0, <1>3 DEF LPSacarDeNew, LPAgregarAReady, PasoLP
  <2> QED
    BY <2>1
<1>4. CASE LPEsperarNew \/ LPEnviarAMemoria \/ LPConfirmar \/ LPConfirmarBasura
           \/ LPPostearReady
  <2>1. /\ lp \notin {"sacarDeNew", "agregarAReady"} /\ lp' \notin {"sacarDeNew", "agregarAReady"}
        /\ UNCHANGED semGradoMultiprogramacion
    BY <1>4 DEF LPEsperarNew, LPEnviarAMemoria, LPConfirmar, LPConfirmarBasura,
           LPPostearReady, PasoLP
  <2>2. UNCHANGED Admitidos
    BY <1>0, <2>1 DEF LPAgregarAReady, PasoLP
  <2> QED
    BY <2>1, <2>2
<1>5. CASE ~PasosLP
  <2>1. UNCHANGED <<lp, semGradoMultiprogramacion, Admitidos>>
    BY <1>0, <1>5, Ajeno, Desglose DEF vars, lpVars, PasosLP
  <2> QED
    BY <2>1
<1> QED
  BY <1>1, <1>2, <1>3, <1>4, <1>5 DEF PasosLP

-----------------------------------------------------------------------------
(* The refinement *)

LEMMA InicialFIFO == Init => FInv /\ FIFO!Init
<1> SUFFICES ASSUME Init PROVE FInv /\ FIFO!Init
  OBVIOUS
<1>1. /\ Admitidos = <<>> /\ TomadoDeNew = {} /\ PorEnlazar = {}
  BY DEF Init, Admitidos, TomadoDeNew, PorEnlazar
<1>2. Orden
  BY <1>1 DEF Init, Orden, Antes, Range
<1>3. Lugares
  BY <1>1, KernelAssumption DEF Init, Lugares, EnMano
<1>4. ElQueAtiende
  BY DEF Init, ElQueAtiende
<1>5. FIFO!Init
  BY <1>1 DEF Init, FIFO!Init
<1> QED
  BY <1>2, <1>3, <1>4, <1>5 DEF FInv

LEMMA InductivaFIFO == IInv /\ FInv /\ [Next]_vars => FInv'
  BY ConservaElQueAtiende, ConservaOrden, ConservaLugares DEF FInv

\* Each step of the kernel is a step of the abstract scheduler or none.
LEMMA PasoFIFO ==
  ASSUME IInv, FInv, [Next]_vars
  PROVE  [FIFO!Next]_FIFO!vars
<1> USE DEF FInv
<1>1. CASE IniciarProceso
  <2>1. UNCHANGED <<Admitidos, Despachados, atendidos>>
    BY <1>1, PasoInvisible DEF IniciarProceso, PasoConsola, LPAgregarAReady, PasoLP,
           CPSacarDeReady, PasoCP, AtProcesoTerminado, PasoAtender, lpVars, cpVars, atenderVars
  <2>2. siguientePID < MaxPid /\ siguientePID' = siguientePID + 1
    BY <1>1 DEF IniciarProceso
  <2>3. FIFO!Crear
    BY <2>1, <2>2 DEF FIFO!Crear, Despachados, EnCamino
  <2> QED
    BY <2>3 DEF FIFO!Next
<1>2. CASE LPAgregarAReady
  <2>1. /\ Admitidos' = Append(Admitidos, pcbLP)
        /\ UNCHANGED <<siguientePID, Despachados, atendidos>>
    BY <1>2, PasoAdmitir
  <2>2. Len(Admitidos) < GRADO_MULTIPROGRAMACION
    BY <1>2, TipoDelMapa DEF LPAgregarAReady, PasoLP, Lugares, EnMano, IInv, TypeOK, TipoHilos
  <2>3. pcbLP \in 0..(siguientePID - 1) /\ \A i \in 1..Len(Admitidos) : Admitidos[i] < pcbLP
    <3>1. TomadoDeNew = {pcbLP}
      BY <1>2 DEF LPAgregarAReady, PasoLP, TomadoDeNew
    <3>2. pcbLP \in Nat /\ siguientePID \in Nat /\ pcbLP < siguientePID
      BY <3>1, TipoDelOrden DEF Orden, Antes
    <3>3. \A p \in Range(Admitidos) : p < pcbLP
      BY <3>1 DEF Orden, Antes
    <3>4. \A i \in 1..Len(Admitidos) : Admitidos[i] \in Range(Admitidos)
      <4>1. DOMAIN Admitidos = 1..Len(Admitidos)
        BY TipoDelMapa
      <4> QED
        BY <4>1 DEF Range
    <3> QED
      BY <3>2, <3>3, <3>4
  <2>4. FIFO!Admitir(pcbLP)
    BY <2>1, <2>2, <2>3 DEF FIFO!Admitir, Despachados, EnCamino
  <2> QED
    BY <2>3, <2>4 DEF FIFO!Next
<1>3. CASE CPSacarDeReady
  <2>1. FIFO!Despachar
    BY <1>3, PasoDespachar DEF FIFO!Despachar, Despachados, EnCamino
  <2> QED
    BY <2>1 DEF FIFO!Next
<1>4. CASE AtProcesoTerminado
  <2>1. FIFO!Terminar
    BY <1>4, PasoTerminar DEF FIFO!Terminar, Despachados, EnCamino
  <2> QED
    BY <2>1 DEF FIFO!Next
<1>5. CASE ~IniciarProceso /\ ~LPAgregarAReady /\ ~CPSacarDeReady /\ ~AtProcesoTerminado
  <2>1. UNCHANGED <<Admitidos, Despachados, atendidos>>
    BY <1>5, PasoInvisible
  <2>2. UNCHANGED siguientePID
    <3>1. CASE PasosConsola
      BY <1>5, <3>1 DEF PasosConsola, EnlazarEnNew, PostearNew, FinalizarProceso, UbicarPcb,
             Buscar, FinalizarPcb
    <3>2. CASE ~PasosConsola
      BY <3>2, Ajeno, Desglose DEF vars, consolaVars
    <3> QED
      BY <3>1, <3>2
  <2> QED
    BY <2>1, <2>2 DEF FIFO!vars, Despachados, EnCamino
<1> QED
  BY <1>1, <1>2, <1>3, <1>4, <1>5

(***************************************************************************)
(* The four threads of the kernel, with their unlocked accesses, implement *)
(* the abstract FIFO scheduler, whatever the degree of multiprogramming,   *)
(* the number of processes, the answers of the peers and their deaths.     *)
(***************************************************************************)
THEOREM KernelImplementaFIFO == Spec => ImplementaFIFO
<1>1. Init => FInv /\ FIFO!Init
  BY InicialFIFO
<1>2. IInv /\ FInv /\ [Next]_vars => FInv'
  BY InductivaFIFO
<1>3. IInv /\ FInv /\ [Next]_vars => [FIFO!Next]_FIFO!vars
  BY PasoFIFO
<1> QED
  BY <1>1, <1>2, <1>3, InvarianteKernel, PTL DEF Spec, ImplementaFIFO, FIFO!Spec
=============================================================================
