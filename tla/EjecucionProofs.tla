---------------------------- MODULE EjecucionProofs ----------------------------
(***************************************************************************)
(* memoria and the CPU execute the file, for every value of the constants: *)
(* any files, any number of processes, any interleaving of the three       *)
(* threads with the kernel, and any deaths.                                *)
(*                                                                         *)
(* Nothing in the code ties an answer to its request: memoria reads the    *)
(* next byte of one socket, the CPU the next frame of another, and         *)
(* procesosEnMemoria is shared without a lock.  The invariant is what ties *)
(* them: the process that is dispatched is the first that was asked for    *)
(* and the first in the list (Carga, Despacho); one request, its lookup or *)
(* its answer is under way while the CPU waits for it, and it is for the   *)
(* instruction that comes next (Busqueda); and the registers are those of  *)
(* the lines executed so far (Avance).                                     *)
(***************************************************************************)
EXTENDS EjecucionProps, SequenceTheorems, TLAPS

Prog == ProgramaDe(contexto.pid)
Siguiente == contexto.programCounter + 1

\* memoria loads the first process that was asked for before any other, and confirms
\* nothing before it.
Carga ==
  /\ kernel_memoria # <<>> => pedidos # <<>>
  /\ memoria = "vivo" /\ pedidos # <<>> /\ procesosEnMemoria = <<>>
       => kernel_memoria # <<>> /\ Head(kernel_memoria) = Head(pedidos)
  /\ procesosEnMemoria # <<>> =>
       /\ pedidos # <<>> /\ archivo[Head(pedidos)] # NULL
       /\ procesosEnMemoria[1] = <<Head(pedidos), archivo[Head(pedidos)]>>
  /\ memoria_kernel # <<>> \/ memKernel = "confirmar" => procesosEnMemoria # <<>>

\* Only the first process is dispatched, once, after memoria has loaded it.
Despacho ==
  /\ memoria = "vivo" /\ pedidos # <<>> /\ (Len(pedidos) > 1 \/ ~esperaConf)
       => procesosEnMemoria # <<>>
  /\ despachado => pedidos # <<>> /\ (memoria = "vivo" => procesosEnMemoria # <<>>)
  /\ kernel_cpu # <<>> => /\ despachado /\ kernel_cpu = <<Head(pedidos)>>
                          /\ cpuPc = "esperar" /\ contexto.programCounter = 0
  /\ cpuPc # "esperar" \/ contexto.programCounter > 0
       => despachado /\ contexto.pid = Head(pedidos)

\* The request of the CPU, memoria's lookup of it, its answer, and the instruction.
Busqueda ==
  /\ cpu_memoria # <<>> =>
       /\ cpuPc = "recibir" /\ memCpu = "esperar" /\ memoria_cpu = <<>>
       /\ cpu_memoria = <<[pid |-> contexto.pid, programCounter |-> contexto.programCounter]>>
  /\ memCpu = "responder" => /\ cpuPc = "recibir" /\ memoria_cpu = <<>>
                             /\ Siguiente <= Len(Prog) /\ hallada = Prog[Siguiente]
  /\ memoria_cpu # <<>> => /\ cpuPc = "recibir"
                           /\ Siguiente <= Len(Prog) /\ memoria_cpu = <<Prog[Siguiente]>>
  /\ cpuPc = "ejecutar" => Siguiente <= Len(Prog) /\ instruccion = Prog[Siguiente]

\* ax is what the first n lines leave in AX.
AXTras(prog, n, ax) ==
  \/ ax = 0 /\ \A i \in 1..n : ~I!EsSetAX(prog[i])
  \/ \E i \in 1..n : /\ I!EsSetAX(prog[i]) /\ ax = prog[i][3] % 256
                     /\ \A j \in (i + 1)..n : ~I!EsSetAX(prog[j])

\* The lines before the program counter were executed, and the CPU goes on until one stops.
Avance ==
  /\ contexto.programCounter <= Len(Prog)
  /\ \A i \in 1..contexto.programCounter :
        Para(Prog[i]) => i = contexto.programCounter /\ cpuPc = "esperar"
  /\ cpuPc = "esperar" /\ contexto.programCounter > 0 => Para(Prog[contexto.programCounter])
  /\ AXTras(Prog, contexto.programCounter, contexto.AX)

\* A fault leaves the context as it was.
Caida ==
  /\ CaidasSoloPorElPrograma
  /\ memoria = "segfault" => cpuPc = "recibir" /\ memoria_cpu = <<>>

EInv == TypeOK /\ Carga /\ Despacho /\ Busqueda /\ Avance /\ Caida

-----------------------------------------------------------------------------
(* Who does what *)

PasosKernel == \/ \E pid \in Pid : KernelPideProceso(pid)
               \/ KernelConfirma \/ KernelRechaza \/ KernelDespacha \/ KernelTermina
PasosMemoria == \/ MemCarga \/ MemNoAbre \/ MemConfirma \/ MemCaeConElKernel
                \/ MemBusca \/ MemBuscaNulo \/ MemResponde \/ MemCaeConLaCpu

\* memoria ends.
FinDeMemoria == MemNoAbre \/ MemCaeConElKernel \/ MemBuscaNulo \/ MemCaeConLaCpu
\* The CPU ends.
FinDeLaCpu == CpuSinKernel \/ CpuSinMemoria \/ CpuEjecutaIncompleta

\* Every step is a step of one program.
LEMMA Desglose == [Next]_vars => PasosKernel \/ PasosMemoria \/ Cpu \/ UNCHANGED vars
  BY DEF Next, HiloKernel, HiloCpu, PasosKernel, PasosMemoria

\* What the steps of each program leave alone.
LEMMA Ajeno ==
  /\ PasosKernel => /\ kernel = "vivo"
                    /\ UNCHANGED <<archivo, memoria, memKernelVars, memCpuVars,
                                   procesosEnMemoria, cpuVars, cpu_memoria, memoria_cpu>>
  /\ PasosMemoria => memoria = "vivo" /\ UNCHANGED <<archivo, kernelVars, cpuVars, kernel_cpu>>
  /\ Cpu => /\ cpu = "vivo"
            /\ UNCHANGED <<archivo, kernelVars, memoria, memKernelVars, memCpuVars,
                           procesosEnMemoria, kernel_memoria, memoria_kernel>>
  /\ FinDeMemoria => /\ memoria' # "vivo"
                     /\ UNCHANGED <<memKernelVars, memCpuVars, procesosEnMemoria,
                                    kernel_memoria, memoria_kernel, cpu_memoria, memoria_cpu>>
  /\ FinDeLaCpu => /\ cpu' # "vivo"
                   /\ UNCHANGED <<cpuPc, contexto, instruccion, kernel_cpu, cpu_memoria,
                                  memoria_cpu>>
<1>1. PasosKernel => /\ kernel = "vivo"
                     /\ UNCHANGED <<archivo, memoria, memKernelVars, memCpuVars,
                                    procesosEnMemoria, cpuVars, cpu_memoria, memoria_cpu>>
  BY DEF PasosKernel, KernelPideProceso, KernelConfirma, KernelRechaza, KernelDespacha,
         KernelTermina, PasoKernel
<1>2. PasosMemoria => memoria = "vivo" /\ UNCHANGED <<archivo, kernelVars, cpuVars, kernel_cpu>>
  BY DEF PasosMemoria, MemCarga, MemNoAbre, MemConfirma, MemCaeConElKernel, MemBusca,
         MemBuscaNulo, MemResponde, MemCaeConLaCpu, PasoMemoria
<1>3. Cpu => /\ cpu = "vivo"
             /\ UNCHANGED <<archivo, kernelVars, memoria, memKernelVars, memCpuVars,
                            procesosEnMemoria, kernel_memoria, memoria_kernel>>
  BY DEF Cpu, CpuRecibeContexto, CpuSinKernel, CpuPide, CpuRecibe, CpuSinMemoria, CpuEjecuta,
         CpuEjecutaIncompleta, PasoCpu
<1>4. FinDeMemoria => /\ memoria' # "vivo"
                      /\ UNCHANGED <<memKernelVars, memCpuVars, procesosEnMemoria,
                                     kernel_memoria, memoria_kernel, cpu_memoria, memoria_cpu>>
  BY DEF FinDeMemoria, MemNoAbre, MemCaeConElKernel, MemBuscaNulo, MemCaeConLaCpu, PasoMemoria
<1>5. FinDeLaCpu => /\ cpu' # "vivo"
                    /\ UNCHANGED <<cpuPc, contexto, instruccion, kernel_cpu, cpu_memoria,
                                   memoria_cpu>>
  BY DEF FinDeLaCpu, CpuSinKernel, CpuSinMemoria, CpuEjecutaIncompleta, PasoCpu
<1> QED
  BY <1>1, <1>2, <1>3, <1>4, <1>5

-----------------------------------------------------------------------------
(* Files and lines *)

\* The program of a process is a list of lines.
LEMMA TipoDelPrograma ==
  ASSUME TypeOK
  PROVE  /\ Prog \in Seq(Palabras) /\ Len(Prog) \in Nat
         /\ \A i \in 1..Len(Prog) : Prog[i] \in Palabras
         /\ contexto.pid \in Pid /\ contexto.programCounter \in Nat /\ contexto.AX \in Byte
<1>1. contexto.pid \in Pid /\ contexto.programCounter \in Nat /\ contexto.AX \in Byte
  BY DEF TypeOK, TipoCpu, Contexto
<1>2. Prog \in Seq(Palabras)
  BY <1>1, ProgramasAssumption DEF TypeOK, TipoKernel, Prog, ProgramaDe
<1> QED
  BY <1>1, <1>2

\* What the CPU does with a line that is not cut short is what the line means.
LEMMA EfectoDeLaLinea ==
  ASSUME NEW palabras \in Palabras, NEW AX \in Byte, ~Incompleta(palabras)
  PROVE  /\ EfectoSET(palabras, AX) = I!EfectoAX(palabras, AX)
         /\ EfectoSET(palabras, AX) \in Byte
<1>1. CASE palabras[1] = "SET" /\ palabras[2] = "AX"
  <2>1. Len(palabras) > 2 /\ palabras[3] \in Int
    BY <1>1, ProgramasAssumption
  <2>2. \A x \in Int : x % 256 \in 0..255
    OBVIOUS
  <2>3. EfectoSET(palabras, AX) = palabras[3] % 256 /\ I!EfectoAX(palabras, AX) = palabras[3] % 256
    BY <1>1, <2>1 DEF EfectoSET, I!EfectoAX, I!EsSetAX
  <2> QED
    BY <2>1, <2>2, <2>3 DEF Byte
<1>2. CASE ~(palabras[1] = "SET" /\ palabras[2] = "AX")
  BY <1>2 DEF EfectoSET, I!EfectoAX, I!EsSetAX
<1> QED
  BY <1>1, <1>2

\* One line more.
LEMMA AXTrasUnaMas ==
  ASSUME NEW prog, NEW n \in Nat, NEW ax, AXTras(prog, n, ax)
  PROVE  AXTras(prog, n + 1, I!EfectoAX(prog[n + 1], ax))
<1>1. CASE I!EsSetAX(prog[n + 1])
  BY <1>1 DEF AXTras, I!EfectoAX
<1>2. CASE ~I!EsSetAX(prog[n + 1])
  <2>1. CASE ax = 0 /\ \A i \in 1..n : ~I!EsSetAX(prog[i])
    BY <1>2, <2>1 DEF AXTras, I!EfectoAX
  <2>2. CASE \E i \in 1..n : /\ I!EsSetAX(prog[i]) /\ ax = prog[i][3] % 256
                             /\ \A j \in (i + 1)..n : ~I!EsSetAX(prog[j])
    <3>1. PICK i \in 1..n : /\ I!EsSetAX(prog[i]) /\ ax = prog[i][3] % 256
                            /\ \A j \in (i + 1)..n : ~I!EsSetAX(prog[j])
      BY <2>2
    <3>2. i \in 1..(n + 1) /\ \A j \in (i + 1)..(n + 1) : ~I!EsSetAX(prog[j])
      BY <1>2, <3>1
    <3> QED
      BY <1>2, <3>1, <3>2 DEF AXTras, I!EfectoAX
  <2> QED
    BY <2>1, <2>2 DEF AXTras
<1> QED
  BY <1>1, <1>2

\* memoria finds the process that is dispatched, and its lines are those of the file.
LEMMA Hallado ==
  ASSUME TypeOK, Carga, procesosEnMemoria # <<>>, contexto.pid = Head(pedidos)
  PROVE  Conocido(contexto.pid) /\ Instrucciones(contexto.pid) = Prog
<1>1. /\ procesosEnMemoria[1] = <<contexto.pid, archivo[contexto.pid]>>
      /\ archivo[contexto.pid] # NULL
  BY DEF Carga
<1>2. 1 \in 1..Len(procesosEnMemoria) /\ Len(procesosEnMemoria) \in Nat
  BY DEF TypeOK, TipoMemoria
<1> DEFINE halladas == {i \in 1..Len(procesosEnMemoria) : procesosEnMemoria[i][1] = contexto.pid}
           primera == CHOOSE i \in halladas : \A j \in halladas : i <= j
<1>3. 1 \in halladas /\ \A j \in halladas : 1 <= j /\ j \in Nat
  BY <1>1, <1>2
<1>4. primera = 1
  <2>1. \E i \in halladas : \A j \in halladas : i <= j
    BY <1>3
  <2>2. primera \in halladas /\ \A j \in halladas : primera <= j
    BY <2>1
  <2> HIDE DEF primera
  <2> QED
    BY <1>3, <2>2
<1>5. Instrucciones(contexto.pid) = procesosEnMemoria[primera][2]
  BY DEF Instrucciones
<1>6. Instrucciones(contexto.pid) = archivo[contexto.pid]
  BY <1>1, <1>4, <1>5
<1> QED
  BY <1>1, <1>2, <1>6 DEF Conocido, Prog, ProgramaDe

\* The request memoria takes is for the context the CPU holds.
LEMMA PedidoDelContexto ==
  ASSUME EInv, memoria = "vivo", cpu_memoria # <<>>
  PROVE  /\ Head(cpu_memoria).pid = contexto.pid
         /\ Head(cpu_memoria).programCounter = contexto.programCounter
         /\ Tail(cpu_memoria) = <<>>
         /\ Conocido(contexto.pid) /\ Instrucciones(contexto.pid) = Prog
<1> USE DEF EInv
<1>1. cpu_memoria = <<[pid |-> contexto.pid, programCounter |-> contexto.programCounter]>>
      /\ cpuPc = "recibir"
  BY DEF Busqueda
<1>2. procesosEnMemoria # <<>> /\ contexto.pid = Head(pedidos)
  BY <1>1 DEF Despacho
<1> QED
  BY <1>1, <1>2, Hallado

\* The frame of memoria is five bytes.
LEMMA TramaDeBytes == StreamVacio(CONF_PR_NUEVO) \in Seq(Byte)
<1>1. Int32(0) = <<0, 0, 0, 0>>
  BY DEF Int32
<1>2. StreamVacio(CONF_PR_NUEVO) = <<18>> \o <<0, 0, 0, 0>> \o <<>>
  BY <1>1 DEF StreamVacio, StreamCrear, CONF_PR_NUEVO
<1> QED
  BY <1>2 DEF Byte

-----------------------------------------------------------------------------
(* Types *)

LEMMA ConservaTipoKernel == EInv /\ [Next]_vars => TipoKernel'
<1> SUFFICES ASSUME EInv, [Next]_vars PROVE TipoKernel'
  OBVIOUS
<1> USE DEF EInv, TypeOK, TipoKernel, Estado, kernelVars
<1>1. ASSUME NEW pid \in Pid, KernelPideProceso(pid) PROVE TipoKernel'
  BY <1>1 DEF KernelPideProceso, PasoKernel
<1>2. CASE KernelConfirma \/ KernelRechaza \/ KernelDespacha \/ KernelTermina
  BY <1>2 DEF KernelConfirma, KernelRechaza, KernelDespacha, KernelTermina, PasoKernel
<1>3. CASE PasosMemoria \/ Cpu \/ UNCHANGED vars
  BY <1>3, Ajeno DEF vars
<1> QED
  BY <1>1, <1>2, <1>3, Desglose DEF PasosKernel

LEMMA ConservaTipoMemoria == EInv /\ [Next]_vars => TipoMemoria'
<1> SUFFICES ASSUME EInv, [Next]_vars PROVE TipoMemoria'
  OBVIOUS
<1> USE DEF EInv, TypeOK, TipoMemoria, Estado, memKernelVars, memCpuVars
<1>1. CASE MemCarga
  <2>1. Head(kernel_memoria) \in Pid
    BY <1>1 DEF MemCarga, TipoRed
  <2>2. <<Head(kernel_memoria), archivo[Head(kernel_memoria)]>> \in Pid \X Programas
    BY <1>1, <2>1 DEF MemCarga, TipoKernel
  <2>3. procesosEnMemoria' \in Seq(Pid \X Programas)
    BY <1>1, <2>2 DEF MemCarga
  <2> QED
    BY <1>1, <2>1, <2>3 DEF MemCarga, PasoMemoria
<1>2. CASE MemBusca
  <2>1. hallada' = Prog[contexto.programCounter + 1]
        /\ contexto.programCounter + 1 \in 1..Len(Prog)
    BY <1>2, PedidoDelContexto DEF MemBusca, PasoMemoria, Indice
  <2>2. hallada' \in Palabras
    BY <2>1, TipoDelPrograma
  <2> QED
    BY <1>2, <2>2 DEF MemBusca, PasoMemoria
<1>3. CASE MemConfirma \/ MemResponde
  BY <1>3 DEF MemConfirma, MemResponde, PasoMemoria
<1>4. CASE FinDeMemoria
  BY <1>4, Ajeno DEF FinDeMemoria, MemNoAbre, MemCaeConElKernel, MemBuscaNulo, MemCaeConLaCpu,
         PasoMemoria
<1>5. CASE PasosKernel \/ Cpu \/ UNCHANGED vars
  BY <1>5, Ajeno DEF vars
<1> QED
  BY <1>1, <1>2, <1>3, <1>4, <1>5, Desglose DEF PasosMemoria, FinDeMemoria

LEMMA ConservaTipoCpu == EInv /\ [Next]_vars => TipoCpu'
<1> SUFFICES ASSUME EInv, [Next]_vars PROVE TipoCpu'
  OBVIOUS
<1> USE DEF EInv, TypeOK, TipoCpu, Estado, Contexto, cpuVars
<1>1. CASE CpuRecibeContexto
  <2>1. Head(kernel_cpu) \in Pid
    BY <1>1 DEF CpuRecibeContexto, TipoRed
  <2> QED
    BY <1>1, <2>1 DEF CpuRecibeContexto, PasoCpu, Byte
<1>2. CASE CpuRecibe
  <2>1. Head(memoria_cpu) \in Palabras
    BY <1>2 DEF CpuRecibe, TipoRed
  <2> QED
    BY <1>2, <2>1 DEF CpuRecibe, PasoCpu
<1>3. CASE CpuEjecuta
  <2>1. instruccion \in Palabras /\ ~Incompleta(instruccion)
    BY <1>3, TipoDelPrograma DEF CpuEjecuta, PasoCpu, Busqueda, Siguiente
  <2>2. EfectoSET(instruccion, contexto.AX) \in Byte
    BY <2>1, EfectoDeLaLinea, TipoDelPrograma
  <2>3. contexto' = [pid |-> contexto.pid, programCounter |-> contexto.programCounter + 1,
                     AX |-> EfectoSET(instruccion, contexto.AX)]
    BY <1>3 DEF CpuEjecuta
  <2>4. contexto' \in Contexto
    BY <2>2, <2>3, TipoDelPrograma
  <2>5. cpu' \in Estado /\ cpuPc' \in {"esperar", "pedir", "recibir", "ejecutar"}
        /\ instruccion' = NULL
    BY <1>3 DEF CpuEjecuta, PasoCpu
  <2> QED
    BY <2>4, <2>5
<1>4. CASE CpuPide
  BY <1>4 DEF CpuPide, PasoCpu
<1>5. CASE FinDeLaCpu
  BY <1>5, Ajeno DEF FinDeLaCpu, CpuSinKernel, CpuSinMemoria, CpuEjecutaIncompleta, PasoCpu
<1>6. CASE PasosKernel \/ PasosMemoria \/ UNCHANGED vars
  BY <1>6, Ajeno DEF vars
<1> QED
  BY <1>1, <1>2, <1>3, <1>4, <1>5, <1>6, Desglose DEF Cpu, FinDeLaCpu

LEMMA ConservaTipoRed == EInv /\ [Next]_vars => TipoRed'
<1> SUFFICES ASSUME EInv, [Next]_vars PROVE TipoRed'
  OBVIOUS
<1> USE DEF EInv, TypeOK, TipoRed, Enviado
<1>1. ASSUME NEW pid \in Pid, KernelPideProceso(pid) PROVE TipoRed'
  BY <1>1 DEF KernelPideProceso, PasoKernel
<1>2. CASE KernelConfirma
  <2>1. memoria_kernel' \in Seq(Byte)
    <3>1. CASE memoria_kernel # <<>> /\ memoria_kernel' = Tail(memoria_kernel)
      BY <3>1
    <3>2. CASE UNCHANGED memoria_kernel
      BY <3>2
    <3> QED
      BY <1>2, <3>1, <3>2 DEF KernelConfirma
  <2> QED
    BY <1>2, <2>1 DEF KernelConfirma, PasoKernel
<1>3. CASE KernelDespacha
  <2>1. Head(pedidos) \in Pid
    BY <1>3 DEF KernelDespacha, TipoKernel
  <2> QED
    BY <1>3, <2>1 DEF KernelDespacha, PasoKernel
<1>4. CASE KernelRechaza \/ KernelTermina
  BY <1>4 DEF KernelRechaza, KernelTermina, PasoKernel
<1>5. CASE MemCarga
  BY <1>5 DEF MemCarga, PasoMemoria
<1>6. CASE MemConfirma
  <2>1. memoria_kernel' \in Seq(Byte)
    BY <1>6, TramaDeBytes DEF MemConfirma
  <2> QED
    BY <1>6, <2>1 DEF MemConfirma, PasoMemoria
<1>7. CASE MemBusca
  BY <1>7 DEF MemBusca, PasoMemoria
<1>8. CASE MemResponde
  <2>1. hallada \in Palabras
    BY <1>8, TipoDelPrograma DEF MemResponde, Busqueda, Siguiente
  <2> QED
    BY <1>8, <2>1 DEF MemResponde, PasoMemoria
<1>9. CASE FinDeMemoria
  BY <1>9, Ajeno DEF FinDeMemoria, PasosMemoria
<1>10. CASE CpuRecibeContexto
  BY <1>10 DEF CpuRecibeContexto, PasoCpu
<1>11. CASE CpuPide
  <2>1. [pid |-> contexto.pid, programCounter |-> contexto.programCounter] \in Pedido
    BY TipoDelPrograma DEF Pedido
  <2> QED
    BY <1>11, <2>1 DEF CpuPide, PasoCpu
<1>12. CASE CpuRecibe
  BY <1>12 DEF CpuRecibe, PasoCpu
<1>13. CASE CpuEjecuta
  BY <1>13 DEF CpuEjecuta, PasoCpu
<1>14. CASE FinDeLaCpu
  BY <1>14, Ajeno DEF FinDeLaCpu, Cpu
<1>15. CASE UNCHANGED vars
  BY <1>15 DEF vars, red
<1> QED
  BY <1>1, <1>2, <1>3, <1>4, <1>5, <1>6, <1>7, <1>8, <1>9, <1>10, <1>11, <1>12, <1>13, <1>14,
     <1>15, Desglose
  DEF PasosKernel, PasosMemoria, FinDeMemoria, Cpu, FinDeLaCpu

-----------------------------------------------------------------------------
(* Loading and dispatching *)

\* The first of a list stays the first.
LEMMA Primero ==
  ASSUME NEW S, NEW s \in Seq(S), NEW e \in S
  PROVE  /\ Append(s, e) # <<>> /\ Append(s, e)[1] = Head(Append(s, e))
         /\ Head(Append(s, e)) = IF s = <<>> THEN e ELSE Head(s)
<1>1. /\ Append(s, e) \in Seq(S) /\ Len(Append(s, e)) = Len(s) + 1
      /\ \A i \in 1..Len(s) : Append(s, e)[i] = s[i]
      /\ Append(s, e)[Len(s) + 1] = e
  BY AppendProperties
<1>2. Append(s, e) # <<>> /\ Append(s, e)[1] = Head(Append(s, e))
  BY <1>1
<1>3. CASE s = <<>>
  BY <1>1, <1>2, <1>3
<1>4. CASE s # <<>>
  <2>1. Len(s) \in Nat /\ Len(s) > 0 /\ Head(s) = s[1]
    BY <1>4
  <2> QED
    BY <1>1, <1>2, <1>4, <2>1
<1> QED
  BY <1>2, <1>3, <1>4

\* What is sent to memoria is read in order, and the first to be asked for comes first.
LEMMA ConservaCarga == EInv /\ [Next]_vars => Carga'
<1> SUFFICES ASSUME EInv, [Next]_vars PROVE Carga'
  OBVIOUS
<1> USE DEF EInv
<1> pedidos \in Seq(Pid) /\ kernel_memoria \in Seq(Pid) /\ memoria_kernel \in Seq(Byte)
    /\ procesosEnMemoria \in Seq(Pid \X Programas) /\ archivo \in [Pid -> Programas \union {NULL}]
  BY DEF TypeOK, TipoKernel, TipoMemoria, TipoRed
<1>1. ASSUME NEW pid \in Pid, KernelPideProceso(pid) PROVE Carga'
  <2>1. /\ pedidos' = Append(pedidos, pid)
        /\ memoria = "vivo" => kernel_memoria' = Append(kernel_memoria, pid)
        /\ memoria # "vivo" => kernel_memoria' = kernel_memoria
        /\ UNCHANGED <<archivo, memoria, memKernel, procesosEnMemoria, memoria_kernel>>
    BY <1>1 DEF KernelPideProceso, PasoKernel, Enviado, memKernelVars
  <2>2. pedidos' # <<>> /\ Head(pedidos') = IF pedidos = <<>> THEN pid ELSE Head(pedidos)
    BY <2>1, Primero
  <2>3. memoria = "vivo" => /\ kernel_memoria' # <<>>
                            /\ Head(kernel_memoria') = IF kernel_memoria = <<>> THEN pid
                                                       ELSE Head(kernel_memoria)
    BY <2>1, Primero
  <2> QED
    BY <2>1, <2>2, <2>3 DEF Carga
<1>2. CASE KernelConfirma
  <2>1. memoria_kernel' # <<>> => memoria_kernel # <<>>
    BY <1>2 DEF KernelConfirma
  <2>2. UNCHANGED <<archivo, pedidos, memoria, memKernel, procesosEnMemoria, kernel_memoria>>
    BY <1>2 DEF KernelConfirma, PasoKernel, memKernelVars
  <2> QED
    BY <2>1, <2>2 DEF Carga
<1>3. CASE KernelRechaza \/ KernelDespacha \/ KernelTermina
  BY <1>3 DEF KernelRechaza, KernelDespacha, KernelTermina, PasoKernel, memKernelVars, Carga
<1>4. CASE MemCarga
  <2> DEFINE nuevo == <<Head(kernel_memoria), archivo[Head(kernel_memoria)]>>
  <2>1. /\ kernel_memoria # <<>> /\ archivo[Head(kernel_memoria)] # NULL
        /\ procesosEnMemoria' = Append(procesosEnMemoria, nuevo)
        /\ UNCHANGED <<archivo, pedidos, memoria_kernel>> /\ memoria = "vivo"
    BY <1>4 DEF MemCarga, PasoMemoria, kernelVars
  <2>2. nuevo \in Pid \X Programas
    BY <2>1
  <2>3. /\ procesosEnMemoria' # <<>>
        /\ procesosEnMemoria'[1] = IF procesosEnMemoria = <<>> THEN nuevo ELSE procesosEnMemoria[1]
    BY <2>1, <2>2
  <2>4. pedidos # <<>>
    BY <2>1 DEF Carga
  <2> QED
    BY <2>1, <2>3, <2>4 DEF Carga
<1>5. CASE MemConfirma
  BY <1>5 DEF MemConfirma, PasoMemoria, kernelVars, Carga
<1>6. CASE MemBusca \/ MemResponde
  BY <1>6 DEF MemBusca, MemResponde, PasoMemoria, kernelVars, memKernelVars, Carga
<1>7. CASE FinDeMemoria
  BY <1>7, Ajeno DEF FinDeMemoria, PasosMemoria, kernelVars, memKernelVars, Carga
<1>8. CASE Cpu \/ UNCHANGED vars
  BY <1>8, Ajeno DEF vars, red, kernelVars, memKernelVars, Carga
<1> QED
  BY <1>1, <1>2, <1>3, <1>4, <1>5, <1>6, <1>7, <1>8, Desglose
  DEF PasosKernel, PasosMemoria, FinDeMemoria

\* The kernel dispatches what memoria confirmed, and the CPU holds nothing else.
LEMMA ConservaDespacho == EInv /\ [Next]_vars => Despacho'
<1> SUFFICES ASSUME EInv, [Next]_vars PROVE Despacho'
  OBVIOUS
<1> USE DEF EInv
<1> pedidos \in Seq(Pid) /\ kernel_cpu \in Seq(Pid) /\ contexto.programCounter \in Nat
    /\ procesosEnMemoria \in Seq(Pid \X Programas)
  BY DEF TypeOK, TipoKernel, TipoMemoria, TipoRed, TipoCpu, Contexto
<1>1. ASSUME NEW pid \in Pid, KernelPideProceso(pid) PROVE Despacho'
  <2>1. /\ pedidos' = Append(pedidos, pid) /\ esperaConf' /\ ~esperaConf
        /\ UNCHANGED <<despachado, memoria, procesosEnMemoria, kernel_cpu, cpuPc, contexto>>
    BY <1>1 DEF KernelPideProceso, PasoKernel, cpuVars
  <2>2. /\ pedidos' # <<>> /\ (pedidos # <<>> => Head(pedidos') = Head(pedidos))
        /\ (Len(pedidos') > 1 => pedidos # <<>>)
    BY <2>1
  <2> QED
    BY <2>1, <2>2 DEF Despacho
<1>2. CASE KernelConfirma
  BY <1>2 DEF KernelConfirma, PasoKernel, cpuVars, Despacho, Carga
<1>3. CASE KernelDespacha
  <2>1. /\ pedidos # <<>> /\ despachado' /\ ~despachado /\ (Len(pedidos) > 1 \/ ~esperaConf)
        /\ UNCHANGED <<pedidos, esperaConf, memoria, procesosEnMemoria, cpuPc, contexto>>
    BY <1>3 DEF KernelDespacha, PasoKernel, cpuVars
  <2>2. kernel_cpu = <<>> /\ cpuPc = "esperar" /\ contexto.programCounter = 0
    BY <2>1 DEF Despacho
  <2>3. kernel_cpu' = <<>> \/ kernel_cpu' = <<Head(pedidos)>>
    BY <1>3, <2>2 DEF KernelDespacha, Enviado
  <2> QED
    BY <2>1, <2>2, <2>3 DEF Despacho
<1>4. CASE KernelRechaza \/ KernelTermina
  BY <1>4 DEF KernelRechaza, KernelTermina, PasoKernel, cpuVars, Despacho
<1>5. CASE MemCarga
  <2>1. procesosEnMemoria' # <<>>
    BY <1>5 DEF MemCarga
  <2> QED
    BY <1>5, <2>1 DEF MemCarga, PasoMemoria, kernelVars, cpuVars, Despacho
<1>6. CASE MemConfirma \/ MemBusca \/ MemResponde
  BY <1>6 DEF MemConfirma, MemBusca, MemResponde, PasoMemoria, kernelVars, cpuVars, Despacho
<1>7. CASE FinDeMemoria
  BY <1>7, Ajeno DEF FinDeMemoria, PasosMemoria, kernelVars, cpuVars, Despacho
<1>8. CASE CpuRecibeContexto
  <2>1. kernel_cpu = <<Head(pedidos)>> /\ kernel_cpu' = <<>> /\ despachado
        /\ contexto'.pid = Head(pedidos)
    BY <1>8 DEF CpuRecibeContexto, Despacho
  <2> QED
    BY <1>8, <2>1, Ajeno DEF Cpu, kernelVars, Despacho
<1>9. CASE CpuEjecuta
  <2>1. cpuPc = "ejecutar" /\ contexto'.pid = contexto.pid /\ UNCHANGED kernel_cpu
    BY <1>9 DEF CpuEjecuta, PasoCpu, TypeOK, TipoCpu, Contexto
  <2> QED
    BY <1>9, <2>1, Ajeno DEF Cpu, kernelVars, Despacho
<1>10. CASE CpuPide \/ CpuRecibe
  <2>1. cpuPc # "esperar" /\ UNCHANGED <<contexto, kernel_cpu>>
    BY <1>10 DEF CpuPide, CpuRecibe, PasoCpu
  <2>2. UNCHANGED <<pedidos, esperaConf, despachado, memoria, procesosEnMemoria>>
    BY <1>10, Ajeno DEF Cpu, kernelVars
  <2> QED
    BY <2>1, <2>2 DEF Despacho
<1>11. CASE FinDeLaCpu
  BY <1>11, Ajeno DEF FinDeLaCpu, Cpu, kernelVars, Despacho
<1>12. CASE UNCHANGED vars
  BY <1>12 DEF vars, red, kernelVars, cpuVars, Despacho
<1> QED
  BY <1>1, <1>2, <1>3, <1>4, <1>5, <1>6, <1>7, <1>8, <1>9, <1>10, <1>11, <1>12, Desglose
  DEF PasosKernel, PasosMemoria, FinDeMemoria, Cpu, FinDeLaCpu

-----------------------------------------------------------------------------
(* Fetching *)

\* A step that keeps the context and the files keeps the program.
LEMMA MismoPrograma ==
  UNCHANGED <<archivo, contexto>> => Prog' = Prog /\ Siguiente' = Siguiente
  BY DEF Prog, ProgramaDe, Siguiente

\* One request, one lookup or one answer, and for the next instruction.
LEMMA ConservaBusqueda == EInv /\ [Next]_vars => Busqueda'
<1> SUFFICES ASSUME EInv, [Next]_vars PROVE Busqueda'
  OBVIOUS
<1> USE DEF EInv
<1> cpu_memoria \in Seq(Pedido) /\ memoria_cpu \in Seq(Palabras)
    /\ memCpu \in {"esperar", "responder"}
  BY DEF TypeOK, TipoMemoria, TipoRed
<1>1. CASE UNCHANGED <<archivo, cpuPc, contexto, instruccion, memCpuVars, cpu_memoria, memoria_cpu>>
  BY <1>1, MismoPrograma DEF memCpuVars, Busqueda
<1>2. CASE PasosKernel \/ UNCHANGED vars
  BY <1>1, <1>2, Ajeno DEF cpuVars, red, vars
<1>3. CASE MemCarga \/ MemConfirma \/ FinDeMemoria
  BY <1>1, <1>3, Ajeno
  DEF PasosMemoria, FinDeMemoria, MemCarga, MemConfirma, cpuVars
<1>4. CASE MemBusca
  <2>1. /\ memoria = "vivo" /\ memCpu = "esperar" /\ cpu_memoria # <<>>
        /\ UNCHANGED <<archivo, cpuPc, contexto, instruccion, memoria_cpu>>
        /\ memCpu' = "responder" /\ cpu_memoria' = Tail(cpu_memoria)
    BY <1>4 DEF MemBusca, PasoMemoria, cpuVars
  <2>2. hallada' = Prog[Siguiente] /\ Siguiente \in 1..Len(Prog)
    BY <1>4, <2>1, PedidoDelContexto DEF MemBusca, Indice, Siguiente
  <2>3. cpu_memoria' = <<>> /\ cpuPc = "recibir" /\ memoria_cpu = <<>>
    BY <2>1, PedidoDelContexto DEF Busqueda
  <2> QED
    BY <2>1, <2>2, <2>3, MismoPrograma, TipoDelPrograma DEF Busqueda
<1>5. CASE MemResponde
  <2>1. /\ memCpu = "responder" /\ memCpu' = "esperar"
        /\ UNCHANGED <<archivo, cpuPc, contexto, instruccion, cpu_memoria>>
        /\ memoria_cpu' = memoria_cpu \/ memoria_cpu' = Append(memoria_cpu, hallada)
    BY <1>5 DEF MemResponde, PasoMemoria, cpuVars, Enviado
  <2>2. /\ cpu_memoria = <<>> /\ memoria_cpu = <<>> /\ cpuPc = "recibir"
        /\ Siguiente <= Len(Prog) /\ hallada = Prog[Siguiente]
    BY <2>1 DEF Busqueda
  <2>3. memoria_cpu' = <<>> \/ memoria_cpu' = <<Prog[Siguiente]>>
    BY <2>1, <2>2
  <2> QED
    BY <2>1, <2>2, <2>3, MismoPrograma DEF Busqueda
<1>6. CASE CpuRecibeContexto \/ CpuEjecuta
  <2>1. /\ cpuPc \in {"esperar", "ejecutar"} /\ cpuPc' \in {"esperar", "pedir"}
        /\ UNCHANGED <<memCpu, cpu_memoria, memoria_cpu>>
    BY <1>6 DEF CpuRecibeContexto, CpuEjecuta, PasoCpu, memCpuVars
  <2> QED
    BY <2>1 DEF Busqueda
<1>7. CASE CpuPide
  <2>1. /\ cpuPc = "pedir" /\ cpuPc' = "recibir"
        /\ UNCHANGED <<memCpu, contexto, memoria_cpu>>
        /\ \/ cpu_memoria' = cpu_memoria
           \/ cpu_memoria' = Append(cpu_memoria, [pid |-> contexto.pid,
                                                  programCounter |-> contexto.programCounter])
    BY <1>7 DEF CpuPide, PasoCpu, memCpuVars, Enviado
  <2>2. cpu_memoria = <<>> /\ memCpu = "esperar" /\ memoria_cpu = <<>>
    BY <2>1 DEF Busqueda
  <2> QED
    BY <2>1, <2>2 DEF Busqueda
<1>8. CASE CpuRecibe
  <2>1. /\ memoria_cpu # <<>> /\ instruccion' = Head(memoria_cpu)
        /\ memoria_cpu' = Tail(memoria_cpu) /\ cpuPc' = "ejecutar"
        /\ UNCHANGED <<archivo, memCpu, contexto, cpu_memoria>>
    BY <1>8 DEF CpuRecibe, PasoCpu, memCpuVars
  <2>2. /\ memoria_cpu = <<Prog[Siguiente]>> /\ Siguiente <= Len(Prog)
        /\ cpu_memoria = <<>> /\ memCpu = "esperar"
    BY <2>1 DEF Busqueda
  <2> QED
    BY <2>1, <2>2, MismoPrograma DEF Busqueda
<1>9. CASE FinDeLaCpu
  BY <1>1, <1>9, Ajeno DEF FinDeLaCpu, Cpu, memCpuVars
<1> QED
  BY <1>2, <1>3, <1>4, <1>5, <1>6, <1>7, <1>8, <1>9, Desglose
  DEF PasosMemoria, FinDeMemoria, Cpu, FinDeLaCpu

-----------------------------------------------------------------------------
(* Executing *)

\* While the CPU works on a context, no line it executed stops it.
LEMMA SinParadasHasta ==
  ASSUME EInv, cpuPc # "esperar"
  PROVE  \A i \in 1..contexto.programCounter : ~Para(Prog[i])
  BY DEF EInv, Avance

\* What the CPU executes is the next line of the file.
LEMMA LineaSiguiente ==
  ASSUME EInv, cpuPc = "ejecutar"
  PROVE  /\ Siguiente \in 1..Len(Prog) /\ instruccion = Prog[Siguiente]
         /\ instruccion \in Palabras
<1>1. Siguiente <= Len(Prog) /\ instruccion = Prog[Siguiente]
  BY DEF EInv, Busqueda
<1>2. Siguiente \in 1..Len(Prog)
  BY <1>1, TipoDelPrograma DEF EInv, Siguiente
<1> QED
  BY <1>1, <1>2, TipoDelPrograma DEF EInv

\* An instruction: the context counts it and AX takes what it sets.
LEMMA PasoDeEjecucion ==
  ASSUME EInv, CpuEjecuta
  PROVE  /\ cpuPc = "ejecutar" /\ cpuPc' = IF Para(Prog[Siguiente]) THEN "esperar" ELSE "pedir"
         /\ contexto'.pid = contexto.pid /\ contexto'.programCounter = Siguiente
         /\ contexto'.AX = I!EfectoAX(Prog[Siguiente], contexto.AX)
         /\ Prog' = Prog
<1>1. cpuPc = "ejecutar" /\ ~Incompleta(instruccion) /\ archivo' = archivo
      /\ cpuPc' = IF Para(instruccion) THEN "esperar" ELSE "pedir"
  BY DEF CpuEjecuta, PasoCpu
<1>2. instruccion = Prog[Siguiente] /\ instruccion \in Palabras
  BY <1>1, LineaSiguiente
<1>3. contexto' = [pid |-> contexto.pid, programCounter |-> contexto.programCounter + 1,
                   AX |-> EfectoSET(instruccion, contexto.AX)]
  BY DEF CpuEjecuta, EInv, TypeOK, TipoCpu, Contexto
<1>4. EfectoSET(instruccion, contexto.AX) = I!EfectoAX(instruccion, contexto.AX)
  BY <1>1, <1>2, EfectoDeLaLinea, TipoDelPrograma DEF EInv
<1>5. contexto'.pid = contexto.pid /\ contexto'.programCounter = Siguiente
      /\ contexto'.AX = EfectoSET(instruccion, contexto.AX)
  BY <1>3 DEF Siguiente
<1>6. Prog' = Prog
  BY <1>1, <1>5 DEF Prog, ProgramaDe
<1> QED
  BY <1>1, <1>2, <1>4, <1>5, <1>6

\* The registers are those of the lines executed so far.
LEMMA ConservaAvance == EInv /\ [Next]_vars => Avance'
<1> SUFFICES ASSUME EInv, [Next]_vars PROVE Avance'
  OBVIOUS
<1> USE DEF EInv
<1>1. CASE UNCHANGED <<archivo, contexto>> /\ (cpuPc' = "esperar") = (cpuPc = "esperar")
  <2>1. Prog' = Prog
    BY <1>1, MismoPrograma
  <2> QED
    BY <1>1, <2>1 DEF Avance, AXTras, I!EsSetAX
<1>2. CASE PasosKernel \/ PasosMemoria \/ UNCHANGED vars
  BY <1>1, <1>2, Ajeno DEF cpuVars, vars
<1>3. CASE CpuRecibeContexto
  <2>1. contexto' = [pid |-> Head(kernel_cpu), programCounter |-> 0, AX |-> 0]
        /\ Head(kernel_cpu) \in Pid /\ archivo' = archivo
    BY <1>3 DEF CpuRecibeContexto, PasoCpu, TypeOK, TipoRed
  <2>2. Prog' \in Seq(Palabras)
    BY <2>1, ProgramasAssumption DEF TypeOK, TipoKernel, Prog, ProgramaDe
  <2>3. 0 <= Len(Prog')
    BY <2>2
  <2> QED
    BY <2>1, <2>3 DEF Avance, AXTras
<1>4. CASE CpuEjecuta
  <2>1. /\ cpuPc = "ejecutar" /\ cpuPc' = IF Para(Prog[Siguiente]) THEN "esperar" ELSE "pedir"
        /\ contexto'.programCounter = Siguiente /\ Prog' = Prog
        /\ contexto'.AX = I!EfectoAX(Prog[Siguiente], contexto.AX)
    BY <1>4, PasoDeEjecucion
  <2>2. Siguiente \in 1..Len(Prog)
    BY <2>1, LineaSiguiente
  <2>3. \A i \in 1..Siguiente : Para(Prog[i]) => i = Siguiente /\ cpuPc' = "esperar"
    BY <2>1, SinParadasHasta, TipoDelPrograma DEF Siguiente
  <2>4. AXTras(Prog, Siguiente, contexto'.AX)
    BY <2>1, AXTrasUnaMas, TipoDelPrograma DEF Avance, Siguiente
  <2> QED
    BY <2>1, <2>2, <2>3, <2>4 DEF Avance, AXTras, I!EsSetAX
<1>5. CASE CpuPide \/ CpuRecibe
  BY <1>1, <1>5 DEF CpuPide, CpuRecibe, PasoCpu
<1>6. CASE FinDeLaCpu
  BY <1>1, <1>6, Ajeno DEF FinDeLaCpu, Cpu
<1> QED
  BY <1>2, <1>3, <1>4, <1>5, <1>6, Desglose DEF Cpu, FinDeLaCpu

-----------------------------------------------------------------------------
(* Faults *)

\* memoria finds nothing only past the last line, and the CPU lacks a word only in a
\* line that the file cuts short.
LEMMA ConservaCaida == EInv /\ [Next]_vars => Caida'
<1> SUFFICES ASSUME EInv, [Next]_vars PROVE Caida'
  OBVIOUS
<1> USE DEF EInv, Caida, CaidasSoloPorElPrograma, I!Paradas, I!Antes, I!Para, Para
<1>1. CASE /\ UNCHANGED <<archivo, contexto, cpuPc, memoria_cpu>>
           /\ (memoria' = "segfault" => memoria = "segfault")
           /\ (cpu' = "segfault" => cpu = "segfault")
  <2>1. ProgramaDe(contexto.pid)' = ProgramaDe(contexto.pid)
    BY <1>1 DEF ProgramaDe
  <2> QED
    BY <1>1, <2>1
<1>2. CASE PasosKernel \/ UNCHANGED vars
  BY <1>1, <1>2, Ajeno DEF cpuVars, vars, red
<1>3. CASE MemCarga \/ MemConfirma \/ MemBusca \/ MemNoAbre \/ MemCaeConElKernel \/ MemCaeConLaCpu
  BY <1>1, <1>3
  DEF MemCarga, MemConfirma, MemBusca, MemNoAbre, MemCaeConElKernel, MemCaeConLaCpu, PasoMemoria,
      cpuVars
<1>4. CASE MemResponde
  BY <1>4, MismoPrograma DEF MemResponde, PasoMemoria, cpuVars, Prog
<1>5. CASE MemBuscaNulo
  <2>1. /\ memoria = "vivo" /\ cpu_memoria # <<>>
        /\ UNCHANGED <<archivo, cpu, cpuPc, contexto, memoria_cpu>>
    BY <1>5 DEF MemBuscaNulo, PasoMemoria, cpuVars
  <2>2. Siguiente \notin 1..Len(Prog)
    BY <1>5, <2>1, PedidoDelContexto DEF MemBuscaNulo, Indice, Siguiente
  <2>3. cpuPc = "recibir" /\ memoria_cpu = <<>>
    BY <2>1 DEF Busqueda
  <2>4. contexto.programCounter = Len(Prog)
    BY <2>2, TipoDelPrograma DEF Avance, Siguiente
  <2>5. \A i \in 1..Len(Prog) : Prog[i][1] = "SET"
    BY <2>3, <2>4, SinParadasHasta
  <2>6. Prog' = Prog
    BY <2>1, MismoPrograma
  <2> QED
    BY <2>1, <2>3, <2>5, <2>6 DEF Prog
<1>6. CASE CpuEjecutaIncompleta
  <2>1. /\ cpuPc = "ejecutar" /\ Incompleta(instruccion)
        /\ UNCHANGED <<archivo, memoria, contexto>>
    BY <1>6 DEF CpuEjecutaIncompleta, PasoCpu
  <2>2. Siguiente \in 1..Len(Prog) /\ Incompleta(Prog[Siguiente])
    BY <2>1, LineaSiguiente
  <2>3. Prog[Siguiente][1] = "SET"
    BY <2>2 DEF Incompleta
  <2>4. \A j \in 1..Len(Prog) : Prog[j][1] # "SET" => Siguiente < j
    BY <2>1, <2>2, <2>3, SinParadasHasta, TipoDelPrograma DEF Siguiente
  <2>5. Prog' = Prog
    BY <2>1, MismoPrograma
  <2> QED
    BY <2>1, <2>2, <2>4, <2>5 DEF Prog
<1>7. CASE CpuSinKernel \/ CpuSinMemoria
  BY <1>1, <1>7 DEF CpuSinKernel, CpuSinMemoria, PasoCpu
<1>8. CASE CpuRecibeContexto \/ CpuPide \/ CpuRecibe \/ CpuEjecuta
  <2>1. cpuPc # "recibir" \/ memoria_cpu # <<>>
    BY <1>8 DEF CpuRecibeContexto, CpuPide, CpuRecibe, CpuEjecuta, PasoCpu
  <2>2. memoria' # "segfault" /\ cpu' = "vivo"
    BY <1>8, <2>1 DEF CpuRecibeContexto, CpuPide, CpuRecibe, CpuEjecuta, PasoCpu
  <2> QED
    BY <2>2
<1> QED
  BY <1>2, <1>3, <1>4, <1>5, <1>6, <1>7, <1>8, Desglose DEF PasosMemoria, Cpu

-----------------------------------------------------------------------------
(* The invariant *)

LEMMA Inicial == Init => EInv
<1> SUFFICES ASSUME Init PROVE EInv
  OBVIOUS
<1> USE DEF Init, InitKernel, InitMemoriaCpu
<1>1. contexto \in Contexto
  BY EjecucionAssumption DEF Contexto, Pid, Byte
<1>2. TypeOK
  <2>1. TipoKernel
    <3>1. archivo \in [Pid -> Programas \union {NULL}] /\ kernel \in Estado
      BY DEF Estado
    <3>2. pedidos = <<>> /\ esperaConf \in BOOLEAN /\ despachado \in BOOLEAN
      BY Zenon
    <3> QED
      BY <3>1, <3>2 DEF TipoKernel
  <2>2. TipoMemoria
    BY DEF TipoMemoria, Estado
  <2>3. TipoCpu
    BY <1>1 DEF TipoCpu, Estado
  <2>4. TipoRed
    BY DEF TipoRed
  <2> QED
    BY <2>1, <2>2, <2>3, <2>4 DEF TypeOK
<1>3. Carga /\ Despacho /\ Busqueda
  BY DEF Carga, Despacho, Busqueda
<1>4. Avance
  BY <1>2, TipoDelPrograma DEF Avance, AXTras
<1>5. Caida
  BY DEF Caida, CaidasSoloPorElPrograma
<1> QED
  BY <1>2, <1>3, <1>4, <1>5 DEF EInv

LEMMA Inductiva == EInv /\ [Next]_vars => EInv'
  BY ConservaTipoKernel, ConservaTipoMemoria, ConservaTipoCpu, ConservaTipoRed, ConservaCarga,
     ConservaDespacho, ConservaBusqueda, ConservaAvance, ConservaCaida
  DEF EInv, TypeOK

\* EInv holds at every moment.
THEOREM InvarianteEjecucion == Spec => []EInv
  BY Inicial, Inductiva, PTL DEF Spec

(***************************************************************************)
(* Every variable of memoria, of the CPU and of their sockets has its type *)
(* (TypeOK): AX stays a uint8_t, and a fetch never brings anything that is *)
(* not a line of some file.                                                *)
(***************************************************************************)
THEOREM TipoCorrecto == Spec => []TypeOK
<1>1. EInv => TypeOK
  BY DEF EInv
<1> QED
  BY <1>1, InvarianteEjecucion, PTL

(***************************************************************************)
(* The null pointers of memoria and of the CPU are only reached because of *)
(* what the file says (CaidasSoloPorElPrograma, rastrear_instruccion and   *)
(* ejecutar_instruccion), never because of when the list was read.         *)
(***************************************************************************)
THEOREM CaidasDelPrograma == Spec => []CaidasSoloPorElPrograma
<1>1. EInv => CaidasSoloPorElPrograma
  BY DEF EInv, Caida
<1> QED
  BY <1>1, InvarianteEjecucion, PTL

-----------------------------------------------------------------------------
(* The result *)

\* What the lines up to the first that stops leave in AX is what the file determines.
LEMMA AXAlParar ==
  ASSUME NEW prog, Len(prog) \in Nat, NEW n \in 1..Len(prog), NEW ax,
         Para(prog[n]), \A i \in 1..n : Para(prog[i]) => i = n,
         AXTras(prog, n, ax)
  PROVE  n \in I!Paradas(prog) /\ I!Antes(prog, n - 1) /\ ax = I!AXFinal(prog)
<1>1. n \in I!Paradas(prog) /\ I!Antes(prog, n - 1)
  BY DEF I!Paradas, I!Antes, I!Para, Para
<1>2. \A i \in 1..Len(prog) : I!Antes(prog, i) <=> i < n
  BY DEF I!Paradas, I!Antes, I!Para, Para
<1> DEFINE asignan == {i \in 1..Len(prog) : I!Antes(prog, i) /\ I!EsSetAX(prog[i])}
           ultima == CHOOSE i \in asignan : \A j \in asignan : j <= i
<1>3. ~I!EsSetAX(prog[n])
  BY DEF I!EsSetAX, Para
<1>4. \A i : i \in asignan <=> i \in 1..n /\ I!EsSetAX(prog[i])
  BY <1>2, <1>3
<1>5. I!AXFinal(prog) = IF asignan = {} THEN 0 ELSE prog[ultima][3] % 256
  BY DEF I!AXFinal
<1>6. CASE ax = 0 /\ \A i \in 1..n : ~I!EsSetAX(prog[i])
  <2>1. asignan = {}
    BY <1>4, <1>6
  <2> QED
    BY <1>1, <1>5, <1>6, <2>1
<1>7. CASE \E i \in 1..n : /\ I!EsSetAX(prog[i]) /\ ax = prog[i][3] % 256
                           /\ \A j \in (i + 1)..n : ~I!EsSetAX(prog[j])
  <2>1. PICK i \in 1..n : /\ I!EsSetAX(prog[i]) /\ ax = prog[i][3] % 256
                          /\ \A j \in (i + 1)..n : ~I!EsSetAX(prog[j])
    BY <1>7
  <2> HIDE DEF asignan
  <2>2. i \in asignan /\ \A j \in asignan : j <= i /\ j \in Nat
    BY <1>4, <2>1
  <2>3. ultima \in asignan /\ \A j \in asignan : j <= ultima
    <3>1. \E k \in asignan : \A j \in asignan : j <= k
      BY <2>2
    <3> QED
      BY <3>1
  <2> HIDE DEF ultima
  <2>4. ultima = i
    <3>1. ultima <= i /\ i <= ultima /\ ultima \in Nat /\ i \in Nat
      BY <2>2, <2>3
    <3> QED
      BY <3>1
  <2>5. asignan # {}
    BY <2>2
  <2>6. ax = prog[ultima][3] % 256
    BY <2>1, <2>4
  <2> QED
    BY <1>1, <1>5, <2>5, <2>6
<1> QED
  BY <1>6, <1>7 DEF AXTras

(***************************************************************************)
(* A context that has stopped has the AX and the program counter the file  *)
(* determines (ResultadoEsperado, atender_kernel.c:122), whatever memoria  *)
(* was loading while it ran.                                               *)
(***************************************************************************)
THEOREM ResultadoDelPrograma == Spec => []ResultadoEsperado
<1>1. EInv => ResultadoEsperado
  <2> SUFFICES ASSUME EInv, cpuPc = "esperar", contexto.programCounter > 0
               PROVE  /\ contexto.AX = I!AXFinal(Prog)
                      /\ contexto.programCounter \in I!Paradas(Prog)
                      /\ I!Antes(Prog, contexto.programCounter - 1)
    BY DEF ResultadoEsperado, Prog
  <2>1. contexto.programCounter \in 1..Len(Prog) /\ Len(Prog) \in Nat
    BY TipoDelPrograma DEF EInv, Avance
  <2>2. /\ Para(Prog[contexto.programCounter])
        /\ \A i \in 1..contexto.programCounter : Para(Prog[i]) => i = contexto.programCounter
        /\ AXTras(Prog, contexto.programCounter, contexto.AX)
    BY DEF EInv, Avance
  <2> QED
    BY <2>1, <2>2, AXAlParar
<1> QED
  BY <1>1, InvarianteEjecucion, PTL

-----------------------------------------------------------------------------
(* The refinement *)

\* The CPU starts and executes a program; everything else is invisible.
LEMMA PasoInterprete == EInv /\ [Next]_vars => [I!Comenzar \/ I!Ejecutar]_I!vars
<1> SUFFICES ASSUME EInv, [Next]_vars PROVE [I!Comenzar \/ I!Ejecutar]_I!vars
  OBVIOUS
<1> USE DEF EInv
<1>1. CASE UNCHANGED <<archivo, contexto>> /\ (cpuPc' # "esperar") = (cpuPc # "esperar")
  BY <1>1 DEF I!vars, ProgramaDe
<1>2. CASE PasosKernel \/ PasosMemoria \/ UNCHANGED vars
  BY <1>1, <1>2, Ajeno DEF cpuVars, vars
<1>3. CASE CpuRecibeContexto
  <2>1. /\ cpuPc = "esperar" /\ cpuPc' = "pedir" /\ kernel_cpu # <<>>
        /\ contexto'.programCounter = 0 /\ contexto'.AX = 0
    BY <1>3 DEF CpuRecibeContexto, PasoCpu
  <2>2. contexto.programCounter = 0
    BY <2>1 DEF Despacho
  <2>3. contexto.AX = 0
    BY <2>2 DEF Avance, AXTras
  <2> QED
    BY <2>1, <2>2, <2>3 DEF I!Comenzar
<1>4. CASE CpuEjecuta
  <2>1. /\ cpuPc = "ejecutar" /\ cpuPc' = IF Para(Prog[Siguiente]) THEN "esperar" ELSE "pedir"
        /\ contexto'.programCounter = Siguiente /\ Prog' = Prog
        /\ contexto'.AX = I!EfectoAX(Prog[Siguiente], contexto.AX)
    BY <1>4, PasoDeEjecucion
  <2>2. contexto.programCounter < Len(Prog)
    BY <2>1, LineaSiguiente, TipoDelPrograma DEF Siguiente
  <2> QED
    BY <2>1, <2>2 DEF I!Ejecutar, I!Para, Para, Prog, Siguiente
<1>5. CASE CpuPide \/ CpuRecibe
  BY <1>1, <1>5 DEF CpuPide, CpuRecibe, PasoCpu
<1>6. CASE FinDeLaCpu
  BY <1>1, <1>6, Ajeno DEF FinDeLaCpu, Cpu
<1> QED
  BY <1>2, <1>3, <1>4, <1>5, <1>6, Desglose DEF Cpu, FinDeLaCpu

(***************************************************************************)
(* Over two sockets, and from a list another thread is growing, the CPU    *)
(* executes the file: every line once, in order, and it stops where the    *)
(* file says (ImplementaInterprete), for any files, any number of          *)
(* processes and any deaths.                                               *)
(***************************************************************************)
THEOREM EjecucionImplementaInterprete == Spec => ImplementaInterprete
<1>1. Init => I!Init
  BY DEF Init, InitMemoriaCpu, I!Init
<1>2. EInv /\ [Next]_vars => [I!Comenzar \/ I!Ejecutar]_I!vars
  BY PasoInterprete
<1> QED
  BY <1>1, <1>2, InvarianteEjecucion, PTL DEF Spec, ImplementaInterprete, I!Spec
=============================================================================
