------------------------------- MODULE Ejecucion -------------------------------
(***************************************************************************)
(* memoria and the CPU: how a process is loaded and how its instructions   *)
(* are fetched and executed.  memoria runs two threads over the unlocked   *)
(* list procesosEnMemoria: one serves the kernel (conexion_kernel_memoria) *)
(* and one the CPU (conexion_cpuDispatch_memoria).  The CPU is one thread. *)
(*                                                                         *)
(* The kernel is the environment, reduced to what the other two see of it: *)
(* planificador_largo_plazo asks for one process at a time, younger each   *)
(* time, and reads one byte of the answer; atender_pcb sends the context   *)
(* of the first one and waits for an answer, which the CPU does not give.  *)
(* Module Sistema puts the whole kernel in its place.                      *)
(*                                                                         *)
(* A socket carries whole frames; a process that ends closes its sockets,  *)
(* and the other side reads what is left and then end of file.             *)
(***************************************************************************)
EXTENDS Integers, Sequences, Protocolo

CONSTANTS
  NULL,        \* a file that cannot be opened; nothing
  Programas,   \* contents an instruction file may have
  MaxPid       \* bound: processes the user creates

ASSUME EjecucionAssumption == MaxPid \in Nat \ {0} /\ NULL \notin Programas

VARIABLES
  archivo,                                 \* the instruction file of each process
  kernel, pedidos, esperaConf, despachado, \* the kernel, as seen from outside
  memoria,                                 \* "vivo" or how it ended
  memKernel, pidCargado,                   \* memoria's thread for the kernel
  memCpu, hallada,                         \* memoria's thread for the CPU
  procesosEnMemoria,                       \* <<pid, instructions>> in order of loading
  cpu, cpuPc, contexto, instruccion,       \* the CPU
  \* sockets: from_to
  kernel_memoria, memoria_kernel, kernel_cpu, cpu_memoria, memoria_cpu

kernelVars == <<kernel, pedidos, esperaConf, despachado>>
memKernelVars == <<memKernel, pidCargado>>
memCpuVars == <<memCpu, hallada>>
cpuVars == <<cpu, cpuPc, contexto, instruccion>>
red == <<kernel_memoria, memoria_kernel, kernel_cpu, cpu_memoria, memoria_cpu>>
vars == <<archivo, kernelVars, memoria, memKernelVars, memCpuVars, procesosEnMemoria,
          cpuVars, red>>

Pid == 0..(MaxPid - 1)

InitKernel == kernel = "vivo" /\ pedidos = <<>> /\ esperaConf = FALSE /\ despachado = FALSE

InitMemoriaCpu ==
  /\ archivo \in [Pid -> Programas \union {NULL}]
  /\ memoria = "vivo" /\ memKernel = "esperar" /\ pidCargado = NULL
  /\ memCpu = "esperar" /\ hallada = NULL
  /\ procesosEnMemoria = <<>>
  /\ cpu = "vivo" /\ cpuPc = "esperar" /\ instruccion = NULL
  /\ contexto = [pid |-> 0, programCounter |-> 0, AX |-> 0]
  /\ kernel_memoria = <<>> /\ memoria_kernel = <<>> /\ kernel_cpu = <<>>
  /\ cpu_memoria = <<>> /\ memoria_cpu = <<>>

Init == InitMemoriaCpu /\ InitKernel

\* send to a process that may have ended: then the frame is lost.
Enviado(destino, socket, trama) == IF destino = "vivo" THEN Append(socket, trama) ELSE socket

-----------------------------------------------------------------------------
(* The kernel *)

PasoKernel ==
  /\ kernel = "vivo"
  /\ UNCHANGED <<archivo, memoria, memKernelVars, memCpuVars, procesosEnMemoria, cpuVars,
                 cpu_memoria, memoria_cpu>>

\* pedidos is the sequence of the processes asked for.  One may be skipped: the kernel
\* can lose a process before admitting it.
KernelPideProceso(pid) ==
  /\ PasoKernel
  /\ ~esperaConf /\ \A i \in 1..Len(pedidos) : pedidos[i] < pid
  /\ kernel_memoria' = Enviado(memoria, kernel_memoria, pid)
  /\ pedidos' = Append(pedidos, pid)
  /\ esperaConf' = TRUE
  /\ UNCHANGED <<kernel, despachado, memoria_kernel, kernel_cpu>>

\* One byte of the answer; at end of file the header is garbage and may pass.
KernelConfirma ==
  /\ PasoKernel
  /\ esperaConf
  /\ \/ /\ memoria_kernel # <<>> /\ Head(memoria_kernel) = CONF_PR_NUEVO
        /\ memoria_kernel' = Tail(memoria_kernel)
     \/ /\ memoria_kernel = <<>> /\ memoria # "vivo"
        /\ UNCHANGED memoria_kernel
  /\ esperaConf' = FALSE
  /\ UNCHANGED <<kernel, pedidos, despachado, kernel_memoria, kernel_cpu>>

\* exit(-1) on any other header.
KernelRechaza ==
  /\ PasoKernel
  /\ esperaConf
  /\ \/ memoria_kernel # <<>> /\ Head(memoria_kernel) # CONF_PR_NUEVO
     \/ memoria_kernel = <<>> /\ memoria # "vivo"
  /\ kernel' = "exit"
  /\ UNCHANGED <<pedidos, esperaConf, despachado, kernel_memoria, memoria_kernel, kernel_cpu>>

\* The context of the first process: its PID, program counter 0, registers 0.
KernelDespacha ==
  /\ PasoKernel
  /\ ~despachado
  /\ Len(pedidos) > 1 \/ (Len(pedidos) = 1 /\ ~esperaConf)
  /\ despachado' = TRUE
  /\ kernel_cpu' = Enviado(cpu, kernel_cpu, Head(pedidos))
  /\ UNCHANGED <<kernel, pedidos, esperaConf, kernel_memoria, memoria_kernel>>

\* The user closes the console, or the kernel faults (module Kernel).
KernelTermina ==
  /\ PasoKernel
  /\ kernel' = "fin"
  /\ UNCHANGED <<pedidos, esperaConf, despachado, kernel_memoria, memoria_kernel, kernel_cpu>>

-----------------------------------------------------------------------------
(* memoria, thread of the kernel: conexion_kernel_memoria *)

PasoMemoria(causa) ==
  /\ memoria = "vivo" /\ memoria' = causa
  /\ UNCHANGED <<archivo, kernelVars, cpuVars, kernel_cpu>>

\* atender_proceso_nuevo up to list_add: from here on the other thread sees it.
MemCarga ==
  /\ PasoMemoria("vivo")
  /\ memKernel = "esperar" /\ kernel_memoria # <<>>
  /\ LET pid == Head(kernel_memoria) IN
     /\ archivo[pid] # NULL
     /\ procesosEnMemoria' = Append(procesosEnMemoria, <<pid, archivo[pid]>>)
     /\ pidCargado' = pid
  /\ kernel_memoria' = Tail(kernel_memoria)
  /\ memKernel' = "confirmar"
  /\ UNCHANGED <<memCpuVars, memoria_kernel, cpu_memoria, memoria_cpu>>

\* fopen fails: exit(1), and the thread of the CPU ends too.
MemNoAbre ==
  /\ PasoMemoria("exit")
  /\ memKernel = "esperar" /\ kernel_memoria # <<>>
  /\ archivo[Head(kernel_memoria)] = NULL
  /\ UNCHANGED <<memKernelVars, memCpuVars, procesosEnMemoria, kernel_memoria, memoria_kernel,
                 cpu_memoria, memoria_cpu>>

\* A second confirmation for the same process.
Mut_ConfirmaDosVeces ==
  /\ PasoMemoria("vivo")
  /\ memKernel = "confirmar"
  /\ memoria_kernel' = memoria_kernel \o StreamVacio(CONF_PR_NUEVO) \o StreamVacio(CONF_PR_NUEVO)
  /\ memKernel' = "esperar" /\ pidCargado' = NULL
  /\ UNCHANGED <<memCpuVars, procesosEnMemoria, kernel_memoria, cpu_memoria, memoria_cpu>>

\* stream_enviar_buffer_vacio(socketKernel, CONF_PR_NUEVO): five bytes.
MemConfirma ==
  /\ PasoMemoria("vivo")
  /\ memKernel = "confirmar"
  /\ memoria_kernel' = memoria_kernel \o StreamVacio(CONF_PR_NUEVO)
  /\ memKernel' = "esperar" /\ pidCargado' = NULL
  /\ UNCHANGED <<memCpuVars, procesosEnMemoria, kernel_memoria, cpu_memoria, memoria_cpu>>

(***************************************************************************)
(* Ends of memoria that come from a peer that ended: SIGPIPE when it sends *)
(* to it, or, at end of file, a header that was never written and happens  *)
(* to be an operation, whose empty buffer makes buffer_desempaquetar exit. *)
(* Any other garbage is logged and the thread reads again.                 *)
(***************************************************************************)
MemCaeConElKernel ==
  /\ kernel # "vivo"
  /\ \/ memKernel = "confirmar" /\ PasoMemoria("sigpipe")
     \/ memKernel = "esperar" /\ kernel_memoria = <<>> /\ PasoMemoria("exit")
  /\ UNCHANGED <<memKernelVars, memCpuVars, procesosEnMemoria, kernel_memoria, memoria_kernel,
                 cpu_memoria, memoria_cpu>>

-----------------------------------------------------------------------------
(* memoria, thread of the CPU: conexion_cpuDispatch_memoria *)

\* rastrear_instruccion: list_find by PID, the first that matches, and list_get.
Instrucciones(pid) ==
  LET halladas == {i \in 1..Len(procesosEnMemoria) : procesosEnMemoria[i][1] = pid}
  IN procesosEnMemoria[CHOOSE i \in halladas : \A j \in halladas : i <= j][2]

Conocido(pid) == \E i \in 1..Len(procesosEnMemoria) : procesosEnMemoria[i][1] = pid

\* list_get counts from 0.
Mut_Indice(programCounter) == programCounter + 2
Indice(programCounter) == programCounter + 1

MemBusca ==
  /\ PasoMemoria("vivo")
  /\ memCpu = "esperar" /\ cpu_memoria # <<>>
  /\ LET pedido == Head(cpu_memoria) IN
     /\ Conocido(pedido.pid)
     /\ Indice(pedido.programCounter) \in 1..Len(Instrucciones(pedido.pid))
     /\ hallada' = Instrucciones(pedido.pid)[Indice(pedido.programCounter)]
  /\ cpu_memoria' = Tail(cpu_memoria)
  /\ memCpu' = "responder"
  /\ UNCHANGED <<memKernelVars, procesosEnMemoria, kernel_memoria, memoria_kernel, memoria_cpu>>

\* The process is not there (procesoEncontrado->pid) or has no such instruction
\* (string_length(NULL)).
MemBuscaNulo ==
  /\ PasoMemoria("segfault")
  /\ memCpu = "esperar" /\ cpu_memoria # <<>>
  /\ LET pedido == Head(cpu_memoria) IN
     Conocido(pedido.pid)
       => Indice(pedido.programCounter) \notin 1..Len(Instrucciones(pedido.pid))
  /\ UNCHANGED <<memKernelVars, memCpuVars, procesosEnMemoria, kernel_memoria, memoria_kernel,
                 cpu_memoria, memoria_cpu>>

MemResponde ==
  /\ PasoMemoria("vivo")
  /\ memCpu = "responder"
  /\ memoria_cpu' = Enviado(cpu, memoria_cpu, hallada)
  /\ memCpu' = "esperar" /\ hallada' = NULL
  /\ UNCHANGED <<memKernelVars, procesosEnMemoria, kernel_memoria, memoria_kernel, cpu_memoria>>

MemCaeConLaCpu ==
  /\ cpu # "vivo"
  /\ \/ memCpu = "responder" /\ PasoMemoria("sigpipe")
     \/ memCpu = "esperar" /\ cpu_memoria = <<>> /\ PasoMemoria("exit")
  /\ UNCHANGED <<memKernelVars, memCpuVars, procesosEnMemoria, kernel_memoria, memoria_kernel,
                 cpu_memoria, memoria_cpu>>

-----------------------------------------------------------------------------
(* The CPU: atender_peticiones_kernel *)

PasoCpu(causa, desde, hasta) ==
  /\ cpu = "vivo" /\ cpu' = causa
  /\ cpuPc = desde /\ cpuPc' = hasta
  /\ UNCHANGED <<archivo, kernelVars, memoria, memKernelVars, memCpuVars, procesosEnMemoria,
                 kernel_memoria, memoria_kernel>>

CpuRecibeContexto ==
  /\ PasoCpu("vivo", "esperar", "pedir")
  /\ kernel_cpu # <<>>
  /\ contexto' = [pid |-> Head(kernel_cpu), programCounter |-> 0, AX |-> 0]
  /\ kernel_cpu' = Tail(kernel_cpu)
  /\ UNCHANGED <<instruccion, cpu_memoria, memoria_cpu>>

\* End of file from the kernel: another header exits, and so does the empty buffer
\* behind the right one.
CpuSinKernel ==
  /\ PasoCpu("exit", "esperar", "esperar")
  /\ kernel_cpu = <<>> /\ kernel # "vivo"
  /\ UNCHANGED <<contexto, instruccion, kernel_cpu, cpu_memoria, memoria_cpu>>

\* rastrear_instruccion, send.
CpuPide ==
  /\ PasoCpu("vivo", "pedir", "recibir")
  /\ cpu_memoria' = Enviado(memoria, cpu_memoria,
                            [pid |-> contexto.pid,
                             programCounter |-> contexto.programCounter])
  /\ UNCHANGED <<contexto, instruccion, kernel_cpu, memoria_cpu>>

CpuRecibe ==
  /\ PasoCpu("vivo", "recibir", "ejecutar")
  /\ memoria_cpu # <<>>
  /\ instruccion' = Head(memoria_cpu)
  /\ memoria_cpu' = Tail(memoria_cpu)
  /\ UNCHANGED <<contexto, kernel_cpu, cpu_memoria>>

\* The end of file is taken for an answer that has not come yet.
Mut_SigueEsperando == memoria # "vivo" /\ PasoCpu("sigpipe", "pedir", "pedir")
                      /\ UNCHANGED <<contexto, instruccion, kernel_cpu, cpu_memoria, memoria_cpu>>

\* memoria ended: SIGPIPE when sending to it, or exit in buffer_desempaquetar.
CpuSinMemoria ==
  /\ memoria # "vivo"
  /\ \/ PasoCpu("sigpipe", "pedir", "pedir")
     \/ PasoCpu("exit", "recibir", "recibir") /\ memoria_cpu = <<>>
  /\ UNCHANGED <<contexto, instruccion, kernel_cpu, cpu_memoria, memoria_cpu>>

\* An instruction is what string_split leaves of a line: a sequence of words.
Mut_Para(palabras) == palabras[1] = "EXIT"
Para(palabras) == palabras[1] # "SET"

\* ejecutar_SET: only AX is written, and it is a uint8_t.
Mut_SinTruncar(palabras, AX) ==
  IF palabras[1] = "SET" /\ palabras[2] = "AX" THEN palabras[3] ELSE AX
EfectoSET(palabras, AX) ==
  IF palabras[1] = "SET" /\ palabras[2] = "AX" THEN palabras[3] % 256 ELSE AX

\* strcmp(NULL, "AX"), or atoi(NULL).
Incompleta(palabras) == palabras \in {<<"SET">>, <<"SET", "AX">>}

(***************************************************************************)
(* What a file holds: its lines, split into words.  A SET of AX that is    *)
(* not cut short has a third word, and atoi makes a number of it.          *)
(***************************************************************************)
Palabras == UNION {{prog[i] : i \in DOMAIN prog} : prog \in Programas}

ASSUME ProgramasAssumption ==
  /\ Programas \subseteq Seq(Palabras)
  /\ \A palabras \in Palabras :
        \/ palabras[1] # "SET" \/ Incompleta(palabras)
        \/ palabras[2] # "AX"
        \/ Len(palabras) > 2 /\ palabras[3] \in Int

\* Executes, counts the instruction, and goes on unless it stops the process; then
\* the context is freed and nothing is sent to the kernel.
CpuEjecuta ==
  /\ PasoCpu("vivo", "ejecutar", IF Para(instruccion) THEN "esperar" ELSE "pedir")
  /\ ~Incompleta(instruccion)
  /\ contexto' = [contexto EXCEPT !.programCounter = @ + 1,
                                  !.AX = EfectoSET(instruccion, @)]
  /\ instruccion' = NULL
  /\ UNCHANGED <<kernel_cpu, cpu_memoria, memoria_cpu>>

CpuEjecutaIncompleta ==
  /\ PasoCpu("segfault", "ejecutar", "ejecutar")
  /\ Incompleta(instruccion)
  /\ UNCHANGED <<contexto, instruccion, kernel_cpu, cpu_memoria, memoria_cpu>>

-----------------------------------------------------------------------------
HiloKernel == MemCarga \/ MemNoAbre \/ MemConfirma
HiloCpu == MemBusca \/ MemBuscaNulo \/ MemResponde
Cpu == \/ CpuRecibeContexto \/ CpuSinKernel \/ CpuPide \/ CpuRecibe \/ CpuSinMemoria
       \/ CpuEjecuta \/ CpuEjecutaIncompleta

Next ==
  \/ \E pid \in Pid : KernelPideProceso(pid)
  \/ KernelConfirma \/ KernelRechaza \/ KernelDespacha \/ KernelTermina
  \/ HiloKernel \/ MemCaeConElKernel
  \/ HiloCpu \/ MemCaeConLaCpu
  \/ Cpu

\* The threads of memoria and the CPU are scheduled; the kernel's moves come from a
\* user, and garbage headers from nobody.
Fairness == WF_vars(HiloKernel) /\ WF_vars(HiloCpu) /\ WF_vars(Cpu)

Spec == Init /\ [][Next]_vars /\ Fairness
=============================================================================
