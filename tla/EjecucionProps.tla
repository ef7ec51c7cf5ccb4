---------------------------- MODULE EjecucionProps ----------------------------
(***************************************************************************)
(* What memoria and the CPU of module Ejecucion must satisfy.              *)
(***************************************************************************)
EXTENDS Ejecucion

Estado == {"vivo", "exit", "segfault", "sigpipe", "fin"}
Pedido == [pid : Pid, programCounter : Nat]
\* AX is a uint8_t of the context.
Contexto == [pid : Pid, programCounter : Nat, AX : Byte]

TipoKernel ==
  /\ archivo \in [Pid -> Programas \union {NULL}]
  /\ kernel \in Estado
  /\ pedidos \in Seq(Pid)
  /\ esperaConf \in BOOLEAN
  /\ despachado \in BOOLEAN

TipoMemoria ==
  /\ memoria \in Estado
  /\ memKernel \in {"esperar", "confirmar"}
  /\ pidCargado \in Pid \union {NULL}
  /\ memCpu \in {"esperar", "responder"}
  /\ hallada \in Palabras \union {NULL}
  /\ procesosEnMemoria \in Seq(Pid \X Programas)

TipoCpu ==
  /\ cpu \in Estado
  /\ cpuPc \in {"esperar", "pedir", "recibir", "ejecutar"}
  /\ contexto \in Contexto
  /\ instruccion \in Palabras \union {NULL}

TipoRed ==
  /\ kernel_memoria \in Seq(Pid)
  /\ memoria_kernel \in Seq(Byte)
  /\ kernel_cpu \in Seq(Pid)
  /\ cpu_memoria \in Seq(Pedido)
  /\ memoria_cpu \in Seq(Palabras)

TypeOK == TipoKernel /\ TipoMemoria /\ TipoCpu /\ TipoRed

-----------------------------------------------------------------------------
\* A process whose file cannot be opened is never executed.
ProgramaDe(pid) == IF archivo[pid] = NULL THEN <<>> ELSE archivo[pid]

I == INSTANCE Interprete WITH
       programa <- ProgramaDe(contexto.pid),
       pc       <- contexto.programCounter,
       ax       <- contexto.AX,
       activo   <- cpuPc # "esperar"

(***************************************************************************)
(* Fetching over two sockets from a list another thread is growing, the    *)
(* CPU executes the file: every instruction once, in order, and it stops   *)
(* where the file says.                                                    *)
(***************************************************************************)
ImplementaInterprete == I!Spec

(***************************************************************************)
(* A context that has stopped has the AX the file determines, and the      *)
(* program counter is that of the instruction after the one that stopped   *)
(* it (atender_kernel.c:122).                                              *)
(***************************************************************************)
ResultadoEsperado ==
  (cpu = "vivo" /\ cpuPc = "esperar" /\ contexto.programCounter > 0) =>
     LET prog == ProgramaDe(contexto.pid) IN
     /\ contexto.AX = I!AXFinal(prog)
     /\ contexto.programCounter \in I!Paradas(prog)
     /\ I!Antes(prog, contexto.programCounter - 1)

(***************************************************************************)
(* The null pointers of rastrear_instruccion and of ejecutar_instruccion   *)
(* are only reached because of what the file says: memoria faults only for *)
(* a program that runs past its last line, never because the process is    *)
(* not in the list yet, and the CPU only for a SET without its words.      *)
(***************************************************************************)
CaidasSoloPorElPrograma ==
  LET prog == ProgramaDe(contexto.pid) IN
  /\ memoria = "segfault" => I!Paradas(prog) = {}
  /\ cpu = "segfault" => \E i \in 1..Len(prog) : Incompleta(prog[i]) /\ I!Antes(prog, i)

(***************************************************************************)
(* Every context ends: the CPU goes back to waiting for the kernel or ends *)
(* itself, also when memoria ends in the middle of a fetch.                *)
(***************************************************************************)
TodoContextoTermina == (cpuPc # "esperar") ~> (cpuPc = "esperar" \/ cpu # "vivo")

\* The end of the kernel reaches the CPU, which does not outlive it for ever.
LaCpuCaeConElKernel == (kernel # "vivo") ~> (cpu # "vivo")
=============================================================================
