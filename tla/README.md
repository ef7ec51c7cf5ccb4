# Formal model of the operating-system project (kernel, memoria, cpu, entradasalida)

This directory holds TLA+ modules that model the four programs of the repository, TLC
configurations that model-check them, and theorems about them checked with TLAPS. Names of
modules, variables and actions follow the names of the C code, which are Spanish.

## 1. The system

Four programs talk over TCP sockets. Every message is a *frame*: a one-byte header, a four-byte
length, and a buffer (`utils/src/utils/stream.c`).

| component | state | operations | correct when |
|---|---|---|---|
| **kernel, console** (`kernel/src/consola.c`, main thread) | the PID counter, `procesosEnNew` (unlocked), `estado` of a PCB, `procesosEnExit` | `INICIAR_PROCESO` creates a PCB in NEW; `FINALIZAR_PROCESO` looks a PCB up in four lists, marks it and queues it in EXIT; the other commands do nothing | a created process is not lost; a process that exists is found; a finalized one does not run |
| **kernel, long-term scheduler** (`planificador_largo_plazo`) | `procesosEnNew`, `procesosEnReady`, `semProcesoEnNew`, `semGradoMultiprogramacion` | NEW to READY, at most `GRADO_MULTIPROGRAMACION` processes; asks memoria to load each one and waits for the confirmation | a process is dispatched only once loaded; admissions progress |
| **kernel, short-term scheduler** (`planificador_corto_plazo`) | `procesosEnReady`, `pcbEnExec`, `dispatchPermitido`, `semProcesoEnReady` | READY to EXEC, first in first out, one at a time | FIFO order; never two in EXEC |
| **kernel, dispatch** (`atender_pcb`) | `pcbEnExec`, `semPcbEnExec` | sends the context of the PCB in EXEC to the CPU, waits for the answer, removes the PCB, permits the next dispatch | every admitted process finishes |
| **memoria** (`memoria/src`) | `procesosEnMemoria`, the instructions of each process; two threads share it without a mutex | loads the file of a process for the kernel; serves fetches to the CPU | instruction `n` of a process is line `n` of its file; never faults because of timing |
| **cpu** (`cpu/src`) | the context being executed | fetch, execute (`SET AX`, `EXIT`, anything else stops), count | executes the file in order, once, and stops where it says |
| **entradasalida** (`entradasalida/src`) | none after it connects | connects to memoria, handshake, sends its name | is accepted (it is not) |
| **utils** | sockets | frames, packing of buffers, handshake, connections | what is packed on one side is what is unpacked on the other |

How they interact: the console hands PCBs to the long-term scheduler, that one to the short-term
scheduler, and that one to `atender_pcb`, through three lists with one counting semaphore each;
`dispatchPermitido` closes the circle. The long-term scheduler talks to memoria's first thread,
`atender_pcb` to the CPU, the CPU to memoria's second thread.

What is hard here:

- **interleaving**: four threads in the kernel. `list_add` on `procesosEnNew` and on `pcbEnExec`,
  and every search of the console, take no mutex; READY is filled before memoria has confirmed.
- **protocol**: the kernel reads one byte of memoria's five-byte answer, and the CPU never
  answers the kernel.
- **failure**: `exit`, SIGPIPE, NULL dereferences; a `recv` on a closed socket leaves the header
  uninitialized, and the code goes on with whatever it finds.
- **streams**: `recv` without `MSG_WAITALL` may return part of a frame, and no message has a shared
  definition: each side packs or unpacks field by field.
- **limits**: the slots of the degree of multiprogramming are never given back; AX has 8 bits; a
  program may run past its last line.

The complete list, line by line, is `hazards` in `PROJECT.json`.

## 2. Modules

| module | what it is |
|---|---|
| `Protocolo` | operation codes and frames (`protocolo.h`, `stream_crear`, `stream_enviar_buffer_vacio`) |
| `Kernel` | the kernel: console, two schedulers, `atender_pcb`, lists, semaphores, sockets; memoria and the CPU as open peers |
| `PlanificadorFIFO` | abstract specification of the kernel: processes are created, admitted, dispatched and finished |
| `KernelProps` | type invariant, invariants, action and liveness properties of the kernel, refinement mapping to `PlanificadorFIFO` |
| `KernelProofs` | theorems about `Kernel` |
| `KernelCargaProofs` | theorem that nothing is executed before memoria has loaded it |
| `KernelContratoProofs` | theorems about what the kernel reads from the CPU and from memoria |
| `KernelFIFOProofs` | theorem that `Kernel` implements `PlanificadorFIFO` |
| `MCKernel` | constants of the TLC instances of the kernel |
| `Ejecucion` | memoria's two threads and the CPU, with the kernel reduced to what they see of it |
| `Interprete` | abstract specification of execution: the instructions of a file, in order |
| `EjecucionProps` | properties of `Ejecucion`, refinement mapping to `Interprete` |
| `EjecucionProofs` | theorems about `Ejecucion`, its refinement of `Interprete` among them |
| `MCEjecucion` | constants of the TLC instances of memoria and the CPU |
| `Arranque` | the start of the four programs: ports, connections, accepts, handshakes |
| `ArranqueProps` | properties of `Arranque` |
| `ArranqueProofs` | theorems about `Arranque` |
| `MCArranque` | constants of the TLC instances of the start |
| `Sistema` | `Kernel` and `Ejecucion` composed: the three programs, over the same sockets |
| `SistemaProps` | each side implements what the other assumes of it; safety and progress across programs |
| `SistemaProofs` | theorems about the composition: each side keeps to what the other assumes |
| `MCSistema` | constants of the TLC instance of the system |
| `Canal` | one connection byte by byte: packing, `send`, `recv`, unpacking, for every message |
| `ColaDeMensajes` | abstract specification of a connection: what is sent is received |
| `CanalProps` | properties of `Canal`, refinement mapping to `ColaDeMensajes` |
| `CanalProofs` | theorems about `Canal`, the steps of its refinement of `ColaDeMensajes` among them |
| `MCCanal` | messages of the TLC instances of the connection |

The models meet at the points where one hands over to the next: `Arranque` ends where each
`main` calls its own work, which is where `Kernel` and `Ejecucion` start; memoria and the CPU are the
open peers of `Kernel`, and the kernel that of `Ejecucion`; `Sistema` puts the real ones in their
place, and shows that the assumptions of both were right. `Canal` looks inside the whole messages that
the sockets of the others carry.

### Kernel

A thread is a program point (`consola`, `lp`, `cp`, `atender`) and the PCB it holds (`pidConsola`,
`pcbLP`, `pcbCP`, `pcbAtender`). Each `sem_wait`, `sem_post`, critical section, `send` and `recv` is
one action; a PCB is its PID; the registers and the path are left out. `estado` is what
`pcb->estado` really is (only `NEW` and `EXIT` are ever written).

- *Unlocked `list_add` on NEW.* `IniciarProceso` enters it and remembers the list as it walks it
  (`vistaNew`); `EnlazarEnNew` links the element. If the long-term scheduler removed an element in
  between, the access is a data race and the outcome is nondeterministic: linked, lost
  (`ResultadosDeEnlazar`) or a crash (`EnlazarRompe`).
- *Unlocked search.* One step for each list (`UbicarPcb`), so PCBs move between the steps. A search
  that can overlap a `list_remove` of another thread may crash (`BuscarRompe`).
- *`dispatchPermitido`, `semPcbEnExec`...* are naturals with the initial values of
  `iniciar_semaforos`.
- *Ends.* `exit`, a NULL dereference, SIGPIPE and the return of `main` take the whole process with
  all its threads: `Termina(causa)` sets `kernel`, after which nothing of the kernel moves.
- *Peers.* `RespuestaMemoria` is the sequence of bytes memoria writes after loading a process,
  `RespuestasCpu` the frames the CPU may answer with (one header each: the kernel consumes header
  and buffer together and uses only the header), `Caidas` the peers that may die. Two choices are
  checked: the *contract*, that is what the `recv` calls of the kernel consume, and what the
  programs of this repository really do (the frame of memoria and the deaths in `kernel_caidas`, all of
  it in `Sistema`).
- *End of file.* `stream_recibir_header` returns a variable that `recv` did not write. For the
  long-term scheduler that is `LPConfirmarBasura` or `LPRechazarBasura`; `atender_pcb` always ends,
  because `buffer_desempaquetar` exits on the empty buffer that follows.
- `finalizar_pcbs_en_hilo_con_exit`, the thread that would give slots back, is not started by the
  code and so it is not in the model.

### Ejecucion

memoria has a program point for each thread; the point between `list_add` and the confirmation
(`confirmar`) and the one between finding an instruction and sending it (`responder`) are where the
other thread gets in. An instruction is the sequence of words `string_split` leaves of a line; a
line that is neither `SET` nor `EXIT` stops the process as `EXIT` does (that includes `EXIT` followed
by the newline `getline` keeps). Instruction `n` is line `n` of the file, since `list_add` appends and
`list_get` counts from the head (the comment at `memoria/src/atender_peticiones.c:54` that says they
are to be read backwards is wrong). `EfectoSET` truncates to `uint8_t`. The faults are actions:
`MemNoAbre` (`exit(1)`), `MemBuscaNulo`, `CpuEjecutaIncompleta`, SIGPIPE and the exits that follow a
closed socket. The kernel appears as `Kernel*` actions: one request at a time, one byte read of each
answer, one context sent (that of the first process, since the CPU does not answer), and an end at
any time. It may skip a process, which the real one can lose in NEW.

### Sistema

The variables are those of `Kernel` and of `Ejecucion`, with the sockets of both identified
(`aMemoria` of `Kernel` is `kernel_memoria` of `Ejecucion`, and so on). A step is an action of the
threads of one of the two modules with the variables of the other unchanged; the peers of `Kernel`
(`MemoriaAtiende`, `CpuAtiende`, the deaths) and the kernel of `Ejecucion` (`KernelPideProceso`...)
take no step. `SistemaProps` then instantiates both modules again to state that those steps do happen
as seen from the other side:

- `ImplementaKernel`: under the mapping `Visto`, every step of memoria and the CPU is one the open peers
  of `Kernel` may take, or none. A process counts as loaded when its confirmation is sent, which is
  where `MemoriaAtiende` loads and answers at once.
- `ImplementaEjecucion`: every step of the kernel is one of the `Kernel*` actions of `Ejecucion`, or none;
  `pedidos` are the processes the long-term scheduler has asked memoria for.

### Canal

One direction of one connection, for one of seven kinds of message chosen in `Init`: `proceso_nuevo`
(kernel to memoria), `contexto` (kernel to CPU), `fetch` (CPU to memoria), `instruccion` (memoria to
CPU), `interfaz` (entradasalida to memoria) and the `mensaje` and `paquete` of `utils`, whose frame has
a four-byte code. The fields that one function packs and those the other unpacks are two lists, each
translated from its own function. The value of a field is its bytes; `MensajesAssumption` says which
values a caller has: four bytes for an int, one for a register, no zero inside a string, and lengths
that an int can hold, the sums of the code included. `Llega` moves any number of bytes
from the network to the reader; `recv` takes what there is, up to what it was asked for. What a short
`recv` leaves unwritten in a buffer is `BASURA`; a string that is read into it ends in `BASURA` too, and
an int made of it may be anything (`Largos`); an int of damaged bytes may be negative (`Entero`). `DesempaquetarRompe` is the `exit` of
`buffer_desempaquetar` on an empty buffer and the fault of its `memmove` or `memcpy` when it is asked for
more than there is or for a negative count. A reader that lost its place goes on as the code does: memoria logs a header it does not know
and reads the next byte, the CPU exits, and it takes any header from memoria. `corto` remembers that a
`recv` without `MSG_WAITALL` was short. The answer of memoria to a `PROCESO_NUEVO` is not among the
kinds: `Kernel` has it byte by byte.
`malloc` does not fail, and what a caller does with a damaged message is left out.

### Arranque

The network operations at the beginning of each `main` are a fixed list, kept as data
(`MainMemoria`, `MainCpu`, `MainKernel`, `MainInterfaz`), with one action for each kind of operation.
`accept` takes the oldest connection of the port. A connection to a port nobody listens on, or whose
program has died, fails (`Atiende`), nobody looks at the result of `connect`, and the handshake sent on
that socket raises SIGPIPE (`ConectarSinServidor`). Nor does `handshake_Inicial_CL` look at what its
`recv` returns or at the answer (`utils/src/utils/mensajes.c:241`): the client blocks there until it is
answered, and goes on also when the server has died (`EsperarSaludo`). When a port of `Ocupados` cannot be bound (no `SO_REUSEADDR`: a server that
is restarted finds its port in TIME_WAIT), `crear_conexion_servidor` returns 1, the caller goes on,
and `accept` on descriptor 1 fails at once. `enOrden`, chosen in `Init`, says whether this user reads
the logs of the servers before starting their clients (`Anunciado`). The lines "lista" and "listo" come
after the calls of `crear_conexion_servidor` (`memoria/src/main.c:64`, `cpu/src/main.c:75`) whether
those succeeded or not, so what the user knows is `YaEscucha`, that the program is past them, and
not that the port is open.

A program that has reached its own work may die of the sockets it was left with (`MemoriaCae`,
`CpuCae`): on descriptor -1 or on a closed socket the header read is one that was never written, and
an interface that memoria takes for the CPU or the kernel sends a frame of its own. Nothing says
that it will die, so these two actions have no fairness. The frame with its name that an
interface sends after the handshake is a message of `Canal`.

## 3. Runs

| run | module / cfg | instance | result |
|---|---|---|---|
| `kernel_contrato` | MCKernel / KernelContrato | 3 processes, 2 slots, 1 FINALIZAR that finds a PCB, peers that keep the contract | all hold |
| `kernel_caidas` | MCKernel / KernelCaidas | 2 processes, 2 slots, memoria answers its five-byte frame, memoria and CPU may die, the CPU may answer, answer another header or not answer | all hold |
| `kernel_no_encontrado` | MCKernel / KernelNoEncontrado | contract | `NoEncontradoNoExiste` violated |
| `kernel_finalizado` | MCKernel / KernelFinalizado | contract | `FinalizadoNoSeEjecuta` violated |
| `kernel_perdido` | MCKernel / KernelPerdido | contract | `NingunProcesoPerdido` violated |
| `ejecucion_programa` | MCEjecucion / EjecucionPrograma | 1 process, every file of up to 3 lines | all hold |
| `ejecucion_caidas` | MCEjecucion / EjecucionCaidas | 2 processes, files of up to 1 line or not there | all hold |
| `arranque` | MCArranque / Arranque | 2 interfaces, in order or not, any port may fail | all hold |
| `arranque_interfaz` | MCArranque / ArranqueInterfaz | 1 interface, all ports free | `InterfazAtendida` violated |
| `sistema` | MCSistema / Sistema | the three programs, 2 processes, 2 slots, 3 files or no file | all hold |
| `canal` | MCCanal / Canal | 2 messages of each kind, cut anywhere | all hold |
| `canal_parcial` | MCCanal / CanalParcial | the same | `TerminadorCopiado` violated |

What they show:

- `kernel_contrato`: apart from the console's unlocked accesses, the scheduler is right. Semaphores
  and lists agree (`CuentasDeSemaforos`), so no thread takes the head of an empty READY or EXEC list;
  the other unlocked `list_add`, on `pcbEnExec`, is harmless because `dispatchPermitido` keeps the
  threads apart (`ExecSinCarrera`); nothing is executed that memoria has not loaded
  (`CargadoAntesDeEjecutar`), although it is in READY before; the whole implements
  `PlanificadorFIFO` (`ImplementaFIFO`); and every
  process created is admitted (`AdmisionProgresa`) unless the slots are used up or the kernel ends,
  and every admitted one finishes (`AdmitidoTermina`). The kernel does not look at whom an answer of
  the CPU is for; with a CPU that answers each context once it need not (`RespuestaDelQueEjecuta`).
- `kernel_caidas`: neither the deaths of the peers nor the bytes that stay in memoria's socket break
  the order of scheduling. Of memoria's five bytes the kernel takes one, so once memoria has loaded a
  process no second one is ever confirmed (`UnaSolaConfirmacion`): the next admission reads a zero and
  ends the kernel, and not even the death of memoria, after which an empty socket would let a header
  never written pass, changes that. A process created is still admitted, or the kernel ends, or its
  slots are used up (`AdmisionProgresa`). The long-term scheduler never waits for ever for memoria;
  `atender_pcb` may wait for ever, and what it waits for is then the answer of a CPU that lives and took
  its context (`SoloLaCpuMudaCuelga`), which is what the CPU of this repository does: it never answers.
- the runs that end in a violation each check one thing that a comment or a message of the code
  says and the code does not do; `findings` in `PROJECT.json` quotes them.
- `ejecucion_programa`: over two sockets and two threads, memoria and the CPU implement `Interprete`,
  and the result is the AX that the file determines (`ResultadoEsperado`, which is stated without
  executing the program).
- `ejecucion_caidas`: a NULL dereference happens only because of what the file says, never because
  the CPU asks before memoria has loaded (`CaidasSoloPorElPrograma`); every context ends
  (`TodoContextoTermina`) and the CPU does not outlive the kernel (`LaCpuCaeConElKernel`).
- `arranque`: started in order, memoria takes the CPU for the CPU and the kernel for the kernel
  (`RolesCorrectos`), and the handshakes do not block each other: all three programs get to their work
  (`ArranqueCompleto`), except that the CPU or the kernel dies of SIGPIPE where its server could not open
  a port and announced it all the same. The test at `memoria/src/main.c:58` looks for a
  negative number and `crear_conexion_servidor` returns 1. In any order and whoever dies, when the
  console opens memoria and the CPU are past their handshakes, the CPU lives and both its sockets are the
  kernel's; and memoria serves the CPU and the kernel, in one order or the other, or it is dead
  and an interface had taken a place there (`ConsolaConTodos`). That last case is real: the kernel
  does not look at what its `recv` returns, and opens a console over a memoria that has died. If not all
  get to their work, one died or an interface took a place, and there is no circular wait
  (`SinEsperaCircular`). What also remains possible out of order is that the kernel is taken for the CPU
  and the CPU for the kernel.

- `sistema`: the two models were entitled to the peers they assume (`ImplementaKernel`,
  `ImplementaEjecucion`). While the CPU executes a context, that process and no other is in EXEC, and
  memoria knows it (`ExecEsLoQueEjecutaLaCpu`). A process created gets to execute an instruction
  (`ElPrimeroSeEjecuta`). Since the CPU does not answer when a process stops, and `atender_pcb` waits
  with the only permission to dispatch, no second process is ever dispatched (`UnSoloProceso`); and
  since the kernel reads one byte of memoria's five, the second admission ends it
  (`SegundaAdmisionMata`). When memoria's thread faults for a file without `EXIT`, the CPU and then the
  kernel end too (`LaCaidaSePropaga`).
- `canal`: what each function packs is what the other unpacks; however the network cuts the bytes, a
  connection implements `ColaDeMensajes` until a `recv` of `stream_recibir_buffer` returns short, and
  a `paquete` always does (`ImplementaCola`); between messages nothing is left in the socket
  (`FronteraDeTrama`).
- `canal_parcial`: when a frame does arrive in parts, a string is used without its final zero.

### Bounds

`MaxPid` bounds the processes the user creates, `MaxFinalizaciones` the FINALIZAR commands that find
their PCB (a search that does not find ends the kernel), `Largo` the lines of a file. Three processes
and two slots are the least with which one process executes, another waits in READY and a third
exhausts the slots; three processes are also needed to lose one in NEW and still see the next
admitted. Three lines are enough for two `SET`, a stop, and a line after the stop, or for a program
with no stop. Two interfaces are enough to take
both places at memoria. Two processes are enough for `sistema`: the kernel does not survive the
second admission. Its three files are one that stops, one that runs past its last line and one with
a line cut short; FINALIZAR is left out of it, since it touches neither socket. Two messages of each
kind show what the first leaves to the second, and strings of one or two letters are cut at every
place a longer one can be. The degree, the number of processes and the answers are parameters of the theorems,
which hold for all values.

### Fairness and deadlock

`Fairness` gives weak fairness to each thread, since the operating system schedules all of them and
each semaphore has one waiter, and to the peers taking what they were sent. That the CPU takes a
context does not say that it answers: `RespuestasCpu` does, and in `kernel_caidas` it holds the empty
answer. The user is not fair: no command need ever come. In `Ejecucion` only memoria's threads and the CPU are fair; a garbage
header that happens to be an operation is nobody's obligation. In `Arranque` a program that was
started runs (weak fairness of `Avanza(p)`); starting it is up to the user, and no program has to die. `Sistema` keeps the
fairness of both its parts. In `Canal` the network delivers and the receiver runs. `CHECK_DEADLOCK FALSE` is in every
configuration because the system really stops: the user may close the console, a process may end,
and after the last command every thread waits.

## 4. Theorems

Each theorem holds for every value of the constants that the `ASSUME` of its module admits. These
assumptions only give the constants their types (`KernelAssumption`, `ArranqueAssumption`,
`CanalAssumption`), say what a line of a file is (`ProgramasAssumption` of `Ejecucion`, repeated in
`SistemaAssumption`: a `SET AX` that is not cut short has a third word, of which `atoi` makes an
integer), and say what the fields of a message are (`MensajesAssumption` of `Canal`: what C gives an int, a `uint8_t`
and a string; the bound on the lengths is `MaxInt` less the eight bytes of code and length that
`utils/src/utils/mensajes.c:68` adds to them in an int). What a theorem assumes beyond that is in its
statement.

| module | theorem | statement |
|---|---|---|
| `KernelProofs` | `InvarianteKernel` | `Spec => []IInv` |
| | `TipoCorrecto` | `Spec => []TypeOK` |
| | `SemaforosCorrectos` | `Spec => []CuentasDeSemaforos` |
| | `SinCarreraEnExec` | `Spec => []ExecSinCarrera` |
| `KernelCargaProofs` | `CargaCorrecta` | `UnaConfirmacion` implies `Spec => []CargadoAntesDeEjecutar` |
| `KernelContratoProofs` | `RespuestaCorrecta` | `UnaRespuesta` implies `Spec => []RespuestaDelQueEjecuta` |
| | `SegundaConfirmacionNoLlega` | `RespuestaMemoria = StreamVacio(CONF_PR_NUEVO)` implies `Spec => []UnaSolaConfirmacion` |
| `KernelFIFOProofs` | `KernelImplementaFIFO` | `Spec => ImplementaFIFO` |
| `EjecucionProofs` | `InvarianteEjecucion` | `Spec => []EInv` |
| | `TipoCorrecto` | `Spec => []TypeOK` |
| | `CaidasDelPrograma` | `Spec => []CaidasSoloPorElPrograma` |
| | `ResultadoDelPrograma` | `Spec => []ResultadoEsperado` |
| | `EjecucionImplementaInterprete` | `Spec => ImplementaInterprete` |
| `ArranqueProofs` | `InvarianteArranque` | `Spec => []AInv` |
| | `TipoArranque` | `Spec => []TypeOK` |
| | `RolesDelArranque` | `Spec => []RolesCorrectos` |
| | `ConsolaAbierta` | `Spec => []ConsolaConTodos` |
| `SistemaProofs` | `InvarianteSistema` | `Spec => []SInv` |
| | `SistemaImplementaKernel` | `Spec => ImplementaKernel` |
| | `SistemaImplementaEjecucion` | `Spec => ImplementaEjecucion` |
| | `SoloUnProceso` | `Spec => []UnSoloProceso` |
| | `ExecYCpuDeAcuerdo` | `Spec => []ExecEsLoQueEjecutaLaCpu` |
| | `SistemaImplementaInterprete` | `Spec => EP!ImplementaInterprete` |
| | `SistemaImplementaFIFO` | `Spec => VP!ImplementaFIFO` |
| `CanalProofs` | `InvarianteCanal` | `Spec => []CInv` |
| | `TipoCanal` | `Spec => []TypeOK` |
| | `FronteraCanal` | `Spec => []FronteraDeTrama` |
| | `ImplementaColaSegura` | `Spec => Cola!Init /\ [][Cola!Next]_(Cola!vars)` |
| | `RecibidoEsEnviado` | `Spec => []Recibido` |
| | `SoloLoCortaUnRecv` | `Spec => [](receptor = "caido" => Roto)` |

In every module there is one `Conserva...` lemma for each part of the invariant, or for each action
where the actions are few, with one step for each action that disturbs the part; `Ajeno` states
once what the steps of each thread leave alone, and `Desglose` splits `Next`.

**The kernel.** `TypeOK` alone is not inductive: `Head` and `Tail` of a list keep its type only if it
is not empty, and only the semaphores know that. Nor are the accounts inductive without the types.
So `IInv == TypeOK /\ Punteros /\ CuentasDeSemaforos`, where `Punteros` says that a thread holds a
PCB at the program points that dereference it. `ExecSinCarrera` follows from `CuentaExec` and
`CuentaDispatch`: while the short-term scheduler carries a PCB it holds the only permission, so the
list is empty and the other thread is at its `sem_wait`.

`CargaCorrecta` assumes `UnaConfirmacion`: in memoria's answer, no byte after the first can be taken
for a confirmation. Both the answer the kernel expects, `<<CONF_PR_NUEVO>>`, and the frame memoria
sends, `<<CONF_PR_NUEVO, 0, 0, 0, 0>>`, satisfy it; without it the theorem is false, since a second
confirmation byte would confirm the next process before it is loaded. The kernel does not look at
whom a confirmation is for, so the invariant `CInv` follows the request (`Entrega`: not sent, on its
way, or loaded with the answer next in the socket) and then the process: READY holds loaded
processes and, last, the one being loaded (`ReadyCargado`); the token accounts of `IInv` keep the
short-term scheduler from reaching it (`CabezaCargada`). All of it holds while memoria lives: from a
closed socket the kernel reads an uninitialized header.

`RespuestaCorrecta` assumes `UnaRespuesta`: the CPU answers a context with at most one frame, whatever
its header; the peers may die. Its invariant `RInv` says that a context or an answer is in the sockets
only while `atender_pcb` waits for it.

`SegundaConfirmacionNoLlega` assumes the frame memoria really writes,
`RespuestaMemoria = StreamVacio(CONF_PR_NUEVO)`, and nothing of the CPU or of who dies. Its invariant `Sobras`
follows the socket: before the first load it is empty, and only a dead memoria can have had something
confirmed; afterwards it is never empty again, and the byte that does not confirm is second in it, or
first once a process was confirmed. `CuentaConfirmados` shows that the processes past their
confirmation grow only when one is confirmed, across the three lists and the hands of two threads.

`KernelImplementaFIFO` has no hypothesis. Its invariant `FInv` relates the lists: the processes admitted
are older than those in NEW, these than the one being linked, and all than the next PID (`Orden`); the
slots left and the processes admitted add up to the degree (`Lugares`); and `atender_pcb` holds the
process in EXEC (`ElQueAtiende`).

**memoria and the CPU.** `EInv` joins the types, what memoria has of each file while it loads it
(`Carga`), what was dispatched (`Despacho`: the first process, loaded before), where a fetch and its
answer are (`Busqueda`), what the lines executed so far did to AX and to the program counter (`Avance`),
and why a program ended (`Caida`). `Avance` is the part that makes the result inductive:
it says, of any prefix of a file, that AX is what its last `SET AX` left, without executing it.

**The start.** `AInv` says which sockets a server has by the place it has reached in its `main`
(`Sockets`), that only an accepted connection was answered (`Respuestas`), that a client past its
handshake was answered or has a dead server (`Saludos`), where each program can be dead and of what
(`Muertes`) and, of a start in order, that the connections memoria has received,
accepted or not, begin with those of the CPU and the kernel (`Orden`). The last needs the others: the
kernel starts when the CPU is past opening its ports, and the CPU gets there only after memoria answered
it, so its connection came first. `Muertes` carries `ConsolaAbierta`: the kernel gets past a
handshake without an answer only in front of a dead memoria, and memoria can have died before the console
opens only of an interface it accepted, since a CPU or a kernel that dies never lets the console open.

**The system.** The argument is assume-guarantee. `VP` and `EP` instantiate the proof modules of the
kernel and of execution over the views by which `SistemaProps` states the two refinements, and
`SInv == VP!IInv /\ VP!FInv /\ EP!EInv /\ ...`. Neither half is inductive alone: what the kernel
does is a step of the reduced kernel of `Ejecucion` because of the kernel's own invariants (the next request is
for the last process admitted, which is younger than the others; only the first is dispatched,
and after its confirmation), and what memoria and the CPU do is a step of the peers of `Kernel` because of
theirs (what is confirmed was the last loaded). `PasoVisto` and `PasoEjecucion` show both, step by
step; the inductiveness of each half is then cited from its own proof module, and with it
`SistemaImplementaInterprete` and `SistemaImplementaFIFO` carry the two refinements over to
the three programs together. What is particular to the system is `atendidos = <<>>`: the CPU answers
nothing, from which `SoloUnProceso` follows.

**The connection.** `CInv` says, for as long as no `recv` of a stream has been short (`Flujo`), what the bytes
on the way are: what the reader has not read yet of the frame it is in, and then the frames of the
messages sent and not read (`Siguientes`). Inside a frame, the buffer holds the fields that are still
packed, and `campos` those unpacked, with the values that were sent (`Leyendo`). Each action of the
reader takes one piece off the front; that the piece is where the reader expects it is
`Acuerdo` (both functions list the same fields), `Enteros` (the length that `Int32` writes is the one
`Entero` reads) and `CadenaEntera` (the first zero of a packed string is its last byte). A short `recv`
makes `Roto` true, and from then on only the types are claimed; `TipoCanal` is about those states too,
in which a length may be any int. What a function packs is a concatenation over its fields
(`FlattenSeq`), so its laws need an induction. The library's induction takes an operator; the lemma
`Induccion` is over a *set* of naturals instead, from the well-foundedness of strict inclusion
of finite sets, and `FlattenPrefijo` uses it to show that the recursive function inside `FlattenSeq` exists.

Only model-checked: the liveness properties, since fairness and `ENABLED` are out of the prover's reach.
The abstract specifications of the kernel and of execution have no fairness, so their refinements
are proved whole; `Cola!Spec` has, and of `ImplementaCola` it is the steps that are proved. Every other
property of a passing run has its theorem.

## 5. Not modelled

- The kernel's side of the I/O interfaces (`atender_entradaSalida.c`, commented out in its caller).
- Partial `recv` outside `Canal`: the sockets of the other modules carry whole messages, except
  memoria's answer to the kernel, whose bytes matter and are modelled one by one. `Canal` says when that
  is right: while no `recv` is short.
- A frame packed by the CPU for the kernel: `kernel_recibir_pcb_actualizado_de_cpu` unpacks one, and
  nothing in `cpu/src` sends it.
- Scheduling algorithms other than FIFO: with one in the configuration the short-term scheduler uses
  a PCB it never assigned.
- Registers other than AX, quantum, memory size, TLB, configuration files, logs: they take part in
  no decision of the code.
- Code that is never called (`server_escuchar_*`, `procesar_conexiones_memoria`, `buffer_crear_copia`,
  `stream_recibir_buffer_vacio`, `finalizar_pcbs_en_hilo_con_exit`, commented instructions), except the
  `paquete` functions and `escuchar_conexiones_IO`, whose messages are in `Canal`.

## 6. Plan

What is left is to prove consequences of the abstract specifications that hold for the real programs
through the refinements, such as that no process is executed twice (from `PlanificadorFIFO`), and, for
the liveness properties, the state invariants they rest on: that a thread of the kernel that waits has
what will wake it in a semaphore or in the hands of another thread. The liveness itself stays with TLC.
