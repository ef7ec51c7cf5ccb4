------------------------------- MODULE Arranque -------------------------------
(***************************************************************************)
(* The start of the programs: memoria, the CPU, the kernel and the I/O     *)
(* interfaces open their ports, connect, and exchange the initial          *)
(* handshake.  memoria gives the first connection it accepts the role of   *)
(* the CPU and the second that of the kernel, whoever they are, and        *)
(* accepts no more.                                                        *)
(*                                                                         *)
(* The beginning of each main is a fixed list of network operations, kept  *)
(* as data; there is one action for each kind of operation.  The user      *)
(* starts the programs, in any order or, if enOrden, each one when those   *)
(* it needs have logged that they are ready.                               *)
(*                                                                         *)
(* Programs die as well: of SIGPIPE, if nobody listens where they connect, *)
(* and of what they read on the sockets they were left with.  What memoria *)
(* and the CPU do with a kernel that works belongs to Kernel and Ejecucion.*)
(***************************************************************************)
EXTENDS Integers, Sequences

CONSTANTS
  Interfaces,   \* I/O interfaces the user may start
  Ocupados,     \* ports that may still be in TIME_WAIT: nobody sets SO_REUSEADDR
  NADIE         \* what accept returns when it fails

Modulos == {"memoria", "cpu", "kernel"}
Puertos == {"memoria", "dispatch", "interrupt"}

ASSUME ArranqueAssumption ==
  /\ NADIE \notin Modulos \union Interfaces
  /\ Interfaces \intersect Modulos = {}
  /\ Ocupados \subseteq Puertos

Programas == Modulos \union Interfaces

VARIABLES
  enOrden,     \* whether this user starts the programs in order
  pc,          \* next operation of each program; 0 before it is started
  muertos,     \* programs that have died
  escucha,     \* ports somebody listens on
  cola,        \* connections not yet accepted, by port
  aceptados,   \* connections accepted, by port, in order: the sockets of the server
  saludados    \* <<client, port>> whose handshake was answered

vars == <<enOrden, pc, muertos, escucha, cola, aceptados, saludados>>

-----------------------------------------------------------------------------
(* What each main does, up to its own work *)

Op(nombre, puerto) == [op |-> nombre, puerto |-> puerto]

\* crear_conexion_cliente and handshake_Inicial_CL
Cliente(puerto) == <<Op("conectar", puerto), Op("esperar", puerto)>>
\* esperar_cliente and handshake_Inicial_SV
Servidor(puerto) == <<Op("aceptar", puerto), Op("saludar", puerto)>>

\* The thread for the interfaces takes connections as well.
Mut_MainMemoria == <<Op("escuchar", "memoria")>> \o Servidor("memoria")
                   \o Servidor("memoria") \o Servidor("memoria")
MainMemoria == <<Op("escuchar", "memoria")>> \o Servidor("memoria") \o Servidor("memoria")

\* The CPU listens before it has connected to memoria.
Mut_MainCpu == <<Op("escuchar", "dispatch"), Op("escuchar", "interrupt")>>
               \o Cliente("memoria") \o Servidor("dispatch") \o Servidor("interrupt")
MainCpu == Cliente("memoria") \o <<Op("escuchar", "dispatch"), Op("escuchar", "interrupt")>>
           \o Servidor("dispatch") \o Servidor("interrupt")

\* The kernel connects to the two ports of the CPU the other way round.
Mut_MainKernel == Cliente("memoria") \o Cliente("interrupt") \o Cliente("dispatch")
MainKernel == Cliente("memoria") \o Cliente("dispatch") \o Cliente("interrupt")

MainInterfaz == Cliente("memoria")

Main(p) ==
  CASE p = "memoria" -> MainMemoria
    [] p = "cpu" -> MainCpu
    [] p = "kernel" -> MainKernel
    [] OTHER -> MainInterfaz

Terminado(p) == pc[p] = Len(Main(p)) + 1

-----------------------------------------------------------------------------
Init ==
  /\ enOrden \in BOOLEAN
  /\ pc = [p \in Programas |-> 0]
  /\ muertos = {} /\ escucha = {}
  /\ cola = [puerto \in Puertos |-> <<>>]
  /\ aceptados = [puerto \in Puertos |-> <<>>]
  /\ saludados = {}

\* The program is past its calls of crear_conexion_servidor, whatever they returned.
YaEscucha(p) ==
  \A i \in 1..Len(Main(p)) : Main(p)[i].op = "escuchar" => i < pc[p]

(***************************************************************************)
(* What the user of enOrden has read: "MEMORIA lista para recibir al CPU"; *)
(* "CPU listo para recibir al KERNEL"; the kernel's socket in memoria's    *)
(* log.  The programs write it once they are past crear_conexion_servidor, *)
(* even if it failed.                                                      *)
(***************************************************************************)
Anunciado(p) ==
  CASE p = "memoria" -> TRUE
    [] p = "cpu" -> YaEscucha("memoria")
    [] p = "kernel" -> YaEscucha("cpu")
    [] OTHER -> Terminado("memoria")

Arrancar(p) ==
  /\ pc[p] = 0
  /\ enOrden => Anunciado(p)
  /\ pc' = [pc EXCEPT ![p] = 1]
  /\ UNCHANGED <<enOrden, muertos, escucha, cola, aceptados, saludados>>

\* The program is at an operation of this kind, and goes past it.
Paso(p, op, puerto) ==
  /\ pc[p] \in 1..Len(Main(p)) /\ p \notin muertos
  /\ Main(p)[pc[p]] = Op(op, puerto)
  /\ pc' = [pc EXCEPT ![p] = @ + 1]
  /\ UNCHANGED enOrden

(***************************************************************************)
(* crear_conexion_servidor.  When it fails it returns EXIT_FAILURE, which  *)
(* is 1; the callers take only a negative number for an error, and go on   *)
(* with descriptor 1.                                                      *)
(***************************************************************************)
Escuchar(p, puerto) ==
  /\ Paso(p, "escuchar", puerto)
  /\ escucha' \in {escucha \union {puerto}}
                  \union (IF puerto \in Ocupados THEN {escucha} ELSE {})
  /\ UNCHANGED <<muertos, cola, aceptados, saludados>>

\* The program that opens each port; connect succeeds while it lives and the port is open.
Dueno(puerto) == IF puerto = "memoria" THEN "memoria" ELSE "cpu"
Atiende(puerto) == puerto \in escucha /\ Dueno(puerto) \notin muertos

\* The connection waits in the port; the handshake is sent without waiting for accept.
Conectar(p, puerto) ==
  /\ Paso(p, "conectar", puerto)
  /\ Atiende(puerto)
  /\ cola' = [cola EXCEPT ![puerto] = Append(@, p)]
  /\ UNCHANGED <<muertos, escucha, aceptados, saludados>>

\* Nobody checks what connect returns: sending the handshake raises SIGPIPE.
ConectarSinServidor(p, puerto) ==
  /\ pc[p] \in 1..Len(Main(p)) /\ p \notin muertos
  /\ Main(p)[pc[p]] = Op("conectar", puerto)
  /\ ~Atiende(puerto)
  /\ muertos' = muertos \union {p}
  /\ UNCHANGED <<enOrden, pc, escucha, cola, aceptados, saludados>>

\* The client does not wait for the answer.
Mut_EsperarSaludo(p, puerto) ==
  /\ Paso(p, "esperar", puerto)
  /\ UNCHANGED <<muertos, escucha, cola, aceptados, saludados>>

(***************************************************************************)
(* handshake_Inicial_CL blocks in recv, and does not look at what recv     *)
(* returned nor at the answer: it goes on when it is answered and also     *)
(* when the server has died and the connection is closed.                  *)
(***************************************************************************)
EsperarSaludo(p, puerto) ==
  /\ Paso(p, "esperar", puerto)
  /\ <<p, puerto>> \in saludados \/ Dueno(puerto) \in muertos
  /\ UNCHANGED <<muertos, escucha, cola, aceptados, saludados>>

\* accept: the oldest connection or, on a descriptor that is no socket, -1 at once.
Aceptar(p, puerto) ==
  /\ Paso(p, "aceptar", puerto)
  /\ IF puerto \in escucha
     THEN /\ cola[puerto] # <<>>
          /\ aceptados' = [aceptados EXCEPT ![puerto] = Append(@, Head(cola[puerto]))]
          /\ cola' = [cola EXCEPT ![puerto] = Tail(@)]
     ELSE /\ aceptados' = [aceptados EXCEPT ![puerto] = Append(@, NADIE)]
          /\ UNCHANGED cola
  /\ UNCHANGED <<muertos, escucha, saludados>>

\* handshake_Inicial_SV, with the connection accepted last.
Saludar(p, puerto) ==
  /\ Paso(p, "saludar", puerto)
  /\ LET cliente == aceptados[puerto][Len(aceptados[puerto])] IN
     saludados' = saludados \union ({<<cliente, puerto>>} \ {<<NADIE, puerto>>})
  /\ UNCHANGED <<muertos, escucha, cola, aceptados>>

(***************************************************************************)
(* memoria serves the two sockets it has accepted, whatever they are.  A   *)
(* descriptor -1 or a closed socket gives headers that were never written, *)
(* an interface gives the bytes of its own frame: when one of them happens *)
(* to be a known operation, buffer_desempaquetar finds no data and exits.  *)
(***************************************************************************)
MemoriaCae ==
  /\ Terminado("memoria") /\ "memoria" \notin muertos
  /\ \E i \in 1..Len(aceptados["memoria"]) :
       LET quien == aceptados["memoria"][i] IN
         \/ quien = NADIE \/ quien \in muertos
         \/ quien \in Interfaces /\ Terminado(quien)
  /\ muertos' = muertos \union {"memoria"}
  /\ UNCHANGED <<enOrden, pc, escucha, cola, aceptados, saludados>>

\* The CPU exits if the header it reads is not HEADER_proceso_a_ejecutar, and from
\* descriptor -1 or from a kernel that died it reads one that was never written.
CpuCae ==
  /\ Terminado("cpu") /\ "cpu" \notin muertos
  /\ aceptados["dispatch"] = <<NADIE>> \/ "kernel" \in muertos
  /\ muertos' = muertos \union {"cpu"}
  /\ UNCHANGED <<enOrden, pc, escucha, cola, aceptados, saludados>>

-----------------------------------------------------------------------------
Avanza(p) ==
  \E puerto \in Puertos :
     \/ Escuchar(p, puerto)
     \/ Conectar(p, puerto) \/ ConectarSinServidor(p, puerto) \/ EsperarSaludo(p, puerto)
     \/ Aceptar(p, puerto) \/ Saludar(p, puerto)

Next ==
  \/ \E p \in Programas : Arrancar(p) \/ Avanza(p)
  \/ MemoriaCae \/ CpuCae

\* A program that was started runs; the user starts what he likes, and nothing says
\* that what a program reads from a broken socket ever kills it.
Spec == Init /\ [][Next]_vars /\ \A p \in Programas : WF_vars(Avanza(p))
=============================================================================
