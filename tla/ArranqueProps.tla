---------------------------- MODULE ArranqueProps ----------------------------
(***************************************************************************)
(* What the start of the programs must satisfy.                            *)
(***************************************************************************)
EXTENDS Arranque

\* memoria has a socket for each of two roles, the CPU one for each of its ports.
TypeOK ==
  /\ enOrden \in BOOLEAN
  /\ \A p \in Programas : pc[p] \in 0..(Len(Main(p)) + 1)
  /\ muertos \subseteq Programas
  /\ escucha \subseteq Puertos
  /\ \A puerto \in Puertos :
        /\ cola[puerto] \in Seq(Programas \ {"memoria"})
        /\ aceptados[puerto] \in Seq((Programas \ {"memoria"}) \union {NADIE})
        /\ Len(aceptados[puerto]) <= (IF puerto = "memoria" THEN 2 ELSE 1)
  /\ saludados \subseteq (Programas \ {"memoria"}) \X Puertos

Todos(ps) == \A p \in ps : Terminado(p)

(***************************************************************************)
(* The socket memoria uses as the CPU's is the CPU's, and the one it uses  *)
(* as the kernel's is the kernel's (memoria/src/main.c:65-73), when the    *)
(* programs are started in order.  Nothing in the handshake says who       *)
(* connects: it depends on the order alone.                                *)
(***************************************************************************)
RolesCorrectos ==
  enOrden /\ "memoria" \in escucha =>
    /\ Len(aceptados["memoria"]) >= 1 => aceptados["memoria"][1] = "cpu"
    /\ Len(aceptados["memoria"]) >= 2 => aceptados["memoria"][2] = "kernel"

\* An interface was accepted in the place of the CPU or of the kernel.
LugarUsurpado ==
  \E i \in 1..Len(aceptados["memoria"]) : aceptados["memoria"][i] \in Interfaces

(***************************************************************************)
(* Started in order, a program gets through, and the three of them reach   *)
(* their own work alive with none waiting for another that waits for it.   *)
(* What can stop the CPU or the kernel is a port its server could not open *)
(* and announced all the same (memoria/src/main.c:57-64,                   *)
(* cpu/src/main.c:67-75): the one that connects dies.                      *)
(***************************************************************************)
ArranqueCompleto ==
  /\ (enOrden /\ pc["cpu"] > 0)
       ~> (YaEscucha("cpu") \/ ("cpu" \in muertos /\ "memoria" \notin escucha))
  /\ (enOrden /\ pc["kernel"] > 0)
       ~> \/ Todos(Modulos) /\ muertos \intersect Modulos = {}
          \/ "kernel" \in muertos /\ ~({"dispatch", "interrupt"} \subseteq escucha)

(***************************************************************************)
(* In whatever order they were started, and whatever ports are not free,   *)
(* when the console opens memoria and the CPU are past their handshakes,   *)
(* the CPU lives and both its sockets are the kernel's.  memoria serves    *)
(* the CPU and the kernel, in one order or the other, as long as it lives; *)
(* the kernel, which does not look at what recv returns                    *)
(* (utils/src/utils/mensajes.c:241), also opens the console with memoria   *)
(* dead, but only of an interface that took a place there.                 *)
(***************************************************************************)
ConsolaConTodos ==
  Terminado("kernel") =>
    /\ Todos(Modulos) /\ "cpu" \notin muertos
    /\ aceptados["dispatch"] = <<"kernel">> /\ aceptados["interrupt"] = <<"kernel">>
    /\ IF "memoria" \in muertos
       THEN LugarUsurpado
       ELSE {aceptados["memoria"][1], aceptados["memoria"][2]} = {"cpu", "kernel"}

(***************************************************************************)
(* Nor is there a circular wait in any other order: if the three programs  *)
(* were started, then they all get to their work, or one of them found a   *)
(* port closed, or an interface took a place at memoria.                   *)
(***************************************************************************)
SinEsperaCircular ==
  (\A p \in Modulos : pc[p] > 0)
     ~> (Todos(Modulos) \/ muertos \intersect Modulos # {} \/ LugarUsurpado)

-----------------------------------------------------------------------------
(* What a comment of the code says, and does not hold *)

\* "EntradaSalida se conecta con el servidor memoria" (entradasalida/src/main.c:49): an
\* interface started once memoria has its CPU and its kernel gets its handshake answered.
InterfazAtendida ==
  \A i \in Interfaces : (enOrden /\ pc[i] > 0) ~> <<i, "memoria">> \in saludados
=============================================================================
