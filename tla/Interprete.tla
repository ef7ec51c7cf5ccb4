------------------------------ MODULE Interprete ------------------------------
(***************************************************************************)
(* What executing a process means, with neither processes, sockets nor     *)
(* faults: the instructions of its file run in order from the first, each  *)
(* SET AX leaves the value modulo 2^8 in AX, and the first instruction     *)
(* that is not a SET stops it.                                             *)
(***************************************************************************)
EXTENDS Integers, Sequences

VARIABLES programa, pc, ax, activo

vars == <<programa, pc, ax, activo>>

Para(instruccion) == instruccion[1] # "SET"

\* Words after the third are ignored.
EsSetAX(instruccion) ==
  Len(instruccion) > 2 /\ instruccion[1] = "SET" /\ instruccion[2] = "AX"

EfectoAX(instruccion, valor) ==
  IF EsSetAX(instruccion) THEN instruccion[3] % 256 ELSE valor

Init == pc = 0 /\ ax = 0 /\ ~activo

\* The program is given when it starts, whichever it is.
Comenzar ==
  /\ ~activo /\ pc = 0
  /\ activo'
  /\ UNCHANGED <<pc, ax>>

Ejecutar ==
  /\ activo
  /\ pc < Len(programa)
  /\ ax' = EfectoAX(programa[pc + 1], ax)
  /\ pc' = pc + 1
  /\ activo' = ~Para(programa[pc + 1])
  /\ UNCHANGED programa

Spec == Init /\ [][Comenzar \/ Ejecutar]_vars

-----------------------------------------------------------------------------
(***************************************************************************)
(* The value AX has when a program stops, without executing it: that of    *)
(* the last SET AX before the first instruction that stops.                *)
(***************************************************************************)
Paradas(prog) == {i \in 1..Len(prog) : Para(prog[i])}

Antes(prog, i) == \A j \in Paradas(prog) : i < j

AXFinal(prog) ==
  LET asignan == {i \in 1..Len(prog) : Antes(prog, i) /\ EsSetAX(prog[i])}
  IN IF asignan = {} THEN 0
     ELSE prog[CHOOSE i \in asignan : \A j \in asignan : j <= i][3] % 256
=============================================================================
