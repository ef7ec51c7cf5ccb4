---------------------------- MODULE ArranqueProofs ----------------------------
(***************************************************************************)
(* Proofs about the start of the programs, for any set of interfaces and   *)
(* of ports that are not free.                                             *)
(*                                                                         *)
(* The place a program has reached in its main says which sockets it has   *)
(* accepted and greeted (Servidores) and by whom it was greeted itself     *)
(* (Clientes).  When the programs are started in order, the connections    *)
(* memoria has received, accepted or not, begin with the CPU's and the     *)
(* kernel's (Orden), because each starts when the one before is ready.     *)
(* Who has died, and where, says of what he died (Muertes): a program that *)
(* goes on without an answer had memoria dead in front of it.              *)
(***************************************************************************)
EXTENDS ArranqueProps, TLAPS, SequenceTheorems

Clientes == Programas \ {"memoria"}

\* The connections to memoria, in the order in which they were made.
Conexiones == aceptados["memoria"] \o cola["memoria"]

Tipos ==
  /\ enOrden \in BOOLEAN
  /\ pc \in [Programas -> Nat]
  /\ \A p \in Programas : pc[p] <= Len(Main(p)) + 1
  /\ muertos \subseteq Programas
  /\ escucha \subseteq Puertos
  /\ cola \in [Puertos -> Seq(Clientes)]
  /\ aceptados \in [Puertos -> Seq(Clientes \union {NADIE})]
  /\ saludados \subseteq Clientes \X Puertos

\* The sockets a server has, by the place it has reached.
Sockets ==
  /\ Len(aceptados["memoria"]) = (IF pc["memoria"] <= 2 THEN 0
                                   ELSE IF pc["memoria"] <= 4 THEN 1 ELSE 2)
  /\ Len(aceptados["dispatch"]) = (IF pc["cpu"] <= 5 THEN 0 ELSE 1)
  /\ Len(aceptados["interrupt"]) = (IF pc["cpu"] <= 7 THEN 0 ELSE 1)

\* Only a connection accepted, and after it was, is answered.
Respuestas ==
  /\ \A p \in Clientes : <<p, "memoria">> \in saludados =>
        \/ pc["memoria"] >= 4 /\ aceptados["memoria"][1] = p
        \/ pc["memoria"] >= 6 /\ aceptados["memoria"][2] = p
  /\ \A p \in Clientes : <<p, "dispatch">> \in saludados =>
        pc["cpu"] >= 7 /\ aceptados["dispatch"][1] = p
  /\ \A p \in Clientes : <<p, "interrupt">> \in saludados =>
        pc["cpu"] >= 9 /\ aceptados["interrupt"][1] = p

\* A client past its handshake was answered, or memoria died.
Saludos ==
  /\ \A p \in Clientes : pc[p] >= 3 => <<p, "memoria">> \in saludados \/ "memoria" \in muertos
  /\ pc["kernel"] >= 5 => <<"kernel", "dispatch">> \in saludados
  /\ pc["kernel"] >= 7 => <<"kernel", "interrupt">> \in saludados

\* Nobody listens before its turn, connections are made and wait only where somebody
\* listens, and what is accepted there is a connection.
Escuchas ==
  /\ "memoria" \in escucha => pc["memoria"] >= 2
  /\ "dispatch" \in escucha => pc["cpu"] >= 4
  /\ "interrupt" \in escucha => pc["cpu"] >= 5
  /\ cola["memoria"] # <<>> => "memoria" \in escucha
  /\ \A q \in escucha : aceptados[q] \in Seq(Clientes)
  /\ pc["kernel"] >= 2 => "memoria" \in escucha
  /\ pc["kernel"] >= 4 => "dispatch" \in escucha
  /\ pc["kernel"] >= 6 => "interrupt" \in escucha

\* Where each program can be dead, and of what.
Muertes ==
  /\ "memoria" \in muertos =>
       /\ pc["memoria"] = 6
       /\ LugarUsurpado \/ "memoria" \notin escucha \/ "cpu" \in muertos \/ "kernel" \in muertos
  /\ "cpu" \in muertos => \/ pc["cpu"] = 1
                          \/ pc["cpu"] = 9 /\ ("dispatch" \notin escucha \/ "kernel" \in muertos)
  /\ "kernel" \in muertos => pc["kernel"] \in {1, 3, 5}

\* Each program was started when those it needs were ready, and memoria's connections
\* begin with the CPU's and the kernel's, which have made theirs.
Orden ==
  enOrden =>
    /\ pc["cpu"] > 0 => pc["memoria"] >= 2
    /\ pc["kernel"] > 0 => pc["cpu"] >= 5
    /\ \A i \in Interfaces : pc[i] > 0 => pc["memoria"] >= 6
    /\ "memoria" \in escucha =>
         /\ Len(Conexiones) >= 1 => Conexiones[1] = "cpu" /\ pc["cpu"] >= 2
         /\ Len(Conexiones) >= 2 => Conexiones[2] = "kernel" /\ pc["kernel"] >= 2

AInv == Tipos /\ Sockets /\ Respuestas /\ Saludos /\ Escuchas /\ Muertes /\ Orden

-----------------------------------------------------------------------------
(* The programs *)

LEMMA Nombres ==
  /\ Modulos = {"memoria", "cpu", "kernel"} /\ Modulos \subseteq Programas
  /\ {"cpu", "kernel"} \subseteq Clientes /\ Clientes \subseteq Programas
  /\ Interfaces \subseteq Clientes /\ NADIE \notin Programas
  /\ \A p \in Programas : p \in {"memoria", "cpu", "kernel"} \/ p \in Interfaces
  /\ \A i \in Interfaces : i \notin {"memoria", "cpu", "kernel"}
  BY ArranqueAssumption DEF Modulos, Programas, Clientes

\* A server or a client part is added to a list of operations.
LEMMA DosMas ==
  ASSUME NEW S, NEW s \in Seq(S), NEW t \in Seq(S), Len(t) = 2
  PROVE  /\ s \o t \in Seq(S) /\ Len(s \o t) = Len(s) + 2
         /\ \A i \in 1..Len(s) : (s \o t)[i] = s[i]
         /\ (s \o t)[Len(s) + 1] = t[1] /\ (s \o t)[Len(s) + 2] = t[2]
<1>1. Len(s) \in Nat
  OBVIOUS
<1>2. /\ s \o t \in Seq(S) /\ Len(s \o t) = Len(s) + Len(t)
      /\ \A i \in 1..(Len(s) + Len(t)) :
           (s \o t)[i] = IF i <= Len(s) THEN s[i] ELSE t[i - Len(s)]
  BY ConcatProperties
<1>3. /\ Len(s) + 1 \in 1..(Len(s) + Len(t)) /\ Len(s) + 2 \in 1..(Len(s) + Len(t))
      /\ \A i \in 1..Len(s) : i \in 1..(Len(s) + Len(t)) /\ i <= Len(s)
      /\ (Len(s) + 1) - Len(s) = 1 /\ (Len(s) + 2) - Len(s) = 2
      /\ ~(Len(s) + 1 <= Len(s)) /\ ~(Len(s) + 2 <= Len(s))
  BY <1>1
<1> QED
  BY <1>2, <1>3

LEMMA Mains ==
  /\ LET m == Main("memoria") IN
       /\ Len(m) = 5 /\ m[1] = Op("escuchar", "memoria")
       /\ m[2] = Op("aceptar", "memoria") /\ m[3] = Op("saludar", "memoria")
       /\ m[4] = Op("aceptar", "memoria") /\ m[5] = Op("saludar", "memoria")
  /\ LET m == Main("cpu") IN
       /\ Len(m) = 8 /\ m[1] = Op("conectar", "memoria") /\ m[2] = Op("esperar", "memoria")
       /\ m[3] = Op("escuchar", "dispatch") /\ m[4] = Op("escuchar", "interrupt")
       /\ m[5] = Op("aceptar", "dispatch") /\ m[6] = Op("saludar", "dispatch")
       /\ m[7] = Op("aceptar", "interrupt") /\ m[8] = Op("saludar", "interrupt")
  /\ LET m == Main("kernel") IN
       /\ Len(m) = 6 /\ m[1] = Op("conectar", "memoria") /\ m[2] = Op("esperar", "memoria")
       /\ m[3] = Op("conectar", "dispatch") /\ m[4] = Op("esperar", "dispatch")
       /\ m[5] = Op("conectar", "interrupt") /\ m[6] = Op("esperar", "interrupt")
  /\ \A i \in Interfaces :
       Len(Main(i)) = 2 /\ Main(i)[1] = Op("conectar", "memoria")
       /\ Main(i)[2] = Op("esperar", "memoria")
<1> DEFINE Ops == {Op(o, q) : o \in {"escuchar", "conectar", "esperar", "aceptar", "saludar"},
                             q \in Puertos}
<1>1. /\ Main("memoria") = MainMemoria /\ Main("cpu") = MainCpu /\ Main("kernel") = MainKernel
      /\ \A i \in Interfaces : Main(i) = MainInterfaz
  BY Nombres DEF Main
<1>2. \A o \in {"escuchar", "conectar", "esperar", "aceptar", "saludar"}, q \in Puertos :
         Op(o, q) \in Ops
  OBVIOUS
<1>3. "memoria" \in Puertos /\ "dispatch" \in Puertos /\ "interrupt" \in Puertos
  BY DEF Puertos
<1>6. \A q \in Puertos : /\ Op("escuchar", q) \in Ops /\ Op("conectar", q) \in Ops
                         /\ Op("esperar", q) \in Ops /\ Op("aceptar", q) \in Ops
                         /\ Op("saludar", q) \in Ops
  BY <1>2
<1> HIDE DEF Ops
<1>m. LET m == MainMemoria IN
       /\ Len(m) = 5 /\ m[1] = Op("escuchar", "memoria")
       /\ m[2] = Op("aceptar", "memoria") /\ m[3] = Op("saludar", "memoria")
       /\ m[4] = Op("aceptar", "memoria") /\ m[5] = Op("saludar", "memoria")
  <2> DEFINE s1 == <<Op("escuchar", "memoria")>>
             s2 == s1 \o <<Op("aceptar", "memoria"), Op("saludar", "memoria")>>
             s3 == s2 \o <<Op("aceptar", "memoria"), Op("saludar", "memoria")>>
  <2>1. s1 \in Seq(Ops) /\ Len(s1) = 1 /\ s1[1] = Op("escuchar", "memoria")
    BY <1>2, <1>3
  <2> HIDE DEF s1
  <2>2. /\ s2 \in Seq(Ops) /\ Len(s2) = 3 /\ \A i \in 1..1 : s2[i] = s1[i]
        /\ s2[2] = Op("aceptar", "memoria") /\ s2[3] = Op("saludar", "memoria")
    <3> DEFINE t == <<Op("aceptar", "memoria"), Op("saludar", "memoria")>>
    <3>1. t \in Seq(Ops) /\ Len(t) = 2 /\ t[1] = Op("aceptar", "memoria")
          /\ t[2] = Op("saludar", "memoria")
      BY <1>3, <1>6
    <3> HIDE DEF t
    <3>2. /\ s1 \o t \in Seq(Ops) /\ Len(s1 \o t) = Len(s1) + 2
          /\ \A i \in 1..Len(s1) : (s1 \o t)[i] = s1[i]
          /\ (s1 \o t)[Len(s1) + 1] = t[1] /\ (s1 \o t)[Len(s1) + 2] = t[2]
      BY <2>1, <3>1, DosMas, Zenon
    <3> QED
      BY <2>1, <3>1, <3>2 DEF t
  <2> HIDE DEF s2
  <2>3. /\ s3 \in Seq(Ops) /\ Len(s3) = 5 /\ \A i \in 1..3 : s3[i] = s2[i]
        /\ s3[4] = Op("aceptar", "memoria") /\ s3[5] = Op("saludar", "memoria")
    <3> DEFINE t == <<Op("aceptar", "memoria"), Op("saludar", "memoria")>>
    <3>1. t \in Seq(Ops) /\ Len(t) = 2 /\ t[1] = Op("aceptar", "memoria")
          /\ t[2] = Op("saludar", "memoria")
      BY <1>3, <1>6
    <3> HIDE DEF t
    <3>2. /\ s2 \o t \in Seq(Ops) /\ Len(s2 \o t) = Len(s2) + 2
          /\ \A i \in 1..Len(s2) : (s2 \o t)[i] = s2[i]
          /\ (s2 \o t)[Len(s2) + 1] = t[1] /\ (s2 \o t)[Len(s2) + 2] = t[2]
      BY <2>2, <3>1, DosMas, Zenon
    <3> QED
      BY <2>2, <3>1, <3>2 DEF t
  <2> HIDE DEF s3
  <2>4. MainMemoria = s3
    BY DEF MainMemoria, Servidor, s1, s2, s3
  <2> QED
    BY <2>1, <2>2, <2>3, <2>4
<1>c. LET m == MainCpu IN
       /\ Len(m) = 8 /\ m[1] = Op("conectar", "memoria") /\ m[2] = Op("esperar", "memoria")
       /\ m[3] = Op("escuchar", "dispatch") /\ m[4] = Op("escuchar", "interrupt")
       /\ m[5] = Op("aceptar", "dispatch") /\ m[6] = Op("saludar", "dispatch")
       /\ m[7] = Op("aceptar", "interrupt") /\ m[8] = Op("saludar", "interrupt")
  <2> DEFINE s1 == <<Op("conectar", "memoria"), Op("esperar", "memoria")>>
             s2 == s1 \o <<Op("escuchar", "dispatch"), Op("escuchar", "interrupt")>>
             s3 == s2 \o <<Op("aceptar", "dispatch"), Op("saludar", "dispatch")>>
             s4 == s3 \o <<Op("aceptar", "interrupt"), Op("saludar", "interrupt")>>
  <2>1. s1 \in Seq(Ops) /\ Len(s1) = 2 /\ s1[1] = Op("conectar", "memoria")
        /\ s1[2] = Op("esperar", "memoria")
    BY <1>2, <1>3
  <2> HIDE DEF s1
  <2>2. /\ s2 \in Seq(Ops) /\ Len(s2) = 4 /\ \A i \in 1..2 : s2[i] = s1[i]
        /\ s2[3] = Op("escuchar", "dispatch") /\ s2[4] = Op("escuchar", "interrupt")
    <3> DEFINE t == <<Op("escuchar", "dispatch"), Op("escuchar", "interrupt")>>
    <3>1. t \in Seq(Ops) /\ Len(t) = 2 /\ t[1] = Op("escuchar", "dispatch")
          /\ t[2] = Op("escuchar", "interrupt")
      BY <1>3, <1>6
    <3> HIDE DEF t
    <3>2. /\ s1 \o t \in Seq(Ops) /\ Len(s1 \o t) = Len(s1) + 2
          /\ \A i \in 1..Len(s1) : (s1 \o t)[i] = s1[i]
          /\ (s1 \o t)[Len(s1) + 1] = t[1] /\ (s1 \o t)[Len(s1) + 2] = t[2]
      BY <2>1, <3>1, DosMas, Zenon
    <3> QED
      BY <2>1, <3>1, <3>2 DEF t
  <2> HIDE DEF s2
  <2>3. /\ s3 \in Seq(Ops) /\ Len(s3) = 6 /\ \A i \in 1..4 : s3[i] = s2[i]
        /\ s3[5] = Op("aceptar", "dispatch") /\ s3[6] = Op("saludar", "dispatch")
    <3> DEFINE t == <<Op("aceptar", "dispatch"), Op("saludar", "dispatch")>>
    <3>1. t \in Seq(Ops) /\ Len(t) = 2 /\ t[1] = Op("aceptar", "dispatch")
          /\ t[2] = Op("saludar", "dispatch")
      BY <1>3, <1>6
    <3> HIDE DEF t
    <3>2. /\ s2 \o t \in Seq(Ops) /\ Len(s2 \o t) = Len(s2) + 2
          /\ \A i \in 1..Len(s2) : (s2 \o t)[i] = s2[i]
          /\ (s2 \o t)[Len(s2) + 1] = t[1] /\ (s2 \o t)[Len(s2) + 2] = t[2]
      BY <2>2, <3>1, DosMas, Zenon
    <3> QED
      BY <2>2, <3>1, <3>2 DEF t
  <2> HIDE DEF s3
  <2>4. /\ Len(s4) = 8 /\ \A i \in 1..6 : s4[i] = s3[i]
        /\ s4[7] = Op("aceptar", "interrupt") /\ s4[8] = Op("saludar", "interrupt")
    <3> DEFINE t == <<Op("aceptar", "interrupt"), Op("saludar", "interrupt")>>
    <3>1. t \in Seq(Ops) /\ Len(t) = 2 /\ t[1] = Op("aceptar", "interrupt")
          /\ t[2] = Op("saludar", "interrupt")
      BY <1>3, <1>6
    <3> HIDE DEF t
    <3>2. /\ s3 \o t \in Seq(Ops) /\ Len(s3 \o t) = Len(s3) + 2
          /\ \A i \in 1..Len(s3) : (s3 \o t)[i] = s3[i]
          /\ (s3 \o t)[Len(s3) + 1] = t[1] /\ (s3 \o t)[Len(s3) + 2] = t[2]
      BY <2>3, <3>1, DosMas, Zenon
    <3> QED
      BY <2>3, <3>1, <3>2 DEF t
  <2> HIDE DEF s4
  <2>5. MainCpu = s4
    BY DEF MainCpu, Servidor, Cliente, s1, s2, s3, s4
  <2> QED
    BY <2>1, <2>2, <2>3, <2>4, <2>5
<1>k. LET m == MainKernel IN
       /\ Len(m) = 6 /\ m[1] = Op("conectar", "memoria") /\ m[2] = Op("esperar", "memoria")
       /\ m[3] = Op("conectar", "dispatch") /\ m[4] = Op("esperar", "dispatch")
       /\ m[5] = Op("conectar", "interrupt") /\ m[6] = Op("esperar", "interrupt")
  <2> DEFINE s1 == <<Op("conectar", "memoria"), Op("esperar", "memoria")>>
             s2 == s1 \o <<Op("conectar", "dispatch"), Op("esperar", "dispatch")>>
             s3 == s2 \o <<Op("conectar", "interrupt"), Op("esperar", "interrupt")>>
  <2>1. s1 \in Seq(Ops) /\ Len(s1) = 2 /\ s1[1] = Op("conectar", "memoria")
        /\ s1[2] = Op("esperar", "memoria")
    BY <1>2, <1>3
  <2> HIDE DEF s1
  <2>2. /\ s2 \in Seq(Ops) /\ Len(s2) = 4 /\ \A i \in 1..2 : s2[i] = s1[i]
        /\ s2[3] = Op("conectar", "dispatch") /\ s2[4] = Op("esperar", "dispatch")
    <3> DEFINE t == <<Op("conectar", "dispatch"), Op("esperar", "dispatch")>>
    <3>1. t \in Seq(Ops) /\ Len(t) = 2 /\ t[1] = Op("conectar", "dispatch")
          /\ t[2] = Op("esperar", "dispatch")
      BY <1>3, <1>6
    <3> HIDE DEF t
    <3>2. /\ s1 \o t \in Seq(Ops) /\ Len(s1 \o t) = Len(s1) + 2
          /\ \A i \in 1..Len(s1) : (s1 \o t)[i] = s1[i]
          /\ (s1 \o t)[Len(s1) + 1] = t[1] /\ (s1 \o t)[Len(s1) + 2] = t[2]
      BY <2>1, <3>1, DosMas, Zenon
    <3> QED
      BY <2>1, <3>1, <3>2 DEF t
  <2> HIDE DEF s2
  <2>3. /\ Len(s3) = 6 /\ \A i \in 1..4 : s3[i] = s2[i]
        /\ s3[5] = Op("conectar", "interrupt") /\ s3[6] = Op("esperar", "interrupt")
    <3> DEFINE t == <<Op("conectar", "interrupt"), Op("esperar", "interrupt")>>
    <3>1. t \in Seq(Ops) /\ Len(t) = 2 /\ t[1] = Op("conectar", "interrupt")
          /\ t[2] = Op("esperar", "interrupt")
      BY <1>3, <1>6
    <3> HIDE DEF t
    <3>2. /\ s2 \o t \in Seq(Ops) /\ Len(s2 \o t) = Len(s2) + 2
          /\ \A i \in 1..Len(s2) : (s2 \o t)[i] = s2[i]
          /\ (s2 \o t)[Len(s2) + 1] = t[1] /\ (s2 \o t)[Len(s2) + 2] = t[2]
      BY <2>2, <3>1, DosMas, Zenon
    <3> QED
      BY <2>2, <3>1, <3>2 DEF t
  <2> HIDE DEF s3
  <2>5. MainKernel = s3
    BY DEF MainKernel, Cliente, s1, s2, s3
  <2> QED
    BY <2>1, <2>2, <2>3, <2>5
<1>i. LET m == MainInterfaz IN
       Len(m) = 2 /\ m[1] = Op("conectar", "memoria") /\ m[2] = Op("esperar", "memoria")
  BY DEF MainInterfaz, Cliente
<1> QED
  BY <1>1, <1>m, <1>c, <1>k, <1>i

LEMMA Largos ==
  /\ Len(Main("memoria")) = 5 /\ Len(Main("cpu")) = 8 /\ Len(Main("kernel")) = 6
  /\ \A i \in Interfaces : Len(Main(i)) = 2
  BY Mains

\* Which program is at an operation, and in which place.
LEMMA Lugar ==
  ASSUME NEW p \in Programas, NEW puerto \in Puertos, NEW k \in Nat, k >= 1, k <= Len(Main(p))
  PROVE  /\ Main(p)[k] = Op("escuchar", puerto) =>
              \/ p = "memoria" /\ puerto = "memoria" /\ k = 1
              \/ p = "cpu" /\ puerto = "dispatch" /\ k = 3
              \/ p = "cpu" /\ puerto = "interrupt" /\ k = 4
         /\ Main(p)[k] = Op("conectar", puerto) =>
              \/ p \in Clientes /\ puerto = "memoria" /\ k = 1
              \/ p = "kernel" /\ puerto = "dispatch" /\ k = 3
              \/ p = "kernel" /\ puerto = "interrupt" /\ k = 5
         /\ Main(p)[k] = Op("esperar", puerto) =>
              \/ p \in Clientes /\ puerto = "memoria" /\ k = 2
              \/ p = "kernel" /\ puerto = "dispatch" /\ k = 4
              \/ p = "kernel" /\ puerto = "interrupt" /\ k = 6
         /\ Main(p)[k] = Op("aceptar", puerto) =>
              \/ p = "memoria" /\ puerto = "memoria" /\ k \in {2, 4}
              \/ p = "cpu" /\ puerto = "dispatch" /\ k = 5
              \/ p = "cpu" /\ puerto = "interrupt" /\ k = 7
         /\ Main(p)[k] = Op("saludar", puerto) =>
              \/ p = "memoria" /\ puerto = "memoria" /\ k \in {3, 5}
              \/ p = "cpu" /\ puerto = "dispatch" /\ k = 6
              \/ p = "cpu" /\ puerto = "interrupt" /\ k = 8
<1>0. \A o1, o2, p1, p2 : Op(o1, p1) = Op(o2, p2) <=> o1 = o2 /\ p1 = p2
  BY DEF Op
<1>1. CASE p = "memoria"
  <2>0. k <= 5
    BY <1>1, Largos
  <2>1. k \in {1, 2, 3, 4, 5}
    BY <2>0
  <2> QED
    BY <1>0, <1>1, <2>1, Mains
<1>2. CASE p = "cpu"
  <2>0. k <= 8
    BY <1>2, Largos
  <2>1. k \in {1, 2, 3, 4, 5, 6, 7, 8}
    BY <2>0
  <2> QED
    BY <1>0, <1>2, <2>1, Mains, Nombres
<1>3. CASE p = "kernel"
  <2>0. k <= 6
    BY <1>3, Largos
  <2>1. k \in {1, 2, 3, 4, 5, 6}
    BY <2>0
  <2> QED
    BY <1>0, <1>3, <2>1, Mains, Nombres
<1>4. CASE p \in Interfaces
  <2>0. k <= 2
    BY <1>4, Largos
  <2>1. k \in {1, 2}
    BY <2>0
  <2> QED
    BY <1>0, <1>4, <2>1, Mains, Nombres
<1> QED
  BY <1>1, <1>2, <1>3, <1>4, Nombres
-----------------------------------------------------------------------------
(* Steps *)

LEMMA LargosNaturales == \A p \in Programas : Len(Main(p)) \in Nat /\ Len(Main(p)) >= 2
<1> SUFFICES ASSUME NEW p \in Programas PROVE Len(Main(p)) \in Nat /\ Len(Main(p)) >= 2
  OBVIOUS
<1>1. Len(Main(p)) \in {2, 5, 6, 8}
  BY Largos, Nombres
<1>2. ASSUME NEW n \in {2, 5, 6, 8} PROVE n \in Nat /\ n >= 2
  OBVIOUS
<1> QED
  BY <1>1, <1>2, Zenon

\* A program goes past one of its operations, or past its start.
LEMMA PasoPc ==
  ASSUME Tipos, NEW p \in Programas, pc[p] <= Len(Main(p)), pc' = [pc EXCEPT ![p] = pc[p] + 1]
  PROVE  /\ pc' \in [Programas -> Nat] /\ pc'[p] = pc[p] + 1
         /\ \A q \in Programas : /\ pc[q] \in Nat /\ pc'[q] \in Nat /\ pc'[q] >= pc[q]
                                 /\ q # p => pc'[q] = pc[q]
                                 /\ pc'[q] <= Len(Main(q)) + 1
  BY LargosNaturales DEF Tipos

\* What going past an operation says.
LEMMA PasoOp ==
  ASSUME Tipos, NEW p \in Programas, NEW op, NEW puerto \in Puertos, Paso(p, op, puerto)
  PROVE  /\ pc' \in [Programas -> Nat] /\ pc'[p] = pc[p] + 1 /\ enOrden' = enOrden
         /\ \A q \in Programas : /\ pc[q] \in Nat /\ pc'[q] \in Nat /\ pc'[q] >= pc[q]
                                 /\ q # p => pc'[q] = pc[q]
                                 /\ pc'[q] <= Len(Main(q)) + 1
         /\ pc[p] \in Nat /\ pc[p] >= 1 /\ pc[p] <= Len(Main(p)) /\ Main(p)[pc[p]] = Op(op, puerto)
<1>1. pc[p] \in 1..Len(Main(p)) /\ Main(p)[pc[p]] = Op(op, puerto) /\ enOrden' = enOrden
      /\ pc' = [pc EXCEPT ![p] = pc[p] + 1]
  BY DEF Paso
<1>2. pc[p] \in Nat /\ pc[p] >= 1 /\ pc[p] <= Len(Main(p))
  BY <1>1, LargosNaturales
<1> QED
  BY <1>1, <1>2, PasoPc

\* The connections to memoria: one more, or one that changes hands.
LEMMA Concatenar ==
  ASSUME NEW S, NEW a \in Seq(S), NEW c \in Seq(S)
  PROVE  /\ a \o c \in Seq(S) /\ Len(a \o c) = Len(a) + Len(c)
         /\ \A i \in 1..Len(a) : (a \o c)[i] = a[i]
         /\ c # <<>> => Append(a, Head(c)) \o Tail(c) = a \o c
<1>0. Len(a) \in Nat /\ Len(c) \in Nat
  OBVIOUS
<1>1. /\ a \o c \in Seq(S) /\ Len(a \o c) = Len(a) + Len(c)
      /\ \A i \in 1..(Len(a) + Len(c)) : (a \o c)[i] = IF i <= Len(a) THEN a[i] ELSE c[i - Len(a)]
  BY ConcatProperties
<1>2. \A i \in 1..Len(a) : i \in 1..(Len(a) + Len(c)) /\ i <= Len(a)
  BY <1>0
<1>3. \A i \in 1..Len(a) : (a \o c)[i] = a[i]
  BY <1>1, <1>2
<1>4. ASSUME c # <<>> PROVE Append(a, Head(c)) \o Tail(c) = a \o c
  BY <1>4
<1> QED
  BY <1>1, <1>3, <1>4

LEMMA UnaMas ==
  ASSUME NEW S, NEW a \in Seq(S), NEW c \in Seq(S), NEW x \in S
  PROVE  a \o Append(c, x) = Append(a \o c, x)
  OBVIOUS

LEMMA TipoConexiones ==
  ASSUME Tipos
  PROVE  /\ "memoria" \in Puertos /\ "dispatch" \in Puertos /\ "interrupt" \in Puertos
         /\ \A q \in Puertos : cola[q] \in Seq(Clientes \union {NADIE})
                               /\ aceptados[q] \in Seq(Clientes \union {NADIE})
         /\ Conexiones \in Seq(Clientes \union {NADIE})
         /\ Len(Conexiones) = Len(aceptados["memoria"]) + Len(cola["memoria"])
         /\ \A i \in 1..Len(aceptados["memoria"]) : Conexiones[i] = aceptados["memoria"][i]
         /\ Len(aceptados["memoria"]) \in Nat /\ Len(cola["memoria"]) \in Nat
<1>1. "memoria" \in Puertos /\ "dispatch" \in Puertos /\ "interrupt" \in Puertos
  BY DEF Puertos
<1>2. ASSUME NEW q \in Puertos
      PROVE  cola[q] \in Seq(Clientes \union {NADIE})
             /\ aceptados[q] \in Seq(Clientes \union {NADIE})
  BY SeqMonotonic DEF Tipos
<1>3. /\ Conexiones \in Seq(Clientes \union {NADIE})
      /\ Len(Conexiones) = Len(aceptados["memoria"]) + Len(cola["memoria"])
      /\ \A i \in 1..Len(aceptados["memoria"]) : Conexiones[i] = aceptados["memoria"][i]
  <2> DEFINE S == Clientes \union {NADIE}
  <2>1. cola["memoria"] \in Seq(S) /\ aceptados["memoria"] \in Seq(S)
    BY <1>1, <1>2
  <2> HIDE DEF S
  <2>2. /\ Conexiones \in Seq(S)
        /\ Len(Conexiones) = Len(aceptados["memoria"]) + Len(cola["memoria"])
        /\ \A i \in 1..Len(aceptados["memoria"]) : Conexiones[i] = aceptados["memoria"][i]
    <3> DEFINE a == aceptados["memoria"]
               c == cola["memoria"]
    <3>1. Conexiones = a \o c
      BY DEF Conexiones
    <3>2. a \in Seq(S) /\ c \in Seq(S)
      BY <2>1
    <3> HIDE DEF a, c
    <3>3. a \o c \in Seq(S) /\ Len(a \o c) = Len(a) + Len(c)
          /\ \A i \in 1..Len(a) : (a \o c)[i] = a[i]
      BY <3>2, Concatenar
    <3> QED
      BY <3>1, <3>3 DEF a, c
  <2> QED
    BY <2>2 DEF S
<1>4. Len(aceptados["memoria"]) \in Nat /\ Len(cola["memoria"]) \in Nat
  BY <1>1, <1>2, LenProperties
<1> QED
  BY <1>1, <1>2, <1>3, <1>4

-----------------------------------------------------------------------------
(* The invariant *)

LEMMA Inicial == Init => AInv
<1> SUFFICES ASSUME Init PROVE AInv
  OBVIOUS
<1>1. Tipos
  BY LargosNaturales DEF Init, Tipos
<1>2. \A p \in Programas : pc[p] = 0
  BY DEF Init
<1>3. pc["memoria"] = 0 /\ pc["cpu"] = 0 /\ pc["kernel"] = 0 /\ \A p \in Clientes : pc[p] = 0
  BY <1>2, Nombres
<1>4. aceptados["memoria"] = <<>> /\ aceptados["dispatch"] = <<>> /\ aceptados["interrupt"] = <<>>
      /\ cola["memoria"] = <<>>
  BY TipoConexiones, <1>1 DEF Init
<1>5. saludados = {} /\ escucha = {}
  BY DEF Init
<1>6. Sockets
  BY <1>3, <1>4 DEF Sockets
<1>7. Respuestas /\ Saludos /\ Escuchas
  BY <1>3, <1>4, <1>5 DEF Respuestas, Saludos, Escuchas
<1>m. Muertes
  BY DEF Init, Muertes
<1>8. Orden
  BY <1>2, <1>3, <1>5, Nombres DEF Orden
<1> QED
  BY <1>1, <1>6, <1>7, <1>8, <1>m DEF AInv

-----------------------------------------------------------------------------
(* What one step does to the places the invariant tells apart.             *)

\* Only the program that steps goes past a place, and it goes past the next one.
LEMMA Cruza ==
  ASSUME NEW p \in Programas, pc'[p] = pc[p] + 1,
         \A q \in Programas : /\ pc[q] \in Nat /\ pc'[q] \in Nat /\ pc'[q] >= pc[q]
                              /\ q # p => pc'[q] = pc[q]
  PROVE  \A q \in Programas : \A k \in Nat :
           /\ pc[q] >= k => pc'[q] >= k
           /\ pc'[q] >= k => pc[q] >= k \/ (q = p /\ pc[p] + 1 = k)
<1>1. \A a, c, k \in Nat : /\ c >= a => (a >= k => c >= k)
                           /\ c = a + 1 => (c >= k => a >= k \/ a + 1 = k)
  OBVIOUS
<1> TAKE q \in Programas
<1> TAKE k \in Nat
<1>2. pc[q] \in Nat /\ pc'[q] \in Nat /\ pc'[q] >= pc[q]
  OBVIOUS
<1>3. pc[q] >= k => pc'[q] >= k
  BY <1>1, <1>2
<1>4. CASE q = p
  BY <1>1, <1>2, <1>3, <1>4
<1>5. CASE q # p
  BY <1>3, <1>5
<1> QED
  BY <1>4, <1>5

\* Nobody goes past an accept(2): the servers keep their sockets.
LEMMA MismosSockets ==
  ASSUME Tipos, Tipos', Sockets, aceptados' = aceptados,
         pc'["memoria"] >= 3 <=> pc["memoria"] >= 3,
         pc'["memoria"] >= 5 <=> pc["memoria"] >= 5,
         pc'["cpu"] >= 6 <=> pc["cpu"] >= 6,
         pc'["cpu"] >= 8 <=> pc["cpu"] >= 8
  PROVE  Sockets'
<1>1. \A k \in Nat : /\ k <= 2 <=> ~(k >= 3)
                     /\ k <= 4 <=> ~(k >= 5)
                     /\ k <= 5 <=> ~(k >= 6)
                     /\ k <= 7 <=> ~(k >= 8)
  OBVIOUS
<1>2. /\ pc["memoria"] \in Nat /\ pc'["memoria"] \in Nat
      /\ pc["cpu"] \in Nat /\ pc'["cpu"] \in Nat
  BY Nombres DEF Tipos
<1>3. /\ pc'["memoria"] <= 2 <=> pc["memoria"] <= 2
      /\ pc'["memoria"] <= 4 <=> pc["memoria"] <= 4
      /\ pc'["cpu"] <= 5 <=> pc["cpu"] <= 5
      /\ pc'["cpu"] <= 7 <=> pc["cpu"] <= 7
  BY <1>1, <1>2
<1> QED
  BY <1>3 DEF Sockets

\* Who goes past a handshake was answered, and answers stay.
LEMMA MismosSaludos ==
  ASSUME Saludos, saludados \subseteq saludados', muertos \subseteq muertos',
         \A q \in Clientes :
            pc'[q] >= 3 => \/ pc[q] >= 3 \/ <<q, "memoria">> \in saludados'
                           \/ "memoria" \in muertos,
         pc'["kernel"] >= 5 => pc["kernel"] >= 5 \/ <<"kernel", "dispatch">> \in saludados',
         pc'["kernel"] >= 7 => pc["kernel"] >= 7 \/ <<"kernel", "interrupt">> \in saludados'
  PROVE  Saludos'
  BY DEF Saludos

\* Nobody starts listening, and no connection is made or waits where nobody does.
LEMMA MismasEscuchas ==
  ASSUME Escuchas, escucha' = escucha,
         cola'["memoria"] # <<>> => "memoria" \in escucha,
         \A q \in escucha : aceptados'[q] \in Seq(Clientes),
         pc'["kernel"] >= 2 => pc["kernel"] >= 2 \/ "memoria" \in escucha,
         pc'["kernel"] >= 4 => pc["kernel"] >= 4 \/ "dispatch" \in escucha,
         pc'["kernel"] >= 6 => pc["kernel"] >= 6 \/ "interrupt" \in escucha,
         \A q \in Programas : /\ pc[q] \in Nat /\ pc'[q] \in Nat /\ pc'[q] >= pc[q]
  PROVE  Escuchas'
<1>1. \A a, c \in Nat : c >= a => /\ a >= 2 => c >= 2
                                  /\ a >= 4 => c >= 4
                                  /\ a >= 5 => c >= 5
  OBVIOUS
<1>2. /\ pc["memoria"] >= 2 => pc'["memoria"] >= 2
      /\ pc["cpu"] >= 4 => pc'["cpu"] >= 4
      /\ pc["cpu"] >= 5 => pc'["cpu"] >= 5
  BY <1>1, Nombres
<1> QED
  BY <1>2 DEF Escuchas

\* A step of a program that lives leaves the dead where they were and as they were.
LEMMA MismasMuertes ==
  ASSUME Muertes, NEW p \in Programas, p \notin muertos, muertos' = muertos,
         \A q \in Programas : q # p => pc'[q] = pc[q],
         p # "memoria" => /\ aceptados'["memoria"] = aceptados["memoria"]
                          /\ "memoria" \in escucha' => "memoria" \in escucha,
         p # "cpu" => ("dispatch" \in escucha' => "dispatch" \in escucha)
  PROVE  Muertes'
<1>0. "memoria" \in Programas /\ "cpu" \in Programas /\ "kernel" \in Programas
  BY Nombres
<1>1. ASSUME "memoria" \in muertos
      PROVE  /\ pc'["memoria"] = 6
             /\ LugarUsurpado' \/ "memoria" \notin escucha' \/ "cpu" \in muertos
                \/ "kernel" \in muertos
  <2>1. /\ pc'["memoria"] = pc["memoria"] /\ aceptados'["memoria"] = aceptados["memoria"]
        /\ "memoria" \in escucha' => "memoria" \in escucha
    BY <1>0, <1>1
  <2> QED
    BY <1>1, <2>1 DEF Muertes, LugarUsurpado
<1>2. ASSUME "cpu" \in muertos
      PROVE  \/ pc'["cpu"] = 1
             \/ pc'["cpu"] = 9 /\ ("dispatch" \notin escucha' \/ "kernel" \in muertos)
  <2>1. pc'["cpu"] = pc["cpu"] /\ ("dispatch" \in escucha' => "dispatch" \in escucha)
    BY <1>0, <1>2
  <2> QED
    BY <1>2, <2>1 DEF Muertes
<1>3. "kernel" \in muertos => pc'["kernel"] \in {1, 3, 5}
  BY <1>0 DEF Muertes
<1> QED
  BY <1>1, <1>2, <1>3 DEF Muertes

\* Nothing changes but who has died.
LEMMA Igual ==
  ASSUME AInv, UNCHANGED <<enOrden, pc, escucha, cola, aceptados, saludados>>,
         muertos' \subseteq Programas, muertos \subseteq muertos', Muertes'
  PROVE  AInv'
<1>1. /\ enOrden' = enOrden /\ pc' = pc /\ escucha' = escucha /\ cola' = cola
      /\ aceptados' = aceptados /\ saludados' = saludados
  OBVIOUS
<1>2. Tipos'
  BY <1>1 DEF AInv, Tipos
<1>3. Sockets'
  BY <1>1 DEF AInv, Sockets
<1>4. Respuestas'
  BY <1>1 DEF AInv, Respuestas
<1>5. Saludos'
  BY <1>1 DEF AInv, Saludos
<1>6. Escuchas'
  BY <1>1 DEF AInv, Escuchas
<1>7. Conexiones' = Conexiones
  BY <1>1 DEF Conexiones
<1>8. Orden'
  BY <1>1, <1>7 DEF AInv, Orden
<1> QED
  BY <1>2, <1>3, <1>4, <1>5, <1>6, <1>8 DEF AInv

\* A step of Paso is of a program that lives.
LEMMA PasoVivo ==
  ASSUME NEW p, NEW op, NEW puerto, Paso(p, op, puerto)
  PROVE  p \notin muertos
  BY DEF Paso

\* Where memoria and the CPU are when they say that they are ready.
LEMMA TrasEscuchar ==
  ASSUME \A p \in Programas : pc[p] \in Nat
  PROVE  /\ YaEscucha("memoria") => pc["memoria"] >= 2
         /\ YaEscucha("cpu") => pc["cpu"] >= 5
<1>1. /\ 1 \in 1..Len(Main("memoria")) /\ Main("memoria")[1].op = "escuchar"
      /\ 4 \in 1..Len(Main("cpu")) /\ Main("cpu")[4].op = "escuchar"
  BY Mains DEF Op
<1>2. (YaEscucha("memoria") => 1 < pc["memoria"]) /\ (YaEscucha("cpu") => 4 < pc["cpu"])
  BY <1>1 DEF YaEscucha
<1> QED
  BY <1>2, Nombres

LEMMA ConservaArrancar ==
  ASSUME AInv, NEW p \in Programas, Arrancar(p)
  PROVE  AInv'
<1> USE DEF AInv
<1>1. pc[p] = 0 /\ (enOrden => Anunciado(p)) /\ pc' = [pc EXCEPT ![p] = pc[p] + 1]
  BY DEF Arrancar
<1>2. UNCHANGED <<enOrden, muertos, escucha, cola, aceptados, saludados>>
  BY DEF Arrancar
<1>3. /\ pc' \in [Programas -> Nat] /\ pc'[p] = 1
      /\ \A q \in Programas : /\ pc[q] \in Nat /\ pc'[q] \in Nat /\ pc'[q] >= pc[q]
                              /\ q # p => pc'[q] = pc[q]
                              /\ pc'[q] <= Len(Main(q)) + 1
  <2>1. pc[p] <= Len(Main(p))
    BY <1>1, LargosNaturales
  <2>2. pc[p] + 1 = 1
    BY <1>1
  <2> QED
    BY <1>1, <2>1, <2>2, PasoPc
<1>4. \A q \in Programas : pc'[q] >= 2 => pc'[q] = pc[q]
  BY <1>1, <1>3
<1>5. Tipos'
  BY <1>2, <1>3 DEF Tipos
<1>6. Sockets'
  BY <1>1, <1>2, <1>3, Nombres DEF Sockets
<1>7. Respuestas'
  <2>1. /\ pc["memoria"] \in Nat /\ pc'["memoria"] \in Nat /\ pc'["memoria"] >= pc["memoria"]
        /\ pc["cpu"] \in Nat /\ pc'["cpu"] \in Nat /\ pc'["cpu"] >= pc["cpu"]
    BY <1>3, Nombres
  <2>2. /\ pc["memoria"] >= 4 => pc'["memoria"] >= 4
        /\ pc["memoria"] >= 6 => pc'["memoria"] >= 6
        /\ pc["cpu"] >= 7 => pc'["cpu"] >= 7 /\ (pc["cpu"] >= 9 => pc'["cpu"] >= 9)
    BY <2>1
  <2>3. pc["cpu"] >= 9 => pc'["cpu"] >= 9
    BY <2>1
  <2> QED
    BY <1>2, <2>2, <2>3 DEF Respuestas
<1>8. Saludos'
  <2>1. \A q \in Programas : \A k \in {3, 5, 7} : pc'[q] >= k => pc[q] >= k
    <3>1. \A n \in Nat : \A k \in {3, 5, 7} : n >= k => n >= 2
      OBVIOUS
    <3> QED
      BY <1>3, <1>4, <3>1
  <2> QED
    BY <1>2, <2>1, Nombres, MismosSaludos
<1>9. Escuchas'
  <2>1. ASSUME NEW k \in {2, 4, 6}, pc'["kernel"] >= k PROVE pc["kernel"] >= k
    <3>1. \A n \in Nat : \A m \in {2, 4, 6} : n >= m => n >= 2
      OBVIOUS
    <3> QED
      BY <1>3, <1>4, <2>1, <3>1, Nombres
  <2>2. cola'["memoria"] # <<>> => "memoria" \in escucha
    BY <1>2 DEF Escuchas
  <2>3. \A q \in escucha : aceptados'[q] \in Seq(Clientes)
    BY <1>2 DEF Escuchas
  <2> QED
    BY <1>2, <1>3, <2>1, <2>2, <2>3, MismasEscuchas
<1>m. Muertes'
  <2>1. CASE p \in muertos
    <3>1. p # "memoria" /\ p # "cpu" /\ p # "kernel"
      BY <1>1, <2>1 DEF Muertes
    <3>2. pc'["memoria"] = pc["memoria"] /\ pc'["cpu"] = pc["cpu"] /\ pc'["kernel"] = pc["kernel"]
      BY <1>3, <3>1, Nombres
    <3> QED
      BY <1>2, <3>2 DEF Muertes, LugarUsurpado
  <2>2. CASE p \notin muertos
    BY <1>2, <1>3, <2>2, MismasMuertes
  <2> QED
    BY <2>1, <2>2
<1>10. Orden'
  <2> SUFFICES ASSUME enOrden PROVE Orden'
    BY <1>2 DEF Orden
  <2>a. pc["memoria"] >= 2 => pc'["memoria"] >= 2
    BY <1>3, Nombres
  <2>b. pc["cpu"] >= 5 => pc'["cpu"] >= 5
    BY <1>3, Nombres
  <2>1. pc'["cpu"] > 0 => pc'["memoria"] >= 2
    BY <1>1, <1>3, <2>a, TrasEscuchar, Nombres DEF Orden, Anunciado
  <2>2. pc'["kernel"] > 0 => pc'["cpu"] >= 5
    BY <1>1, <1>3, <2>b, TrasEscuchar, Nombres DEF Orden, Anunciado
  <2>3. ASSUME NEW i \in Interfaces, pc'[i] > 0 PROVE pc'["memoria"] >= 6
    <3>1. pc["memoria"] >= 6
      <4>1. CASE i = p
        <5>1. Terminado("memoria")
          BY <1>1, <4>1, Nombres DEF Anunciado
        <5> QED
          <6>1. pc["memoria"] = 5 + 1
            BY <5>1, Largos DEF Terminado
          <6> QED
            BY <6>1
      <4>2. CASE i # p
        BY <1>3, <2>3, <4>2, Nombres DEF Orden
      <4> QED
        BY <4>1, <4>2
    <3> QED
      BY <1>3, <3>1, Nombres
  <2>4. Conexiones' = Conexiones
    BY <1>2 DEF Conexiones
  <2> QED
    BY <1>2, <1>3, <2>1, <2>2, <2>3, <2>4, Nombres DEF Orden
<1> QED
  BY <1>5, <1>6, <1>7, <1>8, <1>9, <1>10, <1>m

\* Programs that were started go on, and no other starts.
Sigue ==
  \A q \in Programas : /\ pc[q] \in Nat /\ pc'[q] \in Nat /\ pc'[q] >= pc[q]
                       /\ pc'[q] > 0 => pc[q] > 0

LEMMA PasoSigue ==
  ASSUME Tipos, NEW p \in Programas, NEW op, NEW puerto \in Puertos, Paso(p, op, puerto)
  PROVE  Sigue
<1>1. /\ \A q \in Programas : /\ pc[q] \in Nat /\ pc'[q] \in Nat /\ pc'[q] >= pc[q]
                              /\ q # p => pc'[q] = pc[q]
      /\ pc[p] >= 1
  BY PasoOp
<1> QED
  BY <1>1 DEF Sigue

\* Answers given stay given.
LEMMA ConservaRespuestas ==
  ASSUME Tipos, Sockets, Respuestas, Sigue, saludados' = saludados,
         \A q \in Puertos : \A i \in 1..Len(aceptados[q]) : aceptados'[q][i] = aceptados[q][i]
  PROVE  Respuestas'
<1>1. /\ pc["memoria"] \in Nat /\ pc'["memoria"] \in Nat /\ pc'["memoria"] >= pc["memoria"]
      /\ pc["cpu"] \in Nat /\ pc'["cpu"] \in Nat /\ pc'["cpu"] >= pc["cpu"]
  BY Nombres DEF Sigue
<1>2. /\ pc["memoria"] >= 4 => pc'["memoria"] >= 4 /\ 1 \in 1..Len(aceptados["memoria"])
      /\ pc["memoria"] >= 6 => pc'["memoria"] >= 6 /\ 2 \in 1..Len(aceptados["memoria"])
      /\ pc["cpu"] >= 7 => pc'["cpu"] >= 7 /\ 1 \in 1..Len(aceptados["dispatch"])
      /\ pc["cpu"] >= 9 => pc'["cpu"] >= 9 /\ 1 \in 1..Len(aceptados["interrupt"])
  BY <1>1 DEF Sockets
<1>3. /\ pc["memoria"] >= 4 => aceptados'["memoria"][1] = aceptados["memoria"][1]
      /\ pc["memoria"] >= 6 => aceptados'["memoria"][2] = aceptados["memoria"][2]
      /\ pc["cpu"] >= 7 => aceptados'["dispatch"][1] = aceptados["dispatch"][1]
      /\ pc["cpu"] >= 9 => aceptados'["interrupt"][1] = aceptados["interrupt"][1]
  BY <1>2, TipoConexiones
<1> QED
  BY <1>2, <1>3 DEF Respuestas

\* A step that makes no connection to memoria keeps the order.
LEMMA ConservaOrden ==
  ASSUME Orden, Sigue, enOrden' = enOrden,
         enOrden /\ "memoria" \in escucha' =>
           \/ "memoria" \in escucha /\ Conexiones' = Conexiones
           \/ Len(Conexiones') = 0
  PROVE  Orden'
<1> SUFFICES ASSUME enOrden PROVE Orden'
  BY DEF Orden
<1>1. \A q \in Programas : (pc'[q] > 0 => pc[q] > 0) /\ (pc[q] >= 2 => pc'[q] >= 2)
                           /\ (pc[q] >= 5 => pc'[q] >= 5) /\ (pc[q] >= 6 => pc'[q] >= 6)
  BY DEF Sigue
<1>2. (pc'["cpu"] > 0 => pc'["memoria"] >= 2) /\ (pc'["kernel"] > 0 => pc'["cpu"] >= 5)
  BY <1>1, Nombres DEF Orden
<1>3. \A i \in Interfaces : pc'[i] > 0 => pc'["memoria"] >= 6
  BY <1>1, Nombres DEF Orden
<1>4. ASSUME "memoria" \in escucha'
      PROVE  /\ Len(Conexiones') >= 1 => Conexiones'[1] = "cpu" /\ pc'["cpu"] >= 2
             /\ Len(Conexiones') >= 2 => Conexiones'[2] = "kernel" /\ pc'["kernel"] >= 2
  BY <1>1, <1>4, Nombres DEF Orden
<1> QED
  BY <1>2, <1>3, <1>4 DEF Orden

LEMMA ConservaEscuchar ==
  ASSUME AInv, NEW p \in Programas, NEW puerto \in Puertos, Escuchar(p, puerto)
  PROVE  AInv'
<1> USE DEF AInv
<1>1. /\ Paso(p, "escuchar", puerto) /\ escucha \subseteq escucha'
      /\ escucha' \subseteq escucha \union {puerto} /\ escucha' \subseteq Puertos
      /\ UNCHANGED <<muertos, cola, aceptados, saludados>>
  BY DEF Escuchar, Tipos
<1>2. /\ pc' \in [Programas -> Nat] /\ pc'[p] = pc[p] + 1 /\ enOrden' = enOrden
      /\ \A q \in Programas : /\ pc[q] \in Nat /\ pc'[q] \in Nat /\ pc'[q] >= pc[q]
                              /\ q # p => pc'[q] = pc[q]
                              /\ pc'[q] <= Len(Main(q)) + 1
  BY <1>1, PasoOp
<1>3. \/ p = "memoria" /\ puerto = "memoria" /\ pc[p] = 1
      \/ p = "cpu" /\ puerto = "dispatch" /\ pc[p] = 3
      \/ p = "cpu" /\ puerto = "interrupt" /\ pc[p] = 4
  BY <1>1, PasoOp, Lugar
<1>c. \A q \in Programas : \A k \in Nat :
        /\ pc[q] >= k => pc'[q] >= k
        /\ pc'[q] >= k => pc[q] >= k \/ (q = p /\ pc[p] + 1 = k)
  BY <1>2, Cruza
<1>4. Sigue
  BY <1>1, PasoSigue
<1>5. Tipos'
  BY <1>1, <1>2 DEF Tipos
<1>6. Sockets'
  <2>1. aceptados' = aceptados /\ Sockets
    BY <1>1
  <2>2. "memoria" \in Programas /\ "cpu" \in Programas
    BY Nombres
  <2>3. CASE p = "memoria" /\ pc["memoria"] = 1
    <3>1. pc'["memoria"] = 2 /\ pc'["cpu"] = pc["cpu"]
      BY <1>2, <2>2, <2>3
    <3> QED
      BY <2>1, <2>3, <3>1 DEF Sockets
  <2>4. CASE p = "cpu" /\ pc["cpu"] \in {3, 4}
    <3>1. pc'["memoria"] = pc["memoria"] /\ pc'["cpu"] \in {4, 5}
      BY <1>2, <2>2, <2>4
    <3> QED
      BY <2>1, <2>4, <3>1 DEF Sockets
  <2> QED
    BY <1>3, <2>3, <2>4
<1>7. Respuestas'
  BY <1>1, <1>4, ConservaRespuestas
<1>8. Saludos'
  <2>1. ASSUME NEW q \in Clientes, pc'[q] >= 3 PROVE pc[q] >= 3
    <3>1. pc[q] >= 3 \/ (q = p /\ pc[p] + 1 = 3)
      BY <1>c, <2>1, Nombres
    <3>2. ~(q = p /\ pc[p] + 1 = 3)
      BY <1>3, <2>1, Nombres DEF Clientes
    <3> QED
      BY <3>1, <3>2
  <2>2. ASSUME NEW k \in {5, 7}, pc'["kernel"] >= k PROVE pc["kernel"] >= k
    <3>1. pc["kernel"] >= k \/ ("kernel" = p /\ pc[p] + 1 = k)
      BY <1>c, <2>2, Nombres
    <3>2. ~("kernel" = p /\ pc[p] + 1 = k)
      BY <1>3
    <3> QED
      BY <3>1, <3>2
  <2> QED
    BY <1>1, <2>1, <2>2, MismosSaludos
<1>9. Escuchas'
  <2>1. /\ pc["memoria"] >= 2 => pc'["memoria"] >= 2
        /\ pc["cpu"] >= 4 => pc'["cpu"] >= 4
        /\ pc["cpu"] >= 5 => pc'["cpu"] >= 5
    BY <1>c, Nombres
  <2>2. /\ puerto = "memoria" => pc'["memoria"] >= 2
        /\ puerto = "dispatch" => pc'["cpu"] >= 4
        /\ puerto = "interrupt" => pc'["cpu"] >= 5
    BY <1>2, <1>3
  <2>3. \A q \in escucha' : q \in escucha \/ q = puerto
    BY <1>1
  <2>4. cola'["memoria"] # <<>> => "memoria" \in escucha'
    BY <1>1 DEF Escuchas
  <2>5. pc'["kernel"] = pc["kernel"]
    BY <1>2, <1>3, Nombres
  <2>6. ASSUME NEW q \in escucha' PROVE aceptados'[q] \in Seq(Clientes)
    <3>1. CASE q = puerto
      <4>1. Len(aceptados[puerto]) = 0
        BY <1>2, <1>3 DEF Sockets
      <4>2. aceptados[puerto] = <<>>
        BY <4>1 DEF Tipos
      <4> QED
        BY <1>1, <3>1, <4>2
    <3>2. CASE q # puerto
      BY <1>1, <2>3, <3>2 DEF Escuchas
    <3> QED
      BY <3>1, <3>2
  <2>7. /\ pc'["kernel"] >= 2 => "memoria" \in escucha'
        /\ pc'["kernel"] >= 4 => "dispatch" \in escucha'
        /\ pc'["kernel"] >= 6 => "interrupt" \in escucha'
    BY <1>1, <2>5 DEF Escuchas
  <2> QED
    BY <2>1, <2>2, <2>3, <2>4, <2>6, <2>7 DEF Escuchas
<1>m. Muertes'
  <2>1. /\ p # "memoria" => ("memoria" \in escucha' => "memoria" \in escucha)
        /\ p # "cpu" => ("dispatch" \in escucha' => "dispatch" \in escucha)
    BY <1>1, <1>3
  <2>2. p \notin muertos
    BY <1>1, PasoVivo
  <2> QED
    BY <1>1, <1>2, <2>1, <2>2, MismasMuertes
<1>10. Orden'
  <2>1. Conexiones' = Conexiones
    BY <1>1 DEF Conexiones
  <2>2. CASE "memoria" \in escucha
    BY <1>1, <1>2, <1>4, <2>1, <2>2, ConservaOrden
  <2>3. CASE "memoria" \notin escucha
    <3>1. CASE p = "memoria"
      <4>1. Len(aceptados["memoria"]) = 0 /\ cola["memoria"] = <<>>
        BY <1>3, <2>3, <3>1 DEF Sockets, Escuchas
      <4>2. Len(Conexiones') = 0
        BY <2>1, <4>1, TipoConexiones
      <4> QED
        BY <1>1, <1>2, <1>4, <4>2, ConservaOrden
    <3>2. CASE p # "memoria"
      BY <1>1, <1>2, <1>3, <1>4, <2>3, <3>2, ConservaOrden
    <3> QED
      BY <3>1, <3>2
  <2> QED
    BY <2>2, <2>3
<1> QED
  BY <1>5, <1>6, <1>7, <1>8, <1>9, <1>10, <1>m

\* Who dies: a client that is refused, memoria or the CPU.
LEMMA ConservaSinServidor ==
  ASSUME AInv, NEW p \in Programas, NEW puerto \in Puertos, ConectarSinServidor(p, puerto)
  PROVE  AInv'
<1>1. UNCHANGED <<enOrden, pc, escucha, cola, aceptados, saludados>>
      /\ muertos' = muertos \union {p}
  BY DEF ConectarSinServidor
<1>2. /\ pc[p] \in 1..Len(Main(p)) /\ Main(p)[pc[p]] = Op("conectar", puerto)
  BY DEF ConectarSinServidor
<1>3. pc[p] \in Nat /\ pc[p] >= 1 /\ pc[p] <= Len(Main(p))
  BY <1>2, LargosNaturales
<1>4. \/ p \in Clientes /\ pc[p] = 1
      \/ p = "kernel" /\ pc[p] \in {3, 5}
  BY <1>2, <1>3, Lugar
<1>5. p # "memoria" /\ (p = "cpu" => pc["cpu"] = 1) /\ (p = "kernel" => pc["kernel"] \in {1, 3, 5})
  BY <1>4 DEF Clientes
<1>6. Muertes'
  BY <1>1, <1>5 DEF AInv, Muertes, LugarUsurpado
<1> QED
  BY <1>1, <1>6, Igual DEF AInv, Tipos

LEMMA ConservaMemoriaCae ==
  ASSUME AInv, MemoriaCae
  PROVE  AInv'
<1> USE DEF AInv
<1>1. /\ UNCHANGED <<enOrden, pc, escucha, cola, aceptados, saludados>>
      /\ muertos' = muertos \union {"memoria"} /\ Terminado("memoria")
  BY DEF MemoriaCae
<1>2. PICK i \in 1..Len(aceptados["memoria"]) :
         \/ aceptados["memoria"][i] = NADIE \/ aceptados["memoria"][i] \in muertos
         \/ aceptados["memoria"][i] \in Interfaces
  BY DEF MemoriaCae
<1>3. pc["memoria"] = 6
  <2>1. pc["memoria"] = 5 + 1
    BY <1>1, Largos DEF Terminado
  <2> QED
    BY <2>1
<1>4. LugarUsurpado \/ "memoria" \notin escucha \/ "cpu" \in muertos \/ "kernel" \in muertos
  <2> SUFFICES ASSUME "memoria" \in escucha, ~LugarUsurpado
               PROVE  "cpu" \in muertos \/ "kernel" \in muertos
    OBVIOUS
  <2>1. aceptados["memoria"] \in Seq(Clientes)
    BY DEF Escuchas
  <2>2. aceptados["memoria"][i] \in Clientes
    BY <1>2, <2>1
  <2>3. aceptados["memoria"][i] \notin Interfaces
    BY <1>2 DEF LugarUsurpado
  <2>4. aceptados["memoria"][i] \in {"cpu", "kernel"} /\ aceptados["memoria"][i] # NADIE
    BY <2>2, <2>3, Nombres DEF Clientes
  <2> QED
    BY <1>2, <2>3, <2>4
<1>5. Muertes'
  BY <1>1, <1>3, <1>4 DEF Muertes, LugarUsurpado
<1> QED
  BY <1>1, <1>5, Igual, Nombres DEF Tipos

LEMMA ConservaCpuCae ==
  ASSUME AInv, CpuCae
  PROVE  AInv'
<1> USE DEF AInv
<1>1. /\ UNCHANGED <<enOrden, pc, escucha, cola, aceptados, saludados>>
      /\ muertos' = muertos \union {"cpu"} /\ Terminado("cpu")
      /\ aceptados["dispatch"] = <<NADIE>> \/ "kernel" \in muertos
  BY DEF CpuCae
<1>2. pc["cpu"] = 9
  <2>1. pc["cpu"] = 8 + 1
    BY <1>1, Largos DEF Terminado
  <2> QED
    BY <2>1
<1>3. aceptados["dispatch"] = <<NADIE>> => "dispatch" \notin escucha
  <2>1. <<NADIE>> \notin Seq(Clientes)
    <3> SUFFICES ASSUME <<NADIE>> \in Seq(Clientes) PROVE FALSE
      OBVIOUS
    <3> DEFINE s == <<NADIE>>
    <3>1. s \in Seq(Clientes) /\ Len(s) = 1 /\ s[1] = NADIE
      OBVIOUS
    <3> HIDE DEF s
    <3>2. s[1] \in Clientes
      BY <3>1
    <3> QED
      BY <3>1, <3>2, Nombres
  <2> QED
    BY <2>1 DEF Escuchas
<1>5. Muertes'
  BY <1>1, <1>2, <1>3 DEF Muertes, LugarUsurpado
<1> QED
  BY <1>1, <1>5, Igual, Nombres DEF Tipos

LEMMA ConservaEsperar ==
  ASSUME AInv, NEW p \in Programas, NEW puerto \in Puertos, EsperarSaludo(p, puerto)
  PROVE  AInv'
<1> USE DEF AInv
<1>1. /\ Paso(p, "esperar", puerto)
      /\ <<p, puerto>> \in saludados \/ Dueno(puerto) \in muertos
      /\ UNCHANGED <<muertos, escucha, cola, aceptados, saludados>>
  BY DEF EsperarSaludo
<1>2. /\ pc' \in [Programas -> Nat] /\ pc'[p] = pc[p] + 1 /\ enOrden' = enOrden
      /\ \A q \in Programas : /\ pc[q] \in Nat /\ pc'[q] \in Nat /\ pc'[q] >= pc[q]
                              /\ q # p => pc'[q] = pc[q]
                              /\ pc'[q] <= Len(Main(q)) + 1
  BY <1>1, PasoOp
<1>3. \/ p \in Clientes /\ puerto = "memoria" /\ pc[p] = 2
      \/ p = "kernel" /\ puerto = "dispatch" /\ pc[p] = 4
      \/ p = "kernel" /\ puerto = "interrupt" /\ pc[p] = 6
  BY <1>1, PasoOp, Lugar
<1>c. \A q \in Programas : \A k \in Nat :
        /\ pc[q] >= k => pc'[q] >= k
        /\ pc'[q] >= k => pc[q] >= k \/ (q = p /\ pc[p] + 1 = k)
  BY <1>2, Cruza
<1>4. Sigue
  BY <1>1, PasoSigue
<1>5. Tipos'
  BY <1>1, <1>2 DEF Tipos
<1>6. Sockets'
  <2>1. ASSUME NEW q \in {"memoria", "cpu"}, NEW k \in {3, 5, 6, 8},
               q = "memoria" => k \in {3, 5}, q = "cpu" => k \in {6, 8}
        PROVE  pc'[q] >= k <=> pc[q] >= k
    <3>1. q \in Programas /\ k \in Nat
      BY Nombres
    <3>2. ~(q = p /\ pc[p] + 1 = k)
      BY <1>3, <2>1, Nombres DEF Clientes
    <3> QED
      BY <1>c, <3>1, <3>2
  <2> QED
    BY <1>1, <1>5, <2>1, MismosSockets
<1>7. Respuestas'
  BY <1>1, <1>4, ConservaRespuestas
<1>8. Saludos'
  <2>d. puerto # "memoria" => <<p, puerto>> \in saludados
    <3> SUFFICES ASSUME puerto # "memoria" PROVE Dueno(puerto) \notin muertos
      BY <1>1
    <3>1. p = "kernel" /\ pc["kernel"] \in {4, 6} /\ "kernel" \notin muertos
      BY <1>1, <1>3, PasoVivo
    <3>2. "dispatch" \in escucha
      BY <3>1 DEF Escuchas
    <3>3. "cpu" \notin muertos
      BY <3>1, <3>2 DEF Muertes, Escuchas
    <3> QED
      BY <3>3 DEF Dueno
  <2>1. ASSUME NEW q \in Clientes, pc'[q] >= 3
        PROVE  <<q, "memoria">> \in saludados \/ "memoria" \in muertos
    <3>1. CASE q = p /\ puerto = "memoria"
      BY <1>1, <3>1 DEF Dueno
    <3>2. CASE q # p \/ puerto # "memoria"
      <4>1. pc[q] >= 3
        <5>1. pc[q] >= 3 \/ (q = p /\ pc[p] + 1 = 3)
          BY <1>c, <2>1, Nombres
        <5>2. ~(q = p /\ pc[p] + 1 = 3)
          BY <1>3, <3>2
        <5> QED
          BY <5>1, <5>2
      <4> QED
        BY <4>1 DEF Saludos
    <3> QED
      BY <3>1, <3>2
  <2>2. pc'["kernel"] >= 5 => <<"kernel", "dispatch">> \in saludados
    <3>1. pc'["kernel"] >= 5 => pc["kernel"] >= 5 \/ (p = "kernel" /\ puerto = "dispatch")
      <4>1. pc'["kernel"] >= 5 => pc["kernel"] >= 5 \/ ("kernel" = p /\ pc[p] + 1 = 5)
        BY <1>c, Nombres
      <4>2. "kernel" = p /\ pc[p] + 1 = 5 => puerto = "dispatch"
        BY <1>3
      <4> QED
        BY <4>1, <4>2
    <3> QED
      BY <2>d, <3>1 DEF Saludos
  <2>3. pc'["kernel"] >= 7 => <<"kernel", "interrupt">> \in saludados
    <3>1. pc'["kernel"] >= 7 => pc["kernel"] >= 7 \/ (p = "kernel" /\ puerto = "interrupt")
      <4>1. pc'["kernel"] >= 7 => pc["kernel"] >= 7 \/ ("kernel" = p /\ pc[p] + 1 = 7)
        BY <1>c, Nombres
      <4>2. "kernel" = p /\ pc[p] + 1 = 7 => puerto = "interrupt"
        BY <1>3
      <4> QED
        BY <4>1, <4>2
    <3> QED
      BY <2>d, <3>1 DEF Saludos
  <2> QED
    BY <1>1, <2>1, <2>2, <2>3 DEF Saludos
<1>9. Escuchas'
  <2>1. cola'["memoria"] # <<>> => "memoria" \in escucha
    BY <1>1 DEF Escuchas
  <2>2. \A q \in escucha : aceptados'[q] \in Seq(Clientes)
    BY <1>1 DEF Escuchas
  <2>3. ASSUME NEW k \in {2, 4, 6}, pc'["kernel"] >= k PROVE pc["kernel"] >= k
    <3>1. pc["kernel"] >= k \/ ("kernel" = p /\ pc[p] + 1 = k)
      BY <1>c, <2>3, Nombres
    <3>2. ~("kernel" = p /\ pc[p] + 1 = k)
      BY <1>3, Nombres
    <3> QED
      BY <3>1, <3>2
  <2> QED
    BY <1>1, <1>2, <2>1, <2>2, <2>3, MismasEscuchas
<1>m. Muertes'
  <2>1. p \notin muertos
    BY <1>1, PasoVivo
  <2> QED
    BY <1>1, <1>2, <2>1, MismasMuertes
<1>10. Orden'
  BY <1>1, <1>2, <1>4, ConservaOrden DEF Conexiones
<1> QED
  BY <1>5, <1>6, <1>7, <1>8, <1>9, <1>10, <1>m

LEMMA ConservaSaludar ==
  ASSUME AInv, NEW p \in Programas, NEW puerto \in Puertos, Saludar(p, puerto)
  PROVE  AInv'
<1> USE DEF AInv
<1> DEFINE cliente == aceptados[puerto][Len(aceptados[puerto])]
<1>1. /\ Paso(p, "saludar", puerto)
      /\ saludados' = saludados \union ({<<cliente, puerto>>} \ {<<NADIE, puerto>>})
      /\ UNCHANGED <<muertos, escucha, cola, aceptados>>
  BY DEF Saludar
<1>2. /\ pc' \in [Programas -> Nat] /\ pc'[p] = pc[p] + 1 /\ enOrden' = enOrden
      /\ \A q \in Programas : /\ pc[q] \in Nat /\ pc'[q] \in Nat /\ pc'[q] >= pc[q]
                              /\ q # p => pc'[q] = pc[q]
                              /\ pc'[q] <= Len(Main(q)) + 1
  BY <1>1, PasoOp
<1>3. \/ p = "memoria" /\ puerto = "memoria" /\ pc[p] \in {3, 5}
      \/ p = "cpu" /\ puerto = "dispatch" /\ pc[p] = 6
      \/ p = "cpu" /\ puerto = "interrupt" /\ pc[p] = 8
  BY <1>1, PasoOp, Lugar
<1>c. \A q \in Programas : \A k \in Nat :
        /\ pc[q] >= k => pc'[q] >= k
        /\ pc'[q] >= k => pc[q] >= k \/ (q = p /\ pc[p] + 1 = k)
  BY <1>2, Cruza
<1>4. Sigue
  BY <1>1, PasoSigue
<1>5. /\ p = "memoria" => \/ pc[p] = 3 /\ pc'["memoria"] = 4 /\ cliente = aceptados["memoria"][1]
                          \/ pc[p] = 5 /\ pc'["memoria"] = 6 /\ cliente = aceptados["memoria"][2]
      /\ puerto = "dispatch" => pc'["cpu"] = 7 /\ cliente = aceptados["dispatch"][1]
      /\ puerto = "interrupt" => pc'["cpu"] = 9 /\ cliente = aceptados["interrupt"][1]
  <2>1. CASE p = "memoria" /\ puerto = "memoria" /\ pc[p] \in {3, 5}
    <3>1. \/ pc["memoria"] = 3 /\ pc'["memoria"] = 4 /\ Len(aceptados["memoria"]) = 1
          \/ pc["memoria"] = 5 /\ pc'["memoria"] = 6 /\ Len(aceptados["memoria"]) = 2
      BY <1>2, <2>1 DEF Sockets
    <3> QED
      BY <2>1, <3>1
  <2>2. CASE p = "cpu" /\ puerto = "dispatch" /\ pc[p] = 6
    <3>1. pc'["cpu"] = 7 /\ Len(aceptados["dispatch"]) = 1
      BY <1>2, <2>2 DEF Sockets
    <3> QED
      BY <2>2, <3>1
  <2>3. CASE p = "cpu" /\ puerto = "interrupt" /\ pc[p] = 8
    <3>1. pc'["cpu"] = 9 /\ Len(aceptados["interrupt"]) = 1
      BY <1>2, <2>3 DEF Sockets
    <3> QED
      BY <2>3, <3>1
  <2> QED
    BY <1>3, <2>1, <2>2, <2>3
<1>6. Len(aceptados[puerto]) \in 1..Len(aceptados[puerto])
  BY <1>3, TipoConexiones DEF Sockets
<1>7. cliente \in Clientes \union {NADIE}
  BY <1>6, TipoConexiones, ElementOfSeq
<1>8. Tipos'
  <2>1. saludados' \subseteq Clientes \X Puertos
    BY <1>1, <1>7 DEF Tipos
  <2> QED
    BY <1>1, <1>2, <2>1 DEF Tipos
<1>9. Sockets'
  <2>1. aceptados' = aceptados
    BY <1>1
  <2>2. ASSUME NEW q \in {"memoria", "cpu"}, NEW k \in {3, 5, 6, 8},
               q = "memoria" => k \in {3, 5}, q = "cpu" => k \in {6, 8}
        PROVE  pc'[q] >= k <=> pc[q] >= k
    <3>1. q \in Programas /\ k \in Nat
      BY Nombres
    <3>2. ~(q = p /\ pc[p] + 1 = k)
      BY <1>3, <2>2
    <3> QED
      BY <1>c, <3>1, <3>2
  <2> QED
    BY <1>1, <1>8, <2>1, <2>2, MismosSockets
<1>10. Respuestas'
  <2>1. \A q \in Clientes, r \in Puertos :
          <<q, r>> \in saludados' => <<q, r>> \in saludados \/ (q = cliente /\ r = puerto)
    BY <1>1
  <2>2. /\ pc["memoria"] >= 4 => pc'["memoria"] >= 4
        /\ pc["memoria"] >= 6 => pc'["memoria"] >= 6
        /\ pc["cpu"] >= 7 => pc'["cpu"] >= 7
        /\ pc["cpu"] >= 9 => pc'["cpu"] >= 9
    BY <1>c, Nombres
  <2> HIDE DEF cliente
  <2>3. puerto = "memoria" => \/ pc'["memoria"] >= 4 /\ cliente = aceptados["memoria"][1]
                              \/ pc'["memoria"] >= 6 /\ cliente = aceptados["memoria"][2]
    BY <1>3, <1>5
  <2>4. /\ puerto = "dispatch" => pc'["cpu"] >= 7 /\ cliente = aceptados["dispatch"][1]
        /\ puerto = "interrupt" => pc'["cpu"] >= 9 /\ cliente = aceptados["interrupt"][1]
    BY <1>5
  <2>5. aceptados' = aceptados
    BY <1>1
  <2>6. ASSUME NEW q \in Clientes, <<q, "memoria">> \in saludados'
        PROVE  \/ pc'["memoria"] >= 4 /\ aceptados["memoria"][1] = q
               \/ pc'["memoria"] >= 6 /\ aceptados["memoria"][2] = q
    BY <2>1, <2>2, <2>3, <2>6, TipoConexiones DEF Respuestas
  <2>7. ASSUME NEW q \in Clientes, <<q, "dispatch">> \in saludados'
        PROVE  pc'["cpu"] >= 7 /\ aceptados["dispatch"][1] = q
    BY <2>1, <2>2, <2>4, <2>7, TipoConexiones DEF Respuestas
  <2>8. ASSUME NEW q \in Clientes, <<q, "interrupt">> \in saludados'
        PROVE  pc'["cpu"] >= 9 /\ aceptados["interrupt"][1] = q
    BY <2>1, <2>2, <2>4, <2>8, TipoConexiones DEF Respuestas
  <2> QED
    BY <2>5, <2>6, <2>7, <2>8 DEF Respuestas
<1>11. Saludos'
  <2>1. ASSUME NEW q \in Clientes, pc'[q] >= 3 PROVE pc[q] >= 3
    <3>1. pc[q] >= 3 \/ (q = p /\ pc[p] + 1 = 3)
      BY <1>c, <2>1, Nombres
    <3>2. ~(q = p /\ pc[p] + 1 = 3)
      BY <1>3, <2>1, Nombres DEF Clientes
    <3> QED
      BY <3>1, <3>2
  <2>2. ASSUME NEW k \in {5, 7}, pc'["kernel"] >= k PROVE pc["kernel"] >= k
    <3>1. pc["kernel"] >= k \/ ("kernel" = p /\ pc[p] + 1 = k)
      BY <1>c, <2>2, Nombres
    <3>2. ~("kernel" = p /\ pc[p] + 1 = k)
      BY <1>3
    <3> QED
      BY <3>1, <3>2
  <2> QED
    BY <1>1, <2>1, <2>2, MismosSaludos
<1>12. Escuchas'
  <2>1. cola'["memoria"] # <<>> => "memoria" \in escucha
    BY <1>1 DEF Escuchas
  <2>2. \A q \in escucha : aceptados'[q] \in Seq(Clientes)
    BY <1>1 DEF Escuchas
  <2>3. ASSUME NEW k \in {2, 4, 6}, pc'["kernel"] >= k PROVE pc["kernel"] >= k
    <3>1. pc["kernel"] >= k \/ ("kernel" = p /\ pc[p] + 1 = k)
      BY <1>c, <2>3, Nombres
    <3>2. ~("kernel" = p /\ pc[p] + 1 = k)
      BY <1>3, Nombres
    <3> QED
      BY <3>1, <3>2
  <2> QED
    BY <1>1, <1>2, <2>1, <2>2, <2>3, MismasEscuchas
<1>m. Muertes'
  <2>1. p \notin muertos
    BY <1>1, PasoVivo
  <2> QED
    BY <1>1, <1>2, <2>1, MismasMuertes
<1>13. Orden'
  BY <1>1, <1>2, <1>4, ConservaOrden DEF Conexiones
<1> QED
  BY <1>8, <1>9, <1>10, <1>11, <1>12, <1>13, <1>m

LEMMA ConservaAceptar ==
  ASSUME AInv, NEW p \in Programas, NEW puerto \in Puertos, Aceptar(p, puerto)
  PROVE  AInv'
<1> USE DEF AInv
<1> DEFINE S == Clientes \union {NADIE}
<1>1. Paso(p, "aceptar", puerto) /\ UNCHANGED <<muertos, escucha, saludados>>
  BY DEF Aceptar
<1>2. /\ pc' \in [Programas -> Nat] /\ pc'[p] = pc[p] + 1 /\ enOrden' = enOrden
      /\ \A q \in Programas : /\ pc[q] \in Nat /\ pc'[q] \in Nat /\ pc'[q] >= pc[q]
                              /\ q # p => pc'[q] = pc[q]
                              /\ pc'[q] <= Len(Main(q)) + 1
  BY <1>1, PasoOp
<1>3. \/ p = "memoria" /\ puerto = "memoria" /\ pc[p] \in {2, 4}
      \/ p = "cpu" /\ puerto = "dispatch" /\ pc[p] = 5
      \/ p = "cpu" /\ puerto = "interrupt" /\ pc[p] = 7
  BY <1>1, PasoOp, Lugar
<1>c. \A q \in Programas : \A k \in Nat :
        /\ pc[q] >= k => pc'[q] >= k
        /\ pc'[q] >= k => pc[q] >= k \/ (q = p /\ pc[p] + 1 = k)
  BY <1>2, Cruza
<1>4. Sigue
  BY <1>1, PasoSigue
<1>5. PICK x \in S :
        /\ aceptados' = [aceptados EXCEPT ![puerto] = Append(aceptados[puerto], x)]
        /\ \/ /\ puerto \in escucha /\ cola[puerto] # <<>> /\ x = Head(cola[puerto])
              /\ cola' = [cola EXCEPT ![puerto] = Tail(cola[puerto])]
           \/ puerto \notin escucha /\ cola' = cola
  <2>1. CASE puerto \in escucha
    <3>1. /\ cola[puerto] # <<>> /\ cola' = [cola EXCEPT ![puerto] = Tail(cola[puerto])]
          /\ aceptados' = [aceptados EXCEPT
                            ![puerto] = Append(aceptados[puerto], Head(cola[puerto]))]
      BY <2>1 DEF Aceptar
    <3>2. Head(cola[puerto]) \in S
      BY <3>1, HeadTailProperties DEF Tipos
    <3> QED
      BY <2>1, <3>1, <3>2
  <2>2. CASE puerto \notin escucha
    BY <2>2 DEF Aceptar
  <2> QED
    BY <2>1, <2>2
<1> HIDE DEF S
<1>6. \A q \in Puertos : aceptados[q] \in Seq(S) /\ cola[q] \in Seq(S)
  BY TipoConexiones DEF S
<1>7. /\ aceptados'[puerto] = Append(aceptados[puerto], x)
      /\ \A q \in Puertos : q # puerto => aceptados'[q] = aceptados[q]
  BY <1>5 DEF Tipos
<1>8. /\ Len(aceptados'[puerto]) = Len(aceptados[puerto]) + 1
      /\ \A i \in 1..Len(aceptados[puerto]) : aceptados'[puerto][i] = aceptados[puerto][i]
  BY <1>6, <1>7
<1>9. Tipos'
  <2>1. aceptados' \in [Puertos -> Seq(S)]
    BY <1>5, <1>6 DEF Tipos, S
  <2>2. cola' \in [Puertos -> Seq(Clientes)]
    <3>1. cola[puerto] # <<>> => Tail(cola[puerto]) \in Seq(Clientes)
      BY HeadTailProperties DEF Tipos
    <3> QED
      BY <1>5, <3>1 DEF Tipos
  <2> QED
    BY <1>1, <1>2, <2>1, <2>2 DEF Tipos, S
<1>10. Sockets'
  <2>1. CASE p = "memoria"
    <3>1. aceptados'["dispatch"] = aceptados["dispatch"]
          /\ aceptados'["interrupt"] = aceptados["interrupt"]
          /\ pc'["cpu"] = pc["cpu"]
      BY <1>2, <1>3, <1>7, <2>1, Nombres, TipoConexiones
    <3>2. \/ pc["memoria"] = 2 /\ pc'["memoria"] = 3 /\ Len(aceptados["memoria"]) = 0
          \/ pc["memoria"] = 4 /\ pc'["memoria"] = 5 /\ Len(aceptados["memoria"]) = 1
      BY <1>2, <1>3, <2>1 DEF Sockets
    <3>3. Len(aceptados'["memoria"]) = Len(aceptados["memoria"]) + 1
      BY <1>3, <1>8, <2>1
    <3> QED
      BY <3>1, <3>2, <3>3 DEF Sockets
  <2>2. CASE puerto = "dispatch"
    <3>1. aceptados'["memoria"] = aceptados["memoria"]
          /\ aceptados'["interrupt"] = aceptados["interrupt"]
          /\ pc'["memoria"] = pc["memoria"]
      BY <1>2, <1>3, <1>7, <2>2, Nombres, TipoConexiones
    <3>2. pc["cpu"] = 5 /\ pc'["cpu"] = 6 /\ Len(aceptados["dispatch"]) = 0
      BY <1>2, <1>3, <2>2 DEF Sockets
    <3>3. Len(aceptados'["dispatch"]) = Len(aceptados["dispatch"]) + 1
      BY <1>8, <2>2
    <3> QED
      BY <3>1, <3>2, <3>3 DEF Sockets
  <2>3. CASE puerto = "interrupt"
    <3>1. aceptados'["memoria"] = aceptados["memoria"]
          /\ aceptados'["dispatch"] = aceptados["dispatch"]
          /\ pc'["memoria"] = pc["memoria"]
      BY <1>2, <1>3, <1>7, <2>3, Nombres, TipoConexiones
    <3>2. pc["cpu"] = 7 /\ pc'["cpu"] = 8 /\ Len(aceptados["interrupt"]) = 0
      BY <1>2, <1>3, <2>3 DEF Sockets
    <3>3. Len(aceptados'["interrupt"]) = Len(aceptados["interrupt"]) + 1
      BY <1>8, <2>3
    <3> QED
      BY <3>1, <3>2, <3>3 DEF Sockets
  <2> QED
    BY <1>3, <2>1, <2>2, <2>3
<1>11. Respuestas'
  BY <1>1, <1>4, <1>7, <1>8, ConservaRespuestas
<1>12. Saludos'
  <2>1. ASSUME NEW q \in Clientes, pc'[q] >= 3 PROVE pc[q] >= 3
    <3>1. pc[q] >= 3 \/ (q = p /\ pc[p] + 1 = 3)
      BY <1>c, <2>1, Nombres
    <3>2. ~(q = p /\ pc[p] + 1 = 3)
      BY <1>3, <2>1, Nombres DEF Clientes
    <3> QED
      BY <3>1, <3>2
  <2>2. ASSUME NEW k \in {5, 7}, pc'["kernel"] >= k PROVE pc["kernel"] >= k
    <3>1. pc["kernel"] >= k \/ ("kernel" = p /\ pc[p] + 1 = k)
      BY <1>c, <2>2, Nombres
    <3>2. ~("kernel" = p /\ pc[p] + 1 = k)
      BY <1>3
    <3> QED
      BY <3>1, <3>2
  <2> QED
    BY <1>1, <2>1, <2>2, MismosSaludos
<1>13. Escuchas'
  <2>1. cola'["memoria"] # <<>> => "memoria" \in escucha
    BY <1>5, TipoConexiones DEF Escuchas, Tipos
  <2>2. ASSUME NEW q \in escucha PROVE aceptados'[q] \in Seq(Clientes)
    <3>1. aceptados[q] \in Seq(Clientes) /\ q \in Puertos
      BY DEF Escuchas, Tipos
    <3>2. CASE q = puerto
      <4>1. cola[puerto] # <<>> /\ x = Head(cola[puerto]) /\ cola[puerto] \in Seq(Clientes)
        BY <1>5, <3>2 DEF Tipos
      <4>2. x \in Clientes
        BY <4>1, HeadTailProperties
      <4> QED
        BY <1>7, <3>1, <3>2, <4>2, AppendProperties
    <3>3. CASE q # puerto
      BY <1>7, <3>1, <3>3
    <3> QED
      BY <3>2, <3>3
  <2>3. ASSUME NEW k \in {2, 4, 6}, pc'["kernel"] >= k PROVE pc["kernel"] >= k
    <3>1. pc["kernel"] >= k \/ ("kernel" = p /\ pc[p] + 1 = k)
      BY <1>c, <2>3, Nombres
    <3>2. ~("kernel" = p /\ pc[p] + 1 = k)
      BY <1>3, Nombres
    <3> QED
      BY <3>1, <3>2
  <2> QED
    BY <1>1, <1>2, <2>1, <2>2, <2>3, MismasEscuchas
<1>m. Muertes'
  <2>1. p \notin muertos
    BY <1>1, PasoVivo
  <2>2. p # "memoria" => aceptados'["memoria"] = aceptados["memoria"]
    BY <1>3, <1>7, TipoConexiones
  <2> QED
    BY <1>1, <1>2, <2>1, <2>2, MismasMuertes
<1>14. Orden'
  <2>1. "memoria" \in escucha => Conexiones' = Conexiones
    <3>1. CASE puerto # "memoria"
      BY <1>5, <3>1, TipoConexiones DEF Conexiones, Tipos
    <3>2. CASE puerto = "memoria" /\ puerto \in escucha
      <4>1. /\ aceptados'["memoria"] = Append(aceptados["memoria"], Head(cola["memoria"]))
            /\ cola'["memoria"] = Tail(cola["memoria"]) /\ cola["memoria"] # <<>>
        BY <1>5, <3>2 DEF Tipos
      <4> QED
        <5>1. aceptados["memoria"] \in Seq(S) /\ cola["memoria"] \in Seq(S)
          BY <1>6, TipoConexiones
        <5>2. Append(aceptados["memoria"], Head(cola["memoria"])) \o Tail(cola["memoria"])
                = aceptados["memoria"] \o cola["memoria"]
          BY <4>1, <5>1, Concatenar
        <5> QED
          BY <4>1, <5>2 DEF Conexiones
    <3> QED
      BY <3>1, <3>2
  <2> QED
    BY <1>1, <1>2, <1>4, <2>1, ConservaOrden
<1> QED
  BY <1>9, <1>10, <1>11, <1>12, <1>13, <1>14, <1>m

LEMMA ConservaConectar ==
  ASSUME AInv, NEW p \in Programas, NEW puerto \in Puertos, Conectar(p, puerto)
  PROVE  AInv'
<1> USE DEF AInv
<1>1. /\ Paso(p, "conectar", puerto) /\ puerto \in escucha /\ Dueno(puerto) \notin muertos
      /\ cola' = [cola EXCEPT ![puerto] = Append(cola[puerto], p)]
      /\ UNCHANGED <<muertos, escucha, aceptados, saludados>>
  BY DEF Conectar, Atiende
<1>2. /\ pc' \in [Programas -> Nat] /\ pc'[p] = pc[p] + 1 /\ enOrden' = enOrden
      /\ \A q \in Programas : /\ pc[q] \in Nat /\ pc'[q] \in Nat /\ pc'[q] >= pc[q]
                              /\ q # p => pc'[q] = pc[q]
                              /\ pc'[q] <= Len(Main(q)) + 1
  BY <1>1, PasoOp
<1>3. \/ p \in Clientes /\ puerto = "memoria" /\ pc[p] = 1
      \/ p = "kernel" /\ puerto = "dispatch" /\ pc[p] = 3
      \/ p = "kernel" /\ puerto = "interrupt" /\ pc[p] = 5
  BY <1>1, PasoOp, Lugar
<1>c. \A q \in Programas : \A k \in Nat :
        /\ pc[q] >= k => pc'[q] >= k
        /\ pc'[q] >= k => pc[q] >= k \/ (q = p /\ pc[p] + 1 = k)
  BY <1>2, Cruza
<1>4. Sigue
  BY <1>1, PasoSigue
<1>5. p \in Clientes /\ p # "memoria"
  BY <1>3, Nombres DEF Clientes
<1>6. \A q \in Puertos : cola'[q] = IF q = puerto THEN Append(cola[q], p) ELSE cola[q]
  BY <1>1 DEF Tipos
<1>7. Tipos'
  <2>1. cola' \in [Puertos -> Seq(Clientes)]
    BY <1>1, <1>5 DEF Tipos
  <2> QED
    BY <1>1, <1>2, <2>1 DEF Tipos
<1>8. Sockets'
  <2>1. ASSUME NEW q \in {"memoria", "cpu"}, NEW k \in {3, 5, 6, 8},
               q = "memoria" => k \in {3, 5}, q = "cpu" => k \in {6, 8}
        PROVE  pc'[q] >= k <=> pc[q] >= k
    <3>1. q \in Programas /\ k \in Nat
      BY Nombres
    <3>2. ~(q = p /\ pc[p] + 1 = k)
      BY <1>3, <1>5, <2>1, Nombres
    <3> QED
      BY <1>c, <3>1, <3>2
  <2> QED
    BY <1>1, <1>7, <2>1, MismosSockets
<1>9. Respuestas'
  BY <1>1, <1>4, ConservaRespuestas
<1>10. Saludos'
  <2>0. pc[p] \in Nat /\ pc'[p] = pc[p] + 1 /\ pc[p] \in {1, 3, 5}
    BY <1>2, <1>3
  <2>a. (pc'[p] >= 3 => pc[p] >= 3) /\ (pc'[p] >= 5 => pc[p] >= 5) /\ (pc'[p] >= 7 => pc[p] >= 7)
    BY <2>0
  <2>1. /\ \A q \in Clientes : pc'[q] >= 3 => pc[q] >= 3
        /\ pc'["kernel"] >= 5 => pc["kernel"] >= 5
        /\ pc'["kernel"] >= 7 => pc["kernel"] >= 7
    BY <1>2, <2>a, Nombres
  <2> QED
    BY <1>1, <2>1 DEF Saludos
<1>11. Escuchas'
  <2>1. cola'["memoria"] # <<>> => "memoria" \in escucha
    BY <1>1, <1>6, TipoConexiones DEF Escuchas
  <2>2. \A q \in escucha : aceptados'[q] \in Seq(Clientes)
    BY <1>1 DEF Escuchas
  <2>3. /\ pc'["kernel"] >= 2 => pc["kernel"] >= 2 \/ "memoria" \in escucha
        /\ pc'["kernel"] >= 4 => pc["kernel"] >= 4 \/ "dispatch" \in escucha
        /\ pc'["kernel"] >= 6 => pc["kernel"] >= 6 \/ "interrupt" \in escucha
    <3>1. \A k \in {2, 4, 6} :
             pc'["kernel"] >= k => pc["kernel"] >= k \/ ("kernel" = p /\ pc[p] + 1 = k)
      BY <1>c, Nombres
    <3>2. /\ "kernel" = p /\ pc[p] + 1 = 2 => puerto = "memoria"
          /\ "kernel" = p /\ pc[p] + 1 = 4 => puerto = "dispatch"
          /\ "kernel" = p /\ pc[p] + 1 = 6 => puerto = "interrupt"
      BY <1>3
    <3> QED
      BY <1>1, <3>1, <3>2
  <2> QED
    BY <1>1, <1>2, <2>1, <2>2, <2>3, MismasEscuchas
<1>m. Muertes'
  <2>1. p \notin muertos
    BY <1>1, PasoVivo
  <2> QED
    BY <1>1, <1>2, <2>1, MismasMuertes
<1>12. Orden'
  <2>1. CASE puerto # "memoria"
    BY <1>1, <1>2, <1>4, <1>6, <2>1, TipoConexiones, ConservaOrden DEF Conexiones
  <2>2. CASE puerto = "memoria"
    <3> SUFFICES ASSUME enOrden PROVE Orden'
      BY <1>2 DEF Orden
    <3>1. /\ pc[p] = 1 /\ pc'[p] = 2 /\ "memoria" \in escucha
      BY <1>1, <1>2, <1>3, <2>2
    <3> DEFINE n == Len(Conexiones)
    <3>2. /\ Conexiones' = Append(Conexiones, p) /\ n \in Nat /\ Len(Conexiones') = n + 1
          /\ Conexiones'[n + 1] = p /\ \A i \in 1..n : Conexiones'[i] = Conexiones[i]
          /\ n >= Len(aceptados["memoria"]) /\ Len(aceptados["memoria"]) \in Nat
      <4> DEFINE S == Clientes \union {NADIE}
      <4>1. /\ aceptados["memoria"] \in Seq(S) /\ cola["memoria"] \in Seq(S) /\ p \in S
            /\ Conexiones \in Seq(S)
        BY <1>5, TipoConexiones
      <4> HIDE DEF S
      <4>2. aceptados["memoria"] \o Append(cola["memoria"], p)
              = Append(aceptados["memoria"] \o cola["memoria"], p)
        <5>1. ASSUME NEW a \in Seq(S), NEW c \in Seq(S) PROVE a \o Append(c, p) = Append(a \o c, p)
          BY <4>1, UnaMas
        <5>2. aceptados["memoria"] \in Seq(S) /\ cola["memoria"] \in Seq(S)
          BY <4>1
        <5> QED
          BY <5>1, <5>2, Zenon
      <4>3. Conexiones' = Append(Conexiones, p)
        BY <1>1, <1>6, <2>2, <4>2 DEF Conexiones
      <4>4. n = Len(aceptados["memoria"]) + Len(cola["memoria"])
            /\ Len(aceptados["memoria"]) \in Nat
            /\ Len(cola["memoria"]) \in Nat
        BY TipoConexiones
      <4> HIDE DEF n
      <4>5. Len(Append(Conexiones, p)) = n + 1 /\ n \in Nat /\ Append(Conexiones, p)[n + 1] = p
            /\ \A i \in 1..n : Append(Conexiones, p)[i] = Conexiones[i]
        BY <4>1 DEF n
      <4>6. n >= Len(aceptados["memoria"])
        <5>1. ASSUME NEW a \in Nat, NEW c \in Nat PROVE a + c >= a
          OBVIOUS
        <5> QED
          BY <4>4, <5>1, Zenon
      <4> QED
        BY <4>3, <4>4, <4>5, <4>6
    <3> HIDE DEF n
    <3>3. p = "kernel" => n >= 1
      <4> SUFFICES ASSUME p = "kernel" PROVE n >= 1
        OBVIOUS
      <4>1. pc["cpu"] >= 5
        BY <3>1 DEF Orden
      <4>m. "memoria" \notin muertos
        BY <1>1, <2>2 DEF Dueno
      <4>2. <<"cpu", "memoria">> \in saludados
        BY <1>2, <4>1, <4>m, Nombres DEF Saludos
      <4>3. pc["memoria"] >= 4
        BY <1>2, <4>2, Nombres DEF Respuestas
      <4>4. Len(aceptados["memoria"]) >= 1
        BY <1>2, <4>3, Nombres DEF Sockets
      <4> QED
        BY <3>2, <4>4
    <3>4. p \in Interfaces => n >= 2
      <4> SUFFICES ASSUME p \in Interfaces PROVE n >= 2
        OBVIOUS
      <4>1. pc["memoria"] >= 6
        BY <3>1 DEF Orden
      <4>2. Len(aceptados["memoria"]) = 2
        BY <1>2, <4>1, Nombres DEF Sockets
      <4> QED
        BY <3>2, <4>2
    <3>5. /\ n >= 1 => Conexiones[1] = "cpu" /\ pc["cpu"] >= 2 /\ p # "cpu"
          /\ n >= 2 => Conexiones[2] = "kernel" /\ pc["kernel"] >= 2 /\ p # "kernel"
      BY <3>1 DEF Orden, n
    <3>6. p = "cpu" \/ p = "kernel" \/ p \in Interfaces
      BY <1>5, Nombres
    <3>7. \A q \in Programas : pc[q] >= 2 => pc'[q] >= 2
      BY <1>2
    <3>8. Conexiones'[1] = "cpu" /\ pc'["cpu"] >= 2
      <4>1. CASE n = 0
        BY <3>1, <3>2, <3>3, <3>4, <3>6, <4>1
      <4>2. CASE n >= 1
        BY <3>2, <3>5, <3>7, <4>2, Nombres
      <4> QED
        BY <3>2, <4>1, <4>2
    <3>9. n >= 1 => Conexiones'[2] = "kernel" /\ pc'["kernel"] >= 2
      <4>1. CASE n = 1
        BY <3>1, <3>2, <3>4, <3>5, <3>6, <4>1
      <4>2. CASE n >= 2
        BY <3>2, <3>5, <3>7, <4>2, Nombres
      <4> QED
        BY <3>2, <4>1, <4>2
    <3>10. Len(Conexiones') >= 2 => n >= 1
      BY <3>2
    <3>11. /\ pc'["cpu"] > 0 => pc'["memoria"] >= 2
           /\ pc'["kernel"] > 0 => pc'["cpu"] >= 5
           /\ \A i \in Interfaces : pc'[i] > 0 => pc'["memoria"] >= 6
      <4>1. \A q \in Programas : pc'[q] > 0 => pc[q] > 0
        BY <1>4 DEF Sigue
      <4>2. /\ pc["memoria"] >= 2 => pc'["memoria"] >= 2
            /\ pc["cpu"] >= 5 => pc'["cpu"] >= 5
            /\ pc["memoria"] >= 6 => pc'["memoria"] >= 6
        BY <1>c, Nombres
      <4>3. /\ pc["cpu"] > 0 => pc["memoria"] >= 2
            /\ pc["kernel"] > 0 => pc["cpu"] >= 5
            /\ \A i \in Interfaces : pc[i] > 0 => pc["memoria"] >= 6
        BY DEF Orden
      <4> QED
        BY <4>1, <4>2, <4>3, Nombres
    <3> QED
      BY <3>8, <3>9, <3>10, <3>11 DEF Orden
  <2> QED
    BY <2>1, <2>2
<1> QED
  BY <1>7, <1>8, <1>9, <1>10, <1>11, <1>12, <1>m

LEMMA Inductiva == AInv /\ [Next]_vars => AInv'
<1> SUFFICES ASSUME AInv, [Next]_vars PROVE AInv'
  OBVIOUS
<1>1. CASE UNCHANGED vars
  <2>1. Muertes'
    BY <1>1 DEF vars, AInv, Muertes, LugarUsurpado
  <2> QED
    BY <1>1, <2>1, Igual DEF vars, AInv, Tipos
<1>2. ASSUME NEW p \in Programas, Arrancar(p) PROVE AInv'
  BY <1>2, ConservaArrancar
<1>3. ASSUME NEW p \in Programas, NEW puerto \in Puertos,
             \/ Escuchar(p, puerto)
             \/ Conectar(p, puerto) \/ ConectarSinServidor(p, puerto) \/ EsperarSaludo(p, puerto)
             \/ Aceptar(p, puerto) \/ Saludar(p, puerto)
      PROVE  AInv'
  BY <1>3, ConservaEscuchar, ConservaConectar, ConservaSinServidor, ConservaEsperar,
     ConservaAceptar, ConservaSaludar
<1>4. CASE MemoriaCae \/ CpuCae
  BY <1>4, ConservaMemoriaCae, ConservaCpuCae
<1> QED
  BY <1>1, <1>2, <1>3, <1>4 DEF Next, Avanza

-----------------------------------------------------------------------------
(* What the start satisfies *)

(***************************************************************************)
(* Where a program is in its main determines which sockets it has; at any  *)
(* moment of any start, AInv holds.                                        *)
(***************************************************************************)
THEOREM InvarianteArranque == Spec => []AInv
  BY Inicial, Inductiva, PTL DEF Spec

(***************************************************************************)
(* Types, and no more sockets than roles: two at memoria                   *)
(* (memoria/src/main.c:65-73) and one at each port of the CPU.             *)
(***************************************************************************)
THEOREM TipoArranque == Spec => []TypeOK
<1>1. AInv => TypeOK
  <2> SUFFICES ASSUME AInv PROVE TypeOK
    OBVIOUS
  <2>1. \A p \in Programas : pc[p] \in 0..(Len(Main(p)) + 1)
    BY LargosNaturales DEF AInv, Tipos
  <2>2. ASSUME NEW puerto \in Puertos
        PROVE  /\ cola[puerto] \in Seq(Programas \ {"memoria"})
               /\ aceptados[puerto] \in Seq((Programas \ {"memoria"}) \union {NADIE})
               /\ Len(aceptados[puerto]) <= (IF puerto = "memoria" THEN 2 ELSE 1)
    <3>1. Len(aceptados[puerto]) <= (IF puerto = "memoria" THEN 2 ELSE 1)
      BY DEF AInv, Sockets, Puertos
    <3> QED
      BY <3>1 DEF AInv, Tipos, Clientes
  <2> QED
    BY <2>1, <2>2 DEF TypeOK, AInv, Tipos, Clientes
<1> QED
  BY <1>1, InvarianteArranque, PTL

(***************************************************************************)
(* Started in order, memoria takes the CPU for the CPU and the kernel for  *)
(* the kernel (RolesCorrectos, memoria/src/main.c:65-73), whatever         *)
(* interfaces there are and whatever ports of the CPU are not free.        *)
(***************************************************************************)
THEOREM RolesDelArranque == Spec => []RolesCorrectos
<1>1. AInv => RolesCorrectos
  <2> SUFFICES ASSUME AInv, enOrden, "memoria" \in escucha
               PROVE  /\ Len(aceptados["memoria"]) >= 1 => aceptados["memoria"][1] = "cpu"
                      /\ Len(aceptados["memoria"]) >= 2 => aceptados["memoria"][2] = "kernel"
    BY DEF RolesCorrectos
  <2>1. /\ Len(Conexiones) = Len(aceptados["memoria"]) + Len(cola["memoria"])
        /\ \A i \in 1..Len(aceptados["memoria"]) : Conexiones[i] = aceptados["memoria"][i]
        /\ Len(aceptados["memoria"]) \in Nat /\ Len(cola["memoria"]) \in Nat
    BY TipoConexiones DEF AInv
  <2>2. /\ Len(Conexiones) >= 1 => Conexiones[1] = "cpu"
        /\ Len(Conexiones) >= 2 => Conexiones[2] = "kernel"
    BY DEF AInv, Orden
  <2>5. ASSUME NEW a \in Nat, NEW c \in Nat, NEW n, n = a + c, a >= 1 PROVE n >= 1 /\ 1 \in 1..a
    BY <2>5
  <2>6. ASSUME NEW a \in Nat, NEW c \in Nat, NEW n, n = a + c, a >= 2 PROVE n >= 2 /\ 2 \in 1..a
    BY <2>6
  <2>3. ASSUME Len(aceptados["memoria"]) >= 1 PROVE aceptados["memoria"][1] = "cpu"
    <3>1. Len(Conexiones) >= 1 /\ 1 \in 1..Len(aceptados["memoria"])
      BY <2>1, <2>3, <2>5, Zenon
    <3> QED
      BY <2>1, <2>2, <3>1
  <2>4. ASSUME Len(aceptados["memoria"]) >= 2 PROVE aceptados["memoria"][2] = "kernel"
    <3>1. Len(Conexiones) >= 2 /\ 2 \in 1..Len(aceptados["memoria"])
      BY <2>1, <2>4, <2>6, Zenon
    <3> QED
      BY <2>1, <2>2, <3>1
  <2> QED
    BY <2>3, <2>4
<1> QED
  BY <1>1, InvarianteArranque, PTL

(***************************************************************************)
(* In whatever order, with whatever ports taken and whoever dies, when the *)
(* kernel opens its console (kernel/src/main.c) memoria and the CPU are    *)
(* past their handshakes, the CPU lives and has the kernel on both its     *)
(* sockets, and memoria serves the CPU and the kernel or has died of an    *)
(* interface it took for one of them (ConsolaConTodos).                    *)
(***************************************************************************)
THEOREM ConsolaAbierta == Spec => []ConsolaConTodos
<1>1. AInv => ConsolaConTodos
  <2> SUFFICES ASSUME AInv, Terminado("kernel")
               PROVE  /\ Todos(Modulos) /\ "cpu" \notin muertos
                      /\ aceptados["dispatch"] = <<"kernel">>
                      /\ aceptados["interrupt"] = <<"kernel">>
                      /\ "memoria" \in muertos => LugarUsurpado
                      /\ "memoria" \notin muertos =>
                           {aceptados["memoria"][1], aceptados["memoria"][2]} = {"cpu", "kernel"}
    BY DEF ConsolaConTodos
  <2> USE DEF AInv
  <2>0. /\ pc["memoria"] \in Nat /\ pc["memoria"] <= 5 + 1 /\ pc["cpu"] \in Nat
        /\ pc["cpu"] <= 8 + 1
        /\ pc["kernel"] = 6 + 1
    <3>1. /\ pc["memoria"] \in Nat /\ pc["memoria"] <= Len(Main("memoria")) + 1
          /\ pc["cpu"] \in Nat /\ pc["cpu"] <= Len(Main("cpu")) + 1
      BY Nombres DEF Tipos
    <3> QED
      BY <3>1, Largos DEF Terminado
  <2>1. /\ <<"kernel", "dispatch">> \in saludados /\ <<"kernel", "interrupt">> \in saludados
        /\ "memoria" \in escucha /\ "dispatch" \in escucha
    BY <2>0 DEF Saludos, Escuchas
  <2>2. /\ pc["cpu"] = 9 /\ aceptados["dispatch"][1] = "kernel"
        /\ aceptados["interrupt"][1] = "kernel"
    BY <2>0, <2>1, Nombres DEF Respuestas
  <2>3. "kernel" \notin muertos /\ "cpu" \notin muertos
    BY <2>0, <2>1, <2>2 DEF Muertes
  <2>4. "memoria" \in muertos => LugarUsurpado /\ pc["memoria"] = 6
    BY <2>1, <2>3 DEF Muertes
  <2>5. ASSUME "memoria" \notin muertos
        PROVE  /\ pc["memoria"] = 6
               /\ {aceptados["memoria"][1], aceptados["memoria"][2]} = {"cpu", "kernel"}
    <3>1. <<"kernel", "memoria">> \in saludados /\ <<"cpu", "memoria">> \in saludados
      BY <2>0, <2>2, <2>5, Nombres DEF Saludos
    <3> QED
      BY <2>0, <3>1, Nombres DEF Respuestas
  <2>6. aceptados["dispatch"] = <<"kernel">> /\ aceptados["interrupt"] = <<"kernel">>
    <3>1. Len(aceptados["dispatch"]) = 1 /\ Len(aceptados["interrupt"]) = 1
      BY <2>2 DEF Sockets
    <3>2. ASSUME NEW S, NEW s \in Seq(S), Len(s) = 1, s[1] = "kernel" PROVE s = <<"kernel">>
      BY <3>2
    <3> QED
      BY <2>2, <3>1, <3>2, TipoConexiones
  <2>7. Todos(Modulos)
    <3>1. /\ pc["memoria"] = Len(Main("memoria")) + 1 /\ pc["cpu"] = Len(Main("cpu")) + 1
          /\ pc["kernel"] = Len(Main("kernel")) + 1
      <4>1. 5 + 1 = 6 /\ 8 + 1 = 9 /\ 6 + 1 = 7
        OBVIOUS
      <4> QED
        BY <2>0, <2>2, <2>4, <2>5, <4>1, Largos, Zenon
    <3> QED
      BY <3>1 DEF Todos, Modulos, Terminado
  <2> QED
    BY <2>3, <2>4, <2>5, <2>6, <2>7
<1> QED
  BY <1>1, InvarianteArranque, PTL
=============================================================================
