----------------------------- MODULE MCEjecucion -----------------------------
(***************************************************************************)
(* Instances of Ejecucion for TLC.                                         *)
(***************************************************************************)
EXTENDS EjecucionProps

CONSTANT Largo   \* bound: lines of a file

\* Lines a file may have: 300 does not fit in AX, a fourth word is ignored, BX is not
\* implemented, and SUM is not recognized.
Lineas == {<<"SET", "AX", 7>>, <<"SET", "AX", 300, 5>>, <<"SET", "BX", 1>>, <<"SUM", "AX", "BX">>,
           <<"EXIT">>}

\* Only the last line has no newline, so only it can end in a word cut short.
UltimaCortada == {<<"SET">>, <<"SET", "AX">>}

Archivos == UNION {[1..n -> Lineas] : n \in 0..Largo}
            \union {Append(prog, linea) : prog \in UNION {[1..n -> Lineas] : n \in 0..(Largo - 1)},
                                          linea \in UltimaCortada}
=============================================================================
