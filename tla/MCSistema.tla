------------------------------- MODULE MCSistema -------------------------------
(***************************************************************************)
(* Instances of Sistema for TLC.                                           *)
(***************************************************************************)
EXTENDS SistemaProps

\* A program that stops, one that runs past its last line, and one whose last line is cut
\* short.
ProgramasMC == {<<<<"SET", "AX", 7>>, <<"EXIT">>>>, <<<<"SET", "AX", 7>>>>, <<<<"SET">>>>}
=============================================================================
