------------------------------ MODULE MCArranque ------------------------------
(***************************************************************************)
(* Instances of Arranque for TLC.                                          *)
(***************************************************************************)
EXTENDS ArranqueProps

CONSTANTS io1, io2

UnaInterfaz == {io1}
DosInterfaces == {io1, io2}
Ninguno == {}
=============================================================================
