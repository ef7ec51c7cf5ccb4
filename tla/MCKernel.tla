------------------------------- MODULE MCKernel -------------------------------
(***************************************************************************)
(* Instances of Kernel for TLC.                                            *)
(***************************************************************************)
EXTENDS KernelProps

\* The contract: what the kernel's recv calls consume, and nothing else.
RespuestaContrato == <<CONF_PR_NUEVO>>
CpuContrato == {<<HEADER_proceso_terminado>>}

\* What memoria does: a frame with an empty buffer.
RespuestaReal == StreamVacio(CONF_PR_NUEVO)

\* A CPU that may also answer with another header, or not answer.
CpuAbierta == {<<HEADER_proceso_terminado>>, <<SET>>, <<>>}

Ninguno == {}
Todos == {"memoria", "cpu"}
=============================================================================
