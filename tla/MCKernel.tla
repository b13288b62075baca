------------------------------ MODULE MCKernel ------------------------------
(***************************************************************************)
(* Instances of the kernel for TLC.                                        *)
(***************************************************************************)
EXTENDS KernelProps

UnaInstancia == [r \in Recurso |-> 1]

\* What the programs call: I/O on the connected interfaces, and WAIT and
\* SIGNAL of the configured resources.
LlamadasIO == { [op |-> "IO", arg |-> i] : i \in Interfaz }
LlamadasRecursos == { [op |-> o, arg |-> r] : o \in {"WAIT", "SIGNAL"}, r \in Recurso }
LlamadasNormales == LlamadasIO \cup LlamadasRecursos

\* Calls that end the program: names nobody has, memory that ran out.
LlamadasMalas == { [op |-> "IO", arg |-> Ninguno],
                   [op |-> "OUT_OF_MEMORY", arg |-> Ninguno] }
LlamadasInvalidas == { [op |-> o, arg |-> Ninguno] : o \in {"WAIT", "SIGNAL"} }

MenosUno == -1
LlamadasTodas == LlamadasNormales \cup LlamadasMalas \cup LlamadasInvalidas
=============================================================================
