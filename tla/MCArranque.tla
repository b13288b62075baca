----------------------------- MODULE MCArranque -----------------------------
(***************************************************************************)
(* Instances of the start for TLC.                                         *)
(***************************************************************************)
EXTENDS Arranque, TLC

CONSTANTS i1, i2

Escena(a, b, antes, quienes, fallan) ==
    [tipo |-> i1 :> a @@ i2 :> b, desorden |-> antes, mueren |-> quienes,
     errores |-> fallan]
\* Two interfaces, so that one can get the descriptor of the other that died;
\* one of the kinds that also talk to the memory, where anyone may be ended;
\* the same ones started at any moment; and processes that ask for what the
\* programs cannot serve.
Escenas ==
    { Escena("GENERICA", "GENERICA", FALSE, {i1}, FALSE) } \cup
    UNION { { Escena(t, "SIN_USAR", FALSE, Modulos, FALSE),
              Escena(t, "SIN_USAR", TRUE, {}, FALSE) } : t \in {"STDIN", "DIALFS"} } \cup
    { Escena(t, "SIN_USAR", FALSE, {}, TRUE) : t \in {"GENERICA", "DIALFS"} }
=============================================================================
