------------------------------ MODULE MCMaquina ------------------------------
(***************************************************************************)
(* Instances of the machine for TLC.                                       *)
(***************************************************************************)
EXTENDS Maquina

I(o, d, t) == [op |-> o, dirs |-> d, tam |-> t]
\* One page, two pages (by ceil), an access to each, a copy between them, I/O
\* on the first, and a call that comes back to the same process.  A WAIT that
\* blocks is an I/O without addresses.
Programa == { I("RESIZE", << >>, 1), I("RESIZE", << >>, 3),
              I("COPY_STRING", << 0, 2 >>, 1),
              I("IO", << 0 >>, 1), I("SIGNAL", << >>, 0), I("EXIT", << >>, 0) }

\* The two processes run the same programs.
Simetria == Permutations(Proceso)
=============================================================================
