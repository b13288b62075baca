------------------------------ MODULE Registros ------------------------------
(***************************************************************************)
(* The registers of a process and what the instructions do to them:        *)
(* utils/src/pcb.h and cpu/src/instruccion.c.  A byte has Base values and a  *)
(* wide register Ancho bytes, so that the sums that overflow are small.      *)
(* An instruction is the sequence of its words.                            *)
(***************************************************************************)
EXTENDS Integers, SequencesExt

CONSTANTS
    Base,                \* values of an uint8_t: 256 in the code
    Ancho                \* sizeof(uint32_t)

ASSUME ParametrosRegistros == Base \in Nat \ {0, 1} /\ Ancho \in Nat \ {0}
\* What powers are: the prover has no facts about them.
ASSUME PotenciasDeBase ==
    /\ Base ^ 1 = Base
    /\ \A n \in 0 .. Ancho : Base ^ n \in Nat \ {0}
    /\ Base <= Base ^ Ancho

Byte == 0 .. (Base - 1)
Angostos == {"AX", "BX", "CX", "DX"}
Anchos == {"EAX", "EBX", "ECX", "EDX", "SI", "DI", "PC"}
Registro == Angostos \cup Anchos

\* The bytes of a register: size_temp of a MOV_OUT.
Bytes(r) == IF r \in Angostos THEN 1 ELSE Ancho
Modulo(r) == Base ^ Bytes(r)
Registros == { f \in [Registro -> 0 .. (Base ^ Ancho - 1)] :
                  \A r \in Registro : f[r] < Modulo(r) }

\* crear_proceso (pcb.c)
EnCero == [r \in Registro |-> 0]

\* Mutant: the number is not cut to the width of the register.
AsignaSinCortar(regs, r, v) == [regs EXCEPT ![r] = v]

\* actualizar_registro
Asigna(regs, r, v) == [regs EXCEPT ![r] = v % Modulo(r)]
Suma(regs, r, v) == Asigna(regs, r, regs[r] + v)
Resta(regs, r, v) == Asigna(regs, r, regs[r] - v)

\* fetch: (pcb->registros.pc)++
Avanza(regs) == Suma(regs, "PC", 1)
Retrocede(regs) == Resta(regs, "PC", 1)

\* An uint32_t in memory, the low byte first, and what a register takes of it.
EnBytes(v, n) == [k \in 1 .. n |-> (v \div Base ^ (k - 1)) % Base]
DeBytes(s) == FoldRight(LAMBDA b, v : b + Base * v, s, 0)

\* execute, of the instructions that use nothing but the registers; WAIT and
\* SIGNAL leave them as fetch did.
DeRegistros == {"SET", "SUM", "SUB", "JNZ"}
Calcula(i, regs) ==
    CASE i[1] = "SET" -> Asigna(regs, i[2], i[3])
      [] i[1] = "SUM" -> Suma(regs, i[2], regs[i[3]])
      [] i[1] = "SUB" -> Resta(regs, i[2], regs[i[3]])
      [] i[1] = "JNZ" /\ regs[i[2]] # 0 -> Asigna(regs, "PC", i[3])
      [] OTHER -> regs

DeIO == {"IO_GEN_SLEEP", "IO_STDIN_READ", "IO_STDOUT_WRITE"}
=============================================================================
