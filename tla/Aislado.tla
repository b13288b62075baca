------------------------------- MODULE Aislado -------------------------------
(***************************************************************************)
(* What the system promises a program: a machine of its own.  A process has *)
(* registers and a memory of consecutive bytes that nobody else reads or     *)
(* writes, and runs its program on them, one instruction after another.  It   *)
(* may be ended at any time, and a machine may break, after which nothing is  *)
(* promised of it.                                                         *)
(***************************************************************************)
EXTENDS Registros

CONSTANTS
    Proceso, TamPagina,
    Programas            \* the programs of each situation and process

VARIABLES
    caso,                \* the situation of this behaviour
    estado,              \* of each machine: "corre", "io", "fin" or "rota"
    regs, mem,
    salida               \* what was printed for the process

maquinaVars == << estado, regs, mem, salida >>
vars == << caso, maquinaVars >>

Init ==
    /\ caso \in 1 .. Len(Programas)
    /\ estado = [p \in Proceso |-> "corre"]
    /\ regs = [p \in Proceso |-> EnCero]
    /\ mem = [p \in Proceso |-> << >>]
    /\ salida = [p \in Proceso |-> << >>]

Actual(p) == Programas[caso][p][regs[p].PC + 1]
Ejecuta(p, ops) == estado[p] = "corre" /\ Actual(p)[1] \in ops

\* The n bytes at dir, and the memory with others in their place.
Hay(p, dir, n) == dir + n <= Len(mem[p])
Lee(p, dir, n) == SubSeq(mem[p], dir + 1, dir + n)
Escribe(p, dir, s) ==
    mem' = [mem EXCEPT ![p] = [k \in 1 .. Len(@) |->
               IF k \in dir + 1 .. dir + Len(s) THEN s[k - dir] ELSE @[k]]]

Sigue(p, r) == regs' = [regs EXCEPT ![p] = r]

Calculo(p) ==
    /\ Ejecuta(p, DeRegistros \cup {"WAIT", "SIGNAL"})
    /\ Sigue(p, Calcula(Actual(p), Avanza(regs[p])))
    /\ UNCHANGED << estado, mem, salida >>

MovIn(p) ==
    /\ Ejecuta(p, {"MOV_IN"})
    /\ LET r == Actual(p)[2]
           dir == regs[p][Actual(p)[3]]
       IN  /\ Hay(p, dir, Bytes(r))
           /\ Sigue(p, Asigna(Avanza(regs[p]), r, DeBytes(Lee(p, dir, Bytes(r)))))
    /\ UNCHANGED << estado, mem, salida >>

MovOut(p) ==
    /\ Ejecuta(p, {"MOV_OUT"})
    /\ LET r == Actual(p)[3]
           dir == regs[p][Actual(p)[2]]
       IN  /\ Hay(p, dir, Bytes(r))
           /\ Escribe(p, dir, EnBytes(regs[p][r], Bytes(r)))
    /\ Sigue(p, Avanza(regs[p]))
    /\ UNCHANGED << estado, salida >>

CopyString(p) ==
    /\ Ejecuta(p, {"COPY_STRING"})
    /\ LET n == Actual(p)[2]
       IN  /\ Hay(p, regs[p].SI, n) /\ Hay(p, regs[p].DI, n)
           /\ Escribe(p, regs[p].DI, Lee(p, regs[p].SI, n))
    /\ Sigue(p, Avanza(regs[p]))
    /\ UNCHANGED << estado, salida >>

\* A RESIZE goes page by page; a new page has anything in it.
Crece(p) ==
    /\ Ejecuta(p, {"RESIZE"})
    /\ Len(mem[p]) < Actual(p)[2]
    /\ \E pagina \in [1 .. TamPagina -> Byte] :
          mem' = [mem EXCEPT ![p] = @ \o pagina]
    /\ UNCHANGED << estado, regs, salida >>

Achica(p) ==
    /\ Ejecuta(p, {"RESIZE"})
    /\ Len(mem[p]) - TamPagina >= Actual(p)[2]
    /\ mem' = [mem EXCEPT ![p] = SubSeq(@, 1, Len(@) - TamPagina)]
    /\ UNCHANGED << estado, regs, salida >>

Redimensionado(p) ==
    /\ Ejecuta(p, {"RESIZE"})
    /\ Actual(p)[2] \in (Len(mem[p]) - TamPagina + 1) .. Len(mem[p])
    /\ Sigue(p, Avanza(regs[p]))
    /\ UNCHANGED << estado, mem, salida >>

PideIO(p) ==
    /\ Ejecuta(p, DeIO)
    /\ estado' = [estado EXCEPT ![p] = "io"]
    /\ Sigue(p, Avanza(regs[p]))
    /\ UNCHANGED << mem, salida >>

\* The interface reads or writes what the instruction said, while the process
\* waits.
HaceIO(p) ==
    /\ estado[p] = "io"
    /\ estado' = [estado EXCEPT ![p] = "corre"]
    /\ LET i == Programas[caso][p][regs[p].PC]
       IN  \/ /\ i[1] = "IO_GEN_SLEEP"
              /\ UNCHANGED << mem, salida >>
           \/ /\ i[1] = "IO_STDIN_READ"
              /\ Hay(p, regs[p][i[2]], regs[p][i[3]])
              /\ \E texto \in [1 .. regs[p][i[3]] -> Byte] :
                    Escribe(p, regs[p][i[2]], texto)
              /\ UNCHANGED salida
           \/ /\ i[1] = "IO_STDOUT_WRITE"
              /\ Hay(p, regs[p][i[2]], regs[p][i[3]])
              /\ salida' = [salida EXCEPT ![p] =
                               Append(@, Lee(p, regs[p][i[2]], regs[p][i[3]]))]
              /\ UNCHANGED mem
    /\ UNCHANGED regs

\* Of machines that are over nothing is kept.
Deja(S, como) ==
    /\ estado' = [p \in Proceso |-> IF p \in S THEN como ELSE estado[p]]
    /\ regs' = [p \in Proceso |-> IF p \in S THEN EnCero ELSE regs[p]]
    /\ mem' = [p \in Proceso |-> IF p \in S THEN << >> ELSE mem[p]]
    /\ salida' = [p \in Proceso |-> IF p \in S THEN << >> ELSE salida[p]]

Termina(p) == estado[p] # "rota" /\ Deja({p}, "fin")
Rompe(S) == Deja(S, "rota")

Next ==
    /\ UNCHANGED caso
    /\ \/ \E p \in Proceso :
             \/ Calculo(p) \/ MovIn(p) \/ MovOut(p) \/ CopyString(p)
             \/ Crece(p) \/ Achica(p) \/ Redimensionado(p)
             \/ PideIO(p) \/ HaceIO(p) \/ Termina(p)
       \/ \E S \in SUBSET Proceso : Rompe(S)

Spec == Init /\ [][Next]_vars
=============================================================================
