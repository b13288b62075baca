--------------------------- MODULE ProgramasProofs ---------------------------
(****************************************************************************)
(* The programs and the machine that runs them, for any programs of any      *)
(* processes, sizes of registers, pages and memory: the types, what the CPU   *)
(* executes, and that each process runs as on a machine of its own.           *)
(****************************************************************************)
EXTENDS Programas, MaquinaProofs

USE ParametrosMemoria, ParametrosTLB, InstruccionesPosibles, CotasMaquina,
    ParametrosRegistros

(* Invariants.                                                              *)

Texto(p) == Casos[caso][p]
Pedidos == [op : DeIO \cup {"ninguna"}, dir : Nat, tam : Nat]

TipoDatos ==
    /\ caso \in 1 .. Len(Casos)
    /\ registros \in [Proceso -> Registros] /\ regs_cpu \in Registros
    /\ enviados \in Seq(Registros) /\ devueltos \in Seq(Registros)
    /\ Len(enviados) = Len(despachados) /\ Len(devueltos) = Len(contextos)
    /\ user_memory \in [0 .. TamMemoria - 1 -> Byte]
    /\ copia \in [hay : BOOLEAN, bien : BOOLEAN, bytes : Seq(Byte)]
    /\ entrada \in [Proceso -> Pedidos]
    /\ salida \in [Proceso -> Seq(Seq(Byte))]
    /\ tocados \subseteq Proceso

\* A process that may run again has an instruction to run, wherever its
\* registers are.
EnTexto ==
    /\ \A p \in Proceso : situacion[p] # "EXIT" => registros[p].PC < Len(Texto(p))
    /\ pcb # 0 /\ cpu \notin {"decode", "resize", "muerto"} =>
          regs_cpu.PC < Len(Texto(pcb))
    /\ \A k \in 1 .. Len(despachados) : enviados[k].PC < Len(Texto(despachados[k]))
    /\ \A k \in 1 .. Len(contextos) :
          contextos[k].op # "FINALIZADO" =>
              devueltos[k].PC < Len(Texto(contextos[k].pid))

\* What the CPU executes is what the program of the process says.
InstruccionPropia ==
    IF cpu \in {"decode", "resize"}
    THEN /\ regs_cpu.PC \in 1 .. Len(Texto(pcb))
         /\ instruccion = decode(EnCurso, regs_cpu)
         /\ Len(fisicas) <= Len(instruccion.dirs)
         /\ cpu = "resize" => EnCurso[1] = "RESIZE"
    ELSE cpu # "muerto" => fisicas = << >>

\* f is where the page table of p has its logical address dir.
Tras(p, dir, f) ==
    /\ Pagina(dir) < Len(paginas[p])
    /\ f = paginas[p][Pagina(dir) + 1] * TamPagina + Desplazamiento(dir)
Traducidas(p, dirs, fs) ==
    p \notin redujo => \A k \in 1 .. Len(fs) : Tras(p, dirs[k], fs[k])
BienTraducidas == cpu = "decode" => Traducidas(pcb, instruccion.dirs, fisicas)

\* An I/O is the one the program asked for, in the context and with the kernel.
ContextosIO ==
    \A k \in 1 .. Len(contextos) : contextos[k].op = "IO" =>
        LET p == contextos[k].pid
            i == Texto(p)[devueltos[k].PC]
            dirs == Direcciones(i, devueltos[k])
        IN  /\ devueltos[k].PC >= 1 /\ i[1] \in DeIO
            /\ contextos[k].tam = Tamano(i, devueltos[k])
            /\ Len(contextos[k].fisicas) = Len(dirs)
            /\ Traducidas(p, dirs, contextos[k].fisicas)
EntradasIO ==
    \A p \in Proceso : entrada[p] # SinEntrada =>
        /\ situacion[p] \in {"BLOCKED", "EXIT"}
        /\ situacion[p] = "BLOCKED" =>
              LET i == Texto(p)[registros[p].PC]
                  dirs == Direcciones(i, registros[p])
              IN  /\ registros[p].PC >= 1 /\ i[1] \in DeIO
                  /\ entrada[p].op = i[1] /\ entrada[p].tam = Tamano(i, registros[p])
                  /\ dirs # << >> => Traducidas(p, dirs, << entrada[p].dir >>)

\* How far a RESIZE is.
Redimensiona ==
    cpu = "resize" =>
        LET hay == Len(paginas[pcb])
            pide == PaginasPara(instruccion.tam)
        IN  /\ hilo["cpu"] = "asigna" => hay + faltan = pide
            /\ hilo["cpu"] = "marca" => hay + faltan = pide + 1
            /\ hilo["cpu"] \in {"reduce", "descarta"} => hay = pide + faltan
            /\ respuesta = "OK" /\ pcb \notin enVuelo => hay = pide

InvarianteDatos ==
    /\ TipoDatos /\ EnTexto /\ InstruccionPropia /\ BienTraducidas
    /\ ContextosIO /\ EntradasIO /\ Redimensiona

-----------------------------------------------------------------------------
(* Registers.                                                               *)

LEMMA ModuloEs ==
  ASSUME NEW r
  PROVE  /\ Base ^ Ancho \in Nat /\ Base <= Base ^ Ancho
         /\ Modulo(r) \in Nat \ {0} /\ Modulo(r) <= Base ^ Ancho
         /\ r \in Angostos => Modulo(r) = Base
         /\ r \notin Angostos => Modulo(r) = Base ^ Ancho
<1>1. Base ^ Ancho \in Nat \ {0} /\ Base <= Base ^ Ancho /\ Base ^ 1 = Base
  BY PotenciasDeBase
<1>2. r \in Angostos => Modulo(r) = Base ^ 1
  BY DEF Modulo, Bytes
<1>3. r \notin Angostos => Modulo(r) = Base ^ Ancho
  BY DEF Modulo, Bytes
<1> QED
  BY <1>1, <1>2, <1>3

LEMMA RegistroEs ==
  ASSUME NEW regs \in Registros, NEW r \in Registro
  PROVE  regs[r] \in Nat /\ regs[r] < Modulo(r) /\ regs[r] < Base ^ Ancho
<1>1. regs \in [Registro -> 0 .. (Base ^ Ancho - 1)] /\ regs[r] < Modulo(r)
  BY DEF Registros
<1>2. Base ^ Ancho \in Nat
  BY ModuloEs
<1> QED
  BY <1>1, <1>2

\* A register takes what fits it of any number.
LEMMA AsignaTipo ==
  ASSUME NEW regs \in Registros, NEW r \in Registro, NEW v \in Int
  PROVE  /\ Asigna(regs, r, v) \in Registros
         /\ Asigna(regs, r, v)[r] = v % Modulo(r)
         /\ \A x \in Registro \ {r} : Asigna(regs, r, v)[x] = regs[x]
<1>1. regs \in [Registro -> 0 .. (Base ^ Ancho - 1)]
      /\ \A x \in Registro : regs[x] < Modulo(x)
  BY DEF Registros
<1>2. /\ Base ^ Ancho \in Nat
      /\ Modulo(r) \in Nat \ {0} /\ Modulo(r) <= Base ^ Ancho
  BY ModuloEs
<1>3. v % Modulo(r) \in 0 .. Modulo(r) - 1
  BY <1>2
<1>4. v % Modulo(r) \in 0 .. (Base ^ Ancho - 1) /\ v % Modulo(r) < Modulo(r)
  BY <1>2, <1>3
<1> DEFINE f == Asigna(regs, r, v)
<1>5. /\ f \in [Registro -> 0 .. (Base ^ Ancho - 1)] /\ f[r] = v % Modulo(r)
      /\ \A x \in Registro \ {r} : f[x] = regs[x]
  BY <1>1, <1>4 DEF Asigna
<1> HIDE DEF f
<1>6. \A x \in Registro : f[x] < Modulo(x)
  BY <1>1, <1>4, <1>5
<1>7. f \in Registros
  BY <1>5, <1>6 DEF Registros
<1> QED
  BY <1>5, <1>7 DEF f

LEMMA SumaTipo ==
  ASSUME NEW regs \in Registros, NEW r \in Registro, NEW v \in Int
  PROVE  Suma(regs, r, v) \in Registros /\ Resta(regs, r, v) \in Registros
<1>1. regs[r] \in Nat
  BY RegistroEs
<1>2. regs[r] + v \in Int /\ regs[r] - v \in Int
  BY <1>1
<1> QED
  BY <1>2, AsignaTipo DEF Suma, Resta

\* Two sets of registers with the same numbers are the same.
LEMMA MismosRegistros ==
  ASSUME NEW f \in Registros, NEW g \in Registros,
         \A x \in Registro : f[x] = g[x]
  PROVE  f = g
BY DEF Registros

LEMMA Resto ==
  ASSUME NEW b \in Nat \ {0}, NEW n \in 0 .. b - 1
  PROVE  n % b = n
OBVIOUS

\* fetch goes on to the next instruction, and to nothing else.
LEMMA AvanzaEs ==
  ASSUME NEW regs \in Registros, regs.PC + 1 < Base ^ Ancho
  PROVE  /\ Avanza(regs) \in Registros /\ Avanza(regs).PC = regs.PC + 1
         /\ \A x \in Operando : Avanza(regs)[x] = regs[x]
         /\ Retrocede(Avanza(regs)) = regs
<1>1. "PC" \in Registro \ Angostos /\ "PC" \notin Operando
  BY DEF Registro, Anchos, Angostos, Operando
<1>2. Modulo("PC") = Base ^ Ancho /\ Base ^ Ancho \in Nat \ {0}
  BY <1>1, ModuloEs
<1>3. regs.PC \in Nat /\ regs.PC < Base ^ Ancho
  BY <1>1, RegistroEs
<1>4. (regs.PC + 1) % Base ^ Ancho = regs.PC + 1
  <2>1. regs.PC + 1 \in 0 .. Base ^ Ancho - 1
    BY <1>2, <1>3
  <2> QED
    BY <1>2, <2>1, Resto, Zenon
<1> DEFINE f == Avanza(regs)
<1>5. /\ f \in Registros /\ f["PC"] = regs["PC"] + 1
      /\ \A x \in Registro \ {"PC"} : f[x] = regs[x]
  <2>1. f = Asigna(regs, "PC", regs["PC"] + 1)
    BY DEF Avanza, Suma
  <2>2. PICK v \in Int, r \in Registro : v = regs["PC"] + 1 /\ r = "PC"
    BY <1>1, <1>3
  <2> HIDE DEF f
  <2>3. /\ Asigna(regs, r, v) \in Registros /\ Asigna(regs, r, v)[r] = v % Modulo(r)
        /\ \A x \in Registro \ {r} : Asigna(regs, r, v)[x] = regs[x]
    <3>1. \A y \in Registro, w \in Int :
             /\ Asigna(regs, y, w) \in Registros /\ Asigna(regs, y, w)[y] = w % Modulo(y)
             /\ \A x \in Registro \ {y} : Asigna(regs, y, w)[x] = regs[x]
      BY AsignaTipo
    <3>2. r \in Registro /\ v \in Int
      BY <2>2
    <3> QED
      BY <3>1, <3>2, Zenon
  <2>4. f = Asigna(regs, r, v)
    BY <2>1, <2>2
  <2>5. /\ f \in Registros /\ f["PC"] = (regs["PC"] + 1) % Modulo("PC")
        /\ \A x \in Registro \ {"PC"} : f[x] = regs[x]
    BY <2>2, <2>3, <2>4, Zenon
  <2> QED
    BY <1>2, <1>4, <2>5
<1> HIDE DEF f
<1>6. (f["PC"] - 1) % Base ^ Ancho = regs["PC"] /\ f["PC"] - 1 \in Int
  <2>1. f["PC"] - 1 = regs["PC"] /\ regs["PC"] \in 0 .. Base ^ Ancho - 1
    BY <1>2, <1>3, <1>5
  <2>2. regs["PC"] % Base ^ Ancho = regs["PC"]
    BY <1>2, <2>1, Resto
  <2>3. regs["PC"] \in Int
    BY <1>3
  <2> QED
    BY <2>1, <2>2, <2>3, Zenon
<1>7. /\ Retrocede(f) \in Registros /\ Retrocede(f)["PC"] = regs["PC"]
      /\ \A x \in Registro \ {"PC"} : Retrocede(f)[x] = f[x]
  <2>1. Retrocede(f) = Asigna(f, "PC", f["PC"] - 1) /\ "PC" \in Registro
    BY <1>1 DEF Retrocede, Resta
  <2>2. /\ Asigna(f, "PC", f["PC"] - 1) \in Registros
        /\ Asigna(f, "PC", f["PC"] - 1)["PC"] = (f["PC"] - 1) % Modulo("PC")
        /\ \A x \in Registro \ {"PC"} : Asigna(f, "PC", f["PC"] - 1)[x] = f[x]
    BY <1>5, <1>6, <2>1, AsignaTipo
  <2> QED
    BY <1>2, <1>6, <2>1, <2>2
<1>8. Retrocede(f) = regs
  BY <1>5, <1>7, MismosRegistros
<1> QED
  BY <1>5, <1>8 DEF f, Operando

LEMMA RetrocedeEs ==
  ASSUME NEW regs \in Registros, regs.PC >= 1
  PROVE  /\ Retrocede(regs) \in Registros /\ Retrocede(regs).PC = regs.PC - 1
         /\ \A x \in Operando : Retrocede(regs)[x] = regs[x]
         /\ Avanza(Retrocede(regs)) = regs
<1>1. "PC" \in Registro \ Angostos /\ "PC" \notin Operando
  BY DEF Registro, Anchos, Angostos, Operando
<1>2. Modulo("PC") = Base ^ Ancho /\ Base ^ Ancho \in Nat \ {0}
  BY <1>1, ModuloEs
<1>3. regs.PC \in Nat /\ regs.PC < Base ^ Ancho
  BY <1>1, RegistroEs
<1>4. (regs.PC - 1) % Base ^ Ancho = regs.PC - 1
  <2>1. regs.PC - 1 \in 0 .. Base ^ Ancho - 1
    BY <1>2, <1>3
  <2> QED
    BY <1>2, <2>1, Resto, Zenon
<1> DEFINE f == Retrocede(regs)
<1>5. /\ f \in Registros /\ f["PC"] = regs["PC"] - 1
      /\ \A x \in Registro \ {"PC"} : f[x] = regs[x]
  <2>1. f = Asigna(regs, "PC", regs["PC"] - 1)
    BY DEF Retrocede, Resta
  <2>2. PICK v \in Int, r \in Registro : v = regs["PC"] - 1 /\ r = "PC"
    BY <1>1, <1>3
  <2> HIDE DEF f
  <2>3. /\ Asigna(regs, r, v) \in Registros /\ Asigna(regs, r, v)[r] = v % Modulo(r)
        /\ \A x \in Registro \ {r} : Asigna(regs, r, v)[x] = regs[x]
    <3>1. \A y \in Registro, w \in Int :
             /\ Asigna(regs, y, w) \in Registros /\ Asigna(regs, y, w)[y] = w % Modulo(y)
             /\ \A x \in Registro \ {y} : Asigna(regs, y, w)[x] = regs[x]
      BY AsignaTipo
    <3>2. r \in Registro /\ v \in Int
      BY <2>2
    <3> QED
      BY <3>1, <3>2, Zenon
  <2>4. f = Asigna(regs, r, v)
    BY <2>1, <2>2
  <2>5. /\ f \in Registros /\ f["PC"] = (regs["PC"] - 1) % Modulo("PC")
        /\ \A x \in Registro \ {"PC"} : f[x] = regs[x]
    BY <2>2, <2>3, <2>4, Zenon
  <2> QED
    BY <1>2, <1>4, <2>5
<1> HIDE DEF f
<1>6. (f["PC"] + 1) % Base ^ Ancho = regs["PC"] /\ f["PC"] + 1 \in Int
  <2>1. f["PC"] + 1 = regs["PC"] /\ regs["PC"] \in 0 .. Base ^ Ancho - 1
    BY <1>2, <1>3, <1>5
  <2>2. regs["PC"] % Base ^ Ancho = regs["PC"]
    BY <1>2, <2>1, Resto
  <2>3. regs["PC"] \in Int
    BY <1>3
  <2> QED
    BY <2>1, <2>2, <2>3, Zenon
<1>7. /\ Avanza(f) \in Registros /\ Avanza(f)["PC"] = regs["PC"]
      /\ \A x \in Registro \ {"PC"} : Avanza(f)[x] = f[x]
  <2>1. Avanza(f) = Asigna(f, "PC", f["PC"] + 1) /\ "PC" \in Registro
    BY <1>1 DEF Avanza, Suma
  <2>2. /\ Asigna(f, "PC", f["PC"] + 1) \in Registros
        /\ Asigna(f, "PC", f["PC"] + 1)["PC"] = (f["PC"] + 1) % Modulo("PC")
        /\ \A x \in Registro \ {"PC"} : Asigna(f, "PC", f["PC"] + 1)[x] = f[x]
    BY <1>5, <1>6, <2>1, AsignaTipo
  <2> QED
    BY <1>2, <1>6, <2>1, <2>2
<1>8. Avanza(f) = regs
  BY <1>5, <1>7, MismosRegistros
<1> QED
  BY <1>5, <1>8 DEF f, Operando

\* What SET, SUM, SUB and JNZ do: registers again, and a jump within the text.
LEMMA CalculaTipo ==
  ASSUME NEW regs \in Registros, NEW i, NEW n \in 0 .. Base ^ Ancho, OrdenPosible(i, n)
  PROVE  /\ Calcula(i, regs) \in Registros
         /\ regs.PC < n => Calcula(i, regs).PC < n
<1>1. "PC" \in Registro /\ "PC" \notin Operando /\ Operando \subseteq Registro
  BY DEF Registro, Anchos, Operando
<1>2. Modulo("PC") = Base ^ Ancho /\ Base ^ Ancho \in Nat \ {0}
  <2>1. "PC" \notin Angostos
    BY DEF Angostos
  <2>2. Base ^ Ancho \in Nat \ {0}
    BY PotenciasDeBase
  <2> QED
    BY <2>1, <2>2, ModuloEs
<1>3. ASSUME NEW v \in Nat, v < n
      PROVE  v % Modulo("PC") = v
  <2>1. v \in 0 .. Base ^ Ancho - 1
    BY <1>2, <1>3
  <2> QED
    BY <1>2, <2>1, Resto
<1>4. CASE i[1] = "SET"
  <2>1. i[2] \in Registro /\ i[3] \in Nat /\ (i[2] = "PC" => i[3] < n)
    BY <1>4 DEF OrdenPosible
  <2>2. Calcula(i, regs) = Asigna(regs, i[2], i[3])
    BY <1>4 DEF Calcula
  <2>3. i[2] = "PC" => i[3] % Modulo("PC") = i[3]
    BY <1>3, <2>1
  <2> DEFINE f == Asigna(regs, i[2], i[3])
  <2> HIDE DEF f
  <2>4. /\ f \in Registros /\ f[i[2]] = i[3] % Modulo(i[2])
        /\ \A x \in Registro \ {i[2]} : f[x] = regs[x]
    <3>1. i[3] \in Int /\ i[2] \in Registro
      BY <2>1
    <3> QED
      BY <3>1, AsignaTipo, Zenon DEF f
  <2>5. i[2] = "PC" => f["PC"] = i[3]
    BY <2>3, <2>4
  <2>6. i[2] # "PC" => f["PC"] = regs["PC"]
    BY <1>1, <2>4
  <2>7. Calcula(i, regs) = f
    BY <2>2 DEF f
  <2> QED
    BY <2>1, <2>4, <2>5, <2>6, <2>7
<1>5. CASE i[1] = "SUM" \/ i[1] = "SUB"
  <2>1. i[2] \in Operando /\ i[3] \in Operando
    BY <1>5 DEF OrdenPosible
  <2>2. regs[i[2]] \in Nat /\ regs[i[3]] \in Nat
    BY <1>1, <2>1, RegistroEs
  <2>3. PICK v \in Int : Calcula(i, regs) = Asigna(regs, i[2], v)
    <3>1. CASE i[1] = "SUM"
      BY <2>2, <3>1 DEF Calcula, Suma
    <3>2. CASE i[1] = "SUB"
      BY <2>2, <3>2 DEF Calcula, Resta
    <3> QED
      BY <1>5, <3>1, <3>2
  <2> DEFINE f == Asigna(regs, i[2], v)
  <2> HIDE DEF f
  <2>4. f \in Registros /\ \A x \in Registro \ {i[2]} : f[x] = regs[x]
    <3>1. i[2] \in Registro
      BY <1>1, <2>1
    <3> QED
      BY <3>1, AsignaTipo, Zenon DEF f
  <2>5. f["PC"] = regs["PC"]
    BY <1>1, <2>1, <2>4
  <2> QED
    BY <2>3, <2>4, <2>5 DEF f
<1>6. CASE i[1] = "JNZ" /\ regs[i[2]] # 0
  <2>1. i[3] \in Nat /\ i[3] < n
    BY <1>6 DEF OrdenPosible
  <2>2. Calcula(i, regs) = Asigna(regs, "PC", i[3])
    BY <1>6 DEF Calcula
  <2> QED
    BY <1>1, <1>3, <2>1, <2>2, AsignaTipo
<1>7. CASE ~ (i[1] = "SET" \/ i[1] = "SUM" \/ i[1] = "SUB" \/ (i[1] = "JNZ" /\ regs[i[2]] # 0))
  BY <1>7 DEF Calcula
<1> QED
  BY <1>4, <1>5, <1>6, <1>7

-----------------------------------------------------------------------------
(* Bytes.                                                                   *)

LEMMA SonBytes ==
  ASSUME NEW n \in Nat, NEW s \in [1 .. n -> Byte]
  PROVE  s \in Seq(Byte) /\ Len(s) = n
BY DEF Byte

LEMMA BytesEs == \A r \in Registro : Bytes(r) \in 1 .. Ancho
BY DEF Bytes

LEMMA EnBytesEs ==
  ASSUME NEW v \in Nat, NEW n \in 1 .. Ancho
  PROVE  EnBytes(v, n) \in Seq(Byte) /\ Len(EnBytes(v, n)) = n
<1>1. ASSUME NEW k \in 1 .. n
      PROVE  (v \div Base ^ (k - 1)) % Base \in Byte
  <2>1. k - 1 \in 0 .. Ancho
    OBVIOUS
  <2>2. Base ^ (k - 1) \in Nat \ {0}
    BY <2>1, PotenciasDeBase
  <2>3. v \div Base ^ (k - 1) \in Int
    BY <2>2
  <2> QED
    BY <2>3 DEF Byte
<1>2. EnBytes(v, n) \in [1 .. n -> Byte]
  BY <1>1 DEF EnBytes
<1> QED
  BY <1>2, SonBytes

LEMMA InduccionNat ==
  ASSUME NEW A, 0 \in A, \A n \in Nat : n \in A => n + 1 \in A
  PROVE  Nat \subseteq A
<1> SUFFICES ASSUME Nat \ A # {}
             PROVE  FALSE
  OBVIOUS
<1>1. PICK n \in Nat \ A : \A j \in Nat \ A : n <= j
  BY HayMenor
<1>2. n # 0 /\ n - 1 \in Nat
  BY <1>1
<1>3. n - 1 \in Nat \ A
  BY <1>1, <1>2
<1> QED
  BY <1>1, <1>3

\* DeBytes is a fold: what it gives with the places T of s, if g is what it
\* gives with fewer.
Peso(s, g, T) == IF T = {} THEN 0 ELSE s[Min(T)] + Base * g[T \ {Min(T)}]
Pesos(s) == CHOOSE g : g = [T \in SUBSET DOMAIN s |-> Peso(s, g, T)]

LEMMA DeBytesEs ==
  ASSUME NEW s
  PROVE  DeBytes(s) = Pesos(s)[DOMAIN s]
BY DEF DeBytes, FoldRight, MapThenFoldSet, Pesos, Peso

LEMMA MinEs ==
  ASSUME NEW T, T \subseteq Nat, T # {}
  PROVE  Min(T) \in T /\ \A x \in T : Min(T) <= x
BY HayMenor DEF Min

LEMMA PesosExiste ==
  ASSUME NEW N \in Nat, NEW s, DOMAIN s = 1 .. N
  PROVE  Pesos(s) = [T \in SUBSET (1 .. N) |-> Peso(s, Pesos(s), T)]
<1> DEFINE D == 1 .. N
           Hasta(n) == { T \in SUBSET D : Cardinality(T) <= n }
           A == { n \in Nat : \E g : \A T \in Hasta(n) : g[T] = Peso(s, g, T) }
<1>0. IsFiniteSet(D)
  BY FS_Interval
<1>1. \A T \in SUBSET D : IsFiniteSet(T) /\ Cardinality(T) \in Nat
  BY <1>0, FS_Subset, FS_CardinalityType
<1>2. 0 \in A
  <2> DEFINE g == [T \in SUBSET D |-> 0]
  <2>1. \A T \in Hasta(0) : T = {}
    BY <1>1, FS_EmptySet
  <2>2. \A T \in Hasta(0) : g[T] = Peso(s, g, T)
    BY <2>1 DEF Peso
  <2> HIDE DEF g
  <2> QED
    BY <2>2
<1>3. ASSUME NEW n \in Nat, n \in A
      PROVE  n + 1 \in A
  <2>1. PICK g : \A T \in Hasta(n) : g[T] = Peso(s, g, T)
    BY <1>3
  <2> DEFINE h == [T \in SUBSET D |-> Peso(s, g, T)]
  <2>2. ASSUME NEW T \in Hasta(n + 1)
        PROVE  h[T] = Peso(s, h, T)
    <3>0. h[T] = Peso(s, g, T)
      <4>1. T \in SUBSET D
        OBVIOUS
      <4> HIDE DEF Hasta, A
      <4> QED
        BY <4>1, Zenon
    <3>1. CASE T = {}
      <4>1. Peso(s, g, T) = 0 /\ Peso(s, h, T) = 0
        BY <3>1 DEF Peso
      <4> QED
        BY <3>0, <4>1
    <3>2. CASE T # {}
      <4>0. T \subseteq Nat
        OBVIOUS
      <4>1. Min(T) \in T
        BY <3>2, <4>0, MinEs
      <4>2. T \ {Min(T)} \in SUBSET D /\ Cardinality(T \ {Min(T)}) = Cardinality(T) - 1
        BY <1>1, <4>1, FS_RemoveElement
      <4>3. T \ {Min(T)} \in Hasta(n)
        BY <1>1, <4>2
      <4>4. h[T \ {Min(T)}] = g[T \ {Min(T)}]
        BY <2>1, <4>2, <4>3
      <4> QED
        BY <3>2, <4>4 DEF Peso
    <3> QED
      BY <3>1, <3>2
  <2> HIDE DEF h
  <2> QED
    BY <2>2
<1>4. Nat \subseteq A
  <2> HIDE DEF A
  <2> QED
    BY <1>2, <1>3, InduccionNat
<1>5. PICK g : \A T \in Hasta(N) : g[T] = Peso(s, g, T)
  <2>1. N \in A
    BY <1>4
  <2> QED
    BY <2>1
<1>6. \A T \in SUBSET D : T \in Hasta(N)
  <2>1. Cardinality(D) = N
    BY FS_Interval
  <2>2. \A T \in SUBSET D : Cardinality(T) <= Cardinality(D)
    BY <1>0, FS_Subset
  <2> QED
    BY <2>1, <2>2
<1> DEFINE h == [T \in SUBSET D |-> g[T]]
<1>7. \A T \in SUBSET D : Peso(s, h, T) = Peso(s, g, T)
  <2> SUFFICES ASSUME NEW T \in SUBSET D, T # {}
               PROVE  Peso(s, h, T) = Peso(s, g, T)
    BY DEF Peso
  <2>1. T \ {Min(T)} \in SUBSET D
    OBVIOUS
  <2>2. h[T \ {Min(T)}] = g[T \ {Min(T)}]
    BY <2>1
  <2> QED
    BY <2>2 DEF Peso
<1>8. h = [T \in SUBSET D |-> Peso(s, h, T)]
  BY <1>5, <1>6, <1>7
<1> HIDE DEF h
<1> QED
  BY <1>8 DEF Pesos

Pesado(N, s, w) ==
  /\ w \in Nat
  /\ \E k \in Nat : w = s[1] + Base * k
  /\ N = 1 => w = s[1]

LEMMA PesosTipo ==
  ASSUME NEW N \in Nat \ {0}, NEW s, DOMAIN s = 1 .. N, \A k \in 1 .. N : s[k] \in Nat
  PROVE  Pesado(N, s, Pesos(s)[1 .. N])
<1>w. PICK W : W = Pesos(s)
  OBVIOUS
<1>2. \A T \in SUBSET (1 .. N) : W[T] = Peso(s, W, T)
  <2>1. Pesos(s) = [T \in SUBSET (1 .. N) |-> Peso(s, Pesos(s), T)]
    <3>1. N \in Nat
      OBVIOUS
    <3> QED
      BY <3>1, PesosExiste, Zenon
  <2>2. W = [T \in SUBSET (1 .. N) |-> Peso(s, W, T)]
    BY <1>w, <2>1, Zenon
  <2> TAKE T \in SUBSET (1 .. N)
  <2>3. PICK V : V = [U \in SUBSET (1 .. N) |-> Peso(s, W, U)]
    OBVIOUS
  <2>4. V[T] = Peso(s, W, T)
    BY <2>3
  <2> QED
    BY <2>2, <2>3, <2>4, Zenon
<1>3. N \in Nat /\ N >= 1
  OBVIOUS
<1>4. \A T \in SUBSET (1 .. N) : IsFiniteSet(T) /\ Cardinality(T) \in Nat
  <2>1. IsFiniteSet(1 .. N)
    BY <1>3, FS_Interval
  <2> QED
    BY <2>1, FS_Subset, FS_CardinalityType
<1>p. PICK A : A = { n \in Nat : \A T \in SUBSET (1 .. N) : Cardinality(T) = n => W[T] \in Nat }
  OBVIOUS
<1>5. 0 \in A
  <2> SUFFICES ASSUME NEW T \in SUBSET (1 .. N), Cardinality(T) = 0
               PROVE  W[T] \in Nat
    BY <1>p
  <2>1. T = {}
    BY <1>4, FS_EmptySet
  <2>2. Peso(s, W, T) = 0
    BY <2>1 DEF Peso
  <2> QED
    BY <1>2, <2>2
<1>6. ASSUME NEW n \in Nat, n \in A
      PROVE  n + 1 \in A
  <2> SUFFICES ASSUME NEW T \in SUBSET (1 .. N), Cardinality(T) = n + 1
               PROVE  W[T] \in Nat
    BY <1>p
  <2>1. T # {} /\ T \subseteq Nat
    <3>1. IsFiniteSet(T)
      BY <1>4
    <3>2. T = {} => Cardinality(T) = 0
      BY <3>1, FS_EmptySet
    <3> QED
      BY <3>2
  <2>2. Min(T) \in T
    BY <2>1, MinEs
  <2>3. T \ {Min(T)} \in SUBSET (1 .. N) /\ Cardinality(T \ {Min(T)}) = n
    <3>1. IsFiniteSet(T)
      BY <1>4
    <3>2. Cardinality(T \ {Min(T)}) = Cardinality(T) - 1
      BY <2>2, <3>1, FS_RemoveElement
    <3>3. T \ {Min(T)} \in SUBSET (1 .. N)
      OBVIOUS
    <3> QED
      BY <3>2, <3>3
  <2>4. W[T \ {Min(T)}] \in Nat
    BY <1>6, <1>p, <2>3
  <2>5. Base * W[T \ {Min(T)}] \in Nat
    BY <2>4
  <2>6. Peso(s, W, T) = s[Min(T)] + Base * W[T \ {Min(T)}]
    BY <2>1, Zenon DEF Peso
  <2>7. s[Min(T)] \in Nat
    BY <2>2
  <2>8. W[T] = Peso(s, W, T)
    BY <1>2
  <2> QED
    BY <2>5, <2>6, <2>7, <2>8
<1>7. Nat \subseteq A
  BY <1>5, <1>6, InduccionNat
<1>8. \A T \in SUBSET (1 .. N) : W[T] \in Nat
  <2> SUFFICES ASSUME NEW T \in SUBSET (1 .. N)
               PROVE  W[T] \in Nat
    OBVIOUS
  <2>1. Cardinality(T) \in A
    BY <1>4, <1>7
  <2> QED
    BY <1>p, <2>1, Zenon
<1>9. Min(1 .. N) = 1 /\ 1 .. N # {}
  <2>1. 1 \in 1 .. N /\ 1 .. N \subseteq Nat
    BY <1>3
  <2>2. Min(1 .. N) \in 1 .. N /\ Min(1 .. N) <= 1
    BY <2>1, MinEs
  <2>3. Min(1 .. N) = 1
    BY <2>2
  <2> QED
    BY <2>1, <2>3, Zenon
<1>10. W[1 .. N] = s[1] + Base * W[(1 .. N) \ {1}]
  <2>1. W[1 .. N] = Peso(s, W, 1 .. N)
    BY <1>2
  <2>2. Peso(s, W, 1 .. N) = s[1] + Base * W[(1 .. N) \ {1}]
    BY <1>9, Zenon DEF Peso
  <2> QED
    BY <2>1, <2>2
<1>11. W[(1 .. N) \ {1}] \in Nat
  BY <1>8
<1>12. N = 1 => W[(1 .. N) \ {1}] = 0
  <2> SUFFICES ASSUME N = 1 PROVE W[(1 .. N) \ {1}] = 0
    OBVIOUS
  <2>1. (1 .. N) \ {1} = {}
    OBVIOUS
  <2>2. W[{}] = Peso(s, W, {})
    BY <1>2
  <2>3. Peso(s, W, {}) = 0
    BY DEF Peso
  <2> QED
    BY <2>1, <2>2, <2>3
<1>13. s[1] \in Nat
  OBVIOUS
<1> QED
  <2>1. PICK k \in Nat : k = W[(1 .. N) \ {1}]
    BY <1>11
  <2>2. W[1 .. N] = s[1] + Base * k
    BY <1>10, <2>1
  <2>3. W[1 .. N] \in Nat
    BY <1>8
  <2>4. N = 1 => W[1 .. N] = s[1]
    <3>1. N = 1 => k = 0
      BY <1>12, <2>1
    <3>2. k = 0 => Base * k = 0
      OBVIOUS
    <3> QED
      BY <1>13, <2>2, <3>1, <3>2
  <2>5. Pesado(N, s, W[1 .. N])
    BY <2>2, <2>3, <2>4, Zenon DEF Pesado
  <2> QED
    BY <1>w, <2>5, Zenon

\* Of the bytes of a number the first is its rest.
LEMMA DeBytesTipo ==
  ASSUME NEW s \in Seq(Byte), Len(s) \in Nat \ {0}
  PROVE  /\ DeBytes(s) \in Nat
         /\ \E k \in Nat : DeBytes(s) = s[1] + Base * k
         /\ Len(s) = 1 => DeBytes(s) = s[1]
<1>1. PICK N : N = Len(s)
  OBVIOUS
<1>2. DOMAIN s = 1 .. N /\ N \in Nat \ {0}
  BY <1>1
<1>3. \A k \in 1 .. N : s[k] \in Nat
  BY <1>1 DEF Byte
<1>4. N \in Nat /\ N # 0 /\ N \in Nat \ {0}
  BY <1>2
<1>5. Pesado(N, s, Pesos(s)[1 .. N])
  BY <1>2, <1>3, <1>4, PesosTipo, Zenon
<1>6. DeBytes(s) = Pesos(s)[1 .. N]
  BY <1>2, DeBytesEs, Zenon
<1>7. Pesado(N, s, DeBytes(s))
  BY <1>5, <1>6, Zenon
<1> QED
  BY <1>1, <1>7, Zenon DEF Pesado

-----------------------------------------------------------------------------
(* Each step is a step of the machine, or none.                             *)

LEMMA CicloEsPaso ==
  ASSUME Ciclo
  PROVE  PasoCiclo \/ UNCHANGED vars
<1>1. CASE CopyStringLee
  BY <1>1, Zenon DEF CopyStringLee
<1>2. CASE Recibe \/ Limpieza \/ Fetch \/ Decode \/ PideTamano
  <2>1. \/ CPURecibe \/ CPULimpia \/ CPUFetch \/ CPUDecode \/ CPUPideTamano
        \/ CPUPideTamanoEnVano
    BY <1>2, Zenon DEF Recibe, Limpieza, Fetch, Decode, PideTamano
  <2> QED
    BY <2>1, Zenon DEF Ciclo, PasoCiclo, CicloCPU
<1>3. CASE EjecutaCalculo \/ EjecutaMovIn \/ EjecutaMovOut \/ CopyStringEscribe
  <2>1. CPUEjecutaLocal
    BY <1>3, Zenon DEF EjecutaCalculo, EjecutaMovIn, EjecutaMovOut, CopyStringEscribe
  <2> QED
    BY <2>1, Zenon DEF Ciclo, PasoCiclo, CicloCPU
<1>4. CASE Contesta
  BY <1>4, Zenon DEF Contesta, Ciclo, PasoCiclo, CicloCPU
<1> QED
  BY <1>1, <1>2, <1>3, <1>4, Zenon DEF Ciclo

LEMMA NucleoEsPaso ==
  ASSUME NucleoConDatos
  PROVE  Nucleo
<1>1. CASE SinDatos
  BY <1>1, Zenon DEF SinDatos, Nucleo
<1>2. CASE DejaCPU \/ Continua \/ Bloquea
  BY <1>2, Zenon DEF DejaCPU, Continua, Bloquea, Nucleo
<1>3. CASE \E p \in Proceso :
              Despacha(p) \/ Despierta(p) \/ FinalizaOtro(p) \/ FinalizaEnVuelo(p)
  BY <1>3, Zenon DEF Despacha, Despierta, FinalizaOtro, FinalizaEnVuelo, Nucleo
<1> QED
  BY <1>1, <1>2, <1>3, Zenon DEF NucleoConDatos

LEMMA PasoEsPaso ==
  ASSUME [NextProgramas]_todas
  PROVE  [Next]_vars
<1>1. CASE cpu # "muerto" /\ NucleoConDatos
  BY <1>1, NucleoEsPaso, Zenon DEF Next
<1>2. CASE cpu # "muerto" /\ PasoMemoria /\ UNCHANGED datos
  BY <1>2, Zenon DEF Next
<1>3. CASE cpu # "muerto" /\ Ciclo
  BY <1>3, CicloEsPaso, Zenon DEF Next
<1>4. CASE cpu # "muerto" /\ PasoInterrupcion /\ UNCHANGED datos
  BY <1>4, Zenon DEF Next
<1>5. CASE cpu # "muerto" /\ Interfaz
  BY <1>5, Zenon DEF Interfaz, InterfazDuerme, InterfazLee, InterfazEscribe, SinInterfaz
<1>6. CASE Quieta /\ UNCHANGED datos
  BY <1>6, Zenon DEF Next
<1>7. CASE UNCHANGED todas
  BY <1>7, Zenon DEF todas
<1>8. CASE cpu # "muerto" /\ Carrera /\ UNCHANGED datos
  BY <1>8, Zenon DEF Next
<1> QED
  BY <1>1, <1>2, <1>3, <1>4, <1>5, <1>6, <1>7, <1>8, Zenon DEF NextProgramas

\* Programs with their data run on the machine as it was proved to be: of
\* any programs, whatever is in the registers, what is proved of Maquina
\* holds (servers.c, instruccion.c, memoria/src/main.c).
THEOREM ProgramasEnLaMaquina == SpecProgramas => Spec
<1>1. Init /\ InitDatos => Init
  OBVIOUS
<1>2. [NextProgramas]_todas => [Next]_vars
  BY PasoEsPaso
<1> QED
  BY <1>1, <1>2, PTL DEF SpecProgramas, Spec

LEMMA MaquinaEnProgramas == SpecProgramas => []InvarianteMaquina
BY ProgramasEnLaMaquina, InvarianteMaquinaSiempre, PTL

-----------------------------------------------------------------------------
(* The programs.                                                            *)

LEMMA TextoEs ==
  ASSUME caso \in 1 .. Len(Casos), NEW p \in Proceso
  PROVE  /\ Len(Texto(p)) \in 1 .. (Base ^ Ancho - 1)
         /\ Len(Texto(p)) \in Nat /\ Len(Texto(p)) < Base ^ Ancho
         /\ \A k \in 1 .. Len(Texto(p)) : OrdenPosible(Texto(p)[k], Len(Texto(p)))
         /\ Texto(p)[Len(Texto(p))][1] = "EXIT"
<1>1. /\ Len(Texto(p)) \in 1 .. (Base ^ Ancho - 1)
      /\ \A k \in 1 .. Len(Texto(p)) : OrdenPosible(Texto(p)[k], Len(Texto(p)))
      /\ Texto(p)[Len(Texto(p))][1] = "EXIT"
  BY ProgramasPosibles, Zenon DEF Texto
<1>2. Base ^ Ancho \in Nat
  BY PotenciasDeBase
<1>3. Len(Texto(p)) \in Nat /\ Len(Texto(p)) < Base ^ Ancho
  BY <1>1, <1>2
<1> QED
  BY <1>1, <1>3, Zenon

LEMMA ClaseEs ==
  ASSUME NEW i, NEW n, OrdenPosible(i, n)
  PROVE  /\ Clase(i) = "CALCULO" <=> i[1] \in DeRegistros
         /\ Clase(i) = "MOV" <=> i[1] \in {"MOV_IN", "MOV_OUT"}
         /\ Clase(i) = "IO" <=> i[1] \in DeIO
         /\ \A x \in {"COPY_STRING", "RESIZE", "WAIT", "SIGNAL", "EXIT"} :
               Clase(i) = x <=> i[1] = x
<1>1. i[1] \in DeRegistros \cup DeIO \cup {"MOV_IN", "MOV_OUT", "COPY_STRING",
                                          "RESIZE", "WAIT", "SIGNAL", "EXIT"}
  BY DEF OrdenPosible
<1>2. CASE i[1] \in DeRegistros
  <2>1. Clase(i) = "CALCULO"
    BY <1>2 DEF Clase, DeRegistros, DeIO
  <2> QED
    BY <1>2, <2>1 DEF DeRegistros, DeIO
<1>3. CASE i[1] \in DeIO
  <2>1. Clase(i) = "IO"
    BY <1>3 DEF Clase, DeRegistros, DeIO
  <2> QED
    BY <1>3, <2>1 DEF DeRegistros, DeIO
<1>4. CASE i[1] \in {"MOV_IN", "MOV_OUT"}
  <2>1. Clase(i) = "MOV"
    BY <1>4 DEF Clase, DeRegistros, DeIO
  <2> QED
    BY <1>4, <2>1 DEF DeRegistros, DeIO
<1>5. CASE i[1] \in {"COPY_STRING", "RESIZE", "WAIT", "SIGNAL", "EXIT"}
  <2>1. Clase(i) = i[1]
    BY <1>5 DEF Clase, DeRegistros, DeIO
  <2> QED
    BY <1>5, <2>1 DEF DeRegistros, DeIO
<1> QED
  BY <1>1, <1>2, <1>3, <1>4, <1>5

LEMMA OperandoEs == Operando \subseteq Registro /\ "PC" \notin Operando /\ "PC" \in Registro
                    /\ "SI" \in Operando /\ "DI" \in Operando
BY DEF Operando, Registro, Anchos

LEMMA DireccionesEs ==
  ASSUME NEW i, NEW n, OrdenPosible(i, n), NEW r \in Registros
  PROVE  /\ Direcciones(i, r) \in Seq(Nat) /\ Tamano(i, r) \in Nat
         /\ i[1] = "COPY_STRING" => Direcciones(i, r) = << r.SI, r.DI >>
         /\ i[1] = "MOV_IN" => Direcciones(i, r) = << r[i[3]] >>
         /\ i[1] \in {"MOV_OUT", "IO_STDIN_READ", "IO_STDOUT_WRITE"} =>
               Direcciones(i, r) = << r[i[2]] >>
         /\ i[1] \in DeRegistros \cup {"IO_GEN_SLEEP", "RESIZE", "WAIT", "SIGNAL", "EXIT"} =>
               Direcciones(i, r) = << >>
         /\ i[1] \in {"IO_STDIN_READ", "IO_STDOUT_WRITE"} => Tamano(i, r) = r[i[3]]
         /\ i[1] = "RESIZE" => Tamano(i, r) = i[2]
<1>1. \A x \in Operando : r[x] \in Nat
  BY OperandoEs, RegistroEs
<1>2. CASE i[1] = "COPY_STRING"
  <2>1. Direcciones(i, r) = << r.SI, r.DI >> /\ Tamano(i, r) = 0
    BY <1>2 DEF Direcciones, Tamano
  <2>2. r["SI"] \in Nat /\ r["DI"] \in Nat
    BY <1>1, OperandoEs
  <2>3. << r.SI, r.DI >> \in Seq(Nat)
    BY <2>2
  <2> QED
    BY <1>2, <2>1, <2>3 DEF DeRegistros
<1>3. CASE i[1] = "MOV_IN"
  <2>1. Direcciones(i, r) = << r[i[3]] >> /\ Tamano(i, r) = 0
    BY <1>3 DEF Direcciones, Tamano
  <2>2. r[i[3]] \in Nat
    BY <1>1, <1>3 DEF OrdenPosible
  <2> QED
    BY <1>3, <2>1, <2>2 DEF DeRegistros
<1>4. CASE i[1] \in {"MOV_OUT", "IO_STDIN_READ", "IO_STDOUT_WRITE"}
  <2>1. Direcciones(i, r) = << r[i[2]] >>
    BY <1>4 DEF Direcciones
  <2>2. r[i[2]] \in Nat /\ r[i[3]] \in Nat
    BY <1>1, <1>4 DEF OrdenPosible
  <2>3. /\ Tamano(i, r) \in Nat
        /\ i[1] \in {"IO_STDIN_READ", "IO_STDOUT_WRITE"} => Tamano(i, r) = r[i[3]]
    BY <1>4, <2>2 DEF Tamano
  <2> QED
    BY <1>4, <2>1, <2>2, <2>3 DEF DeRegistros
<1>5. CASE i[1] \in DeRegistros \cup {"IO_GEN_SLEEP", "RESIZE", "WAIT", "SIGNAL", "EXIT"}
  <2>1. Direcciones(i, r) = << >>
    BY <1>5 DEF Direcciones, DeRegistros
  <2>2. IF i[1] = "RESIZE" THEN Tamano(i, r) = i[2] /\ i[2] \in Nat ELSE Tamano(i, r) = 0
    BY <1>5 DEF Tamano, DeRegistros, OrdenPosible
  <2> QED
    BY <1>5, <2>1, <2>2 DEF DeRegistros
<1>6. i[1] \in DeRegistros \cup DeIO \cup {"MOV_IN", "MOV_OUT", "COPY_STRING",
                                          "RESIZE", "WAIT", "SIGNAL", "EXIT"}
  BY DEF OrdenPosible
<1> QED
  BY <1>2, <1>3, <1>4, <1>5, <1>6 DEF DeIO

-----------------------------------------------------------------------------
(* Where a process is, and what a step does with its registers.              *)

Donde ==
  /\ cpu = "espera" <=> pcb = 0
  /\ pcb # 0 => /\ pcb \in Proceso /\ situacion[pcb] = "EXEC"
                /\ despachados = << >> /\ contextos = << >>
  /\ \A k \in 1 .. Len(despachados) :
        /\ k = 1 /\ Len(despachados) = 1 /\ despachados[1] \in Proceso
        /\ situacion[despachados[1]] = "EXEC"
        /\ contextos = << >> /\ pcb = 0
  /\ \A k \in 1 .. Len(contextos) :
        /\ k = 1 /\ Len(contextos) = 1 /\ contextos[1].pid \in Proceso
        /\ situacion[contextos[1].pid] = "EXEC"
        /\ despachados = << >> /\ pcb = 0
  /\ \A p, q \in Proceso : situacion[p] = "EXEC" /\ situacion[q] = "EXEC" => p = q

LEMMA DondeEs ==
  ASSUME InvarianteMaquina
  PROVE  Donde
<1>1. UnTurno /\ 0 \notin Proceso
  BY DEF InvarianteMaquina
<1>2. CASE /\ \A p \in Proceso : situacion[p] # "EXEC"
           /\ despachados = << >> /\ contextos = << >> /\ cpu = "espera" /\ pcb = 0
  BY <1>2 DEF Donde
<1>3. ASSUME NEW x \in Proceso, \A p \in Proceso : situacion[p] = "EXEC" <=> p = x,
             despachados = << x >>, contextos = << >>, cpu = "espera", pcb = 0
      PROVE  Donde
  BY <1>3 DEF Donde
<1>4. ASSUME NEW x \in Proceso, \A p \in Proceso : situacion[p] = "EXEC" <=> p = x,
             despachados = << >>, contextos = << >>, cpu # "espera", pcb = x
      PROVE  Donde
  BY <1>1, <1>4 DEF Donde
<1>5. ASSUME NEW x \in Proceso, \A p \in Proceso : situacion[p] = "EXEC" <=> p = x,
             despachados = << >>, Len(contextos) = 1, contextos[1].pid = x,
             cpu = "espera", pcb = 0
      PROVE  Donde
  BY <1>5 DEF Donde
<1> QED
  BY <1>1, <1>2, <1>3, <1>4, <1>5 DEF UnTurno

LEMMA Uno ==
  ASSUME NEW S, NEW s \in Seq(S), Len(s) = 1
  PROVE  s # << >> /\ Head(s) = s[1] /\ s[1] \in S /\ Tail(s) = << >> /\ s = << s[1] >>
<1>1. s # << >> /\ Head(s) = s[1] /\ s[1] \in S
  OBVIOUS
<1>2. Tail(s) \in Seq(S) /\ Len(Tail(s)) = 0
  BY <1>1
<1>3. Tail(s) = << >>
  BY <1>2, SinElementos
<1>4. s = << s[1] >>
  <2>1. s = [k \in 1 .. 1 |-> s[k]]
    OBVIOUS
  <2>2. \A k \in 1 .. 1 : k = 1
    OBVIOUS
  <2>3. << s[1] >> = [k \in 1 .. 1 |-> s[k]]
    BY <2>2
  <2> QED
    BY <2>1, <2>3
<1> QED
  BY <1>1, <1>3, <1>4

\* The kernel takes the context of a process, the only one there is.
Llegada(p) ==
  /\ p \in Proceso /\ situacion[p] = "EXEC" /\ Llegado = p
  /\ contextos # << >> /\ Len(contextos) = 1 /\ contextos[1].pid = p
  /\ contextos[1] \in Contexto /\ contextos[1] = Head(contextos)
  /\ Tail(contextos) = << >>
  /\ devueltos[1] \in Registros /\ Len(devueltos) = 1
  /\ despachados = << >> /\ enviados = << >> /\ pcb = 0
  /\ registros' = [registros EXCEPT ![p] = devueltos[1]] /\ devueltos' = << >>

LEMMA LlegadaEs ==
  ASSUME InvarianteMaquina, TipoDatos, RecibeContexto
  PROVE  \E p \in Proceso : Llegada(p)
<1>1. Donde /\ contextos \in Seq(Contexto) /\ contextos # << >>
  BY DondeEs DEF InvarianteMaquina, TiposMaquina, RecibeContexto
<1>2. Len(contextos) = 1 /\ despachados = << >> /\ pcb = 0
      /\ contextos[1].pid \in Proceso /\ situacion[contextos[1].pid] = "EXEC"
  <2>1. 1 \in 1 .. Len(contextos)
    BY <1>1
  <2> QED
    BY <1>1, <2>1, Zenon DEF Donde
<1>3. Head(contextos) = contextos[1] /\ Tail(contextos) = << >> /\ contextos[1] \in Contexto
  BY <1>1, <1>2, Uno
<1>4. devueltos \in Seq(Registros) /\ Len(devueltos) = 1 /\ enviados \in Seq(Registros)
      /\ Len(enviados) = 0 /\ registros \in [Proceso -> Registros]
  BY <1>2 DEF TipoDatos
<1>5. Head(devueltos) = devueltos[1] /\ Tail(devueltos) = << >> /\ devueltos[1] \in Registros
  BY <1>4, Uno
<1>6. enviados = << >>
  BY <1>4, SinElementos
<1> DEFINE p == contextos[1].pid
           d == devueltos[1]
<1>7. actualizar_contexto_de_ejecucion(registros[p], d) = d
  BY <1>5 DEF actualizar_contexto_de_ejecucion, Registros
<1>8. Llegado = p
  BY <1>3 DEF Llegado
<1>9. registros' = [registros EXCEPT ![p] = d] /\ devueltos' = << >>
  <2>1. registros' = [registros EXCEPT ![Llegado] =
            actualizar_contexto_de_ejecucion(registros[Llegado], Head(devueltos))]
        /\ devueltos' = Tail(devueltos)
    BY DEF RecibeContexto
  <2> HIDE DEF p, d
  <2> QED
    BY <1>5, <1>7, <1>8, <2>1 DEF d
<1> QED
  BY <1>1, <1>2, <1>3, <1>4, <1>5, <1>6, <1>8, <1>9 DEF Llegada

\* The instruction that the CPU executes.
LEMMA EnCursoEs ==
  ASSUME InvarianteMaquina, TipoDatos, InstruccionPropia, cpu \in {"decode", "resize"}
  PROVE  /\ pcb \in Proceso /\ pcb # 0 /\ regs_cpu \in Registros
         /\ EnCurso = Texto(pcb)[regs_cpu.PC] /\ regs_cpu.PC \in 1 .. Len(Texto(pcb))
         /\ OrdenPosible(EnCurso, Len(Texto(pcb)))
         /\ instruccion.op = Clase(EnCurso)
         /\ instruccion.dirs = Direcciones(EnCurso, regs_cpu)
         /\ instruccion.tam = Tamano(EnCurso, regs_cpu)
         /\ EnCurso[1] # "EXIT" => regs_cpu.PC < Len(Texto(pcb))
         /\ fisicas \in Seq(Nat)
<1>1. Donde /\ cpu # "espera"
  BY DondeEs
<1>2. pcb \in Proceso /\ pcb # 0
  BY <1>1 DEF Donde
<1>3. regs_cpu \in Registros /\ caso \in 1 .. Len(Casos)
  BY DEF TipoDatos
<1>4. EnCurso = Texto(pcb)[regs_cpu.PC] /\ regs_cpu.PC \in 1 .. Len(Texto(pcb))
      /\ instruccion = decode(EnCurso, regs_cpu)
  BY DEF InstruccionPropia, EnCurso, Texto
<1>5. OrdenPosible(EnCurso, Len(Texto(pcb))) /\ Len(Texto(pcb)) \in Nat
      /\ Texto(pcb)[Len(Texto(pcb))][1] = "EXIT"
  BY <1>2, <1>3, <1>4, TextoEs
<1>6. EnCurso[1] # "EXIT" => regs_cpu.PC < Len(Texto(pcb))
  BY <1>4, <1>5
<1>7. fisicas \in Seq(Nat)
  BY DEF InvarianteMaquina, TiposMaquina
<1> QED
  BY <1>2, <1>3, <1>4, <1>5, <1>6, <1>7 DEF decode

\* What the CPU answers, and when.
Respuesta(op) ==
  \/ op \in Interrupciones /\ cpu \in {"pend_usuario", "pend_quantum", "ve_usuario", "ve_quantum"}
  \/ op = "OUT_OF_MEMORY" /\ cpu = "resize"
  \/ op \in {"WAIT", "SIGNAL"} /\ Decodificada /\ instruccion.op = op
  \/ op = "IO" /\ Decodificada /\ instruccion.op = "IO"
  \/ op = "FINALIZADO" /\ Decodificada /\ instruccion.op = "EXIT"

Contestado ==
  \/ /\ UNCHANGED << contextos, devueltos, pcb >>
     /\ cpu' \in {"pend_quantum", "limpia", "ve_usuario", "ve_quantum", "fetch"}
     /\ \/ /\ cpu \in {"pend_usuario", "pend_quantum", "ve_usuario", "ve_quantum"}
           /\ fisicas' = fisicas
        \/ cpu = "resize" /\ respuesta = "OK" /\ fisicas' = << >>
  \/ \E op \in OpsContexto :
        /\ Respuesta(op)
        /\ contextos' = << [pid |-> pcb, op |-> op, fisicas |-> fisicas,
                            tam |-> instruccion.tam] >>
        /\ devueltos' = << regs_cpu >>
        /\ cpu' = "espera" /\ pcb' = 0 /\ fisicas' = << >>

LEMMA ContestaEs ==
  ASSUME InvarianteMaquina, TipoDatos, Contesta
  PROVE  /\ pcb \in Proceso /\ contextos = << >> /\ devueltos = << >>
         /\ Contestado
         /\ UNCHANGED << despachados, paginas, pisado >>
<1>1. Donde /\ contextos \in Seq(Contexto)
  BY DondeEs DEF InvarianteMaquina, TiposMaquina
<1>2. cpu # "espera"
  BY DEF Contesta, CPUPendUsuario, CPUPendQuantum, CPUVeUsuario, CPUVeQuantum,
         CPURedimensionada, CPUSolicitaRecurso, CPUPideIO, CPUSale, Decodificada
<1>3. pcb \in Proceso /\ contextos = << >>
  BY <1>1, <1>2, Zenon DEF Donde
<1>4. devueltos = << >>
  <2>1. devueltos \in Seq(Registros) /\ Len(devueltos) = 0
    BY <1>3 DEF TipoDatos
  <2> QED
    BY <2>1, SinElementos
<1>5. devueltos' = IF contextos' = contextos THEN devueltos ELSE << regs_cpu >>
  <2>1. Append(devueltos, regs_cpu) = << regs_cpu >>
    BY <1>4
  <2> QED
    BY <2>1, Zenon DEF Contesta
<1>6. ASSUME NEW op \in OpsContexto, Responde(op), Respuesta(op)
      PROVE  Contestado /\ UNCHANGED despachados
  <2>1. contextos' = << [pid |-> pcb, op |-> op, fisicas |-> fisicas,
                         tam |-> instruccion.tam] >>
    BY <1>3, <1>6 DEF Responde
  <2>2. contextos' # contextos
    BY <1>3, <2>1
  <2>3. devueltos' = << regs_cpu >>
    BY <1>5, <2>2, Zenon
  <2>4. cpu' = "espera" /\ pcb' = 0 /\ fisicas' = << >> /\ UNCHANGED despachados
    BY <1>6, Zenon DEF Responde, Olvida
  <2> QED
    BY <1>6, <2>1, <2>3, <2>4, Zenon DEF Contestado
<1>7. ASSUME UNCHANGED << contextos, pcb, fisicas, despachados >>,
             cpu \in {"pend_usuario", "pend_quantum", "ve_usuario", "ve_quantum"},
             cpu' \in {"pend_quantum", "limpia", "ve_usuario", "ve_quantum", "fetch"}
      PROVE  Contestado
  BY <1>5, <1>7, Zenon DEF Contestado
<1>8. "INTERRUPTED_BY_USER" \in OpsContexto /\ "DESALOJO_QUANTUM" \in OpsContexto
      /\ "INTERRUPTED_BY_USER" \in Interrupciones /\ "DESALOJO_QUANTUM" \in Interrupciones
      /\ "OUT_OF_MEMORY" \in OpsContexto /\ "FINALIZADO" \in OpsContexto
      /\ "IO" \in OpsContexto /\ "WAIT" \in OpsContexto /\ "SIGNAL" \in OpsContexto
  BY DEF OpsContexto, Interrupciones
<1>9. CASE CPUPendUsuario
  <2>1. UNCHANGED << paginas, pisado >> /\ cpu = "pend_usuario"
    BY <1>9 DEF CPUPendUsuario, memoriaVars, bitVars
  <2>2. CASE Responde("INTERRUPTED_BY_USER")
    BY <1>3, <1>4, <1>6, <1>8, <2>1, <2>2 DEF Respuesta
  <2>3. CASE cpu' = "pend_quantum" /\ UNCHANGED << pcb, instruccion, fisicas,
                                          pid_solicita_recurso, socketVars >>
    BY <1>3, <1>4, <1>7, <2>1, <2>3 DEF socketVars
  <2> QED
    BY <1>9, <2>2, <2>3, Zenon DEF CPUPendUsuario
<1>10. CASE CPUPendQuantum
  <2>1. UNCHANGED << paginas, pisado >> /\ cpu = "pend_quantum"
    BY <1>10 DEF CPUPendQuantum, memoriaVars, bitVars
  <2>2. CASE Responde("DESALOJO_QUANTUM")
    BY <1>3, <1>4, <1>6, <1>8, <2>1, <2>2 DEF Respuesta
  <2>3. CASE cpu' = "limpia" /\ UNCHANGED << pcb, instruccion, fisicas, socketVars >>
    BY <1>3, <1>4, <1>7, <2>1, <2>3 DEF socketVars
  <2> QED
    BY <1>10, <2>2, <2>3, Zenon DEF CPUPendQuantum
<1>11. CASE CPUVeUsuario
  <2>1. UNCHANGED << paginas, pisado >> /\ cpu = "ve_usuario"
    BY <1>11 DEF CPUVeUsuario, memoriaVars, bitVars
  <2>2. CASE Responde("INTERRUPTED_BY_USER")
    BY <1>3, <1>4, <1>6, <1>8, <2>1, <2>2 DEF Respuesta
  <2>3. CASE cpu' = "ve_quantum" /\ UNCHANGED << pcb, instruccion, fisicas, socketVars >>
    BY <1>3, <1>4, <1>7, <2>1, <2>3 DEF socketVars
  <2> QED
    BY <1>11, <2>2, <2>3, Zenon DEF CPUVeUsuario
<1>12. CASE CPUVeQuantum
  <2>1. UNCHANGED << paginas, pisado >> /\ cpu = "ve_quantum"
    BY <1>12 DEF CPUVeQuantum, memoriaVars, bitVars
  <2>2. CASE Responde("DESALOJO_QUANTUM")
    BY <1>3, <1>4, <1>6, <1>8, <2>1, <2>2 DEF Respuesta
  <2>3. CASE cpu' = "fetch" /\ UNCHANGED << pcb, instruccion, fisicas, socketVars >>
    BY <1>3, <1>4, <1>7, <2>1, <2>3 DEF socketVars
  <2> QED
    BY <1>12, <2>2, <2>3, Zenon DEF CPUVeQuantum
<1>13. CASE CPURedimensionada
  <2>1. UNCHANGED << paginas, pisado >> /\ cpu = "resize" /\ respuesta # "ninguna"
    BY <1>13 DEF CPURedimensionada, TomaRespuesta, bitVars
  <2>2. CASE Responde("OUT_OF_MEMORY")
    BY <1>3, <1>4, <1>6, <1>8, <2>1, <2>2 DEF Respuesta
  <2>3. CASE respuesta # "OUT_OF_MEMORY" /\ cpu' = "ve_usuario" /\ Olvida
             /\ UNCHANGED << pcb, socketVars >>
    <3>1. respuesta = "OK"
      BY <2>1, <2>3 DEF InvarianteMaquina, TiposMaquina, EnServicio
    <3>2. UNCHANGED << contextos, devueltos, pcb, despachados >> /\ fisicas' = << >>
      BY <1>5, <2>3, Zenon DEF socketVars, Olvida
    <3> QED
      BY <1>3, <1>4, <2>1, <2>3, <3>1, <3>2 DEF Contestado
  <2> QED
    BY <1>13, <2>2, <2>3, Zenon DEF CPURedimensionada, RespondeSinMemoria
<1>14. CASE CPUSolicitaRecurso
  <2>1. UNCHANGED << paginas, pisado >> /\ Decodificada
        /\ instruccion.op \in {"WAIT", "SIGNAL"} /\ Responde(instruccion.op)
    BY <1>14 DEF CPUSolicitaRecurso, memoriaVars, bitVars
  <2>2. Respuesta(instruccion.op) /\ instruccion.op \in OpsContexto
    BY <1>8, <2>1 DEF Respuesta
  <2> QED
    BY <1>3, <1>4, <1>6, <2>1, <2>2
<1>15. CASE CPUPideIO
  <2>1. UNCHANGED << paginas, pisado >> /\ Decodificada
        /\ instruccion.op = "IO" /\ Responde("IO")
    BY <1>15 DEF CPUPideIO, memoriaVars, bitVars
  <2> QED
    BY <1>3, <1>4, <1>6, <1>8, <2>1 DEF Respuesta
<1>16. CASE CPUSale
  <2>1. UNCHANGED << paginas, pisado >> /\ Decodificada
        /\ instruccion.op = "EXIT" /\ Responde("FINALIZADO")
    BY <1>16 DEF CPUSale, memoriaVars, bitVars
  <2> QED
    BY <1>3, <1>4, <1>6, <1>8, <2>1 DEF Respuesta
<1>17. UNCHANGED despachados
  BY DEF Contesta, CPUPendUsuario, CPUPendQuantum, CPUVeUsuario, CPUVeQuantum,
         CPURedimensionada, CPUSolicitaRecurso, CPUPideIO, CPUSale, Responde,
         RespondeSinMemoria, socketVars
<1> QED
  BY <1>3, <1>4, <1>9, <1>10, <1>11, <1>12, <1>13, <1>14, <1>15, <1>16, <1>17, Zenon
     DEF Contesta

-----------------------------------------------------------------------------
(* The memory.                                                              *)

LEMMA LeidosEs ==
  ASSUME user_memory \in [0 .. TamMemoria - 1 -> Byte],
         NEW a \in Nat, NEW n \in Nat, Dentro(a, n)
  PROVE  /\ Leidos(a, n) \in Seq(Byte) /\ Len(Leidos(a, n)) = n
         /\ \A k \in 1 .. n : Leidos(a, n)[k] = user_memory[a + k - 1]
<1>1. ASSUME NEW k \in 1 .. n
      PROVE  user_memory[a + k - 1] \in Byte
  <2>1. a + k - 1 \in 0 .. TamMemoria - 1
    BY DEF Dentro
  <2> QED
    BY <2>1
<1>2. Leidos(a, n) \in [1 .. n -> Byte]
  BY <1>1 DEF Leidos
<1>3. \A k \in 1 .. n : Leidos(a, n)[k] = user_memory[a + k - 1]
  BY DEF Leidos
<1> QED
  BY <1>2, <1>3, SonBytes

LEMMA EscribeEs ==
  ASSUME user_memory \in [0 .. TamMemoria - 1 -> Byte],
         NEW a \in Nat, NEW s \in Seq(Byte), Escribe(a, s)
  PROVE  /\ user_memory' \in [0 .. TamMemoria - 1 -> Byte]
         /\ \A x \in 0 .. TamMemoria - 1 :
               x \notin a .. a + Len(s) - 1 => user_memory'[x] = user_memory[x]
         /\ Dentro(a, Len(s)) =>
               \A x \in a .. a + Len(s) - 1 : user_memory'[x] = s[x - a + 1]
<1>1. CASE ~ Dentro(a, Len(s))
  BY <1>1 DEF Escribe
<1>2. CASE Dentro(a, Len(s))
  <2>1. DOMAIN user_memory = 0 .. TamMemoria - 1
    OBVIOUS
  <2>2. user_memory' = [x \in 0 .. TamMemoria - 1 |->
            IF x \in a .. a + Len(s) - 1 THEN s[x - a + 1] ELSE user_memory[x]]
    BY <1>2, <2>1 DEF Escribe
  <2>3. ASSUME NEW x \in a .. a + Len(s) - 1
        PROVE  x - a + 1 \in 1 .. Len(s) /\ s[x - a + 1] \in Byte /\ x \in 0 .. TamMemoria - 1
    <3>1. x - a + 1 \in 1 .. Len(s)
      OBVIOUS
    <3>2. x \in 0 .. TamMemoria - 1
      BY <1>2 DEF Dentro
    <3> QED
      BY <3>1, <3>2
  <2>4. user_memory' \in [0 .. TamMemoria - 1 -> Byte]
    BY <2>2, <2>3
  <2> QED
    BY <2>2, <2>3, <2>4
<1> QED
  BY <1>1, <1>2

-----------------------------------------------------------------------------
(* The types.                                                               *)

\* The steps that do nothing to the data.
SinMasDatos ==
  \/ SinDatos \/ PasoMemoria \/ PasoInterrupcion \/ Quieta \/ UNCHANGED vars
  \/ CPULimpia \/ CPUDecode \/ CPUPideTamano \/ CPUPideTamanoEnVano \/ Carrera
  \/ \E p \in Proceso : Despierta(p)

LEMMA SinMasDatosEs ==
  ASSUME SinMasDatos
  PROVE  UNCHANGED << despachados, contextos >>
<1>1. CASE SinDatos
  BY <1>1 DEF SinDatos, NucleoCrea, NucleoAdmite, NucleoFinalizaNuevo, NucleoDesaloja,
              NucleoFinaliza, cpuVars, socketVars
<1>2. CASE PasoMemoria \/ Quieta \/ UNCHANGED vars
  BY <1>2 DEF PasoMemoria, Quieta, vars, cpuVars, socketVars
<1>3. CASE \/ PasoInterrupcion \/ CPULimpia \/ CPUDecode \/ CPUPideTamano
           \/ CPUPideTamanoEnVano \/ Carrera
  BY <1>3 DEF PasoInterrupcion, InterrupcionLlega, CPULimpia, CPUDecode, CPUPideTamano,
              CPUPideTamanoEnVano, Carrera, socketVars
<1>4. CASE \E p \in Proceso : Despierta(p)
  BY <1>4 DEF Despierta, NucleoDespierta, cpuVars, socketVars
<1> QED
  BY <1>1, <1>2, <1>3, <1>4 DEF SinMasDatos

\* What a step is, as far as the data goes.
LEMMA PasoDeDatos ==
  ASSUME [NextProgramas]_todas
  PROVE  \/ SinMasDatos /\ UNCHANGED datos
         \/ Recibe \/ Fetch \/ Contesta \/ EjecutaCalculo \/ EjecutaMovIn
         \/ EjecutaMovOut \/ CopyStringLee \/ CopyStringEscribe
         \/ DejaCPU \/ Continua \/ Bloquea
         \/ \E p \in Proceso : Despacha(p) \/ FinalizaOtro(p) \/ FinalizaEnVuelo(p)
                               \/ InterfazDuerme(p) \/ InterfazLee(p) \/ InterfazEscribe(p)
<1>1. CASE cpu # "muerto" /\ NucleoConDatos
  <2>1. CASE SinDatos
    BY <2>1, Zenon DEF SinDatos, SinMasDatos
  <2>2. CASE \E p \in Proceso : Despierta(p)
    BY <2>2, Zenon DEF Despierta, SinMasDatos
  <2> QED
    BY <1>1, <2>1, <2>2, Zenon DEF NucleoConDatos
<1>2. CASE cpu # "muerto" /\ Ciclo
  BY <1>2, Zenon DEF Ciclo, Limpieza, Decode, PideTamano, SinMasDatos
<1>3. CASE cpu # "muerto" /\ Interfaz
  BY <1>3, Zenon DEF Interfaz
<1>4. CASE \/ cpu # "muerto" /\ PasoMemoria /\ UNCHANGED datos
           \/ cpu # "muerto" /\ PasoInterrupcion /\ UNCHANGED datos
           \/ cpu # "muerto" /\ Carrera /\ UNCHANGED datos
           \/ Quieta /\ UNCHANGED datos
  BY <1>4, Zenon DEF SinMasDatos
<1>5. CASE UNCHANGED todas
  BY <1>5, Zenon DEF SinMasDatos, todas
<1> QED
  BY <1>1, <1>2, <1>3, <1>4, <1>5, Zenon DEF NextProgramas

TiposRegistros ==
  /\ caso \in 1 .. Len(Casos)
  /\ registros \in [Proceso -> Registros] /\ regs_cpu \in Registros
  /\ enviados \in Seq(Registros) /\ devueltos \in Seq(Registros)
  /\ Len(enviados) = Len(despachados) /\ Len(devueltos) = Len(contextos)
TiposBytes ==
  /\ user_memory \in [0 .. TamMemoria - 1 -> Byte]
  /\ copia \in [hay : BOOLEAN, bien : BOOLEAN, bytes : Seq(Byte)]
  /\ salida \in [Proceso -> Seq(Seq(Byte))]
  /\ tocados \subseteq Proceso

LEMMA LocalEs ==
  ASSUME CPUEjecutaLocal
  PROVE  /\ Decodificada /\ instruccion.op \in {"CALCULO", "MOV", "COPY_STRING"}
         /\ cpu' = "ve_usuario" /\ instruccion' = SinInstruccion /\ fisicas' = << >>
         /\ UNCHANGED << pcb, despachados, contextos, paginas, pisado >>
BY DEF CPUEjecutaLocal, Olvida, socketVars, memoriaVars, bitVars

LEMMA AsignaMovIn ==
  ASSUME InvarianteMaquina, TipoDatos, InstruccionPropia, EjecutaMovIn
  PROVE  /\ pcb \in Proceso /\ EnCurso[2] \in Operando /\ fisicas[1] \in Nat
         /\ OrdenPosible(EnCurso, Len(Texto(pcb))) /\ Len(fisicas) = 1
         /\ \/ ~ Dentro(fisicas[1], Ancho) /\ regs_cpu' = regs_cpu
            \/ \E v \in Nat :
                  /\ Dentro(fisicas[1], Ancho)
                  /\ v = DeBytes(Leidos(fisicas[1], Ancho))
                  /\ regs_cpu' = Asigna(regs_cpu, EnCurso[2], v)
<1>1. Decodificada /\ EnCurso[1] = "MOV_IN" /\ cpu = "decode"
      /\ regs_cpu' = IF Dentro(fisicas[1], Ancho)
                     THEN Asigna(regs_cpu, EnCurso[2], DeBytes(Leidos(fisicas[1], Ancho)))
                     ELSE regs_cpu
  BY LocalEs DEF EjecutaMovIn, Decodificada
<1>2. /\ pcb \in Proceso /\ regs_cpu \in Registros /\ fisicas \in Seq(Nat)
      /\ OrdenPosible(EnCurso, Len(Texto(pcb)))
      /\ instruccion.dirs = Direcciones(EnCurso, regs_cpu)
  BY <1>1, EnCursoEs
<1>3. EnCurso[2] \in Operando /\ Len(instruccion.dirs) = 1
  <2>1. Direcciones(EnCurso, regs_cpu) = << regs_cpu[EnCurso[3]] >>
    BY <1>1, <1>2, DireccionesEs
  <2>2. EnCurso[2] \in Operando
    BY <1>1, <1>2 DEF OrdenPosible
  <2> QED
    BY <1>2, <2>1, <2>2
<1>4. Len(fisicas) = 1 /\ fisicas[1] \in Nat
  <2>1. Len(fisicas) = Len(instruccion.dirs)
    BY <1>1 DEF Decodificada
  <2>2. Len(fisicas) = 1
    BY <1>3, <2>1
  <2>3. fisicas \in Seq(Nat)
    BY <1>2
  <2> QED
    BY <2>2, <2>3
<1>5. Dentro(fisicas[1], Ancho) => DeBytes(Leidos(fisicas[1], Ancho)) \in Nat
  <2> SUFFICES ASSUME Dentro(fisicas[1], Ancho)
               PROVE  DeBytes(Leidos(fisicas[1], Ancho)) \in Nat
    OBVIOUS
  <2>1. Leidos(fisicas[1], Ancho) \in Seq(Byte) /\ Len(Leidos(fisicas[1], Ancho)) = Ancho
    BY <1>4, LeidosEs DEF TipoDatos
  <2> QED
    BY <2>1, DeBytesTipo
<1> QED
  BY <1>1, <1>2, <1>3, <1>4, <1>5, Zenon

LEMMA PasoTiposRegistros ==
  ASSUME InvarianteMaquina, TipoDatos, InstruccionPropia, [NextProgramas]_todas
  PROVE  TiposRegistros'
<1>1. /\ caso \in 1 .. Len(Casos)
      /\ registros \in [Proceso -> Registros] /\ regs_cpu \in Registros
      /\ enviados \in Seq(Registros) /\ devueltos \in Seq(Registros)
      /\ Len(enviados) = Len(despachados) /\ Len(devueltos) = Len(contextos)
      /\ user_memory \in [0 .. TamMemoria - 1 -> Byte]
  BY DEF TipoDatos
<1>2. despachados \in Seq(Proceso) /\ contextos \in Seq(Contexto)
  BY DEF InvarianteMaquina, TiposMaquina, TypeOKMaquina
<1> USE DEF TiposRegistros
<1>3. ASSUME UNCHANGED << caso, registros, regs_cpu, enviados, devueltos,
                          despachados, contextos >>
      PROVE  TiposRegistros'
  BY <1>1, <1>3
<1>4. CASE SinMasDatos /\ UNCHANGED datos
  <2>1. UNCHANGED << despachados, contextos >>
    BY <1>4, SinMasDatosEs
  <2>2. UNCHANGED << caso, registros, regs_cpu, enviados, devueltos >>
    BY <1>4 DEF datos, kernelDatos, cpuDatos, socketDatos
  <2> QED
    BY <1>3, <2>1, <2>2
<1>5. CASE Recibe
  <2>1. despachados # << >> /\ despachados' = Tail(despachados) /\ contextos' = contextos
    BY <1>5 DEF Recibe, CPURecibe
  <2>2. regs_cpu' = Head(enviados) /\ enviados' = Tail(enviados)
        /\ UNCHANGED << caso, registros, devueltos >>
    BY <1>5 DEF Recibe, kernelDatos
  <2>3. enviados # << >>
    BY <1>1, <1>2, <2>1
  <2> QED
    BY <1>1, <1>2, <2>1, <2>2, <2>3
<1>6. CASE Fetch
  <2>1. UNCHANGED << caso, registros, enviados, devueltos, despachados, contextos >>
        /\ regs_cpu' = Avanza(regs_cpu)
    BY <1>6 DEF Fetch, CPUFetch, kernelDatos, socketDatos, socketVars
  <2>2. Avanza(regs_cpu) \in Registros
    BY <1>1, SumaTipo, OperandoEs DEF Avanza
  <2> QED
    BY <1>1, <2>1, <2>2
<1>7. CASE Contesta
  <2>1. UNCHANGED << caso, registros, regs_cpu, enviados >>
    BY <1>7 DEF Contesta, kernelDatos, cpuDatos
  <2>2. UNCHANGED despachados /\ Contestado
    BY <1>7, ContestaEs
  <2>3. CASE UNCHANGED << contextos, devueltos >>
    BY <1>3, <2>1, <2>2, <2>3
  <2>4. CASE \E op : contextos' = << [pid |-> pcb, op |-> op, fisicas |-> fisicas,
                                      tam |-> instruccion.tam] >>
                     /\ devueltos' = << regs_cpu >>
    BY <1>1, <2>1, <2>2, <2>4
  <2> QED
    BY <2>2, <2>3, <2>4, Zenon DEF Contestado
<1>8. CASE EjecutaCalculo
  <2>1. UNCHANGED << caso, registros, enviados, devueltos, despachados, contextos >>
        /\ regs_cpu' = Calcula(EnCurso, regs_cpu) /\ cpu = "decode"
    BY <1>8, LocalEs DEF EjecutaCalculo, Decodificada, kernelDatos, socketDatos
  <2>2. OrdenPosible(EnCurso, Len(Texto(pcb))) /\ pcb \in Proceso
    BY <2>1, EnCursoEs
  <2>3. Len(Texto(pcb)) \in 0 .. Base ^ Ancho
    <3>1. Len(Texto(pcb)) \in Nat /\ Len(Texto(pcb)) < Base ^ Ancho
      BY <1>1, <2>2, TextoEs
    <3>2. Base ^ Ancho \in Nat
      BY PotenciasDeBase
    <3> QED
      BY <3>1, <3>2
  <2>4. Calcula(EnCurso, regs_cpu) \in Registros
    BY <1>1, <2>2, <2>3, CalculaTipo
  <2> QED
    BY <1>1, <2>1, <2>4
<1>9. CASE EjecutaMovIn
  <2>1. UNCHANGED << caso, registros, enviados, devueltos, despachados, contextos >>
    BY <1>9, LocalEs DEF EjecutaMovIn, kernelDatos, socketDatos
  <2>2. regs_cpu' \in Registros
    <3>1. CASE regs_cpu' = regs_cpu
      BY <1>1, <3>1
    <3>2. ASSUME NEW v \in Nat, regs_cpu' = Asigna(regs_cpu, EnCurso[2], v),
                 EnCurso[2] \in Operando
          PROVE  regs_cpu' \in Registros
      <4>1. EnCurso[2] \in Registro /\ v \in Int
        BY <3>2, OperandoEs
      <4> QED
        BY <1>1, <3>2, <4>1, AsignaTipo
    <3> QED
      BY <1>9, <3>1, <3>2, AsignaMovIn, Zenon
  <2> QED
    BY <1>1, <2>1, <2>2
<1>10. CASE EjecutaMovOut \/ CopyStringEscribe
  BY <1>3, <1>10, LocalEs DEF EjecutaMovOut, CopyStringEscribe, kernelDatos, cpuDatos, socketDatos
<1>11. CASE CopyStringLee
  BY <1>3, <1>11 DEF CopyStringLee, kernelDatos, socketDatos, vars, cpuVars, socketVars
<1>12. CASE DejaCPU
  <2>1. UNCHANGED << caso, regs_cpu, enviados >> /\ RecibeContexto
    BY <1>12 DEF DejaCPU, cpuDatos
  <2>2. PICK p \in Proceso : Llegada(p)
    BY <2>1, LlegadaEs
  <2>3. contextos' = Tail(contextos) /\ despachados' = despachados
    BY <1>12 DEF DejaCPU, NucleoTermina, NucleoReencola
  <2> QED
    BY <1>1, <2>1, <2>2, <2>3 DEF Llegada
<1>13. CASE Bloquea
  <2>1. UNCHANGED << caso, regs_cpu, enviados >> /\ RecibeContexto
    BY <1>13 DEF Bloquea, cpuDatos
  <2>2. PICK p \in Proceso : Llegada(p)
    BY <2>1, LlegadaEs
  <2>3. contextos' = Tail(contextos) /\ despachados' = despachados
    BY <1>13 DEF Bloquea, NucleoBloquea
  <2> QED
    BY <1>1, <2>1, <2>2, <2>3 DEF Llegada
<1>14. CASE Continua
  <2>1. UNCHANGED << caso, regs_cpu >> /\ RecibeContexto
        /\ enviados' = Append(enviados, registros'[Llegado])
    BY <1>14 DEF Continua, cpuDatos
  <2>2. PICK p \in Proceso : Llegada(p)
    BY <2>1, LlegadaEs
  <2>3. contextos' = Tail(contextos) /\ despachados' = Append(despachados, Llegado)
    BY <1>14 DEF Continua, NucleoContinua
  <2>4. registros' \in [Proceso -> Registros] /\ registros'[Llegado] \in Registros
    BY <1>1, <2>2 DEF Llegada
  <2>5. enviados' = << registros'[Llegado] >> /\ despachados' = << Llegado >>
    BY <2>1, <2>2, <2>3 DEF Llegada
  <2>6. contextos' = << >> /\ devueltos' = << >>
    BY <2>2, <2>3 DEF Llegada
  <2> QED
    BY <1>1, <2>1, <2>4, <2>5, <2>6
<1>15. ASSUME NEW p \in Proceso, Despacha(p)
       PROVE  TiposRegistros'
  <2>1. UNCHANGED << caso, registros, regs_cpu, devueltos, contextos >>
        /\ enviados' = Append(enviados, registros[p])
        /\ despachados' = Append(despachados, p)
    BY <1>15 DEF Despacha, NucleoDespacha, kernelDatos, cpuDatos
  <2> QED
    BY <1>1, <1>2, <2>1
<1>16. ASSUME NEW p \in Proceso, FinalizaOtro(p) \/ FinalizaEnVuelo(p)
       PROVE  TiposRegistros'
  BY <1>3, <1>16 DEF FinalizaOtro, NucleoFinalizaOtro, FinalizaEnVuelo,
                     NucleoFinalizaEnVuelo, kernelDatos, cpuDatos, socketDatos,
                     cpuVars, socketVars
<1>17. ASSUME NEW p \in Proceso, InterfazDuerme(p) \/ InterfazLee(p) \/ InterfazEscribe(p)
       PROVE  TiposRegistros'
  BY <1>3, <1>17 DEF InterfazDuerme, InterfazLee, InterfazEscribe, SinInterfaz, cpuDatos,
                     socketDatos, vars, cpuVars, socketVars
<1> QED
  BY <1>4, <1>5, <1>6, <1>7, <1>8, <1>9, <1>10, <1>11, <1>12, <1>13, <1>14, <1>15,
     <1>16, <1>17, PasoDeDatos, Zenon

LEMMA TocaEs ==
  ASSUME NEW b, NEW p \in Proceso, NEW S, TocaSi(b, p, S)
  PROVE  /\ tocados \subseteq tocados'
         /\ tocados \subseteq Proceso /\ S \subseteq Proceso => tocados' \subseteq Proceso
         /\ b => p \in tocados' /\ S \subseteq tocados'
         /\ ~ b => tocados' = tocados
BY DEF TocaSi

LEMMA AfectadosEs == \A a, n : Afectados(a, n) \subseteq Proceso /\ {} \subseteq Proceso
BY DEF Afectados

\* A COPY_STRING, and where it reads and writes.
LEMMA CopiaEs ==
  ASSUME InvarianteMaquina, TipoDatos, InstruccionPropia, Decodificada,
         instruccion.op = "COPY_STRING"
  PROVE  /\ pcb \in Proceso /\ EnCurso[1] = "COPY_STRING" /\ EnCurso[2] \in Nat
         /\ Len(fisicas) = 2 /\ fisicas[1] \in Nat /\ fisicas[2] \in Nat
         /\ instruccion.dirs = << regs_cpu.SI, regs_cpu.DI >>
<1>1. /\ pcb \in Proceso /\ regs_cpu \in Registros /\ fisicas \in Seq(Nat)
      /\ OrdenPosible(EnCurso, Len(Texto(pcb))) /\ instruccion.op = Clase(EnCurso)
      /\ instruccion.dirs = Direcciones(EnCurso, regs_cpu)
  BY EnCursoEs DEF Decodificada
<1>2. EnCurso[1] = "COPY_STRING"
  BY <1>1, ClaseEs
<1>3. EnCurso[2] \in Nat
  BY <1>1, <1>2 DEF OrdenPosible
<1>4. instruccion.dirs = << regs_cpu.SI, regs_cpu.DI >>
  BY <1>1, <1>2, DireccionesEs
<1>5. Len(fisicas) = 2 /\ fisicas[1] \in Nat /\ fisicas[2] \in Nat
  <2>1. Len(fisicas) = Len(instruccion.dirs)
    BY DEF Decodificada
  <2>2. Len(fisicas) = 2
    BY <1>4, <2>1
  <2>3. fisicas \in Seq(Nat)
    BY <1>1
  <2>4. 1 \in 1 .. Len(fisicas) /\ 2 \in 1 .. Len(fisicas)
    BY <2>2
  <2>5. fisicas[1] \in Nat
    BY <2>3, <2>4, ElementOfSeq, Zenon
  <2>6. fisicas[2] \in Nat
    BY <2>3, <2>4, ElementOfSeq, Zenon
  <2> QED
    BY <2>2, <2>5, <2>6, Zenon
<1> QED
  BY <1>1, <1>2, <1>3, <1>4, <1>5

\* A MOV_OUT, and what it writes.
LEMMA MovOutEs ==
  ASSUME InvarianteMaquina, TipoDatos, InstruccionPropia, EjecutaMovOut
  PROVE  /\ pcb \in Proceso /\ Decodificada /\ EnCurso[1] = "MOV_OUT"
         /\ OrdenPosible(EnCurso, Len(Texto(pcb)))
         /\ Len(fisicas) = 1 /\ fisicas[1] \in Nat
         /\ EnCurso[2] \in Operando /\ EnCurso[3] \in Operando
         /\ regs_cpu[EnCurso[3]] \in Nat
         /\ instruccion.dirs = << regs_cpu[EnCurso[2]] >>
         /\ EnBytes(regs_cpu[EnCurso[3]], Bytes(EnCurso[3])) \in Seq(Byte)
         /\ Len(EnBytes(regs_cpu[EnCurso[3]], Bytes(EnCurso[3]))) = Bytes(EnCurso[3])
         /\ Bytes(EnCurso[3]) \in 1 .. Ancho
<1>1. Decodificada /\ EnCurso[1] = "MOV_OUT" /\ cpu = "decode"
  BY LocalEs DEF EjecutaMovOut, Decodificada
<1>2. /\ pcb \in Proceso /\ regs_cpu \in Registros /\ fisicas \in Seq(Nat)
      /\ OrdenPosible(EnCurso, Len(Texto(pcb)))
      /\ instruccion.dirs = Direcciones(EnCurso, regs_cpu)
  BY <1>1, EnCursoEs
<1>3. EnCurso[2] \in Operando /\ EnCurso[3] \in Operando
  BY <1>1, <1>2 DEF OrdenPosible
<1>4. instruccion.dirs = << regs_cpu[EnCurso[2]] >>
  BY <1>1, <1>2, DireccionesEs
<1>5. Len(fisicas) = 1 /\ fisicas[1] \in Nat
  <2>1. Len(fisicas) = Len(instruccion.dirs)
    BY <1>1 DEF Decodificada
  <2>2. Len(instruccion.dirs) = 1
    BY <1>4
  <2>3. Len(fisicas) = 1 /\ fisicas \in Seq(Nat)
    BY <1>2, <2>1, <2>2, Zenon
  <2> QED
    BY <2>3, Uno
<1>6. regs_cpu[EnCurso[3]] \in Nat /\ Bytes(EnCurso[3]) \in 1 .. Ancho
  BY <1>2, <1>3, OperandoEs, RegistroEs, BytesEs
<1>7. /\ EnBytes(regs_cpu[EnCurso[3]], Bytes(EnCurso[3])) \in Seq(Byte)
      /\ Len(EnBytes(regs_cpu[EnCurso[3]], Bytes(EnCurso[3]))) = Bytes(EnCurso[3])
  BY <1>6, EnBytesEs
<1> QED
  BY <1>1, <1>2, <1>3, <1>4, <1>5, <1>6, <1>7

LEMMA PasoTiposBytes ==
  ASSUME InvarianteMaquina, TipoDatos, InstruccionPropia, [NextProgramas]_todas
  PROVE  TiposBytes'
<1>1. /\ user_memory \in [0 .. TamMemoria - 1 -> Byte]
      /\ copia \in [hay : BOOLEAN, bien : BOOLEAN, bytes : Seq(Byte)]
      /\ entrada \in [Proceso -> Pedidos]
      /\ salida \in [Proceso -> Seq(Seq(Byte))]
      /\ tocados \subseteq Proceso
  BY DEF TipoDatos
<1> USE DEF TiposBytes
<1>2. ASSUME UNCHANGED << user_memory, copia, salida, tocados >>
      PROVE  TiposBytes'
  BY <1>1, <1>2
<1>3. CASE SinMasDatos /\ UNCHANGED datos
  BY <1>2, <1>3 DEF datos, cpuDatos, accesos
<1>4. CASE Recibe \/ Fetch \/ Contesta \/ EjecutaCalculo
  BY <1>2, <1>4 DEF Recibe, Fetch, Contesta, EjecutaCalculo, cpuDatos, accesos
<1>5. CASE DejaCPU \/ Continua \/ Bloquea
  BY <1>2, <1>5 DEF DejaCPU, Continua, Bloquea, cpuDatos, accesos
<1>6. ASSUME NEW p \in Proceso, Despacha(p) \/ FinalizaOtro(p) \/ InterfazDuerme(p)
      PROVE  TiposBytes'
  BY <1>2, <1>6 DEF Despacha, FinalizaOtro, InterfazDuerme, SinInterfaz, cpuDatos, accesos
<1>7. CASE EjecutaMovIn
  <2>1. UNCHANGED << user_memory, copia, salida >>
        /\ TocaSi(Cruza(fisicas[1], Bytes(EnCurso[2])) \/ ~ Dentro(fisicas[1], Ancho)
                     \/ pcb \in redujo, pcb, {})
    BY <1>7 DEF EjecutaMovIn
  <2>2. pcb \in Proceso
    BY <1>7, AsignaMovIn
  <2>3. tocados' \subseteq Proceso
    BY <1>1, <2>1, <2>2 DEF TocaSi
  <2> QED
    BY <1>1, <2>1, <2>3
<1>8. CASE EjecutaMovOut
  <2>1. UNCHANGED << copia, salida >>
        /\ Escribe(fisicas[1], EnBytes(regs_cpu[EnCurso[3]], Bytes(EnCurso[3])))
        /\ TocaSi(Cruza(fisicas[1], Bytes(EnCurso[3])) \/ pcb \in redujo, pcb,
                  Afectados(fisicas[1], Bytes(EnCurso[3])))
    BY <1>8 DEF EjecutaMovOut, cpuDatos
  <2>2. tocados' \subseteq Proceso
    BY <1>1, <1>8, <2>1, MovOutEs, TocaEs, AfectadosEs
  <2>3. user_memory' \in [0 .. TamMemoria - 1 -> Byte]
    BY <1>1, <1>8, <2>1, MovOutEs, EscribeEs
  <2> QED
    BY <1>1, <2>1, <2>2, <2>3
<1>9. CASE CopyStringLee
  <2>1. /\ UNCHANGED << user_memory, salida >>
        /\ copia' = [hay |-> TRUE, bien |-> Dentro(fisicas[1], EnCurso[2]),
                     bytes |-> IF Dentro(fisicas[1], EnCurso[2])
                               THEN Leidos(fisicas[1], EnCurso[2]) ELSE << >>]
        /\ TocaSi(Cruza(fisicas[1], EnCurso[2]) \/ pcb \in redujo, pcb, {})
        /\ Decodificada /\ instruccion.op = "COPY_STRING"
    BY <1>9 DEF CopyStringLee
  <2>2. pcb \in Proceso /\ EnCurso[2] \in Nat /\ fisicas[1] \in Nat
    BY <2>1, CopiaEs
  <2>3. tocados' \subseteq Proceso
    BY <1>1, <2>1, <2>2 DEF TocaSi
  <2>4. Dentro(fisicas[1], EnCurso[2]) => Leidos(fisicas[1], EnCurso[2]) \in Seq(Byte)
    BY <1>1, <2>2, LeidosEs
  <2>5. Dentro(fisicas[1], EnCurso[2]) \in BOOLEAN
    BY DEF Dentro
  <2>6. copia' \in [hay : BOOLEAN, bien : BOOLEAN, bytes : Seq(Byte)]
    BY <2>1, <2>4, <2>5
  <2> QED
    BY <1>1, <2>1, <2>3, <2>6
<1>10. CASE CopyStringEscribe
  <2>1. /\ UNCHANGED salida /\ copia' = SinCopia
        /\ Decodificada /\ instruccion.op = "COPY_STRING"
        /\ IF ~ copia.bien THEN UNCHANGED << user_memory, tocados >>
           ELSE /\ Escribe(fisicas[2], copia.bytes)
                /\ TocaSi(Cruza(fisicas[2], EnCurso[2]) \/ pcb \in redujo, pcb,
                          Afectados(fisicas[2], EnCurso[2]))
    BY <1>10, LocalEs DEF CopyStringEscribe, accesos
  <2>2. pcb \in Proceso /\ EnCurso[2] \in Nat /\ fisicas[2] \in Nat
    BY <2>1, CopiaEs
  <2>3. copia' \in [hay : BOOLEAN, bien : BOOLEAN, bytes : Seq(Byte)]
    BY <2>1 DEF SinCopia
  <2>4. CASE UNCHANGED << user_memory, tocados >>
    BY <1>1, <2>1, <2>3, <2>4
  <2>5. CASE /\ Escribe(fisicas[2], copia.bytes)
             /\ TocaSi(Cruza(fisicas[2], EnCurso[2]) \/ pcb \in redujo, pcb,
                       Afectados(fisicas[2], EnCurso[2]))
    <3>1. copia.bytes \in Seq(Byte)
      BY <1>1
    <3>2. user_memory' \in [0 .. TamMemoria - 1 -> Byte]
      BY <1>1, <2>2, <2>5, <3>1, EscribeEs
    <3>3. tocados' \subseteq Proceso
      BY <1>1, <2>2, <2>5, TocaEs, AfectadosEs
    <3> QED
      BY <1>1, <2>1, <2>3, <3>2, <3>3
  <2> QED
    BY <2>1, <2>4, <2>5
<1>11. ASSUME NEW p \in Proceso, InterfazLee(p)
       PROVE  TiposBytes'
  <2>1. PICK texto \in [1 .. entrada[p].tam -> Byte] : Escribe(entrada[p].dir, texto)
    BY <1>11 DEF InterfazLee
  <2>2. /\ TocaSi(Impropia(p), p, Afectados(entrada[p].dir, entrada[p].tam))
        /\ UNCHANGED << copia, salida >>
    BY <1>11 DEF InterfazLee, SinInterfaz, cpuDatos
  <2>3. entrada[p].dir \in Nat /\ entrada[p].tam \in Nat
    BY <1>1 DEF Pedidos
  <2>4. texto \in Seq(Byte)
    BY <2>3, SonBytes
  <2>5. user_memory' \in [0 .. TamMemoria - 1 -> Byte]
    BY <1>1, <2>1, <2>3, <2>4, EscribeEs
  <2>6. tocados' \subseteq Proceso
    BY <1>1, <2>2, TocaEs, AfectadosEs
  <2> QED
    BY <1>1, <2>2, <2>5, <2>6
<1>12. ASSUME NEW p \in Proceso, InterfazEscribe(p)
       PROVE  TiposBytes'
  <2>1. /\ salida' = IF Dentro(entrada[p].dir, entrada[p].tam)
                     THEN [salida EXCEPT ![p] =
                              Append(salida[p], Leidos(entrada[p].dir, entrada[p].tam))]
                     ELSE salida
        /\ TocaSi(Impropia(p), p, {}) /\ UNCHANGED << copia, user_memory >>
    BY <1>12 DEF InterfazEscribe, SinInterfaz, cpuDatos
  <2>2. tocados' \subseteq Proceso
    BY <1>1, <2>1 DEF TocaSi
  <2>3. entrada[p].dir \in Nat /\ entrada[p].tam \in Nat
    BY <1>1 DEF Pedidos
  <2>4. Dentro(entrada[p].dir, entrada[p].tam) =>
           Leidos(entrada[p].dir, entrada[p].tam) \in Seq(Byte)
    BY <1>1, <2>3, LeidosEs
  <2>5. salida' \in [Proceso -> Seq(Seq(Byte))]
    <3>1. CASE ~ Dentro(entrada[p].dir, entrada[p].tam)
      BY <1>1, <2>1, <3>1
    <3>2. CASE Dentro(entrada[p].dir, entrada[p].tam)
      <4>1. Append(salida[p], Leidos(entrada[p].dir, entrada[p].tam)) \in Seq(Seq(Byte))
        BY <1>1, <2>4, <3>2
      <4> QED
        BY <1>1, <2>1, <3>2, <4>1
    <3> QED
      BY <3>1, <3>2
  <2> QED
    BY <1>1, <2>1, <2>2, <2>5
<1>13. ASSUME NEW p \in Proceso, FinalizaEnVuelo(p)
       PROVE  TiposBytes'
  BY <1>1, <1>13 DEF FinalizaEnVuelo, cpuDatos
<1> QED
  BY <1>3, <1>4, <1>5, <1>6, <1>7, <1>8, <1>9, <1>10, <1>11, <1>12, <1>13, PasoDeDatos,
     Zenon

-----------------------------------------------------------------------------
(* What the CPU executes.                                                   *)

\* The steps of the kernel and of the interfaces, which do not touch the CPU.
LEMMA FueraDeLaCPU ==
  ASSUME \/ DejaCPU \/ Continua \/ Bloquea
         \/ \E p \in Proceso : Despacha(p) \/ FinalizaOtro(p) \/ FinalizaEnVuelo(p)
                               \/ InterfazDuerme(p) \/ InterfazLee(p) \/ InterfazEscribe(p)
  PROVE  UNCHANGED << caso, cpuDatos, cicloVars, paginas, pisado, hilo, faltan, respuesta,
                      mmuVars >>
<1>1. CASE DejaCPU
  BY <1>1 DEF DejaCPU, NucleoTermina, NucleoReencola, Pide, MenosPedidos, memoriaVars, bitVars
<1>2. CASE Continua \/ Bloquea
  BY <1>2 DEF Continua, Bloquea, NucleoContinua, NucleoBloquea, memoriaVars, bitVars
<1>3. ASSUME NEW p \in Proceso, Despacha(p) \/ FinalizaOtro(p) \/ FinalizaEnVuelo(p)
      PROVE  UNCHANGED << caso, cpuDatos, cicloVars, paginas, pisado, hilo, faltan,
                          respuesta, mmuVars >>
  BY <1>3 DEF Despacha, FinalizaOtro, FinalizaEnVuelo, NucleoDespacha,
              NucleoFinalizaOtro, NucleoFinalizaEnVuelo, Pide, MenosPedidos, memoriaVars,
              bitVars, cpuVars
<1>4. ASSUME NEW p \in Proceso, InterfazDuerme(p) \/ InterfazLee(p) \/ InterfazEscribe(p)
      PROVE  UNCHANGED << caso, cpuDatos, cicloVars, paginas, pisado, hilo, faltan,
                          respuesta, mmuVars >>
  BY <1>4 DEF InterfazDuerme, InterfazLee, InterfazEscribe, SinInterfaz, vars, cpuVars,
              memoriaVars, bitVars
<1> QED
  BY <1>1, <1>2, <1>3, <1>4

\* The same of those that do nothing to the data.
LEMMA CicloSinDatos ==
  ASSUME SinMasDatos
  PROVE  \/ UNCHANGED << cicloVars, mmuVars >>
         \/ CPULimpia \/ CPUDecode \/ CPUPideTamano \/ CPUPideTamanoEnVano \/ Carrera
<1>1. CASE SinDatos
  BY <1>1 DEF SinDatos, NucleoCrea, NucleoAdmite, NucleoFinalizaNuevo, NucleoDesaloja,
              NucleoFinaliza, cpuVars
<1>2. CASE PasoMemoria \/ Quieta \/ UNCHANGED vars
  BY <1>2 DEF PasoMemoria, Quieta, vars, cpuVars
<1>3. CASE PasoInterrupcion
  BY <1>3 DEF PasoInterrupcion, InterrupcionLlega
<1>4. CASE \E p \in Proceso : Despierta(p)
  BY <1>4 DEF Despierta, NucleoDespierta, cpuVars
<1> QED
  BY <1>1, <1>2, <1>3, <1>4 DEF SinMasDatos

LEMMA CasoQueda ==
  ASSUME [NextProgramas]_todas
  PROVE  caso' = caso
<1>1. CASE SinMasDatos /\ UNCHANGED datos
  BY <1>1 DEF datos
<1>2. CASE Recibe \/ Fetch \/ Contesta \/ EjecutaCalculo \/ EjecutaMovIn
           \/ EjecutaMovOut \/ CopyStringLee \/ CopyStringEscribe
  BY <1>2 DEF Recibe, Fetch, Contesta, EjecutaCalculo, EjecutaMovIn, EjecutaMovOut,
              CopyStringLee, CopyStringEscribe
<1> QED
  BY <1>1, <1>2, FueraDeLaCPU, PasoDeDatos, Zenon

\* One instruction is over, and it was not the last.
LEMMA LocalEnTexto ==
  ASSUME InvarianteMaquina, TipoDatos, InstruccionPropia, CPUEjecutaLocal
  PROVE  /\ pcb \in Proceso /\ EnCurso[1] # "EXIT"
         /\ OrdenPosible(EnCurso, Len(Texto(pcb))) /\ instruccion.op = Clase(EnCurso)
         /\ Len(Texto(pcb)) \in 0 .. Base ^ Ancho
         /\ regs_cpu \in Registros /\ regs_cpu.PC < Len(Texto(pcb))
<1>1. cpu = "decode" /\ instruccion.op # "EXIT"
  BY LocalEs DEF Decodificada
<1>2. /\ pcb \in Proceso /\ OrdenPosible(EnCurso, Len(Texto(pcb)))
      /\ instruccion.op = Clase(EnCurso) /\ regs_cpu \in Registros
      /\ EnCurso[1] # "EXIT" => regs_cpu.PC < Len(Texto(pcb))
  BY <1>1, EnCursoEs
<1>3. EnCurso[1] # "EXIT"
  BY <1>1, <1>2, ClaseEs
<1>4. Len(Texto(pcb)) \in 0 .. Base ^ Ancho
  <2>1. Len(Texto(pcb)) \in Nat /\ Len(Texto(pcb)) < Base ^ Ancho
    BY <1>2, TextoEs DEF TipoDatos
  <2>2. Base ^ Ancho \in Nat
    BY PotenciasDeBase
  <2> QED
    BY <2>1, <2>2
<1> QED
  BY <1>2, <1>3, <1>4

\* The kernel has kept of a process what it left to run.
LEMMA PasoTextoKernel ==
  ASSUME InvarianteMaquina, TipoDatos, EnTexto, [NextProgramas]_todas
  PROVE  \A p \in Proceso : situacion'[p] # "EXIT" => registros'[p].PC < Len(Texto(p))'
<1>1. caso' = caso
  BY CasoQueda
<1> SUFFICES ASSUME NEW p \in Proceso, situacion'[p] # "EXIT"
             PROVE  registros'[p].PC < Len(Texto(p))
  BY <1>1 DEF Texto
<1>2. situacion[p] # "EXIT"
  <2>1. TiposMaquina /\ [Next]_vars
    BY PasoEsPaso DEF InvarianteMaquina
  <2> QED
    BY <2>1, PasoSituacion
<1>3. registros[p].PC < Len(Texto(p)) /\ registros \in [Proceso -> Registros]
  BY <1>2 DEF EnTexto, TipoDatos
<1>4. ASSUME UNCHANGED registros
      PROVE  registros'[p].PC < Len(Texto(p))
  BY <1>3, <1>4
<1>5. CASE DejaCPU \/ Continua \/ Bloquea
  <2>1. RecibeContexto
    BY <1>5 DEF DejaCPU, Continua, Bloquea
  <2>2. PICK q \in Proceso : Llegada(q)
    BY <2>1, LlegadaEs
  <2>3. CASE p # q
    BY <1>3, <2>2, <2>3 DEF Llegada
  <2>4. CASE p = q
    <3>1. registros'[p] = devueltos[1] /\ contextos[1].pid = p /\ Len(contextos) = 1
          /\ Llegado = p /\ Head(contextos) = contextos[1]
      BY <1>3, <2>2, <2>4 DEF Llegada
    <3>2. contextos[1].op # "FINALIZADO"
      <4> SUFFICES ASSUME contextos[1].op = "FINALIZADO"
                   PROVE  situacion'[p] = "EXIT"
        OBVIOUS
      <4>1. NucleoTermina
        BY <1>5, <3>1 DEF DejaCPU, Continua, Bloquea, NucleoReencola, NucleoContinua,
                          NucleoBloquea, Llega
      <4>2. situacion' = [situacion EXCEPT ![p] = "EXIT"] /\ situacion[p] = "EXEC"
        BY <3>1, <4>1 DEF NucleoTermina, EnSituacion
      <4>3. situacion \in [Proceso -> Situaciones]
        BY DEF InvarianteMaquina, TiposMaquina, TypeOKMaquina
      <4> QED
        BY <4>2, <4>3
    <3>3. 1 \in 1 .. Len(contextos)
      BY <3>1
    <3>4. devueltos[1].PC < Len(Texto(contextos[1].pid))
      BY <3>2, <3>3, Zenon DEF EnTexto
    <3> QED
      BY <3>1, <3>4, Zenon
  <2> QED
    BY <2>3, <2>4
<1>6. CASE SinMasDatos /\ UNCHANGED datos
  BY <1>4, <1>6 DEF datos, kernelDatos
<1>7. CASE Recibe \/ Fetch \/ Contesta \/ EjecutaCalculo \/ EjecutaMovIn
           \/ EjecutaMovOut \/ CopyStringLee \/ CopyStringEscribe
  BY <1>4, <1>7 DEF Recibe, Fetch, Contesta, EjecutaCalculo, EjecutaMovIn, EjecutaMovOut,
              CopyStringLee, CopyStringEscribe, kernelDatos
<1>8. CASE \E q \in Proceso : Despacha(q) \/ FinalizaOtro(q) \/ FinalizaEnVuelo(q)
                              \/ InterfazDuerme(q) \/ InterfazLee(q) \/ InterfazEscribe(q)
  BY <1>4, <1>8 DEF Despacha, FinalizaOtro, FinalizaEnVuelo, InterfazDuerme, InterfazLee, InterfazEscribe,
                    SinInterfaz, kernelDatos
<1> QED
  BY <1>5, <1>6, <1>7, <1>8, PasoDeDatos, Zenon

LEMMA PasoTextoCPU ==
  ASSUME InvarianteMaquina, TipoDatos, EnTexto, InstruccionPropia, [NextProgramas]_todas,
         pcb' # 0, cpu' \notin {"decode", "resize", "muerto"}
  PROVE  regs_cpu'.PC < Len(Texto(pcb'))
<1>1. ASSUME UNCHANGED << cpu, pcb, regs_cpu >>
      PROVE  regs_cpu'.PC < Len(Texto(pcb'))
  BY <1>1 DEF EnTexto
<1>2. CASE SinMasDatos /\ UNCHANGED datos
  <2>1. UNCHANGED regs_cpu
    BY <1>2 DEF datos, cpuDatos
  <2>2. CASE UNCHANGED << cicloVars, mmuVars >>
    BY <1>1, <2>1, <2>2 DEF cicloVars
  <2>3. CASE CPULimpia
    BY <2>1, <2>3 DEF CPULimpia, EnTexto
  <2>4. CASE CPUDecode
    BY <2>4 DEF CPUDecode
  <2>5. CASE CPUPideTamano \/ Carrera
    BY <2>5 DEF CPUPideTamano, Carrera
  <2>6. CASE CPUPideTamanoEnVano
    <3>1. cpu = "decode" /\ instruccion.op = "RESIZE" /\ UNCHANGED pcb
      BY <2>6 DEF CPUPideTamanoEnVano, Decodificada
    <3>2. OrdenPosible(EnCurso, Len(Texto(pcb))) /\ instruccion.op = Clase(EnCurso)
          /\ (EnCurso[1] # "EXIT" => regs_cpu.PC < Len(Texto(pcb)))
      BY <3>1, EnCursoEs
    <3>3. EnCurso[1] # "EXIT"
      BY <3>1, <3>2, ClaseEs
    <3> QED
      BY <2>1, <3>1, <3>2, <3>3
  <2> QED
    BY <1>2, <2>2, <2>3, <2>4, <2>5, <2>6, CicloSinDatos
<1>3. CASE Recibe
  <2>1. despachados # << >> /\ pcb' = Head(despachados) /\ regs_cpu' = Head(enviados)
    BY <1>3 DEF Recibe, CPURecibe
  <2>2. despachados \in Seq(Proceso) /\ enviados \in Seq(Registros)
        /\ Len(enviados) = Len(despachados)
    BY DEF InvarianteMaquina, TiposMaquina, TypeOKMaquina, TipoDatos
  <2>3. pcb' = despachados[1] /\ regs_cpu' = enviados[1] /\ 1 \in 1 .. Len(despachados)
    BY <2>1, <2>2
  <2> QED
    BY <2>3, Zenon DEF EnTexto
<1>4. CASE Fetch
  BY <1>4 DEF Fetch, CPUFetch
<1>5. CASE Contesta
  <2>1. pcb \in Proceso /\ Contestado /\ UNCHANGED regs_cpu
    BY <1>5, ContestaEs DEF Contesta, cpuDatos
  <2>2. UNCHANGED pcb /\ (cpu = "resize" \/ cpu \notin {"decode", "resize", "muerto"})
    BY <2>1 DEF Contestado
  <2>3. CASE cpu = "resize"
    <3>1. EnCurso[1] # "EXIT"
      BY <2>3 DEF InstruccionPropia
    <3> QED
      BY <2>1, <2>2, <2>3, <3>1, EnCursoEs
  <2>4. CASE cpu \notin {"decode", "resize", "muerto"}
    BY <2>1, <2>2, <2>4 DEF EnTexto
  <2> QED
    BY <2>2, <2>3, <2>4
<1>6. CASE EjecutaCalculo
  <2>1. regs_cpu' = Calcula(EnCurso, regs_cpu) /\ CPUEjecutaLocal /\ UNCHANGED pcb
    BY <1>6, LocalEs DEF EjecutaCalculo
  <2> QED
    BY <2>1, LocalEnTexto, CalculaTipo
<1>7. CASE EjecutaMovIn
  <2>1. CPUEjecutaLocal /\ UNCHANGED pcb
    BY <1>7, LocalEs DEF EjecutaMovIn
  <2>2. regs_cpu \in Registros /\ regs_cpu.PC < Len(Texto(pcb))
    BY <2>1, LocalEnTexto
  <2>3. ASSUME NEW v \in Nat, regs_cpu' = Asigna(regs_cpu, EnCurso[2], v),
               EnCurso[2] \in Operando
        PROVE  regs_cpu'["PC"] = regs_cpu["PC"]
    <3>1. EnCurso[2] \in Registro /\ v \in Int /\ "PC" \in Registro \ {EnCurso[2]}
      BY <2>3, OperandoEs
    <3>2. \A x \in Registro \ {EnCurso[2]} :
             Asigna(regs_cpu, EnCurso[2], v)[x] = regs_cpu[x]
      <4>1. EnCurso[2] \in Registro /\ v \in Int /\ regs_cpu \in Registros
        BY <2>2, <3>1
      <4> QED
        BY <4>1, AsignaTipo, Zenon
    <3> QED
      BY <2>3, <3>1, <3>2, Zenon
  <2>4. regs_cpu'["PC"] = regs_cpu["PC"]
    BY <1>7, <2>3, AsignaMovIn, Zenon
  <2> QED
    BY <2>1, <2>2, <2>4, Zenon
<1>8. CASE EjecutaMovOut \/ CopyStringEscribe
  <2>1. CPUEjecutaLocal /\ UNCHANGED << pcb, regs_cpu >>
    BY <1>8, LocalEs DEF EjecutaMovOut, CopyStringEscribe, cpuDatos
  <2> QED
    BY <2>1, LocalEnTexto
<1>9. CASE CopyStringLee
  BY <1>1, <1>9 DEF CopyStringLee, vars, cpuVars, cicloVars
<1>10. CASE \/ DejaCPU \/ Continua \/ Bloquea
            \/ \E p \in Proceso : Despacha(p) \/ FinalizaOtro(p) \/ FinalizaEnVuelo(p)
                                  \/ InterfazDuerme(p) \/ InterfazLee(p)
                                  \/ InterfazEscribe(p)
  BY <1>1, <1>10, FueraDeLaCPU DEF cpuDatos, cicloVars
<1> QED
  BY <1>2, <1>3, <1>4, <1>5, <1>6, <1>7, <1>8, <1>9, <1>10, PasoDeDatos, Zenon

LEMMA PasoTextoSockets ==
  ASSUME InvarianteMaquina, TipoDatos, EnTexto, InstruccionPropia, [NextProgramas]_todas
  PROVE  /\ \A k \in 1 .. Len(despachados') :
               enviados'[k].PC < Len(Texto(despachados'[k]))
         /\ \A k \in 1 .. Len(contextos') :
               contextos'[k].op # "FINALIZADO" =>
                   devueltos'[k].PC < Len(Texto(contextos'[k].pid))
<1> DEFINE Ida == \A k \in 1 .. Len(despachados') :
                     enviados'[k].PC < Len(Texto(despachados'[k]))
           Vuelta == \A k \in 1 .. Len(contextos') :
                        contextos'[k].op # "FINALIZADO" =>
                           devueltos'[k].PC < Len(Texto(contextos'[k].pid))
<1>1. ASSUME UNCHANGED << despachados, enviados >>
      PROVE  Ida
  BY <1>1 DEF EnTexto
<1>2. ASSUME UNCHANGED << contextos, devueltos >>
      PROVE  Vuelta
  BY <1>2 DEF EnTexto
<1>3. ASSUME contextos' = << >>
      PROVE  Vuelta
  BY <1>3
<1>4. despachados \in Seq(Proceso) /\ Donde /\ registros \in [Proceso -> Registros]
      /\ enviados \in Seq(Registros) /\ Len(enviados) = Len(despachados)
  BY DondeEs DEF InvarianteMaquina, TiposMaquina, TypeOKMaquina, TipoDatos
<1>5. CASE SinMasDatos /\ UNCHANGED datos
  BY <1>1, <1>2, <1>5, SinMasDatosEs DEF datos, socketDatos
<1>6. CASE Recibe
  <2>1. despachados # << >> /\ despachados' = Tail(despachados)
        /\ UNCHANGED << contextos, devueltos >>
    BY <1>6 DEF Recibe, CPURecibe
  <2>2. Len(despachados) = 1
    BY <1>4, <2>1 DEF Donde
  <2>3. Len(despachados') = 0
    BY <1>4, <2>1, <2>2
  <2>4. Ida
    BY <2>3
  <2>5. Vuelta
    BY <1>2, <2>1
  <2> QED
    BY <2>4, <2>5
<1>7. CASE Fetch \/ EjecutaCalculo \/ EjecutaMovIn \/ EjecutaMovOut \/ CopyStringLee
           \/ CopyStringEscribe
  BY <1>1, <1>2, <1>7, LocalEs DEF Fetch, CPUFetch, EjecutaCalculo, EjecutaMovIn, EjecutaMovOut,
              CopyStringLee, CopyStringEscribe, socketDatos, socketVars, vars, cpuVars
<1>8. CASE Contesta
  <2>1. UNCHANGED << despachados, enviados >> /\ pcb \in Proceso /\ Contestado
    BY <1>8, ContestaEs DEF Contesta
  <2>2. ASSUME NEW op \in OpsContexto, Respuesta(op),
               contextos' = << [pid |-> pcb, op |-> op, fisicas |-> fisicas,
                                tam |-> instruccion.tam] >>,
               devueltos' = << regs_cpu >>
        PROVE  Vuelta
    <3> SUFFICES ASSUME op # "FINALIZADO"
                 PROVE  regs_cpu.PC < Len(Texto(pcb))
      BY <2>2
    <3>1. CASE cpu \in {"pend_usuario", "pend_quantum", "ve_usuario", "ve_quantum"}
      <4>1. pcb # 0
        BY <2>1
      <4> QED
        BY <3>1, <4>1 DEF EnTexto
    <3>2. CASE cpu = "resize"
      <4>1. EnCurso[1] # "EXIT"
        BY <3>2 DEF InstruccionPropia
      <4> QED
        BY <3>2, <4>1, EnCursoEs
    <3>3. CASE cpu = "decode" /\ instruccion.op \in {"WAIT", "SIGNAL", "IO"}
      <4>1. OrdenPosible(EnCurso, Len(Texto(pcb))) /\ instruccion.op = Clase(EnCurso)
            /\ (EnCurso[1] # "EXIT" => regs_cpu.PC < Len(Texto(pcb)))
        BY <3>3, EnCursoEs
      <4>2. EnCurso[1] # "EXIT"
        BY <3>3, <4>1, ClaseEs
      <4> QED
        BY <4>1, <4>2
    <3> QED
      BY <2>2, <3>1, <3>2, <3>3 DEF Respuesta, Decodificada
  <2> HIDE DEF Vuelta
  <2>3. Vuelta
    BY <1>2, <2>1, <2>2, Zenon DEF Contestado
  <2> QED
    BY <1>1, <2>1, <2>3 DEF Vuelta
<1>9. CASE DejaCPU \/ Bloquea
  <2>1. RecibeContexto /\ UNCHANGED << despachados, enviados >> /\ contextos' = Tail(contextos)
    BY <1>9 DEF DejaCPU, Bloquea, NucleoTermina, NucleoReencola, NucleoBloquea
  <2>2. contextos' = << >>
    BY <2>1, LlegadaEs DEF Llegada
  <2> QED
    BY <1>1, <1>3, <2>1, <2>2
<1>10. CASE Continua
  <2>1. RecibeContexto /\ contextos' = Tail(contextos) /\ Llega({"WAIT", "SIGNAL"})
        /\ despachados' = Append(despachados, Llegado)
        /\ enviados' = Append(enviados, registros'[Llegado])
    BY <1>10 DEF Continua, NucleoContinua
  <2>2. PICK p \in Proceso : Llegada(p)
    BY <2>1, LlegadaEs
  <2>3. contextos' = << >> /\ despachados' = << p >> /\ enviados' = << devueltos[1] >>
    BY <1>4, <2>1, <2>2 DEF Llegada
  <2>4. devueltos[1].PC < Len(Texto(p))
    BY <2>1, <2>2 DEF Llegada, Llega, EnTexto
  <2> QED
    BY <1>3, <2>3, <2>4
<1>11. ASSUME NEW p \in Proceso, Despacha(p)
       PROVE  Ida /\ Vuelta
  <2>1. UNCHANGED << contextos, devueltos >> /\ situacion[p] = "READY"
        /\ (\A q \in Proceso : situacion[q] # "EXEC")
        /\ despachados' = Append(despachados, p) /\ enviados' = Append(enviados, registros[p])
    BY <1>11 DEF Despacha, NucleoDespacha, EnSituacion
  <2>2. Len(despachados) = 0
    <3> SUFFICES ASSUME 1 \in 1 .. Len(despachados)
                 PROVE  FALSE
      BY <1>4
    <3> QED
      BY <1>4, <2>1, Zenon DEF Donde
  <2>3. despachados = << >> /\ enviados = << >>
    BY <1>4, <2>2, SinElementos
  <2>4. despachados' = << p >> /\ enviados' = << registros[p] >>
    BY <2>1, <2>3
  <2>5. registros[p].PC < Len(Texto(p))
    BY <2>1 DEF EnTexto
  <2> QED
    BY <1>2, <2>1, <2>4, <2>5
<1>12. ASSUME NEW p \in Proceso, \/ FinalizaOtro(p) \/ FinalizaEnVuelo(p)
                                 \/ InterfazDuerme(p) \/ InterfazLee(p)
                                 \/ InterfazEscribe(p)
       PROVE  Ida /\ Vuelta
  BY <1>1, <1>2, <1>12 DEF FinalizaOtro, NucleoFinalizaOtro, FinalizaEnVuelo,
         NucleoFinalizaEnVuelo, InterfazDuerme, InterfazLee, InterfazEscribe, SinInterfaz,
         socketDatos, vars, cpuVars, socketVars
<1> QED
  BY <1>5, <1>6, <1>7, <1>8, <1>9, <1>10, <1>11, <1>12, PasoDeDatos, Zenon

LEMMA PasoEnTexto ==
  ASSUME InvarianteMaquina, TipoDatos, EnTexto, InstruccionPropia, [NextProgramas]_todas
  PROVE  EnTexto'
<1>1. caso' = caso
  BY CasoQueda
<1>2. \A p \in Proceso : situacion'[p] # "EXIT" => registros'[p].PC < Len(Texto(p))'
  BY PasoTextoKernel
<1>3. pcb' # 0 /\ cpu' \notin {"decode", "resize", "muerto"} =>
          regs_cpu'.PC < Len(Texto(pcb'))
  BY PasoTextoCPU
<1>4. /\ \A k \in 1 .. Len(despachados') :
            enviados'[k].PC < Len(Texto(despachados'[k]))
      /\ \A k \in 1 .. Len(contextos') :
            contextos'[k].op # "FINALIZADO" =>
                devueltos'[k].PC < Len(Texto(contextos'[k].pid))
  BY PasoTextoSockets
<1> QED
  BY <1>1, <1>2, <1>3, <1>4 DEF EnTexto, Texto

LEMMA PasoInstruccionPropia ==
  ASSUME InvarianteMaquina, InvarianteMaquina', TipoDatos, EnTexto, InstruccionPropia,
         [NextProgramas]_todas
  PROVE  InstruccionPropia'
<1>1. caso' = caso
  BY CasoQueda
<1>2. ASSUME UNCHANGED << cpu, pcb, regs_cpu, instruccion, fisicas >>
      PROVE  InstruccionPropia'
  BY <1>1, <1>2 DEF InstruccionPropia, Texto, EnCurso
<1>3. ASSUME cpu' \notin {"decode", "resize", "muerto"}, fisicas' = << >>
      PROVE  InstruccionPropia'
  BY <1>3 DEF InstruccionPropia
<1>4. CASE SinMasDatos /\ UNCHANGED datos
  <2>1. UNCHANGED regs_cpu
    BY <1>4 DEF datos, cpuDatos
  <2>2. CASE UNCHANGED << cicloVars, mmuVars >>
    BY <1>2, <2>1, <2>2 DEF cicloVars
  <2>3. CASE CPULimpia
    BY <1>3, <2>3 DEF CPULimpia, InstruccionPropia
  <2>4. CASE CPUDecode
    <3>1. /\ cpu = "decode" /\ Len(fisicas) < Len(instruccion.dirs)
          /\ UNCHANGED << pcb, instruccion >>
          /\ \/ cpu' = "muerto"
             \/ UNCHANGED cpu /\ \E f : fisicas' = Append(fisicas, f)
      BY <2>4 DEF CPUDecode
    <3>2. fisicas \in Seq(Nat) /\ fisicas' \in Seq(Nat) /\ instruccion.dirs \in Seq(Nat)
      BY DEF InvarianteMaquina, TiposMaquina, Instruccion
    <3>3. CASE cpu' = "muerto"
      BY <3>3 DEF InstruccionPropia
    <3>4. CASE UNCHANGED cpu /\ \E f : fisicas' = Append(fisicas, f)
      <4>1. Len(fisicas') <= Len(instruccion.dirs)
        BY <3>1, <3>2, <3>4
      <4>2. /\ regs_cpu.PC \in 1 .. Len(Texto(pcb))
            /\ instruccion = decode(EnCurso, regs_cpu) /\ cpu = "decode"
        BY <3>1 DEF InstruccionPropia
      <4>3. Texto(pcb)' = Texto(pcb) /\ EnCurso' = EnCurso
        BY <1>1, <2>1, <3>1 DEF Texto, EnCurso
      <4>4. decode(EnCurso, regs_cpu)' = decode(EnCurso, regs_cpu)
        BY <2>1, <4>3 DEF decode, Clase, Direcciones, Tamano
      <4> QED
        BY <2>1, <3>1, <3>4, <4>1, <4>2, <4>3, <4>4 DEF InstruccionPropia
    <3> QED
      BY <3>1, <3>3, <3>4
  <2>5. CASE CPUPideTamano
    <3>1. cpu = "decode" /\ instruccion.op = "RESIZE" /\ cpu' = "resize"
          /\ UNCHANGED << pcb, instruccion, fisicas >>
      BY <2>5 DEF CPUPideTamano, Decodificada
    <3>2. EnCurso[1] = "RESIZE"
      <4>1. OrdenPosible(EnCurso, Len(Texto(pcb))) /\ instruccion.op = Clase(EnCurso)
        BY <3>1, EnCursoEs
      <4> QED
        BY <3>1, <4>1, ClaseEs
    <3> QED
      BY <1>1, <2>1, <3>1, <3>2 DEF InstruccionPropia, Texto, EnCurso, decode, Clase,
                                    Direcciones, Tamano
  <2>6. CASE CPUPideTamanoEnVano
    BY <1>3, <2>6 DEF CPUPideTamanoEnVano, Olvida
  <2>7. CASE Carrera
    BY <2>7 DEF Carrera, InstruccionPropia
  <2> QED
    BY <1>4, <2>2, <2>3, <2>4, <2>5, <2>6, <2>7, CicloSinDatos
<1>5. CASE Recibe
  <2>1. cpu = "espera" /\ cpu' \in {"pend_usuario", "limpia"} /\ UNCHANGED fisicas
    BY <1>5 DEF Recibe, CPURecibe
  <2>2. fisicas = << >>
    BY <2>1 DEF InstruccionPropia
  <2> QED
    BY <1>3, <2>1, <2>2
<1>6. CASE Fetch
  <2>1. /\ cpu = "fetch" /\ regs_cpu' = Avanza(regs_cpu) /\ UNCHANGED << pcb, fisicas >>
        /\ \/ cpu' = "muerto"
           \/ /\ cpu' = "decode"
              /\ instruccion' = decode(Casos[caso][pcb][regs_cpu.PC + 1], regs_cpu')
    BY <1>6 DEF Fetch, CPUFetch
  <2>2. CASE cpu' = "muerto"
    BY <2>2 DEF InstruccionPropia
  <2>3. CASE cpu' = "decode" /\ instruccion' = decode(Casos[caso][pcb][regs_cpu.PC + 1], regs_cpu')
    <3>1. pcb \in Proceso /\ pcb # 0
      BY <2>1, DondeEs DEF Donde
    <3>2. regs_cpu \in Registros /\ regs_cpu.PC < Len(Texto(pcb)) /\ caso \in 1 .. Len(Casos)
      BY <2>1, <3>1 DEF EnTexto, TipoDatos
    <3>3. Len(Texto(pcb)) \in Nat /\ Len(Texto(pcb)) < Base ^ Ancho
      BY <3>1, <3>2, TextoEs
    <3>4. regs_cpu.PC \in Nat /\ Base ^ Ancho \in Nat
      BY <3>2, RegistroEs, OperandoEs, PotenciasDeBase
    <3>5. regs_cpu.PC + 1 < Base ^ Ancho
      BY <3>2, <3>3, <3>4
    <3>6. regs_cpu'.PC = regs_cpu.PC + 1
      BY <2>1, <3>2, <3>5, AvanzaEs
    <3>7. regs_cpu'.PC \in 1 .. Len(Texto(pcb))
      BY <3>2, <3>3, <3>4, <3>6
    <3>8. EnCurso' = Casos[caso][pcb][regs_cpu.PC + 1] /\ Texto(pcb)' = Texto(pcb)
      BY <1>1, <2>1, <3>6 DEF EnCurso, Texto
    <3>9. instruccion' = decode(EnCurso, regs_cpu)'
      BY <2>3, <3>8 DEF decode, Clase, Direcciones, Tamano
    <3>10. fisicas' = << >>
      BY <2>1 DEF InstruccionPropia
    <3>11. Len(fisicas') <= Len(instruccion'.dirs)
      <4>1. instruccion'.dirs \in Seq(Nat)
        BY DEF InvarianteMaquina, TiposMaquina, Instruccion
      <4> QED
        BY <3>10, <4>1
    <3>12. cpu' = "decode" /\ pcb' = pcb
      BY <2>1, <2>3
    <3> QED
      BY <3>7, <3>8, <3>9, <3>11, <3>12 DEF InstruccionPropia
  <2> QED
    BY <2>1, <2>2, <2>3
<1>7. CASE Contesta
  <2>1. Contestado
    BY <1>7, ContestaEs
  <2>2. cpu' \notin {"decode", "resize", "muerto"} /\ fisicas' = << >>
    BY <2>1 DEF Contestado, InstruccionPropia
  <2> QED
    BY <1>3, <2>2
<1>8. CASE EjecutaCalculo \/ EjecutaMovIn \/ EjecutaMovOut \/ CopyStringEscribe
  BY <1>3, <1>8, LocalEs DEF EjecutaCalculo, EjecutaMovIn, EjecutaMovOut, CopyStringEscribe
<1>9. CASE CopyStringLee
  BY <1>2, <1>9 DEF CopyStringLee, vars, cpuVars, cicloVars
<1>10. CASE \/ DejaCPU \/ Continua \/ Bloquea
            \/ \E p \in Proceso : Despacha(p) \/ FinalizaOtro(p) \/ FinalizaEnVuelo(p)
                                  \/ InterfazDuerme(p) \/ InterfazLee(p)
                                  \/ InterfazEscribe(p)
  BY <1>2, <1>10, FueraDeLaCPU DEF cpuDatos, cicloVars
<1> QED
  BY <1>4, <1>5, <1>6, <1>7, <1>8, <1>9, <1>10, PasoDeDatos, Zenon

-----------------------------------------------------------------------------
(* Addresses: the one of each access is that of the page table, from the      *)
(* translation until the CPU or an interface uses it.                         *)

LEMMA TrasSigue ==
  ASSUME InvarianteMaquina, [Next]_vars, NEW p \in Proceso, situacion[p] # "EXIT",
         p \notin redujo', NEW dir \in Nat, NEW f, Tras(p, dir, f)
  PROVE  p \notin redujo /\ Tras(p, dir, f)'
<1>1. /\ TiposMaquina /\ UnTurno /\ EnServicio /\ PedidosEnOrden /\ CreadosEnMemoria
      /\ paginas \in [Proceso -> Seq(Marcos)]
  BY DEF InvarianteMaquina, TiposMaquina, TypeOKMaquina
<1>2. p \notin redujo
  BY <1>1, PasoSituacion
<1>3. Pagina(dir) \in Nat
  BY Cociente DEF Pagina
<1>4. /\ Pagina(dir) < Len(paginas[p])
      /\ f = paginas[p][Pagina(dir) + 1] * TamPagina + Desplazamiento(dir)
  BY DEF Tras
<1>5. /\ Pagina(dir) < Len(paginas'[p])
      /\ paginas'[p][Pagina(dir) + 1] = paginas[p][Pagina(dir) + 1]
  <2>1. CASE paginas'[p] = paginas[p]
    BY <1>4, <2>1
  <2>2. CASE paginas' = paginas
    BY <1>4, <2>2
  <2>3. ASSUME NEW q \in Proceso, Soltado(q),
               paginas' = [paginas EXCEPT ![q] = Tail(@)]
        PROVE  paginas'[p] = paginas[p]
    <3>1. q # p
      BY <1>1, <1>2, <2>3 DEF Soltado, TiposMaquina
    <3> QED
      BY <1>1, <2>3, <3>1
  <2>4. ASSUME pcb \in Proceso, indice \in Marcos,
               paginas' = [paginas EXCEPT ![pcb] = Append(@, indice)]
        PROVE  /\ Pagina(dir) < Len(paginas'[p])
               /\ paginas'[p][Pagina(dir) + 1] = paginas[p][Pagina(dir) + 1]
    <3>1. CASE pcb # p
      BY <1>1, <2>1, <2>4, <3>1
    <3>2. CASE pcb = p
      <4>1. paginas'[p] = Append(paginas[p], indice) /\ paginas[p] \in Seq(Marcos)
        BY <1>1, <2>4, <3>2
      <4>2. PICK s, i : s = paginas[p] /\ i = Pagina(dir)
        OBVIOUS
      <4>3. s \in Seq(Marcos) /\ i \in Nat /\ i < Len(s)
        BY <1>3, <1>4, <4>1, <4>2
      <4>4. i < Len(Append(s, indice)) /\ Append(s, indice)[i + 1] = s[i + 1]
        BY <2>4, <4>3
      <4> QED
        BY <4>1, <4>2, <4>4
    <3> QED
      BY <3>1, <3>2
  <2>5. ASSUME pcb \in Proceso, redujo' = redujo \cup {pcb},
               paginas' = [paginas EXCEPT ![pcb] = Front(@)]
        PROVE  paginas'[p] = paginas[p]
    BY <1>1, <2>5
  <2> QED
    BY <1>1, <2>1, <2>2, <2>3, <2>4, <2>5, CambioPaginas
<1>6. Tras(p, dir, f)'
  BY <1>4, <1>5 DEF Tras, Pagina, Desplazamiento
<1> QED
  BY <1>2, <1>6

LEMMA TraducidasSigue ==
  ASSUME InvarianteMaquina, [Next]_vars, NEW p \in Proceso, situacion[p] # "EXIT",
         NEW dirs \in Seq(Nat), NEW fs \in Seq(Nat), Len(fs) <= Len(dirs),
         Traducidas(p, dirs, fs)
  PROVE  Traducidas(p, dirs, fs)'
<1> SUFFICES ASSUME p \notin redujo', NEW k \in 1 .. Len(fs)
             PROVE  Tras(p, dirs[k], fs[k])'
  BY DEF Traducidas
<1>1. p \notin redujo
  <2>1. TiposMaquina
    BY DEF InvarianteMaquina
  <2> QED
    BY <2>1, PasoSituacion
<1>2. Tras(p, dirs[k], fs[k]) /\ dirs[k] \in Nat
  BY <1>1 DEF Traducidas
<1> QED
  BY <1>2, TrasSigue

LEMMA MarcoEnTabla ==
  ASSUME InvarianteMaquina, NEW p \in Proceso, NEW n \in Nat, situacion[p] # "EXIT",
         p \notin redujo, Marco(p, n) # SinMarco
  PROVE  n < Len(paginas[p]) /\ Marco(p, n) = paginas[p][n + 1]
<1>1. /\ TiposMaquina /\ TLBSinRepetidos /\ TLBVigente
      /\ paginas \in [Proceso -> Seq(Marcos)] /\ tlb \in Seq(Entrada)
  BY DEF InvarianteMaquina, TiposMaquina, TypeOKMaquina
<1>2. /\ acceder_marco(p, n) = SinMarco <=> n >= Len(paginas[p])
      /\ \/ Marco(p, n) = acceder_marco(p, n)
         \/ /\ TLB_HIT(p, n) /\ Marco(p, n) = tlb[Buscada(p, n)].marco
            /\ Marco(p, n) # SinMarco
  BY <1>1, MarcoDePagina
<1>3. CASE Marco(p, n) = acceder_marco(p, n)
  <2>1. n < Len(paginas[p])
    BY <1>1, <1>2, <1>3
  <2> QED
    BY <1>1, <1>3, <2>1 DEF acceder_marco
<1>4. CASE TLB_HIT(p, n) /\ Marco(p, n) = tlb[Buscada(p, n)].marco
  <2>1. Buscada(p, n) \in 1 .. Len(tlb) /\ Coincide(tlb[Buscada(p, n)], p, n)
    BY <1>1, <1>4, BuscadaEnLista
  <2> QED
    BY <1>1, <1>4, <2>1 DEF TLBVigente, Coincide
<1> QED
  BY <1>2, <1>3, <1>4

LEMMA PasoBienTraducidas ==
  ASSUME InvarianteMaquina, InvarianteMaquina', TipoDatos, InstruccionPropia,
         BienTraducidas, [NextProgramas]_todas
  PROVE  BienTraducidas'
<1>0. /\ [Next]_vars /\ Donde /\ paginas \in [Proceso -> Seq(Marcos)]
      /\ fisicas \in Seq(Nat) /\ instruccion.dirs \in Seq(Nat)
  BY PasoEsPaso, DondeEs DEF InvarianteMaquina, TiposMaquina, TypeOKMaquina, Instruccion
<1>1. ASSUME cpu' = cpu, UNCHANGED << pcb, instruccion, fisicas >>
      PROVE  BienTraducidas'
  <2> SUFFICES ASSUME cpu = "decode"
               PROVE  Traducidas(pcb, instruccion.dirs, fisicas)'
    BY <1>1 DEF BienTraducidas
  <2>1. pcb \in Proceso /\ situacion[pcb] # "EXIT"
    BY <1>0 DEF Donde
  <2>2. Traducidas(pcb, instruccion.dirs, fisicas) /\ Len(fisicas) <= Len(instruccion.dirs)
    BY DEF BienTraducidas, InstruccionPropia
  <2>4. ASSUME NEW q \in Proceso, situacion[q] # "EXIT", NEW d \in Seq(Nat), NEW f \in Seq(Nat),
               Len(f) <= Len(d), Traducidas(q, d, f)
        PROVE  Traducidas(q, d, f)'
    BY <1>0, <2>4, TraducidasSigue
  <2>5. ASSUME NEW q \in Proceso, q = pcb, NEW d, d = instruccion.dirs, NEW f, f = fisicas
        PROVE  Traducidas(q, d, f)'
    BY <1>0, <2>1, <2>2, <2>4, <2>5
  <2>6. PICK q \in Proceso : q = pcb
    BY <2>1
  <2>7. PICK d, f : d = instruccion.dirs /\ f = fisicas
    OBVIOUS
  <2>8. Traducidas(q, d, f)'
    BY <2>5, <2>6, <2>7
  <2> QED
    BY <1>1, <2>6, <2>7, <2>8 DEF Traducidas, Tras, Pagina, Desplazamiento
<1>2. ASSUME cpu' # "decode"
      PROVE  BienTraducidas'
  BY <1>2 DEF BienTraducidas
<1>3. CASE SinMasDatos /\ UNCHANGED datos
  <2>1. CASE UNCHANGED << cicloVars, mmuVars >>
    BY <1>1, <2>1 DEF cicloVars
  <2>2. CASE CPULimpia
    BY <1>2, <2>2 DEF CPULimpia
  <2>3. CASE CPUDecode
    <3> DEFINE dir == instruccion.dirs[Len(fisicas) + 1]
    <3>1. /\ cpu = "decode" /\ UNCHANGED << pcb, instruccion, paginas >>
          /\ Len(fisicas) < Len(instruccion.dirs)
          /\ \/ cpu' = "muerto"
             \/ /\ Marco(pcb, Pagina(dir)) # SinMarco
                /\ fisicas' = Append(fisicas, Fisica(pcb, dir))
      BY <2>3 DEF CPUDecode, memoriaVars
    <3>2. pcb \in Proceso /\ situacion[pcb] # "EXIT" /\ dir \in Nat
      BY <1>0, <3>1 DEF Donde
    <3>3. redujo \subseteq redujo'
      BY <1>0, PasoSituacion DEF InvarianteMaquina
    <3>4. CASE cpu' = "muerto"
      BY <1>2, <3>4
    <3>5. CASE Marco(pcb, Pagina(dir)) # SinMarco /\ fisicas' = Append(fisicas, Fisica(pcb, dir))
      <4> SUFFICES ASSUME pcb \notin redujo', NEW k \in 1 .. Len(fisicas')
                   PROVE  Tras(pcb, instruccion.dirs[k], fisicas'[k])
        BY <3>1 DEF BienTraducidas, Traducidas, Tras, Pagina, Desplazamiento
      <4>1. pcb \notin redujo
        BY <3>3
      <4>2. CASE k \in 1 .. Len(fisicas)
        <5>1. fisicas'[k] = fisicas[k]
          BY <1>0, <3>5, <4>2
        <5>2. Tras(pcb, instruccion.dirs[k], fisicas[k])
          BY <3>1, <4>1, <4>2 DEF BienTraducidas, Traducidas
        <5> QED
          BY <5>1, <5>2, Zenon
      <4>3. CASE k = Len(fisicas) + 1
        <5>1. fisicas'[k] = Fisica(pcb, dir) /\ instruccion.dirs[k] = dir
          BY <1>0, <3>5, <4>3
        <5>2. Pagina(dir) \in Nat
          BY <3>2, Cociente DEF Pagina
        <5>3. /\ Pagina(dir) < Len(paginas[pcb])
              /\ Marco(pcb, Pagina(dir)) = paginas[pcb][Pagina(dir) + 1]
          BY <3>2, <3>5, <4>1, <5>2, MarcoEnTabla
        <5> QED
          BY <5>1, <5>3 DEF Tras, Fisica
      <4>4. Len(fisicas') = Len(fisicas) + 1 /\ Len(fisicas) \in Nat
        BY <1>0, <3>5
      <4> QED
        BY <4>2, <4>3, <4>4
    <3> QED
      BY <3>1, <3>4, <3>5
  <2>4. CASE CPUPideTamano \/ CPUPideTamanoEnVano \/ Carrera
    BY <1>2, <2>4 DEF CPUPideTamano, CPUPideTamanoEnVano, Carrera
  <2> QED
    BY <1>3, <2>1, <2>2, <2>3, <2>4, CicloSinDatos
<1>4. CASE Recibe
  BY <1>2, <1>4 DEF Recibe, CPURecibe
<1>5. CASE Fetch
  <2>1. cpu = "fetch" /\ UNCHANGED fisicas
    BY <1>5 DEF Fetch, CPUFetch
  <2>2. fisicas' = << >>
    BY <2>1 DEF InstruccionPropia
  <2> QED
    BY <2>2 DEF BienTraducidas, Traducidas
<1>6. CASE Contesta
  <2>1. Contestado
    BY <1>6, ContestaEs
  <2> QED
    BY <1>2, <2>1 DEF Contestado
<1>7. CASE EjecutaCalculo \/ EjecutaMovIn \/ EjecutaMovOut \/ CopyStringEscribe
  BY <1>2, <1>7, LocalEs DEF EjecutaCalculo, EjecutaMovIn, EjecutaMovOut, CopyStringEscribe
<1>8. CASE CopyStringLee
  BY <1>1, <1>8 DEF CopyStringLee, vars, cpuVars, cicloVars
<1>9. CASE \/ DejaCPU \/ Continua \/ Bloquea
           \/ \E p \in Proceso : Despacha(p) \/ FinalizaOtro(p) \/ FinalizaEnVuelo(p)
                                 \/ InterfazDuerme(p) \/ InterfazLee(p) \/ InterfazEscribe(p)
  BY <1>1, <1>9, FueraDeLaCPU DEF cicloVars
<1> QED
  BY <1>3, <1>4, <1>5, <1>6, <1>7, <1>8, <1>9, PasoDeDatos, Zenon

\* An I/O of p with registers r: what the program says, and where it is.
Pide_IO(p, r, tam, fs) ==
  /\ r.PC >= 1 /\ Texto(p)[r.PC][1] \in DeIO
  /\ tam = Tamano(Texto(p)[r.PC], r)
  /\ Len(fs) = Len(Direcciones(Texto(p)[r.PC], r))
  /\ Traducidas(p, Direcciones(Texto(p)[r.PC], r), fs)

LEMMA PedidaSigue ==
  ASSUME InvarianteMaquina, TipoDatos, [NextProgramas]_todas, NEW p \in Proceso,
         situacion[p] # "EXIT", NEW r \in Registros, r.PC < Len(Texto(p)),
         NEW tam, NEW fs \in Seq(Nat), Pide_IO(p, r, tam, fs)
  PROVE  Pide_IO(p, r, tam, fs)'
<1>1. caso' = caso /\ [Next]_vars
  BY CasoQueda, PasoEsPaso
<1>2. r.PC \in Nat
  BY RegistroEs, OperandoEs
<1>3. r.PC \in 1 .. Len(Texto(p)) /\ caso \in 1 .. Len(Casos)
  <2>1. caso \in 1 .. Len(Casos)
    BY DEF TipoDatos
  <2>2. Len(Texto(p)) \in Nat
    BY <2>1, TextoEs
  <2> QED
    BY <1>2, <2>1, <2>2 DEF Pide_IO
<1>4. PICK dirs : dirs = Direcciones(Texto(p)[r.PC], r)
  OBVIOUS
<1>5. dirs \in Seq(Nat)
  BY <1>3, <1>4, TextoEs, DireccionesEs
<1>6. Traducidas(p, dirs, fs) /\ Len(fs) = Len(dirs)
  BY <1>4 DEF Pide_IO
<1>7. Len(fs) <= Len(dirs)
  BY <1>5, <1>6
<1>8. Traducidas(p, dirs, fs)'
  BY <1>1, <1>5, <1>6, <1>7, TraducidasSigue
<1>9. Direcciones(Texto(p)[r.PC], r)' = dirs /\ Texto(p)' = Texto(p)
      /\ Tamano(Texto(p)[r.PC], r)' = Tamano(Texto(p)[r.PC], r)
  BY <1>1, <1>4 DEF Texto, Direcciones, Tamano
<1>10. Traducidas(p, Direcciones(Texto(p)[r.PC], r), fs)'
  BY <1>8, <1>9 DEF Traducidas, Tras, Pagina, Desplazamiento
<1> QED
  BY <1>6, <1>4, <1>9, <1>10 DEF Pide_IO

LEMMA ContextosPiden ==
  ContextosIO <=>
     \A k \in 1 .. Len(contextos) : contextos[k].op = "IO" =>
        Pide_IO(contextos[k].pid, devueltos[k], contextos[k].tam, contextos[k].fisicas)
BY DEF ContextosIO, Pide_IO

LEMMA PasoContextosIO ==
  ASSUME InvarianteMaquina, TipoDatos, EnTexto, InstruccionPropia, BienTraducidas,
         ContextosIO, [NextProgramas]_todas
  PROVE  ContextosIO'
<1>0. /\ caso' = caso /\ Donde /\ contextos \in Seq(Contexto)
      /\ devueltos \in Seq(Registros) /\ Len(devueltos) = Len(contextos)
  BY CasoQueda, DondeEs DEF InvarianteMaquina, TiposMaquina, TipoDatos
<1> DEFINE P == \A k \in 1 .. Len(contextos) : contextos[k].op = "IO" =>
                  Pide_IO(contextos[k].pid, devueltos[k], contextos[k].tam,
                          contextos[k].fisicas)
<1>1. P /\ (ContextosIO' <=> P')
  BY ContextosPiden, PTL
<1> SUFFICES P'
  BY <1>1
<1>2. ASSUME UNCHANGED << contextos, devueltos >>
      PROVE  P'
  <2> SUFFICES ASSUME NEW k \in 1 .. Len(contextos), contextos[k].op = "IO"
               PROVE  Pide_IO(contextos[k].pid, devueltos[k], contextos[k].tam,
                              contextos[k].fisicas)'
    BY <1>2
  <2>1. PICK p, r, tam, fs : p = contextos[k].pid /\ r = devueltos[k]
                             /\ tam = contextos[k].tam /\ fs = contextos[k].fisicas
    OBVIOUS
  <2>2. k = 1 /\ Len(contextos) = 1 /\ p \in Proceso /\ situacion[p] = "EXEC"
    BY <1>0, <2>1 DEF Donde
  <2>3. r \in Registros /\ fs \in Seq(Nat) /\ r.PC < Len(Texto(p))
    <3>1. contextos[k] \in Contexto /\ devueltos[k] \in Registros
      BY <1>0
    <3>2. devueltos[k].PC < Len(Texto(contextos[k].pid))
      <4>1. contextos[k].op # "FINALIZADO"
        OBVIOUS
      <4> QED
        BY <4>1, Zenon DEF EnTexto
    <3> QED
      BY <2>1, <3>1, <3>2, Zenon DEF Contexto
  <2>4. Pide_IO(p, r, tam, fs)
    BY <1>1, <2>1
  <2>5. Pide_IO(p, r, tam, fs)'
    BY <2>2, <2>3, <2>4, PedidaSigue
  <2>6. p = contextos'[k].pid /\ r = devueltos'[k] /\ tam = contextos'[k].tam
        /\ fs = contextos'[k].fisicas
    BY <1>2, <2>1
  <2> QED
    BY <2>5, <2>6, ZenonT(60)
       DEF Pide_IO, Traducidas, Tras, Pagina, Desplazamiento, Direcciones, Tamano, Texto
<1>3. ASSUME contextos' = << >>
      PROVE  P'
  BY <1>3
<1>4. CASE SinMasDatos /\ UNCHANGED datos
  BY <1>2, <1>4, SinMasDatosEs DEF datos, socketDatos
<1>5. CASE Recibe \/ Fetch \/ EjecutaCalculo \/ EjecutaMovIn \/ EjecutaMovOut
           \/ CopyStringLee \/ CopyStringEscribe
  BY <1>2, <1>5, LocalEs DEF Recibe, CPURecibe, Fetch, CPUFetch, EjecutaCalculo, EjecutaMovIn,
         EjecutaMovOut, CopyStringLee, CopyStringEscribe, socketDatos, socketVars, vars, cpuVars
<1>6. CASE Contesta
  <2>1. pcb \in Proceso /\ Contestado
    BY <1>6, ContestaEs
  <2>2. ASSUME NEW op \in OpsContexto, Respuesta(op),
               contextos' = << [pid |-> pcb, op |-> op, fisicas |-> fisicas,
                                tam |-> instruccion.tam] >>,
               devueltos' = << regs_cpu >>
        PROVE  P'
    <3>1. PICK p, r, tam, fs : p = pcb /\ r = regs_cpu /\ tam = instruccion.tam
                               /\ fs = fisicas
      OBVIOUS
    <3> SUFFICES ASSUME op = "IO"
                 PROVE  Pide_IO(p, r, tam, fs)'
      <4>1. contextos' = << [pid |-> p, op |-> op, fisicas |-> fs, tam |-> tam] >>
            /\ devueltos' = << r >>
        BY <2>2, <3>1
      <4> SUFFICES ASSUME NEW k \in 1 .. Len(contextos'), contextos'[k].op = "IO"
                   PROVE  Pide_IO(contextos[k].pid, devueltos[k], contextos[k].tam,
                                  contextos[k].fisicas)'
        OBVIOUS
      <4>2. /\ k = 1 /\ op = "IO" /\ contextos'[k].pid = p /\ devueltos'[k] = r
            /\ contextos'[k].tam = tam /\ contextos'[k].fisicas = fs
        BY <4>1
      <4>3. Pide_IO(p, r, tam, fs)'
        BY <4>2
      <4>4. p = contextos'[k].pid /\ r = devueltos'[k] /\ tam = contextos'[k].tam
            /\ fs = contextos'[k].fisicas
        BY <4>2
      <4> HIDE <2>2
      <4> QED
        BY <4>3, <4>4, ZenonT(60)
           DEF Pide_IO, Traducidas, Tras, Pagina, Desplazamiento, Direcciones, Tamano, Texto
    <3>2. cpu = "decode" /\ Len(fisicas) = Len(instruccion.dirs) /\ instruccion.op = "IO"
      BY <2>2 DEF Respuesta, Decodificada, Interrupciones
    <3>3. /\ regs_cpu \in Registros /\ EnCurso = Texto(pcb)[regs_cpu.PC]
          /\ regs_cpu.PC \in 1 .. Len(Texto(pcb)) /\ OrdenPosible(EnCurso, Len(Texto(pcb)))
          /\ instruccion.op = Clase(EnCurso) /\ instruccion.dirs = Direcciones(EnCurso, regs_cpu)
          /\ instruccion.tam = Tamano(EnCurso, regs_cpu) /\ fisicas \in Seq(Nat)
          /\ EnCurso[1] # "EXIT" => regs_cpu.PC < Len(Texto(pcb))
      BY <3>2, EnCursoEs
    <3>4. EnCurso[1] \in DeIO /\ EnCurso[1] # "EXIT"
      BY <3>2, <3>3, ClaseEs DEF DeIO
    <3>5. Traducidas(pcb, instruccion.dirs, fisicas)
      BY <3>2 DEF BienTraducidas
    <3>6. Pide_IO(p, r, tam, fs)
      BY <3>1, <3>2, <3>3, <3>4, <3>5 DEF Pide_IO
    <3>7. p \in Proceso /\ situacion[p] # "EXIT"
      <4>1. pcb # 0
        BY <2>1
      <4> QED
        BY <1>0, <2>1, <3>1, <4>1 DEF Donde
    <3>8. r \in Registros /\ fs \in Seq(Nat) /\ r.PC < Len(Texto(p))
      BY <3>1, <3>3, <3>4
    <3> QED
      BY <3>6, <3>7, <3>8, PedidaSigue
  <2> HIDE DEF P
  <2> QED
    BY <1>2, <2>1, <2>2, Zenon DEF Contestado
<1>7. CASE DejaCPU \/ Continua \/ Bloquea
  <2>1. RecibeContexto /\ contextos' = Tail(contextos)
    BY <1>7 DEF DejaCPU, Continua, Bloquea, NucleoTermina, NucleoReencola, NucleoContinua,
                NucleoBloquea
  <2>2. contextos' = << >>
    BY <2>1, LlegadaEs DEF Llegada
  <2> QED
    BY <1>3, <2>2
<1>8. ASSUME NEW p \in Proceso, \/ Despacha(p) \/ FinalizaOtro(p) \/ FinalizaEnVuelo(p)
                                \/ InterfazDuerme(p) \/ InterfazLee(p)
                                \/ InterfazEscribe(p)
      PROVE  P'
  <2>1. UNCHANGED << contextos, devueltos >>
    BY <1>8 DEF Despacha, NucleoDespacha, FinalizaOtro, NucleoFinalizaOtro,
                FinalizaEnVuelo, NucleoFinalizaEnVuelo, InterfazDuerme, InterfazLee,
                InterfazEscribe, SinInterfaz, socketDatos, vars, cpuVars, socketVars
  <2> QED
    BY <1>2, <2>1
<1> HIDE DEF P
<1> QED
  BY <1>4, <1>5, <1>6, <1>7, <1>8, PasoDeDatos, Zenon

\* The request that an interface has of p, whose registers are r.
Espera_IO(p, r, e) ==
  /\ r.PC >= 1 /\ Texto(p)[r.PC][1] \in DeIO
  /\ e.op = Texto(p)[r.PC][1] /\ e.tam = Tamano(Texto(p)[r.PC], r)
  /\ Direcciones(Texto(p)[r.PC], r) # << >> =>
        Traducidas(p, Direcciones(Texto(p)[r.PC], r), << e.dir >>)
EntradaDe(p) ==
  entrada[p] # SinEntrada =>
     /\ situacion[p] \in {"BLOCKED", "EXIT"}
     /\ situacion[p] = "BLOCKED" => Espera_IO(p, registros[p], entrada[p])

LEMMA EntradasDe == EntradasIO <=> \A p \in Proceso : EntradaDe(p)
BY DEF EntradasIO, EntradaDe, Espera_IO

LEMMA EsperaSigue ==
  ASSUME InvarianteMaquina, TipoDatos, [NextProgramas]_todas, NEW p \in Proceso,
         situacion[p] # "EXIT", NEW r \in Registros, r.PC < Len(Texto(p)),
         NEW e \in Pedidos, Espera_IO(p, r, e)
  PROVE  Espera_IO(p, r, e)'
<1>1. caso' = caso /\ [Next]_vars
  BY CasoQueda, PasoEsPaso
<1>2. r.PC \in Nat
  BY RegistroEs, OperandoEs
<1>3. r.PC \in 1 .. Len(Texto(p)) /\ caso \in 1 .. Len(Casos)
  <2>1. caso \in 1 .. Len(Casos)
    BY DEF TipoDatos
  <2>2. Len(Texto(p)) \in Nat
    BY <2>1, TextoEs
  <2> QED
    BY <1>2, <2>1, <2>2 DEF Espera_IO
<1>4. PICK dirs, fs : dirs = Direcciones(Texto(p)[r.PC], r) /\ fs = << e.dir >>
  OBVIOUS
<1>5. dirs \in Seq(Nat) /\ fs \in Seq(Nat) /\ Len(fs) = 1
  <2>1. e.dir \in Nat
    BY DEF Pedidos
  <2> QED
    BY <1>3, <1>4, <2>1, TextoEs, DireccionesEs
<1>6. dirs # << >> => Traducidas(p, dirs, fs)'
  <2> SUFFICES ASSUME dirs # << >>
               PROVE  Traducidas(p, dirs, fs)'
    OBVIOUS
  <2>1. Len(dirs) # 0
    BY <1>5, SinElementos
  <2>2. Len(fs) <= Len(dirs)
    BY <1>5, <2>1
  <2>3. Traducidas(p, dirs, fs)
    BY <1>4 DEF Espera_IO
  <2> QED
    BY <1>1, <1>5, <2>2, <2>3, TraducidasSigue
<1>7. Direcciones(Texto(p)[r.PC], r)' = dirs /\ Texto(p)' = Texto(p)
      /\ Tamano(Texto(p)[r.PC], r)' = Tamano(Texto(p)[r.PC], r)
  BY <1>1, <1>4 DEF Texto, Direcciones, Tamano
<1>8. dirs # << >> => Traducidas(p, Direcciones(Texto(p)[r.PC], r), << e.dir >>)'
  BY <1>4, <1>6, <1>7 DEF Traducidas, Tras, Pagina, Desplazamiento
<1> QED
  BY <1>7, <1>8 DEF Espera_IO

LEMMA EntradaQueda ==
  ASSUME InvarianteMaquina, TipoDatos, EnTexto, [NextProgramas]_todas, NEW p \in Proceso,
         EntradaDe(p), entrada'[p] \in {entrada[p], SinEntrada}, registros'[p] = registros[p],
         situacion'[p] \in {situacion[p], "EXIT"}
  PROVE  EntradaDe(p)'
<1> SUFFICES ASSUME entrada'[p] # SinEntrada
             PROVE  /\ situacion'[p] \in {"BLOCKED", "EXIT"}
                    /\ situacion'[p] = "BLOCKED" => Espera_IO(p, registros[p], entrada[p])'
  BY DEF EntradaDe
<1>1. entrada'[p] = entrada[p] /\ entrada[p] # SinEntrada
  OBVIOUS
<1>2. situacion[p] \in {"BLOCKED", "EXIT"}
      /\ (situacion[p] = "BLOCKED" => Espera_IO(p, registros[p], entrada[p]))
  BY <1>1 DEF EntradaDe
<1>3. CASE situacion'[p] = "EXIT"
  BY <1>3
<1>4. CASE situacion'[p] # "EXIT"
  <2>1. situacion[p] = "BLOCKED" /\ situacion'[p] = "BLOCKED"
    BY <1>2, <1>4
  <2>2. PICK r, e : r = registros[p] /\ e = entrada[p]
    OBVIOUS
  <2>3. r \in Registros /\ e \in Pedidos /\ r.PC < Len(Texto(p)) /\ Espera_IO(p, r, e)
    BY <1>2, <2>1, <2>2 DEF TipoDatos, EnTexto
  <2>4. Espera_IO(p, r, e)'
    BY <2>1, <2>3, EsperaSigue
  <2>5. r = registros'[p] /\ e = entrada'[p]
    BY <1>1, <2>2
  <2>6. Espera_IO(p, registros[p], entrada[p])'
    BY <2>4, <2>5, ZenonT(60)
       DEF Espera_IO, Traducidas, Tras, Pagina, Desplazamiento, Direcciones, Tamano, Texto
  <2> QED
    BY <2>1, <2>6
<1> QED
  BY <1>3, <1>4

\* Who takes a step: the kernel, the CPU, an interface, or another thread, which
\* does nothing to the data.
LEMMA QuienDaElPaso ==
  ASSUME [NextProgramas]_todas
  PROVE  \/ NucleoConDatos \/ Ciclo \/ Interfaz
         \/ /\ PasoMemoria \/ PasoInterrupcion \/ Carrera \/ Quieta \/ UNCHANGED vars
            /\ UNCHANGED datos
BY Zenon DEF NextProgramas, todas

LEMMA CicloKernelQueda ==
  ASSUME Ciclo
  PROVE  UNCHANGED << nucleoVars, redujo, caso, registros, entrada >>
<1>1. CASE Recibe \/ Fetch \/ Contesta \/ EjecutaCalculo
  BY <1>1 DEF Ciclo, Recibe, Fetch, Contesta, EjecutaCalculo, kernelDatos
<1>2. CASE EjecutaMovIn \/ EjecutaMovOut \/ CopyStringLee \/ CopyStringEscribe
  BY <1>2 DEF Ciclo, EjecutaMovIn, EjecutaMovOut, CopyStringLee, CopyStringEscribe, kernelDatos
<1>3. CASE Limpieza \/ Decode \/ PideTamano
  BY <1>3 DEF Ciclo, Limpieza, Decode, PideTamano, datos, kernelDatos
<1> QED
  BY <1>1, <1>2, <1>3 DEF Ciclo

LEMMA PasoEntradas ==
  ASSUME InvarianteMaquina, TipoDatos, EnTexto, ContextosIO, EntradasIO,
         [NextProgramas]_todas
  PROVE  entrada' \in [Proceso -> Pedidos] /\ EntradasIO'
<1>1. /\ situacion \in [Proceso -> Situaciones] /\ entrada \in [Proceso -> Pedidos]
      /\ registros \in [Proceso -> Registros] /\ SinEntrada \in Pedidos
  BY DEF InvarianteMaquina, TiposMaquina, TypeOKMaquina, TipoDatos, SinEntrada, Pedidos
<1>2. \A p \in Proceso : EntradaDe(p)
  BY EntradasDe
<1> DEFINE Bien == entrada' \in [Proceso -> Pedidos] /\ \A p \in Proceso : EntradaDe(p)'
<1>3. Bien => entrada' \in [Proceso -> Pedidos] /\ EntradasIO'
  <2>1. EntradasIO' <=> \A p \in Proceso : EntradaDe(p)'
    BY DEF EntradasIO, EntradaDe, Espera_IO
  <2> QED
    BY <2>1
<1> SUFFICES Bien
  BY <1>3
<1>4. ASSUME NEW p \in Proceso, entrada'[p] \in {entrada[p], SinEntrada},
             registros'[p] = registros[p], situacion'[p] \in {situacion[p], "EXIT"}
      PROVE  EntradaDe(p)'
  BY <1>2, <1>4, EntradaQueda
<1>5. ASSUME UNCHANGED << registros, entrada >>,
             \A p \in Proceso : entrada[p] # SinEntrada =>
                situacion'[p] \in {situacion[p], "EXIT"}
      PROVE  Bien
  <2> SUFFICES ASSUME NEW p \in Proceso
               PROVE  EntradaDe(p)'
    BY <1>1, <1>5
  <2>1. CASE entrada[p] = SinEntrada
    BY <1>5, <2>1 DEF EntradaDe
  <2>2. CASE entrada[p] # SinEntrada
    BY <1>4, <1>5, <2>2
  <2> QED
    BY <2>1, <2>2
<1>6. CASE Ciclo
  BY <1>5, <1>6, CicloKernelQueda DEF nucleoVars
<1>7. CASE /\ PasoMemoria \/ PasoInterrupcion \/ Carrera \/ Quieta \/ UNCHANGED vars
           /\ UNCHANGED datos
  BY <1>5, <1>7 DEF PasoMemoria, PasoInterrupcion, Carrera, Quieta, vars, nucleoVars, datos,
                    kernelDatos
<1>8. ASSUME NEW q \in Proceso, InterfazDuerme(q) \/ InterfazLee(q) \/ InterfazEscribe(q)
      PROVE  Bien
  <2>1. /\ UNCHANGED << registros, situacion >>
        /\ entrada' = [entrada EXCEPT ![q] = SinEntrada]
    BY <1>8 DEF InterfazDuerme, InterfazLee, InterfazEscribe, SinInterfaz, vars, nucleoVars,
                Hecha
  <2>2. entrada' \in [Proceso -> Pedidos]
    BY <1>1, <2>1
  <2>3. ASSUME NEW p \in Proceso
        PROVE  EntradaDe(p)'
    <3>1. entrada'[p] \in {entrada[p], SinEntrada}
      BY <1>1, <2>1
    <3> QED
      BY <1>4, <2>1, <3>1
  <2> QED
    BY <2>2, <2>3
<1>9. CASE NucleoConDatos
  <2>1. ASSUME NEW q \in Proceso, NEW a \in Situaciones, NEW b \in Situaciones,
               EnSituacion(q, a, b), \/ a \notin {"BLOCKED", "EXIT"} \/ b = "EXIT"
                                     \/ entrada[q] = SinEntrada,
               NEW p \in Proceso, entrada[p] # SinEntrada
        PROVE  situacion'[p] \in {situacion[p], "EXIT"}
    <3>1. situacion[p] \in {"BLOCKED", "EXIT"}
      BY <1>2, <2>1 DEF EntradaDe
    <3> QED
      BY <1>1, <2>1, <3>1 DEF EnSituacion
  <2>2. CASE SinDatos
    <3>1. UNCHANGED << registros, entrada >>
      BY <2>2 DEF SinDatos, datos, kernelDatos
    <3>2. ASSUME NEW q \in Proceso,
                 NucleoCrea(q) \/ NucleoAdmite(q) \/ NucleoFinalizaNuevo(q),
                 NEW p \in Proceso, entrada[p] # SinEntrada
          PROVE  situacion'[p] \in {situacion[p], "EXIT"}
      BY <2>1, <3>2 DEF NucleoCrea, NucleoAdmite, NucleoFinalizaNuevo, Situaciones
    <3>3. CASE NucleoDesaloja \/ NucleoFinaliza
      BY <3>3, <1>5, <3>1 DEF NucleoDesaloja, NucleoFinaliza
    <3> QED
      BY <1>5, <2>2, <3>1, <3>2, <3>3 DEF SinDatos
  <2>3. ASSUME NEW q \in Proceso, Despacha(q) \/ Despierta(q)
        PROVE  Bien
    <3>1. UNCHANGED << registros, entrada >>
      BY <2>3 DEF Despacha, Despierta, datos, kernelDatos
    <3>2. ASSUME NEW p \in Proceso, entrada[p] # SinEntrada
          PROVE  situacion'[p] \in {situacion[p], "EXIT"}
      BY <2>1, <2>3, <3>2 DEF Despacha, NucleoDespacha, Despierta, NucleoDespierta, Situaciones
    <3> QED
      BY <1>5, <3>1, <3>2
  <2>4. ASSUME NEW q \in Proceso, FinalizaOtro(q)
        PROVE  Bien
    <3>1. /\ UNCHANGED registros
          /\ entrada' \in { entrada, [entrada EXCEPT ![q] = SinEntrada] }
          /\ situacion' = [situacion EXCEPT ![q] = "EXIT"]
      BY <2>4 DEF FinalizaOtro, NucleoFinalizaOtro, EnSituacion
    <3>2. entrada' \in [Proceso -> Pedidos]
      BY <1>1, <3>1
    <3>3. ASSUME NEW p \in Proceso
          PROVE  EntradaDe(p)'
      <4>1. entrada'[p] \in {entrada[p], SinEntrada}
        BY <1>1, <3>1
      <4>2. situacion'[p] \in {situacion[p], "EXIT"}
        BY <1>1, <3>1
      <4> QED
        BY <1>4, <3>1, <4>1, <4>2
    <3> QED
      BY <3>2, <3>3
  <2>5. CASE DejaCPU \/ Continua \/ Bloquea
    <3>1. RecibeContexto
      BY <2>5 DEF DejaCPU, Continua, Bloquea
    <3>2. PICK q \in Proceso : Llegada(q)
      BY <3>1, LlegadaEs
    <3>3. /\ situacion[q] = "EXEC" /\ registros' = [registros EXCEPT ![q] = devueltos[1]]
          /\ entrada[q] = SinEntrada /\ Llegado = q
          /\ devueltos[1] \in Registros /\ contextos[1] \in Contexto
          /\ Head(contextos) = contextos[1] /\ contextos[1].pid = q /\ Len(contextos) = 1
      <4>1. situacion[q] = "EXEC"
        BY <3>2 DEF Llegada
      <4>2. entrada[q] = SinEntrada
        BY <1>2, <4>1 DEF EntradaDe
      <4> QED
        BY <3>2, <4>1, <4>2 DEF Llegada
    <3>4. ASSUME NEW p \in Proceso, p # q
          PROVE  situacion'[p] = situacion[p] /\ registros'[p] = registros[p]
      <4>1. registros'[p] = registros[p]
        BY <1>1, <3>3, <3>4
      <4>2. situacion'[p] = situacion[p]
        BY <1>1, <2>5, <3>3, <3>4 DEF DejaCPU, Continua, Bloquea, NucleoTermina,
           NucleoReencola, NucleoContinua, NucleoBloquea, EnSituacion, nucleoVars
      <4> QED
        BY <4>1, <4>2
    <3>5. ASSUME NEW p \in Proceso, p # q, entrada'[p] = entrada[p]
          PROVE  EntradaDe(p)'
      BY <1>4, <3>4, <3>5
    <3>6. CASE entrada' = entrada
      <4>1. EntradaDe(q)'
        BY <3>3, <3>6 DEF EntradaDe
      <4> QED
        BY <1>1, <3>5, <3>6, <4>1
    <3>7. CASE Bloquea /\ Llega({"IO"})
      <4>1. /\ entrada' = [entrada EXCEPT ![q] =
                   Pedido(Casos[caso][q][registros'[q].PC][1], contextos[1])]
            /\ situacion' = [situacion EXCEPT ![q] = "BLOCKED"] /\ contextos[1].op = "IO"
            /\ caso' = caso
        BY <3>3, <3>7 DEF Bloquea, NucleoBloquea, EnSituacion, Llega
      <4>2. PICK r, tam, fs : r = devueltos[1] /\ tam = contextos[1].tam
                              /\ fs = contextos[1].fisicas
        OBVIOUS
      <4>3. r \in Registros /\ tam \in Nat /\ fs \in Seq(Nat) /\ registros'[q] = r
        BY <1>1, <3>3, <4>2 DEF Contexto
      <4>4. Pide_IO(q, r, tam, fs)
        <5>1. 1 \in 1 .. Len(contextos)
          BY <3>3
        <5>2. Pide_IO(contextos[1].pid, devueltos[1], contextos[1].tam, contextos[1].fisicas)
          BY <4>1, <5>1, ContextosPiden, Zenon
        <5> QED
          BY <3>3, <4>2, <5>2, Zenon
      <4>5. r.PC < Len(Texto(q))
        <5>1. 1 \in 1 .. Len(contextos) /\ contextos[1].op # "FINALIZADO"
          BY <3>3, <4>1
        <5>2. devueltos[1].PC < Len(Texto(contextos[1].pid))
          BY <5>1, Zenon DEF EnTexto
        <5> QED
          BY <3>3, <4>2, <5>2, Zenon
      <4>6. PICK i : i = Texto(q)[r.PC]
        OBVIOUS
      <4>7. PICK e : e = [op |-> i[1], dir |-> IF fs = << >> THEN 0 ELSE fs[1], tam |-> tam]
        OBVIOUS
      <4>8. entrada' = [entrada EXCEPT ![q] = e]
        BY <4>1, <4>2, <4>3, <4>6, <4>7 DEF Pedido, Texto
      <4>9. i[1] \in DeIO /\ r.PC >= 1
        BY <4>4, <4>6 DEF Pide_IO
      <4>10. e \in Pedidos
        <5>1. fs # << >> => fs[1] \in Nat
          BY <4>3
        <5> QED
          BY <4>3, <4>7, <4>9, <5>1 DEF Pedidos
      <4>11. Espera_IO(q, r, e)
        <5>1. PICK dirs : dirs = Direcciones(i, r)
          OBVIOUS
        <5>2. dirs # << >> => Len(dirs) = 1
          <6>1. i[1] = "IO_GEN_SLEEP" => dirs = << >>
            BY <5>1 DEF Direcciones
          <6>2. i[1] \in {"IO_STDIN_READ", "IO_STDOUT_WRITE"} => dirs = << r[i[2]] >>
            BY <5>1 DEF Direcciones
          <6> QED
            BY <4>9, <6>1, <6>2 DEF DeIO
        <5>3. Len(fs) = Len(dirs) /\ Traducidas(q, dirs, fs)
          BY <4>4, <4>6, <5>1 DEF Pide_IO
        <5>4. dirs # << >> => fs = << e.dir >>
          <6> SUFFICES ASSUME dirs # << >>
                       PROVE  fs = << e.dir >>
            OBVIOUS
          <6>1. Len(fs) = 1
            BY <5>2, <5>3
          <6>2. fs = << fs[1] >> /\ fs # << >>
            BY <4>3, <6>1, Uno
          <6> QED
            BY <4>7, <6>2
        <5>5. e.op = i[1] /\ e.tam = tam /\ tam = Tamano(i, r)
          BY <4>4, <4>6, <4>7 DEF Pide_IO
        <5> QED
          BY <4>6, <4>9, <5>1, <5>3, <5>4, <5>5, Zenon DEF Espera_IO
      <4>12. Espera_IO(q, r, e)'
        BY <3>3, <4>3, <4>5, <4>10, <4>11, EsperaSigue
      <4>13. entrada' \in [Proceso -> Pedidos] /\ e = entrada'[q] /\ r = registros'[q]
             /\ situacion'[q] = "BLOCKED"
        BY <1>1, <4>1, <4>3, <4>8, <4>10
      <4>14. Espera_IO(q, registros[q], entrada[q])'
        BY <4>12, <4>13, ZenonT(60)
           DEF Espera_IO, Traducidas, Tras, Pagina, Desplazamiento, Direcciones, Tamano, Texto
      <4>15. EntradaDe(q)'
        BY <4>13, <4>14 DEF EntradaDe
      <4>16. ASSUME NEW p \in Proceso, p # q
             PROVE  entrada'[p] = entrada[p]
        BY <1>1, <4>8, <4>16
      <4> QED
        BY <3>5, <4>13, <4>15, <4>16
    <3>8. entrada' = entrada \/ (Bloquea /\ Llega({"IO"}))
      BY <2>5 DEF DejaCPU, Continua, Bloquea
    <3> QED
      BY <3>6, <3>7, <3>8
  <2>6. ASSUME NEW q \in Proceso, FinalizaEnVuelo(q)
        PROVE  Bien
    BY <1>5, <2>6 DEF FinalizaEnVuelo, NucleoFinalizaEnVuelo, kernelDatos
  <2> HIDE DEF Bien
  <2> QED
    BY <1>9, <2>2, <2>3, <2>4, <2>5, <2>6, Zenon DEF NucleoConDatos
<1> HIDE DEF Bien
<1> QED
  BY <1>6, <1>7, <1>8, <1>9, QuienDaElPaso, Zenon DEF Interfaz

-----------------------------------------------------------------------------
(* A RESIZE.                                                                *)

LEMMA PasoRedimensiona ==
  ASSUME InvarianteMaquina, InstruccionPropia, TipoDatos, Redimensiona, [Next]_vars
  PROVE  Redimensiona'
<1> USE DEF HilosMemoria
<1>0. /\ TiposMaquina /\ UnTurno /\ EnServicio /\ PedidosEnOrden /\ CreadosEnMemoria
      /\ paginas \in [Proceso -> Seq(Marcos)] /\ faltan \in Nat
      /\ hilo \in [HilosMemoria -> EtapasKernel \cup EtapasCPU] /\ instruccion.tam \in Nat
      /\ Donde /\ "cpu" \in HilosMemoria /\ "kernel" \in HilosMemoria
  BY DondeEs DEF InvarianteMaquina, TiposMaquina, TypeOKMaquina, Instruccion
<1>1. ASSUME cpu' # "resize"
      PROVE  Redimensiona'
  BY <1>1 DEF Redimensiona
<1>2. ASSUME UNCHANGED << cpu, pcb, instruccion, paginas, faltan, respuesta >>,
             hilo'["cpu"] = hilo["cpu"], enVuelo \subseteq enVuelo'
      PROVE  Redimensiona'
  BY <1>2 DEF Redimensiona, PaginasPara
<1>3. CASE Nucleo \/ PasoInterrupcion \/ UNCHANGED vars
  <2>1. /\ UNCHANGED << cpu, pcb, instruccion, paginas, faltan, respuesta, hilo >>
        /\ enVuelo \subseteq enVuelo'
    <3>1. CASE Nucleo
      BY <3>1 DEF Nucleo, NucleoCrea, NucleoAdmite, NucleoDespacha, NucleoDespierta,
         NucleoFinalizaOtro, NucleoFinalizaNuevo, NucleoFinalizaEnVuelo, NucleoDesaloja,
         NucleoFinaliza, NucleoTermina, NucleoReencola, NucleoContinua, NucleoBloquea,
         MenosPedidos, MenosConfirmaciones, memoriaVars, cpuVars, cicloVars, nucleoVars,
         finVars
    <3>2. CASE PasoInterrupcion \/ UNCHANGED vars
      BY <3>2 DEF PasoInterrupcion, InterrupcionLlega, vars, memoriaVars, cpuVars, cicloVars,
         nucleoVars, finVars
    <3> QED
      BY <1>3, <3>1, <3>2
  <2> QED
    BY <1>2, <2>1
<1>4. CASE PasoCiclo
  <2>1. CASE CPUPideTamano
    <3>1. /\ MemoriaRedimensiona(pcb, instruccion.tam) /\ UNCHANGED << pcb, instruccion >>
          /\ cpu = "decode"
      BY <2>1 DEF CPUPideTamano, Decodificada
    <3>2. pcb \in Proceso
      BY <1>0, <3>1 DEF Donde
    <3> DEFINE hay == Len(paginas[pcb])
               pide == PaginasPara(instruccion.tam)
    <3>3. hay \in Nat /\ pide \in Nat
      <4>1. paginas[pcb] \in Seq(Marcos)
        BY <1>0, <3>2
      <4>2. hay \in Nat
        BY <4>1
      <4>3. instruccion.tam \in Nat
        BY <1>0
      <4>4. pide \in Nat
        BY <4>3, PaginasParaNat
      <4> QED
        BY <4>2, <4>4
    <3>4. /\ faltan' = IF pide > hay THEN pide - hay ELSE hay - pide
          /\ respuesta' = IF pide = hay THEN "OK" ELSE "ninguna"
          /\ hilo' = [hilo EXCEPT !["cpu"] = CASE pide > hay -> "asigna"
                                               [] pide < hay -> "reduce"
                                               [] OTHER -> "libre"]
          /\ paginas' = paginas
      BY <3>1 DEF MemoriaRedimensiona, PasaA
    <3>5. Len(paginas'[pcb']) = hay /\ PaginasPara(instruccion'.tam) = pide
      BY <3>1, <3>4 DEF PaginasPara
    <3> HIDE DEF hay, pide
    <3>6. hilo'["cpu"] = CASE pide > hay -> "asigna" [] pide < hay -> "reduce"
                           [] OTHER -> "libre"
      BY <1>0, <3>4
    <3>7. hilo'["cpu"] = "asigna" => hay + faltan' = pide
      BY <3>3, <3>4, <3>6
    <3>8. hilo'["cpu"] # "marca"
      BY <3>3, <3>6
    <3>9. hilo'["cpu"] \in {"reduce", "descarta"} => hay = pide + faltan'
      BY <3>3, <3>4, <3>6
    <3>10. respuesta' = "OK" => hay = pide
      BY <3>4
    <3> QED
      BY <3>5, <3>7, <3>8, <3>9, <3>10 DEF Redimensiona
  <2>2. CASE CPURecibe \/ CPUPendUsuario \/ CPUPendQuantum \/ CPULimpia \/ CPUFetch
             \/ CPUDecode \/ CPUEjecutaLocal \/ CPURedimensionada \/ CPUSolicitaRecurso
             \/ CPUPideIO \/ CPUSale \/ CPUVeUsuario \/ CPUVeQuantum
             \/ CPUPideTamanoEnVano
    <3>1. cpu' # "resize"
      BY <2>2 DEF CPURecibe, CPUPendUsuario, CPUPendQuantum, CPULimpia, CPUFetch, CPUDecode,
         CPUEjecutaLocal, CPURedimensionada, CPUSolicitaRecurso, CPUPideIO, CPUSale,
         CPUVeUsuario, CPUVeQuantum, CPUPideTamanoEnVano, Responde, RespondeSinMemoria
    <3> QED
      BY <1>1, <3>1
  <2> QED
    BY <1>4, <2>1, <2>2 DEF PasoCiclo, CicloCPU
<1>5. CASE PasoMemoria
  <2>0. UNCHANGED << cpu, pcb, instruccion, enVuelo >>
    BY <1>5 DEF PasoMemoria, cpuVars, cicloVars, nucleoVars, finVars
  <2> SUFFICES ASSUME cpu = "resize"
               PROVE  Redimensiona'
    BY <1>1, <2>0
  <2>1. pcb \in Proceso /\ situacion[pcb] = "EXEC" /\ sirve["cpu"] = pcb
    BY <1>0 DEF Donde, EnServicio
  <2> DEFINE hay == Len(paginas[pcb])
             pide == PaginasPara(instruccion.tam)
  <2>2. hay \in Nat /\ pide \in Nat
    <3>1. paginas[pcb] \in Seq(Marcos) /\ instruccion.tam \in Nat
      BY <1>0, <2>1
    <3>2. PaginasPara(instruccion.tam) \in Nat
      BY <3>1, PaginasParaNat
    <3> QED
      BY <3>1, <3>2
  <2>3. /\ hilo["cpu"] = "asigna" => hay + faltan = pide
        /\ hilo["cpu"] = "marca" => hay + faltan = pide + 1
        /\ hilo["cpu"] \in {"reduce", "descarta"} => hay = pide + faltan
        /\ respuesta = "OK" /\ pcb \notin enVuelo => hay = pide
    BY DEF Redimensiona
  <2>4. PaginasPara(instruccion'.tam) = pide /\ pcb' = pcb /\ paginas[pcb] \in Seq(Marcos)
    BY <1>0, <2>0, <2>1 DEF PaginasPara
  <2> HIDE DEF pide
  <2>5. ASSUME paginas'[pcb] = paginas[pcb],
               hilo'["cpu"] = hilo["cpu"], UNCHANGED << faltan, respuesta >>
        PROVE  Redimensiona'
    BY <2>0, <2>3, <2>4, <2>5 DEF Redimensiona
  <2>6. CASE HiloKernel
    <3>1. UNCHANGED << faltan, respuesta >> /\ hilo'["cpu"] = hilo["cpu"]
      BY <1>0, <2>6 DEF HiloKernel, MemoriaCrea, MemoriaTermina, MemoriaCargaParaLiberar,
         MemoriaLiberaPagina, MemoriaOlvidaProceso, PasaA
    <3>2. CASE MemoriaLiberaPagina
      <4>1. hilo["kernel"] = "limpia"
            /\ paginas' = [paginas EXCEPT ![sirve["kernel"]] = Tail(@)]
        BY <3>2 DEF MemoriaLiberaPagina
      <4>2. CASE sirve["kernel"] # pcb
        BY <1>0, <2>1, <2>5, <3>1, <4>1, <4>2
      <4>3. CASE sirve["kernel"] = pcb
        <5>1. pcb \in enVuelo
          BY <1>0, <2>1, <4>1, <4>3 DEF EnServicio, Soltado
        <5>2. hilo["cpu"] = "libre"
          BY <1>0, <4>1, <4>3 DEF EnServicio, Trabaja
        <5> QED
          BY <2>0, <3>1, <5>1, <5>2 DEF Redimensiona
      <4> QED
        BY <4>2, <4>3
    <3>3. CASE MemoriaCrea
      <4>1. pcb \in confirmados
        BY <1>0 DEF EnServicio
      <4>2. Head(pedidos_kernel).pid # pcb
        BY <1>0, <2>1, <3>3, <4>1, CabezaPedidos DEF MemoriaCrea
      <4>3. \/ paginas' = [paginas EXCEPT ![Head(pedidos_kernel).pid] = << >>]
            \/ paginas' = paginas
        BY <3>3 DEF MemoriaCrea
      <4> QED
        BY <1>0, <2>1, <2>5, <3>1, <4>2, <4>3
    <3>4. CASE MemoriaTermina \/ MemoriaCargaParaLiberar \/ MemoriaOlvidaProceso
      BY <2>5, <3>1, <3>4 DEF MemoriaTermina, MemoriaCargaParaLiberar, MemoriaOlvidaProceso
    <3> QED
      BY <2>6, <3>2, <3>3, <3>4 DEF HiloKernel
  <2>7. CASE AsignaSaltea
    BY <2>5, <2>7 DEF AsignaSaltea
  <2>8. CASE AsignaEncuentra
    <3>1. /\ hilo["cpu"] = "asigna" /\ indice \in Marcos
          /\ paginas' = [paginas EXCEPT ![sirve["cpu"]] = Append(@, indice)]
          /\ hilo' = [hilo EXCEPT !["cpu"] = "marca"] /\ UNCHANGED << faltan, respuesta >>
      BY <2>8 DEF AsignaEncuentra, PasaA
    <3>2. paginas'[pcb] = Append(paginas[pcb], indice)
      BY <1>0, <2>1, <3>1
    <3>3. Len(paginas'[pcb]) = hay + 1
      BY <2>4, <3>1, <3>2
    <3>4. respuesta = "ninguna" /\ hilo'["cpu"] = "marca"
      BY <1>0, <3>1 DEF EnServicio
    <3> HIDE DEF hay
    <3>5. hay + faltan = pide
      BY <2>3, <3>1
    <3>6. Len(paginas'[pcb]) + faltan' = pide + 1
      <4>1. faltan' = faltan /\ faltan \in Nat
        BY <1>0, <3>1
      <4> HIDE DEF pide
      <4> QED
        BY <2>2, <3>3, <3>5, <4>1
    <3> QED
      BY <2>4, <3>1, <3>4, <3>6 DEF Redimensiona
  <2>9. CASE AsignaMarca
    <3>1. /\ hilo["cpu"] = "marca" /\ paginas' = paginas /\ faltan' = faltan - 1
          /\ hilo' = [hilo EXCEPT !["cpu"] = IF faltan = 1 THEN "libre" ELSE "asigna"]
          /\ respuesta' = IF faltan = 1 THEN "OK" ELSE "ninguna"
      BY <2>9 DEF AsignaMarca, PasaA
    <3>2. hilo'["cpu"] = IF faltan = 1 THEN "libre" ELSE "asigna"
      BY <1>0, <3>1
    <3>3. hay + faltan = pide + 1 /\ Len(paginas'[pcb]) = hay
      BY <2>3, <3>1
    <3> HIDE DEF hay
    <3>4. hay + faltan' = pide /\ (faltan = 1 => hay = pide)
      BY <1>0, <2>2, <3>1, <3>3
    <3> QED
      BY <2>4, <3>1, <3>2, <3>3, <3>4 DEF Redimensiona
  <2>10. CASE AsignaSinMarcos
    <3>1. /\ respuesta' = "OUT_OF_MEMORY" /\ hilo' = [hilo EXCEPT !["cpu"] = "libre"]
      BY <2>10 DEF AsignaSinMarcos, PasaA
    <3>2. hilo'["cpu"] = "libre"
      BY <1>0, <3>1
    <3> QED
      BY <3>1, <3>2 DEF Redimensiona
  <2>11. CASE ReduceCarga
    <3>1. /\ hilo["cpu"] = "reduce" /\ UNCHANGED << paginas, faltan, respuesta >>
          /\ hilo' = [hilo EXCEPT !["cpu"] = "descarta"]
      BY <2>11 DEF ReduceCarga, PasaA
    <3>2. hilo'["cpu"] = "descarta"
      BY <1>0, <3>1
    <3> QED
      BY <2>0, <2>3, <2>4, <3>1, <3>2 DEF Redimensiona
  <2>12. CASE ReducePagina
    <3>1. /\ hilo["cpu"] = "descarta" /\ faltan' = faltan - 1
          /\ paginas' = [paginas EXCEPT ![sirve["cpu"]] = Front(@)]
          /\ hilo' = [hilo EXCEPT !["cpu"] = IF faltan = 1 THEN "libre" ELSE "reduce"]
          /\ respuesta' = IF faltan = 1 THEN "OK" ELSE "ninguna"
      BY <2>12 DEF ReducePagina, PasaA
    <3>2. hilo'["cpu"] = IF faltan = 1 THEN "libre" ELSE "reduce"
      BY <1>0, <3>1
    <3>3. paginas'[pcb] = Front(paginas[pcb]) /\ faltan > 0
      BY <1>0, <2>1, <3>1 DEF EnServicio
    <3>4. hay = pide + faltan
      BY <2>3, <3>1
    <3>5. paginas[pcb] # << >>
      BY <1>0, <2>2, <2>4, <3>3, <3>4
    <3>6. Len(paginas'[pcb]) = hay - 1
      BY <2>4, <3>3, <3>5, FrenteLista
    <3> HIDE DEF hay
    <3>7. Len(paginas'[pcb]) = pide + faltan' /\ (faltan = 1 => Len(paginas'[pcb]) = pide)
      BY <1>0, <2>2, <3>1, <3>4, <3>6
    <3> QED
      BY <2>4, <3>1, <3>2, <3>7 DEF Redimensiona
  <2> QED
    BY <1>5, <2>6, <2>7, <2>8, <2>9, <2>10, <2>11, <2>12 DEF PasoMemoria, HiloCPU
<1>6. CASE Carrera
  BY <1>1, <1>6 DEF Carrera
<1> QED
  BY <1>3, <1>4, <1>5, <1>6 DEF Next, Quieta

-----------------------------------------------------------------------------
(* The invariant of the data.                                               *)

LEMMA EnCeroEs == EnCero \in Registros
<1>1. Base ^ Ancho \in Nat \ {0}
  BY PotenciasDeBase
<1>2. \A r \in Registro : 0 < Modulo(r)
  BY ModuloEs
<1>3. 0 \in 0 .. Base ^ Ancho - 1
  BY <1>1
<1> QED
  BY <1>2, <1>3 DEF EnCero, Registros

LEMMA InicioDatos ==
  ASSUME Init, InitDatos
  PROVE  InvarianteDatos
<1>1. /\ cpu = "espera" /\ pcb = 0 /\ fisicas = << >> /\ despachados = << >>
      /\ contextos = << >>
  BY DEF Init, InitCpu
<1>2. /\ caso \in 1 .. Len(Casos)
      /\ registros = [p \in Proceso |-> EnCero] /\ regs_cpu = EnCero
      /\ enviados = << >> /\ devueltos = << >>
      /\ user_memory = [a \in 0 .. TamMemoria - 1 |-> 0] /\ copia = SinCopia
      /\ entrada = [p \in Proceso |-> SinEntrada]
      /\ salida = [p \in Proceso |-> << >>] /\ tocados = {}
  BY DEF InitDatos
<1>3. TipoDatos
  <2>1. 0 \in Byte
    BY DEF Byte
  <2>2. user_memory \in [0 .. TamMemoria - 1 -> Byte]
    BY <1>2, <2>1
  <2>3. SinEntrada \in Pedidos /\ copia \in [hay : BOOLEAN, bien : BOOLEAN, bytes : Seq(Byte)]
    BY <1>2 DEF SinEntrada, Pedidos, SinCopia
  <2>4. /\ registros \in [Proceso -> Registros] /\ regs_cpu \in Registros
        /\ entrada \in [Proceso -> Pedidos] /\ salida \in [Proceso -> Seq(Seq(Byte))]
    BY <1>2, <2>3, EnCeroEs
  <2>5. /\ enviados \in Seq(Registros) /\ devueltos \in Seq(Registros)
        /\ Len(enviados) = Len(despachados) /\ Len(devueltos) = Len(contextos)
    BY <1>1, <1>2
  <2> QED
    BY <1>2, <2>2, <2>3, <2>4, <2>5 DEF TipoDatos
<1>4. EnTexto
  <2>1. EnCero.PC = 0
    BY OperandoEs DEF EnCero
  <2>2. \A p \in Proceso : Len(Texto(p)) \in Nat /\ Len(Texto(p)) \in 1 .. Base ^ Ancho - 1
    BY <1>2, TextoEs
  <2>3. \A p \in Proceso : EnCero.PC < Len(Texto(p))
    BY <2>1, <2>2
  <2> QED
    BY <1>1, <1>2, <2>3 DEF EnTexto
<1>5. InstruccionPropia /\ BienTraducidas /\ ContextosIO /\ EntradasIO /\ Redimensiona
  BY <1>1, <1>2 DEF InstruccionPropia, BienTraducidas, ContextosIO, EntradasIO, Redimensiona
<1> QED
  BY <1>3, <1>4, <1>5 DEF InvarianteDatos

LEMMA PasoInvarianteDatos ==
  ASSUME InvarianteMaquina, InvarianteMaquina', InvarianteDatos, [NextProgramas]_todas
  PROVE  InvarianteDatos'
<1>1. /\ TipoDatos /\ EnTexto /\ InstruccionPropia /\ BienTraducidas
      /\ ContextosIO /\ EntradasIO /\ Redimensiona
  BY DEF InvarianteDatos
<1>2. [Next]_vars
  BY PasoEsPaso
<1>3. TiposRegistros' /\ TiposBytes'
  BY <1>1, PasoTiposRegistros, PasoTiposBytes
<1>4. entrada' \in [Proceso -> Pedidos] /\ EntradasIO'
  BY <1>1, PasoEntradas
<1>5. TipoDatos'
  BY <1>3, <1>4 DEF TipoDatos, TiposRegistros, TiposBytes
<1>6. EnTexto' /\ InstruccionPropia'
  BY <1>1, PasoEnTexto, PasoInstruccionPropia
<1>7. BienTraducidas' /\ ContextosIO'
  BY <1>1, PasoBienTraducidas, PasoContextosIO
<1>8. Redimensiona'
  BY <1>1, <1>2, PasoRedimensiona
<1> QED
  BY <1>4, <1>5, <1>6, <1>7, <1>8 DEF InvarianteDatos

\* Whatever the programs do, the CPU executes what they say: the instruction
\* decoded is the one at the program counter, the addresses it uses are those of
\* its registers through the page table, and an I/O is for the bytes it named
\* (instruccion.c:20, mmu.c:27, manejo_interrupciones_cpu.c:330).
THEOREM InvarianteDatosSiempre == SpecProgramas => []InvarianteDatos
<1>1. Init /\ InitDatos => InvarianteDatos
  BY InicioDatos
<1>2. InvarianteMaquina /\ InvarianteMaquina' /\ InvarianteDatos /\ [NextProgramas]_todas
         => InvarianteDatos'
  BY PasoInvarianteDatos
<1> QED
  BY <1>1, <1>2, MaquinaEnProgramas, PTL DEF SpecProgramas

\* The registers hold what fits their widths and the memory bytes, and each pcb
\* and each context on its way has its registers with it (pcb.c, servers.c).
THEOREM TypeOKProgramasSiempre == SpecProgramas => []TypeOKProgramas
<1>1. TipoDatos => TypeOKProgramas
  <2> SUFFICES ASSUME TipoDatos
               PROVE  TypeOKProgramas
    OBVIOUS
  <2>1. ToSet(enviados) \cup ToSet(devueltos) \subseteq Registros
    BY DEF TipoDatos, ToSet
  <2> QED
    BY <2>1 DEF TipoDatos, TypeOKProgramas
<1> QED
  BY <1>1, InvarianteDatosSiempre, PTL DEF InvarianteDatos
=============================================================================
