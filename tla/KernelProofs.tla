---------------------------- MODULE KernelProofs ----------------------------
(***************************************************************************)
(* The instances of the resources, and then the theorems of the kernel, for *)
(* any number of processes, resources and interfaces, any degree of        *)
(* multiprogramming and each of the three algorithms.  The steps of the    *)
(* threads are in the modules it extends, one lemma for the handler of each *)
(* thread.                                                                 *)
(*                                                                         *)
(* The instances of the resources: none is created, lost or handed to two. *)
(* First what a sum over a finite set does when one of its terms changes;  *)
(* then that the books of the handler agree at each of its steps; then the *)
(* instances that the processes have and those that they ask for.          *)
(***************************************************************************)
EXTENDS PruebaDiagrama

USE NombresDistintos
USE DEF En, Sigue, semVars, planVars, schedVars, recVars, memVars, cpuVars,
        ioVars, conVars, consVars, otras, ConMano

(* Sums.  SumFunction adds the terms one by one, in an order of its own; what *)
(* is proved of it is by induction over the subsets of its domain.            *)

\* The term that is added first, and the others.
Elegido(s) == CHOOSE x \in s : TRUE
SinElegido(s) == s \ {Elegido(s)}

\* The sum of the terms in s, if g is that of the smaller sets.
UnSumando(f, g, s) == IF s = {} THEN 0 ELSE f[Elegido(s)] + g[SinElegido(s)]

Acumula(f, S) == CHOOSE g : g = [s \in SUBSET S |-> UnSumando(f, g, s)]
Suma(f, S) == Acumula(f, S)[S]

\* The sum of the community modules is this one.
LEMMA EsSuma ==
  ASSUME NEW S, NEW f \in [S -> Int]
  PROVE  SumFunction(f) = Suma(f, S)
<1>1. DOMAIN f = S
  OBVIOUS
<1>2. SumFunction(f) = Suma(f, DOMAIN f)
  BY DEF SumFunction, SumFunctionOnSet, FoldFunctionOnSet, MapThenFoldSet, Suma,
     Acumula, UnSumando, Elegido, SinElegido
<1> QED
  BY <1>1, <1>2

\* Induction over the naturals, of a set of them.
LEMMA InduccionNat ==
  ASSUME NEW A, 0 \in A, \A n \in Nat : n \in A => n + 1 \in A
  PROVE  Nat \subseteq A
<1> DEFINE T == Nat \ A
<1>1. SUFFICES ASSUME T # {}
               PROVE  FALSE
  OBVIOUS
<1>2. PICK n \in T : \A m \in T : ~ (<<m, n>> \in OpToRel(<, Nat))
  BY <1>1, NatLessThanWellFounded, WFMin
<1>3. n # 0 /\ n - 1 \in Nat
  OBVIOUS
<1>4. n - 1 \in T
  BY <1>3
<1>5. <<n - 1, n>> \in OpToRel(<, Nat)
  BY <1>3 DEF OpToRel
<1> QED
  BY <1>2, <1>4, <1>5

LEMMA ElegidoEsDe ==
  ASSUME NEW s, s # {}
  PROVE  Elegido(s) \in s
BY DEF Elegido

\* Induction over the subsets of a finite set, in the order of the sum.
LEMMA InduccionSubconjuntos ==
  ASSUME NEW S, IsFiniteSet(S), NEW A,
         {} \in A,
         \A T \in SUBSET S : T # {} /\ SinElegido(T) \in A => T \in A
  PROVE  SUBSET S \subseteq A
<1> DEFINE N == { n \in Nat : \A T \in SUBSET S : Cardinality(T) = n => T \in A }
<1>1. \A T \in SUBSET S : IsFiniteSet(T) /\ Cardinality(T) \in Nat
  BY FS_Subset, FS_CardinalityType
<1>2. 0 \in N
  BY <1>1, FS_EmptySet
<1>3. ASSUME NEW n \in Nat, n \in N
      PROVE  n + 1 \in N
  <2> SUFFICES ASSUME NEW T \in SUBSET S, Cardinality(T) = n + 1
               PROVE  T \in A
    OBVIOUS
  <2>1. T # {}
    <3> SUFFICES ASSUME T = {}
                 PROVE  FALSE
      OBVIOUS
    <3>1. Cardinality(T) = 0
      BY FS_EmptySet
    <3> QED
      BY <3>1
  <2>2. Elegido(T) \in T
    BY <2>1, ElegidoEsDe
  <2>2a. Cardinality(SinElegido(T)) = Cardinality(T) - 1
    BY <1>1, <2>2, FS_RemoveElement DEF SinElegido
  <2>3. SinElegido(T) \in SUBSET S
    BY DEF SinElegido
  <2>4. SinElegido(T) \in A
    BY <1>3, <2>2a, <2>3
  <2> QED
    BY <2>1, <2>2a, <2>4
<1>4. Nat \subseteq N
  <2> HIDE DEF N
  <2> QED
    BY <1>2, <1>3, InduccionNat
<1> QED
  BY <1>1, <1>4

\* The recursion that defines the sum has a solution.
LEMMA SumaExiste ==
  ASSUME NEW S, IsFiniteSet(S), NEW f \in [S -> Int]
  PROVE  /\ Acumula(f, S) = [s \in SUBSET S |-> UnSumando(f, Acumula(f, S), s)]
         /\ Acumula(f, S) \in [SUBSET S -> Int]
<1> DEFINE Hasta(n) == { T \in SUBSET S : Cardinality(T) <= n }
           N == { n \in Nat : \E g \in [SUBSET S -> Int] :
                    \A T \in Hasta(n) : g[T] = UnSumando(f, g, T) }
<1>1. \A T \in SUBSET S : IsFiniteSet(T) /\ Cardinality(T) \in Nat
  BY FS_Subset, FS_CardinalityType
<1>2. 0 \in N
  <2> DEFINE g == [T \in SUBSET S |-> 0]
  <2>1. \A T \in Hasta(0) : T = {}
    BY <1>1, FS_EmptySet
  <2>2. \A T \in Hasta(0) : g[T] = UnSumando(f, g, T)
    BY <2>1 DEF UnSumando
  <2>3. g \in [SUBSET S -> Int]
    OBVIOUS
  <2> HIDE DEF g
  <2> QED
    BY <2>2, <2>3
<1>3. ASSUME NEW n \in Nat, n \in N
      PROVE  n + 1 \in N
  <2>1. PICK g \in [SUBSET S -> Int] : \A T \in Hasta(n) : g[T] = UnSumando(f, g, T)
    BY <1>3
  <2> DEFINE h == [T \in SUBSET S |-> UnSumando(f, g, T)]
  <2>2. h \in [SUBSET S -> Int]
    BY ElegidoEsDe DEF UnSumando, SinElegido
  <2>3. ASSUME NEW T \in Hasta(n + 1)
        PROVE  h[T] = UnSumando(f, h, T)
    <3>1. CASE T = {}
      BY <3>1 DEF UnSumando
    <3>2. CASE T # {}
      <4>1. SinElegido(T) \in SUBSET S /\ Cardinality(SinElegido(T)) = Cardinality(T) - 1
        BY <1>1, <3>2, ElegidoEsDe, FS_RemoveElement DEF SinElegido
      <4>2. SinElegido(T) \in Hasta(n)
        BY <1>1, <4>1
      <4>3. h[SinElegido(T)] = g[SinElegido(T)]
        BY <2>1, <4>1, <4>2
      <4> QED
        BY <3>2, <4>3 DEF UnSumando
    <3> QED
      BY <3>1, <3>2
  <2> HIDE DEF h
  <2> QED
    BY <2>2, <2>3
<1>4. Nat \subseteq N
  <2> HIDE DEF N
  <2> QED
    BY <1>2, <1>3, InduccionNat
<1>5. PICK g \in [SUBSET S -> Int] :
        \A T \in Hasta(Cardinality(S)) : g[T] = UnSumando(f, g, T)
  BY <1>1, <1>4
<1>6. \A T \in SUBSET S : T \in Hasta(Cardinality(S))
  BY <1>1, FS_Subset
<1>7. g = [s \in SUBSET S |-> UnSumando(f, g, s)]
  BY <1>5, <1>6
<1>8. Acumula(f, S) = [s \in SUBSET S |-> UnSumando(f, Acumula(f, S), s)]
  BY <1>7 DEF Acumula
<1> DEFINE A == Acumula(f, S)
           B == { T \in SUBSET S : A[T] \in Int }
<1> HIDE DEF A
<1>9. A = [s \in SUBSET S |-> UnSumando(f, A, s)]
  BY <1>8 DEF A
<1>10. \A T \in SUBSET S : T # {} /\ SinElegido(T) \in B => T \in B
  BY <1>9, ElegidoEsDe DEF UnSumando
<1>11. {} \in B
  BY <1>9 DEF UnSumando
<1>12. SUBSET S \subseteq B
  <2> HIDE DEF B
  <2> QED
    BY <1>10, <1>11, InduccionSubconjuntos
<1>13. A \in [SUBSET S -> Int]
  BY <1>9, <1>12
<1> QED
  BY <1>8, <1>13 DEF A

LEMMA SumaTipo ==
  ASSUME NEW S, IsFiniteSet(S), NEW f \in [S -> Int]
  PROVE  Suma(f, S) \in Int
<1>1. S \in SUBSET S /\ Acumula(f, S) \in [SUBSET S -> Int]
  BY SumaExiste
<1> QED
  BY <1>1 DEF Suma

\* What the sum of the empty set and of another one are.
LEMMA SumaPaso ==
  ASSUME NEW S, IsFiniteSet(S), NEW f \in [S -> Int], NEW T \in SUBSET S
  PROVE  /\ Acumula(f, S)[{}] = 0
         /\ Acumula(f, S)[T] \in Int
         /\ T # {} => /\ Elegido(T) \in S /\ SinElegido(T) \in SUBSET S
                      /\ Acumula(f, S)[T] = f[Elegido(T)] + Acumula(f, S)[SinElegido(T)]
<1> DEFINE A == Acumula(f, S)
<1>a. A = [s \in SUBSET S |-> UnSumando(f, A, s)] /\ A \in [SUBSET S -> Int]
  BY SumaExiste
<1> HIDE DEF A
<1>b. A[{}] = UnSumando(f, A, {}) /\ A[T] = UnSumando(f, A, T) /\ A[T] \in Int
  <2>1. {} \in SUBSET S /\ T \in SUBSET S
    OBVIOUS
  <2> QED
    BY <1>a, <2>1, Zenon
<1>1. /\ Acumula(f, S)[{}] = UnSumando(f, Acumula(f, S), {})
      /\ Acumula(f, S)[T] = UnSumando(f, Acumula(f, S), T)
      /\ Acumula(f, S)[T] \in Int
  BY <1>b DEF A
<1>2. T # {} => Elegido(T) \in S /\ SinElegido(T) \in SUBSET S
  BY ElegidoEsDe DEF SinElegido
<1> QED
  BY <1>1, <1>2 DEF UnSumando

\* A sum is changed by as much as its terms are.
LEMMA SumaPunto ==
  ASSUME NEW S, IsFiniteSet(S), NEW f \in [S -> Int], NEW g \in [S -> Int], NEW p \in S,
         \A x \in S \ {p} : g[x] = f[x]
  PROVE  Suma(g, S) = Suma(f, S) + g[p] - f[p]
<1> DEFINE A == { T \in SUBSET S : Acumula(g, S)[T] =
                    Acumula(f, S)[T] + (IF p \in T THEN g[p] - f[p] ELSE 0) }
<1>1. {} \in A
  BY SumaPaso
<1>2. ASSUME NEW T \in SUBSET S, T # {}, SinElegido(T) \in A
      PROVE  T \in A
  <2> DEFINE u == Acumula(f, S)[T]
             v == Acumula(g, S)[T]
             uu == Acumula(f, S)[SinElegido(T)]
             vv == Acumula(g, S)[SinElegido(T)]
             e == Elegido(T)
  <2>1. u \in Int /\ e \in S /\ u = f[e] + uu
    BY <1>2, SumaPaso
  <2>2. v \in Int /\ v = g[e] + vv
    BY <1>2, SumaPaso
  <2>3. uu \in Int /\ vv \in Int
    BY <1>2, SumaPaso
  <2>4. vv = uu + (IF p \in SinElegido(T) THEN g[p] - f[p] ELSE 0)
    BY <1>2
  <2>5. (p \in SinElegido(T) <=> p \in T /\ p # e) /\ e \in T
    BY <1>2, ElegidoEsDe DEF SinElegido
  <2> HIDE DEF u, v, uu, vv, e
  <2>6. v = u + (IF p \in T THEN g[p] - f[p] ELSE 0)
    <3>1. CASE p = e
      BY <2>1, <2>2, <2>3, <2>4, <2>5, <3>1
    <3>2. CASE p # e
      BY <2>1, <2>2, <2>3, <2>4, <2>5, <3>2
    <3> QED
      BY <3>1, <3>2
  <2> QED
    BY <2>6 DEF u, v
<1>3. SUBSET S \subseteq A
  <2> HIDE DEF A
  <2> QED
    BY <1>1, <1>2, InduccionSubconjuntos
<1>4. S \in A
  BY <1>3
<1> QED
  BY <1>4, SumaTipo DEF Suma

\* A sum of smaller terms is not greater.
LEMMA SumaMonotona ==
  ASSUME NEW S, IsFiniteSet(S), NEW f \in [S -> Int], NEW g \in [S -> Int],
         \A x \in S : f[x] <= g[x]
  PROVE  Suma(f, S) <= Suma(g, S)
<1> DEFINE A == { T \in SUBSET S : Acumula(f, S)[T] <= Acumula(g, S)[T] }
<1>1. {} \in A
  BY SumaPaso
<1>2. ASSUME NEW T \in SUBSET S, T # {}, SinElegido(T) \in A
      PROVE  T \in A
  <2>1. Elegido(T) \in S /\ SinElegido(T) \in SUBSET S
    BY <1>2, SumaPaso
  <2>2. /\ Acumula(f, S)[T] = f[Elegido(T)] + Acumula(f, S)[SinElegido(T)]
        /\ Acumula(g, S)[T] = g[Elegido(T)] + Acumula(g, S)[SinElegido(T)]
    BY <1>2, SumaPaso
  <2>3. Acumula(f, S)[SinElegido(T)] \in Int /\ Acumula(g, S)[SinElegido(T)] \in Int
    BY <2>1, SumaPaso
  <2>4. f[Elegido(T)] \in Int /\ g[Elegido(T)] \in Int /\ f[Elegido(T)] <= g[Elegido(T)]
    BY <2>1
  <2> QED
    BY <1>2, <2>2, <2>3, <2>4
<1>3. SUBSET S \subseteq A
  <2> HIDE DEF A
  <2> QED
    BY <1>1, <1>2, InduccionSubconjuntos
<1>4. S \in A
  BY <1>3
<1> QED
  BY <1>4 DEF Suma

\* The sum of zeros.
LEMMA SumaCero ==
  ASSUME NEW S, IsFiniteSet(S), NEW f \in [S -> Int], \A x \in S : f[x] = 0
  PROVE  Suma(f, S) = 0
<1> DEFINE A == { T \in SUBSET S : Acumula(f, S)[T] = 0 }
<1>1. {} \in A
  BY SumaPaso
<1>2. ASSUME NEW T \in SUBSET S, T # {}, SinElegido(T) \in A
      PROVE  T \in A
  BY <1>2, SumaPaso
<1>3. SUBSET S \subseteq A
  <2> HIDE DEF A
  <2> QED
    BY <1>1, <1>2, InduccionSubconjuntos
<1>4. S \in A
  BY <1>3
<1> QED
  BY <1>4 DEF Suma

\* Counting is a sum.
LEMMA SumaCuenta ==
  ASSUME NEW S, IsFiniteSet(S), NEW f \in [S -> {0, 1}]
  PROVE  Suma(f, S) = Cardinality({ x \in S : f[x] = 1 })
<1> DEFINE C(T) == { x \in T : f[x] = 1 }
           A == { T \in SUBSET S : Acumula(f, S)[T] = Cardinality(C(T)) }
<1>f. f \in [S -> Int]
  OBVIOUS
<1>1. {} \in A
  <2>1. C({}) = {}
    OBVIOUS
  <2> QED
    BY <1>f, <2>1, SumaPaso, FS_EmptySet
<1>2. ASSUME NEW T \in SUBSET S, T # {}, SinElegido(T) \in A
      PROVE  T \in A
  <2> DEFINE e == Elegido(T)
             R == SinElegido(T)
  <2>1. e \in S /\ R \in SUBSET S /\ Acumula(f, S)[T] = f[e] + Acumula(f, S)[R]
    BY <1>f, <1>2, SumaPaso
  <2>2. e \in T /\ e \notin R /\ T = R \cup {e}
    BY <1>2, ElegidoEsDe DEF SinElegido
  <2>3. IsFiniteSet(C(R)) /\ Cardinality(C(R)) \in Nat
    BY <2>1, FS_Subset, FS_CardinalityType
  <2>4. Acumula(f, S)[R] = Cardinality(C(R))
    BY <1>2
  <2> HIDE DEF e, R
  <2>5. CASE f[e] = 1
    <3>1. C(T) = C(R) \cup {e} /\ e \notin C(R)
      BY <2>2, <2>5
    <3>2. Cardinality(C(T)) = Cardinality(C(R)) + 1
      BY <2>3, <3>1, FS_AddElement
    <3> QED
      BY <2>1, <2>3, <2>4, <2>5, <3>2
  <2>6. CASE f[e] = 0
    <3>1. C(T) = C(R)
      BY <2>2, <2>6
    <3>2. Acumula(f, S)[T] = Cardinality(C(R))
      BY <2>1, <2>3, <2>4, <2>6
    <3> QED
      BY <3>1, <3>2
  <2> QED
    BY <2>1, <2>5, <2>6
<1>3. SUBSET S \subseteq A
  <2> HIDE DEF A
  <2> QED
    BY <1>1, <1>2, InduccionSubconjuntos
<1>4. S \in A
  BY <1>3
<1> QED
  BY <1>4 DEF Suma

(* What is used of them, of sums over a finite set. *)

LEMMA TotalTipo ==
  ASSUME NEW S, IsFiniteSet(S), NEW f \in [S -> Int]
  PROVE  SumFunction(f) \in Int
BY EsSuma, SumaTipo

LEMMA TotalPunto ==
  ASSUME NEW S, IsFiniteSet(S), NEW f \in [S -> Int], NEW g \in [S -> Int],
         NEW p \in S, \A x \in S \ {p} : g[x] = f[x]
  PROVE  SumFunction(g) = SumFunction(f) + g[p] - f[p]
<1>1. SumFunction(f) = Suma(f, S) /\ SumFunction(g) = Suma(g, S)
  BY EsSuma
<1>2. Suma(g, S) = Suma(f, S) + g[p] - f[p]
  BY SumaPunto
<1> QED
  BY <1>1, <1>2

LEMMA TotalMonotona ==
  ASSUME NEW S, IsFiniteSet(S), NEW f \in [S -> Int], NEW g \in [S -> Int],
         \A x \in S : f[x] <= g[x]
  PROVE  SumFunction(f) <= SumFunction(g)
BY EsSuma, SumaMonotona

LEMMA TotalCero ==
  ASSUME NEW S, IsFiniteSet(S), NEW f \in [S -> Int], \A x \in S : f[x] = 0
  PROVE  SumFunction(f) = 0
BY EsSuma, SumaCero

LEMMA TotalCuenta ==
  ASSUME NEW S, IsFiniteSet(S), NEW f \in [S -> {0, 1}]
  PROVE  SumFunction(f) = Cardinality({ x \in S : f[x] = 1 })
<1>1. f \in [S -> Int]
  OBVIOUS
<1> QED
  BY <1>1, EsSuma, SumaCuenta

-----------------------------------------------------------------------------
(* The books of the handler. *)

\* The labels of a thread that is releasing the resources of a process.
Liberando == {"lib_carga", "lib_guarda", "lib_mira", "lib_saca", "lib_pone"}

\* The threads and queues by name.
LEMMA TiposDeRecursos ==
  ASSUME Inductivo
  PROVE  /\ pc \in [Hilos -> Etiquetas] /\ SchedulerTypeOK /\ RecursosTypeOK
         /\ ConexionesTypeOK /\ LocalesTypeOK
         /\ HilosFijos \subseteq Hilos /\ Interfaz \subseteq Hilos
         /\ Interfaz \cap HilosFijos = {} /\ Interfaz \cap Recurso = {}
         /\ "interr" \in Hilos /\ "consola" \in Hilos
         /\ {"new", "ready", "aux", "exit"} \cap Recurso = {}
         /\ {"new", "ready", "aux", "exit"} \subseteq Colas
         /\ Interfaz \subseteq Colas /\ Recurso \subseteq Colas
BY DEF Inductivo, TypeOK, Hilos, HilosFijos, Colas, Bloqueados

\* A step of another thread that leaves the books and the queues of the
\* resources alone.
OtraCosa ==
    /\ UNCHANGED recVars
    /\ \A r \in Recurso : colas'[r] = colas[r]

\* No thread but the handler touches the books, with one exception: the console
\* when it gives a process its dictionary.
LEMMA OtroHilo ==
  ASSUME Inductivo, SoloInterrLibera, Desconexiones = {},
         pc["consola"] \in SinFin, [Next]_vars, ~ PasoInterr
  PROVE  /\ UNCHANGED tokens /\ pc'["interr"] = pc["interr"]
         /\ mano'["interr"] = mano["interr"]
         /\ \A i \in Interfaz : pc'[i] \in Conectadas \cup {"desconectada"}
         /\ \/ OtraCosa
            \/ ConsolaInicializaRecursos
<1>t. /\ pc \in [Hilos -> Etiquetas] /\ SchedulerTypeOK
      /\ HilosFijos \subseteq Hilos /\ Interfaz \subseteq Hilos
      /\ Interfaz \cap HilosFijos = {} /\ Interfaz \cap Recurso = {}
      /\ {"new", "ready", "aux", "exit"} \cap Recurso = {}
      /\ {"new", "ready", "aux", "exit"} \subseteq Colas
      /\ Interfaz \subseteq Colas /\ Recurso \subseteq Colas
  BY TiposDeRecursos
<1>i. \A i \in Interfaz : pc[i] \in Conectadas \cup {"desconectada"}
  BY DEF SoloInterrLibera
<1>1. CASE PasoLargo
  BY <1>1, <1>t, <1>i DEF PasoLargo, Largo, LargoTomaCupo, LargoReanuda,
     LargoConfirma, LargoEsperaNew, LargoSaca, LargoSacaNada, LargoPone,
     LargoCuenta, HilosFijos, SigueSiActiva, SaleDePausa, Saca, Pone, OtraCosa,
     SchedulerTypeOK
<1>2. CASE PasoCorto
  BY <1>2, <1>t, <1>i DEF PasoCorto, Corto, CortoToma, CortoReanuda, CortoElige,
     CortoSacaAux, CortoSacaReady, CortoDespacha, HilosFijos, SigueSiActiva,
     SaleDePausa, Saca, PoneEnExec, OtraCosa, SchedulerTypeOK
<1>3. CASE \E i \in Interfaz : PasoInterfaz(i)
  <2> PICK i \in Interfaz : PasoInterfaz(i)
    BY <1>3
  <2>1. /\ ~ InterfazFalla(i) /\ ~ InterfazQuitaCola(i) /\ ~ InterfazItera(i)
        /\ ~ InterfazAvisaMemoria(i) /\ ~ InterfazAExit(i)
        /\ ~ InterfazIteraFin(i)
    BY <1>i DEF InterfazFalla, InterfazQuitaCola, InterfazItera, Conectadas,
       InterfazAvisaMemoria, InterfazAExit, InterfazIteraFin
  <2>2. ~ InterfazLibera(i)
    BY <1>t, <1>i, LiberarQuieto DEF InterfazLibera, Etiquetas, Conectadas
  <2>3. UNCHANGED tokens
    BY DEF PasoInterfaz
  <2>4. CASE \/ InterfazConecta(i) \/ InterfazToma(i) \/ InterfazEjecuta(i)
             \/ InterfazResponde(i) \/ InterfazReanuda(i)
             \/ InterfazSacaNadie(i) \/ InterfazBorra(i)
    BY <1>t, <1>i, <2>3, <2>4 DEF HilosFijos, SigueSiActiva, Conectadas,
       SaleDePausa, InterfazConecta, InterfazToma, InterfazEjecuta,
       InterfazResponde, InterfazReanuda, InterfazSacaNadie,
       InterfazBorra, OtraCosa, SchedulerTypeOK
  <2>5. CASE InterfazSaca(i)
    <3>1. UNCHANGED recVars /\ \A r \in Recurso : colas'[r] = colas[r]
      BY <1>t, <2>5 DEF InterfazSaca, Saca, SchedulerTypeOK
    <3>2. pc' = [pc EXCEPT ![i] = "pone"] /\ i # "interr" /\ i \in Hilos
          /\ mano'["interr"] = mano["interr"]
      BY <1>t, <2>5 DEF InterfazSaca, Saca, HilosFijos, SchedulerTypeOK
    <3>3. /\ pc'["interr"] = pc["interr"]
          /\ \A j \in Interfaz : pc'[j] \in Conectadas \cup {"desconectada"}
      BY <1>t, <1>i, <3>2 DEF HilosFijos, Conectadas
    <3> QED
      BY <2>3, <3>1, <3>2, <3>3 DEF OtraCosa
  <2>6. CASE InterfazPone(i)
    BY <1>t, <1>i, <2>3, <2>6 DEF HilosFijos, Conectadas, Pone, InterfazPone,
       OtraCosa, SchedulerTypeOK
  <2> QED
    BY <2>1, <2>2, <2>4, <2>5, <2>6 DEF PasoInterfaz, Interf
<1>4. CASE PasoOrden
  BY <1>4, <1>t, <1>i DEF PasoOrden, Orden, IniciarProceso, OtraCosa, HilosFijos,
     IniciarProcesoSinPath, PideCreacion, Lee, DetenerPlanificacion,
     IniciarPlanificacion, Multiprogramacion, FinalizarProceso, SchedulerTypeOK
<1>5. CASE PasoConsola
  <2>1. ASSUME NEW k \in 1 .. 4
        PROVE  EtapaFin(k) \notin SinFin /\ EtapaExit(k) \notin SinFin
    BY DEF EtapaFin, EtapaExit, SinFin
  <2>2. ~ FinalizarLibera
    BY <1>t, LiberarQuieto DEF FinalizarLibera, Etiquetas, HilosFijos, SinFin
  <2>3. /\ ~ FinalizarEnExec /\ ~ FinalizarAvisaMemoria
        /\ \A k \in 1 .. 4 : /\ ~ FinalizarEncuentra(k) /\ ~ FinalizarNoEncuentra(k)
                              /\ ~ FinalizarAExit(k)
    BY <2>1 DEF FinalizarEnExec, FinalizarAvisaMemoria, FinalizarEncuentra,
       FinalizarNoEncuentra, FinalizarAExit, SinFin
  <2>4. ProcesoAColaNew \/ ConsolaInicializaRecursos \/ CambiaGrado
    BY <1>5, <2>2, <2>3 DEF PasoConsola, Ejecuta
  <2>5. UNCHANGED tokens
    BY <1>5 DEF PasoConsola
  <2>6. CASE ProcesoAColaNew
    BY <1>t, <1>i, <2>5, <2>6 DEF ProcesoAColaNew, Pone, OtraCosa, HilosFijos,
       SchedulerTypeOK
  <2>7. CASE ConsolaInicializaRecursos \/ CambiaGrado
    BY <1>t, <1>i, <2>5, <2>7 DEF ConsolaInicializaRecursos, CambiaGrado,
       OtraCosa, HilosFijos
  <2> QED
    BY <2>4, <2>6, <2>7
<1>6. CASE \/ PasoMemoria \/ PasoCPU \/ PasoOrdenPerdida
           \/ Reposo \/ UNCHANGED vars
  BY <1>6, <1>i DEF PasoMemoria, PasoCPU, PasoOrdenPerdida, Reposo, vars, OtraCosa,
     MemoriaAtiende, CPUTermina, CPULlama, CPUDesaloja, CPUInterrumpe,
     CPUOlvidaOrden, kernelVars
<1> QED
  BY <1>1, <1>2, <1>3, <1>4, <1>5, <1>6 DEF Next

\* The books agree at the start.
LEMMA InitLibros ==
  ASSUME Init
  PROVE  LibrosAlDia
<1>1. /\ \A i \in Interfaz : pc[i] = "desconectada"
      /\ pc["interr"] = "espera"
      /\ \A h \in Hilos : liberando[h] = SinAsignar
      /\ "interr" \in Hilos
      /\ asignados = [p \in Pids |-> SinAsignar]
  BY DEF Init, InitRecursos, Hilos, HilosFijos
<1> QED
  BY <1>1 DEF LibrosAlDia, SoloInterrLibera, OperacionDeRecurso, ValorVigente,
     PorLiberar, NadaSinDiccionario, SinAsignar

\* The other threads do not get in the way.
LEMMA OtroHiloLibros ==
  ASSUME Inductivo, LibrosAlDia, Desconexiones = {},
         pc["consola"] \in SinFin, [Next]_vars, ~ PasoInterr
  PROVE  LibrosAlDia'
<1>1. /\ UNCHANGED tokens /\ pc'["interr"] = pc["interr"]
      /\ \A i \in Interfaz : pc'[i] \in Conectadas \cup {"desconectada"}
      /\ OtraCosa \/ ConsolaInicializaRecursos
  BY OtroHilo DEF LibrosAlDia
<1>2. UNCHANGED << recursos, liberando, pendientes, copia >>
  BY <1>1 DEF OtraCosa, ConsolaInicializaRecursos, InicializarRecursosProceso
<1>3. /\ SoloInterrLibera' /\ OperacionDeRecurso' /\ ValorVigente' /\ PorLiberar'
  BY <1>1, <1>2 DEF LibrosAlDia, SoloInterrLibera, OperacionDeRecurso,
     ValorVigente, PorLiberar, Actual
<1>4. NadaSinDiccionario'
  <2>1. CASE OtraCosa
    BY <2>1 DEF OtraCosa, LibrosAlDia, NadaSinDiccionario
  <2>2. CASE ConsolaInicializaRecursos
    BY <2>2, TiposDeRecursos DEF ConsolaInicializaRecursos, LibrosAlDia,
       InicializarRecursosProceso, NadaSinDiccionario, RecursosTypeOK
  <2> QED
    BY <1>1, <2>1, <2>2
<1> QED
  BY <1>3, <1>4 DEF LibrosAlDia

\* The steps of the handler between one operation on a resource and another.
InterrAparte ==
    \/ InterrRecibe \/ InterrActiva \/ InterrReanuda
    \/ InterrAvisaMemoria \/ InterrFinSaca \/ InterrFinPone
    \/ InterrAumentaMira \/ InterrAumentaResta \/ InterrRecursoInvalido
    \/ InterrDesalojaSaca \/ InterrDesalojaPone
    \/ InterrIO \/ InterrAgregaInstruccion
    \/ InterrBloqueaSaca \/ InterrBloqueaBusca \/ InterrBloqueaPone
    \/ InterrWaitBloquea \/ InterrSigueEnCPU \/ InterrSignalDespierta
    \/ InterrSignalSaca \/ InterrSignalNadie \/ InterrSignalPone

\* They leave the books as they are.
LEMMA InterrAparteQuieto ==
  ASSUME Inductivo, Enlace, LibrosAlDia, InterrAparte
  PROVE  /\ UNCHANGED recVars
         /\ \A h \in Hilos \ {"interr"} : pc'[h] = pc[h]
         /\ pc["interr"] \notin Liberando \cup {"carga", "guarda"}
         /\ pc'["interr"] \notin Liberando \cup {"carga", "guarda"}
         /\ OperacionDeRecurso'
         /\ En("interr", "sig_saca")' => recursos'[tokens'.arg] >= 0
<1>t. pc \in [Hilos -> Etiquetas] /\ "interr" \in Hilos
  BY TiposDeRecursos
<1>c. /\ Caso(tokens) \in {"fin_term", "desaloja", "io", "asigna"}
      /\ Caso(tokens) = "asigna" => tokens.op \in {"WAIT", "SIGNAL"}
  BY DEF Caso, OpsDeFin, Inductivo, TypeOK, LocalesTypeOK, Instruccion,
     Operaciones
<1>o. OperacionDeRecurso
  BY DEF LibrosAlDia
<1>1. CASE InterrRecibe
  BY <1>1, <1>t DEF InterrRecibe, OperacionDeRecurso, Liberando
<1>2. CASE InterrActiva
  BY <1>2, <1>t, <1>c DEF InterrActiva, SigueSiActiva, OperacionDeRecurso,
     Liberando
<1>3. CASE InterrReanuda
  BY <1>3, <1>t, <1>c DEF InterrReanuda, SaleDePausa, OperacionDeRecurso,
     Liberando
<1>4. CASE InterrAvisaMemoria
  BY <1>4, <1>t DEF InterrAvisaMemoria, OperacionDeRecurso, Liberando
<1>5. CASE InterrFinSaca
  BY <1>5, <1>t DEF InterrFinSaca, OperacionDeRecurso, Liberando
<1>6. CASE InterrFinPone
  BY <1>6, <1>t DEF InterrFinPone, OperacionDeRecurso, Liberando
<1>7. CASE InterrAumentaMira
  BY <1>7, <1>t DEF InterrAumentaMira, OperacionDeRecurso, Liberando
<1>8. CASE InterrAumentaResta
  BY <1>8, <1>t DEF InterrAumentaResta, OperacionDeRecurso, Liberando
<1>9. CASE InterrRecursoInvalido
  BY <1>9, <1>t DEF InterrRecursoInvalido, OperacionDeRecurso, Liberando
<1>10. CASE InterrDesalojaSaca
  BY <1>10, <1>t DEF InterrDesalojaSaca, OperacionDeRecurso, Liberando
<1>11. CASE InterrDesalojaPone
  BY <1>11, <1>t DEF InterrDesalojaPone, OperacionDeRecurso, Liberando
<1>12. CASE InterrIO
  <2>1. tokens.arg \in interfaces => tokens.arg \in Interfaz
    BY TiposDeRecursos DEF ConexionesTypeOK
  <2> QED
    BY <1>12, <1>t, <2>1 DEF InterrIO, OperacionDeRecurso, Liberando
<1>13. CASE InterrAgregaInstruccion
  BY <1>13, <1>t, <1>o DEF InterrAgregaInstruccion, OperacionDeRecurso, Liberando
<1>14. CASE InterrBloqueaSaca
  BY <1>14, <1>t, <1>o DEF InterrBloqueaSaca, OperacionDeRecurso, Liberando
<1>15. CASE InterrBloqueaBusca
  BY <1>15, <1>t, <1>o DEF InterrBloqueaBusca, OperacionDeRecurso, Liberando
<1>16. CASE InterrBloqueaPone
  BY <1>16, <1>t DEF InterrBloqueaPone, OperacionDeRecurso, Liberando
<1>17. CASE InterrWaitBloquea
  BY <1>17, <1>t DEF InterrWaitBloquea, OperacionDeRecurso, Liberando
<1>18. CASE InterrSigueEnCPU
  BY <1>18, <1>t DEF InterrSigueEnCPU, VuelveALaCPU, OperacionDeRecurso, Liberando
<1>19. CASE InterrSignalDespierta
  BY <1>19, <1>t DEF InterrSignalDespierta, OperacionDeRecurso, Liberando
<1>20. CASE InterrSignalSaca
  BY <1>20, <1>t, <1>o DEF InterrSignalSaca, OperacionDeRecurso, Liberando
<1>21. CASE InterrSignalNadie
  BY <1>21, <1>t DEF InterrSignalNadie, VuelveALaCPU, OperacionDeRecurso, Liberando
<1>22. CASE InterrSignalPone
  BY <1>22, <1>t DEF InterrSignalPone, VuelveALaCPU, OperacionDeRecurso, Liberando
<1> QED
  BY <1>1, <1>2, <1>3, <1>4, <1>5, <1>6, <1>7, <1>8, <1>9, <1>10, <1>11, <1>12,
     <1>13, <1>14, <1>15, <1>16, <1>17, <1>18, <1>19, <1>20, <1>21, <1>22
     DEF InterrAparte

\* The release of what a process had: each key is taken to recursos once.
LEMMA LiberarLibros ==
  ASSUME Inductivo, LibrosAlDia, NEW p \in Pids \cup {Nadie},
         LiberarRecursosDeProceso("interr", p, "fin_saca"), UNCHANGED tokens
  PROVE  LibrosAlDia'
<1> DEFINE h == "interr"
<1>t. /\ pc \in [Hilos -> Etiquetas] /\ RecursosTypeOK
      /\ h \in Hilos /\ Interfaz \subseteq Hilos /\ h \notin Interfaz
  BY TiposDeRecursos DEF HilosFijos
<1>l. LibrosAlDia
  OBVIOUS
<1>a. ASSUME pc[h] \in {"lib_guarda", "lib_mira", "lib_saca", "lib_pone"}
      PROVE  Actual(h) \in pendientes[h] /\ Actual(h) \in Recurso
  <2>1. pendientes[h] # {}
    BY <1>t, <1>a DEF Inductivo, ManoLlena
  <2> QED
    BY <1>t, <2>1, ActualPendiente
<1>1. /\ \A g \in Hilos \ {h} : pc'[g] = pc[g]
      /\ pc[h] \in Liberando \cup {"lib_dicc"}
      /\ pc'[h] \in Liberando \cup {"lib_dicc", "fin_saca"}
  BY LiberarQuieto, <1>t DEF Etiquetas, Liberando
<1>2. OperacionDeRecurso'
  BY <1>1 DEF OperacionDeRecurso, Liberando
<1>3. CASE LiberarSacaDiccionario(h, p)
  <2>1. CASE p \notin con_recursos
    BY <1>1, <1>2, <1>3, <1>l, <2>1 DEF LiberarSacaDiccionario, LibrosAlDia,
       SoloInterrLibera, ValorVigente, PorLiberar, NadaSinDiccionario, Actual
  <2>2. CASE p \in con_recursos
    <3>1. /\ con_recursos' = con_recursos \ {p}
          /\ liberando' = [liberando EXCEPT ![h] = asignados[p]]
          /\ asignados' = [asignados EXCEPT ![p] = SinAsignar]
          /\ pendientes' = [pendientes EXCEPT ![h] = Recurso]
          /\ pc'[h] = "lib_carga"
      BY <1>3, <1>t, <2>2 DEF LiberarSacaDiccionario
    <3>2. SoloInterrLibera'
      BY <1>1, <1>t, <1>l, <3>1 DEF LibrosAlDia, SoloInterrLibera, RecursosTypeOK
    <3>3. NadaSinDiccionario'
      BY <1>t, <1>l, <3>1 DEF LibrosAlDia, NadaSinDiccionario, RecursosTypeOK
    <3>4. ValorVigente' /\ PorLiberar'
      BY <1>t, <3>1 DEF ValorVigente, PorLiberar, RecursosTypeOK
    <3> QED
      BY <1>2, <3>2, <3>3, <3>4 DEF LibrosAlDia
  <2> QED
    BY <2>1, <2>2
<1>4. CASE LiberarCarga(h)
  <2>1. /\ UNCHANGED << recursos, con_recursos, asignados, liberando, pendientes >>
        /\ pc[h] = "lib_carga" /\ pc'[h] = "lib_guarda"
        /\ copia'[h] = recursos[Actual(h)]
    BY <1>4, <1>t DEF LiberarCarga, CargaRecurso, RecursosTypeOK
  <2>2. SoloInterrLibera' /\ NadaSinDiccionario'
    BY <1>1, <1>t, <1>l, <2>1 DEF LibrosAlDia, SoloInterrLibera,
       NadaSinDiccionario
  <2>3. ValorVigente'
    BY <2>1 DEF ValorVigente, Actual
  <2>4. PorLiberar'
    BY <1>l, <2>1 DEF LibrosAlDia, PorLiberar
  <2> QED
    BY <1>2, <2>2, <2>3, <2>4 DEF LibrosAlDia
<1>5. CASE LiberarGuarda(h)
  <2>1. /\ UNCHANGED << con_recursos, asignados, pendientes >>
        /\ liberando' = [liberando EXCEPT ![h][Actual(h)] = 0]
        /\ pc[h] = "lib_guarda" /\ pc'[h] = "lib_mira"
    BY <1>5, <1>t DEF LiberarGuarda, RecursosTypeOK
  <2>2. Actual(h) \in Recurso /\ Actual(h)' = Actual(h)
    BY <1>a, <2>1 DEF Liberando, Actual
  <2>3. liberando'[h] = [liberando[h] EXCEPT ![Actual(h)] = 0]
        /\ \A g \in Hilos \ {h} : liberando'[g] = liberando[g]
    BY <1>t, <2>1 DEF RecursosTypeOK
  <2>4. PorLiberar'
    <3>1. liberando'[h][Actual(h)] = 0 /\ \A r \in Recurso \ {Actual(h)} : liberando'[h][r] = liberando[h][r]
      BY <1>t, <2>2, <2>3 DEF RecursosTypeOK
    <3>2. \A r \in Recurso : liberando'[h][r] # 0 => r \in pendientes'[h]
      BY <1>l, <2>1, <3>1 DEF LibrosAlDia, PorLiberar
    <3>3. (liberando[h][Actual(h)])' = 0
      BY <2>1, <3>1 DEF Actual
    <3> QED
      BY <2>1, <3>2, <3>3 DEF PorLiberar
  <2>5. SoloInterrLibera' /\ NadaSinDiccionario'
    BY <1>1, <1>t, <1>l, <2>1, <2>3 DEF LibrosAlDia, SoloInterrLibera,
       NadaSinDiccionario
  <2>6. ValorVigente'
    BY <2>1 DEF ValorVigente
  <2> QED
    BY <1>2, <2>4, <2>5, <2>6 DEF LibrosAlDia
<1>6. ASSUME PasaDeRecurso(h), pc[h] \in {"lib_mira", "lib_saca", "lib_pone"},
             pc'[h] = "lib_carga"
      PROVE  LibrosAlDia'
  <2>1. /\ UNCHANGED << recursos, con_recursos, asignados, liberando, copia >>
        /\ pendientes'[h] = pendientes[h] \ {Actual(h)}
    BY <1>6, <1>t DEF PasaDeRecurso, RecursosTypeOK
  <2>2. PorLiberar'
    <3>1. liberando[h][Actual(h)] = 0
      BY <1>6, <1>l DEF LibrosAlDia, PorLiberar
    <3>2. \A r \in Recurso : liberando'[h][r] # 0 => r \in pendientes'[h]
      BY <1>l, <2>1, <3>1 DEF LibrosAlDia, PorLiberar
    <3>3. pc'[h] = "lib_carga"
      BY <1>6
    <3> QED
      BY <3>2, <3>3 DEF PorLiberar
  <2>3. SoloInterrLibera' /\ NadaSinDiccionario'
    BY <1>1, <1>t, <1>l, <2>1 DEF LibrosAlDia, SoloInterrLibera,
       NadaSinDiccionario
  <2>4. ValorVigente'
    BY <1>6 DEF ValorVigente
  <2> QED
    BY <1>2, <2>2, <2>3, <2>4 DEF LibrosAlDia
<1>7. ASSUME UNCHANGED recVars,
             \/ /\ pc[h] \in {"lib_mira", "lib_saca", "lib_pone"}
                /\ pc'[h] = "lib_pone"
             \/ /\ pc[h] = "lib_mira" /\ pc'[h] = "lib_saca"
                /\ recursos[Actual(h)] >= 0
             \/ /\ pc[h] = "lib_carga" /\ pc'[h] = "fin_saca"
                /\ pendientes[h] = {}
      PROVE  LibrosAlDia'
  <2>1. SoloInterrLibera' /\ NadaSinDiccionario'
    BY <1>1, <1>7, <1>t, <1>l DEF LibrosAlDia, SoloInterrLibera,
       NadaSinDiccionario
  <2>2. ValorVigente'
    BY <1>7 DEF ValorVigente, Actual
  <2>3. PorLiberar'
    BY <1>7, <1>l DEF LibrosAlDia, PorLiberar, Actual
  <2> QED
    BY <1>2, <2>1, <2>2, <2>3 DEF LibrosAlDia
<1>8. CASE LiberarMira(h)
  BY <1>6, <1>7, <1>8, <1>t DEF LiberarMira
<1>9. CASE LiberarSaca(h)
  BY <1>6, <1>7, <1>9, <1>t DEF LiberarSaca
<1>10. CASE LiberarPone(h)
  BY <1>6, <1>10, <1>t DEF LiberarPone
<1>11. CASE LiberarTermina(h, "fin_saca")
  BY <1>7, <1>11, <1>t DEF LiberarTermina
<1> QED
  BY <1>3, <1>4, <1>5, <1>8, <1>9, <1>10, <1>11 DEF LiberarRecursosDeProceso

\* The handler keeps them.
LEMMA InterrLibros ==
  ASSUME Inductivo, Enlace, LibrosAlDia, PasoInterr
  PROVE  LibrosAlDia'
<1> DEFINE h == "interr"
<1>t. /\ pc \in [Hilos -> Etiquetas] /\ RecursosTypeOK
      /\ h \in Hilos /\ Interfaz \subseteq Hilos /\ h \notin Interfaz
      /\ proceso_ejecutando \in Pids \cup {Nadie}
  BY TiposDeRecursos DEF HilosFijos, SchedulerTypeOK
<1>l. LibrosAlDia
  OBVIOUS
<1>1. CASE InterrAparte
  <2>1. /\ UNCHANGED recVars
        /\ \A g \in Hilos \ {"interr"} : pc'[g] = pc[g]
        /\ pc[h] \notin Liberando \cup {"carga", "guarda"}
        /\ pc'[h] \notin Liberando \cup {"carga", "guarda"}
        /\ OperacionDeRecurso'
        /\ En("interr", "sig_saca")' => recursos'[tokens'.arg] >= 0
    BY <1>1, InterrAparteQuieto
  <2>2. \A r \in Recurso : liberando[h][r] = 0
    BY <1>l, <2>1 DEF LibrosAlDia, PorLiberar, Liberando
  <2> QED
    BY <1>l, <1>t, <2>1, <2>2 DEF LibrosAlDia, SoloInterrLibera, ValorVigente,
       PorLiberar, NadaSinDiccionario, Liberando
<1>2. CASE InterrLibera
  BY <1>2, <1>t, LiberarLibros DEF InterrLibera
<1>3. CASE InterrAsigna
  <2>1. /\ UNCHANGED << recursos, liberando, pendientes, copia, tokens >>
        /\ \A g \in Hilos \ {"interr"} : pc'[g] = pc[g]
        /\ pc[h] = "asigna" /\ pc'[h] \in {"asigna", "carga"}
    BY <1>3, <1>t DEF InterrAsigna, AsignarRecursoAProceso,
       LiberarRecursoDeProceso
  <2>2. NadaSinDiccionario'
    BY <1>3, <1>t, <1>l DEF InterrAsigna, AsignarRecursoAProceso, LibrosAlDia,
       LiberarRecursoDeProceso, NadaSinDiccionario, RecursosTypeOK
  <2> QED
    BY <1>l, <1>t, <2>1, <2>2 DEF LibrosAlDia, SoloInterrLibera, ValorVigente,
       PorLiberar, OperacionDeRecurso
<1>4. CASE InterrCarga
  <2>1. /\ UNCHANGED << recursos, con_recursos, asignados, liberando, pendientes,
                        tokens >>
        /\ \A g \in Hilos \ {"interr"} : pc'[g] = pc[g]
        /\ pc[h] = "carga" /\ pc'[h] = "guarda"
        /\ copia'[h] = recursos[tokens.arg]
    BY <1>4, <1>t DEF InterrCarga, CargaRecurso, RecursosTypeOK
  <2> QED
    BY <1>l, <1>t, <2>1 DEF LibrosAlDia, SoloInterrLibera, ValorVigente,
       PorLiberar, OperacionDeRecurso, NadaSinDiccionario
<1>5. CASE InterrGuarda
  <2>1. /\ UNCHANGED << con_recursos, asignados, liberando, pendientes, tokens >>
        /\ \A g \in Hilos \ {"interr"} : pc'[g] = pc[g]
        /\ pc[h] = "guarda" /\ pc'[h] = "decide"
    BY <1>5, <1>t DEF InterrGuarda, GuardaRecurso, RecursosTypeOK
  <2> QED
    BY <1>l, <1>t, <2>1 DEF LibrosAlDia, SoloInterrLibera, ValorVigente,
       PorLiberar, OperacionDeRecurso, NadaSinDiccionario
<1> QED
  BY <1>1, <1>2, <1>3, <1>4, <1>5 DEF PasoInterr, Interr, InterrAparte

\* Every step does.
LEMMA PasoLibros ==
  ASSUME Inductivo, Enlace, LibrosAlDia, Desconexiones = {},
         pc["consola"] \in SinFin, [Next]_vars
  PROVE  LibrosAlDia'
BY OtroHiloLibros, InterrLibros

-----------------------------------------------------------------------------
(* No instance is created or lost. *)

\* The sums that Balance adds up.
Asignadas(r) == SumFunction([p \in Pids |-> asignados[p][r]])
PorDevolver(r) == SumFunction([h \in Hilos |-> liberando[h][r]])

LEMMA Finitos ==
  ASSUME IsFiniteSet(Interfaz)
  PROVE  IsFiniteSet(Pids) /\ IsFiniteSet(Hilos)
<1>1. IsFiniteSet(Pids)
  BY FS_Interval, ParametrosKernel DEF Pids
<1>2. IsFiniteSet(HilosFijos)
  <2>1. HilosFijos = ((({} \cup {"consola"}) \cup {"largo"}) \cup {"corto"}) \cup {"interr"}
    BY DEF HilosFijos
  <2> QED
    BY <2>1, FS_EmptySet, FS_AddElement
<1> QED
  BY <1>1, <1>2, FS_Union DEF Hilos

\* When the dictionary of one process, or of one thread, changes.
LEMMA CambiaAsignados ==
  ASSUME RecursosTypeOK, RecursosTypeOK', IsFiniteSet(Interfaz),
         NEW r \in Recurso, NEW p \in Pids,
         \A q \in Pids \ {p} : asignados'[q] = asignados[q]
  PROVE  /\ Asignadas(r) \in Int
         /\ Asignadas(r)' = Asignadas(r) + asignados'[p][r] - asignados[p][r]
<1> DEFINE f == [q \in Pids |-> asignados[q][r]]
           g == [q \in Pids |-> asignados'[q][r]]
<1>1. f \in [Pids -> Int] /\ g \in [Pids -> Int]
  BY DEF RecursosTypeOK
<1>2. \A q \in Pids \ {p} : g[q] = f[q]
  OBVIOUS
<1>3. f[p] = asignados[p][r] /\ g[p] = asignados'[p][r]
  OBVIOUS
<1>4. Asignadas(r) = SumFunction(f) /\ Asignadas(r)' = SumFunction(g)
  BY DEF Asignadas
<1> HIDE DEF f, g
<1>5. SumFunction(f) \in Int /\ SumFunction(g) = SumFunction(f) + g[p] - f[p]
  BY <1>1, <1>2, Finitos, TotalTipo, TotalPunto
<1> QED
  BY <1>3, <1>4, <1>5

LEMMA CambiaLiberando ==
  ASSUME RecursosTypeOK, RecursosTypeOK', IsFiniteSet(Interfaz),
         NEW r \in Recurso, NEW h \in Hilos,
         \A g \in Hilos \ {h} : liberando'[g] = liberando[g]
  PROVE  /\ PorDevolver(r) \in Int
         /\ PorDevolver(r)' = PorDevolver(r) + liberando'[h][r] - liberando[h][r]
<1> DEFINE f == [q \in Hilos |-> liberando[q][r]]
           g == [q \in Hilos |-> liberando'[q][r]]
<1>1. f \in [Hilos -> Int] /\ g \in [Hilos -> Int]
  BY DEF RecursosTypeOK
<1>2. \A q \in Hilos \ {h} : g[q] = f[q]
  OBVIOUS
<1>3. f[h] = liberando[h][r] /\ g[h] = liberando'[h][r]
  OBVIOUS
<1>4. PorDevolver(r) = SumFunction(f) /\ PorDevolver(r)' = SumFunction(g)
  BY DEF PorDevolver
<1> HIDE DEF f, g
<1>5. SumFunction(f) \in Int /\ SumFunction(g) = SumFunction(f) + g[h] - f[h]
  BY <1>1, <1>2, Finitos, TotalTipo, TotalPunto
<1> QED
  BY <1>3, <1>4, <1>5

LEMMA BalanceEs ==
  ASSUME NEW r
  PROVE  /\ Balance(r) = recursos[r] + Asignadas(r) + PorDevolver(r) + EnTramite(r)
         /\ Balance(r)' = recursos'[r] + Asignadas(r)' + PorDevolver(r)' + EnTramite(r)'
BY DEF Balance, Asignadas, PorDevolver

\* A step that changes none of the four.
LEMMA BalanceQuieto ==
  ASSUME UNCHANGED << recursos, asignados, liberando >>, NEW r, UNCHANGED EnTramite(r)
  PROVE  Balance(r)' = Balance(r)
BY BalanceEs DEF Asignadas, PorDevolver

\* WAIT and SIGNAL.
LEMMA AsignaBalance ==
  ASSUME Inductivo, Inductivo', LibrosAlDia, IsFiniteSet(Interfaz),
         InterrAsigna, NEW r \in Recurso
  PROVE  Balance(r)' = Balance(r)
<1> DEFINE p == proceso_ejecutando
           a == tokens.arg
<1>t. /\ RecursosTypeOK /\ RecursosTypeOK' /\ pc \in [Hilos -> Etiquetas]
      /\ "interr" \in Hilos
  <2>1. RecursosTypeOK'
    BY DEF Inductivo, TypeOK
  <2> QED
    BY <2>1, TiposDeRecursos
<1>p. p \in Pids /\ a \in Recurso
  <2>1. p # Nadie /\ a \in Recurso
    BY DEF InterrAsigna, Inductivo, ContextoPropio, AntesDeSacar,
       ArgumentoValido
  <2> QED
    BY <2>1, TiposDeRecursos DEF SchedulerTypeOK
<1>q. UNCHANGED << recursos, liberando, tokens >>
  BY DEF InterrAsigna, AsignarRecursoAProceso, LiberarRecursoDeProceso
<1>0. EnTramite(r) = 0
  BY DEF EnTramite, InterrAsigna
<1>1. CASE pc'["interr"] = "carga"
  <2> DEFINE d == IF tokens.op = "WAIT" THEN 1 ELSE -1
  <2>1. /\ \A q \in Pids \ {p} : asignados'[q] = asignados[q]
        /\ asignados'[p][r] = asignados[p][r] + (IF r = a THEN d ELSE 0)
    <3>1. p \notin con_recursos => asignados[p] = SinAsignar
      BY <1>p DEF LibrosAlDia, NadaSinDiccionario
    <3>2. tokens.op = "WAIT" \/ tokens.op = "SIGNAL"
      BY DEF InterrAsigna
    <3>3. CASE tokens.op = "WAIT"
      <4>1. asignados' = [asignados EXCEPT ![p] = [asignados[p] EXCEPT ![a] = @ + 1]]
        BY <3>1, <3>3, <1>1 DEF InterrAsigna, AsignarRecursoAProceso
      <4> QED
        BY <3>3, <4>1, <1>t, <1>p DEF RecursosTypeOK
    <3>4. CASE tokens.op = "SIGNAL"
      <4>1. asignados' = [asignados EXCEPT ![p][a] = @ - 1]
        BY <3>4, <1>1, <1>t DEF InterrAsigna, LiberarRecursoDeProceso
      <4> QED
        BY <3>4, <4>1, <1>t, <1>p DEF RecursosTypeOK
    <3> QED
      BY <3>2, <3>3, <3>4
  <2>2. /\ Asignadas(r) \in Int
        /\ Asignadas(r)' = Asignadas(r) + asignados'[p][r] - asignados[p][r]
    BY <1>p, <1>t, <2>1, CambiaAsignados
  <2>3. EnTramite(r)' = IF r = a THEN -d ELSE 0
    BY <1>1, <1>q DEF EnTramite
  <2>4. asignados[p][r] \in Int /\ recursos[r] \in Int /\ PorDevolver(r) \in Int
    <3>1. PorDevolver(r) \in Int
      BY <1>t, <1>q, CambiaLiberando
    <3> QED
      BY <1>t, <1>p, <3>1 DEF RecursosTypeOK
  <2>5. PorDevolver(r)' = PorDevolver(r) /\ recursos'[r] = recursos[r]
    BY <1>q DEF PorDevolver
  <2> HIDE DEF d
  <2>6. d \in Int
    BY DEF d
  <2> QED
    BY <1>0, <2>1, <2>2, <2>3, <2>4, <2>5, <2>6, BalanceEs
<1>2. CASE pc'["interr"] # "carga"
  <2>1. UNCHANGED << pc, asignados >>
    BY <1>2, <1>t DEF InterrAsigna
  <2> QED
    BY <1>q, <2>1, BalanceQuieto DEF EnTramite
<1> QED
  BY <1>1, <1>2

\* The load and the store of restar_recurso and sumar_recurso.
LEMMA CargaGuardaBalance ==
  ASSUME Inductivo, Inductivo', LibrosAlDia, IsFiniteSet(Interfaz),
         InterrCarga \/ InterrGuarda, NEW r \in Recurso
  PROVE  Balance(r)' = Balance(r)
<1>t. RecursosTypeOK /\ pc \in [Hilos -> Etiquetas] /\ "interr" \in Hilos
  BY TiposDeRecursos
<1>1. CASE InterrCarga
  <2>1. /\ UNCHANGED << recursos, asignados, liberando, tokens >>
        /\ pc["interr"] = "carga" /\ pc'["interr"] = "guarda"
    BY <1>1, <1>t DEF InterrCarga, CargaRecurso
  <2> QED
    BY <2>1, BalanceQuieto DEF EnTramite
<1>2. CASE InterrGuarda
  <2> DEFINE d == IF tokens.op = "WAIT" THEN -1 ELSE 1
             a == tokens.arg
  <2>1. /\ UNCHANGED << asignados, liberando, tokens >>
        /\ pc["interr"] = "guarda" /\ pc'["interr"] = "decide"
        /\ recursos' = [recursos EXCEPT ![a] = copia["interr"] + d]
    BY <1>2, <1>t DEF InterrGuarda, GuardaRecurso
  <2>2. copia["interr"] = recursos[a] /\ a \in Recurso
    BY <2>1 DEF LibrosAlDia, ValorVigente, Inductivo, ArgumentoValido
  <2>3. recursos'[r] = recursos[r] + (IF r = a THEN d ELSE 0)
    BY <2>1, <2>2, <1>t DEF RecursosTypeOK
  <2>4. EnTramite(r) = (IF r = a THEN d ELSE 0) /\ EnTramite(r)' = 0
    BY <2>1 DEF EnTramite
  <2>5. Asignadas(r)' = Asignadas(r) /\ PorDevolver(r)' = PorDevolver(r)
    BY <2>1 DEF Asignadas, PorDevolver
  <2>6. Asignadas(r) \in Int /\ PorDevolver(r) \in Int
    <3> DEFINE f == [q \in Pids |-> asignados[q][r]]
               g == [q \in Hilos |-> liberando[q][r]]
    <3>1. f \in [Pids -> Int] /\ g \in [Hilos -> Int]
      BY <1>t DEF RecursosTypeOK
    <3>2. Asignadas(r) = SumFunction(f) /\ PorDevolver(r) = SumFunction(g)
      BY DEF Asignadas, PorDevolver
    <3> HIDE DEF f, g
    <3> QED
      BY <3>1, <3>2, Finitos, TotalTipo
  <2>7. recursos[r] \in Int
    BY <1>t DEF RecursosTypeOK
  <2> HIDE DEF d
  <2>8. d \in Int
    BY DEF d
  <2> QED
    BY <2>3, <2>4, <2>5, <2>6, <2>7, <2>8, BalanceEs
<1> QED
  BY <1>1, <1>2

\* The release of what a process had.
LEMMA LiberaBalance ==
  ASSUME Inductivo, Inductivo', LibrosAlDia, IsFiniteSet(Interfaz),
         InterrLibera, NEW r \in Recurso
  PROVE  Balance(r)' = Balance(r)
<1> DEFINE h == "interr"
           p == proceso_ejecutando
<1>t. /\ RecursosTypeOK /\ RecursosTypeOK' /\ pc \in [Hilos -> Etiquetas]
      /\ h \in Hilos
  <2>1. RecursosTypeOK'
    BY DEF Inductivo, TypeOK
  <2> QED
    BY <2>1, TiposDeRecursos
<1>e. UNCHANGED EnTramite(r)
  BY <1>t DEF EnTramite, InterrLibera, LiberarRecursosDeProceso,
     LiberarSacaDiccionario, LiberarCarga, LiberarGuarda, LiberarMira,
     LiberarSaca, LiberarPone, LiberarTermina
<1>0. EnTramite(r) = 0
  BY DEF EnTramite, InterrLibera, LiberarRecursosDeProceso,
     LiberarSacaDiccionario, LiberarCarga, LiberarGuarda, LiberarMira,
     LiberarSaca, LiberarPone, LiberarTermina
<1>i. recursos[r] \in Int /\ liberando[h][r] \in Int
  BY <1>t DEF RecursosTypeOK
<1>1. CASE LiberarSacaDiccionario(h, p) /\ p \in con_recursos
  <2>1. /\ p \in Pids
        /\ liberando' = [liberando EXCEPT ![h] = asignados[p]]
        /\ asignados' = [asignados EXCEPT ![p] = SinAsignar]
        /\ recursos' = recursos
        /\ En(h, "lib_dicc")
    BY <1>1, <1>t DEF LiberarSacaDiccionario, RecursosTypeOK
  <2>2. /\ \A q \in Pids \ {p} : asignados'[q] = asignados[q]
        /\ \A g \in Hilos \ {h} : liberando'[g] = liberando[g]
        /\ asignados'[p][r] = 0 /\ liberando'[h][r] = asignados[p][r]
        /\ asignados[p][r] \in Int
    BY <1>t, <2>1 DEF RecursosTypeOK, SinAsignar
  <2>3. liberando[h][r] = 0
    BY <2>1 DEF LibrosAlDia, PorLiberar
  <2>4. /\ Asignadas(r) \in Int
        /\ Asignadas(r)' = Asignadas(r) + asignados'[p][r] - asignados[p][r]
    BY <1>t, <2>1, <2>2, CambiaAsignados
  <2>5. /\ PorDevolver(r) \in Int
        /\ PorDevolver(r)' = PorDevolver(r) + liberando'[h][r] - liberando[h][r]
    BY <1>t, <2>2, CambiaLiberando
  <2> QED
    BY <1>e, <1>0, <1>i, <2>1, <2>2, <2>3, <2>4, <2>5, BalanceEs
<1>2. CASE LiberarGuarda(h)
  <2> DEFINE a == Actual(h)
  <2>1. a \in Recurso /\ copia[h] = recursos[a]
    <3>1. pendientes[h] # {}
      BY <1>2, <1>t DEF LiberarGuarda, Inductivo, ManoLlena
    <3>2. a \in Recurso
      BY <1>t, <3>1, ActualPendiente
    <3> QED
      BY <1>2, <3>2 DEF LiberarGuarda, LibrosAlDia, ValorVigente
  <2> HIDE DEF a
  <2>2. /\ UNCHANGED asignados
        /\ liberando' = [liberando EXCEPT ![h][a] = 0]
        /\ recursos' = [recursos EXCEPT ![a] = copia[h] + liberando[h][a]]
    BY <1>2 DEF LiberarGuarda, a
  <2>3. /\ \A g \in Hilos \ {h} : liberando'[g] = liberando[g]
        /\ liberando'[h][r] = IF r = a THEN 0 ELSE liberando[h][r]
        /\ recursos'[r] = recursos[r] + (IF r = a THEN liberando[h][r] ELSE 0)
    BY <1>t, <2>1, <2>2 DEF RecursosTypeOK
  <2>4. Asignadas(r) \in Int /\ Asignadas(r)' = Asignadas(r)
    <3> DEFINE f == [q \in Pids |-> asignados[q][r]]
    <3>1. f \in [Pids -> Int]
      BY <1>t DEF RecursosTypeOK
    <3>2. Asignadas(r) = SumFunction(f) /\ Asignadas(r)' = SumFunction(f)
      BY <2>2 DEF Asignadas
    <3> HIDE DEF f
    <3> QED
      BY <3>1, <3>2, Finitos, TotalTipo
  <2>5. /\ PorDevolver(r) \in Int
        /\ PorDevolver(r)' = PorDevolver(r) + liberando'[h][r] - liberando[h][r]
    BY <1>t, <2>3, CambiaLiberando
  <2> QED
    BY <1>e, <1>0, <1>i, <2>3, <2>4, <2>5, BalanceEs
<1>3. CASE UNCHANGED << recursos, asignados, liberando >>
  BY <1>e, <1>3, BalanceQuieto
<1> QED
  BY <1>1, <1>2, <1>3 DEF InterrLibera, LiberarRecursosDeProceso, CargaRecurso,
     LiberarSacaDiccionario, LiberarCarga, LiberarMira, LiberarSaca,
     LiberarPone, LiberarTermina, PasaDeRecurso

\* Every step: no other thread touches them, but for the console that puts a
\* dictionary, and then it was the first one or the property says so.
LEMMA PasoBalance ==
  ASSUME Inductivo, Inductivo', Enlace, LibrosAlDia, IsFiniteSet(Interfaz),
         Desconexiones = {}, pc["consola"] \in SinFin, [Next]_vars
  PROVE  PisaDiccionario \/ \A r \in Recurso : Balance(r)' = Balance(r)
<1> SUFFICES ASSUME ~ PisaDiccionario, NEW r \in Recurso
             PROVE  Balance(r)' = Balance(r)
  OBVIOUS
<1>1. CASE PasoInterr
  <2>1. CASE InterrAparte
    <3>1. /\ UNCHANGED recVars
          /\ pc["interr"] \notin Liberando \cup {"carga", "guarda"}
          /\ pc'["interr"] \notin Liberando \cup {"carga", "guarda"}
      BY <2>1, InterrAparteQuieto
    <3> QED
      BY <3>1, BalanceQuieto DEF EnTramite
  <2> QED
    BY <1>1, <2>1, LiberaBalance, AsignaBalance, CargaGuardaBalance
       DEF PasoInterr, Interr, InterrAparte
<1>2. CASE ~ PasoInterr
  <2>1. /\ UNCHANGED tokens /\ pc'["interr"] = pc["interr"]
        /\ OtraCosa \/ ConsolaInicializaRecursos
    BY <1>2, OtroHilo DEF LibrosAlDia
  <2>2. UNCHANGED EnTramite(r)
    BY <2>1 DEF EnTramite
  <2>3. CASE OtraCosa
    BY <2>2, <2>3, BalanceQuieto DEF OtraCosa
  <2>4. CASE ConsolaInicializaRecursos
    <3> DEFINE p == numero_de_procesos
    <3>1. p \in Pids \ con_recursos
      BY <2>4 DEF ConsolaInicializaRecursos, PisaDiccionario, Inductivo,
         ArgumentoValido
    <3>2. asignados[p] = SinAsignar /\ asignados \in [Pids -> [Recurso -> Int]]
      BY <3>1, TiposDeRecursos DEF LibrosAlDia, NadaSinDiccionario,
         RecursosTypeOK
    <3>3. asignados' = [asignados EXCEPT ![p] = SinAsignar]
          /\ UNCHANGED << recursos, liberando >>
      BY <2>4 DEF ConsolaInicializaRecursos, InicializarRecursosProceso
    <3>4. asignados' = asignados
      BY <3>1, <3>2, <3>3
    <3> QED
      BY <2>2, <3>3, <3>4, BalanceQuieto
  <2> QED
    BY <2>1, <2>3, <2>4
<1> QED
  BY <1>1, <1>2

-----------------------------------------------------------------------------
(* No instance is handed to two. *)

LEMMA UnoTipo ==
  ASSUME NEW b
  PROVE  Uno(b) \in {0, 1} /\ (b => Uno(b) = 1) /\ (~ b => Uno(b) = 0)
BY DEF Uno

LEMMA SueltasTipo ==
  ASSUME RecursosTypeOK, NEW r \in Recurso
  PROVE  Sueltas(r) \in Int /\ EnTramite(r) \in {-1, 0, 1}
<1>1. EnTramite(r) \in {-1, 0, 1}
  BY DEF EnTramite
<1>2. recursos[r] \in Int /\ liberando["interr"][r] \in Int
  BY DEF RecursosTypeOK, Hilos, HilosFijos
<1> QED
  BY <1>1, <1>2 DEF Sueltas

LEMMA SueltasLuego ==
  ASSUME RecursosTypeOK', NEW r \in Recurso
  PROVE  Sueltas(r)' \in Int
<1>1. EnTramite(r)' \in {-1, 0, 1}
  BY DEF EnTramite
<1>2. recursos'[r] \in Int /\ liberando'["interr"][r] \in Int
  BY DEF RecursosTypeOK, Hilos, HilosFijos
<1> QED
  BY <1>1, <1>2 DEF Sueltas

\* What a process has and what it asks for are counts.
LEMMA TieneTipo ==
  ASSUME RecursosTypeOK, NEW p \in Pids, NEW r \in Recurso
  PROVE  /\ Tiene(p, r) \in Nat /\ Pretende(p, r) \in Nat
         /\ Tiene(p, r) <= Pretende(p, r)
         /\ ~ EnEspera(p, r) => Pretende(p, r) = Tiene(p, r)
         /\ ~ EnEspera(p, r) => Tiene(p, r) = IF asignados[p][r] > 0
                                              THEN asignados[p][r] ELSE 0
         /\ EnEspera(p, r) => Pretende(p, r) = Tiene(p, r) + 1
         /\ EnEspera(p, r) => Tiene(p, r) = IF asignados[p][r] > 0
                                            THEN asignados[p][r] - 1 ELSE 0
<1>1. asignados[p][r] \in Int
  BY DEF RecursosTypeOK
<1>2. /\ Uno(EnEspera(p, r)) \in {0, 1}
      /\ EnEspera(p, r) => Uno(EnEspera(p, r)) = 1
      /\ ~ EnEspera(p, r) => Uno(EnEspera(p, r)) = 0
  BY UnoTipo
<1>3. Tiene(p, r) = IF asignados[p][r] - Uno(EnEspera(p, r)) > 0
                    THEN asignados[p][r] - Uno(EnEspera(p, r)) ELSE 0
  BY DEF Tiene
<1>4. Pretende(p, r) = Tiene(p, r) + Uno(EnEspera(p, r))
  BY DEF Pretende
<1> QED
  BY <1>1, <1>2, <1>3, <1>4

\* And so after a step.
LEMMA TieneLuego ==
  ASSUME RecursosTypeOK', NEW p \in Pids, NEW r \in Recurso
  PROVE  /\ Tiene(p, r)' \in Nat /\ Pretende(p, r)' \in Nat
         /\ Tiene(p, r)' <= Pretende(p, r)'
         /\ ~ EnEspera(p, r)' => Pretende(p, r)' = Tiene(p, r)'
         /\ ~ EnEspera(p, r)' => Tiene(p, r)' = IF asignados'[p][r] > 0
                                               THEN asignados'[p][r] ELSE 0
         /\ EnEspera(p, r)' => Pretende(p, r)' = Tiene(p, r)' + 1
         /\ EnEspera(p, r)' => Tiene(p, r)' = IF asignados'[p][r] > 0
                                             THEN asignados'[p][r] - 1 ELSE 0
<1>1. asignados'[p][r] \in Int
  BY DEF RecursosTypeOK
<1>2. /\ Uno(EnEspera(p, r))' \in {0, 1}
      /\ EnEspera(p, r)' => Uno(EnEspera(p, r))' = 1
      /\ ~ EnEspera(p, r)' => Uno(EnEspera(p, r))' = 0
  BY DEF Uno
<1>3. Tiene(p, r)' = IF asignados'[p][r] - Uno(EnEspera(p, r))' > 0
                     THEN asignados'[p][r] - Uno(EnEspera(p, r))' ELSE 0
  BY DEF Tiene
<1>4. Pretende(p, r)' = Tiene(p, r)' + Uno(EnEspera(p, r))'
  BY DEF Pretende
<1> QED
  BY <1>1, <1>2, <1>3, <1>4

LEMMA TotalesTipo ==
  ASSUME RecursosTypeOK, IsFiniteSet(Interfaz), NEW r \in Recurso
  PROVE  /\ Tenidas(r) \in Int /\ Pretendidas(r) \in Int
         /\ Tenidas(r) <= Pretendidas(r)
<1> DEFINE f == [p \in Pids |-> Tiene(p, r)]
           g == [p \in Pids |-> Pretende(p, r)]
<1>1. f \in [Pids -> Int] /\ g \in [Pids -> Int] /\ \A p \in Pids : f[p] <= g[p]
  BY TieneTipo
<1>2. Tenidas(r) = SumFunction(f) /\ Pretendidas(r) = SumFunction(g)
  BY DEF Tenidas, Pretendidas
<1> HIDE DEF f, g
<1> QED
  BY <1>1, <1>2, Finitos, TotalTipo, TotalMonotona

LEMMA TotalesLuego ==
  ASSUME RecursosTypeOK', IsFiniteSet(Interfaz), NEW r \in Recurso
  PROVE  /\ Tenidas(r)' \in Int /\ Pretendidas(r)' \in Int
         /\ Tenidas(r)' <= Pretendidas(r)'
<1> DEFINE f == [p \in Pids |-> Tiene(p, r)']
           g == [p \in Pids |-> Pretende(p, r)']
<1>1. f \in [Pids -> Int] /\ g \in [Pids -> Int] /\ \A p \in Pids : f[p] <= g[p]
  BY TieneLuego
<1>2. Tenidas(r)' = SumFunction(f) /\ Pretendidas(r)' = SumFunction(g)
  BY DEF Tenidas, Pretendidas
<1> HIDE DEF f, g
<1> QED
  BY <1>1, <1>2, Finitos, TotalTipo, TotalMonotona

\* A step in which what one process has or asks for changes, and the rest makes
\* up for it.
LEMMA RepartoPunto ==
  ASSUME RecursosTypeOK, RecursosTypeOK', IsFiniteSet(Interfaz),
         NEW r \in Recurso, RepartoDe(r), NEW p \in Pids,
         \A q \in Pids \ {p} : /\ asignados'[q][r] = asignados[q][r]
                               /\ EnEspera(q, r)' <=> EnEspera(q, r),
         Tiene(p, r)' + Uno(SignalAjeno(r))' <= Tiene(p, r) + Uno(SignalAjeno(r)),
         Pretende(p, r)' + Uno(SignalAjeno(r))' + Sueltas(r)'
            <= Pretende(p, r) + Uno(SignalAjeno(r)) + Sueltas(r)
  PROVE  RepartoDe(r)'
<1> DEFINE f == [q \in Pids |-> Tiene(q, r)]
           g == [q \in Pids |-> Pretende(q, r)]
           ff == [q \in Pids |-> Tiene(q, r)']
           gg == [q \in Pids |-> Pretende(q, r)']
           s == Uno(SignalAjeno(r))
           ss == Uno(SignalAjeno(r))'
<1>1. ASSUME NEW q \in Pids \ {p}
      PROVE  Tiene(q, r)' = Tiene(q, r) /\ Pretende(q, r)' = Pretende(q, r)
  <2>1. Uno(EnEspera(q, r))' = Uno(EnEspera(q, r))
    BY DEF Uno
  <2> QED
    BY <2>1 DEF Tiene, Pretende
<1>2. /\ f \in [Pids -> Int] /\ g \in [Pids -> Int]
      /\ ff \in [Pids -> Int] /\ gg \in [Pids -> Int]
  <2>1. \A q \in Pids : Tiene(q, r) \in Int /\ Pretende(q, r) \in Int
    BY TieneTipo
  <2>2. \A q \in Pids : Tiene(q, r)' \in Int /\ Pretende(q, r)' \in Int
    BY TieneLuego
  <2> QED
    BY <2>1, <2>2
<1>3. \A q \in Pids \ {p} : ff[q] = f[q] /\ gg[q] = g[q]
  BY <1>1
<1>4. /\ Tenidas(r) = SumFunction(f) /\ Tenidas(r)' = SumFunction(ff)
      /\ Pretendidas(r) = SumFunction(g) /\ Pretendidas(r)' = SumFunction(gg)
  BY DEF Tenidas, Pretendidas
<1>5. /\ f[p] = Tiene(p, r) /\ ff[p] = Tiene(p, r)'
      /\ g[p] = Pretende(p, r) /\ gg[p] = Pretende(p, r)'
  OBVIOUS
<1>6. /\ f[p] \in Int /\ ff[p] \in Int /\ g[p] \in Int /\ gg[p] \in Int
  BY <1>2
<1>7. s \in Int /\ ss \in Int /\ Sueltas(r) \in Int /\ Sueltas(r)' \in Int
      /\ Instancias[r] \in Int
  <2>1. s \in Int /\ Sueltas(r) \in Int /\ Sueltas(r)' \in Int
    BY UnoTipo, SueltasTipo, SueltasLuego
  <2>2. ss \in Int
    BY DEF Uno
  <2>3. Instancias[r] \in Int
    BY InstanciasDeRecurso
  <2> QED
    BY <2>1, <2>2, <2>3
<1> HIDE DEF f, g, ff, gg
<1>8. /\ SumFunction(f) \in Int /\ SumFunction(ff) = SumFunction(f) + ff[p] - f[p]
      /\ SumFunction(g) \in Int /\ SumFunction(gg) = SumFunction(g) + gg[p] - g[p]
  BY <1>2, <1>3, Finitos, TotalTipo, TotalPunto
<1>9. /\ SumFunction(f) + s <= Instancias[r]
      /\ SumFunction(g) + s + Sueltas(r) <= Instancias[r]
  BY <1>4 DEF RepartoDe
<1>10. /\ ff[p] + ss <= f[p] + s
       /\ gg[p] + ss + Sueltas(r)' <= g[p] + s + Sueltas(r)
  BY <1>5
<1> HIDE DEF s, ss
<1>11. /\ SumFunction(ff) + ss <= Instancias[r]
       /\ SumFunction(gg) + ss + Sueltas(r)' <= Instancias[r]
  BY <1>6, <1>7, <1>8, <1>9, <1>10
<1>12. /\ Tenidas(r)' + ss <= Instancias[r]
       /\ Pretendidas(r)' + ss + Sueltas(r)' <= Instancias[r]
  BY <1>4, <1>11
<1> QED
  BY <1>12 DEF RepartoDe, s, ss

\* A step in which nobody asks for more and some may stop waiting, if no
\* instance is owed: what those now have they had asked for.
LEMMA RepartoTermina ==
  ASSUME RecursosTypeOK, RecursosTypeOK', IsFiniteSet(Interfaz),
         NEW r \in Recurso, RepartoDe(r),
         \A q \in Pids : /\ asignados'[q][r] = asignados[q][r]
                         /\ EnEspera(q, r)' => EnEspera(q, r),
         SignalAjeno(r)' => SignalAjeno(r),
         Sueltas(r)' = Sueltas(r), Sueltas(r) >= 0
  PROVE  RepartoDe(r)'
<1> DEFINE g == [q \in Pids |-> Pretende(q, r)]
           gg == [q \in Pids |-> Pretende(q, r)']
           s == Uno(SignalAjeno(r))
           ss == Uno(SignalAjeno(r))'
<1>1. ASSUME NEW q \in Pids
      PROVE  /\ Pretende(q, r) \in Int /\ Pretende(q, r)' \in Int
             /\ Pretende(q, r)' <= Pretende(q, r)
  <2>1. asignados[q][r] \in Int
    BY DEF RecursosTypeOK
  <2> DEFINE a == asignados[q][r]
             e == Uno(EnEspera(q, r))
             ee == Uno(EnEspera(q, r))'
  <2>2. e \in {0, 1} /\ ee \in {0, 1} /\ ee <= e
    BY DEF Uno
  <2>3. /\ Pretende(q, r) = (IF a - e > 0 THEN a - e ELSE 0) + e
        /\ Pretende(q, r)' = (IF a - ee > 0 THEN a - ee ELSE 0) + ee
    BY DEF Pretende, Tiene
  <2> HIDE DEF a, e, ee
  <2>4. a \in Int
    BY <2>1 DEF a
  <2> QED
    BY <2>2, <2>3, <2>4
<1>2. g \in [Pids -> Int] /\ gg \in [Pids -> Int]
      /\ \A q \in Pids : gg[q] <= g[q]
  BY <1>1
<1>3. Pretendidas(r) = SumFunction(g) /\ Pretendidas(r)' = SumFunction(gg)
  BY DEF Pretendidas
<1> HIDE DEF g, gg
<1>4. Pretendidas(r)' <= Pretendidas(r)
  BY <1>2, <1>3, Finitos, TotalMonotona
<1>5. /\ Pretendidas(r) \in Int /\ Pretendidas(r)' \in Int
      /\ Tenidas(r)' \in Int /\ Tenidas(r)' <= Pretendidas(r)'
  BY TotalesTipo, TotalesLuego
<1>6. s \in {0, 1} /\ ss \in {0, 1} /\ ss <= s
  BY DEF Uno
<1>7. Sueltas(r) \in Int /\ Instancias[r] \in Int
  BY SueltasTipo, InstanciasDeRecurso
<1>8. Pretendidas(r) + s + Sueltas(r) <= Instancias[r]
  BY DEF RepartoDe
<1> HIDE DEF s, ss
<1>9. /\ Tenidas(r)' + ss <= Instancias[r]
      /\ Pretendidas(r)' + ss + Sueltas(r)' <= Instancias[r]
  BY <1>4, <1>5, <1>6, <1>7, <1>8
<1> QED
  BY <1>9 DEF RepartoDe, s, ss

\* A step in which nothing changes for the resource but a SIGNAL that is done.
LEMMA RepartoQuieto ==
  ASSUME RecursosTypeOK, RecursosTypeOK', IsFiniteSet(Interfaz),
         NEW r \in Recurso, RepartoDe(r),
         \A q \in Pids : /\ asignados'[q][r] = asignados[q][r]
                         /\ EnEspera(q, r)' <=> EnEspera(q, r),
         SignalAjeno(r)' => SignalAjeno(r),
         Sueltas(r)' <= Sueltas(r)
  PROVE  RepartoDe(r)'
<1>1. \A q \in Pids : Tiene(q, r)' = Tiene(q, r) /\ Pretende(q, r)' = Pretende(q, r)
  <2> TAKE q \in Pids
  <2>1. Uno(EnEspera(q, r))' = Uno(EnEspera(q, r))
    BY DEF Uno
  <2> QED
    BY <2>1 DEF Tiene, Pretende
<1>2. Tenidas(r)' = Tenidas(r) /\ Pretendidas(r)' = Pretendidas(r)
  BY <1>1 DEF Tenidas, Pretendidas
<1>3. Tenidas(r) \in Int /\ Pretendidas(r) \in Int /\ Sueltas(r) \in Int
      /\ Sueltas(r)' \in Int /\ Instancias[r] \in Int
  BY TotalesTipo, SueltasTipo, SueltasLuego, InstanciasDeRecurso
<1>4. Uno(SignalAjeno(r)) \in {0, 1} /\ Uno(SignalAjeno(r))' \in {0, 1}
      /\ Uno(SignalAjeno(r))' <= Uno(SignalAjeno(r))
  BY DEF Uno
<1> QED
  BY <1>2, <1>3, <1>4 DEF RepartoDe

\* While the handler has the turn nothing is on its way to the CPU or back.
LEMMA TurnoDelHandler ==
  ASSUME Inductivo, HandlerConTurno
  PROVE  /\ pc["corto"] = "dispatch"
         /\ recibidos = << >> /\ enviados = << >>
<1>1. pc["corto"] = "dispatch" /\ sem_interrupcion = 0
  BY DEF Inductivo, TypeOK, SemaforosTypeOK, TurnoUnico, Uno
<1>2. Len(enviados) \in Nat /\ Len(recibidos) \in Nat
  BY TiposDeRecursos, LenProperties DEF ConexionesTypeOK
<1>3. Len(enviados) = 0 /\ Len(recibidos) = 0
  BY <1>1, <1>2 DEF Inductivo, ContextoPropio
<1> QED
  BY <1>1, <1>3, TiposDeRecursos, EmptySeq DEF ConexionesTypeOK

\* The process in EXEC is in no queue and in nobody's hands.
LEMMA SoloEnExec ==
  ASSUME Inductivo, Ubicacion, proceso_ejecutando \in Pids
  PROVE  /\ \A r \in Recurso : ~ Contains(colas[r], proceso_ejecutando)
         /\ mano["interr"] # proceso_ejecutando
<1> DEFINE e == << "exec", "exec" >>
<1>1. e \in Sitios /\ Esta(proceso_ejecutando, e)
  BY DEF Sitios, Esta
<1>2. \A m \in Sitios : Esta(proceso_ejecutando, m) => m = e
  BY <1>1 DEF Ubicacion, UnSitio
<1>3. ASSUME NEW r \in Recurso, Contains(colas[r], proceso_ejecutando)
      PROVE  FALSE
  <2>1. << "cola", r >> \in Sitios /\ Esta(proceso_ejecutando, << "cola", r >>)
    BY <1>3, TiposDeRecursos DEF Sitios, Esta
  <2> QED
    BY <1>2, <2>1
<1>4. ASSUME mano["interr"] = proceso_ejecutando
      PROVE  FALSE
  <2>1. /\ << "mano", "interr" >> \in Sitios
        /\ Esta(proceso_ejecutando, << "mano", "interr" >>)
    BY <1>4, TiposDeRecursos DEF Sitios, Esta
  <2> QED
    BY <1>2, <2>1
<1> QED
  BY <1>3, <1>4

\* What the other threads and the CPU do to the process in EXEC and to its
\* contexts: the dispatcher puts one there, the CPU answers for it, and its
\* SIGNAL is of what it has.
LEMMA OtroHiloEnCPU ==
  ASSUME Inductivo, SoloInterrLibera, Desconexiones = {}, MinAsignado >= 0,
         pc["consola"] \in SinFin, [Next]_vars, ~ PasoInterr
  PROVE  \/ UNCHANGED << proceso_ejecutando, recibidos >>
         \/ /\ pc["interr"] \notin AntesDeSacar
            /\ recibidos' = << >>
         \/ /\ UNCHANGED << proceso_ejecutando, asignados >>
            /\ \E c \in Contexto :
                  /\ recibidos' = Append(recibidos, c)
                  /\ c.op = "SIGNAL" /\ c.arg \in Recurso =>
                        asignados[proceso_ejecutando][c.arg] > 0
<1>t. /\ pc \in [Hilos -> Etiquetas] /\ SchedulerTypeOK /\ ConexionesTypeOK
      /\ HilosFijos \subseteq Hilos /\ Interfaz \subseteq Hilos
      /\ Interfaz \cap HilosFijos = {}
  BY TiposDeRecursos
<1>i. \A i \in Interfaz : pc[i] \in Conectadas \cup {"desconectada"}
  BY DEF SoloInterrLibera
<1>1. CASE PasoLargo
  BY <1>1 DEF PasoLargo, Largo, LargoTomaCupo, LargoReanuda, otras,
     LargoConfirma, LargoEsperaNew, LargoSaca, LargoSacaNada, LargoPone,
     LargoCuenta, SigueSiActiva, SaleDePausa, Saca, Pone
<1>2. CASE PasoCorto
  <2>1. CASE CortoDespacha
    <3>1. /\ sem_interrupcion = 0 /\ ~ HandlerConTurno
      BY <2>1 DEF CortoDespacha, Inductivo, TypeOK, SemaforosTypeOK, TurnoUnico, Uno
    <3>2. pc["interr"] \notin AntesDeSacar
      BY <3>1 DEF HandlerConTurno, AntesDeSacar
    <3>3. Len(enviados) \in Nat /\ Len(recibidos) \in Nat
      BY <1>t, LenProperties DEF ConexionesTypeOK
    <3>4. Len(recibidos) = 0
      BY <3>1, <3>3 DEF Inductivo, ContextoPropio
    <3>5. recibidos = << >>
      BY <1>t, <3>4, EmptySeq DEF ConexionesTypeOK
    <3> QED
      BY <2>1, <3>2, <3>5 DEF CortoDespacha
  <2>2. CASE ~ CortoDespacha
    BY <1>2, <2>2 DEF PasoCorto, Corto, CortoToma, CortoReanuda, CortoElige,
       CortoSacaAux, CortoSacaReady, SigueSiActiva, SaleDePausa, Saca
  <2> QED
    BY <2>1, <2>2
<1>3. CASE \E i \in Interfaz : PasoInterfaz(i)
  <2> PICK i \in Interfaz : PasoInterfaz(i)
    BY <1>3
  <2>1. ~ InterfazLibera(i)
    BY <1>t, <1>i, LiberarQuieto DEF InterfazLibera, Etiquetas, Conectadas
  <2> QED
    BY <2>1 DEF PasoInterfaz, Interf, InterfazFalla, InterfazQuitaCola,
       InterfazItera, InterfazAvisaMemoria, InterfazAExit, InterfazIteraFin,
       InterfazConecta, InterfazToma, InterfazEjecuta, SigueSiActiva,
       SaleDePausa, InterfazResponde, InterfazReanuda, InterfazSacaNadie,
       InterfazBorra, InterfazSaca, Saca, Pone, InterfazPone
<1>4. CASE PasoOrden
  BY <1>4 DEF PasoOrden, Orden, IniciarProceso,
     IniciarProcesoSinPath, PideCreacion, Lee, DetenerPlanificacion,
     IniciarPlanificacion, Multiprogramacion, FinalizarProceso
<1>5. CASE PasoConsola
  <2>1. ASSUME NEW k \in 1 .. 4
        PROVE  EtapaFin(k) \notin SinFin /\ EtapaExit(k) \notin SinFin
    BY DEF EtapaFin, EtapaExit, SinFin
  <2>2. ~ FinalizarLibera
    BY <1>t, LiberarQuieto DEF FinalizarLibera, Etiquetas, HilosFijos, SinFin
  <2>3. /\ ~ FinalizarEnExec /\ ~ FinalizarAvisaMemoria
        /\ \A k \in 1 .. 4 : /\ ~ FinalizarEncuentra(k) /\ ~ FinalizarNoEncuentra(k)
                              /\ ~ FinalizarAExit(k)
    BY <2>1 DEF FinalizarEnExec, FinalizarAvisaMemoria, FinalizarEncuentra,
       FinalizarNoEncuentra, FinalizarAExit, SinFin
  <2>4. ProcesoAColaNew \/ ConsolaInicializaRecursos \/ CambiaGrado
    BY <1>5, <2>2, <2>3 DEF PasoConsola, Ejecuta
  <2> QED
    BY <2>4 DEF ProcesoAColaNew, Pone, ConsolaInicializaRecursos, CambiaGrado
<1>6. CASE PasoCPU
  <2>1. UNCHANGED << proceso_ejecutando, asignados >> /\ enviados # << >>
    BY <1>6 DEF PasoCPU, kernelVars, CPUTermina, CPULlama, CPUDesaloja,
       CPUInterrumpe
  <2>2. Head(enviados) = proceso_ejecutando /\ Head(enviados) \in Pids
    <3>1. /\ enviados \in Seq(Pids) /\ Len(enviados) \in Nat
          /\ Head(enviados) = enviados[1]
      BY <1>t, LenProperties DEF ConexionesTypeOK
    <3>2. Len(enviados) # 0
      BY <2>1, <3>1, EmptySeq
    <3>3. 1 \in 1 .. Len(enviados)
      BY <3>1, <3>2
    <3> QED
      BY <3>1, <3>3, ElementOfSeq DEF Inductivo, ContextoPropio
  <2>3. \E op \in Operaciones, arg \in Bloqueados \cup {Ninguno} :
           /\ CPUDevuelve(op, arg)
           /\ op = "SIGNAL" /\ arg \in Recurso =>
                asignados[Head(enviados)][arg] > MinAsignado
    <3>1. CASE CPULlama
      <4>1. PICK c \in Llamadas : /\ LlamadaPosible(Head(enviados), c)
                                  /\ CPUDevuelve(c.op, c.arg)
        BY <3>1 DEF CPULlama
      <4>2. c.op \in Operaciones /\ c.arg \in Bloqueados \cup {Ninguno}
        BY ProgramasPosibles DEF Instruccion
      <4> QED
        BY <4>1, <4>2 DEF LlamadaPosible
    <3>2. CASE CPUTermina \/ CPUDesaloja \/ CPUInterrumpe
      BY <3>2 DEF CPUTermina, CPUDesaloja, CPUInterrumpe, Operaciones, OpsDeFin
    <3> QED
      BY <1>6, <3>1, <3>2 DEF PasoCPU
  <2>4. PICK op \in Operaciones, arg \in Bloqueados \cup {Ninguno} :
           /\ CPUDevuelve(op, arg)
           /\ op = "SIGNAL" /\ arg \in Recurso =>
                asignados[Head(enviados)][arg] > MinAsignado
    BY <2>3
  <2> DEFINE c == [pid |-> Head(enviados), op |-> op, arg |-> arg]
  <2>5. c \in Contexto /\ recibidos' = Append(recibidos, c)
    BY <2>2, <2>4 DEF Contexto, CPUDevuelve
  <2>6. c.op = "SIGNAL" /\ c.arg \in Recurso => asignados[proceso_ejecutando][c.arg] > 0
    <3>1. \A r \in Recurso : asignados[proceso_ejecutando][r] \in Int
      BY <2>2, TiposDeRecursos DEF RecursosTypeOK
    <3>2. MinAsignado \in Int
      BY ProgramasPosibles
    <3> QED
      BY <2>2, <2>4, <3>1, <3>2
  <2> QED
    BY <2>1, <2>5, <2>6
<1>7. CASE PasoMemoria \/ PasoOrdenPerdida \/ Reposo \/ UNCHANGED vars
  BY <1>7 DEF PasoMemoria, PasoOrdenPerdida, Reposo, vars, MemoriaAtiende,
     CPUOlvidaOrden, kernelVars
<1> QED
  BY <1>1, <1>2, <1>3, <1>4, <1>5, <1>6, <1>7 DEF Next

\* The steps of the other threads.
LEMMA OtroHiloReparto ==
  ASSUME Inductivo, Inductivo', Ubicacion, LibrosAlDia, IsFiniteSet(Interfaz),
         Desconexiones = {}, MinAsignado >= 0, pc["consola"] \in SinFin,
         [Next]_vars, ~ PasoInterr, NEW r \in Recurso, RepartoDe(r)
  PROVE  RepartoDe(r)'
<1>t. RecursosTypeOK /\ RecursosTypeOK' /\ ConexionesTypeOK
  BY DEF Inductivo, TypeOK
<1>1. /\ UNCHANGED tokens /\ pc'["interr"] = pc["interr"]
      /\ mano'["interr"] = mano["interr"]
      /\ OtraCosa \/ ConsolaInicializaRecursos
  BY OtroHilo DEF LibrosAlDia
<1>2. \/ UNCHANGED << proceso_ejecutando, recibidos >>
      \/ /\ pc["interr"] \notin AntesDeSacar
         /\ recibidos' = << >>
      \/ /\ UNCHANGED << proceso_ejecutando, asignados >>
         /\ \E c \in Contexto :
               /\ recibidos' = Append(recibidos, c)
               /\ c.op = "SIGNAL" /\ c.arg \in Recurso =>
                     asignados[proceso_ejecutando][c.arg] > 0
  BY OtroHiloEnCPU DEF LibrosAlDia
<1>3. colas'[r] = colas[r] /\ UNCHANGED << recursos, liberando >>
  BY <1>1 DEF OtraCosa, ConsolaInicializaRecursos, InicializarRecursosProceso
<1>4. ASSUME NEW q \in Pids
      PROVE  EnEspera(q, r)' <=> EnEspera(q, r)
  <2>1. \/ UNCHANGED proceso_ejecutando
        \/ pc["interr"] \notin {"carga", "guarda", "decide", "bloq_saca"}
    BY <1>2 DEF AntesDeSacar
  <2> QED
    BY <1>1, <1>3, <2>1 DEF EnEspera
<1>5. Sueltas(r)' = Sueltas(r) /\ Sueltas(r) \in Int
  BY <1>1, <1>3, <1>t, SueltasTipo DEF Sueltas, EnTramite
<1>6. CASE OtraCosa
  <2>1. UNCHANGED asignados
    BY <1>6 DEF OtraCosa
  <2>2. ASSUME SignalAjeno(r)'
        PROVE  SignalAjeno(r)
    <3>1. CASE UNCHANGED << proceso_ejecutando, recibidos >>
      BY <1>1, <2>1, <2>2, <3>1 DEF SignalAjeno
    <3>2. CASE pc["interr"] \notin AntesDeSacar /\ recibidos' = << >>
      <4>1. Len(recibidos') = 0
        BY <3>2
      <4> QED
        BY <1>1, <2>2, <3>2, <4>1 DEF SignalAjeno, AntesDeSacar
    <3>3. ASSUME UNCHANGED proceso_ejecutando, NEW c \in Contexto,
                 recibidos' = Append(recibidos, c),
                 c.op = "SIGNAL" /\ c.arg \in Recurso =>
                     asignados[proceso_ejecutando][c.arg] > 0
          PROVE  SignalAjeno(r)
      <4>1. /\ recibidos \in Seq(Contexto) /\ Len(recibidos) \in Nat
            /\ Len(recibidos') = Len(recibidos) + 1
            /\ \A k \in 1 .. Len(recibidos) : recibidos'[k] = recibidos[k]
            /\ recibidos'[Len(recibidos) + 1] = c
        BY <1>t, <3>3, AppendProperties, LenProperties DEF ConexionesTypeOK
      <4>2. asignados[proceso_ejecutando][r] \in Int /\ proceso_ejecutando \in Pids
        BY <1>t, <2>2, <3>3 DEF SignalAjeno, RecursosTypeOK
      <4>3. ~ (c.op = "SIGNAL" /\ c.arg = r)
        BY <2>1, <2>2, <3>3, <4>2 DEF SignalAjeno
      <4>4. CASE \E k \in 1 .. Len(recibidos') :
                    recibidos'[k].op = "SIGNAL" /\ recibidos'[k].arg = r
        <5>1. PICK k \in 1 .. Len(recibidos') :
                    recibidos'[k].op = "SIGNAL" /\ recibidos'[k].arg = r
          BY <4>4
        <5>2. k \in 1 .. Len(recibidos)
          BY <4>1, <4>3, <5>1
        <5>3. recibidos[k].op = "SIGNAL" /\ recibidos[k].arg = r
          BY <4>1, <5>1, <5>2
        <5> QED
          BY <2>1, <2>2, <3>3, <5>2, <5>3 DEF SignalAjeno
      <4>5. CASE ~ \E k \in 1 .. Len(recibidos') :
                    recibidos'[k].op = "SIGNAL" /\ recibidos'[k].arg = r
        BY <1>1, <2>1, <2>2, <3>3, <4>5 DEF SignalAjeno
      <4> QED
        BY <4>4, <4>5
    <3> QED
      BY <1>2, <3>1, <3>2, <3>3
  <2> QED
    BY <1>t, <1>4, <1>5, <2>1, <2>2, RepartoQuieto
<1>7. CASE ConsolaInicializaRecursos
  <2>0. numero_de_procesos \in Pids
    BY <1>7 DEF ConsolaInicializaRecursos, Inductivo, ArgumentoValido
  <2> PICK p \in Pids : p = numero_de_procesos
    BY <2>0
  <2>1. /\ p \in Pids
        /\ asignados' = [asignados EXCEPT ![p] = SinAsignar]
        /\ UNCHANGED << proceso_ejecutando, recibidos >>
    BY <1>7 DEF ConsolaInicializaRecursos, InicializarRecursosProceso
  <2>2. /\ asignados'[p][r] = 0 /\ asignados[p][r] \in Int
        /\ \A q \in Pids \ {p} : asignados'[q] = asignados[q]
    BY <1>t, <2>1 DEF RecursosTypeOK, SinAsignar
  <2> DEFINE s == Uno(SignalAjeno(r))
             ss == Uno(SignalAjeno(r))'
  <2>3. ss <= s \/ (ss = 1 /\ s = 0 /\ ~ EnEspera(p, r) /\ asignados[p][r] > 0)
    <3>1. CASE SignalAjeno(r) \/ ~ SignalAjeno(r)'
      BY <3>1 DEF Uno
    <3>2. ASSUME ~ SignalAjeno(r), SignalAjeno(r)'
          PROVE  p = proceso_ejecutando /\ asignados[p][r] > 0 /\ ~ EnEspera(p, r)
      <4>1. p = proceso_ejecutando
        BY <1>1, <2>1, <2>2, <3>2 DEF SignalAjeno
      <4>2. asignados[p][r] > 0
        BY <1>1, <2>1, <2>2, <3>2, <4>1 DEF SignalAjeno
      <4>3. ~ Contains(colas[r], p) /\ mano["interr"] # p
        BY <2>1, <4>1, SoloEnExec
      <4>4. ~ (tokens.op = "WAIT" /\ pc["interr"] \in {"carga", "guarda", "decide", "bloq_saca"})
        <5> SUFFICES ASSUME tokens.op = "WAIT",
                            pc["interr"] \in {"carga", "guarda", "decide", "bloq_saca"}
                     PROVE  FALSE
          OBVIOUS
        <5>1. HandlerConTurno
          BY DEF HandlerConTurno
        <5>2. Len(recibidos) = 0
          BY <5>1, TurnoDelHandler
        <5> QED
          BY <1>1, <2>1, <3>2, <5>2 DEF SignalAjeno
      <4> QED
        BY <4>1, <4>2, <4>3, <4>4 DEF EnEspera
    <3> QED
      BY <3>1, <3>2 DEF Uno
  <2>4. s \in {0, 1} /\ ss \in {0, 1}
    BY DEF Uno
  <2> HIDE DEF s, ss
  <2>5. /\ Tiene(p, r) \in Nat /\ Pretende(p, r) \in Nat
        /\ Tiene(p, r)' = 0
        /\ EnEspera(p, r) => /\ Pretende(p, r)' = 1
                             /\ Pretende(p, r) = Tiene(p, r) + 1
        /\ ~ EnEspera(p, r) => /\ Pretende(p, r)' = 0
                               /\ Pretende(p, r) = Tiene(p, r)
                               /\ asignados[p][r] > 0 => Tiene(p, r) >= 1
    <3>1. EnEspera(p, r)' <=> EnEspera(p, r)
      BY <1>4, <2>1
    <3>2. Tiene(p, r)' = 0
      BY <1>t, <2>1, <2>2, TieneLuego
    <3>3. Pretende(p, r)' = IF EnEspera(p, r) THEN 1 ELSE 0
      BY <1>t, <2>1, <3>1, <3>2, TieneLuego
    <3>4. /\ Tiene(p, r) \in Nat /\ Pretende(p, r) \in Nat
          /\ EnEspera(p, r) => Pretende(p, r) = Tiene(p, r) + 1
          /\ ~ EnEspera(p, r) => Pretende(p, r) = Tiene(p, r)
      BY <1>t, <2>1, TieneTipo
    <3>5. ~ EnEspera(p, r) /\ asignados[p][r] > 0 => Tiene(p, r) >= 1
      BY <1>t, <2>1, <2>2, TieneTipo
    <3> QED
      BY <3>2, <3>3, <3>4, <3>5
  <2>6. /\ Tiene(p, r)' + ss <= Tiene(p, r) + s
        /\ Pretende(p, r)' + ss + Sueltas(r)' <= Pretende(p, r) + s + Sueltas(r)
    BY <1>5, <2>3, <2>4, <2>5
  <2>7. \A q \in Pids \ {p} : /\ asignados'[q][r] = asignados[q][r]
                              /\ EnEspera(q, r)' <=> EnEspera(q, r)
    BY <1>4, <2>2
  <2> QED
    BY <1>t, <2>1, <2>6, <2>7, RepartoPunto DEF s, ss
<1> QED
  BY <1>1, <1>6, <1>7

\* A SIGNAL on its way is a context of the process in EXEC, or what the handler
\* is about to do for it.
LEMMA SignalQuieto ==
  ASSUME Inductivo, NEW r \in Recurso, UNCHANGED << asignados, recibidos >>,
         proceso_ejecutando' \in {proceso_ejecutando, Nadie},
         \/ pc'["interr"] \notin {"activa", "pausa", "asigna"}
         \/ /\ UNCHANGED tokens
            /\ pc["interr"] \in {"activa", "pausa", "asigna"}
  PROVE  SignalAjeno(r)' => SignalAjeno(r)
<1>1. Nadie \notin Pids
  BY DEF Nadie, Pids
<1> QED
  BY <1>1 DEF SignalAjeno

\* When the handler takes a context.
LEMMA RecibeSignal ==
  ASSUME Inductivo, NEW r \in Recurso, InterrRecibe
  PROVE  SignalAjeno(r)' => SignalAjeno(r)
<1> SUFFICES ASSUME SignalAjeno(r)'
             PROVE  SignalAjeno(r)
  OBVIOUS
<1>1. /\ recibidos \in Seq(Contexto) /\ recibidos # << >>
      /\ recibidos' = Tail(recibidos) /\ tokens'.op = Head(recibidos).op
      /\ tokens'.arg = Head(recibidos).arg
      /\ UNCHANGED << asignados, proceso_ejecutando >>
  BY TiposDeRecursos DEF InterrRecibe, ConexionesTypeOK
<1>2. /\ Head(recibidos) = recibidos[1] /\ Len(recibidos) \in Nat
      /\ Len(recibidos) # 0 /\ Len(recibidos') = Len(recibidos) - 1
      /\ \A k \in 1 .. Len(recibidos') : recibidos'[k] = recibidos[k + 1]
  BY <1>1, HeadTailProperties, LenProperties, EmptySeq
<1>3. CASE \E k \in 1 .. Len(recibidos') :
              recibidos'[k].op = "SIGNAL" /\ recibidos'[k].arg = r
  <2>1. PICK k \in 1 .. Len(recibidos') :
              recibidos'[k].op = "SIGNAL" /\ recibidos'[k].arg = r
    BY <1>3
  <2>2. k + 1 \in 1 .. Len(recibidos)
    BY <1>2
  <2>3. recibidos[k + 1].op = "SIGNAL" /\ recibidos[k + 1].arg = r
    BY <1>2, <2>1
  <2> QED
    BY <1>1, <2>2, <2>3 DEF SignalAjeno
<1>4. CASE tokens'.op = "SIGNAL" /\ tokens'.arg = r
  <2>1. 1 \in 1 .. Len(recibidos)
    BY <1>2
  <2>2. recibidos[1].op = "SIGNAL" /\ recibidos[1].arg = r
    BY <1>1, <1>2, <1>4
  <2> QED
    BY <1>1, <2>1, <2>2 DEF SignalAjeno
<1> QED
  BY <1>3, <1>4 DEF SignalAjeno

LEMMA AparteSignal ==
  ASSUME Inductivo, NEW r \in Recurso, InterrAparte
  PROVE  SignalAjeno(r)' => SignalAjeno(r)
<1>t. pc \in [Hilos -> Etiquetas] /\ "interr" \in Hilos
  BY TiposDeRecursos
<1>1. CASE InterrRecibe
  BY <1>1, RecibeSignal
<1>2. CASE InterrActiva \/ InterrReanuda
  <2>1. /\ UNCHANGED << asignados, recibidos, proceso_ejecutando, tokens >>
        /\ pc["interr"] \in {"activa", "pausa"}
    BY <1>2 DEF InterrActiva, InterrReanuda, SigueSiActiva, SaleDePausa
  <2> QED
    BY <2>1, SignalQuieto
<1>3. CASE \/ InterrAvisaMemoria \/ InterrFinSaca \/ InterrFinPone
           \/ InterrAumentaMira \/ InterrAumentaResta
           \/ InterrDesalojaSaca \/ InterrDesalojaPone \/ InterrIO
           \/ InterrBloqueaSaca \/ InterrBloqueaBusca
           \/ InterrWaitBloquea \/ InterrSigueEnCPU \/ InterrSignalDespierta
           \/ InterrSignalSaca \/ InterrSignalNadie \/ InterrSignalPone
  <2>1. /\ UNCHANGED << asignados, recibidos >>
        /\ proceso_ejecutando' \in {proceso_ejecutando, Nadie}
        /\ pc'["interr"] \notin {"activa", "pausa", "asigna"}
    BY <1>3, <1>t DEF InterrAvisaMemoria, InterrFinSaca, InterrFinPone,
       InterrAumentaMira, InterrAumentaResta, InterrDesalojaSaca,
       InterrDesalojaPone, InterrIO, InterrBloqueaSaca, InterrBloqueaBusca,
       InterrWaitBloquea, InterrSigueEnCPU, InterrSignalDespierta,
       InterrSignalSaca, InterrSignalNadie, InterrSignalPone, VuelveALaCPU,
       SacaDeExec, Saca, Pone
  <2> QED
    BY <2>1, SignalQuieto
<1>4. CASE InterrRecursoInvalido \/ InterrAgregaInstruccion \/ InterrBloqueaPone
  <2>1. /\ UNCHANGED << asignados, recibidos, proceso_ejecutando >>
        /\ pc'["interr"] \notin {"activa", "pausa", "asigna"}
    BY <1>4, <1>t DEF InterrRecursoInvalido, InterrAgregaInstruccion,
       InterrBloqueaPone, Pone, PoneEnHuerfana
  <2> QED
    BY <2>1, SignalQuieto
<1> QED
  BY <1>1, <1>2, <1>3, <1>4 DEF InterrAparte

\* Who waits for r before and after a step of the handler that is not about the
\* books: nobody starts to, and whoever stops is let go on because there is one.
LEMMA ApartePide ==
  ASSUME Inductivo, Ubicacion, Enlace, LibrosAlDia, NEW r \in Recurso, InterrAparte
  PROVE  \/ \A q \in Pids : EnEspera(q, r)' <=> EnEspera(q, r)
         \/ /\ \A q \in Pids : EnEspera(q, r)' => EnEspera(q, r)
            /\ recursos[r] >= 0
<1>t. /\ pc \in [Hilos -> Etiquetas] /\ "interr" \in Hilos /\ SchedulerTypeOK
      /\ mano \in [Hilos -> Pids \cup {Nadie}]
      /\ {"new", "ready", "aux", "exit"} \cap Recurso = {}
      /\ Interfaz \cap Recurso = {} /\ Recurso \subseteq Colas
      /\ DOMAIN colas = Colas
  BY TiposDeRecursos DEF SchedulerTypeOK
<1> DEFINE Esperando == {"carga", "guarda", "decide", "bloq_saca", "bloq_busca",
                         "bloq_pone"}
<1>1. ASSUME colas'[r] = colas[r],
             pc["interr"] \notin Esperando \/ tokens.op # "WAIT",
             pc'["interr"] \notin Esperando \/ tokens'.op # "WAIT"
      PROVE  \A q \in Pids : EnEspera(q, r)' <=> EnEspera(q, r)
  BY <1>1 DEF EnEspera
<1>2. CASE \/ InterrRecibe \/ InterrReanuda \/ InterrActiva
  <2>1. Caso(tokens) \in {"fin_term", "desaloja", "io", "asigna"}
    BY DEF Caso, OpsDeFin, Inductivo, TypeOK, LocalesTypeOK, Instruccion,
       Operaciones
  <2>2. /\ colas' = colas /\ pc["interr"] \notin Esperando
        /\ pc'["interr"] \notin Esperando
    BY <1>2, <1>t, <2>1 DEF InterrRecibe, InterrReanuda, InterrActiva,
       SigueSiActiva, SaleDePausa
  <2> QED
    BY <1>1, <2>2
<1>3. CASE \/ InterrAvisaMemoria \/ InterrFinSaca \/ InterrFinPone
           \/ InterrAumentaMira \/ InterrAumentaResta \/ InterrRecursoInvalido
           \/ InterrDesalojaSaca \/ InterrDesalojaPone \/ InterrIO
           \/ InterrSignalNadie \/ InterrSignalPone
  <2>1. /\ colas'[r] = colas[r] /\ pc["interr"] \notin Esperando
        /\ pc'["interr"] \notin Esperando
    BY <1>3, <1>t DEF InterrAvisaMemoria, InterrFinSaca, InterrFinPone,
       InterrAumentaMira, InterrAumentaResta, InterrRecursoInvalido,
       InterrDesalojaSaca, InterrDesalojaPone, InterrIO, InterrSignalNadie,
       InterrSignalPone, VuelveALaCPU, SacaDeExec, Pone
  <2> QED
    BY <1>1, <2>1
<1>4. CASE InterrAgregaInstruccion
  <2>1. tokens.op = "IO" /\ tokens' = tokens /\ colas' = colas
    BY <1>4, <1>t DEF InterrAgregaInstruccion, Enlace, OperacionDeIO
  <2> QED
    BY <1>1, <2>1
<1>5. CASE InterrBloqueaSaca
  <2>1. /\ colas' = colas /\ tokens' = tokens
        /\ pc["interr"] = "bloq_saca" /\ pc'["interr"] = "bloq_busca"
        /\ mano'["interr"] = proceso_ejecutando
    BY <1>5, <1>t DEF InterrBloqueaSaca, SacaDeExec
  <2> QED
    BY <2>1 DEF EnEspera
<1>6. CASE InterrBloqueaBusca
  <2>1. /\ UNCHANGED << colas, tokens, mano >>
        /\ pc["interr"] = "bloq_busca" /\ pc'["interr"] = "bloq_pone"
    BY <1>6, <1>t DEF InterrBloqueaBusca
  <2> QED
    BY <2>1 DEF EnEspera
<1>7. CASE InterrBloqueaPone
  <2>1. pc["interr"] = "bloq_pone" /\ pc'["interr"] = "espera" /\ tokens' = SinTokens
    BY <1>7, <1>t DEF InterrBloqueaPone
  <2>2. tokens.arg \in claves
    <3>1. tokens.arg \in Interfaz => pc[tokens.arg] \notin Caidas
      BY DEF LibrosAlDia, SoloInterrLibera, Conectadas, Caidas
    <3> QED
      BY <2>1, <3>1 DEF Enlace, BloqueoConLista
  <2>3. colas' = [colas EXCEPT ![tokens.arg] = Append(@, mano["interr"])]
    BY <1>7, <2>2 DEF InterrBloqueaPone, Pone
  <2>4. CASE tokens.arg = r
    <3>1. tokens.op = "WAIT"
      BY <1>t, <2>1, <2>4 DEF Enlace, OperacionDeIO, LibrosAlDia, OperacionDeRecurso
    <3>2. colas'[r] = Append(colas[r], mano["interr"])
      BY <1>t, <2>3, <2>4
    <3>3. mano["interr"] \in Pids /\ colas[r] \in Seq(Pids)
      BY <1>t, <2>1 DEF Inductivo, ManoLlena, SchedulerTypeOK
    <3>4. \A q \in Pids : Contains(colas'[r], q)
                            <=> Contains(colas[r], q) \/ q = mano["interr"]
      BY <3>2, <3>3, AppendLista
    <3> QED
      BY <2>1, <2>4, <3>1, <3>4 DEF EnEspera, SinTokens
  <2>5. CASE tokens.arg # r
    <3>1. colas'[r] = colas[r]
      BY <1>t, <2>3, <2>5
    <3> QED
      BY <2>1, <2>5, <3>1 DEF EnEspera, SinTokens
  <2> QED
    BY <2>4, <2>5
<1>8. CASE InterrWaitBloquea
  <2>1. /\ UNCHANGED << colas, tokens, proceso_ejecutando >>
        /\ pc["interr"] = "decide" /\ pc'["interr"] = "bloq_saca"
    BY <1>8, <1>t DEF InterrWaitBloquea
  <2> QED
    BY <2>1 DEF EnEspera
<1>9. CASE InterrSigueEnCPU
  <2>1. /\ colas' = colas /\ pc["interr"] = "decide"
        /\ pc'["interr"] = "espera"
        /\ tokens.op = "WAIT" => recursos[tokens.arg] >= 0
    BY <1>9, <1>t DEF InterrSigueEnCPU, VuelveALaCPU
  <2>2. CASE tokens.op = "WAIT" /\ tokens.arg = r
    BY <2>1, <2>2 DEF EnEspera
  <2>3. CASE tokens.op # "WAIT" \/ tokens.arg # r
    BY <2>1, <2>3 DEF EnEspera
  <2> QED
    BY <2>2, <2>3
<1>10. CASE InterrSignalDespierta
  BY <1>1, <1>10, <1>t DEF InterrSignalDespierta
<1>11. CASE InterrSignalSaca
  <2>1. /\ pc["interr"] = "sig_saca" /\ pc'["interr"] = "sig_pone"
        /\ colas[tokens.arg] # << >>
        /\ colas' = [colas EXCEPT ![tokens.arg] = Tail(@)]
    BY <1>11, <1>t DEF InterrSignalSaca, Saca
  <2>2. CASE tokens.arg = r
    <3>1. recursos[r] >= 0
      BY <2>1, <2>2 DEF LibrosAlDia, ValorVigente
    <3>2. colas'[r] = Tail(colas[r]) /\ colas[r] \in Seq(Pids) /\ colas[r] # << >>
      BY <1>t, <2>1, <2>2 DEF SchedulerTypeOK
    <3>3. \A q \in Pids : Contains(colas'[r], q) => Contains(colas[r], q)
      BY <1>t, <3>2, TailLista DEF Ubicacion, SinRepetidos
    <3> QED
      BY <2>1, <3>1, <3>3 DEF EnEspera
  <2>3. CASE tokens.arg # r
    <3>1. colas'[r] = colas[r]
      BY <1>t, <2>1, <2>3
    <3> QED
      BY <1>1, <2>1, <3>1
  <2> QED
    BY <2>2, <2>3
<1> QED
  BY <1>2, <1>3, <1>4, <1>5, <1>6, <1>7, <1>8, <1>9, <1>10, <1>11
     DEF InterrAparte

LEMMA AparteReparto ==
  ASSUME Inductivo, Inductivo', Ubicacion, Enlace, LibrosAlDia,
         IsFiniteSet(Interfaz), NEW r \in Recurso, RepartoDe(r), InterrAparte
  PROVE  RepartoDe(r)'
<1>t. RecursosTypeOK /\ RecursosTypeOK'
  BY DEF Inductivo, TypeOK
<1>1. /\ UNCHANGED recVars
      /\ pc["interr"] \notin Liberando \cup {"carga", "guarda"}
      /\ pc'["interr"] \notin Liberando \cup {"carga", "guarda"}
  BY InterrAparteQuieto
<1>2. \A q \in Pids : asignados'[q][r] = asignados[q][r]
  BY <1>1
<1>3. SignalAjeno(r)' => SignalAjeno(r)
  BY AparteSignal
<1>4. /\ Sueltas(r)' = Sueltas(r) /\ Sueltas(r) = recursos[r]
      /\ Sueltas(r) \in Int
  <2>1. EnTramite(r) = 0 /\ EnTramite(r)' = 0
    BY <1>1 DEF EnTramite
  <2>2. liberando["interr"][r] = 0
    BY <1>1 DEF LibrosAlDia, PorLiberar, Liberando
  <2>3. Sueltas(r) \in Int /\ recursos[r] \in Int
    BY <1>t, SueltasTipo DEF RecursosTypeOK
  <2> QED
    BY <1>1, <2>1, <2>2, <2>3 DEF Sueltas
<1>5. CASE \A q \in Pids : EnEspera(q, r)' <=> EnEspera(q, r)
  BY <1>t, <1>2, <1>3, <1>4, <1>5, RepartoQuieto
<1>6. CASE recursos[r] >= 0 /\ \A q \in Pids : EnEspera(q, r)' => EnEspera(q, r)
  BY <1>t, <1>2, <1>3, <1>4, <1>6, RepartoTermina
<1> QED
  BY <1>5, <1>6, ApartePide

\* WAIT: the process asks for one more, and the counter is lowered for it.
\* SIGNAL: it gives one back, unless it had none.
LEMMA AsignaReparto ==
  ASSUME Inductivo, Inductivo', Ubicacion, LibrosAlDia,
         IsFiniteSet(Interfaz), NEW r \in Recurso, RepartoDe(r), InterrAsigna
  PROVE  RepartoDe(r)'
<1>t. /\ RecursosTypeOK /\ RecursosTypeOK' /\ pc \in [Hilos -> Etiquetas]
      /\ "interr" \in Hilos
  <2>1. RecursosTypeOK'
    BY DEF Inductivo, TypeOK
  <2> QED
    BY <2>1, TiposDeRecursos
<1>0. proceso_ejecutando \in Pids /\ tokens.arg \in Recurso
  <2>1. proceso_ejecutando # Nadie /\ tokens.arg \in Recurso
    BY DEF InterrAsigna, Inductivo, ContextoPropio, AntesDeSacar,
       ArgumentoValido
  <2> QED
    BY <2>1, TiposDeRecursos DEF SchedulerTypeOK
<1> PICK p \in Pids : p = proceso_ejecutando
  BY <1>0
<1> PICK a \in Recurso : a = tokens.arg
  BY <1>0
<1>q. /\ UNCHANGED << recursos, liberando, tokens, colas, mano,
                      proceso_ejecutando, recibidos >>
      /\ pc["interr"] = "asigna"
  BY DEF InterrAsigna, AsignarRecursoAProceso, LiberarRecursoDeProceso
<1>r. /\ Len(recibidos) = 0 /\ ~ Contains(colas[r], p)
      /\ EnTramite(r) = 0
  <2>1. HandlerConTurno
    BY <1>q DEF HandlerConTurno
  <2>2. recibidos = << >>
    BY <2>1, TurnoDelHandler
  <2> QED
    BY <1>q, <2>2, SoloEnExec DEF EnTramite
<1>1. CASE pc'["interr"] = "carga"
  <2> DEFINE d == IF tokens.op = "WAIT" THEN 1 ELSE -1
             s == Uno(SignalAjeno(r))
             ss == Uno(SignalAjeno(r))'
  <2>0. tokens.op = "WAIT" \/ tokens.op = "SIGNAL"
    BY DEF InterrAsigna
  <2>1. /\ \A q \in Pids \ {p} : asignados'[q] = asignados[q]
        /\ asignados'[p][r] = asignados[p][r] + (IF r = a THEN d ELSE 0)
        /\ asignados[p][r] \in Int
    <3>1. p \notin con_recursos => asignados[p] = SinAsignar
      BY DEF LibrosAlDia, NadaSinDiccionario
    <3>3. CASE tokens.op = "WAIT"
      <4>1. asignados' = [asignados EXCEPT ![p] = [asignados[p] EXCEPT ![a] = @ + 1]]
        BY <3>1, <3>3, <1>1 DEF InterrAsigna, AsignarRecursoAProceso
      <4> QED
        BY <3>3, <4>1, <1>t DEF RecursosTypeOK
    <3>4. CASE tokens.op = "SIGNAL"
      <4>1. asignados' = [asignados EXCEPT ![p][a] = @ - 1]
        BY <3>4, <1>1, <1>t DEF InterrAsigna, LiberarRecursoDeProceso
      <4> QED
        BY <3>4, <4>1, <1>t DEF RecursosTypeOK
    <3> QED
      BY <2>0, <3>3, <3>4
  <2>2. \A q \in Pids \ {p} : /\ asignados'[q][r] = asignados[q][r]
                              /\ EnEspera(q, r)' <=> EnEspera(q, r)
    BY <1>q, <1>1, <2>1 DEF EnEspera
  <2>3. ~ EnEspera(p, r) /\ (EnEspera(p, r)' <=> r = a /\ tokens.op = "WAIT")
    BY <1>q, <1>r, <1>1, SoloEnExec DEF EnEspera
  <2>4. ~ SignalAjeno(r)'
    BY <1>1, <1>q, <1>r DEF SignalAjeno
  <2>5. SignalAjeno(r) <=> /\ r = a /\ tokens.op = "SIGNAL"
                           /\ asignados[p][r] <= 0
    BY <1>q, <1>r DEF SignalAjeno
  <2>6. Sueltas(r)' = Sueltas(r) - (IF r = a THEN d ELSE 0) /\ Sueltas(r) \in Int
    <3>1. EnTramite(r)' = (IF r = a THEN -d ELSE 0)
      BY <1>1, <1>q DEF EnTramite
    <3>2. recursos[r] \in Int /\ liberando["interr"][r] \in Int /\ d \in Int
      BY <1>t DEF RecursosTypeOK
    <3> HIDE DEF d
    <3>3. /\ Sueltas(r) = recursos[r] + liberando["interr"][r]
          /\ Sueltas(r)' = recursos[r] + liberando["interr"][r]
                              + (IF r = a THEN -d ELSE 0)
      BY <1>q, <1>r, <3>1, <3>2 DEF Sueltas
    <3> QED
      BY <3>2, <3>3
  <2>7. /\ Tiene(p, r) = IF asignados[p][r] > 0 THEN asignados[p][r] ELSE 0
        /\ Pretende(p, r) = Tiene(p, r)
    BY <1>t, <2>3, TieneTipo
  <2>8. /\ r = a /\ tokens.op = "WAIT" =>
              /\ Pretende(p, r)' = Tiene(p, r)' + 1
              /\ Tiene(p, r)' = IF asignados'[p][r] > 0
                                THEN asignados'[p][r] - 1 ELSE 0
        /\ ~ (r = a /\ tokens.op = "WAIT") =>
              /\ Pretende(p, r)' = Tiene(p, r)'
              /\ Tiene(p, r)' = IF asignados'[p][r] > 0
                                THEN asignados'[p][r] ELSE 0
    BY <1>t, <2>3, TieneLuego
  <2>9. ss = 0 /\ s = IF r = a /\ tokens.op = "SIGNAL" /\ asignados[p][r] <= 0
                      THEN 1 ELSE 0
    BY <2>4, <2>5 DEF Uno
  <2> HIDE DEF s, ss
  <2>10. /\ Tiene(p, r)' + ss <= Tiene(p, r) + s
         /\ Pretende(p, r)' + ss + Sueltas(r)' <= Pretende(p, r) + s + Sueltas(r)
    <3>1. CASE r # a
      BY <2>1, <2>6, <2>7, <2>8, <2>9, <3>1
    <3>2. CASE r = a /\ tokens.op = "WAIT"
      BY <2>1, <2>6, <2>7, <2>8, <2>9, <3>2
    <3>3. CASE r = a /\ tokens.op = "SIGNAL"
      BY <2>1, <2>6, <2>7, <2>8, <2>9, <3>3
    <3> QED
      BY <2>0, <3>1, <3>2, <3>3
  <2> QED
    BY <1>t, <2>2, <2>10, RepartoPunto DEF s, ss
<1>2. CASE pc'["interr"] # "carga"
  <2>1. UNCHANGED << pc, asignados >>
    BY <1>2, <1>t DEF InterrAsigna
  <2>2. \A q \in Pids : /\ asignados'[q][r] = asignados[q][r]
                        /\ EnEspera(q, r)' <=> EnEspera(q, r)
    BY <1>q, <2>1 DEF EnEspera
  <2>3. SignalAjeno(r)' => SignalAjeno(r)
    BY <1>q, <2>1 DEF SignalAjeno
  <2>4. Sueltas(r)' = Sueltas(r) /\ Sueltas(r) \in Int
    BY <1>q, <1>t, <2>1, SueltasTipo DEF Sueltas, EnTramite
  <2> QED
    BY <1>t, <2>2, <2>3, <2>4, RepartoQuieto
<1> QED
  BY <1>1, <1>2

\* The load and the store.
LEMMA CargaGuardaReparto ==
  ASSUME Inductivo, Inductivo', LibrosAlDia,
         IsFiniteSet(Interfaz), NEW r \in Recurso, RepartoDe(r),
         InterrCarga \/ InterrGuarda
  PROVE  RepartoDe(r)'
<1>t. /\ RecursosTypeOK /\ RecursosTypeOK' /\ pc \in [Hilos -> Etiquetas]
      /\ "interr" \in Hilos
  <2>1. RecursosTypeOK'
    BY DEF Inductivo, TypeOK
  <2> QED
    BY <2>1, TiposDeRecursos
<1>1. /\ UNCHANGED << asignados, liberando, tokens, colas, mano,
                      proceso_ejecutando, recibidos >>
      /\ \/ pc["interr"] = "carga" /\ pc'["interr"] = "guarda"
         \/ pc["interr"] = "guarda" /\ pc'["interr"] = "decide"
  BY <1>t DEF InterrCarga, InterrGuarda, CargaRecurso, GuardaRecurso
<1>2. \A q \in Pids : /\ asignados'[q][r] = asignados[q][r]
                      /\ EnEspera(q, r)' <=> EnEspera(q, r)
  BY <1>1 DEF EnEspera
<1>3. SignalAjeno(r)' => SignalAjeno(r)
  BY <1>1 DEF SignalAjeno
<1>4. Sueltas(r)' = Sueltas(r) /\ Sueltas(r) \in Int
  <2>0. Sueltas(r) \in Int /\ recursos[r] \in Int /\ liberando["interr"][r] \in Int
    BY <1>t, SueltasTipo DEF RecursosTypeOK
  <2>1. CASE InterrCarga
    <3>1. /\ UNCHANGED << recursos, liberando >> /\ EnTramite(r)' = EnTramite(r)
      BY <1>1, <1>t, <2>1 DEF InterrCarga, CargaRecurso, EnTramite
    <3> QED
      BY <2>0, <3>1 DEF Sueltas
  <2>2. CASE InterrGuarda
    <3> DEFINE d == IF tokens.op = "WAIT" THEN -1 ELSE 1
               a == tokens.arg
    <3>1. /\ pc["interr"] = "guarda" /\ pc'["interr"] = "decide"
          /\ recursos' = [recursos EXCEPT ![a] = copia["interr"] + d]
      BY <1>t, <2>2 DEF InterrGuarda, GuardaRecurso
    <3>2. copia["interr"] = recursos[a] /\ a \in Recurso
      BY <3>1 DEF LibrosAlDia, ValorVigente, Inductivo, ArgumentoValido
    <3>3. recursos'[r] = recursos[r] + (IF r = a THEN d ELSE 0)
      BY <1>t, <3>1, <3>2 DEF RecursosTypeOK
    <3>4. EnTramite(r) = (IF r = a THEN d ELSE 0) /\ EnTramite(r)' = 0
      BY <3>1 DEF EnTramite
    <3> HIDE DEF d
    <3>5. d \in Int
      BY DEF d
    <3> QED
      BY <1>1, <2>0, <3>3, <3>4, <3>5 DEF Sueltas
  <2> QED
    BY <2>1, <2>2
<1> QED
  BY <1>t, <1>2, <1>3, <1>4, RepartoQuieto

\* The release of what a process had: its instances go from it to the handler
\* and from there to recursos, and the first that waits for each is let go on
\* if there is one.
LEMMA LiberaReparto ==
  ASSUME Inductivo, Inductivo', Ubicacion, LibrosAlDia,
         IsFiniteSet(Interfaz), NEW r \in Recurso, RepartoDe(r), InterrLibera
  PROVE  RepartoDe(r)'
<1> DEFINE h == "interr"
<1>t. /\ RecursosTypeOK /\ RecursosTypeOK' /\ pc \in [Hilos -> Etiquetas]
      /\ h \in Hilos /\ SchedulerTypeOK /\ Recurso \subseteq Colas
      /\ "ready" \notin Recurso
  <2>1. RecursosTypeOK'
    BY DEF Inductivo, TypeOK
  <2> QED
    BY <2>1, TiposDeRecursos
<1>1. /\ pc[h] \in Liberando \cup {"lib_dicc"}
      /\ pc'[h] \in Liberando \cup {"lib_dicc", "fin_saca"}
      /\ UNCHANGED << proceso_ejecutando, recibidos, tokens >>
  BY <1>t, LiberarQuieto DEF InterrLibera, Etiquetas, Liberando
<1>2. Len(recibidos) = 0 /\ proceso_ejecutando \in Pids
  <2>1. HandlerConTurno
    BY <1>1 DEF HandlerConTurno, Liberando
  <2>2. recibidos = << >>
    BY <2>1, TurnoDelHandler
  <2>3. proceso_ejecutando # Nadie
    BY <1>1 DEF Inductivo, ContextoPropio, AntesDeSacar, Liberando
  <2> QED
    BY <1>t, <2>2, <2>3 DEF SchedulerTypeOK
<1> PICK p \in Pids : p = proceso_ejecutando
  BY <1>2
<1>3. ~ SignalAjeno(r) /\ ~ SignalAjeno(r)'
  BY <1>1, <1>2 DEF SignalAjeno, Liberando
<1>4. \A q \in Pids : /\ EnEspera(q, r) <=> Contains(colas[r], q)
                      /\ EnEspera(q, r)' <=> Contains(colas'[r], q)
  BY <1>1 DEF EnEspera, Liberando
<1>5. EnTramite(r) = 0 /\ EnTramite(r)' = 0
  BY <1>1 DEF EnTramite, Liberando
<1>6. /\ recursos[r] \in Int /\ liberando[h][r] \in Int
      /\ recursos'[r] \in Int /\ liberando'[h][r] \in Int
      /\ Sueltas(r) = recursos[r] + liberando[h][r]
      /\ Sueltas(r)' = recursos'[r] + liberando'[h][r]
  <2>1. /\ recursos[r] \in Int /\ liberando[h][r] \in Int
        /\ recursos'[r] \in Int /\ liberando'[h][r] \in Int
    BY <1>t DEF RecursosTypeOK
  <2> QED
    BY <1>5, <2>1 DEF Sueltas
<1>7. CASE LiberarSacaDiccionario(h, p) /\ p \in con_recursos
  <2>1. /\ liberando' = [liberando EXCEPT ![h] = asignados[p]]
        /\ asignados' = [asignados EXCEPT ![p] = SinAsignar]
        /\ recursos' = recursos /\ colas' = colas
        /\ pc[h] = "lib_dicc"
    BY <1>7, <1>t DEF LiberarSacaDiccionario
  <2>2. /\ \A q \in Pids \ {p} : asignados'[q][r] = asignados[q][r]
        /\ asignados'[p][r] = 0 /\ liberando'[h][r] = asignados[p][r]
        /\ asignados[p][r] \in Int
    BY <1>t, <2>1 DEF RecursosTypeOK, SinAsignar
  <2>3. liberando[h][r] = 0
    BY <2>1 DEF LibrosAlDia, PorLiberar
  <2>4. ~ EnEspera(p, r) /\ ~ EnEspera(p, r)'
    BY <1>4, <2>1, SoloEnExec
  <2>5. /\ Tiene(p, r) = IF asignados[p][r] > 0 THEN asignados[p][r] ELSE 0
        /\ Pretende(p, r) = Tiene(p, r)
    BY <1>t, <2>4, TieneTipo
  <2>6. Tiene(p, r)' = 0 /\ Pretende(p, r)' = 0
    BY <1>t, <2>2, <2>4, TieneLuego
  <2>7. Uno(SignalAjeno(r)) = 0 /\ Uno(SignalAjeno(r))' = 0
    BY <1>3 DEF Uno
  <2>8. /\ Tiene(p, r)' + Uno(SignalAjeno(r))' <= Tiene(p, r) + Uno(SignalAjeno(r))
        /\ Pretende(p, r)' + Uno(SignalAjeno(r))' + Sueltas(r)'
              <= Pretende(p, r) + Uno(SignalAjeno(r)) + Sueltas(r)
    BY <1>6, <2>1, <2>2, <2>3, <2>5, <2>6, <2>7
  <2>9. \A q \in Pids \ {p} : /\ asignados'[q][r] = asignados[q][r]
                              /\ EnEspera(q, r)' <=> EnEspera(q, r)
    BY <1>4, <2>1, <2>2
  <2> QED
    BY <1>t, <2>8, <2>9, RepartoPunto
<1>8. CASE LiberarGuarda(h)
  <2>1. /\ UNCHANGED << asignados, colas >>
        /\ liberando' = [liberando EXCEPT ![h][Actual(h)] = 0]
        /\ recursos' = [recursos EXCEPT ![Actual(h)] =
                            copia[h] + liberando[h][Actual(h)]]
        /\ pc[h] = "lib_guarda"
    BY <1>8 DEF LiberarGuarda
  <2>2. Actual(h) \in Recurso /\ copia[h] = recursos[Actual(h)]
    <3>1. pendientes[h] # {}
      BY <1>t, <2>1 DEF Inductivo, ManoLlena
    <3>2. Actual(h) \in Recurso
      BY <1>t, <3>1, ActualPendiente
    <3> QED
      BY <2>1, <3>2 DEF LibrosAlDia, ValorVigente
  <2>3. /\ liberando'[h][r] = IF r = Actual(h) THEN 0 ELSE liberando[h][r]
        /\ recursos'[r] = recursos[r]
                            + (IF r = Actual(h) THEN liberando[h][r] ELSE 0)
    BY <1>t, <2>1, <2>2 DEF RecursosTypeOK
  <2>4. Sueltas(r)' = Sueltas(r) /\ Sueltas(r) \in Int
    BY <1>6, <2>3
  <2>5. \A q \in Pids : /\ asignados'[q][r] = asignados[q][r]
                        /\ EnEspera(q, r)' <=> EnEspera(q, r)
    BY <1>4, <2>1
  <2> QED
    BY <1>t, <1>3, <2>4, <2>5, RepartoQuieto
<1>9. CASE UNCHANGED << recursos, asignados, liberando >> /\ colas'[r] = colas[r]
  <2>1. \A q \in Pids : /\ asignados'[q][r] = asignados[q][r]
                        /\ EnEspera(q, r)' <=> EnEspera(q, r)
    BY <1>4, <1>9
  <2>2. Sueltas(r)' = Sueltas(r) /\ Sueltas(r) \in Int
    BY <1>6, <1>9
  <2> QED
    BY <1>t, <1>3, <2>1, <2>2, RepartoQuieto
<1>10. CASE LiberarSaca(h) /\ colas'[r] # colas[r]
  <2>1. /\ UNCHANGED << recursos, asignados, liberando >>
        /\ colas' = [colas EXCEPT ![Actual(h)] = Tail(@)]
        /\ colas[Actual(h)] # << >> /\ pc[h] = "lib_saca"
    BY <1>10 DEF LiberarSaca, Saca
  <2>2. r = Actual(h) /\ colas'[r] = Tail(colas[r]) /\ colas[r] \in Seq(Pids)
    BY <1>t, <1>10, <2>1 DEF SchedulerTypeOK
  <2>3. recursos[r] >= 0 /\ liberando[h][r] = 0
    BY <2>1, <2>2 DEF LibrosAlDia, ValorVigente, PorLiberar
  <2>4. \A q \in Pids : Contains(colas'[r], q) => Contains(colas[r], q)
    BY <1>t, <2>1, <2>2, TailLista DEF Ubicacion, SinRepetidos
  <2>5. \A q \in Pids : /\ asignados'[q][r] = asignados[q][r]
                        /\ EnEspera(q, r)' => EnEspera(q, r)
    BY <1>4, <2>1, <2>4
  <2>6. Sueltas(r)' = Sueltas(r) /\ Sueltas(r) >= 0
    BY <1>6, <2>1, <2>3
  <2> QED
    BY <1>t, <1>3, <2>5, <2>6, RepartoTermina
<1>11. \/ LiberarSacaDiccionario(h, p) /\ p \in con_recursos
       \/ LiberarGuarda(h)
       \/ UNCHANGED << recursos, asignados, liberando >> /\ colas'[r] = colas[r]
       \/ LiberarSaca(h) /\ colas'[r] # colas[r]
  BY <1>t DEF InterrLibera, LiberarRecursosDeProceso, LiberarSacaDiccionario,
     LiberarCarga, CargaRecurso, LiberarMira, PasaDeRecurso, LiberarSaca, Saca,
     LiberarPone, Pone, LiberarTermina, SchedulerTypeOK
<1> QED
  BY <1>7, <1>8, <1>9, <1>10, <1>11

\* Every step keeps it.
LEMMA PasoReparto ==
  ASSUME Inductivo, Inductivo', Ubicacion, Enlace, LibrosAlDia, Reparto,
         IsFiniteSet(Interfaz), Desconexiones = {}, MinAsignado >= 0,
         pc["consola"] \in SinFin, [Next]_vars
  PROVE  Reparto'
<1>1. ASSUME NEW r \in Recurso
      PROVE  RepartoDe(r)'
  <2>1. RepartoDe(r)
    BY DEF Reparto
  <2>2. CASE PasoInterr
    BY <2>1, <2>2, AparteReparto, LiberaReparto, AsignaReparto,
       CargaGuardaReparto DEF PasoInterr, Interr, InterrAparte
  <2>3. CASE ~ PasoInterr
    BY <2>1, <2>3, OtroHiloReparto
  <2> QED
    BY <2>2, <2>3
<1> QED
  BY <1>1 DEF Reparto

\* At the start nobody has anything or asks for it.
LEMMA InitReparto ==
  ASSUME Init, Inductivo, IsFiniteSet(Interfaz)
  PROVE  Reparto
<1>t. RecursosTypeOK
  BY DEF Inductivo, TypeOK
<1> SUFFICES ASSUME NEW r \in Recurso
             PROVE  RepartoDe(r)
  BY DEF Reparto
<1>1. /\ pc["interr"] = "espera" /\ proceso_ejecutando = Nadie
      /\ recursos = Instancias /\ colas[r] = << >>
      /\ liberando["interr"][r] = 0
      /\ \A p \in Pids : asignados[p][r] = 0
  BY TiposDeRecursos DEF Init, InitScheduler, InitRecursos, SinAsignar, Hilos,
     HilosFijos
<1>2. ASSUME NEW p \in Pids
      PROVE  Tiene(p, r) = 0 /\ Pretende(p, r) = 0
  <2>1. ~ EnEspera(p, r)
    BY <1>1 DEF EnEspera, Contains
  <2> QED
    BY <1>1, <1>t, <2>1, TieneTipo
<1>3. Tenidas(r) = 0 /\ Pretendidas(r) = 0
  <2> DEFINE f == [p \in Pids |-> Tiene(p, r)]
             g == [p \in Pids |-> Pretende(p, r)]
  <2>1. /\ f \in [Pids -> Int] /\ g \in [Pids -> Int]
        /\ \A p \in Pids : f[p] = 0 /\ g[p] = 0
    BY <1>2
  <2>2. Tenidas(r) = SumFunction(f) /\ Pretendidas(r) = SumFunction(g)
    BY DEF Tenidas, Pretendidas
  <2> HIDE DEF f, g
  <2> QED
    BY <2>1, <2>2, Finitos, TotalCero
<1>4. Uno(SignalAjeno(r)) = 0
  <2>1. Nadie \notin Pids
    BY DEF Nadie, Pids
  <2> QED
    BY <1>1, <2>1 DEF SignalAjeno, Uno
<1>5. Sueltas(r) = Instancias[r] /\ Instancias[r] \in Nat
  <2>1. EnTramite(r) = 0
    BY <1>1 DEF EnTramite
  <2> QED
    BY <1>1, <2>1, InstanciasDeRecurso DEF Sueltas
<1> QED
  BY <1>3, <1>4, <1>5 DEF RepartoDe

\* So that no more have one than there are.
LEMMA RepartoExcluye ==
  ASSUME Inductivo, Reparto, IsFiniteSet(Interfaz)
  PROVE  ExclusionMutua
<1>t. RecursosTypeOK
  BY DEF Inductivo, TypeOK
<1> SUFFICES ASSUME NEW r \in Recurso
             PROVE  Cardinality({ p \in Pids : asignados[p][r] > 0 /\ ~ EnEspera(p, r) })
                        <= Instancias[r]
  BY DEF ExclusionMutua
<1> DEFINE f == [p \in Pids |-> Uno(asignados[p][r] > 0 /\ ~ EnEspera(p, r))]
           g == [p \in Pids |-> Tiene(p, r)]
<1>1. f \in [Pids -> {0, 1}] /\ f \in [Pids -> Int]
  BY UnoTipo
<1>2. g \in [Pids -> Int]
  BY <1>t, TieneTipo
<1>3. \A p \in Pids : f[p] <= g[p]
  <2> TAKE p \in Pids
  <2>1. asignados[p][r] \in Int
    BY <1>t DEF RecursosTypeOK
  <2>2. Tiene(p, r) \in Nat
    BY <1>t, TieneTipo
  <2>3. asignados[p][r] > 0 /\ ~ EnEspera(p, r) => Tiene(p, r) >= 1
    BY <1>t, <2>1, TieneTipo
  <2> QED
    BY <2>2, <2>3 DEF Uno
<1>4. { p \in Pids : f[p] = 1 }
        = { p \in Pids : asignados[p][r] > 0 /\ ~ EnEspera(p, r) }
  BY DEF Uno
<1>5. SumFunction(g) + Uno(SignalAjeno(r)) <= Instancias[r]
  BY DEF Reparto, RepartoDe, Tenidas
<1> HIDE DEF f, g
<1>6. SumFunction(f) = Cardinality({ p \in Pids : f[p] = 1 })
  BY <1>1, Finitos, TotalCuenta
<1>7. SumFunction(f) <= SumFunction(g) /\ SumFunction(f) \in Int
      /\ SumFunction(g) \in Int
  BY <1>1, <1>2, <1>3, Finitos, TotalMonotona, TotalTipo
<1>8. Uno(SignalAjeno(r)) \in {0, 1} /\ Instancias[r] \in Int
  BY UnoTipo, InstanciasDeRecurso
<1>9. SumFunction(f) <= Instancias[r]
  BY <1>5, <1>7, <1>8
<1> QED
  BY <1>4, <1>6, <1>9

-----------------------------------------------------------------------------
(* The inductive invariant, and the theorems.                              *)

\* What main.c and init_* set up before the first thread runs satisfies the
\* inductive invariant: sem_dispatch has the CPU's turn, nothing is in EXEC.
LEMMA InitInductivo == Init => Inductivo
<1> SUFFICES ASSUME Init
             PROVE  Inductivo
  OBVIOUS
<1> USE DEF Init
<1>p. /\ pc["consola"] = "comando" /\ pc["largo"] = "multi"
      /\ pc["corto"] = "dispatch" /\ pc["interr"] = "espera"
      /\ \A i \in Interfaz : pc[i] = "desconectada"
  <2>1. HilosFijos \subseteq Hilos /\ Interfaz \subseteq Hilos
    BY DEF Hilos
  <2>2. \A i \in Interfaz : i \notin HilosFijos
    OBVIOUS
  <2>3. \A i \in Interfaz : pc[i] = "desconectada"
    BY <2>1, <2>2 DEF HilosFijos
  <2> QED
    BY <2>1, <2>3 DEF HilosFijos
<1>1. pc \in [Hilos -> Etiquetas]
  BY DEF Hilos, HilosFijos, Etiquetas
<1>2. SemaforosTypeOK
  <2>1. /\ sem_IO_ejecucion \in [Interfaz -> Nat]
        /\ sem_comando \in [Pausables -> Nat]
    BY DEF InitSemaforos
  <2>2. estado_planificacion_activa \in BOOLEAN /\ caido \in BOOLEAN
        /\ tiempoVRR \in BOOLEAN
    BY DEF InitSemaforos
  <2>3. /\ sem_dispatch \in Nat /\ sem_interrupcion \in Nat
        /\ sem_multiprogramacion_ready \in Nat /\ sem_hay_encolado_VRR \in Nat
        /\ cantidad_procesos_ejecutandose \in Int
        /\ grado_multiprogramacion \in Nat \ {0}
    BY ParametrosKernel DEF InitSemaforos
  <2> QED
    BY <2>1, <2>2, <2>3 DEF SemaforosTypeOK
<1>3. SchedulerTypeOK
  <2>1. << >> \in Seq(Pids) /\ "NEW" \in Estados
    BY DEF Estados
  <2> QED
    BY <2>1 DEF SchedulerTypeOK, InitScheduler
<1>4. RecursosTypeOK
  <2>1. recursos \in [Recurso -> Int]
    BY InstanciasDeRecurso DEF InitRecursos
  <2> QED
    BY <2>1 DEF RecursosTypeOK, InitRecursos, SinAsignar
<1>5. ConexionesTypeOK
  BY ProgramasPosibles DEF ConexionesTypeOK, InitConexiones
<1>6. LocalesTypeOK
  <2>1. SinTokens \in Instruccion
    BY DEF SinTokens, Instruccion, Operaciones
  <2> QED
    BY <2>1, ParametrosKernel DEF LocalesTypeOK
<1>7. ManoLlena
  BY <1>p DEF ManoLlena, Hilos, HilosFijos
<1>8. ArgumentoValido /\ IteracionValida
  BY <1>p DEF ArgumentoValido, IteracionValida
<1>9. TurnoUnico
  <2>1. sem_dispatch = 1 /\ sem_interrupcion = 0
    BY DEF InitSemaforos
  <2>2. ~ HandlerConTurno
    BY <1>p DEF HandlerConTurno
  <2> QED
    BY <1>p, <2>1, <2>2 DEF TurnoUnico, Uno
<1>10. ContextoPropio
  BY <1>p DEF ContextoPropio, AntesDeSacar, InitSemaforos, InitScheduler,
              InitConexiones
<1> QED
  BY <1>1, <1>2, <1>3, <1>4, <1>5, <1>6, <1>7, <1>8, <1>9, <1>10
     DEF Inductivo, TypeOK

\* A step that changes nothing keeps it.
LEMMA QuietoInductivo ==
  ASSUME Inductivo, UNCHANGED vars
  PROVE  Inductivo'
<1> SUFFICES ASSUME TypeOK, ManoLlena, ArgumentoValido, IteracionValida,
                    TurnoUnico, ContextoPropio
             PROVE  Inductivo'
  BY DEF Inductivo
<1> USE DEF vars
<1>1. pc' \in [Hilos -> Etiquetas] /\ SemaforosTypeOK' /\ SchedulerTypeOK'
  BY DEF TypeOK, SemaforosTypeOK, SchedulerTypeOK
<1>2. RecursosTypeOK' /\ ConexionesTypeOK' /\ LocalesTypeOK'
  BY DEF TypeOK, RecursosTypeOK, ConexionesTypeOK, LocalesTypeOK
<1>3. ManoLlena' /\ ArgumentoValido' /\ IteracionValida'
  BY DEF ManoLlena, ArgumentoValido, IteracionValida
<1>4. TurnoUnico' /\ ContextoPropio'
  BY TurnoAjeno
<1> QED
  BY <1>1, <1>2, <1>3, <1>4 DEF Inductivo, TypeOK

\* Every step of every thread, of the memory and of the CPU keeps it.
LEMMA PasoInductivo ==
  ASSUME Inductivo, [Next]_vars
  PROVE  Inductivo'
<1>1. CASE PasoLargo
  BY <1>1, LargoInductivo DEF PasoLargo
<1>2. CASE PasoCorto
  BY <1>2, CortoInductivo DEF PasoCorto
<1>3. CASE PasoInterr
  BY <1>3, InterrInductivo DEF PasoInterr
<1>4. CASE \E i \in Interfaz : PasoInterfaz(i)
  BY <1>4, InterfazInductivo DEF PasoInterfaz
<1>5. CASE PasoOrden \/ PasoConsola
  BY <1>5, ConsolaInductivo DEF PasoOrden, PasoConsola
<1>6. CASE PasoMemoria \/ PasoCPU \/ PasoOrdenPerdida
  BY <1>6, ConexionesInductivo DEF PasoMemoria, PasoCPU, PasoOrdenPerdida
<1>7. CASE Reposo \/ UNCHANGED vars
  BY <1>7, QuietoInductivo DEF Reposo
<1> QED
  BY <1>1, <1>2, <1>3, <1>4, <1>5, <1>6, <1>7 DEF Next

\* The inductive invariant holds in every reachable state of the kernel.
THEOREM SpecInductivo == Spec => []Inductivo
<1>1. Init => Inductivo
  BY InitInductivo
<1>2. Inductivo /\ [Next]_vars => Inductivo'
  BY PasoInductivo
<1> QED
  BY <1>1, <1>2, PTL DEF Spec

\* Every variable of the kernel has its type, so that no list ever holds a
\* NULL pcb and no semaphore goes below zero.
THEOREM TipoCorrecto == Spec => []TypeOK
<1>1. Inductivo => TypeOK
  BY DEF Inductivo
<1> QED
  BY <1>1, SpecInductivo, PTL

\* The CPU's turn is with exactly one of sem_dispatch, the dispatcher,
\* sem_interrupcion and the handler, for every algorithm, number of processes
\* and sequence of commands and failures: the two semaphores that
\* planificador_corto_plazo.c and manejo_interrupciones_cpu.c pass to each
\* other lose no turn and make none up.
THEOREM TurnoUnicoSiempre == Spec => []TurnoUnico
<1>1. Inductivo => TurnoUnico
  BY DEF Inductivo
<1> QED
  BY <1>1, SpecInductivo, PTL

\* The context the handler receives is that of the process in EXEC, whatever
\* the console and the interfaces do meanwhile: the assertion of
\* actualizar_contexto_ejecucion (scheduler.c:260-263) never fails.
THEOREM ContextoPropioSiempre == Spec => []ContextoPropio
<1>1. Inductivo => ContextoPropio
  BY DEF Inductivo
<1> QED
  BY <1>1, SpecInductivo, PTL

-----------------------------------------------------------------------------
(* Where the processes are.                                                *)

\* Together with the places of the processes and what ties the threads to each
\* other it is inductive, for every command.
THEOREM SpecInvariante == Spec => []Invariante
<1>1. Init => Invariante
  BY InitInductivo, InitUbicacion, InitEnlace DEF Invariante
<1>2. Invariante /\ [Next]_vars => Invariante'
  BY PasoInductivo, PasoUbicacion, PasoEnlace DEF Invariante
<1> QED
  BY <1>1, <1>2, PTL DEF Spec

\* No process is in two places, though nine threads move them with two
\* critical sections for each move and FINALIZAR_PROCESO takes them out of any
\* queue in between.
THEOREM NuncaDobleSiempre == Spec => []NuncaDoble
<1>1. Invariante => NuncaDoble
  BY UbicacionNuncaDoble DEF Invariante, Inductivo, TypeOK
<1> QED
  BY <1>1, SpecInvariante, PTL

\* No thread waits for INICIAR_PLANIFICACION once it was given
\* (consola.c:221-235): the command posts to each of them.
THEOREM NadieQuedaDetenidoSiempre == Spec => []NadieQuedaDetenido
<1>1. Invariante => NadieQuedaDetenido
  BY DEF Invariante, Enlace
<1> QED
  BY <1>1, SpecInvariante, PTL

\* At the start the console is reading and no process was created.
LEMMA InitSinFin ==
  ASSUME Init
  PROVE  pc["consola"] \in SinFin \ {"grado"} /\ TodosUbicados
<1>1. pc["consola"] = "comando"
  BY DEF Init, Hilos, HilosFijos
<1>2. Creados = {}
  BY DEF Init, Creados
<1> QED
  BY <1>1, <1>2 DEF SinFin, TodosUbicados

\* A kernel that is never told to end a process never drops one either: each
\* process that was created is in exactly one place, whatever the algorithm,
\* the resources, the interfaces that fail and the stops of the scheduling.
\* FINALIZAR_PROCESO does drop one, see the run finaliza_otro.
THEOREM UnSoloLugarSiempre ==
  ASSUME "FINALIZAR_PROCESO" \notin Comandos
  PROVE  Spec => []UnSoloLugar
<1> DEFINE J == Invariante /\ pc["consola"] \in SinFin /\ TodosUbicados
<1>1. Init => J
  BY InitInductivo, InitUbicacion, InitEnlace, InitSinFin DEF Invariante
<1>2. J /\ [Next]_vars => J'
  BY PasoInductivo, PasoUbicacion, PasoEnlace, PasoSinFin, PasoTodosUbicados
     DEF Invariante
<1>3. J => UnSoloLugar
  BY UbicadosUnSoloLugar DEF Invariante
<1> QED
  BY <1>1, <1>2, <1>3, PTL DEF Spec

-----------------------------------------------------------------------------
(* The tokens of the degree.                                               *)

\* At the start all the tokens are in the semaphore.
LEMMA InitCupos ==
  ASSUME Init
  PROVE  /\ Cupos = GradoInicial
         /\ grado_multiprogramacion = GradoInicial /\ nuevo_grado = GradoInicial
<1>1. /\ pc["largo"] = "multi" /\ pc["interr"] = "espera"
      /\ pc["consola"] = "comando"
  BY DEF Init, Hilos, HilosFijos
<1>2. /\ sem_multiprogramacion_ready = GradoInicial
      /\ cantidad_procesos_ejecutandose = 0
      /\ grado_multiprogramacion = GradoInicial /\ nuevo_grado = GradoInicial
  BY DEF Init, InitSemaforos
<1>3. ~ FinalizarCuenta /\ GradoInicial \in Nat
  BY <1>1, ParametrosKernel DEF FinalizarCuenta
<1> QED
  BY <1>1, <1>2, <1>3 DEF Cupos, Uno

\* Whatever the commands, a token that is kept back was one too many, except in
\* the two windows in which the handler and the console end a process at the
\* same time and each counts that of the other (scheduler.c:222-230,
\* manejo_interrupciones_cpu.c:379-387).
THEOREM CupoRetenidoSiempre == Spec => CupoRetenido
<1>1. Invariante /\ [Next]_vars =>
        [\/ Cupos' >= Cupos
         \/ Cupos' >= grado_multiprogramacion
         \/ En("interr", "aum_mira") /\ FinalizarCuenta
         \/ En("interr", "aum_resta") /\ FinalizarCuenta']_vars
  BY PasoCupoRetenido DEF Invariante
<1> QED
  BY <1>1, SpecInvariante, PTL DEF Spec, CupoRetenido

\* With a degree that is not changed no token is ever made up, though two
\* threads give theirs back without a lock around the check and the count.
THEOREM CupoNuncaSobraSiempre ==
  ASSUME "MULTIPROGRAMACION" \notin Comandos
  PROVE  Spec => []CupoNuncaSobra
<1> DEFINE J == Invariante /\ pc["consola"] # "grado" /\ CupoNuncaSobra
<1>1. Init => J
  BY InitInductivo, InitUbicacion, InitEnlace, InitSinFin, InitCupos,
     ParametrosKernel DEF Invariante, CupoNuncaSobra
<1>2. J /\ [Next]_vars => J'
  BY PasoInductivo, PasoUbicacion, PasoEnlace, PasoCupoNuncaSobra DEF Invariante
<1> QED
  BY <1>1, <1>2, PTL DEF Spec

\* And if the console ends no process none is lost: as many tokens as the
\* degree says, in the semaphore, with the long term scheduler and counted.
THEOREM CupoExactoSiempre ==
  ASSUME {"MULTIPROGRAMACION", "FINALIZAR_PROCESO"} \cap Comandos = {}
  PROVE  Spec => []CupoExacto
<1> DEFINE J == /\ Invariante /\ CupoExacto
                /\ pc["consola"] \in SinFin /\ pc["consola"] # "grado"
<1>1. Init => J
  BY InitInductivo, InitUbicacion, InitEnlace, InitSinFin, InitCupos
     DEF Invariante, CupoExacto
<1>2. J /\ [Next]_vars => J'
  BY PasoInductivo, PasoUbicacion, PasoEnlace, PasoSinFin, PasoCupoExacto
     DEF Invariante
<1> QED
  BY <1>1, <1>2, PTL DEF Spec

\* With a degree that is lowered while processes end there are always tokens
\* for as many as the degree says.
THEOREM CupoAlcanzaSiempre ==
  ASSUME "FINALIZAR_PROCESO" \notin Comandos,
         \A g \in Grados : Grados = {g} /\ g <= GradoInicial
  PROVE  Spec => []CupoAlcanza
<1> DEFINE J == /\ Invariante /\ CupoAlcanza /\ GradoQueBaja
                /\ pc["consola"] \in SinFin
<1>1. Init => J
  <2> SUFFICES ASSUME Init
               PROVE  J
    OBVIOUS
  <2>1. CupoAlcanza /\ GradoQueBaja
    BY InitSinFin, InitCupos, ParametrosKernel DEF CupoAlcanza, GradoQueBaja
  <2> QED
    BY <2>1, InitInductivo, InitUbicacion, InitEnlace, InitSinFin DEF Invariante
<1>2. J /\ [Next]_vars => J'
  BY PasoInductivo, PasoUbicacion, PasoEnlace, PasoSinFin, PasoCupoAlcanza
     DEF Invariante
<1> QED
  BY <1>1, <1>2, PTL DEF Spec

-----------------------------------------------------------------------------
(* The posts of the queues.                                                *)

\* Without FINALIZAR_PROCESO the semaphores of the interfaces, and in VRR that
\* of the ready queues, count what their queues hold.
LEMMA SpecColasContadas ==
  ASSUME "FINALIZAR_PROCESO" \notin Comandos
  PROVE  Spec => []ColasContadas
<1> DEFINE J == Invariante /\ pc["consola"] \in SinFin /\ ColasContadas
<1>1. Init => J
  BY InitInductivo, InitUbicacion, InitEnlace, InitSinFin, InitColasContadas
     DEF Invariante
<1>2. J /\ [Next]_vars => J'
  BY PasoInductivo, PasoUbicacion, PasoEnlace, PasoSinFin, PasoColasContadas
     DEF Invariante
<1> QED
  BY <1>1, <1>2, PTL DEF Spec

\* In VRR sem_hay_encolado_VRR is exact: with no resource to wait for, the
\* dispatcher neither sleeps while a process is ready nor pops an empty queue.
THEOREM EncoladoExactoSiempre ==
  ASSUME "FINALIZAR_PROCESO" \notin Comandos, VRR_modo, Recurso = {}
  PROVE  Spec => []EncoladoExacto
<1>1. ColasContadas => EncoladoExacto
  BY DEF ColasContadas
<1> QED
  BY <1>1, SpecColasContadas, PTL

\* sem_IO_ejecucion is exact, with any algorithm, any resources and any
\* failure: the thread of an interface that was posted finds the process that
\* asked for it at the head of its queue.
THEOREM IOExactaSiempre ==
  ASSUME "FINALIZAR_PROCESO" \notin Comandos
  PROVE  Spec => []IOExacta
<1>1. ColasContadas => IOExacta
  BY DEF ColasContadas
<1> QED
  BY <1>1, SpecColasContadas, PTL

\* Who is ready, and who the dispatcher sends to the CPU, was loaded by the
\* memory and not forgotten since, in whatever order the creations, the
\* refused paths, the ends and the failures of interfaces come.
THEOREM SoloListosCargadosSiempre ==
  ASSUME "FINALIZAR_PROCESO" \notin Comandos
  PROVE  Spec => []SoloListosCargados
<1> DEFINE J == Invariante /\ pc["consola"] \in SinFin /\ Cargados
<1>1. Init => J
  BY InitInductivo, InitUbicacion, InitEnlace, InitSinFin, InitCargados
     DEF Invariante
<1>2. J /\ [Next]_vars => J'
  BY PasoInductivo, PasoUbicacion, PasoEnlace, PasoSinFin, PasoCargados
     DEF Invariante
<1>3. J => SoloListosCargados
  BY CargadosSolo DEF Invariante
<1> QED
  BY <1>1, <1>2, <1>3, PTL DEF Spec

-----------------------------------------------------------------------------
(* Where the kernel dies.                                                  *)

\* With any programs, interfaces that fail, refused paths and stops, the kernel
\* process ends in the places CaidaConocida names and in no other: the long
\* term scheduler never pops an empty NEW, no thread of an interface looks at
\* an empty queue, the pid of a context is always the one in EXEC, who is
\* released has a dictionary unless the console is about to give it one, and
\* tokens are read after they were freed only when an interface removed the
\* instruction that its process had stored since.
THEOREM CaidaConocidaSiempre ==
  ASSUME "FINALIZAR_PROCESO" \notin Comandos
  PROVE  Spec => []CaidaConocida
<1> DEFINE J == /\ Invariante /\ pc["consola"] \in SinFin /\ ColasContadas
                /\ Cargados /\ SinCaida /\ CaidaConocida
<1>1. Init => J
  BY InitInductivo, InitUbicacion, InitEnlace, InitSinFin, InitColasContadas,
     InitCargados, InitCaida DEF Invariante
<1>2. J /\ [Next]_vars => J'
  <2> SUFFICES ASSUME J, [Next]_vars
               PROVE  J'
    OBVIOUS
  <2>1. Invariante' /\ (pc["consola"] \in SinFin)'
    BY PasoInductivo, PasoUbicacion, PasoEnlace, PasoSinFin DEF Invariante
  <2>2. ColasContadas' /\ Cargados'
    BY PasoColasContadas, PasoCargados DEF Invariante
  <2>3. SinCaida'
    BY PasoSinCaida DEF Invariante
  <2>4. CaidaConocida'
    BY PasoCaida DEF Invariante, ColasContadas, Cargados
  <2> QED
    BY <2>1, <2>2, <2>3, <2>4
<1> QED
  BY <1>1, <1>2, PTL DEF Spec

-----------------------------------------------------------------------------
(* The resources.  The instances of a dead process are given back by the thread *)
(* that ends it, and only the handler does it here: an interface that fails, or *)
(* FINALIZAR_PROCESO, has a second thread load and store the same counter.      *)

\* While only the handler ends processes, what is free, what is held, what is
\* being released and what is on its way to who was awakened always add up to
\* the same: a step changes it only where recurso_init_proceso puts a dictionary
\* over the one a pid had.
THEOREM ConservaInstanciasSiempre ==
  ASSUME IsFiniteSet(Interfaz), Desconexiones = {},
         "FINALIZAR_PROCESO" \notin Comandos
  PROVE  Spec => ConservaInstancias
<1> DEFINE J == Invariante /\ pc["consola"] \in SinFin /\ LibrosAlDia
<1>1. Init => J
  BY InitInductivo, InitUbicacion, InitEnlace, InitSinFin, InitLibros
     DEF Invariante
<1>2. J /\ [Next]_vars => J'
  BY PasoInductivo, PasoUbicacion, PasoEnlace, PasoSinFin, PasoLibros
     DEF Invariante
<1>3. J /\ [Next]_vars =>
        [PisaDiccionario \/ \A r \in Recurso : Balance(r)' = Balance(r)]_vars
  BY PasoInductivo, PasoBalance DEF Invariante
<1> QED
  BY <1>1, <1>2, <1>3, PTL DEF Spec, ConservaInstancias

\* A resource is never held by more processes than it has instances, if programs
\* signal only what they waited for: who is awakened takes the instance that the
\* SIGNAL, or the end of a process, gave back, and nobody else can have it.
THEOREM ExclusionMutuaSiempre ==
  ASSUME IsFiniteSet(Interfaz), MinAsignado >= 0, Desconexiones = {},
         "FINALIZAR_PROCESO" \notin Comandos
  PROVE  Spec => []ExclusionMutua
<1> DEFINE J == /\ Invariante /\ pc["consola"] \in SinFin
                /\ LibrosAlDia /\ Reparto
<1>1. Init => J
  BY InitInductivo, InitUbicacion, InitEnlace, InitSinFin, InitLibros,
     InitReparto DEF Invariante
<1>2. J /\ [Next]_vars => J'
  <2> SUFFICES ASSUME J, [Next]_vars
               PROVE  J'
    OBVIOUS
  <2>1. Invariante' /\ (pc["consola"] \in SinFin)'
    BY PasoInductivo, PasoUbicacion, PasoEnlace, PasoSinFin DEF Invariante
  <2>2. LibrosAlDia'
    BY PasoLibros DEF Invariante
  <2>3. Reparto'
    BY <2>1, PasoReparto DEF Invariante
  <2> QED
    BY <2>1, <2>2, <2>3
<1>3. J => ExclusionMutua
  BY RepartoExcluye DEF Invariante
<1> QED
  BY <1>1, <1>2, <1>3, PTL DEF Spec

-----------------------------------------------------------------------------
(* What the kernel implements.                                             *)

\* While no process is ended by the console and the degree is not changed, the
\* threads implement the diagram of states: each of their steps, taken in any
\* order, is a legal move of one process or none.  Processes are created and
\* admitted in the order of their pids, never more of them than the degree,
\* one is in EXEC at a time, and none leaves EXIT.
THEOREM ImplementaDiagramaSiempre ==
  ASSUME {"MULTIPROGRAMACION", "FINALIZAR_PROCESO"} \cap Comandos = {}
  PROVE  Spec => ImplementaDiagrama
<1> DEFINE J == Antes /\ pc["consola"] # "grado"
<1>1. Init => J /\ D!DiagramaInit
  <2> SUFFICES ASSUME Init
               PROVE  J /\ D!DiagramaInit
    OBVIOUS
  <2>1. Inductivo /\ Ubicacion /\ Enlace /\ Cargados
    BY InitInductivo, InitUbicacion, InitEnlace, InitCargados
  <2>2. /\ TodosUbicados /\ CupoExacto /\ grado_multiprogramacion = GradoInicial
        /\ pc["consola"] \in SinFin /\ pc["consola"] # "grado"
    BY InitSinFin, InitCupos DEF CupoExacto
  <2>3. D!DiagramaInit /\ AdmiteEnOrden /\ ActivosContados
    BY <2>1, InitDiagrama
  <2> QED
    BY <2>1, <2>2, <2>3 DEF Antes
<1>2. J /\ [Next]_vars => J' /\ [D!DiagramaNext]_EnDiagrama
  <2> SUFFICES ASSUME J, [Next]_vars
               PROVE  J' /\ [D!DiagramaNext]_EnDiagrama
    OBVIOUS
  <2>1. Inductivo' /\ Ubicacion' /\ Enlace'
    BY PasoInductivo, PasoUbicacion, PasoEnlace DEF Antes
  <2>2. (pc["consola"] \in SinFin)' /\ TodosUbicados' /\ Cargados'
    BY PasoSinFin, PasoTodosUbicados, PasoCargados DEF Antes
  <2>3. CupoExacto' /\ (pc["consola"] # "grado")'
    BY PasoCupoExacto DEF Antes
  <2>4. (grado_multiprogramacion = GradoInicial)'
    BY PasoCupos DEF Antes, GradoQuieto
  <2>5. Refina
    BY <2>1, PasoDiagrama DEF Antes
  <2> QED
    BY <2>1, <2>2, <2>3, <2>4, <2>5 DEF Antes, Refina
<1> HIDE DEF J
<1>3. [D!DiagramaNext]_EnDiagrama => [D!DiagramaNext]_([p \in Pids |-> Vida(p)])
  BY DEF EnDiagrama
<1> QED
  BY <1>1, <1>2, <1>3, PTL DEF Spec, ImplementaDiagrama, D!DiagramaSpec
=============================================================================
