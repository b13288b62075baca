--------------------------- MODULE MaquinaProofs ---------------------------
(****************************************************************************)
(* Theorems about the CPU and the memory, for any number of processes,      *)
(* sizes of the memory, of its pages and of the TLB, both replacement       *)
(* algorithms and any instructions.                                         *)
(****************************************************************************)
EXTENDS Maquina, FunctionTheorems, FiniteSetTheorems, SequenceTheorems,
        WellFoundedInduction, TLAPS

USE ParametrosMemoria, ParametrosTLB, InstruccionesPosibles, CotasMaquina

(* Numbers and lists. *)

\* What a translated address is divided by gives its frame again: physical
\* addresses of a frame are those between it and the next.
LEMMA Division ==
  ASSUME NEW m \in Nat, NEW t \in Nat \ {0}, NEW d \in 0 .. t - 1
  PROVE  (m * t + d) \div t = m /\ m * t + d \in Nat
<1>1. m * t \in Nat
  OBVIOUS
<1>2. m * t + d \in Nat
  BY <1>1
<1> DEFINE q == (m * t + d) \div t
<1>3. q \in Int /\ t * q <= m * t + d /\ m * t + d < t * q + t
  BY <1>2
<1>4. ~ (q < m)
  <2> SUFFICES ASSUME q + 1 <= m PROVE FALSE
    BY <1>3
  <2>1. t * (q + 1) <= t * m
    BY <1>3
  <2> QED
    BY <2>1, <1>3
<1>5. ~ (m < q)
  <2> SUFFICES ASSUME m + 1 <= q PROVE FALSE
    BY <1>3
  <2>1. t * (m + 1) <= t * q
    BY <1>3
  <2> QED
    BY <2>1, <1>3
<1> QED
  BY <1>2, <1>3, <1>4, <1>5

\* Page and offset of an address.
LEMMA Cociente ==
  ASSUME NEW a \in Nat, NEW t \in Nat \ {0}
  PROVE  a \div t \in Nat /\ a % t \in 0 .. t - 1
<1>1. a \div t \in Nat
  OBVIOUS
<1>2. a % t \in 0 .. t - 1
  OBVIOUS
<1> QED
  BY <1>1, <1>2

\* The memory has a bit at least.
LEMMA HayMarcos == max_bit \in Nat \ {0} /\ 0 \in Marcos
<1>1. paginas_totales \in Nat
  BY DEF paginas_totales
<1>2. paginas_totales \div CharBit \in Nat
  BY <1>1
<1>3. bitarray_size \in Nat \ {0}
  BY <1>2 DEF bitarray_size
<1>4. max_bit \in Nat \ {0}
  BY <1>3 DEF max_bit
<1> QED
  BY <1>4 DEF Marcos

\* A set of naturals that is not empty has a least element.
LEMMA HayMenor ==
  ASSUME NEW S, S \subseteq Nat, S # {}
  PROVE  \E x \in S : \A y \in S : x <= y
<1>1. PICK x \in S : \A y \in S : ~ (<< y, x >> \in OpToRel(<, Nat))
  BY WFMin, NatLessThanWellFounded
<1>2. \A y \in S : ~ (y < x)
  BY <1>1 DEF OpToRel
<1> QED
  BY <1>2

\* The empty list.
LEMMA SinElementos ==
  ASSUME NEW S, NEW s \in Seq(S), Len(s) = 0
  PROVE  s = << >>
OBVIOUS

\* The beginning of a list.
LEMMA Prefijo ==
  ASSUME NEW S, NEW s \in Seq(S), NEW n \in 0 .. Len(s)
  PROVE  /\ SubSeq(s, 1, n) \in Seq(S) /\ Len(SubSeq(s, 1, n)) = n
         /\ \A k \in 1 .. n : SubSeq(s, 1, n)[k] = s[k]
<1>1. n \in Int /\ \A k \in 1 .. n : s[k] \in S
  OBVIOUS
<1> QED
  BY <1>1, SubSeqProperties

\* list_remove.
LEMMA QuitaElemento ==
  ASSUME NEW S, NEW s \in Seq(S), NEW i \in 1 .. Len(s)
  PROVE  /\ RemoveAt(s, i) \in Seq(S)
         /\ Len(RemoveAt(s, i)) = Len(s) - 1
         /\ \A k \in 1 .. Len(s) - 1 :
               RemoveAt(s, i)[k] = IF k < i THEN s[k] ELSE s[k + 1]
<1> DEFINE a == SubSeq(s, 1, i - 1)
           b == SubSeq(s, i + 1, Len(s))
<1>1. Len(s) \in Nat /\ \A k \in 1 .. Len(s) : s[k] \in S
  OBVIOUS
<1>2. /\ a \in Seq(S) /\ Len(a) = i - 1
      /\ \A k \in 1 .. i - 1 : a[k] = s[k]
  BY <1>1, SubSeqProperties
<1>3. /\ b \in Seq(S) /\ Len(b) = Len(s) - i
      /\ \A k \in 1 .. Len(s) - i : b[k] = s[k + i]
  BY <1>1, SubSeqProperties
<1> HIDE DEF a, b
<1>a. Len(a) + Len(b) = Len(s) - 1
  BY <1>1, <1>2, <1>3
<1>b. /\ a \o b \in Seq(S) /\ Len(a \o b) = Len(a) + Len(b)
      /\ \A k \in 1 .. Len(a) + Len(b) :
            (a \o b)[k] = IF k <= Len(a) THEN a[k] ELSE b[k - Len(a)]
  <2>1. a \in Seq(S) /\ b \in Seq(S)
    BY <1>2, <1>3
  <2> QED
    BY <2>1, ConcatProperties
<1>4. /\ a \o b \in Seq(S) /\ Len(a \o b) = Len(s) - 1
      /\ \A k \in 1 .. Len(s) - 1 :
            (a \o b)[k] = IF k <= i - 1 THEN a[k] ELSE b[k - (i - 1)]
  BY <1>a, <1>b, <1>2
<1>5. ASSUME NEW k \in 1 .. Len(s) - 1
      PROVE  (a \o b)[k] = IF k < i THEN s[k] ELSE s[k + 1]
  <2>1. CASE k < i
    BY <2>1, <1>1, <1>2, <1>4
  <2>2. CASE ~ (k < i)
    <3>1. k - (i - 1) \in 1 .. Len(s) - i /\ (k - (i - 1)) + i = k + 1
      BY <2>2, <1>1
    <3> QED
      BY <3>1, <2>2, <1>1, <1>3, <1>4
  <2> QED
    BY <2>1, <2>2
<1>6. RemoveAt(s, i) = a \o b
  BY DEF RemoveAt, a, b
<1> QED
  BY <1>4, <1>5, <1>6

\* Taking the last element of a list.
LEMMA FrenteLista ==
  ASSUME NEW S, NEW s \in Seq(S), s # << >>
  PROVE  /\ Front(s) \in Seq(S) /\ Last(s) \in S
         /\ Len(Front(s)) = Len(s) - 1
         /\ \A k \in 1 .. Len(s) - 1 : Front(s)[k] = s[k]
<1>1. Len(s) \in Nat \ {0} /\ \A k \in 1 .. Len(s) : s[k] \in S
  OBVIOUS
<1> DEFINE n == Len(s) - 1
<1>2. n \in 0 .. Len(s)
  BY <1>1
<1> HIDE DEF n
<1>3. /\ SubSeq(s, 1, n) \in Seq(S) /\ Len(SubSeq(s, 1, n)) = n
      /\ \A k \in 1 .. n : SubSeq(s, 1, n)[k] = s[k]
  BY <1>2, Prefijo
<1>4. Front(s) = SubSeq(s, 1, n) /\ n = Len(s) - 1
  BY DEF Front, n
<1>5. Last(s) \in S
  BY <1>1 DEF Last
<1> QED
  BY <1>3, <1>4, <1>5

-----------------------------------------------------------------------------
(* The TLB. *)

\* list_find and list_get_minimum find what they look for: the entry that
\* matches is one, since no page is twice in the list, and there is a last
\* one among the oldest.
LEMMA BuscadaEnLista ==
  ASSUME NEW p, NEW n, tlb \in Seq(Entrada), TLBSinRepetidos, TLB_HIT(p, n)
  PROVE  Buscada(p, n) \in 1 .. Len(tlb) /\ Coincide(tlb[Buscada(p, n)], p, n)
<1>1. PICK k \in 1 .. Len(tlb) : Coincide(tlb[k], p, n)
  BY DEF TLB_HIT
<1>2. \A j \in 1 .. k - 1 : ~ Coincide(tlb[j], p, n)
  <2> SUFFICES ASSUME NEW j \in 1 .. k - 1, Coincide(tlb[j], p, n) PROVE FALSE
    OBVIOUS
  <2>1. Len(tlb) \in Nat
    OBVIOUS
  <2>2. j \in 1 .. Len(tlb) /\ j # k
    BY <2>1
  <2>3. Coincide(tlb[j], tlb[k].pid, tlb[k].pagina)
    BY <1>1 DEF Coincide
  <2> QED
    BY <2>2, <2>3 DEF TLBSinRepetidos
<1> QED
  BY <1>1, <1>2 DEF Buscada

LEMMA VictimaEnLista ==
  ASSUME tlb \in Seq(Entrada), tlb # << >>
  PROVE  Victima \in 1 .. Len(tlb)
<1>1. Len(tlb) \in Nat \ {0}
  OBVIOUS
<1>2. \A k \in 1 .. Len(tlb) : tlb[k].last_access \in Nat
  <2>1. \A k \in 1 .. Len(tlb) : tlb[k] \in Entrada
    OBVIOUS
  <2> QED
    BY <2>1 DEF Entrada
<1> DEFINE S == { tlb[k].last_access : k \in 1 .. Len(tlb) }
<1>3. PICK x \in S : \A y \in S : x <= y
  <2>1. S \subseteq Nat /\ S # {}
    BY <1>1, <1>2
  <2> QED
    BY <2>1, HayMenor
<1> DEFINE R == { Len(tlb) - k : k \in { j \in 1 .. Len(tlb) : tlb[j].last_access = x } }
<1>4. PICK y \in R : \A z \in R : y <= z
  <2>1. R \subseteq Nat /\ R # {}
    BY <1>1, <1>3
  <2> QED
    BY <2>1, HayMenor
<1>5. PICK k \in 1 .. Len(tlb) : tlb[k].last_access = x /\ y = Len(tlb) - k
  BY <1>4
<1>6. \A j \in 1 .. Len(tlb) : tlb[k].last_access <= tlb[j].last_access
  BY <1>3, <1>5
<1>7. ASSUME NEW j \in k + 1 .. Len(tlb)
      PROVE  tlb[k].last_access < tlb[j].last_access
  <2>1. j \in 1 .. Len(tlb)
    BY <1>1
  <2>2. CASE tlb[j].last_access = x
    <3>1. Len(tlb) - j \in R
      BY <2>1, <2>2
    <3>2. Len(tlb) - k <= Len(tlb) - j
      BY <3>1, <1>4, <1>5
    <3>3. j > k /\ j \in Nat /\ k \in Nat
      BY <1>1
    <3> QED
      BY <3>2, <3>3, <1>1
  <2> QED
    BY <2>1, <2>2, <1>2, <1>5, <1>6
<1>8. MenosReciente \in 1 .. Len(tlb)
  BY <1>6, <1>7 DEF MenosReciente
<1> QED
  BY <1>1, <1>8 DEF Victima

-----------------------------------------------------------------------------
(* The translations. *)

USE DEF bitVars, confVars, memoriaVars, mmuVars, cicloVars, socketVars, cpuVars,
        finVars, nucleoVars, MenosPedidos, MenosConfirmaciones, PasaA

\* An entry without its time.
Datos(e) == << e.pid, e.pagina, e.marco >>

\* The list after an entry was used: only its time is another.
LEMMA UsaEntrada ==
  ASSUME NEW b \in 1 .. Len(tlb), NEW t \in Nat, tlb \in Seq(Entrada)
  PROVE  LET nueva == [tlb EXCEPT ![b].last_access = t]
         IN  /\ nueva \in Seq(Entrada) /\ Len(nueva) = Len(tlb)
             /\ \A k \in 1 .. Len(tlb) : Datos(nueva[k]) = Datos(tlb[k])
<1> DEFINE e == [tlb[b] EXCEPT !.last_access = t]
           nueva == [tlb EXCEPT ![b] = e]
<1>1. tlb[b] \in Entrada
  OBVIOUS
<1>2. e \in Entrada /\ Datos(e) = Datos(tlb[b])
  BY <1>1 DEF Entrada, Datos
<1> HIDE DEF e
<1>3. /\ nueva \in Seq(Entrada) /\ Len(nueva) = Len(tlb)
      /\ \A k \in 1 .. Len(tlb) : nueva[k] = IF k = b THEN e ELSE tlb[k]
  BY <1>2, ExceptSeq
<1>4. nueva = [tlb EXCEPT ![b].last_access = t]
  BY DEF e
<1> HIDE DEF nueva
<1> QED
  BY <1>2, <1>3, <1>4

\* The list with room for an entry has no more than it may, less one, and
\* no page twice; all it has was there.
LEMMA HaceLugar ==
  ASSUME tlb \in Seq(Entrada), cantidad_entradas # 0, TLBSinRepetidos,
         NEW resto,
         resto = IF Len(tlb) >= cantidad_entradas THEN RemoveAt(tlb, Victima) ELSE tlb
  PROVE  /\ resto \in Seq(Entrada) /\ Len(resto) < cantidad_entradas
         /\ \A k \in 1 .. Len(resto) : \E j \in 1 .. Len(tlb) : resto[k] = tlb[j]
         /\ \A j, k \in 1 .. Len(resto) :
               Coincide(resto[j], resto[k].pid, resto[k].pagina) => j = k
<1>1. Len(tlb) \in Nat /\ cantidad_entradas \in Nat \ {0} /\ Len(tlb) <= cantidad_entradas
  BY DEF TLBSinRepetidos
<1>2. \A j, k \in 1 .. Len(tlb) : Coincide(tlb[j], tlb[k].pid, tlb[k].pagina) => j = k
  BY DEF TLBSinRepetidos
<1>3. CASE ~ (Len(tlb) >= cantidad_entradas)
  BY <1>1, <1>2, <1>3
<1>4. CASE Len(tlb) >= cantidad_entradas
  <2> DEFINE v == Victima
             va(k) == IF k < v THEN k ELSE k + 1
  <2>1. v \in 1 .. Len(tlb)
    BY <1>1, <1>4, VictimaEnLista
  <2> HIDE DEF v
  <2>2. resto = RemoveAt(tlb, v)
    BY <1>4 DEF v
  <2>3. /\ resto \in Seq(Entrada) /\ Len(resto) = Len(tlb) - 1
        /\ \A k \in 1 .. Len(tlb) - 1 : resto[k] = IF k < v THEN tlb[k] ELSE tlb[k + 1]
    BY <2>1, <2>2, QuitaElemento
  <2>4. \A k \in 1 .. Len(resto) : va(k) \in 1 .. Len(tlb) /\ resto[k] = tlb[va(k)]
    BY <2>3, <2>1, <1>1
  <2>5. \A j, k \in 1 .. Len(resto) : va(j) = va(k) => j = k
    BY <2>1
  <2> HIDE DEF va
  <2>6. \A j, k \in 1 .. Len(resto) :
            Coincide(resto[j], resto[k].pid, resto[k].pagina) => j = k
    BY <2>4, <2>5, <1>2
  <2> QED
    BY <2>3, <2>4, <2>6, <1>1, <1>4
<1> QED
  BY <1>3, <1>4

\* What a translation leaves in the TLB: the list it was, with another time or
\* without an entry, and the page that was looked for.
LEMMA EfectoTLB ==
  ASSUME NEW p \in Proceso, NEW n \in Nat, tlb \in Seq(Entrada),
         reloj \in 0 .. MaxReloj, TLBSinRepetidos,
         acceder_marco(p, n) \in Marcos \cup {SinMarco}, ActualizaTLB(p, n)
  PROVE  /\ tlb' \in Seq(Entrada) /\ reloj' \in 0 .. MaxReloj
         /\ \A k \in 1 .. Len(tlb') :
               \/ \E j \in 1 .. Len(tlb) : Datos(tlb'[k]) = Datos(tlb[j])
               \/ /\ Datos(tlb'[k]) = << p, n, acceder_marco(p, n) >>
                  /\ acceder_marco(p, n) # SinMarco
         /\ TLBSinRepetidos'
<1>1. CASE UNCHANGED mmuVars
  BY <1>1 DEF TLBSinRepetidos, Coincide
<1>a. Len(tlb) \in Nat /\ \A k \in 1 .. Len(tlb) : tlb[k] \in Entrada
  OBVIOUS
<1>2. CASE cantidad_entradas # 0 /\ LeeReloj /\ TLB_HIT(p, n) /\ obtenerMarcoTLB(p, n)
  <2>1. reloj' \in Nat /\ reloj' \in 0 .. MaxReloj
    BY <1>2 DEF LeeReloj
  <2>2. Buscada(p, n) \in 1 .. Len(tlb)
    BY <1>2, BuscadaEnLista
  <2>3. /\ tlb' \in Seq(Entrada) /\ Len(tlb') = Len(tlb)
        /\ \A k \in 1 .. Len(tlb) : Datos(tlb'[k]) = Datos(tlb[k])
    BY <1>2, <2>1, <2>2, UsaEntrada DEF obtenerMarcoTLB
  <2>4. TLBSinRepetidos'
    BY <2>3 DEF TLBSinRepetidos, Coincide, Datos
  <2> QED
    BY <2>1, <2>3, <2>4
<1>3. CASE /\ cantidad_entradas # 0 /\ LeeReloj /\ ~ TLB_HIT(p, n)
           /\ Marco(p, n) # SinMarco /\ agregarEntradaTLB(p, n, Marco(p, n))
  <2>1. reloj' \in Nat /\ reloj' \in 0 .. MaxReloj
    BY <1>3 DEF LeeReloj
  <2>2. Marco(p, n) = acceder_marco(p, n) /\ Marco(p, n) \in Marcos
    BY <1>3 DEF Marco
  <2> DEFINE resto == IF Len(tlb) >= cantidad_entradas THEN RemoveAt(tlb, Victima)
                      ELSE tlb
             e == [pid |-> p, pagina |-> n, marco |-> Marco(p, n), last_access |-> reloj']
  <2>3. tlb' = Append(resto, e)
    BY <1>3 DEF agregarEntradaTLB
  <2>4. e \in Entrada /\ Datos(e) = << p, n, acceder_marco(p, n) >>
    BY <2>1, <2>2 DEF Entrada, Datos
  <2>b. e.pid = p /\ e.pagina = n
    OBVIOUS
  <2> HIDE DEF e
  <2>5. /\ resto \in Seq(Entrada) /\ Len(resto) < cantidad_entradas
        /\ \A k \in 1 .. Len(resto) : \E j \in 1 .. Len(tlb) : resto[k] = tlb[j]
        /\ \A j, k \in 1 .. Len(resto) :
              Coincide(resto[j], resto[k].pid, resto[k].pagina) => j = k
    BY <1>3, HaceLugar
  <2> HIDE DEF resto
  <2>6. /\ tlb' \in Seq(Entrada) /\ Len(tlb') = Len(resto) + 1
        /\ \A k \in 1 .. Len(resto) : tlb'[k] = resto[k]
        /\ tlb'[Len(resto) + 1] = e
    BY <2>3, <2>4, <2>5, AppendProperties
  <2>7. Len(resto) \in Nat
    BY <2>5
  <2>8. \A k \in 1 .. Len(resto) : ~ Coincide(resto[k], p, n)
    BY <1>3, <2>5 DEF TLB_HIT
  <2>9. ASSUME NEW j \in 1 .. Len(tlb'), NEW k \in 1 .. Len(tlb'),
               Coincide(tlb'[j], tlb'[k].pid, tlb'[k].pagina)
        PROVE  j = k
    <3>1. \A i \in 1 .. Len(tlb') : i \in 1 .. Len(resto) \/ i = Len(resto) + 1
      BY <2>6, <2>7
    <3>2. CASE j = Len(resto) + 1 /\ k # j
      <4>1. Coincide(resto[k], p, n)
        BY <3>1, <3>2, <2>6, <2>9, <2>b DEF Coincide
      <4> QED
        BY <4>1, <3>1, <3>2, <2>8
    <3>3. CASE k = Len(resto) + 1 /\ j # k
      <4>1. Coincide(resto[j], p, n)
        BY <3>1, <3>3, <2>6, <2>9, <2>b DEF Coincide
      <4> QED
        BY <4>1, <3>1, <3>3, <2>8
    <3>4. CASE j \in 1 .. Len(resto) /\ k \in 1 .. Len(resto)
      BY <3>4, <2>5, <2>6, <2>9
    <3> QED
      BY <3>1, <3>2, <3>3, <3>4
  <2>10. TLBSinRepetidos'
    <3>1. Len(tlb') <= cantidad_entradas
      BY <2>5, <2>6, <2>7
    <3> QED
      BY <3>1, <2>9 DEF TLBSinRepetidos, Coincide
  <2>11. ASSUME NEW k \in 1 .. Len(tlb')
         PROVE  \/ \E j \in 1 .. Len(tlb) : Datos(tlb'[k]) = Datos(tlb[j])
                \/ /\ Datos(tlb'[k]) = << p, n, acceder_marco(p, n) >>
                   /\ acceder_marco(p, n) # SinMarco
    <3>1. k \in 1 .. Len(resto) \/ k = Len(resto) + 1
      BY <2>6, <2>7
    <3> QED
      BY <3>1, <2>4, <2>5, <2>6, <2>2, <1>3
  <2> QED
    BY <2>1, <2>6, <2>10, <2>11
<1> QED
  BY <1>1, <1>2, <1>3 DEF ActualizaTLB

\* A page has a frame or the memory says that it does not, and what the TLB
\* says is a frame.
LEMMA MarcoDePagina ==
  ASSUME NEW p \in Proceso, NEW n \in Nat, paginas \in [Proceso -> Seq(Marcos)],
         tlb \in Seq(Entrada), TLBSinRepetidos
  PROVE  /\ acceder_marco(p, n) \in Marcos \cup {SinMarco}
         /\ acceder_marco(p, n) = SinMarco <=> n >= Len(paginas[p])
         /\ Marco(p, n) \in Marcos \cup {SinMarco}
         /\ \/ Marco(p, n) = acceder_marco(p, n)
            \/ /\ TLB_HIT(p, n) /\ Marco(p, n) = tlb[Buscada(p, n)].marco
               /\ Marco(p, n) # SinMarco
<1>1. SinMarco \notin Marcos
  BY HayMarcos DEF SinMarco, Marcos
<1>2. paginas[p] \in Seq(Marcos) /\ Len(paginas[p]) \in Nat
  OBVIOUS
<1>3. ASSUME ~ (n >= Len(paginas[p])) PROVE paginas[p][n + 1] \in Marcos
  <2>1. n + 1 \in 1 .. Len(paginas[p])
    BY <1>2, <1>3
  <2> QED
    BY <1>2, <2>1
<1>5. /\ acceder_marco(p, n) \in Marcos \cup {SinMarco}
      /\ acceder_marco(p, n) = SinMarco <=> n >= Len(paginas[p])
  BY <1>1, <1>3 DEF acceder_marco
<1>6. CASE cantidad_entradas > 0 /\ TLB_HIT(p, n)
  <2>1. Buscada(p, n) \in 1 .. Len(tlb)
    BY <1>6, BuscadaEnLista
  <2>2. tlb[Buscada(p, n)] \in Entrada
    BY <2>1
  <2> QED
    BY <1>1, <1>5, <1>6, <2>2 DEF Marco, Entrada
<1> QED
  BY <1>5, <1>6 DEF Marco

\* The addresses of an instruction become addresses.
LEMMA FisicaEsDireccion ==
  ASSUME NEW p \in Proceso, NEW dir \in Nat, paginas \in [Proceso -> Seq(Marcos)],
         tlb \in Seq(Entrada), TLBSinRepetidos,
         Marco(p, Pagina(dir)) # SinMarco
  PROVE  /\ Pagina(dir) \in Nat /\ Fisica(p, dir) \in Nat
         /\ Fisica(p, dir) \div TamPagina = Marco(p, Pagina(dir))
<1>1. Pagina(dir) \in Nat /\ Desplazamiento(dir) \in 0 .. TamPagina - 1
  BY Cociente DEF Pagina, Desplazamiento
<1>2. Marco(p, Pagina(dir)) \in Nat
  BY <1>1, MarcoDePagina DEF Marcos
<1> QED
  BY <1>1, <1>2, Division DEF Fisica

-----------------------------------------------------------------------------
(* The types. *)

\* The thread that serves the kernel.
LEMMA KernelTipos ==
  ASSUME TiposMaquina, EnServicio, HiloKernel,
         redujo' = redujo, UNCHANGED << mmuVars, cpuVars, nucleoVars >>
  PROVE  TiposMaquina'
<1> USE DEF HilosMemoria, EtapasKernel, EtapasCPU
<1>1. CASE MemoriaCrea
  <2>1. Head(pedidos_kernel).pid \in Proceso /\ pedidos_kernel' \in Seq(PedidoMemoria)
    <3>1. pedidos_kernel \in Seq(PedidoMemoria) /\ pedidos_kernel # << >>
      BY <1>1 DEF MemoriaCrea, TiposMaquina
    <3>2. Head(pedidos_kernel) \in PedidoMemoria /\ Tail(pedidos_kernel) \in Seq(PedidoMemoria)
      BY <3>1
    <3> QED
      BY <3>2, <1>1 DEF MemoriaCrea, PedidoMemoria
  <2>2. /\ procesos \subseteq Proceso /\ confirmados \subseteq Proceso
        /\ paginas \in [Proceso -> Seq(Marcos)] /\ << >> \in Seq(Marcos)
    BY DEF TiposMaquina, TypeOKMaquina
  <2>3. /\ procesos' \subseteq Proceso /\ confirmados' \subseteq Proceso
        /\ paginas' \in [Proceso -> Seq(Marcos)]
        /\ confirmaciones' \in Seq(Confirmaciones)
    <3>1. /\ confirmaciones \in Seq(Confirmaciones)
          /\ "MEMORY_PROCESS_CREATE" \in Confirmaciones
          /\ "MEMORY_INVALID_PATH" \in Confirmaciones
      BY DEF TiposMaquina, Confirmaciones
    <3>2. \E x \in Confirmaciones : confirmaciones' = Append(confirmaciones, x)
      BY <3>1, <1>1 DEF MemoriaCrea
    <3>3. confirmaciones' \in Seq(Confirmaciones)
      BY <3>1, <3>2
    <3>4. \/ UNCHANGED << procesos, paginas, confirmados >>
          \/ \E p \in Proceso : /\ procesos' = procesos \cup {p}
                                /\ paginas' = [paginas EXCEPT ![p] = << >>]
                                /\ confirmados' = confirmados \cup {p}
      BY <2>1, <1>1 DEF MemoriaCrea
    <3> QED
      BY <3>3, <3>4, <2>2
  <2> QED
    BY <2>1, <2>3, <1>1 DEF MemoriaCrea, TiposMaquina, TypeOKMaquina
<1>2. CASE MemoriaTermina
  <2>1. Head(pedidos_kernel).pid \in Proceso /\ pedidos_kernel' \in Seq(PedidoMemoria)
    <3>1. pedidos_kernel \in Seq(PedidoMemoria) /\ pedidos_kernel # << >>
      BY <1>2 DEF MemoriaTermina, TiposMaquina
    <3>2. Head(pedidos_kernel) \in PedidoMemoria /\ Tail(pedidos_kernel) \in Seq(PedidoMemoria)
      BY <3>1
    <3> QED
      BY <3>2, <1>2 DEF MemoriaTermina, PedidoMemoria
  <2>2. /\ sirve' \in [HilosMemoria -> Proceso \cup {0}]
        /\ hilo' \in [HilosMemoria -> EtapasKernel \cup EtapasCPU]
        /\ hilo'["kernel"] \in EtapasKernel /\ hilo'["cpu"] \in EtapasCPU
    BY <2>1, <1>2 DEF MemoriaTermina, TiposMaquina
  <2> QED
    BY <2>1, <2>2, <1>2 DEF MemoriaTermina, TiposMaquina, TypeOKMaquina
<1>3. CASE MemoriaCargaParaLiberar
  BY <1>3 DEF MemoriaCargaParaLiberar, CargaByte, TiposMaquina, TypeOKMaquina
<1>4. CASE MemoriaLiberaPagina
  <2>1. paginas' \in [Proceso -> Seq(Marcos)]
    BY <1>4 DEF MemoriaLiberaPagina, EnServicio, TiposMaquina, TypeOKMaquina
  <2>2. frame_bitarray' \subseteq Marcos /\ pisado' \in BOOLEAN
        /\ byte' \in [HilosMemoria -> SUBSET Marcos]
    BY <1>4 DEF MemoriaLiberaPagina, Limpia, GuardaByte, TiposMaquina, TypeOKMaquina
  <2> QED
    BY <2>1, <2>2, <1>4 DEF MemoriaLiberaPagina, TiposMaquina, TypeOKMaquina
<1>5. CASE MemoriaOlvidaProceso
  BY <1>5 DEF MemoriaOlvidaProceso, TiposMaquina, TypeOKMaquina
<1> QED
  BY <1>1, <1>2, <1>3, <1>4, <1>5 DEF HiloKernel

\* The thread that serves the CPU.
LEMMA CPUTipos ==
  ASSUME TiposMaquina, EnServicio, UnTurno, HiloCPU,
         redujo' \subseteq Proceso, redujo \subseteq redujo',
         UNCHANGED << mmuVars, cpuVars, nucleoVars >>
  PROVE  TiposMaquina'
<1> USE DEF HilosMemoria, EtapasKernel, EtapasCPU
<1>b. enVuelo' \subseteq redujo'
  BY DEF TiposMaquina
<1>0. /\ hilo["cpu"] # "libre" => sirve["cpu"] \in Proceso /\ faltan > 0
      /\ faltan \in Nat /\ max_bit \in Nat
  BY HayMarcos DEF EnServicio, UnTurno, TiposMaquina, TypeOKMaquina
<1>1. CASE AsignaSaltea
  <2>1. indice' \in 0 .. max_bit
    BY <1>b, <1>0, <1>1 DEF AsignaSaltea, TiposMaquina, TypeOKMaquina, Marcos
  <2> QED
    BY <1>b, <2>1, <1>1 DEF AsignaSaltea, TiposMaquina, TypeOKMaquina
<1>2. CASE AsignaEncuentra
  <2>1. paginas' \in [Proceso -> Seq(Marcos)]
    BY <1>b, <1>0, <1>2 DEF AsignaEncuentra, TiposMaquina, TypeOKMaquina
  <2> QED
    BY <1>b, <2>1, <1>2 DEF AsignaEncuentra, CargaByte, TiposMaquina, TypeOKMaquina
<1>3. CASE AsignaMarca
  <2>1. indice \in Marcos
    BY <1>3 DEF AsignaMarca, EnServicio
  <2>2. indice' \in 0 .. max_bit /\ faltan' \in Nat
    BY <1>0, <1>3, <2>1 DEF AsignaMarca, Marcos
  <2>3. frame_bitarray' \subseteq Marcos /\ pisado' \in BOOLEAN
        /\ byte' \in [HilosMemoria -> SUBSET Marcos]
    BY <1>b, <2>1, <1>3 DEF AsignaMarca, GuardaByte, TiposMaquina, TypeOKMaquina
  <2>4. /\ respuesta' \in {"ninguna", "OK", "OUT_OF_MEMORY", "resto"}
        /\ hilo' \in [HilosMemoria -> EtapasKernel \cup EtapasCPU]
        /\ hilo'["kernel"] \in EtapasKernel /\ hilo'["cpu"] \in EtapasCPU
    BY <1>3 DEF AsignaMarca, TiposMaquina
  <2> QED
    BY <1>b, <2>2, <2>3, <2>4, <1>3 DEF AsignaMarca, TiposMaquina, TypeOKMaquina
<1>4. CASE AsignaSinMarcos
  BY <1>b, <1>4 DEF AsignaSinMarcos, TiposMaquina, TypeOKMaquina
<1>5. CASE ReduceCarga
  BY <1>b, <1>5 DEF ReduceCarga, CargaByte, TiposMaquina, TypeOKMaquina
<1>6. CASE ReducePagina
  <2>1. paginas' \in [Proceso -> Seq(Marcos)]
    <3>1. paginas[sirve["cpu"]] \in Seq(Marcos) /\ paginas[sirve["cpu"]] # << >>
      BY <1>b, <1>0, <1>6 DEF ReducePagina, EnServicio, TiposMaquina, TypeOKMaquina
    <3>2. Front(paginas[sirve["cpu"]]) \in Seq(Marcos)
      BY <3>1, FrenteLista
    <3> QED
      BY <1>b, <1>0, <1>6, <3>2 DEF ReducePagina, TiposMaquina, TypeOKMaquina
  <2>2. frame_bitarray' \subseteq Marcos /\ pisado' \in BOOLEAN
        /\ byte' \in [HilosMemoria -> SUBSET Marcos]
    BY <1>b, <1>6 DEF ReducePagina, Limpia, GuardaByte, TiposMaquina, TypeOKMaquina
  <2>3. faltan' \in Nat
    BY <1>0, <1>6 DEF ReducePagina
  <2>4. /\ respuesta' \in {"ninguna", "OK", "OUT_OF_MEMORY", "resto"}
        /\ hilo' \in [HilosMemoria -> EtapasKernel \cup EtapasCPU]
        /\ hilo'["kernel"] \in EtapasKernel /\ hilo'["cpu"] \in EtapasCPU
    BY <1>6 DEF ReducePagina, TiposMaquina
  <2> QED
    BY <1>b, <2>1, <2>2, <2>3, <2>4, <1>6 DEF ReducePagina, TiposMaquina, TypeOKMaquina
<1> QED
  BY <1>1, <1>2, <1>3, <1>4, <1>5, <1>6 DEF HiloCPU

\* A context that the CPU sends.
LEMMA RespondeTipos ==
  ASSUME TiposMaquina, pcb \in Proceso, NEW op \in OpsContexto, Responde(op)
  PROVE  /\ contextos' \in Seq(Contexto) /\ cpu' = "espera" /\ pcb' = 0
         /\ instruccion' \in Instruccion /\ fisicas' = << >>
         /\ contextos' = Append(contextos, [pid |-> pcb, op |-> op, fisicas |-> fisicas,
                                            tam |-> instruccion.tam])
         /\ UNCHANGED << despachados, ordenes_interrupcion >>
<1>1. [pid |-> pcb, op |-> op, fisicas |-> fisicas, tam |-> instruccion.tam] \in Contexto
  BY DEF TiposMaquina, Contexto, Instruccion
<1>2. SinInstruccion \in Instruccion
  BY DEF SinInstruccion, Instruccion, OpsCPU
<1> QED
  BY <1>1, <1>2 DEF Responde, Olvida, TiposMaquina

\* The list of contexts has what TypeOKMaquina says of it.
LEMMA ContextosTipos ==
  ASSUME NEW s \in Seq(Contexto)
  PROVE  \A k \in 1 .. Len(s) : s[k].pid \in Proceso /\ s[k].op \in OpsContexto
<1>1. \A k \in 1 .. Len(s) : s[k] \in Contexto
  OBVIOUS
<1> QED
  BY <1>1 DEF Contexto

\* The pages that are asked for.
LEMMA PaginasParaNat ==
  ASSUME NEW tam \in Nat
  PROVE  PaginasPara(tam) \in Nat
<1>1. tam + TamPagina - 1 \in Nat
  OBVIOUS
<1> QED
  BY <1>1, Cociente DEF PaginasPara

\* The cycle of the CPU.
LEMMA CicloTipos ==
  ASSUME TiposMaquina, EnServicio, UnTurno, TLBSinRepetidos, PasoCiclo
  PROVE  TiposMaquina'
<1> USE DEF PasoCiclo
<1>0. /\ cpu # "espera" => pcb \in Proceso
      /\ \A s \in Seq(Contexto) : \A k \in 1 .. Len(s) :
            s[k].pid \in Proceso /\ s[k].op \in OpsContexto
  BY ContextosTipos DEF UnTurno
<1>a. /\ SinInstruccion \in Instruccion
      /\ \A i \in Instrucciones : i \in Instruccion
      /\ \A op \in {"INTERRUPTED_BY_USER", "DESALOJO_QUANTUM", "FINALIZADO",
                    "OUT_OF_MEMORY", "WAIT", "SIGNAL", "IO"} : op \in OpsContexto
  BY DEF SinInstruccion, Instruccion, OpsCPU, OpsContexto, Interrupciones
<1>1. CASE CPURecibe
  <2>1. despachados # << >> /\ despachados \in Seq(Proceso)
    BY <1>1 DEF CPURecibe, TiposMaquina, TypeOKMaquina
  <2>2. pcb' \in Proceso /\ despachados' \in Seq(Proceso)
    BY <2>1, <1>1 DEF CPURecibe
  <2>3. cpu' \in EtapasCiclo /\ pid_solicita_recurso' \in Proceso \cup {0}
    BY <1>1 DEF CPURecibe, EtapasCiclo, TiposMaquina, TypeOKMaquina
  <2> QED
    BY <2>2, <2>3, <1>1 DEF CPURecibe, TiposMaquina, TypeOKMaquina
<1> DEFINE Sale(op) == op \in OpsContexto /\ Responde(op)
           Queda == cpu' \in EtapasCiclo /\ UNCHANGED << pcb, socketVars, fisicas >>
                    /\ instruccion' \in Instruccion
<1>2. ASSUME /\ \E op \in OpsContexto : cpu # "espera" /\ Responde(op)
             /\ pid_solicita_recurso' \in Proceso \cup {0}
             /\ UNCHANGED << interrupcion, mmuVars, memoriaVars >>
      PROVE  TiposMaquina'
  <2>1. /\ contextos' \in Seq(Contexto) /\ cpu' = "espera" /\ pcb' = 0
        /\ instruccion' \in Instruccion /\ fisicas' = << >>
        /\ UNCHANGED << despachados, ordenes_interrupcion >>
    BY <1>0, <1>2, RespondeTipos
  <2> QED
    BY <2>1, <1>0, <1>2 DEF TiposMaquina, TypeOKMaquina, EtapasCiclo
<1>3. ASSUME /\ cpu' \in EtapasCiclo /\ UNCHANGED << pcb, socketVars >>
             /\ fisicas' \in {fisicas, << >>} /\ instruccion' \in Instruccion
             /\ pid_solicita_recurso' \in Proceso \cup {0}
             /\ interrupcion' \in {interrupcion, CLEAR_INTERRUPT}
             /\ UNCHANGED << mmuVars, memoriaVars >>
      PROVE  TiposMaquina'
  <2>1. fisicas' \in Seq(Nat) /\ interrupcion' \in Interrupciones \cup {CLEAR_INTERRUPT}
    <3>1. {fisicas, << >>} \subseteq Seq(Nat)
      BY DEF TiposMaquina
    <3>2. {interrupcion, CLEAR_INTERRUPT} \subseteq Interrupciones \cup {CLEAR_INTERRUPT}
      BY DEF TiposMaquina, TypeOKMaquina
    <3> QED
      BY <1>3, <3>1, <3>2
  <2> QED
    BY <2>1, <1>3 DEF TiposMaquina, TypeOKMaquina
<1>b. /\ pid_solicita_recurso \in Proceso \cup {0} /\ instruccion \in Instruccion
      /\ {"pend_quantum", "limpia", "fetch", "decode", "muerto", "ve_usuario",
          "ve_quantum"} \subseteq EtapasCiclo
  BY DEF TiposMaquina, TypeOKMaquina, EtapasCiclo
<1>4. CASE CPUPendUsuario
  BY <1>4, <1>2, <1>3, <1>a, <1>b DEF CPUPendUsuario
<1>5. CASE CPUPendQuantum
  BY <1>5, <1>2, <1>3, <1>a, <1>b DEF CPUPendQuantum
<1>6. CASE CPULimpia
  BY <1>6, <1>3, <1>a, <1>b DEF CPULimpia
<1>7. CASE CPUFetch
  BY <1>7, <1>3, <1>a, <1>b DEF CPUFetch
<1>8. CASE CPUDecode
  <2> DEFINE dir == instruccion.dirs[Len(fisicas) + 1]
  <2>1. dir \in Nat /\ Len(fisicas) \in Nat /\ fisicas \in Seq(Nat)
    <3>1. instruccion.dirs \in Seq(Nat) /\ fisicas \in Seq(Nat)
      BY DEF TiposMaquina, Instruccion
    <3>2. Len(fisicas) + 1 \in 1 .. Len(instruccion.dirs)
      BY <3>1, <1>8 DEF CPUDecode
    <3> QED
      BY <3>1, <3>2
  <2>2. /\ ActualizaTLB(pcb, Pagina(dir)) /\ cpu = "decode"
        /\ IF Marco(pcb, Pagina(dir)) = SinMarco
           THEN cpu' = "muerto" /\ UNCHANGED fisicas
           ELSE fisicas' = Append(fisicas, Fisica(pcb, dir)) /\ UNCHANGED cpu
        /\ UNCHANGED << pcb, instruccion, pid_solicita_recurso, interrupcion,
                        socketVars, memoriaVars >>
    BY <1>8 DEF CPUDecode
  <2> HIDE DEF dir
  <2>3. pcb \in Proceso /\ Pagina(dir) \in Nat
    BY <2>1, <2>2, <1>0, Cociente DEF Pagina
  <2>4. /\ tlb \in Seq(Entrada) /\ reloj \in 0 .. MaxReloj
        /\ paginas \in [Proceso -> Seq(Marcos)]
    BY DEF TiposMaquina, TypeOKMaquina
  <2>a. acceder_marco(pcb, Pagina(dir)) \in Marcos \cup {SinMarco}
    BY <2>3, <2>4, MarcoDePagina
  <2>5. tlb' \in Seq(Entrada) /\ reloj' \in 0 .. MaxReloj
    <3>1. ActualizaTLB(pcb, Pagina(dir))
      BY <2>2
    <3> QED
      BY <2>3, <2>4, <2>a, <3>1, EfectoTLB
  <2>6. fisicas' \in Seq(Nat)
    <3>1. CASE Marco(pcb, Pagina(dir)) = SinMarco
      BY <3>1, <2>1, <2>2
    <3>2. CASE Marco(pcb, Pagina(dir)) # SinMarco
      <4>1. Fisica(pcb, dir) \in Nat
        BY <3>2, <2>1, <2>3, <2>4, FisicaEsDireccion
      <4> QED
        BY <3>2, <4>1, <2>1, <2>2
    <3> QED
      BY <3>1, <3>2
  <2> QED
    BY <2>2, <2>5, <2>6, <1>b DEF TiposMaquina, TypeOKMaquina
<1>9. CASE CPUEjecutaLocal
  BY <1>9, <1>3, <1>a, <1>b DEF CPUEjecutaLocal, Olvida
<1>10. CASE CPUPideTamano
  <2>1. /\ cpu' = "resize" /\ MemoriaRedimensiona(pcb, instruccion.tam)
        /\ UNCHANGED << pcb, instruccion, fisicas, pid_solicita_recurso,
                        interrupcion, socketVars, mmuVars >>
        /\ pcb \in Proceso
    BY <1>10, <1>0 DEF CPUPideTamano, Decodificada
  <2>2. /\ PaginasPara(instruccion.tam) \in Nat /\ Len(paginas[pcb]) \in Nat
        /\ max_bit \in Nat
    BY <2>1, PaginasParaNat, HayMarcos DEF TiposMaquina, TypeOKMaquina, Instruccion
  <2>3. indice' \in 0 .. max_bit /\ faltan' \in Nat
    BY <2>1, <2>2 DEF MemoriaRedimensiona
  <2>4. /\ sirve' \in [HilosMemoria -> Proceso \cup {0}]
        /\ hilo' \in [HilosMemoria -> EtapasKernel \cup EtapasCPU]
        /\ hilo'["kernel"] \in EtapasKernel /\ hilo'["cpu"] \in EtapasCPU
        /\ respuesta' \in {"ninguna", "OK", "OUT_OF_MEMORY", "resto"}
    BY <2>1 DEF MemoriaRedimensiona, TiposMaquina, EtapasCPU, EtapasKernel, HilosMemoria
  <2> QED
    BY <2>1, <2>3, <2>4 DEF MemoriaRedimensiona, TiposMaquina, TypeOKMaquina, EtapasCiclo
<1>17. CASE CPUPideTamanoEnVano
  <2>1. /\ respuesta' \in {"ninguna", "OK", "OUT_OF_MEMORY", "resto"}
        /\ cpu' \in EtapasCiclo /\ instruccion' \in Instruccion /\ fisicas' \in Seq(Nat)
        /\ UNCHANGED << procesos, paginas, bitVars, pedidos_kernel, confVars, hilo,
                        sirve, byte, indice, faltan, pcb, pid_solicita_recurso,
                        interrupcion, socketVars, mmuVars >>
    BY <1>17, <1>a, <1>b DEF CPUPideTamanoEnVano, MemoriaDesconoce, Olvida
  <2> QED
    BY <2>1 DEF TiposMaquina, TypeOKMaquina
<1>11. CASE CPURedimensionada
  <2>1. /\ sirve' \in [HilosMemoria -> Proceso \cup {0}]
        /\ indice' \in 0 .. max_bit /\ faltan' \in Nat /\ respuesta' = "ninguna"
        /\ UNCHANGED << procesos, paginas, bitVars, pedidos_kernel, confVars, hilo, byte >>
    <3>1. TomaRespuesta /\ 0 \in 0 .. max_bit
      BY <1>11, HayMarcos DEF CPURedimensionada
    <3>2. sirve \in [HilosMemoria -> Proceso \cup {0}]
      BY DEF TiposMaquina
    <3> QED
      BY <3>1, <3>2 DEF TomaRespuesta
  <2>2. /\ contextos' \in Seq(Contexto) /\ cpu' \in EtapasCiclo /\ pcb' \in Proceso \cup {0}
        /\ instruccion' \in Instruccion /\ fisicas' = << >>
        /\ UNCHANGED << despachados, ordenes_interrupcion >>
    <3>1. CASE respuesta = "OUT_OF_MEMORY"
      BY <3>1, <1>11, <1>0, <1>a, RespondeTipos
         DEF CPURedimensionada, RespondeSinMemoria, EtapasCiclo
    <3>2. CASE respuesta # "OUT_OF_MEMORY"
      BY <3>2, <1>11, <1>a, <1>b DEF CPURedimensionada, Olvida, TiposMaquina, TypeOKMaquina
    <3> QED
      BY <3>1, <3>2
  <2>3. UNCHANGED << pid_solicita_recurso, interrupcion, mmuVars >>
    BY <1>11 DEF CPURedimensionada
  <2> QED
    <3>1. \A k \in 1 .. Len(contextos') :
              contextos'[k].pid \in Proceso /\ contextos'[k].op \in OpsContexto
      BY <2>2, <1>0
    <3>2. fisicas' \in Seq(Nat)
      BY <2>2
    <3> QED
      BY <2>1, <2>2, <2>3, <3>1, <3>2 DEF TiposMaquina, TypeOKMaquina
<1>12. CASE CPUSolicitaRecurso
  BY <1>12, <1>0, <1>2, <1>a DEF CPUSolicitaRecurso, Decodificada
<1>13. CASE CPUPideIO
  BY <1>13, <1>2, <1>a, <1>b DEF CPUPideIO, Decodificada
<1>14. CASE CPUSale
  BY <1>14, <1>2, <1>a, <1>b DEF CPUSale, Decodificada
<1>15. CASE CPUVeUsuario
  BY <1>15, <1>2, <1>3, <1>a, <1>b DEF CPUVeUsuario
<1>16. CASE CPUVeQuantum
  BY <1>16, <1>2, <1>3, <1>a, <1>b DEF CPUVeQuantum
<1> QED
  BY <1>1, <1>4, <1>5, <1>6, <1>7, <1>8, <1>9, <1>10, <1>11, <1>12, <1>13, <1>14,
     <1>15, <1>16, <1>17 DEF CicloCPU

\* The lists of NEW after each operation on them.
LEMMA NuevosTipos ==
  ASSUME NEW s \in Seq(Proceso), NEW p \in ToSet(s)
  PROVE  /\ QuitaYSaca(s, p) \in Seq(Proceso)
         /\ \E k \in 1 .. Len(s) :
               /\ s[k] = p
               /\ QuitaYSaca(s, p) = SinPrimero(RemoveAt(s, k))
<1> DEFINE k == CHOOSE i \in 1 .. Len(s) : s[i] = p
<1>1. k \in 1 .. Len(s) /\ s[k] = p
  <2>1. \E i \in 1 .. Len(s) : s[i] = p
    BY DEF ToSet
  <2> QED
    BY <2>1
<1>2. QuitaYSaca(s, p) = SinPrimero(RemoveAt(s, k))
  BY DEF QuitaYSaca
<1> HIDE DEF k
<1> DEFINE t == RemoveAt(s, k)
<1>3. t \in Seq(Proceso)
  BY <1>1, QuitaElemento
<1> HIDE DEF t
<1>4. SinPrimero(t) \in Seq(Proceso)
  BY <1>3 DEF SinPrimero
<1> QED
  BY <1>1, <1>2, <1>4 DEF t

\* The kernel, at the other end of the sockets.
LEMMA NucleoTipos ==
  ASSUME TiposMaquina, Nucleo
  PROVE  TiposMaquina'
<1>0. /\ situacion \in [Proceso -> Situaciones] /\ io \in [Proceso -> Acceso]
      /\ ordenes \in Nat /\ pedidos_kernel \in Seq(PedidoMemoria)
      /\ contextos \in Seq(Contexto) /\ despachados \in Seq(Proceso)
      /\ ordenes_interrupcion \in Seq(Interrupciones)
      /\ nuevos \in Seq(Proceso) /\ confirmaciones \in Seq(Confirmaciones)
      /\ sobra \in BOOLEAN /\ redujo \subseteq Proceso /\ enVuelo \subseteq redujo
  BY DEF TiposMaquina, TypeOKMaquina
<1>a. /\ SinAcceso \in Acceso
      /\ {"nuevo", "pedido", "READY", "EXEC", "BLOCKED", "EXIT"} = Situaciones
      /\ {"DESALOJO_QUANTUM", "INTERRUPTED_BY_USER"} = Interrupciones
      /\ \A s \in Seq(Contexto) : \A k \in 1 .. Len(s) :
            s[k].pid \in Proceso /\ s[k].op \in OpsContexto
  BY ContextosTipos DEF SinAcceso, Acceso, Situaciones, Interrupciones
<1>b. ASSUME contextos # << >>
      PROVE  /\ Llegado \in Proceso /\ Head(contextos) \in Contexto
             /\ Tail(contextos) \in Seq(Contexto)
  <2>1. Head(contextos) \in Contexto /\ Tail(contextos) \in Seq(Contexto)
    BY <1>0, <1>b
  <2> QED
    BY <2>1 DEF Llegado, Contexto
<1>c. ASSUME NEW p \in Proceso, NEW op \in {"MEMORY_PROCESS_CREATE", "MEMORY_PROCESS_TERM"},
             Pide(op, p)
      PROVE  pedidos_kernel' \in Seq(PedidoMemoria)
  <2>1. [op |-> op, pid |-> p] \in PedidoMemoria
    BY DEF PedidoMemoria
  <2> HIDE DEF PedidoMemoria
  <2> QED
    BY <2>1, <1>0, <1>c DEF Pide
<1>1. ASSUME /\ situacion' \in [Proceso -> Situaciones] /\ io' \in [Proceso -> Acceso]
             /\ ordenes' \in Nat /\ pedidos_kernel' \in Seq(PedidoMemoria)
             /\ contextos' \in Seq(Contexto) /\ despachados' \in Seq(Proceso)
             /\ ordenes_interrupcion' \in Seq(Interrupciones)
             /\ nuevos' \in Seq(Proceso) /\ confirmaciones' \in Seq(Confirmaciones)
             /\ sobra' \in BOOLEAN /\ redujo' \subseteq Proceso /\ enVuelo' \subseteq redujo'
             /\ UNCHANGED << procesos, paginas, bitVars, confirmados, hilo, sirve, byte,
                             indice, faltan, respuesta, mmuVars, cicloVars, interrupcion >>
      PROVE  TiposMaquina'
  <2>1. \A k \in 1 .. Len(contextos') :
            contextos'[k].pid \in Proceso /\ contextos'[k].op \in OpsContexto
    BY <1>1, <1>a
  <2> QED
    BY <1>1, <2>1 DEF TiposMaquina, TypeOKMaquina
<1>2. ASSUME NEW p \in Proceso, NucleoCrea(p)
      PROVE  TiposMaquina'
  <2>1. /\ situacion' \in [Proceso -> Situaciones] /\ pedidos_kernel' \in Seq(PedidoMemoria)
        /\ nuevos' \in Seq(Proceso)
    BY <1>2, <1>0, <1>a, <1>c DEF NucleoCrea, EnSituacion
  <2> QED
    BY <2>1, <1>0, <1>1, <1>2 DEF NucleoCrea
<1>3. ASSUME NEW p \in Proceso, NucleoAdmite(p)
      PROVE  TiposMaquina'
  <2>1. /\ situacion' \in [Proceso -> Situaciones] /\ nuevos' \in Seq(Proceso)
        /\ confirmaciones' \in Seq(Confirmaciones)
    BY <1>3, <1>0, <1>a DEF NucleoAdmite, EnSituacion
  <2> QED
    BY <2>1, <1>0, <1>1, <1>3 DEF NucleoAdmite
<1>4. ASSUME NEW p \in Proceso, NucleoDespacha(p)
      PROVE  TiposMaquina'
  <2>1. situacion' \in [Proceso -> Situaciones] /\ despachados' \in Seq(Proceso)
    BY <1>4, <1>0, <1>a DEF NucleoDespacha, EnSituacion
  <2> QED
    BY <2>1, <1>0, <1>1, <1>4 DEF NucleoDespacha
<1>5. CASE NucleoDesaloja
  BY <1>5, <1>0, <1>1, <1>a DEF NucleoDesaloja
<1>6. CASE NucleoFinaliza
  BY <1>6, <1>0, <1>1, <1>a DEF NucleoFinaliza
<1>7. ASSUME NEW p \in Proceso, NucleoFinalizaOtro(p)
      PROVE  TiposMaquina'
  <2>1. situacion' \in [Proceso -> Situaciones] /\ pedidos_kernel' \in Seq(PedidoMemoria)
    <3>1. pedidos_kernel' \in Seq(PedidoMemoria)
      BY <1>7, <1>c DEF NucleoFinalizaOtro
    <3>2. situacion' = [situacion EXCEPT ![p] = "EXIT"]
      BY <1>7 DEF NucleoFinalizaOtro, EnSituacion
    <3> QED
      BY <3>1, <3>2, <1>0, <1>a
  <2> QED
    BY <2>1, <1>0, <1>1, <1>7 DEF NucleoFinalizaOtro
<1>8. CASE NucleoTermina
  <2>1. /\ situacion' \in [Proceso -> Situaciones] /\ pedidos_kernel' \in Seq(PedidoMemoria)
        /\ contextos' \in Seq(Contexto)
    <3>1. Llegado \in Proceso /\ contextos' \in Seq(Contexto)
      BY <1>8, <1>b DEF NucleoTermina, Llega
    <3>2. pedidos_kernel' \in Seq(PedidoMemoria)
      BY <1>8, <1>c, <3>1 DEF NucleoTermina
    <3>3. situacion' = [situacion EXCEPT ![Llegado] = "EXIT"]
      BY <1>8 DEF NucleoTermina, EnSituacion
    <3> QED
      BY <3>1, <3>2, <3>3, <1>0, <1>a
  <2> QED
    BY <2>1, <1>0, <1>1, <1>8 DEF NucleoTermina
<1>9. CASE NucleoReencola
  <2>1. situacion' \in [Proceso -> Situaciones] /\ contextos' \in Seq(Contexto)
    BY <1>9, <1>0, <1>a, <1>b DEF NucleoReencola, EnSituacion, Llega
  <2> QED
    BY <2>1, <1>0, <1>1, <1>9 DEF NucleoReencola
<1>10. CASE NucleoContinua
  <2>1. despachados' \in Seq(Proceso) /\ contextos' \in Seq(Contexto)
    BY <1>10, <1>0, <1>b DEF NucleoContinua, Llega
  <2> QED
    BY <2>1, <1>0, <1>1, <1>10 DEF NucleoContinua
<1>11. CASE NucleoBloquea
  <2>1. situacion' \in [Proceso -> Situaciones] /\ contextos' \in Seq(Contexto)
    BY <1>11, <1>0, <1>a, <1>b DEF NucleoBloquea, EnSituacion, Llega
  <2>2. io' \in [Proceso -> Acceso]
    <3>1. [dirs |-> Head(contextos).fisicas, tam |-> Head(contextos).tam] \in Acceso
      BY <1>11, <1>b DEF NucleoBloquea, Llega, Contexto, Acceso
    <3> QED
      BY <3>1, <1>0, <1>a, <1>11 DEF NucleoBloquea
  <2> QED
    BY <2>1, <2>2, <1>0, <1>1, <1>11 DEF NucleoBloquea
<1>12. ASSUME NEW p \in Proceso, NucleoDespierta(p)
       PROVE  TiposMaquina'
  <2>1. situacion' \in [Proceso -> Situaciones] /\ io' \in [Proceso -> Acceso]
    BY <1>12, <1>0, <1>a DEF NucleoDespierta, EnSituacion
  <2> QED
    BY <2>1, <1>0, <1>1, <1>12 DEF NucleoDespierta
<1>13. ASSUME NEW p \in Proceso, NucleoFinalizaNuevo(p)
       PROVE  TiposMaquina'
  <2>1. situacion' \in [Proceso -> Situaciones] /\ pedidos_kernel' \in Seq(PedidoMemoria)
    BY <1>13, <1>0, <1>a, <1>c DEF NucleoFinalizaNuevo, EnSituacion
  <2>2. nuevos' \in Seq(Proceso) /\ sobra' \in BOOLEAN /\ ordenes' \in Nat
    BY <1>13, <1>0, NuevosTipos DEF NucleoFinalizaNuevo
  <2> QED
    BY <2>1, <2>2, <1>0, <1>1, <1>13 DEF NucleoFinalizaNuevo
<1>14. ASSUME NEW p \in Proceso, NucleoFinalizaEnVuelo(p)
       PROVE  TiposMaquina'
  <2>1. pedidos_kernel' \in Seq(PedidoMemoria)
    BY <1>14, <1>c DEF NucleoFinalizaEnVuelo
  <2> QED
    BY <2>1, <1>0, <1>1, <1>14 DEF NucleoFinalizaEnVuelo
<1> QED
  BY <1>2, <1>3, <1>4, <1>5, <1>6, <1>7, <1>8, <1>9, <1>10, <1>11, <1>12, <1>13, <1>14
     DEF Nucleo

\* All of them.
LEMMA PasoTipos ==
  ASSUME TiposMaquina, EnServicio, UnTurno, TLBSinRepetidos, [Next]_vars
  PROVE  TiposMaquina'
<1>1. CASE Nucleo
  BY <1>1, NucleoTipos
<1>2. CASE PasoMemoria
  <2>1. redujo' \subseteq Proceso /\ redujo \subseteq redujo'
    BY <1>2 DEF PasoMemoria, EnServicio, UnTurno, TiposMaquina
  <2>2. CASE HiloKernel /\ redujo' = redujo
    BY <2>2, <1>2, KernelTipos DEF PasoMemoria
  <2>3. ASSUME HiloKernel PROVE redujo' = redujo
    <3>1. hilo'["cpu"] = hilo["cpu"]
      BY <2>3 DEF HiloKernel, MemoriaCrea, MemoriaTermina, MemoriaCargaParaLiberar,
         MemoriaLiberaPagina, MemoriaOlvidaProceso, TiposMaquina, HilosMemoria
    <3> QED
      BY <3>1, <1>2 DEF PasoMemoria
  <2>4. CASE HiloCPU
    BY <2>1, <2>4, <1>2, CPUTipos DEF PasoMemoria
  <2> QED
    BY <2>2, <2>3, <2>4, <1>2 DEF PasoMemoria
<1>3. CASE PasoCiclo
  BY <1>3, CicloTipos
<1>4. CASE PasoInterrupcion
  BY <1>4 DEF PasoInterrupcion, InterrupcionLlega, TiposMaquina, TypeOKMaquina
<1>5. CASE UNCHANGED vars
  BY <1>5 DEF vars, TiposMaquina, TypeOKMaquina
<1>6. CASE Carrera
  BY <1>6 DEF Carrera, TiposMaquina, TypeOKMaquina, EtapasCiclo
<1> QED
  BY <1>1, <1>2, <1>3, <1>4, <1>5, <1>6 DEF Next, Quieta

-----------------------------------------------------------------------------
(* One context for each pcb. *)

\* The CPU has a process or waits for one.
LEMMA PcbEnExec ==
  ASSUME UnTurno
  PROVE  IF cpu = "espera" THEN pcb = 0
         ELSE /\ pcb \in Proceso /\ situacion[pcb] = "EXEC"
              /\ despachados = << >> /\ contextos = << >>
              /\ \A p \in Proceso : situacion[p] = "EXEC" <=> p = pcb
  BY DEF UnTurno

\* A context answers the pcb that the CPU has, and empties it.
LEMMA RespondeUnTurno ==
  ASSUME TiposMaquina, UnTurno, cpu # "espera", NEW op \in OpsContexto, Responde(op),
         UNCHANGED nucleoVars
  PROVE  UnTurno'
<1>1. /\ pcb \in Proceso /\ despachados = << >> /\ contextos = << >>
      /\ \A p \in Proceso : situacion[p] = "EXEC" <=> p = pcb
  BY PcbEnExec
<1>2. /\ cpu' = "espera" /\ pcb' = 0 /\ despachados' = despachados
      /\ contextos' = Append(contextos, [pid |-> pcb, op |-> op, fisicas |-> fisicas,
                                         tam |-> instruccion.tam])
  BY <1>1, RespondeTipos
<1> DEFINE c == [pid |-> pcb, op |-> op, fisicas |-> fisicas, tam |-> instruccion.tam]
<1>3. c.pid = pcb
  OBVIOUS
<1> HIDE DEF c
<1>4. contextos' = << c >>
  BY <1>1, <1>2 DEF c
<1>5. Len(contextos') = 1 /\ contextos'[1].pid = pcb
  BY <1>3, <1>4
<1> QED
  BY <1>1, <1>2, <1>5 DEF UnTurno

\* The cycle of the CPU.
LEMMA CicloUnTurno ==
  ASSUME TiposMaquina, UnTurno, PasoCiclo
  PROVE  UnTurno'
<1> USE DEF PasoCiclo
<1>0. \A op \in {"INTERRUPTED_BY_USER", "DESALOJO_QUANTUM", "FINALIZADO",
                 "OUT_OF_MEMORY", "WAIT", "SIGNAL", "IO"} : op \in OpsContexto
  BY DEF OpsContexto, Interrupciones
<1>1. CASE CPURecibe
  <2>1. /\ cpu = "espera" /\ despachados # << >>
        /\ pcb' = Head(despachados) /\ despachados' = Tail(despachados)
        /\ cpu' # "espera" /\ UNCHANGED << contextos, situacion >>
    BY <1>1 DEF CPURecibe
  <2>2. PICK x \in Proceso :
           /\ \A p \in Proceso : situacion[p] = "EXEC" <=> p = x
           /\ despachados = << x >> /\ contextos = << >>
    BY <2>1 DEF UnTurno
  <2>3. pcb' = x /\ despachados' = << >> /\ contextos' = << >>
    BY <2>1, <2>2
  <2> QED
    BY <2>1, <2>2, <2>3 DEF UnTurno
<1>2. ASSUME \E op \in OpsContexto : cpu # "espera" /\ Responde(op)
      PROVE  UnTurno'
  BY <1>2, RespondeUnTurno
<1>3. ASSUME cpu # "espera", cpu' # "espera", UNCHANGED << pcb, socketVars >>
      PROVE  UnTurno'
  BY <1>3 DEF UnTurno
<1>4. CASE CPUPendUsuario
  BY <1>4, <1>0, <1>2, <1>3 DEF CPUPendUsuario
<1>5. CASE CPUPendQuantum
  BY <1>5, <1>0, <1>2, <1>3 DEF CPUPendQuantum
<1>6. CASE \/ CPULimpia \/ CPUFetch \/ CPUDecode \/ CPUEjecutaLocal \/ CPUPideTamano
           \/ CPUPideTamanoEnVano
  BY <1>6, <1>3 DEF CPULimpia, CPUFetch, CPUDecode, CPUEjecutaLocal, CPUPideTamano,
     CPUPideTamanoEnVano, Decodificada
<1>7. CASE CPURedimensionada
  BY <1>7, <1>0, <1>2, <1>3 DEF CPURedimensionada, RespondeSinMemoria
<1>8. CASE CPUSolicitaRecurso
  BY <1>8, <1>0, <1>2 DEF CPUSolicitaRecurso, Decodificada
<1>9. CASE CPUPideIO \/ CPUSale
  BY <1>9, <1>0, <1>2 DEF CPUPideIO, CPUSale, Decodificada
<1>10. CASE CPUVeUsuario
  BY <1>10, <1>0, <1>2, <1>3 DEF CPUVeUsuario
<1>11. CASE CPUVeQuantum
  BY <1>11, <1>0, <1>2, <1>3 DEF CPUVeQuantum
<1> QED
  BY <1>1, <1>4, <1>5, <1>6, <1>7, <1>8, <1>9, <1>10, <1>11 DEF CicloCPU

\* The kernel, which sends a process to the CPU when none is there and takes the
\* one the context names out of EXEC.
LEMMA NucleoUnTurno ==
  ASSUME TiposMaquina, UnTurno, Nucleo
  PROVE  UnTurno'
<1>0. situacion \in [Proceso -> Situaciones]
  BY DEF TiposMaquina, TypeOKMaquina
<1>1. ASSUME NEW p \in Proceso, NEW a \in Situaciones \ {"EXEC"},
             NEW b \in Situaciones \ {"EXEC"}, EnSituacion(p, a, b),
             UNCHANGED << cpu, pcb, despachados, contextos >>
      PROVE  UnTurno'
  <2>1. \A q \in Proceso : situacion'[q] = "EXEC" <=> situacion[q] = "EXEC"
    BY <1>0, <1>1 DEF EnSituacion
  <2> QED
    BY <2>1, <1>1 DEF UnTurno
<1>2. ASSUME NEW p \in Proceso, NucleoCrea(p) \/ NucleoAdmite(p) \/ NucleoDespierta(p)
                                \/ NucleoFinalizaOtro(p) \/ NucleoFinalizaNuevo(p)
      PROVE  UnTurno'
  BY <1>1, <1>2 DEF NucleoCrea, NucleoAdmite, NucleoDespierta, NucleoFinalizaOtro,
     NucleoFinalizaNuevo, Situaciones
<1>3. ASSUME NEW p \in Proceso, NucleoDespacha(p)
      PROVE  UnTurno'
  <2>1. /\ \A q \in Proceso : situacion[q] # "EXEC"
        /\ situacion' = [situacion EXCEPT ![p] = "EXEC"]
        /\ despachados' = Append(despachados, p)
        /\ UNCHANGED << cpu, pcb, contextos >>
    BY <1>3 DEF NucleoDespacha, EnSituacion
  <2>2. despachados = << >> /\ contextos = << >> /\ cpu = "espera" /\ pcb = 0
    BY <2>1 DEF UnTurno
  <2>3. despachados' = << p >> /\ \A q \in Proceso : situacion'[q] = "EXEC" <=> q = p
    BY <2>1, <2>2, <1>0
  <2> QED
    BY <2>1, <2>2, <2>3 DEF UnTurno
<1>4. CASE NucleoDesaloja \/ NucleoFinaliza \/ \E p \in Proceso : NucleoFinalizaEnVuelo(p)
  BY <1>4 DEF NucleoDesaloja, NucleoFinaliza, NucleoFinalizaEnVuelo, UnTurno
<1>5. ASSUME contextos # << >>
      PROVE  /\ Llegado \in Proceso /\ despachados = << >> /\ Tail(contextos) = << >>
             /\ cpu = "espera" /\ pcb = 0
             /\ \A p \in Proceso : situacion[p] = "EXEC" <=> p = Llegado
  <2>1. contextos \in Seq(Contexto)
    BY DEF TiposMaquina
  <2>2. PICK x \in Proceso :
           /\ \A p \in Proceso : situacion[p] = "EXEC" <=> p = x
           /\ despachados = << >> /\ Len(contextos) = 1
           /\ contextos[1].pid = x /\ cpu = "espera" /\ pcb = 0
    BY <1>5 DEF UnTurno
  <2>3. Head(contextos) = contextos[1] /\ Tail(contextos) = << >>
    <3> DEFINE t == Tail(contextos)
    <3>1. t \in Seq(Contexto) /\ Len(t) = Len(contextos) - 1
      BY <2>1, <1>5, HeadTailProperties
    <3> HIDE DEF t
    <3>2. t = << >>
      BY <3>1, <2>2, SinElementos
    <3> QED
      BY <3>2 DEF t
  <2> QED
    BY <2>2, <2>3 DEF Llegado
<1>6. CASE NucleoTermina \/ NucleoReencola \/ NucleoBloquea
  <2>1. /\ contextos # << >> /\ contextos' = Tail(contextos)
        /\ UNCHANGED << cpu, pcb, despachados >>
        /\ \E b \in Situaciones \ {"EXEC"} : situacion' = [situacion EXCEPT ![Llegado] = b]
    BY <1>6 DEF NucleoTermina, NucleoReencola, NucleoBloquea, EnSituacion, Llega, Situaciones
  <2>2. \A p \in Proceso : situacion'[p] # "EXEC"
    BY <2>1, <1>0, <1>5
  <2> QED
    BY <2>1, <2>2, <1>5 DEF UnTurno
<1>7. CASE NucleoContinua
  <2>1. /\ contextos # << >> /\ contextos' = Tail(contextos)
        /\ despachados' = Append(despachados, Llegado)
        /\ UNCHANGED << cpu, pcb, situacion >>
    BY <1>7 DEF NucleoContinua, Llega
  <2>2. despachados' = << Llegado >>
    BY <2>1, <1>5
  <2> QED
    BY <2>1, <2>2, <1>5 DEF UnTurno
<1> QED
  BY <1>2, <1>3, <1>4, <1>6, <1>7 DEF Nucleo

\* All of them.
LEMMA PasoUnTurno ==
  ASSUME TiposMaquina, UnTurno, EnServicio, [Next]_vars
  PROVE  UnTurno'
<1>1. CASE PasoMemoria \/ PasoInterrupcion \/ UNCHANGED vars
  BY <1>1 DEF PasoMemoria, PasoInterrupcion, InterrupcionLlega, vars, UnTurno
<1>2. CASE cpu # "muerto" /\ Carrera
  <2>1. cpu # "espera" /\ cpu' # "espera"
    BY <1>2 DEF Carrera, Trabaja, EnServicio
  <2>2. UNCHANGED << pcb, socketVars, situacion >>
    BY <1>2 DEF Carrera
  <2> QED
    BY <2>1, <2>2 DEF UnTurno
<1> QED
  BY <1>1, <1>2, CicloUnTurno, NucleoUnTurno DEF Next, Quieta

-----------------------------------------------------------------------------
(* What the threads of the memory work on. *)

\* The head of the requests of the kernel.
LEMMA CabezaPedidos ==
  ASSUME TiposMaquina, PedidosEnOrden, pedidos_kernel # << >>
  PROVE  LET q == Head(pedidos_kernel)
         IN  /\ q \in PedidoMemoria /\ q.pid \in Proceso
             /\ IF q.op = "MEMORY_PROCESS_CREATE"
                THEN EnEspera(q.pid) /\ q.pid \notin confirmados
                ELSE Soltado(q.pid)
             /\ \A k \in 1 .. Len(Tail(pedidos_kernel)) :
                   /\ Tail(pedidos_kernel)[k] = pedidos_kernel[k + 1]
                   /\ k + 1 \in 1 .. Len(pedidos_kernel)
                   /\ q.op = "MEMORY_PROCESS_CREATE" => pedidos_kernel[k + 1] # q
<1>1. pedidos_kernel \in Seq(PedidoMemoria)
  BY DEF TiposMaquina
<1>2. /\ Head(pedidos_kernel) = pedidos_kernel[1] /\ 1 \in 1 .. Len(pedidos_kernel)
      /\ pedidos_kernel[1] \in PedidoMemoria /\ Len(pedidos_kernel) \in Nat
  BY <1>1
<1>3. pedidos_kernel[1].pid \in Proceso
  BY <1>2 DEF PedidoMemoria
<1>4. \A k \in 1 .. Len(Tail(pedidos_kernel)) :
         /\ Tail(pedidos_kernel)[k] = pedidos_kernel[k + 1]
         /\ k + 1 \in 1 .. Len(pedidos_kernel) /\ k + 1 # 1
  BY <1>1
<1> QED
  BY <1>2, <1>3, <1>4 DEF PedidosEnOrden

\* The threads of the memory.
LEMMA MemoriaEnServicio ==
  ASSUME TiposMaquina, UnTurno, EnServicio, PedidosEnOrden, CreadosEnMemoria, PasoMemoria
  PROVE  EnServicio'
<1> USE DEF HilosMemoria, EtapasKernel, EtapasCPU
<1> DEFINE K == /\ hilo["kernel"] # "libre" =>
                      sirve["kernel"] \in Proceso /\ Soltado(sirve["kernel"])
                /\ hilo["kernel"] = "limpia" => paginas[sirve["kernel"]] # << >>
           C == hilo["cpu"] # "libre" =>
                   /\ cpu \in {"resize", "muerto"} /\ sirve["cpu"] = pcb
                   /\ respuesta = "ninguna" /\ faltan > 0
                   /\ ~ (hilo["kernel"] # "libre" /\ sirve["kernel"] = pcb)
           D == /\ respuesta = "resto" => cpu \notin {"decode", "resize"} /\ enVuelo # {}
                /\ cpu = "resize" => sirve["cpu"] = pcb
                /\ cpu \in {"decode", "resize"} => pcb \in confirmados
           E == /\ hilo["cpu"] \in {"reduce", "descarta"} => faltan <= Len(paginas[sirve["cpu"]])
                /\ hilo["cpu"] = "marca" =>
                      /\ indice \in Marcos /\ paginas[sirve["cpu"]] # << >>
                      /\ paginas[sirve["cpu"]][Len(paginas[sirve["cpu"]])] = indice
<1>0. /\ hilo \in [HilosMemoria -> EtapasKernel \cup EtapasCPU]
      /\ sirve \in [HilosMemoria -> Proceso \cup {0}]
      /\ paginas \in [Proceso -> Seq(Marcos)] /\ faltan \in Nat
  BY DEF TiposMaquina, TypeOKMaquina
<1>k. K /\ C /\ D /\ E
  BY DEF EnServicio, Trabaja
<1>q. ASSUME K', C', D', E' PROVE EnServicio'
  BY <1>q DEF EnServicio, Trabaja
<1>u. UNCHANGED << cpu, pcb, situacion, enVuelo >>
  BY DEF PasoMemoria
<1>s. \A p : situacion[p] = "EXIT" \/ p \in enVuelo <=> Soltado(p)
  BY DEF Soltado
<1>e. (Soltado(sirve["kernel"]))' <=>
         situacion[sirve'["kernel"]] = "EXIT" \/ sirve'["kernel"] \in enVuelo
  BY <1>u DEF Soltado
<1>a. hilo["cpu"] # "libre" =>
         /\ sirve["cpu"] \in Proceso /\ sirve["cpu"] = pcb
         /\ hilo["kernel"] # "libre" => sirve["kernel"] # sirve["cpu"]
         /\ respuesta = "ninguna" /\ faltan > 0
  BY <1>k, PcbEnExec
<1>b. hilo["kernel"] # "libre" => sirve["kernel"] \in Proceso
  BY <1>k
<1>1. CASE MemoriaCrea
  <2> DEFINE p == Head(pedidos_kernel).pid
  <2>1. p \in Proceso /\ paginas[p] = << >>
    BY <1>1, CabezaPedidos DEF MemoriaCrea, CreadosEnMemoria
  <2>2. /\ paginas' = [paginas EXCEPT ![p] = << >>] \/ paginas' = paginas
        /\ confirmados \subseteq confirmados'
        /\ UNCHANGED << hilo, sirve, respuesta, faltan, indice >>
    BY <1>1 DEF MemoriaCrea
  <2> HIDE DEF p
  <2>3. paginas' = paginas
    BY <2>1, <2>2, <1>0
  <2> QED
    BY <2>2, <2>3, <1>k, <1>q, <1>u, <1>s, <1>e
<1>2. CASE MemoriaTermina
  <2> DEFINE p == Head(pedidos_kernel).pid
  <2>1. p \in Proceso /\ Soltado(p)
    BY <1>2, CabezaPedidos DEF MemoriaTermina
  <2>2. /\ hilo["kernel"] = "libre"
        /\ UNCHANGED << paginas, confirmados, respuesta, faltan, indice >>
        /\ \/ /\ ~ (hilo["cpu"] # "libre" /\ sirve["cpu"] = p)
              /\ sirve' = [sirve EXCEPT !["kernel"] = p]
              /\ hilo' = [hilo EXCEPT !["kernel"] = "libera"]
           \/ UNCHANGED << sirve, hilo >>
    BY <1>2 DEF MemoriaTermina, Trabaja
  <2> HIDE DEF p
  <2>3. K'
    BY <2>1, <2>2, <1>0, <1>k, <1>s, <1>e
  <2>4. C'
    BY <2>1, <2>2, <1>0, <1>k, <1>u
  <2>5. D' /\ E'
    BY <2>2, <1>0, <1>k, <1>u
  <2> QED
    BY <2>3, <2>4, <2>5, <1>q
<1>3. CASE MemoriaCargaParaLiberar
  <2>1. /\ hilo["kernel"] = "libera" /\ paginas[sirve["kernel"]] # << >>
        /\ hilo' = [hilo EXCEPT !["kernel"] = "limpia"]
        /\ UNCHANGED << paginas, confirmados, respuesta, faltan, indice, sirve >>
    BY <1>3 DEF MemoriaCargaParaLiberar
  <2> QED
    BY <2>1, <1>0, <1>k, <1>q, <1>u, <1>s, <1>e
<1>4. CASE MemoriaLiberaPagina
  <2>1. /\ hilo["kernel"] = "limpia"
        /\ hilo' = [hilo EXCEPT !["kernel"] = "libera"]
        /\ paginas' = [paginas EXCEPT ![sirve["kernel"]] = Tail(@)]
        /\ UNCHANGED << confirmados, respuesta, faltan, indice, sirve >>
    BY <1>4 DEF MemoriaLiberaPagina
  <2>2. hilo["cpu"] # "libre" => paginas'[sirve["cpu"]] = paginas[sirve["cpu"]]
    BY <2>1, <1>0, <1>a, <1>b
  <2> QED
    BY <2>1, <2>2, <1>0, <1>k, <1>q, <1>u, <1>s, <1>e
<1>5. CASE MemoriaOlvidaProceso
  <2>1. /\ hilo' = [hilo EXCEPT !["kernel"] = "libre"]
        /\ sirve' = [sirve EXCEPT !["kernel"] = 0]
        /\ UNCHANGED << paginas, confirmados, respuesta, faltan, indice >>
    BY <1>5 DEF MemoriaOlvidaProceso
  <2> QED
    BY <2>1, <1>0, <1>k, <1>q, <1>u
<1>6. CASE AsignaSaltea
  <2>1. /\ hilo["cpu"] = "asigna"
        /\ UNCHANGED << hilo, sirve, paginas, confirmados, respuesta, faltan >>
    BY <1>6 DEF AsignaSaltea
  <2> QED
    BY <2>1, <1>0, <1>k, <1>q, <1>u, <1>s, <1>e
<1>7. CASE AsignaEncuentra
  <2>1. /\ hilo["cpu"] = "asigna" /\ indice \in Marcos
        /\ hilo' = [hilo EXCEPT !["cpu"] = "marca"]
        /\ paginas' = [paginas EXCEPT ![sirve["cpu"]] = Append(@, indice)]
        /\ UNCHANGED << sirve, confirmados, respuesta, faltan, indice >>
    BY <1>7 DEF AsignaEncuentra
  <2>2. /\ hilo["kernel"] # "libre" => paginas'[sirve["kernel"]] = paginas[sirve["kernel"]]
        /\ paginas'[sirve["cpu"]] = Append(paginas[sirve["cpu"]], indice)
    BY <2>1, <1>0, <1>a, <1>b
  <2>3. paginas[sirve["cpu"]] \in Seq(Marcos)
    BY <2>1, <1>0, <1>a
  <2>4. /\ Len(paginas'[sirve["cpu"]]) = Len(paginas[sirve["cpu"]]) + 1
        /\ paginas'[sirve["cpu"]] \in Seq(Marcos)
        /\ paginas'[sirve["cpu"]][Len(paginas[sirve["cpu"]]) + 1] = indice
        /\ Len(paginas[sirve["cpu"]]) \in Nat
    BY <2>1, <2>2, <2>3, AppendProperties
  <2>5. paginas'[sirve["cpu"]] # << >>
    BY <2>4
  <2> QED
    BY <2>1, <2>2, <2>4, <2>5, <1>0, <1>k, <1>q, <1>u, <1>s, <1>e
<1>8. CASE AsignaMarca
  <2>1. /\ hilo["cpu"] = "marca" /\ faltan' = faltan - 1
        /\ hilo' = [hilo EXCEPT !["cpu"] = IF faltan = 1 THEN "libre" ELSE "asigna"]
        /\ respuesta' = IF faltan = 1 THEN "OK" ELSE "ninguna"
        /\ UNCHANGED << sirve, paginas, confirmados >>
    BY <1>8 DEF AsignaMarca
  <2>2. faltan # 1 => faltan' > 0
    BY <2>1, <1>0, <1>a
  <2> QED
    BY <2>1, <2>2, <1>0, <1>k, <1>q, <1>u, <1>s, <1>e
<1>9. CASE AsignaSinMarcos
  <2>1. /\ hilo' = [hilo EXCEPT !["cpu"] = "libre"] /\ respuesta' = "OUT_OF_MEMORY"
        /\ UNCHANGED << sirve, paginas, confirmados, faltan, indice >>
    BY <1>9 DEF AsignaSinMarcos
  <2> QED
    BY <2>1, <1>0, <1>k, <1>q, <1>u, <1>s, <1>e
<1>10. CASE ReduceCarga
  <2>1. /\ hilo["cpu"] = "reduce" /\ hilo' = [hilo EXCEPT !["cpu"] = "descarta"]
        /\ UNCHANGED << sirve, paginas, confirmados, respuesta, faltan, indice >>
    BY <1>10 DEF ReduceCarga
  <2> QED
    BY <2>1, <1>0, <1>k, <1>q, <1>u, <1>s, <1>e
<1>11. CASE ReducePagina
  <2>1. /\ hilo["cpu"] = "descarta" /\ faltan' = faltan - 1
        /\ hilo' = [hilo EXCEPT !["cpu"] = IF faltan = 1 THEN "libre" ELSE "reduce"]
        /\ respuesta' = IF faltan = 1 THEN "OK" ELSE "ninguna"
        /\ paginas' = [paginas EXCEPT ![sirve["cpu"]] = Front(@)]
        /\ UNCHANGED << sirve, confirmados, indice >>
    BY <1>11 DEF ReducePagina
  <2>2. /\ hilo["kernel"] # "libre" => paginas'[sirve["kernel"]] = paginas[sirve["kernel"]]
        /\ paginas'[sirve["cpu"]] = Front(paginas[sirve["cpu"]])
    BY <2>1, <1>0, <1>a, <1>b
  <2>3. /\ paginas[sirve["cpu"]] \in Seq(Marcos) /\ faltan <= Len(paginas[sirve["cpu"]])
        /\ Len(paginas[sirve["cpu"]]) \in Nat /\ faltan > 0
    BY <2>1, <1>0, <1>a, <1>k
  <2>4. paginas[sirve["cpu"]] # << >>
    BY <2>3, <1>0
  <2>5. Len(paginas'[sirve["cpu"]]) = Len(paginas[sirve["cpu"]]) - 1
    BY <2>2, <2>3, <2>4, FrenteLista
  <2>6. faltan' <= Len(paginas'[sirve["cpu"]]) /\ (faltan # 1 => faltan' > 0)
    BY <2>1, <2>3, <2>5, <1>0
  <2> QED
    BY <2>1, <2>2, <2>6, <1>0, <1>k, <1>q, <1>u, <1>s, <1>e
<1> QED
  BY <1>1, <1>2, <1>3, <1>4, <1>5, <1>6, <1>7, <1>8, <1>9, <1>10, <1>11
     DEF PasoMemoria, HiloKernel, HiloCPU

\* A process whose memory may be released stays so.
LEMMA SoltadoQueda ==
  ASSUME TiposMaquina, [Next]_vars
  PROVE  /\ \A p \in Proceso : situacion[p] = "EXIT" => situacion'[p] = "EXIT"
         /\ enVuelo \subseteq enVuelo'
<1>0. situacion \in [Proceso -> Situaciones]
  BY DEF TiposMaquina, TypeOKMaquina
<1>1. CASE Nucleo
  <2>1. ASSUME NEW p, NEW a, NEW b, EnSituacion(p, a, b), a # "EXIT"
        PROVE  \A q \in Proceso : situacion[q] = "EXIT" => situacion'[q] = "EXIT"
    BY <2>1, <1>0 DEF EnSituacion
  <2>2. enVuelo \subseteq enVuelo'
    BY <1>1 DEF Nucleo, NucleoCrea, NucleoAdmite, NucleoDespacha, NucleoDespierta,
       NucleoFinalizaOtro, NucleoFinalizaNuevo, NucleoFinalizaEnVuelo, NucleoDesaloja,
       NucleoFinaliza, NucleoTermina, NucleoReencola, NucleoContinua, NucleoBloquea
  <2> QED
    BY <2>1, <2>2, <1>1 DEF Nucleo, NucleoCrea, NucleoAdmite, NucleoDespacha,
       NucleoDespierta, NucleoFinalizaOtro, NucleoFinalizaNuevo, NucleoFinalizaEnVuelo,
       NucleoDesaloja, NucleoFinaliza, NucleoTermina, NucleoReencola, NucleoContinua,
       NucleoBloquea
<1>2. CASE PasoMemoria \/ PasoCiclo \/ PasoInterrupcion \/ Carrera \/ UNCHANGED vars
  BY <1>2 DEF PasoMemoria, PasoCiclo, PasoInterrupcion, Carrera, vars
<1> QED
  BY <1>1, <1>2 DEF Next, Quieta

\* The others: a resize begins and ends with the cycle at "resize", and not while the other
\* thread frees the same process; what a resize in vain leaves is for the next fetch.
LEMMA PasoEnServicio ==
  ASSUME TiposMaquina, UnTurno, EnServicio, PedidosEnOrden, CreadosEnMemoria, [Next]_vars
  PROVE  EnServicio'
<1> USE DEF HilosMemoria, EtapasKernel, EtapasCPU
<1>0. /\ hilo \in [HilosMemoria -> EtapasKernel \cup EtapasCPU]
      /\ sirve \in [HilosMemoria -> Proceso \cup {0}]
      /\ paginas \in [Proceso -> Seq(Marcos)] /\ faltan \in Nat
      /\ situacion \in [Proceso -> Situaciones]
  BY DEF TiposMaquina, TypeOKMaquina
<1>s. /\ \A p \in Proceso : Soltado(p) => situacion'[p] = "EXIT" \/ p \in enVuelo'
      /\ enVuelo # {} => enVuelo' # {}
      /\ (Soltado(sirve["kernel"]))' <=>
            situacion'[sirve'["kernel"]] = "EXIT" \/ sirve'["kernel"] \in enVuelo'
  BY SoltadoQueda DEF Soltado
<1>1. CASE Nucleo
  <2>1. UNCHANGED << cpu, pcb, hilo, sirve, paginas, respuesta, faltan, indice, confirmados >>
    BY <1>1 DEF Nucleo, NucleoCrea, NucleoAdmite, NucleoDespacha, NucleoDespierta,
       NucleoFinalizaOtro, NucleoFinalizaNuevo, NucleoFinalizaEnVuelo, NucleoDesaloja,
       NucleoFinaliza, NucleoTermina, NucleoReencola, NucleoContinua, NucleoBloquea
  <2> QED
    BY <2>1, <1>s DEF EnServicio, Trabaja
<1>2. CASE PasoMemoria
  BY <1>2, MemoriaEnServicio
<1>3. CASE PasoCiclo
  <2>1. UNCHANGED << situacion, paginas, confirmados, enVuelo >>
    BY <1>3 DEF PasoCiclo, CicloCPU, CPURecibe, CPUPendUsuario, CPUPendQuantum,
       CPULimpia, CPUFetch, CPUDecode, CPUEjecutaLocal, CPUPideTamano,
       CPUPideTamanoEnVano, CPURedimensionada, CPUSolicitaRecurso, CPUPideIO, CPUSale,
       CPUVeUsuario, CPUVeQuantum, MemoriaRedimensiona, MemoriaDesconoce, TomaRespuesta
  <2>2. CASE CPUPideTamano
    <3>1. /\ cpu = "decode" /\ cpu' = "resize" /\ pcb' = pcb /\ pcb \in Proceso
          /\ MemoriaRedimensiona(pcb, instruccion.tam)
          /\ pcb \in procesos /\ ~ (hilo["kernel"] # "libre" /\ sirve["kernel"] = pcb)
      BY <2>2, PcbEnExec DEF CPUPideTamano, Decodificada, Trabaja
    <3>2. PaginasPara(instruccion.tam) \in Nat /\ Len(paginas[pcb]) \in Nat
      BY <3>1, <1>0, PaginasParaNat DEF TiposMaquina, Instruccion
    <3>3. /\ hilo'["cpu"] # "libre" => faltan' > 0 /\ respuesta' = "ninguna"
          /\ hilo'["cpu"] \in {"libre", "asigna", "reduce"}
          /\ hilo'["cpu"] = "reduce" => faltan' <= Len(paginas[pcb])
          /\ sirve'["cpu"] = pcb /\ respuesta' # "resto"
          /\ hilo'["kernel"] = hilo["kernel"] /\ sirve'["kernel"] = sirve["kernel"]
      BY <3>1, <3>2, <1>0 DEF MemoriaRedimensiona
    <3>4. pcb \in confirmados
      BY <3>1 DEF CreadosEnMemoria
    <3> QED
      BY <2>1, <3>1, <3>3, <3>4, <1>s DEF EnServicio, Trabaja
  <2>3. CASE CPURedimensionada
    <3>1. /\ respuesta # "ninguna" /\ cpu' \notin {"decode", "resize"} /\ hilo' = hilo
          /\ sirve' = [sirve EXCEPT !["cpu"] = 0] /\ respuesta' = "ninguna"
      BY <2>3 DEF CPURedimensionada, TomaRespuesta, RespondeSinMemoria, Responde
    <3> QED
      BY <2>1, <3>1, <1>0, <1>s DEF EnServicio, Trabaja
  <2>5. CASE CPUPideTamanoEnVano
    <3>1. /\ cpu = "decode" /\ cpu' = "ve_usuario" /\ pcb' = pcb
          /\ pcb \in Proceso /\ situacion[pcb] = "EXEC" /\ pcb \notin procesos
          /\ UNCHANGED << hilo, sirve, faltan, indice >>
      BY <2>5, PcbEnExec DEF CPUPideTamanoEnVano, Decodificada, MemoriaDesconoce
    <3>2. hilo["cpu"] = "libre" /\ pcb \in confirmados
      BY <3>1 DEF EnServicio
    <3>3. pcb \in enVuelo
      BY <3>1, <3>2 DEF CreadosEnMemoria, Soltado
    <3> QED
      BY <2>1, <3>1, <3>2, <3>3, <1>s DEF EnServicio, Trabaja
  <2>4. ASSUME cpu # "resize", cpu' # "resize", UNCHANGED memoriaVars,
               cpu' = "decode" => respuesta # "resto" /\ pcb' \in confirmados,
               cpu = "muerto" => cpu' = "muerto" /\ pcb' = pcb
        PROVE  EnServicio'
    BY <2>1, <2>4, <1>s DEF EnServicio, Trabaja
  <2>6. CASE CPUFetch
    <3>1. pcb \in Proceso
      BY <2>6, PcbEnExec DEF CPUFetch
    <3> QED
      BY <2>4, <2>6, <3>1 DEF CPUFetch, Atendido, CreadosEnMemoria
  <2>7. CASE CPUDecode
    <3>1. cpu = "decode" /\ cpu' \in {"decode", "muerto"} /\ UNCHANGED memoriaVars
      BY <2>7 DEF CPUDecode
    <3>2. respuesta # "resto" /\ pcb \in confirmados /\ pcb' = pcb
      BY <2>7, <3>1 DEF EnServicio, CPUDecode
    <3> QED
      BY <2>4, <3>1, <3>2
  <2> QED
    BY <1>3, <2>2, <2>3, <2>4, <2>5, <2>6, <2>7 DEF PasoCiclo, CicloCPU, CPURecibe,
       CPUPendUsuario, CPUPendQuantum, CPULimpia, CPUEjecutaLocal,
       CPUSolicitaRecurso, CPUPideIO, CPUSale, CPUVeUsuario, CPUVeQuantum,
       Decodificada, Responde
<1>4. CASE PasoInterrupcion \/ UNCHANGED vars
  BY <1>4 DEF PasoInterrupcion, InterrupcionLlega, vars, EnServicio, Trabaja, Soltado
<1>5. CASE Carrera
  <2>1. UNCHANGED << memoriaVars, pcb, situacion, enVuelo >> /\ cpu' = "muerto"
    BY <1>5 DEF Carrera
  <2> QED
    BY <2>1, <1>s DEF EnServicio, Trabaja
<1> QED
  BY <1>1, <1>2, <1>3, <1>4, <1>5 DEF Next, Quieta

-----------------------------------------------------------------------------
(* The life of a process. *)

\* What the kernel does to a process takes it from one situation to another, and
\* none out of EXIT.
LEMMA PasoSituacion ==
  ASSUME TiposMaquina, [Next]_vars
  PROVE  /\ \A p \in Proceso : situacion[p] = "EXIT" => situacion'[p] = "EXIT"
         /\ \A p \in Proceso : situacion'[p] = "nuevo" => situacion[p] = "nuevo"
         /\ \A p \in Proceso : situacion'[p] = "pedido" =>
               situacion[p] \in {"nuevo", "pedido"}
         /\ redujo \subseteq redujo' /\ enVuelo \subseteq enVuelo'
         /\ sobra => sobra'
<1>0. situacion \in [Proceso -> Situaciones]
  BY DEF TiposMaquina, TypeOKMaquina
<1>1. CASE Nucleo
  <2>1. ASSUME NEW p, NEW a, NEW b, EnSituacion(p, a, b), b # "nuevo",
               b = "pedido" => a = "nuevo"
        PROVE  /\ \A q \in Proceso : situacion'[q] = "nuevo" => situacion[q] = "nuevo"
               /\ \A q \in Proceso : situacion'[q] = "pedido" =>
                     situacion[q] \in {"nuevo", "pedido"}
    BY <2>1, <1>0 DEF EnSituacion
  <2>2. redujo \subseteq redujo' /\ (sobra => sobra')
    BY <1>1 DEF Nucleo, NucleoCrea, NucleoAdmite, NucleoDespacha, NucleoDespierta,
       NucleoFinalizaOtro, NucleoFinalizaNuevo, NucleoFinalizaEnVuelo, NucleoDesaloja,
       NucleoFinaliza, NucleoTermina, NucleoReencola, NucleoContinua, NucleoBloquea
  <2> QED
    BY <2>1, <2>2, <1>1, SoltadoQueda DEF Nucleo, NucleoCrea, NucleoAdmite, NucleoDespacha,
       NucleoDespierta, NucleoFinalizaOtro, NucleoFinalizaNuevo, NucleoFinalizaEnVuelo,
       NucleoDesaloja, NucleoFinaliza, NucleoTermina, NucleoReencola, NucleoContinua,
       NucleoBloquea
<1>2. CASE PasoMemoria \/ PasoCiclo \/ PasoInterrupcion \/ Carrera \/ UNCHANGED vars
  BY <1>2, SoltadoQueda DEF PasoMemoria, PasoCiclo, PasoInterrupcion, Carrera, vars
<1> QED
  BY <1>1, <1>2 DEF Next, Quieta

\* The kernel does not write what the memory keeps, and the cycle and the
\* interrupts change nothing of it but the request of a resize.
LEMMA MemoriaQueda ==
  ASSUME Nucleo \/ PasoCiclo \/ PasoInterrupcion \/ Carrera \/ UNCHANGED vars
  PROVE  /\ UNCHANGED << procesos, paginas, bitVars, confirmados, byte >>
         /\ redujo' = redujo \/ \E p \in Proceso : NucleoFinalizaEnVuelo(p)
<1>1. CASE Nucleo
  BY <1>1 DEF Nucleo, NucleoCrea, NucleoAdmite, NucleoDespacha, NucleoDespierta,
     NucleoFinalizaOtro, NucleoFinalizaNuevo, NucleoFinalizaEnVuelo, NucleoDesaloja,
     NucleoFinaliza, NucleoTermina, NucleoReencola, NucleoContinua, NucleoBloquea
<1>2. CASE PasoCiclo
  BY <1>2 DEF PasoCiclo, CicloCPU, CPURecibe, CPUPendUsuario, CPUPendQuantum,
     CPULimpia, CPUFetch, CPUDecode, CPUEjecutaLocal, CPUPideTamano, CPUPideTamanoEnVano,
     CPURedimensionada, CPUSolicitaRecurso, CPUPideIO, CPUSale, CPUVeUsuario,
     CPUVeQuantum, MemoriaRedimensiona, MemoriaDesconoce, TomaRespuesta
<1>3. CASE PasoInterrupcion \/ Carrera \/ UNCHANGED vars
  BY <1>3 DEF PasoInterrupcion, InterrupcionLlega, Carrera, vars
<1> QED
  BY <1>1, <1>2, <1>3

\* How the page tables change: a page is added at the end of that of the process in
\* the CPU, or taken from there, or the first page of a process that ended, or was not
\* found, goes.
LEMMA CambioPaginas ==
  ASSUME TiposMaquina, UnTurno, EnServicio, PedidosEnOrden, CreadosEnMemoria, [Next]_vars
  PROVE  \/ paginas' = paginas
         \/ /\ MemoriaLiberaPagina /\ Soltado(sirve["kernel"])
            /\ sirve["kernel"] \in Proceso
            /\ paginas' = [paginas EXCEPT ![sirve["kernel"]] = Tail(@)]
            /\ UNCHANGED << mmuVars, cpuVars, nucleoVars, redujo >>
         \/ /\ AsignaEncuentra /\ pcb \in Proceso \cap confirmados /\ sirve["cpu"] = pcb
            /\ situacion[pcb] = "EXEC" /\ indice \in Marcos
            /\ paginas' = [paginas EXCEPT ![pcb] = Append(@, indice)]
            /\ UNCHANGED << mmuVars, cpuVars, nucleoVars, redujo >>
         \/ /\ ReducePagina /\ pcb \in Proceso /\ sirve["cpu"] = pcb
            /\ situacion[pcb] = "EXEC" /\ paginas[pcb] # << >>
            /\ paginas' = [paginas EXCEPT ![pcb] = Front(@)]
            /\ redujo' = redujo \cup {pcb}
            /\ UNCHANGED << mmuVars, cpuVars, nucleoVars >>
<1>0. /\ paginas \in [Proceso -> Seq(Marcos)]
      /\ hilo \in [HilosMemoria -> EtapasKernel \cup EtapasCPU] /\ faltan \in Nat
  BY DEF TiposMaquina, TypeOKMaquina
<1>1. CASE Nucleo \/ PasoCiclo \/ PasoInterrupcion \/ Carrera \/ UNCHANGED vars
  BY <1>1, MemoriaQueda
<1>a. PasoMemoria /\ hilo["cpu"] # "libre" =>
         pcb \in Proceso /\ sirve["cpu"] = pcb /\ situacion[pcb] = "EXEC" /\ faltan > 0
  BY PcbEnExec DEF EnServicio
<1>b. ~ (Nucleo \/ PasoCiclo \/ PasoInterrupcion \/ Carrera \/ UNCHANGED vars)
         => cpu # "muerto"
  BY DEF Next, Quieta
<1>2. CASE PasoMemoria /\ MemoriaCrea
  <2> DEFINE p == Head(pedidos_kernel).pid
  <2>1. p \in Proceso /\ p \notin confirmados
    BY <1>2, CabezaPedidos DEF MemoriaCrea
  <2>2. paginas[p] = << >>
    BY <2>1 DEF CreadosEnMemoria
  <2>3. paginas' = [paginas EXCEPT ![p] = << >>] \/ paginas' = paginas
    BY <1>2 DEF MemoriaCrea
  <2> HIDE DEF p
  <2>4. paginas' = paginas
    BY <2>1, <2>2, <2>3, <1>0
  <2> QED
    BY <2>4
<1>3. CASE PasoMemoria /\ (MemoriaTermina \/ MemoriaCargaParaLiberar
                           \/ MemoriaOlvidaProceso)
  BY <1>3 DEF MemoriaTermina, MemoriaCargaParaLiberar, MemoriaOlvidaProceso
<1>4. CASE PasoMemoria /\ MemoriaLiberaPagina
  <2>1. hilo' = [hilo EXCEPT !["kernel"] = "libera"]
    BY <1>4 DEF MemoriaLiberaPagina
  <2>2. redujo' = redujo
    BY <2>1, <1>0, <1>4 DEF PasoMemoria, HilosMemoria
  <2> QED
    BY <2>2, <1>4 DEF PasoMemoria, MemoriaLiberaPagina, EnServicio
<1>5. CASE PasoMemoria /\ (AsignaSaltea \/ AsignaMarca \/ AsignaSinMarcos \/ ReduceCarga)
  BY <1>5 DEF AsignaSaltea, AsignaMarca, AsignaSinMarcos, ReduceCarga
<1>6. CASE /\ PasoMemoria /\ AsignaEncuentra
           /\ ~ (Nucleo \/ PasoCiclo \/ PasoInterrupcion \/ Carrera \/ UNCHANGED vars)
  <2>1. redujo' = redujo
    BY <1>6 DEF PasoMemoria, AsignaEncuentra
  <2>2. pcb \in confirmados
    BY <1>6, <1>b DEF AsignaEncuentra, EnServicio
  <2> QED
    BY <2>1, <2>2, <1>6, <1>a DEF PasoMemoria, AsignaEncuentra
<1>7. CASE PasoMemoria /\ ReducePagina
  <2>1. hilo' = [hilo EXCEPT !["cpu"] = IF faltan = 1 THEN "libre" ELSE "reduce"]
        /\ hilo["cpu"] = "descarta"
    BY <1>7 DEF ReducePagina
  <2>2. redujo' = redujo \cup {pcb}
    BY <2>1, <1>0, <1>a, <1>7 DEF PasoMemoria, HilosMemoria
  <2>3. paginas[pcb] # << >>
    <3>1. faltan <= Len(paginas[pcb]) /\ faltan > 0
      BY <2>1, <1>a DEF EnServicio
    <3> QED
      BY <3>1, <1>0
  <2> QED
    BY <2>1, <2>2, <2>3, <1>7, <1>a DEF PasoMemoria, ReducePagina
<1> QED
  BY <1>1, <1>2, <1>3, <1>4, <1>5, <1>6, <1>7
     DEF PasoMemoria, HiloKernel, HiloCPU, Next, Quieta

\* Who was not created is in NEW, or was admitted with the confirmation of another.
LEMMA EsperaConfirmacion ==
  ASSUME TiposMaquina, CreadosEnMemoria, NuevosEnOrden, [Next]_vars,
         NEW p \in Proceso, p \notin confirmados
  PROVE  situacion'[p] \in {"nuevo", "pedido"} \/ sobra'
<1>0. /\ situacion \in [Proceso -> Situaciones]
      /\ confirmaciones \in Seq(Confirmaciones) /\ nuevos \in Seq(Proceso)
  BY DEF TiposMaquina, TypeOKMaquina
<1>a. /\ situacion[p] \in {"nuevo", "pedido"} \/ sobra
      /\ sobra => sobra'
  BY PasoSituacion DEF CreadosEnMemoria, EnEspera
<1> SUFFICES ASSUME situacion[p] \in {"nuevo", "pedido"}, ~ sobra'
             PROVE  situacion'[p] \in {"nuevo", "pedido"}
  BY <1>a
<1>1. ASSUME NEW q, NEW a, NEW b, EnSituacion(q, a, b),
             b = "pedido" \/ a \notin {"nuevo", "pedido"} \/ q # p
      PROVE  situacion'[p] \in {"nuevo", "pedido"}
  BY <1>1, <1>0 DEF EnSituacion
<1>2. ASSUME NEW q \in Proceso, NucleoAdmite(q)
      PROVE  situacion'[p] \in {"nuevo", "pedido"}
  <2>1. /\ 1 \in 1 .. Len(confirmaciones)
        /\ confirmaciones[1] = "MEMORY_PROCESS_CREATE"
        /\ q = nuevos[1]
    BY <1>2, <1>0 DEF NucleoAdmite
  <2>2. ~ sobra
    BY <1>a
  <2>3. q \in confirmados
    BY <2>1, <2>2 DEF NuevosEnOrden
  <2> QED
    BY <2>3, <1>1, <1>2 DEF NucleoAdmite
<1>3. CASE NucleoTermina \/ NucleoReencola \/ NucleoContinua \/ NucleoBloquea
           \/ NucleoDesaloja \/ NucleoFinaliza
  BY <1>1, <1>3 DEF NucleoDesaloja, NucleoFinaliza, NucleoTermina, NucleoReencola,
     NucleoContinua, NucleoBloquea
<1>4. ASSUME NEW q \in Proceso,
             NucleoCrea(q) \/ NucleoDespacha(q) \/ NucleoDespierta(q)
             \/ NucleoFinalizaOtro(q) \/ NucleoFinalizaNuevo(q)
             \/ NucleoFinalizaEnVuelo(q)
      PROVE  situacion'[p] \in {"nuevo", "pedido"}
  BY <1>1, <1>4 DEF NucleoCrea, NucleoDespacha, NucleoDespierta, NucleoFinalizaOtro,
     NucleoFinalizaNuevo, NucleoFinalizaEnVuelo
<1>5. CASE PasoMemoria \/ PasoCiclo \/ PasoInterrupcion \/ Carrera \/ UNCHANGED vars
  BY <1>5 DEF PasoMemoria, PasoCiclo, PasoInterrupcion, Carrera, vars
<1> QED
  BY <1>2, <1>3, <1>4, <1>5 DEF Next, Quieta, Nucleo

\* The dictionary of processes, the page tables and the kernel agree on who is there.
LEMMA PasoCreadosEnMemoria ==
  ASSUME TiposMaquina, UnTurno, EnServicio, PedidosEnOrden, CreadosEnMemoria,
         NuevosEnOrden, [Next]_vars
  PROVE  CreadosEnMemoria'
<1>0. /\ paginas \in [Proceso -> Seq(Marcos)] /\ situacion \in [Proceso -> Situaciones]
      /\ confirmados \subseteq Proceso
  BY DEF TiposMaquina, TypeOKMaquina
<1>a. /\ \A p \in Proceso : Soltado(p) => situacion'[p] = "EXIT" \/ p \in enVuelo'
      /\ \A p \in Proceso : situacion'[p] = "nuevo" => situacion[p] = "nuevo"
      /\ sobra => sobra'
  BY PasoSituacion DEF Soltado
<1>b. \A p \in Proceso : p \notin confirmados =>
         paginas[p] = << >> /\ p \notin procesos
         /\ (situacion[p] \in {"nuevo", "pedido"} \/ sobra)
  BY DEF CreadosEnMemoria, EnEspera
<1>c. ASSUME \A p \in Proceso : p \notin confirmados' =>
                paginas'[p] = << >> /\ p \notin procesos'
                /\ (situacion'[p] \in {"nuevo", "pedido"} \/ sobra'),
             \A p \in Proceso : situacion'[p] = "nuevo" => p \notin confirmados',
             \A p \in Proceso : p \in confirmados' /\ situacion'[p] # "EXIT"
                                   /\ p \notin enVuelo' => p \in procesos'
      PROVE  CreadosEnMemoria'
  BY <1>c DEF CreadosEnMemoria, EnEspera, Soltado
<1>d. \A p \in Proceso : p \in confirmados /\ situacion'[p] # "EXIT" /\ p \notin enVuelo'
         => p \in procesos
  BY <1>a DEF CreadosEnMemoria
<1>e. \A p \in Proceso : situacion'[p] = "nuevo" => p \notin confirmados
  BY <1>a DEF CreadosEnMemoria
<1>1. CASE Nucleo
  <2>1. UNCHANGED << procesos, paginas, confirmados >>
    BY <1>1, MemoriaQueda
  <2>3. \A p \in Proceso : p \notin confirmados =>
           situacion'[p] \in {"nuevo", "pedido"} \/ sobra'
    BY EsperaConfirmacion
  <2> QED
    BY <2>1, <2>3, <1>b, <1>c, <1>d, <1>e
<1>2. CASE PasoCiclo \/ PasoInterrupcion \/ Carrera \/ UNCHANGED vars
  <2>1. UNCHANGED << procesos, paginas, confirmados >>
    BY <1>2, MemoriaQueda
  <2>2. UNCHANGED << situacion, sobra >>
    BY <1>2 DEF PasoCiclo, PasoInterrupcion, Carrera, vars
  <2> QED
    BY <2>1, <2>2, <1>b, <1>c, <1>d, <1>e
<1>3. CASE cpu # "muerto" /\ PasoMemoria
  <2>1. UNCHANGED << situacion, sobra >>
    BY <1>3 DEF PasoMemoria
  <2>2. CASE MemoriaCrea
    <3> DEFINE p == Head(pedidos_kernel).pid
    <3>1. p \in Proceso /\ situacion[p] # "nuevo"
      BY <2>2, CabezaPedidos DEF MemoriaCrea, EnEspera
    <3>2. \/ UNCHANGED << procesos, paginas, confirmados >>
          \/ /\ procesos' = procesos \cup {p} /\ confirmados' = confirmados \cup {p}
             /\ paginas' = [paginas EXCEPT ![p] = << >>]
      BY <2>2 DEF MemoriaCrea
    <3> HIDE DEF p
    <3> QED
      BY <3>1, <3>2, <2>1, <1>0, <1>b, <1>c, <1>d, <1>e
  <2>3. CASE MemoriaOlvidaProceso
    <3>1. /\ sirve["kernel"] \in Proceso /\ Soltado(sirve["kernel"])
          /\ procesos' = procesos \ {sirve["kernel"]}
          /\ UNCHANGED << paginas, confirmados >>
      BY <2>3 DEF MemoriaOlvidaProceso, EnServicio
    <3> QED
      BY <3>1, <2>1, <1>a, <1>b, <1>c, <1>d, <1>e
  <2>4. CASE ~ MemoriaCrea /\ ~ MemoriaOlvidaProceso
    <3>1. UNCHANGED << procesos, confirmados >>
      BY <2>4, <1>3 DEF PasoMemoria, HiloKernel, HiloCPU, MemoriaTermina,
         MemoriaCargaParaLiberar, MemoriaLiberaPagina, AsignaSaltea, AsignaEncuentra,
         AsignaMarca, AsignaSinMarcos, ReduceCarga, ReducePagina
    <3>2. \A p \in Proceso : p \notin confirmados => paginas'[p] = paginas[p]
      <4>1. CASE paginas' = paginas
        BY <4>1
      <4>2. CASE /\ MemoriaLiberaPagina /\ sirve["kernel"] \in Proceso
                 /\ paginas' = [paginas EXCEPT ![sirve["kernel"]] = Tail(@)]
        <5>1. paginas[sirve["kernel"]] # << >>
          BY <4>2 DEF MemoriaLiberaPagina, EnServicio
        <5> QED
          BY <4>2, <5>1, <1>0, <1>b
      <4>3. CASE /\ pcb \in Proceso \cap confirmados
                 /\ paginas' = [paginas EXCEPT ![pcb] = Append(@, indice)]
        BY <4>3, <1>0
      <4>4. CASE /\ pcb \in Proceso /\ paginas[pcb] # << >>
                 /\ paginas' = [paginas EXCEPT ![pcb] = Front(@)]
        BY <4>4, <1>0, <1>b
      <4> QED
        BY <4>1, <4>2, <4>3, <4>4, CambioPaginas
    <3> QED
      BY <3>1, <3>2, <2>1, <1>b, <1>c, <1>d, <1>e
  <2> QED
    BY <2>2, <2>3, <2>4
<1> QED
  BY <1>1, <1>2, <1>3 DEF Next, Quieta

\* The requests of the kernel come in an order in which each is due.
LEMMA PasoPedidosEnOrden ==
  ASSUME TiposMaquina, UnTurno, PedidosEnOrden, CreadosEnMemoria, NuevosEnOrden,
         [Next]_vars
  PROVE  PedidosEnOrden'
<1>0. /\ situacion \in [Proceso -> Situaciones] /\ pedidos_kernel \in Seq(PedidoMemoria)
      /\ confirmados \subseteq Proceso
  BY DEF TiposMaquina, TypeOKMaquina
<1>a. \A k \in 1 .. Len(pedidos_kernel) :
         /\ pedidos_kernel[k] \in PedidoMemoria /\ pedidos_kernel[k].pid \in Proceso
         /\ pedidos_kernel[k].op \in {"MEMORY_PROCESS_CREATE", "MEMORY_PROCESS_TERM"}
  <2>1. \A k \in 1 .. Len(pedidos_kernel) : pedidos_kernel[k] \in PedidoMemoria
    BY <1>0
  <2> QED
    BY <2>1 DEF PedidoMemoria
<1>b. \A r \in PedidoMemoria, s \in PedidoMemoria : r.op = s.op /\ r.pid = s.pid => r = s
  BY DEF PedidoMemoria
<1> DEFINE S(p) == situacion'[p] = "EXIT" \/ p \in enVuelo'
           W(p) == situacion'[p] = "pedido" \/ (sobra' /\ situacion'[p] # "nuevo")
<1>s. /\ \A p \in Proceso : Soltado(p) => S(p)
      /\ \A p \in Proceso : EnEspera(p) /\ p \notin confirmados => W(p)
  <2>1. \A p \in Proceso : p \notin confirmados =>
           situacion'[p] \in {"nuevo", "pedido"} \/ sobra'
    BY EsperaConfirmacion
  <2>2. \A p \in Proceso : EnEspera(p) => situacion'[p] # "nuevo"
    BY PasoSituacion DEF EnEspera
  <2> QED
    BY <2>1, <2>2, PasoSituacion DEF Soltado
<1>q. ASSUME \A k \in 1 .. Len(pedidos_kernel') :
                IF pedidos_kernel'[k].op = "MEMORY_PROCESS_CREATE"
                THEN /\ W(pedidos_kernel'[k].pid)
                     /\ pedidos_kernel'[k].pid \notin confirmados'
                     /\ \A j \in 1 .. Len(pedidos_kernel') :
                           pedidos_kernel'[j] = pedidos_kernel'[k] => j = k
                ELSE S(pedidos_kernel'[k].pid)
      PROVE  PedidosEnOrden'
  BY <1>q DEF PedidosEnOrden, EnEspera, Soltado
<1> HIDE DEF S, W
<1>1. ASSUME UNCHANGED << pedidos_kernel, confirmados >>
      PROVE  PedidosEnOrden'
  <2>1. \A k \in 1 .. Len(pedidos_kernel) :
           IF pedidos_kernel[k].op = "MEMORY_PROCESS_CREATE"
           THEN /\ W(pedidos_kernel[k].pid)
                /\ pedidos_kernel[k].pid \notin confirmados
                /\ \A j \in 1 .. Len(pedidos_kernel) :
                      pedidos_kernel[j] = pedidos_kernel[k] => j = k
           ELSE S(pedidos_kernel[k].pid)
    BY <1>a, <1>s DEF PedidosEnOrden
  <2> QED
    BY <2>1, <1>1, <1>q
<1>2. ASSUME NEW p \in Proceso, NEW op \in {"MEMORY_PROCESS_CREATE", "MEMORY_PROCESS_TERM"},
             Pide(op, p), UNCHANGED confirmados,
             IF op = "MEMORY_PROCESS_CREATE" THEN EnSituacion(p, "nuevo", "pedido")
             ELSE \/ \E a : EnSituacion(p, a, "EXIT")
                  \/ p \in enVuelo'
      PROVE  PedidosEnOrden'
  <2> DEFINE r == [op |-> op, pid |-> p]
  <2>1. r \in PedidoMemoria /\ r.op = op /\ r.pid = p
    BY DEF PedidoMemoria
  <2>2. pedidos_kernel' = Append(pedidos_kernel, r)
    BY <1>2 DEF Pide
  <2> HIDE DEF r
  <2>3. /\ Len(pedidos_kernel') = Len(pedidos_kernel) + 1 /\ Len(pedidos_kernel) \in Nat
        /\ \A k \in 1 .. Len(pedidos_kernel) : pedidos_kernel'[k] = pedidos_kernel[k]
        /\ pedidos_kernel'[Len(pedidos_kernel) + 1] = r
    BY <2>1, <2>2, <1>0, AppendProperties
  <2>4. IF op = "MEMORY_PROCESS_CREATE" THEN situacion[p] = "nuevo" /\ W(p) ELSE S(p)
    BY <1>0, <1>2 DEF EnSituacion, S, W
  <2>5. ASSUME NEW k \in 1 .. Len(pedidos_kernel)
        PROVE  IF pedidos_kernel[k].op = "MEMORY_PROCESS_CREATE"
               THEN /\ W(pedidos_kernel[k].pid)
                    /\ pedidos_kernel[k].pid \notin confirmados /\ pedidos_kernel[k] # r
               ELSE S(pedidos_kernel[k].pid)
    <3>1. IF pedidos_kernel[k].op = "MEMORY_PROCESS_CREATE"
          THEN /\ EnEspera(pedidos_kernel[k].pid) /\ pedidos_kernel[k].pid \notin confirmados
          ELSE Soltado(pedidos_kernel[k].pid)
      BY DEF PedidosEnOrden
    <3>2. pedidos_kernel[k] = r /\ op = "MEMORY_PROCESS_CREATE" => ~ EnEspera(r.pid)
      BY <2>1, <2>4 DEF EnEspera
    <3> QED
      BY <3>1, <3>2, <2>1, <1>a, <1>s
  <2>6. op = "MEMORY_PROCESS_CREATE" => p \notin confirmados
    BY <2>4, <1>2 DEF CreadosEnMemoria
  <2>7. \A k \in 1 .. Len(pedidos_kernel') :
            k \in 1 .. Len(pedidos_kernel) \/ k = Len(pedidos_kernel) + 1
    BY <2>3
  <2>8. ASSUME NEW k \in 1 .. Len(pedidos_kernel'),
               pedidos_kernel'[k].op = "MEMORY_PROCESS_CREATE"
        PROVE  \A j \in 1 .. Len(pedidos_kernel') :
                  pedidos_kernel'[j] = pedidos_kernel'[k] => j = k
    <3> SUFFICES ASSUME NEW j \in 1 .. Len(pedidos_kernel'),
                        pedidos_kernel'[j] = pedidos_kernel'[k]
                 PROVE  j = k
      OBVIOUS
    <3>1. CASE j \in 1 .. Len(pedidos_kernel) /\ k \in 1 .. Len(pedidos_kernel)
      BY <3>1, <2>3, <2>8 DEF PedidosEnOrden
    <3>2. CASE j = Len(pedidos_kernel) + 1 /\ k \in 1 .. Len(pedidos_kernel)
      BY <3>2, <2>3, <2>5, <2>8
    <3>3. CASE k = Len(pedidos_kernel) + 1 /\ j \in 1 .. Len(pedidos_kernel)
      BY <3>3, <2>3, <2>5, <2>8
    <3> QED
      BY <3>1, <3>2, <3>3, <2>7
  <2>9. ASSUME NEW k \in 1 .. Len(pedidos_kernel')
        PROVE  IF pedidos_kernel'[k].op = "MEMORY_PROCESS_CREATE"
               THEN /\ W(pedidos_kernel'[k].pid)
                    /\ pedidos_kernel'[k].pid \notin confirmados'
               ELSE S(pedidos_kernel'[k].pid)
    <3>1. CASE k \in 1 .. Len(pedidos_kernel)
      BY <3>1, <2>3, <2>5, <1>2
    <3>2. CASE k = Len(pedidos_kernel) + 1
      BY <3>2, <2>1, <2>3, <2>4, <2>6, <1>2
    <3> QED
      BY <3>1, <3>2, <2>7
  <2> QED
    BY <2>8, <2>9, <1>q
<1>3. CASE Nucleo
  <2>1. UNCHANGED confirmados
    BY <1>3, MemoriaQueda
  <2>2. ASSUME NEW p \in Proceso, NucleoCrea(p)
        PROVE  PedidosEnOrden'
    BY <2>1, <2>2, <1>2 DEF NucleoCrea
  <2>3. ASSUME NEW p \in Proceso, NucleoFinalizaOtro(p) \/ NucleoFinalizaNuevo(p)
        PROVE  PedidosEnOrden'
    BY <2>1, <2>3, <1>2 DEF NucleoFinalizaOtro, NucleoFinalizaNuevo
  <2>5. ASSUME NEW p \in Proceso, NucleoFinalizaEnVuelo(p)
        PROVE  PedidosEnOrden'
    BY <2>1, <2>5, <1>2 DEF NucleoFinalizaEnVuelo
  <2>4. CASE NucleoTermina
    <3>1. Llegado \in Proceso
      <4>1. contextos # << >> /\ contextos \in Seq(Contexto)
        BY <2>4 DEF NucleoTermina, Llega, TiposMaquina
      <4>2. Head(contextos) \in Contexto
        BY <4>1
      <4> QED
        BY <4>2 DEF Llegado, Contexto
    <3> QED
      BY <2>1, <2>4, <3>1, <1>2 DEF NucleoTermina
  <2>6. ASSUME NEW p \in Proceso, NucleoAdmite(p) \/ NucleoDespacha(p) \/ NucleoDespierta(p)
        PROVE  PedidosEnOrden'
    BY <2>1, <2>6, <1>1 DEF NucleoAdmite, NucleoDespacha, NucleoDespierta
  <2>7. CASE NucleoReencola \/ NucleoBloquea \/ NucleoDesaloja \/ NucleoFinaliza
             \/ NucleoContinua
    BY <2>1, <2>7, <1>1 DEF NucleoReencola, NucleoBloquea, NucleoDesaloja, NucleoFinaliza,
       NucleoContinua
  <2> QED
    BY <2>2, <2>3, <2>4, <2>5, <2>6, <2>7, <1>3 DEF Nucleo
<1>4. CASE PasoCiclo \/ PasoInterrupcion \/ Carrera \/ UNCHANGED vars
  <2>1. UNCHANGED confirmados
    BY <1>4, MemoriaQueda
  <2>2. UNCHANGED pedidos_kernel
    BY <1>4 DEF PasoCiclo, PasoInterrupcion, InterrupcionLlega, Carrera, vars, CicloCPU,
       CPURecibe, CPUPendUsuario, CPUPendQuantum, CPULimpia, CPUFetch, CPUDecode,
       CPUEjecutaLocal, CPUPideTamano, CPUPideTamanoEnVano, CPURedimensionada,
       CPUSolicitaRecurso, CPUPideIO, CPUSale, CPUVeUsuario, CPUVeQuantum,
       MemoriaRedimensiona, MemoriaDesconoce, TomaRespuesta
  <2> QED
    BY <2>1, <2>2, <1>1
<1>5. CASE PasoMemoria
  <2>2. CASE MemoriaCrea \/ MemoriaTermina
    <3> DEFINE q == Head(pedidos_kernel)
               t == Tail(pedidos_kernel)
    <3>1. pedidos_kernel # << >> /\ pedidos_kernel' = t
      BY <2>2 DEF MemoriaCrea, MemoriaTermina
    <3>2. /\ q \in PedidoMemoria
          /\ \A k \in 1 .. Len(t) :
                /\ t[k] = pedidos_kernel[k + 1] /\ k + 1 \in 1 .. Len(pedidos_kernel)
                /\ q.op = "MEMORY_PROCESS_CREATE" => pedidos_kernel[k + 1] # q
      BY <3>1, CabezaPedidos
    <3>3. \/ confirmados' = confirmados
          \/ q.op = "MEMORY_PROCESS_CREATE" /\ confirmados' = confirmados \cup {q.pid}
      BY <2>2 DEF MemoriaCrea, MemoriaTermina
    <3>4. \A k \in 1 .. Len(t) : k \in Int
      OBVIOUS
    <3> HIDE DEF q, t
    <3>5. ASSUME NEW k \in 1 .. Len(t)
          PROVE  IF t[k].op = "MEMORY_PROCESS_CREATE"
                 THEN W(t[k].pid) /\ t[k].pid \notin confirmados'
                 ELSE S(t[k].pid)
      <4>1. /\ t[k] \in PedidoMemoria
            /\ IF t[k].op = "MEMORY_PROCESS_CREATE"
               THEN W(t[k].pid) /\ t[k].pid \notin confirmados
               ELSE S(t[k].pid)
        BY <3>2, <1>a, <1>s DEF PedidosEnOrden
      <4>2. t[k].op = "MEMORY_PROCESS_CREATE" /\ q.op = t[k].op => t[k].pid # q.pid
        BY <4>1, <3>2, <1>b
      <4> QED
        BY <4>1, <4>2, <3>3
    <3>6. ASSUME NEW k \in 1 .. Len(t), t[k].op = "MEMORY_PROCESS_CREATE",
                 NEW j \in 1 .. Len(t), t[j] = t[k]
          PROVE  j = k
      <4>1. j + 1 = k + 1
        BY <3>2, <3>6 DEF PedidosEnOrden
      <4> QED
        BY <4>1, <3>4
    <3> QED
      BY <3>1, <3>5, <3>6, <1>q
  <2>3. CASE ~ MemoriaCrea /\ ~ MemoriaTermina
    <3>1. UNCHANGED << pedidos_kernel, confirmados >>
      BY <2>3, <1>5 DEF PasoMemoria, HiloKernel, HiloCPU, MemoriaOlvidaProceso,
         MemoriaCargaParaLiberar, MemoriaLiberaPagina, AsignaSaltea, AsignaEncuentra,
         AsignaMarca, AsignaSinMarcos, ReduceCarga, ReducePagina
    <3> QED
      BY <3>1, <1>1
  <2> QED
    BY <2>2, <2>3
<1> QED
  BY <1>3, <1>4, <1>5 DEF Next, Quieta

-----------------------------------------------------------------------------
(* Those in NEW. *)

\* NuevosEnOrden, of any lists: of requests, of confirmations and of those in NEW.
Creacion(p) == [op |-> "MEMORY_PROCESS_CREATE", pid |-> p]
Distintos(N) == \A j, k \in 1 .. Len(N) : N[j] = N[k] => j = k
EnOrden(P, c, N, C) ==
    /\ Len(c) <= Len(N)
    /\ \A k \in 1 .. Len(c) : c[k] = "MEMORY_PROCESS_CREATE" => N[k] \in C
    /\ \A k \in 1 .. Len(N) :
          k > Len(c) <=> \E j \in 1 .. Len(P) : P[j] = Creacion(N[k])
    /\ \A i, j \in 1 .. Len(P), k, l \in 1 .. Len(N) :
          i < j /\ P[i] = Creacion(N[k]) /\ P[j] = Creacion(N[l]) => k < l
    /\ \A j \in 1 .. Len(P) : P[j].op = "MEMORY_PROCESS_CREATE" =>
          \E k \in 1 .. Len(N) : P[j].pid = N[k]

\* A request to create is known by its pid.
LEMMA Creaciones ==
  /\ \A p \in Proceso : Creacion(p) \in PedidoMemoria
  /\ \A p, q : Creacion(p) = Creacion(q) => p = q
  /\ \A p : Creacion(p).op = "MEMORY_PROCESS_CREATE" /\ Creacion(p).pid = p
  /\ \A r \in PedidoMemoria : r.op = "MEMORY_PROCESS_CREATE" => r = Creacion(r.pid)
<1>1. \A p \in Proceso : Creacion(p) \in PedidoMemoria
  BY DEF Creacion, PedidoMemoria
<1>2. \A p : Creacion(p).op = "MEMORY_PROCESS_CREATE" /\ Creacion(p).pid = p
  BY DEF Creacion
<1>3. \A r \in PedidoMemoria : r.op = "MEMORY_PROCESS_CREATE" => r = Creacion(r.pid)
  BY DEF Creacion, PedidoMemoria
<1>4. ASSUME NEW p, NEW q, Creacion(p) = Creacion(q) PROVE p = q
  BY <1>2, <1>4
<1> QED
  BY <1>1, <1>2, <1>3, <1>4

\* Another request.
LEMMA OrdenPide ==
  ASSUME NEW P \in Seq(PedidoMemoria), NEW c \in Seq(Confirmaciones),
         NEW N \in Seq(Proceso), NEW C, EnOrden(P, c, N, C),
         NEW r \in PedidoMemoria, r.op # "MEMORY_PROCESS_CREATE",
         NEW Q, Q = Append(P, r)
  PROVE  EnOrden(Q, c, N, C)
<1>1. /\ Len(P) \in Nat /\ Len(Q) = Len(P) + 1 /\ Q[Len(P) + 1] = r
      /\ \A k \in 1 .. Len(P) : Q[k] = P[k]
  BY AppendProperties
<1>2. \A k \in 1 .. Len(Q) : k \in 1 .. Len(P) \/ k = Len(P) + 1
  BY <1>1
<1>3. \A p : r # Creacion(p)
  BY Creaciones
<1>4. \A p : \A j \in 1 .. Len(Q) : Q[j] = Creacion(p) => j \in 1 .. Len(P) /\ P[j] = Creacion(p)
  BY <1>1, <1>2, <1>3
<1>5. \A p : \A j \in 1 .. Len(P) : P[j] = Creacion(p) => j \in 1 .. Len(Q) /\ Q[j] = Creacion(p)
  BY <1>1
<1>6. \A j \in 1 .. Len(Q) : Q[j].op = "MEMORY_PROCESS_CREATE" =>
         \E k \in 1 .. Len(N) : Q[j].pid = N[k]
  <2>1. \A j \in 1 .. Len(Q) : Q[j].op = "MEMORY_PROCESS_CREATE" =>
           j \in 1 .. Len(P) /\ Q[j] = P[j]
    BY <1>1, <1>2
  <2> QED
    BY <2>1 DEF EnOrden
<1>7. \A k \in 1 .. Len(N) : k > Len(c) <=> \E j \in 1 .. Len(Q) : Q[j] = Creacion(N[k])
  <2>1. \A p : (\E j \in 1 .. Len(Q) : Q[j] = Creacion(p))
                  <=> \E j \in 1 .. Len(P) : P[j] = Creacion(p)
    BY <1>4, <1>5
  <2> QED
    BY <2>1 DEF EnOrden
<1>8. \A i, j \in 1 .. Len(Q), k, l \in 1 .. Len(N) :
         i < j /\ Q[i] = Creacion(N[k]) /\ Q[j] = Creacion(N[l]) => k < l
  <2> TAKE i, j \in 1 .. Len(Q), k, l \in 1 .. Len(N)
  <2> HAVE i < j /\ Q[i] = Creacion(N[k]) /\ Q[j] = Creacion(N[l])
  <2>1. /\ i \in 1 .. Len(P) /\ P[i] = Creacion(N[k])
        /\ j \in 1 .. Len(P) /\ P[j] = Creacion(N[l])
    BY <1>4
  <2> QED
    BY <2>1 DEF EnOrden
<1> QED
  BY <1>6, <1>7, <1>8 DEF EnOrden

\* iniciar_proceso: the request is the last one, of the last of NEW.
LEMMA OrdenCrea ==
  ASSUME NEW P \in Seq(PedidoMemoria), NEW c \in Seq(Confirmaciones),
         NEW N \in Seq(Proceso), NEW C, EnOrden(P, c, N, C),
         NEW p \in Proceso, \A k \in 1 .. Len(N) : N[k] # p,
         NEW Q, Q = Append(P, Creacion(p)), NEW M, M = Append(N, p)
  PROVE  EnOrden(Q, c, M, C)
<1>1. /\ Len(P) \in Nat /\ Len(Q) = Len(P) + 1 /\ Q[Len(P) + 1] = Creacion(p)
      /\ \A k \in 1 .. Len(P) : Q[k] = P[k]
  BY Creaciones, AppendProperties
<1>2. /\ Len(N) \in Nat /\ Len(M) = Len(N) + 1 /\ M[Len(N) + 1] = p
      /\ \A k \in 1 .. Len(N) : M[k] = N[k]
  BY AppendProperties
<1>3. /\ \A j \in 1 .. Len(Q) : j \in 1 .. Len(P) \/ j = Len(P) + 1
      /\ \A k \in 1 .. Len(M) : k \in 1 .. Len(N) \/ k = Len(N) + 1
      /\ \A j \in 1 .. Len(P) : j \in 1 .. Len(Q) /\ j < Len(P) + 1
      /\ \A k \in 1 .. Len(N) : k \in 1 .. Len(M) /\ k < Len(N) + 1
      /\ Len(P) + 1 \in 1 .. Len(Q) /\ Len(N) + 1 \in 1 .. Len(M)
      /\ Len(c) \in Nat
  BY <1>1, <1>2
<1>4. \A j \in 1 .. Len(P) : P[j] # Creacion(p)
  <2> SUFFICES ASSUME NEW j \in 1 .. Len(P), P[j] = Creacion(p)
               PROVE  FALSE
    OBVIOUS
  <2>1. P[j].op = "MEMORY_PROCESS_CREATE" /\ P[j].pid = p
    BY Creaciones
  <2> QED
    BY <2>1 DEF EnOrden
<1>5. \A j \in 1 .. Len(Q), k \in 1 .. Len(M) : Q[j] = Creacion(M[k]) =>
         \/ j \in 1 .. Len(P) /\ k \in 1 .. Len(N) /\ P[j] = Creacion(N[k])
         \/ j = Len(P) + 1 /\ k = Len(N) + 1
  BY <1>1, <1>2, <1>3, <1>4, Creaciones
<1>6. /\ Len(c) <= Len(M)
      /\ \A k \in 1 .. Len(c) : c[k] = "MEMORY_PROCESS_CREATE" => M[k] \in C
  BY <1>2, <1>3 DEF EnOrden
<1>7. ASSUME NEW k \in 1 .. Len(M)
      PROVE  k > Len(c) <=> \E j \in 1 .. Len(Q) : Q[j] = Creacion(M[k])
  <2>1. CASE k \in 1 .. Len(N)
    <3>1. k # Len(N) + 1
      BY <2>1, <1>2
    <3>2. (\E j \in 1 .. Len(Q) : Q[j] = Creacion(M[k]))
             <=> \E j \in 1 .. Len(P) : P[j] = Creacion(N[k])
      BY <2>1, <3>1, <1>1, <1>2, <1>3, <1>5
    <3> QED
      BY <2>1, <3>2 DEF EnOrden
  <2>2. CASE k = Len(N) + 1
    <3>1. k > Len(c)
      BY <2>2, <1>2, <1>3 DEF EnOrden
    <3> QED
      BY <2>2, <3>1, <1>1, <1>2, <1>3
  <2> QED
    BY <2>1, <2>2, <1>3
<1>8. ASSUME NEW i \in 1 .. Len(Q), NEW j \in 1 .. Len(Q),
             NEW k \in 1 .. Len(M), NEW l \in 1 .. Len(M),
             i < j, Q[i] = Creacion(M[k]), Q[j] = Creacion(M[l])
      PROVE  k < l
  <2>1. i \in 1 .. Len(P) /\ k \in 1 .. Len(N) /\ P[i] = Creacion(N[k])
    <3>1. i # Len(P) + 1
      BY <1>8, <1>1
    <3> QED
      BY <3>1, <1>5, <1>8
  <2>2. CASE j \in 1 .. Len(P) /\ l \in 1 .. Len(N) /\ P[j] = Creacion(N[l])
    BY <2>1, <2>2, <1>8 DEF EnOrden
  <2>3. CASE l = Len(N) + 1
    BY <2>1, <2>3, <1>3
  <2> QED
    BY <2>2, <2>3, <1>5, <1>8
<1>9. \A i, j \in 1 .. Len(Q), k, l \in 1 .. Len(M) :
         i < j /\ Q[i] = Creacion(M[k]) /\ Q[j] = Creacion(M[l]) => k < l
  <2> TAKE i, j \in 1 .. Len(Q), k, l \in 1 .. Len(M)
  <2> HAVE i < j /\ Q[i] = Creacion(M[k]) /\ Q[j] = Creacion(M[l])
  <2> QED
    BY <1>8
<1>10. ASSUME NEW j \in 1 .. Len(Q), Q[j].op = "MEMORY_PROCESS_CREATE"
       PROVE  \E k \in 1 .. Len(M) : Q[j].pid = M[k]
  <2>1. CASE j \in 1 .. Len(P)
    <3>1. PICK k \in 1 .. Len(N) : P[j].pid = N[k]
      BY <2>1, <1>1, <1>10 DEF EnOrden
    <3> QED
      BY <2>1, <3>1, <1>1, <1>2, <1>3
  <2>2. CASE j = Len(P) + 1
    BY <2>2, <1>1, <1>2, <1>3, Creaciones
  <2> QED
    BY <2>1, <2>2, <1>3
<1>11. \A k \in 1 .. Len(M) : k > Len(c) <=> \E j \in 1 .. Len(Q) : Q[j] = Creacion(M[k])
  BY <1>7
<1>12. \A j \in 1 .. Len(Q) : Q[j].op = "MEMORY_PROCESS_CREATE" =>
          \E k \in 1 .. Len(M) : Q[j].pid = M[k]
  BY <1>10
<1> QED
  BY <1>6, <1>9, <1>11, <1>12 DEF EnOrden

\* cola_new_a_ready: the first of NEW, with the first confirmation.
LEMMA OrdenAdmite ==
  ASSUME NEW P \in Seq(PedidoMemoria), NEW c \in Seq(Confirmaciones),
         NEW N \in Seq(Proceso), NEW C, EnOrden(P, c, N, C), c # << >>, N # << >>,
         NEW d, d = Tail(c), NEW M, M = Tail(N)
  PROVE  EnOrden(P, d, M, C)
<1>1. /\ Len(c) \in Nat \ {0} /\ Len(d) = Len(c) - 1
      /\ \A k \in 1 .. Len(d) : k + 1 \in 1 .. Len(c) /\ d[k] = c[k + 1]
  OBVIOUS
<1>2. /\ Len(N) \in Nat \ {0} /\ Len(M) = Len(N) - 1
      /\ \A k \in 1 .. Len(M) : k + 1 \in 1 .. Len(N) /\ M[k] = N[k + 1]
  OBVIOUS
<1>3. /\ \A k \in 1 .. Len(N) : k = 1 \/ (k - 1 \in 1 .. Len(M) /\ M[k - 1] = N[k])
      /\ Len(d) <= Len(M)
      /\ \A k \in 1 .. Len(d) : k \in 1 .. Len(M)
      /\ \A k \in 1 .. Len(M) : k > Len(d) <=> k + 1 > Len(c)
      /\ \A k, l \in 1 .. Len(M) : k + 1 < l + 1 <=> k < l
      /\ ~ (1 > Len(c)) /\ 1 \in 1 .. Len(N)
  BY <1>1, <1>2 DEF EnOrden
<1>4. \A k \in 1 .. Len(d) : d[k] = "MEMORY_PROCESS_CREATE" => M[k] \in C
  BY <1>1, <1>2, <1>3 DEF EnOrden
<1>5. \A k \in 1 .. Len(M) : k > Len(d) <=> \E j \in 1 .. Len(P) : P[j] = Creacion(M[k])
  BY <1>2, <1>3 DEF EnOrden
<1>6. \A i, j \in 1 .. Len(P), k, l \in 1 .. Len(M) :
         i < j /\ P[i] = Creacion(M[k]) /\ P[j] = Creacion(M[l]) => k < l
  BY <1>2, <1>3 DEF EnOrden
<1>7. ASSUME NEW j \in 1 .. Len(P), P[j].op = "MEMORY_PROCESS_CREATE"
      PROVE  \E k \in 1 .. Len(M) : P[j].pid = M[k]
  <2>1. PICK k \in 1 .. Len(N) : P[j].pid = N[k]
    BY <1>7 DEF EnOrden
  <2>2. P[j] = Creacion(N[k])
    BY <2>1, <1>7, Creaciones
  <2>3. k # 1
    BY <2>2, <1>3 DEF EnOrden
  <2> QED
    BY <2>1, <2>3, <1>3
<1> QED
  BY <1>3, <1>4, <1>5, <1>6, <1>7 DEF EnOrden

\* The memory answers the first request, of the first of NEW that has no answer.
LEMMA OrdenResponde ==
  ASSUME NEW P \in Seq(PedidoMemoria), NEW c \in Seq(Confirmaciones),
         NEW N \in Seq(Proceso), NEW C, EnOrden(P, c, N, C), Distintos(N),
         P # << >>, P[1].op = "MEMORY_PROCESS_CREATE",
         \A j \in 1 .. Len(P) : P[j] = P[1] => j = 1,
         NEW x \in Confirmaciones, NEW D, C \subseteq D,
         x = "MEMORY_PROCESS_CREATE" => P[1].pid \in D,
         NEW Q, Q = Tail(P), NEW d, d = Append(c, x)
  PROVE  EnOrden(Q, d, N, D)
<1>1. /\ Len(P) \in Nat \ {0} /\ Len(Q) = Len(P) - 1
      /\ \A j \in 1 .. Len(Q) : j + 1 \in 1 .. Len(P) /\ Q[j] = P[j + 1]
      /\ P[1] \in PedidoMemoria
  OBVIOUS
<1>2. /\ Len(c) \in Nat /\ Len(d) = Len(c) + 1 /\ d[Len(c) + 1] = x
      /\ \A k \in 1 .. Len(c) : d[k] = c[k]
  BY AppendProperties
<1>3. /\ \A j \in 1 .. Len(P) : j = 1 \/ (1 < j /\ j - 1 \in 1 .. Len(Q) /\ Q[j - 1] = P[j])
      /\ \A j \in 1 .. Len(Q) : j + 1 # 1
      /\ \A i, j \in 1 .. Len(Q) : i < j => i + 1 < j + 1
      /\ \A k \in 1 .. Len(d) : k \in 1 .. Len(c) \/ k = Len(c) + 1
      /\ 1 \in 1 .. Len(P) /\ Len(N) \in Nat
  BY <1>1, <1>2
<1>4. PICK m \in 1 .. Len(N) : P[1] = Creacion(N[m])
  BY <1>1, <1>3, Creaciones DEF EnOrden
<1>5. m = Len(c) + 1
  <2>1. m > Len(c)
    BY <1>3, <1>4 DEF EnOrden
  <2>2. Len(c) + 1 \in 1 .. Len(N) /\ Len(c) + 1 > Len(c)
    BY <2>1, <1>2, <1>3
  <2>3. PICK j \in 1 .. Len(P) : P[j] = Creacion(N[Len(c) + 1])
    BY <2>2 DEF EnOrden
  <2>4. CASE j = 1
    BY <2>2, <2>3, <2>4, <1>4, Creaciones DEF Distintos
  <2>5. CASE 1 < j
    <3>1. m < Len(c) + 1
      BY <2>2, <2>3, <2>5, <1>3, <1>4 DEF EnOrden
    <3> QED
      BY <3>1, <2>1, <1>2
  <2> QED
    BY <2>4, <2>5, <1>3
<1>6. /\ Len(d) <= Len(N)
      /\ \A k \in 1 .. Len(N) : k > Len(d) <=> (k > Len(c) /\ k # m)
  BY <1>2, <1>3, <1>4, <1>5
<1>7. \A k \in 1 .. Len(d) : d[k] = "MEMORY_PROCESS_CREATE" => N[k] \in D
  <2>1. x = "MEMORY_PROCESS_CREATE" => N[m] \in D
    BY <1>4, Creaciones
  <2> QED
    BY <2>1, <1>2, <1>3, <1>5 DEF EnOrden
<1>8. ASSUME NEW k \in 1 .. Len(N)
      PROVE  (k > Len(c) /\ k # m) <=> \E j \in 1 .. Len(Q) : Q[j] = Creacion(N[k])
  <2>1. ASSUME k > Len(c), k # m PROVE \E j \in 1 .. Len(Q) : Q[j] = Creacion(N[k])
    <3>1. PICK j \in 1 .. Len(P) : P[j] = Creacion(N[k])
      BY <2>1 DEF EnOrden
    <3>2. j # 1
      BY <2>1, <3>1, <1>4, Creaciones DEF Distintos
    <3> QED
      BY <3>1, <3>2, <1>3
  <2>2. ASSUME NEW j \in 1 .. Len(Q), Q[j] = Creacion(N[k]) PROVE k > Len(c) /\ k # m
    <3>1. j + 1 \in 1 .. Len(P) /\ P[j + 1] = Creacion(N[k]) /\ j + 1 # 1
      BY <2>2, <1>1, <1>3
    <3> QED
      BY <3>1, <1>4 DEF EnOrden
  <2> QED
    BY <2>1, <2>2
<1>9. ASSUME NEW i \in 1 .. Len(Q), NEW j \in 1 .. Len(Q),
             NEW k \in 1 .. Len(N), NEW l \in 1 .. Len(N),
             i < j, Q[i] = Creacion(N[k]), Q[j] = Creacion(N[l])
      PROVE  k < l
  <2>1. /\ i + 1 \in 1 .. Len(P) /\ j + 1 \in 1 .. Len(P) /\ i + 1 < j + 1
        /\ P[i + 1] = Creacion(N[k]) /\ P[j + 1] = Creacion(N[l])
    BY <1>1, <1>3, <1>9
  <2> QED
    BY <2>1 DEF EnOrden
<1>10. \A j \in 1 .. Len(Q) : Q[j].op = "MEMORY_PROCESS_CREATE" =>
          \E k \in 1 .. Len(N) : Q[j].pid = N[k]
  BY <1>1 DEF EnOrden
<1> QED
  BY <1>6, <1>7, <1>8, <1>9, <1>10 DEF EnOrden

\* The memory takes another request.
LEMMA OrdenTermina ==
  ASSUME NEW P \in Seq(PedidoMemoria), NEW c \in Seq(Confirmaciones),
         NEW N \in Seq(Proceso), NEW C, EnOrden(P, c, N, C),
         P # << >>, P[1].op # "MEMORY_PROCESS_CREATE", NEW Q, Q = Tail(P)
  PROVE  EnOrden(Q, c, N, C)
<1>1. /\ Len(P) \in Nat \ {0} /\ Len(Q) = Len(P) - 1
      /\ \A j \in 1 .. Len(Q) : j + 1 \in 1 .. Len(P) /\ Q[j] = P[j + 1]
  OBVIOUS
<1>2. /\ \A j \in 1 .. Len(P) : j = 1 \/ (j - 1 \in 1 .. Len(Q) /\ Q[j - 1] = P[j])
      /\ \A i, j \in 1 .. Len(Q) : i < j => i + 1 < j + 1
      /\ \A p : P[1] # Creacion(p)
  BY <1>1, Creaciones
<1>3. ASSUME NEW p
      PROVE  (\E j \in 1 .. Len(Q) : Q[j] = Creacion(p))
                <=> \E j \in 1 .. Len(P) : P[j] = Creacion(p)
  <2>1. ASSUME NEW j \in 1 .. Len(Q), Q[j] = Creacion(p)
        PROVE  j + 1 \in 1 .. Len(P) /\ P[j + 1] = Creacion(p)
    BY <2>1, <1>1
  <2>2. ASSUME NEW j \in 1 .. Len(P), P[j] = Creacion(p)
        PROVE  \E i \in 1 .. Len(Q) : Q[i] = Creacion(p)
    <3>1. j # 1
      BY <2>2, <1>2
    <3> QED
      BY <3>1, <2>2, <1>2
  <2> QED
    BY <2>1, <2>2
<1>4. \A i, j \in 1 .. Len(Q), k, l \in 1 .. Len(N) :
         i < j /\ Q[i] = Creacion(N[k]) /\ Q[j] = Creacion(N[l]) => k < l
  BY <1>1, <1>2 DEF EnOrden
<1>5. \A j \in 1 .. Len(Q) : Q[j].op = "MEMORY_PROCESS_CREATE" =>
         \E k \in 1 .. Len(N) : Q[j].pid = N[k]
  BY <1>1 DEF EnOrden
<1> QED
  BY <1>3, <1>4, <1>5 DEF EnOrden

\* list_remove_by_condition and list_pop leave others, once each.
LEMMA QuitaDistintos ==
  ASSUME NEW s \in Seq(Proceso), Distintos(s), NEW p \in ToSet(s)
  PROVE  /\ Distintos(QuitaYSaca(s, p))
         /\ \A k \in 1 .. Len(QuitaYSaca(s, p)) : \E j \in 1 .. Len(s) :
               s[j] # p /\ QuitaYSaca(s, p)[k] = s[j]
<1>1. PICK i \in 1 .. Len(s) : s[i] = p /\ QuitaYSaca(s, p) = SinPrimero(RemoveAt(s, i))
  BY NuevosTipos
<1> DEFINE t == RemoveAt(s, i)
           va(k) == IF k < i THEN k ELSE k + 1
<1>2. /\ t \in Seq(Proceso) /\ Len(t) = Len(s) - 1
      /\ \A k \in 1 .. Len(s) - 1 : t[k] = IF k < i THEN s[k] ELSE s[k + 1]
  BY QuitaElemento
<1> HIDE DEF t
<1>3. /\ \A k \in 1 .. Len(t) : va(k) \in 1 .. Len(s) /\ va(k) # i /\ t[k] = s[va(k)]
      /\ \A j, k \in 1 .. Len(t) : va(j) = va(k) => j = k
  BY <1>2
<1> HIDE DEF va
<1>4. Distintos(t) /\ \A k \in 1 .. Len(t) : \E j \in 1 .. Len(s) : s[j] # p /\ t[k] = s[j]
  BY <1>1, <1>3 DEF Distintos
<1>5. CASE t = << >>
  <2>1. QuitaYSaca(s, p) = << >>
    BY <1>1, <1>5 DEF SinPrimero, t
  <2> QED
    BY <2>1 DEF Distintos
<1>6. CASE t # << >>
  <2> DEFINE u == Tail(t)
  <2>1. QuitaYSaca(s, p) = u
    BY <1>1, <1>6 DEF SinPrimero, t
  <2>2. /\ \A k \in 1 .. Len(u) : k + 1 \in 1 .. Len(t) /\ u[k] = t[k + 1]
        /\ \A j, k \in 1 .. Len(u) : j + 1 = k + 1 => j = k
    BY <1>2, <1>6
  <2> HIDE DEF u
  <2>3. Distintos(u) /\ \A k \in 1 .. Len(u) : \E j \in 1 .. Len(s) : s[j] # p /\ u[k] = s[j]
    BY <2>2, <1>4 DEF Distintos
  <2> QED
    BY <2>1, <2>3
<1> QED
  BY <1>5, <1>6

\* NuevosEnOrden, by its parts.
LEMMA NuevosEs ==
  ASSUME TiposMaquina
  PROVE  NuevosEnOrden <=>
            /\ Distintos(nuevos)
            /\ \A k \in 1 .. Len(nuevos) : situacion[nuevos[k]] = "pedido"
            /\ ~ sobra => EnOrden(pedidos_kernel, confirmaciones, nuevos, confirmados)
<1>1. DOMAIN nuevos = 1 .. Len(nuevos)
  BY DEF TiposMaquina
<1>2. \A x : x \in ToSet(nuevos) <=> \E k \in 1 .. Len(nuevos) : x = nuevos[k]
  BY <1>1 DEF ToSet
<1> QED
  BY <1>2 DEF NuevosEnOrden, Distintos, EnOrden, Pendiente, Creacion

\* Who waits in NEW does so once, and until one is ended there the confirmations and the
\* requests are those of NEW in its order.
LEMMA PasoNuevosEnOrden ==
  ASSUME TiposMaquina, PedidosEnOrden, NuevosEnOrden, [Next]_vars, TiposMaquina'
  PROVE  NuevosEnOrden'
<1> DEFINE E == EnOrden(pedidos_kernel, confirmaciones, nuevos, confirmados)
           F == EnOrden(pedidos_kernel', confirmaciones', nuevos', confirmados')
<1>0. /\ situacion \in [Proceso -> Situaciones] /\ pedidos_kernel \in Seq(PedidoMemoria)
      /\ confirmaciones \in Seq(Confirmaciones) /\ nuevos \in Seq(Proceso)
  BY DEF TiposMaquina, TypeOKMaquina
<1>a. /\ Distintos(nuevos) /\ (~ sobra => E)
      /\ \A k \in 1 .. Len(nuevos) : situacion[nuevos[k]] = "pedido"
  BY NuevosEs
<1>b. (sobra => sobra') /\ \A k \in 1 .. Len(nuevos) : nuevos[k] \in Proceso
  BY <1>0, PasoSituacion
<1>c. ASSUME Distintos(nuevos'), \A k \in 1 .. Len(nuevos') : situacion'[nuevos'[k]] = "pedido",
             ~ sobra' => F
      PROVE  NuevosEnOrden'
  <2>1. NuevosEnOrden' <=>
            /\ Distintos(nuevos')
            /\ \A k \in 1 .. Len(nuevos') : situacion'[nuevos'[k]] = "pedido"
            /\ ~ sobra' => F
    <3>1. DOMAIN nuevos' = 1 .. Len(nuevos')
      BY DEF TiposMaquina
    <3>2. \A x : x \in ToSet(nuevos') <=> \E k \in 1 .. Len(nuevos') : x = nuevos'[k]
      BY <3>1 DEF ToSet
    <3> QED
      BY <3>2 DEF NuevosEnOrden, Distintos, EnOrden, Pendiente, Creacion
  <2> QED
    BY <1>c, <2>1
<1> HIDE DEF F
\* A step that leaves NEW and moves nobody in it.
<1>d. ASSUME nuevos' = nuevos, ~ sobra' => F,
             UNCHANGED situacion
             \/ \E q, a, b : EnSituacion(q, a, b) /\ a # "pedido"
      PROVE  NuevosEnOrden'
  <2>1. \A k \in 1 .. Len(nuevos) : situacion'[nuevos[k]] = situacion[nuevos[k]]
    BY <1>a, <1>b, <1>d, <1>0 DEF EnSituacion
  <2> QED
    BY <2>1, <1>a, <1>c, <1>d
<1>e. ASSUME UNCHANGED << pedidos_kernel, confirmaciones, nuevos, confirmados >>
      PROVE  ~ sobra' => F
  BY <1>a, <1>b, <1>e DEF F
<1>f. ASSUME NEW q \in Proceso, Pide("MEMORY_PROCESS_TERM", q),
             UNCHANGED << confirmaciones, nuevos, confirmados >>
      PROVE  ~ sobra' => F
  <2> DEFINE r == [op |-> "MEMORY_PROCESS_TERM", pid |-> q]
  <2>1. r \in PedidoMemoria /\ r.op # "MEMORY_PROCESS_CREATE"
    BY DEF PedidoMemoria
  <2>2. pedidos_kernel' = Append(pedidos_kernel, r)
    BY <1>f DEF Pide
  <2> HIDE DEF r
  <2>3. E => EnOrden(pedidos_kernel', confirmaciones, nuevos, confirmados)
    BY <2>1, <2>2, <1>0, OrdenPide
  <2> QED
    BY <2>3, <1>a, <1>b, <1>f DEF F
<1>g. Nucleo => UNCHANGED confirmados
  BY MemoriaQueda
<1>1. ASSUME NEW p \in Proceso, NucleoCrea(p)
      PROVE  NuevosEnOrden'
  <2>1. /\ situacion[p] = "nuevo" /\ situacion' = [situacion EXCEPT ![p] = "pedido"]
        /\ nuevos' = Append(nuevos, p) /\ UNCHANGED << confirmaciones, sobra >>
        /\ pedidos_kernel' = Append(pedidos_kernel, Creacion(p)) /\ UNCHANGED confirmados
    BY <1>1, <1>g DEF NucleoCrea, EnSituacion, Pide, Creacion, Nucleo
  <2>2. \A k \in 1 .. Len(nuevos) : nuevos[k] # p
    BY <2>1, <1>a
  <2>3. /\ Len(nuevos') = Len(nuevos) + 1 /\ nuevos'[Len(nuevos) + 1] = p
        /\ \A k \in 1 .. Len(nuevos) : nuevos'[k] = nuevos[k]
    BY <2>1, <1>0, AppendProperties
  <2>4. \A k \in 1 .. Len(nuevos') : k \in 1 .. Len(nuevos) \/ k = Len(nuevos) + 1
    BY <2>3, <1>0
  <2>5. Distintos(nuevos')
    BY <2>2, <2>3, <2>4, <1>a DEF Distintos
  <2>6. \A k \in 1 .. Len(nuevos') : situacion'[nuevos'[k]] = "pedido"
    BY <2>1, <2>2, <2>3, <2>4, <1>a, <1>b, <1>0
  <2>7. E => EnOrden(pedidos_kernel', confirmaciones, nuevos', confirmados)
    BY <2>1, <2>2, <1>0, OrdenCrea
  <2>8. ~ sobra' => F
    BY <2>1, <2>7, <1>a DEF F
  <2> QED
    BY <2>5, <2>6, <2>8, <1>c
<1>2. ASSUME NEW p \in Proceso, NucleoAdmite(p)
      PROVE  NuevosEnOrden'
  <2>1. /\ confirmaciones # << >> /\ nuevos # << >> /\ p = nuevos[1]
        /\ situacion' = [situacion EXCEPT ![p] = "READY"]
        /\ confirmaciones' = Tail(confirmaciones) /\ nuevos' = Tail(nuevos)
        /\ UNCHANGED << pedidos_kernel, confirmados, sobra >>
    BY <1>2, <1>0 DEF NucleoAdmite, EnSituacion
  <2>2. \A k \in 1 .. Len(nuevos') :
           k + 1 \in 1 .. Len(nuevos) /\ k + 1 # 1 /\ nuevos'[k] = nuevos[k + 1]
    BY <2>1, <1>0
  <2>3. 1 \in 1 .. Len(nuevos) /\ \A j, k \in 1 .. Len(nuevos') : j + 1 = k + 1 => j = k
    BY <2>1, <1>0
  <2>4. Distintos(nuevos')
    BY <2>2, <2>3, <1>a DEF Distintos
  <2>5. \A k \in 1 .. Len(nuevos') : nuevos'[k] # p
    BY <2>1, <2>2, <2>3, <1>a DEF Distintos
  <2>6. \A k \in 1 .. Len(nuevos') : situacion'[nuevos'[k]] = "pedido"
    BY <2>1, <2>2, <2>5, <1>a, <1>b, <1>0
  <2>7. E => EnOrden(pedidos_kernel, confirmaciones', nuevos', confirmados)
    BY <2>1, <1>0, OrdenAdmite
  <2>8. ~ sobra' => F
    BY <2>1, <2>7, <1>a DEF F
  <2> QED
    BY <2>4, <2>6, <2>8, <1>c
<1>3. ASSUME NEW p \in Proceso, NucleoFinalizaNuevo(p)
      PROVE  NuevosEnOrden'
  <2>1. /\ p \in ToSet(nuevos) /\ nuevos' = QuitaYSaca(nuevos, p) /\ sobra' = TRUE
        /\ situacion' = [situacion EXCEPT ![p] = "EXIT"]
    BY <1>3 DEF NucleoFinalizaNuevo, EnSituacion
  <2>2. /\ Distintos(nuevos')
        /\ \A k \in 1 .. Len(nuevos') : \E j \in 1 .. Len(nuevos) :
              nuevos[j] # p /\ nuevos'[k] = nuevos[j]
    BY <2>1, <1>0, <1>a, QuitaDistintos
  <2>3. \A k \in 1 .. Len(nuevos') : situacion'[nuevos'[k]] = "pedido"
    BY <2>1, <2>2, <1>a, <1>b, <1>0
  <2> QED
    BY <2>1, <2>2, <2>3, <1>c
<1>4. ASSUME NEW p \in Proceso, NucleoDespacha(p) \/ NucleoDespierta(p)
      PROVE  NuevosEnOrden'
  <2>1. /\ UNCHANGED << pedidos_kernel, confirmaciones, nuevos, confirmados >>
        /\ \E q, a, b : EnSituacion(q, a, b) /\ a # "pedido"
    BY <1>4 DEF NucleoDespacha, NucleoDespierta
  <2> QED
    BY <2>1, <1>d, <1>e
<1>5. ASSUME NEW p \in Proceso, NucleoFinalizaOtro(p) \/ NucleoFinalizaEnVuelo(p)
      PROVE  NuevosEnOrden'
  <2>1. /\ Pide("MEMORY_PROCESS_TERM", p)
        /\ UNCHANGED << confirmaciones, nuevos, confirmados >>
        /\ UNCHANGED situacion \/ \E q, a, b : EnSituacion(q, a, b) /\ a # "pedido"
    BY <1>5 DEF NucleoFinalizaOtro, NucleoFinalizaEnVuelo
  <2> QED
    BY <2>1, <1>d, <1>f
<1>6. CASE NucleoTermina
  <2>1. Llegado \in Proceso
    <3>1. contextos # << >> /\ contextos \in Seq(Contexto)
      BY <1>6 DEF NucleoTermina, Llega, TiposMaquina
    <3>2. Head(contextos) \in Contexto
      BY <3>1
    <3> QED
      BY <3>2 DEF Llegado, Contexto
  <2>2. /\ Pide("MEMORY_PROCESS_TERM", Llegado)
        /\ UNCHANGED << confirmaciones, nuevos, confirmados >>
        /\ EnSituacion(Llegado, "EXEC", "EXIT")
    BY <1>6 DEF NucleoTermina
  <2> QED
    BY <2>1, <2>2, <1>d, <1>f
<1>7. CASE NucleoReencola \/ NucleoBloquea \/ NucleoDesaloja \/ NucleoFinaliza
           \/ NucleoContinua
  <2>1. /\ UNCHANGED << pedidos_kernel, confirmaciones, nuevos, confirmados >>
        /\ UNCHANGED situacion \/ \E q, a, b : EnSituacion(q, a, b) /\ a # "pedido"
    BY <1>7 DEF NucleoReencola, NucleoBloquea, NucleoDesaloja, NucleoFinaliza,
       NucleoContinua
  <2> QED
    BY <2>1, <1>d, <1>e
<1>8. CASE PasoCiclo \/ PasoInterrupcion \/ Carrera \/ UNCHANGED vars
  <2>1. UNCHANGED confirmados
    BY <1>8, MemoriaQueda
  <2>2. UNCHANGED << pedidos_kernel, confirmaciones, nuevos, situacion >>
    BY <1>8 DEF PasoCiclo, PasoInterrupcion, InterrupcionLlega, Carrera, vars, CicloCPU,
       CPURecibe, CPUPendUsuario, CPUPendQuantum, CPULimpia, CPUFetch, CPUDecode,
       CPUEjecutaLocal, CPUPideTamano, CPUPideTamanoEnVano, CPURedimensionada,
       CPUSolicitaRecurso, CPUPideIO, CPUSale, CPUVeUsuario, CPUVeQuantum,
       MemoriaRedimensiona, MemoriaDesconoce, TomaRespuesta
  <2> QED
    BY <2>1, <2>2, <1>d, <1>e
<1>9. CASE PasoMemoria
  <2>0. UNCHANGED << nuevos, situacion, sobra >>
    BY <1>9 DEF PasoMemoria
  <2>1. CASE MemoriaCrea
    <3>1. /\ pedidos_kernel # << >> /\ pedidos_kernel' = Tail(pedidos_kernel)
          /\ pedidos_kernel[1].op = "MEMORY_PROCESS_CREATE"
          /\ confirmados \subseteq confirmados'
      BY <2>1, <1>0 DEF MemoriaCrea
    <3>2. PICK x \in Confirmaciones :
             /\ confirmaciones' = Append(confirmaciones, x)
             /\ x = "MEMORY_PROCESS_CREATE" => pedidos_kernel[1].pid \in confirmados'
      BY <2>1, <1>0 DEF MemoriaCrea, Confirmaciones
    <3>3. \A j \in 1 .. Len(pedidos_kernel) : pedidos_kernel[j] = pedidos_kernel[1] => j = 1
      <4>1. 1 \in 1 .. Len(pedidos_kernel)
        BY <3>1, <1>0
      <4> QED
        BY <3>1, <4>1 DEF PedidosEnOrden
    <3>4. E => EnOrden(pedidos_kernel', confirmaciones', nuevos, confirmados')
      BY <3>1, <3>2, <3>3, <1>0, <1>a, OrdenResponde
    <3> QED
      BY <3>4, <2>0, <1>a, <1>d DEF F
  <2>2. CASE MemoriaTermina
    <3>1. /\ pedidos_kernel # << >> /\ pedidos_kernel' = Tail(pedidos_kernel)
          /\ pedidos_kernel[1].op # "MEMORY_PROCESS_CREATE"
          /\ UNCHANGED << confirmados, confirmaciones >>
      BY <2>2, <1>0 DEF MemoriaTermina
    <3>2. E => EnOrden(pedidos_kernel', confirmaciones, nuevos, confirmados)
      BY <3>1, <1>0, OrdenTermina
    <3> QED
      BY <3>1, <3>2, <2>0, <1>a, <1>d DEF F
  <2>3. CASE ~ MemoriaCrea /\ ~ MemoriaTermina
    <3>1. UNCHANGED << pedidos_kernel, confirmados, confirmaciones >>
      BY <2>3, <1>9 DEF PasoMemoria, HiloKernel, HiloCPU, MemoriaOlvidaProceso,
         MemoriaCargaParaLiberar, MemoriaLiberaPagina, AsignaSaltea, AsignaEncuentra,
         AsignaMarca, AsignaSinMarcos, ReduceCarga, ReducePagina
    <3> QED
      BY <3>1, <2>0, <1>d, <1>e
  <2> QED
    BY <2>1, <2>2, <2>3
<1> QED
  BY <1>1, <1>2, <1>3, <1>4, <1>5, <1>6, <1>7, <1>8, <1>9 DEF Next, Quieta, Nucleo

-----------------------------------------------------------------------------
(* The TLB and the accesses. *)

\* What one translation needs and leaves: the address, the frame, the TLB.
LEMMA Traduce ==
  ASSUME TiposMaquina, UnTurno, TLBSinRepetidos, CPUDecode
  PROVE  LET dir == instruccion.dirs[Len(fisicas) + 1]
         IN  /\ dir \in Nat /\ pcb \in Proceso /\ Pagina(dir) \in Nat
             /\ situacion[pcb] = "EXEC"
             /\ acceder_marco(pcb, Pagina(dir)) \in Marcos \cup {SinMarco}
             /\ tlb' \in Seq(Entrada) /\ TLBSinRepetidos'
             /\ \A k \in 1 .. Len(tlb') :
                   \/ \E j \in 1 .. Len(tlb) : Datos(tlb'[k]) = Datos(tlb[j])
                   \/ /\ Datos(tlb'[k]) =
                            << pcb, Pagina(dir), acceder_marco(pcb, Pagina(dir)) >>
                      /\ acceder_marco(pcb, Pagina(dir)) # SinMarco
             /\ Marco(pcb, Pagina(dir)) # SinMarco =>
                   /\ fisicas' = Append(fisicas, Fisica(pcb, dir)) /\ cpu' = "decode"
                   /\ Fisica(pcb, dir) \in Nat
                   /\ Fisica(pcb, dir) \div TamPagina = Marco(pcb, Pagina(dir))
             /\ Marco(pcb, Pagina(dir)) = SinMarco =>
                   cpu' = "muerto" /\ fisicas' = fisicas
             /\ fisicas \in Seq(Nat)
<1> DEFINE dir == instruccion.dirs[Len(fisicas) + 1]
<1>1. dir \in Nat /\ Len(fisicas) \in Nat /\ fisicas \in Seq(Nat)
  <2>1. instruccion.dirs \in Seq(Nat) /\ fisicas \in Seq(Nat)
    BY DEF TiposMaquina, Instruccion
  <2>2. Len(fisicas) + 1 \in 1 .. Len(instruccion.dirs)
    BY <2>1 DEF CPUDecode
  <2> QED
    BY <2>1, <2>2
<1>2. /\ ActualizaTLB(pcb, Pagina(dir)) /\ cpu = "decode"
      /\ IF Marco(pcb, Pagina(dir)) = SinMarco
         THEN cpu' = "muerto" /\ UNCHANGED fisicas
         ELSE fisicas' = Append(fisicas, Fisica(pcb, dir)) /\ UNCHANGED cpu
  BY DEF CPUDecode
<1> HIDE DEF dir
<1>3. pcb \in Proceso /\ Pagina(dir) \in Nat /\ situacion[pcb] = "EXEC"
  BY <1>1, <1>2, PcbEnExec, Cociente DEF Pagina
<1>4. /\ tlb \in Seq(Entrada) /\ reloj \in 0 .. MaxReloj
      /\ paginas \in [Proceso -> Seq(Marcos)]
  BY DEF TiposMaquina, TypeOKMaquina
<1>5. acceder_marco(pcb, Pagina(dir)) \in Marcos \cup {SinMarco}
  BY <1>3, <1>4, MarcoDePagina
<1>6. /\ tlb' \in Seq(Entrada) /\ TLBSinRepetidos'
      /\ \A k \in 1 .. Len(tlb') :
            \/ \E j \in 1 .. Len(tlb) : Datos(tlb'[k]) = Datos(tlb[j])
            \/ /\ Datos(tlb'[k]) = << pcb, Pagina(dir), acceder_marco(pcb, Pagina(dir)) >>
               /\ acceder_marco(pcb, Pagina(dir)) # SinMarco
  <2>1. ActualizaTLB(pcb, Pagina(dir))
    BY <1>2
  <2> QED
    BY <2>1, <1>3, <1>4, <1>5, EfectoTLB
<1>7. Marco(pcb, Pagina(dir)) # SinMarco =>
         /\ Fisica(pcb, dir) \in Nat
         /\ Fisica(pcb, dir) \div TamPagina = Marco(pcb, Pagina(dir))
  BY <1>1, <1>3, <1>4, FisicaEsDireccion
<1> QED
  BY <1>1, <1>2, <1>3, <1>5, <1>6, <1>7 DEF dir

\* The TLB changes with a translation only.
LEMMA CambioTLB ==
  ASSUME [Next]_vars, ~ CPUDecode
  PROVE  UNCHANGED << tlb, reloj >>
<1>1. CASE Nucleo
  BY <1>1 DEF Nucleo, NucleoCrea, NucleoAdmite, NucleoDespacha, NucleoDespierta,
     NucleoFinalizaOtro, NucleoFinalizaNuevo, NucleoFinalizaEnVuelo, NucleoDesaloja,
     NucleoFinaliza, NucleoTermina, NucleoReencola, NucleoContinua, NucleoBloquea
<1>2. CASE PasoCiclo
  BY <1>2 DEF PasoCiclo, CicloCPU, CPURecibe, CPUPendUsuario, CPUPendQuantum,
     CPULimpia, CPUFetch, CPUEjecutaLocal, CPUPideTamano, CPUPideTamanoEnVano,
     CPURedimensionada, CPUSolicitaRecurso, CPUPideIO, CPUSale, CPUVeUsuario, CPUVeQuantum
<1>3. CASE PasoMemoria \/ PasoInterrupcion \/ Carrera \/ UNCHANGED vars
  BY <1>3 DEF PasoMemoria, PasoInterrupcion, InterrupcionLlega, Carrera, vars
<1> QED
  BY <1>1, <1>2, <1>3 DEF Next, Quieta

\* No page twice in the TLB, nor more entries than it has.
LEMMA PasoTLBSinRepetidos ==
  ASSUME TiposMaquina, UnTurno, TLBSinRepetidos, [Next]_vars
  PROVE  TLBSinRepetidos'
<1>1. CASE CPUDecode
  BY <1>1, Traduce
<1>2. CASE ~ CPUDecode
  BY <1>2, CambioTLB DEF TLBSinRepetidos, Coincide
<1> QED
  BY <1>1, <1>2

\* What the TLB says of a process that never gave pages back stays true: only the end
\* of a page table changes.
LEMMA PasoTLBVigente ==
  ASSUME TiposMaquina, UnTurno, EnServicio, PedidosEnOrden, CreadosEnMemoria,
         TLBSinRepetidos, TLBVigente, [Next]_vars
  PROVE  TLBVigente'
<1>0. /\ paginas \in [Proceso -> Seq(Marcos)] /\ tlb \in Seq(Entrada)
      /\ \A k \in 1 .. Len(tlb) : tlb[k].pid \in Proceso /\ tlb[k].pagina \in Nat
  <2>1. paginas \in [Proceso -> Seq(Marcos)] /\ tlb \in Seq(Entrada)
    BY DEF TiposMaquina, TypeOKMaquina
  <2>2. \A k \in 1 .. Len(tlb) : tlb[k] \in Entrada
    BY <2>1
  <2> QED
    BY <2>1, <2>2 DEF Entrada
<1>a. /\ \A p \in Proceso : situacion[p] = "EXIT" => situacion'[p] = "EXIT"
      /\ redujo \subseteq redujo'
  BY PasoSituacion
<1>1. CASE CPUDecode
  <2> DEFINE n == Pagina(instruccion.dirs[Len(fisicas) + 1])
  <2>1. /\ pcb \in Proceso /\ n \in Nat /\ TLBSinRepetidos
        /\ \A k \in 1 .. Len(tlb') :
              \/ \E j \in 1 .. Len(tlb) : Datos(tlb'[k]) = Datos(tlb[j])
              \/ /\ Datos(tlb'[k]) = << pcb, n, acceder_marco(pcb, n) >>
                 /\ acceder_marco(pcb, n) # SinMarco
    BY <1>1, Traduce
  <2>2. paginas' = paginas
    BY <1>1 DEF CPUDecode
  <2> HIDE DEF n
  <2>3. acceder_marco(pcb, n) # SinMarco =>
           n < Len(paginas[pcb]) /\ acceder_marco(pcb, n) = paginas[pcb][n + 1]
    <3>1. paginas[pcb] \in Seq(Marcos) /\ Len(paginas[pcb]) \in Nat
      BY <1>0, <2>1
    <3> QED
      BY <3>1, <2>1 DEF acceder_marco
  <2>4. ASSUME NEW k \in 1 .. Len(tlb'),
               situacion'[tlb'[k].pid] # "EXIT", tlb'[k].pid \notin redujo'
        PROVE  /\ tlb'[k].pagina < Len(paginas[tlb'[k].pid])
               /\ tlb'[k].marco = paginas[tlb'[k].pid][tlb'[k].pagina + 1]
    <3>1. CASE \E j \in 1 .. Len(tlb) : Datos(tlb'[k]) = Datos(tlb[j])
      <4>1. PICK j \in 1 .. Len(tlb) :
               /\ tlb'[k].pid = tlb[j].pid /\ tlb'[k].pagina = tlb[j].pagina
               /\ tlb'[k].marco = tlb[j].marco
        BY <3>1 DEF Datos
      <4>2. situacion[tlb[j].pid] # "EXIT" /\ tlb[j].pid \notin redujo
        BY <4>1, <2>4, <1>0, <1>a
      <4> QED
        BY <4>1, <4>2 DEF TLBVigente
    <3>2. CASE /\ Datos(tlb'[k]) = << pcb, n, acceder_marco(pcb, n) >>
               /\ acceder_marco(pcb, n) # SinMarco
      BY <3>2, <2>3 DEF Datos
    <3> QED
      BY <3>1, <3>2, <2>1
  <2> QED
    BY <2>2, <2>4 DEF TLBVigente
<1>2. CASE ~ CPUDecode
  <2>1. tlb' = tlb
    BY <1>2, CambioTLB
  <2>2. ASSUME NEW k \in 1 .. Len(tlb),
               situacion'[tlb[k].pid] # "EXIT", tlb[k].pid \notin redujo'
        PROVE  /\ tlb[k].pagina < Len(paginas'[tlb[k].pid])
               /\ tlb[k].marco = paginas'[tlb[k].pid][tlb[k].pagina + 1]
    <3> DEFINE p == tlb[k].pid
               n == tlb[k].pagina
    <3>1. /\ p \in Proceso /\ n \in Nat
          /\ situacion[p] # "EXIT" /\ p \notin redujo' /\ p \notin redujo
      BY <2>2, <1>0, <1>a
    <3>2. n < Len(paginas[p]) /\ tlb[k].marco = paginas[p][n + 1]
      BY <3>1 DEF TLBVigente
    <3> HIDE DEF p, n
    <3>6. ~ Soltado(p)
      BY <3>1 DEF Soltado, TiposMaquina
    <3>3. CASE paginas'[p] = paginas[p]
      BY <3>2, <3>3 DEF p, n
    <3>4. CASE \E m \in Marcos : paginas'[p] = Append(paginas[p], m)
      <4>1. PICK m \in Marcos : paginas'[p] = Append(paginas[p], m)
        BY <3>4
      <4>2. paginas[p] \in Seq(Marcos) /\ Len(paginas[p]) \in Nat
        BY <3>1, <1>0
      <4>3. /\ Len(paginas'[p]) = Len(paginas[p]) + 1
            /\ \A i \in 1 .. Len(paginas[p]) : paginas'[p][i] = paginas[p][i]
        BY <4>1, <4>2, AppendProperties
      <4>4. n + 1 \in 1 .. Len(paginas[p])
        BY <4>2, <3>1, <3>2
      <4> QED
        BY <4>2, <4>3, <4>4, <3>1, <3>2 DEF p, n
    <3>5. paginas'[p] = paginas[p] \/ \E m \in Marcos : paginas'[p] = Append(paginas[p], m)
      BY <3>1, <3>6, <1>0, CambioPaginas
    <3> QED
      BY <3>3, <3>4, <3>5
  <2> QED
    BY <2>1, <2>2 DEF TLBVigente
<1> QED
  BY <1>1, <1>2

\* The addresses in frames of a process stay so while it neither ends nor gives pages back.
LEMMA PropiosSigue ==
  ASSUME TiposMaquina, UnTurno, EnServicio, PedidosEnOrden, CreadosEnMemoria, [Next]_vars,
         NEW p \in Proceso, situacion[p] # "EXIT", NEW dirs, Propios(p, dirs)
  PROVE  p \notin redujo' =>
            \A k \in 1 .. Len(dirs) : dirs[k] \div TamPagina \in ToSet(paginas'[p])
<1> SUFFICES ASSUME p \notin redujo' PROVE ToSet(paginas[p]) \subseteq ToSet(paginas'[p])
  BY PasoSituacion DEF Propios, DeP
<1>0. paginas \in [Proceso -> Seq(Marcos)]
  BY DEF TiposMaquina, TypeOKMaquina
<1>3. ~ Soltado(p) /\ p \notin redujo
  BY PasoSituacion DEF Soltado, TiposMaquina
<1>1. paginas'[p] = paginas[p] \/ \E m \in Marcos : paginas'[p] = Append(paginas[p], m)
  BY <1>0, <1>3, CambioPaginas
<1>2. ASSUME NEW m \in Marcos, paginas'[p] = Append(paginas[p], m)
      PROVE  ToSet(paginas[p]) \subseteq ToSet(paginas'[p])
  <2>1. paginas[p] \in Seq(Marcos) /\ Len(paginas[p]) \in Nat
    BY <1>0
  <2>2. /\ Len(paginas'[p]) = Len(paginas[p]) + 1 /\ paginas'[p] \in Seq(Marcos)
        /\ \A i \in 1 .. Len(paginas[p]) : paginas'[p][i] = paginas[p][i]
    BY <2>1, <1>2, AppendProperties
  <2>3. /\ DOMAIN paginas[p] = 1 .. Len(paginas[p])
        /\ DOMAIN paginas'[p] = 1 .. Len(paginas[p]) + 1
    BY <2>1, <2>2
  <2>4. 1 .. Len(paginas[p]) \subseteq 1 .. Len(paginas[p]) + 1
    BY <2>1
  <2> QED
    BY <2>2, <2>3, <2>4 DEF ToSet
<1> QED
  BY <1>1, <1>2

\* The frame of a translation is one of the page table of its process, unless that gave
\* pages back.
LEMMA MarcoPropio ==
  ASSUME TiposMaquina, TLBSinRepetidos, TLBVigente, NEW p \in Proceso, NEW n \in Nat,
         situacion[p] # "EXIT", p \notin redujo, Marco(p, n) # SinMarco
  PROVE  Marco(p, n) \in ToSet(paginas[p])
<1>0. paginas \in [Proceso -> Seq(Marcos)] /\ tlb \in Seq(Entrada)
  BY DEF TiposMaquina, TypeOKMaquina
<1>1. ASSUME n < Len(paginas[p]), Marco(p, n) = paginas[p][n + 1]
      PROVE  Marco(p, n) \in ToSet(paginas[p])
  <2>1. paginas[p] \in Seq(Marcos) /\ Len(paginas[p]) \in Nat
    BY <1>0
  <2>2. n + 1 \in DOMAIN paginas[p]
    BY <2>1, <1>1
  <2> QED
    BY <2>2, <1>1 DEF ToSet
<1>2. CASE Marco(p, n) = acceder_marco(p, n)
  <2>1. paginas[p] \in Seq(Marcos) /\ Len(paginas[p]) \in Nat
    BY <1>0
  <2> QED
    BY <2>1, <1>1, <1>2 DEF acceder_marco
<1>3. CASE TLB_HIT(p, n) /\ Marco(p, n) = tlb[Buscada(p, n)].marco
  <2>1. Buscada(p, n) \in 1 .. Len(tlb) /\ Coincide(tlb[Buscada(p, n)], p, n)
    BY <1>0, <1>3, BuscadaEnLista
  <2> QED
    BY <2>1, <1>1, <1>3 DEF TLBVigente, Coincide
<1> QED
  BY <1>0, <1>2, <1>3, MarcoDePagina

\* The addresses of the cycle, those a context takes to the kernel and those an interface
\* uses later are in frames of their process.
LEMMA PasoAccesosPropios ==
  ASSUME TiposMaquina, UnTurno, EnServicio, PedidosEnOrden, CreadosEnMemoria,
         TLBSinRepetidos, TLBVigente, AccesosPropios, [Next]_vars
  PROVE  AccesosPropios'
<1> DEFINE P(p, dirs) ==
             p \notin redujo' =>
                \A k \in 1 .. Len(dirs) : dirs[k] \div TamPagina \in ToSet(paginas'[p])
<1>0. /\ situacion \in [Proceso -> Situaciones] /\ io \in [Proceso -> Acceso]
      /\ contextos \in Seq(Contexto) /\ despachados \in Seq(Proceso)
      /\ paginas \in [Proceso -> Seq(Marcos)] /\ 0 \notin Proceso
  BY DEF TiposMaquina, TypeOKMaquina
<1>a. /\ \A p : P(p, << >>)
      /\ \A p \in Proceso : \A dirs : situacion[p] # "EXIT" /\ Propios(p, dirs) => P(p, dirs)
  BY PropiosSigue
<1>c. ASSUME IF pcb' = 0 THEN fisicas' = << >> ELSE P(pcb', fisicas'),
             \A k \in 1 .. Len(contextos') : P(contextos'[k].pid, contextos'[k].fisicas),
             \A p \in Proceso : situacion'[p] = "BLOCKED" => P(p, io'[p].dirs)
      PROVE  AccesosPropios'
  BY <1>c DEF AccesosPropios, Propios, DeP
<1> HIDE DEF P
<1>b. /\ pcb # 0 => pcb \in Proceso /\ situacion[pcb] = "EXEC" /\ P(pcb, fisicas)
                    /\ contextos = << >>
      /\ pcb = 0 => fisicas = << >>
      /\ contextos # << >> =>
            /\ Tail(contextos) = << >> /\ Head(contextos) = contextos[1]
            /\ contextos[1].pid \in Proceso /\ situacion[contextos[1].pid] = "EXEC"
            /\ P(contextos[1].pid, contextos[1].fisicas)
      /\ \A k \in 1 .. Len(contextos) : P(contextos[k].pid, contextos[k].fisicas)
      /\ \A p \in Proceso : situacion[p] = "BLOCKED" => P(p, io[p].dirs)
  <2>1. pcb # 0 => pcb \in Proceso /\ situacion[pcb] = "EXEC" /\ contextos = << >>
    BY DEF UnTurno
  <2>2. ASSUME NEW k \in 1 .. Len(contextos)
        PROVE  /\ Len(contextos) = 1 /\ k = 1
               /\ contextos[1].pid \in Proceso /\ situacion[contextos[1].pid] = "EXEC"
    <3>1. Len(contextos) # 0
      BY <1>0
    <3>2. Len(contextos) = 1
      BY <3>1 DEF UnTurno
    <3> QED
      BY <3>1, <3>2 DEF UnTurno
  <2>3. contextos # << >> => 1 \in 1 .. Len(contextos) /\ Head(contextos) = contextos[1]
    BY <1>0
  <2>4. contextos # << >> => Tail(contextos) = << >>
    <3> DEFINE t == Tail(contextos)
    <3>1. contextos # << >> => t \in Seq(Contexto) /\ Len(t) = Len(contextos) - 1
      BY <1>0, HeadTailProperties
    <3> HIDE DEF t
    <3>2. contextos # << >> => t = << >>
      BY <3>1, <2>2, <2>3, SinElementos
    <3> QED
      BY <3>2 DEF t
  <2>5. \A k \in 1 .. Len(contextos) : P(contextos[k].pid, contextos[k].fisicas)
    BY <2>2, <1>a DEF AccesosPropios
  <2>6. \A p \in Proceso : situacion[p] = "BLOCKED" => P(p, io[p].dirs)
    BY <1>a DEF AccesosPropios
  <2>7. (pcb # 0 => P(pcb, fisicas)) /\ (pcb = 0 => fisicas = << >>)
    BY <2>1, <1>a DEF AccesosPropios
  <2> QED
    BY <2>1, <2>2, <2>3, <2>4, <2>5, <2>6, <2>7
<1>1. CASE Nucleo
  <2>1. UNCHANGED << pcb, fisicas >>
    BY <1>1 DEF Nucleo, NucleoCrea, NucleoAdmite, NucleoDespacha, NucleoDespierta,
       NucleoFinalizaOtro, NucleoFinalizaNuevo, NucleoFinalizaEnVuelo, NucleoDesaloja,
       NucleoFinaliza, NucleoTermina, NucleoReencola, NucleoContinua, NucleoBloquea
  <2>2. contextos' = contextos \/ contextos' = << >>
    BY <1>1, <1>b DEF Nucleo, NucleoCrea, NucleoAdmite, NucleoDespacha, NucleoDespierta,
       NucleoFinalizaOtro, NucleoFinalizaNuevo, NucleoFinalizaEnVuelo, NucleoDesaloja,
       NucleoFinaliza, NucleoTermina, NucleoReencola, NucleoContinua, NucleoBloquea, Llega
  <2>3. \A p \in Proceso : situacion'[p] = "BLOCKED" => P(p, io'[p].dirs)
    <3>1. ASSUME io' = io, UNCHANGED situacion \/
                 \E p \in Proceso : \E a, b : EnSituacion(p, a, b) /\ b # "BLOCKED"
          PROVE  \A p \in Proceso : situacion'[p] = "BLOCKED" => P(p, io'[p].dirs)
      BY <3>1, <1>0, <1>b DEF EnSituacion
    <3>2. ASSUME NEW p \in Proceso,
                 NucleoCrea(p) \/ NucleoAdmite(p) \/ NucleoDespacha(p)
                 \/ NucleoFinalizaOtro(p) \/ NucleoFinalizaNuevo(p)
          PROVE  io' = io /\ \E a, b : EnSituacion(p, a, b) /\ b # "BLOCKED"
      BY <3>2 DEF NucleoCrea, NucleoAdmite, NucleoDespacha, NucleoFinalizaOtro,
         NucleoFinalizaNuevo
    <3>3. ASSUME NEW p \in Proceso, NucleoDespierta(p)
          PROVE  \A q \in Proceso : situacion'[q] = "BLOCKED" => P(q, io'[q].dirs)
      <4>1. /\ situacion' = [situacion EXCEPT ![p] = "READY"]
            /\ io' = [io EXCEPT ![p] = SinAcceso]
        BY <3>3 DEF NucleoDespierta, EnSituacion
      <4> QED
        BY <4>1, <1>0, <1>b
    <3>4. CASE \/ NucleoDesaloja \/ NucleoFinaliza \/ NucleoContinua
               \/ \E p \in Proceso : NucleoFinalizaEnVuelo(p)
      BY <3>1, <3>4 DEF NucleoDesaloja, NucleoFinaliza, NucleoContinua,
         NucleoFinalizaEnVuelo
    <3>5. CASE NucleoTermina \/ NucleoReencola
      <4>1. Llegado \in Proceso /\ io' = io
            /\ \E a, b : EnSituacion(Llegado, a, b) /\ b # "BLOCKED"
        BY <3>5, <1>b DEF NucleoTermina, NucleoReencola, Llega, Llegado
      <4> QED
        BY <4>1, <3>1
    <3>6. CASE NucleoBloquea
      <4>1. /\ contextos # << >> /\ Llegado = contextos[1].pid
            /\ situacion' = [situacion EXCEPT ![Llegado] = "BLOCKED"]
            /\ io' = [io EXCEPT ![Llegado] =
                  IF contextos[1].op = "IO"
                  THEN [dirs |-> contextos[1].fisicas, tam |-> contextos[1].tam]
                  ELSE SinAcceso]
        BY <3>6, <1>b DEF NucleoBloquea, Llega, Llegado, EnSituacion
      <4>2. /\ Llegado \in Proceso /\ P(Llegado, contextos[1].fisicas)
            /\ P(Llegado, SinAcceso.dirs)
        BY <4>1, <1>a, <1>b, <1>c DEF SinAcceso
      <4>3. io'[Llegado].dirs = contextos[1].fisicas \/ io'[Llegado].dirs = SinAcceso.dirs
        BY <4>1, <4>2, <1>0
      <4>4. \A q \in Proceso : q # Llegado => io'[q] = io[q] /\ situacion'[q] = situacion[q]
        BY <4>1, <1>0
      <4> QED
        BY <4>2, <4>3, <4>4, <1>b
    <3>7. ASSUME NEW p \in Proceso, NucleoCrea(p) \/ NucleoAdmite(p) \/ NucleoDespacha(p)
                                    \/ NucleoFinalizaOtro(p) \/ NucleoFinalizaNuevo(p)
          PROVE  \A q \in Proceso : situacion'[q] = "BLOCKED" => P(q, io'[q].dirs)
      BY <3>1, <3>2, <3>7
    <3> QED
      BY <3>3, <3>4, <3>5, <3>6, <3>7, <1>1 DEF Nucleo
  <2>4. \A k \in 1 .. Len(contextos') : P(contextos'[k].pid, contextos'[k].fisicas)
    BY <2>2, <1>b
  <2> QED
    BY <2>1, <2>3, <2>4, <1>a, <1>b, <1>c
<1>2. CASE PasoMemoria \/ PasoInterrupcion \/ Carrera \/ UNCHANGED vars
  <2>1. UNCHANGED << pcb, fisicas, contextos, situacion, io >>
    BY <1>2 DEF PasoMemoria, PasoInterrupcion, InterrupcionLlega, Carrera, vars
  <2> QED
    BY <2>1, <1>a, <1>b, <1>c
<1>3. CASE PasoCiclo
  <2>0. UNCHANGED << situacion, io, redujo >>
    BY <1>3 DEF PasoCiclo
  <2>1. ASSUME UNCHANGED << contextos, pcb >>, fisicas' = fisicas \/ fisicas' = << >>
        PROVE  AccesosPropios'
    BY <2>0, <2>1, <1>a, <1>b, <1>c
  <2>2. ASSUME NEW op, Responde(op), cpu # "espera"
        PROVE  AccesosPropios'
    <3> DEFINE c == [pid |-> pcb, op |-> op, fisicas |-> fisicas, tam |-> instruccion.tam]
    <3>1. /\ pcb # 0 /\ contextos = << >> /\ contextos' = Append(contextos, c)
          /\ pcb' = 0 /\ fisicas' = << >>
      BY <2>2, PcbEnExec, <1>0 DEF Responde, Olvida
    <3>2. c.pid = pcb /\ c.fisicas = fisicas
      OBVIOUS
    <3> HIDE DEF c
    <3>3. contextos' = << c >>
      BY <3>1
    <3>4. \A k \in 1 .. Len(contextos') : P(contextos'[k].pid, contextos'[k].fisicas)
      BY <3>1, <3>2, <3>3, <1>b
    <3> QED
      BY <2>0, <3>1, <3>4, <1>a, <1>b, <1>c
  <2>3. CASE CPURecibe
    <3>1. /\ despachados # << >> /\ pcb' = Head(despachados) /\ fisicas' = << >>
          /\ UNCHANGED contextos
      BY <2>3, <1>b, PcbEnExec DEF CPURecibe
    <3> QED
      BY <2>0, <3>1, <1>a, <1>b, <1>c
  <2>4. CASE CPUDecode
    <3> DEFINE dir == instruccion.dirs[Len(fisicas) + 1]
               n == Pagina(dir)
    <3>1. /\ UNCHANGED << contextos, pcb, paginas, redujo >>
      BY <2>4, <2>0 DEF CPUDecode
    <3>2. /\ pcb \in Proceso /\ n \in Nat /\ situacion[pcb] = "EXEC" /\ fisicas \in Seq(Nat)
          /\ Marco(pcb, n) # SinMarco =>
                /\ fisicas' = Append(fisicas, Fisica(pcb, dir)) /\ Fisica(pcb, dir) \in Nat
                /\ Fisica(pcb, dir) \div TamPagina = Marco(pcb, n)
          /\ Marco(pcb, n) = SinMarco => fisicas' = fisicas
      BY <2>4, Traduce
    <3> HIDE DEF dir, n
    <3>3. CASE Marco(pcb, n) = SinMarco
      BY <3>1, <3>2, <3>3, <2>1
    <3>4. CASE Marco(pcb, n) # SinMarco
      <4>1. /\ Len(fisicas') = Len(fisicas) + 1 /\ Len(fisicas) \in Nat
            /\ \A k \in 1 .. Len(fisicas) : fisicas'[k] = fisicas[k]
            /\ fisicas'[Len(fisicas) + 1] = Fisica(pcb, dir)
        <5> DEFINE f == Fisica(pcb, dir)
        <5>1. f \in Nat /\ fisicas \in Seq(Nat) /\ fisicas' = Append(fisicas, f)
          BY <3>2, <3>4
        <5> HIDE DEF f
        <5>2. /\ Len(fisicas') = Len(fisicas) + 1 /\ Len(fisicas) \in Nat
              /\ \A k \in 1 .. Len(fisicas) : fisicas'[k] = fisicas[k]
              /\ fisicas'[Len(fisicas) + 1] = f
          BY <5>1, AppendProperties
        <5> QED
          BY <5>2 DEF f
      <4>2. pcb \notin redujo => Fisica(pcb, dir) \div TamPagina \in ToSet(paginas[pcb])
        BY <3>2, <3>4, MarcoPropio
      <4>3. Propios(pcb, fisicas)
        BY <3>2, <1>0 DEF AccesosPropios
      <4>4. ASSUME pcb \notin redujo', NEW k \in 1 .. Len(fisicas')
            PROVE  fisicas'[k] \div TamPagina \in ToSet(paginas'[pcb])
        <5>1. k \in 1 .. Len(fisicas) \/ k = Len(fisicas) + 1
          BY <4>1
        <5> QED
          BY <5>1, <4>1, <4>2, <4>3, <4>4, <3>1 DEF Propios, DeP
      <4>5. P(pcb, fisicas')
        BY <4>4 DEF P
      <4> QED
        BY <2>0, <3>1, <3>2, <4>5, <1>a, <1>b, <1>c
    <3> QED
      BY <3>3, <3>4
  <2>5. CASE CPUPendUsuario
    BY <2>5, <2>1, <2>2 DEF CPUPendUsuario
  <2>6. CASE CPUPendQuantum
    BY <2>6, <2>1, <2>2 DEF CPUPendQuantum
  <2>7. CASE CPULimpia \/ CPUFetch \/ CPUEjecutaLocal \/ CPUPideTamano
             \/ CPUPideTamanoEnVano
    BY <2>7, <2>1 DEF CPULimpia, CPUFetch, CPUEjecutaLocal, CPUPideTamano,
       CPUPideTamanoEnVano, Olvida
  <2>8. CASE CPURedimensionada
    BY <2>8, <2>1, <2>2 DEF CPURedimensionada, RespondeSinMemoria, Olvida
  <2>9. CASE CPUSolicitaRecurso \/ CPUPideIO \/ CPUSale
    BY <2>9, <2>2 DEF CPUSolicitaRecurso, CPUPideIO, CPUSale, Decodificada
  <2>10. CASE CPUVeUsuario
    BY <2>10, <2>1, <2>2 DEF CPUVeUsuario
  <2>11. CASE CPUVeQuantum
    BY <2>11, <2>1, <2>2 DEF CPUVeQuantum
  <2> QED
    BY <2>3, <2>4, <2>5, <2>6, <2>7, <2>8, <2>9, <2>10, <2>11, <1>3 DEF PasoCiclo, CicloCPU
<1> QED
  BY <1>1, <1>2, <1>3 DEF Next, Quieta

\* The CPU dies in a translation, of a page that is not there; in a fetch, of a process that
\* the memory does not know or of what a resize in vain left; or of the memory's threads.
LEMMA PasoMuerteConocida ==
  ASSUME TiposMaquina, UnTurno, EnServicio, PedidosEnOrden, CreadosEnMemoria,
         TLBSinRepetidos, MuerteConocida, [Next]_vars
  PROVE  MuerteConocida'
<1>1. CASE cpu = "muerto"
  <2>1. UNCHANGED vars
    BY <1>1 DEF Next, Quieta
  <2> QED
    BY <2>1 DEF vars, cpuVars, cicloVars, memoriaVars, confVars, nucleoVars, finVars,
       MuerteConocida
<1>2. CASE cpu # "muerto" /\ CPUDecode
  <2> DEFINE dir == instruccion.dirs[Len(fisicas) + 1]
             n == Pagina(dir)
  <2>1. /\ pcb \in Proceso /\ n \in Nat
        /\ Marco(pcb, n) # SinMarco => cpu' = "decode"
        /\ Marco(pcb, n) = SinMarco => fisicas' = fisicas
    BY <1>2, Traduce
  <2>2. Len(fisicas) < Len(instruccion.dirs) /\ UNCHANGED << pcb, instruccion, paginas >>
    BY <1>2 DEF CPUDecode
  <2> HIDE DEF n
  <2>3. ASSUME Marco(pcb, n) = SinMarco PROVE n >= Len(paginas[pcb])
    <3>1. paginas \in [Proceso -> Seq(Marcos)] /\ tlb \in Seq(Entrada)
      BY DEF TiposMaquina, TypeOKMaquina
    <3> QED
      BY <3>1, <2>1, <2>3, MarcoDePagina
  <2> QED
    BY <2>1, <2>2, <2>3 DEF MuerteConocida, n
<1>3. ASSUME UNCHANGED << pcb, respuesta, enVuelo, sobra, confirmados >>,
             \/ pcb \in enVuelo
             \/ respuesta = "resto" /\ enVuelo # {}
             \/ sobra /\ pcb \notin confirmados
      PROVE  MuerteConocida'
  BY <1>3 DEF MuerteConocida
<1>4. CASE cpu # "muerto" /\ PasoCiclo /\ CPUFetch
  <2>1. /\ pcb \in Proceso /\ situacion[pcb] = "EXEC"
        /\ UNCHANGED << pcb, respuesta, enVuelo, sobra, confirmados >>
    BY <1>4, PcbEnExec DEF CPUFetch, PasoCiclo
  <2>2. CASE Atendido
    BY <1>4, <2>2 DEF CPUFetch, MuerteConocida
  <2>3. CASE respuesta = "resto"
    BY <2>1, <2>3, <1>3 DEF EnServicio
  <2>4. CASE pcb \notin procesos /\ pcb \in confirmados
    <3>1. pcb \in enVuelo
      BY <2>1, <2>4 DEF CreadosEnMemoria, Soltado
    <3> QED
      BY <3>1, <2>1, <1>3
  <2>5. CASE pcb \notin confirmados
    <3>1. sobra
      BY <2>1, <2>5 DEF CreadosEnMemoria, EnEspera
    <3> QED
      BY <3>1, <2>5, <2>1, <1>3
  <2> QED
    BY <2>2, <2>3, <2>4, <2>5 DEF Atendido
<1>5. CASE cpu # "muerto" /\ Carrera
  <2>1. UNCHANGED << pcb, respuesta, enVuelo, sobra, confirmados >>
    BY <1>5 DEF Carrera
  <2>2. CASE Trabaja("kernel", pcb) /\ cpu \in {"fetch", "decode"}
    <3>1. /\ Soltado(pcb) /\ pcb \in Proceso
      BY <2>2 DEF Trabaja, EnServicio
    <3>2. situacion[pcb] = "EXEC"
      BY <2>2, PcbEnExec
    <3>3. pcb \in enVuelo
      BY <3>1, <3>2 DEF Soltado
    <3> QED
      BY <3>3, <2>1, <1>3
  <2>3. CASE /\ Trabaja("cpu", pcb) /\ pedidos_kernel # << >>
             /\ Head(pedidos_kernel) = [op |-> "MEMORY_PROCESS_TERM", pid |-> pcb]
    <3>1. Soltado(pcb)
      BY <2>3, CabezaPedidos
    <3>2. situacion[pcb] = "EXEC"
      BY <2>3, PcbEnExec DEF Trabaja, EnServicio
    <3>3. pcb \in enVuelo
      BY <3>1, <3>2 DEF Soltado
    <3> QED
      BY <3>3, <2>1, <1>3
  <2> QED
    BY <1>5, <2>2, <2>3 DEF Carrera
<1>6. CASE cpu # "muerto" /\ ~ CPUDecode /\ ~ (PasoCiclo /\ CPUFetch) /\ ~ Carrera
  <2>1. cpu' # "muerto"
    <3>1. CASE Nucleo
      BY <1>6, <3>1 DEF Nucleo, NucleoCrea, NucleoAdmite, NucleoDespacha, NucleoDespierta,
         NucleoFinalizaOtro, NucleoFinalizaNuevo, NucleoFinalizaEnVuelo, NucleoDesaloja,
         NucleoFinaliza, NucleoTermina, NucleoReencola, NucleoContinua, NucleoBloquea
    <3>3. CASE PasoCiclo
      BY <1>6, <3>3 DEF PasoCiclo, CicloCPU, CPURecibe, CPUPendUsuario, CPUPendQuantum,
         CPULimpia, CPUEjecutaLocal, CPUPideTamano, CPUPideTamanoEnVano,
         CPURedimensionada, CPUSolicitaRecurso, CPUPideIO, CPUSale, CPUVeUsuario,
         CPUVeQuantum, Responde, RespondeSinMemoria
    <3>4. CASE PasoMemoria \/ PasoInterrupcion \/ UNCHANGED vars
      BY <1>6, <3>4 DEF PasoMemoria, PasoInterrupcion, InterrupcionLlega, vars
    <3> QED
      BY <3>1, <3>3, <3>4, <1>6 DEF Next, Quieta
  <2> QED
    BY <2>1 DEF MuerteConocida
<1> QED
  BY <1>1, <1>2, <1>4, <1>5, <1>6

-----------------------------------------------------------------------------
(* The bitmap. *)

\* A page table without one of its pages: each frame that is left is where it was, or one
\* place before.
LEMMA QuitaPagina ==
  ASSUME paginas \in [Proceso -> Seq(Marcos)], MarcosPropios,
         NEW p \in Proceso, NEW k \in 1 .. Len(paginas[p]),
         \A q \in Proceso : q # p => paginas'[q] = paginas[q],
         Len(paginas'[p]) = Len(paginas[p]) - 1,
         \A i \in 1 .. Len(paginas[p]) - 1 :
            paginas'[p][i] = IF i < k THEN paginas[p][i] ELSE paginas[p][i + 1]
  PROVE  /\ MarcosPropios'
         /\ \A m : ConDueno(m)' <=> ConDueno(m) /\ m # paginas[p][k]
<1> DEFINE va(i) == IF i < k THEN i ELSE i + 1
           de(i) == IF i < k THEN i ELSE i - 1
<1>0. /\ Len(paginas[p]) \in Nat /\ k \in Nat
      /\ \A q \in Proceso : Len(paginas[q]) \in Nat
  OBVIOUS
<1>1. /\ \A i \in 1 .. Len(paginas[p]) - 1 :
            va(i) \in 1 .. Len(paginas[p]) /\ va(i) # k /\ paginas'[p][i] = paginas[p][va(i)]
      /\ \A i, j \in 1 .. Len(paginas[p]) - 1 : va(i) = va(j) => i = j
      /\ \A i \in 1 .. Len(paginas[p]) : i # k =>
            de(i) \in 1 .. Len(paginas[p]) - 1 /\ va(de(i)) = i
  <2>1. \A i \in 1 .. Len(paginas[p]) - 1 :
           va(i) \in 1 .. Len(paginas[p]) /\ va(i) # k /\ paginas'[p][i] = paginas[p][va(i)]
    BY <1>0
  <2>2. \A i, j \in 1 .. Len(paginas[p]) - 1 : va(i) = va(j) => i = j
    BY <1>0
  <2>3. \A i \in 1 .. Len(paginas[p]) : i # k =>
           de(i) \in 1 .. Len(paginas[p]) - 1 /\ va(de(i)) = i
    BY <1>0
  <2> QED
    BY <2>1, <2>2, <2>3
<1> DEFINE pos(q, i) == IF q = p THEN va(i) ELSE i
<1> HIDE DEF va, de
<1>2. /\ \A q \in Proceso : \A i \in 1 .. Len(paginas'[q]) :
            /\ pos(q, i) \in 1 .. Len(paginas[q]) /\ paginas'[q][i] = paginas[q][pos(q, i)]
            /\ q = p => pos(q, i) # k
      /\ \A q \in Proceso : \A i, j \in 1 .. Len(paginas'[q]) :
            pos(q, i) = pos(q, j) => i = j
      /\ \A q \in Proceso : \A j \in 1 .. Len(paginas[q]) : (q = p => j # k) =>
            \E i \in 1 .. Len(paginas'[q]) : pos(q, i) = j
  BY <1>1
<1> HIDE DEF pos
<1>3. ASSUME NEW q \in Proceso, NEW r \in Proceso,
             NEW i \in 1 .. Len(paginas'[q]), NEW j \in 1 .. Len(paginas'[r]),
             paginas'[q][i] = paginas'[r][j]
      PROVE  q = r /\ i = j
  <2>1. /\ pos(q, i) \in 1 .. Len(paginas[q]) /\ pos(r, j) \in 1 .. Len(paginas[r])
        /\ paginas[q][pos(q, i)] = paginas[r][pos(r, j)]
    BY <1>2, <1>3
  <2>2. q = r /\ pos(q, i) = pos(r, j)
    BY <2>1 DEF MarcosPropios
  <2> QED
    BY <2>2, <1>2
<1>4. ASSUME NEW m, ConDueno(m)' PROVE ConDueno(m) /\ m # paginas[p][k]
  <2>1. PICK q \in Proceso : \E i \in 1 .. Len(paginas'[q]) : paginas'[q][i] = m
    BY <1>4 DEF ConDueno
  <2>a. PICK i \in 1 .. Len(paginas'[q]) : paginas'[q][i] = m
    BY <2>1
  <2>2. /\ pos(q, i) \in 1 .. Len(paginas[q]) /\ paginas[q][pos(q, i)] = m
        /\ q = p => pos(q, i) # k
    BY <1>2, <2>a
  <2> QED
    BY <2>2 DEF ConDueno, MarcosPropios
<1>5. ASSUME NEW m, ConDueno(m), m # paginas[p][k] PROVE ConDueno(m)'
  <2>a. PICK q \in Proceso : \E j \in 1 .. Len(paginas[q]) : paginas[q][j] = m
    BY <1>5 DEF ConDueno
  <2>1. PICK j \in 1 .. Len(paginas[q]) : paginas[q][j] = m
    BY <2>a
  <2>2. q = p => j # k
    BY <2>1, <1>5
  <2>3. PICK i \in 1 .. Len(paginas'[q]) : pos(q, i) = j
    BY <2>2, <1>2
  <2> QED
    BY <2>1, <2>3, <1>2 DEF ConDueno
<1>6. MarcosPropios'
  BY <1>3 DEF MarcosPropios
<1> QED
  BY <1>4, <1>5, <1>6

\* A page table with one page more, in a frame that was nobody's.
LEMMA AgregaPagina ==
  ASSUME paginas \in [Proceso -> Seq(Marcos)], MarcosPropios,
         NEW p \in Proceso, NEW m \in Marcos, ~ ConDueno(m),
         paginas' = [paginas EXCEPT ![p] = Append(@, m)]
  PROVE  /\ MarcosPropios'
         /\ \A x : ConDueno(x)' <=> ConDueno(x) \/ x = m
<1>0. paginas[p] \in Seq(Marcos) /\ Len(paginas[p]) \in Nat
  OBVIOUS
<1> DEFINE n == Len(paginas[p])
<1>1. /\ \A q \in Proceso : q # p => paginas'[q] = paginas[q]
      /\ Len(paginas'[p]) = n + 1 /\ paginas'[p][n + 1] = m
      /\ \A i \in 1 .. n : paginas'[p][i] = paginas[p][i]
  <2>1. paginas'[p] = Append(paginas[p], m)
    OBVIOUS
  <2> QED
    BY <2>1, <1>0, AppendProperties
<1>2. n \in Nat /\ \A q \in Proceso : Len(paginas[q]) \in Nat
  OBVIOUS
<1> HIDE DEF n
<1>3. \A q \in Proceso : \A i \in 1 .. Len(paginas'[q]) :
         \/ i \in 1 .. Len(paginas[q]) /\ paginas'[q][i] = paginas[q][i]
         \/ q = p /\ i = n + 1 /\ paginas'[q][i] = m
  BY <1>1, <1>2 DEF n
<1>4. \A q \in Proceso : \A i \in 1 .. Len(paginas[q]) :
         /\ i \in 1 .. Len(paginas'[q]) /\ paginas'[q][i] = paginas[q][i]
         /\ paginas[q][i] # m
  <2>1. \A q \in Proceso : \A i \in 1 .. Len(paginas[q]) :
            i \in 1 .. Len(paginas'[q]) /\ paginas'[q][i] = paginas[q][i]
    BY <1>1, <1>2 DEF n
  <2> QED
    BY <2>1 DEF ConDueno
<1>5. MarcosPropios'
  BY <1>3, <1>4 DEF MarcosPropios
<1>6. n + 1 \in 1 .. Len(paginas'[p])
  BY <1>1, <1>2
<1>7. \A x : ConDueno(x)' => ConDueno(x) \/ x = m
  BY <1>3 DEF ConDueno
<1>8. \A x : ConDueno(x) => ConDueno(x)'
  BY <1>4 DEF ConDueno
<1>9. ConDueno(m)'
  BY <1>1, <1>6 DEF ConDueno
<1> QED
  BY <1>5, <1>7, <1>8, <1>9

\* A bit operation that no other overlapped with does what it is for.
LEMMA GuardaExacta ==
  ASSUME frame_bitarray \subseteq Marcos, NEW h, NEW m \in Marcos, NEW bits,
         GuardaByte(h, m, bits), ~ pisado', pisado \in BOOLEAN
  PROVE  /\ ~ pisado
         /\ bits = byte[h] \ {m} => frame_bitarray' = frame_bitarray \ {m}
         /\ bits = byte[h] \cup {m} => frame_bitarray' = frame_bitarray \cup {m}
<1>1. m \in ByteDe(m)
  BY DEF ByteDe
<1>2. /\ ~ pisado /\ byte[h] = frame_bitarray \cap ByteDe(m)
      /\ frame_bitarray' = (frame_bitarray \ ByteDe(m)) \cup bits
  BY DEF GuardaByte
<1> QED
  BY <1>1, <1>2

\* As long as none overlap, the bitmap and the page tables agree.
LEMMA PasoBitsExactos ==
  ASSUME TiposMaquina, UnTurno, EnServicio, PedidosEnOrden, CreadosEnMemoria,
         BitsExactos, [Next]_vars
  PROVE  BitsExactos'
<1> SUFFICES ASSUME ~ pisado' PROVE BitsExactos'
  BY DEF BitsExactos
<1>0. /\ paginas \in [Proceso -> Seq(Marcos)] /\ frame_bitarray \subseteq Marcos
      /\ hilo \in [HilosMemoria -> EtapasKernel \cup EtapasCPU] /\ pisado \in BOOLEAN
      /\ "cpu" \in HilosMemoria /\ "kernel" \in HilosMemoria
  BY DEF TiposMaquina, TypeOKMaquina, HilosMemoria
<1>1. ASSUME ~ pisado, UNCHANGED << paginas, frame_bitarray, PorMarcar >>
      PROVE  BitsExactos'
  BY <1>1 DEF BitsExactos, MarcosPropios, ConDueno
<1>2. CASE ~ PasoMemoria
  <2>1. UNCHANGED << paginas, frame_bitarray, pisado >>
    BY <1>2, MemoriaQueda DEF Next, Quieta
  <2>2. UNCHANGED PorMarcar
    <3>1. CASE UNCHANGED << hilo, indice >>
      BY <3>1 DEF PorMarcar
    <3>2. CASE CPUPideTamano
      <4>1. hilo["cpu"] = "libre"
        BY <3>2 DEF CPUPideTamano, Decodificada, EnServicio
      <4>2. MemoriaRedimensiona(pcb, instruccion.tam)
        BY <3>2 DEF CPUPideTamano
      <4>3. hilo'["cpu"] # "marca"
        BY <4>2, <1>0 DEF MemoriaRedimensiona
      <4> QED
        BY <4>1, <4>3 DEF PorMarcar
    <3>3. CASE CPURedimensionada
      <4>1. hilo["cpu"] = "libre" /\ hilo' = hilo
        BY <3>3 DEF CPURedimensionada, TomaRespuesta, EnServicio
      <4> QED
        BY <4>1 DEF PorMarcar
    <3>4. CASE Nucleo
      BY <3>1, <3>4 DEF Nucleo, NucleoCrea, NucleoAdmite, NucleoDespacha,
         NucleoDespierta, NucleoFinalizaOtro, NucleoFinalizaNuevo, NucleoFinalizaEnVuelo,
         NucleoDesaloja, NucleoFinaliza, NucleoTermina, NucleoReencola, NucleoContinua,
         NucleoBloquea
    <3>5. CASE PasoCiclo /\ ~ CPUPideTamano /\ ~ CPURedimensionada
      BY <3>1, <3>5 DEF PasoCiclo, CicloCPU, CPURecibe, CPUPendUsuario, CPUPendQuantum,
         CPULimpia, CPUFetch, CPUDecode, CPUEjecutaLocal, CPUPideTamanoEnVano,
         MemoriaDesconoce, CPUSolicitaRecurso, CPUPideIO, CPUSale, CPUVeUsuario, CPUVeQuantum
    <3>6. CASE PasoInterrupcion \/ Carrera \/ UNCHANGED vars
      BY <3>1, <3>6 DEF PasoInterrupcion, InterrupcionLlega, Carrera, vars
    <3> QED
      BY <1>2, <3>2, <3>3, <3>4, <3>5, <3>6 DEF Next, Quieta
  <2> QED
    BY <2>1, <2>2, <1>1
<1>3. CASE PasoMemoria /\ (MemoriaCrea \/ MemoriaTermina \/ MemoriaCargaParaLiberar
                           \/ MemoriaOlvidaProceso)
  <2>1. /\ UNCHANGED << bitVars, indice >> /\ hilo'["cpu"] = hilo["cpu"]
    BY <1>3, <1>0 DEF MemoriaCrea, MemoriaTermina, MemoriaCargaParaLiberar,
       MemoriaOlvidaProceso
  <2>2. UNCHANGED paginas
    <3>1. CASE MemoriaCrea
      <4>1. UNCHANGED << hilo, bitVars >>
        BY <3>1 DEF MemoriaCrea
      <4>2. ~ MemoriaLiberaPagina /\ ~ AsignaEncuentra /\ ~ ReducePagina
        BY <4>1, <1>0 DEF MemoriaLiberaPagina, AsignaEncuentra, ReducePagina
      <4> QED
        BY <4>2, CambioPaginas
    <3>2. CASE ~ MemoriaCrea
      BY <3>2, <1>3 DEF MemoriaTermina, MemoriaCargaParaLiberar, MemoriaOlvidaProceso
    <3> QED
      BY <3>1, <3>2
  <2> QED
    BY <2>1, <2>2, <1>1 DEF PorMarcar
<1>4. CASE PasoMemoria /\ MemoriaLiberaPagina
  <2> DEFINE p == sirve["kernel"]
             m == paginas[p][1]
  <2>1. /\ p \in Proceso /\ paginas[p] # << >>
        /\ hilo["cpu"] # "libre" => sirve["cpu"] = pcb /\ p # pcb
        /\ GuardaByte("kernel", Head(paginas[p]), byte["kernel"] \ {Head(paginas[p])})
        /\ paginas' = [paginas EXCEPT ![p] = Tail(@)]
        /\ hilo' = [hilo EXCEPT !["kernel"] = "libera"] /\ indice' = indice
    BY <1>4 DEF MemoriaLiberaPagina, EnServicio, Limpia, Trabaja
  <2> HIDE DEF p
  <2>2. /\ paginas[p] \in Seq(Marcos) /\ Len(paginas[p]) \in Nat \ {0}
        /\ Head(paginas[p]) = m /\ m \in Marcos
    BY <2>1, <1>0
  <2>3. ~ pisado /\ frame_bitarray' = frame_bitarray \ {m}
    <3>1. GuardaByte("kernel", m, byte["kernel"] \ {m})
      BY <2>1, <2>2
    <3> HIDE DEF m
    <3> QED
      BY <2>2, <3>1, <1>0, GuardaExacta
  <2>4. MarcosPropios /\ \A x \in Marcos : x \in frame_bitarray \cup PorMarcar <=> ConDueno(x)
    BY <2>3 DEF BitsExactos
  <2>5. MarcosPropios' /\ \A x : ConDueno(x)' <=> ConDueno(x) /\ x # m
    <3>1. 1 \in 1 .. Len(paginas[p])
      BY <2>2
    <3>2. /\ \A q \in Proceso : q # p => paginas'[q] = paginas[q]
          /\ paginas'[p] = Tail(paginas[p])
      BY <2>1, <1>0
    <3>3. /\ Len(paginas'[p]) = Len(paginas[p]) - 1
          /\ \A i \in 1 .. Len(paginas[p]) - 1 : paginas'[p][i] = paginas[p][i + 1]
      <4> DEFINE s == paginas[p]
      <4>1. s \in Seq(Marcos) /\ s # << >> /\ paginas'[p] = Tail(s)
        BY <2>1, <2>2, <3>2
      <4> HIDE DEF s
      <4>2. Len(Tail(s)) = Len(s) - 1 /\ \A i \in 1 .. Len(s) - 1 : Tail(s)[i] = s[i + 1]
        BY <4>1
      <4> QED
        BY <4>1, <4>2 DEF s
    <3>4. \A i \in 1 .. Len(paginas[p]) - 1 :
             paginas'[p][i] = IF i < 1 THEN paginas[p][i] ELSE paginas[p][i + 1]
      BY <3>3
    <3> QED
      BY <2>1, <2>4, <3>1, <3>2, <3>3, <3>4, <1>0, QuitaPagina
  <2>6. PorMarcar' = PorMarcar
    BY <2>1, <1>0 DEF PorMarcar
  <2>7. m \notin PorMarcar
    <3> SUFFICES ASSUME hilo["cpu"] = "marca", m = indice PROVE FALSE
      BY DEF PorMarcar
    <3>1. /\ sirve["cpu"] \in Proceso /\ situacion[sirve["cpu"]] = "EXEC"
          /\ paginas[sirve["cpu"]] # << >>
          /\ paginas[sirve["cpu"]][Len(paginas[sirve["cpu"]])] = indice
      BY PcbEnExec DEF EnServicio
    <3>2. /\ Len(paginas[sirve["cpu"]]) \in 1 .. Len(paginas[sirve["cpu"]])
          /\ 1 \in 1 .. Len(paginas[p]) /\ p # sirve["cpu"]
      BY <3>1, <2>1, <2>2, <1>0
    <3> QED
      BY <2>1, <2>4, <3>1, <3>2 DEF MarcosPropios
  <2> QED
    BY <2>3, <2>4, <2>5, <2>6, <2>7 DEF BitsExactos
<1>5. CASE PasoMemoria /\ (AsignaSaltea \/ AsignaSinMarcos \/ ReduceCarga)
  BY <1>5, <1>0, <1>1 DEF AsignaSaltea, AsignaSinMarcos, ReduceCarga, PorMarcar
<1>6. CASE PasoMemoria /\ AsignaEncuentra
  <2>1. /\ pcb \in Proceso /\ indice \in Marcos \ frame_bitarray
        /\ paginas' = [paginas EXCEPT ![pcb] = Append(@, indice)]
        /\ hilo["cpu"] = "asigna" /\ hilo' = [hilo EXCEPT !["cpu"] = "marca"]
        /\ UNCHANGED << bitVars, indice >>
    BY <1>6, PcbEnExec DEF AsignaEncuentra, EnServicio
  <2>2. PorMarcar = {} /\ PorMarcar' = {indice} /\ ~ pisado
    BY <2>1, <1>0 DEF PorMarcar
  <2>3. MarcosPropios /\ \A x \in Marcos : x \in frame_bitarray <=> ConDueno(x)
    BY <2>2 DEF BitsExactos
  <2>4. MarcosPropios' /\ \A x : ConDueno(x)' <=> ConDueno(x) \/ x = indice
    BY <2>1, <2>3, <1>0, AgregaPagina
  <2> QED
    BY <2>1, <2>2, <2>3, <2>4 DEF BitsExactos
<1>7. CASE PasoMemoria /\ AsignaMarca
  <2>1. /\ GuardaByte("cpu", indice, byte["cpu"] \cup {indice}) /\ indice \in Marcos
        /\ hilo["cpu"] = "marca" /\ hilo'["cpu"] # "marca" /\ UNCHANGED paginas
    BY <1>7, <1>0 DEF AsignaMarca, EnServicio
  <2>2. ~ pisado /\ frame_bitarray' = frame_bitarray \cup {indice}
    BY <2>1, <1>0, GuardaExacta
  <2>3. PorMarcar = {indice} /\ PorMarcar' = {}
    BY <2>1 DEF PorMarcar
  <2> QED
    BY <2>1, <2>2, <2>3 DEF BitsExactos, MarcosPropios, ConDueno
<1>8. CASE PasoMemoria /\ ReducePagina
  <2> DEFINE n == Len(paginas[pcb])
             m == paginas[pcb][n]
  <2>1. /\ pcb \in Proceso /\ paginas[pcb] # << >>
        /\ GuardaByte("cpu", Last(paginas[pcb]), byte["cpu"] \ {Last(paginas[pcb])})
        /\ paginas' = [paginas EXCEPT ![pcb] = Front(@)]
        /\ hilo["cpu"] = "descarta" /\ hilo'["cpu"] # "marca"
    <3>1. /\ hilo["cpu"] = "descarta" /\ faltan > 0 /\ faltan \in Nat
          /\ sirve["cpu"] = pcb /\ faltan <= Len(paginas[pcb]) /\ pcb \in Proceso
      BY <1>8, PcbEnExec DEF ReducePagina, EnServicio, TiposMaquina, TypeOKMaquina
    <3>2. paginas[pcb] # << >>
      BY <3>1
    <3> QED
      BY <3>1, <3>2, <1>8, <1>0 DEF ReducePagina, Limpia
  <2>2. /\ paginas[pcb] \in Seq(Marcos) /\ n \in Nat \ {0}
        /\ Last(paginas[pcb]) = m /\ m \in Marcos
    BY <2>1, <1>0 DEF Last
  <2>3. ~ pisado /\ frame_bitarray' = frame_bitarray \ {m}
    <3>1. GuardaByte("cpu", m, byte["cpu"] \ {m})
      BY <2>1, <2>2
    <3> HIDE DEF m
    <3> QED
      BY <2>2, <3>1, <1>0, GuardaExacta
  <2>4. PorMarcar = {} /\ PorMarcar' = {}
    BY <2>1 DEF PorMarcar
  <2>5. MarcosPropios /\ \A x \in Marcos : x \in frame_bitarray <=> ConDueno(x)
    BY <2>3, <2>4 DEF BitsExactos
  <2>6. MarcosPropios' /\ \A x : ConDueno(x)' <=> ConDueno(x) /\ x # m
    <3>1. n \in 1 .. Len(paginas[pcb])
      BY <2>2
    <3>2. /\ \A q \in Proceso : q # pcb => paginas'[q] = paginas[q]
          /\ paginas'[pcb] = Front(paginas[pcb])
      BY <2>1, <1>0
    <3>3. /\ Len(paginas'[pcb]) = Len(paginas[pcb]) - 1
          /\ \A i \in 1 .. Len(paginas[pcb]) - 1 : paginas'[pcb][i] = paginas[pcb][i]
      BY <2>1, <2>2, <3>2, FrenteLista
    <3>4. \A i \in 1 .. Len(paginas[pcb]) - 1 : i < n
      BY <2>2
    <3>5. \A i \in 1 .. Len(paginas[pcb]) - 1 :
             paginas'[pcb][i] = IF i < n THEN paginas[pcb][i] ELSE paginas[pcb][i + 1]
      BY <3>3, <3>4
    <3> HIDE DEF n
    <3> QED
      BY <2>1, <2>5, <3>1, <3>2, <3>3, <3>5, <1>0, QuitaPagina
  <2> QED
    BY <2>3, <2>4, <2>5, <2>6 DEF BitsExactos
<1> QED
  BY <1>2, <1>3, <1>4, <1>5, <1>6, <1>7, <1>8 DEF PasoMemoria, HiloKernel, HiloCPU

-----------------------------------------------------------------------------
(* The invariant and what follows from it. *)

\* It holds at the beginning.
LEMMA InicioMaquina ==
  ASSUME Init
  PROVE  InvarianteMaquina
<1> USE DEF Init, InitMemoria, InitMmu, InitCpu, HilosMemoria
<1>0. /\ max_bit \in Nat /\ << >> \in Seq(Marcos) /\ << >> \in Seq(Contexto)
      /\ << >> \in Seq(PedidoMemoria) /\ << >> \in Seq(Entrada) /\ << >> \in Seq(Nat)
      /\ << >> \in Seq(Proceso) /\ << >> \in Seq(Interrupciones)
      /\ << >> \in Seq(Confirmaciones) /\ Len(<< >>) = 0
  BY HayMarcos
<1>a. SinInstruccion \in Instruccion /\ SinAcceso \in Acceso
  <2>1. SinInstruccion \in Instruccion
    BY DEF SinInstruccion, Instruccion, OpsCPU
  <2>2. SinAcceso \in Acceso
    BY DEF SinAcceso, Acceso
  <2> QED
    BY <2>1, <2>2
<1>1. TypeOKMaquina
  <2>1. /\ procesos \subseteq Proceso /\ confirmados \subseteq Proceso
        /\ frame_bitarray \subseteq Marcos /\ pisado \in BOOLEAN
    OBVIOUS
  <2>6. indice \in 0 .. max_bit /\ faltan \in Nat /\ reloj \in 0 .. MaxReloj
    <3>1. 0 \in 0 .. max_bit /\ 0 \in 0 .. MaxReloj
      BY <1>0
    <3> QED
      BY <3>1
  <2>2. /\ paginas \in [Proceso -> Seq(Marcos)] /\ byte \in [HilosMemoria -> SUBSET Marcos]
        /\ situacion \in [Proceso -> Situaciones]
    BY <1>0 DEF Situaciones
  <2>3. /\ pcb \in Proceso \cup {0} /\ pid_solicita_recurso \in Proceso \cup {0}
        /\ interrupcion \in Interrupciones \cup {CLEAR_INTERRUPT}
    OBVIOUS
  <2>4. \A k \in 1 .. Len(contextos) :
            contextos[k].pid \in Proceso /\ contextos[k].op \in OpsContexto
    BY <1>0, ContextosTipos
  <2>5. tlb \in Seq(Entrada) /\ despachados \in Seq(Proceso)
        /\ ordenes_interrupcion \in Seq(Interrupciones)
    BY <1>0
  <2> QED
    BY <2>1, <2>2, <2>3, <2>4, <2>5, <2>6 DEF TypeOKMaquina
<1>2. TiposMaquina
  BY <1>0, <1>a, <1>1 DEF TiposMaquina, EtapasKernel, EtapasCPU, EtapasCiclo
<1>3. UnTurno /\ EnServicio /\ PedidosEnOrden /\ CreadosEnMemoria /\ NuevosEnOrden
  BY <1>0 DEF UnTurno, EnServicio, PedidosEnOrden, CreadosEnMemoria, NuevosEnOrden
<1>4. BitsExactos
  BY <1>0 DEF BitsExactos, MarcosPropios, PorMarcar, ConDueno
<1>5. TLBSinRepetidos /\ TLBVigente /\ AccesosPropios /\ MuerteConocida
  BY <1>0 DEF TLBSinRepetidos, TLBVigente, AccesosPropios, MuerteConocida
<1> QED
  BY <1>2, <1>3, <1>4, <1>5 DEF InvarianteMaquina

\* Every step preserves it.
LEMMA PasoInvarianteMaquina ==
  ASSUME InvarianteMaquina, [Next]_vars
  PROVE  InvarianteMaquina'
<1>1. /\ TiposMaquina /\ UnTurno /\ EnServicio /\ PedidosEnOrden /\ CreadosEnMemoria
      /\ NuevosEnOrden /\ BitsExactos /\ TLBSinRepetidos /\ TLBVigente /\ AccesosPropios /\ MuerteConocida
  BY DEF InvarianteMaquina
<1>2. TiposMaquina' /\ UnTurno' /\ EnServicio'
  BY <1>1, PasoTipos, PasoUnTurno, PasoEnServicio
<1>3. PedidosEnOrden' /\ CreadosEnMemoria' /\ NuevosEnOrden' /\ BitsExactos'
  BY <1>1, <1>2, PasoPedidosEnOrden, PasoCreadosEnMemoria, PasoNuevosEnOrden,
     PasoBitsExactos
<1>4. TLBSinRepetidos' /\ TLBVigente' /\ AccesosPropios' /\ MuerteConocida'
  BY <1>1, PasoTLBSinRepetidos, PasoTLBVigente, PasoAccesosPropios, PasoMuerteConocida
<1> QED
  BY <1>2, <1>3, <1>4 DEF InvarianteMaquina

\* The invariant of the CPU and the memory.
THEOREM InvarianteMaquinaSiempre == Spec => []InvarianteMaquina
<1>1. Init => InvarianteMaquina
  BY InicioMaquina
<1>2. InvarianteMaquina /\ [Next]_vars => InvarianteMaquina'
  BY PasoInvarianteMaquina
<1> QED
  BY <1>1, <1>2, PTL DEF Spec

\* The types of the CPU and the memory: among them, that the frames of the page tables and
\* of the TLB have a bit, and that the loop of asignar_paginas stays in the bitmap.
THEOREM TiposMaquinaSiempre == Spec => []TypeOKMaquina
<1>1. InvarianteMaquina => TypeOKMaquina
  BY DEF InvarianteMaquina, TiposMaquina
<1> QED
  BY <1>1, InvarianteMaquinaSiempre, PTL

\* Each pcb the CPU receives is answered with one context and no more (servers.c:66-88).
THEOREM UnContextoSiempre == Spec => []UnContexto
<1>1. ASSUME TiposMaquina, UnTurno PROVE UnContexto
  <2> DEFINE C == { c \in {cpu} : c # "espera" }
             E == { p \in Proceso : situacion[p] = "EXEC" }
  <2>1. Cardinality({}) = 0 /\ \A x : Cardinality({x}) = 1
    BY FS_EmptySet, FS_Singleton
  <2>2. /\ Len(despachados) \in Nat /\ Len(contextos) \in Nat
    BY <1>1 DEF TiposMaquina, TypeOKMaquina
  <2>3. /\ cpu = "espera" => C = {}
        /\ cpu # "espera" => C = {cpu}
    OBVIOUS
  <2>4. CASE /\ \A p \in Proceso : situacion[p] # "EXEC"
             /\ despachados = << >> /\ contextos = << >> /\ cpu = "espera" /\ pcb = 0
    <3>1. E = {} /\ C = {}
      BY <2>3, <2>4
    <3>2. Len(despachados) = 0 /\ Len(contextos) = 0
      BY <2>4
    <3>3. Cardinality(E) = 0 /\ Cardinality(C) = 0
      BY <2>1, <3>1
    <3> HIDE DEF E, C
    <3>4. Len(despachados) + Len(contextos) + Cardinality(C) = Cardinality(E)
      BY <3>2, <3>3
    <3> QED
      BY <3>4 DEF UnContexto, E, C
  <2>5. ASSUME NEW x \in Proceso, \A p \in Proceso : situacion[p] = "EXEC" <=> p = x,
               \/ /\ despachados = << x >> /\ contextos = << >>
                  /\ cpu = "espera" /\ pcb = 0
               \/ /\ despachados = << >> /\ contextos = << >>
                  /\ cpu # "espera" /\ pcb = x
               \/ /\ despachados = << >> /\ Len(contextos) = 1
                  /\ contextos[1].pid = x /\ cpu = "espera" /\ pcb = 0
        PROVE  UnContexto
    <3>1. E = {x}
      BY <2>5
    <3>2. Cardinality(E) = 1 /\ Cardinality(C) \in {0, 1}
          /\ (cpu = "espera" => Cardinality(C) = 0) /\ (cpu # "espera" => Cardinality(C) = 1)
      BY <2>1, <2>3, <3>1
    <3> HIDE DEF E, C
    <3>a. \/ Len(despachados) = 1 /\ Len(contextos) = 0 /\ cpu = "espera"
          \/ Len(despachados) = 0 /\ Len(contextos) = 0 /\ cpu # "espera"
          \/ Len(despachados) = 0 /\ Len(contextos) = 1 /\ cpu = "espera"
      <4>1. despachados = << x >> => Len(despachados) = 1
        OBVIOUS
      <4>2. despachados = << >> => Len(despachados) = 0
        OBVIOUS
      <4>3. contextos = << >> => Len(contextos) = 0
        OBVIOUS
      <4> QED
        BY <4>1, <4>2, <4>3, <2>5
    <3>3. Len(despachados) + Len(contextos) + Cardinality(C) = Cardinality(E)
      <4> DEFINE a == Len(despachados)
                 b == Len(contextos)
                 c == Cardinality(C)
                 e == Cardinality(E)
      <4>1. /\ \/ a = 1 /\ b = 0 /\ c = 0
               \/ a = 0 /\ b = 0 /\ c = 1
               \/ a = 0 /\ b = 1 /\ c = 0
            /\ e = 1
        BY <3>a, <3>2
      <4> HIDE DEF a, b, c, e
      <4>2. a + b + c = e
        BY <4>1
      <4> QED
        BY <4>2 DEF a, b, c, e
    <3> QED
      BY <3>3 DEF UnContexto, E, C
  <2> QED
    BY <1>1, <2>4, <2>5 DEF UnTurno
<1>2. InvarianteMaquina => UnContexto
  BY <1>1 DEF InvarianteMaquina
<1> QED
  BY <1>2, InvarianteMaquinaSiempre, PTL

\* The TLB has no more entries than configured and no page twice.
THEOREM TLBSinRepetidosSiempre == Spec => []TLBSinRepetidos
<1>1. InvarianteMaquina => TLBSinRepetidos
  BY DEF InvarianteMaquina
<1> QED
  BY <1>1, InvarianteMaquinaSiempre, PTL

\* What the TLB says of a process that has not ended and gave no pages back is what its
\* page table says.
THEOREM TLBVigenteSiempre == Spec => []TLBVigente
<1>1. InvarianteMaquina => TLBVigente
  BY DEF InvarianteMaquina
<1> QED
  BY <1>1, InvarianteMaquinaSiempre, PTL

\* A process that gave no pages back reaches no frame but its own, through the CPU, the TLB
\* or an interface.
THEOREM AccesoPropioSiempre == Spec => []AccesoPropio
<1>1. InvarianteMaquina => AccesoPropio
  BY DEF InvarianteMaquina, AccesosPropios, AccesoPropio, Propios
<1> QED
  BY <1>1, InvarianteMaquinaSiempre, PTL

\* The CPU dies only of a program that uses a page it does not have (mmu.c:46), or of
\* FINALIZAR_PROCESO: of a process that it did not find and whose memory goes under it, or,
\* once one was ended in NEW, of one admitted with that confirmation.
THEOREM MuerteConocidaSiempre == Spec => []MuerteConocida
<1>1. InvarianteMaquina => MuerteConocida
  BY DEF InvarianteMaquina
<1> QED
  BY <1>1, InvarianteMaquinaSiempre, PTL

\* A page table has no more pages than the bitmap has bits: its frames are different, and
\* each has one.
LEMMA PaginasHayMarcos ==
  ASSUME paginas \in [Proceso -> Seq(Marcos)], MarcosPropios, NEW p \in Proceso
  PROVE  Len(paginas[p]) <= max_bit
<1> DEFINE s == paginas[p]
           n == Len(s)
<1>1. s \in [1 .. n -> Marcos] /\ n \in Nat
  OBVIOUS
<1>2. \A i, j \in 1 .. n : s[i] = s[j] => i = j
  BY DEF MarcosPropios
<1>3. max_bit \in Nat \ {0}
  BY HayMarcos
<1> HIDE DEF s, n
<1>4. s \in Injection(1 .. n, Marcos)
  BY <1>1, <1>2 DEF Injection, IsInjective
<1>5. IsFiniteSet(Marcos) /\ Cardinality(Marcos) = max_bit
  <2>1. 0 \in Int /\ max_bit - 1 \in Int /\ ~ (0 > max_bit - 1)
    BY <1>3
  <2>2. IsFiniteSet(0 .. max_bit - 1) /\ Cardinality(0 .. max_bit - 1) = (max_bit - 1) - 0 + 1
    BY <2>1, FS_Interval
  <2> QED
    BY <2>2, <1>3 DEF Marcos
<1>6. Cardinality(1 .. n) <= Cardinality(Marcos)
  BY <1>4, <1>5, FS_Injection
<1>7. Cardinality(1 .. n) = n
  <2>1. Cardinality(1 .. n) = IF 1 > n THEN 0 ELSE n - 1 + 1
    BY <1>1, FS_Interval
  <2> QED
    BY <2>1, <1>1
<1> QED
  BY <1>5, <1>6, <1>7 DEF s, n

\* While no bit operations of the two threads overlapped, each set bit is that of a frame
\* of one page of one process, and no clear one is.
THEOREM MapaExactoSiempre == Spec => []MapaExacto
<1>1. ASSUME TiposMaquina, BitsExactos PROVE MapaExacto
  <2> SUFFICES ASSUME ~ pisado, NEW m \in Marcos
               PROVE  Cardinality(Usos(m)) = Cardinality({m} \cap (frame_bitarray \cup PorMarcar))
    BY DEF MapaExacto
  <2>1. /\ MarcosPropios /\ paginas \in [Proceso -> Seq(Marcos)]
        /\ m \in frame_bitarray \cup PorMarcar <=> ConDueno(m)
    BY <1>1 DEF BitsExactos, TiposMaquina, TypeOKMaquina
  <2>2. Cardinality({}) = 0 /\ \A x : Cardinality({x}) = 1
    BY FS_EmptySet, FS_Singleton
  <2>3. CASE ~ ConDueno(m)
    <3>1. {m} \cap (frame_bitarray \cup PorMarcar) = {}
      BY <2>1, <2>3
    <3>2. Usos(m) = {}
      <4> SUFFICES ASSUME NEW u \in Proceso \X (1 .. max_bit),
                          u[2] <= Len(paginas[u[1]]), paginas[u[1]][u[2]] = m
                   PROVE  FALSE
        BY DEF Usos
      <4>1. u[1] \in Proceso /\ u[2] \in 1 .. max_bit /\ max_bit \in Nat
        BY HayMarcos
      <4>2. u[2] \in 1 .. Len(paginas[u[1]])
        BY <4>1, <2>1
      <4> QED
        BY <4>1, <4>2, <2>3 DEF ConDueno
    <3> QED
      BY <3>1, <3>2
  <2>4. CASE ConDueno(m)
    <3>1. {m} \cap (frame_bitarray \cup PorMarcar) = {m}
      BY <2>1, <2>4
    <3>2. PICK p \in Proceso : \E i \in 1 .. Len(paginas[p]) : paginas[p][i] = m
      BY <2>4 DEF ConDueno
    <3>3. PICK i \in 1 .. Len(paginas[p]) : paginas[p][i] = m
      BY <3>2
    <3>4. Len(paginas[p]) <= max_bit /\ max_bit \in Nat /\ Len(paginas[p]) \in Nat
      BY <2>1, PaginasHayMarcos, HayMarcos
    <3>5. << p, i >> \in Usos(m)
      BY <3>3, <3>4 DEF Usos
    <3>6. ASSUME NEW u \in Usos(m) PROVE u = << p, i >>
      <4>1. /\ u \in Proceso \X (1 .. max_bit) /\ u[2] <= Len(paginas[u[1]])
            /\ paginas[u[1]][u[2]] = m
        BY DEF Usos
      <4>2. /\ u = << u[1], u[2] >> /\ u[1] \in Proceso /\ u[2] \in 1 .. max_bit
        BY <4>1
      <4>3. u[2] \in 1 .. Len(paginas[u[1]])
        BY <4>1, <4>2, <3>4, <2>1
      <4>4. u[1] = p /\ u[2] = i
        BY <4>1, <4>2, <4>3, <3>3, <2>1 DEF MarcosPropios
      <4> QED
        BY <4>2, <4>4
    <3>7. Usos(m) = {<< p, i >>}
      BY <3>5, <3>6
    <3> QED
      BY <3>1, <3>7, <2>2
  <2> QED
    BY <2>3, <2>4
<1>2. InvarianteMaquina => MapaExacto
  BY <1>1 DEF InvarianteMaquina
<1> QED
  BY <1>2, InvarianteMaquinaSiempre, PTL

=============================================================================
