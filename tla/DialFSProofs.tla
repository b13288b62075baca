---------------------------- MODULE DialFSProofs ----------------------------
(****************************************************************************)
(* The file system of a DIALFS interface: its bitmap is exact for any number *)
(* of files and of blocks.  First the ranges of blocks and the searches in   *)
(* the bitmap; then what the compaction leaves after each of the files; then *)
(* one lemma for each operation.  Last, the texts of the files.              *)
(****************************************************************************)
EXTENDS DialFS, FiniteSetTheorems, NaturalsInduction, WellFoundedInduction, TLAPS

(* What the bitmap says of the metadata, as an operator of both.             *)

Metadatos == [BLOQUE_INICIAL : Nat, TAMANIO_ARCHIVO : Nat]
TablasDe == [Nombres -> Metadatos \cup {SinArchivo}]

\* The blocks of a file of metadata m, the files of a table, and their blocks.
Tramo(m) == Rango(m.BLOQUE_INICIAL, Ocupa(m.TAMANIO_ARCHIVO))
Hay(arch) == { f \in Nombres : arch[f] # SinArchivo }
Usados(arch, S) == UNION { Tramo(arch[g]) : g \in S }

Exacto(arch, bits) ==
    /\ \A f, g \in Hay(arch) : f # g => Tramo(arch[f]) \cap Tramo(arch[g]) = {}
    /\ bits = Usados(arch, Hay(arch))
    /\ bits \subseteq Bits

TipoFS ==
    /\ TypeOKFS
    /\ archivos \in TablasDe

\* While nothing has been mixed up the bitmap is exact and nobody hangs.
InvarianteFS ==
    /\ TipoFS
    /\ descuidos = {} => Exacto(archivos, bitmap) /\ dialfs # "colgado"

-----------------------------------------------------------------------------
(* Numbers, ranges and searches.                                            *)

LEMMA TamBitmap ==
  /\ tam_bitmap \in Nat \ {0}
  /\ tam_bitmap >= cantidad_bloques
<1>1. cantidad_bloques \in Nat \ {0} /\ BitsPorByte \in Nat \ {0}
  BY ParametrosFS
<1> DEFINE q == (cantidad_bloques + BitsPorByte - 1) \div BitsPorByte
<1>2. q \in Nat /\ q * BitsPorByte + BitsPorByte > cantidad_bloques + BitsPorByte - 1
  BY <1>1
<1>3. tam_bitmap = q * BitsPorByte
  BY DEF tam_bitmap
<1> HIDE DEF q
<1>4. q * BitsPorByte \in Nat
  BY <1>1, <1>2
<1> QED
  BY <1>1, <1>2, <1>3, <1>4

LEMMA TechoEs ==
  ASSUME NEW n \in Nat
  PROVE  /\ Techo(n) \in Nat
         /\ n > 0 => Techo(n) > 0
         /\ n = 0 => Techo(n) = 0
         /\ n <= Techo(n) * tamanio_bloques
         /\ (Techo(n) - 1) * tamanio_bloques < n
         /\ n \in 1 .. tamanio_bloques => Techo(n) = 1
         /\ Ocupa(n) \in Nat \ {0}
         /\ Techo(n) <= Ocupa(n)
         /\ n > 0 => Ocupa(n) = Techo(n)
<1>1. tamanio_bloques \in Nat \ {0}
  BY ParametrosFS
<1>2. /\ Techo(n) \in Nat
      /\ n <= Techo(n) * tamanio_bloques
      /\ (Techo(n) - 1) * tamanio_bloques < n
  BY <1>1 DEF Techo
<1>3. n = 0 => Techo(n) = 0
  BY <1>1 DEF Techo
<1>4. n > 0 => Techo(n) > 0
  BY <1>1, <1>2
<1>5. ASSUME n \in 1 .. tamanio_bloques
      PROVE  Techo(n) = 1
  BY <1>1, <1>5 DEF Techo
<1> QED
  BY <1>2, <1>3, <1>4, <1>5 DEF Ocupa

LEMMA TechoCrece ==
  ASSUME NEW n \in Nat, NEW m \in Nat, n <= m
  PROVE  Techo(n) <= Techo(m)
<1>1. tamanio_bloques \in Nat \ {0}
  BY ParametrosFS
<1>2. (Techo(n) - 1) * tamanio_bloques < Techo(m) * tamanio_bloques
  BY <1>1, TechoEs
<1>3. Techo(n) \in Nat /\ Techo(m) \in Nat
  BY TechoEs
<1> QED
  BY <1>1, <1>2, <1>3

LEMMA RangoFinito ==
  ASSUME NEW b \in Int, NEW n \in Nat
  PROVE  IsFiniteSet(Rango(b, n)) /\ Cardinality(Rango(b, n)) = n
<1>1. b + n - 1 \in Int
  OBVIOUS
<1> QED
  BY <1>1, FS_Interval DEF Rango

LEMMA BitsFinito == IsFiniteSet(Bits) /\ Cardinality(Bits) = tam_bitmap /\ Bits \subseteq Nat
<1>1. tam_bitmap - 1 \in Int /\ 0 \in Int
  BY TamBitmap
<1>2. IsFiniteSet(Bits) /\ Cardinality(Bits) = tam_bitmap
  BY <1>1, TamBitmap, FS_Interval DEF Bits
<1> QED
  BY <1>2 DEF Bits

LEMMA MenorEs ==
  ASSUME NEW S \in SUBSET Nat, S # {}
  PROVE  Menor(S) \in S /\ \A j \in S : Menor(S) <= j
<1>1. PICK n \in S : \A m \in S : ~ (<<m, n>> \in OpToRel(<, Nat))
  BY NatLessThanWellFounded, WFMin
<1>2. \A m \in S : n <= m
  <2> SUFFICES ASSUME NEW m \in S
               PROVE  n <= m
    OBVIOUS
  <2>1. <<m, n>> \notin OpToRel(<, Nat)
    BY <1>1
  <2>2. m \in Nat /\ n \in Nat
    OBVIOUS
  <2> QED
    BY <2>1, <2>2 DEF OpToRel
<1> QED
  BY <1>2 DEF Menor

LEMMA PrimeroEs ==
  ASSUME NEW bits
  PROVE  LET b == buscar_primer_bloque_libre(bits)
         IN  /\ Libres(bits) = {} => b = 0 - 1
             /\ Libres(bits) # {} => /\ b \in Libres(bits)
                                     /\ b \in Nat
                                     /\ \A j \in Libres(bits) : b <= j
<1>1. Libres(bits) \in SUBSET Nat
  BY BitsFinito DEF Libres
<1> QED
  BY <1>1, MenorEs DEF buscar_primer_bloque_libre

LEMMA SiguienteEs ==
  ASSUME NEW bits, NEW u \in 0 .. tam_bitmap
  PROVE  LET s == buscar_siguiente_bloque_libre(bits, u)
         IN  /\ s.ultima \in 0 .. tam_bitmap
             /\ s.bloque \in Int
             /\ s.bloque >= 0 => s.bloque \in Libres(bits)
             /\ s = [bloque |-> s.bloque, ultima |-> s.ultima]
<1> DEFINE desde(k) == { i \in Libres(bits) : i >= k }
           v == IF desde(u) = {} /\ u >= tam_bitmap - 1 THEN 0 ELSE u
<1>1. v \in 0 .. tam_bitmap
  BY TamBitmap
<1>2. desde(v) \in SUBSET Nat /\ desde(v) \subseteq Libres(bits) /\ Libres(bits) \subseteq Bits
  BY BitsFinito DEF Libres
<1>3. desde(v) # {} => Menor(desde(v)) \in desde(v)
  BY <1>2, MenorEs
<1> DEFINE s == buscar_siguiente_bloque_libre(bits, u)
<1>4. s = IF desde(v) = {} THEN [bloque |-> 0 - 1, ultima |-> v]
          ELSE [bloque |-> Menor(desde(v)), ultima |-> Menor(desde(v)) + 1]
  BY DEF buscar_siguiente_bloque_libre
<1>5. CASE desde(v) = {}
  BY <1>1, <1>4, <1>5
<1>6. CASE desde(v) # {}
  <2>1. Menor(desde(v)) \in Libres(bits) /\ Menor(desde(v)) \in Bits
    BY <1>2, <1>3, <1>6
  <2> HIDE DEF desde, v
  <2> QED
    BY <1>4, <1>6, <2>1, TamBitmap DEF Bits
<1> QED
  BY <1>5, <1>6

LEMMA EspacioEs ==
  ASSUME NEW bits, NEW n \in Nat, NEW u \in 0 .. tam_bitmap
  PROVE  LET s == buscar_espacio_bitmap(bits, n, u)
         IN  /\ s.ultima \in 0 .. tam_bitmap
             /\ s.bloque \in Int
             /\ s.bloque >= 0 => s.bloque \in Libres(bits) /\ Cabe(bits, s.bloque, n)
<1> DEFINE uno == buscar_siguiente_bloque_libre(bits, u)
           dos == buscar_siguiente_bloque_libre(bits, uno.ultima)
           s == buscar_espacio_bitmap(bits, n, u)
<1>1. /\ uno.ultima \in 0 .. tam_bitmap
      /\ uno.bloque \in Int
      /\ uno.bloque >= 0 => uno.bloque \in Libres(bits)
  BY SiguienteEs
<1>2. /\ dos.ultima \in 0 .. tam_bitmap
      /\ dos.bloque \in Int
      /\ dos.bloque >= 0 => dos.bloque \in Libres(bits)
      /\ dos = [bloque |-> dos.bloque, ultima |-> dos.ultima]
  BY <1>1, SiguienteEs
<1>3. \/ uno.bloque < 0 /\ s = uno
      \/ uno.bloque >= 0 /\ Cabe(bits, uno.bloque, n) /\ s = uno
      \/ uno.bloque >= 0 /\ dos.bloque >= 0 /\ Cabe(bits, dos.bloque, n) /\ s = dos
      \/ uno.bloque >= 0 /\ s = [dos EXCEPT !.bloque = 0 - 1]
  BY <1>1 DEF buscar_espacio_bitmap
<1> HIDE DEF uno, dos, s
<1>4. [dos EXCEPT !.bloque = 0 - 1] = [bloque |-> 0 - 1, ultima |-> dos.ultima]
  BY <1>2
<1>5. /\ s.ultima \in 0 .. tam_bitmap
      /\ s.bloque \in Int
      /\ s.bloque >= 0 => s.bloque \in Libres(bits) /\ Cabe(bits, s.bloque, n)
  BY <1>1, <1>2, <1>3, <1>4
<1> QED
  BY <1>5 DEF s

-----------------------------------------------------------------------------
(* What giving blocks back and taking others does to an exact bitmap.       *)

LEMMA TramoEs ==
  ASSUME NEW m \in Metadatos
  PROVE  /\ m.BLOQUE_INICIAL \in Tramo(m)
         /\ IsFiniteSet(Tramo(m))
         /\ Cardinality(Tramo(m)) = Ocupa(m.TAMANIO_ARCHIVO)
         /\ Ocupa(m.TAMANIO_ARCHIVO) \in Nat \ {0}
         /\ m # SinArchivo
<1>1. m.BLOQUE_INICIAL \in Nat /\ m.TAMANIO_ARCHIVO \in Nat
  BY DEF Metadatos
<1>2. Ocupa(m.TAMANIO_ARCHIVO) \in Nat \ {0}
  BY <1>1, TechoEs
<1>3. m # SinArchivo
  BY <1>1 DEF SinArchivo
<1>4. m.BLOQUE_INICIAL \in Tramo(m)
  BY <1>1, <1>2 DEF Tramo, Rango
<1> QED
  BY <1>1, <1>2, <1>3, <1>4, RangoFinito DEF Tramo

LEMMA HayEs ==
  ASSUME NEW arch \in TablasDe
  PROVE  /\ \A f \in Hay(arch) : f \in Nombres /\ arch[f] \in Metadatos
         /\ \A f \in Nombres \ Hay(arch) : arch[f] = SinArchivo
BY DEF TablasDe, Hay

\* The bits that are left when a file gives its blocks back.
LEMMA QuedanLosOtros ==
  ASSUME NEW arch \in TablasDe, NEW bits, Exacto(arch, bits), NEW f \in Hay(arch)
  PROVE  bits \ Tramo(arch[f]) = Usados(arch, Hay(arch) \ {f})
<1>1. ASSUME NEW b, b \in bits, b \notin Tramo(arch[f])
      PROVE  b \in Usados(arch, Hay(arch) \ {f})
  <2>1. PICK g \in Hay(arch) : b \in Tramo(arch[g])
    BY <1>1 DEF Exacto, Usados
  <2>2. g # f
    BY <1>1, <2>1
  <2> QED
    BY <2>1, <2>2 DEF Usados
<1>2. ASSUME NEW b, b \in Usados(arch, Hay(arch) \ {f})
      PROVE  b \in bits /\ b \notin Tramo(arch[f])
  <2>1. PICK g \in Hay(arch) \ {f} : b \in Tramo(arch[g])
    BY <1>2 DEF Usados
  <2>2. b \in bits
    BY <2>1 DEF Exacto, Usados
  <2>3. Tramo(arch[g]) \cap Tramo(arch[f]) = {}
    BY <2>1 DEF Exacto
  <2> QED
    BY <2>1, <2>2, <2>3
<1> QED
  BY <1>1, <1>2

\* A file that is created or that changes its blocks for others that are free.
LEMMA CambiaExacto ==
  ASSUME NEW arch \in TablasDe, NEW bits, Exacto(arch, bits),
         NEW f \in Nombres, NEW m \in Metadatos,
         Tramo(m) \subseteq Bits \ Usados(arch, Hay(arch) \ {f})
  PROVE  LET nueva == [arch EXCEPT ![f] = m]
         IN  /\ nueva \in TablasDe
             /\ Exacto(nueva, Usados(arch, Hay(arch) \ {f}) \cup Tramo(m))
<1> DEFINE nueva == [arch EXCEPT ![f] = m]
           otros == Hay(arch) \ {f}
<1>1. nueva \in TablasDe /\ nueva[f] = m /\ \A g \in Nombres : g # f => nueva[g] = arch[g]
  BY DEF TablasDe
<1>2. m # SinArchivo
  BY TramoEs
<1>3. Hay(nueva) = otros \cup {f}
  BY <1>1, <1>2 DEF Hay
<1>4. \A g \in otros : g # f /\ g \in Hay(arch) /\ nueva[g] = arch[g]
  BY <1>1 DEF Hay
<1>5. Usados(nueva, Hay(nueva)) = Usados(arch, otros) \cup Tramo(m)
  <2> HIDE DEF nueva, otros
  <2> QED
    BY <1>1, <1>3, <1>4 DEF Usados
<1>6. \A g \in otros : Tramo(nueva[g]) \cap Tramo(m) = {}
  <2>1. \A g \in otros : Tramo(nueva[g]) \subseteq Usados(arch, otros)
    BY <1>4 DEF Usados
  <2> QED
    BY <2>1
<1>7. ASSUME NEW g \in Hay(nueva), NEW h \in Hay(nueva), g # h
      PROVE  Tramo(nueva[g]) \cap Tramo(nueva[h]) = {}
  <2>1. CASE g = f
    BY <1>1, <1>3, <1>6, <1>7, <2>1
  <2>2. CASE h = f
    BY <1>1, <1>3, <1>6, <1>7, <2>2
  <2>3. CASE g # f /\ h # f
    <3>1. g \in otros /\ h \in otros
      BY <1>3, <2>3
    <3> QED
      BY <1>4, <1>7, <3>1 DEF Exacto
  <2> QED
    BY <2>1, <2>2, <2>3
<1>8. Usados(arch, otros) \subseteq Bits
  BY DEF Usados, Exacto
<1> QED
  BY <1>1, <1>5, <1>7, <1>8 DEF Exacto

\* A file that is deleted.
LEMMA QuitaExacto ==
  ASSUME NEW arch \in TablasDe, NEW bits, Exacto(arch, bits), NEW f \in Nombres
  PROVE  LET nueva == [arch EXCEPT ![f] = SinArchivo]
         IN  /\ nueva \in TablasDe
             /\ Exacto(nueva, Usados(arch, Hay(arch) \ {f}))
<1> DEFINE nueva == [arch EXCEPT ![f] = SinArchivo]
           otros == Hay(arch) \ {f}
<1>1. /\ nueva \in TablasDe /\ nueva[f] = SinArchivo
      /\ \A g \in Nombres : g # f => nueva[g] = arch[g]
  BY DEF TablasDe
<1>2. Hay(nueva) = otros
  BY <1>1 DEF Hay
<1>3. \A g \in otros : g \in Hay(arch) /\ nueva[g] = arch[g]
  BY <1>1 DEF Hay
<1>4. Usados(nueva, Hay(nueva)) = Usados(arch, otros)
  <2> HIDE DEF nueva, otros
  <2> QED
    BY <1>2, <1>3 DEF Usados
<1>5. Usados(arch, otros) \subseteq Bits
  BY DEF Usados, Exacto
<1>6. ASSUME NEW g \in Hay(nueva), NEW h \in Hay(nueva), g # h
      PROVE  Tramo(nueva[g]) \cap Tramo(nueva[h]) = {}
  BY <1>2, <1>3, <1>6 DEF Exacto
<1> QED
  BY <1>1, <1>4, <1>5, <1>6 DEF Exacto

LEMMA UsadosEnBits ==
  ASSUME NEW arch, NEW bits, Exacto(arch, bits), NEW S \in SUBSET Hay(arch)
  PROVE  /\ Usados(arch, S) \subseteq Bits
         /\ IsFiniteSet(Usados(arch, S))
<1>1. Usados(arch, S) \subseteq Bits
  BY DEF Usados, Exacto
<1> QED
  BY <1>1, BitsFinito, FS_Subset

\* The first block of a file has a bit.
LEMMA InicioEnBits ==
  ASSUME NEW arch \in TablasDe, NEW bits, Exacto(arch, bits), NEW f \in Hay(arch)
  PROVE  arch[f].BLOQUE_INICIAL \in Bits /\ arch[f].TAMANIO_ARCHIVO \in Nat
<1>1. arch[f] \in Metadatos
  BY HayEs
<1>2. Tramo(arch[f]) \subseteq Bits
  BY DEF Exacto, Usados
<1> QED
  BY <1>1, <1>2, TramoEs DEF Metadatos

-----------------------------------------------------------------------------
(* The text of a file.                                                       *)

\* The cells base .. base + k - 1 are there and none is NUL.
Llena(cs, base, k) == \A i \in 0 .. k - 1 : base + i \in Celdas /\ cs[base + i] # NUL

EsLargo(cs, base, tam, n) ==
    /\ n \in 0 .. tam
    /\ Llena(cs, base, n)
    /\ n = tam \/ ~ Llena(cs, base, n + 1)

\* Induction over the naturals, of a set of them.
LEMMA InduccionNat ==
  ASSUME NEW A, 0 \in A, \A n \in Nat : n \in A => n + 1 \in A
  PROVE  Nat \subseteq A
<1> DEFINE T == Nat \ A
<1>1. SUFFICES ASSUME T # {}
               PROVE  FALSE
  OBVIOUS
<1>2. Menor(T) \in T /\ \A j \in T : Menor(T) <= j
  BY <1>1, MenorEs
<1> DEFINE n == Menor(T)
<1> HIDE DEF n
<1>3. n \in T /\ \A j \in T : n <= j
  BY <1>2 DEF n
<1>4. n # 0 /\ n - 1 \in Nat
  BY <1>3
<1>5. n - 1 \in T
  BY <1>3, <1>4
<1> QED
  BY <1>3, <1>4, <1>5

LEMMA LargoExiste ==
  ASSUME NEW cs, NEW base \in Int, NEW tam \in Nat
  PROVE  \E n \in 0 .. tam : EsLargo(cs, base, tam, n)
<1> SUFFICES ASSUME \A n \in 0 .. tam : ~ EsLargo(cs, base, tam, n)
             PROVE  FALSE
  OBVIOUS
<1> DEFINE A == { n \in Nat : n <= tam => Llena(cs, base, n) }
<1>1. 0 \in A
  BY DEF Llena
<1>2. ASSUME NEW n \in Nat, n \in A
      PROVE  n + 1 \in A
  <2> SUFFICES ASSUME n + 1 <= tam
               PROVE  Llena(cs, base, n + 1)
    OBVIOUS
  <2>1. Llena(cs, base, n) /\ n \in 0 .. tam /\ n # tam
    BY <1>2
  <2>2. ~ EsLargo(cs, base, tam, n)
    BY <2>1
  <2> QED
    BY <2>1, <2>2 DEF EsLargo
<1>3. Nat \subseteq A
  <2> HIDE DEF A
  <2> QED
    BY <1>1, <1>2, InduccionNat
<1>4. Llena(cs, base, tam) /\ tam \in 0 .. tam
  BY <1>3
<1> QED
  BY <1>4 DEF EsLargo

LEMMA LargoUnico ==
  ASSUME NEW cs, NEW base \in Int, NEW tam \in Nat, NEW n, NEW k,
         EsLargo(cs, base, tam, n), EsLargo(cs, base, tam, k)
  PROVE  n = k
<1>1. n \in 0 .. tam /\ k \in 0 .. tam
  BY DEF EsLargo
<1>2. ASSUME n < k
      PROVE  FALSE
  BY <1>1, <1>2 DEF EsLargo, Llena
<1>3. ASSUME k < n
      PROVE  FALSE
  BY <1>1, <1>3 DEF EsLargo, Llena
<1> QED
  BY <1>1, <1>2, <1>3

LEMMA InicioDeEs ==
  ASSUME NEW b \in Int
  PROVE  InicioDe(b) \in Int
<1>1. tamanio_bloques \in Nat
  BY ParametrosFS
<1> QED
  BY <1>1 DEF InicioDe

LEMMA LegibleEs ==
  ASSUME NEW cs, NEW m \in Metadatos
  PROVE  \E n \in 0 .. m.TAMANIO_ARCHIVO :
            /\ EsLargo(cs, InicioDe(m.BLOQUE_INICIAL), m.TAMANIO_ARCHIVO, n)
            /\ Legible(cs, m) = [i \in 1 .. n |-> cs[InicioDe(m.BLOQUE_INICIAL) + i - 1]]
<1> DEFINE base == InicioDe(m.BLOQUE_INICIAL)
           tam == m.TAMANIO_ARCHIVO
           lleno(k) == \A i \in 0 .. k - 1 : base + i \in Celdas /\ cs[base + i] # NUL
           n == CHOOSE k \in 0 .. tam : lleno(k) /\ (k = tam \/ ~ lleno(k + 1))
<1>1. base \in Int /\ tam \in Nat
  BY InicioDeEs DEF Metadatos
<1>2. \E k \in 0 .. tam : lleno(k) /\ (k = tam \/ ~ lleno(k + 1))
  <2>1. PICK k \in 0 .. tam : EsLargo(cs, base, tam, k)
    BY <1>1, LargoExiste
  <2> QED
    BY <2>1 DEF EsLargo, Llena
<1>3. n \in 0 .. tam /\ lleno(n) /\ (n = tam \/ ~ lleno(n + 1))
  <2> HIDE DEF lleno
  <2> QED
    BY <1>2
<1>4. EsLargo(cs, base, tam, n)
  <2> HIDE DEF n
  <2> QED
    BY <1>3 DEF EsLargo, Llena
<1>5. Legible(cs, m) = [i \in 1 .. n |-> cs[base + i - 1]]
  BY DEF Legible
<1> QED
  BY <1>3, <1>4, <1>5

Memorias == [Celdas -> Nombres \cup {NUL}]

LEMMA LegibleTipo ==
  ASSUME NEW cs \in Memorias, NEW m \in Metadatos
  PROVE  /\ Legible(cs, m) \in Seq(Nombres)
         /\ Len(Legible(cs, m)) <= m.TAMANIO_ARCHIVO
<1> DEFINE base == InicioDe(m.BLOQUE_INICIAL)
           tam == m.TAMANIO_ARCHIVO
<1>1. base \in Int /\ tam \in Nat
  BY InicioDeEs DEF Metadatos
<1>2. PICK n \in 0 .. tam : /\ EsLargo(cs, base, tam, n)
                            /\ Legible(cs, m) = [i \in 1 .. n |-> cs[base + i - 1]]
  BY LegibleEs
<1> HIDE DEF base, tam
<1>3. ASSUME NEW i \in 1 .. n
      PROVE  cs[base + i - 1] \in Nombres
  <2>1. i - 1 \in 0 .. n - 1 /\ base + i - 1 = base + (i - 1)
    BY <1>1, <1>2
  <2>2. base + i - 1 \in Celdas /\ cs[base + i - 1] # NUL
    BY <1>2, <2>1 DEF EsLargo, Llena
  <2> QED
    BY <2>2 DEF Memorias
<1>4. [i \in 1 .. n |-> cs[base + i - 1]] \in Seq(Nombres)
  BY <1>1, <1>3
<1>5. Len([i \in 1 .. n |-> cs[base + i - 1]]) = n
  BY <1>1
<1>6. n <= tam
  BY <1>1
<1> QED
  BY <1>2, <1>4, <1>5, <1>6 DEF tam

LEMMA EscritoTipo ==
  ASSUME NEW cs \in Memorias, NEW b \in Int, NEW p \in Int, NEW texto \in Seq(Nombres)
  PROVE  Escrito(cs, b, p, texto) \in Memorias
<1> DEFINE base == InicioDe(b) + p
<1>1. base \in Int /\ Len(texto) \in Nat
  BY InicioDeEs
<1>2. ASSUME NEW c \in Celdas, c \in Rango(base, Len(texto))
      PROVE  texto[c - base + 1] \in Nombres
  <2>1. c - base + 1 \in 1 .. Len(texto)
    BY <1>1, <1>2 DEF Rango
  <2> QED
    BY <2>1
<1>3. Escrito(cs, b, p, texto)
        = [c \in Celdas |-> IF c \in Rango(base, Len(texto)) THEN texto[c - base + 1] ELSE cs[c]]
  BY DEF Escrito
<1> HIDE DEF base
<1> QED
  BY <1>2, <1>3 DEF Memorias

LEMMA LimpiadasTipo ==
  ASSUME NEW cs \in Memorias, NEW b, NEW n
  PROVE  Limpiadas(cs, b, n) \in Memorias
BY DEF Limpiadas, Memorias

-----------------------------------------------------------------------------
(* The compaction: a fold over the list of the files.                        *)

SinLugares == [bits |-> {}, cs |-> [c \in Celdas |-> NUL], arch |-> archivos,
               falla |-> FALSE]

\* What is done once the files at the places s of the list were taken, if g is
\* what is done with fewer.
UnLugar(f, orden, g, s) ==
    IF s = {} THEN SinLugares ELSE Acomoda(f, g[s \ {Max(s)}], orden[Max(s)])
Acumulado(f, orden) ==
    CHOOSE g : g = [s \in SUBSET DOMAIN orden |-> UnLugar(f, orden, g, s)]

LEMMA EsCompactado ==
  ASSUME NEW f, NEW orden
  PROVE  Compactado(f, orden) = Acumulado(f, orden)[DOMAIN orden]
BY DEF Compactado, FoldLeft, MapThenFoldSet, Acumulado, UnLugar, SinLugares

LEMMA MaxEs ==
  ASSUME NEW k \in Nat, NEW T \in SUBSET (1 .. k), T # {}
  PROVE  Max(T) \in T
<1> DEFINE N == { n \in Nat : \A S \in SUBSET (1 .. n) : S # {} =>
                      \E x \in S : \A y \in S : x >= y }
<1>1. 0 \in N
  <2>1. 1 .. 0 = {}
    OBVIOUS
  <2> QED
    BY <2>1
<1>2. ASSUME NEW n \in Nat, n \in N
      PROVE  n + 1 \in N
  <2> SUFFICES ASSUME NEW S \in SUBSET (1 .. n + 1), S # {}
               PROVE  \E x \in S : \A y \in S : x >= y
    OBVIOUS
  <2>1. CASE n + 1 \in S
    BY <2>1
  <2>2. CASE n + 1 \notin S
    <3>1. S \in SUBSET (1 .. n)
      BY <2>2
    <3> QED
      BY <1>2, <3>1
  <2> QED
    BY <2>1, <2>2
<1>3. Nat \subseteq N
  <2> HIDE DEF N
  <2> QED
    BY <1>1, <1>2, InduccionNat
<1>4. \E x \in T : \A y \in T : x >= y
  BY <1>3
<1> QED
  BY <1>4 DEF Max

LEMMA MaxHasta ==
  ASSUME NEW k \in Nat, k > 0
  PROVE  Max(1 .. k) = k /\ (1 .. k) \ {k} = 1 .. k - 1
<1>1. \E x \in 1 .. k : \A y \in 1 .. k : x >= y
  <2> WITNESS k \in 1 .. k
  <2> QED
    OBVIOUS
<1>2. Max(1 .. k) \in 1 .. k /\ \A y \in 1 .. k : Max(1 .. k) >= y
  BY <1>1 DEF Max
<1>3. Max(1 .. k) >= k
  BY <1>2
<1> QED
  BY <1>2, <1>3

\* The recursion has a solution.
LEMMA AcumuladoExiste ==
  ASSUME NEW f, NEW N \in Nat, NEW orden, DOMAIN orden = 1 .. N
  PROVE  Acumulado(f, orden)
            = [s \in SUBSET (1 .. N) |-> UnLugar(f, orden, Acumulado(f, orden), s)]
<1> DEFINE D == 1 .. N
           Hasta(n) == { T \in SUBSET D : Cardinality(T) <= n }
           A == { n \in Nat : \E g :
                    \A T \in Hasta(n) : g[T] = UnLugar(f, orden, g, T) }
<1>0. IsFiniteSet(D)
  BY FS_Interval
<1>1. \A T \in SUBSET D : IsFiniteSet(T) /\ Cardinality(T) \in Nat
  BY <1>0, FS_Subset, FS_CardinalityType
<1>2. 0 \in A
  <2> DEFINE g == [T \in SUBSET D |-> SinLugares]
  <2>1. \A T \in Hasta(0) : T = {}
    BY <1>1, FS_EmptySet
  <2>2. \A T \in Hasta(0) : g[T] = UnLugar(f, orden, g, T)
    BY <2>1 DEF UnLugar
  <2> HIDE DEF g
  <2> QED
    BY <2>2
<1>3. ASSUME NEW n \in Nat, n \in A
      PROVE  n + 1 \in A
  <2>1. PICK g : \A T \in Hasta(n) : g[T] = UnLugar(f, orden, g, T)
    BY <1>3
  <2> DEFINE h == [T \in SUBSET D |-> UnLugar(f, orden, g, T)]
  <2>3. ASSUME NEW T \in Hasta(n + 1)
        PROVE  h[T] = UnLugar(f, orden, h, T)
    <3>1. CASE T = {}
      BY <3>1 DEF UnLugar
    <3>2. CASE T # {}
      <4>0. Max(T) \in T
        BY <3>2, MaxEs
      <4>1. T \ {Max(T)} \in SUBSET D /\ Cardinality(T \ {Max(T)}) = Cardinality(T) - 1
        BY <1>1, <4>0, FS_RemoveElement
      <4>2. T \ {Max(T)} \in Hasta(n)
        BY <1>1, <4>1
      <4>3. h[T \ {Max(T)}] = g[T \ {Max(T)}]
        BY <2>1, <4>1, <4>2
      <4> QED
        BY <3>2, <4>3 DEF UnLugar
    <3> QED
      BY <3>1, <3>2
  <2> HIDE DEF h
  <2> QED
    BY <2>3
<1>4. Nat \subseteq A
  <2> HIDE DEF A
  <2> QED
    BY <1>2, <1>3, InduccionNat
<1>5. PICK g : \A T \in Hasta(N) : g[T] = UnLugar(f, orden, g, T)
  <2>1. N \in A
    BY <1>4
  <2> QED
    BY <2>1
<1>6. \A T \in SUBSET D : T \in Hasta(N)
  <2>1. Cardinality(D) = N
    BY FS_Interval
  <2>2. \A T \in SUBSET D : Cardinality(T) <= Cardinality(D)
    BY <1>0, FS_Subset
  <2> QED
    BY <2>1, <2>2
<1> DEFINE h == [T \in SUBSET D |-> g[T]]
<1>7. \A T \in SUBSET D : UnLugar(f, orden, h, T) = UnLugar(f, orden, g, T)
  <2> SUFFICES ASSUME NEW T \in SUBSET D, T # {}
               PROVE  UnLugar(f, orden, h, T) = UnLugar(f, orden, g, T)
    BY DEF UnLugar
  <2>1. T \ {Max(T)} \in SUBSET D
    OBVIOUS
  <2>2. h[T \ {Max(T)}] = g[T \ {Max(T)}]
    BY <2>1
  <2> QED
    BY <2>2 DEF UnLugar
<1>8. h = [s \in SUBSET D |-> UnLugar(f, orden, h, s)]
  BY <1>5, <1>6, <1>7
<1> HIDE DEF h
<1> QED
  BY <1>8 DEF Acumulado

\* What is done with the first k files of the list.
Hecho(f, orden, k) == Acumulado(f, orden)[1 .. k]

LEMMA HechoPaso ==
  ASSUME NEW f, NEW N \in Nat, NEW orden, DOMAIN orden = 1 .. N
  PROVE  /\ Hecho(f, orden, 0) = SinLugares
         /\ \A k \in 1 .. N :
               Hecho(f, orden, k) = Acomoda(f, Hecho(f, orden, k - 1), orden[k])
         /\ Compactado(f, orden) = Hecho(f, orden, N)
<1> DEFINE A == Acumulado(f, orden)
<1>1. A = [s \in SUBSET (1 .. N) |-> UnLugar(f, orden, A, s)]
  BY AcumuladoExiste
<1> HIDE DEF A
<1>2. A[1 .. 0] = SinLugares
  <2>1. 1 .. 0 = {} /\ {} \in SUBSET (1 .. N)
    OBVIOUS
  <2>2. A[{}] = UnLugar(f, orden, A, {})
    BY <1>1, <2>1
  <2> QED
    BY <2>1, <2>2 DEF UnLugar
<1>3. ASSUME NEW k \in 1 .. N
      PROVE  A[1 .. k] = Acomoda(f, A[1 .. k - 1], orden[k])
  <2>1. 1 .. k \in SUBSET (1 .. N) /\ 1 .. k # {}
    <3>1. k \in Nat /\ k \in 1 .. k
      OBVIOUS
    <3>2. \A j \in 1 .. k : j \in 1 .. N
      OBVIOUS
    <3> QED
      BY <3>1, <3>2
  <2>2. A[1 .. k] = UnLugar(f, orden, A, 1 .. k)
    BY <1>1, <2>1
  <2>3. Max(1 .. k) = k /\ (1 .. k) \ {k} = 1 .. k - 1
    BY MaxHasta
  <2> QED
    BY <2>1, <2>2, <2>3 DEF UnLugar
<1> QED
  BY <1>2, <1>3, EsCompactado DEF A, Hecho

\* The files, but for f, among the first k of the list.
Puestos(f, orden, k) == { orden[j] : j \in 1 .. k } \ {f}

\* What compacting the first k files has made: they are packed from the first
\* block on, and as many blocks are taken as they had, at most.
Colocado(f, orden, k) ==
    LET h == Hecho(f, orden, k)
        S == Puestos(f, orden, k)
    IN  /\ ~ h.falla
        /\ h.arch \in TablasDe
        /\ \A g \in Nombres \ S : h.arch[g] = archivos[g]
        /\ \A g \in S : /\ h.arch[g].BLOQUE_INICIAL \in Bits
                        /\ h.arch[g].TAMANIO_ARCHIVO = archivos[g].TAMANIO_ARCHIVO
                        /\ h.arch[g] # SinArchivo
        /\ h.cs \in Memorias
        /\ h = [bits |-> h.bits, cs |-> h.cs, arch |-> h.arch, falla |-> h.falla]
        /\ \E m \in Nat : /\ h.bits = 0 .. m - 1
                          /\ m <= Cardinality(Usados(archivos, S))

\* The packed files do not overlap and are all of what is marked.
SinHuecos(f, orden, k) ==
    LET h == Hecho(f, orden, k)
        S == Puestos(f, orden, k)
    IN  /\ h.bits = Usados(h.arch, S)
        /\ \A g, i \in S : g # i => Tramo(h.arch[g]) \cap Tramo(h.arch[i]) = {}

\* The list of the files: each once.
EsLista(orden, N) ==
    /\ N \in Nat
    /\ orden \in [1 .. N -> Hay(archivos)]
    /\ \A i, j \in 1 .. N : i # j => orden[i] # orden[j]

LEMMA PuestosPaso ==
  ASSUME NEW f, NEW N, NEW orden, EsLista(orden, N), NEW k \in 1 .. N
  PROVE  /\ Puestos(f, orden, k - 1) \subseteq Hay(archivos) \ {f}
         /\ orden[k] \in Hay(archivos)
         /\ orden[k] \notin Puestos(f, orden, k - 1)
         /\ orden[k] = f => Puestos(f, orden, k) = Puestos(f, orden, k - 1)
         /\ orden[k] # f => Puestos(f, orden, k) = Puestos(f, orden, k - 1) \cup {orden[k]}
<1>1. N \in Nat /\ k - 1 \in Nat /\ k \in 1 .. N
  BY DEF EsLista
<1>2. \A j \in 1 .. k - 1 : j \in 1 .. N /\ j # k
  BY <1>1
<1>3. orden[k] \notin Puestos(f, orden, k - 1)
  BY <1>1, <1>2 DEF EsLista, Puestos
<1>4. 1 .. k = (1 .. k - 1) \cup {k}
  BY <1>1
<1>5. { orden[j] : j \in 1 .. k } = { orden[j] : j \in 1 .. k - 1 } \cup {orden[k]}
  BY <1>4
<1>6. Puestos(f, orden, k - 1) \subseteq Hay(archivos) \ {f} /\ orden[k] \in Hay(archivos)
  BY <1>1, <1>2 DEF EsLista, Puestos
<1> QED
  BY <1>3, <1>5, <1>6 DEF Puestos

\* One more file adds its blocks, which are of nobody else.
LEMMA UsadosMas ==
  ASSUME archivos \in TablasDe, NEW bits, Exacto(archivos, bits),
         NEW S \in SUBSET Hay(archivos), NEW g \in Hay(archivos), g \notin S
  PROVE  /\ IsFiniteSet(Usados(archivos, S))
         /\ Cardinality(Usados(archivos, S)) \in Nat
         /\ Cardinality(Usados(archivos, S \cup {g}))
               = Cardinality(Usados(archivos, S)) + Ocupa(Tam(g))
<1> DEFINE U == Usados(archivos, S)
           V == Tramo(archivos[g])
<1>1. archivos[g] \in Metadatos
  BY HayEs
<1>2. IsFiniteSet(U)
  BY UsadosEnBits
<1>3. IsFiniteSet(V) /\ Cardinality(V) = Ocupa(Tam(g)) /\ Ocupa(Tam(g)) \in Nat
  BY <1>1, TramoEs DEF Tam
<1>4. U \cap V = {}
  BY DEF Usados, Exacto
<1>5. Usados(archivos, S \cup {g}) = U \cup V
  BY DEF Usados
<1> HIDE DEF U, V
<1>6. Cardinality(U \cup V) = Cardinality(U) + Cardinality(V) - Cardinality(U \cap V)
  BY <1>2, <1>3, FS_Union
<1>7. Cardinality(U \cap V) = 0 /\ Cardinality(U) \in Nat
  BY <1>2, <1>4, FS_EmptySet, FS_CardinalityType
<1>8. Cardinality(U \cup V) = Cardinality(U) + Ocupa(Tam(g))
  BY <1>3, <1>6, <1>7
<1> QED
  BY <1>2, <1>5, <1>7, <1>8 DEF U

LEMMA ColocadoSiempre ==
  ASSUME archivos \in TablasDe, bloques \in Memorias,
         NEW bits, Exacto(archivos, bits),
         NEW f \in Hay(archivos), NEW N, NEW orden, EsLista(orden, N),
         Cardinality(Usados(archivos, Hay(archivos) \ {f})) < tam_bitmap,
         NEW k \in 0 .. N
  PROVE  /\ Colocado(f, orden, k)
         /\ (\A g \in Hay(archivos) \ {f} : Tam(g) # 0) => SinHuecos(f, orden, k)
<1> DEFINE Llenos == \A g \in Hay(archivos) \ {f} : Tam(g) # 0
           A == { n \in Nat : n <= N =>
                     Colocado(f, orden, n) /\ (Llenos => SinHuecos(f, orden, n)) }
<1>0. N \in Nat /\ DOMAIN orden = 1 .. N
  BY DEF EsLista
<1>1. 0 \in A
  <2>1. Hecho(f, orden, 0) = SinLugares
    BY <1>0, HechoPaso
  <2>2. Puestos(f, orden, 0) = {}
    <3>1. 1 .. 0 = {}
      OBVIOUS
    <3> QED
      BY <3>1 DEF Puestos
  <2>3. Usados(archivos, {}) = {} /\ Usados(SinLugares.arch, {}) = {}
    BY DEF Usados
  <2>4. Cardinality(Usados(archivos, {})) = 0
    BY <2>3, FS_EmptySet
  <2>5. [c \in Celdas |-> NUL] \in Memorias
    BY DEF Memorias
  <2>6. {} = 0 .. 0 - 1
    OBVIOUS
  <2>7. Colocado(f, orden, 0)
    <3> DEFINE h == Hecho(f, orden, 0)
    <3>1. /\ h.bits = {} /\ h.cs = [c \in Celdas |-> NUL] /\ h.arch = archivos
          /\ h.falla = FALSE
          /\ h = [bits |-> h.bits, cs |-> h.cs, arch |-> h.arch, falla |-> h.falla]
      BY <2>1 DEF SinLugares
    <3>2. \E m \in Nat : h.bits = 0 .. m - 1 /\ m <= Cardinality(Usados(archivos, {}))
      <4>1. h.bits = 0 .. 0 - 1 /\ 0 <= Cardinality(Usados(archivos, {}))
        BY <2>4, <2>6, <3>1
      <4> QED
        BY <4>1
    <3> QED
      BY <2>2, <2>5, <3>1, <3>2 DEF Colocado
  <2>8. SinHuecos(f, orden, 0)
    BY <2>1, <2>2, <2>3 DEF SinHuecos, SinLugares
  <2> QED
    BY <2>7, <2>8
<1>2. ASSUME NEW n \in Nat, n \in A
      PROVE  n + 1 \in A
  <2> SUFFICES ASSUME n + 1 <= N
               PROVE  /\ Colocado(f, orden, n + 1)
                      /\ Llenos => SinHuecos(f, orden, n + 1)
    OBVIOUS
  <2> DEFINE h == Hecho(f, orden, n)
             z == Hecho(f, orden, n + 1)
             S == Puestos(f, orden, n)
             g == orden[n + 1]
             b == buscar_primer_bloque_libre(h.bits)
  <2>a. Colocado(f, orden, n) /\ (Llenos => SinHuecos(f, orden, n))
    BY <1>0, <1>2
  <2>b. n + 1 \in 1 .. N /\ (n + 1) - 1 = n
    BY <1>0
  <2>c. z = Acomoda(f, h, g)
    <3>1. \A j \in 1 .. N : Hecho(f, orden, j) = Acomoda(f, Hecho(f, orden, j - 1), orden[j])
      BY <1>0, HechoPaso
    <3>2. Hecho(f, orden, n + 1) = Acomoda(f, Hecho(f, orden, (n + 1) - 1), orden[n + 1])
      BY <2>b, <3>1
    <3> QED
      BY <2>b, <3>2
  <2>d. /\ S \subseteq Hay(archivos) \ {f} /\ g \in Hay(archivos) /\ g \notin S
        /\ g = f => Puestos(f, orden, n + 1) = S
        /\ g # f => Puestos(f, orden, n + 1) = S \cup {g}
    <3> DEFINE k1 == n + 1
    <3>1. k1 \in 1 .. N /\ k1 - 1 = n
      BY <2>b
    <3> HIDE DEF k1
    <3>2. /\ Puestos(f, orden, k1 - 1) \subseteq Hay(archivos) \ {f}
          /\ orden[k1] \in Hay(archivos)
          /\ orden[k1] \notin Puestos(f, orden, k1 - 1)
          /\ orden[k1] = f => Puestos(f, orden, k1) = Puestos(f, orden, k1 - 1)
          /\ orden[k1] # f => Puestos(f, orden, k1) = Puestos(f, orden, k1 - 1) \cup {orden[k1]}
      BY <3>1, PuestosPaso
    <3> QED
      BY <3>1, <3>2 DEF k1
  <2> HIDE DEF S, g
  <2>e. PICK m \in Nat : h.bits = 0 .. m - 1 /\ m <= Cardinality(Usados(archivos, S))
    BY <2>a DEF Colocado, S
  <2>f. Cardinality(Usados(archivos, S)) <= Cardinality(Usados(archivos, Hay(archivos) \ {f}))
    <3>1. Usados(archivos, S) \in SUBSET Usados(archivos, Hay(archivos) \ {f})
      BY <2>d DEF Usados
    <3>2. IsFiniteSet(Usados(archivos, Hay(archivos) \ {f}))
      BY UsadosEnBits
    <3> QED
      BY <3>1, <3>2, FS_Subset
  <2>g. /\ IsFiniteSet(Usados(archivos, S)) /\ Cardinality(Usados(archivos, S)) \in Nat
        /\ Cardinality(Usados(archivos, S \cup {g}))
               = Cardinality(Usados(archivos, S)) + Ocupa(Tam(g))
    BY <2>d, UsadosMas
  <2>h. Cardinality(Usados(archivos, Hay(archivos) \ {f})) \in Nat
    <3>1. IsFiniteSet(Usados(archivos, Hay(archivos) \ {f}))
      BY UsadosEnBits
    <3> QED
      BY <3>1, FS_CardinalityType
  <2>i. m < tam_bitmap
    BY <2>e, <2>f, <2>g, <2>h, TamBitmap
  <2>j. b = m
    <3>1. m \in Libres(h.bits)
      BY <2>e, <2>i, TamBitmap DEF Libres, Bits
    <3>2. \A j \in Libres(h.bits) : j >= m
      BY <2>e, <2>i, TamBitmap DEF Libres, Bits
    <3>3. b \in Libres(h.bits) /\ b \in Nat /\ b <= m
      BY <3>1, PrimeroEs
    <3> QED
      BY <3>2, <3>3, <2>e
  <2>k. ~ h.falla /\ ~ (b < 0)
    BY <2>a, <2>j, <2>e DEF Colocado
  <2>l. archivos[g] \in Metadatos /\ archivos[g] # SinArchivo
    BY <2>d, HayEs, TramoEs
  <2>m. CASE g = f
    <3>1. z = h
      BY <2>c, <2>k, <2>m DEF Acomoda
    <3>2. Puestos(f, orden, n + 1) = S
      BY <2>d, <2>m
    <3> QED
      BY <2>a, <3>1, <3>2 DEF Colocado, SinHuecos, S
  <2>n. CASE g # f
    <3> DEFINE t == Tam(g)
    <3>1. t \in Nat /\ t = archivos[g].TAMANIO_ARCHIVO
      BY <2>l DEF Metadatos, Tam
    <3>2. Techo(t) \in Nat /\ Techo(t) <= Ocupa(t) /\ Ocupa(t) \in Nat
          /\ (t # 0 => Ocupa(t) = Techo(t))
      BY <3>1, TechoEs
    <3>3. z = [bits |-> h.bits \cup Rango(b, Techo(t)),
               cs |-> Escrito(h.cs, b, 0, Legible(bloques, archivos[g])),
               arch |-> [h.arch EXCEPT ![g].BLOQUE_INICIAL = b],
               falla |-> FALSE]
      BY <2>c, <2>k, <2>n DEF Acomoda
    <3>4. /\ z.bits = h.bits \cup Rango(b, Techo(t))
          /\ z.cs = Escrito(h.cs, b, 0, Legible(bloques, archivos[g]))
          /\ z.arch = [h.arch EXCEPT ![g].BLOQUE_INICIAL = b]
          /\ z.falla = FALSE
          /\ z = [bits |-> z.bits, cs |-> z.cs, arch |-> z.arch, falla |-> z.falla]
      BY <3>3
    <3>5. g \in Nombres /\ Puestos(f, orden, n + 1) = S \cup {g}
      BY <2>d, <2>n, HayEs
    <3>6. h.arch \in TablasDe /\ h.arch[g] = archivos[g]
      BY <2>a, <2>d, <3>5 DEF Colocado, S
    <3>7. b \in Nat /\ b \in Bits
      BY <2>e, <2>i, <2>j, TamBitmap DEF Bits
    <3>8. [archivos[g] EXCEPT !.BLOQUE_INICIAL = b] = Metadata(b, t)
      BY <2>l, <3>1 DEF Metadata, Metadatos
    <3>9. z.arch = [h.arch EXCEPT ![g] = Metadata(b, t)]
      BY <3>4, <3>6, <3>8
    <3>10. Metadata(b, t) \in Metadatos
      BY <3>1, <3>7 DEF Metadata, Metadatos
    <3>11. /\ z.arch \in TablasDe /\ z.arch[g] = Metadata(b, t)
           /\ \A i \in Nombres : i # g => z.arch[i] = h.arch[i]
      BY <3>5, <3>6, <3>9, <3>10 DEF TablasDe
    <3>12. z.bits = 0 .. (m + Techo(t)) - 1
      <4>1. z.bits = (0 .. m - 1) \cup (m .. m + Techo(t) - 1)
        BY <2>e, <2>j, <3>4 DEF Rango
      <4>2. Techo(t) \in Nat
        BY <3>2
      <4> HIDE DEF z, t
      <4> QED
        BY <4>1, <4>2
    <3>13. /\ m + Techo(t) \in Nat
           /\ m + Techo(t) <= Cardinality(Usados(archivos, S \cup {g}))
      <4>1. Techo(t) \in Nat /\ Techo(t) <= Ocupa(t) /\ Ocupa(t) \in Nat
        BY <3>2
      <4>2. /\ Cardinality(Usados(archivos, S)) \in Nat
            /\ Cardinality(Usados(archivos, S \cup {g})) = Cardinality(Usados(archivos, S)) + Ocupa(t)
            /\ m <= Cardinality(Usados(archivos, S))
        BY <2>e, <2>g
      <4> HIDE DEF t
      <4> QED
        BY <4>1, <4>2
    <3>14. z.cs \in Memorias
      <4>1. h.cs \in Memorias
        BY <2>a DEF Colocado
      <4>2. Legible(bloques, archivos[g]) \in Seq(Nombres)
        BY <2>l, LegibleTipo
      <4>3. z.cs = Escrito(h.cs, b, 0, Legible(bloques, archivos[g])) /\ b \in Int
        BY <3>4, <3>7
      <4> HIDE DEF z, h, b
      <4> QED
        BY <4>1, <4>2, <4>3, EscritoTipo
    <3>15. \A i \in S \cup {g} : /\ z.arch[i].BLOQUE_INICIAL \in Bits
                        /\ z.arch[i].TAMANIO_ARCHIVO = archivos[i].TAMANIO_ARCHIVO
                        /\ z.arch[i] # SinArchivo
      <4>1. CASE TRUE
        <5> SUFFICES ASSUME NEW i \in S \cup {g}
                     PROVE  /\ z.arch[i].BLOQUE_INICIAL \in Bits
                            /\ z.arch[i].TAMANIO_ARCHIVO = archivos[i].TAMANIO_ARCHIVO
                            /\ z.arch[i] # SinArchivo
          OBVIOUS
        <5>1. CASE i = g
          BY <3>1, <3>7, <3>10, <3>11, <5>1, TramoEs DEF Metadata
        <5>2. CASE i # g
          <6>1. i \in S /\ i \in Nombres
            BY <2>d, <5>2, HayEs
          <6> QED
            BY <2>a, <3>11, <5>2, <6>1 DEF Colocado, S
        <5> QED
          BY <5>1, <5>2
      <4> QED
        BY <4>1
    <3>16. \A i \in Nombres \ (S \cup {g}) : z.arch[i] = archivos[i]
      BY <2>a, <3>11 DEF Colocado, S
    <3>17. Colocado(f, orden, n + 1)
      <4>1. \E w \in Nat : /\ z.bits = 0 .. w - 1
                           /\ w <= Cardinality(Usados(archivos, S \cup {g}))
        BY <3>12, <3>13
      <4> HIDE DEF z, h, b, t
      <4>2. /\ ~ z.falla /\ z.arch \in TablasDe /\ z.cs \in Memorias
            /\ z = [bits |-> z.bits, cs |-> z.cs, arch |-> z.arch, falla |-> z.falla]
        BY <3>4, <3>11, <3>14
      <4> USE DEF z
      <4> QED
        BY <3>5, <3>15, <3>16, <4>1, <4>2 DEF Colocado
    <3>18. ASSUME Llenos
           PROVE  SinHuecos(f, orden, n + 1)
      <4>1. h.bits = Usados(h.arch, S)
            /\ \A i, j \in S : i # j => Tramo(h.arch[i]) \cap Tramo(h.arch[j]) = {}
        BY <2>a, <3>18 DEF SinHuecos, S
      <4>2. t # 0 /\ Ocupa(t) = Techo(t)
        BY <2>d, <2>n, <3>2, <3>18
      <4>3. Tramo(z.arch[g]) = Rango(b, Techo(t))
        BY <3>11, <4>2 DEF Tramo, Metadata
      <4>4. \A i \in S : z.arch[i] = h.arch[i]
        BY <2>d, <3>11, HayEs
      <4>5. z.bits = Usados(z.arch, S \cup {g})
        <5> HIDE DEF z, h, b, t
        <5> QED
          BY <3>4, <4>1, <4>3, <4>4 DEF Usados
      <4>6. h.bits \cap Rango(b, Techo(t)) = {}
        BY <2>e, <2>j, <3>2 DEF Rango
      <4>7. \A i \in S : Tramo(z.arch[i]) \subseteq h.bits
        BY <4>1, <4>4 DEF Usados
      <4>8. ASSUME NEW i \in S \cup {g}, NEW j \in S \cup {g}, i # j
            PROVE  Tramo(z.arch[i]) \cap Tramo(z.arch[j]) = {}
        <5> HIDE DEF z, h, b, t
        <5>1. CASE i = g
          <6>1. j \in S
            BY <4>8, <5>1
          <6> QED
            BY <4>3, <4>6, <4>7, <5>1, <6>1
        <5>2. CASE j = g
          <6>1. i \in S
            BY <4>8, <5>2
          <6> QED
            BY <4>3, <4>6, <4>7, <5>2, <6>1
        <5>3. CASE i # g /\ j # g
          BY <4>1, <4>4, <4>8, <5>3
        <5> QED
          BY <5>1, <5>2, <5>3
      <4> QED
        BY <3>5, <4>5, <4>8 DEF SinHuecos
    <3> QED
      BY <3>17, <3>18
  <2> QED
    BY <2>m, <2>n
<1>3. Nat \subseteq A
  <2> HIDE DEF A
  <2> QED
    BY <1>1, <1>2, InduccionNat
<1>4. k \in A /\ k <= N
  BY <1>0, <1>3
<1> QED
  BY <1>4

\* A list of the files has each of them once.
LEMMA OrdenEs ==
  ASSUME archivos \in TablasDe, NEW orden \in Ordenes(Existentes)
  PROVE  \E N \in Nat : /\ EsLista(orden, N)
                        /\ \A f : Puestos(f, orden, N) = Hay(archivos) \ {f}
<1> DEFINE H == Hay(archivos)
           N == Cardinality(H)
<1>1. Existentes = H
  BY DEF Existentes, Existe, Hay
<1>2. IsFiniteSet(H) /\ N \in Nat
  <2>1. H \in SUBSET Nombres /\ IsFiniteSet(Nombres)
    BY ParametrosFS DEF Hay
  <2>2. IsFiniteSet(H)
    BY <2>1, FS_Subset
  <2> QED
    BY <2>2, FS_CardinalityType
<1> HIDE DEF H
<1>3. orden \in [1 .. N -> H] /\ \A i, j \in 1 .. N : i # j => orden[i] # orden[j]
  BY <1>1 DEF Ordenes, SetToSeqs
<1>4. EsLista(orden, N)
  BY <1>2, <1>3 DEF EsLista, H
<1>5. orden \in Injection(1 .. N, H)
  BY <1>3 DEF Injection, IsInjective
<1>6. Cardinality(1 .. N) = N
  BY <1>2, FS_Interval
<1>7. orden \in Surjection(1 .. N, H)
  BY <1>2, <1>5, <1>6, FS_Injection
<1>8. { orden[j] : j \in 1 .. N } = H
  BY <1>3, <1>7 DEF Surjection
<1> QED
  BY <1>2, <1>4, <1>8 DEF Puestos, H

-----------------------------------------------------------------------------
(* The operations.                                                           *)

LEMMA TipoDe ==
  ASSUME TipoFS
  PROVE  /\ dialfs \in {"vivo", "muerto", "colgado"}
         /\ archivos \in TablasDe
         /\ bitmap \subseteq Bits /\ logrado \in BOOLEAN
         /\ bloques \in Memorias
         /\ ultima_posicion \in 0 .. tam_bitmap
         /\ Existentes = Hay(archivos)
         /\ \A f \in Hay(archivos) : /\ archivos[f] \in Metadatos
                                     /\ archivos[f].BLOQUE_INICIAL \in Bits
                                     /\ Inicio(f) = archivos[f].BLOQUE_INICIAL
                                     /\ Tam(f) = archivos[f].TAMANIO_ARCHIVO
                                     /\ BloquesDe(f) = Tramo(archivos[f])
                                     /\ Inicio(f) \in Nat /\ Tam(f) \in Nat
<1>1. Existentes = Hay(archivos)
  BY DEF Existentes, Existe, Hay
<1>2. archivos \in TablasDe
  BY DEF TipoFS
<1>3. \A f \in Hay(archivos) : archivos[f] \in Metadatos
  BY <1>2, HayEs
<1>4. \A f \in Hay(archivos) : archivos[f].BLOQUE_INICIAL \in Bits
  BY <1>1 DEF TipoFS, TypeOKFS, Inicio
<1>5. \A f \in Hay(archivos) : Inicio(f) \in Nat /\ Tam(f) \in Nat
  BY <1>3 DEF Metadatos, Inicio, Tam
<1>6. bloques \in Memorias
  BY DEF TipoFS, TypeOKFS, Memorias
<1> QED
  BY <1>1, <1>2, <1>3, <1>4, <1>5, <1>6
     DEF TipoFS, TypeOKFS, Inicio, Tam, BloquesDe, Tramo

LEMMA TipoLuego ==
  ASSUME dialfs' \in {"vivo", "muerto", "colgado"},
         archivos' \in TablasDe, bitmap' \subseteq Bits, logrado' \in BOOLEAN,
         bloques' \in Memorias, ultima_posicion' \in 0 .. tam_bitmap,
         descuidos' \subseteq Causas,
         \A f \in Hay(archivos') : archivos'[f].BLOQUE_INICIAL \in Bits
  PROVE  TipoFS'
<1>1. \A f \in Hay(archivos') : archivos'[f] \in Metadatos
  BY HayEs
<1>2. \A f \in Existentes' : Inicio(f)' \in Bits /\ Tam(f)' \in Nat
  BY <1>1 DEF Existentes, Existe, Hay, Inicio, Tam, Metadatos
<1> QED
  BY <1>2 DEF TipoFS, TypeOKFS, Memorias

\* The same, when the new bitmap is exact.
LEMMA ExactoLuego ==
  ASSUME dialfs' \in {"vivo", "muerto"},
         archivos' \in TablasDe, Exacto(archivos', bitmap'), logrado' \in BOOLEAN,
         bloques' \in Memorias, ultima_posicion' \in 0 .. tam_bitmap,
         descuidos' \subseteq Causas
  PROVE  InvarianteFS'
<1>1. \A f \in Hay(archivos') : archivos'[f].BLOQUE_INICIAL \in Bits
  BY InicioEnBits
<1>2. bitmap' \subseteq Bits
  BY DEF Exacto
<1>3. TipoFS'
  BY <1>1, <1>2, TipoLuego
<1> QED
  BY <1>3 DEF InvarianteFS

\* The same, when blocks have been mixed up.
LEMMA MezcladoLuego ==
  ASSUME dialfs' \in {"vivo", "muerto", "colgado"},
         archivos' \in TablasDe, bitmap' \subseteq Bits, logrado' \in BOOLEAN,
         bloques' \in Memorias, ultima_posicion' \in 0 .. tam_bitmap,
         descuidos' \subseteq Causas, descuidos' # {},
         \A f \in Hay(archivos') : archivos'[f].BLOQUE_INICIAL \in Bits
  PROVE  InvarianteFS'
BY TipoLuego DEF InvarianteFS

LEMMA CreaFS ==
  ASSUME InvarianteFS, descuidos = {}, NEW f \in Nombres, CrearArchivo(f)
  PROVE  InvarianteFS'
<1> DEFINE b == buscar_primer_bloque_libre(bitmap)
           m == Metadata(b, 0)
<1>1. TipoFS /\ Exacto(archivos, bitmap)
  BY DEF InvarianteFS
<1>2. archivos \in TablasDe /\ bloques \in Memorias /\ ultima_posicion \in 0 .. tam_bitmap
  BY <1>1, TipoDe
<1>3. b \in Libres(bitmap) /\ b \in Nat
  <2>1. b >= 0
    BY DEF CrearArchivo
  <2>2. b = 0 - 1 \/ (b \in Libres(bitmap) /\ b \in Nat)
    BY PrimeroEs
  <2> QED
    BY <2>1, <2>2
<1>4. m \in Metadatos /\ m.BLOQUE_INICIAL = b /\ m.TAMANIO_ARCHIVO = 0
  BY <1>3 DEF Metadata, Metadatos
<1>5. Tramo(m) = {b}
  BY <1>3, <1>4 DEF Tramo, Ocupa, Rango
<1>6. Hay(archivos) \ {f} = Hay(archivos)
  BY DEF CrearArchivo, Existe, Hay
<1>7. bitmap = Usados(archivos, Hay(archivos) \ {f})
  BY <1>1, <1>6 DEF Exacto
<1>8. Tramo(m) \subseteq Bits \ Usados(archivos, Hay(archivos) \ {f})
  BY <1>3, <1>5, <1>7 DEF Libres
<1>9. /\ archivos' = [archivos EXCEPT ![f] = m] /\ bitmap' = bitmap \cup {b}
      /\ logrado' = TRUE /\ dialfs' = "vivo"
      /\ UNCHANGED << bloques, ultima_posicion, descuidos >>
  BY DEF CrearArchivo
<1> HIDE DEF m, b
<1>10. archivos' \in TablasDe /\ Exacto(archivos', bitmap')
  BY <1>1, <1>2, <1>4, <1>5, <1>7, <1>8, <1>9, CambiaExacto
<1> QED
  BY <1>2, <1>9, <1>10, ExactoLuego

\* The bits once the file gave its own back.
LEMMA LiberarEs ==
  ASSUME InvarianteFS, descuidos = {}, NEW f \in Nombres, Existe(f)
  PROVE  /\ f \in Hay(archivos)
         /\ liberar_espacio_bitmap(f) = Usados(archivos, Hay(archivos) \ {f})
         /\ liberar_espacio_bitmap(f) = bitmap \ BloquesDe(f)
         /\ liberar_espacio_bitmap(f) \subseteq Bits
         /\ IsFiniteSet(liberar_espacio_bitmap(f))
         /\ Cardinality(liberar_espacio_bitmap(f)) \in Nat
         /\ Cardinality(Libres(liberar_espacio_bitmap(f)))
               = tam_bitmap - Cardinality(liberar_espacio_bitmap(f))
<1>1. TipoFS /\ Exacto(archivos, bitmap)
  BY DEF InvarianteFS
<1>2. archivos \in TablasDe /\ f \in Hay(archivos)
  BY <1>1, TipoDe DEF Existe, Hay
<1>3. liberar_espacio_bitmap(f) = bitmap \ Tramo(archivos[f])
  BY DEF liberar_espacio_bitmap, Tramo, Inicio, Tam
<1>4. liberar_espacio_bitmap(f) = Usados(archivos, Hay(archivos) \ {f})
  BY <1>1, <1>2, <1>3, QuedanLosOtros
<1> DEFINE O == liberar_espacio_bitmap(f)
<1>5. O \subseteq Bits /\ IsFiniteSet(O)
  BY <1>1, <1>4, UsadosEnBits
<1> HIDE DEF O
<1>6. Bits \cap O = O /\ IsFiniteSet(Bits) /\ Cardinality(Bits) = tam_bitmap
  BY <1>5, BitsFinito
<1>7. Cardinality(Bits \ O) = Cardinality(Bits) - Cardinality(Bits \cap O)
  BY <1>6, FS_Difference
<1>8. Cardinality(O) \in Nat
  BY <1>5, FS_CardinalityType
<1>9. O = bitmap \ BloquesDe(f)
  BY DEF O, liberar_espacio_bitmap, BloquesDe
<1> QED
  BY <1>2, <1>4, <1>5, <1>6, <1>7, <1>8, <1>9 DEF O, Libres

LEMMA EliminaFS ==
  ASSUME InvarianteFS, descuidos = {}, NEW f \in Nombres, EliminarArchivo(f)
  PROVE  InvarianteFS'
<1>1. TipoFS /\ Exacto(archivos, bitmap)
  BY DEF InvarianteFS
<1>2. archivos \in TablasDe /\ bloques \in Memorias /\ ultima_posicion \in 0 .. tam_bitmap
  BY <1>1, TipoDe
<1>3. liberar_espacio_bitmap(f) = Usados(archivos, Hay(archivos) \ {f})
  BY LiberarEs DEF EliminarArchivo
<1>4. /\ archivos' = [archivos EXCEPT ![f] = SinArchivo]
      /\ bitmap' = Usados(archivos, Hay(archivos) \ {f})
      /\ bloques' = Limpiadas(bloques, Inicio(f), Tam(f))
      /\ logrado' = TRUE /\ dialfs' = "vivo"
      /\ UNCHANGED << ultima_posicion, descuidos >>
  BY <1>3 DEF EliminarArchivo
<1>5. archivos' \in TablasDe /\ Exacto(archivos', bitmap')
  BY <1>1, <1>2, <1>4, QuitaExacto
<1>6. bloques' \in Memorias
  BY <1>2, <1>4, LimpiadasTipo
<1> QED
  BY <1>2, <1>4, <1>5, <1>6, ExactoLuego

LEMMA EscribeFS ==
  ASSUME InvarianteFS, descuidos = {}, NEW f \in Nombres, NEW p \in Punteros,
         NEW l \in Largos, EscribirArchivo(f, p, l)
  PROVE  InvarianteFS'
<1>1. TipoFS /\ Exacto(archivos, bitmap)
  BY DEF InvarianteFS
<1>2. /\ archivos \in TablasDe /\ bloques \in Memorias
      /\ ultima_posicion \in 0 .. tam_bitmap
  BY <1>1, TipoDe
<1>3. p \in Nat /\ l \in Nat
  BY ParametrosFS
<1>4. UNCHANGED << archivos, bitmap, ultima_posicion >> /\ logrado' = TRUE
  BY DEF EscribirArchivo
<1>5. dialfs' \in {"vivo", "muerto"} /\ descuidos' \subseteq Causas
  BY DEF EscribirArchivo, Causas
<1>6. bloques' \in Memorias
  <2>1. CASE bloques' = bloques
    BY <1>2, <2>1
  <2>2. CASE bloques' # bloques
    <3>1. Existe(f) /\ bloques' = Escrito(bloques, Inicio(f), p, [i \in 1 .. l |-> f])
      BY <2>2 DEF EscribirArchivo
    <3>2. Inicio(f) \in Int /\ p \in Int
      BY <1>1, <1>3, <3>1, TipoDe DEF Hay, Existe
    <3>3. [i \in 1 .. l |-> f] \in Seq(Nombres)
      BY <1>3
    <3> QED
      BY <1>2, <3>1, <3>2, <3>3, EscritoTipo
  <2> QED
    BY <2>1, <2>2
<1> QED
  BY <1>1, <1>2, <1>4, <1>5, <1>6, ExactoLuego

\* A truncation that asks for the same size gives the blocks back.
LEMMA TruncaIgualFS ==
  ASSUME InvarianteFS, descuidos = {}, NEW f \in Nombres, NEW n \in Nat,
         Existe(f), dialfs = "vivo", TruncaIgual(f, n), logrado' \in BOOLEAN
  PROVE  InvarianteFS'
<1>1. TipoFS /\ Exacto(archivos, bitmap)
  BY DEF InvarianteFS
<1>2. /\ archivos \in TablasDe /\ bloques \in Memorias
      /\ ultima_posicion \in 0 .. tam_bitmap
      /\ \A g \in Hay(archivos) : archivos[g].BLOQUE_INICIAL \in Bits
  BY <1>1, TipoDe
<1>3. bitmap' \subseteq Bits
  BY LiberarEs DEF TruncaIgual
<1>4. UNCHANGED << dialfs, archivos, bloques, ultima_posicion >>
  BY DEF TruncaIgual
<1>5. descuidos' \subseteq Causas /\ descuidos' # {}
  BY DEF TruncaIgual, Causas
<1> QED
  BY <1>2, <1>3, <1>4, <1>5, MezcladoLuego

\* Where a file of n bytes fits in the place of another.
LEMMA EnElLugarEs ==
  ASSUME NEW f, Tam(f) \in Nat, Inicio(f) \in Nat, NEW n \in Nat, ~ Crece(f, n)
  PROVE  Rango(Inicio(f), Techo(n)) \subseteq BloquesDe(f)
<1>1. tamanio_bloques \in Nat \ {0}
  BY ParametrosFS
<1>2. Techo(n) <= Ocupa(Tam(f))
  <2>1. CASE Techo(n) <= Techo(Tam(f))
    BY <2>1, TechoEs
  <2>2. CASE n <= tamanio_bloques
    <3>1. n = 0 \/ n \in 1 .. tamanio_bloques
      BY <1>1, <2>2
    <3>2. Techo(n) <= 1
      BY <3>1, TechoEs
    <3>3. Techo(n) \in Nat /\ Ocupa(Tam(f)) \in Nat \ {0}
      BY TechoEs
    <3> QED
      BY <3>2, <3>3
  <2>3. Techo(n) \in Nat /\ Techo(Tam(f)) \in Nat
    BY TechoEs
  <2> QED
    BY <1>1, <2>1, <2>2, <2>3 DEF Crece
<1>3. Techo(n) \in Nat /\ Ocupa(Tam(f)) \in Nat
  BY TechoEs
<1> QED
  BY <1>2, <1>3 DEF Rango, BloquesDe

LEMMA TruncaEnElLugarFS ==
  ASSUME InvarianteFS, descuidos = {}, NEW f \in Nombres, NEW n \in Nat,
         Existe(f), dialfs = "vivo", TruncaEnElLugar(f, n), logrado' \in BOOLEAN
  PROVE  InvarianteFS'
<1> DEFINE m == Metadata(Inicio(f), n)
           O == Usados(archivos, Hay(archivos) \ {f})
<1>1. TipoFS /\ Exacto(archivos, bitmap)
  BY DEF InvarianteFS
<1>2. /\ f \in Hay(archivos) /\ liberar_espacio_bitmap(f) = O
      /\ O = bitmap \ BloquesDe(f) /\ O \subseteq Bits
  BY LiberarEs
<1>3. /\ archivos \in TablasDe /\ bloques \in Memorias
      /\ ultima_posicion \in 0 .. tam_bitmap
      /\ Inicio(f) \in Nat /\ Tam(f) \in Nat
      /\ Inicio(f) \in Bits
      /\ \A g \in Hay(archivos) : archivos[g].BLOQUE_INICIAL \in Bits
  BY <1>1, <1>2, TipoDe
<1>4. BloquesDe(f) = Tramo(archivos[f]) /\ BloquesDe(f) \subseteq Bits
  BY <1>1, <1>2, TipoDe DEF Exacto, Usados
<1>5. Rango(Inicio(f), Techo(n)) \subseteq BloquesDe(f)
  BY <1>3, EnElLugarEs DEF TruncaEnElLugar
<1>6. m \in Metadatos /\ m.BLOQUE_INICIAL = Inicio(f) /\ m.TAMANIO_ARCHIVO = n
  BY <1>3 DEF Metadata, Metadatos
<1>7. /\ archivos' = [archivos EXCEPT ![f] = m]
      /\ bitmap' = O \cup Rango(Inicio(f), Techo(n))
      /\ UNCHANGED << dialfs, ultima_posicion >>
      /\ descuidos' = IF n = 0 THEN {"a_cero"} ELSE {}
  BY <1>2 DEF TruncaEnElLugar, Truncado
<1>8. bloques' \in Memorias
  BY <1>3, LimpiadasTipo DEF TruncaEnElLugar
<1>9. descuidos' \subseteq Causas
  BY <1>7 DEF Causas
<1> HIDE DEF m, O
<1>10. CASE n = 0
  <2>1. bitmap' \subseteq Bits /\ descuidos' # {}
    BY <1>2, <1>4, <1>5, <1>7, <1>10
  <2>2. /\ archivos' \in TablasDe /\ archivos'[f] = m
        /\ \A g \in Nombres : g # f => archivos'[g] = archivos[g]
    BY <1>3, <1>6, <1>7 DEF TablasDe
  <2>3. \A g \in Hay(archivos') : archivos'[g].BLOQUE_INICIAL \in Bits
    BY <1>3, <1>6, <2>2 DEF Hay
  <2> QED
    BY <1>3, <1>7, <1>8, <1>9, <2>1, <2>2, <2>3, MezcladoLuego
<1>11. CASE n # 0
  <2>1. Tramo(m) = Rango(Inicio(f), Techo(n))
    BY <1>6, <1>11 DEF Tramo, Ocupa
  <2>2. Tramo(m) \subseteq Bits \ O
    BY <1>2, <1>4, <1>5, <2>1
  <2>3. archivos' \in TablasDe /\ Exacto(archivos', bitmap')
    BY <1>1, <1>3, <1>6, <1>7, <2>1, <2>2, CambiaExacto DEF O
  <2> QED
    BY <1>3, <1>7, <1>8, <1>9, <2>3, ExactoLuego
<1> QED
  BY <1>10, <1>11

LEMMA TruncaSinEspacioFS ==
  ASSUME InvarianteFS, descuidos = {}, NEW f \in Nombres, NEW n \in Nat,
         Existe(f), dialfs = "vivo", TruncaSinEspacio(f, n), logrado' \in BOOLEAN
  PROVE  InvarianteFS'
<1>1. TipoFS /\ Exacto(archivos, bitmap)
  BY DEF InvarianteFS
<1>2. /\ f \in Hay(archivos)
      /\ liberar_espacio_bitmap(f) = bitmap \ BloquesDe(f)
      /\ liberar_espacio_bitmap(f) \subseteq Bits
  BY LiberarEs
<1>3. /\ archivos \in TablasDe /\ bloques \in Memorias
      /\ ultima_posicion \in 0 .. tam_bitmap
      /\ Inicio(f) \in Nat /\ Tam(f) \in Nat
      /\ BloquesDe(f) = Tramo(archivos[f])
      /\ \A g \in Hay(archivos) : archivos[g].BLOQUE_INICIAL \in Bits
  BY <1>1, <1>2, TipoDe
<1>4. BloquesDe(f) \subseteq bitmap /\ bitmap \subseteq Bits
  BY <1>1, <1>2, <1>3 DEF Exacto, Usados
<1>5. UNCHANGED << dialfs, archivos, bloques, ultima_posicion >>
  BY DEF TruncaSinEspacio
<1>6. CASE Tam(f) = 0
  <2>1. Techo(Tam(f)) = 0
    BY <1>6, TechoEs
  <2>2. Rango(Inicio(f), 0) = {}
    BY <1>3 DEF Rango
  <2>3. bitmap' \subseteq Bits
    BY <1>2, <2>1, <2>2 DEF TruncaSinEspacio
  <2>4. descuidos' \subseteq Causas /\ descuidos' # {}
    BY <1>6 DEF TruncaSinEspacio, Causas
  <2> QED
    BY <1>3, <1>5, <2>3, <2>4, MezcladoLuego
<1>7. CASE Tam(f) # 0
  <2>1. Rango(Inicio(f), Techo(Tam(f))) = BloquesDe(f)
    BY <1>7 DEF BloquesDe, Ocupa
  <2>2. bitmap' = bitmap
    BY <1>2, <1>4, <2>1 DEF TruncaSinEspacio
  <2>3. descuidos' = {}
    BY <1>7 DEF TruncaSinEspacio
  <2> QED
    BY <1>1, <1>3, <1>5, <2>2, <2>3, ExactoLuego
<1> QED
  BY <1>6, <1>7

\* The place that is found for a file.
LEMMA LugarEs ==
  ASSUME InvarianteFS, descuidos = {}, NEW f \in Nombres, NEW n \in Nat, Existe(f)
  PROVE  /\ Lugar(f, n).ultima \in 0 .. tam_bitmap
         /\ Lugar(f, n).bloque \in Int
         /\ Lugar(f, n).bloque >= 0 =>
               /\ Lugar(f, n).bloque \in Bits
               /\ Rango(Lugar(f, n).bloque, Techo(n))
                     \subseteq Bits \ liberar_espacio_bitmap(f)
<1>1. ultima_posicion \in 0 .. tam_bitmap /\ Techo(n) \in Nat
  BY TipoDe, TechoEs DEF InvarianteFS
<1>2. /\ Lugar(f, n).ultima \in 0 .. tam_bitmap
      /\ Lugar(f, n).bloque \in Int
      /\ Lugar(f, n).bloque >= 0 =>
            /\ Lugar(f, n).bloque \in Libres(liberar_espacio_bitmap(f))
            /\ Cabe(liberar_espacio_bitmap(f), Lugar(f, n).bloque, Techo(n))
  BY <1>1, EspacioEs DEF Lugar
<1> QED
  BY <1>2 DEF Cabe, Libres

LEMMA CreceEs ==
  ASSUME NEW f, NEW n \in Nat, Crece(f, n)
  PROVE  n # 0 /\ Techo(n) \in Nat \ {0} /\ Ocupa(n) = Techo(n)
<1>1. tamanio_bloques \in Nat \ {0}
  BY ParametrosFS
<1>2. n > 0
  BY <1>1 DEF Crece
<1> QED
  BY <1>2, TechoEs

LEMMA MudadoTipo ==
  ASSUME TipoFS, NEW f \in Hay(archivos), NEW b \in Int
  PROVE  Mudado(f, b) \in Memorias
<1>1. Limpiadas(bloques, Inicio(f), Tam(f)) \in Memorias
  BY TipoDe, LimpiadasTipo
<1>2. Legible(bloques, archivos[f]) \in Seq(Nombres)
  BY TipoDe, LegibleTipo
<1> QED
  BY <1>1, <1>2, EscritoTipo DEF Mudado

LEMMA TruncaYMudaFS ==
  ASSUME InvarianteFS, descuidos = {}, NEW f \in Nombres, NEW n \in Nat,
         Existe(f), dialfs = "vivo", TruncaYMuda(f, n), logrado' \in BOOLEAN
  PROVE  InvarianteFS'
<1> DEFINE b == Lugar(f, n).bloque
           m == Metadata(b, n)
           O == Usados(archivos, Hay(archivos) \ {f})
<1>1. TipoFS /\ Exacto(archivos, bitmap)
  BY DEF InvarianteFS
<1>2. f \in Hay(archivos) /\ liberar_espacio_bitmap(f) = O
  BY LiberarEs
<1>3. archivos \in TablasDe /\ bloques \in Memorias
  BY <1>1, TipoDe
<1>4. /\ b \in Bits /\ b \in Nat
      /\ Rango(b, Techo(n)) \subseteq Bits \ O
      /\ Lugar(f, n).ultima \in 0 .. tam_bitmap
  BY <1>2, LugarEs DEF TruncaYMuda
<1>5. n # 0 /\ Ocupa(n) = Techo(n)
  BY CreceEs DEF TruncaYMuda
<1>6. /\ archivos' = [archivos EXCEPT ![f] = m]
      /\ bitmap' = O \cup Rango(b, Techo(n))
      /\ bloques' = IF b = Inicio(f) THEN bloques ELSE Mudado(f, b)
      /\ ultima_posicion' = Lugar(f, n).ultima
      /\ dialfs' = "vivo" /\ descuidos' = {}
  BY <1>2 DEF TruncaYMuda, Truncado
<1>7. m \in Metadatos /\ m.BLOQUE_INICIAL = b /\ m.TAMANIO_ARCHIVO = n
  BY <1>4 DEF Metadata, Metadatos
<1>8. Tramo(m) = Rango(b, Techo(n))
  BY <1>5, <1>7 DEF Tramo
<1>9. bloques' \in Memorias
  BY <1>1, <1>2, <1>3, <1>4, <1>6, MudadoTipo
<1> HIDE DEF b, m
<1>10. archivos' \in TablasDe /\ Exacto(archivos', bitmap')
  BY <1>1, <1>3, <1>4, <1>6, <1>7, <1>8, CambiaExacto
<1> QED
  BY <1>4, <1>6, <1>9, <1>10, ExactoLuego

\* When the blocks that are free are enough the compaction places every file,
\* and leaves room for the one that grows behind them.
LEMMA CompactaEs ==
  ASSUME InvarianteFS, descuidos = {}, NEW f \in Nombres, NEW n \in Nat, Existe(f),
         Crece(f, n), comprobar_espacio_libre(liberar_espacio_bitmap(f), Techo(n)),
         NEW orden \in Ordenes(Existentes)
  PROVE  LET fin == Compactado(f, orden)
             b == buscar_primer_bloque_libre(fin.bits)
             S == Hay(archivos) \ {f}
         IN  /\ ~ fin.falla
             /\ fin.arch \in TablasDe
             /\ \A g \in Nombres \ S : fin.arch[g] = archivos[g]
             /\ \A g \in S : /\ fin.arch[g].BLOQUE_INICIAL \in Bits
                             /\ fin.arch[g].TAMANIO_ARCHIVO = archivos[g].TAMANIO_ARCHIVO
                             /\ fin.arch[g] # SinArchivo
             /\ fin.cs \in Memorias
             /\ b \in Bits /\ b \in Nat
             /\ fin.bits \subseteq Bits
             /\ Rango(b, Techo(n)) \subseteq Bits \ fin.bits
             /\ (\A g \in S : Tam(g) # 0) =>
                   /\ fin.bits = Usados(fin.arch, S)
                   /\ \A g, i \in S : g # i => Tramo(fin.arch[g]) \cap Tramo(fin.arch[i]) = {}
<1> DEFINE O == liberar_espacio_bitmap(f)
           S == Hay(archivos) \ {f}
           fin == Compactado(f, orden)
           b == buscar_primer_bloque_libre(fin.bits)
<1>1. TipoFS /\ Exacto(archivos, bitmap)
  BY DEF InvarianteFS
<1>2. archivos \in TablasDe /\ bloques \in Memorias
  BY <1>1, TipoDe
<1>3. /\ f \in Hay(archivos) /\ O = Usados(archivos, S)
      /\ Cardinality(O) \in Nat
      /\ Cardinality(Libres(O)) = tam_bitmap - Cardinality(O)
  BY LiberarEs
<1>4. Techo(n) \in Nat \ {0}
  BY CreceEs
<1>5. Cardinality(O) + Techo(n) <= tam_bitmap
  BY <1>3, <1>4, TamBitmap DEF comprobar_espacio_libre
<1>6. PICK N : EsLista(orden, N) /\ \A i : Puestos(i, orden, N) = Hay(archivos) \ {i}
  BY <1>2, OrdenEs
<1>7. N \in Nat /\ DOMAIN orden = 1 .. N /\ N \in 0 .. N
  BY <1>6 DEF EsLista
<1>8. fin = Hecho(f, orden, N) /\ Puestos(f, orden, N) = S
  BY <1>6, <1>7, HechoPaso
<1>9. Cardinality(Usados(archivos, S)) < tam_bitmap
  BY <1>3, <1>4, <1>5, TamBitmap
<1>10. /\ Colocado(f, orden, N)
       /\ (\A g \in S : Tam(g) # 0) => SinHuecos(f, orden, N)
  BY <1>1, <1>2, <1>3, <1>6, <1>7, <1>9, ColocadoSiempre
<1> HIDE DEF O, fin, S
<1>11. PICK m \in Nat : fin.bits = 0 .. m - 1 /\ m <= Cardinality(O)
  BY <1>3, <1>8, <1>10 DEF Colocado
<1>12. /\ ~ fin.falla
       /\ fin.arch \in TablasDe
       /\ \A g \in Nombres \ S : fin.arch[g] = archivos[g]
       /\ \A g \in S : /\ fin.arch[g].BLOQUE_INICIAL \in Bits
                       /\ fin.arch[g].TAMANIO_ARCHIVO = archivos[g].TAMANIO_ARCHIVO
                       /\ fin.arch[g] # SinArchivo
       /\ fin.cs \in Memorias
  BY <1>8, <1>10 DEF Colocado
<1>13. m + Techo(n) <= tam_bitmap /\ m < tam_bitmap
  BY <1>3, <1>4, <1>5, <1>11, TamBitmap
<1>14. b = m
  <2>1. m \in Libres(fin.bits)
    BY <1>11, <1>13, TamBitmap DEF Libres, Bits
  <2>2. \A j \in Libres(fin.bits) : j >= m
    BY <1>11, <1>13, TamBitmap DEF Libres, Bits
  <2>3. b \in Libres(fin.bits) /\ b \in Nat /\ b <= m
    BY <2>1, PrimeroEs
  <2> QED
    BY <2>2, <2>3, <1>11
<1> HIDE DEF b
<1>15. /\ b \in Bits /\ b \in Nat
       /\ fin.bits \subseteq Bits
       /\ Rango(b, Techo(n)) \subseteq Bits \ fin.bits
  BY <1>4, <1>11, <1>13, <1>14, TamBitmap DEF Bits, Rango
<1>16. (\A g \in S : Tam(g) # 0) =>
          /\ fin.bits = Usados(fin.arch, S)
          /\ \A g, i \in S : g # i => Tramo(fin.arch[g]) \cap Tramo(fin.arch[i]) = {}
  BY <1>8, <1>10 DEF SinHuecos
<1> QED
  BY <1>12, <1>15, <1>16 DEF b, fin, S

LEMMA TruncaYCompactaFS ==
  ASSUME InvarianteFS, descuidos = {}, NEW f \in Nombres, NEW n \in Nat,
         Existe(f), dialfs = "vivo", TruncaYCompacta(f, n), logrado' \in BOOLEAN
  PROVE  InvarianteFS'
<1>1. TipoFS /\ Exacto(archivos, bitmap)
  BY DEF InvarianteFS
<1>2. /\ archivos \in TablasDe /\ bloques \in Memorias
      /\ Existentes = Hay(archivos) /\ f \in Hay(archivos)
      /\ archivos[f] \in Metadatos
      /\ \A g \in Hay(archivos) : archivos[g] \in Metadatos
                                  /\ Tam(g) = archivos[g].TAMANIO_ARCHIVO
  BY <1>1, TipoDe, LiberarEs
<1>3. PICK orden \in Ordenes(Existentes) :
        LET fin == Compactado(f, orden)
            b == buscar_primer_bloque_libre(fin.bits)
        IN  IF fin.falla
            THEN /\ bitmap' = fin.bits
                 /\ archivos' = fin.arch
                 /\ dialfs' = "colgado"
                 /\ UNCHANGED bloques
            ELSE /\ bitmap' = fin.bits \cup Rango(b, Techo(n))
                 /\ archivos' = [fin.arch EXCEPT ![f] = Metadata(b, n)]
                 /\ bloques' = Escrito(fin.cs, b, 0, Legible(bloques, archivos[f]))
                 /\ UNCHANGED dialfs
  BY DEF TruncaYCompacta
<1> DEFINE fin == Compactado(f, orden)
           b == buscar_primer_bloque_libre(fin.bits)
           S == Hay(archivos) \ {f}
           m == Metadata(b, n)
           sin == [fin.arch EXCEPT ![f] = SinArchivo]
<1>4. /\ ~ fin.falla
      /\ fin.arch \in TablasDe
      /\ \A g \in Nombres \ S : fin.arch[g] = archivos[g]
      /\ \A g \in S : /\ fin.arch[g].BLOQUE_INICIAL \in Bits
                      /\ fin.arch[g].TAMANIO_ARCHIVO = archivos[g].TAMANIO_ARCHIVO
                      /\ fin.arch[g] # SinArchivo
      /\ fin.cs \in Memorias
      /\ b \in Bits /\ b \in Nat
      /\ fin.bits \subseteq Bits
      /\ Rango(b, Techo(n)) \subseteq Bits \ fin.bits
      /\ (\A g \in S : Tam(g) # 0) =>
            /\ fin.bits = Usados(fin.arch, S)
            /\ \A g, i \in S : g # i => Tramo(fin.arch[g]) \cap Tramo(fin.arch[i]) = {}
  BY CompactaEs DEF TruncaYCompacta
<1> HIDE DEF fin, b
<1>5. /\ bitmap' = fin.bits \cup Rango(b, Techo(n))
      /\ archivos' = [fin.arch EXCEPT ![f] = m]
      /\ bloques' = Escrito(fin.cs, b, 0, Legible(bloques, archivos[f]))
      /\ dialfs' = "vivo"
  BY <1>3, <1>4 DEF fin, b
<1>6. ultima_posicion' \in 0 .. tam_bitmap
  BY LugarEs DEF TruncaYCompacta
<1>7. bloques' \in Memorias
  <2>1. Legible(bloques, archivos[f]) \in Seq(Nombres)
    BY <1>2, LegibleTipo
  <2> QED
    BY <1>4, <1>5, <2>1, EscritoTipo
<1>8. m \in Metadatos /\ m.BLOQUE_INICIAL = b /\ m.TAMANIO_ARCHIVO = n
  BY <1>4 DEF Metadata, Metadatos
<1>9. n # 0 /\ Ocupa(n) = Techo(n)
  BY CreceEs DEF TruncaYCompacta
<1>10. Tramo(m) = Rango(b, Techo(n))
  BY <1>8, <1>9 DEF Tramo
<1> HIDE DEF m
<1>11. CASE \E g \in S : Tam(g) = 0
  <2>1. descuidos' = {"compacta_vacio"}
    BY <1>2, <1>11 DEF TruncaYCompacta
  <2>2. descuidos' \subseteq Causas /\ descuidos' # {}
    BY <2>1 DEF Causas
  <2>3. bitmap' \subseteq Bits
    BY <1>4, <1>5
  <2>4. /\ archivos' \in TablasDe /\ archivos'[f] = m
        /\ \A g \in Nombres : g # f => archivos'[g] = fin.arch[g]
    BY <1>4, <1>5, <1>8 DEF TablasDe
  <2>5. ASSUME NEW g \in Hay(archivos')
        PROVE  archivos'[g].BLOQUE_INICIAL \in Bits
    <3>1. CASE g = f
      BY <1>4, <1>8, <2>4, <3>1
    <3>2. CASE g # f
      <4>1. g \in Nombres /\ archivos'[g] = fin.arch[g] /\ fin.arch[g] # SinArchivo
        BY <2>4, <2>5, <3>2 DEF Hay
      <4>2. g \in S
        <5>1. SUFFICES ASSUME g \notin S
                       PROVE  FALSE
          OBVIOUS
        <5>2. fin.arch[g] = archivos[g]
          BY <1>4, <4>1, <5>1
        <5> QED
          BY <3>2, <4>1, <5>1, <5>2 DEF Hay
      <4> QED
        BY <1>4, <4>1, <4>2
    <3> QED
      BY <3>1, <3>2
  <2> QED
    BY <1>5, <1>6, <1>7, <2>2, <2>3, <2>4, <2>5, MezcladoLuego
<1>12. CASE \A g \in S : Tam(g) # 0
  <2>1. descuidos' = {}
    BY <1>2, <1>12 DEF TruncaYCompacta
  <2>2. /\ sin \in TablasDe /\ sin[f] = SinArchivo
        /\ \A g \in Nombres : g # f => sin[g] = fin.arch[g]
    BY <1>4 DEF TablasDe
  <2>3. Hay(sin) = S
    <3>1. ASSUME NEW g \in Nombres, g # f
          PROVE  sin[g] # SinArchivo <=> g \in S
      <4>1. sin[g] = fin.arch[g]
        BY <2>2, <3>1
      <4>2. CASE g \in S
        BY <1>4, <4>1, <4>2
      <4>3. CASE g \notin S
        <5>1. fin.arch[g] = archivos[g]
          BY <1>4, <4>3
        <5>2. archivos[g] = SinArchivo
          BY <3>1, <4>3 DEF Hay
        <5> QED
          BY <4>1, <4>3, <5>1, <5>2
      <4> QED
        BY <4>2, <4>3
    <3>2. S \subseteq Nombres \ {f}
      BY DEF Hay
    <3> HIDE DEF sin, S
    <3> QED
      BY <2>2, <3>1, <3>2 DEF Hay
  <2>4. \A g \in S : sin[g] = fin.arch[g]
    BY <2>2 DEF Hay
  <2>5. fin.bits = Usados(sin, S)
    <3>1. fin.bits = Usados(fin.arch, S)
      BY <1>4, <1>12
    <3> HIDE DEF sin, S
    <3> QED
      BY <2>4, <3>1 DEF Usados
  <2>6. Exacto(sin, fin.bits)
    <3>1. \A g, i \in S : g # i => Tramo(fin.arch[g]) \cap Tramo(fin.arch[i]) = {}
      BY <1>4, <1>12
    <3> HIDE DEF sin, S
    <3> QED
      BY <1>4, <2>3, <2>4, <2>5, <3>1 DEF Exacto
  <2>7. Hay(sin) \ {f} = S
    BY <2>3
  <2>8. Tramo(m) \subseteq Bits \ Usados(sin, Hay(sin) \ {f})
    BY <1>4, <1>10, <2>5, <2>7
  <2>9. /\ [sin EXCEPT ![f] = m] \in TablasDe
        /\ Exacto([sin EXCEPT ![f] = m], Usados(sin, Hay(sin) \ {f}) \cup Tramo(m))
    <3> HIDE DEF sin
    <3> QED
      BY <1>8, <2>2, <2>6, <2>8, CambiaExacto
  <2>10. [sin EXCEPT ![f] = m] = [fin.arch EXCEPT ![f] = m]
    BY <1>4 DEF TablasDe
  <2>11. archivos' \in TablasDe /\ Exacto(archivos', bitmap')
    BY <1>5, <1>10, <2>5, <2>7, <2>9, <2>10
  <2> QED
    BY <1>5, <1>6, <1>7, <2>1, <2>11, ExactoLuego
<1> QED
  BY <1>11, <1>12

LEMMA TruncaFS ==
  ASSUME InvarianteFS, descuidos = {}, NEW f \in Nombres, NEW n \in Tamanios,
         TruncarArchivo(f, n)
  PROVE  InvarianteFS'
<1>1. n \in Nat
  BY ParametrosFS
<1>2. Existe(f) /\ dialfs = "vivo" /\ logrado' \in BOOLEAN
  BY DEF TruncarArchivo
<1>3. CASE TruncaIgual(f, n)
  BY <1>1, <1>2, <1>3, TruncaIgualFS
<1>4. CASE TruncaEnElLugar(f, n)
  BY <1>1, <1>2, <1>4, TruncaEnElLugarFS
<1>5. CASE TruncaSinEspacio(f, n)
  BY <1>1, <1>2, <1>5, TruncaSinEspacioFS
<1>6. CASE TruncaYMuda(f, n)
  BY <1>1, <1>2, <1>6, TruncaYMudaFS
<1>7. CASE TruncaYCompacta(f, n)
  BY <1>1, <1>2, <1>7, TruncaYCompactaFS
<1> QED
  BY <1>3, <1>4, <1>5, <1>6, <1>7 DEF TruncarArchivo

\* What a death in the middle of a truncation may leave.
LEMMA AvancesEs ==
  ASSUME InvarianteFS, descuidos = {}, NEW f \in Nombres, NEW n \in Nat, Existe(f),
         Crece(f, n) => Lugar(f, n).bloque >= 0,
         NEW avance \in Avances(f, n)
  PROVE  /\ liberar_espacio_bitmap(f) \subseteq avance[1]
         /\ avance[1] \subseteq Bits
         /\ avance[2] \in Memorias
<1> DEFINE libre == liberar_espacio_bitmap(f)
           b == IF Crece(f, n) THEN Lugar(f, n).bloque ELSE Inicio(f)
           reservado == libre \cup Rango(b, Techo(n))
           resto == Limpiadas(bloques, b + Techo(n),
                              (Ocupa(Tam(f)) - Techo(n)) * tamanio_bloques)
           limpio == Limpiadas(bloques, Inicio(f), Tam(f))
           mudado == Mudado(f, b)
<1>1. TipoFS /\ Exacto(archivos, bitmap)
  BY DEF InvarianteFS
<1>2. f \in Hay(archivos) /\ libre \subseteq Bits
  BY LiberarEs
<1>3. bloques \in Memorias /\ Inicio(f) \in Nat /\ Tam(f) \in Nat
  BY <1>1, <1>2, TipoDe
<1>4. BloquesDe(f) \subseteq Bits
  BY <1>1, <1>2, TipoDe DEF Exacto, Usados
<1>5. b \in Int /\ Rango(b, Techo(n)) \subseteq Bits
  <2>1. CASE Crece(f, n)
    BY <2>1, LugarEs
  <2>2. CASE ~ Crece(f, n)
    BY <1>3, <1>4, <2>2, EnElLugarEs
  <2> QED
    BY <2>1, <2>2
<1>6. limpio \in Memorias /\ resto \in Memorias
  BY <1>3, LimpiadasTipo
<1> HIDE DEF limpio, resto
<1>7. mudado \in Memorias
  BY <1>1, <1>2, <1>5, MudadoTipo
<1>8. avance \in {<< libre, bloques >>, << libre, limpio >>, << libre, mudado >>,
                  << reservado, mudado >>, << reservado, bloques >>, << reservado, resto >>}
  BY DEF Avances, limpio, resto
<1>9. avance[1] \in {libre, reservado} /\ avance[2] \in {bloques, limpio, mudado, resto}
  <2> HIDE DEF libre, reservado, mudado
  <2> QED
    BY <1>8
<1> QED
  BY <1>2, <1>3, <1>5, <1>6, <1>7, <1>9

LEMMA CaeTruncandoFS ==
  ASSUME InvarianteFS, descuidos = {}, NEW f \in Nombres, NEW n \in Tamanios,
         CaeTruncando(f, n)
  PROVE  InvarianteFS'
<1>1. n \in Nat
  BY ParametrosFS
<1>2. TipoFS
  BY DEF InvarianteFS
<1>3. /\ archivos \in TablasDe
      /\ \A g \in Hay(archivos) : archivos[g].BLOQUE_INICIAL \in Bits
  BY <1>2, TipoDe
<1>4. PICK avance \in Avances(f, n) : bitmap' = avance[1] /\ bloques' = avance[2]
  BY DEF CaeTruncando
<1>5. bitmap' \subseteq Bits /\ bloques' \in Memorias
  BY <1>1, <1>4, AvancesEs DEF CaeTruncando
<1>6. /\ dialfs' = "muerto" /\ descuidos' = {"caida"} /\ ultima_posicion' = 0
      /\ logrado' = TRUE /\ archivos' = archivos
  BY DEF CaeTruncando
<1>7. ultima_posicion' \in 0 .. tam_bitmap /\ descuidos' \subseteq Causas
  BY <1>6, TamBitmap DEF Causas
<1> QED
  BY <1>3, <1>5, <1>6, <1>7, MezcladoLuego

LEMMA ReiniciaFS ==
  ASSUME InvarianteFS, descuidos = {}, Reinicia
  PROVE  InvarianteFS'
<1>1. TipoFS /\ Exacto(archivos, bitmap)
  BY DEF InvarianteFS
<1>2. archivos \in TablasDe /\ bloques \in Memorias
  BY <1>1, TipoDe
<1>3. /\ dialfs' = "vivo" /\ ultima_posicion' = 0 /\ logrado' = TRUE
      /\ UNCHANGED << archivos, bitmap, bloques, descuidos >>
  BY DEF Reinicia
<1>4. 0 \in 0 .. tam_bitmap
  BY TamBitmap
<1> QED
  BY <1>1, <1>2, <1>3, <1>4, ExactoLuego

LEMMA InicialFS == InitFS => InvarianteFS
<1> SUFFICES ASSUME InitFS
             PROVE  InvarianteFS
  OBVIOUS
<1>1. archivos \in TablasDe /\ Hay(archivos) = {}
  BY DEF InitFS, TablasDe, Hay
<1>2. Existentes = {}
  BY <1>1 DEF Existentes, Existe, Hay
<1>3. 0 \in 0 .. tam_bitmap
  BY TamBitmap
<1>4. TipoFS
  BY <1>1, <1>2, <1>3 DEF InitFS, TipoFS, TypeOKFS, Causas
<1>5. Exacto(archivos, bitmap)
  BY <1>1 DEF InitFS, Exacto, Usados
<1> QED
  BY <1>4, <1>5 DEF InvarianteFS, InitFS

LEMMA PasoFS ==
  ASSUME InvarianteFS, [NextFS]_fsVars
  PROVE  InvarianteFS'
<1>1. CASE UNCHANGED fsVars
  BY <1>1 DEF fsVars, InvarianteFS, TipoFS, TypeOKFS, Existentes, Existe, Inicio, Tam
<1>2. ASSUME NEW f \in Nombres, descuidos = {}, CrearArchivo(f)
      PROVE  InvarianteFS'
  BY <1>2, CreaFS
<1>3. ASSUME NEW f \in Nombres, descuidos = {}, EliminarArchivo(f)
      PROVE  InvarianteFS'
  BY <1>3, EliminaFS
<1>4. ASSUME NEW f \in Nombres, NEW p \in Punteros, NEW l \in Largos, descuidos = {},
             EscribirArchivo(f, p, l)
      PROVE  InvarianteFS'
  BY <1>4, EscribeFS
<1>5. ASSUME NEW f \in Nombres, NEW n \in Tamanios, descuidos = {}, TruncarArchivo(f, n)
      PROVE  InvarianteFS'
  BY <1>5, TruncaFS
<1>6. ASSUME NEW f \in Nombres, NEW n \in Tamanios, descuidos = {}, CaeTruncando(f, n)
      PROVE  InvarianteFS'
  BY <1>6, CaeTruncandoFS
<1>7. CASE descuidos = {} /\ Reinicia
  BY <1>7, ReiniciaFS
<1>8. CASE Mezclados
  BY <1>1, <1>8 DEF Mezclados
<1> QED
  BY <1>1, <1>2, <1>3, <1>4, <1>5, <1>6, <1>7, <1>8 DEF NextFS

\* The inductive invariant: types, and while nothing was mixed up the bits are
\* exactly the blocks of the files, which do not overlap.  It holds for any
\* number of files and of blocks, and for any sizes that are asked for.
THEOREM InvarianteFSSiempre == SpecFS => []InvarianteFS
<1>1. InitFS => InvarianteFS
  BY InicialFS
<1>2. InvarianteFS /\ [NextFS]_fsVars => InvarianteFS'
  BY PasoFS
<1> QED
  BY <1>1, <1>2, PTL DEF SpecFS

\* The state of the file system keeps its types: the metadata name blocks that
\* have a bit, the searches end on a position of the bitmap.
THEOREM TypeOKFSSiempre == SpecFS => []TypeOKFS
<1>1. InvarianteFS => TypeOKFS
  BY DEF InvarianteFS, TipoFS
<1> QED
  BY <1>1, InvarianteFSSiempre, PTL

\* No block is lost or given to two files, but for the known ways.
THEOREM BloquesExactosSiempre == SpecFS => []BloquesExactos
<1>1. ASSUME InvarianteFS
      PROVE  BloquesExactos
  <2> SUFFICES ASSUME descuidos = {}, NEW b \in Bits
               PROVE  Cardinality({ f \in Existentes : b \in BloquesDe(f) })
                         = Cardinality({b} \cap bitmap)
    BY DEF BloquesExactos
  <2>1. TipoFS /\ Exacto(archivos, bitmap)
    BY <1>1 DEF InvarianteFS
  <2> DEFINE D == { f \in Existentes : b \in BloquesDe(f) }
  <2>2. D = { f \in Hay(archivos) : b \in Tramo(archivos[f]) }
    BY <2>1, TipoDe
  <2>3. b \in bitmap <=> D # {}
    BY <2>1, <2>2 DEF Exacto, Usados
  <2>4. \A f, g \in D : f = g
    BY <2>1, <2>2 DEF Exacto
  <2> HIDE DEF D
  <2>5. CASE b \in bitmap
    <3>1. PICK f : f \in D
      BY <2>3, <2>5
    <3>2. D = {f} /\ {b} \cap bitmap = {b}
      BY <2>4, <2>5, <3>1
    <3> QED
      BY <3>2, FS_Singleton DEF D
  <2>6. CASE b \notin bitmap
    <3>1. D = {} /\ {b} \cap bitmap = {}
      BY <2>3, <2>6
    <3> QED
      BY <3>1 DEF D
  <2> QED
    BY <2>5, <2>6
<1> QED
  BY <1>1, InvarianteFSSiempre, PTL

-----------------------------------------------------------------------------
(* A truncation that fails for lack of room.                                 *)

\* What comprobar_espacio_libre counts is the free blocks and those of the file.
LEMMA LibresMasPropios ==
  ASSUME InvarianteFS, descuidos = {}, NEW f \in Nombres, Existe(f)
  PROVE  /\ Cardinality(Libres(liberar_espacio_bitmap(f)))
               = Cardinality(Bits \ bitmap) + Ocupa(Tam(f))
         /\ Cardinality(Bits \ bitmap) \in Nat
         /\ Ocupa(Tam(f)) \in Nat
<1>1. TipoFS /\ Exacto(archivos, bitmap)
  BY DEF InvarianteFS
<1>2. f \in Hay(archivos) /\ liberar_espacio_bitmap(f) = bitmap \ BloquesDe(f)
  BY LiberarEs
<1>3. /\ archivos[f] \in Metadatos /\ BloquesDe(f) = Tramo(archivos[f])
      /\ Tam(f) = archivos[f].TAMANIO_ARCHIVO
  BY <1>1, <1>2, TipoDe
<1> DEFINE B == BloquesDe(f)
           L == Bits \ bitmap
<1>4. B \subseteq bitmap /\ bitmap \subseteq Bits
  BY <1>1, <1>2, <1>3 DEF Exacto, Usados
<1>5. IsFiniteSet(B) /\ Cardinality(B) = Ocupa(Tam(f)) /\ Ocupa(Tam(f)) \in Nat
  BY <1>3, TramoEs
<1>6. IsFiniteSet(L) /\ Cardinality(L) \in Nat
  <2>1. L \in SUBSET Bits
    OBVIOUS
  <2>2. IsFiniteSet(L)
    BY <2>1, BitsFinito, FS_Subset
  <2> QED
    BY <2>2, FS_CardinalityType
<1>7. Libres(liberar_espacio_bitmap(f)) = L \cup B /\ L \cap B = {}
  BY <1>2, <1>4 DEF Libres
<1> HIDE DEF B, L
<1>8. Cardinality(L \cup B) = Cardinality(L) + Cardinality(B) - Cardinality(L \cap B)
  BY <1>5, <1>6, FS_Union
<1>9. Cardinality(L \cap B) = 0
  BY <1>7, FS_EmptySet
<1>10. Cardinality(L \cup B) = Cardinality(L) + Ocupa(Tam(f))
  BY <1>5, <1>6, <1>8, <1>9
<1> QED
  BY <1>5, <1>6, <1>7, <1>10 DEF L

\* A truncation fails, and the interface hangs (dialfs.c:454), only when the
\* free blocks and those of the file are too few: the compaction always finds
\* the room that the search misses.
THEOREM TruncaSiHayLugarSiempre == SpecFS => TruncaSiHayLugar
<1> DEFINE Falla == descuidos' = {} /\ (dialfs' = "colgado" \/ ~ logrado') =>
                       \A f \in Existentes, n \in Tamanios :
                          TruncarArchivo(f, n) =>
                             Cardinality(Bits \ bitmap) + Ocupa(Tam(f)) < Techo(n)
<1>1. ASSUME InvarianteFS, InvarianteFS', [NextFS]_fsVars
      PROVE  [Falla]_fsVars
  <2> SUFFICES ASSUME descuidos' = {}, dialfs' = "colgado" \/ ~ logrado',
                      NEW f \in Existentes, NEW n \in Tamanios, TruncarArchivo(f, n)
               PROVE  Cardinality(Bits \ bitmap) + Ocupa(Tam(f)) < Techo(n)
    OBVIOUS
  <2>1. f \in Nombres /\ Existe(f) /\ n \in Nat
    BY ParametrosFS DEF Existentes
  <2>2. descuidos = {}
    BY DEF TruncarArchivo, TruncaIgual, TruncaEnElLugar, TruncaSinEspacio,
           TruncaYMuda, TruncaYCompacta
  <2>3. dialfs' # "colgado"
    BY <1>1 DEF InvarianteFS
  <2>4. ~ comprobar_espacio_libre(liberar_espacio_bitmap(f), Techo(n))
    BY <2>3 DEF TruncarArchivo
  <2>5. Techo(n) \in Nat
    BY <2>1, TechoEs
  <2> QED
    BY <1>1, <2>1, <2>2, <2>4, <2>5, LibresMasPropios DEF comprobar_espacio_libre
<1> QED
  BY <1>1, InvarianteFSSiempre, PTL DEF SpecFS, TruncaSiHayLugar

-----------------------------------------------------------------------------
(* The texts.  A bitmap has whole bytes: were BLOCK_COUNT not a multiple of   *)
(* eight a file could be given blocks that are not there, and what is written *)
(* to them would go to the first bytes.                                      *)

\* The configurations of the repository have 16 and 32 blocks.
BytesJustos == cantidad_bloques % BitsPorByte = 0

LEMMA BytesEnteros ==
  ASSUME BytesJustos
  PROVE  tam_bitmap = cantidad_bloques
<1>1. cantidad_bloques \in Nat \ {0} /\ BitsPorByte \in Nat \ {0}
  BY ParametrosFS
<1> DEFINE k == cantidad_bloques \div BitsPorByte
           q == (cantidad_bloques + BitsPorByte - 1) \div BitsPorByte
<1>2. k \in Nat /\ cantidad_bloques = k * BitsPorByte
  BY <1>1 DEF BytesJustos
<1>3. /\ q \in Nat
      /\ q * BitsPorByte <= cantidad_bloques + BitsPorByte - 1
      /\ cantidad_bloques + BitsPorByte - 1 < q * BitsPorByte + BitsPorByte
  BY <1>1
<1>4. tam_bitmap = q * BitsPorByte
  BY DEF tam_bitmap
<1> HIDE DEF k, q
<1>5. q * BitsPorByte < (k + 1) * BitsPorByte /\ k * BitsPorByte < (q + 1) * BitsPorByte
  BY <1>1, <1>2, <1>3
<1>6. q < k + 1 /\ k < q + 1
  BY <1>1, <1>2, <1>3, <1>5
<1>7. q = k
  BY <1>2, <1>3, <1>6
<1> QED
  BY <1>2, <1>4, <1>7

\* The bytes of n blocks from b on.
Bytes(b, n) == Rango(b * tamanio_bloques, n * tamanio_bloques)

LEMMA BytesEs ==
  ASSUME BytesJustos,
         NEW b \in Nat, NEW n \in Nat, Rango(b, n) \subseteq Bits
  PROVE  /\ n > 0 => InicioDe(b) = b * tamanio_bloques
         /\ b * tamanio_bloques \in Nat
         /\ n * tamanio_bloques \in Nat
         /\ Bytes(b, n) \subseteq Celdas
<1>1. /\ tamanio_bloques \in Nat \ {0} /\ cantidad_bloques \in Nat \ {0}
      /\ tam_bitmap = cantidad_bloques
  BY ParametrosFS, BytesEnteros
<1>2. b * tamanio_bloques \in Nat /\ n * tamanio_bloques \in Nat
  BY <1>1
<1>3. CASE n = 0
  <2>1. n * tamanio_bloques = 0
    BY <1>1, <1>3
  <2>2. Bytes(b, n) = {}
    BY <1>2, <2>1 DEF Bytes, Rango
  <2> QED
    BY <1>2, <1>3, <2>2
<1>4. CASE n > 0
  <2>1. b \in Rango(b, n) /\ b + n - 1 \in Rango(b, n)
    BY <1>4 DEF Rango
  <2>2. b \in 0 .. cantidad_bloques - 1 /\ b + n - 1 \in 0 .. cantidad_bloques - 1
    BY <1>1, <2>1 DEF Bits
  <2>3. (b + n) * tamanio_bloques <= cantidad_bloques * tamanio_bloques
    BY <1>1, <2>2
  <2>4. (b + n) * tamanio_bloques = b * tamanio_bloques + n * tamanio_bloques
    BY <1>1
  <2>5. cantidad_bloques * tamanio_bloques \in Nat
    BY <1>1
  <2>6. Bytes(b, n) \subseteq Celdas
    BY <1>2, <2>3, <2>4, <2>5 DEF Bytes, Rango, Celdas
  <2> QED
    BY <1>2, <2>2, <2>6 DEF InicioDe
<1> QED
  BY <1>3, <1>4

\* Blocks that are not shared have no byte in common.
LEMMA BytesAparte ==
  ASSUME NEW b \in Nat, NEW n \in Nat, NEW c \in Nat, NEW k \in Nat,
         Rango(b, n) \cap Rango(c, k) = {}
  PROVE  Bytes(b, n) \cap Bytes(c, k) = {}
<1>1. tamanio_bloques \in Nat \ {0}
  BY ParametrosFS
<1> DEFINE t == tamanio_bloques
<1> HIDE DEF t
<1>2. t \in Nat \ {0}
  BY <1>1 DEF t
<1>3. b * t \in Nat /\ n * t \in Nat /\ c * t \in Nat /\ k * t \in Nat
  BY <1>2
<1>4. CASE n = 0 \/ k = 0
  <2>1. n * t = 0 \/ k * t = 0
    BY <1>2, <1>4
  <2> QED
    BY <1>3, <2>1 DEF Bytes, Rango, t
<1>5. CASE n > 0 /\ k > 0
  <2>1. b + n <= c \/ c + k <= b
    <3>1. b \notin Rango(c, k) \/ c \notin Rango(b, n) \/ b # c
      BY <1>5 DEF Rango
    <3>2. b <= c => c \notin Rango(b, n)
      BY <1>5 DEF Rango
    <3>3. c <= b => b \notin Rango(c, k)
      BY <1>5 DEF Rango
    <3> QED
      BY <1>5, <3>2, <3>3 DEF Rango
  <2>2. (b + n) * t <= c * t \/ (c + k) * t <= b * t
    BY <1>2, <2>1
  <2>3. (b + n) * t = b * t + n * t /\ (c + k) * t = c * t + k * t
    BY <1>2
  <2> QED
    BY <1>3, <2>2, <2>3 DEF Bytes, Rango, t
<1> QED
  BY <1>4, <1>5

\* The bytes of the text of a file are in its blocks.
LEMMA TextoEnBytes ==
  ASSUME BytesJustos,
         NEW m \in Metadatos, Tramo(m) \subseteq Bits
  PROVE  LET base == m.BLOQUE_INICIAL * tamanio_bloques
             k == Ocupa(m.TAMANIO_ARCHIVO)
         IN  /\ InicioDe(m.BLOQUE_INICIAL) = base
             /\ base \in Nat /\ k \in Nat \ {0}
             /\ m.TAMANIO_ARCHIVO <= k * tamanio_bloques
             /\ k * tamanio_bloques \in Nat
             /\ Rango(base, m.TAMANIO_ARCHIVO) \subseteq Bytes(m.BLOQUE_INICIAL, k)
             /\ Bytes(m.BLOQUE_INICIAL, k) \subseteq Celdas
<1> DEFINE b == m.BLOQUE_INICIAL
           n == m.TAMANIO_ARCHIVO
           k == Ocupa(n)
<1>1. b \in Nat /\ n \in Nat
  BY DEF Metadatos
<1>2. k \in Nat \ {0} /\ Techo(n) <= k /\ n <= Techo(n) * tamanio_bloques /\ Techo(n) \in Nat
  BY <1>1, TechoEs
<1>3. Rango(b, k) \subseteq Bits
  BY DEF Tramo
<1> HIDE DEF b, n, k
<1>4. /\ InicioDe(b) = b * tamanio_bloques
      /\ b * tamanio_bloques \in Nat
      /\ k * tamanio_bloques \in Nat
      /\ Bytes(b, k) \subseteq Celdas
  BY <1>1, <1>2, <1>3, BytesEs
<1>5. tamanio_bloques \in Nat \ {0}
  BY ParametrosFS
<1>6. Techo(n) * tamanio_bloques <= k * tamanio_bloques
  BY <1>2, <1>5
<1>7. n <= k * tamanio_bloques
  <2>1. Techo(n) * tamanio_bloques \in Nat
    BY <1>2, <1>5
  <2> QED
    BY <1>1, <1>2, <1>4, <1>6, <2>1
<1>8. Rango(b * tamanio_bloques, n) \subseteq Bytes(b, k)
  BY <1>1, <1>4, <1>7 DEF Bytes, Rango
<1> QED
  BY <1>2, <1>4, <1>7, <1>8 DEF b, n, k

\* What is read of a file depends on its bytes alone.
LEMMA LegibleIgual ==
  ASSUME NEW cs, NEW ds, NEW m \in Metadatos,
         \A c \in Rango(InicioDe(m.BLOQUE_INICIAL), m.TAMANIO_ARCHIVO) \cap Celdas :
             ds[c] = cs[c]
  PROVE  Legible(ds, m) = Legible(cs, m)
<1> DEFINE base == InicioDe(m.BLOQUE_INICIAL)
           tam == m.TAMANIO_ARCHIVO
<1>1. base \in Int /\ tam \in Nat
  BY InicioDeEs DEF Metadatos
<1>2. PICK n \in 0 .. tam : /\ EsLargo(cs, base, tam, n)
                            /\ Legible(cs, m) = [i \in 1 .. n |-> cs[base + i - 1]]
  BY LegibleEs
<1>3. PICK k \in 0 .. tam : /\ EsLargo(ds, base, tam, k)
                            /\ Legible(ds, m) = [i \in 1 .. k |-> ds[base + i - 1]]
  BY LegibleEs
<1>4. \A c \in Rango(base, tam) \cap Celdas : ds[c] = cs[c]
  OBVIOUS
<1> HIDE DEF base, tam
<1>5. ASSUME NEW j \in 0 .. tam
      PROVE  Llena(ds, base, j) <=> Llena(cs, base, j)
  <2>1. \A i \in 0 .. j - 1 : base + i \in Rango(base, tam)
    BY <1>1 DEF Rango
  <2> QED
    BY <1>4, <2>1 DEF Llena
<1>6. EsLargo(cs, base, tam, k)
  <2>1. Llena(cs, base, k)
    BY <1>3, <1>5 DEF EsLargo
  <2>2. ASSUME k # tam
        PROVE  ~ Llena(cs, base, k + 1)
    <3>1. k + 1 \in 0 .. tam
      BY <1>1, <2>2
    <3> QED
      BY <1>3, <1>5, <2>2, <3>1 DEF EsLargo
  <2> QED
    BY <1>3, <2>1, <2>2 DEF EsLargo
<1>7. k = n
  BY <1>1, <1>2, <1>6, LargoUnico
<1>8. ASSUME NEW i \in 1 .. n
      PROVE  ds[base + i - 1] = cs[base + i - 1]
  <2>1. i - 1 \in 0 .. n - 1 /\ base + i - 1 = base + (i - 1)
    BY <1>1
  <2>2. base + i - 1 \in Celdas
    BY <1>2, <2>1 DEF EsLargo, Llena
  <2>3. base + i - 1 \in Rango(base, tam)
    BY <1>1 DEF Rango
  <2> QED
    BY <1>4, <2>2, <2>3
<1> QED
  BY <1>2, <1>3, <1>7, <1>8

LEMMA LimpiadasFuera ==
  ASSUME NEW cs, NEW b, NEW n, NEW c \in Celdas, c \notin Rango(InicioDe(b), n)
  PROVE  Limpiadas(cs, b, n)[c] = cs[c]
BY DEF Limpiadas

LEMMA EscritoFuera ==
  ASSUME NEW cs, NEW b, NEW p, NEW texto, NEW c \in Celdas,
         c \notin Rango(InicioDe(b) + p, Len(texto))
  PROVE  Escrito(cs, b, p, texto)[c] = cs[c]
BY DEF Escrito

LEMMA EscritoDentro ==
  ASSUME NEW cs, NEW b, NEW texto, InicioDe(b) \in Int, Len(texto) \in Nat,
         NEW i \in 1 .. Len(texto), InicioDe(b) + i - 1 \in Celdas
  PROVE  Escrito(cs, b, 0, texto)[InicioDe(b) + i - 1] = texto[i]
<1> DEFINE base == InicioDe(b)
           c == base + i - 1
<1>1. Escrito(cs, b, 0, texto)
        = [x \in Celdas |-> IF x \in Rango(base + 0, Len(texto))
                            THEN texto[x - (base + 0) + 1] ELSE cs[x]]
  BY DEF Escrito
<1>2. base \in Int /\ c \in Celdas /\ i \in Int
  OBVIOUS
<1> HIDE DEF base
<1>3. c \in Rango(base + 0, Len(texto)) /\ c - (base + 0) + 1 = i
  BY <1>2 DEF Rango
<1>4. Escrito(cs, b, 0, texto)[c] = texto[c - (base + 0) + 1]
  BY <1>1, <1>2, <1>3
<1> QED
  BY <1>3, <1>4 DEF base

\* The bytes of the blocks of a file.
Suyos(g) == Bytes(Inicio(g), Ocupa(Tam(g)))

LEMMA SuyosEs ==
  ASSUME BytesJustos, InvarianteFS, descuidos = {},
         NEW g \in Hay(archivos)
  PROVE  /\ InicioDe(Inicio(g)) = Inicio(g) * tamanio_bloques
         /\ Inicio(g) * tamanio_bloques \in Nat
         /\ Inicio(g) \in Nat /\ Tam(g) \in Nat /\ Ocupa(Tam(g)) \in Nat \ {0}
         /\ Ocupa(Tam(g)) * tamanio_bloques \in Nat
         /\ Tam(g) <= Ocupa(Tam(g)) * tamanio_bloques
         /\ Rango(InicioDe(Inicio(g)), Tam(g)) \subseteq Suyos(g)
         /\ Suyos(g) \subseteq Celdas
<1>1. TipoFS /\ Exacto(archivos, bitmap)
  BY DEF InvarianteFS
<1>2. /\ archivos[g] \in Metadatos
      /\ Inicio(g) = archivos[g].BLOQUE_INICIAL /\ Tam(g) = archivos[g].TAMANIO_ARCHIVO
      /\ Inicio(g) \in Nat /\ Tam(g) \in Nat
  BY <1>1, TipoDe
<1>3. Tramo(archivos[g]) \subseteq Bits
  BY <1>1 DEF Exacto, Usados
<1> QED
  BY <1>2, <1>3, TextoEnBytes DEF Suyos

LEMMA SuyosAparte ==
  ASSUME BytesJustos, InvarianteFS, descuidos = {},
         NEW f \in Hay(archivos), NEW g \in Hay(archivos), f # g
  PROVE  Suyos(f) \cap Suyos(g) = {}
<1>1. TipoFS /\ Exacto(archivos, bitmap)
  BY DEF InvarianteFS
<1>2. /\ Tramo(archivos[f]) = Rango(Inicio(f), Ocupa(Tam(f)))
      /\ Tramo(archivos[g]) = Rango(Inicio(g), Ocupa(Tam(g)))
  BY DEF Tramo, Inicio, Tam
<1>3. Rango(Inicio(f), Ocupa(Tam(f))) \cap Rango(Inicio(g), Ocupa(Tam(g))) = {}
  BY <1>1, <1>2 DEF Exacto
<1>4. /\ Inicio(f) \in Nat /\ Ocupa(Tam(f)) \in Nat
      /\ Inicio(g) \in Nat /\ Ocupa(Tam(g)) \in Nat
  BY SuyosEs
<1> QED
  BY <1>3, <1>4, BytesAparte DEF Suyos

\* A file whose bytes are left alone reads as before.
LEMMA LegibleAjeno ==
  ASSUME BytesJustos, InvarianteFS, descuidos = {},
         NEW g \in Hay(archivos), NEW ds, \A c \in Suyos(g) : ds[c] = bloques[c]
  PROVE  Legible(ds, archivos[g]) = Legible(bloques, archivos[g])
<1>1. /\ archivos[g] \in Metadatos
      /\ Inicio(g) = archivos[g].BLOQUE_INICIAL /\ Tam(g) = archivos[g].TAMANIO_ARCHIVO
  BY TipoDe DEF InvarianteFS
<1>2. Rango(InicioDe(Inicio(g)), Tam(g)) \subseteq Suyos(g)
  BY SuyosEs
<1> QED
  BY <1>1, <1>2, LegibleIgual

\* Wiping or moving a file touches none of another.
LEMMA AjenosQuietos ==
  ASSUME BytesJustos, InvarianteFS, descuidos = {},
         NEW f \in Hay(archivos), NEW g \in Hay(archivos), f # g, NEW c \in Suyos(g)
  PROVE  /\ c \in Celdas
         /\ Limpiadas(bloques, Inicio(f), Tam(f))[c] = bloques[c]
         /\ \A b \in Nat, n \in Nat \ {0} :
               Rango(b, n) \subseteq Bits \ liberar_espacio_bitmap(f)
                 /\ Tam(f) <= n * tamanio_bloques
               => Mudado(f, b)[c] = bloques[c]
<1>1. c \in Celdas /\ c \notin Suyos(f)
  BY SuyosEs, SuyosAparte
<1>2. c \notin Rango(InicioDe(Inicio(f)), Tam(f))
  BY <1>1, SuyosEs
<1>3. Limpiadas(bloques, Inicio(f), Tam(f))[c] = bloques[c]
  BY <1>1, <1>2, LimpiadasFuera
<1>4. ASSUME NEW b \in Nat, NEW n \in Nat \ {0},
             Rango(b, n) \subseteq Bits \ liberar_espacio_bitmap(f),
             Tam(f) <= n * tamanio_bloques
      PROVE  Mudado(f, b)[c] = bloques[c]
  <2>1. TipoFS /\ Exacto(archivos, bitmap)
    BY DEF InvarianteFS
  <2>2. liberar_espacio_bitmap(f) = Usados(archivos, Hay(archivos) \ {f})
    BY LiberarEs DEF Hay, Existe
  <2>3. Rango(Inicio(g), Ocupa(Tam(g))) \subseteq liberar_espacio_bitmap(f)
    BY <2>2 DEF Usados, Tramo, Inicio, Tam
  <2>4. Inicio(g) \in Nat /\ Ocupa(Tam(g)) \in Nat
    BY SuyosEs
  <2>5. Bytes(b, n) \cap Suyos(g) = {}
    <3>1. Rango(b, n) \cap Rango(Inicio(g), Ocupa(Tam(g))) = {}
      BY <1>4, <2>3
    <3> QED
      BY <2>4, <3>1, BytesAparte DEF Suyos
  <2>6. /\ InicioDe(b) = b * tamanio_bloques /\ b * tamanio_bloques \in Nat
        /\ n * tamanio_bloques \in Nat
    BY <1>4, BytesEs
  <2> DEFINE t == Legible(bloques, archivos[f])
  <2>7. Len(t) \in Nat /\ Len(t) <= Tam(f) /\ Tam(f) \in Nat
    BY <2>1, TipoDe, LegibleTipo
  <2> HIDE DEF t
  <2>8. Rango(InicioDe(b) + 0, Len(t)) \subseteq Bytes(b, n)
    BY <1>4, <2>6, <2>7 DEF Bytes, Rango
  <2>9. c \notin Rango(InicioDe(b) + 0, Len(t))
    BY <2>5, <2>8
  <2> DEFINE limpio == Limpiadas(bloques, Inicio(f), Tam(f))
  <2>10. Escrito(limpio, b, 0, t)[c] = limpio[c]
    BY <1>1, <2>9, EscritoFuera
  <2> QED
    BY <1>3, <2>10 DEF Mudado, t
<1> QED
  BY <1>1, <1>3, <1>4

\* The blocks of a file from the x-th on.
LEMMA RestoPropio ==
  ASSUME BytesJustos, InvarianteFS, descuidos = {},
         NEW f \in Hay(archivos), NEW x \in Nat, NEW y \in Nat, x + y <= Ocupa(Tam(f)),
         NEW c \in Rango(InicioDe(Inicio(f) + x), y * tamanio_bloques)
  PROVE  c \in Suyos(f) /\ c >= InicioDe(Inicio(f)) + x * tamanio_bloques
<1> DEFINE t == tamanio_bloques
           i == Inicio(f)
           k == Ocupa(Tam(f))
<1>1. /\ i \in Nat /\ k \in Nat \ {0} /\ InicioDe(i) = i * t /\ i * t \in Nat /\ k * t \in Nat
  BY SuyosEs
<1>2. Rango(i, k) \subseteq Bits
  <2>1. TipoFS /\ Exacto(archivos, bitmap)
    BY DEF InvarianteFS
  <2> QED
    BY <2>1 DEF Exacto, Usados, Tramo, Inicio, Tam
<1>3. t \in Nat \ {0}
  BY ParametrosFS
<1>4. Suyos(f) = Rango(i * t, k * t)
  BY DEF Suyos, Bytes
<1>5. c \in Rango(InicioDe(i + x), y * t)
  OBVIOUS
<1>6. x + y <= k
  OBVIOUS
<1> HIDE DEF t, i, k
<1>7. CASE y = 0
  <2>1. y * t = 0 /\ InicioDe(i + x) \in Int
    BY <1>1, <1>3, <1>7, InicioDeEs
  <2> QED
    BY <1>5, <2>1 DEF Rango
<1>8. CASE y > 0
  <2>1. Rango(i + x, y) \subseteq Bits
    BY <1>1, <1>2, <1>6 DEF Rango
  <2>2. InicioDe(i + x) = (i + x) * tamanio_bloques
    BY <1>1, <1>8, <2>1, BytesEs
  <2>3. (i + x) * t = i * t + x * t /\ x * t \in Nat /\ y * t \in Nat
    BY <1>1, <1>3
  <2>4. (x + y) * t <= k * t /\ (x + y) * t = x * t + y * t
    BY <1>1, <1>3, <1>6
  <2>5. c \in Rango(i * t + x * t, y * t)
    BY <1>5, <2>2, <2>3 DEF t
  <2>6. c \in Rango(i * t, k * t) /\ c >= i * t + x * t
    BY <1>1, <2>3, <2>4, <2>5 DEF Rango
  <2> QED
    BY <1>1, <1>4, <2>6 DEF t, i
<1> QED
  BY <1>7, <1>8

LEMMA TechoEnElLugar ==
  ASSUME NEW f, Tam(f) \in Nat, NEW n \in Nat, ~ Crece(f, n)
  PROVE  Techo(n) \in Nat /\ Techo(n) <= Ocupa(Tam(f))
<1>1. tamanio_bloques \in Nat \ {0}
  BY ParametrosFS
<1>2. Techo(n) \in Nat /\ Techo(Tam(f)) \in Nat /\ Ocupa(Tam(f)) \in Nat \ {0}
      /\ Techo(Tam(f)) <= Ocupa(Tam(f))
  BY TechoEs
<1>3. CASE n <= tamanio_bloques
  <2>1. n = 0 \/ n \in 1 .. tamanio_bloques
    BY <1>1, <1>3
  <2>2. Techo(n) <= 1
    BY <2>1, TechoEs
  <2> QED
    BY <1>2, <2>2
<1> QED
  BY <1>1, <1>2, <1>3 DEF Crece

\* What a death in the middle of a truncation leaves of the bytes of another.
LEMMA AvancesQuietos ==
  ASSUME BytesJustos, InvarianteFS, descuidos = {},
         NEW f \in Hay(archivos), NEW n \in Nat,
         Crece(f, n) => Lugar(f, n).bloque >= 0,
         NEW avance \in Avances(f, n),
         NEW g \in Hay(archivos), f # g, NEW c \in Suyos(g)
  PROVE  avance[2][c] = bloques[c]
<1> DEFINE libre == liberar_espacio_bitmap(f)
           b == IF Crece(f, n) THEN Lugar(f, n).bloque ELSE Inicio(f)
           reservado == libre \cup Rango(b, Techo(n))
           resto == Limpiadas(bloques, b + Techo(n),
                              (Ocupa(Tam(f)) - Techo(n)) * tamanio_bloques)
           limpio == Limpiadas(bloques, Inicio(f), Tam(f))
           mudado == Mudado(f, b)
<1>0. f \in Nombres /\ Existe(f)
  BY DEF Hay, Existe
<1>1. /\ c \in Celdas /\ limpio[c] = bloques[c]
      /\ \A w \in Nat, z \in Nat \ {0} :
               Rango(w, z) \subseteq Bits \ libre /\ Tam(f) <= z * tamanio_bloques
               => Mudado(f, w)[c] = bloques[c]
  BY AjenosQuietos
<1>2. ASSUME Crece(f, n)
      PROVE  mudado[c] = bloques[c]
  <2>1. b \in Nat /\ Rango(b, Techo(n)) \subseteq Bits \ libre
    BY <1>0, <1>2, LugarEs
  <2>2. Techo(n) \in Nat \ {0}
    BY <1>2, CreceEs
  <2>3. Tam(f) <= Techo(n) * tamanio_bloques
    <3>1. tamanio_bloques \in Nat \ {0} /\ Tam(f) \in Nat
      BY SuyosEs, ParametrosFS
    <3>2. Techo(Tam(f)) \in Nat /\ Tam(f) <= Techo(Tam(f)) * tamanio_bloques
      BY <3>1, TechoEs
    <3>3. Techo(Tam(f)) < Techo(n)
      BY <1>2, <2>2, <3>2 DEF Crece
    <3>4. Techo(Tam(f)) * tamanio_bloques <= Techo(n) * tamanio_bloques
      BY <2>2, <3>1, <3>2, <3>3
    <3>5. Techo(Tam(f)) * tamanio_bloques \in Nat /\ Techo(n) * tamanio_bloques \in Nat
      BY <2>2, <3>1, <3>2
    <3> QED
      BY <3>1, <3>2, <3>4, <3>5
  <2> QED
    BY <1>1, <2>1, <2>2, <2>3
<1>3. ASSUME ~ Crece(f, n)
      PROVE  resto[c] = bloques[c]
  <2> DEFINE x == Techo(n)
             y == Ocupa(Tam(f)) - Techo(n)
  <2>1. x \in Nat /\ y \in Nat /\ x + y <= Ocupa(Tam(f))
    <3>1. Tam(f) \in Nat /\ Ocupa(Tam(f)) \in Nat
      BY SuyosEs
    <3> QED
      BY <1>3, <3>1, TechoEnElLugar
  <2>2. c \notin Suyos(f)
    BY SuyosAparte
  <2>3. resto = Limpiadas(bloques, Inicio(f) + x, y * tamanio_bloques)
    BY <1>3
  <2> HIDE DEF x, y, resto
  <2>4. c \notin Rango(InicioDe(Inicio(f) + x), y * tamanio_bloques)
    BY <2>1, <2>2, RestoPropio
  <2> QED
    BY <1>1, <2>3, <2>4, LimpiadasFuera
<1> HIDE DEF limpio, resto
<1>4. \/ avance[2] = bloques \/ avance[2] = limpio
      \/ avance[2] = mudado /\ b # Inicio(f)
      \/ avance[2] = resto /\ ~ Crece(f, n)
  BY DEF Avances, limpio, resto
<1>5. b # Inicio(f) => Crece(f, n)
  OBVIOUS
<1> HIDE DEF b, mudado
<1> QED
  BY <1>1, <1>2, <1>3, <1>4, <1>5

\* A death in the middle of a truncation that does not compact hurts no other
\* file, when the bitmap has no bit beyond the blocks (dialfs.c:151).
THEOREM CaidaAcotadaSiempre ==
  ASSUME BytesJustos
  PROVE  SpecFS => CaidaAcotada
<1> DEFINE Acotada ==
             "caida" \in descuidos' \ descuidos =>
                \A f \in Existentes, n \in Tamanios : CaeTruncando(f, n) =>
                \A g \in Existentes \ {f} :
                   /\ BloquesDe(g) \subseteq bitmap'
                   /\ Legible(bloques', archivos[g]) = Legible(bloques, archivos[g])
<1>1. ASSUME InvarianteFS, [NextFS]_fsVars
      PROVE  [Acotada]_fsVars
  <2> SUFFICES ASSUME "caida" \in descuidos' \ descuidos,
                      NEW f \in Existentes, NEW n \in Tamanios, CaeTruncando(f, n),
                      NEW g \in Existentes \ {f}
               PROVE  /\ BloquesDe(g) \subseteq bitmap'
                      /\ Legible(bloques', archivos[g]) = Legible(bloques, archivos[g])
    OBVIOUS
  <2>1. descuidos = {}
    BY <1>1 DEF NextFS, Mezclados, fsVars
  <2>2. /\ f \in Nombres /\ Existe(f) /\ n \in Nat
        /\ f \in Hay(archivos) /\ g \in Hay(archivos) /\ f # g
    BY ParametrosFS DEF Existentes, Existe, Hay
  <2>3. PICK avance \in Avances(f, n) : bitmap' = avance[1] /\ bloques' = avance[2]
    BY DEF CaeTruncando
  <2>4. Crece(f, n) => Lugar(f, n).bloque >= 0
    BY DEF CaeTruncando
  <2>5. liberar_espacio_bitmap(f) \subseteq bitmap'
    BY <1>1, <2>1, <2>2, <2>3, <2>4, AvancesEs
  <2>6. BloquesDe(g) \subseteq liberar_espacio_bitmap(f)
    <3>1. liberar_espacio_bitmap(f) = Usados(archivos, Hay(archivos) \ {f})
      BY <1>1, <2>1, <2>2, LiberarEs
    <3> QED
      BY <2>2, <3>1 DEF Usados, Tramo, BloquesDe, Inicio, Tam
  <2>7. \A c \in Suyos(g) : bloques'[c] = bloques[c]
    <3> SUFFICES ASSUME NEW c \in Suyos(g)
                 PROVE  avance[2][c] = bloques[c]
      BY <2>3
    <3> QED
      BY <1>1, <2>1, <2>2, <2>4, AvancesQuietos
  <2>8. Legible(bloques', archivos[g]) = Legible(bloques, archivos[g])
    BY <1>1, <2>1, <2>2, <2>7, LegibleAjeno
  <2> QED
    BY <2>5, <2>6, <2>8
<1> QED
  BY <1>1, InvarianteFSSiempre, PTL DEF SpecFS, CaidaAcotada

-----------------------------------------------------------------------------
(* What the reader of a file finds after its blocks were moved or wiped.      *)

LEMMA LegibleSinNul ==
  ASSUME NEW cs, NEW m \in Metadatos
  PROVE  /\ Len(Legible(cs, m)) \in 0 .. m.TAMANIO_ARCHIVO
         /\ \A i \in 1 .. Len(Legible(cs, m)) :
               /\ Legible(cs, m)[i] # NUL
               /\ InicioDe(m.BLOQUE_INICIAL) + i - 1 \in Celdas
               /\ Legible(cs, m)[i] = cs[InicioDe(m.BLOQUE_INICIAL) + i - 1]
<1> DEFINE base == InicioDe(m.BLOQUE_INICIAL)
           tam == m.TAMANIO_ARCHIVO
<1>1. base \in Int /\ tam \in Nat
  BY InicioDeEs DEF Metadatos
<1>2. PICK n \in 0 .. tam : /\ EsLargo(cs, base, tam, n)
                            /\ Legible(cs, m) = [i \in 1 .. n |-> cs[base + i - 1]]
  BY LegibleEs
<1> HIDE DEF base, tam
<1>3. Len(Legible(cs, m)) = n
  BY <1>1, <1>2
<1>4. ASSUME NEW i \in 1 .. n
      PROVE  /\ Legible(cs, m)[i] = cs[base + i - 1]
             /\ base + i - 1 \in Celdas
             /\ cs[base + i - 1] # NUL
  <2>1. i - 1 \in 0 .. n - 1 /\ base + i - 1 = base + (i - 1)
    BY <1>1
  <2>2. base + i - 1 \in Celdas /\ cs[base + i - 1] # NUL
    BY <1>2, <2>1 DEF EsLargo, Llena
  <2> QED
    BY <1>2, <2>2
<1> QED
  BY <1>2, <1>3, <1>4 DEF base, tam

LEMMA PrefijoPropio ==
  ASSUME NEW t, Len(t) \in Nat
  PROVE  IsPrefix(t, t)
BY DEF IsPrefix

\* A text that is where a file begins is read first.
LEMMA PrefijoDe ==
  ASSUME NEW t, NEW ds, NEW m \in Metadatos,
         Len(t) \in Nat, t \in Seq(Nombres), Len(t) <= m.TAMANIO_ARCHIVO,
         \A i \in 1 .. Len(t) : /\ t[i] # NUL
                                /\ InicioDe(m.BLOQUE_INICIAL) + i - 1 \in Celdas
                                /\ ds[InicioDe(m.BLOQUE_INICIAL) + i - 1] = t[i]
  PROVE  IsPrefix(t, Legible(ds, m))
<1> DEFINE base == InicioDe(m.BLOQUE_INICIAL)
           tam == m.TAMANIO_ARCHIVO
<1>1. base \in Int /\ tam \in Nat
  BY InicioDeEs DEF Metadatos
<1>2. PICK k \in 0 .. tam : /\ EsLargo(ds, base, tam, k)
                            /\ Legible(ds, m) = [i \in 1 .. k |-> ds[base + i - 1]]
  BY LegibleEs
<1>a. \A i \in 1 .. Len(t) : /\ t[i] # NUL
                             /\ base + i - 1 \in Celdas
                             /\ ds[base + i - 1] = t[i]
  OBVIOUS
<1>b. Len(t) \in Nat /\ Len(t) <= tam
  OBVIOUS
<1> HIDE DEF base, tam
<1>3. Len(t) <= k
  <2> SUFFICES ASSUME k < Len(t)
               PROVE  FALSE
    BY <1>1, <1>b
  <2>1. Llena(ds, base, k + 1)
    <3> SUFFICES ASSUME NEW i \in 0 .. k
                 PROVE  base + i \in Celdas /\ ds[base + i] # NUL
      <4>1. (k + 1) - 1 = k
        BY <1>1
      <4> QED
        BY <4>1 DEF Llena
    <3>1. i + 1 \in 1 .. Len(t) /\ base + (i + 1) - 1 = base + i
      BY <1>1, <1>b
    <3> QED
      BY <1>a, <3>1
  <2>2. k # tam
    BY <1>1, <1>b
  <2> QED
    BY <1>2, <2>1, <2>2 DEF EsLargo
<1> DEFINE s == Legible(ds, m)
<1>4. Len(s) = k
  BY <1>1, <1>2
<1>5. \A i \in 1 .. Len(t) : s[i] = t[i]
  BY <1>1, <1>2, <1>3, <1>a, <1>b
<1> HIDE DEF s
<1>6. SubSeq(t, 1, Len(t)) = SubSeq(s, 1, Len(t))
  BY <1>5, <1>b DEF SubSeq
<1> QED
  BY <1>3, <1>4, <1>6 DEF IsPrefix, s

\* A file that is cut reads what it read, as far as it goes.
LEMMA RecorteDe ==
  ASSUME NEW cs, NEW ds, NEW m \in Metadatos, NEW z \in Metadatos,
         z.BLOQUE_INICIAL = m.BLOQUE_INICIAL, z.TAMANIO_ARCHIVO < m.TAMANIO_ARCHIVO,
         \A c \in Rango(InicioDe(m.BLOQUE_INICIAL), z.TAMANIO_ARCHIVO) \cap Celdas :
             ds[c] = cs[c]
  PROVE  Legible(ds, z) = [k \in 1 .. Menor({z.TAMANIO_ARCHIVO, Len(Legible(cs, m))})
                              |-> Legible(cs, m)[k]]
<1> DEFINE base == InicioDe(m.BLOQUE_INICIAL)
           tam == m.TAMANIO_ARCHIVO
           tez == z.TAMANIO_ARCHIVO
<1>1. base \in Int /\ tam \in Nat /\ tez \in Nat /\ tez < tam
  BY InicioDeEs DEF Metadatos
<1>2. PICK n \in 0 .. tam : /\ EsLargo(cs, base, tam, n)
                            /\ Legible(cs, m) = [i \in 1 .. n |-> cs[base + i - 1]]
  BY LegibleEs
<1>3. PICK k \in 0 .. tez : /\ EsLargo(ds, base, tez, k)
                            /\ Legible(ds, z) = [i \in 1 .. k |-> ds[base + i - 1]]
  <2>1. \E k \in 0 .. z.TAMANIO_ARCHIVO :
            /\ EsLargo(ds, InicioDe(z.BLOQUE_INICIAL), z.TAMANIO_ARCHIVO, k)
            /\ Legible(ds, z) = [i \in 1 .. k |-> ds[InicioDe(z.BLOQUE_INICIAL) + i - 1]]
    BY LegibleEs
  <2>2. InicioDe(z.BLOQUE_INICIAL) = base
    OBVIOUS
  <2> HIDE DEF base
  <2> QED
    BY <2>1, <2>2
<1>4. \A c \in Rango(base, tez) \cap Celdas : ds[c] = cs[c]
  OBVIOUS
<1> HIDE DEF base, tam, tez
<1>5. Len(Legible(cs, m)) = n
  BY <1>1, <1>2
<1> DEFINE r == Menor({tez, n})
<1>6. r \in {tez, n} /\ r <= tez /\ r <= n
  <2>1. {tez, n} \in SUBSET Nat /\ {tez, n} # {}
    BY <1>1
  <2> QED
    BY <2>1, MenorEs
<1> HIDE DEF r
<1>7. ASSUME NEW j \in 0 .. tez
      PROVE  Llena(ds, base, j) <=> Llena(cs, base, j)
  <2>1. \A i \in 0 .. j - 1 : base + i \in Rango(base, tez)
    BY <1>1 DEF Rango
  <2> QED
    BY <1>4, <2>1 DEF Llena
<1>8. EsLargo(ds, base, tez, r)
  <2>1. r \in 0 .. tez /\ r \in 0 .. n
    BY <1>1, <1>6
  <2>2. Llena(cs, base, r)
    BY <1>1, <1>2, <2>1 DEF EsLargo, Llena
  <2>3. Llena(ds, base, r)
    BY <1>7, <2>1, <2>2
  <2>4. ASSUME r # tez
        PROVE  ~ Llena(ds, base, r + 1)
    <3>1. r = n /\ r + 1 \in 0 .. tez /\ n # tam
      BY <1>1, <1>6, <2>1, <2>4
    <3>2. ~ Llena(cs, base, r + 1)
      BY <1>2, <3>1 DEF EsLargo
    <3> QED
      BY <1>7, <3>1, <3>2
  <2> QED
    BY <2>1, <2>3, <2>4 DEF EsLargo
<1>9. k = r
  BY <1>1, <1>3, <1>8, LargoUnico
<1>10. ASSUME NEW i \in 1 .. r
       PROVE  ds[base + i - 1] = Legible(cs, m)[i]
  <2>1. i \in 1 .. n /\ i \in 1 .. tez /\ i - 1 \in 0 .. n - 1 /\ base + i - 1 = base + (i - 1)
    BY <1>1, <1>6
  <2>2. base + i - 1 \in Celdas
    BY <1>2, <2>1 DEF EsLargo, Llena
  <2>3. base + i - 1 \in Rango(base, tez)
    BY <1>1, <2>1 DEF Rango
  <2> QED
    BY <1>2, <1>4, <2>1, <2>2, <2>3
<1> QED
  BY <1>3, <1>5, <1>9, <1>10 DEF r, tez

\* A file of the same metadata and bytes keeps its text.
LEMMA ConservaQuieto ==
  ASSUME BytesJustos, InvarianteFS, descuidos = {},
         NEW g \in Hay(archivos), archivos'[g] = archivos[g],
         \A c \in Suyos(g) : bloques'[c] = bloques[c]
  PROVE  Conserva(g)
<1> DEFINE t == Legible(bloques, archivos[g])
<1>1. Legible(bloques', archivos[g]) = t
  BY LegibleAjeno
<1>2. Len(t) \in Nat
  BY TipoDe, LegibleSinNul DEF InvarianteFS, Metadatos
<1>3. Tam(g) \in Nat /\ Tam(g)' = Tam(g)
  BY TipoDe DEF InvarianteFS, Tam
<1>4. IsPrefix(t, t)
  BY <1>2, PrefijoPropio
<1> QED
  BY <1>1, <1>3, <1>4 DEF Conserva

\* A file whose text is at its new place, which is large enough, keeps it.
LEMMA ConservaMudado ==
  ASSUME InvarianteFS, NEW g \in Hay(archivos), archivos'[g] \in Metadatos,
         archivos'[g].TAMANIO_ARCHIVO >= archivos[g].TAMANIO_ARCHIVO,
         \A i \in 1 .. Len(Legible(bloques, archivos[g])) :
            /\ InicioDe(archivos'[g].BLOQUE_INICIAL) + i - 1 \in Celdas
            /\ bloques'[InicioDe(archivos'[g].BLOQUE_INICIAL) + i - 1]
                  = Legible(bloques, archivos[g])[i]
  PROVE  Conserva(g)
<1> DEFINE t == Legible(bloques, archivos[g])
           z == archivos'[g]
<1>1. /\ archivos[g] \in Metadatos /\ bloques \in Memorias
      /\ archivos[g].TAMANIO_ARCHIVO \in Nat
  BY TipoDe DEF InvarianteFS, Metadatos
<1>2. /\ Len(t) \in 0 .. archivos[g].TAMANIO_ARCHIVO
      /\ \A i \in 1 .. Len(t) : t[i] # NUL
      /\ t \in Seq(Nombres)
  BY <1>1, LegibleSinNul, LegibleTipo
<1>3. z \in Metadatos /\ z.TAMANIO_ARCHIVO \in Nat
      /\ z.TAMANIO_ARCHIVO >= archivos[g].TAMANIO_ARCHIVO
  BY DEF Metadatos
<1>4. \A i \in 1 .. Len(t) : /\ InicioDe(z.BLOQUE_INICIAL) + i - 1 \in Celdas
                             /\ bloques'[InicioDe(z.BLOQUE_INICIAL) + i - 1] = t[i]
  OBVIOUS
<1> HIDE DEF t, z
<1>5. IsPrefix(t, Legible(bloques', z))
  BY <1>1, <1>2, <1>3, <1>4, PrefijoDe
<1>6. ~ (Tam(g)' < Tam(g))
  BY <1>1, <1>3 DEF Tam, z
<1> QED
  BY <1>5, <1>6 DEF Conserva, t, z

\* What TextoIntacto says of one file.
Intacto(g) ==
    \/ ~ Existe(g)' \/ Conserva(g)
    \/ \E p \in Punteros, l \in Largos : EscribirArchivo(g, p, l)

LEMMA CreaIntacto ==
  ASSUME BytesJustos, InvarianteFS, descuidos = {},
         NEW f \in Nombres, CrearArchivo(f), NEW g \in Hay(archivos)
  PROVE  Intacto(g)
<1>1. g # f /\ g \in Nombres
  BY DEF CrearArchivo, Existe, Hay
<1>2. archivos'[g] = archivos[g] /\ bloques' = bloques
  BY <1>1, TipoDe DEF InvarianteFS, CrearArchivo, TablasDe
<1> QED
  BY <1>2, ConservaQuieto DEF Intacto

LEMMA EliminaIntacto ==
  ASSUME BytesJustos, InvarianteFS, descuidos = {},
         NEW f \in Nombres, EliminarArchivo(f), NEW g \in Hay(archivos)
  PROVE  Intacto(g)
<1>0. archivos \in TablasDe /\ g \in Nombres /\ f \in Hay(archivos)
  BY TipoDe DEF InvarianteFS, EliminarArchivo, Existe, Hay
<1>1. CASE g = f
  <2>1. archivos'[g] = SinArchivo
    BY <1>0, <1>1 DEF EliminarArchivo, TablasDe
  <2> QED
    BY <2>1 DEF Intacto, Existe
<1>2. CASE g # f
  <2>1. archivos'[g] = archivos[g]
    BY <1>0, <1>2 DEF EliminarArchivo, TablasDe
  <2>2. ASSUME NEW c \in Suyos(g)
        PROVE  bloques'[c] = bloques[c]
    BY <1>0, <1>2, AjenosQuietos DEF EliminarArchivo
  <2> QED
    BY <2>1, <2>2, ConservaQuieto DEF Intacto
<1> QED
  BY <1>1, <1>2

LEMMA EscribeIntacto ==
  ASSUME BytesJustos, InvarianteFS, descuidos = {}, descuidos' = {},
         NEW f \in Nombres, NEW p \in Punteros, NEW l \in Largos, EscribirArchivo(f, p, l),
         NEW g \in Hay(archivos)
  PROVE  Intacto(g)
<1>1. CASE g = f
  BY <1>1 DEF Intacto
<1>2. CASE g # f
  <2>1. archivos'[g] = archivos[g]
    BY DEF EscribirArchivo
  <2>2. ASSUME NEW c \in Suyos(g)
        PROVE  bloques'[c] = bloques[c]
    <3>1. CASE bloques' = bloques
      BY <3>1
    <3>2. CASE bloques' # bloques
      <4> DEFINE texto == [i \in 1 .. l |-> f]
      <4>1. /\ f \in Hay(archivos) /\ p + l <= Tam(f)
            /\ bloques' = Escrito(bloques, Inicio(f), p, texto)
        <5>1. Existe(f) /\ bloques' = Escrito(bloques, Inicio(f), p, texto)
              /\ descuidos' = descuidos \cup (IF p + l > Tam(f) THEN {"desborde"} ELSE {})
          BY <3>2 DEF EscribirArchivo
        <5>2. p \in Nat /\ l \in Nat
          BY ParametrosFS
        <5>3. f \in Hay(archivos)
          BY <5>1 DEF Existe, Hay
        <5>4. Tam(f) \in Nat
          BY <5>3, SuyosEs
        <5>5. ~ (p + l > Tam(f))
          BY <5>1
        <5> QED
          BY <5>1, <5>2, <5>3, <5>4, <5>5
      <4>2. p \in Nat /\ l \in Nat /\ Len(texto) = l
        BY ParametrosFS
      <4>3. InicioDe(Inicio(f)) \in Nat /\ Tam(f) \in Nat
        BY <4>1, SuyosEs
      <4> HIDE DEF texto
      <4>4. Rango(InicioDe(Inicio(f)) + p, Len(texto)) \subseteq Rango(InicioDe(Inicio(f)), Tam(f))
        BY <4>1, <4>2, <4>3 DEF Rango
      <4>5. c \notin Suyos(f) /\ c \in Celdas
        BY <1>2, <4>1, SuyosAparte, SuyosEs
      <4>6. c \notin Rango(InicioDe(Inicio(f)) + p, Len(texto))
        BY <4>1, <4>4, <4>5, SuyosEs
      <4> QED
        BY <4>1, <4>5, <4>6, EscritoFuera
    <3> QED
      BY <3>1, <3>2
  <2> QED
    BY <2>1, <2>2, ConservaQuieto DEF Intacto
<1> QED
  BY <1>1, <1>2

LEMMA TruncaEnElLugarIntacto ==
  ASSUME BytesJustos, InvarianteFS, descuidos = {},
         NEW f \in Hay(archivos), NEW n \in Nat, TruncaEnElLugar(f, n),
         NEW g \in Hay(archivos)
  PROVE  Conserva(g)
<1> DEFINE x == Techo(n)
           y == Techo(Tam(f)) - Techo(n)
           m == archivos[f]
           z == Metadata(Inicio(f), n)
<1>0. /\ archivos \in TablasDe /\ g \in Nombres /\ f \in Nombres
      /\ m \in Metadatos /\ Inicio(f) = m.BLOQUE_INICIAL /\ Tam(f) = m.TAMANIO_ARCHIVO
      /\ Inicio(f) \in Nat /\ Tam(f) \in Nat
  BY TipoDe DEF InvarianteFS, Hay
<1>1. n # Tam(f) /\ ~ Crece(f, n) /\ archivos' = [archivos EXCEPT ![f] = z]
  BY DEF TruncaEnElLugar, Truncado
<1>2. tamanio_bloques \in Nat \ {0}
  BY ParametrosFS
<1>3. /\ x \in Nat /\ n <= x * tamanio_bloques /\ Techo(Tam(f)) \in Nat
      /\ Techo(Tam(f)) <= Ocupa(Tam(f)) /\ Ocupa(Tam(f)) \in Nat
      /\ Tam(f) <= Techo(Tam(f)) * tamanio_bloques
      /\ (Techo(Tam(f)) - 1) * tamanio_bloques < Tam(f)
  BY <1>0, TechoEs
\* The bytes that are wiped, if any.
<1>4. \/ bloques' = bloques
      \/ y \in Nat /\ bloques' = Limpiadas(bloques, Inicio(f) + x, y * tamanio_bloques)
  <2>1. CASE Tam(f) <= tamanio_bloques /\ n <= tamanio_bloques
    BY <2>1 DEF TruncaEnElLugar
  <2>2. CASE ~ (Tam(f) <= tamanio_bloques /\ n <= tamanio_bloques)
    <3>1. bloques' = Limpiadas(bloques, Inicio(f) + x, y * tamanio_bloques)
      BY <2>2 DEF TruncaEnElLugar
    <3>2. x <= Techo(Tam(f))
      <4>1. CASE n > tamanio_bloques
        BY <1>1, <1>3, <4>1 DEF Crece
      <4>2. CASE n <= tamanio_bloques
        <5>1. n <= Tam(f)
          BY <1>0, <1>2, <2>2, <4>2
        <5> QED
          BY <1>0, <5>1, TechoCrece
      <4> QED
        BY <1>2, <4>1, <4>2
    <3>3. y \in Nat
      BY <1>3, <3>2
    <3> QED
      BY <3>1, <3>3
  <2> QED
    BY <2>1, <2>2
<1>5. ASSUME NEW c \in Celdas,
             c \notin Suyos(f) \/ c < InicioDe(Inicio(f)) + x * tamanio_bloques
      PROVE  bloques'[c] = bloques[c]
  <2>1. CASE bloques' = bloques
    BY <2>1
  <2>2. CASE y \in Nat /\ bloques' = Limpiadas(bloques, Inicio(f) + x, y * tamanio_bloques)
    <3>1. x + y <= Ocupa(Tam(f))
      BY <1>3, <2>2
    <3> HIDE DEF x, y
    <3>2. c \notin Rango(InicioDe(Inicio(f) + x), y * tamanio_bloques)
      <4> SUFFICES ASSUME c \in Rango(InicioDe(Inicio(f) + x), y * tamanio_bloques)
                   PROVE  FALSE
        OBVIOUS
      <4>1. c \in Suyos(f) /\ c >= InicioDe(Inicio(f)) + x * tamanio_bloques
        BY <1>3, <2>2, <3>1, RestoPropio
      <4>2. InicioDe(Inicio(f)) \in Nat /\ x * tamanio_bloques \in Nat /\ c \in Int
        <5>1. InicioDe(Inicio(f)) \in Nat
          BY SuyosEs
        <5>2. cantidad_bloques * tamanio_bloques \in Int
          BY ParametrosFS
        <5> QED
          BY <1>2, <1>3, <5>1, <5>2 DEF Celdas
      <4> QED
        BY <1>5, <4>1, <4>2
    <3> QED
      BY <2>2, <3>2, LimpiadasFuera
  <2> QED
    BY <1>4, <2>1, <2>2
<1> HIDE DEF x, y
<1>6. CASE g # f
  <2>1. archivos'[g] = archivos[g]
    BY <1>0, <1>1, <1>6 DEF TablasDe
  <2>2. \A c \in Suyos(g) : bloques'[c] = bloques[c]
    BY <1>5, <1>6, SuyosAparte, SuyosEs
  <2> QED
    BY <2>1, <2>2, ConservaQuieto
<1>7. CASE g = f
  <2>1. /\ archivos'[f] = z /\ z \in Metadatos
        /\ z.BLOQUE_INICIAL = Inicio(f) /\ z.TAMANIO_ARCHIVO = n
    BY <1>0, <1>1 DEF TablasDe, Metadata, Metadatos
  <2> HIDE DEF z, m
  <2>2. /\ InicioDe(Inicio(f)) \in Nat
        /\ Rango(InicioDe(Inicio(f)), Tam(f)) \subseteq Suyos(f)
        /\ Suyos(f) \subseteq Celdas
    BY SuyosEs
  <2>3. x * tamanio_bloques \in Nat
    BY <1>2, <1>3
  <2>4. \A c \in Rango(InicioDe(Inicio(f)), n) \cap Celdas : bloques'[c] = bloques[c]
    BY <1>3, <1>5, <2>2, <2>3 DEF Rango
  <2>5. CASE n < Tam(f)
    <3>1. Legible(bloques', z) = [k \in 1 .. Menor({z.TAMANIO_ARCHIVO, Len(Legible(bloques, m))})
                                    |-> Legible(bloques, m)[k]]
      <4>1. /\ m \in Metadatos /\ z \in Metadatos
            /\ z.BLOQUE_INICIAL = m.BLOQUE_INICIAL /\ z.TAMANIO_ARCHIVO < m.TAMANIO_ARCHIVO
        BY <1>0, <2>1, <2>5
      <4>2. \A c \in Rango(InicioDe(m.BLOQUE_INICIAL), z.TAMANIO_ARCHIVO) \cap Celdas :
               bloques'[c] = bloques[c]
        BY <1>0, <2>1, <2>4
      <4> QED
        BY <4>1, <4>2, RecorteDe
    <3>2. Tam(f)' = n /\ Tam(f)' = z.TAMANIO_ARCHIVO
      BY <2>1 DEF Tam
    <3> QED
      BY <1>7, <2>1, <2>5, <3>1, <3>2 DEF Conserva, m
  <2>6. CASE n > Tam(f)
    <3> DEFINE t == Legible(bloques, archivos[f])
    <3>1. /\ Len(t) \in 0 .. Tam(f)
          /\ \A i \in 1 .. Len(t) : /\ InicioDe(Inicio(f)) + i - 1 \in Celdas
                                    /\ t[i] = bloques[InicioDe(Inicio(f)) + i - 1]
      BY <1>0, LegibleSinNul DEF m
    <3> HIDE DEF t
    <3>2. ASSUME NEW i \in 1 .. Len(t)
          PROVE  /\ InicioDe(Inicio(f)) + i - 1 \in Celdas
                 /\ bloques'[InicioDe(Inicio(f)) + i - 1] = t[i]
      <4>1. InicioDe(Inicio(f)) + i - 1 \in Rango(InicioDe(Inicio(f)), n)
        BY <1>0, <2>2, <2>6, <3>1 DEF Rango
      <4> QED
        BY <2>4, <3>1, <4>1
    <3> QED
      BY <1>0, <1>7, <2>1, <2>6, <3>2, ConservaMudado DEF t, m
  <2> QED
    BY <1>0, <1>1, <2>5, <2>6
<1> QED
  BY <1>6, <1>7

\* A file that grows has more room than it had.
LEMMA CreceMas ==
  ASSUME NEW f, Tam(f) \in Nat, NEW n \in Nat, Crece(f, n)
  PROVE  /\ Tam(f) < n
         /\ Tam(f) <= Techo(n) * tamanio_bloques
         /\ Techo(n) \in Nat \ {0}
<1>1. Techo(n) \in Nat \ {0} /\ Techo(Tam(f)) \in Nat /\ Techo(n) > Techo(Tam(f))
  BY CreceEs, TechoEs DEF Crece
<1>2. Tam(f) < n
  <2>1. n <= Tam(f) => Techo(n) <= Techo(Tam(f))
    BY TechoCrece
  <2> QED
    BY <1>1, <2>1
<1>3. n <= Techo(n) * tamanio_bloques
  BY TechoEs
<1>4. Techo(n) * tamanio_bloques \in Nat
  BY <1>1, ParametrosFS
<1> QED
  BY <1>1, <1>2, <1>3, <1>4

\* A text written at a run of n blocks is inside the run, and is read there.
BienEscrito(cs, b, n, t) ==
    /\ Rango(InicioDe(b) + 0, Len(t)) \subseteq Bytes(b, n)
    /\ \A i \in 1 .. Len(t) : /\ InicioDe(b) + i - 1 \in Celdas
                              /\ Escrito(cs, b, 0, t)[InicioDe(b) + i - 1] = t[i]

LEMMA EscritoEnBloques ==
  ASSUME BytesJustos,
         NEW cs, NEW b \in Nat, NEW n \in Nat \ {0}, Rango(b, n) \subseteq Bits,
         NEW t, Len(t) \in Nat, Len(t) <= n * tamanio_bloques
  PROVE  BienEscrito(cs, b, n, t)
<1>1. /\ InicioDe(b) = b * tamanio_bloques /\ b * tamanio_bloques \in Nat
      /\ n * tamanio_bloques \in Nat
      /\ Bytes(b, n) \subseteq Celdas
  BY BytesEs
<1>2. Rango(InicioDe(b) + 0, Len(t)) \subseteq Bytes(b, n)
  BY <1>1 DEF Bytes, Rango
<1>3. ASSUME NEW i \in 1 .. Len(t)
      PROVE  /\ InicioDe(b) + i - 1 \in Celdas
             /\ Escrito(cs, b, 0, t)[InicioDe(b) + i - 1] = t[i]
  <2>1. InicioDe(b) + i - 1 \in Rango(InicioDe(b) + 0, Len(t))
    BY <1>1 DEF Rango
  <2>2. InicioDe(b) + i - 1 \in Celdas
    BY <1>1, <1>2, <2>1
  <2> QED
    BY <1>1, <2>2, EscritoDentro
<1> QED
  BY <1>2, <1>3 DEF BienEscrito

\* A text written at a run of blocks leaves those of a file elsewhere alone.
LEMMA AjenoAlEscrito ==
  ASSUME BytesJustos,
         NEW cs, NEW b \in Nat, NEW q \in Nat \ {0}, NEW t, BienEscrito(cs, b, q, t),
         NEW w \in Metadatos, Tramo(w) \subseteq Bits, Tramo(w) \cap Rango(b, q) = {},
         NEW i \in Nat, 1 <= i, i <= w.TAMANIO_ARCHIVO,
         InicioDe(w.BLOQUE_INICIAL) + i - 1 \in Celdas
  PROVE  Escrito(cs, b, 0, t)[InicioDe(w.BLOQUE_INICIAL) + i - 1]
            = cs[InicioDe(w.BLOQUE_INICIAL) + i - 1]
<1> DEFINE u == Ocupa(w.TAMANIO_ARCHIVO)
           a == w.BLOQUE_INICIAL
           c == InicioDe(a) + i - 1
<1>1. /\ InicioDe(a) = a * tamanio_bloques /\ a * tamanio_bloques \in Nat /\ u \in Nat
      /\ Rango(a * tamanio_bloques, w.TAMANIO_ARCHIVO) \subseteq Bytes(a, u)
  BY TextoEnBytes
<1>2. w.TAMANIO_ARCHIVO \in Nat /\ a \in Nat
  BY DEF Metadatos
<1>3. Rango(a, u) \cap Rango(b, q) = {}
  BY DEF Tramo
<1> HIDE DEF a, u
<1>4. c \in Rango(a * tamanio_bloques, w.TAMANIO_ARCHIVO)
  BY <1>1, <1>2 DEF Rango
<1>5. Bytes(a, u) \cap Bytes(b, q) = {}
  BY <1>1, <1>2, <1>3, BytesAparte
<1>6. c \notin Rango(InicioDe(b) + 0, Len(t))
  BY <1>1, <1>4, <1>5 DEF BienEscrito
<1>7. c \in Celdas
  BY DEF a
<1> HIDE DEF c
<1>8. Escrito(cs, b, 0, t)[c] = cs[c]
  BY <1>6, <1>7, EscritoFuera
<1> QED
  BY <1>8 DEF c, a

LEMMA TruncaYMudaIntacto ==
  ASSUME BytesJustos, InvarianteFS, descuidos = {},
         NEW f \in Hay(archivos), NEW n \in Nat, TruncaYMuda(f, n),
         NEW g \in Hay(archivos)
  PROVE  Conserva(g)
<1> DEFINE b == Lugar(f, n).bloque
           z == Metadata(b, n)
           t == Legible(bloques, archivos[f])
<1>0. /\ archivos \in TablasDe /\ g \in Nombres /\ f \in Nombres /\ Existe(f)
      /\ archivos[f] \in Metadatos /\ Inicio(f) = archivos[f].BLOQUE_INICIAL
      /\ Tam(f) = archivos[f].TAMANIO_ARCHIVO
      /\ Inicio(f) \in Nat /\ Tam(f) \in Nat
  BY TipoDe DEF InvarianteFS, Hay, Existe
<1>1. /\ b \in Nat /\ Rango(b, Techo(n)) \subseteq Bits \ liberar_espacio_bitmap(f)
  BY <1>0, LugarEs DEF TruncaYMuda
<1>2. Tam(f) < n /\ Tam(f) <= Techo(n) * tamanio_bloques /\ Techo(n) \in Nat \ {0}
  BY <1>0, CreceMas DEF TruncaYMuda
<1>3. /\ archivos' = [archivos EXCEPT ![f] = z]
      /\ bloques' = IF b = Inicio(f) THEN bloques ELSE Mudado(f, b)
  BY DEF TruncaYMuda, Truncado
<1> HIDE DEF b
<1>4. CASE g # f
  <2>1. archivos'[g] = archivos[g]
    BY <1>0, <1>3, <1>4 DEF TablasDe
  <2>2. ASSUME NEW c \in Suyos(g)
        PROVE  bloques'[c] = bloques[c]
    <3>1. Mudado(f, b)[c] = bloques[c]
      BY <1>1, <1>2, <1>4, AjenosQuietos
    <3> QED
      BY <1>3, <3>1
  <2> QED
    BY <2>1, <2>2, ConservaQuieto
<1>5. CASE g = f
  <2>1. /\ archivos'[f] = z /\ z \in Metadatos
        /\ z.BLOQUE_INICIAL = b /\ z.TAMANIO_ARCHIVO = n
    BY <1>0, <1>1, <1>3 DEF TablasDe, Metadata, Metadatos
  <2>2. /\ Len(t) \in 0 .. Tam(f)
        /\ \A i \in 1 .. Len(t) : /\ InicioDe(Inicio(f)) + i - 1 \in Celdas
                                  /\ t[i] = bloques[InicioDe(Inicio(f)) + i - 1]
    BY <1>0, LegibleSinNul
  <2> HIDE DEF z, t
  <2>3. ASSUME NEW i \in 1 .. Len(t)
        PROVE  InicioDe(b) + i - 1 \in Celdas /\ bloques'[InicioDe(b) + i - 1] = t[i]
    <3>1. CASE b = Inicio(f)
      BY <1>3, <2>2, <3>1
    <3>2. CASE b # Inicio(f)
      <4>1. Len(t) \in Nat /\ Len(t) <= Techo(n) * tamanio_bloques
        <5>1. Techo(n) * tamanio_bloques \in Nat
          BY <1>2, ParametrosFS
        <5> QED
          BY <1>0, <1>2, <2>2, <5>1
      <4>2. bloques' = Escrito(Limpiadas(bloques, Inicio(f), Tam(f)), b, 0, t)
        BY <1>3, <3>2 DEF Mudado, t
      <4>3. Rango(b, Techo(n)) \subseteq Bits
        BY <1>1
      <4>4. BienEscrito(Limpiadas(bloques, Inicio(f), Tam(f)), b, Techo(n), t)
        BY <1>1, <1>2, <4>1, <4>3, EscritoEnBloques
      <4> QED
        BY <4>2, <4>4 DEF BienEscrito
    <3> QED
      BY <3>1, <3>2
  <2>4. /\ archivos'[g] \in Metadatos
        /\ archivos'[g].TAMANIO_ARCHIVO >= archivos[g].TAMANIO_ARCHIVO
    BY <1>0, <1>2, <1>5, <2>1
  <2> QED
    BY <1>5, <2>1, <2>3, <2>4, ConservaMudado DEF t
<1> QED
  BY <1>4, <1>5

\* The texts that the compaction has written so far.
ConTextos(f, orden, k) ==
    LET h == Hecho(f, orden, k)
    IN  \A g \in Puestos(f, orden, k) : \A i \in 1 .. Len(Legible(bloques, archivos[g])) :
           /\ InicioDe(h.arch[g].BLOQUE_INICIAL) + i - 1 \in Celdas
           /\ h.cs[InicioDe(h.arch[g].BLOQUE_INICIAL) + i - 1]
                 = Legible(bloques, archivos[g])[i]

LEMMA ConTextosSiempre ==
  ASSUME BytesJustos,
         archivos \in TablasDe, bloques \in Memorias,
         NEW bits, Exacto(archivos, bits),
         NEW f \in Hay(archivos), NEW N, NEW orden, EsLista(orden, N),
         Cardinality(Usados(archivos, Hay(archivos) \ {f})) < tam_bitmap,
         \A g \in Hay(archivos) \ {f} : Tam(g) # 0,
         NEW k \in 0 .. N
  PROVE  ConTextos(f, orden, k)
<1> DEFINE A == { n \in Nat : n <= N => ConTextos(f, orden, n) }
<1>0. N \in Nat /\ DOMAIN orden = 1 .. N
  BY DEF EsLista
<1>p. ASSUME NEW j \in 1 .. N
      PROVE  /\ Puestos(f, orden, j - 1) \subseteq Hay(archivos) \ {f}
             /\ orden[j] \in Hay(archivos)
             /\ orden[j] \notin Puestos(f, orden, j - 1)
             /\ orden[j] = f => Puestos(f, orden, j) = Puestos(f, orden, j - 1)
             /\ orden[j] # f => Puestos(f, orden, j) = Puestos(f, orden, j - 1) \cup {orden[j]}
  <2> HIDE DEF A
  <2> QED
    BY PuestosPaso
<1>1. 0 \in A
  <2>1. 1 .. 0 = {}
    OBVIOUS
  <2>2. Puestos(f, orden, 0) = {}
    BY <2>1 DEF Puestos
  <2> QED
    BY <2>2 DEF ConTextos
<1>2. ASSUME NEW n \in Nat, n \in A
      PROVE  n + 1 \in A
  <2> SUFFICES ASSUME n + 1 <= N
               PROVE  ConTextos(f, orden, n + 1)
    OBVIOUS
  <2> DEFINE h == Hecho(f, orden, n)
             z == Hecho(f, orden, n + 1)
             S == Puestos(f, orden, n)
             g == orden[n + 1]
             b == buscar_primer_bloque_libre(h.bits)
             t == Legible(bloques, archivos[g])
  <2>a. n \in 0 .. N /\ n + 1 \in 0 .. N /\ n + 1 \in 1 .. N /\ (n + 1) - 1 = n
    BY <1>0
  <2>b. Colocado(f, orden, n) /\ ConTextos(f, orden, n)
    BY <1>2, <2>a, ColocadoSiempre
  <2>c. Colocado(f, orden, n + 1) /\ SinHuecos(f, orden, n + 1)
    BY <2>a, ColocadoSiempre
  <2>d. z = Acomoda(f, h, g)
    <3>1. \A j \in 1 .. N : Hecho(f, orden, j) = Acomoda(f, Hecho(f, orden, j - 1), orden[j])
      BY <1>0, HechoPaso
    <3>2. Hecho(f, orden, n + 1) = Acomoda(f, Hecho(f, orden, (n + 1) - 1), orden[n + 1])
      BY <2>a, <3>1
    <3> QED
      BY <2>a, <3>2
  <2>e. /\ S \subseteq Hay(archivos) \ {f} /\ g \in Hay(archivos) /\ g \notin S
        /\ g = f => Puestos(f, orden, n + 1) = S
        /\ g # f => Puestos(f, orden, n + 1) = S \cup {g}
    <3> DEFINE k1 == n + 1
    <3>1. k1 \in 1 .. N /\ k1 - 1 = n
      BY <2>a
    <3> HIDE DEF k1
    <3>2. /\ Puestos(f, orden, k1 - 1) \subseteq Hay(archivos) \ {f}
          /\ orden[k1] \in Hay(archivos)
          /\ orden[k1] \notin Puestos(f, orden, k1 - 1)
          /\ orden[k1] = f => Puestos(f, orden, k1) = Puestos(f, orden, k1 - 1)
          /\ orden[k1] # f => Puestos(f, orden, k1) = Puestos(f, orden, k1 - 1) \cup {orden[k1]}
      BY <3>1, <1>p
    <3> QED
      BY <3>1, <3>2 DEF k1
  <2>f. ~ z.falla /\ ~ h.falla
    BY <2>b, <2>c DEF Colocado
  <2> HIDE DEF S, g
  <2>g. CASE g = f
    <3>1. z = h
      <4>1. z = [h EXCEPT !.falla = TRUE] \/ z = h
        BY <2>d, <2>g DEF Acomoda
      <4>2. [h EXCEPT !.falla = TRUE].falla = TRUE
        BY <2>b DEF Colocado
      <4> QED
        BY <2>f, <4>1, <4>2
    <3> QED
      BY <2>b, <2>e, <2>g, <3>1 DEF ConTextos, S
  <2>h. CASE g # f
    <3> DEFINE q == Techo(Tam(g))
    <3>1. ~ (b < 0)
      <4> SUFFICES ASSUME b < 0
                   PROVE  FALSE
        OBVIOUS
      <4>1. z = [h EXCEPT !.falla = TRUE]
        BY <2>d DEF Acomoda
      <4>2. [h EXCEPT !.falla = TRUE].falla = TRUE
        BY <2>b DEF Colocado
      <4> QED
        BY <2>f, <4>1, <4>2
    <3>2. z = [bits |-> h.bits \cup Rango(b, q),
               cs |-> Escrito(h.cs, b, 0, t),
               arch |-> [h.arch EXCEPT ![g].BLOQUE_INICIAL = b],
               falla |-> FALSE]
      BY <2>d, <2>f, <2>h, <3>1 DEF Acomoda
    <3>3. /\ z.cs = Escrito(h.cs, b, 0, t)
          /\ z.arch = [h.arch EXCEPT ![g].BLOQUE_INICIAL = b]
      BY <3>2
    <3>4. b \in Nat /\ b \in Bits
      BY <3>1, PrimeroEs DEF Libres
    <3> HIDE DEF z, h, b, t
    <3>5. /\ archivos[g] \in Metadatos /\ Tam(g) = archivos[g].TAMANIO_ARCHIVO
          /\ Tam(g) \in Nat /\ g \in Nombres
      BY <2>e, HayEs DEF Tam, Metadatos
    <3>6. q \in Nat \ {0} /\ Ocupa(Tam(g)) = q /\ Tam(g) <= q * tamanio_bloques
      BY <2>e, <2>h, <3>5, TechoEs
    <3>7. h.arch \in TablasDe /\ h.arch[g] = archivos[g]
      BY <2>b, <2>e, <3>5 DEF Colocado, S, h
    <3>8. /\ z.arch[g] = [archivos[g] EXCEPT !.BLOQUE_INICIAL = b]
          /\ \A i \in S : z.arch[i] = h.arch[i]
      <4>1. \A i \in S : i \in Nombres /\ i # g
        BY <2>e, HayEs
      <4> QED
        BY <3>3, <3>5, <3>7, <4>1 DEF TablasDe
    <3>9. z.arch[g].BLOQUE_INICIAL = b /\ z.arch[g].TAMANIO_ARCHIVO = Tam(g)
      BY <3>5, <3>8 DEF Metadatos
    <3>10. Tramo(z.arch[g]) = Rango(b, q)
      BY <3>6, <3>9 DEF Tramo
    <3>11. \A i \in S : Tramo(z.arch[i]) \cap Rango(b, q) = {}
      BY <2>c, <2>e, <2>h, <3>10 DEF SinHuecos, z
    <3>12. z.bits \subseteq Bits
      <4>1. PICK m \in Nat : /\ z.bits = 0 .. m - 1
                             /\ m <= Cardinality(Usados(archivos, S \cup {g}))
        BY <2>c, <2>e, <2>h DEF Colocado, z
      <4>2. Usados(archivos, S \cup {g}) \in SUBSET Usados(archivos, Hay(archivos) \ {f})
        BY <2>e, <2>h DEF Usados
      <4>3. IsFiniteSet(Usados(archivos, Hay(archivos) \ {f}))
        BY UsadosEnBits
      <4>4. /\ Cardinality(Usados(archivos, S \cup {g}))
                  <= Cardinality(Usados(archivos, Hay(archivos) \ {f}))
            /\ Cardinality(Usados(archivos, S \cup {g})) \in Nat
            /\ Cardinality(Usados(archivos, Hay(archivos) \ {f})) \in Nat
        BY <4>2, <4>3, FS_Subset, FS_CardinalityType
      <4>5. m < tam_bitmap
        BY <4>1, <4>4, TamBitmap
      <4> QED
        BY <4>1, <4>5, TamBitmap DEF Bits
    <3>13. \A i \in S \cup {g} : Tramo(z.arch[i]) \subseteq Bits
      <4>1. \A i \in S \cup {g} : Tramo(z.arch[i]) \subseteq z.bits
        BY <2>c, <2>e, <2>h DEF SinHuecos, Usados, z
      <4> QED
        BY <3>12, <4>1
    <3>14. Len(t) \in Nat /\ Len(t) <= Tam(g)
      BY <3>5, LegibleSinNul DEF t
    <3>15. Len(t) <= q * tamanio_bloques
      <4>1. q * tamanio_bloques \in Nat
        BY <3>6, ParametrosFS
      <4> QED
        BY <3>5, <3>6, <3>14, <4>1
    <3>16. Rango(b, q) \subseteq Bits
      BY <3>10, <3>13
    <3> HIDE DEF q
    <3>17. BienEscrito(h.cs, b, q, t)
      BY <3>4, <3>6, <3>14, <3>15, <3>16, EscritoEnBloques
    <3>18. ASSUME NEW j \in S, NEW i \in 1 .. Len(Legible(bloques, archivos[j]))
           PROVE  /\ InicioDe(z.arch[j].BLOQUE_INICIAL) + i - 1 \in Celdas
                  /\ z.cs[InicioDe(z.arch[j].BLOQUE_INICIAL) + i - 1]
                        = Legible(bloques, archivos[j])[i]
      <4> DEFINE w == z.arch[j]
                 c == InicioDe(w.BLOQUE_INICIAL) + i - 1
      <4>1. w = h.arch[j]
        BY <3>8
      <4>2. c \in Celdas /\ h.cs[c] = Legible(bloques, archivos[j])[i]
        BY <2>b, <4>1 DEF ConTextos, S, h
      <4>3. j \in Nombres /\ archivos[j] \in Metadatos
        BY <2>e, HayEs
      <4>4. w \in Metadatos /\ w.TAMANIO_ARCHIVO = archivos[j].TAMANIO_ARCHIVO
        <5>1. /\ h.arch[j].TAMANIO_ARCHIVO = archivos[j].TAMANIO_ARCHIVO
              /\ h.arch[j] # SinArchivo
          BY <2>b DEF Colocado, S, h
        <5> QED
          BY <3>7, <4>1, <4>3, <5>1 DEF TablasDe
      <4>5. Tramo(w) \subseteq Bits /\ Tramo(w) \cap Rango(b, q) = {}
        BY <3>11, <3>13
      <4>6. i \in Nat /\ 1 <= i /\ i <= w.TAMANIO_ARCHIVO
        <5>1. Len(Legible(bloques, archivos[j])) \in 0 .. archivos[j].TAMANIO_ARCHIVO
          BY <4>3, LegibleSinNul
        <5>2. w.TAMANIO_ARCHIVO \in Nat
          BY <4>4 DEF Metadatos
        <5> QED
          BY <4>4, <5>1, <5>2
      <4>7. Escrito(h.cs, b, 0, t)[c] = h.cs[c]
        <5> HIDE DEF w
        <5> QED
          BY <3>4, <3>6, <3>17, <4>2, <4>4, <4>5, <4>6, AjenoAlEscrito
      <4> QED
        BY <3>3, <4>2, <4>7
    <3>19. Puestos(f, orden, n + 1) = S \cup {g}
      BY <2>e, <2>h
    <3> QED
      BY <3>3, <3>9, <3>17, <3>18, <3>19 DEF ConTextos, BienEscrito, z, t
  <2> QED
    BY <2>g, <2>h
<1>3. Nat \subseteq A
  <2> HIDE DEF A
  <2> QED
    BY <1>1, <1>2, InduccionNat
<1>4. k \in A /\ k <= N
  BY <1>0, <1>3
<1> QED
  BY <1>4

LEMMA TruncaYCompactaIntacto ==
  ASSUME BytesJustos, InvarianteFS, descuidos = {}, descuidos' = {},
         NEW f \in Hay(archivos), NEW n \in Nat, TruncaYCompacta(f, n),
         NEW g \in Hay(archivos)
  PROVE  Conserva(g)
<1> DEFINE S == Hay(archivos) \ {f}
           T == Legible(bloques, archivos[f])
<1>1. /\ TipoFS /\ Exacto(archivos, bitmap)
      /\ archivos \in TablasDe /\ bloques \in Memorias
      /\ f \in Nombres /\ g \in Nombres /\ Existe(f)
      /\ archivos[f] \in Metadatos /\ archivos[g] \in Metadatos
      /\ Tam(f) = archivos[f].TAMANIO_ARCHIVO /\ Tam(f) \in Nat
      /\ Existentes = Hay(archivos)
  BY TipoDe, HayEs DEF InvarianteFS, Hay, Existe, Existentes, Metadatos
<1>2. PICK orden \in Ordenes(Existentes) :
        LET fin == Compactado(f, orden)
            b == buscar_primer_bloque_libre(fin.bits)
        IN  IF fin.falla
            THEN /\ bitmap' = fin.bits
                 /\ archivos' = fin.arch
                 /\ dialfs' = "colgado"
                 /\ UNCHANGED bloques
            ELSE /\ bitmap' = fin.bits \cup Rango(b, Techo(n))
                 /\ archivos' = [fin.arch EXCEPT ![f] = Metadata(b, n)]
                 /\ bloques' = Escrito(fin.cs, b, 0, Legible(bloques, archivos[f]))
                 /\ UNCHANGED dialfs
  BY DEF TruncaYCompacta
<1> DEFINE fin == Compactado(f, orden)
           b == buscar_primer_bloque_libre(fin.bits)
<1>3. \A i \in S : Tam(i) # 0
  BY <1>1 DEF TruncaYCompacta
<1>4. /\ ~ fin.falla
      /\ fin.arch \in TablasDe
      /\ \A i \in S : /\ fin.arch[i].BLOQUE_INICIAL \in Bits
                      /\ fin.arch[i].TAMANIO_ARCHIVO = archivos[i].TAMANIO_ARCHIVO
                      /\ fin.arch[i] # SinArchivo
      /\ b \in Nat
      /\ fin.bits \subseteq Bits
      /\ Rango(b, Techo(n)) \subseteq Bits \ fin.bits
      /\ fin.bits = Usados(fin.arch, S)
  <2>1. Crece(f, n) /\ comprobar_espacio_libre(liberar_espacio_bitmap(f), Techo(n))
    BY DEF TruncaYCompacta
  <2>2. /\ ~ fin.falla
        /\ fin.arch \in TablasDe
        /\ \A i \in Nombres \ S : fin.arch[i] = archivos[i]
        /\ \A i \in S : /\ fin.arch[i].BLOQUE_INICIAL \in Bits
                        /\ fin.arch[i].TAMANIO_ARCHIVO = archivos[i].TAMANIO_ARCHIVO
                        /\ fin.arch[i] # SinArchivo
        /\ fin.cs \in Memorias
        /\ b \in Bits /\ b \in Nat
        /\ fin.bits \subseteq Bits
        /\ Rango(b, Techo(n)) \subseteq Bits \ fin.bits
        /\ (\A i \in S : Tam(i) # 0) =>
              /\ fin.bits = Usados(fin.arch, S)
              /\ \A i, j \in S : i # j => Tramo(fin.arch[i]) \cap Tramo(fin.arch[j]) = {}
    <3> HIDE DEF T
    <3> QED
      BY <1>1, <2>1, CompactaEs
  <2> HIDE DEF S, fin, b
  <2> QED
    BY <1>3, <2>2
<1>5. \A i \in S : \A j \in 1 .. Len(Legible(bloques, archivos[i])) :
         /\ InicioDe(fin.arch[i].BLOQUE_INICIAL) + j - 1 \in Celdas
         /\ fin.cs[InicioDe(fin.arch[i].BLOQUE_INICIAL) + j - 1]
               = Legible(bloques, archivos[i])[j]
  <2>1. PICK N : EsLista(orden, N) /\ \A i : Puestos(i, orden, N) = Hay(archivos) \ {i}
    BY <1>1, OrdenEs
  <2>2. N \in Nat /\ DOMAIN orden = 1 .. N /\ N \in 0 .. N
    BY <2>1 DEF EsLista
  <2>3. fin = Hecho(f, orden, N) /\ Puestos(f, orden, N) = S
    BY <2>1, <2>2, HechoPaso
  <2>4. Cardinality(Usados(archivos, S)) < tam_bitmap
    <3>1. /\ liberar_espacio_bitmap(f) = Usados(archivos, S)
          /\ Cardinality(liberar_espacio_bitmap(f)) \in Nat
          /\ Cardinality(Libres(liberar_espacio_bitmap(f)))
                = tam_bitmap - Cardinality(liberar_espacio_bitmap(f))
      BY <1>1, LiberarEs
    <3>2. Techo(n) \in Nat \ {0}
      BY <1>1, CreceEs DEF TruncaYCompacta
    <3> HIDE DEF S
    <3> QED
      BY <3>1, <3>2, TamBitmap DEF TruncaYCompacta, comprobar_espacio_libre
  <2>5. ConTextos(f, orden, N)
    BY <1>1, <1>3, <2>1, <2>2, <2>4, ConTextosSiempre
  <2> HIDE DEF fin, S
  <2> QED
    BY <2>3, <2>5 DEF ConTextos
<1> HIDE DEF fin, b
<1>6. /\ archivos' = [fin.arch EXCEPT ![f] = Metadata(b, n)]
      /\ bloques' = Escrito(fin.cs, b, 0, T)
  BY <1>2, <1>4 DEF fin, b
<1>7. Tam(f) < n /\ Tam(f) <= Techo(n) * tamanio_bloques /\ Techo(n) \in Nat \ {0}
  BY <1>1, CreceMas DEF TruncaYCompacta
<1>8. Len(T) \in Nat /\ Len(T) <= Tam(f)
  BY <1>1, LegibleSinNul
<1> HIDE DEF T
<1>9. BienEscrito(fin.cs, b, Techo(n), T)
  <2>1. Len(T) <= Techo(n) * tamanio_bloques
    <3>1. Techo(n) * tamanio_bloques \in Nat
      BY <1>7, ParametrosFS
    <3> QED
      BY <1>1, <1>7, <1>8, <3>1
  <2>2. Rango(b, Techo(n)) \subseteq Bits
    BY <1>4
  <2> QED
    BY <1>4, <1>7, <1>8, <2>1, <2>2, EscritoEnBloques
<1>10. CASE g = f
  <2>1. archivos'[f] = Metadata(b, n)
    BY <1>1, <1>4, <1>6 DEF TablasDe
  <2>2. /\ archivos'[g] \in Metadatos /\ archivos'[g].BLOQUE_INICIAL = b
        /\ archivos'[g].TAMANIO_ARCHIVO >= archivos[g].TAMANIO_ARCHIVO
    BY <1>1, <1>4, <1>7, <1>10, <2>1 DEF Metadata, Metadatos
  <2>3. \A i \in 1 .. Len(T) : /\ InicioDe(b) + i - 1 \in Celdas
                               /\ bloques'[InicioDe(b) + i - 1] = T[i]
    BY <1>6, <1>9 DEF BienEscrito
  <2> QED
    BY <1>10, <2>2, <2>3, ConservaMudado DEF T
<1>11. CASE g # f
  <2> DEFINE w == fin.arch[g]
             t == Legible(bloques, archivos[g])
  <2>1. archivos'[g] = w
    BY <1>1, <1>4, <1>6, <1>11 DEF TablasDe
  <2>2. w \in Metadatos /\ w.TAMANIO_ARCHIVO = archivos[g].TAMANIO_ARCHIVO
        /\ w.TAMANIO_ARCHIVO \in Nat
    BY <1>1, <1>4, <1>11 DEF TablasDe, Metadatos
  <2>3. Tramo(w) \subseteq Bits /\ Tramo(w) \cap Rango(b, Techo(n)) = {}
    <3>1. Tramo(w) \subseteq fin.bits
      BY <1>4, <1>11 DEF Usados
    <3> QED
      BY <1>4, <3>1
  <2>4. Len(t) \in 0 .. w.TAMANIO_ARCHIVO
    BY <1>1, <2>2, LegibleSinNul
  <2>5. \A j \in 1 .. Len(t) : /\ InicioDe(w.BLOQUE_INICIAL) + j - 1 \in Celdas
                               /\ fin.cs[InicioDe(w.BLOQUE_INICIAL) + j - 1] = t[j]
    BY <1>5, <1>11
  <2> HIDE DEF w, t
  <2>6. ASSUME NEW j \in 1 .. Len(t)
        PROVE  /\ InicioDe(w.BLOQUE_INICIAL) + j - 1 \in Celdas
               /\ bloques'[InicioDe(w.BLOQUE_INICIAL) + j - 1] = t[j]
    <3>1. j \in Nat /\ 1 <= j /\ j <= w.TAMANIO_ARCHIVO
      BY <2>2, <2>4
    <3>2. Escrito(fin.cs, b, 0, T)[InicioDe(w.BLOQUE_INICIAL) + j - 1]
             = fin.cs[InicioDe(w.BLOQUE_INICIAL) + j - 1]
      <4>1. InicioDe(w.BLOQUE_INICIAL) + j - 1 \in Celdas
        BY <2>5
      <4>2. b \in Nat /\ Techo(n) \in Nat \ {0} /\ w \in Metadatos
        BY <1>4, <1>7, <2>2
      <4> QED
        BY <1>9, <2>3, <3>1, <4>1, <4>2, AjenoAlEscrito
    <3> QED
      BY <1>6, <2>5, <3>2
  <2>7. archivos'[g].TAMANIO_ARCHIVO >= archivos[g].TAMANIO_ARCHIVO
    BY <2>1, <2>2
  <2> QED
    BY <2>1, <2>2, <2>6, <2>7, ConservaMudado DEF t
<1> QED
  BY <1>10, <1>11

LEMMA TruncaIntacto ==
  ASSUME BytesJustos, InvarianteFS, descuidos = {}, descuidos' = {},
         NEW f \in Nombres, NEW n \in Tamanios, TruncarArchivo(f, n),
         NEW g \in Hay(archivos)
  PROVE  Intacto(g)
<1>1. f \in Hay(archivos) /\ n \in Nat
  BY ParametrosFS DEF TruncarArchivo, Existe, Hay
<1>2. ~ TruncaIgual(f, n)
  BY DEF TruncaIgual
<1>3. CASE TruncaEnElLugar(f, n)
  BY <1>1, <1>3, TruncaEnElLugarIntacto DEF Intacto
<1>4. CASE TruncaSinEspacio(f, n)
  <2>1. archivos' = archivos /\ bloques' = bloques
    BY <1>4 DEF TruncaSinEspacio
  <2> QED
    BY <2>1, ConservaQuieto DEF Intacto
<1>5. CASE TruncaYMuda(f, n)
  BY <1>1, <1>5, TruncaYMudaIntacto DEF Intacto
<1>6. CASE TruncaYCompacta(f, n)
  BY <1>1, <1>6, TruncaYCompactaIntacto DEF Intacto
<1> QED
  BY <1>2, <1>3, <1>4, <1>5, <1>6 DEF TruncarArchivo

\* The text of a file survives whatever is done to the others and its own
\* truncations: wiped blocks, moves and compactions reach no byte of another
\* file, and what is moved is moved whole (dialfs.c:346, truncar_archivo, and
\* dialfs.c:502, compactar).
THEOREM TextoIntactoSiempre ==
  ASSUME BytesJustos
  PROVE  SpecFS => TextoIntacto
<1> DEFINE Intactos ==
             descuidos' = {} =>
                \A f \in Existentes :
                   \/ ~ Existe(f)' \/ Conserva(f)
                   \/ \E p \in Punteros, l \in Largos : EscribirArchivo(f, p, l)
<1>1. ASSUME InvarianteFS, [NextFS]_fsVars
      PROVE  [Intactos]_fsVars
  <2> SUFFICES ASSUME descuidos' = {}, fsVars' # fsVars, NEW g \in Existentes
               PROVE  Intacto(g)
    BY DEF Intacto
  <2>1. g \in Hay(archivos)
    BY DEF Existentes, Existe, Hay
  <2>2. CASE descuidos = {} /\ \E f \in Nombres : CrearArchivo(f)
    BY <1>1, <2>1, <2>2, CreaIntacto
  <2>3. CASE descuidos = {} /\ \E f \in Nombres : EliminarArchivo(f)
    BY <1>1, <2>1, <2>3, EliminaIntacto
  <2>4. CASE descuidos = {} /\ \E f \in Nombres, p \in Punteros, l \in Largos :
                                  EscribirArchivo(f, p, l)
    BY <1>1, <2>1, <2>4, EscribeIntacto
  <2>5. CASE descuidos = {} /\ \E f \in Nombres, n \in Tamanios : TruncarArchivo(f, n)
    BY <1>1, <2>1, <2>5, TruncaIntacto
  <2>6. CASE descuidos = {} /\ \E f \in Nombres, n \in Tamanios : CaeTruncando(f, n)
    BY <2>6 DEF CaeTruncando
  <2>7. CASE descuidos = {} /\ Reinicia
    <3>1. archivos' = archivos /\ bloques' = bloques
      BY <2>7 DEF Reinicia
    <3> QED
      BY <1>1, <2>1, <2>7, <3>1, ConservaQuieto DEF Intacto
  <2>8. CASE Mezclados
    BY <2>8 DEF Mezclados
  <2> QED
    BY <1>1, <2>2, <2>3, <2>4, <2>5, <2>6, <2>7, <2>8 DEF NextFS
<1> QED
  BY <1>1, InvarianteFSSiempre, PTL DEF SpecFS, TextoIntacto
=============================================================================
