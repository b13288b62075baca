-------------------------------- MODULE DialFS --------------------------------
(***************************************************************************)
(* The file system of a DIALFS interface: entradasalida/src/dialfs.c.  One *)
(* thread serves the kernel's operations one by one on a bitmap and blocks *)
(* that are mapped from files, and one metadata file for each file; the     *)
(* process may be started again on what is left of them.  A file is a run   *)
(* of blocks, which growing may move and compact.                          *)
(***************************************************************************)
EXTENDS Integers, SequencesExt, FiniteSets

CONSTANTS
    Nombres,             \* of files
    cantidad_bloques, tamanio_bloques,   \* BLOCK_COUNT and BLOCK_SIZE
    BitsPorByte,         \* of the bitmap, 8 in the code
    Tamanios,            \* the sizes that IO_FS_TRUNCATE asks for
    Punteros, Largos     \* where IO_FS_WRITE writes, and how much

ASSUME ParametrosFS ==
    /\ IsFiniteSet(Nombres)
    /\ cantidad_bloques \in Nat \ {0} /\ tamanio_bloques \in Nat \ {0}
    /\ BitsPorByte \in Nat \ {0}
    /\ Tamanios \subseteq Nat /\ Punteros \subseteq Nat
    /\ Largos \subseteq Nat \ {0}

VARIABLES
    dialfs,              \* "vivo", "muerto" by exit, "colgado" for ever
    archivos,            \* the metadata of each file, SinArchivo for no file
    bitmap,              \* the blocks whose bit is set
    bloques,             \* each byte: NUL, or the file whose text it is
    ultima_posicion,     \* static of buscar_siguiente_bloque_libre
    logrado,             \* what the last operation returned
    descuidos            \* history: the ways by which blocks were mixed up

fsVars == << dialfs, archivos, bitmap, bloques, ultima_posicion, logrado,
             descuidos >>

Techo(n) == (n + tamanio_bloques - 1) \div tamanio_bloques

\* inicializar_bitmap: whole bytes of bits.
tam_bitmap ==
    ((cantidad_bloques + BitsPorByte - 1) \div BitsPorByte) * BitsPorByte
Bits == 0 .. (tam_bitmap - 1)
Celdas == 0 .. (cantidad_bloques * tamanio_bloques - 1)

NUL == "nul"
SinArchivo == [BLOQUE_INICIAL |-> 0, TAMANIO_ARCHIVO |-> 0 - 1]
Existe(f) == archivos[f] # SinArchivo
Inicio(f) == archivos[f].BLOQUE_INICIAL
Tam(f) == archivos[f].TAMANIO_ARCHIVO
Existentes == { f \in Nombres : Existe(f) }

Causas == {"mismo_tamano", "a_cero", "sin_lugar", "compacta_vacio", "desborde",
           "caida"}

InitFS ==
    /\ dialfs = "vivo"
    /\ archivos = [f \in Nombres |-> SinArchivo]
    /\ bitmap = {}
    /\ bloques = [c \in Celdas |-> NUL]
    /\ ultima_posicion = 0
    /\ logrado = TRUE
    /\ descuidos = {}

-----------------------------------------------------------------------------
(* The bitmap.                                                             *)

Rango(b, n) == b .. (b + n - 1)
Libres(bits) == Bits \ bits
Menor(S) == CHOOSE i \in S : \A j \in S : i <= j

\* -1 when there is none.
buscar_primer_bloque_libre(bits) ==
    IF Libres(bits) = {} THEN 0 - 1 ELSE Menor(Libres(bits))

\* From position u on; a second turn begins at 0 only when u is at the end.
buscar_siguiente_bloque_libre(bits, u) ==
    LET desde(k) == { i \in Libres(bits) : i >= k }
        v == IF desde(u) = {} /\ u >= tam_bitmap - 1 THEN 0 ELSE u
    IN  IF desde(v) = {} THEN [bloque |-> 0 - 1, ultima |-> v]
        ELSE [bloque |-> Menor(desde(v)), ultima |-> Menor(desde(v)) + 1]

\* Mutant: the blocks beyond the end count as free.
CabeRecortado(bits, b, n) == Rango(b, n) \cap Bits \subseteq Libres(bits)

Cabe(bits, b, n) == Rango(b, n) \subseteq Libres(bits)

\* Two candidates are tried, from whatever position the last search left.
buscar_espacio_bitmap(bits, n, u) ==
    LET uno == buscar_siguiente_bloque_libre(bits, u)
        dos == buscar_siguiente_bloque_libre(bits, uno.ultima)
    IN  CASE uno.bloque < 0 -> uno
          [] uno.bloque >= 0 /\ Cabe(bits, uno.bloque, n) -> uno
          [] uno.bloque >= 0 /\ ~ Cabe(bits, uno.bloque, n) ->
                IF dos.bloque >= 0 /\ Cabe(bits, dos.bloque, n) THEN dos
                ELSE [dos EXCEPT !.bloque = 0 - 1]

\* Mutant: one block more is asked for.
EspacioDeMas(bits, n) == Cardinality(Libres(bits)) > n

comprobar_espacio_libre(bits, n) == Cardinality(Libres(bits)) >= n

\* liberar_espacio_bitmap: an empty file has one block.
Ocupa(tam) == IF tam = 0 THEN 1 ELSE Techo(tam)
\* Mutant: a block more is given back.
LiberaDeMas(f) == bitmap \ Rango(Inicio(f), Ocupa(Tam(f)) + 1)

liberar_espacio_bitmap(f) == bitmap \ Rango(Inicio(f), Ocupa(Tam(f)))

-----------------------------------------------------------------------------
(* The blocks.                                                             *)

\* obtener_inicio_bloque
InicioDe(b) == IF b \in 0 .. cantidad_bloques - 1 THEN b * tamanio_bloques
               ELSE 0 - 1

\* limpiar_bloques
Limpiadas(cs, b, n) ==
    [c \in Celdas |-> IF c \in Rango(InicioDe(b), n) THEN NUL ELSE cs[c]]

\* obtener_texto of a whole file, as the strlen of its readers sees it: up to
\* the first NUL.
Legible(cs, m) ==
    LET base == InicioDe(m.BLOQUE_INICIAL)
        lleno(k) == \A i \in 0 .. k - 1 : base + i \in Celdas /\ cs[base + i] # NUL
        n == CHOOSE k \in 0 .. m.TAMANIO_ARCHIVO :
                lleno(k) /\ (k = m.TAMANIO_ARCHIVO \/ ~ lleno(k + 1))
    IN  [i \in 1 .. n |-> cs[base + i - 1]]

\* escribir_texto_en_bloques: nothing is checked against the size.
Escrito(cs, b, puntero, texto) ==
    LET base == InicioDe(b) + puntero
    IN  [c \in Celdas |-> IF c \in Rango(base, Len(texto))
                          THEN texto[c - base + 1] ELSE cs[c]]

-----------------------------------------------------------------------------
(* crear_archivo, eliminar_archivo, escribir_archivo.  leer_archivo changes *)
(* nothing here.                                                           *)

Metadata(b, n) == [BLOQUE_INICIAL |-> b, TAMANIO_ARCHIVO |-> n]

CrearArchivo(f) ==
    /\ dialfs = "vivo"
    /\ ~ Existe(f)
    /\ buscar_primer_bloque_libre(bitmap) >= 0
    /\ LET b == buscar_primer_bloque_libre(bitmap)
       IN  /\ bitmap' = bitmap \cup {b}
           /\ archivos' = [archivos EXCEPT ![f] = Metadata(b, 0)]
    /\ logrado' = TRUE
    /\ UNCHANGED << dialfs, bloques, ultima_posicion, descuidos >>

\* Mutant: the bits are computed from the size alone.
EliminaSinElVacio(f) ==
    /\ dialfs = "vivo"
    /\ Existe(f)
    /\ bitmap' = bitmap \ Rango(Inicio(f), Techo(Tam(f)))
    /\ bloques' = Limpiadas(bloques, Inicio(f), Tam(f))
    /\ archivos' = [archivos EXCEPT ![f] = SinArchivo]
    /\ logrado' = TRUE
    /\ UNCHANGED << dialfs, ultima_posicion, descuidos >>

EliminarArchivo(f) ==
    /\ dialfs = "vivo"
    /\ Existe(f)
    /\ bitmap' = liberar_espacio_bitmap(f)
    /\ bloques' = Limpiadas(bloques, Inicio(f), Tam(f))
    /\ archivos' = [archivos EXCEPT ![f] = SinArchivo]
    /\ logrado' = TRUE
    /\ UNCHANGED << dialfs, ultima_posicion, descuidos >>

\* The interface ends when there is no such file, it is empty, or the memory
\* does not give the text.
EscribirArchivo(f, puntero, largo) ==
    /\ dialfs = "vivo"
    /\ \/ /\ Existe(f) /\ Tam(f) > 0
          /\ bloques' = Escrito(bloques, Inicio(f), puntero,
                                [i \in 1 .. largo |-> f])
          /\ descuidos' = descuidos \cup
                (IF puntero + largo > Tam(f) THEN {"desborde"} ELSE {})
          /\ UNCHANGED dialfs
       \/ /\ dialfs' = "muerto"
          /\ UNCHANGED << bloques, descuidos >>
    /\ logrado' = TRUE
    /\ UNCHANGED << archivos, bitmap, ultima_posicion >>

\* interfaz_dialFS, run again on the files that are there.
Reinicia ==
    /\ dialfs = "muerto"
    /\ dialfs' = "vivo"
    /\ ultima_posicion' = 0 /\ logrado' = TRUE
    /\ UNCHANGED << archivos, bitmap, bloques, descuidos >>

-----------------------------------------------------------------------------
(* truncar_archivo: the bits of the file are given back first.              *)

Truncado(f, b, n) == archivos' = [archivos EXCEPT ![f] = Metadata(b, n)]

\* The size is the same: the bits stay clear.
TruncaIgual(f, n) ==
    /\ n = Tam(f)
    /\ bitmap' = liberar_espacio_bitmap(f)
    /\ descuidos' = descuidos \cup {"mismo_tamano"}
    /\ UNCHANGED << dialfs, archivos, bloques, ultima_posicion >>

Crece(f, n) ==
    Techo(n) > Techo(Tam(f)) /\ n > tamanio_bloques

\* Within one block, or to fewer: what is no longer used is wiped by blocks.
TruncaEnElLugar(f, n) ==
    /\ n # Tam(f) /\ ~ Crece(f, n)
    /\ bitmap' = liberar_espacio_bitmap(f) \cup Rango(Inicio(f), Techo(n))
    /\ bloques' =
          IF Tam(f) <= tamanio_bloques /\ n <= tamanio_bloques THEN bloques
          ELSE Limpiadas(bloques, Inicio(f) + Techo(n),
                         (Techo(Tam(f)) - Techo(n)) * tamanio_bloques)
    /\ Truncado(f, Inicio(f), n)
    /\ descuidos' = descuidos \cup (IF n = 0 THEN {"a_cero"} ELSE {})
    /\ UNCHANGED << dialfs, ultima_posicion >>

\* What an empty file had is not marked again.
TruncaSinEspacio(f, n) ==
    /\ Crece(f, n)
    /\ ~ comprobar_espacio_libre(liberar_espacio_bitmap(f), Techo(n))
    /\ bitmap' = liberar_espacio_bitmap(f) \cup Rango(Inicio(f), Techo(Tam(f)))
    /\ descuidos' = descuidos \cup (IF Tam(f) = 0 THEN {"sin_lugar"} ELSE {})
    /\ UNCHANGED << dialfs, archivos, bloques, ultima_posicion >>

Lugar(f, n) ==
    buscar_espacio_bitmap(liberar_espacio_bitmap(f), Techo(n), ultima_posicion)

\* Mutant: the old blocks are wiped last.
MudadoYLimpio(f, b) ==
    Limpiadas(Escrito(bloques, b, 0, Legible(bloques, archivos[f])),
              Inicio(f), Tam(f))

\* The text is saved, the old blocks wiped, the new ones written.
Mudado(f, b) ==
    Escrito(Limpiadas(bloques, Inicio(f), Tam(f)), b, 0,
            Legible(bloques, archivos[f]))

TruncaYMuda(f, n) ==
    /\ Crece(f, n)
    /\ comprobar_espacio_libre(liberar_espacio_bitmap(f), Techo(n))
    /\ Lugar(f, n).bloque >= 0
    /\ LET b == Lugar(f, n).bloque
       IN  /\ bitmap' = liberar_espacio_bitmap(f) \cup Rango(b, Techo(n))
           /\ bloques' = IF b = Inicio(f) THEN bloques ELSE Mudado(f, b)
           /\ Truncado(f, b, n)
    /\ ultima_posicion' = Lugar(f, n).ultima
    /\ UNCHANGED << dialfs, descuidos >>

-----------------------------------------------------------------------------
(* compactar: the other files, in the order of their first blocks, each to  *)
(* the first block that is free, and f behind them.                        *)

\* The orders in which the files may be taken; readdir decides between equals.
Ordenes(S) ==
    { s \in SetToSeqs(S) :
        \A j, k \in 1 .. Len(s) : j < k => Inicio(s[j]) <= Inicio(s[k]) }

\* One file of the list, for one that is truncated: the block is looked for
\* before it is seen that the file is f.
Acomoda(f, hecho, g) ==
    LET b == buscar_primer_bloque_libre(hecho.bits)
    IN  IF hecho.falla \/ b < 0 THEN [hecho EXCEPT !.falla = TRUE]
        ELSE IF g = f THEN hecho
        ELSE [bits |-> hecho.bits \cup Rango(b, Techo(Tam(g))),
              cs |-> Escrito(hecho.cs, b, 0, Legible(bloques, archivos[g])),
              arch |-> [hecho.arch EXCEPT ![g].BLOQUE_INICIAL = b],
              falla |-> FALSE]

Compactado(f, orden) ==
    FoldLeft(LAMBDA hecho, g : Acomoda(f, hecho, g),
             [bits |-> {}, cs |-> [c \in Celdas |-> NUL], arch |-> archivos,
              falla |-> FALSE],
             orden)

\* When the list could not be placed truncar_archivo loops for ever; the
\* last search is not looked at.  An empty file gets no block.
TruncaYCompacta(f, n) ==
    /\ Crece(f, n)
    /\ comprobar_espacio_libre(liberar_espacio_bitmap(f), Techo(n))
    /\ Lugar(f, n).bloque < 0
    /\ \E orden \in Ordenes(Existentes) :
          LET fin == Compactado(f, orden)
              b == buscar_primer_bloque_libre(fin.bits)
          IN  IF fin.falla
              THEN /\ bitmap' = fin.bits
                   /\ archivos' = fin.arch
                   /\ dialfs' = "colgado"
                   /\ UNCHANGED bloques
              ELSE /\ bitmap' = fin.bits \cup Rango(b, Techo(n))
                   /\ archivos' = [fin.arch EXCEPT ![f] = Metadata(b, n)]
                   /\ bloques' = Escrito(fin.cs, b, 0, Legible(bloques, archivos[f]))
                   /\ UNCHANGED dialfs
    /\ ultima_posicion' = Lugar(f, n).ultima
    /\ descuidos' = descuidos \cup
          (IF \E g \in Existentes \ {f} : Tam(g) = 0 THEN {"compacta_vacio"} ELSE {})

TruncarArchivo(f, n) ==
    /\ dialfs = "vivo"
    /\ Existe(f)
    /\ \/ TruncaIgual(f, n) \/ TruncaEnElLugar(f, n) \/ TruncaSinEspacio(f, n)
       \/ TruncaYMuda(f, n) \/ TruncaYCompacta(f, n)
    /\ logrado' = (~ Crece(f, n)
                   \/ comprobar_espacio_libre(liberar_espacio_bitmap(f), Techo(n)))

\* The interface may be killed while it truncates.  Bitmap and blocks are
\* mapped: what is left is what was written, and the metadata comes last.  A
\* loop over bits or bytes is one write.
Avances(f, n) ==
    LET libre == liberar_espacio_bitmap(f)
        b == IF Crece(f, n) THEN Lugar(f, n).bloque ELSE Inicio(f)
        reservado == libre \cup Rango(b, Techo(n))
        resto == Limpiadas(bloques, b + Techo(n),
                           (Ocupa(Tam(f)) - Techo(n)) * tamanio_bloques)
    IN  { << libre, bloques >> } \cup
        IF b # Inicio(f)
        THEN { << libre, Limpiadas(bloques, Inicio(f), Tam(f)) >>,
               << libre, Mudado(f, b) >>, << reservado, Mudado(f, b) >> }
        ELSE { << reservado, bloques >> } \cup
             IF Crece(f, n) THEN {} ELSE { << reservado, resto >> }

CaeTruncando(f, n) ==
    /\ dialfs = "vivo"
    /\ Existe(f) /\ n # Tam(f)
    /\ Crece(f, n) => /\ comprobar_espacio_libre(liberar_espacio_bitmap(f), Techo(n))
                      /\ Lugar(f, n).bloque >= 0
    /\ \E avance \in Avances(f, n) : bitmap' = avance[1] /\ bloques' = avance[2]
    /\ dialfs' = "muerto"
    /\ descuidos' = {"caida"}
    /\ ultima_posicion' = 0 /\ logrado' = TRUE
    /\ UNCHANGED archivos

\* Once blocks are mixed up the interface goes on, the model does not.
Mezclados ==
    /\ descuidos # {} \/ dialfs = "colgado"
    /\ UNCHANGED fsVars

NextFS ==
    \/ descuidos = {} /\ \E f \in Nombres : CrearArchivo(f)
    \/ descuidos = {} /\ \E f \in Nombres : EliminarArchivo(f)
    \/ descuidos = {} /\ \E f \in Nombres, p \in Punteros, l \in Largos : EscribirArchivo(f, p, l)
    \/ descuidos = {} /\ \E f \in Nombres, n \in Tamanios : TruncarArchivo(f, n)
    \/ descuidos = {} /\ \E f \in Nombres, n \in Tamanios : CaeTruncando(f, n)
    \/ descuidos = {} /\ Reinicia
    \/ Mezclados

SpecFS == InitFS /\ [][NextFS]_fsVars

-----------------------------------------------------------------------------

TypeOKFS ==
    /\ dialfs \in {"vivo", "muerto", "colgado"}
    /\ \A f \in Existentes : Inicio(f) \in Bits /\ Tam(f) \in Nat
    /\ bitmap \subseteq Bits /\ logrado \in BOOLEAN
    /\ bloques \in [Celdas -> Nombres \cup {NUL}]
    /\ ultima_posicion \in 0 .. tam_bitmap
    /\ descuidos \subseteq Causas

\* The blocks a file has, one at least.
BloquesDe(f) == Rango(Inicio(f), Ocupa(Tam(f)))

\* But for the known ways of mixing blocks up, the bitmap is exact: a block
\* whose bit is set belongs to one file, the others to none.  No operation
\* loses a block or gives one to two files, whatever moves and compactions
\* came before.
BloquesExactos ==
    descuidos = {} =>
        \A b \in Bits :
            Cardinality({ f \in Existentes : b \in BloquesDe(f) })
                = Cardinality({b} \cap bitmap)

\* The text of a file, up to its first NUL, survives whatever is done to the
\* others, written in them included, and its own truncations, moved or
\* compacted as it may be.
Conserva(f) ==
    IF Tam(f)' < Tam(f)
    THEN Legible(bloques, archivos[f])'
            = [k \in 1 .. Menor({Tam(f)', Len(Legible(bloques, archivos[f]))})
                 |-> Legible(bloques, archivos[f])[k]]
    ELSE IsPrefix(Legible(bloques, archivos[f]), Legible(bloques, archivos[f])')

TextoIntacto ==
    [][ descuidos' = {} =>
           \A f \in Existentes :
              \/ ~ Existe(f)' \/ Conserva(f)
              \/ \E p \in Punteros, l \in Largos : EscribirArchivo(f, p, l) ]_fsVars

\* A truncation fails, or hangs the interface (dialfs.c:454), only when the
\* free blocks, contiguous or not, and its own are too few: the search may
\* miss them, but compacting never fails to place the files.
TruncaSiHayLugar ==
    [][ descuidos' = {} /\ (dialfs' = "colgado" \/ ~ logrado') =>
          \A f \in Existentes, n \in Tamanios :
             TruncarArchivo(f, n) =>
                Cardinality(Bits \ bitmap) + Ocupa(Tam(f)) < Techo(n) ]_fsVars

\* A death in the middle of a truncation that does not compact hurts no file
\* but that one: whatever it had written, the others keep the blocks their
\* metadata says, marked, and their text (dialfs.c:373: the blocks are given
\* back before it is known where the file will be).
CaidaAcotada ==
    [][ "caida" \in descuidos' \ descuidos =>
          \A f \in Existentes, n \in Tamanios : CaeTruncando(f, n) =>
          \A g \in Existentes \ {f} :
             /\ BloquesDe(g) \subseteq bitmap'
             /\ Legible(bloques', archivos[g]) = Legible(bloques, archivos[g]) ]_fsVars
=============================================================================
