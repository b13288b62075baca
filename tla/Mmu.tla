--------------------------------- MODULE Mmu ---------------------------------
(***************************************************************************)
(* The MMU and the TLB of the CPU: cpu/src/mmu.c and cpu/src/tlb.c.  The   *)
(* age of an entry is a time in whole seconds; no operation ever takes an   *)
(* entry of a page that its process gave back out of the TLB.              *)
(***************************************************************************)
EXTENDS Memoria

CONSTANTS
    cantidad_entradas,   \* CANTIDAD_ENTRADAS_TLB of cpu.config, 0: no TLB
    algoritmo_tlb,       \* ALGORITMO_TLB of cpu.config
    MaxReloj             \* bound: seconds that pass

ASSUME ParametrosTLB ==
    /\ cantidad_entradas \in Nat /\ MaxReloj \in Nat
    /\ algoritmo_tlb \in {"FIFO", "LRU"}

VARIABLES tlb,           \* the list of entries, in order of arrival
          reloj          \* time(NULL), as it was read last

mmuVars == << tlb, reloj >>

Entrada == [pid : Proceso, pagina : Nat, marco : Marcos, last_access : Nat]

InitMmu == tlb = << >> /\ reloj = 0

\* time(NULL) is read only when an entry is used: whatever passed in between.
LeeReloj == reloj' \in reloj .. MaxReloj

\* traducir_direccion_logica: page and offset of a logical address.
Pagina(dir) == dir \div TamPagina
Desplazamiento(dir) == dir % TamPagina

\* Mutant: the entries of another process match too.
CoincideSinPid(e, p, n) == e.pagina = n

Coincide(e, p, n) == e.pid = p /\ e.pagina = n
TLB_HIT(p, n) == \E k \in 1 .. Len(tlb) : Coincide(tlb[k], p, n)

\* list_find: the first that matches.
Buscada(p, n) ==
    CHOOSE k \in 1 .. Len(tlb) :
        Coincide(tlb[k], p, n) /\ \A j \in 1 .. k - 1 : ~ Coincide(tlb[j], p, n)

\* list_get_minimum keeps the later of two entries of the same second.
MenosReciente ==
    CHOOSE k \in 1 .. Len(tlb) :
        /\ \A j \in 1 .. Len(tlb) : tlb[k].last_access <= tlb[j].last_access
        /\ \A j \in k + 1 .. Len(tlb) : tlb[k].last_access < tlb[j].last_access

Victima == IF algoritmo_tlb = "FIFO" THEN 1 ELSE MenosReciente

\* Mutant: nobody makes room.
AgregaSinLugar(p, n, m) ==
    tlb' = Append(tlb, [pid |-> p, pagina |-> n, marco |-> m,
                        last_access |-> reloj'])

agregarEntradaTLB(p, n, m) ==
    LET resto == IF Len(tlb) >= cantidad_entradas THEN RemoveAt(tlb, Victima)
                 ELSE tlb
    IN  tlb' = Append(resto, [pid |-> p, pagina |-> n, marco |-> m,
                              last_access |-> reloj'])

obtenerMarcoTLB(p, n) ==
    tlb' = [tlb EXCEPT ![Buscada(p, n)].last_access = reloj']

\* The frame of page n, from the TLB or from the page table; SinMarco ends
\* the CPU process (recibirMarco).
Marco(p, n) ==
    IF cantidad_entradas > 0 /\ TLB_HIT(p, n) THEN tlb[Buscada(p, n)].marco
    ELSE acceder_marco(p, n)

\* Mutant: the answer goes to the TLB before it is looked at.
ActualizaSinMirar(p, n) ==
    IF cantidad_entradas = 0 THEN UNCHANGED mmuVars
    ELSE /\ LeeReloj
         /\ IF TLB_HIT(p, n) THEN obtenerMarcoTLB(p, n)
            ELSE agregarEntradaTLB(p, n, Marco(p, n))

\* What the translation leaves in the TLB.
ActualizaTLB(p, n) ==
    IF cantidad_entradas = 0 \/ Marco(p, n) = SinMarco THEN UNCHANGED mmuVars
    ELSE /\ LeeReloj
         /\ IF TLB_HIT(p, n) THEN obtenerMarcoTLB(p, n)
            ELSE agregarEntradaTLB(p, n, Marco(p, n))

Fisica(p, dir) == Marco(p, Pagina(dir)) * TamPagina + Desplazamiento(dir)
=============================================================================
