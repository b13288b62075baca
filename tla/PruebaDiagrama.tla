---------------------------- MODULE PruebaDiagrama ----------------------------
(****************************************************************************)
(* That the threads of the kernel implement the diagram of states: each step *)
(* moves one process from one of its places to another as the diagram says,  *)
(* or from one to another of the same state.                                 *)
(****************************************************************************)
EXTENDS PruebaConteo, FiniteSetTheorems

USE NombresDistintos
USE DEF En, Sigue, semVars, planVars, schedVars, recVars, memVars, cpuVars,
        ioVars, conVars, consVars, otras, ConMano

\* The state of whoever is in place l.
VidaDe(l) ==
    CASE l = << "mano", "consola" >> -> "inexistente"
      [] l \in { << "cola", "new" >>, << "mano", "largo" >> } -> "NEW"
      [] l \in { << "cola", "ready" >>, << "cola", "aux" >>,
                 << "mano", "corto" >> } -> "READY"
      [] \/ l = << "exec", "exec" >>
         \/ l = << "mano", "interr" >> /\ ~ LoDespierta -> "EXEC"
      [] l = << "cola", "exit" >> -> "EXIT"
      [] OTHER -> "BLOCKED"

\* What a process that was created does in the diagram depends only on the
\* place where it is, and the others do not exist yet.
VidaEnSitio ==
    /\ \A p \in Pids, l \in Sitios : Esta(p, l) => Vida(p) = VidaDe(l)
    /\ \A p \in Pids \ Creados : Vida(p) = "inexistente"

\* It is so: no place has two names, and no process is in two places.
LEMMA VidaPorSitio == Inductivo /\ Ubicacion => VidaEnSitio
<1> SUFFICES ASSUME Inductivo, Ubicacion
             PROVE  VidaEnSitio
  OBVIOUS
<1>t. /\ HilosFijos \subseteq Hilos
      /\ {"new", "ready", "aux", "exit"} \subseteq Colas
      /\ numero_de_procesos \in Nat
  BY DEF Hilos, Colas, Inductivo, TypeOK, LocalesTypeOK
<1>1. ASSUME NEW p \in Pids, NEW l \in Sitios, Esta(p, l)
      PROVE  Vida(p) = VidaDe(l)
  <2>1. \A m \in Sitios : Esta(p, m) <=> m = l
    BY <1>1 DEF Ubicacion, UnSitio
  <2>2. ~ (p > numero_de_procesos)
    <3>1. p \in Creados
      BY <1>1 DEF Ubicacion, SinCrear, Ubicado
    <3> QED
      BY <1>t, <3>1 DEF Creados
  <2>3. /\ EnManos(p, "consola") <=> l = << "mano", "consola" >>
        /\ EnManos(p, "largo") <=> l = << "mano", "largo" >>
        /\ EnManos(p, "corto") <=> l = << "mano", "corto" >>
        /\ EnManos(p, "interr") <=> l = << "mano", "interr" >>
    <3>1. \A h \in HilosFijos : EnManos(p, h) <=> Esta(p, << "mano", h >>)
      BY DEF Esta, EnManos
    <3> QED
      BY <1>t, <2>1, <3>1, SonSitios DEF HilosFijos
  <2>4. /\ Contains(colas["new"], p) <=> l = << "cola", "new" >>
        /\ Contains(colas["ready"], p) <=> l = << "cola", "ready" >>
        /\ Contains(colas["aux"], p) <=> l = << "cola", "aux" >>
        /\ Contains(colas["exit"], p) <=> l = << "cola", "exit" >>
    <3>1. \A q \in {"new", "ready", "aux", "exit"} :
             Contains(colas[q], p) <=> Esta(p, << "cola", q >>)
      BY DEF Esta
    <3> QED
      BY <1>t, <2>1, <3>1, SonSitios
  <2>5. proceso_ejecutando = p <=> l = << "exec", "exec" >>
    <3>1. proceso_ejecutando = p <=> Esta(p, << "exec", "exec" >>)
      BY DEF Esta
    <3> QED
      BY <2>1, <3>1, SonSitios
  <2> QED
    BY <2>2, <2>3, <2>4, <2>5 DEF Vida, VidaDe
<1>2. ASSUME NEW p \in Pids \ Creados
      PROVE  Vida(p) = "inexistente"
  <2>1. p > numero_de_procesos
    BY <1>t, <1>2 DEF Creados, Pids
  <2>2. \A l \in Sitios : ~ Esta(p, l)
    BY <1>2 DEF Ubicacion, SinCrear, Ubicado
  <2>3. /\ ~ EnManos(p, "consola") /\ ~ EnManos(p, "largo")
        /\ ~ EnManos(p, "corto") /\ ~ EnManos(p, "interr")
    <3>1. \A h \in HilosFijos : EnManos(p, h) <=> Esta(p, << "mano", h >>)
      BY DEF Esta, EnManos
    <3> QED
      BY <1>t, <2>2, <3>1, SonSitios DEF HilosFijos
  <2>4. \A q \in {"new", "ready", "aux", "exit"} : ~ Contains(colas[q], p)
    <3>1. \A q \in {"new", "ready", "aux", "exit"} :
             Contains(colas[q], p) <=> Esta(p, << "cola", q >>)
      BY DEF Esta
    <3> QED
      BY <1>t, <2>2, <3>1, SonSitios
  <2>5. proceso_ejecutando # p
    <3>1. proceso_ejecutando = p <=> Esta(p, << "exec", "exec" >>)
      BY DEF Esta
    <3> QED
      BY <2>2, <3>1, SonSitios
  <2> QED
    BY <2>1, <2>3, <2>4, <2>5 DEF Vida
<1> QED
  BY <1>1, <1>2 DEF VidaEnSitio

\* The same after the step.
LEMMA VidaPorSitioDespues ==
  ASSUME Inductivo', Ubicacion'
  PROVE  VidaEnSitio'
BY VidaPorSitio, PTL

(* Steps. *)

\* What the diagram sees.
EnDiagrama == [p \in Pids |-> Vida(p)]

\* No process changes its state.
LEMMA VidaQuieta ==
  ASSUME UNCHANGED << proceso_ejecutando, numero_de_procesos >>,
         \A q \in {"new", "ready", "aux", "exit"} : colas'[q] = colas[q],
         \A h \in {"consola", "largo", "corto"} : mano'[h] = mano[h],
         \A p \in Pids :
            mano'["interr"] = p /\ ~ LoDespierta' <=>
                mano["interr"] = p /\ ~ LoDespierta
  PROVE  UNCHANGED EnDiagrama
<1> SUFFICES ASSUME NEW p \in Pids
             PROVE  Vida(p)' = Vida(p)
  BY DEF EnDiagrama
<1>1. /\ EnManos(p, "consola")' <=> EnManos(p, "consola")
      /\ EnManos(p, "largo")' <=> EnManos(p, "largo")
      /\ EnManos(p, "corto")' <=> EnManos(p, "corto")
      /\ EnManos(p, "interr")' /\ ~ LoDespierta' <=>
            EnManos(p, "interr") /\ ~ LoDespierta
  BY DEF EnManos
<1> QED
  BY <1>1 DEF Vida

\* Nor when the console takes a new pcb in its hands.
LEMMA VidaPide ==
  ASSUME numero_de_procesos \in Nat, mano["consola"] = Nadie, Nadie \notin Pids,
         numero_de_procesos' = numero_de_procesos + 1,
         mano'["consola"] = numero_de_procesos + 1,
         \A h \in {"largo", "corto", "interr"} : mano'[h] = mano[h] /\ pc'[h] = pc[h],
         UNCHANGED << colas, proceso_ejecutando >>
  PROVE  UNCHANGED EnDiagrama
<1> SUFFICES ASSUME NEW p \in Pids
             PROVE  Vida(p)' = Vida(p)
  BY DEF EnDiagrama
<1>1. p > numero_de_procesos \/ EnManos(p, "consola")
          <=> p > numero_de_procesos' \/ EnManos(p, "consola")'
  <2>1. EnManos(p, "consola")' <=> p = numero_de_procesos + 1
    BY DEF EnManos
  <2>2. ~ EnManos(p, "consola")
    BY DEF EnManos
  <2> QED
    BY <2>1, <2>2 DEF Pids
<1>2. /\ EnManos(p, "largo")' <=> EnManos(p, "largo")
      /\ EnManos(p, "corto")' <=> EnManos(p, "corto")
      /\ EnManos(p, "interr")' <=> EnManos(p, "interr")
      /\ LoDespierta' <=> LoDespierta
  BY DEF EnManos, LoDespierta
<1> QED
  BY <1>1, <1>2 DEF Vida

\* One does: that which goes from place a to place b.
LEMMA VidaMueve ==
  ASSUME VidaEnSitio, VidaEnSitio', TodosUbicados,
         NEW x \in Pids, NEW a \in Sitios, NEW b \in Sitios,
         Esta(x, a), Mueve(x, a, b), UNCHANGED numero_de_procesos,
         \/ pc'["interr"] = pc["interr"]
         \/ \A p \in Pids : mano["interr"] = p => p = x
  PROVE  /\ EnDiagrama[x] = VidaDe(a)
         /\ EnDiagrama' = [EnDiagrama EXCEPT ![x] = VidaDe(b)']
<1>1. Vida(x) = VidaDe(a) /\ Vida(x)' = VidaDe(b)'
  BY DEF VidaEnSitio, Mueve
<1>2. ASSUME NEW p \in Pids \ {x}
      PROVE  Vida(p)' = Vida(p)
  <2>1. CASE p \in Creados
    <3>1. PICK l \in Sitios : Esta(p, l)
      BY <2>1 DEF TodosUbicados, Ubicado
    <3>2. Esta(p, l)'
      BY <1>2, <3>1 DEF Mueve
    <3>3. VidaDe(l)' = VidaDe(l)
      <4>1. CASE pc'["interr"] = pc["interr"]
        BY <4>1 DEF VidaDe, LoDespierta
      <4>2. CASE \A q \in Pids : mano["interr"] = q => q = x
        <5>1. ASSUME l = << "mano", "interr" >>
              PROVE  FALSE
          <6>1. mano["interr"] = p
            BY <3>1, <5>1 DEF Esta
          <6> QED
            BY <1>2, <4>2, <6>1
        <5> QED
          BY <5>1 DEF VidaDe
      <4> QED
        BY <4>1, <4>2
    <3> QED
      BY <1>2, <3>1, <3>2, <3>3 DEF VidaEnSitio
  <2>2. CASE p \notin Creados
    BY <1>2, <2>2 DEF VidaEnSitio, Creados
  <2> QED
    BY <2>1, <2>2
<1> QED
  BY <1>1, <1>2 DEF EnDiagrama

\* The moves of the diagram that ask for nothing else.
LEMMA MovimientoLibre ==
  ASSUME NEW x \in Pids, NEW a, NEW b, D!Mueve(x, a, b),
         << a, b >> \in { << "EXEC", "READY" >>, << "EXEC", "BLOCKED" >>,
                          << "BLOCKED", "READY" >>, << "EXEC", "EXIT" >>,
                          << "BLOCKED", "EXIT" >> }
  PROVE  D!DiagramaNext
BY DEF D!DiagramaNext, D!Desalojar, D!Bloquear, D!Despertar, D!Terminar,
       D!Abortar

\* The diagram counts with the same Cardinality.
LEMMA MismoCardinal == D!Cardinality(D!Activos) = Cardinality(D!Activos)
BY DEF D!Cardinality, Cardinality

\* The states of an active process.
EsActiva(v) == v \in {"READY", "EXEC", "BLOCKED"}

\* They are finitely many.
LEMMA CuantosActivos ==
  Cardinality(D!Activos) \in Nat /\ IsFiniteSet(D!Activos)
<1>1. D!Activos \subseteq Pids
  BY DEF D!Activos
<1>2. IsFiniteSet(Pids)
  BY FS_Interval, ParametrosKernel DEF Pids
<1> QED
  BY <1>1, <1>2, FS_Subset, FS_CardinalityType

\* A move changes their number by one at most.
LEMMA ActivosMueve ==
  ASSUME NEW x \in Pids, NEW a, NEW b, D!Mueve(x, a, b)
  PROVE  /\ Cardinality(D!Activos)' =
              Cardinality(D!Activos) + Uno(EsActiva(b)) - Uno(EsActiva(a))
         /\ a = b => UNCHANGED EnDiagrama
<1>1. /\ Vida(x) = a /\ Vida(x)' = b
      /\ \A p \in Pids \ {x} : Vida(p)' = Vida(p)
  BY DEF D!Mueve
<1>2. D!Activos' = IF EsActiva(b) THEN D!Activos \cup {x} ELSE D!Activos \ {x}
  BY <1>1 DEF D!Activos, EsActiva
<1>3. x \in D!Activos <=> EsActiva(a)
  BY <1>1 DEF D!Activos, EsActiva
<1>4. /\ Cardinality(D!Activos \cup {x}) =
            IF x \in D!Activos THEN Cardinality(D!Activos)
                               ELSE Cardinality(D!Activos) + 1
      /\ Cardinality(D!Activos \ {x}) =
            IF x \in D!Activos THEN Cardinality(D!Activos) - 1
                               ELSE Cardinality(D!Activos)
  BY CuantosActivos, FS_AddElement, FS_RemoveElement
<1>5. a = b => UNCHANGED EnDiagrama
  BY <1>1 DEF EnDiagrama
<1> HIDE DEF EsActiva
<1> QED
  BY <1>2, <1>3, <1>4, <1>5, CuantosActivos DEF Uno

\* What each step has to do: a move of the diagram or none, and what the next
\* one rests on.
Refina == [D!DiagramaNext]_EnDiagrama /\ AdmiteEnOrden' /\ ActivosContados'

\* The handler is giving a token back.
Devuelve == {"aum_mira", "aum_resta"}

\* The tokens that are not given to an active process.
Cuenta ==
    cantidad_procesos_ejecutandose + Uno(pc["largo"] = "cuenta")
        - Uno(pc["interr"] \in Devuelve)

\* They cover the active ones.
LEMMA CuentaEntera ==
  Inductivo => Cuenta \in Int /\ (ActivosContados <=> Cardinality(D!Activos) <= Cuenta)
<1> SUFFICES ASSUME Inductivo
             PROVE  Cuenta \in Int /\ (ActivosContados <=> Cardinality(D!Activos) <= Cuenta)
  OBVIOUS
<1> DEFINE n == Cardinality(D!Activos)
           c == cantidad_procesos_ejecutandose
           u == Uno(pc["largo"] = "cuenta")
           v == Uno(pc["interr"] \in Devuelve)
<1>1. n \in Nat /\ c \in Int /\ u \in Int /\ v \in Int
  BY CuantosActivos DEF Inductivo, TypeOK, SemaforosTypeOK, Uno
<1>2. Cuenta = c + u - v /\ (ActivosContados <=> n + v <= c + u)
  BY DEF Cuenta, ActivosContados, Devuelve
<1> HIDE DEF n, c, u, v
<1>3. Cuenta \in Int /\ (ActivosContados <=> n <= Cuenta)
  BY <1>1, <1>2
<1> QED
  BY <1>3 DEF n

\* A step after which there are as many tokens, and no more active processes.
LEMMA ContadosCambian ==
  ASSUME Inductivo, Inductivo', ActivosContados,
         NEW k \in Int, Cardinality(D!Activos)' <= Cardinality(D!Activos) + k,
         Cuenta' >= Cuenta + k
  PROVE  ActivosContados'
<1>1. Cuenta \in Int /\ Cardinality(D!Activos) <= Cuenta
  BY CuentaEntera
<1>2. (Inductivo => Cuenta \in Int /\ (ActivosContados <=> Cardinality(D!Activos) <= Cuenta))'
  BY CuentaEntera, PTL
<1>3. (Cardinality(D!Activos) \in Nat)'
  BY CuantosActivos, PTL
<1> QED
  BY <1>1, <1>2, <1>3, CuantosActivos

\* Nobody is admitted.
LEMMA AdmiteQuieto ==
  ASSUME AdmiteEnOrden, UNCHANGED numero_de_procesos,
         colas'["new"] = colas["new"],
         mano'["largo"] = mano["largo"] \/ mano'["largo"] = Nadie,
         pc'["consola"] = "a_new" <=> pc["consola"] = "a_new"
  PROVE  AdmiteEnOrden'
BY DEF AdmiteEnOrden, Admitidos, Uno

\* A step after which every process is in the same state.
LEMMA QuietoDiagrama ==
  ASSUME AdmiteEnOrden, ActivosContados, Inductivo, Inductivo',
         UNCHANGED << proceso_ejecutando, numero_de_procesos,
                      cantidad_procesos_ejecutandose >>,
         \A q \in {"new", "ready", "aux", "exit"} : colas'[q] = colas[q],
         \A h \in {"consola", "largo", "corto"} : mano'[h] = mano[h],
         \A p \in Pids :
            mano'["interr"] = p /\ ~ LoDespierta' <=>
                mano["interr"] = p /\ ~ LoDespierta,
         pc'["consola"] = "a_new" <=> pc["consola"] = "a_new",
         pc'["largo"] = "cuenta" <=> pc["largo"] = "cuenta",
         pc'["interr"] \in Devuelve <=> pc["interr"] \in Devuelve
  PROVE  Refina
<1>1. UNCHANGED EnDiagrama
  BY VidaQuieta
<1>2. \A p \in Pids : Vida(p)' = Vida(p)
  BY <1>1 DEF EnDiagrama
<1>3. D!Activos' = D!Activos
  BY <1>2 DEF D!Activos
<1>4. AdmiteEnOrden'
  BY AdmiteQuieto
<1>5. Cuenta' = Cuenta
  BY DEF Cuenta, Uno
<1>6. ActivosContados'
  BY <1>3, <1>5, CuentaEntera, CuantosActivos, ContadosCambian, 0 \in Int
<1> QED
  BY <1>1, <1>4, <1>6 DEF Refina

\* What the invariant says before and after a step.
Antes == /\ Inductivo /\ Ubicacion /\ Enlace /\ TodosUbicados /\ Cargados
         /\ CupoExacto /\ grado_multiprogramacion = GradoInicial
         /\ pc["consola"] \in SinFin /\ AdmiteEnOrden /\ ActivosContados

\* A process that changes place makes the move of the diagram from the state
\* of the one to that of the other.
LEMMA MueveDiagrama ==
  ASSUME Antes, Inductivo', Ubicacion',
         NEW x \in Pids, NEW a \in Sitios, NEW b \in Sitios,
         Esta(x, a), Mueve(x, a, b), UNCHANGED numero_de_procesos,
         \/ pc'["interr"] = pc["interr"]
         \/ \A p \in Pids : mano["interr"] = p => p = x
  PROVE  D!Mueve(x, VidaDe(a), VidaDe(b)')
<1>1. VidaEnSitio /\ VidaEnSitio'
  BY VidaPorSitio, VidaPorSitioDespues DEF Antes
<1>2. /\ EnDiagrama[x] = VidaDe(a)
      /\ EnDiagrama' = [EnDiagrama EXCEPT ![x] = VidaDe(b)']
  BY <1>1, VidaMueve DEF Antes
<1> QED
  BY <1>2 DEF D!Mueve, EnDiagrama

\* What the lemmas of the threads take from it.
LEMMA TiposDiagrama ==
  ASSUME Antes
  PROVE  /\ pc \in [Hilos -> Etiquetas] /\ SchedulerTypeOK /\ ManoLlena
         /\ SinRepetidos /\ UnSitio /\ Inductivo
         /\ AdmiteEnOrden /\ ActivosContados
         /\ HilosFijos \subseteq Hilos /\ Interfaz \subseteq Hilos
         /\ Interfaz \cap HilosFijos = {}
         /\ {"new", "ready", "aux", "exit"} \subseteq Colas
         /\ Interfaz \subseteq Colas /\ Recurso \subseteq Colas
         /\ {"new", "ready", "aux", "exit"} \cap (Interfaz \cup Recurso) = {}
         /\ \A h \in Hilos : /\ mano[h] = Nadie <=> pc[h] \notin ConMano
                             /\ mano[h] \in Pids <=> pc[h] \in ConMano
         /\ Nadie \notin Pids
         /\ cantidad_procesos_ejecutandose \in Int
<1>1. Inductivo /\ SchedulerTypeOK /\ ManoLlena /\ Ubicacion
  BY DEF Antes, Inductivo, TypeOK
<1>2. \A h \in Hilos : /\ mano[h] = Nadie <=> pc[h] \notin ConMano
                       /\ mano[h] \in Pids <=> pc[h] \in ConMano
  BY <1>1, SinMano
<1> QED
  BY <1>1, <1>2 DEF Antes, Inductivo, TypeOK, Hilos, Colas, Bloqueados,
     Ubicacion, Nadie, Pids, SemaforosTypeOK

\* A pop.
LEMMA SacaDiagrama ==
  ASSUME Antes, Inductivo', Ubicacion', NEW h \in Hilos, NEW q \in Colas,
         pc[h] \notin ConMano, Saca(h, q), UNCHANGED numero_de_procesos,
         h # "interr" => pc'["interr"] = pc["interr"]
  PROVE  /\ mano'[h] \in Pids /\ mano'[h] = Head(colas[q])
         /\ D!Mueve(mano'[h], VidaDe(<< "cola", q >>), VidaDe(<< "mano", h >>)')
<1>1. /\ mano'[h] \in Pids /\ Esta(mano'[h], << "cola", q >>)
      /\ Mueve(mano'[h], << "cola", q >>, << "mano", h >>)
  BY TiposDiagrama, SacaMueve
<1>2. \/ pc'["interr"] = pc["interr"]
      \/ \A p \in Pids : mano["interr"] = p => p = mano'[h]
  BY TiposDiagrama
<1>3. << "cola", q >> \in Sitios /\ << "mano", h >> \in Sitios
  BY SonSitios
<1>4. PICK x \in Pids : x = mano'[h]
  BY <1>1
<1>5. D!Mueve(x, VidaDe(<< "cola", q >>), VidaDe(<< "mano", h >>)')
  BY <1>1, <1>2, <1>3, <1>4, MueveDiagrama
<1>6. mano'[h] = Head(colas[q])
  BY TiposDiagrama DEF Saca, SchedulerTypeOK
<1> QED
  BY <1>1, <1>4, <1>5, <1>6

\* A push.
LEMMA PoneDiagrama ==
  ASSUME Antes, Inductivo', Ubicacion', NEW h \in Hilos, NEW q \in Colas, NEW e,
         pc[h] \in ConMano, Pone(h, q, e), UNCHANGED numero_de_procesos,
         h # "interr" => pc'["interr"] = pc["interr"]
  PROVE  /\ mano[h] \in Pids
         /\ D!Mueve(mano[h], VidaDe(<< "mano", h >>), VidaDe(<< "cola", q >>)')
<1>1. /\ mano[h] \in Pids /\ Esta(mano[h], << "mano", h >>)
      /\ Mueve(mano[h], << "mano", h >>, << "cola", q >>)
  BY TiposDiagrama, PoneMueve
<1>2. \/ pc'["interr"] = pc["interr"]
      \/ \A p \in Pids : mano["interr"] = p => p = mano[h]
  BY TiposDiagrama
<1>3. << "cola", q >> \in Sitios /\ << "mano", h >> \in Sitios
  BY SonSitios
<1>4. PICK x \in Pids : x = mano[h]
  BY <1>1
<1>5. D!Mueve(x, VidaDe(<< "mano", h >>), VidaDe(<< "cola", q >>)')
  BY <1>1, <1>2, <1>3, <1>4, MueveDiagrama
<1> QED
  BY <1>1, <1>4, <1>5

\* The pop from EXEC by the handler.
LEMMA SacaDeExecDiagrama ==
  ASSUME Antes, Inductivo', Ubicacion', pc["interr"] \notin ConMano,
         proceso_ejecutando # Nadie, SacaDeExec("interr"),
         UNCHANGED numero_de_procesos, ~ LoDespierta'
  PROVE  proceso_ejecutando \in Pids /\ D!Mueve(proceso_ejecutando, "EXEC", "EXEC")
<1>1. /\ proceso_ejecutando \in Pids
      /\ Esta(proceso_ejecutando, << "exec", "exec" >>)
      /\ Mueve(proceso_ejecutando, << "exec", "exec" >>, << "mano", "interr" >>)
  BY TiposDiagrama, ExecMueve DEF SchedulerTypeOK, HilosFijos
<1>2. \A p \in Pids : mano["interr"] # p
  BY TiposDiagrama DEF HilosFijos
<1>3. << "exec", "exec" >> \in Sitios /\ << "mano", "interr" >> \in Sitios
  BY SonSitios, TiposDiagrama DEF HilosFijos
<1>4. PICK x \in Pids : x = proceso_ejecutando
  BY <1>1
<1>5. D!Mueve(x, VidaDe(<< "exec", "exec" >>), VidaDe(<< "mano", "interr" >>)')
  BY <1>1, <1>2, <1>3, <1>4, MueveDiagrama
<1> QED
  BY <1>1, <1>4, <1>5 DEF VidaDe

\* The long term scheduler admits the processes in the order of their pids,
\* while there are tokens.
LEMMA LargoDiagrama ==
  ASSUME Antes, Inductivo', Ubicacion', Largo, UNCHANGED otras
  PROVE  Refina
<1>t. pc'["interr"] = pc["interr"] /\ pc'["consola"] = pc["consola"]
  BY TiposDiagrama DEF Largo, LargoTomaCupo, LargoReanuda, LargoConfirma,
     LargoEsperaNew, LargoSaca, LargoSacaNada, LargoPone, LargoCuenta,
     SigueSiActiva, SaleDePausa, HilosFijos
<1>1. CASE LargoTomaCupo
  BY <1>1, <1>t, TiposDiagrama, QuietoDiagrama DEF HilosFijos, LargoTomaCupo,
     SigueSiActiva, LoDespierta
<1>2. CASE LargoReanuda
  BY <1>2, <1>t, TiposDiagrama, QuietoDiagrama DEF HilosFijos, LargoReanuda,
     SaleDePausa, LoDespierta
<1>3. CASE LargoConfirma
  BY <1>3, <1>t, TiposDiagrama, QuietoDiagrama DEF HilosFijos, LargoConfirma,
     LoDespierta
<1>4. CASE LargoEsperaNew
  BY <1>4, <1>t, TiposDiagrama, QuietoDiagrama DEF HilosFijos, LargoEsperaNew,
     LoDespierta
<1>6. CASE LargoSacaNada
  BY <1>6, <1>t, TiposDiagrama, QuietoDiagrama DEF HilosFijos, LargoSacaNada,
     LoDespierta
<1>5. CASE LargoSaca
  <2>1. /\ Saca("largo", "new") /\ pc["largo"] \notin ConMano
        /\ UNCHANGED << numero_de_procesos, cantidad_procesos_ejecutandose >>
        /\ pc'["largo"] # "cuenta" /\ pc["largo"] # "cuenta"
    BY <1>5, TiposDiagrama DEF LargoSaca, HilosFijos
  <2>2. /\ mano'["largo"] = Head(colas["new"])
        /\ D!Mueve(mano'["largo"], "NEW", "NEW") /\ mano'["largo"] \in Pids
    BY <1>t, <2>1, TiposDiagrama, SacaDiagrama DEF VidaDe, HilosFijos
  <2>3. UNCHANGED EnDiagrama /\ Cardinality(D!Activos)' = Cardinality(D!Activos)
    BY <2>2, ActivosMueve, CuantosActivos DEF Uno
  <2>4. AdmiteEnOrden'
    <3>1. /\ colas'["new"] = Tail(colas["new"]) /\ colas["new"] # << >>
          /\ colas["new"] \in Seq(Pids) /\ numero_de_procesos \in Nat
      BY <2>1, TiposDiagrama DEF Saca, SchedulerTypeOK, Inductivo, TypeOK,
         LocalesTypeOK
    <3>2. Len(colas'["new"]) = Len(colas["new"]) - 1 /\ Len(colas["new"]) \in Nat \ {0}
      BY <3>1
    <3>3. Admitidos' = Admitidos + 1 /\ Admitidos \in Int
      <4>1. PICK u : u = Uno(pc["consola"] = "a_new")
        OBVIOUS
      <4>2. u \in Int /\ Uno(pc'["consola"] = "a_new") = u
        BY <1>t, <4>1 DEF Uno
      <4>3. /\ Admitidos = numero_de_procesos - Len(colas["new"]) - u
            /\ Admitidos' = numero_de_procesos - Len(colas'["new"]) - u
        BY <2>1, <4>1, <4>2 DEF Admitidos
      <4> QED
        BY <3>1, <3>2, <4>2, <4>3
    <3>4. Head(colas["new"]) = Admitidos + 1
      BY <3>1, <3>2 DEF Antes, Cargados, NuevosEnOrden
    <3> QED
      BY <2>2, <3>3, <3>4 DEF AdmiteEnOrden
  <2>5. Cuenta' = Cuenta
    BY <1>t, <2>1 DEF Cuenta, Uno
  <2>6. ActivosContados'
    BY <2>3, <2>5, TiposDiagrama, CuentaEntera, CuantosActivos, ContadosCambian,
       0 \in Int
  <2> QED
    BY <2>3, <2>4, <2>6 DEF Refina
<1>7. CASE LargoPone
  <2> DEFINE x == mano["largo"]
  <2>1. /\ Pone("largo", "ready", "READY") /\ pc["largo"] = "pone_ready"
        /\ UNCHANGED << numero_de_procesos, cantidad_procesos_ejecutandose >>
        /\ pc'["largo"] = "cuenta"
    BY <1>7, TiposDiagrama DEF LargoPone, HilosFijos
  <2>2. x \in Pids /\ D!Mueve(x, "NEW", "READY")
    BY <1>t, <2>1, TiposDiagrama, PoneDiagrama DEF VidaDe, HilosFijos
  <2>3. Cardinality(D!Activos)' = Cardinality(D!Activos) + 1
    BY <2>2, ActivosMueve, CuantosActivos DEF Uno, EsActiva
  <2>4. Cuenta' = Cuenta + 1
    BY <1>t, <2>1, TiposDiagrama DEF Cuenta, Uno
  <2>5. ActivosContados'
    BY <2>3, <2>4, TiposDiagrama, CuentaEntera, CuantosActivos, ContadosCambian,
       1 \in Int
  <2>6. AdmiteEnOrden'
    BY <1>t, <2>1, TiposDiagrama, AdmiteQuieto DEF Pone, SchedulerTypeOK, HilosFijos
  <2>7. Cardinality(D!Activos) < GradoInicial
    <3>1. Cardinality(D!Activos) <= Cuenta
      BY TiposDiagrama, CuentaEntera
    <3>2. Cupos = GradoInicial /\ GradoInicial \in Nat
      BY ParametrosKernel DEF Antes, CupoExacto
    <3>3. /\ Cupos >= 1 + cantidad_procesos_ejecutandose
                        - Uno(pc["interr"] = "aum_resta")
          /\ Cupos \in Int
      <4>1. ~ FinalizarCuenta
        BY DEF Antes, SinFin, FinalizarCuenta
      <4>2. sem_multiprogramacion_ready \in Nat
        BY TiposDiagrama DEF Inductivo, TypeOK, SemaforosTypeOK
      <4> QED
        BY <2>1, <4>1, <4>2, TiposDiagrama DEF Cupos, Uno
    <3>4. /\ Cuenta = cantidad_procesos_ejecutandose - Uno(pc["interr"] \in Devuelve)
          /\ Uno(pc["interr"] = "aum_resta") <= Uno(pc["interr"] \in Devuelve)
          /\ Uno(pc["interr"] = "aum_resta") \in Int
          /\ Uno(pc["interr"] \in Devuelve) \in Int
      BY <2>1, TiposDiagrama DEF Cuenta, Uno, Devuelve
    <3> QED
      BY <3>1, <3>2, <3>3, <3>4, TiposDiagrama, CuantosActivos
  <2>8. D!EsElPrimero(x, "NEW")
    <3> SUFFICES ASSUME NEW q \in Pids, q < x, Vida(q) = "NEW"
                 PROVE  FALSE
      BY DEF D!EsElPrimero
    <3>1. VidaEnSitio /\ TodosUbicados /\ NuevosEnOrden /\ Ubicacion
      BY VidaPorSitio DEF Antes, Cargados
    <3>2. q \in Creados
      BY <3>1 DEF VidaEnSitio
    <3>3. PICK l \in Sitios : Esta(q, l)
      BY <3>1, <3>2 DEF TodosUbicados, Ubicado
    <3>4. VidaDe(l) = "NEW"
      BY <3>1, <3>3 DEF VidaEnSitio
    <3>5. l = << "cola", "new" >> \/ l = << "mano", "largo" >>
      BY <3>4 DEF VidaDe
    <3>6. x = Admitidos /\ Admitidos \in Int
      BY <2>2, TiposDiagrama DEF AdmiteEnOrden, Pids
    <3>7. CASE l = << "cola", "new" >>
      <4>1. Contains(colas["new"], q)
        BY <3>3, <3>7 DEF Esta
      <4>2. PICK k \in 1 .. Len(colas["new"]) : colas["new"][k] = q
        BY <4>1 DEF Contains
      <4>3. q = Admitidos + k
        BY <3>1, <4>2 DEF NuevosEnOrden
      <4> QED
        BY <3>6, <4>3
    <3>8. CASE l = << "mano", "largo" >>
      <4>1. x = q
        BY <3>3, <3>8 DEF Esta
      <4> QED
        BY <4>1 DEF Pids
    <3> QED
      BY <3>5, <3>7, <3>8
  <2> HIDE DEF x
  <2>9. D!Admitir(x)
    BY <2>2, <2>7, <2>8, MismoCardinal DEF D!Admitir
  <2> QED
    BY <2>2, <2>5, <2>6, <2>9 DEF Refina, D!DiagramaNext
<1>8. CASE LargoCuenta
  <2>1. /\ UNCHANGED << schedVars, numero_de_procesos >> /\ pc["largo"] = "cuenta"
        /\ cantidad_procesos_ejecutandose' = cantidad_procesos_ejecutandose + 1
        /\ pc'["largo"] = "multi"
    BY <1>8, TiposDiagrama DEF LargoCuenta, HilosFijos
  <2>2. UNCHANGED EnDiagrama
    BY <1>t, <2>1, VidaQuieta DEF LoDespierta
  <2>3. D!Activos' = D!Activos
    <3>1. \A p \in Pids : Vida(p)' = Vida(p)
      BY <2>2 DEF EnDiagrama
    <3> QED
      BY <3>1 DEF D!Activos
  <2>4. Cuenta' = Cuenta
    BY <1>t, <2>1, TiposDiagrama DEF Cuenta, Uno
  <2>5. ActivosContados'
    BY <2>3, <2>4, TiposDiagrama, CuentaEntera, CuantosActivos, ContadosCambian,
       0 \in Int
  <2>6. AdmiteEnOrden'
    BY <1>t, <2>1, TiposDiagrama, AdmiteQuieto
  <2> QED
    BY <2>2, <2>5, <2>6 DEF Refina
<1> QED
  BY <1>1, <1>2, <1>3, <1>4, <1>5, <1>6, <1>7, <1>8 DEF Largo

\* A move after which there are as many tokens, and no more active processes.
LEMMA RefinaMueve ==
  ASSUME Antes, Inductivo', NEW x \in Pids, NEW a, NEW b, D!Mueve(x, a, b),
         a = b \/ D!DiagramaNext,
         AdmiteEnOrden', Cuenta' >= Cuenta + Uno(EsActiva(b)) - Uno(EsActiva(a))
  PROVE  Refina
<1> DEFINE k == Uno(EsActiva(b)) - Uno(EsActiva(a))
<1>1. /\ Cardinality(D!Activos)' =
              Cardinality(D!Activos) + Uno(EsActiva(b)) - Uno(EsActiva(a))
      /\ a = b => UNCHANGED EnDiagrama
  BY ActivosMueve
<1>2. Uno(EsActiva(b)) \in Int /\ Uno(EsActiva(a)) \in Int
  BY DEF Uno
<1>3. Cuenta \in Int
  BY TiposDiagrama, CuentaEntera
<1>4. k \in Int
  BY <1>2
<1>5. Cardinality(D!Activos)' <= Cardinality(D!Activos) + k
  <2>1. Cardinality(D!Activos)' = Cardinality(D!Activos) + k
    BY <1>1, <1>2, CuantosActivos
  <2> QED
    BY <1>4, <2>1, CuantosActivos
<1>6. Cuenta' >= Cuenta + k
  BY <1>2, <1>3
<1> HIDE DEF k
<1>7. ActivosContados'
  BY <1>4, <1>5, <1>6, TiposDiagrama, ContadosCambian
<1> QED
  BY <1>1, <1>7 DEF Refina

\* The dispatcher sends to the CPU who is ready, while nobody is there.
LEMMA CortoDiagrama ==
  ASSUME Antes, Inductivo', Ubicacion', Corto, UNCHANGED otras
  PROVE  Refina
<1>t. /\ pc'["interr"] = pc["interr"] /\ pc'["consola"] = pc["consola"]
      /\ pc'["largo"] = pc["largo"]
      /\ UNCHANGED << numero_de_procesos, cantidad_procesos_ejecutandose >>
      /\ mano'["largo"] = mano["largo"]
  BY TiposDiagrama DEF Corto, CortoToma, CortoReanuda, CortoElige, CortoSacaAux,
     CortoSacaReady, CortoDespacha, SigueSiActiva, SaleDePausa, HilosFijos,
     Saca, PoneEnExec, SchedulerTypeOK
<1>c. Cuenta' = Cuenta
  BY <1>t DEF Cuenta, Uno
<1>1. CASE CortoToma
  BY <1>1, <1>t, TiposDiagrama, QuietoDiagrama DEF CortoToma, LoDespierta
<1>2. CASE CortoReanuda
  BY <1>2, <1>t, TiposDiagrama, QuietoDiagrama DEF CortoReanuda, LoDespierta
<1>3. CASE CortoElige
  BY <1>3, <1>t, TiposDiagrama, QuietoDiagrama DEF CortoElige, LoDespierta
<1>4. ASSUME NEW q \in {"aux", "ready"}, Saca("corto", q), pc["corto"] \notin ConMano
      PROVE  Refina
  <2>1. mano'["corto"] \in Pids /\ D!Mueve(mano'["corto"], "READY", "READY")
    BY <1>t, <1>4, TiposDiagrama, SacaDiagrama DEF VidaDe, HilosFijos
  <2>2. AdmiteEnOrden'
    BY <1>t, <1>4, TiposDiagrama, AdmiteQuieto DEF Saca, SchedulerTypeOK
  <2>3. Cuenta' >= Cuenta + Uno(EsActiva("READY")) - Uno(EsActiva("READY"))
    BY <1>c, TiposDiagrama, CuentaEntera DEF Uno
  <2>4. PICK x \in Pids : x = mano'["corto"]
    BY <2>1
  <2> QED
    BY <2>1, <2>2, <2>3, <2>4, RefinaMueve
<1>5. CASE CortoSacaAux \/ CortoSacaReady
  BY <1>5, <1>4 DEF CortoSacaAux, CortoSacaReady
<1>6. CASE CortoDespacha
  <2> DEFINE x == mano["corto"]
  <2>1. /\ PoneEnExec("corto") /\ pc["corto"] = "pone_exec"
    BY <1>6 DEF CortoDespacha
  <2>2. x \in Pids /\ "corto" \in Hilos
    BY <2>1, TiposDiagrama DEF HilosFijos
  <2>3. /\ sem_interrupcion = 0 /\ ~ HandlerConTurno
        /\ proceso_ejecutando = Nadie
    <3>1. sem_interrupcion \in Nat /\ sem_dispatch \in Nat /\ TurnoUnico /\ ContextoPropio
      BY TiposDiagrama DEF Inductivo, TypeOK, SemaforosTypeOK
    <3>2. sem_interrupcion = 0 /\ ~ HandlerConTurno
      BY <2>1, <3>1 DEF TurnoUnico, Uno
    <3>3. pc["interr"] \notin AntesDeSacar
      BY <3>2 DEF HandlerConTurno, AntesDeSacar
    <3> QED
      BY <3>1, <3>2, <3>3 DEF ContextoPropio
  <2>4. mano["interr"] = Nadie
    <3>1. pc["interr"] \notin ConMano
      BY <2>3 DEF HandlerConTurno
    <3> QED
      BY <3>1, TiposDiagrama DEF HilosFijos
  <2>5. D!Mueve(x, "READY", "EXEC")
    <3>1. /\ Esta(x, << "mano", "corto" >>)
          /\ Mueve(x, << "mano", "corto" >>, << "exec", "exec" >>)
      BY <2>1, <2>2, <2>3, TiposDiagrama, ExecMueve
    <3>2. << "mano", "corto" >> \in Sitios /\ << "exec", "exec" >> \in Sitios
      BY <2>2, SonSitios
    <3> HIDE DEF x
    <3>3. D!Mueve(x, VidaDe(<< "mano", "corto" >>), VidaDe(<< "exec", "exec" >>)')
      BY <1>t, <2>2, <3>1, <3>2, MueveDiagrama
    <3> QED
      BY <3>3 DEF VidaDe
  <2>6. \A q \in Pids : Vida(q) # "EXEC"
    <3> SUFFICES ASSUME NEW q \in Pids, Vida(q) = "EXEC"
                 PROVE  FALSE
      OBVIOUS
    <3>1. VidaEnSitio /\ TodosUbicados
      BY VidaPorSitio DEF Antes
    <3>2. q \in Creados
      BY <3>1 DEF VidaEnSitio
    <3>3. PICK l \in Sitios : Esta(q, l)
      BY <3>1, <3>2 DEF TodosUbicados, Ubicado
    <3>4. VidaDe(l) = "EXEC"
      BY <3>1, <3>3 DEF VidaEnSitio
    <3>5. l = << "exec", "exec" >> \/ l = << "mano", "interr" >>
      BY <3>4 DEF VidaDe
    <3>6. q = Nadie
      <4>1. Esta(q, << "exec", "exec" >>) => q = proceso_ejecutando
        BY DEF Esta
      <4>2. Esta(q, << "mano", "interr" >>) => q = mano["interr"]
        BY DEF Esta
      <4> QED
        BY <2>3, <2>4, <3>3, <3>5, <4>1, <4>2
    <3> QED
      BY <3>6, TiposDiagrama
  <2>7. AdmiteEnOrden'
    BY <1>t, <2>1, TiposDiagrama, AdmiteQuieto DEF PoneEnExec
  <2>8. Cuenta' >= Cuenta + Uno(EsActiva("EXEC")) - Uno(EsActiva("READY"))
    <3>1. Uno(EsActiva("EXEC")) = 1 /\ Uno(EsActiva("READY")) = 1
      BY DEF Uno, EsActiva
    <3> QED
      BY <1>c, <3>1, TiposDiagrama, CuentaEntera
  <2> HIDE DEF x
  <2>9. D!DiagramaNext
    BY <2>2, <2>5, <2>6 DEF D!DiagramaNext, D!Despachar
  <2> QED
    BY <2>2, <2>5, <2>7, <2>8, <2>9, RefinaMueve
<1> QED
  BY <1>1, <1>2, <1>3, <1>5, <1>6 DEF Corto

\* A move that asks for nothing, while no token is given or taken.
LEMMA LibreDiagrama ==
  ASSUME Antes, Inductivo', NEW x \in Pids, NEW a, NEW b, D!Mueve(x, a, b),
         << a, b >> \in { << "EXEC", "READY" >>, << "EXEC", "BLOCKED" >>,
                          << "BLOCKED", "READY" >>, << "BLOCKED", "EXIT" >>,
                          << "EXEC", "EXEC" >> },
         UNCHANGED << numero_de_procesos, cantidad_procesos_ejecutandose >>,
         colas'["new"] = colas["new"], mano'["largo"] = mano["largo"],
         pc'["consola"] = pc["consola"], pc'["largo"] = pc["largo"],
         pc'["interr"] \in Devuelve <=> pc["interr"] \in Devuelve
  PROVE  Refina
<1>1. a = b \/ D!DiagramaNext
  BY MovimientoLibre
<1>2. AdmiteEnOrden'
  BY TiposDiagrama, AdmiteQuieto
<1>3. Cuenta' = Cuenta /\ Cuenta \in Int
  BY TiposDiagrama, CuentaEntera DEF Cuenta, Uno
<1>4. /\ Uno(EsActiva(b)) <= Uno(EsActiva(a))
      /\ Uno(EsActiva(a)) \in Int /\ Uno(EsActiva(b)) \in Int
  BY DEF Uno, EsActiva
<1>5. Cuenta' >= Cuenta + Uno(EsActiva(b)) - Uno(EsActiva(a))
  BY <1>3, <1>4
<1> QED
  BY <1>1, <1>2, <1>5, RefinaMueve

\* A step of the handler that moves nobody.
LEMMA InterrQuieto ==
  ASSUME Antes, Inductivo',
         UNCHANGED << schedVars, numero_de_procesos,
                      cantidad_procesos_ejecutandose >>
            \/ UNCHANGED << colas, mano, proceso_ejecutando, numero_de_procesos,
                            cantidad_procesos_ejecutandose >>,
         pc'["consola"] = pc["consola"], pc'["largo"] = pc["largo"],
         pc'["interr"] \in Devuelve <=> pc["interr"] \in Devuelve,
         \/ pc["interr"] \notin ConMano
         \/ pc["interr"] = "bloq_busca" /\ pc'["interr"] = "bloq_pone"
  PROVE  Refina
<1>1. \A p \in Pids :
         mano'["interr"] = p /\ ~ LoDespierta' <=>
            mano["interr"] = p /\ ~ LoDespierta
  <2>1. CASE pc["interr"] \notin ConMano
    BY <2>1, TiposDiagrama DEF HilosFijos
  <2>2. CASE pc["interr"] = "bloq_busca" /\ pc'["interr"] = "bloq_pone"
    BY <2>2 DEF LoDespierta
  <2> QED
    BY <2>1, <2>2
<1> QED
  BY <1>1, TiposDiagrama, QuietoDiagrama

\* Releasing what a process held, the steps that move nobody.
LEMMA LiberarMueve ==
  ASSUME Antes, NEW h \in Hilos, NEW p, NEW dest \in Etiquetas,
         LiberarRecursosDeProceso(h, p, dest)
  PROVE  /\ \A g \in Hilos \ {h} : pc'[g] = pc[g]
         /\ pc[h] \in {"lib_dicc", "lib_carga", "lib_guarda", "lib_mira",
                       "lib_saca", "lib_pone"}
         /\ pc'[h] \in {"lib_dicc", "lib_carga", "lib_guarda", "lib_mira",
                        "lib_saca", "lib_pone", dest}
         /\ UNCHANGED << semVars, planVars >>
         /\ \/ UNCHANGED << colas, mano, proceso_ejecutando >> /\ pc[h] # "lib_pone"
            \/ /\ \E r \in Recurso : Saca(h, r)
               /\ pc[h] = "lib_saca" /\ pc'[h] = "lib_pone"
            \/ /\ Pone(h, "ready", "READY")
               /\ pc[h] = "lib_pone" /\ pc'[h] = "lib_carga"
<1>1. CASE LiberarSacaDiccionario(h, p)
  BY <1>1, TiposDiagrama DEF LiberarSacaDiccionario
<1>2. CASE LiberarCarga(h) \/ LiberarGuarda(h) \/ LiberarMira(h)
  BY <1>2, TiposDiagrama DEF LiberarCarga, LiberarGuarda, LiberarMira
<1>3. CASE LiberarSaca(h)
  <2>1. Actual(h) \in Recurso
    BY <1>3, ActualPendiente, TiposDiagrama
       DEF Inductivo, TypeOK, ManoLlena, LiberarSaca
  <2> QED
    BY <1>3, <2>1, TiposDiagrama DEF LiberarSaca
<1>4. CASE LiberarPone(h)
  BY <1>4, TiposDiagrama DEF LiberarPone
<1>5. CASE LiberarTermina(h, dest)
  BY <1>5, TiposDiagrama DEF LiberarTermina
<1> QED
  BY <1>1, <1>2, <1>3, <1>4, <1>5 DEF LiberarRecursosDeProceso

\* The handler preempts, blocks, ends and wakes processes.
LEMMA InterrDiagrama ==
  ASSUME Antes, Inductivo', Ubicacion', Interr, UNCHANGED << pcb_io, consVars >>
  PROVE  Refina
<1>t. /\ HilosFijos \subseteq Hilos /\ "interr" \in Hilos
      /\ pc \in [Hilos -> Etiquetas] /\ SchedulerTypeOK
      /\ UNCHANGED numero_de_procesos
  BY TiposDiagrama DEF HilosFijos
<1>c. Caso(tokens) \notin Devuelve
  BY TiposDiagrama DEF Caso, OpsDeFin, Inductivo, TypeOK, LocalesTypeOK,
     Instruccion, Operaciones, Devuelve
<1>p. ASSUME NEW q \in Colas \ {"new"}, NEW e, Pone("interr", q, e)
      PROVE  colas'["new"] = colas["new"] /\ mano'["largo"] = mano["largo"]
  BY <1>p, <1>t DEF Pone, SchedulerTypeOK, HilosFijos
<1>e. ASSUME SacaDeExec("interr"),
             pc["interr"] \in {"fin_saca", "desaloja", "bloq_saca"},
             pc'["interr"] \in {"fin_pone", "des_pone", "bloq_busca"},
             pc'["consola"] = pc["consola"], pc'["largo"] = pc["largo"],
             UNCHANGED cantidad_procesos_ejecutandose
      PROVE  Refina
  <2>1. proceso_ejecutando # Nadie
    BY <1>e, TiposDiagrama DEF Inductivo, ContextoPropio, AntesDeSacar
  <2>2. proceso_ejecutando \in Pids /\ D!Mueve(proceso_ejecutando, "EXEC", "EXEC")
    BY <1>e, <1>t, <2>1, SacaDeExecDiagrama DEF LoDespierta
  <2>3. /\ mano'["largo"] = mano["largo"] /\ colas'["new"] = colas["new"]
        /\ pc'["interr"] \in Devuelve <=> pc["interr"] \in Devuelve
    BY <1>e, <1>t DEF SacaDeExec, SchedulerTypeOK, HilosFijos, Devuelve
  <2>4. PICK x \in Pids : x = proceso_ejecutando
    BY <2>2
  <2> QED
    BY <1>e, <1>t, <2>2, <2>3, <2>4, LibreDiagrama
<1>s. ASSUME NEW r \in Recurso, Saca("interr", r),
             pc["interr"] \in {"lib_saca", "sig_saca"},
             pc'["interr"] \in {"lib_pone", "sig_pone"},
             pc'["consola"] = pc["consola"], pc'["largo"] = pc["largo"],
             UNCHANGED cantidad_procesos_ejecutandose
      PROVE  Refina
  <2>1. /\ \A q \in {"new", "ready", "aux", "exit"} : colas'[q] = colas[q]
        /\ \A h \in {"consola", "largo", "corto"} : mano'[h] = mano[h]
        /\ UNCHANGED proceso_ejecutando
    BY <1>s, TiposDiagrama DEF Saca, SchedulerTypeOK, HilosFijos
  <2>2. \A p \in Pids : ~ (mano["interr"] = p) /\ LoDespierta'
    BY <1>s, <1>t, TiposDiagrama DEF LoDespierta
  <2>3. pc'["interr"] \in Devuelve <=> pc["interr"] \in Devuelve
    BY <1>s DEF Devuelve
  <2> QED
    BY <1>s, <1>t, <2>1, <2>2, <2>3, TiposDiagrama, QuietoDiagrama
<1>d. ASSUME Pone("interr", "ready", "READY"),
             pc["interr"] \in {"lib_pone", "sig_pone"},
             pc'["interr"] \notin Devuelve,
             pc'["consola"] = pc["consola"], pc'["largo"] = pc["largo"],
             UNCHANGED cantidad_procesos_ejecutandose
      PROVE  Refina
  <2>1. mano["interr"] \in Pids /\ D!Mueve(mano["interr"], "BLOCKED", "READY")
    BY <1>d, <1>t, TiposDiagrama, PoneDiagrama DEF VidaDe, LoDespierta
  <2>2. colas'["new"] = colas["new"] /\ mano'["largo"] = mano["largo"]
    BY <1>d, <1>p, TiposDiagrama
  <2>3. pc["interr"] \notin Devuelve
    BY <1>d DEF Devuelve
  <2>4. PICK x \in Pids : x = mano["interr"]
    BY <2>1
  <2> QED
    BY <1>d, <1>t, <2>1, <2>2, <2>3, <2>4, LibreDiagrama
<1>1. CASE InterrRecibe
  BY <1>1, <1>t, InterrQuieto DEF InterrRecibe, HilosFijos, Devuelve
<1>2. CASE InterrActiva
  BY <1>2, <1>t, <1>c, InterrQuieto DEF InterrActiva, SigueSiActiva, HilosFijos,
     Devuelve
<1>3. CASE InterrReanuda
  BY <1>3, <1>t, <1>c, InterrQuieto DEF InterrReanuda, SaleDePausa, HilosFijos,
     Devuelve
<1>4. CASE InterrAvisaMemoria
  BY <1>4, <1>t, InterrQuieto DEF InterrAvisaMemoria, HilosFijos, Devuelve
<1>5. CASE InterrLibera
  <2>1. /\ pc'["consola"] = pc["consola"] /\ pc'["largo"] = pc["largo"]
        /\ pc["interr"] \notin Devuelve /\ pc'["interr"] \notin Devuelve
        /\ UNCHANGED cantidad_procesos_ejecutandose
        /\ \/ /\ UNCHANGED << colas, mano, proceso_ejecutando >>
              /\ pc["interr"] \notin ConMano
           \/ /\ \E r \in Recurso : Saca("interr", r)
              /\ pc["interr"] = "lib_saca" /\ pc'["interr"] = "lib_pone"
           \/ /\ Pone("interr", "ready", "READY")
              /\ pc["interr"] = "lib_pone" /\ pc'["interr"] = "lib_carga"
    BY <1>5, <1>t, LiberarMueve DEF InterrLibera, Etiquetas, HilosFijos, Devuelve
  <2> QED
    BY <1>t, <2>1, <1>s, <1>d, InterrQuieto
<1>6. CASE InterrFinSaca
  BY <1>6, <1>t, <1>e DEF InterrFinSaca, HilosFijos
<1>7. CASE InterrFinPone
  <2>1. /\ Pone("interr", "exit", "EXIT") /\ pc["interr"] = "fin_pone"
        /\ pc'["interr"] = "aum_mira"
        /\ pc'["consola"] = pc["consola"] /\ pc'["largo"] = pc["largo"]
        /\ UNCHANGED cantidad_procesos_ejecutandose
    BY <1>7, <1>t DEF InterrFinPone, HilosFijos
  <2>2. mano["interr"] \in Pids /\ D!Mueve(mano["interr"], "EXEC", "EXIT")
    BY <1>t, <2>1, TiposDiagrama, PoneDiagrama DEF VidaDe, LoDespierta
  <2>3. AdmiteEnOrden'
    BY <1>t, <1>p, <2>1, TiposDiagrama, AdmiteQuieto
  <2>4. Cuenta' >= Cuenta + Uno(EsActiva("EXIT")) - Uno(EsActiva("EXEC"))
    <3>1. Uno(EsActiva("EXIT")) = 0 /\ Uno(EsActiva("EXEC")) = 1
      BY DEF Uno, EsActiva
    <3>2. Cuenta' = Cuenta - 1
      BY <2>1, TiposDiagrama DEF Cuenta, Uno, Devuelve
    <3> QED
      BY <3>1, <3>2, TiposDiagrama, CuentaEntera
  <2>5. PICK x \in Pids : x = mano["interr"]
    BY <2>2
  <2> QED
    BY <2>2, <2>3, <2>4, <2>5, MovimientoLibre, RefinaMueve
<1>8. CASE InterrAumentaMira
  BY <1>8, <1>t, InterrQuieto DEF InterrAumentaMira, HilosFijos, Devuelve
<1>9. CASE InterrAumentaResta
  <2>1. /\ UNCHANGED schedVars /\ pc["interr"] = "aum_resta"
        /\ pc'["interr"] \in {"espera", "invalido"}
        /\ pc'["consola"] = pc["consola"] /\ pc'["largo"] = pc["largo"]
        /\ cantidad_procesos_ejecutandose' = cantidad_procesos_ejecutandose - 1
    BY <1>9, <1>t DEF InterrAumentaResta, HilosFijos
  <2>2. UNCHANGED EnDiagrama
    <3>1. \A p \in Pids : mano["interr"] # p
      BY <1>t, <2>1, TiposDiagrama
    <3> QED
      BY <1>t, <2>1, <3>1, VidaQuieta
  <2>3. D!Activos' = D!Activos
    <3>1. \A p \in Pids : Vida(p)' = Vida(p)
      BY <2>2 DEF EnDiagrama
    <3> QED
      BY <3>1 DEF D!Activos
  <2>4. Cuenta' = Cuenta
    BY <2>1, TiposDiagrama DEF Cuenta, Uno, Devuelve
  <2>5. ActivosContados'
    BY <2>3, <2>4, TiposDiagrama, CuentaEntera, CuantosActivos, ContadosCambian,
       0 \in Int
  <2>6. AdmiteEnOrden'
    BY <1>t, <2>1, TiposDiagrama, AdmiteQuieto
  <2> QED
    BY <2>2, <2>5, <2>6 DEF Refina
<1>10. CASE InterrRecursoInvalido
  BY <1>10, <1>t, InterrQuieto DEF InterrRecursoInvalido
<1>11. CASE InterrDesalojaSaca
  BY <1>11, <1>t, <1>e DEF InterrDesalojaSaca, HilosFijos
<1>12. CASE InterrDesalojaPone
  <2>1. /\ Pone("interr", "ready", "READY") /\ pc["interr"] = "des_pone"
        /\ pc'["interr"] = "espera"
        /\ pc'["consola"] = pc["consola"] /\ pc'["largo"] = pc["largo"]
        /\ UNCHANGED cantidad_procesos_ejecutandose
    BY <1>12, <1>t DEF InterrDesalojaPone, HilosFijos
  <2>2. mano["interr"] \in Pids /\ D!Mueve(mano["interr"], "EXEC", "READY")
    BY <1>t, <2>1, TiposDiagrama, PoneDiagrama DEF VidaDe, LoDespierta
  <2>3. colas'["new"] = colas["new"] /\ mano'["largo"] = mano["largo"]
    BY <1>p, <2>1, TiposDiagrama
  <2>4. PICK x \in Pids : x = mano["interr"]
    BY <2>2
  <2>5. pc["interr"] \notin Devuelve /\ pc'["interr"] \notin Devuelve
    BY <2>1 DEF Devuelve
  <2> QED
    BY <1>t, <2>1, <2>2, <2>3, <2>4, <2>5, LibreDiagrama
<1>13. CASE InterrIO
  BY <1>13, <1>t, InterrQuieto DEF InterrIO, HilosFijos, Devuelve
<1>14. CASE InterrAgregaInstruccion
  BY <1>14, <1>t, InterrQuieto DEF InterrAgregaInstruccion, HilosFijos, Devuelve
<1>15. CASE InterrBloqueaSaca
  BY <1>15, <1>t, <1>e DEF InterrBloqueaSaca, HilosFijos
<1>16. CASE InterrBloqueaBusca
  BY <1>16, <1>t, InterrQuieto DEF InterrBloqueaBusca, HilosFijos, Devuelve
<1>17. CASE InterrBloqueaPone
  <2>1. /\ pc["interr"] = "bloq_pone" /\ pc'["interr"] = "espera"
        /\ pc'["consola"] = pc["consola"] /\ pc'["largo"] = pc["largo"]
        /\ UNCHANGED cantidad_procesos_ejecutandose
    BY <1>17, <1>t DEF InterrBloqueaPone, HilosFijos
  <2>2. /\ tokens.arg \in Bloqueados /\ mano["interr"] \in Pids
        /\ tokens.arg \notin claves => tokens.arg \in Interfaz
    BY <2>1, <1>t, TiposDiagrama DEF Antes, Enlace, BloqueoConLista, Inductivo,
       ArgumentoValido
  <2>3. PICK q \in Bloqueados : q = tokens.arg
    BY <2>2
  <2>4. q \in Colas \ {"new", "ready", "aux", "exit"}
    BY TiposDiagrama DEF Bloqueados
  <2>5. PICK x \in Pids : x = mano["interr"]
    BY <2>2
  <2>6. /\ D!Mueve(x, "EXEC", "BLOCKED")
        /\ colas'["new"] = colas["new"] /\ mano'["largo"] = mano["largo"]
    <3>1. CASE Pone("interr", q, "BLOCKED")
      <4>1. D!Mueve(x, VidaDe(<< "mano", "interr" >>), VidaDe(<< "cola", q >>)')
        BY <3>1, <1>t, <2>1, <2>4, <2>5, TiposDiagrama, PoneDiagrama
      <4>2. VidaDe(<< "mano", "interr" >>) = "EXEC"
        BY <2>1 DEF VidaDe, LoDespierta
      <4>3. VidaDe(<< "cola", q >>)' = "BLOCKED"
        BY <2>4 DEF VidaDe
      <4> QED
        BY <4>1, <4>2, <4>3, <3>1, <1>p, <2>4
    <3>2. CASE PoneEnHuerfana("interr", q, "BLOCKED") /\ q \in Interfaz
      <4>1. /\ Esta(x, << "mano", "interr" >>)
            /\ Mueve(x, << "mano", "interr" >>, << "huerfana", q >>)
        BY <1>t, <2>5, <3>2, TiposDiagrama, PoneEnHuerfanaMueve
      <4>2. \A p \in Pids : mano["interr"] = p => p = x
        BY <2>5
      <4>3. << "mano", "interr" >> \in Sitios /\ << "huerfana", q >> \in Sitios
        BY <1>t, <3>2, SonSitios
      <4>4. D!Mueve(x, VidaDe(<< "mano", "interr" >>), VidaDe(<< "huerfana", q >>)')
        BY <1>t, <4>1, <4>2, <4>3, MueveDiagrama
      <4>5. VidaDe(<< "mano", "interr" >>) = "EXEC"
        BY <2>1 DEF VidaDe, LoDespierta
      <4>6. VidaDe(<< "huerfana", q >>)' = "BLOCKED"
        BY DEF VidaDe
      <4>7. colas'["new"] = colas["new"] /\ mano'["largo"] = mano["largo"]
        BY <1>t, <3>2 DEF PoneEnHuerfana, SchedulerTypeOK, HilosFijos
      <4> QED
        BY <4>4, <4>5, <4>6, <4>7
    <3> QED
      BY <1>17, <2>2, <2>3, <3>1, <3>2 DEF InterrBloqueaPone
  <2>7. pc["interr"] \notin Devuelve /\ pc'["interr"] \notin Devuelve
    BY <2>1 DEF Devuelve
  <2> QED
    BY <1>t, <2>1, <2>6, <2>7, LibreDiagrama
<1>18. CASE InterrAsigna
  BY <1>18, <1>t, InterrQuieto DEF InterrAsigna, HilosFijos, Devuelve
<1>19. CASE InterrCarga
  BY <1>19, <1>t, InterrQuieto DEF InterrCarga, HilosFijos, Devuelve
<1>20. CASE InterrGuarda
  BY <1>20, <1>t, InterrQuieto DEF InterrGuarda, HilosFijos, Devuelve
<1>21. CASE InterrWaitBloquea
  BY <1>21, <1>t, InterrQuieto DEF InterrWaitBloquea, HilosFijos, Devuelve
<1>22. CASE InterrSigueEnCPU
  BY <1>22, <1>t, InterrQuieto DEF InterrSigueEnCPU, VuelveALaCPU, HilosFijos,
     Devuelve
<1>23. CASE InterrSignalDespierta
  BY <1>23, <1>t, InterrQuieto DEF InterrSignalDespierta, HilosFijos, Devuelve
<1>24. CASE InterrSignalSaca
  <2>1. tokens.arg \in Recurso
    BY <1>24, TiposDiagrama DEF InterrSignalSaca, Inductivo, ArgumentoValido
  <2>2. /\ Saca("interr", tokens.arg) /\ pc["interr"] = "sig_saca"
        /\ pc'["interr"] = "sig_pone"
        /\ pc'["consola"] = pc["consola"] /\ pc'["largo"] = pc["largo"]
        /\ UNCHANGED cantidad_procesos_ejecutandose
    BY <1>24, <1>t DEF InterrSignalSaca, HilosFijos
  <2>3. PICK r \in Recurso : r = tokens.arg
    BY <2>1
  <2> QED
    BY <1>s, <2>2, <2>3
<1>25. CASE InterrSignalNadie
  BY <1>25, <1>t, InterrQuieto DEF InterrSignalNadie, VuelveALaCPU, HilosFijos,
     Devuelve
<1>26. CASE InterrSignalPone
  <2>1. /\ Pone("interr", "ready", "READY") /\ pc["interr"] = "sig_pone"
        /\ pc'["interr"] = "espera"
        /\ pc'["consola"] = pc["consola"] /\ pc'["largo"] = pc["largo"]
        /\ UNCHANGED cantidad_procesos_ejecutandose
    BY <1>26, <1>t DEF InterrSignalPone, VuelveALaCPU, HilosFijos
  <2>2. pc'["interr"] \notin Devuelve
    BY <2>1 DEF Devuelve
  <2> QED
    BY <1>d, <2>1, <2>2
<1> QED
  BY <1>1, <1>2, <1>3, <1>4, <1>5, <1>6, <1>7, <1>8, <1>9, <1>10, <1>11, <1>12,
     <1>13, <1>14, <1>15, <1>16, <1>17, <1>18, <1>19, <1>20, <1>21, <1>22,
     <1>23, <1>24, <1>25, <1>26 DEF Interr

\* The thread of an interface wakes processes, and ends those of its list when
\* the interface fails.
LEMMA InterfazDiagrama ==
  ASSUME Antes, Inductivo', Ubicacion', NEW i \in Interfaz, Interf(i),
         UNCHANGED << tokens, consVars >>
  PROVE  Refina
<1>t. /\ i \in Hilos \ HilosFijos /\ i \in Colas \ {"new", "ready", "aux", "exit"}
      /\ pc \in [Hilos -> Etiquetas] /\ SchedulerTypeOK
      /\ HilosFijos \subseteq Hilos /\ UNCHANGED numero_de_procesos
  BY TiposDiagrama
<1>v. VidaDe(<< "mano", i >>) = "BLOCKED" /\ VidaDe(<< "huerfana", i >>) = "BLOCKED"
  BY <1>t DEF VidaDe, HilosFijos
<1>q. ASSUME \A q \in {"new", "ready", "aux", "exit"} : colas'[q] = colas[q],
             \A h \in HilosFijos : mano'[h] = mano[h] /\ pc'[h] = pc[h],
             UNCHANGED << proceso_ejecutando, cantidad_procesos_ejecutandose >>
      PROVE  Refina
  BY <1>t, <1>q, TiposDiagrama, QuietoDiagrama DEF HilosFijos, LoDespierta
<1>1. CASE InterfazConecta(i)
  BY <1>1, <1>t, <1>q DEF InterfazConecta
<1>2. CASE InterfazToma(i)
  BY <1>2, <1>t, <1>q DEF InterfazToma
<1>3. CASE InterfazEjecuta(i)
  BY <1>3, <1>t, <1>q DEF InterfazEjecuta
<1>4. CASE InterfazResponde(i)
  BY <1>4, <1>t, <1>q DEF InterfazResponde, SigueSiActiva
<1>5. CASE InterfazReanuda(i)
  BY <1>5, <1>t, <1>q DEF InterfazReanuda, SaleDePausa
<1>6. CASE InterfazSaca(i)
  BY <1>6, <1>t, <1>q DEF InterfazSaca, Saca, SchedulerTypeOK
<1>7. CASE InterfazSacaNadie(i)
  BY <1>7, <1>t, <1>q DEF InterfazSacaNadie
<1>p. ASSUME NEW q \in {"ready", "aux"}, Pone(i, q, "READY"), pc[i] \in ConMano,
             \A h \in HilosFijos : pc'[h] = pc[h],
             UNCHANGED cantidad_procesos_ejecutandose
      PROVE  Refina
  <2>1. /\ mano[i] \in Pids
        /\ D!Mueve(mano[i], VidaDe(<< "mano", i >>), VidaDe(<< "cola", q >>)')
    BY <1>t, <1>p, TiposDiagrama, PoneDiagrama DEF HilosFijos
  <2>2. VidaDe(<< "cola", q >>)' = "READY"
    BY DEF VidaDe
  <2>3. colas'["new"] = colas["new"] /\ mano'["largo"] = mano["largo"]
    BY <1>p, <1>t, TiposDiagrama DEF Pone, SchedulerTypeOK, HilosFijos
  <2>4. PICK x \in Pids : x = mano[i]
    BY <2>1
  <2>5. D!Mueve(x, "BLOCKED", "READY")
    BY <1>v, <2>1, <2>2, <2>4
  <2> QED
    BY <1>p, <1>t, <2>3, <2>5, LibreDiagrama DEF HilosFijos
<1>8. CASE InterfazPone(i)
  <2>1. /\ Pone(i, IF VRR_modo THEN "aux" ELSE "ready", "READY")
        /\ pc[i] = "pone" /\ \A h \in HilosFijos : pc'[h] = pc[h]
        /\ UNCHANGED cantidad_procesos_ejecutandose
    BY <1>8, <1>t DEF InterfazPone
  <2> QED
    BY <1>p, <2>1
<1>9. CASE InterfazBorra(i)
  BY <1>9, <1>t, <1>q DEF InterfazBorra
<1>10. CASE InterfazFalla(i)
  BY <1>10, <1>t, <1>q DEF InterfazFalla
<1>11. CASE InterfazQuitaCola(i)
  BY <1>11, <1>t, <1>q DEF InterfazQuitaCola, SchedulerTypeOK
<1>12. CASE InterfazItera(i)
  BY <1>12, <1>t, <1>q DEF InterfazItera
<1>13. CASE InterfazLibera(i)
  <2>1. /\ \A h \in HilosFijos : pc'[h] = pc[h]
        /\ UNCHANGED cantidad_procesos_ejecutandose
        /\ \/ UNCHANGED << colas, mano, proceso_ejecutando >>
           \/ \E r \in Recurso : Saca(i, r)
           \/ Pone(i, "ready", "READY") /\ pc[i] = "lib_pone"
    BY <1>13, <1>t, LiberarMueve DEF InterfazLibera, Etiquetas
  <2>2. ASSUME NEW r \in Recurso, Saca(i, r)
        PROVE  Refina
    BY <1>t, <1>q, <2>1, <2>2, TiposDiagrama DEF Saca, SchedulerTypeOK
  <2> QED
    BY <1>q, <1>p, <2>1, <2>2
<1>14. CASE InterfazAvisaMemoria(i)
  BY <1>14, <1>t, <1>q DEF InterfazAvisaMemoria
<1>15. CASE InterfazAExit(i)
  <2>1. /\ Head(huerfana[i]) \in Pids
        /\ Esta(Head(huerfana[i]), << "huerfana", i >>)
        /\ Mueve(Head(huerfana[i]), << "huerfana", i >>, << "cola", "exit" >>)
    BY <1>15, <1>t, AExitMueve DEF Antes, Inductivo
  <2>2. /\ colas'["new"] = colas["new"] /\ mano' = mano
        /\ \A h \in HilosFijos : pc'[h] = pc[h]
        /\ UNCHANGED cantidad_procesos_ejecutandose
    BY <1>15, <1>t DEF InterfazAExit, SchedulerTypeOK
  <2>3. PICK x \in Pids : x = Head(huerfana[i])
    BY <2>1
  <2>4. << "huerfana", i >> \in Sitios /\ << "cola", "exit" >> \in Sitios
    BY TiposDiagrama, SonSitios
  <2>5. D!Mueve(x, VidaDe(<< "huerfana", i >>), VidaDe(<< "cola", "exit" >>)')
    BY <1>t, <2>1, <2>2, <2>3, <2>4, MueveDiagrama DEF HilosFijos
  <2>6. D!Mueve(x, "BLOCKED", "EXIT")
    BY <1>v, <2>5 DEF VidaDe
  <2> QED
    BY <1>t, <2>2, <2>6, LibreDiagrama DEF HilosFijos
<1>16. CASE InterfazIteraFin(i)
  BY <1>16, <1>t, <1>q DEF InterfazIteraFin
<1> QED
  BY <1>1, <1>2, <1>3, <1>4, <1>5, <1>6, <1>7, <1>8, <1>9, <1>10, <1>11,
     <1>12, <1>13, <1>14, <1>15, <1>16 DEF Interf

\* The console asks for the next process.
LEMMA PideDiagrama ==
  ASSUME Antes, Inductivo', Ubicacion', NEW op, PideCreacion(op),
         pc["consola"] = "comando"
  PROVE  Refina
<1> DEFINE x == numero_de_procesos + 1
<1>t. /\ pc \in [Hilos -> Etiquetas] /\ SchedulerTypeOK
      /\ HilosFijos \subseteq Hilos /\ numero_de_procesos \in Nat
  BY TiposDiagrama DEF Inductivo, TypeOK, LocalesTypeOK
<1>1. /\ numero_de_procesos' = x /\ mano'["consola"] = x
      /\ pc'["consola"] = "a_new"
      /\ \A h \in {"largo", "corto", "interr"} : mano'[h] = mano[h] /\ pc'[h] = pc[h]
      /\ UNCHANGED << colas, proceso_ejecutando, cantidad_procesos_ejecutandose >>
  BY <1>t DEF PideCreacion, SchedulerTypeOK, HilosFijos
<1>2. mano["consola"] = Nadie
  BY TiposDiagrama DEF HilosFijos
<1>3. UNCHANGED EnDiagrama
  BY <1>1, <1>2, <1>t, TiposDiagrama, VidaPide
<1>4. ASSUME NEW p \in Pids
      PROVE  Vida(p)' = Vida(p)
  BY <1>3 DEF EnDiagrama
<1>5. D!Activos' = D!Activos
  BY <1>4 DEF D!Activos
<1>6. Cuenta' = Cuenta
  BY <1>1 DEF Cuenta, Uno
<1>7. ActivosContados'
  BY <1>5, <1>6, TiposDiagrama, CuentaEntera, CuantosActivos, ContadosCambian,
     0 \in Int
<1>8. AdmiteEnOrden'
  <2>1. Len(colas["new"]) \in Nat
    BY <1>t, TiposDiagrama DEF SchedulerTypeOK
  <2>2. Admitidos' = x - Len(colas["new"]) - 1
    BY <1>1 DEF Admitidos, Uno
  <2>3. Admitidos = numero_de_procesos - Len(colas["new"]) - 0
    BY DEF Admitidos, Uno
  <2>4. Admitidos' = Admitidos
    BY <1>t, <2>1, <2>2, <2>3
  <2> QED
    BY <1>1, <2>4, TiposDiagrama DEF AdmiteEnOrden
<1> QED
  BY <1>3, <1>7, <1>8 DEF Refina

\* The console puts the process in NEW: it is the next one to exist.
LEMMA ColaNewDiagrama ==
  ASSUME Antes, Inductivo', Ubicacion', ProcesoAColaNew
  PROVE  Refina
<1>t. /\ pc \in [Hilos -> Etiquetas] /\ SchedulerTypeOK
      /\ HilosFijos \subseteq Hilos /\ "consola" \in Hilos /\ "new" \in Colas
      /\ numero_de_procesos \in Nat
  BY TiposDiagrama DEF Inductivo, TypeOK, LocalesTypeOK, HilosFijos
<1>1. /\ Pone("consola", "new", "NEW") /\ pc["consola"] = "a_new"
      /\ pc'["consola"] = "dicc_nuevo" /\ pc'["interr"] = pc["interr"]
      /\ pc'["largo"] = "cuenta" <=> pc["largo"] = "cuenta"
      /\ UNCHANGED << numero_de_procesos, cantidad_procesos_ejecutandose >>
  BY <1>t DEF ProcesoAColaNew, HilosFijos
<1>2. mano["consola"] = numero_de_procesos
  BY <1>1 DEF Antes, Cargados, NuevosEnOrden
<1>3. /\ mano["consola"] \in Pids
      /\ D!Mueve(mano["consola"], VidaDe(<< "mano", "consola" >>),
                                  VidaDe(<< "cola", "new" >>)')
  BY <1>t, <1>1, TiposDiagrama, PoneDiagrama
<1>4. PICK x \in Pids : x = mano["consola"]
  BY <1>3
<1>5. D!Mueve(x, "inexistente", "NEW")
  BY <1>3, <1>4 DEF VidaDe
<1>6. D!EsElPrimero(x, "inexistente")
  <2> SUFFICES ASSUME NEW q \in Pids, q < x, ~ (Vida(q) # "inexistente")
               PROVE  FALSE
    BY DEF D!EsElPrimero
  <2>1. VidaEnSitio /\ TodosUbicados
    BY VidaPorSitio DEF Antes
  <2>2. q \in Creados
    BY <1>2, <1>4, <1>t DEF Creados, Pids
  <2>3. PICK l \in Sitios : Esta(q, l)
    BY <2>1, <2>2 DEF TodosUbicados, Ubicado
  <2>4. VidaDe(l) = "inexistente"
    BY <2>1, <2>3 DEF VidaEnSitio
  <2>5. l = << "mano", "consola" >>
    BY <2>4 DEF VidaDe
  <2>6. q = x
    BY <1>4, <2>3, <2>5 DEF Esta
  <2> QED
    BY <2>6 DEF Pids
<1>7. D!DiagramaNext
  BY <1>5, <1>6 DEF D!DiagramaNext, D!Crear
<1>8. AdmiteEnOrden'
  <2>1. /\ colas'["new"] = Append(colas["new"], x) /\ colas["new"] \in Seq(Pids)
        /\ mano'["largo"] = mano["largo"]
    BY <1>1, <1>4, <1>t DEF Pone, SchedulerTypeOK, HilosFijos
  <2>2. Len(colas["new"]) \in Nat /\ Len(colas'["new"]) = Len(colas["new"]) + 1
    BY <2>1
  <2>3. Admitidos = numero_de_procesos - Len(colas["new"]) - 1
    BY <1>1 DEF Admitidos, Uno
  <2>4. Admitidos' = numero_de_procesos - Len(colas'["new"]) - 0
    BY <1>1 DEF Admitidos, Uno
  <2>5. Admitidos' = Admitidos
    BY <1>t, <2>2, <2>3, <2>4
  <2> QED
    BY <2>1, <2>5, TiposDiagrama DEF AdmiteEnOrden
<1>9. Cuenta' >= Cuenta + Uno(EsActiva("NEW")) - Uno(EsActiva("inexistente"))
  <2>1. Uno(EsActiva("NEW")) = 0 /\ Uno(EsActiva("inexistente")) = 0
    BY DEF Uno, EsActiva
  <2>2. Cuenta' = Cuenta
    BY <1>1 DEF Cuenta, Uno
  <2> QED
    BY <2>1, <2>2, TiposDiagrama, CuentaEntera
<1> QED
  BY <1>5, <1>7, <1>8, <1>9, RefinaMueve

\* The console, when it ends no process.
LEMMA ConsolaDiagrama ==
  ASSUME Antes, Inductivo', Ubicacion', "FINALIZAR_PROCESO" \notin Comandos,
         Orden \/ Ejecuta
  PROVE  Refina
<1>t. /\ pc \in [Hilos -> Etiquetas] /\ SchedulerTypeOK
      /\ HilosFijos \subseteq Hilos /\ pc["consola"] \in SinFin
  BY TiposDiagrama DEF Antes
<1>q. ASSUME UNCHANGED << schedVars, numero_de_procesos,
                          cantidad_procesos_ejecutandose >>,
             \A g \in HilosFijos \ {"consola"} : pc'[g] = pc[g],
             pc["consola"] # "a_new", pc'["consola"] # "a_new"
      PROVE  Refina
  BY <1>q, TiposDiagrama, QuietoDiagrama DEF LoDespierta, HilosFijos
<1>1. CASE IniciarProceso \/ IniciarProcesoSinPath
  BY <1>1, PideDiagrama DEF IniciarProceso, IniciarProcesoSinPath, Lee
<1>2. CASE DetenerPlanificacion \/ IniciarPlanificacion
  BY <1>2, <1>t, <1>q DEF DetenerPlanificacion, IniciarPlanificacion, Lee
<1>3. CASE Multiprogramacion
  BY <1>3, <1>t, <1>q DEF Multiprogramacion, Lee, HilosFijos
<1>4. CASE ProcesoAColaNew
  BY <1>4, ColaNewDiagrama
<1>5. CASE ConsolaInicializaRecursos \/ CambiaGrado
  BY <1>5, <1>t, <1>q DEF ConsolaInicializaRecursos, CambiaGrado, HilosFijos
<1>6. ~ FinalizarProceso
  BY DEF FinalizarProceso, Lee
<1>7. ~ FinalizarEnExec /\ ~ FinalizarAvisaMemoria
  BY <1>t DEF FinalizarEnExec, FinalizarAvisaMemoria, SinFin
<1>8. ~ FinalizarLibera
  BY <1>t, TiposDiagrama, LiberarQuieto DEF FinalizarLibera, SinFin, Etiquetas,
     HilosFijos
<1>9. ASSUME NEW k \in 1 .. 4
      PROVE  ~ FinalizarEncuentra(k) /\ ~ FinalizarNoEncuentra(k)
                /\ ~ FinalizarAExit(k)
  BY <1>t DEF FinalizarEncuentra, FinalizarNoEncuentra, FinalizarAExit, EtapaFin,
     EtapaExit, SinFin
<1> QED
  BY <1>1, <1>2, <1>3, <1>4, <1>5, <1>6, <1>7, <1>8, <1>9 DEF Orden, Ejecuta

\* Every step of the kernel is one of the diagram, or none.
LEMMA PasoDiagrama ==
  ASSUME Antes, Inductivo', Ubicacion', "FINALIZAR_PROCESO" \notin Comandos,
         [Next]_vars
  PROVE  Refina
<1>1. CASE PasoLargo
  BY <1>1, LargoDiagrama DEF PasoLargo
<1>2. CASE PasoCorto
  BY <1>2, CortoDiagrama DEF PasoCorto
<1>3. CASE PasoInterr
  BY <1>3, InterrDiagrama DEF PasoInterr
<1>4. CASE \E i \in Interfaz : PasoInterfaz(i)
  BY <1>4, InterfazDiagrama DEF PasoInterfaz
<1>5. CASE PasoOrden \/ PasoConsola
  BY <1>5, ConsolaDiagrama DEF PasoOrden, PasoConsola
<1>6. CASE \/ PasoMemoria \/ PasoCPU \/ PasoOrdenPerdida
           \/ Reposo \/ UNCHANGED vars
  <2>1. UNCHANGED << pc, schedVars, planVars, numero_de_procesos >>
    BY <1>6 DEF PasoMemoria, PasoCPU, PasoOrdenPerdida, Reposo, vars,
       MemoriaAtiende, CPUTermina, CPULlama, CPUDesaloja, CPUInterrumpe,
       CPUOlvidaOrden, kernelVars
  <2> QED
    BY <2>1, TiposDiagrama, QuietoDiagrama DEF LoDespierta
<1> QED
  BY <1>1, <1>2, <1>3, <1>4, <1>5, <1>6 DEF Next

\* At the start no process exists.
LEMMA InitDiagrama ==
  ASSUME Init, Inductivo, Ubicacion
  PROVE  D!DiagramaInit /\ AdmiteEnOrden /\ ActivosContados
<1>1. /\ mano["largo"] = Nadie /\ pc["largo"] = "multi" /\ pc["interr"] = "espera"
      /\ cantidad_procesos_ejecutandose = 0 /\ numero_de_procesos = 0
  BY DEF Init, InitScheduler, InitSemaforos, Hilos, HilosFijos
<1>2. \A p \in Pids : Vida(p) = "inexistente"
  <2>1. Creados = {}
    BY <1>1 DEF Creados
  <2> QED
    BY <2>1, VidaPorSitio DEF VidaEnSitio
<1>3. D!Activos = {}
  BY <1>2 DEF D!Activos
<1>4. Cardinality(D!Activos) = 0
  BY <1>3, FS_EmptySet
<1>5. ActivosContados
  <2>1. Uno(pc["interr"] \in {"aum_mira", "aum_resta"}) = 0
    BY <1>1 DEF Uno
  <2>2. Uno(pc["largo"] = "cuenta") = 0
    BY <1>1 DEF Uno
  <2> QED
    BY <1>1, <1>4, <2>1, <2>2 DEF ActivosContados
<1> QED
  BY <1>1, <1>2, <1>5 DEF D!DiagramaInit, AdmiteEnOrden
=============================================================================
