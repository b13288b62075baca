----------------------------- MODULE KernelProps -----------------------------
(***************************************************************************)
(* What is checked and proved of the kernel.                               *)
(***************************************************************************)
EXTENDS Kernel

Uno(b) == IF b THEN 1 ELSE 0

Etiquetas == {
    "comando", "a_new", "dicc_nuevo", "grado",
    "fin_exec", "fin_new", "fin_ready", "fin_aux", "fin_blocked",
    "exit_new", "exit_ready", "exit_aux", "exit_blocked", "fin_mem",
    "multi", "pausa", "conf", "saca_new", "cond_new", "despierta",
    "pone_ready", "cuenta",
    "dispatch", "elige", "saca_aux", "saca_ready", "pone_exec",
    "espera", "activa", "fin_term", "desaloja", "io", "asigna", "lib_dicc",
    "lib_carga", "lib_guarda", "lib_mira", "lib_saca", "lib_pone",
    "fin_saca", "fin_pone", "aum_mira", "aum_resta", "invalido", "des_pone", "agrega",
    "bloq_saca", "bloq_busca", "bloq_pone", "carga", "guarda", "decide",
    "sig_saca", "sig_pone",
    "desconectada", "instr", "saca", "pone", "borra",
    "quita_cola", "itera", "avisa", "exit", "terminada" }

\* The thread of an interface is serving it, or is past its failure.
Conectadas == {"espera", "instr", "io", "pausa", "saca", "pone", "borra"}
Caidas == { "itera", "lib_dicc", "lib_carga", "lib_guarda", "lib_mira",
            "lib_saca", "lib_pone", "avisa", "exit", "terminada" }

OpsMemoria == {"MEMORY_PROCESS_CREATE", "PATH_INEXISTENTE",
               "MEMORY_PROCESS_TERM"}

SemaforosTypeOK ==
    /\ sem_dispatch \in Nat /\ sem_interrupcion \in Nat
    /\ sem_multiprogramacion_ready \in Nat /\ sem_hay_encolado_VRR \in Nat
    /\ sem_IO_ejecucion \in [Interfaz -> Nat]
    /\ sem_comando \in [Pausables -> Nat]
    /\ estado_planificacion_activa \in BOOLEAN
    /\ cantidad_procesos_ejecutandose \in Int
    /\ grado_multiprogramacion \in Nat \ {0}
    /\ tiempoVRR \in BOOLEAN /\ caido \in BOOLEAN

SchedulerTypeOK ==
    /\ colas \in [Colas -> Seq(Pids)]
    /\ huerfana \in [Interfaz -> Seq(Pids)]
    /\ claves \in SUBSET Bloqueados
    /\ proceso_ejecutando \in Pids \cup {Nadie}
    /\ estado \in [Pids -> Estados]
    /\ mano \in [Hilos -> Pids \cup {Nadie}]

RecursosTypeOK ==
    /\ recursos \in [Recurso -> Int]
    /\ con_recursos \in SUBSET Pids
    /\ asignados \in [Pids -> [Recurso -> Int]]
    /\ liberando \in [Hilos -> [Recurso -> Int]]
    /\ pendientes \in [Hilos -> SUBSET Recurso]
    /\ copia \in [Hilos -> Int]

ConexionesTypeOK ==
    /\ pedidos \in Seq([op : OpsMemoria, pid : Pids])
    /\ confirmaciones \in Seq({"MEMORY_PROCESS_CREATE", "MEMORY_INVALID_PATH"})
    /\ en_memoria \in SUBSET Pids
    /\ enviados \in Seq(Pids)
    /\ recibidos \in Seq(Contexto)
    /\ ordenes \in Nat
    /\ presupuesto \in [Pids -> Nat]
    /\ interfaces \in SUBSET Interfaz
    /\ instrucciones \in SUBSET Pids

LocalesTypeOK ==
    /\ tokens \in Instruccion
    /\ pcb_io \in [Interfaz -> Pids \cup {Nadie}]
    /\ numero_de_procesos \in 0 .. MaxProcesos
    /\ pid_a_finalizar \in Pids \cup {Nadie}
    /\ nuevo_grado \in Nat \ {0}
    /\ dados \in Nat

\* Every variable has its type.
TypeOK ==
    /\ pc \in [Hilos -> Etiquetas]
    /\ SemaforosTypeOK /\ SchedulerTypeOK /\ RecursosTypeOK
    /\ ConexionesTypeOK /\ LocalesTypeOK

-----------------------------------------------------------------------------
(* The CPU's turn.                                                         *)

\* The handler still owes somebody the CPU: it has taken a context and has
\* neither posted sem_dispatch nor sent the process back.
HandlerConTurno ==
    /\ ~ En("interr", "espera")
    /\ ~ (pc["interr"] \in {"aum_mira", "aum_resta"} /\ tokens.op \in OpsDeFin)

\* Exactly one of sem_dispatch, the dispatcher, sem_interrupcion and the
\* handler has the CPU's turn, whatever the console does: the kernel never
\* dispatches over a running process and never loses the CPU (hazard of the
\* two semaphores that planificador_corto_plazo.c and
\* manejo_interrupciones_cpu.c pass to each other on every path).
TurnoUnico ==
    sem_dispatch + Uno(~ En("corto", "dispatch"))
        + sem_interrupcion + Uno(HandlerConTurno) = 1

\* The code before the pop from EXEC.
AntesDeSacar == { "activa", "pausa", "fin_term", "lib_dicc", "lib_carga",
    "lib_guarda", "lib_mira", "lib_saca", "lib_pone", "fin_saca", "desaloja",
    "io", "agrega", "bloq_saca", "asigna", "carga", "guarda", "decide",
    "sig_saca", "sig_pone" }

\* The CPU has a pcb or a context on its way exactly while somebody will wait
\* for it, and it is that of the process in EXEC: the handler never takes the
\* context of another process for its own (the assertion at
\* scheduler.c:260-263) and dereferences proceso_ejecutando only when there
\* is one.
ContextoPropio ==
    /\ Len(enviados) + Len(recibidos) = sem_interrupcion
    /\ \A k \in 1 .. Len(enviados) : enviados[k] = proceso_ejecutando
    /\ \A k \in 1 .. Len(recibidos) : recibidos[k].pid = proceso_ejecutando
    /\ sem_interrupcion > 0 \/ pc["interr"] \in AntesDeSacar
          <=> proceso_ejecutando # Nadie

-----------------------------------------------------------------------------
(* What these three rest on: an invariant each step preserves.             *)

\* A thread that is about to push a pcb, or to wake the first of a list while
\* it releases a resource, has one.
ConMano == { "a_new", "exit_new", "exit_ready", "exit_aux", "exit_blocked",
             "pone_ready", "pone_exec", "fin_pone", "des_pone", "bloq_busca",
             "bloq_pone", "sig_pone", "lib_pone", "pone" }

ManoLlena ==
    \A h \in Hilos :
        /\ pc[h] \in ConMano => mano[h] \in Pids
        /\ pc[h] \in {"lib_guarda", "lib_mira", "lib_saca", "lib_pone"}
              => pendientes[h] # {}

\* The argument the handler works with, and the command of the console.
ArgumentoValido ==
    /\ pc["interr"] \in { "asigna", "carga", "guarda", "decide", "sig_saca",
                          "sig_pone" }
          => tokens.arg \in Recurso
    /\ pc["interr"] \in {"bloq_saca", "bloq_busca", "bloq_pone"}
          => tokens.arg \in Bloqueados
    /\ pc["consola"] \in {"a_new", "dicc_nuevo"} => numero_de_procesos \in Pids
    /\ pc["consola"] \in { "fin_exec", "fin_new", "fin_ready", "fin_aux",
                           "fin_blocked", "fin_mem", "exit_new", "exit_ready",
                           "exit_aux", "exit_blocked" }
          => pid_a_finalizar \in Pids

\* An interface that failed is at the head of its list, and the element that
\* list_iterate read ahead is the one after it.
IteracionValida ==
    \A i \in Interfaz :
        /\ En(i, "itera") /\ pcb_io[i] # Nadie => huerfana[i] # << >>
        /\ pc[i] \in { "lib_dicc", "lib_carga", "lib_guarda", "lib_mira",
                       "lib_saca", "lib_pone", "avisa", "exit" }
              => /\ huerfana[i] # << >>
                 /\ pcb_io[i] # Nadie => Len(huerfana[i]) >= 2

\* The inductive invariant: no conjunct is preserved without the others.  The
\* handler's only way out of its loop is the turn it holds, the pid it trusts
\* is that of the process in EXEC, and that one came out of a queue of pids.
Inductivo ==
    /\ TypeOK
    /\ ManoLlena /\ ArgumentoValido /\ IteracionValida
    /\ TurnoUnico /\ ContextoPropio

-----------------------------------------------------------------------------
(* Where each process is.                                                  *)

Creados == 1 .. numero_de_procesos

\* The places process p is in: positions of the queues and of the lists that
\* lost their key, hands of threads, EXEC.
EnColas(p) ==
    UNION { { << "cola", q, k >> : k \in { j \in 1 .. Len(colas[q]) :
                                            colas[q][j] = p } } : q \in Colas }
EnHuerfanas(p) ==
    UNION { { << "huerfana", i, k >> :
                k \in { j \in 1 .. Len(huerfana[i]) :
                          huerfana[i][j] = p } } : i \in Interfaz }
EnUnaMano(p) == { << "mano", h, 0 >> : h \in { g \in Hilos : mano[g] = p } }
EnExec(p) ==
    { << "exec", "exec", 0 >> : e \in { proceso_ejecutando } \cap {p} }

Lugares(p) == EnColas(p) \cup EnHuerfanas(p) \cup EnUnaMano(p) \cup EnExec(p)

\* A process that was created is in one place and one only: in a queue, in
\* EXEC or in the hands of the thread that is moving it.  A move is two
\* critical sections of scheduler.c, and nothing is lost or duplicated
\* between them.
UnSoloLugar == \A p \in Creados : \E l \in Lugares(p) : Lugares(p) = {l}

\* No process is in two places, even when the console takes one out of its
\* queue under the feet of the thread that was going to.
NuncaDoble == \A p \in Pids : \A l, m \in Lugares(p) : l = m

(* What these two rest on, besides Inductivo.                               *)

\* The lists, the hands of the threads and EXEC; process p is in one of them.
Sitios ==
    ({"cola"} \X Colas) \cup ({"huerfana"} \X Interfaz)
        \cup ({"mano"} \X Hilos) \cup ({"exec"} \X {"exec"})

Esta(p, l) ==
    CASE l[1] = "cola" -> Contains(colas[l[2]], p)
      [] l[1] = "huerfana" -> Contains(huerfana[l[2]], p)
      [] l[1] = "mano" -> mano[l[2]] = p
      [] l[1] = "exec" -> proceso_ejecutando = p

Ubicado(p) == \E l \in Sitios : Esta(p, l)

\* Process x goes from place a to place b, and no other process moves.
Mueve(x, a, b) ==
    \A p \in Pids, l \in Sitios :
        Esta(p, l)' <=> (Esta(p, l) /\ ~ (p = x /\ l = a)) \/ (p = x /\ l = b)

\* No process is lost by a step.
NadieSePierde == \A p \in Pids : Ubicado(p) => Ubicado(p)'

\* No list has a process twice, and no process is in two places.
SinRepetidos ==
    /\ \A q \in Colas : IsInjective(colas[q])
    /\ \A i \in Interfaz : IsInjective(huerfana[i])

UnSitio ==
    \A p \in Pids, l \in Sitios :
        Esta(p, l) => \A m \in Sitios : Esta(p, m) => l = m

\* Every process that was created is somewhere.
TodosUbicados == \A p \in Creados : Ubicado(p)

\* The console is not in the middle of a FINALIZAR_PROCESO.
SinFin == {"comando", "a_new", "dicc_nuevo", "grado"}

\* A process that was not created is nowhere, and its estado is the one
\* crear_pcb will give it.
SinCrear == \A p \in Pids \ Creados : ~ Ubicado(p) /\ estado[p] = "NEW"

\* Only these places have processes whose estado is NEW, and no others: what
\* proceso_a_exit looks at to give a token back or not (scheduler.c:220-230).
EsNuevo(l) ==
    \/ l \in { << "cola", "new" >>, << "mano", "largo" >> }
    \/ l = << "mano", "consola" >> /\ pc["consola"] \in {"a_new", "exit_new"}

EstadoNuevo ==
    \A p \in Pids, l \in Sitios : Esta(p, l) => (estado[p] = "NEW" <=> EsNuevo(l))

\* A thread has a pcb in its hands only between a pop and a push, and the
\* console that of the process it was told to end.
EnExit == {"exit_new", "exit_ready", "exit_aux", "exit_blocked"}

ManoJusta ==
    /\ \A h \in Hilos : mano[h] # Nadie => pc[h] \in ConMano
    /\ pc["consola"] \in EnExit => mano["consola"] = pid_a_finalizar

Ubicacion ==
    /\ SinRepetidos /\ UnSitio /\ SinCrear /\ EstadoNuevo /\ ManoJusta

-----------------------------------------------------------------------------
(* Multiprogramming.                                                       *)

\* The console has checked the count in proceso_a_exit and not lowered it.
FinalizarCuenta == pc["consola"] \in {"exit_ready", "exit_aux", "exit_blocked"}

\* The tokens of the degree: in the semaphore, with the long term scheduler or
\* counted for an admitted process.  The unlocked check and the locked
\* decrement of aumentar_grado_multiprogramacion count one twice in between.
Cupos ==
    sem_multiprogramacion_ready + Uno(~ En("largo", "multi"))
        + cantidad_procesos_ejecutandose
        - Uno(En("interr", "aum_resta"))
        - Uno(FinalizarCuenta)

\* While neither FINALIZAR_PROCESO nor MULTIPROGRAMACION is given no token is
\* lost or made up, whatever the order in which processes are admitted, end or
\* are thrown out by an interface that fails.
CupoExacto == Cupos = grado_multiprogramacion

\* With FINALIZAR_PROCESO too none is made up: the degree is a bound on the
\* processes admitted, though the handler and the console give theirs back
\* side by side.
CupoNuncaSobra == Cupos <= grado_multiprogramacion

\* When the degree is lowered while processes end, there are tokens for as
\* many as it says: aumentar_grado keeps back no more than the excess.  (Not
\* when it is raised: the posts come before the assignment, and a process that
\* ends in between is measured against the old degree.)
CupoAlcanza == Cupos >= grado_multiprogramacion

GradoQueBaja ==
    /\ {grado_multiprogramacion, nuevo_grado} \subseteq {GradoInicial} \cup Grados
    /\ En("consola", "grado") => nuevo_grado <= grado_multiprogramacion

\* A step that keeps a token back leaves as many as the degree says.  There
\* are two windows in which it may leave one less for ever: the check of one
\* thread, without the lock, sees the process that the other one has checked
\* and has not discounted yet (scheduler.c:222-230,
\* manejo_interrupciones_cpu.c:379-387).
CupoRetenido ==
    [][\/ Cupos' >= Cupos
       \/ Cupos' >= grado_multiprogramacion
       \/ En("interr", "aum_mira") /\ FinalizarCuenta
       \/ En("interr", "aum_resta") /\ FinalizarCuenta']_vars

-----------------------------------------------------------------------------
(* Resources.                                                              *)

\* The step between the two books the handler keeps for a WAIT or SIGNAL.
EnTramite(r) ==
    IF tokens.arg = r /\ pc["interr"] \in {"carga", "guarda"}
    THEN IF tokens.op = "WAIT" THEN -1 ELSE 1
    ELSE 0

\* Instances of r that are available, held, or being given back.
Balance(r) ==
    recursos[r] + SumFunction([p \in Pids |-> asignados[p][r]])
    + SumFunction([h \in Hilos |-> liberando[h][r]]) + EnTramite(r)

\* iniciar_proceso puts a new dictionary over one that the process already has
\* because it was dispatched before its creation was over.
PisaDiccionario ==
    En("consola", "dicc_nuevo") /\ numero_de_procesos \in con_recursos

\* recursos and recursos_asignados always tell the same story: no step creates
\* or loses an instance, but the one of the console that puts an empty
\* dictionary over what the process was given (consola.c:115-117).
ConservaInstancias ==
    [][PisaDiccionario \/ \A r \in Recurso : Balance(r)' = Balance(r)]_vars

\* The handler is deciding whether p gets r.
EnEspera(p, r) ==
    \/ Contains(colas[r], p)
    \/ /\ tokens.op = "WAIT" /\ tokens.arg = r
       /\ \/ /\ proceso_ejecutando = p
             /\ pc["interr"] \in {"carga", "guarda", "decide", "bloq_saca"}
          \/ /\ mano["interr"] = p
             /\ pc["interr"] \in {"bloq_busca", "bloq_pone"}

\* No more processes hold a resource than it has instances, with programs
\* that signal only what they waited for: those the kernel let go on past
\* their WAIT.  It is the wake-up in SIGNAL and in the release of a process
\* that ends that could hand one instance to two.
ExclusionMutua ==
    \A r \in Recurso :
        Cardinality({ p \in Pids : asignados[p][r] > 0 /\ ~ EnEspera(p, r) })
            <= Instancias[r]

(* What these two rest on, besides Invariante, while no process is ended by *)
(* the console and no interface fails: the handler is then the only one in  *)
(* liberar_recursos_de_proceso.                                             *)

SoloInterrLibera ==
    /\ \A i \in Interfaz : pc[i] \in Conectadas \cup {"desconectada"}
    /\ \A h \in Hilos \ {"interr"} : liberando[h] = SinAsignar

\* What the handler works on: the operation, the value it loaded, the keys of
\* the dictionary it has not released yet.
OperacionDeRecurso ==
    /\ pc["interr"] \in {"asigna", "carga", "guarda", "decide"}
          => tokens.op \in {"WAIT", "SIGNAL"}
    /\ pc["interr"] \in {"sig_saca", "sig_pone"} => tokens.op = "SIGNAL"
    /\ /\ pc["interr"] \in {"agrega", "bloq_saca", "bloq_busca", "bloq_pone"}
       /\ tokens.op = "IO"
       => tokens.arg \in Interfaz

ValorVigente ==
    /\ En("interr", "guarda") => copia["interr"] = recursos[tokens.arg]
    /\ En("interr", "lib_guarda") =>
          copia["interr"] = recursos[Actual("interr")]
    /\ En("interr", "sig_saca") => recursos[tokens.arg] >= 0
    /\ En("interr", "lib_saca") => recursos[Actual("interr")] >= 0

PorLiberar ==
    /\ \A r \in Recurso : liberando["interr"][r] # 0 =>
          /\ pc["interr"] \in { "lib_carga", "lib_guarda", "lib_mira",
                                "lib_saca", "lib_pone" }
          /\ r \in pendientes["interr"]
    /\ pc["interr"] \in {"lib_mira", "lib_saca", "lib_pone"} =>
          liberando["interr"][Actual("interr")] = 0

\* Who has no dictionary has nothing in it.
NadaSinDiccionario == \A p \in Pids \ con_recursos : asignados[p] = SinAsignar

LibrosAlDia ==
    /\ SoloInterrLibera /\ OperacionDeRecurso /\ ValorVigente
    /\ PorLiberar /\ NadaSinDiccionario

\* The instances of r that p has, and those with the one it waits for.  A
\* dictionary that was put over another one may have it owe some.
Tiene(p, r) ==
    LET n == asignados[p][r] - Uno(EnEspera(p, r))
    IN  IF n > 0 THEN n ELSE 0
Pretende(p, r) == Tiene(p, r) + Uno(EnEspera(p, r))

\* A SIGNAL of r is on its way, of one that it no longer has.
SignalAjeno(r) ==
    /\ proceso_ejecutando \in Pids
    /\ asignados[proceso_ejecutando][r] <= 0
    /\ \/ \E k \in 1 .. Len(recibidos) :
             recibidos[k].op = "SIGNAL" /\ recibidos[k].arg = r
       \/ /\ pc["interr"] \in {"activa", "pausa", "asigna"}
          /\ tokens.op = "SIGNAL" /\ tokens.arg = r

Tenidas(r) == SumFunction([p \in Pids |-> Tiene(p, r)])
Pretendidas(r) == SumFunction([p \in Pids |-> Pretende(p, r)])

\* Those that nobody has, or that the handler has in its hands.
Sueltas(r) == recursos[r] + liberando["interr"][r] + EnTramite(r)

\* No more is had or asked for than there is.  That who waits is counted apart
\* is what makes the wake-ups right.
RepartoDe(r) ==
    /\ Tenidas(r) + Uno(SignalAjeno(r)) <= Instancias[r]
    /\ Pretendidas(r) + Uno(SignalAjeno(r)) + Sueltas(r) <= Instancias[r]

Reparto == \A r \in Recurso : RepartoDe(r)

-----------------------------------------------------------------------------
(* The memory.                                                             *)

\* What reaches READY or the CPU has been created in the memory: the
\* confirmations the long term scheduler counts carry no pid, and match the
\* order of cola_new (planificador_largo_plazo.c:37-38).
SoloListosCargados ==
    /\ \A q \in {"ready", "aux"} :
          \A k \in 1 .. Len(colas[q]) : colas[q][k] \in en_memoria
    /\ \A k \in 1 .. Len(enviados) : enviados[k] \in en_memoria

(* What it rests on, besides Invariante, while no process is ended by the   *)
(* console.                                                                *)

\* The processes the long term scheduler took out of NEW, and those it has a
\* confirmation for.
Admitidos == numero_de_procesos - Len(colas["new"]) - Uno(En("consola", "a_new"))
Confirmados ==
    Admitidos + Uno(pc["largo"] \in {"saca_new", "cond_new", "despierta"})

\* NEW holds the rest, in the order of their pids, and whoever was woken finds
\* one there.
NuevosEnOrden ==
    /\ \A k \in 1 .. Len(colas["new"]) : colas["new"][k] = Admitidos + k
    /\ En("consola", "a_new") => mano["consola"] = numero_de_procesos
    /\ En("largo", "despierta") => colas["new"] # << >>

\* The requests of creation come after the confirmations, one for each pid in
\* their order, and the confirmation that comes next is that of the next
\* process to be admitted.
EsCreacion(k) == pedidos[k].op # "MEMORY_PROCESS_TERM"
Respondidos == Confirmados + Len(confirmaciones)

RespuestasEnOrden ==
    /\ Respondidos <= numero_de_procesos
    /\ \A j, k \in 1 .. Len(pedidos) :
          EsCreacion(j) /\ EsCreacion(k) /\ j < k => pedidos[j].pid < pedidos[k].pid
    /\ \A p \in Pids :
          p \in Respondidos + 1 .. numero_de_procesos
              <=> \E k \in 1 .. Len(pedidos) : EsCreacion(k) /\ pedidos[k].pid = p
    /\ \A k \in 1 .. Len(confirmaciones) :
          confirmaciones[k] = "MEMORY_PROCESS_CREATE" => Confirmados + k \in en_memoria

\* Process p has given its resources back, and the places where it may be then.
Liberado(p) ==
    \/ Contains(colas["exit"], p)
    \/ /\ pc["interr"] \in { "lib_carga", "lib_guarda", "lib_mira", "lib_saca",
                              "lib_pone", "fin_saca" }
       /\ proceso_ejecutando = p
    \/ En("interr", "fin_pone") /\ mano["interr"] = p

\* The memory was asked to forget it.
Olvidado(p) ==
    \/ Liberado(p)
    \/ En("interr", "lib_dicc") /\ proceso_ejecutando = p
    \/ \E i \in Interfaz : En(i, "exit") /\ Primero(huerfana[i]) = p

\* The memory has who was confirmed, and is asked to forget only who ends.
EnMemoria ==
    /\ \A p \in 1 .. Confirmados : p \in en_memoria \/ Olvidado(p)
    /\ \A p \in Pids, k \in 1 .. Len(pedidos) :
          pedidos[k].pid = p /\ ~ EsCreacion(k) => Olvidado(p)

Cargados == NuevosEnOrden /\ (caido \/ RespuestasEnOrden) /\ EnMemoria

-----------------------------------------------------------------------------
(* Stopping and resuming.                                                  *)

\* A thread that read the flag while scheduling was stopped finds the post of
\* INICIAR_PLANIFICACION however late it gets to its sem_wait: no thread stays
\* stopped when scheduling is on (the flag is read with no lock).
NadieQuedaDetenido ==
    estado_planificacion_activa =>
        \A h \in Pausables : En(h, "pausa") => sem_comando[h] > 0

-----------------------------------------------------------------------------
(* The ready queues under VRR.                                             *)

\* Who the dispatcher has been told of and has not taken yet.
Avisados ==
    sem_hay_encolado_VRR
        + Uno(pc["corto"] \in {"pausa", "elige", "saca_aux", "saca_ready"})
        + Uno(En("largo", "cuenta"))

\* sem_hay_encolado_VRR counts the two ready queues, with the posts that come
\* after the push and the one of DESALOJO_QUANTUM that comes before it: the
\* dispatcher neither sleeps with somebody ready nor looks for nobody.
EncoladoExacto ==
    Avisados = Len(colas["ready"]) + Len(colas["aux"])
                    + Uno(En("interr", "des_pone"))

(* What the counts and the lists rest on, besides Inductivo and Ubicacion: *)
(* what ties the threads to each other, whatever the commands.              *)

\* The name of an interface is in the dictionary while its thread serves it.
InterfazViva == \A i \in Interfaz : pc[i] \in Conectadas <=> i \in interfaces

\* Only a thread that took its list has one of its own.
ListaTomada == \A i \in Interfaz : huerfana[i] # << >> => pc[i] \in Caidas

\* The list the handler looked up is there when it pushes, unless it is that
\* of an interface that took it in between.
BloqueoConLista ==
    En("interr", "bloq_pone") =>
        \/ tokens.arg \in claves
        \/ tokens.arg \in Interfaz /\ pc[tokens.arg] \in Caidas

\* A process is blocked on an interface by IO and on a resource by WAIT.
OperacionDeIO ==
    /\ pc["interr"] \in {"io", "agrega"} => tokens.op = "IO"
    /\ pc["interr"] \in {"bloq_saca", "bloq_busca", "bloq_pone"} =>
          \/ tokens.op = "IO"
          \/ tokens.op = "WAIT" /\ tokens.arg \in Recurso

Enlace ==
    /\ InterfazViva /\ ListaTomada /\ BloqueoConLista /\ OperacionDeIO
    /\ NadieQuedaDetenido

\* What holds in every state of the kernel, and is preserved by every step.
Invariante == Inductivo /\ Ubicacion /\ Enlace

\* Without FINALIZAR_PROCESO the semaphore of an interface counts its queue:
\* its thread never looks at an empty one.
IOExacta ==
    \A i \in Interfaz : pc[i] \notin Caidas =>
        sem_IO_ejecucion[i]
          + Uno(pc[i] \in {"instr", "io", "pausa", "saca", "quita_cola"})
        = Len(colas[i])

\* Both counts.
ColasContadas == IOExacta /\ (VRR_modo /\ Recurso = {} => EncoladoExacto)

-----------------------------------------------------------------------------
(* Where the kernel may die.                                               *)

\* Without FINALIZAR_PROCESO, and while the memory and the CPU are there, the
\* kernel dies in these places and no other, whatever the programs and the
\* interfaces do (an operation of a dictionary is taken as atomic): a program
\* ends, signals, or is ended with its interface, before the console gave it
\* its dictionary (consola.c:115-117); a second I/O of a process lost its
\* instruction, removed with that of the first one
\* (kernel_interface_handler.c:223-225), or its tokens are freed so while the
\* handler (manejo_interrupciones_cpu.c:145, scheduler.c:149-152) or the
\* second interface (manejo_interrupciones_cpu.c:268) reads them; a resource
\* that nobody configured (manejo_interrupciones_cpu.c:172 and 211); a path
\* that the memory does not have (planificador_largo_plazo.c:61); an interface
\* that failed after the handler looked it up; and in VRR the counter that was
\* freed (manejo_interrupciones_cpu.c:51).
CaidaConocida ==
    caido =>
        \/ /\ En("consola", "dicc_nuevo")
           /\ \/ /\ \/ En("interr", "lib_dicc")
                    \/ En("interr", "asigna") /\ tokens.op = "SIGNAL"
                 /\ proceso_ejecutando = numero_de_procesos
              \/ \E i \in Interfaz :
                    /\ En(i, "lib_dicc")
                    /\ Primero(huerfana[i]) = numero_de_procesos
        \/ \E i \in Interfaz :
              /\ pc[i] \in {"instr", "saca", "pausa", "quita_cola"}
              /\ pcb_io[i] \notin instrucciones
        \/ /\ pc["interr"] \in {"bloq_busca", "bloq_pone"} /\ tokens.op = "IO"
           /\ mano["interr"] \notin instrucciones
        \/ En("interr", "invalido") /\ tokens.arg \notin Recurso
        \/ En("largo", "conf") /\ "PATH_INEXISTENTE" \in Comandos
        \/ \E i \in Desconexiones \ interfaces :
              \/ En("interr", "agrega") /\ tokens.arg = i
              \/ /\ En("interr", "espera")
                 /\ colas[i] # << >> \/ huerfana[i] # << >>
        \/ VRR_modo /\ En("interr", "activa")

(* What it rests on, besides Invariante, ColasContadas and Cargados.         *)

\* The dictionary of process p was taken out of recursos_asignados.
Despojado(p) ==
    \/ Liberado(p)
    \/ \E i \in Interfaz :
          /\ pc[i] \in { "lib_carga", "lib_guarda", "lib_mira", "lib_saca",
                         "lib_pone", "avisa", "exit" }
          /\ Primero(huerfana[i]) = p

\* Every process has a dictionary from its creation to its end, but for the
\* last one while the console has yet to give it one.
ConDiccionario ==
    \A p \in Creados \ con_recursos :
        \/ pc["consola"] \in {"a_new", "dicc_nuevo"} /\ p = numero_de_procesos
        \/ Despojado(p)

\* An interface that was looked up is still there, or is one of those that fail.
InterfazHallada ==
    /\ pc["interr"] \in {"agrega", "bloq_saca", "bloq_busca", "bloq_pone"}
    /\ tokens.op = "IO"
    => tokens.arg \in interfaces \cup (Interfaz \cap Desconexiones)

\* A WAIT or SIGNAL that ends its process is of a resource nobody configured.
FinPorRecurso ==
    /\ /\ pc["interr"] \in { "fin_term", "lib_dicc", "lib_carga",
                             "lib_guarda", "lib_mira", "lib_saca", "lib_pone",
                             "fin_saca", "fin_pone", "aum_mira", "aum_resta",
                             "invalido" }
       /\ tokens.op \in {"WAIT", "SIGNAL"}
       => tokens.arg \notin Recurso
    /\ En("interr", "invalido") => tokens.op \in {"WAIT", "SIGNAL"}

\* A path is refused only if one that does not exist is given.
PathsValidos ==
    "PATH_INEXISTENTE" \notin Comandos =>
        /\ \A k \in 1 .. Len(pedidos) : pedidos[k].op # "PATH_INEXISTENTE"
        /\ \A k \in 1 .. Len(confirmaciones) :
              confirmaciones[k] # "MEMORY_INVALID_PATH"

\* What no step before the last one breaks.
SinCaida ==
    /\ ConDiccionario /\ InterfazHallada /\ FinPorRecurso /\ PathsValidos

\* The counter of the time in the CPU that the handler reads and destroys for
\* each context is one that planificador_corto_plazo.c:106-108 created.
TiempoContado == VRR_modo /\ sem_interrupcion > 0 => tiempoVRR

-----------------------------------------------------------------------------
(* What the kernel implements.                                             *)

\* The place of process p in the five-state diagram: a process in a thread's
\* hands is still where it was taken from.
EnManos(p, h) == mano[h] = p
LoDespierta == pc["interr"] \in {"sig_pone", "lib_pone"}

Vida(p) ==
    CASE p > numero_de_procesos \/ EnManos(p, "consola") -> "inexistente"
      [] Contains(colas["new"], p) \/ EnManos(p, "largo") -> "NEW"
      [] (\E q \in {"ready", "aux"} : Contains(colas[q], p))
            \/ EnManos(p, "corto") -> "READY"
      [] proceso_ejecutando = p \/ (EnManos(p, "interr") /\ ~ LoDespierta)
            -> "EXEC"
      [] Contains(colas["exit"], p) -> "EXIT"
      [] OTHER -> "BLOCKED"

\* The threads, queues and semaphores implement the diagram: every step of
\* theirs is a legal move of one process, admitted in order and within the
\* degree of multiprogramming, or no move at all.
D == INSTANCE Diagrama WITH
        Procesos <- Pids, Grado <- GradoInicial,
        lugar <- [p \in Pids |-> Vida(p)]
ImplementaDiagrama == D!DiagramaSpec

(* What it rests on, besides Invariante, CupoExacto and Cargados.            *)

\* The long term scheduler has the last process it took out of NEW.
AdmiteEnOrden == mano["largo"] # Nadie => mano["largo"] = Admitidos

\* The count of the admitted processes never falls behind: it is raised after
\* the push to READY and lowered after the one to EXIT.
ActivosContados ==
    Cardinality(D!Activos) + Uno(pc["interr"] \in {"aum_mira", "aum_resta"})
        <= cantidad_procesos_ejecutandose + Uno(En("largo", "cuenta"))

-----------------------------------------------------------------------------
(* Liveness.                                                               *)

\* Every process that is created ends, if all programs do: no token of the
\* CPU, of multiprogramming or of an interface is lost on the way.
TodosTerminan ==
    \A p \in Pids :
        numero_de_procesos >= p ~> (Contains(colas["exit"], p) \/ caido)
=============================================================================
