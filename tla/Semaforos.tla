------------------------------ MODULE Semaforos ------------------------------
(***************************************************************************)
(* The threads of the kernel process and what they coordinate through:     *)
(* kernel/src/semaforos.c.  Every POSIX semaphore is a natural number; a    *)
(* sem_wait is a guard "> 0" with a decrement, a sem_post an increment.     *)
(*                                                                         *)
(* Granularity.  An action is one shared access (a critical section, or an *)
(* unlocked read or write of a shared variable) together with the sem_waits *)
(* and receives before it whose only consumer is this thread, and the       *)
(* sem_posts and sends after it.  Those commute with every step of another  *)
(* thread, so that no interleaving of the C program is lost.                *)
(***************************************************************************)
EXTENDS Integers

CONSTANTS
    Interfaz,        \* names of the I/O interfaces that may connect
    Recurso,         \* RECURSOS of kernel.config
    MaxProcesos,     \* bound: processes the console may create
    Algoritmo,       \* ALGORITMO_PLANIFICACION of kernel.config
    GradoInicial     \* GRADO_MULTIPROGRAMACION of kernel.config

ASSUME ParametrosKernel ==
    /\ MaxProcesos \in Nat \ {0}
    /\ GradoInicial \in Nat \ {0}
    /\ Algoritmo \in {"FIFO", "RR", "VRR"}

Pids == 1 .. MaxProcesos
Nadie == 0                       \* a NULL pcb_t*

\* Two bools that the thread of the dispatcher sets, with no lock, before its
\* first sem_wait, and the other threads read.  The model starts once they are
\* set: no command has reached the memory and come back by then.
VRR_modo == Algoritmo = "VRR"
FIFO_modo == Algoritmo = "FIFO"

\* The scheduling threads: the console, the long term scheduler, the
\* dispatcher (short term scheduler) and the handler of CPU contexts; besides
\* them there is one thread per connected interface.
HilosFijos == {"consola", "largo", "corto", "interr"}
Hilos == HilosFijos \cup Interfaz

\* The threads DETENER_PLANIFICACION may stop, each on a semaphore of its own:
\* sem_planificador_largo_comando, sem_planificador_corto_comando,
\* sem_manejo_interrupciones_comando and each interface's sem_interfaz_comando.
Pausables == Hilos \ {"consola"}

\* Interface and queue names live in dictionaries of their own: they are told
\* apart from each other and from the names of the fixed threads and queues.
ASSUME NombresDistintos ==
    /\ Interfaz \cap Recurso = {}
    /\ (Interfaz \cup Recurso) \cap
          (HilosFijos \cup {"new", "ready", "aux", "exit"}) = {}

VARIABLES
    sem_dispatch, sem_interrupcion, sem_multiprogramacion_ready,
    sem_hay_encolado_VRR,
    sem_IO_ejecucion,            \* of each interface
    sem_comando,                 \* of each thread of Pausables
    estado_planificacion_activa,
    cantidad_procesos_ejecutandose,
    grado_multiprogramacion,     \* kernel_config->grado_multiprogramacion
    tiempoVRR,                   \* the counter of the time in the CPU exists
    pc,                          \* where each thread stands in its code
    caido                        \* the kernel process died (SIGSEGV or exit)

semVars == << sem_dispatch, sem_interrupcion, sem_multiprogramacion_ready,
              sem_hay_encolado_VRR, sem_IO_ejecucion, sem_comando >>
planVars == << estado_planificacion_activa, cantidad_procesos_ejecutandose,
               grado_multiprogramacion, tiempoVRR >>

InitSemaforos ==
    /\ sem_dispatch = 1
    /\ sem_interrupcion = 0
    /\ sem_multiprogramacion_ready = GradoInicial
    /\ sem_hay_encolado_VRR = 0
    /\ sem_IO_ejecucion = [i \in Interfaz |-> 0]
    /\ sem_comando = [h \in Pausables |-> 0]
    /\ estado_planificacion_activa = TRUE
    /\ cantidad_procesos_ejecutandose = 0
    /\ grado_multiprogramacion = GradoInicial
    /\ tiempoVRR = FALSE
    /\ caido = FALSE

\* Thread h goes from one point of its code to another.
En(h, l) == pc[h] = l
Sigue(h, l) == pc' = [pc EXCEPT ![h] = l]

\* Where thread h goes after reading estado_planificacion_activa without a
\* lock: on with its work, or to the sem_wait of the resume command.
SigueSiActiva(h, l) ==
    Sigue(h, IF estado_planificacion_activa THEN l ELSE "pausa")

\* The resume command reaches a stopped thread.
SaleDePausa(h, l) ==
    /\ En(h, "pausa")
    /\ sem_comando[h] > 0
    /\ sem_comando' = [sem_comando EXCEPT ![h] = @ - 1]
    /\ Sigue(h, l)

\* Mutant: the post is forgotten.
AvisaNada == UNCHANGED sem_hay_encolado_VRR

\* if (VRR_modo) sem_post(&sem_hay_encolado_VRR)
AvisaEncolado ==
    sem_hay_encolado_VRR' = sem_hay_encolado_VRR + (IF VRR_modo THEN 1 ELSE 0)

\* Mutant: "<" for "<=".
DevuelveCupoEstricto ==
    sem_multiprogramacion_ready' = sem_multiprogramacion_ready +
        (IF cantidad_procesos_ejecutandose < grado_multiprogramacion
         THEN 1 ELSE 0)

\* The unlocked check of aumentar_grado_multiprogramacion; the locked
\* decrement of the counter is a later step of the same thread.
DevuelveCupo ==
    sem_multiprogramacion_ready' = sem_multiprogramacion_ready +
        (IF cantidad_procesos_ejecutandose <= grado_multiprogramacion
         THEN 1 ELSE 0)
=============================================================================
