------------------------------ MODULE Recursos ------------------------------
(***************************************************************************)
(* Resource instances and who holds them: kernel/src/recursos.c.  The      *)
(* handler of CPU contexts changes "recursos" with no lock; the release of  *)
(* everything a process holds does it under recursos_mutex.  The            *)
(* increments and decrements are a load and a store each.                   *)
(***************************************************************************)
EXTENDS Scheduler

CONSTANT Instancias      \* INSTANCIAS_RECURSOS of kernel.config

ASSUME InstanciasDeRecurso == Instancias \in [Recurso -> Nat]

Ninguno == "ninguno"     \* no resource or interface

VARIABLES
    recursos,            \* available instances; negative: someone waits
    con_recursos,        \* the keys of the dictionary recursos_asignados
    asignados,           \* recursos_asignados[pid][recurso]
    liberando,           \* the dictionary a thread took out to release it
    pendientes,          \* its keys the iteration has not reached yet
    copia                \* the loaded value of a resource, not stored yet

recVars == << recursos, con_recursos, asignados, liberando, pendientes, copia >>

SinAsignar == [r \in Recurso |-> 0]

InitRecursos ==
    /\ recursos = Instancias
    /\ con_recursos = {}
    /\ asignados = [p \in Pids |-> SinAsignar]
    /\ liberando = [h \in Hilos |-> SinAsignar]
    /\ pendientes = [h \in Hilos |-> {}]
    /\ copia = [h \in Hilos |-> 0]

\* inicializar_recursos_proceso: a new dictionary of zeros, over any other.
InicializarRecursosProceso(p) ==
    /\ con_recursos' = con_recursos \cup {p}
    /\ asignados' = [asignados EXCEPT ![p] = SinAsignar]
    /\ UNCHANGED << recursos, liberando, pendientes, copia >>

\* asignar_recurso_a_proceso creates the dictionary when it is missing.
AsignarRecursoAProceso(p, r) ==
    /\ con_recursos' = con_recursos \cup {p}
    /\ asignados' = [asignados EXCEPT ![p] =
          [(IF p \in con_recursos THEN asignados[p] ELSE SinAsignar)
              EXCEPT ![r] = @ + 1]]
    /\ UNCHANGED << recursos, liberando, pendientes, copia >>

\* Mutant: the instance is given back and still listed as held.
NoLiberaRecurso(p, r) == p \in Pids /\ r \in Recurso /\ UNCHANGED recVars

LiberarRecursoDeProceso(p, r) ==
    /\ asignados' = [asignados EXCEPT ![p][r] = @ - 1]
    /\ UNCHANGED << recursos, con_recursos, liberando, pendientes, copia >>

\* restar_recurso and sumar_recurso on "recursos": load, then store.
CargaRecurso(h, r) ==
    /\ copia' = [copia EXCEPT ![h] = recursos[r]]
    /\ UNCHANGED << recursos, con_recursos, asignados, liberando, pendientes >>

GuardaRecurso(h, r, n) ==
    /\ recursos' = [recursos EXCEPT ![r] = copia[h] + n]
    /\ copia' = [copia EXCEPT ![h] = 0]
    /\ UNCHANGED << con_recursos, asignados, liberando, pendientes >>

-----------------------------------------------------------------------------
(* liberar_recursos_de_proceso, run by the handler for a process that ends *)
(* and by the console for one it finishes.  "dest" is where the thread goes *)
(* when the iteration is over.                                             *)

RecursosMutexLibre(h) ==
    \A o \in Hilos \ {h} :
        pc[o] \notin {"lib_guarda", "lib_mira", "lib_saca", "lib_pone"}

\* dictionary_remove; a missing dictionary is a NULL that gets dereferenced.
LiberarSacaDiccionario(h, p) ==
    /\ En(h, "lib_dicc")
    /\ \/ /\ p \notin con_recursos
          /\ caido' = TRUE
          /\ UNCHANGED << pc, recVars >>
       \/ /\ p \in con_recursos
          /\ con_recursos' = con_recursos \ {p}
          /\ liberando' = [liberando EXCEPT ![h] = asignados[p]]
          /\ asignados' = [asignados EXCEPT ![p] = SinAsignar]
          /\ pendientes' = [pendientes EXCEPT ![h] = Recurso]
          /\ Sigue(h, "lib_carga")
          /\ UNCHANGED << recursos, copia, caido >>
    /\ UNCHANGED << semVars, planVars, schedVars >>

\* The order of dictionary_iterator: fixed, and unknown.
Actual(h) == CHOOSE r \in pendientes[h] : TRUE

LiberarCarga(h) ==
    /\ En(h, "lib_carga")
    /\ pendientes[h] # {}
    /\ RecursosMutexLibre(h)
    /\ CargaRecurso(h, Actual(h))
    /\ Sigue(h, "lib_guarda")
    /\ UNCHANGED << semVars, planVars, schedVars, caido >>

LiberarGuarda(h) ==
    /\ En(h, "lib_guarda")
    /\ recursos' = [recursos EXCEPT ![Actual(h)] =
                        copia[h] + liberando[h][Actual(h)]]
    /\ copia' = [copia EXCEPT ![h] = 0]
    /\ liberando' = [liberando EXCEPT ![h][Actual(h)] = 0]
    /\ Sigue(h, "lib_mira")
    /\ UNCHANGED << con_recursos, asignados, pendientes >>
    /\ UNCHANGED << semVars, planVars, schedVars, caido >>

\* The resource is done with: the iteration goes on to the next one.
PasaDeRecurso(h) ==
    /\ pendientes' = [pendientes EXCEPT ![h] = @ \ {Actual(h)}]
    /\ UNCHANGED << recursos, con_recursos, asignados, liberando, copia >>

LiberarMira(h) ==
    /\ En(h, "lib_mira")
    /\ \/ /\ recursos[Actual(h)] >= 0
          /\ Sigue(h, "lib_saca")
          /\ UNCHANGED recVars
       \/ /\ recursos[Actual(h)] < 0
          /\ PasaDeRecurso(h)
          /\ Sigue(h, "lib_carga")
    /\ UNCHANGED << semVars, planVars, schedVars, caido >>

\* cola_blocked_a_ready: it wakes one process at most, and in VRR nobody
\* posts sem_hay_encolado_VRR for it.
LiberarSaca(h) ==
    /\ En(h, "lib_saca")
    /\ \/ /\ Saca(h, Actual(h))
          /\ Sigue(h, "lib_pone")
          /\ UNCHANGED recVars
       \/ /\ Libre(h, Actual(h))
          /\ colas[Actual(h)] = << >>
          /\ PasaDeRecurso(h)
          /\ Sigue(h, "lib_carga")
          /\ UNCHANGED schedVars
    /\ UNCHANGED << semVars, planVars, caido >>

LiberarPone(h) ==
    /\ En(h, "lib_pone")
    /\ Pone(h, "ready", "READY")
    /\ PasaDeRecurso(h)
    /\ Sigue(h, "lib_carga")
    /\ UNCHANGED << semVars, planVars, caido >>

LiberarTermina(h, dest) ==
    /\ En(h, "lib_carga")
    /\ pendientes[h] = {}
    /\ Sigue(h, dest)
    /\ UNCHANGED << semVars, planVars, schedVars, recVars, caido >>

LiberarRecursosDeProceso(h, p, dest) ==
    \/ LiberarSacaDiccionario(h, p)
    \/ LiberarCarga(h) \/ LiberarGuarda(h) \/ LiberarMira(h)
    \/ LiberarSaca(h) \/ LiberarPone(h)
    \/ LiberarTermina(h, dest)
=============================================================================
