---------------------------- MODULE PruebaHilos ----------------------------
(****************************************************************************)
(* The steps of the long term scheduler, of the dispatcher, of the threads  *)
(* of the interfaces, of the console, of the other ends of the sockets and  *)
(* of the handler of CPU contexts preserve the inductive invariant.  Before *)
(* them comes what they share: who else moves when the CPU's turn stays     *)
(* where it is, and that the helpers of scheduler.c and recursos.c keep the *)
(* types.                                                                   *)
(*                                                                          *)
(* The second part is about where the processes are: every step of the      *)
(* kernel moves one process from one place to another, or none.             *)
(* FINALIZAR_PROCESO may also lose one.                                     *)
(****************************************************************************)
EXTENDS KernelProps, SequenceTheorems, TLAPS

USE NombresDistintos
USE DEF En, Sigue, semVars, planVars, schedVars, recVars, memVars, cpuVars,
        ioVars, conVars, consVars, otras, ConMano

\* A step of a thread that touches neither the two semaphores of the CPU
\* nor its sockets, EXEC or the handler leaves the turn and the context
\* where they are.
LEMMA TurnoAjeno ==
  ASSUME TurnoUnico, ContextoPropio,
         UNCHANGED << sem_dispatch, sem_interrupcion, enviados, recibidos,
                      proceso_ejecutando, tokens >>,
         pc'["corto"] = pc["corto"], pc'["interr"] = pc["interr"]
  PROVE  TurnoUnico' /\ ContextoPropio'
BY DEF TurnoUnico, ContextoPropio, HandlerConTurno, Uno

\* The context the CPU answers with is that of the pcb it was sent, the
\* process in EXEC (cpu/src/servers.c sends one back for each).
LEMMA DevuelveContextoPropio ==
  ASSUME TypeOK, ContextoPropio, enviados # << >>, NEW op, NEW arg,
         CPUDevuelve(op, arg),
         UNCHANGED << pc, sem_interrupcion, proceso_ejecutando >>
  PROVE  ContextoPropio'
<1>1. /\ Len(Tail(enviados)) = Len(enviados) - 1
      /\ \A k \in 1 .. Len(Tail(enviados)) : Tail(enviados)[k] = enviados[k + 1]
  BY DEF TypeOK, ConexionesTypeOK
<1>2. Head(enviados) = proceso_ejecutando
  BY DEF ContextoPropio, TypeOK, ConexionesTypeOK
<1> QED
  BY <1>1, <1>2 DEF ContextoPropio, CPUDevuelve, TypeOK, ConexionesTypeOK

\* When the handler sends the process back to the CPU after a WAIT or
\* SIGNAL its turn goes to sem_interrupcion
\* (manejo_interrupciones_cpu.c:154-219).
LEMMA VuelveConTurno ==
  ASSUME TypeOK, TurnoUnico, ContextoPropio,
         pc["interr"] \in {"decide", "sig_saca", "sig_pone"},
         VuelveALaCPU, UNCHANGED proceso_ejecutando
  PROVE  TurnoUnico' /\ ContextoPropio'
<1>1. /\ sem_interrupcion = 0 /\ sem_interrupcion' = 1
      /\ pc'["interr"] = "espera" /\ pc'["corto"] = pc["corto"]
      /\ UNCHANGED sem_dispatch
  BY DEF VuelveALaCPU, TurnoUnico, HandlerConTurno, Uno, TypeOK,
         SemaforosTypeOK, Hilos, HilosFijos
<1>2. enviados = << >> /\ recibidos = << >> /\ proceso_ejecutando # Nadie
  BY <1>1 DEF ContextoPropio, AntesDeSacar, TypeOK, ConexionesTypeOK
<1>3. TurnoUnico'
  BY <1>1 DEF TurnoUnico, HandlerConTurno, Uno, TypeOK, SemaforosTypeOK
<1>4. ContextoPropio'
  BY <1>1, <1>2 DEF ContextoPropio, VuelveALaCPU, AntesDeSacar
<1> QED
  BY <1>3, <1>4

\* The switch of the handler has a case for every operation, and WAIT or
\* SIGNAL of a resource nobody configured does not reach restar_recurso or
\* sumar_recurso.
LEMMA CasoValido ==
  ASSUME TypeOK
  PROVE  /\ Caso(tokens) \in {"fin_term", "desaloja", "io", "asigna"}
         /\ Caso(tokens) = "asigna" => tokens.arg \in Recurso
BY DEF TypeOK, LocalesTypeOK, Instruccion, Operaciones, OpsDeFin, Caso

\* list_push puts a pcb and never a NULL, in a list of pcbs.
LEMMA PoneTypeOK ==
  ASSUME SchedulerTypeOK, NEW h \in Hilos, mano[h] \in Pids,
         NEW q \in Colas, NEW e \in Estados, Pone(h, q, e)
  PROVE  SchedulerTypeOK'
BY DEF SchedulerTypeOK, Pone

\* The same for the list an interface took out of colas_blocked.
LEMMA PoneEnHuerfanaTypeOK ==
  ASSUME SchedulerTypeOK, NEW h \in Hilos, mano[h] \in Pids,
         NEW i, NEW e \in Estados, PoneEnHuerfana(h, i, e)
  PROVE  SchedulerTypeOK'
<1>1. huerfana' \in [Interfaz -> Seq(Pids)]
  <2>1. CASE i \in Interfaz
    BY <2>1 DEF SchedulerTypeOK, PoneEnHuerfana
  <2>2. CASE i \notin Interfaz
    BY <2>2 DEF SchedulerTypeOK, PoneEnHuerfana
  <2> QED
    BY <2>1, <2>2
<1>2. estado' \in [Pids -> Estados] /\ mano' \in [Hilos -> Pids \cup {Nadie}]
  BY DEF SchedulerTypeOK, PoneEnHuerfana
<1> QED
  BY <1>1, <1>2 DEF SchedulerTypeOK, PoneEnHuerfana

\* asignar_recurso_a_proceso keeps a count for each resource, with a
\* dictionary made on the spot or not.
LEMMA AsignarTypeOK ==
  ASSUME RecursosTypeOK, NEW p \in Pids, NEW r \in Recurso,
         AsignarRecursoAProceso(p, r)
  PROVE  RecursosTypeOK'
<1> DEFINE d == IF p \in con_recursos THEN asignados[p] ELSE SinAsignar
<1>1. d \in [Recurso -> Int]
  BY DEF RecursosTypeOK, SinAsignar
<1>2. asignados' = [asignados EXCEPT ![p] = [d EXCEPT ![r] = @ + 1]]
  BY DEF AsignarRecursoAProceso
<1> HIDE DEF d
<1>3. [d EXCEPT ![r] = @ + 1] \in [Recurso -> Int]
  BY <1>1
<1>4. asignados' \in [Pids -> [Recurso -> Int]]
  BY <1>2, <1>3 DEF RecursosTypeOK
<1> QED
  BY <1>4 DEF RecursosTypeOK, AsignarRecursoAProceso

\* liberar_recurso_de_proceso keeps a count for each resource.
LEMMA LiberarUnoTypeOK ==
  ASSUME RecursosTypeOK, NEW p \in Pids, NEW r \in Recurso,
         LiberarRecursoDeProceso(p, r)
  PROVE  RecursosTypeOK'
<1> DEFINE d == asignados[p]
<1>1. d \in [Recurso -> Int]
  BY DEF RecursosTypeOK
<1>2. asignados' = [asignados EXCEPT ![p] = [d EXCEPT ![r] = @ - 1]]
  BY DEF LiberarRecursoDeProceso
<1> HIDE DEF d
<1>3. [d EXCEPT ![r] = @ - 1] \in [Recurso -> Int]
  BY <1>1
<1>4. asignados' \in [Pids -> [Recurso -> Int]]
  BY <1>2, <1>3 DEF RecursosTypeOK
<1> QED
  BY <1>4 DEF RecursosTypeOK, LiberarRecursoDeProceso

\* The store of restar_recurso and sumar_recurso.
LEMMA GuardaTypeOK ==
  ASSUME RecursosTypeOK, NEW h \in Hilos, NEW r, NEW n \in Int,
         GuardaRecurso(h, r, n)
  PROVE  RecursosTypeOK'
<1>1. copia[h] + n \in Int
  BY DEF RecursosTypeOK
<1>2. recursos' \in [Recurso -> Int]
  BY <1>1 DEF RecursosTypeOK, GuardaRecurso
<1>3. copia' \in [Hilos -> Int]
  BY DEF RecursosTypeOK, GuardaRecurso
<1> QED
  BY <1>2, <1>3 DEF RecursosTypeOK, GuardaRecurso

\* list_remove_by_condition followed by list_pop leaves a list of pcbs.
LEMMA QuitaYSacaSeq ==
  ASSUME NEW S, NEW s \in Seq(S), NEW e, Contains(s, e)
  PROVE  QuitaYSaca(s, e) \in Seq(S)
<1> DEFINE k == Posicion(s, e)
<1>1. k \in 1 .. Len(s)
  BY DEF Contains, Posicion
<1>2. \A i \in 1 .. Len(s) : s[i] \in S
  BY ElementOfSeq
<1> HIDE DEF k
<1>3. SubSeq(s, 1, k - 1) \in Seq(S) /\ SubSeq(s, k + 1, Len(s)) \in Seq(S)
  BY <1>1, <1>2, SubSeqProperties, LenProperties
<1>4. RemoveAt(s, k) \in Seq(S)
  BY <1>3, ConcatProperties DEF RemoveAt
<1>5. QED
  BY <1>4, HeadTailProperties DEF QuitaYSaca, SinPrimero, k

\* list_pop of a queue that is not empty gives a pcb and leaves a list of
\* pcbs.
LEMMA SacaTypeOK ==
  ASSUME SchedulerTypeOK, NEW h \in Hilos, NEW q \in Colas, Saca(h, q)
  PROVE  SchedulerTypeOK' /\ mano'[h] \in Pids
BY DEF SchedulerTypeOK, Saca

\* The iteration over the dictionary is at one of its keys, the name of a
\* queue in colas_blocked.
LEMMA ActualPendiente ==
  ASSUME RecursosTypeOK, NEW h \in Hilos, pendientes[h] # {}
  PROVE  /\ Actual(h) \in pendientes[h]
         /\ Actual(h) \in Recurso /\ Actual(h) \in Colas
<1>1. Actual(h) \in pendientes[h]
  BY DEF Actual
<1> QED
  BY <1>1 DEF RecursosTypeOK, Colas, Bloqueados

\* dictionary_iterator goes on to the next key.
LEMMA PasaTypeOK ==
  ASSUME RecursosTypeOK, NEW h \in Hilos, PasaDeRecurso(h)
  PROVE  RecursosTypeOK'
BY DEF RecursosTypeOK, PasaDeRecurso

\* sumar_recursos gives back all the instances of the key it is at
\* (recursos.c:74-77).
LEMMA LiberarGuardaTypeOK ==
  ASSUME RecursosTypeOK, NEW h \in Hilos, pendientes[h] # {},
         LiberarGuarda(h)
  PROVE  RecursosTypeOK'
<1> DEFINE r == Actual(h)
           d == liberando[h]
<1>1. r \in Recurso
  BY ActualPendiente
<1>2. d \in [Recurso -> Int] /\ copia[h] \in Int
  BY DEF RecursosTypeOK
<1>3. /\ recursos' = [recursos EXCEPT ![r] = copia[h] + d[r]]
      /\ liberando' = [liberando EXCEPT ![h] = [d EXCEPT ![r] = 0]]
      /\ copia' = [copia EXCEPT ![h] = 0]
      /\ UNCHANGED << con_recursos, asignados, pendientes >>
  BY DEF LiberarGuarda
<1> HIDE DEF r, d
<1>4. copia[h] + d[r] \in Int
  BY <1>1, <1>2
<1>5. recursos' \in [Recurso -> Int]
  BY <1>3, <1>4 DEF RecursosTypeOK
<1>6. [d EXCEPT ![r] = 0] \in [Recurso -> Int]
  BY <1>1, <1>2
<1>7. liberando' \in [Hilos -> [Recurso -> Int]]
  BY <1>3, <1>6 DEF RecursosTypeOK
<1> QED
  BY <1>3, <1>5, <1>7 DEF RecursosTypeOK

\* liberar_recursos_de_proceso takes the dictionary of the process out of
\* recursos_asignados, or finds none (recursos.c:112).
LEMMA LiberarDiccionarioTypeOK ==
  ASSUME RecursosTypeOK, NEW h \in Hilos, NEW p, LiberarSacaDiccionario(h, p)
  PROVE  RecursosTypeOK'
<1>1. CASE p \notin con_recursos
  BY <1>1 DEF RecursosTypeOK, LiberarSacaDiccionario
<1>2. CASE p \in con_recursos
  <2>1. /\ con_recursos' = con_recursos \ {p}
        /\ liberando' = [liberando EXCEPT ![h] = asignados[p]]
        /\ asignados' = [asignados EXCEPT ![p] = SinAsignar]
        /\ pendientes' = [pendientes EXCEPT ![h] = Recurso]
        /\ UNCHANGED << recursos, copia >>
    BY <1>2 DEF LiberarSacaDiccionario
  <2>2. p \in Pids /\ asignados[p] \in [Recurso -> Int]
    BY <1>2 DEF RecursosTypeOK
  <2>3. SinAsignar \in [Recurso -> Int]
    BY DEF SinAsignar
  <2>4. asignados' \in [Pids -> [Recurso -> Int]]
    BY <2>1, <2>3 DEF RecursosTypeOK
  <2>5. liberando' \in [Hilos -> [Recurso -> Int]]
    BY <2>1, <2>2 DEF RecursosTypeOK
  <2>6. pendientes' \in [Hilos -> SUBSET Recurso]
    BY <2>1 DEF RecursosTypeOK
  <2> QED
    BY <2>1, <2>4, <2>5, <2>6 DEF RecursosTypeOK
<1> QED
  BY <1>1, <1>2

(****************************************************************************)
(* liberar_recursos_de_proceso (recursos.c:108-124) preserves the inductive *)
(* invariant, whichever thread runs it.                                     *)
(****************************************************************************)

\* Releasing what a process held keeps the invariant, for the handler, the
\* console or an interface: it is the only code the three run, and it wakes
\* processes from queues none of them owns.
LEMMA LiberarInductivo ==
  ASSUME Inductivo, NEW h \in Hilos, NEW p, NEW dest,
         \/ h = "interr" /\ dest = "fin_saca"
         \/ h = "consola" /\ dest = "comando"
         \/ h \in Interfaz /\ dest = "avisa",
         LiberarRecursosDeProceso(h, p, dest),
         UNCHANGED << conVars, otras >>
  PROVE  Inductivo'
<1> SUFFICES ASSUME TypeOK, ManoLlena, ArgumentoValido, IteracionValida,
                    TurnoUnico, ContextoPropio
             PROVE  Inductivo'
  BY DEF Inductivo
<1>1. CASE LiberarSacaDiccionario(h, p)
  <2>1. pc' \in [Hilos -> Etiquetas]
    BY <1>1 DEF TypeOK, Etiquetas, LiberarSacaDiccionario, SinAsignar
  <2>2. SemaforosTypeOK'
    BY <1>1 DEF TypeOK, Hilos, HilosFijos, SemaforosTypeOK,
       LiberarSacaDiccionario, SinAsignar
  <2>3. RecursosTypeOK'
    BY <1>1, LiberarDiccionarioTypeOK DEF TypeOK
  <2>4. SchedulerTypeOK' /\ ConexionesTypeOK' /\ LocalesTypeOK'
    BY <1>1 DEF TypeOK, SchedulerTypeOK, ConexionesTypeOK, LocalesTypeOK,
       LiberarSacaDiccionario, SinAsignar
  <2>5. ManoLlena'
    BY <1>1 DEF ManoLlena, TypeOK, SchedulerTypeOK, RecursosTypeOK,
       LiberarSacaDiccionario, SinAsignar
  <2>6. ArgumentoValido' /\ IteracionValida'
    BY <1>1 DEF ArgumentoValido, IteracionValida, TypeOK, LocalesTypeOK,
       SchedulerTypeOK, Hilos, HilosFijos, LiberarSacaDiccionario, SinAsignar
  <2>7. TurnoUnico'
    BY <1>1 DEF TurnoUnico, ContextoPropio, HandlerConTurno, Uno, TypeOK,
       SemaforosTypeOK, ConexionesTypeOK, Hilos, HilosFijos, OpsDeFin,
       LiberarSacaDiccionario, SinAsignar
  <2>8. ContextoPropio'
    BY <1>1 DEF TurnoUnico, ContextoPropio, HandlerConTurno, Uno, TypeOK,
       SemaforosTypeOK, ConexionesTypeOK, Hilos, HilosFijos, OpsDeFin,
       AntesDeSacar, SchedulerTypeOK, LiberarSacaDiccionario, SinAsignar
  <2> QED
    BY <2>1, <2>2, <2>3, <2>4, <2>5, <2>6, <2>7, <2>8 DEF Inductivo,
        TypeOK
<1>2. CASE LiberarCarga(h)
  <2>1. pc' \in [Hilos -> Etiquetas]
    BY <1>2 DEF TypeOK, Etiquetas, LiberarCarga, CargaRecurso
  <2>2. RecursosTypeOK'
    <3>1. pendientes[h] # {}
      BY <1>2 DEF LiberarCarga
    <3>2. recursos[Actual(h)] \in Int
      BY <3>1, ActualPendiente DEF TypeOK, RecursosTypeOK
    <3> QED
      BY <1>2, <3>2 DEF TypeOK, RecursosTypeOK, LiberarCarga, CargaRecurso
  <2>3. SemaforosTypeOK' /\ SchedulerTypeOK' /\ ConexionesTypeOK' /\
        LocalesTypeOK'
    BY <1>2 DEF TypeOK, SemaforosTypeOK, SchedulerTypeOK, ConexionesTypeOK,
       LocalesTypeOK, LiberarCarga, CargaRecurso
  <2>4. ManoLlena'
    BY <1>2 DEF ManoLlena, TypeOK, SchedulerTypeOK, RecursosTypeOK,
       LiberarCarga, CargaRecurso
  <2>5. ArgumentoValido' /\ IteracionValida'
    BY <1>2 DEF ArgumentoValido, IteracionValida, TypeOK, LocalesTypeOK,
       SchedulerTypeOK, Hilos, HilosFijos, LiberarCarga, CargaRecurso
  <2>6. TurnoUnico'
    BY <1>2 DEF TurnoUnico, ContextoPropio, HandlerConTurno, Uno, TypeOK,
       SemaforosTypeOK, ConexionesTypeOK, Hilos, HilosFijos, OpsDeFin,
       LiberarCarga, CargaRecurso
  <2>7. ContextoPropio'
    BY <1>2 DEF TurnoUnico, ContextoPropio, HandlerConTurno, Uno, TypeOK,
       SemaforosTypeOK, ConexionesTypeOK, Hilos, HilosFijos, OpsDeFin,
       AntesDeSacar, SchedulerTypeOK, LiberarCarga, CargaRecurso
  <2> QED
    BY <2>1, <2>2, <2>3, <2>4, <2>5, <2>6, <2>7 DEF Inductivo, TypeOK
<1>3. CASE LiberarGuarda(h)
  <2>1. pc' \in [Hilos -> Etiquetas]
    BY <1>3 DEF TypeOK, Etiquetas, LiberarGuarda
  <2>2. RecursosTypeOK'
    BY <1>3, LiberarGuardaTypeOK DEF TypeOK, ManoLlena, LiberarGuarda
  <2>3. SemaforosTypeOK' /\ SchedulerTypeOK' /\ ConexionesTypeOK' /\
        LocalesTypeOK'
    BY <1>3 DEF TypeOK, SemaforosTypeOK, SchedulerTypeOK, ConexionesTypeOK,
       LocalesTypeOK, LiberarGuarda
  <2>4. ManoLlena'
    BY <1>3 DEF ManoLlena, TypeOK, SchedulerTypeOK, RecursosTypeOK,
       LiberarGuarda
  <2>5. ArgumentoValido' /\ IteracionValida'
    BY <1>3 DEF ArgumentoValido, IteracionValida, TypeOK, LocalesTypeOK,
       SchedulerTypeOK, Hilos, HilosFijos, LiberarGuarda
  <2>6. TurnoUnico'
    BY <1>3 DEF TurnoUnico, ContextoPropio, HandlerConTurno, Uno, TypeOK,
       SemaforosTypeOK, ConexionesTypeOK, Hilos, HilosFijos, OpsDeFin,
       LiberarGuarda
  <2>7. ContextoPropio'
    BY <1>3 DEF TurnoUnico, ContextoPropio, HandlerConTurno, Uno, TypeOK,
       SemaforosTypeOK, ConexionesTypeOK, Hilos, HilosFijos, OpsDeFin,
       AntesDeSacar, SchedulerTypeOK, LiberarGuarda
  <2> QED
    BY <2>1, <2>2, <2>3, <2>4, <2>5, <2>6, <2>7 DEF Inductivo, TypeOK
<1>4. CASE LiberarMira(h)
  <2>1. pc' \in [Hilos -> Etiquetas]
    BY <1>4 DEF TypeOK, Etiquetas, LiberarMira, PasaDeRecurso
  <2>2. RecursosTypeOK'
    <3>1. CASE UNCHANGED recVars
      BY <3>1 DEF TypeOK, RecursosTypeOK
    <3>2. CASE PasaDeRecurso(h)
      BY <3>2, PasaTypeOK DEF TypeOK
    <3> QED
      BY <1>4, <3>1, <3>2 DEF LiberarMira
  <2>3. SemaforosTypeOK' /\ SchedulerTypeOK' /\ ConexionesTypeOK' /\
        LocalesTypeOK'
    BY <1>4 DEF TypeOK, SemaforosTypeOK, SchedulerTypeOK, ConexionesTypeOK,
       LocalesTypeOK, LiberarMira, PasaDeRecurso
  <2>4. ManoLlena'
    BY <1>4 DEF ManoLlena, TypeOK, SchedulerTypeOK, RecursosTypeOK,
       LiberarMira, PasaDeRecurso
  <2>5. ArgumentoValido' /\ IteracionValida'
    BY <1>4 DEF ArgumentoValido, IteracionValida, TypeOK, LocalesTypeOK,
       SchedulerTypeOK, Hilos, HilosFijos, LiberarMira, PasaDeRecurso
  <2>6. TurnoUnico'
    BY <1>4 DEF TurnoUnico, ContextoPropio, HandlerConTurno, Uno, TypeOK,
       SemaforosTypeOK, ConexionesTypeOK, Hilos, HilosFijos, OpsDeFin,
       LiberarMira, PasaDeRecurso
  <2>7. ContextoPropio'
    BY <1>4 DEF TurnoUnico, ContextoPropio, HandlerConTurno, Uno, TypeOK,
       SemaforosTypeOK, ConexionesTypeOK, Hilos, HilosFijos, OpsDeFin,
       AntesDeSacar, SchedulerTypeOK, LiberarMira, PasaDeRecurso
  <2> QED
    BY <2>1, <2>2, <2>3, <2>4, <2>5, <2>6, <2>7 DEF Inductivo, TypeOK
<1>5. CASE LiberarSaca(h)
  <2>1. pc' \in [Hilos -> Etiquetas]
    BY <1>5 DEF TypeOK, Etiquetas, LiberarSaca, PasaDeRecurso, Saca
  <2>2. SchedulerTypeOK'
    <3>1. Actual(h) \in Colas
      BY <1>5, ActualPendiente DEF TypeOK, ManoLlena, LiberarSaca
    <3>2. CASE Saca(h, Actual(h))
      BY <3>1, <3>2, SacaTypeOK DEF TypeOK
    <3>3. CASE UNCHANGED schedVars
      BY <3>3 DEF TypeOK, SchedulerTypeOK
    <3> QED
      BY <1>5, <3>2, <3>3 DEF LiberarSaca
  <2>3. RecursosTypeOK'
    <3>1. CASE UNCHANGED recVars
      BY <3>1 DEF TypeOK, RecursosTypeOK
    <3>2. CASE PasaDeRecurso(h)
      BY <3>2, PasaTypeOK DEF TypeOK
    <3> QED
      BY <1>5, <3>1, <3>2 DEF LiberarSaca
  <2>4. SemaforosTypeOK' /\ ConexionesTypeOK' /\ LocalesTypeOK'
    BY <1>5 DEF TypeOK, SemaforosTypeOK, ConexionesTypeOK, LocalesTypeOK,
       LiberarSaca, PasaDeRecurso, Saca
  <2>5. ManoLlena'
    <3>1. CASE Saca(h, Actual(h)) /\ Sigue(h, "lib_pone") /\ UNCHANGED recVars
      <4>1. Actual(h) \in Colas
        BY <1>5, ActualPendiente DEF TypeOK, ManoLlena, LiberarSaca
      <4>2. mano'[h] \in Pids
        BY <3>1, <4>1, SacaTypeOK DEF TypeOK
      <4>3. \A g \in Hilos \ {h} : mano'[g] = mano[g] /\ pc'[g] = pc[g]
        BY <3>1 DEF Saca, TypeOK, SchedulerTypeOK
      <4>4. pendientes' = pendientes /\ pendientes[h] # {}
        BY <1>5, <3>1 DEF ManoLlena, LiberarSaca
      <4>5. pc'[h] = "lib_pone"
        BY <3>1 DEF TypeOK
      <4> QED
        BY <4>2, <4>3, <4>4, <4>5 DEF ManoLlena
    <3>2. CASE /\ PasaDeRecurso(h) /\ Sigue(h, "lib_carga")
               /\ UNCHANGED schedVars
      BY <3>2 DEF ManoLlena, PasaDeRecurso, TypeOK, RecursosTypeOK
    <3> QED
      BY <1>5, <3>1, <3>2 DEF LiberarSaca
  <2>6. ArgumentoValido' /\ IteracionValida'
    BY <1>5 DEF ArgumentoValido, IteracionValida, TypeOK, LocalesTypeOK,
       SchedulerTypeOK, Hilos, HilosFijos, LiberarSaca, PasaDeRecurso, Saca
  <2>7. TurnoUnico'
    BY <1>5 DEF TurnoUnico, ContextoPropio, HandlerConTurno, Uno, TypeOK,
       SemaforosTypeOK, ConexionesTypeOK, Hilos, HilosFijos, OpsDeFin,
       LiberarSaca, PasaDeRecurso, Saca
  <2>8. ContextoPropio'
    BY <1>5 DEF TurnoUnico, ContextoPropio, HandlerConTurno, Uno, TypeOK,
       SemaforosTypeOK, ConexionesTypeOK, Hilos, HilosFijos, OpsDeFin,
       AntesDeSacar, SchedulerTypeOK, LiberarSaca, PasaDeRecurso, Saca
  <2> QED
    BY <2>1, <2>2, <2>3, <2>4, <2>5, <2>6, <2>7, <2>8 DEF Inductivo,
        TypeOK
<1>6. CASE LiberarPone(h)
  <2>1. pc' \in [Hilos -> Etiquetas]
    BY <1>6 DEF TypeOK, Etiquetas, LiberarPone, PasaDeRecurso, Pone
  <2>2. SchedulerTypeOK'
    BY <1>6, PoneTypeOK DEF TypeOK, LiberarPone, Estados, ManoLlena, Colas
  <2>3. RecursosTypeOK'
    BY <1>6, PasaTypeOK DEF TypeOK, LiberarPone
  <2>4. SemaforosTypeOK' /\ ConexionesTypeOK' /\ LocalesTypeOK'
    BY <1>6 DEF TypeOK, SemaforosTypeOK, ConexionesTypeOK, LocalesTypeOK,
       LiberarPone, PasaDeRecurso, Pone
  <2>5. ManoLlena'
    BY <1>6 DEF ManoLlena, TypeOK, SchedulerTypeOK, RecursosTypeOK,
       LiberarPone, PasaDeRecurso, Pone
  <2>6. ArgumentoValido' /\ IteracionValida'
    BY <1>6 DEF ArgumentoValido, IteracionValida, TypeOK, LocalesTypeOK,
       SchedulerTypeOK, Hilos, HilosFijos, LiberarPone, PasaDeRecurso, Pone
  <2>7. TurnoUnico'
    BY <1>6 DEF TurnoUnico, ContextoPropio, HandlerConTurno, Uno, TypeOK,
       SemaforosTypeOK, ConexionesTypeOK, Hilos, HilosFijos, OpsDeFin,
       LiberarPone, PasaDeRecurso, Pone
  <2>8. ContextoPropio'
    BY <1>6 DEF TurnoUnico, ContextoPropio, HandlerConTurno, Uno, TypeOK,
       SemaforosTypeOK, ConexionesTypeOK, Hilos, HilosFijos, OpsDeFin,
       AntesDeSacar, SchedulerTypeOK, LiberarPone, PasaDeRecurso, Pone
  <2> QED
    BY <2>1, <2>2, <2>3, <2>4, <2>5, <2>6, <2>7, <2>8 DEF Inductivo,
        TypeOK
<1>7. CASE LiberarTermina(h, dest)
  <2>1. pc' \in [Hilos -> Etiquetas]
    BY <1>7 DEF TypeOK, Etiquetas, LiberarTermina
  <2>2. SemaforosTypeOK' /\ SchedulerTypeOK' /\ RecursosTypeOK' /\
        ConexionesTypeOK' /\ LocalesTypeOK'
    BY <1>7 DEF TypeOK, SemaforosTypeOK, SchedulerTypeOK, RecursosTypeOK,
       ConexionesTypeOK, LocalesTypeOK, LiberarTermina
  <2>3. ManoLlena'
    BY <1>7 DEF ManoLlena, TypeOK, SchedulerTypeOK, RecursosTypeOK,
       LiberarTermina
  <2>4. ArgumentoValido' /\ IteracionValida'
    BY <1>7 DEF ArgumentoValido, IteracionValida, TypeOK, LocalesTypeOK,
       SchedulerTypeOK, Hilos, HilosFijos, LiberarTermina
  <2>5. TurnoUnico'
    BY <1>7 DEF TurnoUnico, ContextoPropio, HandlerConTurno, Uno, TypeOK,
       SemaforosTypeOK, ConexionesTypeOK, Hilos, HilosFijos, OpsDeFin,
       LiberarTermina
  <2>6. ContextoPropio'
    BY <1>7 DEF TurnoUnico, ContextoPropio, HandlerConTurno, Uno, TypeOK,
       SemaforosTypeOK, ConexionesTypeOK, Hilos, HilosFijos, OpsDeFin,
       AntesDeSacar, SchedulerTypeOK, LiberarTermina
  <2> QED
    BY <2>1, <2>2, <2>3, <2>4, <2>5, <2>6 DEF Inductivo, TypeOK
<1> QED
  BY <1>1, <1>2, <1>3, <1>4, <1>5, <1>6, <1>7 DEF
      LiberarRecursosDeProceso

-----------------------------------------------------------------------------
(* The steps of each thread.                                               *)

\* The long term scheduler admits processes without touching the CPU.
LEMMA LargoInductivo ==
  ASSUME Inductivo, Largo, UNCHANGED otras
  PROVE  Inductivo'
<1> SUFFICES ASSUME TypeOK, ManoLlena, ArgumentoValido, IteracionValida,
                    TurnoUnico, ContextoPropio
             PROVE  Inductivo'
  BY DEF Inductivo
<1>1. CASE LargoTomaCupo
  <2>1. pc' \in [Hilos -> Etiquetas]
    BY <1>1 DEF TypeOK, Etiquetas, LargoTomaCupo, SigueSiActiva
  <2>2. SemaforosTypeOK'
    BY <1>1 DEF TypeOK, Hilos, HilosFijos, SemaforosTypeOK, LargoTomaCupo,
       SigueSiActiva
  <2>3. SchedulerTypeOK' /\ RecursosTypeOK' /\ ConexionesTypeOK' /\
        LocalesTypeOK'
    BY <1>1 DEF TypeOK, SchedulerTypeOK, RecursosTypeOK, ConexionesTypeOK,
       LocalesTypeOK, LargoTomaCupo, SigueSiActiva
  <2>4. ManoLlena'
    BY <1>1 DEF ManoLlena, TypeOK, SchedulerTypeOK, RecursosTypeOK,
       LargoTomaCupo, SigueSiActiva
  <2>5. ArgumentoValido' /\ IteracionValida'
    BY <1>1 DEF ArgumentoValido, IteracionValida, TypeOK, LocalesTypeOK,
       SchedulerTypeOK, Hilos, HilosFijos, LargoTomaCupo, SigueSiActiva
  <2>6. TurnoUnico' /\ ContextoPropio'
    BY <1>1, TurnoAjeno DEF TypeOK, Hilos, HilosFijos, LargoTomaCupo,
       SigueSiActiva
  <2> QED
    BY <2>1, <2>2, <2>3, <2>4, <2>5, <2>6 DEF Inductivo, TypeOK
<1>2. CASE LargoReanuda
  <2>1. pc' \in [Hilos -> Etiquetas]
    BY <1>2 DEF TypeOK, Etiquetas, LargoReanuda, SaleDePausa
  <2>2. SemaforosTypeOK'
    BY <1>2 DEF TypeOK, Hilos, HilosFijos, SemaforosTypeOK, LargoReanuda,
       SaleDePausa, Pausables
  <2>3. SchedulerTypeOK' /\ RecursosTypeOK' /\ ConexionesTypeOK' /\
        LocalesTypeOK'
    BY <1>2 DEF TypeOK, SchedulerTypeOK, RecursosTypeOK, ConexionesTypeOK,
       LocalesTypeOK, LargoReanuda, SaleDePausa
  <2>4. ManoLlena'
    BY <1>2 DEF ManoLlena, TypeOK, SchedulerTypeOK, RecursosTypeOK,
       LargoReanuda, SaleDePausa
  <2>5. ArgumentoValido' /\ IteracionValida'
    BY <1>2 DEF ArgumentoValido, IteracionValida, TypeOK, LocalesTypeOK,
       SchedulerTypeOK, Hilos, HilosFijos, LargoReanuda, SaleDePausa
  <2>6. TurnoUnico' /\ ContextoPropio'
    BY <1>2, TurnoAjeno DEF TypeOK, Hilos, HilosFijos, LargoReanuda,
       SaleDePausa
  <2> QED
    BY <2>1, <2>2, <2>3, <2>4, <2>5, <2>6 DEF Inductivo, TypeOK
<1>3. CASE LargoConfirma
  <2>1. pc' \in [Hilos -> Etiquetas]
    BY <1>3 DEF TypeOK, Etiquetas, LargoConfirma
  <2>2. SemaforosTypeOK'
    BY <1>3 DEF TypeOK, Hilos, HilosFijos, SemaforosTypeOK, LargoConfirma
  <2>3. ConexionesTypeOK'
    BY <1>3 DEF TypeOK, Hilos, HilosFijos, ConexionesTypeOK, LargoConfirma
  <2>4. SchedulerTypeOK' /\ RecursosTypeOK' /\ LocalesTypeOK'
    BY <1>3 DEF TypeOK, SchedulerTypeOK, RecursosTypeOK, LocalesTypeOK,
       LargoConfirma
  <2>5. ManoLlena'
    BY <1>3 DEF ManoLlena, TypeOK, SchedulerTypeOK, RecursosTypeOK,
       LargoConfirma
  <2>6. ArgumentoValido' /\ IteracionValida'
    BY <1>3 DEF ArgumentoValido, IteracionValida, TypeOK, LocalesTypeOK,
       SchedulerTypeOK, Hilos, HilosFijos, LargoConfirma
  <2>7. TurnoUnico' /\ ContextoPropio'
    BY <1>3, TurnoAjeno DEF TypeOK, Hilos, HilosFijos, LargoConfirma
  <2> QED
    BY <2>1, <2>2, <2>3, <2>4, <2>5, <2>6, <2>7 DEF Inductivo, TypeOK
<1>4. CASE LargoEsperaNew
  <2>1. pc' \in [Hilos -> Etiquetas]
    BY <1>4 DEF TypeOK, Etiquetas, LargoEsperaNew
  <2>2. SemaforosTypeOK' /\ SchedulerTypeOK' /\ RecursosTypeOK' /\
        ConexionesTypeOK' /\ LocalesTypeOK'
    BY <1>4 DEF TypeOK, SemaforosTypeOK, SchedulerTypeOK, RecursosTypeOK,
       ConexionesTypeOK, LocalesTypeOK, LargoEsperaNew
  <2>3. ManoLlena'
    BY <1>4 DEF ManoLlena, TypeOK, SchedulerTypeOK, RecursosTypeOK,
       LargoEsperaNew
  <2>4. ArgumentoValido' /\ IteracionValida'
    BY <1>4 DEF ArgumentoValido, IteracionValida, TypeOK, LocalesTypeOK,
       SchedulerTypeOK, Hilos, HilosFijos, LargoEsperaNew
  <2>5. TurnoUnico' /\ ContextoPropio'
    BY <1>4, TurnoAjeno DEF TypeOK, Hilos, HilosFijos, LargoEsperaNew
  <2> QED
    BY <2>1, <2>2, <2>3, <2>4, <2>5 DEF Inductivo, TypeOK
<1>5. CASE LargoSaca
  <2>1. pc' \in [Hilos -> Etiquetas]
    BY <1>5 DEF TypeOK, Etiquetas, LargoSaca, Saca
  <2>2. SchedulerTypeOK'
    BY <1>5 DEF TypeOK, Hilos, HilosFijos, SchedulerTypeOK, LargoSaca, Saca,
       Colas
  <2>3. SemaforosTypeOK' /\ RecursosTypeOK' /\ ConexionesTypeOK' /\
        LocalesTypeOK'
    BY <1>5 DEF TypeOK, SemaforosTypeOK, RecursosTypeOK, ConexionesTypeOK,
       LocalesTypeOK, LargoSaca, Saca
  <2>4. ManoLlena'
    BY <1>5 DEF ManoLlena, TypeOK, SchedulerTypeOK, RecursosTypeOK, LargoSaca,
       Saca, Colas
  <2>5. ArgumentoValido' /\ IteracionValida'
    BY <1>5 DEF ArgumentoValido, IteracionValida, TypeOK, LocalesTypeOK,
       SchedulerTypeOK, Hilos, HilosFijos, LargoSaca, Saca
  <2>6. TurnoUnico' /\ ContextoPropio'
    BY <1>5, TurnoAjeno DEF TypeOK, Hilos, HilosFijos, LargoSaca, Saca
  <2> QED
    BY <2>1, <2>2, <2>3, <2>4, <2>5, <2>6 DEF Inductivo, TypeOK
<1>6. CASE LargoSacaNada
  <2>1. pc' \in [Hilos -> Etiquetas]
    BY <1>6 DEF TypeOK, Etiquetas, LargoSacaNada
  <2>2. SemaforosTypeOK'
    BY <1>6 DEF TypeOK, Hilos, HilosFijos, SemaforosTypeOK, LargoSacaNada
  <2>3. SchedulerTypeOK' /\ RecursosTypeOK' /\ ConexionesTypeOK' /\
        LocalesTypeOK'
    BY <1>6 DEF TypeOK, SchedulerTypeOK, RecursosTypeOK, ConexionesTypeOK,
       LocalesTypeOK, LargoSacaNada
  <2>4. ManoLlena'
    BY <1>6 DEF ManoLlena, TypeOK, SchedulerTypeOK, RecursosTypeOK,
       LargoSacaNada
  <2>5. ArgumentoValido' /\ IteracionValida'
    BY <1>6 DEF ArgumentoValido, IteracionValida, TypeOK, LocalesTypeOK,
       SchedulerTypeOK, Hilos, HilosFijos, LargoSacaNada
  <2>6. TurnoUnico' /\ ContextoPropio'
    BY <1>6, TurnoAjeno DEF TypeOK, Hilos, HilosFijos, LargoSacaNada
  <2> QED
    BY <2>1, <2>2, <2>3, <2>4, <2>5, <2>6 DEF Inductivo, TypeOK
<1>7. CASE LargoPone
  <2>1. pc' \in [Hilos -> Etiquetas]
    BY <1>7 DEF TypeOK, Etiquetas, LargoPone, Pone
  <2>2. SchedulerTypeOK'
    BY <1>7 DEF TypeOK, Hilos, HilosFijos, SchedulerTypeOK, LargoPone, Pone,
       Estados, ManoLlena, Colas
  <2>3. SemaforosTypeOK' /\ RecursosTypeOK' /\ ConexionesTypeOK' /\
        LocalesTypeOK'
    BY <1>7 DEF TypeOK, SemaforosTypeOK, RecursosTypeOK, ConexionesTypeOK,
       LocalesTypeOK, LargoPone, Pone
  <2>4. ManoLlena'
    BY <1>7 DEF ManoLlena, TypeOK, SchedulerTypeOK, RecursosTypeOK, LargoPone,
       Pone
  <2>5. ArgumentoValido' /\ IteracionValida'
    BY <1>7 DEF ArgumentoValido, IteracionValida, TypeOK, LocalesTypeOK,
       SchedulerTypeOK, Hilos, HilosFijos, LargoPone, Pone
  <2>6. TurnoUnico' /\ ContextoPropio'
    BY <1>7, TurnoAjeno DEF TypeOK, Hilos, HilosFijos, LargoPone, Pone
  <2> QED
    BY <2>1, <2>2, <2>3, <2>4, <2>5, <2>6 DEF Inductivo, TypeOK
<1>8. CASE LargoCuenta
  <2>1. pc' \in [Hilos -> Etiquetas]
    BY <1>8 DEF TypeOK, Etiquetas, LargoCuenta, AvisaEncolado
  <2>2. SemaforosTypeOK'
    BY <1>8 DEF TypeOK, Hilos, HilosFijos, SemaforosTypeOK, LargoCuenta,
       AvisaEncolado
  <2>3. SchedulerTypeOK' /\ RecursosTypeOK' /\ ConexionesTypeOK' /\
        LocalesTypeOK'
    BY <1>8 DEF TypeOK, SchedulerTypeOK, RecursosTypeOK, ConexionesTypeOK,
       LocalesTypeOK, LargoCuenta, AvisaEncolado
  <2>4. ManoLlena'
    BY <1>8 DEF ManoLlena, TypeOK, SchedulerTypeOK, RecursosTypeOK,
       LargoCuenta, AvisaEncolado
  <2>5. ArgumentoValido' /\ IteracionValida'
    BY <1>8 DEF ArgumentoValido, IteracionValida, TypeOK, LocalesTypeOK,
       SchedulerTypeOK, Hilos, HilosFijos, LargoCuenta, AvisaEncolado
  <2>6. TurnoUnico' /\ ContextoPropio'
    BY <1>8, TurnoAjeno DEF TypeOK, Hilos, HilosFijos, LargoCuenta,
       AvisaEncolado
  <2> QED
    BY <2>1, <2>2, <2>3, <2>4, <2>5, <2>6 DEF Inductivo, TypeOK
<1> QED
  BY <1>1, <1>2, <1>3, <1>4, <1>5, <1>6, <1>7, <1>8 DEF Largo

\* The dispatcher takes the turn from sem_dispatch and hands it to
\* sem_interrupcion with the pcb it sends, and only then.
LEMMA CortoInductivo ==
  ASSUME Inductivo, Corto, UNCHANGED otras
  PROVE  Inductivo'
<1> SUFFICES ASSUME TypeOK, ManoLlena, ArgumentoValido, IteracionValida,
                    TurnoUnico, ContextoPropio
             PROVE  Inductivo'
  BY DEF Inductivo
<1>1. CASE CortoToma
  <2>1. pc' \in [Hilos -> Etiquetas]
    BY <1>1, ZenonT(60)
       DEF TypeOK, Etiquetas, CortoToma, SigueSiActiva, Entrada
  <2>2. SemaforosTypeOK'
    BY <1>1 DEF TypeOK, Hilos, HilosFijos, SemaforosTypeOK, CortoToma,
       SigueSiActiva, Entrada
  <2>3. SchedulerTypeOK' /\ RecursosTypeOK' /\ ConexionesTypeOK' /\
        LocalesTypeOK'
    BY <1>1 DEF TypeOK, SchedulerTypeOK, RecursosTypeOK, ConexionesTypeOK,
       LocalesTypeOK, CortoToma, SigueSiActiva, Entrada
  <2>4. ManoLlena'
    BY <1>1 DEF ManoLlena, TypeOK, SchedulerTypeOK, RecursosTypeOK, CortoToma,
       SigueSiActiva, Entrada
  <2>5. ArgumentoValido' /\ IteracionValida'
    BY <1>1 DEF ArgumentoValido, IteracionValida, TypeOK, LocalesTypeOK,
       SchedulerTypeOK, Hilos, HilosFijos, CortoToma, SigueSiActiva, Entrada
  <2>6. TurnoUnico'
    BY <1>1 DEF TurnoUnico, ContextoPropio, HandlerConTurno, Uno, TypeOK,
       SemaforosTypeOK, ConexionesTypeOK, Hilos, HilosFijos, OpsDeFin,
       CortoToma, SigueSiActiva, Entrada
  <2>7. ContextoPropio'
    BY <1>1 DEF TurnoUnico, ContextoPropio, HandlerConTurno, Uno, TypeOK,
       SemaforosTypeOK, ConexionesTypeOK, Hilos, HilosFijos, OpsDeFin,
       AntesDeSacar, SchedulerTypeOK, CortoToma, SigueSiActiva, Entrada
  <2> QED
    BY <2>1, <2>2, <2>3, <2>4, <2>5, <2>6, <2>7 DEF Inductivo, TypeOK
<1>2. CASE CortoReanuda
  <2>1. pc' \in [Hilos -> Etiquetas]
    BY <1>2 DEF TypeOK, Etiquetas, CortoReanuda, SaleDePausa, Entrada
  <2>2. SemaforosTypeOK'
    BY <1>2 DEF TypeOK, Hilos, HilosFijos, SemaforosTypeOK, CortoReanuda,
       SaleDePausa, Entrada, Pausables
  <2>3. SchedulerTypeOK' /\ RecursosTypeOK' /\ ConexionesTypeOK' /\
        LocalesTypeOK'
    BY <1>2 DEF TypeOK, SchedulerTypeOK, RecursosTypeOK, ConexionesTypeOK,
       LocalesTypeOK, CortoReanuda, SaleDePausa, Entrada
  <2>4. ManoLlena'
    BY <1>2 DEF ManoLlena, TypeOK, SchedulerTypeOK, RecursosTypeOK,
       CortoReanuda, SaleDePausa, Entrada
  <2>5. ArgumentoValido' /\ IteracionValida'
    BY <1>2 DEF ArgumentoValido, IteracionValida, TypeOK, LocalesTypeOK,
       SchedulerTypeOK, Hilos, HilosFijos, CortoReanuda, SaleDePausa, Entrada
  <2>6. TurnoUnico'
    BY <1>2 DEF TurnoUnico, ContextoPropio, HandlerConTurno, Uno, TypeOK,
       SemaforosTypeOK, ConexionesTypeOK, Hilos, HilosFijos, OpsDeFin,
       CortoReanuda, SaleDePausa, Entrada
  <2>7. ContextoPropio'
    BY <1>2 DEF TurnoUnico, ContextoPropio, HandlerConTurno, Uno, TypeOK,
       SemaforosTypeOK, ConexionesTypeOK, Hilos, HilosFijos, OpsDeFin,
       AntesDeSacar, SchedulerTypeOK, CortoReanuda, SaleDePausa, Entrada
  <2> QED
    BY <2>1, <2>2, <2>3, <2>4, <2>5, <2>6, <2>7 DEF Inductivo, TypeOK
<1>3. CASE CortoElige
  <2>1. pc' \in [Hilos -> Etiquetas]
    BY <1>3 DEF TypeOK, Etiquetas, CortoElige
  <2>2. SemaforosTypeOK' /\ SchedulerTypeOK' /\ RecursosTypeOK' /\
        ConexionesTypeOK' /\ LocalesTypeOK'
    BY <1>3 DEF TypeOK, SemaforosTypeOK, SchedulerTypeOK, RecursosTypeOK,
       ConexionesTypeOK, LocalesTypeOK, CortoElige
  <2>3. ManoLlena'
    BY <1>3 DEF ManoLlena, TypeOK, SchedulerTypeOK, RecursosTypeOK, CortoElige
  <2>4. ArgumentoValido' /\ IteracionValida'
    BY <1>3 DEF ArgumentoValido, IteracionValida, TypeOK, LocalesTypeOK,
       SchedulerTypeOK, Hilos, HilosFijos, CortoElige
  <2>5. TurnoUnico'
    BY <1>3 DEF TurnoUnico, ContextoPropio, HandlerConTurno, Uno, TypeOK,
       SemaforosTypeOK, ConexionesTypeOK, Hilos, HilosFijos, OpsDeFin,
       CortoElige
  <2>6. ContextoPropio'
    BY <1>3 DEF TurnoUnico, ContextoPropio, HandlerConTurno, Uno, TypeOK,
       SemaforosTypeOK, ConexionesTypeOK, Hilos, HilosFijos, OpsDeFin,
       AntesDeSacar, SchedulerTypeOK, CortoElige
  <2> QED
    BY <2>1, <2>2, <2>3, <2>4, <2>5, <2>6 DEF Inductivo, TypeOK
<1>4. CASE CortoSacaAux
  <2>1. pc' \in [Hilos -> Etiquetas]
    BY <1>4 DEF TypeOK, Etiquetas, CortoSacaAux, Saca
  <2>2. SchedulerTypeOK'
    BY <1>4 DEF TypeOK, Hilos, HilosFijos, SchedulerTypeOK, CortoSacaAux,
       Saca, Colas
  <2>3. SemaforosTypeOK' /\ RecursosTypeOK' /\ ConexionesTypeOK' /\
        LocalesTypeOK'
    BY <1>4 DEF TypeOK, SemaforosTypeOK, RecursosTypeOK, ConexionesTypeOK,
       LocalesTypeOK, CortoSacaAux, Saca
  <2>4. ManoLlena'
    BY <1>4 DEF ManoLlena, TypeOK, SchedulerTypeOK, RecursosTypeOK,
       CortoSacaAux, Saca, Colas
  <2>5. ArgumentoValido' /\ IteracionValida'
    BY <1>4 DEF ArgumentoValido, IteracionValida, TypeOK, LocalesTypeOK,
       SchedulerTypeOK, Hilos, HilosFijos, CortoSacaAux, Saca
  <2>6. TurnoUnico'
    BY <1>4 DEF TurnoUnico, ContextoPropio, HandlerConTurno, Uno, TypeOK,
       SemaforosTypeOK, ConexionesTypeOK, Hilos, HilosFijos, OpsDeFin,
       CortoSacaAux, Saca
  <2>7. ContextoPropio'
    BY <1>4 DEF TurnoUnico, ContextoPropio, HandlerConTurno, Uno, TypeOK,
       SemaforosTypeOK, ConexionesTypeOK, Hilos, HilosFijos, OpsDeFin,
       AntesDeSacar, SchedulerTypeOK, CortoSacaAux, Saca
  <2> QED
    BY <2>1, <2>2, <2>3, <2>4, <2>5, <2>6, <2>7 DEF Inductivo, TypeOK
<1>5. CASE CortoSacaReady
  <2>1. pc' \in [Hilos -> Etiquetas]
    BY <1>5 DEF TypeOK, Etiquetas, CortoSacaReady, Saca
  <2>2. SchedulerTypeOK'
    BY <1>5 DEF TypeOK, Hilos, HilosFijos, SchedulerTypeOK, CortoSacaReady,
       Saca, Colas
  <2>3. SemaforosTypeOK' /\ RecursosTypeOK' /\ ConexionesTypeOK' /\
        LocalesTypeOK'
    BY <1>5 DEF TypeOK, SemaforosTypeOK, RecursosTypeOK, ConexionesTypeOK,
       LocalesTypeOK, CortoSacaReady, Saca
  <2>4. ManoLlena'
    BY <1>5 DEF ManoLlena, TypeOK, SchedulerTypeOK, RecursosTypeOK,
       CortoSacaReady, Saca, Colas
  <2>5. ArgumentoValido' /\ IteracionValida'
    BY <1>5 DEF ArgumentoValido, IteracionValida, TypeOK, LocalesTypeOK,
       SchedulerTypeOK, Hilos, HilosFijos, CortoSacaReady, Saca
  <2>6. TurnoUnico'
    BY <1>5 DEF TurnoUnico, ContextoPropio, HandlerConTurno, Uno, TypeOK,
       SemaforosTypeOK, ConexionesTypeOK, Hilos, HilosFijos, OpsDeFin,
       CortoSacaReady, Saca
  <2>7. ContextoPropio'
    BY <1>5 DEF TurnoUnico, ContextoPropio, HandlerConTurno, Uno, TypeOK,
       SemaforosTypeOK, ConexionesTypeOK, Hilos, HilosFijos, OpsDeFin,
       AntesDeSacar, SchedulerTypeOK, CortoSacaReady, Saca
  <2> QED
    BY <2>1, <2>2, <2>3, <2>4, <2>5, <2>6, <2>7 DEF Inductivo, TypeOK
<1>6. CASE CortoDespacha
  <2>1. pc' \in [Hilos -> Etiquetas]
    BY <1>6 DEF TypeOK, Etiquetas, CortoDespacha, PoneEnExec
  <2>2. SemaforosTypeOK'
    <3>1. tiempoVRR' \in BOOLEAN /\ caido' \in BOOLEAN
      BY <1>6 DEF CortoDespacha, VRR_modo, TypeOK, SemaforosTypeOK
    <3> QED
      BY <1>6, <3>1 DEF TypeOK, SemaforosTypeOK, CortoDespacha
  <2>3. SchedulerTypeOK'
    BY <1>6 DEF TypeOK, Hilos, HilosFijos, SchedulerTypeOK, CortoDespacha,
       PoneEnExec, Estados, ManoLlena
  <2>4. ConexionesTypeOK'
    BY <1>6 DEF TypeOK, Hilos, HilosFijos, ConexionesTypeOK, CortoDespacha,
       PoneEnExec, SchedulerTypeOK, ManoLlena
  <2>5. RecursosTypeOK' /\ LocalesTypeOK'
    BY <1>6 DEF TypeOK, RecursosTypeOK, LocalesTypeOK, CortoDespacha,
       PoneEnExec
  <2>6. ManoLlena'
    BY <1>6 DEF ManoLlena, TypeOK, SchedulerTypeOK, RecursosTypeOK,
       CortoDespacha, PoneEnExec
  <2>7. ArgumentoValido' /\ IteracionValida'
    BY <1>6 DEF ArgumentoValido, IteracionValida, TypeOK, LocalesTypeOK,
       SchedulerTypeOK, Hilos, HilosFijos, CortoDespacha, PoneEnExec
  <2>8. TurnoUnico'
    BY <1>6 DEF TurnoUnico, ContextoPropio, HandlerConTurno, Uno, TypeOK,
       SemaforosTypeOK, ConexionesTypeOK, Hilos, HilosFijos, OpsDeFin,
       CortoDespacha, PoneEnExec
  <2>9. ContextoPropio'
    <3>1. sem_interrupcion = 0 /\ ~ HandlerConTurno
      BY <1>6 DEF CortoDespacha, TurnoUnico, Uno, TypeOK, SemaforosTypeOK
    <3>2. enviados = << >> /\ recibidos = << >>
      BY <3>1 DEF ContextoPropio, TypeOK, ConexionesTypeOK
    <3>3. pc["interr"] \notin AntesDeSacar
      BY <3>1 DEF HandlerConTurno, AntesDeSacar
    <3>4. mano["corto"] \in Pids
      BY <1>6 DEF CortoDespacha, ManoLlena, Hilos, HilosFijos
    <3> QED
      BY <1>6, <3>1, <3>2, <3>3, <3>4
         DEF CortoDespacha, PoneEnExec, ContextoPropio, TypeOK, Hilos,
             HilosFijos, Pids, Nadie
  <2> QED
    BY <2>1, <2>2, <2>3, <2>4, <2>5, <2>6, <2>7, <2>8, <2>9 DEF
        Inductivo, TypeOK
<1> QED
  BY <1>1, <1>2, <1>3, <1>4, <1>5, <1>6 DEF Corto

\* The memory answers without touching the CPU; the CPU answers each pcb
\* with one context of that process.
LEMMA ConexionesInductivo ==
  ASSUME Inductivo, MemoriaAtiende \/ CPUTermina \/ CPULlama \/ CPUDesaloja \/
         CPUInterrumpe \/ CPUOlvidaOrden, UNCHANGED otras
  PROVE  Inductivo'
<1> SUFFICES ASSUME TypeOK, ManoLlena, ArgumentoValido, IteracionValida,
                    TurnoUnico, ContextoPropio
             PROVE  Inductivo'
  BY DEF Inductivo
<1>1. CASE MemoriaAtiende
  <2>1. pc' \in [Hilos -> Etiquetas]
    BY <1>1 DEF TypeOK, Etiquetas, MemoriaAtiende, kernelVars
  <2>2. ConexionesTypeOK'
    <3>1. /\ Head(pedidos) \in [op : OpsMemoria, pid : Pids]
          /\ Tail(pedidos) \in Seq([op : OpsMemoria, pid : Pids])
      BY <1>1, HeadTailProperties DEF MemoriaAtiende, TypeOK, ConexionesTypeOK
    <3>2. Head(pedidos).pid \in Pids
      BY <3>1
    <3>3. confirmaciones' \in Seq({"MEMORY_PROCESS_CREATE", "MEMORY_INVALID_PATH"})
      <4> DEFINE S == {"MEMORY_PROCESS_CREATE", "MEMORY_INVALID_PATH"}
      <4>1. "MEMORY_PROCESS_CREATE" \in S /\ "MEMORY_INVALID_PATH" \in S
        OBVIOUS
      <4>2. confirmaciones \in Seq(S)
        BY DEF TypeOK, ConexionesTypeOK
      <4>3. \/ confirmaciones' = Append(confirmaciones, "MEMORY_PROCESS_CREATE")
            \/ confirmaciones' = Append(confirmaciones, "MEMORY_INVALID_PATH")
            \/ confirmaciones' = confirmaciones
        BY <1>1 DEF MemoriaAtiende
      <4> HIDE DEF S
      <4>4. confirmaciones' \in Seq(S)
        BY <4>1, <4>2, <4>3, AppendProperties
      <4> QED
        BY <4>4 DEF S
    <3>4. en_memoria' \in SUBSET Pids
      BY <1>1, <3>2 DEF MemoriaAtiende, TypeOK, ConexionesTypeOK
    <3> QED
      BY <1>1, <3>1, <3>3, <3>4
         DEF MemoriaAtiende, TypeOK, ConexionesTypeOK, kernelVars
  <2>3. SemaforosTypeOK' /\ SchedulerTypeOK' /\ RecursosTypeOK' /\
        LocalesTypeOK'
    BY <1>1 DEF TypeOK, SemaforosTypeOK, SchedulerTypeOK, RecursosTypeOK,
       LocalesTypeOK, MemoriaAtiende, kernelVars
  <2>4. ManoLlena'
    BY <1>1 DEF ManoLlena, TypeOK, SchedulerTypeOK, RecursosTypeOK,
       MemoriaAtiende, kernelVars
  <2>5. ArgumentoValido' /\ IteracionValida'
    BY <1>1 DEF ArgumentoValido, IteracionValida, TypeOK, LocalesTypeOK,
       SchedulerTypeOK, Hilos, HilosFijos, MemoriaAtiende, kernelVars
  <2>6. TurnoUnico' /\ ContextoPropio'
    BY <1>1, TurnoAjeno DEF TypeOK, Hilos, HilosFijos, MemoriaAtiende,
       kernelVars
  <2> QED
    BY <2>1, <2>2, <2>3, <2>4, <2>5, <2>6 DEF Inductivo, TypeOK
<1>2. CASE CPUTermina
  <2>1. pc' \in [Hilos -> Etiquetas]
    BY <1>2 DEF TypeOK, Etiquetas, CPUTermina, kernelVars, CPUDevuelve
  <2>2. ConexionesTypeOK'
    BY <1>2 DEF TypeOK, Hilos, HilosFijos, ConexionesTypeOK, CPUTermina,
       kernelVars, CPUDevuelve, Contexto, Operaciones
  <2>3. SemaforosTypeOK' /\ SchedulerTypeOK' /\ RecursosTypeOK' /\
        LocalesTypeOK'
    BY <1>2 DEF TypeOK, SemaforosTypeOK, SchedulerTypeOK, RecursosTypeOK,
       LocalesTypeOK, CPUTermina, kernelVars, CPUDevuelve
  <2>4. ManoLlena'
    BY <1>2 DEF ManoLlena, TypeOK, SchedulerTypeOK, RecursosTypeOK,
       CPUTermina, kernelVars, CPUDevuelve
  <2>5. ArgumentoValido' /\ IteracionValida'
    BY <1>2 DEF ArgumentoValido, IteracionValida, TypeOK, LocalesTypeOK,
       SchedulerTypeOK, Hilos, HilosFijos, CPUTermina, kernelVars, CPUDevuelve
  <2>6. TurnoUnico'
    BY <1>2 DEF TurnoUnico, ContextoPropio, HandlerConTurno, Uno, TypeOK,
       SemaforosTypeOK, ConexionesTypeOK, Hilos, HilosFijos, OpsDeFin,
       CPUTermina, kernelVars, CPUDevuelve
  <2>7. ContextoPropio'
    BY <1>2, DevuelveContextoPropio
       DEF CPUTermina, GastaPresupuesto, kernelVars
  <2> QED
    BY <2>1, <2>2, <2>3, <2>4, <2>5, <2>6, <2>7 DEF Inductivo, TypeOK
<1>3. CASE CPULlama
  <2>1. pc' \in [Hilos -> Etiquetas]
    BY <1>3 DEF TypeOK, Etiquetas, CPULlama, kernelVars, CPUDevuelve,
       GastaPresupuesto
  <2>2. ConexionesTypeOK'
    <3>1. PICK c \in Llamadas : CPUDevuelve(c.op, c.arg)
      BY <1>3 DEF CPULlama
    <3>2. c.op \in Operaciones /\ c.arg \in Bloqueados \cup {Ninguno}
      BY ProgramasPosibles DEF Instruccion
    <3>3. enviados # << >> /\ Head(enviados) \in Pids /\ Tail(enviados) \in Seq(Pids)
      BY <1>3, HeadTailProperties DEF CPULlama, TypeOK, ConexionesTypeOK
    <3>4. [pid |-> Head(enviados), op |-> c.op, arg |-> c.arg] \in Contexto
      BY <3>2, <3>3 DEF Contexto
    <3>5. recibidos' \in Seq(Contexto) /\ enviados' \in Seq(Pids)
      BY <3>1, <3>3, <3>4 DEF CPUDevuelve, TypeOK, ConexionesTypeOK
    <3>6. presupuesto' \in [Pids -> Nat]
      BY <1>3, <3>3 DEF CPULlama, GastaPresupuesto, TypeOK, ConexionesTypeOK
    <3> QED
      BY <1>3, <3>5, <3>6 DEF CPULlama, kernelVars, TypeOK, ConexionesTypeOK
  <2>3. SemaforosTypeOK' /\ SchedulerTypeOK' /\ RecursosTypeOK' /\
        LocalesTypeOK'
    BY <1>3 DEF TypeOK, SemaforosTypeOK, SchedulerTypeOK, RecursosTypeOK,
       LocalesTypeOK, CPULlama, kernelVars, CPUDevuelve, GastaPresupuesto
  <2>4. ManoLlena'
    BY <1>3 DEF ManoLlena, TypeOK, SchedulerTypeOK, RecursosTypeOK, CPULlama,
       kernelVars, CPUDevuelve, GastaPresupuesto
  <2>5. ArgumentoValido' /\ IteracionValida'
    BY <1>3 DEF ArgumentoValido, IteracionValida, TypeOK, LocalesTypeOK,
       SchedulerTypeOK, Hilos, HilosFijos, CPULlama, kernelVars, CPUDevuelve,
       GastaPresupuesto
  <2>6. TurnoUnico'
    BY <1>3 DEF TurnoUnico, ContextoPropio, HandlerConTurno, Uno, TypeOK,
       SemaforosTypeOK, ConexionesTypeOK, Hilos, HilosFijos, OpsDeFin,
       CPULlama, kernelVars, CPUDevuelve, GastaPresupuesto
  <2>7. ContextoPropio'
    BY <1>3, DevuelveContextoPropio
       DEF CPULlama, GastaPresupuesto, kernelVars
  <2> QED
    BY <2>1, <2>2, <2>3, <2>4, <2>5, <2>6, <2>7 DEF Inductivo, TypeOK
<1>4. CASE CPUDesaloja
  <2>1. pc' \in [Hilos -> Etiquetas]
    BY <1>4 DEF TypeOK, Etiquetas, CPUDesaloja, kernelVars, CPUDevuelve,
       GastaPresupuesto
  <2>2. ConexionesTypeOK'
    BY <1>4, SMTT(60)
       DEF TypeOK, Hilos, HilosFijos, ConexionesTypeOK, CPUDesaloja,
       kernelVars, CPUDevuelve, GastaPresupuesto, Contexto, Operaciones
  <2>3. SemaforosTypeOK' /\ SchedulerTypeOK' /\ RecursosTypeOK' /\
        LocalesTypeOK'
    BY <1>4 DEF TypeOK, SemaforosTypeOK, SchedulerTypeOK, RecursosTypeOK,
       LocalesTypeOK, CPUDesaloja, kernelVars, CPUDevuelve, GastaPresupuesto
  <2>4. ManoLlena'
    BY <1>4 DEF ManoLlena, TypeOK, SchedulerTypeOK, RecursosTypeOK,
       CPUDesaloja, kernelVars, CPUDevuelve, GastaPresupuesto
  <2>5. ArgumentoValido' /\ IteracionValida'
    BY <1>4 DEF ArgumentoValido, IteracionValida, TypeOK, LocalesTypeOK,
       SchedulerTypeOK, Hilos, HilosFijos, CPUDesaloja, kernelVars,
       CPUDevuelve, GastaPresupuesto
  <2>6. TurnoUnico'
    BY <1>4 DEF TurnoUnico, ContextoPropio, HandlerConTurno, Uno, TypeOK,
       SemaforosTypeOK, ConexionesTypeOK, Hilos, HilosFijos, OpsDeFin,
       CPUDesaloja, kernelVars, CPUDevuelve, GastaPresupuesto
  <2>7. ContextoPropio'
    BY <1>4, DevuelveContextoPropio
       DEF CPUDesaloja, GastaPresupuesto, kernelVars
  <2> QED
    BY <2>1, <2>2, <2>3, <2>4, <2>5, <2>6, <2>7 DEF Inductivo, TypeOK
<1>5. CASE CPUInterrumpe
  <2>1. pc' \in [Hilos -> Etiquetas]
    BY <1>5 DEF TypeOK, Etiquetas, CPUInterrumpe, kernelVars, CPUDevuelve
  <2>2. ConexionesTypeOK'
    BY <1>5 DEF TypeOK, Hilos, HilosFijos, ConexionesTypeOK, CPUInterrumpe,
       kernelVars, CPUDevuelve, Contexto, Operaciones
  <2>3. SemaforosTypeOK' /\ SchedulerTypeOK' /\ RecursosTypeOK' /\
        LocalesTypeOK'
    BY <1>5 DEF TypeOK, SemaforosTypeOK, SchedulerTypeOK, RecursosTypeOK,
       LocalesTypeOK, CPUInterrumpe, kernelVars, CPUDevuelve
  <2>4. ManoLlena'
    BY <1>5 DEF ManoLlena, TypeOK, SchedulerTypeOK, RecursosTypeOK,
       CPUInterrumpe, kernelVars, CPUDevuelve
  <2>5. ArgumentoValido' /\ IteracionValida'
    BY <1>5 DEF ArgumentoValido, IteracionValida, TypeOK, LocalesTypeOK,
       SchedulerTypeOK, Hilos, HilosFijos, CPUInterrumpe, kernelVars,
       CPUDevuelve
  <2>6. TurnoUnico'
    BY <1>5 DEF TurnoUnico, ContextoPropio, HandlerConTurno, Uno, TypeOK,
       SemaforosTypeOK, ConexionesTypeOK, Hilos, HilosFijos, OpsDeFin,
       CPUInterrumpe, kernelVars, CPUDevuelve
  <2>7. ContextoPropio'
    BY <1>5, DevuelveContextoPropio
       DEF CPUInterrumpe, GastaPresupuesto, kernelVars
  <2> QED
    BY <2>1, <2>2, <2>3, <2>4, <2>5, <2>6, <2>7 DEF Inductivo, TypeOK
<1>6. CASE CPUOlvidaOrden
  <2>1. pc' \in [Hilos -> Etiquetas]
    BY <1>6 DEF TypeOK, Etiquetas, CPUOlvidaOrden, kernelVars
  <2>2. ConexionesTypeOK'
    BY <1>6 DEF TypeOK, Hilos, HilosFijos, ConexionesTypeOK, CPUOlvidaOrden,
       kernelVars
  <2>3. SemaforosTypeOK' /\ SchedulerTypeOK' /\ RecursosTypeOK' /\
        LocalesTypeOK'
    BY <1>6 DEF TypeOK, SemaforosTypeOK, SchedulerTypeOK, RecursosTypeOK,
       LocalesTypeOK, CPUOlvidaOrden, kernelVars
  <2>4. ManoLlena'
    BY <1>6 DEF ManoLlena, TypeOK, SchedulerTypeOK, RecursosTypeOK,
       CPUOlvidaOrden, kernelVars
  <2>5. ArgumentoValido' /\ IteracionValida'
    BY <1>6 DEF ArgumentoValido, IteracionValida, TypeOK, LocalesTypeOK,
       SchedulerTypeOK, Hilos, HilosFijos, CPUOlvidaOrden, kernelVars
  <2>6. TurnoUnico' /\ ContextoPropio'
    BY <1>6, TurnoAjeno DEF TypeOK, Hilos, HilosFijos, CPUOlvidaOrden,
       kernelVars
  <2> QED
    BY <2>1, <2>2, <2>3, <2>4, <2>5, <2>6 DEF Inductivo, TypeOK
<1> QED
  BY <1>1, <1>2, <1>3, <1>4, <1>5, <1>6 DEF TypeOK

\* An interface wakes processes, or ends those that waited for it when it
\* fails, and never touches the CPU; its iteration never runs off its list.
LEMMA InterfazInductivo ==
  ASSUME Inductivo, NEW i \in Interfaz, Interf(i), UNCHANGED << tokens,
         consVars >>
  PROVE  Inductivo'
<1> SUFFICES ASSUME TypeOK, ManoLlena, ArgumentoValido, IteracionValida,
                    TurnoUnico, ContextoPropio
             PROVE  Inductivo'
  BY DEF Inductivo
<1>1. CASE InterfazConecta(i)
  <2>1. pc' \in [Hilos -> Etiquetas]
    BY <1>1 DEF TypeOK, Etiquetas, InterfazConecta
  <2>2. ConexionesTypeOK'
    BY <1>1 DEF TypeOK, Hilos, HilosFijos, ConexionesTypeOK, InterfazConecta
  <2>3. SemaforosTypeOK' /\ SchedulerTypeOK' /\ RecursosTypeOK' /\
        LocalesTypeOK'
    BY <1>1 DEF TypeOK, SemaforosTypeOK, SchedulerTypeOK, RecursosTypeOK,
       LocalesTypeOK, InterfazConecta
  <2>4. ManoLlena'
    BY <1>1 DEF ManoLlena, TypeOK, SchedulerTypeOK, RecursosTypeOK,
       InterfazConecta
  <2>5. ArgumentoValido' /\ IteracionValida'
    BY <1>1 DEF ArgumentoValido, IteracionValida, TypeOK, LocalesTypeOK,
       SchedulerTypeOK, Hilos, HilosFijos, InterfazConecta
  <2>6. TurnoUnico' /\ ContextoPropio'
    BY <1>1, TurnoAjeno DEF TypeOK, Hilos, HilosFijos, InterfazConecta
  <2> QED
    BY <2>1, <2>2, <2>3, <2>4, <2>5, <2>6 DEF Inductivo, TypeOK
<1>2. CASE InterfazToma(i)
  <2>a. sem_IO_ejecucion' \in [Interfaz -> Nat] /\ caido' \in BOOLEAN
    <3>1. sem_IO_ejecucion' \in [Interfaz -> Nat]
      BY <1>2 DEF InterfazToma, TypeOK, SemaforosTypeOK
    <3>2. caido' \in BOOLEAN
      BY <1>2 DEF InterfazToma, TypeOK, SemaforosTypeOK
    <3> QED
      BY <3>1, <3>2
  <2>b. pcb_io' \in [Interfaz -> Pids \cup {Nadie}]
    <3>1. colas[i] \in Seq(Pids)
      BY DEF TypeOK, SchedulerTypeOK, Colas, Bloqueados
    <3> QED
      BY <1>2, <3>1 DEF InterfazToma, TypeOK, LocalesTypeOK
  <2>1. pc' \in [Hilos -> Etiquetas]
    BY <1>2, <2>a, <2>b DEF TypeOK, Etiquetas, InterfazToma
  <2>2. SemaforosTypeOK'
    BY <1>2, <2>a DEF InterfazToma, TypeOK, SemaforosTypeOK
  <2>3. LocalesTypeOK'
    BY <1>2, <2>b DEF TypeOK, LocalesTypeOK
  <2>4. SchedulerTypeOK' /\ RecursosTypeOK' /\ ConexionesTypeOK'
    BY <1>2, <2>a, <2>b DEF TypeOK, SchedulerTypeOK, RecursosTypeOK,
       ConexionesTypeOK, InterfazToma
  <2>5. ManoLlena'
    BY <1>2, <2>a, <2>b DEF ManoLlena, TypeOK, SchedulerTypeOK,
       RecursosTypeOK, InterfazToma
  <2>6. ArgumentoValido' /\ IteracionValida'
    BY <1>2, <2>a, <2>b, ZenonT(60)
       DEF ArgumentoValido, IteracionValida, TypeOK,
       LocalesTypeOK, SchedulerTypeOK, Hilos, HilosFijos, InterfazToma
  <2>7. TurnoUnico' /\ ContextoPropio'
    BY <1>2, <2>a, <2>b, TurnoAjeno DEF TypeOK, Hilos, HilosFijos,
       InterfazToma
  <2> QED
    BY <2>1, <2>2, <2>3, <2>4, <2>5, <2>6, <2>7 DEF Inductivo, TypeOK
<1>3. CASE InterfazEjecuta(i)
  <2>1. pc' \in [Hilos -> Etiquetas]
    BY <1>3 DEF TypeOK, Etiquetas, InterfazEjecuta
  <2>2. SemaforosTypeOK'
    BY <1>3 DEF TypeOK, Hilos, HilosFijos, SemaforosTypeOK, InterfazEjecuta
  <2>3. SchedulerTypeOK' /\ RecursosTypeOK' /\ ConexionesTypeOK' /\
        LocalesTypeOK'
    BY <1>3 DEF TypeOK, SchedulerTypeOK, RecursosTypeOK, ConexionesTypeOK,
       LocalesTypeOK, InterfazEjecuta
  <2>4. ManoLlena'
    BY <1>3 DEF ManoLlena, TypeOK, SchedulerTypeOK, RecursosTypeOK,
       InterfazEjecuta
  <2>5. ArgumentoValido' /\ IteracionValida'
    BY <1>3 DEF ArgumentoValido, IteracionValida, TypeOK, LocalesTypeOK,
       SchedulerTypeOK, Hilos, HilosFijos, InterfazEjecuta
  <2>6. TurnoUnico' /\ ContextoPropio'
    BY <1>3, TurnoAjeno DEF TypeOK, Hilos, HilosFijos, InterfazEjecuta
  <2> QED
    BY <2>1, <2>2, <2>3, <2>4, <2>5, <2>6 DEF Inductivo, TypeOK
<1>4. CASE InterfazResponde(i)
  <2>1. pc' \in [Hilos -> Etiquetas]
    BY <1>4 DEF TypeOK, Etiquetas, InterfazResponde, SigueSiActiva
  <2>2. SemaforosTypeOK' /\ SchedulerTypeOK' /\ RecursosTypeOK' /\
        ConexionesTypeOK' /\ LocalesTypeOK'
    BY <1>4 DEF TypeOK, SemaforosTypeOK, SchedulerTypeOK, RecursosTypeOK,
       ConexionesTypeOK, LocalesTypeOK, InterfazResponde, SigueSiActiva,
       LeeInstruccion
  <2>3. ManoLlena'
    BY <1>4 DEF ManoLlena, TypeOK, SchedulerTypeOK, RecursosTypeOK,
       InterfazResponde, SigueSiActiva
  <2>4. ArgumentoValido' /\ IteracionValida'
    BY <1>4 DEF ArgumentoValido, IteracionValida, TypeOK, LocalesTypeOK,
       SchedulerTypeOK, Hilos, HilosFijos, InterfazResponde, SigueSiActiva
  <2>5. TurnoUnico' /\ ContextoPropio'
    BY <1>4, TurnoAjeno DEF TypeOK, Hilos, HilosFijos, InterfazResponde,
       SigueSiActiva
  <2> QED
    BY <2>1, <2>2, <2>3, <2>4, <2>5 DEF Inductivo, TypeOK
<1>5. CASE InterfazReanuda(i)
  <2>1. pc' \in [Hilos -> Etiquetas]
    BY <1>5 DEF TypeOK, Etiquetas, InterfazReanuda, SaleDePausa
  <2>2. SemaforosTypeOK'
    BY <1>5 DEF TypeOK, Hilos, HilosFijos, SemaforosTypeOK, InterfazReanuda,
       SaleDePausa, Pausables
  <2>3. SchedulerTypeOK' /\ RecursosTypeOK' /\ ConexionesTypeOK' /\
        LocalesTypeOK'
    BY <1>5 DEF TypeOK, SchedulerTypeOK, RecursosTypeOK, ConexionesTypeOK,
       LocalesTypeOK, InterfazReanuda, SaleDePausa
  <2>4. ManoLlena'
    BY <1>5 DEF ManoLlena, TypeOK, SchedulerTypeOK, RecursosTypeOK,
       InterfazReanuda, SaleDePausa
  <2>5. ArgumentoValido' /\ IteracionValida'
    BY <1>5 DEF ArgumentoValido, IteracionValida, TypeOK, LocalesTypeOK,
       SchedulerTypeOK, Hilos, HilosFijos, InterfazReanuda, SaleDePausa
  <2>6. TurnoUnico' /\ ContextoPropio'
    BY <1>5, TurnoAjeno DEF TypeOK, Hilos, HilosFijos, InterfazReanuda,
       SaleDePausa
  <2> QED
    BY <2>1, <2>2, <2>3, <2>4, <2>5, <2>6 DEF Inductivo, TypeOK
<1>6. CASE InterfazSaca(i)
  <2>1. pc' \in [Hilos -> Etiquetas]
    BY <1>6 DEF TypeOK, Etiquetas, InterfazSaca, Saca
  <2>2. SchedulerTypeOK'
    BY <1>6 DEF TypeOK, Hilos, HilosFijos, SchedulerTypeOK, InterfazSaca,
       Saca, Colas, Bloqueados
  <2>3. SemaforosTypeOK' /\ RecursosTypeOK' /\ ConexionesTypeOK' /\
        LocalesTypeOK'
    BY <1>6 DEF TypeOK, SemaforosTypeOK, RecursosTypeOK, ConexionesTypeOK,
       LocalesTypeOK, InterfazSaca, Saca
  <2>4. ManoLlena'
    BY <1>6 DEF ManoLlena, TypeOK, SchedulerTypeOK, RecursosTypeOK,
       InterfazSaca, Saca, Colas, Bloqueados
  <2>5. ArgumentoValido' /\ IteracionValida'
    BY <1>6 DEF ArgumentoValido, IteracionValida, TypeOK, LocalesTypeOK,
       SchedulerTypeOK, Hilos, HilosFijos, InterfazSaca, Saca
  <2>6. TurnoUnico' /\ ContextoPropio'
    BY <1>6, TurnoAjeno DEF TypeOK, Hilos, HilosFijos, InterfazSaca, Saca
  <2> QED
    BY <2>1, <2>2, <2>3, <2>4, <2>5, <2>6 DEF Inductivo, TypeOK
<1>7. CASE InterfazSacaNadie(i)
  <2>1. pc' \in [Hilos -> Etiquetas]
    BY <1>7 DEF TypeOK, Etiquetas, InterfazSacaNadie, AvisaEncolado
  <2>2. SemaforosTypeOK'
    BY <1>7 DEF TypeOK, Hilos, HilosFijos, SemaforosTypeOK, InterfazSacaNadie,
       AvisaEncolado
  <2>3. SchedulerTypeOK' /\ RecursosTypeOK' /\ ConexionesTypeOK' /\
        LocalesTypeOK'
    BY <1>7 DEF TypeOK, SchedulerTypeOK, RecursosTypeOK, ConexionesTypeOK,
       LocalesTypeOK, InterfazSacaNadie, AvisaEncolado
  <2>4. ManoLlena'
    BY <1>7 DEF ManoLlena, TypeOK, SchedulerTypeOK, RecursosTypeOK,
       InterfazSacaNadie, AvisaEncolado
  <2>5. ArgumentoValido' /\ IteracionValida'
    BY <1>7 DEF ArgumentoValido, IteracionValida, TypeOK, LocalesTypeOK,
       SchedulerTypeOK, Hilos, HilosFijos, InterfazSacaNadie, AvisaEncolado
  <2>6. TurnoUnico' /\ ContextoPropio'
    BY <1>7, TurnoAjeno DEF TypeOK, Hilos, HilosFijos, InterfazSacaNadie,
       AvisaEncolado
  <2> QED
    BY <2>1, <2>2, <2>3, <2>4, <2>5, <2>6 DEF Inductivo, TypeOK
<1>8. CASE InterfazPone(i)
  <2>1. pc' \in [Hilos -> Etiquetas]
    BY <1>8 DEF TypeOK, Etiquetas, InterfazPone, Pone, AvisaEncolado
  <2>2. SemaforosTypeOK'
    BY <1>8 DEF TypeOK, Hilos, HilosFijos, SemaforosTypeOK, InterfazPone,
       Pone, AvisaEncolado
  <2>3. SchedulerTypeOK'
    <3>1. mano[i] \in Pids
      BY <1>8 DEF InterfazPone, ManoLlena, Hilos
    <3>2. (IF VRR_modo THEN "aux" ELSE "ready") \in Colas
      BY DEF Colas
    <3> QED
      BY <1>8, <3>1, <3>2, PoneTypeOK
         DEF InterfazPone, TypeOK, Hilos, Estados
  <2>4. RecursosTypeOK' /\ ConexionesTypeOK' /\ LocalesTypeOK'
    BY <1>8 DEF TypeOK, RecursosTypeOK, ConexionesTypeOK, LocalesTypeOK,
       InterfazPone, Pone, AvisaEncolado
  <2>5. ManoLlena'
    BY <1>8 DEF ManoLlena, TypeOK, SchedulerTypeOK, RecursosTypeOK,
       InterfazPone, Pone, AvisaEncolado
  <2>6. ArgumentoValido' /\ IteracionValida'
    BY <1>8 DEF ArgumentoValido, IteracionValida, TypeOK, LocalesTypeOK,
       SchedulerTypeOK, Hilos, HilosFijos, InterfazPone, Pone, AvisaEncolado
  <2>7. TurnoUnico' /\ ContextoPropio'
    BY <1>8, TurnoAjeno DEF TypeOK, Hilos, HilosFijos, InterfazPone, Pone,
       AvisaEncolado
  <2> QED
    BY <2>1, <2>2, <2>3, <2>4, <2>5, <2>6, <2>7 DEF Inductivo, TypeOK
<1>9. CASE InterfazBorra(i)
  <2>1. pc' \in [Hilos -> Etiquetas]
    BY <1>9 DEF TypeOK, Etiquetas, InterfazBorra
  <2>2. ConexionesTypeOK'
    BY <1>9 DEF TypeOK, Hilos, HilosFijos, ConexionesTypeOK, InterfazBorra
  <2>3. LocalesTypeOK'
    BY <1>9 DEF TypeOK, Hilos, HilosFijos, LocalesTypeOK, InterfazBorra
  <2>4. SemaforosTypeOK' /\ SchedulerTypeOK' /\ RecursosTypeOK'
    BY <1>9 DEF TypeOK, SemaforosTypeOK, SchedulerTypeOK, RecursosTypeOK,
       InterfazBorra
  <2>5. ManoLlena'
    BY <1>9 DEF ManoLlena, TypeOK, SchedulerTypeOK, RecursosTypeOK,
       InterfazBorra
  <2>6. ArgumentoValido' /\ IteracionValida'
    BY <1>9 DEF ArgumentoValido, IteracionValida, TypeOK, LocalesTypeOK,
       SchedulerTypeOK, Hilos, HilosFijos, InterfazBorra
  <2>7. TurnoUnico' /\ ContextoPropio'
    BY <1>9, TurnoAjeno DEF TypeOK, Hilos, HilosFijos, InterfazBorra
  <2> QED
    BY <2>1, <2>2, <2>3, <2>4, <2>5, <2>6, <2>7 DEF Inductivo, TypeOK
<1>10. CASE InterfazFalla(i)
  <2>1. pc' \in [Hilos -> Etiquetas]
    BY <1>10 DEF TypeOK, Etiquetas, InterfazFalla
  <2>2. ConexionesTypeOK'
    BY <1>10 DEF TypeOK, Hilos, HilosFijos, ConexionesTypeOK, InterfazFalla
  <2>3. SemaforosTypeOK' /\ SchedulerTypeOK' /\ RecursosTypeOK' /\
        LocalesTypeOK'
    BY <1>10 DEF TypeOK, SemaforosTypeOK, SchedulerTypeOK, RecursosTypeOK,
       LocalesTypeOK, InterfazFalla, LeeInstruccion
  <2>4. ManoLlena'
    BY <1>10 DEF ManoLlena, TypeOK, SchedulerTypeOK, RecursosTypeOK,
       InterfazFalla
  <2>5. ArgumentoValido' /\ IteracionValida'
    BY <1>10 DEF ArgumentoValido, IteracionValida, TypeOK, LocalesTypeOK,
       SchedulerTypeOK, Hilos, HilosFijos, InterfazFalla
  <2>6. TurnoUnico' /\ ContextoPropio'
    BY <1>10, TurnoAjeno DEF TypeOK, Hilos, HilosFijos, InterfazFalla
  <2> QED
    BY <2>1, <2>2, <2>3, <2>4, <2>5, <2>6 DEF Inductivo, TypeOK
<1>11. CASE InterfazQuitaCola(i)
  <2>1. pc' \in [Hilos -> Etiquetas]
    BY <1>11 DEF TypeOK, Etiquetas, InterfazQuitaCola, Primero
  <2>2. SchedulerTypeOK'
    BY <1>11 DEF TypeOK, Hilos, HilosFijos, SchedulerTypeOK,
       InterfazQuitaCola, Primero, Colas, Bloqueados
  <2>3. LocalesTypeOK'
    BY <1>11 DEF TypeOK, Hilos, HilosFijos, LocalesTypeOK, InterfazQuitaCola,
       Primero, SchedulerTypeOK, Colas, Bloqueados
  <2>4. SemaforosTypeOK' /\ RecursosTypeOK' /\ ConexionesTypeOK'
    BY <1>11 DEF TypeOK, SemaforosTypeOK, RecursosTypeOK, ConexionesTypeOK,
       InterfazQuitaCola, Primero
  <2>5. ManoLlena'
    BY <1>11 DEF ManoLlena, TypeOK, SchedulerTypeOK, RecursosTypeOK,
       InterfazQuitaCola, Primero
  <2>6. ArgumentoValido' /\ IteracionValida'
    BY <1>11 DEF ArgumentoValido, IteracionValida, TypeOK, LocalesTypeOK,
       SchedulerTypeOK, Hilos, HilosFijos, InterfazQuitaCola, Primero, Colas,
       Bloqueados
  <2>7. TurnoUnico' /\ ContextoPropio'
    BY <1>11, TurnoAjeno DEF TypeOK, Hilos, HilosFijos, InterfazQuitaCola,
       Primero
  <2> QED
    BY <2>1, <2>2, <2>3, <2>4, <2>5, <2>6, <2>7 DEF Inductivo, TypeOK
<1>12. CASE InterfazItera(i)
  <2>1. pc' \in [Hilos -> Etiquetas]
    BY <1>12 DEF TypeOK, Etiquetas, InterfazItera, Primero
  <2>2. ConexionesTypeOK'
    BY <1>12 DEF TypeOK, Hilos, HilosFijos, ConexionesTypeOK, InterfazItera,
       Primero
  <2>3. LocalesTypeOK'
    BY <1>12 DEF TypeOK, Hilos, HilosFijos, LocalesTypeOK, InterfazItera,
       Primero, SchedulerTypeOK, IteracionValida
  <2>4. SemaforosTypeOK' /\ SchedulerTypeOK' /\ RecursosTypeOK'
    BY <1>12 DEF TypeOK, SemaforosTypeOK, SchedulerTypeOK, RecursosTypeOK,
       InterfazItera, Primero
  <2>5. ManoLlena'
    BY <1>12 DEF ManoLlena, TypeOK, SchedulerTypeOK, RecursosTypeOK,
       InterfazItera, Primero
  <2>6. ArgumentoValido' /\ IteracionValida'
    BY <1>12 DEF ArgumentoValido, IteracionValida, TypeOK, LocalesTypeOK,
       SchedulerTypeOK, Hilos, HilosFijos, InterfazItera, Primero
  <2>7. TurnoUnico' /\ ContextoPropio'
    BY <1>12, TurnoAjeno DEF TypeOK, Hilos, HilosFijos, InterfazItera, Primero
  <2> QED
    BY <2>1, <2>2, <2>3, <2>4, <2>5, <2>6, <2>7 DEF Inductivo, TypeOK
<1>13. CASE InterfazAvisaMemoria(i)
  <2>1. pc' \in [Hilos -> Etiquetas]
    BY <1>13 DEF TypeOK, Etiquetas, InterfazAvisaMemoria, Pedido
  <2>2. ConexionesTypeOK'
    BY <1>13, SMTT(60)
       DEF TypeOK, Hilos, HilosFijos, ConexionesTypeOK,
       InterfazAvisaMemoria, Pedido, OpsMemoria, SchedulerTypeOK,
       IteracionValida
  <2>3. SemaforosTypeOK' /\ SchedulerTypeOK' /\ RecursosTypeOK' /\
        LocalesTypeOK'
    BY <1>13 DEF TypeOK, SemaforosTypeOK, SchedulerTypeOK, RecursosTypeOK,
       LocalesTypeOK, InterfazAvisaMemoria, Pedido
  <2>4. ManoLlena'
    BY <1>13 DEF ManoLlena, TypeOK, SchedulerTypeOK, RecursosTypeOK,
       InterfazAvisaMemoria, Pedido
  <2>5. ArgumentoValido' /\ IteracionValida'
    BY <1>13 DEF ArgumentoValido, IteracionValida, TypeOK, LocalesTypeOK,
       SchedulerTypeOK, Hilos, HilosFijos, InterfazAvisaMemoria, Pedido
  <2>6. TurnoUnico' /\ ContextoPropio'
    BY <1>13, TurnoAjeno DEF TypeOK, Hilos, HilosFijos, InterfazAvisaMemoria,
       Pedido
  <2> QED
    BY <2>1, <2>2, <2>3, <2>4, <2>5, <2>6 DEF Inductivo, TypeOK
<1>14. CASE InterfazAExit(i)
  <2>1. pc' \in [Hilos -> Etiquetas]
    BY <1>14 DEF TypeOK, Etiquetas, InterfazAExit
  <2>2. SchedulerTypeOK'
    BY <1>14 DEF TypeOK, Hilos, HilosFijos, SchedulerTypeOK, InterfazAExit,
       Colas, Estados, IteracionValida
  <2>3. SemaforosTypeOK' /\ RecursosTypeOK' /\ ConexionesTypeOK' /\
        LocalesTypeOK'
    BY <1>14 DEF TypeOK, SemaforosTypeOK, RecursosTypeOK, ConexionesTypeOK,
       LocalesTypeOK, InterfazAExit
  <2>4. ManoLlena'
    BY <1>14 DEF ManoLlena, TypeOK, SchedulerTypeOK, RecursosTypeOK,
       InterfazAExit
  <2>5. ArgumentoValido' /\ IteracionValida'
    <3>1. /\ Tail(huerfana[i]) \in Seq(Pids)
          /\ Len(huerfana[i]) \in Nat
          /\ Len(Tail(huerfana[i])) = Len(huerfana[i]) - 1
          /\ pcb_io[i] # Nadie => Len(huerfana[i]) >= 2
      BY <1>14, HeadTailProperties
         DEF InterfazAExit, IteracionValida, TypeOK, SchedulerTypeOK
    <3>2. pcb_io[i] # Nadie => Tail(huerfana[i]) # << >>
      <4>1. Len(<< >>) = 0
        OBVIOUS
      <4>2. \A n, m \in Int : n = m - 1 /\ m >= 2 => n # 0
        OBVIOUS
      <4>3. Len(huerfana[i]) \in Int /\ Len(Tail(huerfana[i])) \in Int
        BY <3>1
      <4> QED
        BY <3>1, <4>1, <4>2, <4>3
    <3>3. /\ pc' = [pc EXCEPT ![i] = "itera"]
          /\ huerfana' = [huerfana EXCEPT ![i] = Tail(@)]
      BY <1>14 DEF InterfazAExit
    <3>4. UNCHANGED << pcb_io, tokens, consVars >>
      BY <1>14 DEF InterfazAExit
    <3>5. ArgumentoValido'
      BY <3>3, <3>4 DEF ArgumentoValido, TypeOK, Hilos, HilosFijos
    <3>6. IteracionValida'
      BY <3>2, <3>3, <3>4
         DEF IteracionValida, TypeOK, SchedulerTypeOK, Hilos, HilosFijos
    <3> QED
      BY <3>5, <3>6
  <2>6. TurnoUnico' /\ ContextoPropio'
    BY <1>14, TurnoAjeno DEF TypeOK, Hilos, HilosFijos, InterfazAExit
  <2> QED
    BY <2>1, <2>2, <2>3, <2>4, <2>5, <2>6 DEF Inductivo, TypeOK
<1>15. CASE InterfazIteraFin(i)
  <2>1. pc' \in [Hilos -> Etiquetas]
    BY <1>15 DEF TypeOK, Etiquetas, InterfazIteraFin
  <2>2. SemaforosTypeOK' /\ SchedulerTypeOK' /\ RecursosTypeOK' /\
        ConexionesTypeOK' /\ LocalesTypeOK'
    BY <1>15 DEF TypeOK, SemaforosTypeOK, SchedulerTypeOK, RecursosTypeOK,
       ConexionesTypeOK, LocalesTypeOK, InterfazIteraFin
  <2>3. ManoLlena'
    BY <1>15 DEF ManoLlena, TypeOK, SchedulerTypeOK, RecursosTypeOK,
       InterfazIteraFin
  <2>4. ArgumentoValido' /\ IteracionValida'
    BY <1>15 DEF ArgumentoValido, IteracionValida, TypeOK, LocalesTypeOK,
       SchedulerTypeOK, Hilos, HilosFijos, InterfazIteraFin
  <2>5. TurnoUnico' /\ ContextoPropio'
    BY <1>15, TurnoAjeno DEF TypeOK, Hilos, HilosFijos, InterfazIteraFin
  <2> QED
    BY <2>1, <2>2, <2>3, <2>4, <2>5 DEF Inductivo, TypeOK
<1>16. CASE InterfazLibera(i)
  BY <1>16, LiberarInductivo DEF InterfazLibera, Inductivo, Hilos
<1> QED
  BY <1>1, <1>2, <1>3, <1>4, <1>5, <1>6, <1>7, <1>8, <1>9, <1>10,
      <1>11, <1>12, <1>13, <1>14, <1>15, <1>16 DEF Interf

(* The console. *)

\* INICIAR_PROCESO creates a process with the next pid, with a good path or
\* a bad one.
LEMMA PideInductivo ==
  ASSUME Inductivo, NEW op \in OpsMemoria, PideCreacion(op),
         dados' \in Nat, UNCHANGED << tokens, pcb_io >>
  PROVE  Inductivo'
<1> SUFFICES ASSUME TypeOK, ManoLlena, ArgumentoValido, IteracionValida,
                    TurnoUnico, ContextoPropio
             PROVE  Inductivo'
  BY DEF Inductivo
<1> DEFINE n == numero_de_procesos'
<1>a. n \in Pids /\ n \in 0 .. MaxProcesos /\ "consola" \in Hilos
  BY ParametrosKernel
     DEF PideCreacion, TypeOK, LocalesTypeOK, Pids, Hilos, HilosFijos
<1>0. /\ pc' = [pc EXCEPT !["consola"] = "a_new"]
      /\ mano' = [mano EXCEPT !["consola"] = n]
      /\ pedidos' = Append(pedidos, [op |-> op, pid |-> n])
      /\ UNCHANGED << semVars, planVars, colas, huerfana, claves,
                      proceso_ejecutando, estado, recVars, confirmaciones,
                      en_memoria, cpuVars, ioVars, caido, pid_a_finalizar,
                      nuevo_grado, tokens, pcb_io >>
  BY DEF PideCreacion, Pedido
<1>1. pc' \in [Hilos -> Etiquetas]
  BY <1>0 DEF TypeOK, Etiquetas
<1>2. SchedulerTypeOK'
  <2>1. mano' \in [Hilos -> Pids \cup {Nadie}]
    BY <1>0, <1>a DEF TypeOK, SchedulerTypeOK
  <2> QED
    BY <1>0, <2>1 DEF TypeOK, SchedulerTypeOK
<1>3. ConexionesTypeOK'
  <2>1. [op |-> op, pid |-> n] \in [op : OpsMemoria, pid : Pids]
    BY <1>a
  <2>2. pedidos' \in Seq([op : OpsMemoria, pid : Pids])
    BY <1>0, <2>1 DEF TypeOK, ConexionesTypeOK
  <2> QED
    BY <1>0, <2>2 DEF TypeOK, ConexionesTypeOK
<1>4. LocalesTypeOK'
  BY <1>0, <1>a DEF TypeOK, LocalesTypeOK
<1>5. SemaforosTypeOK' /\ RecursosTypeOK'
  BY <1>0 DEF TypeOK, SemaforosTypeOK, RecursosTypeOK
<1>6. ManoLlena'
  <2>1. mano'["consola"] \in Pids /\ pc'["consola"] = "a_new"
    BY <1>0, <1>a DEF TypeOK, SchedulerTypeOK
  <2>2. \A h \in Hilos \ {"consola"} : mano'[h] = mano[h] /\ pc'[h] = pc[h]
    BY <1>0 DEF TypeOK, SchedulerTypeOK
  <2> QED
    BY <1>0, <2>1, <2>2 DEF ManoLlena
<1>7. ArgumentoValido' /\ IteracionValida'
  BY <1>0, <1>a DEF ArgumentoValido, IteracionValida, TypeOK, Hilos, HilosFijos
<1>8. TurnoUnico' /\ ContextoPropio'
  BY <1>0, TurnoAjeno DEF TypeOK, Hilos, HilosFijos
<1> QED
  BY <1>1, <1>2, <1>3, <1>4, <1>5, <1>6, <1>7, <1>8 DEF Inductivo, TypeOK

\* The queues FINALIZAR_PROCESO looks at, in their order, and where the
\* console stands at each.
LEMMA EtapasValidas ==
  ASSUME NEW k \in 1 .. 4
  PROVE  /\ EtapaFin(k) \in {"fin_new", "fin_ready", "fin_aux", "fin_blocked"}
         /\ EtapaExit(k) \in { "exit_new", "exit_ready", "exit_aux",
                               "exit_blocked" }
         /\ Siguiente(k) \in {"fin_ready", "fin_aux", "fin_blocked", "fin_mem"}
         /\ Etapas[k] \in {"new", "ready", "aux", "blocked"}
         /\ k # 4 => Etapas[k] \in {"new", "ready", "aux"}
<1>1. k = 1 \/ k = 2 \/ k = 3 \/ k = 4
  OBVIOUS
<1> QED
  BY <1>1 DEF EtapaFin, EtapaExit, Siguiente, Etapas

\* FINALIZAR_PROCESO takes a process out of a queue, drops another one with
\* it, and still leaves lists of pcbs and the CPU alone.
LEMMA FinalizarInductivo ==
  ASSUME Inductivo, NEW k \in 1 .. 4,
         \/ FinalizarEncuentra(k)
         \/ FinalizarNoEncuentra(k)
         \/ FinalizarAExit(k),
         UNCHANGED << tokens, pcb_io >>
  PROVE  Inductivo'
<1> SUFFICES ASSUME TypeOK, ManoLlena, ArgumentoValido, IteracionValida,
                    TurnoUnico, ContextoPropio
             PROVE  Inductivo'
  BY DEF Inductivo
<1> DEFINE p == pid_a_finalizar
<1>a. p \in Pids /\ "consola" \in Hilos
  BY EtapasValidas
     DEF FinalizarEncuentra, FinalizarNoEncuentra, FinalizarAExit,
         ArgumentoValido, Hilos, HilosFijos
<1> HIDE DEF p
<1>1. CASE FinalizarEncuentra(k)
  <2> DEFINE l == EtapaExit(k)
  <2>l. l \in {"exit_new", "exit_ready", "exit_aux", "exit_blocked"}
    BY EtapasValidas
  <2>0. /\ pc' = [pc EXCEPT !["consola"] = l]
        /\ mano' = [mano EXCEPT !["consola"] = p]
        /\ UNCHANGED << sem_dispatch, sem_interrupcion, sem_hay_encolado_VRR,
                        sem_IO_ejecucion, sem_comando, planVars, huerfana,
                        claves, proceso_ejecutando, estado, recVars, memVars,
                        cpuVars, interfaces, caido, consVars, tokens, pcb_io >>
    BY <1>1 DEF FinalizarEncuentra, p
  <2> HIDE DEF l
  <2>1. pc' \in [Hilos -> Etiquetas]
    BY <2>0, <2>l, ZenonT(60)
       DEF TypeOK, Etiquetas
  <2>2. SemaforosTypeOK'
    <3>1. sem_multiprogramacion_ready' \in Nat
      BY <1>1 DEF FinalizarEncuentra, DevuelveDe, DevuelveCupo, TypeOK,
         SemaforosTypeOK
    <3> QED
      BY <2>0, <3>1 DEF TypeOK, SemaforosTypeOK
  <2>3. SchedulerTypeOK'
    <3>1. PICK q \in ColasDeEtapa(k) :
             /\ Contains(colas[q], p)
             /\ colas' = [colas EXCEPT ![q] = QuitaYSaca(@, p)]
      BY <1>1 DEF FinalizarEncuentra, p
    <3>2. q \in Colas
      BY <3>1, EtapasValidas
         DEF ColasDeEtapa, Colas, TypeOK, SchedulerTypeOK
    <3>3. QuitaYSaca(colas[q], p) \in Seq(Pids)
      BY <3>1, <3>2, QuitaYSacaSeq DEF TypeOK, SchedulerTypeOK
    <3>4. colas' \in [Colas -> Seq(Pids)]
      BY <3>1, <3>3 DEF TypeOK, SchedulerTypeOK
    <3>5. mano' \in [Hilos -> Pids \cup {Nadie}]
      BY <2>0, <1>a DEF TypeOK, SchedulerTypeOK
    <3> QED
      BY <2>0, <3>4, <3>5 DEF TypeOK, SchedulerTypeOK
  <2>4. ConexionesTypeOK'
    <3>1. instrucciones' \in SUBSET Pids
      BY <1>1 DEF FinalizarEncuentra, BorraInstruccion, TypeOK,
                  ConexionesTypeOK
    <3> QED
      BY <2>0, <3>1 DEF TypeOK, ConexionesTypeOK
  <2>5. RecursosTypeOK' /\ LocalesTypeOK'
    BY <2>0 DEF TypeOK, RecursosTypeOK, LocalesTypeOK
  <2>6. ManoLlena'
    <3>1. mano'["consola"] \in Pids /\ pc'["consola"] = l
      BY <2>0, <1>a DEF TypeOK, SchedulerTypeOK
    <3>2. \A h \in Hilos \ {"consola"} :
             mano'[h] = mano[h] /\ pc'[h] = pc[h]
      BY <2>0 DEF TypeOK, SchedulerTypeOK
    <3> QED
      BY <2>0, <2>l, <3>1, <3>2 DEF ManoLlena
  <2>7. ArgumentoValido' /\ IteracionValida'
    BY <1>a, <2>0, <2>l
       DEF ArgumentoValido, IteracionValida, TypeOK, Hilos, HilosFijos, p
  <2>8. TurnoUnico' /\ ContextoPropio'
    BY <2>0, TurnoAjeno DEF TypeOK, Hilos, HilosFijos
  <2> QED
    BY <2>1, <2>2, <2>3, <2>4, <2>5, <2>6, <2>7, <2>8 DEF Inductivo, TypeOK
<1>2. CASE FinalizarNoEncuentra(k)
  <2> DEFINE l == Siguiente(k)
  <2>l. l \in {"fin_ready", "fin_aux", "fin_blocked", "fin_mem"}
    BY EtapasValidas
  <2>0. /\ pc' = [pc EXCEPT !["consola"] = l]
        /\ UNCHANGED << semVars, planVars, schedVars, recVars, memVars,
                        cpuVars, interfaces, caido, consVars, tokens, pcb_io >>
    BY <1>2 DEF FinalizarNoEncuentra
  <2> HIDE DEF l
  <2>1. pc' \in [Hilos -> Etiquetas]
    BY <2>0, <2>l, ZenonT(60)
       DEF TypeOK, Etiquetas
  <2>2. ConexionesTypeOK'
    <3>1. instrucciones' \in SUBSET Pids
      BY <1>2 DEF FinalizarNoEncuentra, BorraInstruccion, TypeOK,
                  ConexionesTypeOK
    <3> QED
      BY <2>0, <3>1 DEF TypeOK, ConexionesTypeOK
  <2>3. SemaforosTypeOK' /\ SchedulerTypeOK' /\ RecursosTypeOK' /\
        LocalesTypeOK'
    BY <2>0 DEF TypeOK, SemaforosTypeOK, SchedulerTypeOK, RecursosTypeOK,
                LocalesTypeOK
  <2>4. ManoLlena'
    BY <2>0, <2>l DEF ManoLlena, TypeOK
  <2>5. ArgumentoValido' /\ IteracionValida'
    BY <1>a, <2>0, <2>l
       DEF ArgumentoValido, IteracionValida, TypeOK, Hilos, HilosFijos, p
  <2>6. TurnoUnico' /\ ContextoPropio'
    BY <2>0, TurnoAjeno DEF TypeOK, Hilos, HilosFijos
  <2> QED
    BY <2>1, <2>2, <2>3, <2>4, <2>5, <2>6 DEF Inductivo, TypeOK
<1>3. CASE FinalizarAExit(k)
  <2> DEFINE l == Siguiente(k)
  <2>l. l \in {"fin_ready", "fin_aux", "fin_blocked", "fin_mem"}
    BY EtapasValidas
  <2>0. /\ pc' = [pc EXCEPT !["consola"] = l]
        /\ Pone("consola", "exit", "EXIT")
        /\ cantidad_procesos_ejecutandose' = cantidad_procesos_ejecutandose -
              (IF estado[p] # "NEW" THEN 1 ELSE 0)
        /\ UNCHANGED << semVars, estado_planificacion_activa,
                        grado_multiprogramacion, tiempoVRR, recVars, conVars,
                        caido, consVars, tokens, pcb_io >>
    BY <1>3 DEF FinalizarAExit, p
  <2> HIDE DEF l
  <2>1. pc' \in [Hilos -> Etiquetas]
    BY <2>0, <2>l, ZenonT(60)
       DEF TypeOK, Etiquetas
  <2>2. SemaforosTypeOK'
    <3>1. cantidad_procesos_ejecutandose' \in Int
      BY <2>0 DEF TypeOK, SemaforosTypeOK
    <3> QED
      BY <2>0, <3>1 DEF TypeOK, SemaforosTypeOK
  <2>3. SchedulerTypeOK'
    <3>1. mano["consola"] \in Pids
      BY <1>3, <1>a, EtapasValidas DEF FinalizarAExit, ManoLlena
    <3> QED
      BY <2>0, <3>1, <1>a, PoneTypeOK DEF TypeOK, Colas, Estados
  <2>4. RecursosTypeOK' /\ ConexionesTypeOK' /\ LocalesTypeOK'
    BY <2>0 DEF TypeOK, RecursosTypeOK, ConexionesTypeOK, LocalesTypeOK
  <2>5. ManoLlena'
    BY <2>0, <2>l DEF ManoLlena, TypeOK, SchedulerTypeOK, Pone
  <2>6. ArgumentoValido' /\ IteracionValida'
    BY <1>a, <2>0, <2>l
       DEF ArgumentoValido, IteracionValida, TypeOK, Hilos, HilosFijos, Pone, p
  <2>7. TurnoUnico' /\ ContextoPropio'
    BY <2>0, TurnoAjeno DEF TypeOK, Hilos, HilosFijos, Pone
  <2> QED
    BY <2>1, <2>2, <2>3, <2>4, <2>5, <2>6, <2>7 DEF Inductivo, TypeOK
<1> QED
  BY <1>1, <1>2, <1>3

\* No command of the console moves the turn of the CPU: FINALIZAR_PROCESO
\* of the process in EXEC is an order to the CPU, not a step of the kernel.
LEMMA ConsolaInductivo ==
  ASSUME Inductivo, Orden \/ Ejecuta, UNCHANGED << tokens, pcb_io >>
  PROVE  Inductivo'
<1> SUFFICES ASSUME TypeOK, ManoLlena, ArgumentoValido, IteracionValida,
                    TurnoUnico, ContextoPropio
             PROVE  Inductivo'
  BY DEF Inductivo
<1>1. CASE IniciarProceso
  <2>1. PideCreacion("MEMORY_PROCESS_CREATE") /\ dados' \in Nat
    BY <1>1 DEF IniciarProceso, TypeOK, LocalesTypeOK
  <2> QED
    BY <2>1, PideInductivo DEF OpsMemoria, Inductivo
<1>2. CASE IniciarProcesoSinPath
  <2>1. PideCreacion("PATH_INEXISTENTE") /\ dados' \in Nat
    BY <1>2 DEF IniciarProcesoSinPath, Lee, TypeOK, LocalesTypeOK
  <2> QED
    BY <2>1, PideInductivo DEF OpsMemoria, Inductivo
<1>3. CASE DetenerPlanificacion
  <2>1. pc' \in [Hilos -> Etiquetas]
    BY <1>3 DEF TypeOK, Etiquetas, DetenerPlanificacion, Lee
  <2>2. SemaforosTypeOK'
    BY <1>3 DEF TypeOK, Hilos, HilosFijos, SemaforosTypeOK,
       DetenerPlanificacion, Lee
  <2>3. LocalesTypeOK'
    BY <1>3 DEF TypeOK, Hilos, HilosFijos, LocalesTypeOK,
       DetenerPlanificacion, Lee
  <2>4. SchedulerTypeOK' /\ RecursosTypeOK' /\ ConexionesTypeOK'
    BY <1>3 DEF TypeOK, SchedulerTypeOK, RecursosTypeOK, ConexionesTypeOK,
       DetenerPlanificacion, Lee
  <2>5. ManoLlena'
    BY <1>3 DEF ManoLlena, TypeOK, SchedulerTypeOK, RecursosTypeOK,
       DetenerPlanificacion, Lee
  <2>6. ArgumentoValido' /\ IteracionValida'
    BY <1>3 DEF ArgumentoValido, IteracionValida, TypeOK, LocalesTypeOK,
       SchedulerTypeOK, Hilos, HilosFijos, DetenerPlanificacion, Lee
  <2>7. TurnoUnico' /\ ContextoPropio'
    BY <1>3, TurnoAjeno DEF TypeOK, Hilos, HilosFijos, DetenerPlanificacion,
       Lee
  <2> QED
    BY <2>1, <2>2, <2>3, <2>4, <2>5, <2>6, <2>7 DEF Inductivo, TypeOK
<1>4. CASE IniciarPlanificacion
  <2>1. pc' \in [Hilos -> Etiquetas]
    BY <1>4 DEF TypeOK, Etiquetas, IniciarPlanificacion
  <2>2. SemaforosTypeOK'
    BY <1>4 DEF TypeOK, Hilos, HilosFijos, SemaforosTypeOK,
       IniciarPlanificacion
  <2>3. SchedulerTypeOK' /\ RecursosTypeOK' /\ ConexionesTypeOK' /\
        LocalesTypeOK'
    BY <1>4 DEF TypeOK, SchedulerTypeOK, RecursosTypeOK, ConexionesTypeOK,
       LocalesTypeOK, IniciarPlanificacion
  <2>4. ManoLlena'
    BY <1>4 DEF ManoLlena, TypeOK, SchedulerTypeOK, RecursosTypeOK,
       IniciarPlanificacion
  <2>5. ArgumentoValido' /\ IteracionValida'
    BY <1>4 DEF ArgumentoValido, IteracionValida, TypeOK, LocalesTypeOK,
       SchedulerTypeOK, Hilos, HilosFijos, IniciarPlanificacion
  <2>6. TurnoUnico' /\ ContextoPropio'
    BY <1>4, TurnoAjeno DEF TypeOK, Hilos, HilosFijos, IniciarPlanificacion
  <2> QED
    BY <2>1, <2>2, <2>3, <2>4, <2>5, <2>6 DEF Inductivo, TypeOK
<1>5. CASE Multiprogramacion
  <2>1. pc' \in [Hilos -> Etiquetas]
    BY <1>5 DEF TypeOK, Etiquetas, Multiprogramacion, Lee
  <2>2. SemaforosTypeOK'
    BY <1>5, ComandosPosibles DEF TypeOK, Hilos, HilosFijos, SemaforosTypeOK,
       Multiprogramacion, Lee
  <2>3. LocalesTypeOK'
    BY <1>5, ComandosPosibles DEF TypeOK, Hilos, HilosFijos, LocalesTypeOK,
       Multiprogramacion, Lee
  <2>4. SchedulerTypeOK' /\ RecursosTypeOK' /\ ConexionesTypeOK'
    BY <1>5 DEF TypeOK, SchedulerTypeOK, RecursosTypeOK, ConexionesTypeOK,
       Multiprogramacion, Lee
  <2>5. ManoLlena'
    BY <1>5 DEF ManoLlena, TypeOK, SchedulerTypeOK, RecursosTypeOK,
       Multiprogramacion, Lee
  <2>6. ArgumentoValido' /\ IteracionValida'
    BY <1>5 DEF ArgumentoValido, IteracionValida, TypeOK, LocalesTypeOK,
       SchedulerTypeOK, Hilos, HilosFijos, Multiprogramacion, Lee
  <2>7. TurnoUnico' /\ ContextoPropio'
    BY <1>5, TurnoAjeno DEF TypeOK, Hilos, HilosFijos, Multiprogramacion, Lee
  <2> QED
    BY <2>1, <2>2, <2>3, <2>4, <2>5, <2>6, <2>7 DEF Inductivo, TypeOK
<1>6. CASE FinalizarProceso
  <2>p. pid_a_finalizar' \in Pids
    BY <1>6, ParametrosKernel
       DEF FinalizarProceso, TypeOK, LocalesTypeOK, Pids
  <2>1. pc' \in [Hilos -> Etiquetas]
    BY <1>6 DEF TypeOK, Etiquetas, FinalizarProceso, Lee
  <2>2. LocalesTypeOK'
    BY <1>6, <2>p DEF TypeOK, LocalesTypeOK, FinalizarProceso, Lee
  <2>3. SemaforosTypeOK' /\ SchedulerTypeOK' /\ RecursosTypeOK' /\
        ConexionesTypeOK'
    BY <1>6 DEF TypeOK, SemaforosTypeOK, SchedulerTypeOK, RecursosTypeOK,
       ConexionesTypeOK, FinalizarProceso, Lee
  <2>4. ManoLlena'
    BY <1>6 DEF ManoLlena, TypeOK, SchedulerTypeOK, RecursosTypeOK,
       FinalizarProceso, Lee
  <2>5. ArgumentoValido' /\ IteracionValida'
    BY <1>6, <2>p DEF ArgumentoValido, IteracionValida, TypeOK, Hilos,
       HilosFijos, FinalizarProceso, Lee
  <2>6. TurnoUnico' /\ ContextoPropio'
    BY <1>6, TurnoAjeno DEF TypeOK, Hilos, HilosFijos, FinalizarProceso, Lee
  <2> QED
    BY <2>1, <2>2, <2>3, <2>4, <2>5, <2>6 DEF Inductivo, TypeOK
<1>7. CASE ProcesoAColaNew
  <2>1. pc' \in [Hilos -> Etiquetas]
    <3>1. /\ pc' = [pc EXCEPT !["consola"] = "dicc_nuevo",
                 !["largo"] = IF @ = "cond_new" THEN "despierta" ELSE @]
      BY <1>7 DEF ProcesoAColaNew
    <3>2. "despierta" \in Etiquetas /\ "dicc_nuevo" \in Etiquetas
      BY DEF Etiquetas
    <3>3. "largo" \in Hilos /\ "consola" \in Hilos
      BY DEF Hilos, HilosFijos
    <3>4. pc["largo"] \in Etiquetas
      BY <3>3 DEF TypeOK
    <3> QED
      BY <3>1, <3>2, <3>3, <3>4 DEF TypeOK
  <2>2. SchedulerTypeOK'
    BY <1>7, PoneTypeOK DEF TypeOK, Hilos, HilosFijos, ProcesoAColaNew,
       Estados, ManoLlena, Colas
  <2>3. SemaforosTypeOK' /\ RecursosTypeOK' /\ ConexionesTypeOK' /\
        LocalesTypeOK'
    BY <1>7 DEF TypeOK, SemaforosTypeOK, RecursosTypeOK, ConexionesTypeOK,
       LocalesTypeOK, ProcesoAColaNew, Pone
  <2>4. ManoLlena'
    BY <1>7 DEF ManoLlena, TypeOK, SchedulerTypeOK, RecursosTypeOK,
       ProcesoAColaNew, Pone
  <2>5. ArgumentoValido' /\ IteracionValida'
    BY <1>7 DEF ArgumentoValido, IteracionValida, TypeOK, LocalesTypeOK,
       SchedulerTypeOK, Hilos, HilosFijos, ProcesoAColaNew, Pone
  <2>6. TurnoUnico' /\ ContextoPropio'
    BY <1>7, TurnoAjeno DEF TypeOK, Hilos, HilosFijos, ProcesoAColaNew, Pone
  <2> QED
    BY <2>1, <2>2, <2>3, <2>4, <2>5, <2>6 DEF Inductivo, TypeOK
<1>8. CASE ConsolaInicializaRecursos
  <2>1. pc' \in [Hilos -> Etiquetas]
    BY <1>8 DEF TypeOK, Etiquetas, ConsolaInicializaRecursos,
       InicializarRecursosProceso, SinAsignar
  <2>2. RecursosTypeOK'
    BY <1>8 DEF TypeOK, Hilos, HilosFijos, RecursosTypeOK,
       ConsolaInicializaRecursos, InicializarRecursosProceso, SinAsignar,
       ArgumentoValido
  <2>3. SemaforosTypeOK' /\ SchedulerTypeOK' /\ ConexionesTypeOK' /\
        LocalesTypeOK'
    BY <1>8 DEF TypeOK, SemaforosTypeOK, SchedulerTypeOK, ConexionesTypeOK,
       LocalesTypeOK, ConsolaInicializaRecursos, InicializarRecursosProceso,
       SinAsignar
  <2>4. ManoLlena'
    BY <1>8 DEF ManoLlena, TypeOK, SchedulerTypeOK, RecursosTypeOK,
       ConsolaInicializaRecursos, InicializarRecursosProceso, SinAsignar
  <2>5. ArgumentoValido' /\ IteracionValida'
    BY <1>8 DEF ArgumentoValido, IteracionValida, TypeOK, LocalesTypeOK,
       SchedulerTypeOK, Hilos, HilosFijos, ConsolaInicializaRecursos,
       InicializarRecursosProceso, SinAsignar
  <2>6. TurnoUnico' /\ ContextoPropio'
    BY <1>8, TurnoAjeno DEF TypeOK, Hilos, HilosFijos,
       ConsolaInicializaRecursos, InicializarRecursosProceso, SinAsignar
  <2> QED
    BY <2>1, <2>2, <2>3, <2>4, <2>5, <2>6 DEF Inductivo, TypeOK
<1>9. CASE CambiaGrado
  <2>1. pc' \in [Hilos -> Etiquetas]
    BY <1>9 DEF TypeOK, Etiquetas, CambiaGrado
  <2>2. SemaforosTypeOK'
    BY <1>9 DEF TypeOK, Hilos, HilosFijos, SemaforosTypeOK, CambiaGrado,
       LocalesTypeOK
  <2>3. SchedulerTypeOK' /\ RecursosTypeOK' /\ ConexionesTypeOK' /\
        LocalesTypeOK'
    BY <1>9 DEF TypeOK, SchedulerTypeOK, RecursosTypeOK, ConexionesTypeOK,
       LocalesTypeOK, CambiaGrado
  <2>4. ManoLlena'
    BY <1>9 DEF ManoLlena, TypeOK, SchedulerTypeOK, RecursosTypeOK,
       CambiaGrado
  <2>5. ArgumentoValido' /\ IteracionValida'
    BY <1>9 DEF ArgumentoValido, IteracionValida, TypeOK, LocalesTypeOK,
       SchedulerTypeOK, Hilos, HilosFijos, CambiaGrado
  <2>6. TurnoUnico' /\ ContextoPropio'
    BY <1>9, TurnoAjeno DEF TypeOK, Hilos, HilosFijos, CambiaGrado
  <2> QED
    BY <2>1, <2>2, <2>3, <2>4, <2>5, <2>6 DEF Inductivo, TypeOK
<1>10. CASE FinalizarEnExec
  <2>1. pc' \in [Hilos -> Etiquetas]
    BY <1>10 DEF TypeOK, Etiquetas, FinalizarEnExec
  <2>2. ConexionesTypeOK'
    BY <1>10 DEF TypeOK, Hilos, HilosFijos, ConexionesTypeOK, FinalizarEnExec
  <2>3. SemaforosTypeOK' /\ SchedulerTypeOK' /\ RecursosTypeOK' /\
        LocalesTypeOK'
    BY <1>10 DEF TypeOK, SemaforosTypeOK, SchedulerTypeOK, RecursosTypeOK,
       LocalesTypeOK, FinalizarEnExec
  <2>4. ManoLlena'
    BY <1>10 DEF ManoLlena, TypeOK, SchedulerTypeOK, RecursosTypeOK,
       FinalizarEnExec
  <2>5. ArgumentoValido' /\ IteracionValida'
    BY <1>10 DEF ArgumentoValido, IteracionValida, TypeOK, LocalesTypeOK,
       SchedulerTypeOK, Hilos, HilosFijos, FinalizarEnExec
  <2>6. TurnoUnico' /\ ContextoPropio'
    BY <1>10, TurnoAjeno DEF TypeOK, Hilos, HilosFijos, FinalizarEnExec
  <2> QED
    BY <2>1, <2>2, <2>3, <2>4, <2>5, <2>6 DEF Inductivo, TypeOK
<1>11. CASE FinalizarAvisaMemoria
  <2>1. pc' \in [Hilos -> Etiquetas]
    BY <1>11 DEF TypeOK, Etiquetas, FinalizarAvisaMemoria, Pedido
  <2>2. ConexionesTypeOK'
    BY <1>11 DEF TypeOK, Hilos, HilosFijos, ConexionesTypeOK,
       FinalizarAvisaMemoria, Pedido, OpsMemoria, ArgumentoValido
  <2>3. SemaforosTypeOK' /\ SchedulerTypeOK' /\ RecursosTypeOK' /\
        LocalesTypeOK'
    BY <1>11 DEF TypeOK, SemaforosTypeOK, SchedulerTypeOK, RecursosTypeOK,
       LocalesTypeOK, FinalizarAvisaMemoria, Pedido
  <2>4. ManoLlena'
    BY <1>11 DEF ManoLlena, TypeOK, SchedulerTypeOK, RecursosTypeOK,
       FinalizarAvisaMemoria, Pedido
  <2>5. ArgumentoValido' /\ IteracionValida'
    BY <1>11 DEF ArgumentoValido, IteracionValida, TypeOK, LocalesTypeOK,
       SchedulerTypeOK, Hilos, HilosFijos, FinalizarAvisaMemoria, Pedido
  <2>6. TurnoUnico' /\ ContextoPropio'
    BY <1>11, TurnoAjeno DEF TypeOK, Hilos, HilosFijos, FinalizarAvisaMemoria,
       Pedido
  <2> QED
    BY <2>1, <2>2, <2>3, <2>4, <2>5, <2>6 DEF Inductivo, TypeOK
<1>12. CASE \E k \in 1 .. 4 : \/ FinalizarEncuentra(k)
                              \/ FinalizarNoEncuentra(k)
                              \/ FinalizarAExit(k)
  BY <1>12, FinalizarInductivo DEF Inductivo
<1>13. CASE FinalizarLibera
  BY <1>13, LiberarInductivo DEF FinalizarLibera, Inductivo, Hilos, HilosFijos
<1> QED
  BY <1>1, <1>2, <1>3, <1>4, <1>5, <1>6, <1>7, <1>8, <1>9, <1>10, <1>11,
     <1>12, <1>13 DEF Orden, Ejecuta

\* On each of its paths the handler takes the turn from sem_interrupcion
\* and gives it to one of the two semaphores once.
LEMMA InterrInductivo ==
  ASSUME Inductivo, Interr, UNCHANGED << pcb_io, consVars >>
  PROVE  Inductivo'
<1> SUFFICES ASSUME TypeOK, ManoLlena, ArgumentoValido, IteracionValida,
                    TurnoUnico, ContextoPropio
             PROVE  Inductivo'
  BY DEF Inductivo
<1>1. CASE InterrRecibe
  <2>a. /\ Head(recibidos) \in Contexto
          /\ Tail(recibidos) \in Seq(Contexto)
          /\ Len(Tail(recibidos)) = Len(recibidos) - 1
    BY <1>1, HeadTailProperties DEF InterrRecibe, TypeOK, ConexionesTypeOK
  <2>b. Head(recibidos).pid = proceso_ejecutando
    BY <1>1 DEF InterrRecibe, ContextoPropio, TypeOK, ConexionesTypeOK
  <2>c. /\ sem_interrupcion = 1 /\ enviados = << >> /\ Tail(recibidos) = << >>
          /\ proceso_ejecutando # Nadie
    <3>1. sem_interrupcion = 1
      BY <1>1 DEF InterrRecibe, TurnoUnico, Uno, TypeOK, SemaforosTypeOK
    <3> QED
      BY <1>1, <3>1, <2>a, LenProperties, EmptySeq
         DEF InterrRecibe, ContextoPropio, TypeOK, ConexionesTypeOK
  <2>1. pc' \in [Hilos -> Etiquetas]
    BY <1>1, <2>a, <2>b, <2>c DEF TypeOK, Etiquetas, InterrRecibe
  <2>2. SemaforosTypeOK'
    <3>1. caido' \in BOOLEAN /\ tiempoVRR' \in BOOLEAN
      BY <1>1 DEF InterrRecibe, DestruyeTiempo
    <3>2. /\ sem_interrupcion' \in Nat
          /\ UNCHANGED << sem_dispatch, sem_multiprogramacion_ready,
                          sem_hay_encolado_VRR, sem_IO_ejecucion, sem_comando,
                          estado_planificacion_activa,
                          cantidad_procesos_ejecutandose,
                          grado_multiprogramacion >>
      BY <1>1, <2>c DEF InterrRecibe
    <3> QED
      BY <3>1, <3>2 DEF TypeOK, SemaforosTypeOK
  <2>3. SchedulerTypeOK'
    BY <1>1, <2>a, <2>b, <2>c DEF TypeOK, Hilos, HilosFijos, SchedulerTypeOK,
       InterrRecibe, Contexto, Operaciones, OpsDeFin, Estados, EstadoDevuelto
  <2>4. ConexionesTypeOK'
    BY <1>1, <2>a, <2>b, <2>c DEF TypeOK, Hilos, HilosFijos, ConexionesTypeOK,
       InterrRecibe
  <2>5. LocalesTypeOK'
    BY <1>1, <2>a, <2>b, <2>c DEF TypeOK, Hilos, HilosFijos, LocalesTypeOK,
       InterrRecibe, Contexto, Instruccion
  <2>6. RecursosTypeOK'
    BY <1>1, <2>a, <2>b, <2>c DEF TypeOK, RecursosTypeOK, InterrRecibe
  <2>7. ManoLlena'
    BY <1>1, <2>a, <2>b, <2>c DEF ManoLlena, TypeOK, SchedulerTypeOK,
       RecursosTypeOK, InterrRecibe
  <2>8. ArgumentoValido' /\ IteracionValida'
    BY <1>1, <2>a, <2>b, <2>c DEF ArgumentoValido, IteracionValida, TypeOK,
       LocalesTypeOK, SchedulerTypeOK, Hilos, HilosFijos, InterrRecibe
  <2>9. TurnoUnico'
    BY <1>1, <2>a, <2>b, <2>c DEF TurnoUnico, ContextoPropio, HandlerConTurno,
       Uno, TypeOK, SemaforosTypeOK, ConexionesTypeOK, Hilos, HilosFijos,
       OpsDeFin, InterrRecibe
  <2>10. ContextoPropio'
    BY <1>1, <2>a, <2>b, <2>c DEF TurnoUnico, ContextoPropio, HandlerConTurno,
       Uno, TypeOK, SemaforosTypeOK, ConexionesTypeOK, Hilos, HilosFijos,
       OpsDeFin, AntesDeSacar, SchedulerTypeOK, InterrRecibe
  <2> QED
    BY <2>1, <2>2, <2>3, <2>4, <2>5, <2>6, <2>7, <2>8, <2>9, <2>10 DEF
        Inductivo, TypeOK
<1>2. CASE InterrActiva
  <2>1. pc' \in [Hilos -> Etiquetas]
    <3>1. Caso(tokens) \in Etiquetas /\ "pausa" \in Etiquetas
      BY CasoValido DEF Etiquetas
    <3> QED
      BY <1>2, <3>1 DEF TypeOK, InterrActiva, InterrReanuda, SigueSiActiva, SaleDePausa
  <2>2. SemaforosTypeOK' /\ SchedulerTypeOK' /\ RecursosTypeOK' /\
        ConexionesTypeOK' /\ LocalesTypeOK'
    BY <1>2 DEF TypeOK, SemaforosTypeOK, SchedulerTypeOK, RecursosTypeOK,
       ConexionesTypeOK, LocalesTypeOK, InterrActiva, SigueSiActiva, Caso
  <2>3. ManoLlena'
    BY <1>2 DEF ManoLlena, TypeOK, SchedulerTypeOK, RecursosTypeOK,
       InterrActiva, SigueSiActiva, Caso, LocalesTypeOK, Instruccion,
       Operaciones, OpsDeFin
  <2>4. ArgumentoValido' /\ IteracionValida'
    BY <1>2 DEF ArgumentoValido, IteracionValida, TypeOK, LocalesTypeOK,
       SchedulerTypeOK, Hilos, HilosFijos, InterrActiva, SigueSiActiva, Caso,
       Instruccion, Operaciones, OpsDeFin
  <2>5. TurnoUnico'
    BY <1>2 DEF TurnoUnico, ContextoPropio, HandlerConTurno, Uno, TypeOK,
       SemaforosTypeOK, ConexionesTypeOK, Hilos, HilosFijos, OpsDeFin,
       InterrActiva, SigueSiActiva, Caso, LocalesTypeOK, Instruccion,
       Operaciones
  <2>6. ContextoPropio'
    BY <1>2 DEF TurnoUnico, ContextoPropio, HandlerConTurno, Uno, TypeOK,
       SemaforosTypeOK, ConexionesTypeOK, Hilos, HilosFijos, OpsDeFin,
       AntesDeSacar, SchedulerTypeOK, InterrActiva, SigueSiActiva, Caso,
       LocalesTypeOK, Instruccion, Operaciones
  <2> QED
    BY <2>1, <2>2, <2>3, <2>4, <2>5, <2>6 DEF Inductivo, TypeOK
<1>3. CASE InterrReanuda
  <2>1. pc' \in [Hilos -> Etiquetas]
    <3>1. Caso(tokens) \in Etiquetas /\ "pausa" \in Etiquetas
      BY CasoValido DEF Etiquetas
    <3> QED
      BY <1>3, <3>1 DEF TypeOK, InterrActiva, InterrReanuda, SigueSiActiva, SaleDePausa
  <2>2. SemaforosTypeOK'
    BY <1>3 DEF TypeOK, Hilos, HilosFijos, SemaforosTypeOK, InterrReanuda,
       SaleDePausa, Caso, Pausables
  <2>3. SchedulerTypeOK' /\ RecursosTypeOK' /\ ConexionesTypeOK' /\
        LocalesTypeOK'
    BY <1>3 DEF TypeOK, SchedulerTypeOK, RecursosTypeOK, ConexionesTypeOK,
       LocalesTypeOK, InterrReanuda, SaleDePausa, Caso
  <2>4. ManoLlena'
    BY <1>3 DEF ManoLlena, TypeOK, SchedulerTypeOK, RecursosTypeOK,
       InterrReanuda, SaleDePausa, Caso, LocalesTypeOK, Instruccion,
       Operaciones, OpsDeFin
  <2>5. ArgumentoValido' /\ IteracionValida'
    BY <1>3 DEF ArgumentoValido, IteracionValida, TypeOK, LocalesTypeOK,
       SchedulerTypeOK, Hilos, HilosFijos, InterrReanuda, SaleDePausa, Caso,
       Instruccion, Operaciones, OpsDeFin
  <2>6. TurnoUnico'
    BY <1>3 DEF TurnoUnico, ContextoPropio, HandlerConTurno, Uno, TypeOK,
       SemaforosTypeOK, ConexionesTypeOK, Hilos, HilosFijos, OpsDeFin,
       InterrReanuda, SaleDePausa, Caso, LocalesTypeOK, Instruccion,
       Operaciones
  <2>7. ContextoPropio'
    BY <1>3 DEF TurnoUnico, ContextoPropio, HandlerConTurno, Uno, TypeOK,
       SemaforosTypeOK, ConexionesTypeOK, Hilos, HilosFijos, OpsDeFin,
       AntesDeSacar, SchedulerTypeOK, InterrReanuda, SaleDePausa, Caso,
       LocalesTypeOK, Instruccion, Operaciones
  <2> QED
    BY <2>1, <2>2, <2>3, <2>4, <2>5, <2>6, <2>7 DEF Inductivo, TypeOK
<1>4. CASE InterrAvisaMemoria
  <2>1. pc' \in [Hilos -> Etiquetas]
    BY <1>4 DEF TypeOK, Etiquetas, InterrAvisaMemoria, Pedido
  <2>2. ConexionesTypeOK'
    BY <1>4 DEF TypeOK, Hilos, HilosFijos, ConexionesTypeOK,
       InterrAvisaMemoria, Pedido, ContextoPropio, AntesDeSacar,
       SchedulerTypeOK, OpsMemoria
  <2>3. SemaforosTypeOK' /\ SchedulerTypeOK' /\ RecursosTypeOK' /\
        LocalesTypeOK'
    BY <1>4 DEF TypeOK, SemaforosTypeOK, SchedulerTypeOK, RecursosTypeOK,
       LocalesTypeOK, InterrAvisaMemoria, Pedido
  <2>4. ManoLlena'
    BY <1>4 DEF ManoLlena, TypeOK, SchedulerTypeOK, RecursosTypeOK,
       InterrAvisaMemoria, Pedido
  <2>5. ArgumentoValido' /\ IteracionValida'
    BY <1>4 DEF ArgumentoValido, IteracionValida, TypeOK, LocalesTypeOK,
       SchedulerTypeOK, Hilos, HilosFijos, InterrAvisaMemoria, Pedido
  <2>6. TurnoUnico'
    BY <1>4 DEF TurnoUnico, ContextoPropio, HandlerConTurno, Uno, TypeOK,
       SemaforosTypeOK, ConexionesTypeOK, Hilos, HilosFijos, OpsDeFin,
       InterrAvisaMemoria, Pedido
  <2>7. ContextoPropio'
    BY <1>4 DEF TurnoUnico, ContextoPropio, HandlerConTurno, Uno, TypeOK,
       SemaforosTypeOK, ConexionesTypeOK, Hilos, HilosFijos, OpsDeFin,
       AntesDeSacar, SchedulerTypeOK, InterrAvisaMemoria, Pedido
  <2> QED
    BY <2>1, <2>2, <2>3, <2>4, <2>5, <2>6, <2>7 DEF Inductivo, TypeOK
<1>5. CASE InterrFinSaca
  <2>1. pc' \in [Hilos -> Etiquetas]
    BY <1>5 DEF TypeOK, Etiquetas, InterrFinSaca, SacaDeExec
  <2>2. SchedulerTypeOK'
    BY <1>5 DEF TypeOK, Hilos, HilosFijos, SchedulerTypeOK, InterrFinSaca,
       SacaDeExec
  <2>3. SemaforosTypeOK' /\ RecursosTypeOK' /\ ConexionesTypeOK' /\
        LocalesTypeOK'
    BY <1>5 DEF TypeOK, SemaforosTypeOK, RecursosTypeOK, ConexionesTypeOK,
       LocalesTypeOK, InterrFinSaca, SacaDeExec
  <2>4. ManoLlena'
    BY <1>5 DEF ManoLlena, TypeOK, SchedulerTypeOK, RecursosTypeOK,
       InterrFinSaca, SacaDeExec, ContextoPropio, AntesDeSacar
  <2>5. ArgumentoValido' /\ IteracionValida'
    BY <1>5 DEF ArgumentoValido, IteracionValida, TypeOK, LocalesTypeOK,
       SchedulerTypeOK, Hilos, HilosFijos, InterrFinSaca, SacaDeExec
  <2>6. TurnoUnico'
    BY <1>5 DEF TurnoUnico, ContextoPropio, HandlerConTurno, Uno, TypeOK,
       SemaforosTypeOK, ConexionesTypeOK, Hilos, HilosFijos, OpsDeFin,
       InterrFinSaca, SacaDeExec
  <2>7. ContextoPropio'
    BY <1>5 DEF TurnoUnico, ContextoPropio, HandlerConTurno, Uno, TypeOK,
       SemaforosTypeOK, ConexionesTypeOK, Hilos, HilosFijos, OpsDeFin,
       AntesDeSacar, SchedulerTypeOK, InterrFinSaca, SacaDeExec
  <2> QED
    BY <2>1, <2>2, <2>3, <2>4, <2>5, <2>6, <2>7 DEF Inductivo, TypeOK
<1>6. CASE InterrFinPone
  <2>1. pc' \in [Hilos -> Etiquetas]
    BY <1>6 DEF TypeOK, Etiquetas, InterrFinPone, Pone
  <2>2. SemaforosTypeOK'
    BY <1>6 DEF TypeOK, Hilos, HilosFijos, SemaforosTypeOK, InterrFinPone,
       Pone
  <2>3. SchedulerTypeOK'
    BY <1>6 DEF TypeOK, Hilos, HilosFijos, SchedulerTypeOK, InterrFinPone,
       Pone, Estados, ManoLlena, Colas
  <2>4. RecursosTypeOK' /\ ConexionesTypeOK' /\ LocalesTypeOK'
    BY <1>6 DEF TypeOK, RecursosTypeOK, ConexionesTypeOK, LocalesTypeOK,
       InterrFinPone, Pone
  <2>5. ManoLlena'
    BY <1>6 DEF ManoLlena, TypeOK, SchedulerTypeOK, RecursosTypeOK,
       InterrFinPone, Pone
  <2>6. ArgumentoValido' /\ IteracionValida'
    BY <1>6 DEF ArgumentoValido, IteracionValida, TypeOK, LocalesTypeOK,
       SchedulerTypeOK, Hilos, HilosFijos, InterrFinPone, Pone
  <2>7. TurnoUnico'
    <3>1. CASE tokens.op \in OpsDeFin
      BY <1>6, <3>1
         DEF InterrFinPone, TurnoUnico, HandlerConTurno, Uno, TypeOK,
             SemaforosTypeOK, Hilos, HilosFijos
    <3>2. CASE tokens.op \notin OpsDeFin
      BY <1>6, <3>2
         DEF InterrFinPone, TurnoUnico, HandlerConTurno, Uno, TypeOK,
             SemaforosTypeOK, Hilos, HilosFijos
    <3> QED
      BY <3>1, <3>2
  <2>8. ContextoPropio'
    BY <1>6 DEF TurnoUnico, ContextoPropio, HandlerConTurno, Uno, TypeOK,
       SemaforosTypeOK, ConexionesTypeOK, Hilos, HilosFijos, OpsDeFin,
       AntesDeSacar, SchedulerTypeOK, InterrFinPone, Pone
  <2> QED
    BY <2>1, <2>2, <2>3, <2>4, <2>5, <2>6, <2>7, <2>8 DEF Inductivo,
        TypeOK
<1>7. CASE InterrAumentaMira
  <2>1. pc' \in [Hilos -> Etiquetas]
    BY <1>7 DEF TypeOK, Etiquetas, InterrAumentaMira, DevuelveCupo
  <2>2. SemaforosTypeOK'
    BY <1>7 DEF TypeOK, Hilos, HilosFijos, SemaforosTypeOK, InterrAumentaMira,
       DevuelveCupo
  <2>3. SchedulerTypeOK' /\ RecursosTypeOK' /\ ConexionesTypeOK' /\
        LocalesTypeOK'
    BY <1>7 DEF TypeOK, SchedulerTypeOK, RecursosTypeOK, ConexionesTypeOK,
       LocalesTypeOK, InterrAumentaMira, DevuelveCupo
  <2>4. ManoLlena'
    BY <1>7 DEF ManoLlena, TypeOK, SchedulerTypeOK, RecursosTypeOK,
       InterrAumentaMira, DevuelveCupo
  <2>5. ArgumentoValido' /\ IteracionValida'
    BY <1>7 DEF ArgumentoValido, IteracionValida, TypeOK, LocalesTypeOK,
       SchedulerTypeOK, Hilos, HilosFijos, InterrAumentaMira, DevuelveCupo
  <2>6. TurnoUnico'
    BY <1>7 DEF TurnoUnico, ContextoPropio, HandlerConTurno, Uno, TypeOK,
       SemaforosTypeOK, ConexionesTypeOK, Hilos, HilosFijos, OpsDeFin,
       InterrAumentaMira, DevuelveCupo
  <2>7. ContextoPropio'
    BY <1>7 DEF TurnoUnico, ContextoPropio, HandlerConTurno, Uno, TypeOK,
       SemaforosTypeOK, ConexionesTypeOK, Hilos, HilosFijos, OpsDeFin,
       AntesDeSacar, SchedulerTypeOK, InterrAumentaMira, DevuelveCupo
  <2> QED
    BY <2>1, <2>2, <2>3, <2>4, <2>5, <2>6, <2>7 DEF Inductivo, TypeOK
<1>8. CASE InterrAumentaResta
  <2>1. pc' \in [Hilos -> Etiquetas]
    BY <1>8 DEF TypeOK, Etiquetas, InterrAumentaResta, SinTokens
  <2>2. SemaforosTypeOK'
    BY <1>8 DEF TypeOK, Hilos, HilosFijos, SemaforosTypeOK,
       InterrAumentaResta, SinTokens
  <2>3. LocalesTypeOK'
    BY <1>8 DEF TypeOK, Hilos, HilosFijos, LocalesTypeOK, InterrAumentaResta,
       SinTokens, Instruccion, Operaciones
  <2>4. SchedulerTypeOK' /\ RecursosTypeOK' /\ ConexionesTypeOK'
    BY <1>8 DEF TypeOK, SchedulerTypeOK, RecursosTypeOK, ConexionesTypeOK,
       InterrAumentaResta, SinTokens
  <2>5. ManoLlena'
    BY <1>8 DEF ManoLlena, TypeOK, SchedulerTypeOK, RecursosTypeOK,
       InterrAumentaResta, SinTokens
  <2>6. ArgumentoValido' /\ IteracionValida'
    BY <1>8 DEF ArgumentoValido, IteracionValida, TypeOK, LocalesTypeOK,
       SchedulerTypeOK, Hilos, HilosFijos, InterrAumentaResta, SinTokens
  <2>7. TurnoUnico'
    BY <1>8 DEF TurnoUnico, ContextoPropio, HandlerConTurno, Uno, TypeOK,
       SemaforosTypeOK, ConexionesTypeOK, Hilos, HilosFijos, OpsDeFin,
       InterrAumentaResta, SinTokens
  <2>8. ContextoPropio'
    BY <1>8 DEF TurnoUnico, ContextoPropio, HandlerConTurno, Uno, TypeOK,
       SemaforosTypeOK, ConexionesTypeOK, Hilos, HilosFijos, OpsDeFin,
       AntesDeSacar, SchedulerTypeOK, InterrAumentaResta, SinTokens
  <2> QED
    BY <2>1, <2>2, <2>3, <2>4, <2>5, <2>6, <2>7, <2>8 DEF Inductivo,
        TypeOK
<1>9. CASE InterrRecursoInvalido
  <2>1. pc' \in [Hilos -> Etiquetas]
    BY <1>9 DEF TypeOK, Etiquetas, InterrRecursoInvalido
  <2>2. SemaforosTypeOK'
    BY <1>9 DEF TypeOK, Hilos, HilosFijos, SemaforosTypeOK,
       InterrRecursoInvalido
  <2>3. SchedulerTypeOK' /\ RecursosTypeOK' /\ ConexionesTypeOK' /\
        LocalesTypeOK'
    BY <1>9 DEF TypeOK, SchedulerTypeOK, RecursosTypeOK, ConexionesTypeOK,
       LocalesTypeOK, InterrRecursoInvalido
  <2>4. ManoLlena'
    BY <1>9 DEF ManoLlena, TypeOK, SchedulerTypeOK, RecursosTypeOK,
       InterrRecursoInvalido
  <2>5. ArgumentoValido' /\ IteracionValida'
    BY <1>9 DEF ArgumentoValido, IteracionValida, TypeOK, LocalesTypeOK,
       SchedulerTypeOK, Hilos, HilosFijos, InterrRecursoInvalido
  <2>6. TurnoUnico'
    BY <1>9 DEF TurnoUnico, ContextoPropio, HandlerConTurno, Uno, TypeOK,
       SemaforosTypeOK, ConexionesTypeOK, Hilos, HilosFijos, OpsDeFin,
       InterrRecursoInvalido
  <2>7. ContextoPropio'
    BY <1>9 DEF TurnoUnico, ContextoPropio, HandlerConTurno, Uno, TypeOK,
       SemaforosTypeOK, ConexionesTypeOK, Hilos, HilosFijos, OpsDeFin,
       AntesDeSacar, SchedulerTypeOK, InterrRecursoInvalido
  <2> QED
    BY <2>1, <2>2, <2>3, <2>4, <2>5, <2>6, <2>7 DEF Inductivo, TypeOK
<1>10. CASE InterrDesalojaSaca
  <2>1. pc' \in [Hilos -> Etiquetas]
    BY <1>10 DEF TypeOK, Etiquetas, InterrDesalojaSaca, SacaDeExec,
       AvisaEncolado
  <2>2. SemaforosTypeOK'
    BY <1>10 DEF TypeOK, Hilos, HilosFijos, SemaforosTypeOK,
       InterrDesalojaSaca, SacaDeExec, AvisaEncolado
  <2>3. SchedulerTypeOK'
    BY <1>10 DEF TypeOK, Hilos, HilosFijos, SchedulerTypeOK,
       InterrDesalojaSaca, SacaDeExec, AvisaEncolado
  <2>4. RecursosTypeOK' /\ ConexionesTypeOK' /\ LocalesTypeOK'
    BY <1>10 DEF TypeOK, RecursosTypeOK, ConexionesTypeOK, LocalesTypeOK,
       InterrDesalojaSaca, SacaDeExec, AvisaEncolado
  <2>5. ManoLlena'
    BY <1>10 DEF ManoLlena, TypeOK, SchedulerTypeOK, RecursosTypeOK,
       InterrDesalojaSaca, SacaDeExec, AvisaEncolado, ContextoPropio,
       AntesDeSacar
  <2>6. ArgumentoValido' /\ IteracionValida'
    BY <1>10 DEF ArgumentoValido, IteracionValida, TypeOK, LocalesTypeOK,
       SchedulerTypeOK, Hilos, HilosFijos, InterrDesalojaSaca, SacaDeExec,
       AvisaEncolado
  <2>7. TurnoUnico'
    BY <1>10 DEF TurnoUnico, ContextoPropio, HandlerConTurno, Uno, TypeOK,
       SemaforosTypeOK, ConexionesTypeOK, Hilos, HilosFijos, OpsDeFin,
       InterrDesalojaSaca, SacaDeExec, AvisaEncolado
  <2>8. ContextoPropio'
    BY <1>10 DEF TurnoUnico, ContextoPropio, HandlerConTurno, Uno, TypeOK,
       SemaforosTypeOK, ConexionesTypeOK, Hilos, HilosFijos, OpsDeFin,
       AntesDeSacar, SchedulerTypeOK, InterrDesalojaSaca, SacaDeExec,
       AvisaEncolado
  <2> QED
    BY <2>1, <2>2, <2>3, <2>4, <2>5, <2>6, <2>7, <2>8 DEF Inductivo,
        TypeOK
<1>11. CASE InterrDesalojaPone
  <2>1. pc' \in [Hilos -> Etiquetas]
    BY <1>11 DEF TypeOK, Etiquetas, InterrDesalojaPone, Pone, SinTokens
  <2>2. SemaforosTypeOK'
    BY <1>11 DEF TypeOK, Hilos, HilosFijos, SemaforosTypeOK,
       InterrDesalojaPone, Pone, SinTokens
  <2>3. SchedulerTypeOK'
    BY <1>11 DEF TypeOK, Hilos, HilosFijos, SchedulerTypeOK,
       InterrDesalojaPone, Pone, SinTokens, Estados, ManoLlena, Colas
  <2>4. LocalesTypeOK'
    BY <1>11 DEF TypeOK, Hilos, HilosFijos, LocalesTypeOK, InterrDesalojaPone,
       Pone, SinTokens, Instruccion, Operaciones
  <2>5. RecursosTypeOK' /\ ConexionesTypeOK'
    BY <1>11 DEF TypeOK, RecursosTypeOK, ConexionesTypeOK, InterrDesalojaPone,
       Pone, SinTokens
  <2>6. ManoLlena'
    BY <1>11 DEF ManoLlena, TypeOK, SchedulerTypeOK, RecursosTypeOK,
       InterrDesalojaPone, Pone, SinTokens
  <2>7. ArgumentoValido' /\ IteracionValida'
    BY <1>11 DEF ArgumentoValido, IteracionValida, TypeOK, LocalesTypeOK,
       SchedulerTypeOK, Hilos, HilosFijos, InterrDesalojaPone, Pone, SinTokens
  <2>8. TurnoUnico'
    BY <1>11 DEF TurnoUnico, ContextoPropio, HandlerConTurno, Uno, TypeOK,
       SemaforosTypeOK, ConexionesTypeOK, Hilos, HilosFijos, OpsDeFin,
       InterrDesalojaPone, Pone, SinTokens
  <2>9. ContextoPropio'
    BY <1>11 DEF TurnoUnico, ContextoPropio, HandlerConTurno, Uno, TypeOK,
       SemaforosTypeOK, ConexionesTypeOK, Hilos, HilosFijos, OpsDeFin,
       AntesDeSacar, SchedulerTypeOK, InterrDesalojaPone, Pone, SinTokens
  <2> QED
    BY <2>1, <2>2, <2>3, <2>4, <2>5, <2>6, <2>7, <2>8, <2>9 DEF
        Inductivo, TypeOK
<1>12. CASE InterrIO
  <2>1. pc' \in [Hilos -> Etiquetas]
    BY <1>12 DEF TypeOK, Etiquetas, InterrIO
  <2>2. SemaforosTypeOK' /\ SchedulerTypeOK' /\ RecursosTypeOK' /\
        ConexionesTypeOK' /\ LocalesTypeOK'
    BY <1>12 DEF TypeOK, SemaforosTypeOK, SchedulerTypeOK, RecursosTypeOK,
       ConexionesTypeOK, LocalesTypeOK, InterrIO
  <2>3. ManoLlena'
    BY <1>12 DEF ManoLlena, TypeOK, SchedulerTypeOK, RecursosTypeOK, InterrIO
  <2>4. ArgumentoValido' /\ IteracionValida'
    BY <1>12 DEF ArgumentoValido, IteracionValida, TypeOK, LocalesTypeOK,
       SchedulerTypeOK, Hilos, HilosFijos, InterrIO
  <2>5. TurnoUnico'
    BY <1>12 DEF TurnoUnico, ContextoPropio, HandlerConTurno, Uno, TypeOK,
       SemaforosTypeOK, ConexionesTypeOK, Hilos, HilosFijos, OpsDeFin,
       InterrIO
  <2>6. ContextoPropio'
    BY <1>12 DEF TurnoUnico, ContextoPropio, HandlerConTurno, Uno, TypeOK,
       SemaforosTypeOK, ConexionesTypeOK, Hilos, HilosFijos, OpsDeFin,
       AntesDeSacar, SchedulerTypeOK, InterrIO
  <2> QED
    BY <2>1, <2>2, <2>3, <2>4, <2>5, <2>6 DEF Inductivo, TypeOK
<1>13. CASE InterrAgregaInstruccion
  <2>1. pc' \in [Hilos -> Etiquetas]
    BY <1>13 DEF TypeOK, Etiquetas, InterrAgregaInstruccion
  <2>2. SemaforosTypeOK'
    BY <1>13 DEF TypeOK, Hilos, HilosFijos, SemaforosTypeOK,
       InterrAgregaInstruccion
  <2>3. ConexionesTypeOK'
    BY <1>13 DEF TypeOK, Hilos, HilosFijos, ConexionesTypeOK,
       InterrAgregaInstruccion, ContextoPropio, AntesDeSacar, SchedulerTypeOK
  <2>4. SchedulerTypeOK' /\ RecursosTypeOK' /\ LocalesTypeOK'
    BY <1>13 DEF TypeOK, SchedulerTypeOK, RecursosTypeOK, LocalesTypeOK,
       InterrAgregaInstruccion
  <2>5. ManoLlena'
    BY <1>13 DEF ManoLlena, TypeOK, SchedulerTypeOK, RecursosTypeOK,
       InterrAgregaInstruccion
  <2>6. ArgumentoValido' /\ IteracionValida'
    BY <1>13 DEF ArgumentoValido, IteracionValida, TypeOK, LocalesTypeOK,
       SchedulerTypeOK, Hilos, HilosFijos, InterrAgregaInstruccion,
       ConexionesTypeOK, Bloqueados
  <2>7. TurnoUnico'
    BY <1>13 DEF TurnoUnico, ContextoPropio, HandlerConTurno, Uno, TypeOK,
       SemaforosTypeOK, ConexionesTypeOK, Hilos, HilosFijos, OpsDeFin,
       InterrAgregaInstruccion
  <2>8. ContextoPropio'
    BY <1>13 DEF TurnoUnico, ContextoPropio, HandlerConTurno, Uno, TypeOK,
       SemaforosTypeOK, ConexionesTypeOK, Hilos, HilosFijos, OpsDeFin,
       AntesDeSacar, SchedulerTypeOK, InterrAgregaInstruccion
  <2> QED
    BY <2>1, <2>2, <2>3, <2>4, <2>5, <2>6, <2>7, <2>8 DEF Inductivo,
        TypeOK
<1>14. CASE InterrBloqueaSaca
  <2>1. pc' \in [Hilos -> Etiquetas]
    BY <1>14 DEF TypeOK, Etiquetas, InterrBloqueaSaca, SacaDeExec
  <2>2. SchedulerTypeOK'
    BY <1>14 DEF TypeOK, Hilos, HilosFijos, SchedulerTypeOK,
       InterrBloqueaSaca, SacaDeExec
  <2>3. SemaforosTypeOK' /\ RecursosTypeOK' /\ ConexionesTypeOK' /\
        LocalesTypeOK'
    BY <1>14 DEF TypeOK, SemaforosTypeOK, RecursosTypeOK, ConexionesTypeOK,
       LocalesTypeOK, InterrBloqueaSaca, SacaDeExec, LeeNombre, LeeInstruccion
  <2>4. ManoLlena'
    BY <1>14 DEF ManoLlena, TypeOK, SchedulerTypeOK, RecursosTypeOK,
       InterrBloqueaSaca, SacaDeExec, ContextoPropio, AntesDeSacar
  <2>5. ArgumentoValido' /\ IteracionValida'
    BY <1>14 DEF ArgumentoValido, IteracionValida, TypeOK, LocalesTypeOK,
       SchedulerTypeOK, Hilos, HilosFijos, InterrBloqueaSaca, SacaDeExec
  <2>6. TurnoUnico'
    BY <1>14 DEF TurnoUnico, ContextoPropio, HandlerConTurno, Uno, TypeOK,
       SemaforosTypeOK, ConexionesTypeOK, Hilos, HilosFijos, OpsDeFin,
       InterrBloqueaSaca, SacaDeExec
  <2>7. ContextoPropio'
    BY <1>14 DEF TurnoUnico, ContextoPropio, HandlerConTurno, Uno, TypeOK,
       SemaforosTypeOK, ConexionesTypeOK, Hilos, HilosFijos, OpsDeFin,
       AntesDeSacar, SchedulerTypeOK, InterrBloqueaSaca, SacaDeExec
  <2> QED
    BY <2>1, <2>2, <2>3, <2>4, <2>5, <2>6, <2>7 DEF Inductivo, TypeOK
<1>15. CASE InterrBloqueaBusca
  <2>1. pc' \in [Hilos -> Etiquetas]
    BY <1>15 DEF TypeOK, Etiquetas, InterrBloqueaBusca
  <2>2. SchedulerTypeOK'
    BY <1>15 DEF TypeOK, Hilos, HilosFijos, SchedulerTypeOK,
       InterrBloqueaBusca, ArgumentoValido
  <2>3. SemaforosTypeOK' /\ RecursosTypeOK' /\ ConexionesTypeOK' /\
        LocalesTypeOK'
    BY <1>15 DEF TypeOK, SemaforosTypeOK, RecursosTypeOK, ConexionesTypeOK,
       LocalesTypeOK, InterrBloqueaBusca, LeeNombre, LeeInstruccion
  <2>4. ManoLlena'
    BY <1>15 DEF ManoLlena, TypeOK, SchedulerTypeOK, RecursosTypeOK,
       InterrBloqueaBusca
  <2>5. ArgumentoValido' /\ IteracionValida'
    BY <1>15 DEF ArgumentoValido, IteracionValida, TypeOK, LocalesTypeOK,
       SchedulerTypeOK, Hilos, HilosFijos, InterrBloqueaBusca
  <2>6. TurnoUnico'
    BY <1>15 DEF TurnoUnico, ContextoPropio, HandlerConTurno, Uno, TypeOK,
       SemaforosTypeOK, ConexionesTypeOK, Hilos, HilosFijos, OpsDeFin,
       InterrBloqueaBusca
  <2>7. ContextoPropio'
    BY <1>15 DEF TurnoUnico, ContextoPropio, HandlerConTurno, Uno, TypeOK,
       SemaforosTypeOK, ConexionesTypeOK, Hilos, HilosFijos, OpsDeFin,
       AntesDeSacar, SchedulerTypeOK, InterrBloqueaBusca
  <2> QED
    BY <2>1, <2>2, <2>3, <2>4, <2>5, <2>6, <2>7 DEF Inductivo, TypeOK
<1>16. CASE InterrBloqueaPone
  <2>a. SchedulerTypeOK'
    <3>1. mano["interr"] \in Pids
      BY <1>16 DEF InterrBloqueaPone, ManoLlena, Hilos, HilosFijos
    <3>2. tokens.arg \in Colas
      BY <1>16 DEF InterrBloqueaPone, ArgumentoValido, Colas
    <3> QED
      BY <1>16, <3>1, <3>2, PoneTypeOK, PoneEnHuerfanaTypeOK
         DEF InterrBloqueaPone, TypeOK, Hilos, HilosFijos, Estados
  <2>b. caido' \in BOOLEAN
    BY <1>16 DEF InterrBloqueaPone
  <2>c. sem_IO_ejecucion' \in [Interfaz -> Nat]
    <3>1. \/ sem_IO_ejecucion' = [sem_IO_ejecucion EXCEPT ![tokens.arg] = @ + 1]
          \/ sem_IO_ejecucion' = sem_IO_ejecucion
      BY <1>16 DEF InterrBloqueaPone
    <3>2. sem_IO_ejecucion \in [Interfaz -> Nat]
      BY DEF TypeOK, SemaforosTypeOK
    <3> QED
      BY <3>1, <3>2
  <2>1. pc' \in [Hilos -> Etiquetas]
    BY <1>16, <2>a, <2>b, <2>c DEF TypeOK, Etiquetas, InterrBloqueaPone,
       SinTokens
  <2>2. SemaforosTypeOK'
    BY <1>16, <2>a, <2>b, <2>c DEF TypeOK, Hilos, HilosFijos, SemaforosTypeOK,
       InterrBloqueaPone, SinTokens
  <2>3. SchedulerTypeOK'
    BY <2>a
  <2>4. LocalesTypeOK'
    BY <1>16, <2>a, <2>b, <2>c DEF TypeOK, Hilos, HilosFijos, LocalesTypeOK,
       InterrBloqueaPone, SinTokens, Instruccion, Operaciones
  <2>5. RecursosTypeOK' /\ ConexionesTypeOK'
    BY <1>16, <2>a, <2>b, <2>c DEF TypeOK, RecursosTypeOK, ConexionesTypeOK,
       InterrBloqueaPone, SinTokens
  <2>6. ManoLlena'
    BY <1>16, <2>a, <2>b, <2>c DEF ManoLlena, TypeOK, SchedulerTypeOK,
       RecursosTypeOK, InterrBloqueaPone, SinTokens, Pone, PoneEnHuerfana
  <2>7. ArgumentoValido' /\ IteracionValida'
    BY <1>16, <2>a, <2>b, <2>c DEF ArgumentoValido, IteracionValida, TypeOK,
       LocalesTypeOK, SchedulerTypeOK, Hilos, HilosFijos, InterrBloqueaPone,
       SinTokens, Pone, PoneEnHuerfana
  <2>8. TurnoUnico'
    BY <1>16, <2>a, <2>b, <2>c, SMTT(60)
       DEF TurnoUnico, ContextoPropio,
       HandlerConTurno, Uno, TypeOK, SemaforosTypeOK, ConexionesTypeOK, Hilos,
       HilosFijos, OpsDeFin, InterrBloqueaPone, SinTokens
  <2>9. ContextoPropio'
    BY <1>16, <2>a, <2>b, <2>c DEF TurnoUnico, ContextoPropio,
       HandlerConTurno, Uno, TypeOK, SemaforosTypeOK, ConexionesTypeOK, Hilos,
       HilosFijos, OpsDeFin, AntesDeSacar, SchedulerTypeOK, InterrBloqueaPone,
       SinTokens, Pone, PoneEnHuerfana
  <2> QED
    BY <2>1, <2>2, <2>3, <2>4, <2>5, <2>6, <2>7, <2>8, <2>9 DEF
        Inductivo, TypeOK
<1>17. CASE InterrAsigna
  <2>1. pc' \in [Hilos -> Etiquetas]
    BY <1>17 DEF TypeOK, Etiquetas, InterrAsigna, AsignarRecursoAProceso,
       LiberarRecursoDeProceso, SinAsignar
  <2>2. SemaforosTypeOK'
    BY <1>17 DEF TypeOK, Hilos, HilosFijos, SemaforosTypeOK, InterrAsigna,
       AsignarRecursoAProceso, LiberarRecursoDeProceso, SinAsignar
  <2>3. RecursosTypeOK'
    <3>1. tokens.arg \in Recurso /\ proceso_ejecutando \in Pids
      BY <1>17 DEF InterrAsigna, ArgumentoValido, ContextoPropio, AntesDeSacar, TypeOK,
         SchedulerTypeOK
    <3> QED
      BY <1>17, <3>1, AsignarTypeOK, LiberarUnoTypeOK DEF InterrAsigna, TypeOK, recVars, RecursosTypeOK
  <2>4. SchedulerTypeOK' /\ ConexionesTypeOK' /\ LocalesTypeOK'
    BY <1>17 DEF TypeOK, SchedulerTypeOK, ConexionesTypeOK, LocalesTypeOK,
       InterrAsigna, AsignarRecursoAProceso, LiberarRecursoDeProceso,
       SinAsignar
  <2>5. ManoLlena'
    BY <1>17 DEF ManoLlena, TypeOK, SchedulerTypeOK, RecursosTypeOK,
       InterrAsigna, AsignarRecursoAProceso, LiberarRecursoDeProceso,
       SinAsignar
  <2>6. ArgumentoValido' /\ IteracionValida'
    BY <1>17 DEF ArgumentoValido, IteracionValida, TypeOK, LocalesTypeOK,
       SchedulerTypeOK, Hilos, HilosFijos, InterrAsigna,
       AsignarRecursoAProceso, LiberarRecursoDeProceso, SinAsignar
  <2>7. TurnoUnico'
    BY <1>17 DEF TurnoUnico, ContextoPropio, HandlerConTurno, Uno, TypeOK,
       SemaforosTypeOK, ConexionesTypeOK, Hilos, HilosFijos, OpsDeFin,
       InterrAsigna, AsignarRecursoAProceso, LiberarRecursoDeProceso,
       SinAsignar
  <2>8. ContextoPropio'
    BY <1>17 DEF TurnoUnico, ContextoPropio, HandlerConTurno, Uno, TypeOK,
       SemaforosTypeOK, ConexionesTypeOK, Hilos, HilosFijos, OpsDeFin,
       AntesDeSacar, SchedulerTypeOK, InterrAsigna, AsignarRecursoAProceso,
       LiberarRecursoDeProceso, SinAsignar
  <2> QED
    BY <2>1, <2>2, <2>3, <2>4, <2>5, <2>6, <2>7, <2>8 DEF Inductivo,
        TypeOK
<1>18. CASE InterrCarga
  <2>1. pc' \in [Hilos -> Etiquetas]
    BY <1>18 DEF TypeOK, Etiquetas, InterrCarga, CargaRecurso
  <2>2. RecursosTypeOK'
    BY <1>18 DEF TypeOK, Hilos, HilosFijos, RecursosTypeOK, InterrCarga,
       CargaRecurso, ArgumentoValido
  <2>3. SemaforosTypeOK' /\ SchedulerTypeOK' /\ ConexionesTypeOK' /\
        LocalesTypeOK'
    BY <1>18 DEF TypeOK, SemaforosTypeOK, SchedulerTypeOK, ConexionesTypeOK,
       LocalesTypeOK, InterrCarga, CargaRecurso
  <2>4. ManoLlena'
    BY <1>18 DEF ManoLlena, TypeOK, SchedulerTypeOK, RecursosTypeOK,
       InterrCarga, CargaRecurso
  <2>5. ArgumentoValido' /\ IteracionValida'
    BY <1>18 DEF ArgumentoValido, IteracionValida, TypeOK, LocalesTypeOK,
       SchedulerTypeOK, Hilos, HilosFijos, InterrCarga, CargaRecurso
  <2>6. TurnoUnico'
    BY <1>18 DEF TurnoUnico, ContextoPropio, HandlerConTurno, Uno, TypeOK,
       SemaforosTypeOK, ConexionesTypeOK, Hilos, HilosFijos, OpsDeFin,
       InterrCarga, CargaRecurso
  <2>7. ContextoPropio'
    BY <1>18 DEF TurnoUnico, ContextoPropio, HandlerConTurno, Uno, TypeOK,
       SemaforosTypeOK, ConexionesTypeOK, Hilos, HilosFijos, OpsDeFin,
       AntesDeSacar, SchedulerTypeOK, InterrCarga, CargaRecurso
  <2> QED
    BY <2>1, <2>2, <2>3, <2>4, <2>5, <2>6, <2>7 DEF Inductivo, TypeOK
<1>19. CASE InterrGuarda
  <2>1. pc' \in [Hilos -> Etiquetas]
    BY <1>19 DEF TypeOK, Etiquetas, InterrGuarda, GuardaRecurso
  <2>2. RecursosTypeOK'
    <3>1. (IF tokens.op = "WAIT" THEN -1 ELSE 1) \in Int
      OBVIOUS
    <3> QED
      BY <1>19, <3>1, GuardaTypeOK DEF InterrGuarda, TypeOK, Hilos, HilosFijos
  <2>3. SemaforosTypeOK' /\ SchedulerTypeOK' /\ ConexionesTypeOK' /\
        LocalesTypeOK'
    BY <1>19 DEF TypeOK, SemaforosTypeOK, SchedulerTypeOK, ConexionesTypeOK,
       LocalesTypeOK, InterrGuarda, GuardaRecurso
  <2>4. ManoLlena'
    BY <1>19 DEF ManoLlena, TypeOK, SchedulerTypeOK, RecursosTypeOK,
       InterrGuarda, GuardaRecurso
  <2>5. ArgumentoValido' /\ IteracionValida'
    BY <1>19 DEF ArgumentoValido, IteracionValida, TypeOK, LocalesTypeOK,
       SchedulerTypeOK, Hilos, HilosFijos, InterrGuarda, GuardaRecurso
  <2>6. TurnoUnico'
    BY <1>19 DEF TurnoUnico, ContextoPropio, HandlerConTurno, Uno, TypeOK,
       SemaforosTypeOK, ConexionesTypeOK, Hilos, HilosFijos, OpsDeFin,
       InterrGuarda, GuardaRecurso
  <2>7. ContextoPropio'
    BY <1>19 DEF TurnoUnico, ContextoPropio, HandlerConTurno, Uno, TypeOK,
       SemaforosTypeOK, ConexionesTypeOK, Hilos, HilosFijos, OpsDeFin,
       AntesDeSacar, SchedulerTypeOK, InterrGuarda, GuardaRecurso
  <2> QED
    BY <2>1, <2>2, <2>3, <2>4, <2>5, <2>6, <2>7 DEF Inductivo, TypeOK
<1>20. CASE InterrWaitBloquea
  <2>1. pc' \in [Hilos -> Etiquetas]
    BY <1>20 DEF TypeOK, Etiquetas, InterrWaitBloquea
  <2>2. SemaforosTypeOK' /\ SchedulerTypeOK' /\ RecursosTypeOK' /\
        ConexionesTypeOK' /\ LocalesTypeOK'
    BY <1>20 DEF TypeOK, SemaforosTypeOK, SchedulerTypeOK, RecursosTypeOK,
       ConexionesTypeOK, LocalesTypeOK, InterrWaitBloquea
  <2>3. ManoLlena'
    BY <1>20 DEF ManoLlena, TypeOK, SchedulerTypeOK, RecursosTypeOK,
       InterrWaitBloquea
  <2>4. ArgumentoValido' /\ IteracionValida'
    BY <1>20 DEF ArgumentoValido, IteracionValida, TypeOK, LocalesTypeOK,
       SchedulerTypeOK, Hilos, HilosFijos, InterrWaitBloquea, Bloqueados
  <2>5. TurnoUnico'
    BY <1>20 DEF TurnoUnico, ContextoPropio, HandlerConTurno, Uno, TypeOK,
       SemaforosTypeOK, ConexionesTypeOK, Hilos, HilosFijos, OpsDeFin,
       InterrWaitBloquea
  <2>6. ContextoPropio'
    BY <1>20 DEF TurnoUnico, ContextoPropio, HandlerConTurno, Uno, TypeOK,
       SemaforosTypeOK, ConexionesTypeOK, Hilos, HilosFijos, OpsDeFin,
       AntesDeSacar, SchedulerTypeOK, InterrWaitBloquea
  <2> QED
    BY <2>1, <2>2, <2>3, <2>4, <2>5, <2>6 DEF Inductivo, TypeOK
<1>21. CASE InterrSigueEnCPU
  <2>1. pc' \in [Hilos -> Etiquetas]
    BY <1>21 DEF TypeOK, Etiquetas, InterrSigueEnCPU, VuelveALaCPU, SinTokens
  <2>2. SemaforosTypeOK'
    BY <1>21 DEF TypeOK, Hilos, HilosFijos, SemaforosTypeOK, InterrSigueEnCPU,
       VuelveALaCPU, SinTokens
  <2>3. ConexionesTypeOK'
    BY <1>21 DEF TypeOK, Hilos, HilosFijos, ConexionesTypeOK,
       InterrSigueEnCPU, VuelveALaCPU, SinTokens, ContextoPropio,
       AntesDeSacar, SchedulerTypeOK
  <2>4. LocalesTypeOK'
    BY <1>21 DEF TypeOK, Hilos, HilosFijos, LocalesTypeOK, InterrSigueEnCPU,
       VuelveALaCPU, SinTokens, Instruccion, Operaciones
  <2>5. SchedulerTypeOK' /\ RecursosTypeOK'
    BY <1>21 DEF TypeOK, SchedulerTypeOK, RecursosTypeOK, InterrSigueEnCPU,
       VuelveALaCPU, SinTokens
  <2>6. ManoLlena'
    BY <1>21 DEF ManoLlena, TypeOK, SchedulerTypeOK, RecursosTypeOK,
       InterrSigueEnCPU, VuelveALaCPU, SinTokens
  <2>7. ArgumentoValido' /\ IteracionValida'
    BY <1>21 DEF ArgumentoValido, IteracionValida, TypeOK, LocalesTypeOK,
       SchedulerTypeOK, Hilos, HilosFijos, InterrSigueEnCPU, VuelveALaCPU,
       SinTokens
  <2>8. TurnoUnico' /\ ContextoPropio'
    BY <1>21, VuelveConTurno DEF InterrSigueEnCPU
  <2> QED
    BY <2>1, <2>2, <2>3, <2>4, <2>5, <2>6, <2>7, <2>8 DEF Inductivo, TypeOK
<1>22. CASE InterrSignalDespierta
  <2>1. pc' \in [Hilos -> Etiquetas]
    BY <1>22 DEF TypeOK, Etiquetas, InterrSignalDespierta
  <2>2. SemaforosTypeOK' /\ SchedulerTypeOK' /\ RecursosTypeOK' /\
        ConexionesTypeOK' /\ LocalesTypeOK'
    BY <1>22 DEF TypeOK, SemaforosTypeOK, SchedulerTypeOK, RecursosTypeOK,
       ConexionesTypeOK, LocalesTypeOK, InterrSignalDespierta
  <2>3. ManoLlena'
    BY <1>22 DEF ManoLlena, TypeOK, SchedulerTypeOK, RecursosTypeOK,
       InterrSignalDespierta
  <2>4. ArgumentoValido' /\ IteracionValida'
    BY <1>22 DEF ArgumentoValido, IteracionValida, TypeOK, LocalesTypeOK,
       SchedulerTypeOK, Hilos, HilosFijos, InterrSignalDespierta
  <2>5. TurnoUnico'
    BY <1>22 DEF TurnoUnico, ContextoPropio, HandlerConTurno, Uno, TypeOK,
       SemaforosTypeOK, ConexionesTypeOK, Hilos, HilosFijos, OpsDeFin,
       InterrSignalDespierta
  <2>6. ContextoPropio'
    BY <1>22 DEF TurnoUnico, ContextoPropio, HandlerConTurno, Uno, TypeOK,
       SemaforosTypeOK, ConexionesTypeOK, Hilos, HilosFijos, OpsDeFin,
       AntesDeSacar, SchedulerTypeOK, InterrSignalDespierta
  <2> QED
    BY <2>1, <2>2, <2>3, <2>4, <2>5, <2>6 DEF Inductivo, TypeOK
<1>23. CASE InterrSignalSaca
  <2>1. pc' \in [Hilos -> Etiquetas]
    BY <1>23 DEF TypeOK, Etiquetas, InterrSignalSaca, Saca
  <2>2. SchedulerTypeOK'
    BY <1>23 DEF TypeOK, Hilos, HilosFijos, SchedulerTypeOK, InterrSignalSaca,
       Saca, Colas, Bloqueados, ArgumentoValido
  <2>3. SemaforosTypeOK' /\ RecursosTypeOK' /\ ConexionesTypeOK' /\
        LocalesTypeOK'
    BY <1>23 DEF TypeOK, SemaforosTypeOK, RecursosTypeOK, ConexionesTypeOK,
       LocalesTypeOK, InterrSignalSaca, Saca
  <2>4. ManoLlena'
    BY <1>23 DEF ManoLlena, TypeOK, SchedulerTypeOK, RecursosTypeOK,
       InterrSignalSaca, Saca, Colas, Bloqueados, ArgumentoValido
  <2>5. ArgumentoValido' /\ IteracionValida'
    BY <1>23 DEF ArgumentoValido, IteracionValida, TypeOK, LocalesTypeOK,
       SchedulerTypeOK, Hilos, HilosFijos, InterrSignalSaca, Saca
  <2>6. TurnoUnico'
    BY <1>23 DEF TurnoUnico, ContextoPropio, HandlerConTurno, Uno, TypeOK,
       SemaforosTypeOK, ConexionesTypeOK, Hilos, HilosFijos, OpsDeFin,
       InterrSignalSaca, Saca
  <2>7. ContextoPropio'
    BY <1>23 DEF TurnoUnico, ContextoPropio, HandlerConTurno, Uno, TypeOK,
       SemaforosTypeOK, ConexionesTypeOK, Hilos, HilosFijos, OpsDeFin,
       AntesDeSacar, SchedulerTypeOK, InterrSignalSaca, Saca
  <2> QED
    BY <2>1, <2>2, <2>3, <2>4, <2>5, <2>6, <2>7 DEF Inductivo, TypeOK
<1>24. CASE InterrSignalNadie
  <2>1. pc' \in [Hilos -> Etiquetas]
    BY <1>24 DEF TypeOK, Etiquetas, InterrSignalNadie, VuelveALaCPU,
       SinTokens, AvisaEncolado
  <2>2. SemaforosTypeOK'
    BY <1>24 DEF TypeOK, Hilos, HilosFijos, SemaforosTypeOK,
       InterrSignalNadie, VuelveALaCPU, SinTokens, AvisaEncolado
  <2>3. ConexionesTypeOK'
    BY <1>24, SMTT(60)
       DEF TypeOK, Hilos, HilosFijos, ConexionesTypeOK,
       InterrSignalNadie, VuelveALaCPU, SinTokens, AvisaEncolado,
       ContextoPropio, AntesDeSacar, SchedulerTypeOK
  <2>4. LocalesTypeOK'
    BY <1>24 DEF TypeOK, Hilos, HilosFijos, LocalesTypeOK, InterrSignalNadie,
       VuelveALaCPU, SinTokens, AvisaEncolado, Instruccion, Operaciones
  <2>5. SchedulerTypeOK' /\ RecursosTypeOK'
    BY <1>24 DEF TypeOK, SchedulerTypeOK, RecursosTypeOK, InterrSignalNadie,
       VuelveALaCPU, SinTokens, AvisaEncolado
  <2>6. ManoLlena'
    BY <1>24 DEF ManoLlena, TypeOK, SchedulerTypeOK, RecursosTypeOK,
       InterrSignalNadie, VuelveALaCPU, SinTokens, AvisaEncolado
  <2>7. ArgumentoValido' /\ IteracionValida'
    BY <1>24 DEF ArgumentoValido, IteracionValida, TypeOK, LocalesTypeOK,
       SchedulerTypeOK, Hilos, HilosFijos, InterrSignalNadie, VuelveALaCPU,
       SinTokens, AvisaEncolado
  <2>8. TurnoUnico' /\ ContextoPropio'
    BY <1>24, VuelveConTurno DEF InterrSignalNadie
  <2> QED
    BY <2>1, <2>2, <2>3, <2>4, <2>5, <2>6, <2>7, <2>8 DEF Inductivo, TypeOK
<1>25. CASE InterrSignalPone
  <2>1. pc' \in [Hilos -> Etiquetas]
    BY <1>25 DEF TypeOK, Etiquetas, InterrSignalPone, VuelveALaCPU, SinTokens,
       AvisaEncolado, Pone
  <2>2. SemaforosTypeOK'
    BY <1>25 DEF TypeOK, Hilos, HilosFijos, SemaforosTypeOK, InterrSignalPone,
       VuelveALaCPU, SinTokens, AvisaEncolado, Pone
  <2>3. SchedulerTypeOK'
    BY <1>25 DEF TypeOK, Hilos, HilosFijos, SchedulerTypeOK, InterrSignalPone,
       VuelveALaCPU, SinTokens, AvisaEncolado, Pone, Estados, ManoLlena, Colas
  <2>4. ConexionesTypeOK'
    BY <1>25 DEF TypeOK, Hilos, HilosFijos, ConexionesTypeOK,
       InterrSignalPone, VuelveALaCPU, SinTokens, AvisaEncolado, Pone,
       ContextoPropio, AntesDeSacar, SchedulerTypeOK
  <2>5. LocalesTypeOK'
    BY <1>25 DEF TypeOK, Hilos, HilosFijos, LocalesTypeOK, InterrSignalPone,
       VuelveALaCPU, SinTokens, AvisaEncolado, Pone, Instruccion, Operaciones
  <2>6. RecursosTypeOK'
    BY <1>25 DEF TypeOK, RecursosTypeOK, InterrSignalPone, VuelveALaCPU,
       SinTokens, AvisaEncolado, Pone
  <2>7. ManoLlena'
    BY <1>25 DEF ManoLlena, TypeOK, SchedulerTypeOK, RecursosTypeOK,
       InterrSignalPone, VuelveALaCPU, SinTokens, AvisaEncolado, Pone
  <2>8. ArgumentoValido' /\ IteracionValida'
    BY <1>25 DEF ArgumentoValido, IteracionValida, TypeOK, LocalesTypeOK,
       SchedulerTypeOK, Hilos, HilosFijos, InterrSignalPone, VuelveALaCPU,
       SinTokens, AvisaEncolado, Pone
  <2>9. TurnoUnico' /\ ContextoPropio'
    BY <1>25, VuelveConTurno DEF InterrSignalPone, Pone
  <2> QED
    BY <2>1, <2>2, <2>3, <2>4, <2>5, <2>6, <2>7, <2>8, <2>9 DEF Inductivo, TypeOK
<1>26. CASE InterrLibera
  BY <1>26, LiberarInductivo DEF InterrLibera, Inductivo, Hilos, HilosFijos
<1> QED
  BY <1>1, <1>2, <1>3, <1>4, <1>5, <1>6, <1>7, <1>8, <1>9, <1>10,
      <1>11, <1>12, <1>13, <1>14, <1>15, <1>16, <1>17, <1>18, <1>19, <1>20,
      <1>21, <1>22, <1>23, <1>24, <1>25, <1>26 DEF Interr

-----------------------------------------------------------------------------
(* Where the processes are.                                                *)

(* Lists. *)

\* list_pop of a list without repetitions.
LEMMA TailLista ==
  ASSUME NEW S, NEW s \in Seq(S), s # << >>, IsInjective(s)
  PROVE /\ IsInjective(Tail(s))
        /\ Contains(s, Head(s))
        /\ \A p : Contains(Tail(s), p) <=> Contains(s, p) /\ p # Head(s)
<1>1. /\ Len(Tail(s)) = Len(s) - 1 /\ Len(s) \in Nat /\ Len(s) > 0
      /\ \A k \in 1 .. Len(Tail(s)) : Tail(s)[k] = s[k + 1]
      /\ Head(s) = s[1] /\ DOMAIN s = 1 .. Len(s)
      /\ DOMAIN Tail(s) = 1 .. Len(Tail(s))
  OBVIOUS
<1>2. IsInjective(Tail(s))
  BY <1>1 DEF IsInjective
<1>3. Contains(s, Head(s))
  BY <1>1 DEF Contains
<1>4. ASSUME NEW p, Contains(Tail(s), p)
      PROVE  Contains(s, p) /\ p # Head(s)
  BY <1>1, <1>4 DEF Contains, IsInjective
<1>5. ASSUME NEW p, Contains(s, p), p # Head(s)
      PROVE  Contains(Tail(s), p)
  <2>1. PICK k \in 1 .. Len(s) : s[k] = p
    BY <1>5 DEF Contains
  <2>2. k - 1 \in 1 .. Len(Tail(s)) /\ Tail(s)[k - 1] = p
    BY <2>1, <1>1, <1>5
  <2> QED
    BY <2>2 DEF Contains
<1> QED
  BY <1>2, <1>3, <1>4, <1>5

\* list_push of a process that is not in the list.
LEMMA AppendLista ==
  ASSUME NEW S, NEW s \in Seq(S), NEW x \in S
  PROVE /\ IsInjective(s) /\ ~ Contains(s, x) => IsInjective(Append(s, x))
        /\ \A p : Contains(Append(s, x), p) <=> Contains(s, p) \/ p = x
<1>1. /\ Len(Append(s, x)) = Len(s) + 1 /\ Len(s) \in Nat
      /\ \A k \in 1 .. Len(s) : Append(s, x)[k] = s[k]
      /\ Append(s, x)[Len(s) + 1] = x /\ DOMAIN s = 1 .. Len(s)
      /\ DOMAIN Append(s, x) = 1 .. Len(Append(s, x))
  OBVIOUS
<1>2. IsInjective(s) /\ ~ Contains(s, x) => IsInjective(Append(s, x))
  BY <1>1 DEF IsInjective, Contains
<1>3. ASSUME NEW p
      PROVE  Contains(Append(s, x), p) <=> Contains(s, p) \/ p = x
  BY <1>1 DEF Contains
<1> QED
  BY <1>2, <1>3

\* list_remove_by_condition and the list_pop after it: what is left was there.
LEMMA QuitaYSacaLista ==
  ASSUME NEW S, NEW s \in Seq(S), NEW e, Contains(s, e), IsInjective(s)
  PROVE /\ IsInjective(QuitaYSaca(s, e))
        /\ \A p : Contains(QuitaYSaca(s, e), p) => Contains(s, p) /\ p # e
<1> DEFINE k == Posicion(s, e)
           t == RemoveAt(s, k)
<1>1. k \in 1 .. Len(s) /\ s[k] = e
  BY DEF Contains, Posicion
<1>2. \A i \in 1 .. Len(s) : s[i] \in S
  BY ElementOfSeq
<1> HIDE DEF k
<1> DEFINE u == SubSeq(s, 1, k - 1)
           v == SubSeq(s, k + 1, Len(s))
<1>3. /\ u \in Seq(S) /\ v \in Seq(S)
      /\ Len(u) = k - 1 /\ Len(v) = Len(s) - k
      /\ \A i \in 1 .. k - 1 : u[i] = s[i]
      /\ \A i \in 1 .. Len(s) - k : v[i] = s[k + i]
  BY <1>1, <1>2, SubSeqProperties, LenProperties
<1>4. /\ t \in Seq(S) /\ Len(t) = Len(s) - 1
      /\ \A i \in 1 .. Len(t) : t[i] = s[IF i < k THEN i ELSE i + 1]
  <2>1. t = u \o v
    BY DEF RemoveAt
  <2> HIDE DEF u, v, t
  <2>2. /\ u \o v \in Seq(S) /\ Len(u \o v) = Len(u) + Len(v)
        /\ \A i \in 1 .. Len(u) + Len(v) :
              (u \o v)[i] = IF i <= Len(u) THEN u[i] ELSE v[i - Len(u)]
    <3>1. u \in Seq(S) /\ v \in Seq(S)
      BY <1>3
    <3> QED
      BY <3>1, ConcatProperties, Zenon
  <2>3. Len(s) \in Nat /\ Len(u) + Len(v) = Len(s) - 1
    <3> DEFINE n == Len(s)
               a == Len(u)
               b == Len(v)
    <3>1. n \in Nat /\ k \in 1 .. n
      BY <1>1, LenProperties
    <3>2. a = k - 1 /\ b = n - k
      BY <1>3
    <3> HIDE DEF n, a, b
    <3>3. n \in Nat /\ a + b = n - 1
      BY <3>1, <3>2
    <3> QED
      BY <3>3 DEF n, a, b
  <2>4. ASSUME NEW i \in 1 .. Len(s) - 1
        PROVE  t[i] = s[IF i < k THEN i ELSE i + 1]
    <3>1. CASE i < k
      BY <3>1, <1>1, <1>3, <2>1, <2>2, <2>3
    <3>2. CASE ~ (i < k)
      <4>1. i - Len(u) \in 1 .. Len(s) - k /\ k + (i - Len(u)) = i + 1
        BY <3>2, <1>1, <1>3, <2>3
      <4>2. t[i] = v[i - Len(u)]
        BY <3>2, <1>1, <1>3, <2>1, <2>2, <2>3
      <4> QED
        BY <3>2, <4>1, <4>2, <1>3
    <3> QED
      BY <3>1, <3>2
  <2> QED
    BY <2>1, <2>2, <2>3, <2>4
<1> HIDE DEF t
<1>5. /\ DOMAIN s = 1 .. Len(s) /\ DOMAIN t = 1 .. Len(t)
      /\ Len(s) \in Nat /\ Len(t) \in Nat
  BY <1>4
<1>6. IsInjective(t)
  BY <1>1, <1>4, <1>5 DEF IsInjective
<1>7. ASSUME NEW p, Contains(t, p)
      PROVE  Contains(s, p) /\ p # e
  <2>1. PICK i \in 1 .. Len(t) : t[i] = p
    BY <1>7 DEF Contains
  <2>2. PICK j \in 1 .. Len(s) : j # k /\ s[j] = p
    BY <2>1, <1>1, <1>4, <1>5
  <2> QED
    BY <2>2, <1>1, <1>5 DEF Contains, IsInjective
<1>8. QuitaYSaca(s, e) = IF t = << >> THEN t ELSE Tail(t)
  BY DEF QuitaYSaca, SinPrimero, t, k
<1>9. CASE t = << >>
  BY <1>6, <1>7, <1>8, <1>9
<1>10. CASE t # << >>
  BY <1>4, <1>6, <1>7, <1>8, <1>10, TailLista
<1> QED
  BY <1>9, <1>10

(* Moves. *)

\* A place is a list, the hands of a thread or EXEC.
LEMMA CadaSitio ==
  ASSUME NEW l \in Sitios
  PROVE  \/ \E q \in Colas : l = << "cola", q >>
         \/ \E i \in Interfaz : l = << "huerfana", i >>
         \/ \E h \in Hilos : l = << "mano", h >>
         \/ l = << "exec", "exec" >>
BY DEF Sitios

\* And each of those is a place.
LEMMA SonSitios ==
  /\ \A q \in Colas : << "cola", q >> \in Sitios
  /\ \A i \in Interfaz : << "huerfana", i >> \in Sitios
  /\ \A h \in Hilos : << "mano", h >> \in Sitios
  /\ << "exec", "exec" >> \in Sitios
BY DEF Sitios

\* What a step has to do with each variable of scheduler.c to move x from a
\* to b.
LEMMA MuevePorPartes ==
  ASSUME NEW x, NEW a, NEW b,
         \A p \in Pids :
           /\ \A q \in Colas : Contains(colas'[q], p) <=>
                \/ Contains(colas[q], p) /\ ~ (p = x /\ a = << "cola", q >>)
                \/ p = x /\ b = << "cola", q >>
           /\ \A i \in Interfaz : Contains(huerfana'[i], p) <=>
                \/ Contains(huerfana[i], p) /\ ~ (p = x /\ a = << "huerfana", i >>)
                \/ p = x /\ b = << "huerfana", i >>
           /\ \A h \in Hilos : mano'[h] = p <=>
                \/ mano[h] = p /\ ~ (p = x /\ a = << "mano", h >>)
                \/ p = x /\ b = << "mano", h >>
           /\ proceso_ejecutando' = p <=>
                \/ proceso_ejecutando = p /\ ~ (p = x /\ a = << "exec", "exec" >>)
                \/ p = x /\ b = << "exec", "exec" >>
  PROVE  Mueve(x, a, b)
<1> SUFFICES ASSUME NEW p \in Pids, NEW l \in Sitios
             PROVE  Esta(p, l)' <=> (Esta(p, l) /\ ~ (p = x /\ l = a))
                                        \/ (p = x /\ l = b)
  BY DEF Mueve
<1>1. CASE \E q \in Colas : l = << "cola", q >>
  BY <1>1 DEF Esta
<1>2. CASE \E i \in Interfaz : l = << "huerfana", i >>
  BY <1>2 DEF Esta
<1>3. CASE \E h \in Hilos : l = << "mano", h >>
  BY <1>3 DEF Esta
<1>4. CASE l = << "exec", "exec" >>
  BY <1>4 DEF Esta
<1> QED
  BY <1>1, <1>2, <1>3, <1>4, CadaSitio

\* cola_X_pop: the first half of a move.
LEMMA SacaMueve ==
  ASSUME SchedulerTypeOK, SinRepetidos, NEW h \in Hilos, mano[h] = Nadie,
         NEW q \in Colas, Saca(h, q)
  PROVE  /\ mano'[h] \in Pids /\ Esta(mano'[h], << "cola", q >>)
         /\ Mueve(mano'[h], << "cola", q >>, << "mano", h >>)
         /\ SinRepetidos'
<1> DEFINE x == Head(colas[q])
<1>1. /\ colas' = [colas EXCEPT ![q] = Tail(colas[q])]
      /\ mano' = [mano EXCEPT ![h] = x] /\ colas[q] # << >>
      /\ UNCHANGED << huerfana, proceso_ejecutando >>
  BY DEF Saca
<1>2. colas[q] \in Seq(Pids) /\ x \in Pids /\ mano'[h] = x
  BY <1>1 DEF SchedulerTypeOK
<1>3. /\ IsInjective(Tail(colas[q])) /\ Contains(colas[q], x)
      /\ \A p : Contains(Tail(colas[q]), p) <=> Contains(colas[q], p) /\ p # x
  BY <1>1, <1>2, TailLista DEF SinRepetidos
<1> HIDE DEF x
<1>4. SinRepetidos'
  BY <1>1, <1>3 DEF SinRepetidos, SchedulerTypeOK
<1>5. \A r \in Colas : colas'[r] = IF r = q THEN Tail(colas[q]) ELSE colas[r]
  BY <1>1 DEF SchedulerTypeOK
<1>6. \A g \in Hilos : mano'[g] = IF g = h THEN x ELSE mano[g]
  BY <1>1 DEF SchedulerTypeOK
<1>7. Nadie \notin Pids
  BY DEF Nadie, Pids
<1>8. Mueve(x, << "cola", q >>, << "mano", h >>)
  BY <1>1, <1>3, <1>5, <1>6, <1>7, MuevePorPartes
<1> QED
  BY <1>2, <1>3, <1>4, <1>8 DEF Esta

\* cola_X_push: the second half.
LEMMA PoneMueve ==
  ASSUME SchedulerTypeOK, SinRepetidos, UnSitio, NEW h \in Hilos,
         mano[h] \in Pids, NEW q \in Colas, NEW e, Pone(h, q, e)
  PROVE  /\ Esta(mano[h], << "mano", h >>)
         /\ Mueve(mano[h], << "mano", h >>, << "cola", q >>)
         /\ SinRepetidos'
<1> DEFINE x == mano[h]
<1>1. /\ colas' = [colas EXCEPT ![q] = Append(colas[q], x)]
      /\ mano' = [mano EXCEPT ![h] = Nadie]
      /\ UNCHANGED << huerfana, proceso_ejecutando >>
  BY DEF Pone
<1>2. colas[q] \in Seq(Pids) /\ x \in Pids
  BY DEF SchedulerTypeOK
<1>3. Esta(x, << "mano", h >>)
  BY DEF Esta
<1>4. ~ Contains(colas[q], x)
  <2>1. << "cola", q >> # << "mano", h >>
    OBVIOUS
  <2>2. ~ Esta(x, << "cola", q >>)
    BY <1>2, <1>3, <2>1, SonSitios DEF UnSitio
  <2> QED
    BY <2>2 DEF Esta
<1>5. /\ IsInjective(Append(colas[q], x))
      /\ \A p : Contains(Append(colas[q], x), p) <=> Contains(colas[q], p) \/ p = x
  BY <1>2, <1>4, AppendLista DEF SinRepetidos
<1>6. \A r \in Colas : colas'[r] = IF r = q THEN Append(colas[q], x) ELSE colas[r]
  BY <1>1 DEF SchedulerTypeOK
<1>7. \A g \in Hilos : mano'[g] = IF g = h THEN Nadie ELSE mano[g]
  BY <1>1 DEF SchedulerTypeOK
<1>8. SinRepetidos'
  BY <1>1, <1>5, <1>6 DEF SinRepetidos
<1>9. Nadie \notin Pids /\ x = mano[h]
  BY DEF Nadie, Pids
<1> HIDE DEF x
<1>10. Mueve(x, << "mano", h >>, << "cola", q >>)
  BY <1>1, <1>5, <1>6, <1>7, <1>9, MuevePorPartes
<1> QED
  BY <1>3, <1>8, <1>10 DEF x

\* The push to a list that is no longer in colas_blocked.
LEMMA PoneEnHuerfanaMueve ==
  ASSUME SchedulerTypeOK, SinRepetidos, UnSitio, NEW h \in Hilos,
         mano[h] \in Pids, NEW i \in Interfaz, NEW e, PoneEnHuerfana(h, i, e)
  PROVE  /\ Esta(mano[h], << "mano", h >>)
         /\ Mueve(mano[h], << "mano", h >>, << "huerfana", i >>)
         /\ SinRepetidos'
<1> DEFINE x == mano[h]
<1>1. /\ huerfana' = [huerfana EXCEPT ![i] = Append(huerfana[i], x)]
      /\ mano' = [mano EXCEPT ![h] = Nadie]
      /\ UNCHANGED << colas, proceso_ejecutando >>
  BY DEF PoneEnHuerfana
<1>2. huerfana[i] \in Seq(Pids) /\ x \in Pids
  BY DEF SchedulerTypeOK
<1>3. Esta(x, << "mano", h >>)
  BY DEF Esta
<1>4. ~ Contains(huerfana[i], x)
  <2>1. << "huerfana", i >> # << "mano", h >>
    OBVIOUS
  <2>2. ~ Esta(x, << "huerfana", i >>)
    BY <1>2, <1>3, <2>1, SonSitios DEF UnSitio
  <2> QED
    BY <2>2 DEF Esta
<1>5. /\ IsInjective(Append(huerfana[i], x))
      /\ \A p : Contains(Append(huerfana[i], x), p) <=>
                    Contains(huerfana[i], p) \/ p = x
  BY <1>2, <1>4, AppendLista DEF SinRepetidos
<1>6. \A g \in Interfaz :
         huerfana'[g] = IF g = i THEN Append(huerfana[i], x) ELSE huerfana[g]
  BY <1>1 DEF SchedulerTypeOK
<1>7. \A g \in Hilos : mano'[g] = IF g = h THEN Nadie ELSE mano[g]
  BY <1>1 DEF SchedulerTypeOK
<1>8. SinRepetidos'
  BY <1>1, <1>5, <1>6 DEF SinRepetidos
<1>9. Nadie \notin Pids /\ x = mano[h]
  BY DEF Nadie, Pids
<1> HIDE DEF x
<1>10. Mueve(x, << "mano", h >>, << "huerfana", i >>)
  BY <1>1, <1>5, <1>6, <1>7, <1>9, MuevePorPartes
<1> QED
  BY <1>3, <1>8, <1>10 DEF x

\* The pop from EXEC and the dispatch.
LEMMA ExecMueve ==
  ASSUME SchedulerTypeOK, SinRepetidos, NEW h \in Hilos
  PROVE  /\ mano[h] = Nadie /\ proceso_ejecutando # Nadie /\ SacaDeExec(h) =>
              /\ Esta(proceso_ejecutando, << "exec", "exec" >>)
              /\ Mueve(proceso_ejecutando, << "exec", "exec" >>, << "mano", h >>)
              /\ SinRepetidos'
         /\ mano[h] \in Pids /\ proceso_ejecutando = Nadie /\ PoneEnExec(h) =>
              /\ Esta(mano[h], << "mano", h >>)
              /\ Mueve(mano[h], << "mano", h >>, << "exec", "exec" >>)
              /\ SinRepetidos'
<1>0. Nadie \notin Pids
  BY DEF Nadie, Pids
<1>1. ASSUME mano[h] = Nadie, proceso_ejecutando # Nadie, SacaDeExec(h)
      PROVE  /\ Esta(proceso_ejecutando, << "exec", "exec" >>)
             /\ Mueve(proceso_ejecutando, << "exec", "exec" >>, << "mano", h >>)
             /\ SinRepetidos'
  <2>1. /\ \A g \in Hilos :
              mano'[g] = IF g = h THEN proceso_ejecutando ELSE mano[g]
        /\ proceso_ejecutando' = Nadie /\ UNCHANGED << colas, huerfana >>
    BY <1>1 DEF SacaDeExec, SchedulerTypeOK
  <2>2. Mueve(proceso_ejecutando, << "exec", "exec" >>, << "mano", h >>)
    BY <1>0, <1>1, <2>1, MuevePorPartes
  <2> QED
    BY <2>1, <2>2 DEF SinRepetidos, Esta
<1>2. ASSUME mano[h] \in Pids, proceso_ejecutando = Nadie, PoneEnExec(h)
      PROVE  /\ Esta(mano[h], << "mano", h >>)
             /\ Mueve(mano[h], << "mano", h >>, << "exec", "exec" >>)
             /\ SinRepetidos'
  <2>1. /\ \A g \in Hilos : mano'[g] = IF g = h THEN Nadie ELSE mano[g]
        /\ proceso_ejecutando' = mano[h] /\ UNCHANGED << colas, huerfana >>
    BY <1>2 DEF PoneEnExec, SchedulerTypeOK
  <2>2. Mueve(mano[h], << "mano", h >>, << "exec", "exec" >>)
    BY <1>0, <1>2, <2>1, MuevePorPartes
  <2> QED
    BY <2>1, <2>2 DEF SinRepetidos, Esta
<1> QED
  BY <1>1, <1>2

(* What a move keeps. *)

\* One process moves, some may be lost: no other gets a place or an estado.
LEMMA PasaUbicacion ==
  ASSUME Ubicacion, NEW x \in Pids, NEW a, NEW b,
         \A l \in Sitios : Esta(x, l) => l = a,
         \A p \in Pids, l \in Sitios :
            Esta(p, l)' => (Esta(p, l) /\ ~ (p = x /\ l = a)) \/ (p = x /\ l = b),
         x \in Creados', Creados \subseteq Creados',
         \A p \in Pids \ {x} : estado'[p] = estado[p],
         estado'[x] = "NEW" <=> EsNuevo(b)',
         \A p \in Pids \ {x}, l \in Sitios :
            Esta(p, l) => (EsNuevo(l)' <=> EsNuevo(l))
  PROVE  UnSitio' /\ SinCrear' /\ EstadoNuevo'
<1>1. UnSitio'
  BY DEF Ubicacion, UnSitio
<1>2. EstadoNuevo'
  BY DEF Ubicacion, EstadoNuevo
<1>3. SinCrear'
  BY DEF Ubicacion, SinCrear, Ubicado
<1> QED
  BY <1>1, <1>2, <1>3

\* The same when the process is where it is moved from and none is lost.
LEMMA MueveUbicacion ==
  ASSUME Ubicacion, NEW x \in Pids, NEW a \in Sitios, NEW b,
         Esta(x, a), Mueve(x, a, b), b \in Sitios,
         UNCHANGED numero_de_procesos,
         \A p \in Pids \ {x} : estado'[p] = estado[p],
         estado'[x] = "NEW" <=> EsNuevo(b)',
         \A p \in Pids \ {x}, l \in Sitios :
            Esta(p, l) => (EsNuevo(l)' <=> EsNuevo(l))
  PROVE  UnSitio' /\ SinCrear' /\ EstadoNuevo' /\ NadieSePierde
<1>1. \A l \in Sitios : Esta(x, l) => l = a
  BY DEF Ubicacion, UnSitio
<1>2. x \in Creados
  BY DEF Ubicacion, SinCrear, Ubicado
<1>3. Creados' = Creados
  BY DEF Creados
<1>4. \A p \in Pids, l \in Sitios :
        Esta(p, l)' => (Esta(p, l) /\ ~ (p = x /\ l = a)) \/ (p = x /\ l = b)
  BY DEF Mueve
<1>5. NadieSePierde
  BY DEF Mueve, NadieSePierde, Ubicado
<1> QED
  BY <1>1, <1>2, <1>3, <1>4, <1>5, PasaUbicacion

\* The hands of a thread that is not at a push are empty.
LEMMA SinMano ==
  ASSUME Ubicacion, SchedulerTypeOK, ManoLlena
  PROVE  \A h \in Hilos : /\ mano[h] = Nadie <=> pc[h] \notin ConMano
                          /\ mano[h] \in Pids <=> pc[h] \in ConMano
BY DEF Ubicacion, ManoJusta, SchedulerTypeOK, ManoLlena, Nadie, Pids

LEMMA SacaUbicacion ==
  ASSUME Ubicacion, SchedulerTypeOK, ManoLlena, pc \in [Hilos -> Etiquetas],
         NEW h \in Hilos, NEW q \in Colas, Saca(h, q), pc[h] \notin ConMano,
         NEW m \in ConMano \ (EnExit \cup {"a_new"}), Sigue(h, m),
         q = "new" <=> h = "largo",
         UNCHANGED << numero_de_procesos, pid_a_finalizar >>
  PROVE  Ubicacion' /\ NadieSePierde
<1>1. /\ mano'[h] \in Pids /\ Esta(mano'[h], << "cola", q >>)
      /\ Mueve(mano'[h], << "cola", q >>, << "mano", h >>) /\ SinRepetidos'
  BY SacaMueve, SinMano DEF Ubicacion
<1>2. /\ estado' = estado /\ pc'[h] = m
      /\ \A g \in Hilos \ {h} : pc'[g] = pc[g] /\ mano'[g] = mano[g]
  BY DEF Saca, SchedulerTypeOK
<1>3. EsNuevo(<< "mano", h >>)' <=> h = "largo"
  BY <1>2 DEF EsNuevo, EnExit
<1>4. EsNuevo(<< "cola", q >>) <=> q = "new"
  BY DEF EsNuevo
<1>5. estado'[mano'[h]] = "NEW" <=> EsNuevo(<< "mano", h >>)'
  BY <1>1, <1>2, <1>3, <1>4, SonSitios DEF Ubicacion, EstadoNuevo
<1>6. ASSUME NEW p \in Pids, NEW l \in Sitios, Esta(p, l)
      PROVE  EsNuevo(l)' <=> EsNuevo(l)
  <2>1. CASE h = "consola" /\ l = << "mano", "consola" >>
    <3>1. mano["consola"] = p
      BY <1>6, <2>1 DEF Esta
    <3> QED
      BY <2>1, <3>1, SinMano
  <2>2. CASE ~ (h = "consola" /\ l = << "mano", "consola" >>)
    BY <1>2, <2>2 DEF EsNuevo, Hilos, HilosFijos
  <2> QED
    BY <2>1, <2>2
<1>7. UnSitio' /\ SinCrear' /\ EstadoNuevo' /\ NadieSePierde
  BY <1>1, <1>2, <1>5, <1>6, SonSitios, MueveUbicacion
<1>8. ManoJusta'
  BY <1>2 DEF Ubicacion, ManoJusta, Hilos, HilosFijos, EnExit
<1> QED
  BY <1>1, <1>7, <1>8 DEF Ubicacion

\* The thread that pushed goes on with empty hands; the console may wake up
\* the long term scheduler.
LEMMA PoneUbicacion ==
  ASSUME Ubicacion, SchedulerTypeOK, ManoLlena, pc \in [Hilos -> Etiquetas],
         NEW h \in Hilos, NEW q \in Colas, NEW e, pc[h] \in ConMano,
         Pone(h, q, e), e = "NEW" <=> q = "new",
         \A g \in Hilos \ {h} : pc'[g] = pc[g] \/ (g = "largo" /\ pc[g] \notin ConMano),
         h = "consola" => pc'[h] \notin EnExit \cup {"a_new"},
         UNCHANGED << numero_de_procesos, pid_a_finalizar >>
  PROVE  Ubicacion' /\ NadieSePierde
<1>1. /\ mano[h] \in Pids /\ Esta(mano[h], << "mano", h >>)
      /\ Mueve(mano[h], << "mano", h >>, << "cola", q >>) /\ SinRepetidos'
  BY PoneMueve, SinMano DEF Ubicacion
<1>2. /\ estado' = [estado EXCEPT ![mano[h]] = e]
      /\ mano'[h] = Nadie /\ \A g \in Hilos \ {h} : mano'[g] = mano[g]
  BY DEF Pone, SchedulerTypeOK
<1>3. EsNuevo(<< "cola", q >>)' <=> q = "new"
  BY DEF EsNuevo
<1>4. ASSUME NEW p \in Pids \ {mano[h]}, NEW l \in Sitios, Esta(p, l)
      PROVE  EsNuevo(l)' <=> EsNuevo(l)
  <2>1. CASE h = "consola" /\ l = << "mano", "consola" >>
    BY <1>4, <2>1 DEF Esta
  <2>2. CASE ~ (h = "consola" /\ l = << "mano", "consola" >>)
    BY <2>2 DEF EsNuevo, Hilos, HilosFijos
  <2> QED
    BY <2>1, <2>2
<1>5. UnSitio' /\ SinCrear' /\ EstadoNuevo' /\ NadieSePierde
  <2>1. estado'[mano[h]] = e /\ \A p \in Pids \ {mano[h]} : estado'[p] = estado[p]
    BY <1>1, <1>2 DEF SchedulerTypeOK
  <2> QED
    BY <1>1, <1>3, <1>4, <2>1, SonSitios, MueveUbicacion
<1>6. ManoJusta'
  BY <1>2 DEF Ubicacion, ManoJusta, Hilos, HilosFijos
<1> QED
  BY <1>1, <1>5, <1>6 DEF Ubicacion

\* The handler and the dispatcher take a process from EXEC and put one there.
LEMMA ExecUbicacion ==
  ASSUME Ubicacion, SchedulerTypeOK, ManoLlena, pc \in [Hilos -> Etiquetas],
         NEW h \in Hilos \ {"consola", "largo"}, NEW m, Sigue(h, m),
         \/ /\ SacaDeExec(h) /\ proceso_ejecutando # Nadie
            /\ pc[h] \notin ConMano /\ m \in ConMano
         \/ /\ PoneEnExec(h) /\ proceso_ejecutando = Nadie
            /\ pc[h] \in ConMano,
         UNCHANGED << numero_de_procesos, pid_a_finalizar >>
  PROVE  Ubicacion' /\ NadieSePierde
<1>1. pc'["consola"] = pc["consola"] /\ pc'[h] = m
  BY DEF Hilos, HilosFijos
<1>2. /\ \A l : EsNuevo(l)' <=> EsNuevo(l)
      /\ ~ EsNuevo(<< "exec", "exec" >>) /\ ~ EsNuevo(<< "mano", h >>)
  BY <1>1 DEF EsNuevo
<1>3. ManoJusta'
  BY <1>1 DEF Ubicacion, ManoJusta, SacaDeExec, PoneEnExec, SchedulerTypeOK,
         Hilos, HilosFijos
<1>4. CASE /\ SacaDeExec(h) /\ proceso_ejecutando # Nadie
           /\ pc[h] \notin ConMano
  <2>1. /\ proceso_ejecutando \in Pids
        /\ Esta(proceso_ejecutando, << "exec", "exec" >>)
        /\ Mueve(proceso_ejecutando, << "exec", "exec" >>, << "mano", h >>)
        /\ SinRepetidos'
    BY <1>4, ExecMueve, SinMano DEF Ubicacion, SchedulerTypeOK
  <2>2. estado' = estado /\ estado[proceso_ejecutando] # "NEW"
    BY <1>2, <1>4, <2>1, SonSitios DEF SacaDeExec, Ubicacion, EstadoNuevo
  <2>3. UnSitio' /\ SinCrear' /\ EstadoNuevo' /\ NadieSePierde
    BY <1>2, <2>1, <2>2, SonSitios, MueveUbicacion
  <2> QED
    BY <1>3, <2>1, <2>3 DEF Ubicacion
<1>5. CASE /\ PoneEnExec(h) /\ proceso_ejecutando = Nadie
           /\ pc[h] \in ConMano
  <2>1. /\ mano[h] \in Pids /\ Esta(mano[h], << "mano", h >>)
        /\ Mueve(mano[h], << "mano", h >>, << "exec", "exec" >>)
        /\ SinRepetidos'
    BY <1>5, ExecMueve, SinMano DEF Ubicacion
  <2>2. /\ estado'[mano[h]] = "EXEC"
        /\ \A p \in Pids \ {mano[h]} : estado'[p] = estado[p]
    BY <1>5, <2>1 DEF PoneEnExec, SchedulerTypeOK
  <2>3. UnSitio' /\ SinCrear' /\ EstadoNuevo' /\ NadieSePierde
    BY <1>2, <2>1, <2>2, SonSitios, MueveUbicacion
  <2> QED
    BY <1>3, <2>1, <2>3 DEF Ubicacion
<1> QED
  BY <1>4, <1>5

\* Nobody moves.
LEMMA QuietoUbicacion ==
  ASSUME Ubicacion, SchedulerTypeOK, ManoLlena,
         UNCHANGED << colas, huerfana, mano, proceso_ejecutando,
                      numero_de_procesos >>,
         \A p \in Pids : estado'[p] = "NEW" <=> estado[p] = "NEW",
         \A h \in Hilos : \/ pc'[h] = pc[h] \/ pc[h] \notin ConMano
                          \/ h # "consola" /\ pc'[h] \in ConMano,
         pc'["consola"] \in EnExit =>
            pid_a_finalizar' = pid_a_finalizar /\ pc'["consola"] = pc["consola"]
  PROVE  Ubicacion' /\ NadieSePierde
<1>1. \A p, l : Esta(p, l)' <=> Esta(p, l)
  BY DEF Esta
<1>2. ASSUME NEW p \in Pids, NEW l \in Sitios, Esta(p, l)
      PROVE  EsNuevo(l)' <=> EsNuevo(l)
  <2>1. CASE l = << "mano", "consola" >>
    <3>1. mano["consola"] = p
      BY <1>2, <2>1 DEF Esta
    <3>2. pc["consola"] \in ConMano
      BY <3>1, SinMano DEF Hilos, HilosFijos
    <3> QED
      BY <2>1, <3>2 DEF EsNuevo, Hilos, HilosFijos
  <2>2. CASE l # << "mano", "consola" >>
    BY <2>2 DEF EsNuevo
  <2> QED
    BY <2>1, <2>2
<1>3. SinRepetidos' /\ UnSitio' /\ SinCrear'
  BY <1>1 DEF Ubicacion, SinRepetidos, UnSitio, SinCrear, Ubicado, Creados
<1>6. NadieSePierde
  BY <1>1 DEF NadieSePierde, Ubicado
<1>4. EstadoNuevo'
  BY <1>1, <1>2 DEF Ubicacion, EstadoNuevo
<1>5. ManoJusta'
  BY DEF Ubicacion, ManoJusta, Nadie, Pids, SchedulerTypeOK
<1> QED
  BY <1>3, <1>4, <1>5, <1>6 DEF Ubicacion

\* The push to the list of an interface that is gone (the queue of a resource
\* is never removed; were it, the process would be lost).
LEMMA PoneEnHuerfanaUbicacion ==
  ASSUME Ubicacion, SchedulerTypeOK, ManoLlena, pc \in [Hilos -> Etiquetas],
         NEW i, PoneEnHuerfana("interr", i, "BLOCKED"),
         pc["interr"] \in ConMano, NEW m, Sigue("interr", m),
         UNCHANGED << numero_de_procesos, pid_a_finalizar >>
  PROVE  Ubicacion' /\ (i \in Interfaz => NadieSePierde)
<1> DEFINE x == mano["interr"]
           a == << "mano", "interr" >>
           b == << "huerfana", i >>
<1>1. /\ x \in Pids /\ "interr" \in Hilos /\ Esta(x, a) /\ a \in Sitios
      /\ estado' = [estado EXCEPT ![x] = "BLOCKED"]
      /\ mano' = [mano EXCEPT !["interr"] = Nadie]
      /\ \A h \in Hilos \ {"interr"} : pc'[h] = pc[h]
  BY SinMano, SonSitios DEF PoneEnHuerfana, Hilos, HilosFijos, Esta
<1> HIDE DEF x
<1>2. /\ x \in Creados /\ Creados' = Creados
      /\ \A l \in Sitios : Esta(x, l) => l = a
  BY <1>1 DEF Ubicacion, UnSitio, SinCrear, Ubicado, Creados
<1>3. /\ SinRepetidos'
      /\ \A p \in Pids, l \in Sitios :
           Esta(p, l)' => (Esta(p, l) /\ ~ (p = x /\ l = a)) \/ (p = x /\ l = b)
  <2>1. CASE i \in Interfaz
    BY <1>1, <2>1, PoneEnHuerfanaMueve DEF Ubicacion, Mueve, x
  <2>2. CASE i \notin Interfaz
    <3>1. UNCHANGED << huerfana, colas, proceso_ejecutando >>
      BY <2>2 DEF PoneEnHuerfana, SchedulerTypeOK
    <3>2. \A h \in Hilos : mano'[h] = IF h = "interr" THEN Nadie ELSE mano[h]
      BY <1>1 DEF SchedulerTypeOK
    <3>3. ASSUME NEW p \in Pids, NEW l \in Sitios, Esta(p, l)'
          PROVE  Esta(p, l) /\ ~ (p = x /\ l = a)
      <4>1. CASE \E h \in Hilos : l = << "mano", h >>
        BY <3>2, <3>3, <4>1 DEF Esta, Nadie, Pids
      <4>2. CASE \E q \in Colas : l = << "cola", q >>
        BY <3>1, <3>3, <4>2 DEF Esta
      <4>3. CASE \E g \in Interfaz : l = << "huerfana", g >>
        BY <3>1, <3>3, <4>3 DEF Esta
      <4>4. CASE l = << "exec", "exec" >>
        BY <3>1, <3>3, <4>4 DEF Esta
      <4> QED
        BY <4>1, <4>2, <4>3, <4>4, CadaSitio
    <3> QED
      BY <3>1, <3>3 DEF Ubicacion, SinRepetidos
  <2> QED
    BY <2>1, <2>2
<1>4. /\ \A l : EsNuevo(l)' <=> EsNuevo(l)
      /\ ~ EsNuevo(b)
  BY <1>1 DEF EsNuevo, Hilos, HilosFijos
<1>5. estado'[x] = "BLOCKED" /\ \A p \in Pids \ {x} : estado'[p] = estado[p]
  BY <1>1 DEF SchedulerTypeOK
<1>6. UnSitio' /\ SinCrear' /\ EstadoNuevo'
  BY <1>1, <1>2, <1>3, <1>4, <1>5, PasaUbicacion
<1>7. ManoJusta'
  BY <1>1 DEF Ubicacion, ManoJusta, SchedulerTypeOK, Hilos, HilosFijos
<1>8. ASSUME i \in Interfaz
      PROVE  NadieSePierde
  <2>1. Mueve(x, a, b) /\ b \in Sitios
    BY <1>1, <1>8, PoneEnHuerfanaMueve, SonSitios DEF Ubicacion, x
  <2> QED
    BY <2>1 DEF Mueve, NadieSePierde, Ubicado
<1> QED
  BY <1>3, <1>6, <1>7, <1>8 DEF Ubicacion

\* The first of the list of an interface that failed goes to EXIT.
LEMMA AExitMueve ==
  ASSUME Ubicacion, SchedulerTypeOK, IteracionValida, NEW i \in Interfaz,
         InterfazAExit(i)
  PROVE  /\ Head(huerfana[i]) \in Pids
         /\ Esta(Head(huerfana[i]), << "huerfana", i >>)
         /\ Mueve(Head(huerfana[i]), << "huerfana", i >>, << "cola", "exit" >>)
         /\ SinRepetidos'
<1> DEFINE x == Head(huerfana[i])
<1>1. /\ colas' = [colas EXCEPT !["exit"] = Append(colas["exit"], x)]
      /\ huerfana' = [huerfana EXCEPT ![i] = Tail(huerfana[i])]
      /\ huerfana[i] # << >> /\ UNCHANGED << mano, proceso_ejecutando >>
  BY DEF InterfazAExit, IteracionValida
<1>2. huerfana[i] \in Seq(Pids) /\ x \in Pids /\ colas["exit"] \in Seq(Pids)
  BY <1>1 DEF SchedulerTypeOK, Colas
<1>3. /\ IsInjective(Tail(huerfana[i])) /\ Contains(huerfana[i], x)
      /\ \A p : Contains(Tail(huerfana[i]), p) <=> Contains(huerfana[i], p) /\ p # x
  BY <1>1, <1>2, TailLista DEF Ubicacion, SinRepetidos
<1> HIDE DEF x
<1>4. "exit" \in Colas /\ << "huerfana", i >> # << "cola", "exit" >>
  BY DEF Colas
<1>5. Esta(x, << "huerfana", i >>)
  BY <1>3 DEF Esta
<1>6. ~ Contains(colas["exit"], x)
  <2>1. ~ Esta(x, << "cola", "exit" >>)
    BY <1>2, <1>4, <1>5, SonSitios DEF Ubicacion, UnSitio
  <2> QED
    BY <2>1 DEF Esta
<1>7. /\ IsInjective(Append(colas["exit"], x))
      /\ \A p : Contains(Append(colas["exit"], x), p) <=>
                    Contains(colas["exit"], p) \/ p = x
  BY <1>2, <1>4, <1>6, AppendLista DEF Ubicacion, SinRepetidos
<1>8. /\ \A r \in Colas : colas'[r] = IF r = "exit" THEN Append(colas["exit"], x)
                                      ELSE colas[r]
      /\ \A g \in Interfaz : huerfana'[g] = IF g = i THEN Tail(huerfana[i])
                                            ELSE huerfana[g]
  BY <1>1 DEF SchedulerTypeOK
<1>9. SinRepetidos'
  BY <1>3, <1>7, <1>8 DEF Ubicacion, SinRepetidos
<1>10. Mueve(x, << "huerfana", i >>, << "cola", "exit" >>)
  BY <1>1, <1>3, <1>7, <1>8, MuevePorPartes
<1> QED
  BY <1>2, <1>5, <1>9, <1>10 DEF x

LEMMA AExitUbicacion ==
  ASSUME Ubicacion, SchedulerTypeOK, ManoLlena, IteracionValida,
         pc \in [Hilos -> Etiquetas], NEW i \in Interfaz, InterfazAExit(i),
         UNCHANGED consVars
  PROVE  Ubicacion' /\ NadieSePierde
<1> DEFINE x == Head(huerfana[i])
<1>1. /\ x \in Pids /\ Esta(x, << "huerfana", i >>)
      /\ Mueve(x, << "huerfana", i >>, << "cola", "exit" >>) /\ SinRepetidos'
  BY AExitMueve
<1>2. /\ mano' = mano /\ \A h \in Hilos \ {i} : pc'[h] = pc[h]
      /\ pc[i] \notin ConMano /\ i # "consola" /\ i \in Hilos
      /\ estado' = [estado EXCEPT ![x] = "EXIT"]
  BY DEF InterfazAExit, Hilos, HilosFijos
<1> HIDE DEF x
<1>3. /\ \A l : EsNuevo(l)' <=> EsNuevo(l)
      /\ ~ EsNuevo(<< "cola", "exit" >>)
  BY <1>2 DEF EsNuevo, Hilos, HilosFijos
<1>4. /\ << "huerfana", i >> \in Sitios
      /\ estado'[x] = "EXIT" /\ \A p \in Pids \ {x} : estado'[p] = estado[p]
  BY <1>1, <1>2, SonSitios DEF SchedulerTypeOK
<1>5. UnSitio' /\ SinCrear' /\ EstadoNuevo' /\ NadieSePierde
  BY <1>1, <1>3, <1>4, SonSitios, MueveUbicacion DEF Colas
<1>6. ManoJusta'
  BY <1>2 DEF Ubicacion, ManoJusta, Hilos, HilosFijos
<1> QED
  BY <1>1, <1>5, <1>6 DEF Ubicacion

\* An interface that failed takes the whole of its queue.
LEMMA QuitaColaUbicacion ==
  ASSUME Ubicacion, SchedulerTypeOK, pc \in [Hilos -> Etiquetas],
         NEW i \in Interfaz, InterfazQuitaCola(i), UNCHANGED consVars
  PROVE  Ubicacion' /\ (huerfana[i] = << >> => NadieSePierde)
<1> DEFINE a == << "cola", i >>
           b == << "huerfana", i >>
<1>1. /\ \A g \in Interfaz : huerfana'[g] = IF g = i THEN colas[i] ELSE huerfana[g]
      /\ \A q \in Colas : colas'[q] = IF q = i THEN << >> ELSE colas[q]
      /\ UNCHANGED << mano, proceso_ejecutando, estado >>
      /\ \A h \in Hilos \ {i} : pc'[h] = pc[h]
      /\ i \in Colas /\ i \in Hilos /\ i # "consola" /\ pc[i] = "quita_cola"
  BY DEF InterfazQuitaCola, SchedulerTypeOK, Colas, Bloqueados, Hilos,
     HilosFijos
<1>2. /\ \A p : ~ Contains(<< >>, p)
      /\ IsInjective(<< >>)
  BY DEF Contains, IsInjective
<1>3. SinRepetidos'
  BY <1>1, <1>2 DEF Ubicacion, SinRepetidos
<1>4. ASSUME NEW p \in Pids, NEW l \in Sitios, Esta(p, l)'
      PROVE  IF l = b THEN Esta(p, a) ELSE Esta(p, l) /\ l # a
  <2>1. CASE \E q \in Colas : l = << "cola", q >>
    BY <1>1, <1>2, <1>4, <2>1 DEF Esta
  <2>2. CASE \E g \in Interfaz : l = << "huerfana", g >>
    BY <1>1, <1>4, <2>2 DEF Esta
  <2>3. CASE \E h \in Hilos : l = << "mano", h >>
    BY <1>1, <1>4, <2>3 DEF Esta
  <2>4. CASE l = << "exec", "exec" >>
    BY <1>1, <1>4, <2>4 DEF Esta
  <2> QED
    BY <2>1, <2>2, <2>3, <2>4, CadaSitio
<1>5. a \in Sitios /\ b \in Sitios
  BY <1>1, SonSitios
<1>6. /\ ~ EsNuevo(a) /\ ~ EsNuevo(b)
      /\ \A l : EsNuevo(l)' <=> EsNuevo(l)
  BY <1>1 DEF EsNuevo, Hilos, HilosFijos
<1> HIDE DEF a, b
<1>7. UnSitio'
  BY <1>4, <1>5 DEF Ubicacion, UnSitio
<1>8. SinCrear'
  BY <1>1, <1>4, <1>5 DEF Ubicacion, SinCrear, Ubicado, Creados
<1>9. EstadoNuevo'
  BY <1>1, <1>4, <1>5, <1>6 DEF Ubicacion, EstadoNuevo
<1>10. ManoJusta'
  BY <1>1 DEF Ubicacion, ManoJusta, Hilos, HilosFijos
<1>11. ASSUME huerfana[i] = << >>
       PROVE  NadieSePierde
  <2> SUFFICES ASSUME NEW p \in Pids, NEW l \in Sitios, Esta(p, l)
               PROVE  IF l = a THEN Esta(p, b)' ELSE Esta(p, l)'
    BY <1>5 DEF NadieSePierde, Ubicado
  <2>1. CASE \E q \in Colas : l = << "cola", q >>
    BY <1>1, <2>1 DEF Esta, a, b
  <2>2. CASE \E g \in Interfaz : l = << "huerfana", g >>
    BY <1>1, <1>2, <1>11, <2>2 DEF Esta, a
  <2>3. CASE \E h \in Hilos : l = << "mano", h >>
    BY <1>1, <2>3 DEF Esta, a
  <2>4. CASE l = << "exec", "exec" >>
    BY <1>1, <2>4 DEF Esta, a
  <2> QED
    BY <2>1, <2>2, <2>3, <2>4, CadaSitio
<1> QED
  BY <1>3, <1>7, <1>8, <1>9, <1>10, <1>11 DEF Ubicacion

\* INICIAR_PROCESO gives the console a process that was nowhere.
LEMMA PideCreacionUbicacion ==
  ASSUME Ubicacion, SchedulerTypeOK, ManoLlena, pc \in [Hilos -> Etiquetas],
         numero_de_procesos \in Nat,
         NEW op, En("consola", "comando"), PideCreacion(op)
  PROVE  Ubicacion' /\ (TodosUbicados => TodosUbicados')
<1> DEFINE x == numero_de_procesos + 1
           b == << "mano", "consola" >>
<1>1. /\ x \in Pids \ Creados /\ x \in Creados' /\ Creados \subseteq Creados'
  BY ParametrosKernel DEF PideCreacion, Pids, Creados
<1>2. /\ \A h \in Hilos : mano'[h] = IF h = "consola" THEN x ELSE mano[h]
      /\ UNCHANGED << colas, huerfana, proceso_ejecutando, estado >>
      /\ \A h \in Hilos \ {"consola"} : pc'[h] = pc[h]
      /\ "consola" \in Hilos /\ pc'["consola"] = "a_new"
  BY DEF PideCreacion, SchedulerTypeOK, Hilos, HilosFijos
<1> HIDE DEF x
<1>3. \A l \in Sitios : ~ Esta(x, l)
  BY <1>1 DEF Ubicacion, SinCrear, Ubicado
<1>4. ASSUME NEW p \in Pids, NEW l \in Sitios, Esta(p, l)'
      PROVE  (Esta(p, l) /\ ~ (p = x /\ l = b)) \/ (p = x /\ l = b)
  <2>1. CASE \E h \in Hilos : l = << "mano", h >>
    BY <1>2, <1>4, <2>1 DEF Esta
  <2>2. CASE \E q \in Colas : l = << "cola", q >>
    BY <1>2, <1>4, <2>2 DEF Esta
  <2>3. CASE \E g \in Interfaz : l = << "huerfana", g >>
    BY <1>2, <1>4, <2>3 DEF Esta
  <2>4. CASE l = << "exec", "exec" >>
    BY <1>2, <1>4, <2>4 DEF Esta
  <2> QED
    BY <2>1, <2>2, <2>3, <2>4, CadaSitio
<1>5. EsNuevo(b)' /\ estado'[x] = "NEW"
  BY <1>1, <1>2 DEF EsNuevo, Ubicacion, SinCrear
<1>6. ASSUME NEW p \in Pids, NEW l \in Sitios, Esta(p, l)
      PROVE  EsNuevo(l)' <=> EsNuevo(l)
  <2>1. mano["consola"] = Nadie
    BY <1>2, SinMano
  <2>2. ASSUME l = b
        PROVE  FALSE
    <3>1. mano["consola"] = p
      BY <1>6, <2>2 DEF Esta
    <3> QED
      BY <2>1, <3>1 DEF Nadie, Pids
  <2> QED
    BY <2>2 DEF EsNuevo
<1>7. UnSitio' /\ SinCrear' /\ EstadoNuevo'
  BY <1>1, <1>2, <1>3, <1>4, <1>5, <1>6, PasaUbicacion
<1>8. SinRepetidos' /\ ManoJusta'
  BY <1>2 DEF Ubicacion, SinRepetidos, ManoJusta, EnExit
<1>9. ASSUME NEW p \in Pids, NEW l \in Sitios, Esta(p, l)
      PROVE  Esta(p, l)'
  <2>0. mano["consola"] = Nadie /\ p # Nadie
    BY <1>2, SinMano DEF Nadie, Pids
  <2>1. CASE \E h \in Hilos : l = << "mano", h >>
    BY <1>2, <1>9, <2>0, <2>1 DEF Esta
  <2>2. CASE \E q \in Colas : l = << "cola", q >>
    BY <1>2, <1>9, <2>2 DEF Esta
  <2>3. CASE \E g \in Interfaz : l = << "huerfana", g >>
    BY <1>2, <1>9, <2>3 DEF Esta
  <2>4. CASE l = << "exec", "exec" >>
    BY <1>2, <1>9, <2>4 DEF Esta
  <2> QED
    BY <2>1, <2>2, <2>3, <2>4, CadaSitio
<1>10. NadieSePierde
  BY <1>9 DEF NadieSePierde, Ubicado
<1>11. TodosUbicados => TodosUbicados'
  <2>1. b \in Sitios /\ \A p : p = x => Esta(p, b)'
    BY <1>2, SonSitios DEF Esta
  <2>2. Creados' = Creados \cup {x} /\ Creados \subseteq Pids
    BY ParametrosKernel DEF Creados, Pids, PideCreacion, x
  <2>3. ASSUME TodosUbicados, NEW p \in Creados'
        PROVE  Ubicado(p)'
    <3>1. CASE p = x
      BY <2>1, <3>1 DEF Ubicado
    <3>2. CASE p # x
      BY <1>10, <2>2, <2>3, <3>2 DEF NadieSePierde, TodosUbicados
    <3> QED
      BY <3>1, <3>2
  <2> QED
    BY <2>3 DEF TodosUbicados
<1> QED
  BY <1>7, <1>8, <1>10, <1>11 DEF Ubicacion

\* FINALIZAR_PROCESO takes the process from its queue and drops the one that
\* was first: nobody else is moved.
LEMMA FinalizarEncuentraUbicacion ==
  ASSUME Ubicacion, SchedulerTypeOK, ManoLlena, pc \in [Hilos -> Etiquetas],
         pid_a_finalizar \in Pids, claves \subseteq Bloqueados,
         NEW k \in 1 .. 4, FinalizarEncuentra(k)
  PROVE  Ubicacion'
<1> DEFINE x == pid_a_finalizar
           b == << "mano", "consola" >>
<1>1. PICK q \in ColasDeEtapa(k) :
         /\ Contains(colas[q], x)
         /\ colas' = [colas EXCEPT ![q] = QuitaYSaca(colas[q], x)]
  BY DEF FinalizarEncuentra
<1>2. /\ q \in Colas /\ (q = "new" <=> k = 1)
      /\ EtapaExit(k) \in EnExit /\ (EtapaExit(k) = "exit_new" <=> k = 1)
      /\ EtapaFin(k) \notin ConMano
  BY DEF ColasDeEtapa, Etapas, Colas, EtapaExit, EtapaFin, EnExit, Bloqueados
<1>3. /\ \A h \in Hilos : mano'[h] = IF h = "consola" THEN x ELSE mano[h]
      /\ UNCHANGED << huerfana, proceso_ejecutando, estado, numero_de_procesos,
                      pid_a_finalizar >>
      /\ \A h \in Hilos \ {"consola"} : pc'[h] = pc[h]
      /\ "consola" \in Hilos /\ pc'["consola"] = EtapaExit(k)
      /\ pc["consola"] = EtapaFin(k)
  BY DEF FinalizarEncuentra, SchedulerTypeOK, Hilos, HilosFijos
<1> DEFINE a == << "cola", q >>
           s == colas[q]
           t == QuitaYSaca(s, x)
<1>4. s \in Seq(Pids) /\ IsInjective(s)
  BY <1>2 DEF SchedulerTypeOK, Ubicacion, SinRepetidos
<1>5. IsInjective(t) /\ \A p : Contains(t, p) => Contains(s, p) /\ p # x
  BY <1>1, <1>4, QuitaYSacaLista
<1>6. \A r \in Colas : colas'[r] = IF r = q THEN t ELSE colas[r]
  BY <1>1, <1>2 DEF SchedulerTypeOK
<1> HIDE DEF t
<1>7. Esta(x, a) /\ a \in Sitios
  BY <1>1, <1>2, SonSitios DEF Esta
<1>8. /\ x \in Creados /\ Creados' = Creados
      /\ \A l \in Sitios : Esta(x, l) => l = a
  BY <1>3, <1>7 DEF Ubicacion, UnSitio, SinCrear, Ubicado, Creados
<1>9. ASSUME NEW p \in Pids, NEW l \in Sitios, Esta(p, l)'
      PROVE  (Esta(p, l) /\ ~ (p = x /\ l = a)) \/ (p = x /\ l = b)
  <2>1. CASE \E r \in Colas : l = << "cola", r >>
    BY <1>5, <1>6, <1>9, <2>1 DEF Esta
  <2>2. CASE \E i \in Interfaz : l = << "huerfana", i >>
    BY <1>3, <1>9, <2>2 DEF Esta
  <2>3. CASE \E h \in Hilos : l = << "mano", h >>
    BY <1>3, <1>9, <2>3 DEF Esta
  <2>4. CASE l = << "exec", "exec" >>
    BY <1>3, <1>9, <2>4 DEF Esta
  <2> QED
    BY <2>1, <2>2, <2>3, <2>4, CadaSitio
<1>10. EsNuevo(b)' <=> EsNuevo(a)
  BY <1>2, <1>3 DEF EsNuevo, EnExit
<1>11. estado'[x] = "NEW" <=> EsNuevo(b)'
  BY <1>3, <1>7, <1>10 DEF Ubicacion, EstadoNuevo
<1>12. ASSUME NEW p \in Pids, NEW l \in Sitios, Esta(p, l)
       PROVE  EsNuevo(l)' <=> EsNuevo(l)
  <2>1. mano["consola"] = Nadie
    BY <1>2, <1>3, SinMano
  <2>2. ASSUME l = b
        PROVE  FALSE
    <3>1. mano["consola"] = p
      BY <1>12, <2>2 DEF Esta
    <3> QED
      BY <2>1, <3>1 DEF Nadie, Pids
  <2> QED
    BY <2>2 DEF EsNuevo
<1>13. UnSitio' /\ SinCrear' /\ EstadoNuevo'
  <2>1. x \in Pids /\ \A p \in Pids \ {x} : estado'[p] = estado[p]
    BY <1>3
  <2> HIDE DEF x, a, b
  <2> QED
    BY <1>8, <1>9, <1>11, <1>12, <2>1, PasaUbicacion
<1>14. SinRepetidos'
  BY <1>3, <1>5, <1>6 DEF Ubicacion, SinRepetidos
<1>15. ManoJusta'
  BY <1>2, <1>3 DEF Ubicacion, ManoJusta, EnExit
<1> QED
  BY <1>13, <1>14, <1>15 DEF Ubicacion

(* The steps. *)

\* If a step creates no process and loses none, all are still somewhere.
LEMMA SiguenTodos ==
  ASSUME NadieSePierde, Inductivo, UNCHANGED numero_de_procesos, TodosUbicados
  PROVE  TodosUbicados'
<1>1. Creados \subseteq Pids
  BY ParametrosKernel DEF Inductivo, TypeOK, LocalesTypeOK, Creados, Pids
<1>2. Creados' = Creados
  BY DEF Creados
<1> QED
  BY <1>1, <1>2 DEF NadieSePierde, TodosUbicados

\* A step of a thread with empty hands that touches no queue.
LEMMA QuietoHilo ==
  ASSUME Inductivo, Ubicacion, NEW h \in Hilos,
         pc[h] \notin ConMano,
         \A g \in Hilos \ {h} : pc'[g] = pc[g],
         h = "consola" => pc'[h] \notin EnExit,
         h # "consola" => pid_a_finalizar' = pid_a_finalizar,
         UNCHANGED << schedVars, numero_de_procesos >>
  PROVE  Ubicacion' /\ NadieSePierde /\ (TodosUbicados => TodosUbicados')
<1>1. /\ SchedulerTypeOK /\ ManoLlena
      /\ UNCHANGED << colas, huerfana, mano, proceso_ejecutando, estado >>
      /\ "consola" \in Hilos
  BY DEF Inductivo, TypeOK, Hilos, HilosFijos
<1>2. Ubicacion' /\ NadieSePierde
  BY <1>1, QuietoUbicacion
<1> QED
  BY <1>2, SiguenTodos

\* The long term scheduler.
LEMMA LargoUbicacion ==
  ASSUME Inductivo, Ubicacion, Largo, UNCHANGED otras
  PROVE  Ubicacion' /\ NadieSePierde
<1>t. /\ pc \in [Hilos -> Etiquetas] /\ SchedulerTypeOK /\ ManoLlena
      /\ HilosFijos \subseteq Hilos /\ Interfaz \subseteq Hilos
  BY DEF Inductivo, TypeOK, Hilos
<1>1. CASE LargoTomaCupo
  BY <1>1, <1>t, QuietoHilo DEF HilosFijos, LargoTomaCupo, SigueSiActiva
<1>2. CASE LargoReanuda
  BY <1>2, <1>t, QuietoHilo DEF HilosFijos, LargoReanuda, SaleDePausa
<1>3. CASE LargoConfirma
  BY <1>3, <1>t, QuietoHilo DEF HilosFijos, LargoConfirma
<1>4. CASE LargoEsperaNew
  BY <1>4, <1>t, QuietoHilo DEF HilosFijos, LargoEsperaNew
<1>5. CASE LargoSaca
  <2>1. Saca("largo", "new") /\ Sigue("largo", "pone_ready") /\ pc["largo"] \notin ConMano
    BY <1>5 DEF LargoSaca
  <2>2. "new" \in Colas /\ "largo" \in Hilos
    BY <1>t DEF Colas, HilosFijos
  <2> QED
    BY <1>t, <2>1, <2>2, SacaUbicacion DEF EnExit
<1>6. CASE LargoSacaNada
  BY <1>6, <1>t, QuietoHilo DEF HilosFijos, LargoSacaNada
<1>7. CASE LargoPone
  <2>1. /\ Pone("largo", "ready", "READY") /\ pc["largo"] \in ConMano
        /\ \A g \in Hilos \ {"largo"} : pc'[g] = pc[g]
    BY <1>7, <1>t DEF LargoPone
  <2> QED
    BY <1>t, <2>1, PoneUbicacion DEF Colas, Bloqueados, HilosFijos, EnExit
<1>8. CASE LargoCuenta
  BY <1>8, <1>t, QuietoHilo DEF HilosFijos, LargoCuenta
<1> QED
  BY <1>1, <1>2, <1>3, <1>4, <1>5, <1>6, <1>7, <1>8 DEF Largo

\* liberar_recursos_de_proceso, by whoever runs it.
LEMMA LiberarUbicacion ==
  ASSUME Inductivo, Ubicacion, NEW h \in Hilos \ {"largo"}, NEW p,
         NEW dest \in Etiquetas \ ConMano, LiberarRecursosDeProceso(h, p, dest),
         UNCHANGED << numero_de_procesos, pid_a_finalizar >>
  PROVE  Ubicacion' /\ NadieSePierde
<1>t. /\ pc \in [Hilos -> Etiquetas] /\ SchedulerTypeOK /\ ManoLlena
      /\ HilosFijos \subseteq Hilos /\ Interfaz \subseteq Hilos
  BY DEF Inductivo, TypeOK, Hilos
<1>a. pendientes[h] # {} => Actual(h) \in Recurso
  BY ActualPendiente DEF Inductivo, TypeOK
<1>1. CASE LiberarSacaDiccionario(h, p)
  BY <1>1, <1>t, QuietoHilo DEF HilosFijos, LiberarSacaDiccionario, EnExit
<1>2. CASE LiberarCarga(h)
  BY <1>2, <1>t, QuietoHilo DEF HilosFijos, LiberarCarga, EnExit, CargaRecurso
<1>3. CASE LiberarGuarda(h)
  BY <1>3, <1>t, QuietoHilo DEF HilosFijos, LiberarGuarda, EnExit
<1>4. CASE LiberarMira(h)
  BY <1>4, <1>t, QuietoHilo DEF HilosFijos, LiberarMira, EnExit, PasaDeRecurso
<1>5. CASE LiberarSaca(h)
  <2>1. /\ Actual(h) \in Colas /\ Actual(h) # "new"
        /\ pc[h] \notin ConMano
    BY <1>5, <1>t, ActualPendiente DEF LiberarSaca, ManoLlena, Inductivo, TypeOK
  <2>2. CASE Saca(h, Actual(h)) /\ Sigue(h, "lib_pone")
    BY <1>t, <2>1, <2>2, SacaUbicacion DEF EnExit
  <2>3. CASE Sigue(h, "lib_carga") /\ UNCHANGED schedVars
    BY <1>t, <2>1, <2>3, QuietoHilo DEF EnExit
  <2> QED
    BY <1>5, <2>2, <2>3 DEF LiberarSaca
<1>6. CASE LiberarPone(h)
  <2>1. /\ Pone(h, "ready", "READY") /\ pc[h] \in ConMano
        /\ pc'[h] = "lib_carga"
        /\ \A g \in Hilos \ {h} : pc'[g] = pc[g]
    BY <1>6, <1>t DEF LiberarPone
  <2> QED
    BY <1>t, <2>1, PoneUbicacion DEF Colas, EnExit
<1>7. CASE LiberarTermina(h, dest)
  BY <1>7, <1>t, QuietoHilo DEF HilosFijos, LiberarTermina, EnExit
<1> QED
  BY <1>1, <1>2, <1>3, <1>4, <1>5, <1>6, <1>7 DEF LiberarRecursosDeProceso

\* The dispatcher: EXEC is empty when it puts a process there.
LEMMA CortoUbicacion ==
  ASSUME Inductivo, Ubicacion, Corto, UNCHANGED otras
  PROVE  Ubicacion' /\ NadieSePierde
<1>t. /\ pc \in [Hilos -> Etiquetas] /\ SchedulerTypeOK /\ ManoLlena
      /\ HilosFijos \subseteq Hilos /\ Interfaz \subseteq Hilos
  BY DEF Inductivo, TypeOK, Hilos
<1>1. CASE CortoToma
  BY <1>1, <1>t, QuietoHilo DEF HilosFijos, CortoToma, SigueSiActiva, Entrada
<1>2. CASE CortoReanuda
  BY <1>2, <1>t, QuietoHilo DEF HilosFijos, CortoReanuda, SaleDePausa, Entrada
<1>3. CASE CortoElige
  BY <1>3, <1>t, QuietoHilo DEF HilosFijos, CortoElige
<1>4. CASE CortoSacaAux
  <2>1. Saca("corto", "aux") /\ Sigue("corto", "pone_exec") /\ pc["corto"] \notin ConMano
    BY <1>4 DEF CortoSacaAux
  <2>2. "aux" \in Colas /\ "corto" \in Hilos
    BY <1>t DEF Colas, HilosFijos
  <2> QED
    BY <1>t, <2>1, <2>2, SacaUbicacion DEF EnExit
<1>5. CASE CortoSacaReady
  <2>1. Saca("corto", "ready") /\ Sigue("corto", "pone_exec") /\ pc["corto"] \notin ConMano
    BY <1>5 DEF CortoSacaReady
  <2>2. "ready" \in Colas /\ "corto" \in Hilos
    BY <1>t DEF Colas, HilosFijos
  <2> QED
    BY <1>t, <2>1, <2>2, SacaUbicacion DEF EnExit
<1>6. CASE CortoDespacha
  <2>1. /\ PoneEnExec("corto") /\ Sigue("corto", "dispatch")
        /\ pc["corto"] = "pone_exec"
    BY <1>6 DEF CortoDespacha
  <2>2. sem_interrupcion = 0 /\ ~ HandlerConTurno
    BY <2>1 DEF Inductivo, TurnoUnico, Uno, TypeOK, SemaforosTypeOK
  <2>3. proceso_ejecutando = Nadie
    BY <2>2 DEF Inductivo, ContextoPropio, HandlerConTurno, AntesDeSacar
  <2> QED
    BY <1>t, <2>1, <2>3, ExecUbicacion DEF HilosFijos
<1> QED
  BY <1>1, <1>2, <1>3, <1>4, <1>5, <1>6 DEF Corto

\* The handler of the contexts.
LEMMA InterrUbicacion ==
  ASSUME Inductivo, Ubicacion, Interr, UNCHANGED << pcb_io, consVars >>
  PROVE  /\ Ubicacion'
         /\ (pc["interr"] = "bloq_pone" => tokens.arg \in claves \cup Interfaz)
               => NadieSePierde
<1>t. /\ pc \in [Hilos -> Etiquetas] /\ SchedulerTypeOK /\ ManoLlena
      /\ HilosFijos \subseteq Hilos /\ Interfaz \subseteq Hilos
  BY DEF Inductivo, TypeOK, Hilos
<1>1. CASE InterrRecibe
  <2>1. /\ UNCHANGED << colas, huerfana, mano, proceso_ejecutando >>
        /\ pc["interr"] \notin ConMano
        /\ \A g \in Hilos \ {"interr"} : pc'[g] = pc[g]
    BY <1>1, <1>t DEF InterrRecibe
  <2>2. CASE UNCHANGED estado
    BY <1>t, <2>1, <2>2, QuietoUbicacion DEF HilosFijos
  <2>3. CASE estado' = [estado EXCEPT ![proceso_ejecutando] =
                            EstadoDevuelto(Head(recibidos).op)]
    <3>1. ASSUME proceso_ejecutando \in Pids
          PROVE  estado[proceso_ejecutando] # "NEW"
      <4>1. /\ Esta(proceso_ejecutando, << "exec", "exec" >>)
            /\ ~ EsNuevo(<< "exec", "exec" >>)
        BY DEF Esta, EsNuevo
      <4> QED
        BY <3>1, <4>1, SonSitios DEF Ubicacion, EstadoNuevo
    <3>2. EstadoDevuelto(Head(recibidos).op) # "NEW"
      BY DEF EstadoDevuelto
    <3>3. \A p \in Pids : estado'[p] = "NEW" <=> estado[p] = "NEW"
      BY <1>t, <2>3, <3>1, <3>2 DEF SchedulerTypeOK
    <3> QED
      BY <1>t, <2>1, <3>3, QuietoUbicacion DEF HilosFijos
  <2> QED
    BY <1>1, <2>2, <2>3 DEF InterrRecibe
<1>2. CASE InterrActiva
  BY <1>2, <1>t, QuietoHilo DEF HilosFijos, InterrActiva, SigueSiActiva
<1>3. CASE InterrReanuda
  BY <1>3, <1>t, QuietoHilo DEF HilosFijos, InterrReanuda, SaleDePausa
<1>4. CASE InterrAvisaMemoria
  BY <1>4, <1>t, QuietoHilo DEF HilosFijos, InterrAvisaMemoria
<1>5. CASE InterrLibera
  BY <1>5, <1>t, LiberarUbicacion DEF InterrLibera, Etiquetas, HilosFijos
<1>6. CASE InterrFinSaca
  <2>1. /\ SacaDeExec("interr") /\ Sigue("interr", "fin_pone")
        /\ pc["interr"] \in AntesDeSacar \ ConMano
    BY <1>6 DEF InterrFinSaca, AntesDeSacar
  <2>2. proceso_ejecutando # Nadie
    BY <2>1 DEF Inductivo, ContextoPropio
  <2> QED
    BY <1>t, <2>1, <2>2, ExecUbicacion DEF HilosFijos
<1>7. CASE InterrFinPone
  <2>1. /\ Pone("interr", "exit", "EXIT") /\ pc["interr"] \in ConMano
        /\ \A g \in Hilos \ {"interr"} : pc'[g] = pc[g]
    BY <1>7, <1>t DEF InterrFinPone
  <2> QED
    BY <1>t, <2>1, PoneUbicacion DEF Colas, Bloqueados, HilosFijos, EnExit
<1>8. CASE InterrAumentaMira
  BY <1>8, <1>t, QuietoHilo DEF HilosFijos, InterrAumentaMira
<1>9. CASE InterrAumentaResta
  BY <1>9, <1>t, QuietoHilo DEF HilosFijos, InterrAumentaResta
<1>10. CASE InterrRecursoInvalido
  BY <1>10, <1>t, QuietoHilo DEF HilosFijos, InterrRecursoInvalido
<1>11. CASE InterrDesalojaSaca
  <2>1. /\ SacaDeExec("interr") /\ Sigue("interr", "des_pone")
        /\ pc["interr"] \in AntesDeSacar \ ConMano
    BY <1>11 DEF InterrDesalojaSaca, AntesDeSacar
  <2>2. proceso_ejecutando # Nadie
    BY <2>1 DEF Inductivo, ContextoPropio
  <2> QED
    BY <1>t, <2>1, <2>2, ExecUbicacion DEF HilosFijos
<1>12. CASE InterrDesalojaPone
  <2>1. /\ Pone("interr", "ready", "READY") /\ pc["interr"] \in ConMano
        /\ \A g \in Hilos \ {"interr"} : pc'[g] = pc[g]
    BY <1>12, <1>t DEF InterrDesalojaPone
  <2> QED
    BY <1>t, <2>1, PoneUbicacion DEF Colas, Bloqueados, HilosFijos, EnExit
<1>13. CASE InterrIO
  BY <1>13, <1>t, QuietoHilo DEF HilosFijos, InterrIO
<1>14. CASE InterrAgregaInstruccion
  BY <1>14, <1>t, QuietoHilo DEF HilosFijos, InterrAgregaInstruccion
<1>15. CASE InterrBloqueaSaca
  <2>1. /\ SacaDeExec("interr") /\ Sigue("interr", "bloq_busca")
        /\ pc["interr"] \in AntesDeSacar \ ConMano
    BY <1>15 DEF InterrBloqueaSaca, AntesDeSacar
  <2>2. proceso_ejecutando # Nadie
    BY <2>1 DEF Inductivo, ContextoPropio
  <2> QED
    BY <1>t, <2>1, <2>2, ExecUbicacion DEF HilosFijos
<1>16. CASE InterrBloqueaBusca
  <2>1. /\ UNCHANGED << colas, huerfana, mano, proceso_ejecutando, estado >>
        /\ pc'["interr"] \in ConMano
        /\ \A g \in Hilos \ {"interr"} : pc'[g] = pc[g]
    BY <1>16, <1>t DEF InterrBloqueaBusca, HilosFijos
  <2> QED
    BY <1>t, <2>1, QuietoUbicacion DEF HilosFijos
<1>17. CASE InterrBloqueaPone
  <2>1. tokens.arg \in Colas /\ tokens.arg # "new"
    BY <1>17 DEF InterrBloqueaPone, Inductivo, ArgumentoValido, Colas,
       Bloqueados
  <2>2. /\ pc["interr"] \in ConMano /\ Sigue("interr", "espera")
        /\ \A g \in Hilos \ {"interr"} : pc'[g] = pc[g]
    BY <1>17, <1>t DEF InterrBloqueaPone
  <2>3. CASE Pone("interr", tokens.arg, "BLOCKED")
    BY <1>t, <2>1, <2>2, <2>3, PoneUbicacion DEF HilosFijos
  <2>4. CASE PoneEnHuerfana("interr", tokens.arg, "BLOCKED") /\ tokens.arg \notin claves
    BY <1>17, <1>t, <2>2, <2>4, PoneEnHuerfanaUbicacion DEF InterrBloqueaPone
  <2> QED
    BY <1>17, <2>3, <2>4 DEF InterrBloqueaPone
<1>18. CASE InterrAsigna
  BY <1>18, <1>t, QuietoHilo DEF HilosFijos, InterrAsigna
<1>19. CASE InterrCarga
  BY <1>19, <1>t, QuietoHilo DEF HilosFijos, InterrCarga
<1>20. CASE InterrGuarda
  BY <1>20, <1>t, QuietoHilo DEF HilosFijos, InterrGuarda
<1>21. CASE InterrWaitBloquea
  BY <1>21, <1>t, QuietoHilo DEF HilosFijos, InterrWaitBloquea
<1>22. CASE InterrSigueEnCPU
  BY <1>22, <1>t, QuietoHilo DEF HilosFijos, InterrSigueEnCPU, VuelveALaCPU
<1>23. CASE InterrSignalDespierta
  BY <1>23, <1>t, QuietoHilo DEF HilosFijos, InterrSignalDespierta
<1>24. CASE InterrSignalSaca
  <2>1. tokens.arg \in Colas /\ tokens.arg # "new"
    BY <1>24 DEF InterrSignalSaca, Inductivo, ArgumentoValido, Colas, Bloqueados
  <2>2. /\ Saca("interr", tokens.arg) /\ Sigue("interr", "sig_pone")
        /\ pc["interr"] \notin ConMano
    BY <1>24 DEF InterrSignalSaca
  <2> QED
    BY <1>t, <2>1, <2>2, SacaUbicacion DEF HilosFijos, EnExit
<1>25. CASE InterrSignalNadie
  BY <1>25, <1>t, QuietoHilo DEF HilosFijos, InterrSignalNadie, VuelveALaCPU
<1>26. CASE InterrSignalPone
  <2>1. /\ Pone("interr", "ready", "READY") /\ pc["interr"] \in ConMano
        /\ \A g \in Hilos \ {"interr"} : pc'[g] = pc[g]
    BY <1>26, <1>t DEF InterrSignalPone, VuelveALaCPU
  <2> QED
    BY <1>t, <2>1, PoneUbicacion DEF Colas, Bloqueados, HilosFijos, EnExit
<1> QED
  BY <1>1, <1>2, <1>3, <1>4, <1>5, <1>6, <1>7, <1>8, <1>9, <1>10, <1>11, <1>12,
     <1>13, <1>14, <1>15, <1>16, <1>17, <1>18, <1>19, <1>20, <1>21, <1>22,
     <1>23, <1>24, <1>25, <1>26 DEF Interr

\* The thread of an interface.
LEMMA InterfazUbicacion ==
  ASSUME Inductivo, Ubicacion, NEW i \in Interfaz, Interf(i),
         UNCHANGED << tokens, consVars >>
  PROVE  /\ Ubicacion'
         /\ (pc[i] = "quita_cola" => huerfana[i] = << >>) => NadieSePierde
<1>t. /\ pc \in [Hilos -> Etiquetas] /\ SchedulerTypeOK /\ ManoLlena
      /\ HilosFijos \subseteq Hilos /\ Interfaz \subseteq Hilos
  BY DEF Inductivo, TypeOK, Hilos
<1>i. i \in Colas /\ i \notin HilosFijos /\ i # "new"
  BY DEF Colas, Bloqueados
<1>1. CASE InterfazConecta(i)
  BY <1>1, <1>t, QuietoHilo DEF HilosFijos, InterfazConecta
<1>2. CASE InterfazToma(i)
  BY <1>2, <1>t, QuietoHilo DEF HilosFijos, InterfazToma
<1>3. CASE InterfazEjecuta(i)
  BY <1>3, <1>t, QuietoHilo DEF HilosFijos, InterfazEjecuta
<1>4. CASE InterfazResponde(i)
  BY <1>4, <1>t, QuietoHilo DEF HilosFijos, InterfazResponde, SigueSiActiva
<1>5. CASE InterfazReanuda(i)
  BY <1>5, <1>t, QuietoHilo DEF HilosFijos, InterfazReanuda, SaleDePausa
<1>6. CASE InterfazSaca(i)
  <2>1. Saca(i, i) /\ Sigue(i, "pone") /\ pc[i] \notin ConMano
    BY <1>6 DEF InterfazSaca
  <2>2. i \in Hilos /\ i # "largo" /\ i # "consola"
    BY <1>t, <1>i DEF HilosFijos
  <2> QED
    BY <1>t, <1>i, <2>1, <2>2, SacaUbicacion DEF EnExit
<1>7. CASE InterfazSacaNadie(i)
  BY <1>7, <1>t, QuietoHilo DEF HilosFijos, InterfazSacaNadie
<1>8. CASE InterfazPone(i)
  <2>1. /\ Pone(i, IF VRR_modo THEN "aux" ELSE "ready", "READY")
        /\ pc[i] \in ConMano /\ \A g \in Hilos \ {i} : pc'[g] = pc[g]
    BY <1>8, <1>t DEF InterfazPone
  <2>2. /\ (IF VRR_modo THEN "aux" ELSE "ready") \in Colas
        /\ (IF VRR_modo THEN "aux" ELSE "ready") # "new"
    BY DEF Colas
  <2> QED
    BY <1>t, <2>1, <2>2, PoneUbicacion DEF HilosFijos
<1>9. CASE InterfazBorra(i)
  BY <1>9, <1>t, QuietoHilo DEF HilosFijos, InterfazBorra
<1>10. CASE InterfazFalla(i)
  BY <1>10, <1>t, QuietoHilo DEF HilosFijos, InterfazFalla
<1>11. CASE InterfazQuitaCola(i)
  BY <1>11, <1>t, QuitaColaUbicacion DEF InterfazQuitaCola
<1>12. CASE InterfazItera(i)
  BY <1>12, <1>t, QuietoHilo DEF HilosFijos, InterfazItera
<1>13. CASE InterfazLibera(i)
  BY <1>13, <1>t, LiberarUbicacion DEF InterfazLibera, Etiquetas, HilosFijos
<1>14. CASE InterfazAvisaMemoria(i)
  BY <1>14, <1>t, QuietoHilo DEF HilosFijos, InterfazAvisaMemoria
<1>15. CASE InterfazAExit(i)
  BY <1>15, <1>t, AExitUbicacion DEF Inductivo
<1>16. CASE InterfazIteraFin(i)
  BY <1>16, <1>t, QuietoHilo DEF HilosFijos, InterfazIteraFin
<1> QED
  BY <1>1, <1>2, <1>3, <1>4, <1>5, <1>6, <1>7, <1>8, <1>9, <1>10, <1>11, <1>12,
     <1>13, <1>14, <1>15, <1>16 DEF Interf

\* The console.
LEMMA ConsolaUbicacion ==
  ASSUME Inductivo, Ubicacion, Orden \/ Ejecuta, UNCHANGED << tokens, pcb_io >>
  PROVE  /\ Ubicacion'
         /\ pc["consola"] \in SinFin /\ TodosUbicados => TodosUbicados'
<1>t. /\ pc \in [Hilos -> Etiquetas] /\ SchedulerTypeOK /\ ManoLlena
      /\ HilosFijos \subseteq Hilos /\ Interfaz \subseteq Hilos
  BY DEF Inductivo, TypeOK, Hilos
<1>n. numero_de_procesos \in Nat
  BY DEF Inductivo, TypeOK, LocalesTypeOK
<1>1. CASE IniciarProceso
  BY <1>1, <1>t, <1>n, PideCreacionUbicacion DEF IniciarProceso
<1>2. CASE IniciarProcesoSinPath
  BY <1>2, <1>t, <1>n, PideCreacionUbicacion DEF IniciarProcesoSinPath, Lee
<1>3. CASE DetenerPlanificacion
  BY <1>3, <1>t, QuietoHilo DEF HilosFijos, DetenerPlanificacion, EnExit, Lee
<1>4. CASE IniciarPlanificacion
  BY <1>4, <1>t, QuietoHilo DEF HilosFijos, IniciarPlanificacion, EnExit
<1>5. CASE Multiprogramacion
  BY <1>5, <1>t, QuietoHilo DEF HilosFijos, Multiprogramacion, EnExit, Lee
<1>6. CASE FinalizarProceso
  BY <1>6, <1>t, QuietoHilo DEF HilosFijos, FinalizarProceso, EnExit, Lee
<1>7. CASE ProcesoAColaNew
  <2>1. /\ Pone("consola", "new", "NEW") /\ pc["consola"] \in ConMano
        /\ pc'["consola"] = "dicc_nuevo"
        /\ \A g \in Hilos \ {"consola"} :
              pc'[g] = pc[g] \/ (g = "largo" /\ pc[g] \notin ConMano)
    BY <1>7, <1>t DEF ProcesoAColaNew, HilosFijos
  <2>2. Ubicacion' /\ NadieSePierde
    BY <1>7, <1>t, <2>1, PoneUbicacion DEF ProcesoAColaNew, Colas, EnExit,
       HilosFijos
  <2> QED
    BY <1>7, <2>2, SiguenTodos DEF ProcesoAColaNew
<1>8. CASE ConsolaInicializaRecursos
  BY <1>8, <1>t, QuietoHilo DEF HilosFijos, ConsolaInicializaRecursos, EnExit
<1>9. CASE CambiaGrado
  BY <1>9, <1>t, QuietoHilo DEF HilosFijos, CambiaGrado, EnExit
<1>10. CASE FinalizarEnExec
  BY <1>10, <1>t, QuietoHilo DEF HilosFijos, FinalizarEnExec, EnExit
<1>11. CASE \E k \in 1 .. 4 : FinalizarEncuentra(k)
  <2> PICK k \in 1 .. 4 : FinalizarEncuentra(k)
    BY <1>11
  <2>1. pid_a_finalizar \in Pids /\ claves \subseteq Bloqueados
    BY <1>t DEF Inductivo, ArgumentoValido, FinalizarEncuentra, EtapaFin,
                SchedulerTypeOK
  <2> QED
    <3>1. pc["consola"] \notin SinFin
      BY DEF FinalizarEncuentra, EtapaFin, SinFin
    <3> QED
      BY <1>t, <2>1, <3>1, FinalizarEncuentraUbicacion
<1>12. CASE \E k \in 1 .. 4 : FinalizarNoEncuentra(k)
  <2> PICK k \in 1 .. 4 : FinalizarNoEncuentra(k)
    BY <1>12
  <2> QED
    BY <1>t, QuietoHilo DEF HilosFijos, FinalizarNoEncuentra, EtapaFin,
       Siguiente, EnExit
<1>13. CASE \E k \in 1 .. 4 : FinalizarAExit(k)
  <2> PICK k \in 1 .. 4 : FinalizarAExit(k)
    BY <1>13
  <2>1. /\ Pone("consola", "exit", "EXIT") /\ pc["consola"] \in ConMano
        /\ pc'["consola"] \notin EnExit \cup {"a_new"}
        /\ \A g \in Hilos \ {"consola"} : pc'[g] = pc[g]
    BY <1>t DEF FinalizarAExit, EtapaExit, EtapaFin, Siguiente, EnExit,
                HilosFijos
  <2> QED
    BY <1>t, <2>1, PoneUbicacion DEF FinalizarAExit, EtapaExit, Colas,
       HilosFijos, SinFin
<1>14. CASE FinalizarAvisaMemoria
  BY <1>14, <1>t, QuietoHilo DEF HilosFijos, FinalizarAvisaMemoria, EnExit
<1>15. CASE FinalizarLibera
  <2>1. LiberarRecursosDeProceso("consola", pid_a_finalizar, "comando")
    BY <1>15 DEF FinalizarLibera
  <2>2. pc["consola"] \notin SinFin
    BY <2>1 DEF SinFin, LiberarRecursosDeProceso, LiberarSacaDiccionario,
       LiberarCarga, LiberarGuarda, LiberarMira, LiberarSaca, LiberarPone,
       LiberarTermina
  <2> QED
    BY <1>15, <1>t, <2>1, <2>2, LiberarUbicacion DEF FinalizarLibera, Etiquetas,
       HilosFijos
<1> QED
  BY <1>1, <1>2, <1>3, <1>4, <1>5, <1>6, <1>7, <1>8, <1>9, <1>10, <1>11, <1>12,
     <1>13, <1>14, <1>15 DEF Orden, Ejecuta

\* Every step of the kernel keeps the processes apart, and loses none if
\* none of the three that may do it does.
LEMMA PasoUbicacion ==
  ASSUME Inductivo, Ubicacion, [Next]_vars
  PROVE  /\ Ubicacion'
         /\ /\ pc["consola"] \in SinFin
            /\ pc["interr"] = "bloq_pone" => tokens.arg \in claves \cup Interfaz
            /\ \A i \in Interfaz : pc[i] = "quita_cola" => huerfana[i] = << >>
            /\ TodosUbicados
            => TodosUbicados'
<1>1. CASE PasoLargo
  BY <1>1, LargoUbicacion, SiguenTodos DEF PasoLargo
<1>2. CASE PasoCorto
  BY <1>2, CortoUbicacion, SiguenTodos DEF PasoCorto
<1>3. CASE PasoInterr
  BY <1>3, InterrUbicacion, SiguenTodos DEF PasoInterr
<1>4. CASE \E i \in Interfaz : PasoInterfaz(i)
  BY <1>4, InterfazUbicacion, SiguenTodos DEF PasoInterfaz
<1>5. CASE PasoOrden \/ PasoConsola
  BY <1>5, ConsolaUbicacion DEF PasoOrden, PasoConsola
<1>6. CASE \/ PasoMemoria \/ PasoCPU \/ PasoOrdenPerdida
           \/ Reposo \/ UNCHANGED vars
  <2>1. UNCHANGED << schedVars, pc, consVars >>
    BY <1>6 DEF PasoMemoria, PasoCPU, PasoOrdenPerdida, Reposo, vars,
       MemoriaAtiende, CPUTermina, CPULlama, CPUDesaloja, CPUInterrumpe,
       CPUOlvidaOrden, kernelVars
  <2> QED
    BY <2>1, QuietoUbicacion, SiguenTodos DEF Inductivo, TypeOK
<1> QED
  BY <1>1, <1>2, <1>3, <1>4, <1>5, <1>6 DEF Next

\* At the start nobody is anywhere.
LEMMA InitUbicacion ==
  ASSUME Init
  PROVE  Ubicacion
<1>1. /\ \A q \in Colas : colas[q] = << >>
      /\ \A i \in Interfaz : huerfana[i] = << >>
      /\ \A h \in Hilos : mano[h] = Nadie
      /\ proceso_ejecutando = Nadie /\ numero_de_procesos = 0
      /\ \A p \in Pids : estado[p] = "NEW"
  BY DEF Init, InitScheduler
<1>2. /\ \A p : ~ Contains(<< >>, p)
      /\ IsInjective(<< >>)
  BY DEF Contains, IsInjective
<1>3. ASSUME NEW p \in Pids, NEW l \in Sitios, Esta(p, l)
      PROVE  FALSE
  <2>0. p # Nadie
    BY DEF Pids, Nadie
  <2>1. CASE \E q \in Colas : l = << "cola", q >>
    BY <1>1, <1>2, <1>3, <2>1 DEF Esta
  <2>2. CASE \E i \in Interfaz : l = << "huerfana", i >>
    BY <1>1, <1>2, <1>3, <2>2 DEF Esta
  <2>3. CASE \E h \in Hilos : l = << "mano", h >>
    BY <1>1, <1>3, <2>0, <2>3 DEF Esta
  <2>4. CASE l = << "exec", "exec" >>
    BY <1>1, <1>3, <2>0, <2>4 DEF Esta
  <2> QED
    BY <2>1, <2>2, <2>3, <2>4, CadaSitio
<1>4. ManoJusta
  <2>1. pc["consola"] = "comando"
    BY DEF Init, Hilos, HilosFijos
  <2> QED
    BY <1>1, <2>1 DEF ManoJusta, EnExit
<1>5. SinRepetidos
  BY <1>1, <1>2 DEF SinRepetidos
<1> QED
  BY <1>1, <1>3, <1>4, <1>5 DEF Ubicacion, UnSitio, SinCrear, Ubicado,
     EstadoNuevo

(* What this means for the places of a process. *)

\* An entry of Lugares is a position in a list, a hand or EXEC.
LEMMA CadaLugar ==
  ASSUME NEW p \in Pids, NEW m
  PROVE  m \in Lugares(p) <=>
         \/ \E q \in Colas : \E k \in 1 .. Len(colas[q]) :
               m = << "cola", q, k >> /\ colas[q][k] = p
         \/ \E i \in Interfaz : \E k \in 1 .. Len(huerfana[i]) :
               m = << "huerfana", i, k >> /\ huerfana[i][k] = p
         \/ \E h \in Hilos : m = << "mano", h, 0 >> /\ mano[h] = p
         \/ m = << "exec", "exec", 0 >> /\ proceso_ejecutando = p
<1>1. m \in EnColas(p) <=> \E q \in Colas : \E k \in 1 .. Len(colas[q]) :
                   m = << "cola", q, k >> /\ colas[q][k] = p
  BY DEF EnColas
<1>2. m \in EnHuerfanas(p) <=> \E i \in Interfaz : \E k \in 1 .. Len(huerfana[i]) :
                   m = << "huerfana", i, k >> /\ huerfana[i][k] = p
  BY DEF EnHuerfanas
<1>3. m \in EnUnaMano(p) <=> \E h \in Hilos : m = << "mano", h, 0 >> /\ mano[h] = p
  BY DEF EnUnaMano
<1>4. m \in EnExec(p) <=> m = << "exec", "exec", 0 >> /\ proceso_ejecutando = p
  BY DEF EnExec
<1> QED
  BY <1>1, <1>2, <1>3, <1>4 DEF Lugares

\* So it is in one of the places of Sitios.
LEMMA LugarEnSitio ==
  ASSUME NEW p \in Pids, NEW m \in Lugares(p)
  PROVE  << m[1], m[2] >> \in Sitios /\ Esta(p, << m[1], m[2] >>)
<1>1. CASE \E q \in Colas : \E k \in 1 .. Len(colas[q]) :
              m = << "cola", q, k >> /\ colas[q][k] = p
  <2> PICK q \in Colas : \E k \in 1 .. Len(colas[q]) :
              m = << "cola", q, k >> /\ colas[q][k] = p
    BY <1>1
  <2> PICK k \in 1 .. Len(colas[q]) :
              m = << "cola", q, k >> /\ colas[q][k] = p
    OBVIOUS
  <2>1. Contains(colas[q], p) /\ << m[1], m[2] >> = << "cola", q >>
    BY DEF Contains
  <2> QED
    BY <2>1, SonSitios DEF Esta
<1>2. CASE \E i \in Interfaz : \E k \in 1 .. Len(huerfana[i]) :
              m = << "huerfana", i, k >> /\ huerfana[i][k] = p
  <2> PICK i \in Interfaz : \E k \in 1 .. Len(huerfana[i]) :
              m = << "huerfana", i, k >> /\ huerfana[i][k] = p
    BY <1>2
  <2> PICK k \in 1 .. Len(huerfana[i]) :
              m = << "huerfana", i, k >> /\ huerfana[i][k] = p
    OBVIOUS
  <2>1. Contains(huerfana[i], p) /\ << m[1], m[2] >> = << "huerfana", i >>
    BY DEF Contains
  <2> QED
    BY <2>1, SonSitios DEF Esta
<1>3. CASE \E h \in Hilos : m = << "mano", h, 0 >> /\ mano[h] = p
  BY <1>3, SonSitios DEF Esta
<1>4. CASE m = << "exec", "exec", 0 >> /\ proceso_ejecutando = p
  BY <1>4, SonSitios DEF Esta
<1> QED
  BY <1>1, <1>2, <1>3, <1>4, CadaLugar

\* In one place only, and at one position of it.
LEMMA UbicacionNuncaDoble ==
  ASSUME SchedulerTypeOK, Ubicacion
  PROVE  NuncaDoble
<1> SUFFICES ASSUME NEW p \in Pids, NEW l \in Lugares(p), NEW m \in Lugares(p)
             PROVE  l = m
  BY DEF NuncaDoble
<1>1. << l[1], l[2] >> = << m[1], m[2] >>
  BY LugarEnSitio DEF Ubicacion, UnSitio
<1>2. l[1] = m[1] /\ l[2] = m[2]
  BY <1>1
<1>3. CASE \E q \in Colas : \E k \in 1 .. Len(colas[q]) :
              l = << "cola", q, k >> /\ colas[q][k] = p
  <2> PICK q \in Colas : \E k \in 1 .. Len(colas[q]) :
              l = << "cola", q, k >> /\ colas[q][k] = p
    BY <1>3
  <2> PICK k \in 1 .. Len(colas[q]) :
              l = << "cola", q, k >> /\ colas[q][k] = p
    OBVIOUS
  <2>1. PICK j \in 1 .. Len(colas[q]) :
              m = << "cola", q, j >> /\ colas[q][j] = p
    BY <1>2, CadaLugar
  <2>2. k = j
    BY <2>1 DEF Ubicacion, SinRepetidos, IsInjective, SchedulerTypeOK
  <2> QED
    BY <2>1, <2>2
<1>4. CASE \E i \in Interfaz : \E k \in 1 .. Len(huerfana[i]) :
              l = << "huerfana", i, k >> /\ huerfana[i][k] = p
  <2> PICK i \in Interfaz : \E k \in 1 .. Len(huerfana[i]) :
              l = << "huerfana", i, k >> /\ huerfana[i][k] = p
    BY <1>4
  <2> PICK k \in 1 .. Len(huerfana[i]) :
              l = << "huerfana", i, k >> /\ huerfana[i][k] = p
    OBVIOUS
  <2>1. PICK j \in 1 .. Len(huerfana[i]) :
              m = << "huerfana", i, j >> /\ huerfana[i][j] = p
    BY <1>2, CadaLugar
  <2>2. k = j
    BY <2>1 DEF Ubicacion, SinRepetidos, IsInjective, SchedulerTypeOK
  <2> QED
    BY <2>1, <2>2
<1>5. CASE \E h \in Hilos : l = << "mano", h, 0 >> /\ mano[h] = p
  <2> PICK h \in Hilos : l = << "mano", h, 0 >>
    BY <1>5
  <2> QED
    BY <1>2, CadaLugar
<1>6. CASE l = << "exec", "exec", 0 >>
  BY <1>2, <1>6, CadaLugar
<1> QED
  BY <1>3, <1>4, <1>5, <1>6, CadaLugar

\* And in one at least, if nobody was lost.
LEMMA UbicadosUnSoloLugar ==
  ASSUME Inductivo, Ubicacion, TodosUbicados
  PROVE  UnSoloLugar
<1> SUFFICES ASSUME NEW p \in Creados
             PROVE  \E l \in Lugares(p) : Lugares(p) = {l}
  BY DEF UnSoloLugar
<1>1. SchedulerTypeOK /\ p \in Pids
  BY ParametrosKernel DEF Inductivo, TypeOK, LocalesTypeOK, Creados, Pids
<1>2. PICK l \in Sitios : Esta(p, l)
  BY DEF TodosUbicados, Ubicado
<1>3. \E m : m \in Lugares(p)
  <2>1. CASE \E q \in Colas : l = << "cola", q >>
    <3> PICK q \in Colas : l = << "cola", q >>
      BY <2>1
    <3>1. Contains(colas[q], p)
      BY <1>2 DEF Esta
    <3>2. PICK k \in 1 .. Len(colas[q]) : colas[q][k] = p
      BY <3>1 DEF Contains
    <3>3. << "cola", q, k >> \in Lugares(p)
      BY <1>1, <3>2, CadaLugar
    <3> QED
      BY <3>3
  <2>2. CASE \E i \in Interfaz : l = << "huerfana", i >>
    <3> PICK i \in Interfaz : l = << "huerfana", i >>
      BY <2>2
    <3>1. Contains(huerfana[i], p)
      BY <1>2 DEF Esta
    <3>2. PICK k \in 1 .. Len(huerfana[i]) : huerfana[i][k] = p
      BY <3>1 DEF Contains
    <3>3. << "huerfana", i, k >> \in Lugares(p)
      BY <1>1, <3>2, CadaLugar
    <3> QED
      BY <3>3
  <2>3. CASE \E h \in Hilos : l = << "mano", h >>
    <3> PICK h \in Hilos : l = << "mano", h >>
      BY <2>3
    <3>1. mano[h] = p
      BY <1>2 DEF Esta
    <3>2. << "mano", h, 0 >> \in Lugares(p)
      BY <1>1, <3>1, CadaLugar
    <3> QED
      BY <3>2
  <2>4. CASE l = << "exec", "exec" >>
    <3>1. proceso_ejecutando = p
      BY <1>2, <2>4 DEF Esta
    <3>2. << "exec", "exec", 0 >> \in Lugares(p)
      BY <1>1, <3>1, CadaLugar
    <3> QED
      BY <3>2
  <2> QED
    BY <2>1, <2>2, <2>3, <2>4, CadaSitio
<1>4. PICK m \in Lugares(p) : TRUE
  BY <1>3
<1>5. \A n \in Lugares(p) : n = m
  BY <1>1, UbicacionNuncaDoble DEF NuncaDoble
<1> QED
  BY <1>4, <1>5
=============================================================================
