---------------------------- MODULE PruebaConteo ----------------------------
(****************************************************************************)
(* What ties the threads to each other, and the counts that rest on it: the *)
(* tokens of the degree, the posts of the ready queues, the posts of the    *)
(* interfaces and those of the resume command.  Then who is loaded in the   *)
(* memory, and where the kernel may die.                                    *)
(****************************************************************************)
EXTENDS PruebaHilos

USE NombresDistintos
USE DEF En, Sigue, semVars, planVars, schedVars, recVars, memVars, cpuVars,
        ioVars, conVars, consVars, otras, ConMano

(* What ties the threads to each other. *)

\* A thread stops only while scheduling is stopped, and consumes no post but
\* its own.
LEMMA DetenidoQuieto ==
  ASSUME Inductivo, NadieQuedaDetenido, NEW h \in Hilos,
         \A g \in Hilos \ {h} : pc'[g] = pc[g] \/ pc'[g] # "pausa",
         UNCHANGED estado_planificacion_activa,
         \A g \in Pausables \ {h} : sem_comando'[g] = sem_comando[g],
         \/ pc'[h] # "pausa"
         \/ pc'[h] = "pausa" /\ ~ estado_planificacion_activa
  PROVE  NadieQuedaDetenido'
BY DEF NadieQuedaDetenido, Pausables

\* A step of a thread that is neither the handler nor an interface.
LEMMA EnlaceQuieto ==
  ASSUME Inductivo, Enlace, NadieQuedaDetenido',
         \A g \in Interfaz \cup {"interr"} : pc'[g] = pc[g],
         UNCHANGED << interfaces, huerfana, claves, tokens >>
  PROVE  Enlace'
<1>1. InterfazViva'
  BY DEF Enlace, InterfazViva
<1>2. ListaTomada'
  BY DEF Enlace, ListaTomada
<1>3. BloqueoConLista'
  BY DEF Enlace, BloqueoConLista
<1>4. OperacionDeIO'
  BY DEF Enlace, OperacionDeIO
<1> QED
  BY <1>1, <1>2, <1>3, <1>4 DEF Enlace

\* A step of the handler: what it works with is of its operation.
LEMMA EnlaceInterr ==
  ASSUME Inductivo, Enlace, NadieQuedaDetenido',
         \A i \in Interfaz : pc'[i] = pc[i],
         UNCHANGED interfaces,
         BloqueoConLista', OperacionDeIO',
         \A i \in Interfaz : huerfana'[i] # huerfana[i] =>
            /\ pc["interr"] = "bloq_pone" /\ tokens.arg \notin claves
            /\ i = tokens.arg
  PROVE  Enlace'
<1>1. InterfazViva'
  BY DEF Enlace, InterfazViva
<1>2. ListaTomada'
  BY DEF Enlace, ListaTomada, BloqueoConLista
<1> QED
  BY <1>1, <1>2 DEF Enlace

\* The long term scheduler.
LEMMA LargoEnlace ==
  ASSUME Inductivo, Enlace, Largo, UNCHANGED otras
  PROVE  Enlace'
<1>t. /\ pc \in [Hilos -> Etiquetas] /\ SchedulerTypeOK /\ SemaforosTypeOK
      /\ ConexionesTypeOK /\ HilosFijos \subseteq Hilos /\ Interfaz \subseteq Hilos
      /\ Interfaz \cap HilosFijos = {} /\ Pausables = Hilos \ {"consola"}
  BY DEF Inductivo, TypeOK, Hilos, Pausables
<1>1. CASE LargoTomaCupo
  <2>1. NadieQuedaDetenido'
    BY <1>1, <1>t, DetenidoQuieto DEF Enlace, HilosFijos, SemaforosTypeOK,
       LargoTomaCupo, SigueSiActiva
  <2>2. /\ \A g \in Interfaz \cup {"interr"} : pc'[g] = pc[g]
        /\ UNCHANGED << interfaces, huerfana, claves, tokens >>
    BY <1>1, <1>t DEF HilosFijos, LargoTomaCupo, SigueSiActiva, Saca, Pone,
       SacaDeExec, PoneEnExec
  <2> QED
    BY <2>1, <2>2, EnlaceQuieto
<1>2. CASE LargoReanuda
  <2>1. NadieQuedaDetenido'
    BY <1>2, <1>t, DetenidoQuieto DEF Enlace, HilosFijos, SemaforosTypeOK,
       LargoReanuda, SaleDePausa
  <2>2. /\ \A g \in Interfaz \cup {"interr"} : pc'[g] = pc[g]
        /\ UNCHANGED << interfaces, huerfana, claves, tokens >>
    BY <1>2, <1>t DEF HilosFijos, LargoReanuda, SaleDePausa, Saca, Pone,
       SacaDeExec, PoneEnExec
  <2> QED
    BY <2>1, <2>2, EnlaceQuieto
<1>3. CASE LargoConfirma
  <2>1. NadieQuedaDetenido'
    BY <1>3, <1>t, DetenidoQuieto DEF Enlace, HilosFijos, SemaforosTypeOK,
       LargoConfirma
  <2>2. /\ \A g \in Interfaz \cup {"interr"} : pc'[g] = pc[g]
        /\ UNCHANGED << interfaces, huerfana, claves, tokens >>
    BY <1>3, <1>t DEF HilosFijos, LargoConfirma, Saca, Pone, SacaDeExec,
       PoneEnExec
  <2> QED
    BY <2>1, <2>2, EnlaceQuieto
<1>4. CASE LargoEsperaNew
  <2>1. NadieQuedaDetenido'
    BY <1>4, <1>t, DetenidoQuieto DEF Enlace, HilosFijos, SemaforosTypeOK,
       LargoEsperaNew
  <2>2. /\ \A g \in Interfaz \cup {"interr"} : pc'[g] = pc[g]
        /\ UNCHANGED << interfaces, huerfana, claves, tokens >>
    BY <1>4, <1>t DEF HilosFijos, LargoEsperaNew, Saca, Pone, SacaDeExec,
       PoneEnExec
  <2> QED
    BY <2>1, <2>2, EnlaceQuieto
<1>5. CASE LargoSaca
  <2>1. NadieQuedaDetenido'
    BY <1>5, <1>t, DetenidoQuieto DEF Enlace, HilosFijos, SemaforosTypeOK,
       LargoSaca
  <2>2. /\ \A g \in Interfaz \cup {"interr"} : pc'[g] = pc[g]
        /\ UNCHANGED << interfaces, huerfana, claves, tokens >>
    BY <1>5, <1>t DEF HilosFijos, LargoSaca, Saca, Pone, SacaDeExec, PoneEnExec
  <2> QED
    BY <2>1, <2>2, EnlaceQuieto
<1>6. CASE LargoSacaNada
  <2>1. NadieQuedaDetenido'
    BY <1>6, <1>t, DetenidoQuieto DEF Enlace, HilosFijos, SemaforosTypeOK,
       LargoSacaNada
  <2>2. /\ \A g \in Interfaz \cup {"interr"} : pc'[g] = pc[g]
        /\ UNCHANGED << interfaces, huerfana, claves, tokens >>
    BY <1>6, <1>t DEF HilosFijos, LargoSacaNada, Saca, Pone, SacaDeExec,
       PoneEnExec
  <2> QED
    BY <2>1, <2>2, EnlaceQuieto
<1>7. CASE LargoPone
  <2>1. NadieQuedaDetenido'
    BY <1>7, <1>t, DetenidoQuieto DEF Enlace, HilosFijos, SemaforosTypeOK,
       LargoPone
  <2>2. /\ \A g \in Interfaz \cup {"interr"} : pc'[g] = pc[g]
        /\ UNCHANGED << interfaces, huerfana, claves, tokens >>
    BY <1>7, <1>t DEF HilosFijos, LargoPone, Saca, Pone, SacaDeExec, PoneEnExec
  <2> QED
    BY <2>1, <2>2, EnlaceQuieto
<1>8. CASE LargoCuenta
  <2>1. NadieQuedaDetenido'
    BY <1>8, <1>t, DetenidoQuieto DEF Enlace, HilosFijos, SemaforosTypeOK,
       LargoCuenta
  <2>2. /\ \A g \in Interfaz \cup {"interr"} : pc'[g] = pc[g]
        /\ UNCHANGED << interfaces, huerfana, claves, tokens >>
    BY <1>8, <1>t DEF HilosFijos, LargoCuenta, Saca, Pone, SacaDeExec,
       PoneEnExec
  <2> QED
    BY <2>1, <2>2, EnlaceQuieto
<1> QED
  BY <1>1, <1>2, <1>3, <1>4, <1>5, <1>6, <1>7, <1>8 DEF Largo

\* The dispatcher.
LEMMA CortoEnlace ==
  ASSUME Inductivo, Enlace, Corto, UNCHANGED otras
  PROVE  Enlace'
<1>t. /\ pc \in [Hilos -> Etiquetas] /\ SchedulerTypeOK /\ SemaforosTypeOK
      /\ ConexionesTypeOK /\ HilosFijos \subseteq Hilos /\ Interfaz \subseteq Hilos
      /\ Interfaz \cap HilosFijos = {} /\ Pausables = Hilos \ {"consola"}
  BY DEF Inductivo, TypeOK, Hilos, Pausables
<1>1. CASE CortoToma
  <2>1. NadieQuedaDetenido'
    BY <1>1, <1>t, DetenidoQuieto DEF Enlace, HilosFijos, SemaforosTypeOK,
       CortoToma, SigueSiActiva, Entrada
  <2>2. /\ \A g \in Interfaz \cup {"interr"} : pc'[g] = pc[g]
        /\ UNCHANGED << interfaces, huerfana, claves, tokens >>
    BY <1>1, <1>t DEF HilosFijos, CortoToma, SigueSiActiva, Entrada, Saca, Pone,
       SacaDeExec, PoneEnExec
  <2> QED
    BY <2>1, <2>2, EnlaceQuieto
<1>2. CASE CortoReanuda
  <2>1. NadieQuedaDetenido'
    BY <1>2, <1>t, DetenidoQuieto DEF Enlace, HilosFijos, SemaforosTypeOK,
       CortoReanuda, SaleDePausa, Entrada
  <2>2. /\ \A g \in Interfaz \cup {"interr"} : pc'[g] = pc[g]
        /\ UNCHANGED << interfaces, huerfana, claves, tokens >>
    BY <1>2, <1>t DEF HilosFijos, CortoReanuda, SaleDePausa, Entrada, Saca,
       Pone, SacaDeExec, PoneEnExec
  <2> QED
    BY <2>1, <2>2, EnlaceQuieto
<1>3. CASE CortoElige
  <2>1. NadieQuedaDetenido'
    BY <1>3, <1>t, DetenidoQuieto DEF Enlace, HilosFijos, SemaforosTypeOK,
       CortoElige
  <2>2. /\ \A g \in Interfaz \cup {"interr"} : pc'[g] = pc[g]
        /\ UNCHANGED << interfaces, huerfana, claves, tokens >>
    BY <1>3, <1>t DEF HilosFijos, CortoElige, Saca, Pone, SacaDeExec, PoneEnExec
  <2> QED
    BY <2>1, <2>2, EnlaceQuieto
<1>4. CASE CortoSacaAux
  <2>1. NadieQuedaDetenido'
    BY <1>4, <1>t, DetenidoQuieto DEF Enlace, HilosFijos, SemaforosTypeOK,
       CortoSacaAux
  <2>2. /\ \A g \in Interfaz \cup {"interr"} : pc'[g] = pc[g]
        /\ UNCHANGED << interfaces, huerfana, claves, tokens >>
    BY <1>4, <1>t DEF HilosFijos, CortoSacaAux, Saca, Pone, SacaDeExec,
       PoneEnExec
  <2> QED
    BY <2>1, <2>2, EnlaceQuieto
<1>5. CASE CortoSacaReady
  <2>1. NadieQuedaDetenido'
    BY <1>5, <1>t, DetenidoQuieto DEF Enlace, HilosFijos, SemaforosTypeOK,
       CortoSacaReady
  <2>2. /\ \A g \in Interfaz \cup {"interr"} : pc'[g] = pc[g]
        /\ UNCHANGED << interfaces, huerfana, claves, tokens >>
    BY <1>5, <1>t DEF HilosFijos, CortoSacaReady, Saca, Pone, SacaDeExec,
       PoneEnExec
  <2> QED
    BY <2>1, <2>2, EnlaceQuieto
<1>6. CASE CortoDespacha
  <2>1. NadieQuedaDetenido'
    BY <1>6, <1>t, DetenidoQuieto DEF Enlace, HilosFijos, SemaforosTypeOK,
       CortoDespacha
  <2>2. /\ \A g \in Interfaz \cup {"interr"} : pc'[g] = pc[g]
        /\ UNCHANGED << interfaces, huerfana, claves, tokens >>
    BY <1>6, <1>t DEF HilosFijos, CortoDespacha, Saca, Pone, SacaDeExec,
       PoneEnExec
  <2> QED
    BY <2>1, <2>2, EnlaceQuieto
<1> QED
  BY <1>1, <1>2, <1>3, <1>4, <1>5, <1>6 DEF Corto

\* liberar_recursos_de_proceso: who runs it stays in it until it is done.
LEMMA LiberarQuieto ==
  ASSUME Inductivo, NEW h \in Hilos, NEW p, NEW dest \in Etiquetas,
         LiberarRecursosDeProceso(h, p, dest)
  PROVE  /\ \A g \in Hilos \ {h} : pc'[g] = pc[g]
         /\ pc[h] \in {"lib_dicc", "lib_carga", "lib_guarda", "lib_mira",
                       "lib_saca", "lib_pone"}
         /\ pc'[h] \in {"lib_dicc", "lib_carga", "lib_guarda", "lib_mira",
                        "lib_saca", "lib_pone", dest}
         /\ UNCHANGED << semVars, planVars, huerfana, claves, proceso_ejecutando >>
<1>1. pc \in [Hilos -> Etiquetas]
  BY DEF Inductivo, TypeOK
<1> QED
  BY <1>1 DEF LiberarRecursosDeProceso, LiberarSacaDiccionario, LiberarCarga,
     LiberarGuarda, LiberarMira, LiberarSaca, LiberarPone, LiberarTermina, Saca,
     Pone

\* The handler of the contexts.
LEMMA InterrEnlace ==
  ASSUME Inductivo, Enlace, Interr, UNCHANGED << pcb_io, consVars >>
  PROVE  Enlace'
<1>t. /\ pc \in [Hilos -> Etiquetas] /\ SchedulerTypeOK /\ SemaforosTypeOK
      /\ ConexionesTypeOK /\ HilosFijos \subseteq Hilos /\ Interfaz \subseteq Hilos
      /\ Interfaz \cap HilosFijos = {} /\ Pausables = Hilos \ {"consola"}
  BY DEF Inductivo, TypeOK, Hilos, Pausables
<1>c. /\ Caso(tokens) \in {"fin_term", "desaloja", "io", "asigna"}
      /\ Caso(tokens) = "io" => tokens.op = "IO"
  BY DEF Caso, OpsDeFin, Inductivo, TypeOK, LocalesTypeOK, Instruccion,
     Operaciones
<1>1. CASE InterrRecibe
  <2>1. /\ \A g \in Hilos \ {"interr"} : pc'[g] = pc[g]
        /\ UNCHANGED interfaces
        /\ UNCHANGED huerfana
    BY <1>1, <1>t DEF HilosFijos, SchedulerTypeOK, InterrRecibe, Saca, Pone,
       SacaDeExec, PoneEnExec
  <2>2. NadieQuedaDetenido'
    BY <1>1, <1>t, <1>c, DetenidoQuieto DEF Enlace, HilosFijos, SemaforosTypeOK,
       InterrRecibe
  <2>3. BloqueoConLista' /\ OperacionDeIO'
    BY <1>1, <1>t, <1>c DEF Enlace, Inductivo, ArgumentoValido, BloqueoConLista,
       OperacionDeIO, SinTokens, OpsDeFin, HilosFijos, Bloqueados, InterrRecibe
  <2> QED
    BY <1>t, <2>1, <2>2, <2>3, EnlaceInterr DEF HilosFijos
<1>2. CASE InterrActiva
  <2>1. /\ \A g \in Hilos \ {"interr"} : pc'[g] = pc[g]
        /\ UNCHANGED interfaces
        /\ UNCHANGED huerfana
    BY <1>2, <1>t DEF HilosFijos, SchedulerTypeOK, InterrActiva, SigueSiActiva,
       Saca, Pone, SacaDeExec, PoneEnExec
  <2>2. NadieQuedaDetenido'
    BY <1>2, <1>t, <1>c, DetenidoQuieto DEF Enlace, HilosFijos, SemaforosTypeOK,
       InterrActiva, SigueSiActiva
  <2>3. BloqueoConLista' /\ OperacionDeIO'
    BY <1>2, <1>t, <1>c DEF Enlace, Inductivo, ArgumentoValido, BloqueoConLista,
       OperacionDeIO, SinTokens, OpsDeFin, HilosFijos, Bloqueados, InterrActiva,
       SigueSiActiva
  <2> QED
    BY <1>t, <2>1, <2>2, <2>3, EnlaceInterr DEF HilosFijos
<1>3. CASE InterrReanuda
  <2>1. /\ \A g \in Hilos \ {"interr"} : pc'[g] = pc[g]
        /\ UNCHANGED interfaces
        /\ UNCHANGED huerfana
    BY <1>3, <1>t DEF HilosFijos, SchedulerTypeOK, InterrReanuda, SaleDePausa,
       Saca, Pone, SacaDeExec, PoneEnExec
  <2>2. NadieQuedaDetenido'
    BY <1>3, <1>t, <1>c, DetenidoQuieto DEF Enlace, HilosFijos, SemaforosTypeOK,
       InterrReanuda, SaleDePausa
  <2>3. BloqueoConLista' /\ OperacionDeIO'
    BY <1>3, <1>t, <1>c DEF Enlace, Inductivo, ArgumentoValido, BloqueoConLista,
       OperacionDeIO, SinTokens, OpsDeFin, HilosFijos, Bloqueados,
       InterrReanuda, SaleDePausa
  <2> QED
    BY <1>t, <2>1, <2>2, <2>3, EnlaceInterr DEF HilosFijos
<1>4. CASE InterrAvisaMemoria
  <2>1. /\ \A g \in Hilos \ {"interr"} : pc'[g] = pc[g]
        /\ UNCHANGED interfaces
        /\ UNCHANGED huerfana
    BY <1>4, <1>t DEF HilosFijos, SchedulerTypeOK, InterrAvisaMemoria, Saca,
       Pone, SacaDeExec, PoneEnExec
  <2>2. NadieQuedaDetenido'
    BY <1>4, <1>t, <1>c, DetenidoQuieto DEF Enlace, HilosFijos, SemaforosTypeOK,
       InterrAvisaMemoria
  <2>3. BloqueoConLista' /\ OperacionDeIO'
    BY <1>4, <1>t, <1>c DEF Enlace, Inductivo, ArgumentoValido, BloqueoConLista,
       OperacionDeIO, SinTokens, OpsDeFin, HilosFijos, Bloqueados,
       InterrAvisaMemoria
  <2> QED
    BY <1>t, <2>1, <2>2, <2>3, EnlaceInterr DEF HilosFijos
<1>5. CASE InterrLibera
  <2>1. /\ \A g \in Hilos \ {"interr"} : pc'[g] = pc[g]
        /\ pc'["interr"] \in {"lib_dicc", "lib_carga", "lib_guarda",
                              "lib_mira", "lib_saca", "lib_pone", "fin_saca"}
        /\ UNCHANGED << semVars, planVars, huerfana, claves, conVars, tokens >>
    BY <1>5, <1>t, LiberarQuieto DEF InterrLibera, Etiquetas, HilosFijos
  <2>2. NadieQuedaDetenido'
    BY <1>t, <2>1, DetenidoQuieto DEF Enlace, HilosFijos
  <2>3. BloqueoConLista' /\ OperacionDeIO'
    BY <2>1 DEF BloqueoConLista, OperacionDeIO
  <2> QED
    BY <1>t, <2>1, <2>2, <2>3, EnlaceInterr DEF HilosFijos
<1>6. CASE InterrFinSaca
  <2>1. /\ \A g \in Hilos \ {"interr"} : pc'[g] = pc[g]
        /\ UNCHANGED interfaces
        /\ UNCHANGED huerfana
    BY <1>6, <1>t DEF HilosFijos, SchedulerTypeOK, InterrFinSaca, Saca, Pone,
       SacaDeExec, PoneEnExec
  <2>2. NadieQuedaDetenido'
    BY <1>6, <1>t, <1>c, DetenidoQuieto DEF Enlace, HilosFijos, SemaforosTypeOK,
       InterrFinSaca
  <2>3. BloqueoConLista' /\ OperacionDeIO'
    BY <1>6, <1>t, <1>c DEF Enlace, Inductivo, ArgumentoValido, BloqueoConLista,
       OperacionDeIO, SinTokens, OpsDeFin, HilosFijos, Bloqueados, InterrFinSaca
  <2> QED
    BY <1>t, <2>1, <2>2, <2>3, EnlaceInterr DEF HilosFijos
<1>7. CASE InterrFinPone
  <2>1. /\ \A g \in Hilos \ {"interr"} : pc'[g] = pc[g]
        /\ UNCHANGED interfaces
        /\ UNCHANGED huerfana
    BY <1>7, <1>t DEF HilosFijos, SchedulerTypeOK, InterrFinPone, Saca, Pone,
       SacaDeExec, PoneEnExec
  <2>2. NadieQuedaDetenido'
    BY <1>7, <1>t, <1>c, DetenidoQuieto DEF Enlace, HilosFijos, SemaforosTypeOK,
       InterrFinPone
  <2>3. BloqueoConLista' /\ OperacionDeIO'
    BY <1>7, <1>t, <1>c DEF Enlace, Inductivo, ArgumentoValido, BloqueoConLista,
       OperacionDeIO, SinTokens, OpsDeFin, HilosFijos, Bloqueados, InterrFinPone
  <2> QED
    BY <1>t, <2>1, <2>2, <2>3, EnlaceInterr DEF HilosFijos
<1>8. CASE InterrAumentaMira
  <2>1. /\ \A g \in Hilos \ {"interr"} : pc'[g] = pc[g]
        /\ UNCHANGED interfaces
        /\ UNCHANGED huerfana
    BY <1>8, <1>t DEF HilosFijos, SchedulerTypeOK, InterrAumentaMira, Saca,
       Pone, SacaDeExec, PoneEnExec
  <2>2. NadieQuedaDetenido'
    BY <1>8, <1>t, <1>c, DetenidoQuieto DEF Enlace, HilosFijos, SemaforosTypeOK,
       InterrAumentaMira
  <2>3. BloqueoConLista' /\ OperacionDeIO'
    BY <1>8, <1>t, <1>c DEF Enlace, Inductivo, ArgumentoValido, BloqueoConLista,
       OperacionDeIO, SinTokens, OpsDeFin, HilosFijos, Bloqueados,
       InterrAumentaMira
  <2> QED
    BY <1>t, <2>1, <2>2, <2>3, EnlaceInterr DEF HilosFijos
<1>9. CASE InterrAumentaResta
  <2>1. /\ \A g \in Hilos \ {"interr"} : pc'[g] = pc[g]
        /\ UNCHANGED interfaces
        /\ UNCHANGED huerfana
    BY <1>9, <1>t DEF HilosFijos, SchedulerTypeOK, InterrAumentaResta, Saca,
       Pone, SacaDeExec, PoneEnExec
  <2>2. NadieQuedaDetenido'
    BY <1>9, <1>t, <1>c, DetenidoQuieto DEF Enlace, HilosFijos, SemaforosTypeOK,
       InterrAumentaResta
  <2>3. BloqueoConLista' /\ OperacionDeIO'
    BY <1>9, <1>t, <1>c DEF Enlace, Inductivo, ArgumentoValido, BloqueoConLista,
       OperacionDeIO, SinTokens, OpsDeFin, HilosFijos, Bloqueados,
       InterrAumentaResta
  <2> QED
    BY <1>t, <2>1, <2>2, <2>3, EnlaceInterr DEF HilosFijos
<1>10. CASE InterrRecursoInvalido
  <2>1. /\ \A g \in Hilos \ {"interr"} : pc'[g] = pc[g]
        /\ UNCHANGED interfaces
        /\ UNCHANGED huerfana
    BY <1>10, <1>t DEF HilosFijos, SchedulerTypeOK, InterrRecursoInvalido, Saca,
       Pone, SacaDeExec, PoneEnExec
  <2>2. NadieQuedaDetenido'
    BY <1>10, <1>t, <1>c, DetenidoQuieto DEF Enlace, HilosFijos,
       SemaforosTypeOK, InterrRecursoInvalido
  <2>3. BloqueoConLista' /\ OperacionDeIO'
    BY <1>10, <1>t, <1>c DEF Enlace, Inductivo, ArgumentoValido,
       BloqueoConLista, OperacionDeIO, SinTokens, OpsDeFin, HilosFijos,
       Bloqueados, InterrRecursoInvalido
  <2> QED
    BY <1>t, <2>1, <2>2, <2>3, EnlaceInterr DEF HilosFijos
<1>11. CASE InterrDesalojaSaca
  <2>1. /\ \A g \in Hilos \ {"interr"} : pc'[g] = pc[g]
        /\ UNCHANGED interfaces
        /\ UNCHANGED huerfana
    BY <1>11, <1>t DEF HilosFijos, SchedulerTypeOK, InterrDesalojaSaca, Saca,
       Pone, SacaDeExec, PoneEnExec
  <2>2. NadieQuedaDetenido'
    BY <1>11, <1>t, <1>c, DetenidoQuieto DEF Enlace, HilosFijos,
       SemaforosTypeOK, InterrDesalojaSaca
  <2>3. BloqueoConLista' /\ OperacionDeIO'
    BY <1>11, <1>t, <1>c DEF Enlace, Inductivo, ArgumentoValido,
       BloqueoConLista, OperacionDeIO, SinTokens, OpsDeFin, HilosFijos,
       Bloqueados, InterrDesalojaSaca
  <2> QED
    BY <1>t, <2>1, <2>2, <2>3, EnlaceInterr DEF HilosFijos
<1>12. CASE InterrDesalojaPone
  <2>1. /\ \A g \in Hilos \ {"interr"} : pc'[g] = pc[g]
        /\ UNCHANGED interfaces
        /\ UNCHANGED huerfana
    BY <1>12, <1>t DEF HilosFijos, SchedulerTypeOK, InterrDesalojaPone, Saca,
       Pone, SacaDeExec, PoneEnExec
  <2>2. NadieQuedaDetenido'
    BY <1>12, <1>t, <1>c, DetenidoQuieto DEF Enlace, HilosFijos,
       SemaforosTypeOK, InterrDesalojaPone
  <2>3. BloqueoConLista' /\ OperacionDeIO'
    BY <1>12, <1>t, <1>c DEF Enlace, Inductivo, ArgumentoValido,
       BloqueoConLista, OperacionDeIO, SinTokens, OpsDeFin, HilosFijos,
       Bloqueados, InterrDesalojaPone
  <2> QED
    BY <1>t, <2>1, <2>2, <2>3, EnlaceInterr DEF HilosFijos
<1>13. CASE InterrIO
  <2>1. /\ \A g \in Hilos \ {"interr"} : pc'[g] = pc[g]
        /\ UNCHANGED interfaces
        /\ UNCHANGED huerfana
    BY <1>13, <1>t DEF HilosFijos, SchedulerTypeOK, InterrIO, Saca, Pone,
       SacaDeExec, PoneEnExec
  <2>2. NadieQuedaDetenido'
    BY <1>13, <1>t, <1>c, DetenidoQuieto DEF Enlace, HilosFijos,
       SemaforosTypeOK, InterrIO
  <2>3. BloqueoConLista' /\ OperacionDeIO'
    BY <1>13, <1>t, <1>c DEF Enlace, Inductivo, ArgumentoValido,
       BloqueoConLista, OperacionDeIO, SinTokens, OpsDeFin, HilosFijos,
       Bloqueados, InterrIO
  <2> QED
    BY <1>t, <2>1, <2>2, <2>3, EnlaceInterr DEF HilosFijos
<1>14. CASE InterrAgregaInstruccion
  <2>1. /\ \A g \in Hilos \ {"interr"} : pc'[g] = pc[g]
        /\ UNCHANGED interfaces
        /\ UNCHANGED huerfana
    BY <1>14, <1>t DEF HilosFijos, SchedulerTypeOK, InterrAgregaInstruccion,
       Saca, Pone, SacaDeExec, PoneEnExec
  <2>2. NadieQuedaDetenido'
    BY <1>14, <1>t, <1>c, DetenidoQuieto DEF Enlace, HilosFijos,
       SemaforosTypeOK, InterrAgregaInstruccion
  <2>3. BloqueoConLista' /\ OperacionDeIO'
    BY <1>14, <1>t, <1>c DEF Enlace, Inductivo, ArgumentoValido,
       BloqueoConLista, OperacionDeIO, SinTokens, OpsDeFin, HilosFijos,
       Bloqueados, InterrAgregaInstruccion
  <2> QED
    BY <1>t, <2>1, <2>2, <2>3, EnlaceInterr DEF HilosFijos
<1>15. CASE InterrBloqueaSaca
  <2>1. /\ \A g \in Hilos \ {"interr"} : pc'[g] = pc[g]
        /\ UNCHANGED interfaces
        /\ UNCHANGED huerfana
    BY <1>15, <1>t DEF HilosFijos, SchedulerTypeOK, InterrBloqueaSaca, Saca,
       Pone, SacaDeExec, PoneEnExec
  <2>2. NadieQuedaDetenido'
    BY <1>15, <1>t, <1>c, DetenidoQuieto DEF Enlace, HilosFijos,
       SemaforosTypeOK, InterrBloqueaSaca
  <2>3. BloqueoConLista' /\ OperacionDeIO'
    BY <1>15, <1>t, <1>c DEF Enlace, Inductivo, ArgumentoValido,
       BloqueoConLista, OperacionDeIO, SinTokens, OpsDeFin, HilosFijos,
       Bloqueados, InterrBloqueaSaca
  <2> QED
    BY <1>t, <2>1, <2>2, <2>3, EnlaceInterr DEF HilosFijos
<1>16. CASE InterrBloqueaBusca
  <2>1. /\ \A g \in Hilos \ {"interr"} : pc'[g] = pc[g]
        /\ UNCHANGED interfaces
        /\ UNCHANGED huerfana
    BY <1>16, <1>t DEF HilosFijos, SchedulerTypeOK, InterrBloqueaBusca, Saca,
       Pone, SacaDeExec, PoneEnExec
  <2>2. NadieQuedaDetenido'
    BY <1>16, <1>t, <1>c, DetenidoQuieto DEF Enlace, HilosFijos,
       SemaforosTypeOK, InterrBloqueaBusca
  <2>3. BloqueoConLista' /\ OperacionDeIO'
    BY <1>16, <1>t, <1>c DEF Enlace, Inductivo, ArgumentoValido,
       BloqueoConLista, OperacionDeIO, SinTokens, OpsDeFin, HilosFijos,
       Bloqueados, InterrBloqueaBusca
  <2> QED
    BY <1>t, <2>1, <2>2, <2>3, EnlaceInterr DEF HilosFijos
<1>17. CASE InterrBloqueaPone
  <2>1. /\ \A g \in Hilos \ {"interr"} : pc'[g] = pc[g]
        /\ UNCHANGED interfaces
        /\ \A i \in Interfaz : huerfana'[i] # huerfana[i] =>
              /\ pc["interr"] = "bloq_pone" /\ tokens.arg \notin claves
              /\ i = tokens.arg
    BY <1>17, <1>t DEF HilosFijos, SchedulerTypeOK, InterrBloqueaPone, Saca,
       Pone, SacaDeExec, PoneEnExec, PoneEnHuerfana
  <2>2. NadieQuedaDetenido'
    BY <1>17, <1>t, <1>c, DetenidoQuieto DEF Enlace, HilosFijos,
       SemaforosTypeOK, InterrBloqueaPone
  <2>3. BloqueoConLista' /\ OperacionDeIO'
    BY <1>17, <1>t, <1>c DEF Enlace, Inductivo, ArgumentoValido,
       BloqueoConLista, OperacionDeIO, SinTokens, OpsDeFin, HilosFijos,
       Bloqueados, InterrBloqueaPone
  <2> QED
    BY <1>t, <2>1, <2>2, <2>3, EnlaceInterr DEF HilosFijos
<1>18. CASE InterrAsigna
  <2>1. /\ \A g \in Hilos \ {"interr"} : pc'[g] = pc[g]
        /\ UNCHANGED interfaces
        /\ UNCHANGED huerfana
    BY <1>18, <1>t DEF HilosFijos, SchedulerTypeOK, InterrAsigna, Saca, Pone,
       SacaDeExec, PoneEnExec
  <2>2. NadieQuedaDetenido'
    BY <1>18, <1>t, <1>c, DetenidoQuieto DEF Enlace, HilosFijos,
       SemaforosTypeOK, InterrAsigna
  <2>3. BloqueoConLista' /\ OperacionDeIO'
    BY <1>18, <1>t, <1>c DEF Enlace, Inductivo, ArgumentoValido,
       BloqueoConLista, OperacionDeIO, SinTokens, OpsDeFin, HilosFijos,
       Bloqueados, InterrAsigna
  <2> QED
    BY <1>t, <2>1, <2>2, <2>3, EnlaceInterr DEF HilosFijos
<1>19. CASE InterrCarga
  <2>1. /\ \A g \in Hilos \ {"interr"} : pc'[g] = pc[g]
        /\ UNCHANGED interfaces
        /\ UNCHANGED huerfana
    BY <1>19, <1>t DEF HilosFijos, SchedulerTypeOK, InterrCarga, Saca, Pone,
       SacaDeExec, PoneEnExec
  <2>2. NadieQuedaDetenido'
    BY <1>19, <1>t, <1>c, DetenidoQuieto DEF Enlace, HilosFijos,
       SemaforosTypeOK, InterrCarga
  <2>3. BloqueoConLista' /\ OperacionDeIO'
    BY <1>19, <1>t, <1>c DEF Enlace, Inductivo, ArgumentoValido,
       BloqueoConLista, OperacionDeIO, SinTokens, OpsDeFin, HilosFijos,
       Bloqueados, InterrCarga
  <2> QED
    BY <1>t, <2>1, <2>2, <2>3, EnlaceInterr DEF HilosFijos
<1>20. CASE InterrGuarda
  <2>1. /\ \A g \in Hilos \ {"interr"} : pc'[g] = pc[g]
        /\ UNCHANGED interfaces
        /\ UNCHANGED huerfana
    BY <1>20, <1>t DEF HilosFijos, SchedulerTypeOK, InterrGuarda, Saca, Pone,
       SacaDeExec, PoneEnExec
  <2>2. NadieQuedaDetenido'
    BY <1>20, <1>t, <1>c, DetenidoQuieto DEF Enlace, HilosFijos,
       SemaforosTypeOK, InterrGuarda
  <2>3. BloqueoConLista' /\ OperacionDeIO'
    BY <1>20, <1>t, <1>c DEF Enlace, Inductivo, ArgumentoValido,
       BloqueoConLista, OperacionDeIO, SinTokens, OpsDeFin, HilosFijos,
       Bloqueados, InterrGuarda
  <2> QED
    BY <1>t, <2>1, <2>2, <2>3, EnlaceInterr DEF HilosFijos
<1>21. CASE InterrWaitBloquea
  <2>1. /\ \A g \in Hilos \ {"interr"} : pc'[g] = pc[g]
        /\ UNCHANGED interfaces
        /\ UNCHANGED huerfana
    BY <1>21, <1>t DEF HilosFijos, SchedulerTypeOK, InterrWaitBloquea, Saca,
       Pone, SacaDeExec, PoneEnExec
  <2>2. NadieQuedaDetenido'
    BY <1>21, <1>t, <1>c, DetenidoQuieto DEF Enlace, HilosFijos,
       SemaforosTypeOK, InterrWaitBloquea
  <2>3. BloqueoConLista' /\ OperacionDeIO'
    BY <1>21, <1>t, <1>c DEF Enlace, Inductivo, ArgumentoValido,
       BloqueoConLista, OperacionDeIO, SinTokens, OpsDeFin, HilosFijos,
       Bloqueados, InterrWaitBloquea
  <2> QED
    BY <1>t, <2>1, <2>2, <2>3, EnlaceInterr DEF HilosFijos
<1>22. CASE InterrSigueEnCPU
  <2>1. /\ \A g \in Hilos \ {"interr"} : pc'[g] = pc[g]
        /\ UNCHANGED interfaces
        /\ UNCHANGED huerfana
    BY <1>22, <1>t DEF HilosFijos, SchedulerTypeOK, InterrSigueEnCPU,
       VuelveALaCPU, Saca, Pone, SacaDeExec, PoneEnExec
  <2>2. NadieQuedaDetenido'
    BY <1>22, <1>t, <1>c, DetenidoQuieto DEF Enlace, HilosFijos,
       SemaforosTypeOK, InterrSigueEnCPU, VuelveALaCPU
  <2>3. BloqueoConLista' /\ OperacionDeIO'
    BY <1>22, <1>t, <1>c DEF Enlace, Inductivo, ArgumentoValido,
       BloqueoConLista, OperacionDeIO, SinTokens, OpsDeFin, HilosFijos,
       Bloqueados, InterrSigueEnCPU, VuelveALaCPU
  <2> QED
    BY <1>t, <2>1, <2>2, <2>3, EnlaceInterr DEF HilosFijos
<1>23. CASE InterrSignalDespierta
  <2>1. /\ \A g \in Hilos \ {"interr"} : pc'[g] = pc[g]
        /\ UNCHANGED interfaces
        /\ UNCHANGED huerfana
    BY <1>23, <1>t DEF HilosFijos, SchedulerTypeOK, InterrSignalDespierta, Saca,
       Pone, SacaDeExec, PoneEnExec
  <2>2. NadieQuedaDetenido'
    BY <1>23, <1>t, <1>c, DetenidoQuieto DEF Enlace, HilosFijos,
       SemaforosTypeOK, InterrSignalDespierta
  <2>3. BloqueoConLista' /\ OperacionDeIO'
    BY <1>23, <1>t, <1>c DEF Enlace, Inductivo, ArgumentoValido,
       BloqueoConLista, OperacionDeIO, SinTokens, OpsDeFin, HilosFijos,
       Bloqueados, InterrSignalDespierta
  <2> QED
    BY <1>t, <2>1, <2>2, <2>3, EnlaceInterr DEF HilosFijos
<1>24. CASE InterrSignalSaca
  <2>1. /\ \A g \in Hilos \ {"interr"} : pc'[g] = pc[g]
        /\ UNCHANGED interfaces
        /\ UNCHANGED huerfana
    BY <1>24, <1>t DEF HilosFijos, SchedulerTypeOK, InterrSignalSaca, Saca,
       Pone, SacaDeExec, PoneEnExec
  <2>2. NadieQuedaDetenido'
    BY <1>24, <1>t, <1>c, DetenidoQuieto DEF Enlace, HilosFijos,
       SemaforosTypeOK, InterrSignalSaca
  <2>3. BloqueoConLista' /\ OperacionDeIO'
    BY <1>24, <1>t, <1>c DEF Enlace, Inductivo, ArgumentoValido,
       BloqueoConLista, OperacionDeIO, SinTokens, OpsDeFin, HilosFijos,
       Bloqueados, InterrSignalSaca
  <2> QED
    BY <1>t, <2>1, <2>2, <2>3, EnlaceInterr DEF HilosFijos
<1>25. CASE InterrSignalNadie
  <2>1. /\ \A g \in Hilos \ {"interr"} : pc'[g] = pc[g]
        /\ UNCHANGED interfaces
        /\ UNCHANGED huerfana
    BY <1>25, <1>t DEF HilosFijos, SchedulerTypeOK, InterrSignalNadie,
       VuelveALaCPU, Saca, Pone, SacaDeExec, PoneEnExec
  <2>2. NadieQuedaDetenido'
    BY <1>25, <1>t, <1>c, DetenidoQuieto DEF Enlace, HilosFijos,
       SemaforosTypeOK, InterrSignalNadie, VuelveALaCPU
  <2>3. BloqueoConLista' /\ OperacionDeIO'
    BY <1>25, <1>t, <1>c DEF Enlace, Inductivo, ArgumentoValido,
       BloqueoConLista, OperacionDeIO, SinTokens, OpsDeFin, HilosFijos,
       Bloqueados, InterrSignalNadie, VuelveALaCPU
  <2> QED
    BY <1>t, <2>1, <2>2, <2>3, EnlaceInterr DEF HilosFijos
<1>26. CASE InterrSignalPone
  <2>1. /\ \A g \in Hilos \ {"interr"} : pc'[g] = pc[g]
        /\ UNCHANGED interfaces
        /\ UNCHANGED huerfana
    BY <1>26, <1>t DEF HilosFijos, SchedulerTypeOK, InterrSignalPone,
       VuelveALaCPU, Saca, Pone, SacaDeExec, PoneEnExec
  <2>2. NadieQuedaDetenido'
    BY <1>26, <1>t, <1>c, DetenidoQuieto DEF Enlace, HilosFijos,
       SemaforosTypeOK, InterrSignalPone, VuelveALaCPU
  <2>3. BloqueoConLista' /\ OperacionDeIO'
    BY <1>26, <1>t, <1>c DEF Enlace, Inductivo, ArgumentoValido,
       BloqueoConLista, OperacionDeIO, SinTokens, OpsDeFin, HilosFijos,
       Bloqueados, InterrSignalPone, VuelveALaCPU
  <2> QED
    BY <1>t, <2>1, <2>2, <2>3, EnlaceInterr DEF HilosFijos
<1> QED
  BY <1>1, <1>2, <1>3, <1>4, <1>5, <1>6, <1>7, <1>8, <1>9, <1>10, <1>11, <1>12,
     <1>13, <1>14, <1>15, <1>16, <1>17, <1>18, <1>19, <1>20, <1>21, <1>22,
     <1>23, <1>24, <1>25, <1>26 DEF Interr

\* A step of the thread of an interface: the list it takes from under the
\* handler is its own.
LEMMA EnlaceInterfaz ==
  ASSUME Inductivo, Enlace, NadieQuedaDetenido', NEW i \in Interfaz,
         \A g \in Hilos \ {i} : pc'[g] = pc[g],
         UNCHANGED tokens,
         interfaces' \ {i} = interfaces \ {i},
         claves \ {i} = claves' \ {i},
         i \notin claves' => i \notin claves \/ pc'[i] \in Caidas,
         pc[i] \in Caidas => pc'[i] \in Caidas,
         pc'[i] \in Conectadas <=> i \in interfaces',
         huerfana'[i] # << >> => pc'[i] \in Caidas,
         \A g \in Interfaz \ {i} : huerfana'[g] = huerfana[g]
  PROVE  Enlace'
<1>0. /\ "interr" \in Hilos \ {i} /\ Interfaz \subseteq Hilos
  BY DEF Hilos, HilosFijos
<1>1. InterfazViva'
  BY <1>0 DEF Enlace, InterfazViva
<1>2. ListaTomada'
  BY <1>0 DEF Enlace, ListaTomada
<1>3. BloqueoConLista'
  BY <1>0 DEF Enlace, BloqueoConLista
<1>4. OperacionDeIO'
  BY <1>0 DEF Enlace, OperacionDeIO
<1> QED
  BY <1>1, <1>2, <1>3, <1>4 DEF Enlace

\* The thread of an interface.
LEMMA InterfazEnlace ==
  ASSUME Inductivo, Enlace, NEW i \in Interfaz, Interf(i),
         UNCHANGED << tokens, consVars >>
  PROVE  Enlace'
<1>t. /\ pc \in [Hilos -> Etiquetas] /\ SchedulerTypeOK /\ SemaforosTypeOK
      /\ ConexionesTypeOK /\ HilosFijos \subseteq Hilos /\ Interfaz \subseteq Hilos
      /\ Interfaz \cap HilosFijos = {} /\ Pausables = Hilos \ {"consola"}
  BY DEF Inductivo, TypeOK, Hilos, Pausables
<1>i. i \in Hilos /\ i \in Pausables /\ i \notin HilosFijos
  BY DEF Hilos, Pausables, HilosFijos
<1>1. CASE InterfazConecta(i)
  <2>1. /\ \A g \in Hilos \ {i} : pc'[g] = pc[g]
        /\ interfaces' \ {i} = interfaces \ {i}
        /\ claves \ {i} = claves' \ {i}
        /\ i \notin claves' => i \notin claves \/ pc'[i] \in Caidas
        /\ pc[i] \in Caidas => pc'[i] \in Caidas
        /\ pc'[i] \in Conectadas <=> i \in interfaces'
        /\ huerfana'[i] # << >> => pc'[i] \in Caidas
        /\ \A g \in Interfaz \ {i} : huerfana'[g] = huerfana[g]
    BY <1>1, <1>t DEF Enlace, InterfazViva, ListaTomada, Conectadas, Caidas,
       ConexionesTypeOK, SchedulerTypeOK, InterfazConecta, Saca, Pone
  <2>2. NadieQuedaDetenido'
    BY <1>1, <1>t, DetenidoQuieto DEF Enlace, HilosFijos, SemaforosTypeOK,
       InterfazConecta
  <2> QED
    BY <1>t, <2>1, <2>2, EnlaceInterfaz
<1>2. CASE InterfazToma(i)
  <2>1. /\ \A g \in Hilos \ {i} : pc'[g] = pc[g]
        /\ interfaces' \ {i} = interfaces \ {i}
        /\ claves \ {i} = claves' \ {i}
        /\ i \notin claves' => i \notin claves \/ pc'[i] \in Caidas
        /\ pc[i] \in Caidas => pc'[i] \in Caidas
        /\ pc'[i] \in Conectadas <=> i \in interfaces'
        /\ huerfana'[i] # << >> => pc'[i] \in Caidas
        /\ \A g \in Interfaz \ {i} : huerfana'[g] = huerfana[g]
    BY <1>2, <1>t DEF Enlace, InterfazViva, ListaTomada, Conectadas, Caidas,
       ConexionesTypeOK, SchedulerTypeOK, InterfazToma, Saca, Pone
  <2>2. NadieQuedaDetenido'
    BY <1>2, <1>t, DetenidoQuieto DEF Enlace, HilosFijos, SemaforosTypeOK,
       InterfazToma
  <2> QED
    BY <1>t, <2>1, <2>2, EnlaceInterfaz
<1>3. CASE InterfazEjecuta(i)
  <2>1. /\ \A g \in Hilos \ {i} : pc'[g] = pc[g]
        /\ interfaces' \ {i} = interfaces \ {i}
        /\ claves \ {i} = claves' \ {i}
        /\ i \notin claves' => i \notin claves \/ pc'[i] \in Caidas
        /\ pc[i] \in Caidas => pc'[i] \in Caidas
        /\ pc'[i] \in Conectadas <=> i \in interfaces'
        /\ huerfana'[i] # << >> => pc'[i] \in Caidas
        /\ \A g \in Interfaz \ {i} : huerfana'[g] = huerfana[g]
    BY <1>3, <1>t DEF Enlace, InterfazViva, ListaTomada, Conectadas, Caidas,
       ConexionesTypeOK, SchedulerTypeOK, InterfazEjecuta, Saca, Pone
  <2>2. NadieQuedaDetenido'
    BY <1>3, <1>t, DetenidoQuieto DEF Enlace, HilosFijos, SemaforosTypeOK,
       InterfazEjecuta
  <2> QED
    BY <1>t, <2>1, <2>2, EnlaceInterfaz
<1>4. CASE InterfazResponde(i)
  <2>1. /\ \A g \in Hilos \ {i} : pc'[g] = pc[g]
        /\ interfaces' \ {i} = interfaces \ {i}
        /\ claves \ {i} = claves' \ {i}
        /\ i \notin claves' => i \notin claves \/ pc'[i] \in Caidas
        /\ pc[i] \in Caidas => pc'[i] \in Caidas
        /\ pc'[i] \in Conectadas <=> i \in interfaces'
        /\ huerfana'[i] # << >> => pc'[i] \in Caidas
        /\ \A g \in Interfaz \ {i} : huerfana'[g] = huerfana[g]
    BY <1>4, <1>t DEF Enlace, InterfazViva, ListaTomada, Conectadas, Caidas,
       ConexionesTypeOK, SchedulerTypeOK, InterfazResponde, SigueSiActiva, Saca,
       Pone
  <2>2. NadieQuedaDetenido'
    BY <1>4, <1>t, DetenidoQuieto DEF Enlace, HilosFijos, SemaforosTypeOK,
       InterfazResponde, SigueSiActiva
  <2> QED
    BY <1>t, <2>1, <2>2, EnlaceInterfaz
<1>5. CASE InterfazReanuda(i)
  <2>1. /\ \A g \in Hilos \ {i} : pc'[g] = pc[g]
        /\ interfaces' \ {i} = interfaces \ {i}
        /\ claves \ {i} = claves' \ {i}
        /\ i \notin claves' => i \notin claves \/ pc'[i] \in Caidas
        /\ pc[i] \in Caidas => pc'[i] \in Caidas
        /\ pc'[i] \in Conectadas <=> i \in interfaces'
        /\ huerfana'[i] # << >> => pc'[i] \in Caidas
        /\ \A g \in Interfaz \ {i} : huerfana'[g] = huerfana[g]
    BY <1>5, <1>t DEF Enlace, InterfazViva, ListaTomada, Conectadas, Caidas,
       ConexionesTypeOK, SchedulerTypeOK, InterfazReanuda, SaleDePausa, Saca,
       Pone
  <2>2. NadieQuedaDetenido'
    BY <1>5, <1>t, DetenidoQuieto DEF Enlace, HilosFijos, SemaforosTypeOK,
       InterfazReanuda, SaleDePausa
  <2> QED
    BY <1>t, <2>1, <2>2, EnlaceInterfaz
<1>6. CASE InterfazSaca(i)
  <2>1. /\ \A g \in Hilos \ {i} : pc'[g] = pc[g]
        /\ interfaces' \ {i} = interfaces \ {i}
        /\ claves \ {i} = claves' \ {i}
        /\ i \notin claves' => i \notin claves \/ pc'[i] \in Caidas
        /\ pc[i] \in Caidas => pc'[i] \in Caidas
        /\ pc'[i] \in Conectadas <=> i \in interfaces'
        /\ huerfana'[i] # << >> => pc'[i] \in Caidas
        /\ \A g \in Interfaz \ {i} : huerfana'[g] = huerfana[g]
    BY <1>6, <1>t DEF Enlace, InterfazViva, ListaTomada, Conectadas, Caidas,
       ConexionesTypeOK, SchedulerTypeOK, InterfazSaca, Saca, Pone
  <2>2. NadieQuedaDetenido'
    BY <1>6, <1>t, DetenidoQuieto DEF Enlace, HilosFijos, SemaforosTypeOK,
       InterfazSaca
  <2> QED
    BY <1>t, <2>1, <2>2, EnlaceInterfaz
<1>7. CASE InterfazSacaNadie(i)
  <2>1. /\ \A g \in Hilos \ {i} : pc'[g] = pc[g]
        /\ interfaces' \ {i} = interfaces \ {i}
        /\ claves \ {i} = claves' \ {i}
        /\ i \notin claves' => i \notin claves \/ pc'[i] \in Caidas
        /\ pc[i] \in Caidas => pc'[i] \in Caidas
        /\ pc'[i] \in Conectadas <=> i \in interfaces'
        /\ huerfana'[i] # << >> => pc'[i] \in Caidas
        /\ \A g \in Interfaz \ {i} : huerfana'[g] = huerfana[g]
    BY <1>7, <1>t DEF Enlace, InterfazViva, ListaTomada, Conectadas, Caidas,
       ConexionesTypeOK, SchedulerTypeOK, InterfazSacaNadie, Saca, Pone
  <2>2. NadieQuedaDetenido'
    BY <1>7, <1>t, DetenidoQuieto DEF Enlace, HilosFijos, SemaforosTypeOK,
       InterfazSacaNadie
  <2> QED
    BY <1>t, <2>1, <2>2, EnlaceInterfaz
<1>8. CASE InterfazPone(i)
  <2>1. /\ \A g \in Hilos \ {i} : pc'[g] = pc[g]
        /\ interfaces' \ {i} = interfaces \ {i}
        /\ claves \ {i} = claves' \ {i}
        /\ i \notin claves' => i \notin claves \/ pc'[i] \in Caidas
        /\ pc[i] \in Caidas => pc'[i] \in Caidas
        /\ pc'[i] \in Conectadas <=> i \in interfaces'
        /\ huerfana'[i] # << >> => pc'[i] \in Caidas
        /\ \A g \in Interfaz \ {i} : huerfana'[g] = huerfana[g]
    BY <1>8, <1>t DEF Enlace, InterfazViva, ListaTomada, Conectadas, Caidas,
       ConexionesTypeOK, SchedulerTypeOK, InterfazPone, Saca, Pone
  <2>2. NadieQuedaDetenido'
    BY <1>8, <1>t, DetenidoQuieto DEF Enlace, HilosFijos, SemaforosTypeOK,
       InterfazPone
  <2> QED
    BY <1>t, <2>1, <2>2, EnlaceInterfaz
<1>9. CASE InterfazBorra(i)
  <2>1. /\ \A g \in Hilos \ {i} : pc'[g] = pc[g]
        /\ interfaces' \ {i} = interfaces \ {i}
        /\ claves \ {i} = claves' \ {i}
        /\ i \notin claves' => i \notin claves \/ pc'[i] \in Caidas
        /\ pc[i] \in Caidas => pc'[i] \in Caidas
        /\ pc'[i] \in Conectadas <=> i \in interfaces'
        /\ huerfana'[i] # << >> => pc'[i] \in Caidas
        /\ \A g \in Interfaz \ {i} : huerfana'[g] = huerfana[g]
    BY <1>9, <1>t DEF Enlace, InterfazViva, ListaTomada, Conectadas, Caidas,
       ConexionesTypeOK, SchedulerTypeOK, InterfazBorra, Saca, Pone
  <2>2. NadieQuedaDetenido'
    BY <1>9, <1>t, DetenidoQuieto DEF Enlace, HilosFijos, SemaforosTypeOK,
       InterfazBorra
  <2> QED
    BY <1>t, <2>1, <2>2, EnlaceInterfaz
<1>10. CASE InterfazFalla(i)
  <2>1. /\ \A g \in Hilos \ {i} : pc'[g] = pc[g]
        /\ interfaces' \ {i} = interfaces \ {i}
        /\ claves \ {i} = claves' \ {i}
        /\ i \notin claves' => i \notin claves \/ pc'[i] \in Caidas
        /\ pc[i] \in Caidas => pc'[i] \in Caidas
        /\ pc'[i] \in Conectadas <=> i \in interfaces'
        /\ huerfana'[i] # << >> => pc'[i] \in Caidas
        /\ \A g \in Interfaz \ {i} : huerfana'[g] = huerfana[g]
    BY <1>10, <1>t DEF Enlace, InterfazViva, ListaTomada, Conectadas, Caidas,
       ConexionesTypeOK, SchedulerTypeOK, InterfazFalla, Saca, Pone
  <2>2. NadieQuedaDetenido'
    BY <1>10, <1>t, DetenidoQuieto DEF Enlace, HilosFijos, SemaforosTypeOK,
       InterfazFalla
  <2> QED
    BY <1>t, <2>1, <2>2, EnlaceInterfaz
<1>11. CASE InterfazQuitaCola(i)
  <2>1. /\ \A g \in Hilos \ {i} : pc'[g] = pc[g]
        /\ interfaces' \ {i} = interfaces \ {i}
        /\ claves \ {i} = claves' \ {i}
        /\ i \notin claves' => i \notin claves \/ pc'[i] \in Caidas
        /\ pc[i] \in Caidas => pc'[i] \in Caidas
        /\ pc'[i] \in Conectadas <=> i \in interfaces'
        /\ huerfana'[i] # << >> => pc'[i] \in Caidas
        /\ \A g \in Interfaz \ {i} : huerfana'[g] = huerfana[g]
    BY <1>11, <1>t DEF Enlace, InterfazViva, ListaTomada, Conectadas, Caidas,
       ConexionesTypeOK, SchedulerTypeOK, InterfazQuitaCola, Saca, Pone
  <2>2. NadieQuedaDetenido'
    BY <1>11, <1>t, DetenidoQuieto DEF Enlace, HilosFijos, SemaforosTypeOK,
       InterfazQuitaCola
  <2> QED
    BY <1>t, <2>1, <2>2, EnlaceInterfaz
<1>12. CASE InterfazItera(i)
  <2>1. /\ \A g \in Hilos \ {i} : pc'[g] = pc[g]
        /\ interfaces' \ {i} = interfaces \ {i}
        /\ claves \ {i} = claves' \ {i}
        /\ i \notin claves' => i \notin claves \/ pc'[i] \in Caidas
        /\ pc[i] \in Caidas => pc'[i] \in Caidas
        /\ pc'[i] \in Conectadas <=> i \in interfaces'
        /\ huerfana'[i] # << >> => pc'[i] \in Caidas
        /\ \A g \in Interfaz \ {i} : huerfana'[g] = huerfana[g]
    BY <1>12, <1>t DEF Enlace, InterfazViva, ListaTomada, Conectadas, Caidas,
       ConexionesTypeOK, SchedulerTypeOK, InterfazItera, Saca, Pone
  <2>2. NadieQuedaDetenido'
    BY <1>12, <1>t, DetenidoQuieto DEF Enlace, HilosFijos, SemaforosTypeOK,
       InterfazItera
  <2> QED
    BY <1>t, <2>1, <2>2, EnlaceInterfaz
<1>13. CASE InterfazLibera(i)
  <2>1. /\ \A g \in Hilos \ {i} : pc'[g] = pc[g]
        /\ pc[i] \in Caidas /\ pc'[i] \in Caidas /\ i \notin interfaces
        /\ UNCHANGED << semVars, planVars, huerfana, claves, conVars, tokens >>
    BY <1>13, <1>t, LiberarQuieto DEF InterfazLibera, Etiquetas, HilosFijos,
       Caidas, Conectadas, Enlace, InterfazViva
  <2>2. NadieQuedaDetenido'
    BY <1>t, <2>1, DetenidoQuieto DEF Enlace, HilosFijos, Caidas
  <2>3. pc'[i] \notin Conectadas
    BY <2>1 DEF Caidas, Conectadas
  <2> QED
    BY <1>t, <2>1, <2>2, <2>3, EnlaceInterfaz
<1>14. CASE InterfazAvisaMemoria(i)
  <2>1. /\ \A g \in Hilos \ {i} : pc'[g] = pc[g]
        /\ interfaces' \ {i} = interfaces \ {i}
        /\ claves \ {i} = claves' \ {i}
        /\ i \notin claves' => i \notin claves \/ pc'[i] \in Caidas
        /\ pc[i] \in Caidas => pc'[i] \in Caidas
        /\ pc'[i] \in Conectadas <=> i \in interfaces'
        /\ huerfana'[i] # << >> => pc'[i] \in Caidas
        /\ \A g \in Interfaz \ {i} : huerfana'[g] = huerfana[g]
    BY <1>14, <1>t DEF Enlace, InterfazViva, ListaTomada, Conectadas, Caidas,
       ConexionesTypeOK, SchedulerTypeOK, InterfazAvisaMemoria, Saca, Pone
  <2>2. NadieQuedaDetenido'
    BY <1>14, <1>t, DetenidoQuieto DEF Enlace, HilosFijos, SemaforosTypeOK,
       InterfazAvisaMemoria
  <2> QED
    BY <1>t, <2>1, <2>2, EnlaceInterfaz
<1>15. CASE InterfazAExit(i)
  <2>1. /\ \A g \in Hilos \ {i} : pc'[g] = pc[g]
        /\ interfaces' \ {i} = interfaces \ {i}
        /\ claves \ {i} = claves' \ {i}
        /\ i \notin claves' => i \notin claves \/ pc'[i] \in Caidas
        /\ pc[i] \in Caidas => pc'[i] \in Caidas
        /\ pc'[i] \in Conectadas <=> i \in interfaces'
        /\ huerfana'[i] # << >> => pc'[i] \in Caidas
        /\ \A g \in Interfaz \ {i} : huerfana'[g] = huerfana[g]
    BY <1>15, <1>t DEF Enlace, InterfazViva, ListaTomada, Conectadas, Caidas,
       ConexionesTypeOK, SchedulerTypeOK, InterfazAExit, Saca, Pone
  <2>2. NadieQuedaDetenido'
    BY <1>15, <1>t, DetenidoQuieto DEF Enlace, HilosFijos, SemaforosTypeOK,
       InterfazAExit
  <2> QED
    BY <1>t, <2>1, <2>2, EnlaceInterfaz
<1>16. CASE InterfazIteraFin(i)
  <2>1. /\ \A g \in Hilos \ {i} : pc'[g] = pc[g]
        /\ interfaces' \ {i} = interfaces \ {i}
        /\ claves \ {i} = claves' \ {i}
        /\ i \notin claves' => i \notin claves \/ pc'[i] \in Caidas
        /\ pc[i] \in Caidas => pc'[i] \in Caidas
        /\ pc'[i] \in Conectadas <=> i \in interfaces'
        /\ huerfana'[i] # << >> => pc'[i] \in Caidas
        /\ \A g \in Interfaz \ {i} : huerfana'[g] = huerfana[g]
    BY <1>16, <1>t DEF Enlace, InterfazViva, ListaTomada, Conectadas, Caidas,
       ConexionesTypeOK, SchedulerTypeOK, InterfazIteraFin, Saca, Pone
  <2>2. NadieQuedaDetenido'
    BY <1>16, <1>t, DetenidoQuieto DEF Enlace, HilosFijos, SemaforosTypeOK,
       InterfazIteraFin
  <2> QED
    BY <1>t, <2>1, <2>2, EnlaceInterfaz
<1> QED
  BY <1>1, <1>2, <1>3, <1>4, <1>5, <1>6, <1>7, <1>8, <1>9, <1>10, <1>11, <1>12,
     <1>13, <1>14, <1>15, <1>16 DEF Interf

\* The console: the resume command posts to every thread that may be stopped.
LEMMA ConsolaEnlace ==
  ASSUME Inductivo, Enlace, Orden \/ Ejecuta, UNCHANGED << tokens, pcb_io >>
  PROVE  Enlace'
<1>t. /\ pc \in [Hilos -> Etiquetas] /\ SchedulerTypeOK /\ SemaforosTypeOK
      /\ ConexionesTypeOK /\ HilosFijos \subseteq Hilos /\ Interfaz \subseteq Hilos
      /\ Interfaz \cap HilosFijos = {} /\ Pausables = Hilos \ {"consola"}
  BY DEF Inductivo, TypeOK, Hilos, Pausables
<1>1. CASE IniciarProceso
  <2>1. /\ \A g \in Interfaz \cup {"interr"} : pc'[g] = pc[g]
        /\ UNCHANGED << interfaces, huerfana, claves >>
    BY <1>1, <1>t DEF HilosFijos, IniciarProceso, PideCreacion, Pone
  <2>2. NadieQuedaDetenido'
    BY <1>1, <1>t DEF Enlace, NadieQuedaDetenido, HilosFijos, SemaforosTypeOK,
       InterfazViva, Conectadas, Hilos, IniciarProceso, PideCreacion, Pone
  <2> QED
    BY <2>1, <2>2, EnlaceQuieto
<1>2. CASE IniciarProcesoSinPath
  <2>1. /\ \A g \in Interfaz \cup {"interr"} : pc'[g] = pc[g]
        /\ UNCHANGED << interfaces, huerfana, claves >>
    BY <1>2, <1>t DEF HilosFijos, IniciarProcesoSinPath, PideCreacion, Lee, Pone
  <2>2. NadieQuedaDetenido'
    BY <1>2, <1>t DEF Enlace, NadieQuedaDetenido, HilosFijos, SemaforosTypeOK,
       InterfazViva, Conectadas, Hilos, IniciarProcesoSinPath, PideCreacion,
       Lee, Pone
  <2> QED
    BY <2>1, <2>2, EnlaceQuieto
<1>3. CASE DetenerPlanificacion
  <2>1. /\ \A g \in Interfaz \cup {"interr"} : pc'[g] = pc[g]
        /\ UNCHANGED << interfaces, huerfana, claves >>
    BY <1>3, <1>t DEF HilosFijos, DetenerPlanificacion, Lee, Pone
  <2>2. NadieQuedaDetenido'
    BY <1>3, <1>t DEF Enlace, NadieQuedaDetenido, HilosFijos, SemaforosTypeOK,
       InterfazViva, Conectadas, Hilos, DetenerPlanificacion, Lee, Pone
  <2> QED
    BY <2>1, <2>2, EnlaceQuieto
<1>4. CASE IniciarPlanificacion
  <2>1. /\ \A g \in Interfaz \cup {"interr"} : pc'[g] = pc[g]
        /\ UNCHANGED << interfaces, huerfana, claves >>
    BY <1>4, <1>t DEF HilosFijos, IniciarPlanificacion, Pone
  <2>2. NadieQuedaDetenido'
    BY <1>4, <1>t DEF Enlace, NadieQuedaDetenido, HilosFijos, SemaforosTypeOK,
       InterfazViva, Conectadas, Hilos, IniciarPlanificacion, Pone
  <2> QED
    BY <2>1, <2>2, EnlaceQuieto
<1>5. CASE Multiprogramacion
  <2>1. /\ \A g \in Interfaz \cup {"interr"} : pc'[g] = pc[g]
        /\ UNCHANGED << interfaces, huerfana, claves >>
    BY <1>5, <1>t DEF HilosFijos, Multiprogramacion, Lee, Pone
  <2>2. NadieQuedaDetenido'
    BY <1>5, <1>t DEF Enlace, NadieQuedaDetenido, HilosFijos, SemaforosTypeOK,
       InterfazViva, Conectadas, Hilos, Multiprogramacion, Lee, Pone
  <2> QED
    BY <2>1, <2>2, EnlaceQuieto
<1>6. CASE FinalizarProceso
  <2>1. /\ \A g \in Interfaz \cup {"interr"} : pc'[g] = pc[g]
        /\ UNCHANGED << interfaces, huerfana, claves >>
    BY <1>6, <1>t DEF HilosFijos, FinalizarProceso, Lee, Pone
  <2>2. NadieQuedaDetenido'
    BY <1>6, <1>t DEF Enlace, NadieQuedaDetenido, HilosFijos, SemaforosTypeOK,
       InterfazViva, Conectadas, Hilos, FinalizarProceso, Lee, Pone
  <2> QED
    BY <2>1, <2>2, EnlaceQuieto
<1>7. CASE ProcesoAColaNew
  <2>1. /\ \A g \in Interfaz \cup {"interr"} : pc'[g] = pc[g]
        /\ UNCHANGED << interfaces, huerfana, claves >>
    BY <1>7, <1>t DEF HilosFijos, ProcesoAColaNew, Pone
  <2>2. NadieQuedaDetenido'
    BY <1>7, <1>t DEF Enlace, NadieQuedaDetenido, HilosFijos, SemaforosTypeOK,
       InterfazViva, Conectadas, Hilos, ProcesoAColaNew, Pone
  <2> QED
    BY <2>1, <2>2, EnlaceQuieto
<1>8. CASE ConsolaInicializaRecursos
  <2>1. /\ \A g \in Interfaz \cup {"interr"} : pc'[g] = pc[g]
        /\ UNCHANGED << interfaces, huerfana, claves >>
    BY <1>8, <1>t DEF HilosFijos, ConsolaInicializaRecursos, Pone
  <2>2. NadieQuedaDetenido'
    BY <1>8, <1>t DEF Enlace, NadieQuedaDetenido, HilosFijos, SemaforosTypeOK,
       InterfazViva, Conectadas, Hilos, ConsolaInicializaRecursos, Pone
  <2> QED
    BY <2>1, <2>2, EnlaceQuieto
<1>9. CASE CambiaGrado
  <2>1. /\ \A g \in Interfaz \cup {"interr"} : pc'[g] = pc[g]
        /\ UNCHANGED << interfaces, huerfana, claves >>
    BY <1>9, <1>t DEF HilosFijos, CambiaGrado, Pone
  <2>2. NadieQuedaDetenido'
    BY <1>9, <1>t DEF Enlace, NadieQuedaDetenido, HilosFijos, SemaforosTypeOK,
       InterfazViva, Conectadas, Hilos, CambiaGrado, Pone
  <2> QED
    BY <2>1, <2>2, EnlaceQuieto
<1>10. CASE FinalizarEnExec
  <2>1. /\ \A g \in Interfaz \cup {"interr"} : pc'[g] = pc[g]
        /\ UNCHANGED << interfaces, huerfana, claves >>
    BY <1>10, <1>t DEF HilosFijos, FinalizarEnExec, Pone
  <2>2. NadieQuedaDetenido'
    BY <1>10, <1>t DEF Enlace, NadieQuedaDetenido, HilosFijos, SemaforosTypeOK,
       InterfazViva, Conectadas, Hilos, FinalizarEnExec, Pone
  <2> QED
    BY <2>1, <2>2, EnlaceQuieto
<1>11. CASE \E k \in 1 .. 4 : FinalizarEncuentra(k)
  <2> PICK k \in 1 .. 4 : FinalizarEncuentra(k)
    BY <1>11
  <2>1. /\ \A g \in Interfaz \cup {"interr"} : pc'[g] = pc[g]
        /\ UNCHANGED << interfaces, huerfana, claves >>
    BY <1>t DEF HilosFijos, FinalizarEncuentra, EtapaFin, EtapaExit,
       BorraInstruccion
  <2>2. NadieQuedaDetenido'
    BY <1>t DEF Enlace, NadieQuedaDetenido, HilosFijos, SemaforosTypeOK,
       InterfazViva, Conectadas, Hilos, FinalizarEncuentra, EtapaFin, EtapaExit,
       BorraInstruccion
  <2> QED
    BY <2>1, <2>2, EnlaceQuieto
<1>12. CASE \E k \in 1 .. 4 : FinalizarNoEncuentra(k)
  <2> PICK k \in 1 .. 4 : FinalizarNoEncuentra(k)
    BY <1>12
  <2>1. /\ \A g \in Interfaz \cup {"interr"} : pc'[g] = pc[g]
        /\ UNCHANGED << interfaces, huerfana, claves >>
    BY <1>t DEF HilosFijos, FinalizarNoEncuentra, EtapaFin, Siguiente,
       BorraInstruccion
  <2>2. NadieQuedaDetenido'
    BY <1>t DEF Enlace, NadieQuedaDetenido, HilosFijos, SemaforosTypeOK,
       InterfazViva, Conectadas, Hilos, FinalizarNoEncuentra, EtapaFin,
       Siguiente, BorraInstruccion
  <2> QED
    BY <2>1, <2>2, EnlaceQuieto
<1>13. CASE \E k \in 1 .. 4 : FinalizarAExit(k)
  <2> PICK k \in 1 .. 4 : FinalizarAExit(k)
    BY <1>13
  <2>1. /\ \A g \in Interfaz \cup {"interr"} : pc'[g] = pc[g]
        /\ UNCHANGED << interfaces, huerfana, claves >>
    BY <1>t DEF HilosFijos, FinalizarAExit, EtapaFin, EtapaExit, Siguiente, Pone
  <2>2. NadieQuedaDetenido'
    BY <1>t DEF Enlace, NadieQuedaDetenido, HilosFijos, SemaforosTypeOK,
       InterfazViva, Conectadas, Hilos, FinalizarAExit, EtapaFin, EtapaExit,
       Siguiente, Pone
  <2> QED
    BY <2>1, <2>2, EnlaceQuieto
<1>14. CASE FinalizarAvisaMemoria
  <2>1. /\ \A g \in Interfaz \cup {"interr"} : pc'[g] = pc[g]
        /\ UNCHANGED << interfaces, huerfana, claves >>
    BY <1>14, <1>t DEF HilosFijos, FinalizarAvisaMemoria, Pone
  <2>2. NadieQuedaDetenido'
    BY <1>14, <1>t DEF Enlace, NadieQuedaDetenido, HilosFijos, SemaforosTypeOK,
       InterfazViva, Conectadas, Hilos, FinalizarAvisaMemoria, Pone
  <2> QED
    BY <2>1, <2>2, EnlaceQuieto
<1>15. CASE FinalizarLibera
  <2>1. /\ \A g \in Hilos \ {"consola"} : pc'[g] = pc[g]
        /\ UNCHANGED << semVars, planVars, huerfana, claves, conVars >>
    BY <1>15, <1>t, LiberarQuieto DEF FinalizarLibera, Etiquetas, HilosFijos
  <2>2. NadieQuedaDetenido'
    BY <1>t, <2>1 DEF Enlace, NadieQuedaDetenido
  <2> QED
    BY <1>t, <2>1, <2>2, EnlaceQuieto DEF HilosFijos
<1> QED
  BY <1>1, <1>2, <1>3, <1>4, <1>5, <1>6, <1>7, <1>8, <1>9, <1>10, <1>11, <1>12,
     <1>13, <1>14, <1>15 DEF Orden, Ejecuta

\* Every step of the kernel, whatever the command.
LEMMA PasoEnlace ==
  ASSUME Inductivo, Enlace, [Next]_vars
  PROVE  Enlace'
<1>1. CASE PasoLargo
  BY <1>1, LargoEnlace DEF PasoLargo
<1>2. CASE PasoCorto
  BY <1>2, CortoEnlace DEF PasoCorto
<1>3. CASE PasoInterr
  BY <1>3, InterrEnlace DEF PasoInterr
<1>4. CASE \E i \in Interfaz : PasoInterfaz(i)
  BY <1>4, InterfazEnlace DEF PasoInterfaz
<1>5. CASE PasoOrden \/ PasoConsola
  BY <1>5, ConsolaEnlace DEF PasoOrden, PasoConsola
<1>6. CASE \/ PasoMemoria \/ PasoCPU \/ PasoOrdenPerdida
           \/ Reposo \/ UNCHANGED vars
  <2>1. UNCHANGED << semVars, planVars, schedVars, pc, interfaces, tokens >>
    BY <1>6 DEF PasoMemoria, PasoCPU, PasoOrdenPerdida, Reposo, vars,
       MemoriaAtiende, CPUTermina, CPULlama, CPUDesaloja, CPUInterrumpe,
       CPUOlvidaOrden, kernelVars
  <2>2. NadieQuedaDetenido'
    BY <2>1 DEF Enlace, NadieQuedaDetenido
  <2> QED
    BY <2>1, <2>2, EnlaceQuieto
<1> QED
  BY <1>1, <1>2, <1>3, <1>4, <1>5, <1>6 DEF Next

\* At the start no interface is connected and no thread is stopped.
LEMMA InitEnlace ==
  ASSUME Init
  PROVE  Enlace
<1>1. /\ \A i \in Interfaz : pc[i] = "desconectada" /\ huerfana[i] = << >>
      /\ pc["interr"] = "espera" /\ \A h \in Hilos : pc[h] # "pausa"
      /\ interfaces = {}
  BY DEF Init, InitScheduler, InitConexiones, Hilos, HilosFijos
<1> QED
  BY <1>1 DEF Enlace, InterfazViva, Conectadas, ListaTomada, BloqueoConLista,
     OperacionDeIO, NadieQuedaDetenido, Pausables

(* FINALIZAR_PROCESO that is not given. *)

\* The command is read only if it is one of those that are given.
LEMMA PasoSinFin ==
  ASSUME Inductivo, "FINALIZAR_PROCESO" \notin Comandos,
         pc["consola"] \in SinFin, [Next]_vars
  PROVE  pc'["consola"] \in SinFin
<1>t. /\ pc \in [Hilos -> Etiquetas] /\ SchedulerTypeOK /\ SemaforosTypeOK
      /\ ConexionesTypeOK /\ HilosFijos \subseteq Hilos /\ Interfaz \subseteq Hilos
      /\ Interfaz \cap HilosFijos = {} /\ Pausables = Hilos \ {"consola"}
  BY DEF Inductivo, TypeOK, Hilos, Pausables
<1>1. CASE PasoLargo
  BY <1>1, <1>t DEF PasoLargo, Largo, LargoTomaCupo, LargoReanuda,
     LargoConfirma, LargoEsperaNew, LargoSaca, LargoSacaNada, LargoPone,
     LargoCuenta, HilosFijos, SigueSiActiva, SaleDePausa
<1>2. CASE PasoCorto
  BY <1>2, <1>t DEF PasoCorto, Corto, CortoToma, CortoReanuda, CortoElige,
     CortoSacaAux, CortoSacaReady, CortoDespacha, HilosFijos, SigueSiActiva,
     SaleDePausa
<1>3. CASE PasoInterr
  <2>1. ASSUME InterrLibera
        PROVE  pc'["consola"] = pc["consola"]
    BY <1>t, <2>1, LiberarQuieto DEF InterrLibera, Etiquetas, HilosFijos
  <2> QED
    BY <1>3, <1>t, <2>1 DEF PasoInterr, Interr, HilosFijos, SigueSiActiva,
       SaleDePausa, VuelveALaCPU, InterrRecibe, InterrActiva, InterrReanuda,
       InterrAvisaMemoria, InterrFinSaca, InterrFinPone, InterrAumentaMira,
       InterrAumentaResta, InterrRecursoInvalido, InterrDesalojaSaca,
       InterrDesalojaPone, InterrIO, InterrAgregaInstruccion, InterrBloqueaSaca,
       InterrBloqueaBusca, InterrBloqueaPone, InterrAsigna, InterrCarga,
       InterrGuarda, InterrWaitBloquea, InterrSigueEnCPU, InterrSignalDespierta,
       InterrSignalSaca, InterrSignalNadie, InterrSignalPone
<1>4. CASE \E i \in Interfaz : PasoInterfaz(i)
  <2> PICK i \in Interfaz : PasoInterfaz(i)
    BY <1>4
  <2>1. ASSUME InterfazLibera(i)
        PROVE  pc'["consola"] = pc["consola"]
    BY <1>t, <2>1, LiberarQuieto DEF InterfazLibera, Etiquetas, HilosFijos
  <2> QED
    BY <1>t, <2>1 DEF PasoInterfaz, Interf, HilosFijos, SigueSiActiva,
       SaleDePausa, InterfazConecta, InterfazToma, InterfazEjecuta,
       InterfazResponde, InterfazReanuda, InterfazSaca, InterfazSacaNadie,
       InterfazPone, InterfazBorra, InterfazFalla, InterfazQuitaCola,
       InterfazItera, InterfazAvisaMemoria, InterfazAExit, InterfazIteraFin
<1>5. CASE PasoOrden
  BY <1>5, <1>t DEF PasoOrden, Orden, IniciarProceso, IniciarProcesoSinPath,
     PideCreacion, Lee, DetenerPlanificacion, IniciarPlanificacion,
     Multiprogramacion, FinalizarProceso, SinFin, HilosFijos
<1>6. CASE PasoConsola
  <2>1. ASSUME NEW k \in 1 .. 4
        PROVE  EtapaFin(k) \notin SinFin /\ EtapaExit(k) \notin SinFin
    BY DEF EtapaFin, EtapaExit, SinFin
  <2>2. ~ FinalizarLibera
    BY <1>t, LiberarQuieto DEF FinalizarLibera, Etiquetas, HilosFijos, SinFin
  <2>3. /\ ~ FinalizarEnExec /\ ~ FinalizarAvisaMemoria
        /\ \A k \in 1 .. 4 : /\ ~ FinalizarEncuentra(k) /\ ~ FinalizarNoEncuentra(k)
                              /\ ~ FinalizarAExit(k)
    BY <2>1 DEF FinalizarEnExec, FinalizarAvisaMemoria, FinalizarEncuentra,
       FinalizarNoEncuentra, FinalizarAExit, SinFin
  <2>4. ProcesoAColaNew \/ ConsolaInicializaRecursos \/ CambiaGrado
    BY <1>6, <2>2, <2>3 DEF PasoConsola, Ejecuta
  <2> QED
    BY <1>t, <2>4 DEF ProcesoAColaNew, ConsolaInicializaRecursos, CambiaGrado,
       SinFin, HilosFijos
<1>7. CASE \/ PasoMemoria \/ PasoCPU \/ PasoOrdenPerdida
           \/ Reposo \/ UNCHANGED vars
  BY <1>7 DEF PasoMemoria, PasoCPU, PasoOrdenPerdida, Reposo, vars,
     MemoriaAtiende, CPUTermina, CPULlama, CPUDesaloja, CPUInterrumpe,
     CPUOlvidaOrden, kernelVars
<1> QED
  BY <1>1, <1>2, <1>3, <1>4, <1>5, <1>6, <1>7 DEF Next

\* Then no process is ever lost: what the threads do side by side is safe.
LEMMA PasoTodosUbicados ==
  ASSUME Inductivo, Ubicacion, Enlace, TodosUbicados,
         pc["consola"] \in SinFin, [Next]_vars
  PROVE  TodosUbicados'
<1>1. pc["interr"] = "bloq_pone" => tokens.arg \in claves \cup Interfaz
  BY DEF Enlace, BloqueoConLista
<1>2. \A i \in Interfaz : pc[i] = "quita_cola" => huerfana[i] = << >>
  BY DEF Enlace, ListaTomada, Caidas
<1> QED
  BY <1>1, <1>2, PasoUbicacion

(* The tokens of the degree. *)

\* The degree is not being changed.
GradoQuieto ==
    /\ UNCHANGED << grado_multiprogramacion, nuevo_grado >>
    /\ pc'["consola"] = "grado" <=> pc["consola"] = "grado"

\* What the six parts of the count have to do for it to stay.
LEMMA CuposQuieto ==
  ASSUME UNCHANGED << sem_multiprogramacion_ready,
                      cantidad_procesos_ejecutandose >>,
         GradoQuieto,
         pc'["largo"] = "multi" <=> pc["largo"] = "multi",
         pc'["interr"] = "aum_resta" <=> pc["interr"] = "aum_resta",
         FinalizarCuenta' <=> FinalizarCuenta
  PROVE  Cupos' = Cupos /\ GradoQuieto
BY DEF Cupos, Uno

\* The long term scheduler takes a token and counts the process it admits.
LEMMA LargoCupos ==
  ASSUME Inductivo, Largo, UNCHANGED otras
  PROVE  Cupos' = Cupos /\ GradoQuieto
<1>t. /\ pc \in [Hilos -> Etiquetas] /\ SchedulerTypeOK /\ SemaforosTypeOK
      /\ ConexionesTypeOK /\ HilosFijos \subseteq Hilos /\ Interfaz \subseteq Hilos
      /\ Interfaz \cap HilosFijos = {} /\ Pausables = Hilos \ {"consola"}
  BY DEF Inductivo, TypeOK, Hilos, Pausables
<1>1. CASE LargoTomaCupo
  <2>1. /\ pc'["largo"] # "multi" /\ pc["largo"] = "multi"
        /\ pc'["interr"] = pc["interr"] /\ pc'["consola"] = pc["consola"]
        /\ sem_multiprogramacion_ready' = sem_multiprogramacion_ready - 1
        /\ UNCHANGED cantidad_procesos_ejecutandose /\ GradoQuieto
    BY <1>1, <1>t DEF GradoQuieto, HilosFijos, LargoTomaCupo, SigueSiActiva
  <2> QED
    BY <1>t, <2>1 DEF Cupos, Uno, FinalizarCuenta, SemaforosTypeOK
<1>2. CASE LargoReanuda
  BY <1>2, <1>t, CuposQuieto DEF GradoQuieto, HilosFijos, FinalizarCuenta,
     LargoReanuda, SaleDePausa
<1>3. CASE LargoConfirma
  BY <1>3, <1>t, CuposQuieto DEF GradoQuieto, HilosFijos, FinalizarCuenta,
     LargoConfirma
<1>4. CASE LargoEsperaNew
  BY <1>4, <1>t, CuposQuieto DEF GradoQuieto, HilosFijos, FinalizarCuenta,
     LargoEsperaNew
<1>5. CASE LargoSaca
  BY <1>5, <1>t, CuposQuieto DEF GradoQuieto, HilosFijos, FinalizarCuenta,
     LargoSaca
<1>6. CASE LargoSacaNada
  BY <1>6, <1>t, CuposQuieto DEF GradoQuieto, HilosFijos, FinalizarCuenta,
     LargoSacaNada
<1>7. CASE LargoPone
  BY <1>7, <1>t, CuposQuieto DEF GradoQuieto, HilosFijos, FinalizarCuenta,
     LargoPone
<1>8. CASE LargoCuenta
  <2>1. /\ pc'["largo"] = "multi" /\ pc["largo"] # "multi"
        /\ pc'["interr"] = pc["interr"] /\ pc'["consola"] = pc["consola"]
        /\ cantidad_procesos_ejecutandose' = cantidad_procesos_ejecutandose + 1
        /\ UNCHANGED sem_multiprogramacion_ready /\ GradoQuieto
    BY <1>8, <1>t DEF GradoQuieto, HilosFijos, LargoCuenta
  <2> QED
    BY <1>t, <2>1 DEF Cupos, Uno, FinalizarCuenta, SemaforosTypeOK
<1> QED
  BY <1>1, <1>2, <1>3, <1>4, <1>5, <1>6, <1>7, <1>8 DEF Largo

\* The dispatcher has nothing to do with them.
LEMMA CortoCupos ==
  ASSUME Inductivo, Corto, UNCHANGED otras
  PROVE  Cupos' = Cupos /\ GradoQuieto
<1>t. /\ pc \in [Hilos -> Etiquetas] /\ SchedulerTypeOK /\ SemaforosTypeOK
      /\ ConexionesTypeOK /\ HilosFijos \subseteq Hilos /\ Interfaz \subseteq Hilos
      /\ Interfaz \cap HilosFijos = {} /\ Pausables = Hilos \ {"consola"}
  BY DEF Inductivo, TypeOK, Hilos, Pausables
<1>1. CASE CortoToma
  BY <1>1, <1>t, CuposQuieto DEF GradoQuieto, HilosFijos, FinalizarCuenta,
     CortoToma, SigueSiActiva, Entrada
<1>2. CASE CortoReanuda
  BY <1>2, <1>t, CuposQuieto DEF GradoQuieto, HilosFijos, FinalizarCuenta,
     CortoReanuda, SaleDePausa, Entrada
<1>3. CASE CortoElige
  BY <1>3, <1>t, CuposQuieto DEF GradoQuieto, HilosFijos, FinalizarCuenta,
     CortoElige
<1>4. CASE CortoSacaAux
  BY <1>4, <1>t, CuposQuieto DEF GradoQuieto, HilosFijos, FinalizarCuenta,
     CortoSacaAux
<1>5. CASE CortoSacaReady
  BY <1>5, <1>t, CuposQuieto DEF GradoQuieto, HilosFijos, FinalizarCuenta,
     CortoSacaReady
<1>6. CASE CortoDespacha
  BY <1>6, <1>t, CuposQuieto DEF GradoQuieto, HilosFijos, FinalizarCuenta,
     CortoDespacha
<1> QED
  BY <1>1, <1>2, <1>3, <1>4, <1>5, <1>6 DEF Corto

\* The handler gives back that of a process that ends, or keeps it when there
\* are more processes than the degree.
LEMMA InterrCupos ==
  ASSUME Inductivo, Interr, UNCHANGED << pcb_io, consVars >>
  PROVE  /\ GradoQuieto
         /\ \/ Cupos' = Cupos
            \/ /\ Cupos' = Cupos - 1
               /\ pc["interr"] = "aum_mira" /\ pc'["consola"] = pc["consola"]
               /\ cantidad_procesos_ejecutandose > grado_multiprogramacion
<1>t. /\ pc \in [Hilos -> Etiquetas] /\ SchedulerTypeOK /\ SemaforosTypeOK
      /\ ConexionesTypeOK /\ HilosFijos \subseteq Hilos /\ Interfaz \subseteq Hilos
      /\ Interfaz \cap HilosFijos = {} /\ Pausables = Hilos \ {"consola"}
  BY DEF Inductivo, TypeOK, Hilos, Pausables
<1>c. Caso(tokens) # "aum_resta"
  BY DEF Caso, OpsDeFin, Inductivo, TypeOK, LocalesTypeOK, Instruccion,
     Operaciones
<1>1. CASE InterrRecibe
  BY <1>1, <1>t, CuposQuieto DEF GradoQuieto, HilosFijos, FinalizarCuenta,
     InterrRecibe
<1>2. CASE InterrActiva
  BY <1>2, <1>t, <1>c, CuposQuieto DEF GradoQuieto, HilosFijos, FinalizarCuenta,
     InterrActiva, SigueSiActiva
<1>3. CASE InterrReanuda
  BY <1>3, <1>t, <1>c, CuposQuieto DEF GradoQuieto, HilosFijos, FinalizarCuenta,
     InterrReanuda, SaleDePausa
<1>4. CASE InterrAvisaMemoria
  BY <1>4, <1>t, CuposQuieto DEF GradoQuieto, HilosFijos, FinalizarCuenta,
     InterrAvisaMemoria
<1>5. CASE InterrLibera
  <2>1. /\ pc'["largo"] = pc["largo"]
        /\ pc'["interr"] = "aum_resta" <=> pc["interr"] = "aum_resta"
        /\ FinalizarCuenta' <=> FinalizarCuenta
        /\ UNCHANGED << semVars, planVars >> /\ GradoQuieto
    BY <1>5, <1>t, LiberarQuieto DEF InterrLibera, Etiquetas, HilosFijos,
       FinalizarCuenta, GradoQuieto
  <2> QED
    BY <2>1, CuposQuieto
<1>6. CASE InterrFinSaca
  BY <1>6, <1>t, CuposQuieto DEF GradoQuieto, HilosFijos, FinalizarCuenta,
     InterrFinSaca
<1>7. CASE InterrFinPone
  BY <1>7, <1>t, CuposQuieto DEF GradoQuieto, HilosFijos, FinalizarCuenta,
     InterrFinPone
<1>8. CASE InterrAumentaMira
  <2>1. /\ pc'["interr"] = "aum_resta" /\ pc["interr"] = "aum_mira"
        /\ pc'["largo"] = pc["largo"] /\ pc'["consola"] = pc["consola"]
        /\ UNCHANGED cantidad_procesos_ejecutandose /\ GradoQuieto
    BY <1>8, <1>t DEF GradoQuieto, HilosFijos, InterrAumentaMira
  <2>2. CASE cantidad_procesos_ejecutandose <= grado_multiprogramacion
    <3>1. sem_multiprogramacion_ready' = sem_multiprogramacion_ready + 1
      BY <1>8, <2>2 DEF InterrAumentaMira, DevuelveCupo
    <3> QED
      BY <1>t, <2>1, <3>1 DEF Cupos, Uno, FinalizarCuenta, SemaforosTypeOK
  <2>3. CASE ~ (cantidad_procesos_ejecutandose <= grado_multiprogramacion)
    <3>1. sem_multiprogramacion_ready' = sem_multiprogramacion_ready
      BY <1>8, <1>t, <2>3 DEF InterrAumentaMira, DevuelveCupo, SemaforosTypeOK
    <3> QED
      BY <1>t, <2>1, <2>3, <3>1 DEF Cupos, Uno, FinalizarCuenta, SemaforosTypeOK
  <2> QED
    BY <2>2, <2>3
<1>9. CASE InterrAumentaResta
  <2>1. /\ pc["interr"] = "aum_resta" /\ pc'["interr"] # "aum_resta"
        /\ pc'["largo"] = pc["largo"] /\ pc'["consola"] = pc["consola"]
        /\ UNCHANGED sem_multiprogramacion_ready /\ GradoQuieto
        /\ cantidad_procesos_ejecutandose' = cantidad_procesos_ejecutandose - 1
    BY <1>9, <1>t DEF GradoQuieto, HilosFijos, InterrAumentaResta
  <2> QED
    BY <1>t, <2>1 DEF Cupos, Uno, FinalizarCuenta, SemaforosTypeOK
<1>10. CASE InterrRecursoInvalido
  BY <1>10, <1>t, CuposQuieto DEF GradoQuieto, HilosFijos, FinalizarCuenta,
     InterrRecursoInvalido
<1>11. CASE InterrDesalojaSaca
  BY <1>11, <1>t, CuposQuieto DEF GradoQuieto, HilosFijos, FinalizarCuenta,
     InterrDesalojaSaca
<1>12. CASE InterrDesalojaPone
  BY <1>12, <1>t, CuposQuieto DEF GradoQuieto, HilosFijos, FinalizarCuenta,
     InterrDesalojaPone
<1>13. CASE InterrIO
  BY <1>13, <1>t, CuposQuieto DEF GradoQuieto, HilosFijos, FinalizarCuenta,
     InterrIO
<1>14. CASE InterrAgregaInstruccion
  BY <1>14, <1>t, CuposQuieto DEF GradoQuieto, HilosFijos, FinalizarCuenta,
     InterrAgregaInstruccion
<1>15. CASE InterrBloqueaSaca
  BY <1>15, <1>t, CuposQuieto DEF GradoQuieto, HilosFijos, FinalizarCuenta,
     InterrBloqueaSaca
<1>16. CASE InterrBloqueaBusca
  BY <1>16, <1>t, CuposQuieto DEF GradoQuieto, HilosFijos, FinalizarCuenta,
     InterrBloqueaBusca
<1>17. CASE InterrBloqueaPone
  BY <1>17, <1>t, CuposQuieto DEF GradoQuieto, HilosFijos, FinalizarCuenta,
     InterrBloqueaPone
<1>18. CASE InterrAsigna
  BY <1>18, <1>t, CuposQuieto DEF GradoQuieto, HilosFijos, FinalizarCuenta,
     InterrAsigna
<1>19. CASE InterrCarga
  BY <1>19, <1>t, CuposQuieto DEF GradoQuieto, HilosFijos, FinalizarCuenta,
     InterrCarga
<1>20. CASE InterrGuarda
  BY <1>20, <1>t, CuposQuieto DEF GradoQuieto, HilosFijos, FinalizarCuenta,
     InterrGuarda
<1>21. CASE InterrWaitBloquea
  BY <1>21, <1>t, CuposQuieto DEF GradoQuieto, HilosFijos, FinalizarCuenta,
     InterrWaitBloquea
<1>22. CASE InterrSigueEnCPU
  BY <1>22, <1>t, CuposQuieto DEF GradoQuieto, HilosFijos, FinalizarCuenta,
     InterrSigueEnCPU, VuelveALaCPU
<1>23. CASE InterrSignalDespierta
  BY <1>23, <1>t, CuposQuieto DEF GradoQuieto, HilosFijos, FinalizarCuenta,
     InterrSignalDespierta
<1>24. CASE InterrSignalSaca
  BY <1>24, <1>t, CuposQuieto DEF GradoQuieto, HilosFijos, FinalizarCuenta,
     InterrSignalSaca
<1>25. CASE InterrSignalNadie
  BY <1>25, <1>t, CuposQuieto DEF GradoQuieto, HilosFijos, FinalizarCuenta,
     InterrSignalNadie, VuelveALaCPU
<1>26. CASE InterrSignalPone
  BY <1>26, <1>t, CuposQuieto DEF GradoQuieto, HilosFijos, FinalizarCuenta,
     InterrSignalPone, VuelveALaCPU
<1> QED
  BY <1>1, <1>2, <1>3, <1>4, <1>5, <1>6, <1>7, <1>8, <1>9, <1>10, <1>11, <1>12,
     <1>13, <1>14, <1>15, <1>16, <1>17, <1>18, <1>19, <1>20, <1>21, <1>22,
     <1>23, <1>24, <1>25, <1>26 DEF Interr

\* An interface has nothing to do with them either, not even when it ends a
\* process.
LEMMA InterfazCupos ==
  ASSUME Inductivo, NEW i \in Interfaz, Interf(i),
         UNCHANGED << tokens, consVars >>
  PROVE  Cupos' = Cupos /\ GradoQuieto
<1>t. /\ pc \in [Hilos -> Etiquetas] /\ SchedulerTypeOK /\ SemaforosTypeOK
      /\ ConexionesTypeOK /\ HilosFijos \subseteq Hilos /\ Interfaz \subseteq Hilos
      /\ Interfaz \cap HilosFijos = {} /\ Pausables = Hilos \ {"consola"}
  BY DEF Inductivo, TypeOK, Hilos, Pausables
<1>1. CASE InterfazConecta(i)
  BY <1>1, <1>t, CuposQuieto DEF GradoQuieto, HilosFijos, FinalizarCuenta,
     InterfazConecta
<1>2. CASE InterfazToma(i)
  BY <1>2, <1>t, CuposQuieto DEF GradoQuieto, HilosFijos, FinalizarCuenta,
     InterfazToma
<1>3. CASE InterfazEjecuta(i)
  BY <1>3, <1>t, CuposQuieto DEF GradoQuieto, HilosFijos, FinalizarCuenta,
     InterfazEjecuta
<1>4. CASE InterfazResponde(i)
  BY <1>4, <1>t, CuposQuieto DEF GradoQuieto, HilosFijos, FinalizarCuenta,
     InterfazResponde, SigueSiActiva
<1>5. CASE InterfazReanuda(i)
  BY <1>5, <1>t, CuposQuieto DEF GradoQuieto, HilosFijos, FinalizarCuenta,
     InterfazReanuda, SaleDePausa
<1>6. CASE InterfazSaca(i)
  BY <1>6, <1>t, CuposQuieto DEF GradoQuieto, HilosFijos, FinalizarCuenta,
     InterfazSaca
<1>7. CASE InterfazSacaNadie(i)
  BY <1>7, <1>t, CuposQuieto DEF GradoQuieto, HilosFijos, FinalizarCuenta,
     InterfazSacaNadie
<1>8. CASE InterfazPone(i)
  BY <1>8, <1>t, CuposQuieto DEF GradoQuieto, HilosFijos, FinalizarCuenta,
     InterfazPone
<1>9. CASE InterfazBorra(i)
  BY <1>9, <1>t, CuposQuieto DEF GradoQuieto, HilosFijos, FinalizarCuenta,
     InterfazBorra
<1>10. CASE InterfazFalla(i)
  BY <1>10, <1>t, CuposQuieto DEF GradoQuieto, HilosFijos, FinalizarCuenta,
     InterfazFalla
<1>11. CASE InterfazQuitaCola(i)
  BY <1>11, <1>t, CuposQuieto DEF GradoQuieto, HilosFijos, FinalizarCuenta,
     InterfazQuitaCola
<1>12. CASE InterfazItera(i)
  BY <1>12, <1>t, CuposQuieto DEF GradoQuieto, HilosFijos, FinalizarCuenta,
     InterfazItera
<1>13. CASE InterfazLibera(i)
  <2>1. /\ pc'["largo"] = pc["largo"]
        /\ pc'["interr"] = "aum_resta" <=> pc["interr"] = "aum_resta"
        /\ FinalizarCuenta' <=> FinalizarCuenta
        /\ UNCHANGED << semVars, planVars >> /\ GradoQuieto
    BY <1>13, <1>t, LiberarQuieto DEF InterfazLibera, Etiquetas, HilosFijos,
       FinalizarCuenta, GradoQuieto
  <2> QED
    BY <2>1, CuposQuieto
<1>14. CASE InterfazAvisaMemoria(i)
  BY <1>14, <1>t, CuposQuieto DEF GradoQuieto, HilosFijos, FinalizarCuenta,
     InterfazAvisaMemoria
<1>15. CASE InterfazAExit(i)
  BY <1>15, <1>t, CuposQuieto DEF GradoQuieto, HilosFijos, FinalizarCuenta,
     InterfazAExit
<1>16. CASE InterfazIteraFin(i)
  BY <1>16, <1>t, CuposQuieto DEF GradoQuieto, HilosFijos, FinalizarCuenta,
     InterfazIteraFin
<1> QED
  BY <1>1, <1>2, <1>3, <1>4, <1>5, <1>6, <1>7, <1>8, <1>9, <1>10, <1>11, <1>12,
     <1>13, <1>14, <1>15, <1>16 DEF Interf

\* The process FINALIZAR_PROCESO found in cola_new is the only kind it finds
\* in the estado NEW.
LEMMA FinalizarEncuentraEstado ==
  ASSUME Inductivo, Ubicacion, NEW k \in 1 .. 4, FinalizarEncuentra(k)
  PROVE  estado[pid_a_finalizar] = "NEW" <=> k = 1
<1> DEFINE x == pid_a_finalizar
<1>1. PICK q \in ColasDeEtapa(k) : Contains(colas[q], x)
  BY DEF FinalizarEncuentra
<1>2. /\ q \in Colas /\ (q = "new" <=> k = 1) /\ x \in Pids
  BY DEF Inductivo, TypeOK, SchedulerTypeOK, ArgumentoValido,
     FinalizarEncuentra, EtapaFin, ColasDeEtapa, Etapas, Colas, Bloqueados
<1>3. Esta(x, << "cola", q >>) /\ << "cola", q >> \in Sitios
  BY <1>1, <1>2, SonSitios DEF Esta
<1>4. EsNuevo(<< "cola", q >>) <=> q = "new"
  BY DEF EsNuevo
<1> QED
  BY <1>2, <1>3, <1>4 DEF Ubicacion, EstadoNuevo

\* And it still is when the count is lowered.
LEMMA FinalizarAExitEstado ==
  ASSUME Inductivo, Ubicacion, NEW k \in 1 .. 4, FinalizarAExit(k)
  PROVE  estado[pid_a_finalizar] = "NEW" <=> k = 1
<1> DEFINE x == pid_a_finalizar
           b == << "mano", "consola" >>
<1>1. /\ pc["consola"] = EtapaExit(k) /\ EtapaExit(k) \in EnExit
      /\ EtapaExit(k) = "exit_new" <=> k = 1
      /\ EtapaExit(k) # "a_new"
  BY DEF FinalizarAExit, EtapaExit, EnExit
<1>2. mano["consola"] = x /\ x \in Pids /\ "consola" \in Hilos
  BY <1>1 DEF Ubicacion, ManoJusta, Inductivo, ArgumentoValido, EnExit, Hilos,
     HilosFijos
<1>3. Esta(x, b) /\ b \in Sitios
  BY <1>2, SonSitios DEF Esta
<1>4. EsNuevo(b) <=> k = 1
  BY <1>1 DEF EsNuevo
<1> QED
  BY <1>2, <1>3, <1>4 DEF Ubicacion, EstadoNuevo

\* The console gives back that of a process it ends, or keeps it, and
\* MULTIPROGRAMACION makes new ones.
LEMMA ConsolaCupos ==
  ASSUME Inductivo, Ubicacion, Orden \/ Ejecuta, UNCHANGED << tokens, pcb_io >>
  PROVE  \/ Cupos' = Cupos /\ GradoQuieto
         \/ /\ Cupos' = Cupos - 1 /\ GradoQuieto
            /\ ~ FinalizarCuenta /\ FinalizarCuenta' /\ pc'["interr"] = pc["interr"]
            /\ cantidad_procesos_ejecutandose > grado_multiprogramacion
         \/ /\ "MULTIPROGRAMACION" \in Comandos /\ nuevo_grado' \in Grados
            /\ UNCHANGED grado_multiprogramacion
            /\ Cupos' = Cupos + (IF nuevo_grado' > grado_multiprogramacion
                                THEN nuevo_grado' - grado_multiprogramacion ELSE 0)
            /\ pc["consola"] = "comando" /\ pc'["consola"] = "grado"
         \/ /\ pc["consola"] = "grado" /\ pc'["consola"] = "comando"
            /\ Cupos' = Cupos /\ grado_multiprogramacion' = nuevo_grado
            /\ UNCHANGED nuevo_grado
<1>t. /\ pc \in [Hilos -> Etiquetas] /\ SchedulerTypeOK /\ SemaforosTypeOK
      /\ ConexionesTypeOK /\ HilosFijos \subseteq Hilos /\ Interfaz \subseteq Hilos
      /\ Interfaz \cap HilosFijos = {} /\ Pausables = Hilos \ {"consola"}
  BY DEF Inductivo, TypeOK, Hilos, Pausables
<1>1. CASE IniciarProceso
  BY <1>1, <1>t, CuposQuieto DEF GradoQuieto, HilosFijos, FinalizarCuenta,
     IniciarProceso, PideCreacion
<1>2. CASE IniciarProcesoSinPath
  BY <1>2, <1>t, CuposQuieto DEF GradoQuieto, HilosFijos, FinalizarCuenta,
     IniciarProcesoSinPath, PideCreacion, Lee
<1>3. CASE DetenerPlanificacion
  BY <1>3, <1>t, CuposQuieto DEF GradoQuieto, HilosFijos, FinalizarCuenta,
     DetenerPlanificacion, Lee
<1>4. CASE IniciarPlanificacion
  BY <1>4, <1>t, CuposQuieto DEF GradoQuieto, HilosFijos, FinalizarCuenta,
     IniciarPlanificacion
<1>5. CASE Multiprogramacion
  <2>1. PICK g \in Grados :
           /\ nuevo_grado' = g
           /\ sem_multiprogramacion_ready' = sem_multiprogramacion_ready +
                 (IF g > grado_multiprogramacion
                  THEN g - grado_multiprogramacion ELSE 0)
    BY <1>5 DEF Multiprogramacion
  <2>2. /\ pc["consola"] = "comando" /\ pc'["consola"] = "grado"
        /\ "MULTIPROGRAMACION" \in Comandos
        /\ pc'["largo"] = pc["largo"] /\ pc'["interr"] = pc["interr"]
        /\ UNCHANGED << cantidad_procesos_ejecutandose, grado_multiprogramacion >>
    BY <1>5, <1>t DEF Multiprogramacion, Lee, HilosFijos
  <2>3. g \in Nat
    BY ComandosPosibles
  <2>4. Cupos' = Cupos + (IF g > grado_multiprogramacion
                         THEN g - grado_multiprogramacion ELSE 0)
    BY <1>t, <2>1, <2>2, <2>3 DEF Cupos, Uno, FinalizarCuenta, SemaforosTypeOK
  <2> QED
    BY <2>1, <2>2, <2>4
<1>6. CASE FinalizarProceso
  BY <1>6, <1>t, CuposQuieto DEF GradoQuieto, HilosFijos, FinalizarCuenta,
     FinalizarProceso, Lee
<1>7. CASE ProcesoAColaNew
  BY <1>7, <1>t, CuposQuieto DEF GradoQuieto, HilosFijos, FinalizarCuenta,
     ProcesoAColaNew
<1>8. CASE ConsolaInicializaRecursos
  BY <1>8, <1>t, CuposQuieto DEF GradoQuieto, HilosFijos, FinalizarCuenta,
     ConsolaInicializaRecursos
<1>9. CASE CambiaGrado
  <2>1. /\ pc["consola"] = "grado" /\ pc'["consola"] = "comando"
        /\ pc'["largo"] = pc["largo"] /\ pc'["interr"] = pc["interr"]
        /\ UNCHANGED << sem_multiprogramacion_ready, cantidad_procesos_ejecutandose >>
        /\ grado_multiprogramacion' = nuevo_grado /\ UNCHANGED nuevo_grado
    BY <1>9, <1>t DEF CambiaGrado, HilosFijos
  <2>2. Cupos' = Cupos
    BY <2>1 DEF Cupos, Uno, FinalizarCuenta
  <2> QED
    BY <2>1, <2>2
<1>10. CASE FinalizarEnExec
  BY <1>10, <1>t, CuposQuieto DEF GradoQuieto, HilosFijos, FinalizarCuenta,
     FinalizarEnExec
<1>11. CASE \E k \in 1 .. 4 : FinalizarEncuentra(k)
  <2> PICK k \in 1 .. 4 : FinalizarEncuentra(k)
    BY <1>11
  <2>1. /\ pc["consola"] = EtapaFin(k) /\ pc'["consola"] = EtapaExit(k)
        /\ pc'["largo"] = pc["largo"] /\ pc'["interr"] = pc["interr"]
        /\ UNCHANGED cantidad_procesos_ejecutandose /\ GradoQuieto
    BY <1>t DEF FinalizarEncuentra, GradoQuieto, EtapaFin, EtapaExit, HilosFijos
  <2>2. /\ ~ FinalizarCuenta /\ (FinalizarCuenta' <=> k # 1)
    BY <2>1 DEF FinalizarCuenta, EtapaFin, EtapaExit
  <2>3. estado[pid_a_finalizar] = "NEW" <=> k = 1
    BY FinalizarEncuentraEstado
  <2>4. CASE k # 1 /\ cantidad_procesos_ejecutandose > grado_multiprogramacion
    <3>1. sem_multiprogramacion_ready' = sem_multiprogramacion_ready
      BY <1>t, <2>3, <2>4 DEF FinalizarEncuentra, DevuelveDe, DevuelveCupo,
         SemaforosTypeOK
    <3>2. Cupos' = Cupos - 1
      BY <1>t, <2>1, <2>2, <2>4, <3>1 DEF Cupos, Uno, SemaforosTypeOK
    <3> QED
      BY <2>1, <2>2, <2>4, <3>2
  <2>5. CASE ~ (k # 1 /\ cantidad_procesos_ejecutandose > grado_multiprogramacion)
    <3>1. sem_multiprogramacion_ready' = sem_multiprogramacion_ready +
             (IF k = 1 THEN 0 ELSE 1)
      BY <1>t, <2>3, <2>5 DEF FinalizarEncuentra, DevuelveDe, DevuelveCupo,
         SemaforosTypeOK
    <3>2. Cupos' = Cupos
      BY <1>t, <2>1, <2>2, <3>1 DEF Cupos, Uno, SemaforosTypeOK
    <3> QED
      BY <2>1, <3>2
  <2> QED
    BY <2>4, <2>5
<1>12. CASE \E k \in 1 .. 4 : FinalizarNoEncuentra(k)
  <2> PICK k \in 1 .. 4 : FinalizarNoEncuentra(k)
    BY <1>12
  <2> QED
    BY <1>t, CuposQuieto DEF GradoQuieto, HilosFijos, FinalizarCuenta,
       FinalizarNoEncuentra, EtapaFin, Siguiente
<1>13. CASE \E k \in 1 .. 4 : FinalizarAExit(k)
  <2> PICK k \in 1 .. 4 : FinalizarAExit(k)
    BY <1>13
  <2>1. /\ pc["consola"] = EtapaExit(k) /\ pc'["consola"] = Siguiente(k)
        /\ pc'["largo"] = pc["largo"] /\ pc'["interr"] = pc["interr"]
        /\ UNCHANGED sem_multiprogramacion_ready /\ GradoQuieto
        /\ cantidad_procesos_ejecutandose' = cantidad_procesos_ejecutandose -
              (IF estado[pid_a_finalizar] # "NEW" THEN 1 ELSE 0)
    BY <1>t DEF FinalizarAExit, GradoQuieto, EtapaExit, Siguiente, EtapaFin,
       HilosFijos
  <2>2. /\ ~ FinalizarCuenta' /\ (FinalizarCuenta <=> k # 1)
    BY <2>1 DEF FinalizarCuenta, EtapaExit, Siguiente, EtapaFin
  <2>3. estado[pid_a_finalizar] = "NEW" <=> k = 1
    BY FinalizarAExitEstado
  <2>4. Cupos' = Cupos
    BY <1>t, <2>1, <2>2, <2>3 DEF Cupos, Uno, SemaforosTypeOK
  <2> QED
    BY <2>1, <2>4
<1>14. CASE FinalizarAvisaMemoria
  BY <1>14, <1>t, CuposQuieto DEF GradoQuieto, HilosFijos, FinalizarCuenta,
     FinalizarAvisaMemoria
<1>15. CASE FinalizarLibera
  <2>1. /\ pc'["largo"] = pc["largo"]
        /\ pc'["interr"] = "aum_resta" <=> pc["interr"] = "aum_resta"
        /\ FinalizarCuenta' <=> FinalizarCuenta
        /\ UNCHANGED << semVars, planVars >> /\ GradoQuieto
    BY <1>15, <1>t, LiberarQuieto DEF FinalizarLibera, Etiquetas, HilosFijos,
       FinalizarCuenta, GradoQuieto
  <2> QED
    BY <2>1, CuposQuieto
<1> QED
  BY <1>1, <1>2, <1>3, <1>4, <1>5, <1>6, <1>7, <1>8, <1>9, <1>10, <1>11, <1>12,
     <1>13, <1>14, <1>15 DEF Orden, Ejecuta

\* Every step of the kernel.
LEMMA PasoCupos ==
  ASSUME Inductivo, Ubicacion, [Next]_vars
  PROVE  \/ Cupos' = Cupos /\ GradoQuieto
         \/ /\ Cupos' = Cupos - 1 /\ GradoQuieto
            /\ cantidad_procesos_ejecutandose > grado_multiprogramacion
            /\ \/ pc["interr"] = "aum_mira" /\ pc'["consola"] = pc["consola"]
               \/ /\ ~ FinalizarCuenta /\ FinalizarCuenta'
                  /\ pc'["interr"] = pc["interr"]
         \/ /\ "MULTIPROGRAMACION" \in Comandos /\ nuevo_grado' \in Grados
            /\ UNCHANGED grado_multiprogramacion
            /\ Cupos' = Cupos + (IF nuevo_grado' > grado_multiprogramacion
                                THEN nuevo_grado' - grado_multiprogramacion ELSE 0)
            /\ pc["consola"] = "comando" /\ pc'["consola"] = "grado"
         \/ /\ pc["consola"] = "grado" /\ pc'["consola"] = "comando"
            /\ Cupos' = Cupos /\ grado_multiprogramacion' = nuevo_grado
            /\ UNCHANGED nuevo_grado
<1>1. CASE PasoLargo
  BY <1>1, LargoCupos DEF PasoLargo
<1>2. CASE PasoCorto
  BY <1>2, CortoCupos DEF PasoCorto
<1>3. CASE PasoInterr
  BY <1>3, InterrCupos DEF PasoInterr
<1>4. CASE \E i \in Interfaz : PasoInterfaz(i)
  BY <1>4, InterfazCupos DEF PasoInterfaz
<1>5. CASE PasoOrden \/ PasoConsola
  BY <1>5, ConsolaCupos DEF PasoOrden, PasoConsola
<1>6. CASE \/ PasoMemoria \/ PasoCPU \/ PasoOrdenPerdida
           \/ Reposo \/ UNCHANGED vars
  <2>1. UNCHANGED << semVars, planVars, pc, nuevo_grado >>
    BY <1>6 DEF PasoMemoria, PasoCPU, PasoOrdenPerdida, Reposo, vars,
       MemoriaAtiende, CPUTermina, CPULlama, CPUDesaloja, CPUInterrumpe,
       CPUOlvidaOrden, kernelVars
  <2> QED
    BY <2>1, CuposQuieto DEF FinalizarCuenta, GradoQuieto
<1> QED
  BY <1>1, <1>2, <1>3, <1>4, <1>5, <1>6 DEF Next

\* The threads that are in the middle of giving a token back, and no others,
\* count less than they should.
LEMMA CuposPartes ==
  ASSUME Inductivo
  PROVE  /\ cantidad_procesos_ejecutandose \in Int
         /\ grado_multiprogramacion \in Nat /\ Cupos \in Int
         /\ ~ FinalizarCuenta /\ pc["interr"] # "aum_resta" =>
               Cupos >= cantidad_procesos_ejecutandose
BY DEF Inductivo, TypeOK, SemaforosTypeOK, Cupos, Uno

\* A token that is kept back.
LEMMA PasoCupoRetenido ==
  ASSUME Inductivo, Ubicacion, [Next]_vars
  PROVE  \/ Cupos' >= Cupos
         \/ Cupos' >= grado_multiprogramacion
         \/ En("interr", "aum_mira") /\ FinalizarCuenta
         \/ En("interr", "aum_resta") /\ FinalizarCuenta'
<1>1. CASE Cupos' = Cupos
  BY <1>1, CuposPartes
<1>2. CASE /\ Cupos' = Cupos - 1
           /\ \/ pc["interr"] = "aum_mira" /\ pc'["consola"] = pc["consola"]
              \/ /\ ~ FinalizarCuenta /\ FinalizarCuenta'
                 /\ pc'["interr"] = pc["interr"]
           /\ cantidad_procesos_ejecutandose > grado_multiprogramacion
  <2>1. ~ FinalizarCuenta /\ pc["interr"] # "aum_resta" => Cupos' >= grado_multiprogramacion
    BY <1>2, CuposPartes
  <2> QED
    BY <1>2, <2>1
<1>3. CASE nuevo_grado' \in Grados /\ Cupos' = Cupos +
              (IF nuevo_grado' > grado_multiprogramacion
               THEN nuevo_grado' - grado_multiprogramacion ELSE 0)
  BY <1>3, CuposPartes, ComandosPosibles
<1> QED
  BY <1>1, <1>2, <1>3, PasoCupos

\* No token is made up.
LEMMA PasoCupoNuncaSobra ==
  ASSUME Inductivo, Ubicacion, [Next]_vars,
         "MULTIPROGRAMACION" \notin Comandos,
         CupoNuncaSobra, pc["consola"] # "grado"
  PROVE  CupoNuncaSobra' /\ pc'["consola"] # "grado"
BY PasoCupos, CuposPartes DEF CupoNuncaSobra, GradoQuieto

\* None is lost either if the console ends no process.
LEMMA PasoCupoExacto ==
  ASSUME Inductivo, Ubicacion, [Next]_vars,
         {"MULTIPROGRAMACION", "FINALIZAR_PROCESO"} \cap Comandos = {},
         CupoExacto, pc["consola"] \in SinFin, pc["consola"] # "grado"
  PROVE  CupoExacto' /\ pc'["consola"] # "grado"
<1>1. pc'["consola"] \in SinFin
  BY PasoSinFin
<1>2. ~ FinalizarCuenta /\ ~ FinalizarCuenta'
  BY <1>1 DEF SinFin, FinalizarCuenta
<1> QED
  BY <1>2, PasoCupos, CuposPartes DEF CupoExacto, GradoQuieto

\* A degree that is only lowered.
LEMMA PasoCupoAlcanza ==
  ASSUME Inductivo, Ubicacion, [Next]_vars,
         "FINALIZAR_PROCESO" \notin Comandos,
         \A g \in Grados : Grados = {g} /\ g <= GradoInicial,
         pc["consola"] \in SinFin, GradoQueBaja, CupoAlcanza
  PROVE  CupoAlcanza' /\ GradoQueBaja'
<1>1. pc'["consola"] \in SinFin
  BY PasoSinFin
<1>2. ~ FinalizarCuenta /\ ~ FinalizarCuenta'
  BY <1>1 DEF SinFin, FinalizarCuenta
<1>3. \A g \in {GradoInicial} \cup Grados : g \in Nat
  BY ParametrosKernel, ComandosPosibles
<1>4. CASE Cupos' = Cupos /\ GradoQuieto
  BY <1>4 DEF CupoAlcanza, GradoQuieto, GradoQueBaja
<1>5. CASE /\ Cupos' = Cupos - 1 /\ GradoQuieto
           /\ \/ pc["interr"] = "aum_mira" /\ pc'["consola"] = pc["consola"]
              \/ /\ ~ FinalizarCuenta /\ FinalizarCuenta'
                 /\ pc'["interr"] = pc["interr"]
           /\ cantidad_procesos_ejecutandose > grado_multiprogramacion
  <2>1. Cupos' >= grado_multiprogramacion
    BY <1>2, <1>5, CuposPartes
  <2> QED
    BY <1>5, <2>1 DEF CupoAlcanza, GradoQuieto, GradoQueBaja
<1>6. CASE /\ nuevo_grado' \in Grados /\ UNCHANGED grado_multiprogramacion
           /\ Cupos' = Cupos + (IF nuevo_grado' > grado_multiprogramacion
                                THEN nuevo_grado' - grado_multiprogramacion ELSE 0)
  <2>1. nuevo_grado' <= grado_multiprogramacion
    BY <1>3, <1>6 DEF GradoQueBaja
  <2>2. Cupos' = Cupos
    BY <1>3, <1>6, <2>1, CuposPartes
  <2> QED
    BY <1>6, <2>1, <2>2 DEF CupoAlcanza, GradoQueBaja
<1>7. CASE /\ pc["consola"] = "grado" /\ pc'["consola"] = "comando"
           /\ Cupos' = Cupos /\ grado_multiprogramacion' = nuevo_grado
           /\ UNCHANGED nuevo_grado
  BY <1>3, <1>7, CuposPartes DEF CupoAlcanza, GradoQueBaja
<1> QED
  BY <1>4, <1>5, <1>6, <1>7, PasoCupos

(* The posts of the ready queues and of the interfaces. *)

\* How long the queues are after a pop and a push.
LEMMA LargoDeColas ==
  ASSUME SchedulerTypeOK, NEW h, NEW q \in Colas
  PROVE  /\ \A r \in Colas : Len(colas[r]) \in Nat
         /\ Saca(h, q) => \A r \in Colas :
               Len(colas'[r]) = IF r = q THEN Len(colas[r]) - 1 ELSE Len(colas[r])
         /\ \A e : Pone(h, q, e) /\ mano[h] \in Pids => \A r \in Colas :
               Len(colas'[r]) = IF r = q THEN Len(colas[r]) + 1 ELSE Len(colas[r])
<1>1. \A r \in Colas : colas[r] \in Seq(Pids) /\ Len(colas[r]) \in Nat
  BY DEF SchedulerTypeOK
<1>2. ASSUME Saca(h, q)
      PROVE  \A r \in Colas :
               Len(colas'[r]) = IF r = q THEN Len(colas[r]) - 1 ELSE Len(colas[r])
  <2>1. \A r \in Colas : colas'[r] = IF r = q THEN Tail(colas[r]) ELSE colas[r]
    BY <1>2 DEF Saca, SchedulerTypeOK
  <2>2. Len(Tail(colas[q])) = Len(colas[q]) - 1
    BY <1>1, <1>2 DEF Saca
  <2> QED
    BY <2>1, <2>2
<1>3. ASSUME NEW e, Pone(h, q, e), mano[h] \in Pids
      PROVE  \A r \in Colas :
               Len(colas'[r]) = IF r = q THEN Len(colas[r]) + 1 ELSE Len(colas[r])
  <2>1. \A r \in Colas : colas'[r] = IF r = q THEN Append(colas[r], mano[h])
                                              ELSE colas[r]
    BY <1>3 DEF Pone, SchedulerTypeOK
  <2>2. Len(Append(colas[q], mano[h])) = Len(colas[q]) + 1
    BY <1>1, <1>3
  <2> QED
    BY <2>1, <2>2
<1> QED
  BY <1>1, <1>2, <1>3

\* The queues that are counted.
Contadas == Interfaz \cup {"ready", "aux"}

\* The dispatcher has taken a post and not a process yet.
Tomado == {"pausa", "elige", "saca_aux", "saca_ready"}

\* What a step has to leave alone.
LEMMA ColasQuietas ==
  ASSUME ColasContadas,
         UNCHANGED << sem_hay_encolado_VRR, sem_IO_ejecucion >>,
         \A q \in Contadas : Len(colas'[q]) = Len(colas[q]),
         \A i \in Interfaz : pc'[i] = pc[i],
         pc'["corto"] \in Tomado <=> pc["corto"] \in Tomado,
         pc'["largo"] = "cuenta" <=> pc["largo"] = "cuenta",
         pc'["interr"] = "des_pone" <=> pc["interr"] = "des_pone"
  PROVE  ColasContadas'
<1>1. IOExacta'
  BY DEF ColasContadas, IOExacta, Contadas
<1>2. /\ Len(colas'["ready"]) = Len(colas["ready"])
      /\ Len(colas'["aux"]) = Len(colas["aux"])
  BY DEF Contadas
<1>3. EncoladoExacto => EncoladoExacto'
  BY <1>2 DEF EncoladoExacto, Avisados, Uno, Tomado
<1> QED
  BY <1>1, <1>3 DEF ColasContadas

\* The two sides of EncoladoExacto, and what is left of them after a step
\* that changes both by as much.
AVR == IF pc["corto"] \in Tomado THEN 1 ELSE 0
LAR == IF pc["largo"] = "cuenta" THEN 1 ELSE 0
DES == IF pc["interr"] = "des_pone" THEN 1 ELSE 0
Avisos == sem_hay_encolado_VRR + AVR + LAR
EnReady == Len(colas["ready"])
EnAux == Len(colas["aux"])
Listos == EnReady + EnAux + DES

LEMMA EncoladoCambia ==
  ASSUME EncoladoExacto, SchedulerTypeOK, SemaforosTypeOK,
         Avisos' - Avisos = Listos' - Listos,
         Avisos' \in Int, Listos' \in Int
  PROVE  EncoladoExacto'
<1>1. EncoladoExacto <=> Avisos = Listos
  BY DEF EncoladoExacto, Avisados, Uno, Tomado, Avisos, Listos, AVR, LAR, DES,
     EnReady, EnAux
<1>2. EncoladoExacto' <=> Avisos' = Listos'
  BY DEF EncoladoExacto, Avisados, Uno, Tomado, Avisos, Listos, AVR, LAR, DES,
     EnReady, EnAux
<1>3. Avisos \in Int /\ Listos \in Int
  <2>1. Len(colas["ready"]) \in Int /\ Len(colas["aux"]) \in Int
    BY LargoDeColas DEF Colas
  <2> QED
    BY <2>1 DEF Avisos, Listos, AVR, LAR, DES, EnReady, EnAux, SemaforosTypeOK
<1> QED
  BY <1>1, <1>2, <1>3

\* A step that changes the ready queues or their posts, and leaves the
\* interfaces alone.
LEMMA ReadyContadas ==
  ASSUME ColasContadas,
         UNCHANGED sem_IO_ejecucion,
         \A i \in Interfaz : pc'[i] = pc[i] /\ Len(colas'[i]) = Len(colas[i]),
         VRR_modo /\ Recurso = {} /\ EncoladoExacto => EncoladoExacto'
  PROVE  ColasContadas'
BY DEF ColasContadas, IOExacta

\* A step of the thread of an interface.
LEMMA InterfazContadas ==
  ASSUME ColasContadas, NEW i \in Interfaz,
         \A g \in Interfaz \ {i} : /\ sem_IO_ejecucion'[g] = sem_IO_ejecucion[g]
                                   /\ pc'[g] = pc[g]
                                   /\ Len(colas'[g]) = Len(colas[g]),
         pc'[i] \notin Caidas =>
           sem_IO_ejecucion'[i]
             + Uno(pc'[i] \in {"instr", "io", "pausa", "saca", "quita_cola"})
           = Len(colas'[i]),
         VRR_modo /\ Recurso = {} /\ EncoladoExacto => EncoladoExacto'
  PROVE  ColasContadas'
<1>1. IOExacta'
  BY DEF ColasContadas, IOExacta
<1> QED
  BY <1>1 DEF ColasContadas

\* The ready queues and their posts stay.
LEMMA EncoladoQuieto ==
  ASSUME EncoladoExacto, UNCHANGED sem_hay_encolado_VRR,
         \A q \in {"ready", "aux"} : Len(colas'[q]) = Len(colas[q]),
         \A g \in {"corto", "largo", "interr"} : pc'[g] = pc[g]
  PROVE  EncoladoExacto'
BY DEF EncoladoExacto, Avisados, Uno

\* The long term scheduler posts after its push.
LEMMA LargoContadas ==
  ASSUME Inductivo, ColasContadas, Largo, UNCHANGED otras
  PROVE  ColasContadas'
<1>t. /\ pc \in [Hilos -> Etiquetas] /\ SchedulerTypeOK /\ SemaforosTypeOK
      /\ HilosFijos \subseteq Hilos /\ Interfaz \subseteq Hilos
      /\ Interfaz \cap HilosFijos = {} /\ Contadas \subseteq Colas
      /\ Interfaz \cap {"new", "ready", "aux", "exit"} = {}
      /\ \A r \in Colas : Len(colas[r]) \in Nat
      /\ ManoLlena
  BY LargoDeColas DEF Inductivo, TypeOK, Hilos, Contadas, Colas, Bloqueados
<1>1. CASE LargoTomaCupo
  BY <1>1, <1>t, ColasQuietas DEF HilosFijos, Contadas, Tomado,
     LargoTomaCupo, SigueSiActiva, SacaDeExec, PoneEnExec
<1>2. CASE LargoReanuda
  BY <1>2, <1>t, ColasQuietas DEF HilosFijos, Contadas, Tomado,
     LargoReanuda, SaleDePausa, SacaDeExec, PoneEnExec
<1>3. CASE LargoConfirma
  BY <1>3, <1>t, ColasQuietas DEF HilosFijos, Contadas, Tomado,
     LargoConfirma, SacaDeExec, PoneEnExec
<1>4. CASE LargoEsperaNew
  BY <1>4, <1>t, ColasQuietas DEF HilosFijos, Contadas, Tomado,
     LargoEsperaNew, SacaDeExec, PoneEnExec
<1>5. CASE LargoSaca
  <2>1. Saca("largo", "new") /\ "new" \in Colas
    BY <1>5 DEF LargoSaca, Colas
  <2>2. \A r \in Colas : Len(colas'[r]) = IF r = "new" THEN Len(colas[r]) - 1
                                                ELSE Len(colas[r])
    BY <1>t, <2>1, LargoDeColas
  <2>3. \A r \in Contadas : Len(colas'[r]) = Len(colas[r])
    BY <1>t, <2>2, "new" \notin Contadas DEF Contadas
  <2> QED
    BY <1>5, <1>t, <2>3, ColasQuietas DEF HilosFijos, Tomado, LargoSaca
<1>6. CASE LargoSacaNada
  BY <1>6, <1>t, ColasQuietas DEF HilosFijos, Contadas, Tomado,
     LargoSacaNada, SacaDeExec, PoneEnExec
<1>7. CASE LargoPone
  <2>1. /\ Pone("largo", "ready", "READY") /\ "ready" \in Colas
        /\ mano["largo"] \in Pids
    BY <1>7, <1>t DEF LargoPone, Colas, ManoLlena, HilosFijos
  <2>2. \A r \in Colas : Len(colas'[r]) = IF r = "ready" THEN Len(colas[r]) + 1
                                                ELSE Len(colas[r])
    BY <1>t, <2>1, LargoDeColas
  <2>3. /\ UNCHANGED << sem_IO_ejecucion, sem_hay_encolado_VRR >>
        /\ pc["largo"] = "pone_ready" /\ pc'["largo"] = "cuenta"
        /\ \A g \in Hilos \ {"largo"} : pc'[g] = pc[g]
    BY <1>7, <1>t DEF LargoPone, HilosFijos
  <2>4. sem_hay_encolado_VRR \in Nat /\ Len(colas["ready"]) \in Nat
        /\ Len(colas["aux"]) \in Nat
    BY <1>t DEF SemaforosTypeOK, Contadas
  <2>5. /\ Len(colas'["ready"]) = Len(colas["ready"]) + 1
        /\ Len(colas'["aux"]) = Len(colas["aux"])
        /\ Len(colas'["ready"]) \in Int /\ Len(colas'["aux"]) \in Int
    BY <1>t, <2>2 DEF Contadas
  <2>6. pc'["corto"] = pc["corto"] /\ pc'["interr"] = pc["interr"]
    BY <1>t, <2>3 DEF HilosFijos
  <2>7. ASSUME EncoladoExacto
        PROVE  EncoladoExacto'
    <3>1. AVR' = AVR /\ LAR' = LAR + 1 /\ DES' = DES
      BY <2>3, <2>6 DEF Tomado, AVR, LAR, DES
    <3>2. AVR \in Int /\ LAR \in Int /\ DES \in Int
      BY DEF AVR, LAR, DES
    <3>3. Avisos' = Avisos + 1 /\ Avisos' \in Int
      BY <2>3, <2>4, <3>1, <3>2 DEF Avisos
    <3>a. /\ EnReady' = EnReady + 1 /\ EnAux' = EnAux
          /\ EnReady \in Int /\ EnAux \in Int
      BY <2>4, <2>5 DEF EnReady, EnAux
    <3>4. Listos' = Listos + 1 /\ Listos' \in Int /\ Listos \in Int
      BY <3>1, <3>2, <3>a DEF Listos
    <3>5. Avisos \in Int
      BY <2>4, <3>2 DEF Avisos
    <3> QED
      BY <2>7, <1>t, <3>3, <3>4, <3>5, EncoladoCambia
  <2>8. \A i \in Interfaz : pc'[i] = pc[i] /\ Len(colas'[i]) = Len(colas[i])
    BY <1>t, <2>2, <2>3 DEF Contadas, HilosFijos
  <2> QED
    BY <2>3, <2>7, <2>8, ReadyContadas
<1>8. CASE LargoCuenta
  <2>1. /\ UNCHANGED << colas, sem_IO_ejecucion >>
        /\ pc["largo"] = "cuenta" /\ pc'["largo"] = "multi"
        /\ \A g \in Hilos \ {"largo"} : pc'[g] = pc[g]
        /\ VRR_modo =>
              sem_hay_encolado_VRR' = sem_hay_encolado_VRR + 1
    BY <1>8, <1>t DEF HilosFijos, AvisaEncolado, SacaDeExec, Tomado, LargoCuenta
  <2>2. sem_hay_encolado_VRR \in Nat /\ Len(colas["ready"]) \in Nat
        /\ Len(colas["aux"]) \in Nat
    BY <1>t DEF SemaforosTypeOK, Contadas
  <2>3. pc'["corto"] = pc["corto"] /\ pc'["interr"] = pc["interr"]
    BY <1>t, <2>1 DEF HilosFijos
  <2>4. ASSUME VRR_modo, EncoladoExacto
        PROVE  EncoladoExacto'
    <3>1. AVR' = AVR /\ LAR' = LAR - 1 /\ DES' = DES
      BY <2>1, <2>3 DEF Tomado, AVR, LAR, DES
    <3>2. AVR \in Int /\ LAR \in Int /\ DES \in Int
      BY DEF AVR, LAR, DES
    <3>3. Avisos' = Avisos /\ Avisos' \in Int
      BY <2>1, <2>2, <2>4, <3>1, <3>2 DEF Avisos
    <3>a. /\ EnReady' = EnReady /\ EnAux' = EnAux
          /\ EnReady \in Int /\ EnAux \in Int
      BY <2>1, <2>2 DEF EnReady, EnAux
    <3>4. Listos' = Listos /\ Listos' \in Int /\ Listos \in Int
      BY <3>1, <3>2, <3>a DEF Listos
    <3>5. Avisos \in Int
      BY <2>2, <3>2 DEF Avisos
    <3> QED
      BY <2>4, <1>t, <3>3, <3>4, <3>5, EncoladoCambia
  <2>5. \A i \in Interfaz : pc'[i] = pc[i] /\ Len(colas'[i]) = Len(colas[i])
    BY <1>t, <2>1 DEF HilosFijos
  <2> QED
    BY <2>1, <2>4, <2>5, ReadyContadas
<1> QED
  BY <1>1, <1>2, <1>3, <1>4, <1>5, <1>6, <1>7, <1>8 DEF Largo

\* The dispatcher takes a post before it looks at the queues.
LEMMA CortoContadas ==
  ASSUME Inductivo, ColasContadas, Corto, UNCHANGED otras
  PROVE  ColasContadas'
<1>t. /\ pc \in [Hilos -> Etiquetas] /\ SchedulerTypeOK /\ SemaforosTypeOK
      /\ HilosFijos \subseteq Hilos /\ Interfaz \subseteq Hilos
      /\ Interfaz \cap HilosFijos = {} /\ Contadas \subseteq Colas
      /\ Interfaz \cap {"new", "ready", "aux", "exit"} = {}
      /\ \A r \in Colas : Len(colas[r]) \in Nat
      /\ ManoLlena
  BY LargoDeColas DEF Inductivo, TypeOK, Hilos, Contadas, Colas, Bloqueados
<1>1. CASE CortoToma
  <2>1. /\ UNCHANGED << colas, sem_IO_ejecucion >>
        /\ pc["corto"] = "dispatch" /\ pc'["corto"] \in Tomado
        /\ \A g \in Hilos \ {"corto"} : pc'[g] = pc[g]
        /\ VRR_modo =>
              sem_hay_encolado_VRR' = sem_hay_encolado_VRR - 1
    BY <1>1, <1>t DEF HilosFijos, AvisaEncolado, SacaDeExec, Tomado, CortoToma,
       SigueSiActiva, Entrada
  <2>2. sem_hay_encolado_VRR \in Nat /\ Len(colas["ready"]) \in Nat
        /\ Len(colas["aux"]) \in Nat
    BY <1>t DEF SemaforosTypeOK, Contadas
  <2>3. pc'["largo"] = pc["largo"] /\ pc'["interr"] = pc["interr"]
    BY <1>t, <2>1 DEF HilosFijos
  <2>4. ASSUME VRR_modo, EncoladoExacto
        PROVE  EncoladoExacto'
    <3>1. AVR' = AVR + 1 /\ LAR' = LAR /\ DES' = DES
      BY <2>1, <2>3 DEF Tomado, AVR, LAR, DES
    <3>2. AVR \in Int /\ LAR \in Int /\ DES \in Int
      BY DEF AVR, LAR, DES
    <3>3. Avisos' = Avisos /\ Avisos' \in Int
      BY <2>1, <2>2, <2>4, <3>1, <3>2 DEF Avisos
    <3>a. /\ EnReady' = EnReady /\ EnAux' = EnAux
          /\ EnReady \in Int /\ EnAux \in Int
      BY <2>1, <2>2 DEF EnReady, EnAux
    <3>4. Listos' = Listos /\ Listos' \in Int /\ Listos \in Int
      BY <3>1, <3>2, <3>a DEF Listos
    <3>5. Avisos \in Int
      BY <2>2, <3>2 DEF Avisos
    <3> QED
      BY <2>4, <1>t, <3>3, <3>4, <3>5, EncoladoCambia
  <2>5. \A i \in Interfaz : pc'[i] = pc[i] /\ Len(colas'[i]) = Len(colas[i])
    BY <1>t, <2>1 DEF HilosFijos
  <2> QED
    BY <2>1, <2>4, <2>5, ReadyContadas
<1>2. CASE CortoReanuda
  BY <1>2, <1>t, ColasQuietas DEF HilosFijos, Contadas, Tomado,
     CortoReanuda, SaleDePausa, Entrada, SacaDeExec, PoneEnExec
<1>3. CASE CortoElige
  BY <1>3, <1>t, ColasQuietas DEF HilosFijos, Contadas, Tomado,
     CortoElige, SacaDeExec, PoneEnExec
<1>4. CASE CortoSacaAux
  <2>1. Saca("corto", "aux") /\ "aux" \in Colas
    BY <1>4 DEF CortoSacaAux, Colas
  <2>2. \A r \in Colas : Len(colas'[r]) = IF r = "aux" THEN Len(colas[r]) - 1
                                                ELSE Len(colas[r])
    BY <1>t, <2>1, LargoDeColas
  <2>3. /\ UNCHANGED << sem_IO_ejecucion, sem_hay_encolado_VRR >>
        /\ pc["corto"] = "saca_aux" /\ pc'["corto"] = "pone_exec"
        /\ \A g \in Hilos \ {"corto"} : pc'[g] = pc[g]
    BY <1>4, <1>t DEF CortoSacaAux, HilosFijos
  <2>4. sem_hay_encolado_VRR \in Nat /\ Len(colas["ready"]) \in Nat
        /\ Len(colas["aux"]) \in Nat
    BY <1>t DEF SemaforosTypeOK, Contadas
  <2>5. /\ Len(colas'["aux"]) = Len(colas["aux"]) - 1
        /\ Len(colas'["ready"]) = Len(colas["ready"])
        /\ Len(colas'["ready"]) \in Int /\ Len(colas'["aux"]) \in Int
    BY <1>t, <2>2 DEF Contadas
  <2>6. pc'["largo"] = pc["largo"] /\ pc'["interr"] = pc["interr"]
    BY <1>t, <2>3 DEF HilosFijos
  <2>7. ASSUME EncoladoExacto
        PROVE  EncoladoExacto'
    <3>1. AVR' = AVR - 1 /\ LAR' = LAR /\ DES' = DES
      BY <2>3, <2>6 DEF Tomado, AVR, LAR, DES
    <3>2. AVR \in Int /\ LAR \in Int /\ DES \in Int
      BY DEF AVR, LAR, DES
    <3>3. Avisos' = Avisos - 1 /\ Avisos' \in Int
      BY <2>3, <2>4, <3>1, <3>2 DEF Avisos
    <3>a. /\ EnReady' = EnReady /\ EnAux' = EnAux - 1
          /\ EnReady \in Int /\ EnAux \in Int
      BY <2>4, <2>5 DEF EnReady, EnAux
    <3>4. Listos' = Listos - 1 /\ Listos' \in Int /\ Listos \in Int
      BY <3>1, <3>2, <3>a DEF Listos
    <3>5. Avisos \in Int
      BY <2>4, <3>2 DEF Avisos
    <3> QED
      BY <2>7, <1>t, <3>3, <3>4, <3>5, EncoladoCambia
  <2>8. \A i \in Interfaz : pc'[i] = pc[i] /\ Len(colas'[i]) = Len(colas[i])
    BY <1>t, <2>2, <2>3 DEF Contadas, HilosFijos
  <2> QED
    BY <2>3, <2>7, <2>8, ReadyContadas
<1>5. CASE CortoSacaReady
  <2>1. Saca("corto", "ready") /\ "ready" \in Colas
    BY <1>5 DEF CortoSacaReady, Colas
  <2>2. \A r \in Colas : Len(colas'[r]) = IF r = "ready" THEN Len(colas[r]) - 1
                                                ELSE Len(colas[r])
    BY <1>t, <2>1, LargoDeColas
  <2>3. /\ UNCHANGED << sem_IO_ejecucion, sem_hay_encolado_VRR >>
        /\ pc["corto"] = "saca_ready" /\ pc'["corto"] = "pone_exec"
        /\ \A g \in Hilos \ {"corto"} : pc'[g] = pc[g]
    BY <1>5, <1>t DEF CortoSacaReady, HilosFijos
  <2>4. sem_hay_encolado_VRR \in Nat /\ Len(colas["ready"]) \in Nat
        /\ Len(colas["aux"]) \in Nat
    BY <1>t DEF SemaforosTypeOK, Contadas
  <2>5. /\ Len(colas'["ready"]) = Len(colas["ready"]) - 1
        /\ Len(colas'["aux"]) = Len(colas["aux"])
        /\ Len(colas'["ready"]) \in Int /\ Len(colas'["aux"]) \in Int
    BY <1>t, <2>2 DEF Contadas
  <2>6. pc'["largo"] = pc["largo"] /\ pc'["interr"] = pc["interr"]
    BY <1>t, <2>3 DEF HilosFijos
  <2>7. ASSUME EncoladoExacto
        PROVE  EncoladoExacto'
    <3>1. AVR' = AVR - 1 /\ LAR' = LAR /\ DES' = DES
      BY <2>3, <2>6 DEF Tomado, AVR, LAR, DES
    <3>2. AVR \in Int /\ LAR \in Int /\ DES \in Int
      BY DEF AVR, LAR, DES
    <3>3. Avisos' = Avisos - 1 /\ Avisos' \in Int
      BY <2>3, <2>4, <3>1, <3>2 DEF Avisos
    <3>a. /\ EnReady' = EnReady - 1 /\ EnAux' = EnAux
          /\ EnReady \in Int /\ EnAux \in Int
      BY <2>4, <2>5 DEF EnReady, EnAux
    <3>4. Listos' = Listos - 1 /\ Listos' \in Int /\ Listos \in Int
      BY <3>1, <3>2, <3>a DEF Listos
    <3>5. Avisos \in Int
      BY <2>4, <3>2 DEF Avisos
    <3> QED
      BY <2>7, <1>t, <3>3, <3>4, <3>5, EncoladoCambia
  <2>8. \A i \in Interfaz : pc'[i] = pc[i] /\ Len(colas'[i]) = Len(colas[i])
    BY <1>t, <2>2, <2>3 DEF Contadas, HilosFijos
  <2> QED
    BY <2>3, <2>7, <2>8, ReadyContadas
<1>6. CASE CortoDespacha
  BY <1>6, <1>t, ColasQuietas DEF HilosFijos, Contadas, Tomado,
     CortoDespacha, SacaDeExec, PoneEnExec
<1> QED
  BY <1>1, <1>2, <1>3, <1>4, <1>5, <1>6 DEF Corto

\* The release of the resources of a process: with no resource it wakes nobody.
LEMMA LiberarContadas ==
  ASSUME Inductivo, ColasContadas, NEW h \in Hilos, NEW p, NEW dest \in Etiquetas,
         LiberarRecursosDeProceso(h, p, dest),
         h \in Interfaz => dest \in Caidas,
         h = "interr" => dest # "des_pone",
         h \notin {"corto", "largo"}
  PROVE  ColasContadas'
<1>t. /\ pc \in [Hilos -> Etiquetas] /\ SchedulerTypeOK /\ SemaforosTypeOK
      /\ HilosFijos \subseteq Hilos /\ Interfaz \subseteq Hilos
      /\ Interfaz \cap HilosFijos = {} /\ Contadas \subseteq Colas
      /\ Interfaz \cap {"new", "ready", "aux", "exit"} = {}
      /\ \A r \in Colas : Len(colas[r]) \in Nat
      /\ ManoLlena
  BY LargoDeColas DEF Inductivo, TypeOK, Hilos, Contadas, Colas, Bloqueados
<1>1. /\ \A g \in Hilos \ {h} : pc'[g] = pc[g]
      /\ pc[h] \in {"lib_dicc", "lib_carga", "lib_guarda", "lib_mira",
                    "lib_saca", "lib_pone"}
      /\ pc'[h] \in {"lib_dicc", "lib_carga", "lib_guarda", "lib_mira",
                     "lib_saca", "lib_pone", dest}
      /\ UNCHANGED << semVars, planVars >>
  BY LiberarQuieto
<1>2. h \in Interfaz => pc[h] \in Caidas /\ pc'[h] \in Caidas
  BY <1>1 DEF Caidas
<1>3. \A r \in Interfaz : Len(colas'[r]) = Len(colas[r])
  <2>1. CASE LiberarSaca(h)
    <3>1. Actual(h) \in Recurso
      BY <2>1, ActualPendiente DEF LiberarSaca, Inductivo, ManoLlena, TypeOK
    <3> QED
      <4>1. CASE Saca(h, Actual(h))
        BY <1>t, <3>1, <4>1, LargoDeColas DEF Colas, Bloqueados
      <4>2. CASE UNCHANGED colas
        BY <4>2
      <4> QED
        BY <2>1, <4>1, <4>2 DEF LiberarSaca
  <2>2. CASE LiberarPone(h)
    <3>1. mano[h] \in Pids /\ Pone(h, "ready", "READY")
      BY <2>2 DEF LiberarPone, Inductivo, ManoLlena
    <3> QED
      BY <1>t, <3>1, LargoDeColas DEF Colas, Bloqueados
  <2>3. CASE ~ LiberarSaca(h) /\ ~ LiberarPone(h)
    BY <2>3 DEF LiberarRecursosDeProceso, LiberarSacaDiccionario, LiberarCarga,
       LiberarGuarda, LiberarMira, LiberarTermina
  <2> QED
    BY <2>1, <2>2, <2>3
<1>4. ASSUME Recurso = {}, EncoladoExacto
      PROVE  EncoladoExacto'
  <2>1. pc[h] \notin {"lib_saca", "lib_pone"}
    BY <1>4 DEF Inductivo, ManoLlena, TypeOK, RecursosTypeOK
  <2>2. UNCHANGED colas
    BY <2>1 DEF LiberarRecursosDeProceso, LiberarSacaDiccionario, LiberarCarga,
       LiberarGuarda, LiberarMira, LiberarSaca, LiberarPone, LiberarTermina
  <2> QED
    BY <1>t, <1>1, <1>4, <2>2 DEF EncoladoExacto, Avisados, Uno, HilosFijos
<1>5. IOExacta'
  BY <1>1, <1>2, <1>3, <1>t DEF ColasContadas, IOExacta
<1> QED
  BY <1>4, <1>5 DEF ColasContadas

\* The handler posts to an interface with its push, and before it when a
\* quantum is over.
LEMMA InterrContadas ==
  ASSUME Inductivo, Enlace, ColasContadas, Interr, UNCHANGED << pcb_io, consVars >>
  PROVE  ColasContadas'
<1>t. /\ pc \in [Hilos -> Etiquetas] /\ SchedulerTypeOK /\ SemaforosTypeOK
      /\ HilosFijos \subseteq Hilos /\ Interfaz \subseteq Hilos
      /\ Interfaz \cap HilosFijos = {} /\ Contadas \subseteq Colas
      /\ Interfaz \cap {"new", "ready", "aux", "exit"} = {}
      /\ \A r \in Colas : Len(colas[r]) \in Nat
      /\ ManoLlena
  BY LargoDeColas DEF Inductivo, TypeOK, Hilos, Contadas, Colas, Bloqueados
<1>c. Caso(tokens) # "des_pone"
  BY DEF Caso, OpsDeFin, Inductivo, TypeOK, LocalesTypeOK, Instruccion,
     Operaciones
<1>1. CASE InterrRecibe
  BY <1>1, <1>t, ColasQuietas DEF HilosFijos, Contadas, Tomado,
     InterrRecibe, SacaDeExec, PoneEnExec
<1>2. CASE InterrActiva
  BY <1>2, <1>t, <1>c, ColasQuietas DEF HilosFijos, Contadas, Tomado,
     InterrActiva, SigueSiActiva, SacaDeExec, PoneEnExec
<1>3. CASE InterrReanuda
  BY <1>3, <1>t, <1>c, ColasQuietas DEF HilosFijos, Contadas, Tomado,
     InterrReanuda, SaleDePausa, SacaDeExec, PoneEnExec
<1>4. CASE InterrAvisaMemoria
  BY <1>4, <1>t, ColasQuietas DEF HilosFijos, Contadas, Tomado,
     InterrAvisaMemoria, SacaDeExec, PoneEnExec
<1>5. CASE InterrLibera
  BY <1>5, <1>t, LiberarContadas DEF InterrLibera, Etiquetas, HilosFijos
<1>6. CASE InterrFinSaca
  BY <1>6, <1>t, ColasQuietas DEF HilosFijos, Contadas, Tomado,
     InterrFinSaca, SacaDeExec, PoneEnExec
<1>7. CASE InterrFinPone
  <2>1. /\ Pone("interr", "exit", "EXIT") /\ "exit" \in Colas
        /\ mano["interr"] \in Pids
    BY <1>7, <1>t DEF InterrFinPone, Colas, ManoLlena, HilosFijos
  <2>2. \A r \in Colas : Len(colas'[r]) = IF r = "exit" THEN Len(colas[r]) + 1
                                                ELSE Len(colas[r])
    BY <1>t, <2>1, LargoDeColas
  <2>3. \A r \in Contadas : Len(colas'[r]) = Len(colas[r])
    BY <1>t, <2>2, "exit" \notin Contadas DEF Contadas
  <2> QED
    BY <1>7, <1>t, <2>3, ColasQuietas DEF HilosFijos, Tomado, InterrFinPone
<1>8. CASE InterrAumentaMira
  BY <1>8, <1>t, ColasQuietas DEF HilosFijos, Contadas, Tomado,
     InterrAumentaMira, SacaDeExec, PoneEnExec
<1>9. CASE InterrAumentaResta
  BY <1>9, <1>t, ColasQuietas DEF HilosFijos, Contadas, Tomado,
     InterrAumentaResta, SacaDeExec, PoneEnExec
<1>10. CASE InterrRecursoInvalido
  BY <1>10, <1>t, ColasQuietas DEF HilosFijos, Contadas, Tomado,
     InterrRecursoInvalido, SacaDeExec, PoneEnExec
<1>11. CASE InterrDesalojaSaca
  <2>1. /\ UNCHANGED << colas, sem_IO_ejecucion >>
        /\ pc["interr"] = "desaloja" /\ pc'["interr"] = "des_pone"
        /\ \A g \in Hilos \ {"interr"} : pc'[g] = pc[g]
        /\ VRR_modo =>
              sem_hay_encolado_VRR' = sem_hay_encolado_VRR + 1
    BY <1>11, <1>t DEF HilosFijos, AvisaEncolado, SacaDeExec, Tomado,
       InterrDesalojaSaca
  <2>2. sem_hay_encolado_VRR \in Nat /\ Len(colas["ready"]) \in Nat
        /\ Len(colas["aux"]) \in Nat
    BY <1>t DEF SemaforosTypeOK, Contadas
  <2>3. pc'["corto"] = pc["corto"] /\ pc'["largo"] = pc["largo"]
    BY <1>t, <2>1 DEF HilosFijos
  <2>4. ASSUME VRR_modo, EncoladoExacto
        PROVE  EncoladoExacto'
    <3>1. AVR' = AVR /\ LAR' = LAR /\ DES' = DES + 1
      BY <2>1, <2>3 DEF Tomado, AVR, LAR, DES
    <3>2. AVR \in Int /\ LAR \in Int /\ DES \in Int
      BY DEF AVR, LAR, DES
    <3>3. Avisos' = Avisos + 1 /\ Avisos' \in Int
      BY <2>1, <2>2, <2>4, <3>1, <3>2 DEF Avisos
    <3>a. /\ EnReady' = EnReady /\ EnAux' = EnAux
          /\ EnReady \in Int /\ EnAux \in Int
      BY <2>1, <2>2 DEF EnReady, EnAux
    <3>4. Listos' = Listos + 1 /\ Listos' \in Int /\ Listos \in Int
      BY <3>1, <3>2, <3>a DEF Listos
    <3>5. Avisos \in Int
      BY <2>2, <3>2 DEF Avisos
    <3> QED
      BY <2>4, <1>t, <3>3, <3>4, <3>5, EncoladoCambia
  <2>5. \A i \in Interfaz : pc'[i] = pc[i] /\ Len(colas'[i]) = Len(colas[i])
    BY <1>t, <2>1 DEF HilosFijos
  <2> QED
    BY <2>1, <2>4, <2>5, ReadyContadas
<1>12. CASE InterrDesalojaPone
  <2>1. /\ Pone("interr", "ready", "READY") /\ "ready" \in Colas
        /\ mano["interr"] \in Pids
    BY <1>12, <1>t DEF InterrDesalojaPone, Colas, ManoLlena, HilosFijos
  <2>2. \A r \in Colas : Len(colas'[r]) = IF r = "ready" THEN Len(colas[r]) + 1
                                                ELSE Len(colas[r])
    BY <1>t, <2>1, LargoDeColas
  <2>3. /\ UNCHANGED << sem_IO_ejecucion, sem_hay_encolado_VRR >>
        /\ pc["interr"] = "des_pone" /\ pc'["interr"] = "espera"
        /\ \A g \in Hilos \ {"interr"} : pc'[g] = pc[g]
    BY <1>12, <1>t DEF InterrDesalojaPone, HilosFijos
  <2>4. sem_hay_encolado_VRR \in Nat /\ Len(colas["ready"]) \in Nat
        /\ Len(colas["aux"]) \in Nat
    BY <1>t DEF SemaforosTypeOK, Contadas
  <2>5. /\ Len(colas'["ready"]) = Len(colas["ready"]) + 1
        /\ Len(colas'["aux"]) = Len(colas["aux"])
        /\ Len(colas'["ready"]) \in Int /\ Len(colas'["aux"]) \in Int
    BY <1>t, <2>2 DEF Contadas
  <2>6. pc'["corto"] = pc["corto"] /\ pc'["largo"] = pc["largo"]
    BY <1>t, <2>3 DEF HilosFijos
  <2>7. ASSUME EncoladoExacto
        PROVE  EncoladoExacto'
    <3>1. AVR' = AVR /\ LAR' = LAR /\ DES' = DES - 1
      BY <2>3, <2>6 DEF Tomado, AVR, LAR, DES
    <3>2. AVR \in Int /\ LAR \in Int /\ DES \in Int
      BY DEF AVR, LAR, DES
    <3>3. Avisos' = Avisos /\ Avisos' \in Int
      BY <2>3, <2>4, <3>1, <3>2 DEF Avisos
    <3>a. /\ EnReady' = EnReady + 1 /\ EnAux' = EnAux
          /\ EnReady \in Int /\ EnAux \in Int
      BY <2>4, <2>5 DEF EnReady, EnAux
    <3>4. Listos' = Listos /\ Listos' \in Int /\ Listos \in Int
      BY <3>1, <3>2, <3>a DEF Listos
    <3>5. Avisos \in Int
      BY <2>4, <3>2 DEF Avisos
    <3> QED
      BY <2>7, <1>t, <3>3, <3>4, <3>5, EncoladoCambia
  <2>8. \A i \in Interfaz : pc'[i] = pc[i] /\ Len(colas'[i]) = Len(colas[i])
    BY <1>t, <2>2, <2>3 DEF Contadas, HilosFijos
  <2> QED
    BY <2>3, <2>7, <2>8, ReadyContadas
<1>13. CASE InterrIO
  BY <1>13, <1>t, ColasQuietas DEF HilosFijos, Contadas, Tomado,
     InterrIO, SacaDeExec, PoneEnExec
<1>14. CASE InterrAgregaInstruccion
  BY <1>14, <1>t, ColasQuietas DEF HilosFijos, Contadas, Tomado,
     InterrAgregaInstruccion, SacaDeExec, PoneEnExec
<1>15. CASE InterrBloqueaSaca
  BY <1>15, <1>t, ColasQuietas DEF HilosFijos, Contadas, Tomado,
     InterrBloqueaSaca, SacaDeExec, PoneEnExec
<1>16. CASE InterrBloqueaBusca
  BY <1>16, <1>t, ColasQuietas DEF HilosFijos, Contadas, Tomado,
     InterrBloqueaBusca, SacaDeExec, PoneEnExec
<1>17. CASE InterrBloqueaPone
  <2> DEFINE q == tokens.arg
  <2>1. /\ q \in Bloqueados /\ mano["interr"] \in Pids
        /\ tokens.op = "IO" \/ (tokens.op = "WAIT" /\ q \in Recurso)
        /\ q \in claves \/ (q \in Interfaz /\ pc[q] \in Caidas)
    BY <1>17, <1>t DEF InterrBloqueaPone, Inductivo, ArgumentoValido, ManoLlena,
       Enlace, BloqueoConLista, OperacionDeIO, HilosFijos
  <2>2. /\ \A i \in Interfaz : pc'[i] = pc[i]
        /\ \A g \in {"corto", "largo"} : pc'[g] = pc[g]
        /\ pc["interr"] = "bloq_pone" /\ pc'["interr"] = "espera"
        /\ UNCHANGED sem_hay_encolado_VRR
    BY <1>17, <1>t DEF InterrBloqueaPone, HilosFijos
  <2>3. /\ q \in claves => \A r \in Colas :
              Len(colas'[r]) = IF r = q THEN Len(colas[r]) + 1 ELSE Len(colas[r])
        /\ q \notin claves => UNCHANGED colas
    <3>1. CASE q \in claves
      <4>1. Pone("interr", q, "BLOCKED") /\ q \in Colas
        BY <1>17, <2>1, <3>1 DEF InterrBloqueaPone, Colas
      <4> QED
        BY <1>t, <2>1, <3>1, <4>1, LargoDeColas
    <3>2. CASE q \notin claves
      BY <1>17, <3>2 DEF InterrBloqueaPone, PoneEnHuerfana
    <3> QED
      BY <3>1, <3>2
  <2>4. \A i \in Interfaz : sem_IO_ejecucion'[i] =
           IF i = q THEN sem_IO_ejecucion[i] + 1 ELSE sem_IO_ejecucion[i]
    BY <1>17, <1>t, <2>1 DEF InterrBloqueaPone, SemaforosTypeOK, Bloqueados
  <2>a. \A i \in Interfaz : i \in Colas /\ Len(colas[i]) \in Nat /\ sem_IO_ejecucion[i] \in Nat
    BY <1>t DEF Contadas, SemaforosTypeOK
  <2> HIDE DEF q
  <2>5. ASSUME NEW i \in Interfaz, pc'[i] \notin Caidas
        PROVE  sem_IO_ejecucion'[i]
                 + Uno(pc'[i] \in {"instr", "io", "pausa", "saca", "quita_cola"})
               = Len(colas'[i])
    <3> DEFINE u == Uno(pc[i] \in {"instr", "io", "pausa", "saca", "quita_cola"})
    <3>1. sem_IO_ejecucion[i] + u = Len(colas[i]) /\ pc'[i] = pc[i] /\ u \in Nat
      BY <2>2, <2>5 DEF ColasContadas, IOExacta, Uno
    <3>2. CASE i = q
      <4>1. q \in claves
        BY <2>1, <2>2, <2>5, <3>2
      <4> QED
        BY <2>a, <2>3, <2>4, <3>1, <3>2, <4>1
    <3>3. CASE i # q
      BY <2>a, <2>3, <2>4, <3>1, <3>3
    <3> QED
      BY <3>2, <3>3
  <2>6. EncoladoExacto => EncoladoExacto'
    BY <1>t, <2>1, <2>2, <2>3 DEF EncoladoExacto, Avisados, Uno, Contadas,
       Bloqueados
  <2> QED
    BY <2>5, <2>6 DEF ColasContadas, IOExacta
<1>18. CASE InterrAsigna
  BY <1>18, <1>t, ColasQuietas DEF HilosFijos, Contadas, Tomado,
     InterrAsigna, SacaDeExec, PoneEnExec
<1>19. CASE InterrCarga
  BY <1>19, <1>t, ColasQuietas DEF HilosFijos, Contadas, Tomado,
     InterrCarga, SacaDeExec, PoneEnExec
<1>20. CASE InterrGuarda
  BY <1>20, <1>t, ColasQuietas DEF HilosFijos, Contadas, Tomado,
     InterrGuarda, SacaDeExec, PoneEnExec
<1>21. CASE InterrWaitBloquea
  BY <1>21, <1>t, ColasQuietas DEF HilosFijos, Contadas, Tomado,
     InterrWaitBloquea, SacaDeExec, PoneEnExec
<1>22. CASE InterrSigueEnCPU
  BY <1>22, <1>t, ColasQuietas DEF HilosFijos, Contadas, Tomado,
     InterrSigueEnCPU, VuelveALaCPU, SacaDeExec, PoneEnExec
<1>23. CASE InterrSignalDespierta
  BY <1>23, <1>t, ColasQuietas DEF HilosFijos, Contadas, Tomado,
     InterrSignalDespierta, SacaDeExec, PoneEnExec
<1>24. CASE InterrSignalSaca
  <2>1. tokens.arg \in Recurso /\ tokens.arg \in Colas
    BY <1>24 DEF InterrSignalSaca, Inductivo, ArgumentoValido, Colas, Bloqueados
  <2>2. \A i \in Interfaz : Len(colas'[i]) = Len(colas[i])
    BY <1>24, <1>t, <2>1, LargoDeColas DEF InterrSignalSaca, Contadas
  <2>3. UNCHANGED sem_IO_ejecucion /\ \A i \in Interfaz : pc'[i] = pc[i]
    BY <1>24, <1>t DEF InterrSignalSaca, HilosFijos
  <2> QED
    BY <2>1, <2>2, <2>3, ReadyContadas
<1>25. CASE InterrSignalNadie
  <2>1. Recurso # {}
    BY <1>25 DEF InterrSignalNadie, Inductivo, ArgumentoValido
  <2>2. /\ UNCHANGED << colas, sem_IO_ejecucion >>
        /\ \A i \in Interfaz : pc'[i] = pc[i]
    BY <1>25, <1>t DEF InterrSignalNadie, VuelveALaCPU, HilosFijos
  <2> QED
    BY <2>1, <2>2, ReadyContadas
<1>26. CASE InterrSignalPone
  <2>1. /\ Pone("interr", "ready", "READY") /\ "ready" \in Colas
        /\ mano["interr"] \in Pids
    BY <1>26, <1>t DEF InterrSignalPone, Colas, ManoLlena, HilosFijos
  <2>2. \A r \in Colas : Len(colas'[r]) = IF r = "ready" THEN Len(colas[r]) + 1
                                                ELSE Len(colas[r])
    BY <1>t, <2>1, LargoDeColas
  <2>3. Recurso # {}
    BY <1>26 DEF InterrSignalPone, Inductivo, ArgumentoValido
  <2>4. \A i \in Interfaz : Len(colas'[i]) = Len(colas[i])
    BY <1>t, <2>2 DEF Contadas
  <2>5. UNCHANGED sem_IO_ejecucion /\ \A i \in Interfaz : pc'[i] = pc[i]
    BY <1>26, <1>t DEF InterrSignalPone, VuelveALaCPU, HilosFijos
  <2> QED
    BY <2>3, <2>4, <2>5, ReadyContadas
<1> QED
  BY <1>1, <1>2, <1>3, <1>4, <1>5, <1>6, <1>7, <1>8, <1>9, <1>10, <1>11, <1>12,
     <1>13, <1>14, <1>15, <1>16, <1>17, <1>18, <1>19, <1>20, <1>21, <1>22,
     <1>23, <1>24, <1>25, <1>26 DEF Interr

\* The thread of an interface takes one process for each post, and so finds it.
LEMMA InterfazCuenta ==
  ASSUME Inductivo, Enlace, ColasContadas, NEW i \in Interfaz, Interf(i),
         UNCHANGED << tokens, consVars >>
  PROVE  ColasContadas'
<1>t. /\ pc \in [Hilos -> Etiquetas] /\ SchedulerTypeOK /\ SemaforosTypeOK
      /\ HilosFijos \subseteq Hilos /\ Interfaz \subseteq Hilos
      /\ Interfaz \cap HilosFijos = {} /\ Contadas \subseteq Colas
      /\ Interfaz \cap {"new", "ready", "aux", "exit"} = {}
      /\ \A r \in Colas : Len(colas[r]) \in Nat
      /\ ManoLlena
  BY LargoDeColas DEF Inductivo, TypeOK, Hilos, Contadas, Colas, Bloqueados
<1>i. /\ i \in Hilos /\ i \notin HilosFijos /\ i \notin {"new", "ready", "aux", "exit"}
      /\ i \in Colas
  BY DEF Hilos, HilosFijos, Colas, Bloqueados
<1>1. CASE InterfazConecta(i)
  <2>1. /\ \A g \in Hilos \ {i} : pc'[g] = pc[g]
        /\ UNCHANGED << colas, sem_hay_encolado_VRR >>
        /\ \A g \in Interfaz \ {i} : sem_IO_ejecucion'[g] = sem_IO_ejecucion[g]
        /\ pc'[i] \notin Caidas => sem_IO_ejecucion'[i]
              + Uno(pc'[i] \in {"instr", "io", "pausa", "saca", "quita_cola"})
              = Len(colas[i])
    BY <1>1, <1>t, <1>i DEF Uno, Caidas, ColasContadas, IOExacta,
       SemaforosTypeOK, Contadas, InterfazConecta
  <2>2. EncoladoExacto => EncoladoExacto'
    BY <1>t, <2>1, EncoladoQuieto DEF HilosFijos
  <2> QED
    BY <1>t, <2>1, <2>2, InterfazContadas
<1>2. CASE InterfazToma(i)
  <2>1. /\ \A g \in Hilos \ {i} : pc'[g] = pc[g]
        /\ UNCHANGED << colas, sem_hay_encolado_VRR >>
        /\ \A g \in Interfaz \ {i} : sem_IO_ejecucion'[g] = sem_IO_ejecucion[g]
        /\ pc'[i] \notin Caidas => sem_IO_ejecucion'[i]
              + Uno(pc'[i] \in {"instr", "io", "pausa", "saca", "quita_cola"})
              = Len(colas[i])
    BY <1>2, <1>t, <1>i DEF Uno, Caidas, ColasContadas, IOExacta,
       SemaforosTypeOK, Contadas, InterfazToma
  <2>2. EncoladoExacto => EncoladoExacto'
    BY <1>t, <2>1, EncoladoQuieto DEF HilosFijos
  <2> QED
    BY <1>t, <2>1, <2>2, InterfazContadas
<1>3. CASE InterfazEjecuta(i)
  <2>1. /\ \A g \in Hilos \ {i} : pc'[g] = pc[g]
        /\ UNCHANGED << colas, sem_hay_encolado_VRR >>
        /\ \A g \in Interfaz \ {i} : sem_IO_ejecucion'[g] = sem_IO_ejecucion[g]
        /\ pc'[i] \notin Caidas => sem_IO_ejecucion'[i]
              + Uno(pc'[i] \in {"instr", "io", "pausa", "saca", "quita_cola"})
              = Len(colas[i])
    BY <1>3, <1>t, <1>i DEF Uno, Caidas, ColasContadas, IOExacta,
       SemaforosTypeOK, Contadas, InterfazEjecuta
  <2>2. EncoladoExacto => EncoladoExacto'
    BY <1>t, <2>1, EncoladoQuieto DEF HilosFijos
  <2> QED
    BY <1>t, <2>1, <2>2, InterfazContadas
<1>4. CASE InterfazResponde(i)
  <2>1. /\ \A g \in Hilos \ {i} : pc'[g] = pc[g]
        /\ UNCHANGED << colas, sem_hay_encolado_VRR >>
        /\ \A g \in Interfaz \ {i} : sem_IO_ejecucion'[g] = sem_IO_ejecucion[g]
        /\ pc'[i] \notin Caidas => sem_IO_ejecucion'[i]
              + Uno(pc'[i] \in {"instr", "io", "pausa", "saca", "quita_cola"})
              = Len(colas[i])
    BY <1>4, <1>t, <1>i DEF Uno, Caidas, ColasContadas, IOExacta,
       SemaforosTypeOK, Contadas, InterfazResponde, SigueSiActiva
  <2>2. EncoladoExacto => EncoladoExacto'
    BY <1>t, <2>1, EncoladoQuieto DEF HilosFijos
  <2> QED
    BY <1>t, <2>1, <2>2, InterfazContadas
<1>5. CASE InterfazReanuda(i)
  <2>1. /\ \A g \in Hilos \ {i} : pc'[g] = pc[g]
        /\ UNCHANGED << colas, sem_hay_encolado_VRR >>
        /\ \A g \in Interfaz \ {i} : sem_IO_ejecucion'[g] = sem_IO_ejecucion[g]
        /\ pc'[i] \notin Caidas => sem_IO_ejecucion'[i]
              + Uno(pc'[i] \in {"instr", "io", "pausa", "saca", "quita_cola"})
              = Len(colas[i])
    BY <1>5, <1>t, <1>i DEF Uno, Caidas, ColasContadas, IOExacta,
       SemaforosTypeOK, Contadas, InterfazReanuda, SaleDePausa
  <2>2. EncoladoExacto => EncoladoExacto'
    BY <1>t, <2>1, EncoladoQuieto DEF HilosFijos
  <2> QED
    BY <1>t, <2>1, <2>2, InterfazContadas
<1>6. CASE InterfazSaca(i)
  <2>1. \A r \in Colas : Len(colas'[r]) = IF r = i THEN Len(colas[r]) - 1
                                                ELSE Len(colas[r])
    BY <1>6, <1>t, LargoDeColas DEF InterfazSaca, Contadas
  <2>2. /\ \A g \in Hilos \ {i} : pc'[g] = pc[g]
        /\ pc[i] = "saca" /\ pc'[i] = "pone"
        /\ UNCHANGED << sem_IO_ejecucion, sem_hay_encolado_VRR >>
    BY <1>6, <1>t, <1>i DEF InterfazSaca
  <2>3. sem_IO_ejecucion[i] + 1 = Len(colas[i])
    BY <2>2 DEF ColasContadas, IOExacta, Uno, Caidas
  <2>4. EncoladoExacto => EncoladoExacto'
    BY <1>t, <2>1, <2>2, EncoladoQuieto DEF HilosFijos, Contadas
  <2>5. sem_IO_ejecucion'[i]
          + Uno(pc'[i] \in {"instr", "io", "pausa", "saca", "quita_cola"})
        = Len(colas'[i])
    BY <1>t, <2>1, <2>2, <2>3 DEF Uno, Contadas, SemaforosTypeOK
  <2>6. \A g \in Interfaz \ {i} : /\ sem_IO_ejecucion'[g] = sem_IO_ejecucion[g]
                                /\ pc'[g] = pc[g]
                                /\ Len(colas'[g]) = Len(colas[g])
    BY <1>t, <2>1, <2>2 DEF Contadas
  <2> QED
    BY <2>4, <2>5, <2>6, InterfazContadas
<1>7. CASE InterfazSacaNadie(i)
  <2>1. /\ pc[i] = "saca" /\ colas[i] = << >> /\ sem_IO_ejecucion[i] \in Nat
    BY <1>7, <1>t DEF InterfazSacaNadie, SemaforosTypeOK
  <2>2. sem_IO_ejecucion[i] + 1 = Len(colas[i])
    BY <2>1 DEF ColasContadas, IOExacta, Uno, Caidas
  <2> QED
    BY <2>1, <2>2
<1>8. CASE InterfazPone(i)
  <2> DEFINE q == IF VRR_modo THEN "aux" ELSE "ready"
  <2>1. /\ q \in Colas /\ q \in {"ready", "aux"} /\ Pone(i, q, "READY")
        /\ mano[i] \in Pids
    BY <1>8, <1>t DEF InterfazPone, Colas, ManoLlena
  <2> HIDE DEF q
  <2>2. \A r \in Colas : Len(colas'[r]) = IF r = q THEN Len(colas[r]) + 1
                                                ELSE Len(colas[r])
    BY <1>t, <2>1, LargoDeColas
  <2>3. /\ \A g \in Hilos \ {i} : pc'[g] = pc[g]
        /\ pc[i] = "pone" /\ pc'[i] = "borra"
        /\ UNCHANGED sem_IO_ejecucion
        /\ VRR_modo => sem_hay_encolado_VRR' = sem_hay_encolado_VRR + 1
    BY <1>8, <1>t, <1>i DEF InterfazPone, AvisaEncolado
  <2>4. ASSUME VRR_modo, EncoladoExacto
        PROVE  EncoladoExacto'
    <3>1. /\ sem_hay_encolado_VRR \in Nat /\ Len(colas["ready"]) \in Nat
          /\ Len(colas["aux"]) \in Nat
          /\ \A g \in {"corto", "largo", "interr"} : pc'[g] = pc[g]
      BY <1>t, <1>i, <2>3 DEF SemaforosTypeOK, Contadas, HilosFijos
    <3>2. /\ EnReady \in Int /\ EnAux \in Int
          /\ \/ EnReady' = EnReady + 1 /\ EnAux' = EnAux
             \/ EnReady' = EnReady /\ EnAux' = EnAux + 1
      <4>1. CASE q = "ready"
        BY <1>t, <2>2, <3>1, <4>1 DEF Contadas, EnReady, EnAux
      <4>2. CASE q = "aux"
        BY <1>t, <2>2, <3>1, <4>2 DEF Contadas, EnReady, EnAux
      <4> QED
        BY <2>1, <4>1, <4>2
    <3>3. sem_hay_encolado_VRR' = sem_hay_encolado_VRR + 1
      BY <2>3, <2>4
    <3>5. /\ AVR' = AVR /\ LAR' = LAR /\ DES' = DES
          /\ AVR \in Int /\ LAR \in Int /\ DES \in Int
      BY <3>1 DEF Tomado, AVR, LAR, DES
    <3>6. Avisos' = Avisos + 1 /\ Avisos' \in Int /\ Avisos \in Int
      BY <3>1, <3>3, <3>5 DEF Avisos
    <3>7. Listos' = Listos + 1 /\ Listos' \in Int /\ Listos \in Int
      BY <3>2, <3>5 DEF Listos
    <3> QED
      BY <1>t, <2>4, <3>6, <3>7, EncoladoCambia
  <2>5. pc'[i] \notin Caidas => sem_IO_ejecucion'[i]
          + Uno(pc'[i] \in {"instr", "io", "pausa", "saca", "quita_cola"})
          = Len(colas'[i])
    BY <1>t, <2>1, <2>2, <2>3 DEF ColasContadas, IOExacta, Uno, Contadas, Caidas
  <2>6. \A g \in Interfaz \ {i} : /\ sem_IO_ejecucion'[g] = sem_IO_ejecucion[g]
                                /\ pc'[g] = pc[g]
                                /\ Len(colas'[g]) = Len(colas[g])
    BY <1>t, <2>1, <2>2, <2>3 DEF Contadas
  <2> QED
    BY <2>4, <2>5, <2>6, InterfazContadas
<1>9. CASE InterfazBorra(i)
  <2>1. /\ \A g \in Hilos \ {i} : pc'[g] = pc[g]
        /\ UNCHANGED << colas, sem_hay_encolado_VRR >>
        /\ \A g \in Interfaz \ {i} : sem_IO_ejecucion'[g] = sem_IO_ejecucion[g]
        /\ pc'[i] \notin Caidas => sem_IO_ejecucion'[i]
              + Uno(pc'[i] \in {"instr", "io", "pausa", "saca", "quita_cola"})
              = Len(colas[i])
    BY <1>9, <1>t, <1>i DEF Uno, Caidas, ColasContadas, IOExacta,
       SemaforosTypeOK, Contadas, InterfazBorra
  <2>2. EncoladoExacto => EncoladoExacto'
    BY <1>t, <2>1, EncoladoQuieto DEF HilosFijos
  <2> QED
    BY <1>t, <2>1, <2>2, InterfazContadas
<1>10. CASE InterfazFalla(i)
  <2>1. /\ \A g \in Hilos \ {i} : pc'[g] = pc[g]
        /\ UNCHANGED << colas, sem_hay_encolado_VRR >>
        /\ \A g \in Interfaz \ {i} : sem_IO_ejecucion'[g] = sem_IO_ejecucion[g]
        /\ pc'[i] \notin Caidas => sem_IO_ejecucion'[i]
              + Uno(pc'[i] \in {"instr", "io", "pausa", "saca", "quita_cola"})
              = Len(colas[i])
    BY <1>10, <1>t, <1>i DEF Uno, Caidas, ColasContadas, IOExacta,
       SemaforosTypeOK, Contadas, InterfazFalla
  <2>2. EncoladoExacto => EncoladoExacto'
    BY <1>t, <2>1, EncoladoQuieto DEF HilosFijos
  <2> QED
    BY <1>t, <2>1, <2>2, InterfazContadas
<1>11. CASE InterfazQuitaCola(i)
  <2>1. /\ \A g \in Hilos \ {i} : pc'[g] = pc[g]
        /\ pc'[i] \in Caidas /\ UNCHANGED << sem_IO_ejecucion, sem_hay_encolado_VRR >>
        /\ \A q \in Contadas \ {i} : colas'[q] = colas[q]
    BY <1>11, <1>t, <1>i DEF InterfazQuitaCola, Caidas, SchedulerTypeOK,
       Contadas
  <2>2. EncoladoExacto => EncoladoExacto'
    BY <1>t, <2>1, EncoladoQuieto DEF HilosFijos, Contadas
  <2>3. \A g \in Interfaz \ {i} : /\ sem_IO_ejecucion'[g] = sem_IO_ejecucion[g]
                                /\ pc'[g] = pc[g]
                                /\ Len(colas'[g]) = Len(colas[g])
    BY <1>t, <2>1 DEF Contadas
  <2> QED
    BY <2>1, <2>2, <2>3, InterfazContadas
<1>12. CASE InterfazItera(i)
  <2>1. /\ \A g \in Hilos \ {i} : pc'[g] = pc[g]
        /\ UNCHANGED << colas, sem_hay_encolado_VRR >>
        /\ \A g \in Interfaz \ {i} : sem_IO_ejecucion'[g] = sem_IO_ejecucion[g]
        /\ pc'[i] \notin Caidas => sem_IO_ejecucion'[i]
              + Uno(pc'[i] \in {"instr", "io", "pausa", "saca", "quita_cola"})
              = Len(colas[i])
    BY <1>12, <1>t, <1>i DEF Uno, Caidas, ColasContadas, IOExacta,
       SemaforosTypeOK, Contadas, InterfazItera
  <2>2. EncoladoExacto => EncoladoExacto'
    BY <1>t, <2>1, EncoladoQuieto DEF HilosFijos
  <2> QED
    BY <1>t, <2>1, <2>2, InterfazContadas
<1>13. CASE InterfazLibera(i)
  BY <1>13, <1>t, <1>i, LiberarContadas DEF InterfazLibera, Etiquetas, Caidas,
     HilosFijos
<1>14. CASE InterfazAvisaMemoria(i)
  <2>1. /\ \A g \in Hilos \ {i} : pc'[g] = pc[g]
        /\ UNCHANGED << colas, sem_hay_encolado_VRR >>
        /\ \A g \in Interfaz \ {i} : sem_IO_ejecucion'[g] = sem_IO_ejecucion[g]
        /\ pc'[i] \notin Caidas => sem_IO_ejecucion'[i]
              + Uno(pc'[i] \in {"instr", "io", "pausa", "saca", "quita_cola"})
              = Len(colas[i])
    BY <1>14, <1>t, <1>i DEF Uno, Caidas, ColasContadas, IOExacta,
       SemaforosTypeOK, Contadas, InterfazAvisaMemoria
  <2>2. EncoladoExacto => EncoladoExacto'
    BY <1>t, <2>1, EncoladoQuieto DEF HilosFijos
  <2> QED
    BY <1>t, <2>1, <2>2, InterfazContadas
<1>15. CASE InterfazAExit(i)
  <2>1. /\ \A g \in Hilos \ {i} : pc'[g] = pc[g]
        /\ pc'[i] \in Caidas /\ UNCHANGED << sem_IO_ejecucion, sem_hay_encolado_VRR >>
        /\ \A q \in Contadas \ {i} : colas'[q] = colas[q]
    BY <1>15, <1>t, <1>i DEF InterfazAExit, Caidas, SchedulerTypeOK, Contadas
  <2>2. EncoladoExacto => EncoladoExacto'
    BY <1>t, <2>1, EncoladoQuieto DEF HilosFijos, Contadas
  <2>3. \A g \in Interfaz \ {i} : /\ sem_IO_ejecucion'[g] = sem_IO_ejecucion[g]
                                /\ pc'[g] = pc[g]
                                /\ Len(colas'[g]) = Len(colas[g])
    BY <1>t, <2>1 DEF Contadas
  <2> QED
    BY <2>1, <2>2, <2>3, InterfazContadas
<1>16. CASE InterfazIteraFin(i)
  <2>1. /\ \A g \in Hilos \ {i} : pc'[g] = pc[g]
        /\ UNCHANGED << colas, sem_hay_encolado_VRR >>
        /\ \A g \in Interfaz \ {i} : sem_IO_ejecucion'[g] = sem_IO_ejecucion[g]
        /\ pc'[i] \notin Caidas => sem_IO_ejecucion'[i]
              + Uno(pc'[i] \in {"instr", "io", "pausa", "saca", "quita_cola"})
              = Len(colas[i])
    BY <1>16, <1>t, <1>i DEF Uno, Caidas, ColasContadas, IOExacta,
       SemaforosTypeOK, Contadas, InterfazIteraFin
  <2>2. EncoladoExacto => EncoladoExacto'
    BY <1>t, <2>1, EncoladoQuieto DEF HilosFijos
  <2> QED
    BY <1>t, <2>1, <2>2, InterfazContadas
<1> QED
  BY <1>1, <1>2, <1>3, <1>4, <1>5, <1>6, <1>7, <1>8, <1>9, <1>10, <1>11, <1>12,
     <1>13, <1>14, <1>15, <1>16 DEF Interf

\* The console, but for FINALIZAR_PROCESO.
LEMMA ConsolaContadas ==
  ASSUME Inductivo, ColasContadas, pc["consola"] \in SinFin,
         Orden \/ Ejecuta, UNCHANGED << tokens, pcb_io >>
  PROVE  ColasContadas'
<1>t. /\ pc \in [Hilos -> Etiquetas] /\ SchedulerTypeOK /\ SemaforosTypeOK
      /\ HilosFijos \subseteq Hilos /\ Interfaz \subseteq Hilos
      /\ Interfaz \cap HilosFijos = {} /\ Contadas \subseteq Colas
      /\ Interfaz \cap {"new", "ready", "aux", "exit"} = {}
      /\ \A r \in Colas : Len(colas[r]) \in Nat
      /\ ManoLlena
  BY LargoDeColas DEF Inductivo, TypeOK, Hilos, Contadas, Colas, Bloqueados
<1>1. CASE IniciarProceso
  BY <1>1, <1>t, ColasQuietas DEF HilosFijos, Contadas, Tomado,
     IniciarProceso, PideCreacion, SacaDeExec, PoneEnExec
<1>2. CASE IniciarProcesoSinPath
  BY <1>2, <1>t, ColasQuietas DEF HilosFijos, Contadas, Tomado,
     IniciarProcesoSinPath, PideCreacion, Lee, SacaDeExec, PoneEnExec
<1>3. CASE DetenerPlanificacion
  BY <1>3, <1>t, ColasQuietas DEF HilosFijos, Contadas, Tomado,
     DetenerPlanificacion, Lee, SacaDeExec, PoneEnExec
<1>4. CASE IniciarPlanificacion
  BY <1>4, <1>t, ColasQuietas DEF HilosFijos, Contadas, Tomado,
     IniciarPlanificacion, SacaDeExec, PoneEnExec
<1>5. CASE Multiprogramacion
  BY <1>5, <1>t, ColasQuietas DEF HilosFijos, Contadas, Tomado,
     Multiprogramacion, Lee, SacaDeExec, PoneEnExec
<1>6. CASE FinalizarProceso
  BY <1>6, <1>t, ColasQuietas DEF HilosFijos, Contadas, Tomado,
     FinalizarProceso, Lee, SacaDeExec, PoneEnExec
<1>7. CASE ProcesoAColaNew
  <2>1. /\ Pone("consola", "new", "NEW") /\ "new" \in Colas
        /\ mano["consola"] \in Pids
    BY <1>7, <1>t DEF ProcesoAColaNew, Colas, ManoLlena, HilosFijos
  <2>2. \A r \in Colas : Len(colas'[r]) = IF r = "new" THEN Len(colas[r]) + 1
                                                ELSE Len(colas[r])
    BY <1>t, <2>1, LargoDeColas
  <2>3. \A r \in Contadas : Len(colas'[r]) = Len(colas[r])
    BY <1>t, <2>2, "new" \notin Contadas DEF Contadas
  <2> QED
    BY <1>7, <1>t, <2>3, ColasQuietas DEF HilosFijos, Tomado, ProcesoAColaNew
<1>8. CASE ConsolaInicializaRecursos
  BY <1>8, <1>t, ColasQuietas DEF HilosFijos, Contadas, Tomado,
     ConsolaInicializaRecursos, SacaDeExec, PoneEnExec
<1>9. CASE CambiaGrado
  BY <1>9, <1>t, ColasQuietas DEF HilosFijos, Contadas, Tomado,
     CambiaGrado, SacaDeExec, PoneEnExec
<1>10. CASE FinalizarEnExec
  BY <1>10 DEF FinalizarEnExec, SinFin
<1>11. CASE \E k \in 1 .. 4 : FinalizarEncuentra(k)
  BY <1>11 DEF FinalizarEncuentra, EtapaFin, EtapaExit, SinFin
<1>12. CASE \E k \in 1 .. 4 : FinalizarNoEncuentra(k)
  BY <1>12 DEF FinalizarNoEncuentra, EtapaFin, EtapaExit, SinFin
<1>13. CASE \E k \in 1 .. 4 : FinalizarAExit(k)
  BY <1>13 DEF FinalizarAExit, EtapaFin, EtapaExit, SinFin
<1>14. CASE FinalizarAvisaMemoria
  BY <1>14 DEF FinalizarAvisaMemoria, SinFin
<1>15. CASE FinalizarLibera
  <2>1. pc["consola"] \notin SinFin
    BY <1>15, <1>t, LiberarQuieto DEF FinalizarLibera, Etiquetas, HilosFijos,
       SinFin
  <2> QED
    BY <2>1
<1> QED
  BY <1>1, <1>2, <1>3, <1>4, <1>5, <1>6, <1>7, <1>8, <1>9, <1>10, <1>11, <1>12,
     <1>13, <1>14, <1>15 DEF Orden, Ejecuta

\* Every step of the kernel without FINALIZAR_PROCESO.
LEMMA PasoColasContadas ==
  ASSUME Inductivo, Enlace, ColasContadas, pc["consola"] \in SinFin, [Next]_vars
  PROVE  ColasContadas'
<1>1. CASE PasoLargo
  BY <1>1, LargoContadas DEF PasoLargo
<1>2. CASE PasoCorto
  BY <1>2, CortoContadas DEF PasoCorto
<1>3. CASE PasoInterr
  BY <1>3, InterrContadas DEF PasoInterr
<1>4. CASE \E i \in Interfaz : PasoInterfaz(i)
  BY <1>4, InterfazCuenta DEF PasoInterfaz
<1>5. CASE PasoOrden \/ PasoConsola
  BY <1>5, ConsolaContadas DEF PasoOrden, PasoConsola
<1>6. CASE \/ PasoMemoria \/ PasoCPU \/ PasoOrdenPerdida
           \/ Reposo \/ UNCHANGED vars
  <2>1. UNCHANGED << semVars, schedVars, pc >>
    BY <1>6 DEF PasoMemoria, PasoCPU, PasoOrdenPerdida, Reposo, vars,
       MemoriaAtiende, CPUTermina, CPULlama, CPUDesaloja, CPUInterrumpe,
       CPUOlvidaOrden, kernelVars
  <2> QED
    BY <2>1, ColasQuietas
<1> QED
  BY <1>1, <1>2, <1>3, <1>4, <1>5, <1>6 DEF Next

\* At the start the queues are empty and nothing is posted.
LEMMA InitColasContadas ==
  ASSUME Init
  PROVE  ColasContadas
<1>1. /\ \A q \in Colas : colas[q] = << >>
      /\ \A i \in Interfaz : pc[i] = "desconectada" /\ sem_IO_ejecucion[i] = 0
      /\ pc["corto"] = "dispatch" /\ pc["largo"] = "multi" /\ pc["interr"] = "espera"
      /\ sem_hay_encolado_VRR = 0
  BY DEF Init, InitSemaforos, InitScheduler, Hilos, HilosFijos
<1>2. {"ready", "aux"} \cup Interfaz \subseteq Colas /\ Len(<< >>) = 0
  BY DEF Colas, Bloqueados
<1>3. /\ colas["ready"] = << >> /\ colas["aux"] = << >>
      /\ \A i \in Interfaz : colas[i] = << >>
  BY <1>1, <1>2
<1>4. IOExacta
  BY <1>1, <1>2, <1>3 DEF IOExacta, Uno
<1>5. EncoladoExacto
  <2>1. Avisados = 0
    BY <1>1 DEF Avisados, Uno
  <2>2. Uno(En("interr", "des_pone")) = 0
    BY <1>1 DEF Uno
  <2> QED
    BY <1>2, <1>3, <2>1, <2>2 DEF EncoladoExacto
<1> QED
  BY <1>4, <1>5 DEF ColasContadas

-----------------------------------------------------------------------------
(* Who is loaded, and where it dies.                                       *)

\* What the counts are made of.
LEMMA AdmisionTipos ==
  ASSUME Inductivo
  PROVE  /\ numero_de_procesos \in Nat /\ numero_de_procesos <= MaxProcesos
         /\ MaxProcesos \in Nat /\ Pids = 1 .. MaxProcesos
         /\ colas["new"] \in Seq(Pids) /\ Len(colas["new"]) \in Nat
         /\ Admitidos \in Int /\ Confirmados \in Int
         /\ pedidos \in Seq([op : OpsMemoria, pid : Pids])
         /\ confirmaciones \in
               Seq({"MEMORY_PROCESS_CREATE", "MEMORY_INVALID_PATH"})
         /\ Len(pedidos) \in Nat /\ Len(confirmaciones) \in Nat
         /\ Respondidos \in Int /\ en_memoria \in SUBSET Pids
<1>1. /\ numero_de_procesos \in Nat /\ numero_de_procesos <= MaxProcesos
      /\ MaxProcesos \in Nat /\ Pids = 1 .. MaxProcesos
  BY ParametrosKernel DEF Inductivo, TypeOK, LocalesTypeOK, Pids
<1>2. colas["new"] \in Seq(Pids) /\ Len(colas["new"]) \in Nat
  BY DEF Inductivo, TypeOK, SchedulerTypeOK, Colas
<1>3. Admitidos \in Int
  BY <1>1, <1>2 DEF Admitidos, Uno
<1>4. Confirmados \in Int
  BY <1>3 DEF Confirmados, Uno
<1>5. /\ pedidos \in Seq([op : OpsMemoria, pid : Pids])
      /\ confirmaciones \in
            Seq({"MEMORY_PROCESS_CREATE", "MEMORY_INVALID_PATH"})
      /\ Len(pedidos) \in Nat /\ Len(confirmaciones) \in Nat
      /\ en_memoria \in SUBSET Pids
  BY DEF Inductivo, TypeOK, ConexionesTypeOK
<1> QED
  BY <1>1, <1>2, <1>3, <1>4, <1>5 DEF Respondidos

\* Every request to the memory is of a process.
LEMMA PedidoTipo ==
  ASSUME Inductivo, NEW k \in 1 .. Len(pedidos)
  PROVE  pedidos[k].op \in OpsMemoria /\ pedidos[k].pid \in Pids
<1>1. pedidos[k] \in [op : OpsMemoria, pid : Pids]
  BY AdmisionTipos, ElementOfSeq
<1> QED
  BY <1>1

\* No more processes wait to be admitted than were created.
LEMMA AdmitidosNat ==
  ASSUME Inductivo, NuevosEnOrden
  PROVE  Admitidos \in Nat
<1>1. CASE Len(colas["new"]) = 0
  <2>1. pc["consola"] = "a_new" => numero_de_procesos \in Pids
    BY DEF Inductivo, ArgumentoValido
  <2> QED
    BY <1>1, <2>1, AdmisionTipos DEF Admitidos, Uno
<1>2. CASE Len(colas["new"]) # 0
  <2>1. 1 \in 1 .. Len(colas["new"])
    BY <1>2, AdmisionTipos
  <2>2. colas["new"][1] \in Pids /\ colas["new"][1] = Admitidos + 1
    BY <2>1, AdmisionTipos, ElementOfSeq DEF NuevosEnOrden
  <2> QED
    BY <2>2, AdmisionTipos
<1> QED
  BY <1>1, <1>2

\* A process that is anywhere but in NEW, or on its way there, was admitted.
LEMMA EnOtroSitio ==
  ASSUME Inductivo, Ubicacion, NuevosEnOrden, NEW p \in Pids,
         NEW l \in Sitios, Esta(p, l),
         l # << "cola", "new" >>, l # << "mano", "consola" >>
  PROVE  p \in 1 .. Admitidos
<1>1. p \in 1 .. numero_de_procesos
  BY DEF Ubicacion, SinCrear, Ubicado, Creados
<1>2. << "cola", "new" >> \in Sitios /\ << "mano", "consola" >> \in Sitios
  BY SonSitios DEF Colas, Hilos, HilosFijos
<1>3. ~ Esta(p, << "cola", "new" >>) /\ ~ Esta(p, << "mano", "consola" >>)
  BY <1>2 DEF Ubicacion, UnSitio
<1>4. ~ Contains(colas["new"], p) /\ mano["consola"] # p
  BY <1>3 DEF Esta
<1>5. \A k \in 1 .. Len(colas["new"]) : p # Admitidos + k
  BY <1>4 DEF Contains, NuevosEnOrden
<1>6. pc["consola"] = "a_new" => p # numero_de_procesos
  BY <1>4 DEF NuevosEnOrden
<1>7. SUFFICES ASSUME p > Admitidos
               PROVE  FALSE
  BY <1>1, AdmisionTipos
<1>8. p - Admitidos \in 1 .. Len(colas["new"]) + Uno(pc["consola"] = "a_new")
  <2> DEFINE n == numero_de_procesos
             m == Len(colas["new"])
             a == Admitidos
             u == Uno(pc["consola"] = "a_new")
  <2>1. p \in Int /\ n \in Int /\ m \in Nat /\ a \in Int /\ u \in {0, 1}
    BY <1>1, AdmisionTipos DEF Uno
  <2>2. p <= n /\ p > a /\ a = n - m - u
    BY <1>1, <1>7, AdmisionTipos DEF Admitidos
  <2> HIDE DEF n, m, a, u
  <2>3. p - a \in 1 .. m + u
    BY <2>1, <2>2
  <2> QED
    BY <2>3 DEF m, a, u
<1>9. CASE p - Admitidos \in 1 .. Len(colas["new"])
  BY <1>1, <1>5, <1>9, AdmisionTipos
<1>10. CASE p - Admitidos \notin 1 .. Len(colas["new"])
  BY <1>1, <1>6, <1>8, <1>10, AdmisionTipos DEF Admitidos, Uno
<1> QED
  BY <1>9, <1>10

\* Where a process is that the memory was asked to forget.
LEMMA OlvidadoSitio ==
  ASSUME Inductivo, NEW p \in Pids, Olvidado(p)
  PROVE  \E l \in { << "cola", "exit" >>, << "exec", "exec" >>,
                    << "mano", "interr" >> } \cup ({"huerfana"} \X Interfaz) :
            l \in Sitios /\ Esta(p, l)
<1>0. "exit" \in Colas /\ "interr" \in Hilos
  BY DEF Colas, Hilos, HilosFijos
<1>1. CASE Contains(colas["exit"], p)
  <2>1. << "cola", "exit" >> \in Sitios /\ Esta(p, << "cola", "exit" >>)
    BY <1>0, <1>1, SonSitios DEF Esta
  <2> QED
    BY <2>1
<1>2. CASE proceso_ejecutando = p
  <2>1. << "exec", "exec" >> \in Sitios /\ Esta(p, << "exec", "exec" >>)
    BY <1>2, SonSitios DEF Esta
  <2> QED
    BY <2>1
<1>3. CASE mano["interr"] = p
  <2>1. << "mano", "interr" >> \in Sitios /\ Esta(p, << "mano", "interr" >>)
    BY <1>0, <1>3, SonSitios DEF Esta
  <2> QED
    BY <2>1
<1>4. CASE \E i \in Interfaz : En(i, "exit") /\ Primero(huerfana[i]) = p
  <2> PICK i \in Interfaz : En(i, "exit") /\ Primero(huerfana[i]) = p
    BY <1>4
  <2>1. huerfana[i] # << >> /\ huerfana[i] \in Seq(Pids)
    BY DEF Inductivo, IteracionValida, TypeOK, SchedulerTypeOK
  <2>2. huerfana[i][1] = p /\ Len(huerfana[i]) >= 1
    BY <2>1 DEF Primero
  <2>3. Contains(huerfana[i], p)
    BY <2>1, <2>2 DEF Contains
  <2>4. Esta(p, << "huerfana", i >>)
    BY <2>3 DEF Esta
  <2> QED
    BY <2>4, SonSitios
<1> QED
  BY <1>1, <1>2, <1>3, <1>4 DEF Olvidado, Liberado

\* It had been admitted.
LEMMA OlvidadoAdmitido ==
  ASSUME Inductivo, Ubicacion, NuevosEnOrden, NEW p \in Pids, Olvidado(p)
  PROVE  p \in 1 .. Admitidos
BY OlvidadoSitio, EnOtroSitio

\* What the memory is asked to forget stays so.
SiguenOlvidados == \A p \in Pids : Olvidado(p) => Olvidado(p)'

\* The points of the handler after the request to forget, with the process
\* in EXEC.
ConOlvidado == { "lib_dicc", "lib_carga", "lib_guarda", "lib_mira", "lib_saca",
                 "lib_pone", "fin_saca" }

\* A step that takes nobody out of EXIT and leaves the threads that are ending
\* a process where they were.
LEMMA OlvidadoQuieto ==
  ASSUME \A p \in Pids :
            Contains(colas["exit"], p) => Contains(colas'["exit"], p),
         pc["interr"] \in ConOlvidado =>
            /\ UNCHANGED proceso_ejecutando
            /\ pc'["interr"] \in ConOlvidado,
         pc["interr"] = "fin_pone" =>
            pc'["interr"] = "fin_pone" /\ mano'["interr"] = mano["interr"],
         \A i \in Interfaz : pc[i] = "exit" =>
            pc'[i] = "exit" /\ Primero(huerfana'[i]) = Primero(huerfana[i])
  PROVE  SiguenOlvidados
<1> SUFFICES ASSUME NEW p \in Pids, Olvidado(p)
             PROVE  Olvidado(p)'
  BY DEF SiguenOlvidados
<1>1. CASE Contains(colas["exit"], p)
  BY <1>1 DEF Olvidado, Liberado
<1>2. CASE pc["interr"] \in ConOlvidado /\ proceso_ejecutando = p
  BY <1>2 DEF Olvidado, Liberado, ConOlvidado
<1>3. CASE pc["interr"] = "fin_pone" /\ mano["interr"] = p
  BY <1>3 DEF Olvidado, Liberado
<1>4. CASE \E i \in Interfaz : En(i, "exit") /\ Primero(huerfana[i]) = p
  BY <1>4 DEF Olvidado
<1> QED
  BY <1>1, <1>2, <1>3, <1>4 DEF Olvidado, Liberado, ConOlvidado

\* A step that leaves alone the requests to the memory, its answers, NEW and
\* the thread that admits.
ConToken == {"saca_new", "cond_new", "despierta"}

Quieta ==
    /\ UNCHANGED << numero_de_procesos, memVars >>
    /\ colas'["new"] = colas["new"]
    /\ pc'["consola"] = "a_new" <=> pc["consola"] = "a_new"
    /\ mano'["consola"] = mano["consola"]
    /\ pc'["largo"] \in ConToken <=> pc["largo"] \in ConToken
    /\ pc'["largo"] = "despierta" => pc["largo"] = "despierta"

\* While the kernel lives there are no more confirmations than processes.
LEMMA ConfirmadosCreados ==
  ASSUME Inductivo, RespuestasEnOrden
  PROVE  Confirmados <= numero_de_procesos /\ 1 .. Confirmados \subseteq Pids
<1>1. Confirmados + Len(confirmaciones) <= numero_de_procesos
  BY DEF RespuestasEnOrden, Respondidos
<1> QED
  BY <1>1, AdmisionTipos

\* Such a step keeps the order.
LEMMA QuietaCargados ==
  ASSUME Inductivo, Cargados, ~ caido, Quieta, SiguenOlvidados
  PROVE  Cargados'
<1>1. /\ Admitidos' = Admitidos /\ Confirmados' = Confirmados
      /\ Respondidos' = Respondidos
  BY DEF Quieta, Admitidos, Confirmados, Respondidos, ConToken, Uno
<1>2. NuevosEnOrden'
  BY <1>1 DEF Cargados, NuevosEnOrden, Quieta
<1>3. RespuestasEnOrden
  BY DEF Cargados
<1>4. RespuestasEnOrden'
  BY <1>1, <1>3 DEF RespuestasEnOrden, Quieta, EsCreacion
<1>5. \A p \in 1 .. Confirmados : p \in en_memoria \/ Olvidado(p)'
  <2> SUFFICES ASSUME NEW p \in 1 .. Confirmados, p \notin en_memoria
               PROVE  Olvidado(p)'
    OBVIOUS
  <2>1. p \in Pids /\ Olvidado(p)
    BY <1>3, ConfirmadosCreados DEF Cargados, EnMemoria
  <2> QED
    BY <2>1 DEF SiguenOlvidados
<1>6. \A p \in Pids, k \in 1 .. Len(pedidos) :
         pedidos[k].pid = p /\ ~ EsCreacion(k) => Olvidado(p)'
  BY DEF Cargados, EnMemoria, SiguenOlvidados
<1>7. EnMemoria'
  BY <1>1, <1>5, <1>6 DEF EnMemoria, Quieta, EsCreacion
<1> QED
  BY <1>2, <1>4, <1>7 DEF Cargados

\* What the memory has and will be asked to forget, when nobody is confirmed
\* that it does not have.
LEMMA SigueEnMemoria ==
  ASSUME Inductivo, EnMemoria, RespuestasEnOrden, SiguenOlvidados,
         UNCHANGED << pedidos, en_memoria >>,
         \A p \in 1 .. Confirmados' : p \in 1 .. Confirmados \/ p \in en_memoria
  PROVE  EnMemoria'
<1>1. \A p \in 1 .. Confirmados' : p \in en_memoria' \/ Olvidado(p)'
  <2> SUFFICES ASSUME NEW p \in 1 .. Confirmados', p \notin en_memoria
               PROVE  Olvidado(p)'
    OBVIOUS
  <2>1. p \in Pids /\ Olvidado(p)
    BY ConfirmadosCreados DEF EnMemoria
  <2> QED
    BY <2>1 DEF SiguenOlvidados
<1>2. \A p \in Pids, k \in 1 .. Len(pedidos') :
         pedidos'[k].pid = p /\ ~ EsCreacion(k)' => Olvidado(p)'
  BY DEF EnMemoria, SiguenOlvidados, EsCreacion
<1> QED
  BY <1>1, <1>2 DEF EnMemoria

(* The steps that are not like that. *)

\* The confirmations and NEW after INICIAR_PROCESO: one more request, of the
\* process that comes last.
LEMMA PideCargados ==
  ASSUME Inductivo, Cargados, ~ caido, NEW op \in OpsMemoria,
         op # "MEMORY_PROCESS_TERM", pc["consola"] = "comando",
         PideCreacion(op), SiguenOlvidados
  PROVE  Cargados'
<1> DEFINE x == numero_de_procesos + 1
<1>1. /\ numero_de_procesos' = x /\ x \in Pids
      /\ pedidos' = Append(pedidos, [op |-> op, pid |-> x])
      /\ UNCHANGED << colas, confirmaciones, en_memoria >>
      /\ pc'["consola"] = "a_new" /\ pc'["largo"] = pc["largo"]
      /\ mano'["consola"] = x
  <2>1. pc' = [pc EXCEPT !["consola"] = "a_new"] /\ pc \in [Hilos -> Etiquetas]
        /\ mano' = [mano EXCEPT !["consola"] = numero_de_procesos']
        /\ mano \in [Hilos -> Pids \cup {Nadie}] /\ HilosFijos \subseteq Hilos
    BY DEF PideCreacion, Inductivo, TypeOK, SchedulerTypeOK, Hilos
  <2>2. numero_de_procesos < MaxProcesos /\ numero_de_procesos' = x
    BY DEF PideCreacion
  <2> QED
    BY <2>1, <2>2, AdmisionTipos DEF PideCreacion, Pedido, HilosFijos
<1>2. /\ Admitidos' = Admitidos /\ Confirmados' = Confirmados
      /\ Respondidos' = Respondidos
  <2>1. Admitidos' = Admitidos
    BY <1>1, AdmisionTipos DEF Admitidos, Uno
  <2> QED
    BY <1>1, <2>1 DEF Confirmados, Respondidos
<1>3. NuevosEnOrden'
  BY <1>1, <1>2 DEF Cargados, NuevosEnOrden
<1>4. RespuestasEnOrden
  BY DEF Cargados
<1>5. /\ Len(pedidos') = Len(pedidos) + 1
      /\ \A k \in 1 .. Len(pedidos) : pedidos'[k] = pedidos[k]
      /\ pedidos'[Len(pedidos) + 1] = [op |-> op, pid |-> x]
  BY <1>1, AdmisionTipos
<1>6. RespuestasEnOrden'
  <2>1. Respondidos' <= numero_de_procesos'
    BY <1>1, <1>2, <1>4, AdmisionTipos DEF RespuestasEnOrden
  <2>2. \A k \in 1 .. Len(pedidos) :
           /\ EsCreacion(k)' <=> EsCreacion(k)
           /\ EsCreacion(k) => pedidos[k].pid < x
    <3> TAKE k \in 1 .. Len(pedidos)
    <3>1. EsCreacion(k)' <=> EsCreacion(k)
      BY <1>5 DEF EsCreacion
    <3>2. pedidos[k].pid \in Pids
      BY PedidoTipo
    <3>3. EsCreacion(k) => pedidos[k].pid \in Respondidos + 1 .. numero_de_procesos
      BY <1>4, <3>2 DEF RespuestasEnOrden
    <3>4. \A n \in Int : n \in Respondidos + 1 .. numero_de_procesos => n < x
      BY AdmisionTipos
    <3>5. pedidos[k].pid \in Int
      BY <3>2, AdmisionTipos
    <3> HIDE DEF x
    <3> QED
      BY <3>1, <3>3, <3>4, <3>5
  <2> PICK n \in Nat : n = Len(pedidos) + 1
    BY AdmisionTipos
  <2>3. EsCreacion(n)'
    BY <1>5 DEF EsCreacion
  <2>4. \A j, k \in 1 .. Len(pedidos') :
           EsCreacion(j)' /\ EsCreacion(k)' /\ j < k
              => pedidos'[j].pid < pedidos'[k].pid
    <3> SUFFICES ASSUME NEW j \in 1 .. Len(pedidos'), NEW k \in 1 .. Len(pedidos'),
                        EsCreacion(j)', EsCreacion(k)', j < k
                 PROVE  pedidos'[j].pid < pedidos'[k].pid
      OBVIOUS
    <3>1. j \in 1 .. Len(pedidos)
      BY <1>5, AdmisionTipos
    <3>2. CASE k \in 1 .. Len(pedidos)
      BY <1>4, <1>5, <2>2, <3>1, <3>2 DEF RespuestasEnOrden
    <3>3. CASE k = Len(pedidos) + 1
      BY <1>5, <2>2, <3>1, <3>3
    <3> QED
      BY <1>5, <3>2, <3>3, AdmisionTipos
  <2>5. \A p \in Pids :
           p \in Respondidos + 1 .. x
              <=> \E k \in 1 .. Len(pedidos') : EsCreacion(k)' /\ pedidos'[k].pid = p
    <3> TAKE p \in Pids
    <3>1. (\E k \in 1 .. Len(pedidos') : EsCreacion(k)' /\ pedidos'[k].pid = p)
          <=> \/ \E k \in 1 .. Len(pedidos) : EsCreacion(k) /\ pedidos[k].pid = p
              \/ p = x
      <4>1. 1 .. Len(pedidos') = 1 .. Len(pedidos) \cup {Len(pedidos) + 1}
        BY <1>5, AdmisionTipos
      <4>2. ASSUME NEW k \in 1 .. Len(pedidos'),
                   EsCreacion(k)', pedidos'[k].pid = p, p # x
            PROVE  k \in 1 .. Len(pedidos) /\ EsCreacion(k) /\ pedidos[k].pid = p
        BY <1>5, <2>2, <4>1, <4>2
      <4>3. ASSUME NEW k \in 1 .. Len(pedidos), EsCreacion(k), pedidos[k].pid = p
            PROVE  k \in 1 .. Len(pedidos') /\ EsCreacion(k)' /\ pedidos'[k].pid = p
        BY <1>5, <2>2, <4>1, <4>3
      <4>4. n \in 1 .. Len(pedidos') /\ pedidos'[n].pid = x
        BY <1>5, <4>1
      <4> HIDE DEF x
      <4>5. CASE p = x
        BY <2>3, <4>4, <4>5
      <4>6. CASE p # x
        BY <4>2, <4>3, <4>6
      <4> QED
        BY <4>5, <4>6
    <3>2. p \in Respondidos + 1 .. x <=> p \in Respondidos + 1 .. numero_de_procesos \/ p = x
      BY <1>4, AdmisionTipos DEF RespuestasEnOrden
    <3> QED
      BY <1>4, <3>1, <3>2 DEF RespuestasEnOrden
  <2>6. \A k \in 1 .. Len(confirmaciones) :
          confirmaciones[k] = "MEMORY_PROCESS_CREATE" => Confirmados + k \in en_memoria
    BY <1>4 DEF RespuestasEnOrden
  <2> QED
    BY <1>1, <1>2, <2>1, <2>4, <2>5, <2>6 DEF RespuestasEnOrden
<1>7. EnMemoria'
  <2>1. \A p \in 1 .. Confirmados : p \in en_memoria \/ Olvidado(p)'
    <3> SUFFICES ASSUME NEW p \in 1 .. Confirmados, p \notin en_memoria
                 PROVE  Olvidado(p)'
      OBVIOUS
    <3>1. p \in Pids /\ Olvidado(p)
      BY <1>4, ConfirmadosCreados DEF Cargados, EnMemoria
    <3> QED
      BY <3>1 DEF SiguenOlvidados
  <2>2. \A p \in Pids, k \in 1 .. Len(pedidos') :
           pedidos'[k].pid = p /\ ~ EsCreacion(k)' => Olvidado(p)'
    <3> SUFFICES ASSUME NEW p \in Pids, NEW k \in 1 .. Len(pedidos'),
                        pedidos'[k].pid = p, ~ EsCreacion(k)'
                 PROVE  Olvidado(p)'
      OBVIOUS
    <3>1. k \in 1 .. Len(pedidos) /\ ~ EsCreacion(k) /\ pedidos[k].pid = p
      BY <1>5, AdmisionTipos DEF EsCreacion
    <3> QED
      BY <3>1 DEF Cargados, EnMemoria, SiguenOlvidados
  <2> QED
    BY <1>1, <1>2, <2>1, <2>2 DEF EnMemoria
<1> QED
  BY <1>3, <1>6, <1>7 DEF Cargados

\* proceso_a_cola_new puts the last one at the end of NEW, and wakes the long
\* term scheduler.
LEMMA ColaNewCargados ==
  ASSUME Inductivo, Cargados, ~ caido, ProcesoAColaNew, SiguenOlvidados,
         UNCHANGED numero_de_procesos
  PROVE  Cargados'
<1>1. /\ colas'["new"] = Append(colas["new"], numero_de_procesos)
      /\ pc["consola"] = "a_new" /\ pc'["consola"] = "dicc_nuevo"
      /\ pc'["largo"] = IF pc["largo"] = "cond_new" THEN "despierta"
                        ELSE pc["largo"]
      /\ UNCHANGED << pedidos, confirmaciones, en_memoria >>
      /\ numero_de_procesos \in Pids
  <2>1. /\ pc \in [Hilos -> Etiquetas] /\ HilosFijos \subseteq Hilos
        /\ colas \in [Colas -> Seq(Pids)] /\ "new" \in Colas
    BY DEF Inductivo, TypeOK, SchedulerTypeOK, Hilos, Colas
  <2>2. mano["consola"] = numero_de_procesos /\ numero_de_procesos \in Pids
    BY DEF ProcesoAColaNew, Cargados, NuevosEnOrden, Inductivo, ArgumentoValido
  <2> QED
    BY <2>1, <2>2 DEF ProcesoAColaNew, Pone, HilosFijos
<1>2. /\ Len(colas'["new"]) = Len(colas["new"]) + 1
      /\ \A k \in 1 .. Len(colas["new"]) : colas'["new"][k] = colas["new"][k]
      /\ colas'["new"][Len(colas["new"]) + 1] = numero_de_procesos
  BY <1>1, AdmisionTipos
<1>3. /\ Admitidos' = Admitidos
      /\ numero_de_procesos = Admitidos + Len(colas["new"]) + 1
  <2>1. Admitidos = numero_de_procesos - Len(colas["new"]) - 1
    BY <1>1 DEF Admitidos, Uno
  <2>2. Admitidos' = numero_de_procesos - Len(colas'["new"]) - 0
    BY <1>1 DEF Admitidos, Uno
  <2> QED
    BY <1>2, <2>1, <2>2, AdmisionTipos
<1>4. Confirmados' = Confirmados /\ Respondidos' = Respondidos
  BY <1>1, <1>3 DEF Confirmados, Respondidos, Uno
<1>5. NuevosEnOrden'
  <2>1. \A k \in 1 .. Len(colas'["new"]) : colas'["new"][k] = Admitidos + k
    <3> TAKE k \in 1 .. Len(colas'["new"])
    <3>1. CASE k \in 1 .. Len(colas["new"])
      BY <1>2, <3>1 DEF Cargados, NuevosEnOrden
    <3>2. CASE k = Len(colas["new"]) + 1
      BY <1>2, <1>3, <3>2, AdmisionTipos
    <3> QED
      BY <1>2, <3>1, <3>2, AdmisionTipos
  <2>2. colas'["new"] # << >>
    BY <1>2, AdmisionTipos
  <2> QED
    BY <1>1, <1>3, <2>1, <2>2 DEF NuevosEnOrden
<1>6. RespuestasEnOrden
  BY DEF Cargados
<1>7. RespuestasEnOrden'
  BY <1>1, <1>4, <1>6 DEF RespuestasEnOrden, EsCreacion
<1>8. EnMemoria'
  BY <1>1, <1>4, <1>6, SigueEnMemoria DEF Cargados
<1> QED
  BY <1>5, <1>7, <1>8 DEF Cargados

\* The head of NEW is the first of those that were confirmed and not admitted.
LEMMA SacaCargados ==
  ASSUME Inductivo, Cargados, ~ caido, LargoSaca, SiguenOlvidados,
         UNCHANGED numero_de_procesos
  PROVE  Cargados'
<1>1. /\ colas'["new"] = Tail(colas["new"]) /\ colas["new"] # << >>
      /\ pc["largo"] \in {"saca_new", "despierta"} /\ pc'["largo"] = "pone_ready"
      /\ pc'["consola"] = pc["consola"] /\ mano'["consola"] = mano["consola"]
      /\ UNCHANGED << pedidos, confirmaciones, en_memoria >>
  <2>1. /\ pc \in [Hilos -> Etiquetas] /\ HilosFijos \subseteq Hilos
        /\ mano \in [Hilos -> Pids \cup {Nadie}]
        /\ colas \in [Colas -> Seq(Pids)] /\ "new" \in Colas
    BY DEF Inductivo, TypeOK, SchedulerTypeOK, Hilos, Colas
  <2> QED
    BY <2>1 DEF LargoSaca, Saca, HilosFijos
<1>2. /\ Len(colas'["new"]) = Len(colas["new"]) - 1
      /\ \A k \in 1 .. Len(colas'["new"]) : colas'["new"][k] = colas["new"][k + 1]
  BY <1>1, AdmisionTipos
<1>3. Admitidos' = Admitidos + 1
  BY <1>1, <1>2, AdmisionTipos, SMTT(40) DEF Admitidos, Uno
<1>4. Confirmados' = Confirmados /\ Respondidos' = Respondidos
  BY <1>1, <1>3, AdmisionTipos DEF Confirmados, Respondidos, Uno
<1>5. NuevosEnOrden'
  <2>1. \A k \in 1 .. Len(colas'["new"]) : colas'["new"][k] = Admitidos + 1 + k
    <3> TAKE k \in 1 .. Len(colas'["new"])
    <3>1. k + 1 \in 1 .. Len(colas["new"]) /\ k \in Int
      BY <1>2, AdmisionTipos
    <3>2. colas["new"][k + 1] = Admitidos + (k + 1)
      BY <3>1 DEF Cargados, NuevosEnOrden
    <3>3. Admitidos + (k + 1) = Admitidos + 1 + k
      BY <3>1, AdmisionTipos
    <3> QED
      BY <1>2, <3>2, <3>3
  <2> QED
    BY <1>1, <1>3, <2>1 DEF NuevosEnOrden, Cargados
<1>6. RespuestasEnOrden
  BY DEF Cargados
<1>7. RespuestasEnOrden'
  BY <1>1, <1>4, <1>6 DEF RespuestasEnOrden, EsCreacion
<1>8. EnMemoria'
  BY <1>1, <1>4, <1>6, SigueEnMemoria DEF Cargados
<1> QED
  BY <1>5, <1>7, <1>8 DEF Cargados

\* esperar_confirmacion_memoria takes the answer for the next one.
LEMMA ConfirmaCargados ==
  ASSUME Inductivo, Cargados, ~ caido, LargoConfirma, SiguenOlvidados,
         UNCHANGED numero_de_procesos
  PROVE  Cargados'
<1>1. /\ confirmaciones # << >> /\ confirmaciones' = Tail(confirmaciones)
      /\ UNCHANGED << pedidos, en_memoria, colas, mano >>
      /\ pc["largo"] = "conf"
  BY DEF LargoConfirma
<1>2. RespuestasEnOrden
  BY DEF Cargados
<1>3. CASE Head(confirmaciones) = "MEMORY_INVALID_PATH"
  <2>1. caido' /\ UNCHANGED pc
    BY <1>3 DEF LargoConfirma
  <2>2. Admitidos' = Admitidos /\ Confirmados' = Confirmados
    BY <1>1, <2>1 DEF Admitidos, Confirmados, Uno
  <2>3. NuevosEnOrden'
    BY <1>1, <2>1, <2>2 DEF Cargados, NuevosEnOrden
  <2>4. EnMemoria'
    BY <1>1, <1>2, <2>2, SigueEnMemoria DEF Cargados
  <2> QED
    BY <2>1, <2>3, <2>4 DEF Cargados
<1>4. CASE Head(confirmaciones) # "MEMORY_INVALID_PATH"
  <2>1. /\ pc'["largo"] = "saca_new" /\ pc'["consola"] = pc["consola"]
    <3>1. /\ pc \in [Hilos -> Etiquetas] /\ HilosFijos \subseteq Hilos
      BY DEF Inductivo, TypeOK, Hilos
    <3> QED
      BY <1>4, <3>1 DEF LargoConfirma, HilosFijos
  <2>2. /\ Len(confirmaciones') = Len(confirmaciones) - 1
        /\ \A k \in 1 .. Len(confirmaciones') :
              confirmaciones'[k] = confirmaciones[k + 1]
        /\ confirmaciones[1] = "MEMORY_PROCESS_CREATE"
        /\ 1 \in 1 .. Len(confirmaciones)
    BY <1>1, <1>4, AdmisionTipos
  <2>3. Admitidos' = Admitidos /\ Confirmados' = Confirmados + 1
    BY <1>1, <2>1, AdmisionTipos DEF Admitidos, Confirmados, Uno
  <2>4. Respondidos' = Respondidos
    BY <2>2, <2>3, AdmisionTipos DEF Respondidos
  <2>5. NuevosEnOrden'
    BY <1>1, <2>1, <2>3 DEF Cargados, NuevosEnOrden
  <2>6. \A k \in 1 .. Len(confirmaciones') :
          confirmaciones'[k] = "MEMORY_PROCESS_CREATE"
             => Confirmados + 1 + k \in en_memoria
    <3> SUFFICES ASSUME NEW k \in 1 .. Len(confirmaciones'),
                        confirmaciones'[k] = "MEMORY_PROCESS_CREATE"
                 PROVE  Confirmados + 1 + k \in en_memoria
      OBVIOUS
    <3>1. /\ k + 1 \in 1 .. Len(confirmaciones) /\ k \in Int
          /\ confirmaciones[k + 1] = "MEMORY_PROCESS_CREATE"
      BY <2>2, AdmisionTipos
    <3>2. Confirmados + (k + 1) \in en_memoria
      BY <1>2, <3>1 DEF RespuestasEnOrden
    <3>3. Confirmados + (k + 1) = Confirmados + 1 + k
      BY <3>1, AdmisionTipos
    <3> QED
      BY <3>2, <3>3
  <2>7. RespuestasEnOrden'
    BY <1>1, <1>2, <2>3, <2>4, <2>6 DEF RespuestasEnOrden, EsCreacion
  <2>8. Confirmados + 1 \in en_memoria
    BY <1>2, <2>2 DEF RespuestasEnOrden
  <2>9. 1 .. Confirmados' \subseteq 1 .. Confirmados \cup {Confirmados + 1}
    BY <2>3, AdmisionTipos
  <2>10. EnMemoria'
    BY <1>1, <1>2, <2>8, <2>9, SigueEnMemoria DEF Cargados
  <2> QED
    BY <2>5, <2>7, <2>10 DEF Cargados
<1> QED
  BY <1>3, <1>4

\* The memory answers the first request: that of the first process with no
\* answer, or one to forget a process that is no longer to run.
LEMMA MemoriaCargados ==
  ASSUME Inductivo, Ubicacion, Cargados, ~ caido, MemoriaAtiende,
         UNCHANGED numero_de_procesos
  PROVE  Cargados'
<1>1. /\ UNCHANGED << colas, mano, pc, proceso_ejecutando, huerfana >>
      /\ pedidos # << >> /\ pedidos' = Tail(pedidos)
  BY DEF MemoriaAtiende, kernelVars
<1>2. /\ Len(pedidos') = Len(pedidos) - 1 /\ 1 \in 1 .. Len(pedidos)
      /\ \A k \in 1 .. Len(pedidos') :
            pedidos'[k] = pedidos[k + 1] /\ k + 1 \in 1 .. Len(pedidos)
      /\ Head(pedidos) = pedidos[1]
  BY <1>1, AdmisionTipos
<1>3. /\ Admitidos' = Admitidos /\ Confirmados' = Confirmados
      /\ \A p : Olvidado(p)' <=> Olvidado(p)
  BY <1>1 DEF Admitidos, Confirmados, Uno, Olvidado, Liberado
<1>4. NuevosEnOrden'
  BY <1>1, <1>3 DEF Cargados, NuevosEnOrden
<1>5. RespuestasEnOrden
  BY DEF Cargados
<1> DEFINE x == pedidos[1].pid
<1>6. x \in Pids
  BY <1>2, PedidoTipo
<1>7. \A k \in 1 .. Len(pedidos') : EsCreacion(k)' <=> EsCreacion(k + 1)
  BY <1>2 DEF EsCreacion
<1>8. \A j, k \in 1 .. Len(pedidos') :
         EsCreacion(j)' /\ EsCreacion(k)' /\ j < k
            => pedidos'[j].pid < pedidos'[k].pid
  <2> SUFFICES ASSUME NEW j \in 1 .. Len(pedidos'), NEW k \in 1 .. Len(pedidos'),
                      EsCreacion(j)', EsCreacion(k)', j < k
               PROVE  pedidos'[j].pid < pedidos'[k].pid
    OBVIOUS
  <2>1. /\ j + 1 \in 1 .. Len(pedidos) /\ k + 1 \in 1 .. Len(pedidos)
        /\ j + 1 < k + 1 /\ EsCreacion(j + 1) /\ EsCreacion(k + 1)
    BY <1>2, <1>7, AdmisionTipos
  <2> QED
    BY <1>2, <1>5, <2>1 DEF RespuestasEnOrden
<1>9. \A p \in Pids, k \in 1 .. Len(pedidos') :
         pedidos'[k].pid = p /\ ~ EsCreacion(k)' => Olvidado(p)'
  BY <1>2, <1>3, <1>7 DEF Cargados, EnMemoria
<1>10. \A p \in Pids :
          (\E k \in 1 .. Len(pedidos) : EsCreacion(k) /\ pedidos[k].pid = p)
          <=> \/ \E k \in 1 .. Len(pedidos') : EsCreacion(k)' /\ pedidos'[k].pid = p
              \/ EsCreacion(1) /\ p = x
  <2> TAKE p \in Pids
  <2>1. ASSUME NEW k \in 1 .. Len(pedidos), k # 1
        PROVE  k - 1 \in 1 .. Len(pedidos') /\ (k - 1) + 1 = k
    BY <1>2, <2>1, AdmisionTipos
  <2>2. ASSUME NEW k \in 1 .. Len(pedidos), EsCreacion(k), pedidos[k].pid = p,
               k # 1
        PROVE  \E j \in 1 .. Len(pedidos') : EsCreacion(j)' /\ pedidos'[j].pid = p
    <3>1. PICK j \in 1 .. Len(pedidos') : j + 1 = k
      BY <2>1, <2>2
    <3> QED
      BY <1>2, <1>7, <2>2, <3>1
  <2>3. ASSUME NEW k \in 1 .. Len(pedidos'), EsCreacion(k)', pedidos'[k].pid = p
        PROVE  \E j \in 1 .. Len(pedidos) : EsCreacion(j) /\ pedidos[j].pid = p
    BY <1>2, <1>7, <2>3
  <2> QED
    BY <1>2, <2>2, <2>3
<1>11. CASE pedidos[1].op = "MEMORY_PROCESS_TERM"
  <2>1. /\ en_memoria' = en_memoria \ {x} /\ confirmaciones' = confirmaciones
        /\ ~ EsCreacion(1)
    BY <1>2, <1>11 DEF MemoriaAtiende, EsCreacion
  <2>2. Olvidado(x)
    BY <1>2, <1>6, <2>1 DEF Cargados, EnMemoria
  <2>3. x <= Admitidos /\ x \in Int
    BY <1>6, <2>2, OlvidadoAdmitido, AdmisionTipos DEF Cargados
  <2>4. \A k \in 1 .. Len(confirmaciones) : Confirmados + k # x
    BY <2>3, AdmisionTipos DEF Confirmados, Uno
  <2>5. RespuestasEnOrden'
    BY <1>3, <1>5, <1>8, <1>10, <2>1, <2>4 DEF RespuestasEnOrden, Respondidos
  <2>6. EnMemoria'
    BY <1>3, <1>9, <2>1, <2>2 DEF Cargados, EnMemoria
  <2> QED
    BY <1>4, <2>5, <2>6 DEF Cargados
<1>12. CASE pedidos[1].op # "MEMORY_PROCESS_TERM"
  <2> DEFINE c == IF pedidos[1].op = "MEMORY_PROCESS_CREATE"
                  THEN "MEMORY_PROCESS_CREATE" ELSE "MEMORY_INVALID_PATH"
  <2>1. /\ confirmaciones' = Append(confirmaciones, c) /\ EsCreacion(1)
        /\ en_memoria \subseteq en_memoria'
        /\ c = "MEMORY_PROCESS_CREATE" => x \in en_memoria'
    BY <1>2, <1>12 DEF MemoriaAtiende, EsCreacion
  <2>2. /\ Len(confirmaciones') = Len(confirmaciones) + 1
        /\ \A k \in 1 .. Len(confirmaciones) :
              confirmaciones'[k] = confirmaciones[k]
        /\ confirmaciones'[Len(confirmaciones) + 1] = c
    <3> HIDE DEF c
    <3>1. confirmaciones \in Seq({"MEMORY_PROCESS_CREATE", "MEMORY_INVALID_PATH"})
      BY AdmisionTipos
    <3>2. c \in {"MEMORY_PROCESS_CREATE", "MEMORY_INVALID_PATH"}
      BY DEF c
    <3> QED
      BY <2>1, <3>1, <3>2
  <2> HIDE DEF c
  <2>3. Respondidos' = Respondidos + 1
    BY <1>3, <2>2, AdmisionTipos DEF Respondidos
  <2>4. x = Respondidos + 1 /\ Respondidos + 1 <= numero_de_procesos
    <3>1. x \in Respondidos + 1 .. numero_de_procesos
      BY <1>2, <1>5, <1>6, <2>1 DEF RespuestasEnOrden
    <3>2. /\ Respondidos + 1 \in Respondidos + 1 .. numero_de_procesos
          /\ Respondidos + 1 \in Pids
      <4>1. Respondidos \in Nat
        BY AdmitidosNat, AdmisionTipos
           DEF Cargados, Respondidos, Confirmados, Uno
      <4> QED
        BY <1>6, <3>1, <4>1, AdmisionTipos
    <3>3. PICK k \in 1 .. Len(pedidos) :
             EsCreacion(k) /\ pedidos[k].pid = Respondidos + 1
      BY <1>5, <3>2 DEF RespuestasEnOrden
    <3>4. k # 1 => x < Respondidos + 1
      BY <1>2, <1>5, <2>1, <3>3, AdmisionTipos DEF RespuestasEnOrden
    <3> QED
      BY <3>1, <3>3, <3>4, AdmisionTipos
  <2>5. \A p \in Pids :
           p \in Respondidos + 2 .. numero_de_procesos
              <=> \E k \in 1 .. Len(pedidos') : EsCreacion(k)' /\ pedidos'[k].pid = p
    <3> TAKE p \in Pids
    <3>1. p \in Respondidos + 1 .. numero_de_procesos
             <=> p \in Respondidos + 2 .. numero_de_procesos \/ p = x
      BY <1>6, <2>4, AdmisionTipos
    <3>2. p = x => ~ \E k \in 1 .. Len(pedidos') :
                        EsCreacion(k)' /\ pedidos'[k].pid = p
      <4> SUFFICES ASSUME NEW k \in 1 .. Len(pedidos'), EsCreacion(k)',
                          pedidos'[k].pid = x
                   PROVE  FALSE
        OBVIOUS
      <4>1. /\ k + 1 \in 1 .. Len(pedidos) /\ 1 < k + 1
            /\ EsCreacion(k + 1) /\ pedidos[k + 1].pid = x
        <5>1. 1 < k + 1
          BY <1>2, AdmisionTipos
        <5> QED
          BY <1>2, <1>7, <5>1
      <4>2. pedidos[1].pid < pedidos[k + 1].pid
        BY <1>2, <1>5, <2>1, <4>1 DEF RespuestasEnOrden
      <4> QED
        <5>1. x \in Int
          BY <1>6, AdmisionTipos
        <5> QED
          BY <4>1, <4>2, <5>1
    <3>3. p = x => p \notin Respondidos + 2 .. numero_de_procesos
      BY <2>4, AdmisionTipos
    <3> QED
      BY <1>5, <1>10, <2>1, <3>1, <3>2, <3>3 DEF RespuestasEnOrden
  <2>6. \A k \in 1 .. Len(confirmaciones') :
          confirmaciones'[k] = "MEMORY_PROCESS_CREATE"
             => Confirmados + k \in en_memoria'
    <3> SUFFICES ASSUME NEW k \in 1 .. Len(confirmaciones'),
                        confirmaciones'[k] = "MEMORY_PROCESS_CREATE"
                 PROVE  Confirmados + k \in en_memoria'
      OBVIOUS
    <3>1. CASE k \in 1 .. Len(confirmaciones)
      BY <1>5, <2>1, <2>2, <3>1 DEF RespuestasEnOrden
    <3>2. CASE k = Len(confirmaciones) + 1
      <4>1. Confirmados + k = x
        BY <2>4, <3>2, AdmisionTipos DEF Respondidos
      <4> QED
        BY <2>1, <2>2, <3>2, <4>1
    <3>3. k \in 1 .. Len(confirmaciones) \/ k = Len(confirmaciones) + 1
      BY <2>2, AdmisionTipos
    <3> QED
      BY <3>1, <3>2, <3>3
  <2>7. Respondidos' + 1 = Respondidos + 2
    BY <2>3, AdmisionTipos
  <2>8. RespuestasEnOrden'
    BY <1>3, <1>8, <2>3, <2>4, <2>5, <2>6, <2>7 DEF RespuestasEnOrden
  <2>9. EnMemoria'
    BY <1>3, <1>9, <2>1 DEF Cargados, EnMemoria
  <2> QED
    BY <1>4, <2>8, <2>9 DEF Cargados
<1> QED
  BY <1>11, <1>12

\* The memory is asked to forget a process that from now on is not to run.
LEMMA OlvidaCargados ==
  ASSUME Inductivo, Cargados, ~ caido, NEW x \in Pids, Olvidado(x)',
         pedidos' = Append(pedidos, Pedido("MEMORY_PROCESS_TERM", x)),
         UNCHANGED << numero_de_procesos, confirmaciones, en_memoria, colas, mano >>,
         pc'["consola"] = pc["consola"], pc'["largo"] = pc["largo"],
         SiguenOlvidados
  PROVE  Cargados'
<1>1. /\ Admitidos' = Admitidos /\ Confirmados' = Confirmados
      /\ Respondidos' = Respondidos
  BY DEF Admitidos, Confirmados, Respondidos, Uno
<1>2. NuevosEnOrden'
  BY <1>1 DEF Cargados, NuevosEnOrden
<1>3. RespuestasEnOrden
  BY DEF Cargados
<1>4. /\ Len(pedidos') = Len(pedidos) + 1
      /\ \A k \in 1 .. Len(pedidos) : pedidos'[k] = pedidos[k]
      /\ pedidos'[Len(pedidos) + 1] = [op |-> "MEMORY_PROCESS_TERM", pid |-> x]
  BY AdmisionTipos DEF Pedido, OpsMemoria
<1>5. /\ 1 .. Len(pedidos') = 1 .. Len(pedidos) \cup {Len(pedidos) + 1}
      /\ Len(pedidos) + 1 \notin 1 .. Len(pedidos)
  BY <1>4, AdmisionTipos
<1> PICK n \in Nat : n = Len(pedidos) + 1
  BY AdmisionTipos
<1>6. ~ EsCreacion(n)' /\ pedidos'[n].pid = x
  BY <1>4 DEF EsCreacion
<1>7. \A k \in 1 .. Len(pedidos') :
         EsCreacion(k)' <=> k \in 1 .. Len(pedidos) /\ EsCreacion(k)
  BY <1>4, <1>5, <1>6 DEF EsCreacion
<1>8. RespuestasEnOrden'
  <2>1. \A j, k \in 1 .. Len(pedidos') :
           EsCreacion(j)' /\ EsCreacion(k)' /\ j < k
              => pedidos'[j].pid < pedidos'[k].pid
    BY <1>3, <1>4, <1>7 DEF RespuestasEnOrden
  <2>2. \A p \in Pids :
           (\E k \in 1 .. Len(pedidos') : EsCreacion(k)' /\ pedidos'[k].pid = p)
           <=> \E k \in 1 .. Len(pedidos) : EsCreacion(k) /\ pedidos[k].pid = p
    BY <1>4, <1>5, <1>7
  <2> QED
    BY <1>1, <1>3, <2>1, <2>2 DEF RespuestasEnOrden
<1>9. EnMemoria'
  <2>1. \A p \in 1 .. Confirmados : p \in en_memoria \/ Olvidado(p)'
    <3> SUFFICES ASSUME NEW p \in 1 .. Confirmados, p \notin en_memoria
                 PROVE  Olvidado(p)'
      OBVIOUS
    <3>1. p \in Pids /\ Olvidado(p)
      BY <1>3, ConfirmadosCreados DEF Cargados, EnMemoria
    <3> QED
      BY <3>1 DEF SiguenOlvidados
  <2>2. \A p \in Pids, k \in 1 .. Len(pedidos') :
           pedidos'[k].pid = p /\ ~ EsCreacion(k)' => Olvidado(p)'
    <3> SUFFICES ASSUME NEW p \in Pids, NEW k \in 1 .. Len(pedidos'),
                        pedidos'[k].pid = p, ~ EsCreacion(k)'
                 PROVE  Olvidado(p)'
      OBVIOUS
    <3>1. CASE k \in 1 .. Len(pedidos)
      BY <1>4, <1>7, <3>1 DEF Cargados, EnMemoria, SiguenOlvidados
    <3>2. CASE k = n
      BY <1>6, <3>2
    <3> QED
      BY <1>5, <3>1, <3>2
  <2> QED
    BY <1>1, <2>1, <2>2 DEF EnMemoria
<1> QED
  BY <1>2, <1>8, <1>9 DEF Cargados

(* The threads. *)

\* Releasing what a process held leaves NEW and EXIT alone.
LEMMA LiberarColas ==
  ASSUME Inductivo, NEW h \in Hilos, NEW p, NEW dest \in Etiquetas,
         LiberarRecursosDeProceso(h, p, dest)
  PROVE  /\ colas'["new"] = colas["new"] /\ colas'["exit"] = colas["exit"]
         /\ \A g \in Hilos \ {h} : mano'[g] = mano[g]
<1>t. /\ pc \in [Hilos -> Etiquetas] /\ SchedulerTypeOK
      /\ HilosFijos \subseteq Hilos /\ Interfaz \subseteq Hilos
      /\ Interfaz \cap HilosFijos = {}
      /\ {"new", "ready", "aux", "exit"} \subseteq Colas
      /\ Interfaz \subseteq Colas /\ Recurso \subseteq Colas
      /\ {"new", "exit"} \cap (Interfaz \cup Recurso) = {}
  BY DEF Inductivo, TypeOK, Hilos, Colas, Bloqueados
<1>1. CASE LiberarSacaDiccionario(h, p)
  BY <1>1 DEF LiberarSacaDiccionario
<1>2. CASE LiberarCarga(h) \/ LiberarGuarda(h) \/ LiberarMira(h)
  BY <1>2 DEF LiberarCarga, LiberarGuarda, LiberarMira
<1>3. CASE LiberarSaca(h)
  <2>1. Actual(h) \in Recurso
    BY <1>3, ActualPendiente DEF Inductivo, TypeOK, ManoLlena, LiberarSaca
  <2> QED
    BY <1>3, <1>t, <2>1 DEF LiberarSaca, Saca, SchedulerTypeOK
<1>4. CASE LiberarPone(h)
  BY <1>4, <1>t DEF LiberarPone, Pone, SchedulerTypeOK
<1>5. CASE LiberarTermina(h, dest)
  BY <1>5 DEF LiberarTermina
<1> QED
  BY <1>1, <1>2, <1>3, <1>4, <1>5 DEF LiberarRecursosDeProceso

\* The long term scheduler.
LEMMA LargoCargados ==
  ASSUME Inductivo, Cargados, ~ caido, Largo, UNCHANGED otras
  PROVE  Cargados'
<1>t. /\ pc \in [Hilos -> Etiquetas] /\ SchedulerTypeOK
      /\ HilosFijos \subseteq Hilos /\ Interfaz \subseteq Hilos
      /\ Interfaz \cap HilosFijos = {}
      /\ {"new", "ready", "aux", "exit"} \subseteq Colas
      /\ Interfaz \subseteq Colas /\ Recurso \subseteq Colas
      /\ {"new", "exit"} \cap (Interfaz \cup Recurso) = {}
  BY DEF Inductivo, TypeOK, Hilos, Colas, Bloqueados
<1>o. SiguenOlvidados
  <2>1. /\ colas'["exit"] = colas["exit"] /\ pc'["interr"] = pc["interr"]
        /\ mano'["interr"] = mano["interr"]
        /\ \A i \in Interfaz : pc'[i] = pc[i]
        /\ UNCHANGED << huerfana, proceso_ejecutando >>
    <3>1. CASE LargoTomaCupo \/ LargoReanuda \/ LargoConfirma \/ LargoEsperaNew
      BY <1>t, <3>1 DEF LargoTomaCupo, LargoReanuda, LargoConfirma,
         LargoEsperaNew, SigueSiActiva, SaleDePausa, HilosFijos
    <3>2. CASE LargoSaca \/ LargoSacaNada
      BY <1>t, <3>2 DEF LargoSaca, LargoSacaNada, Saca, SchedulerTypeOK, HilosFijos
    <3>3. CASE LargoPone \/ LargoCuenta
      BY <1>t, <3>3 DEF LargoPone, LargoCuenta, Pone, SchedulerTypeOK, HilosFijos
    <3> QED
      BY <3>1, <3>2, <3>3 DEF Largo
  <2> QED
    BY <2>1, OlvidadoQuieto
<1>1. CASE LargoTomaCupo
  BY <1>1, <1>t, <1>o, QuietaCargados DEF Quieta, ConToken, HilosFijos,
     LargoTomaCupo, SigueSiActiva
<1>2. CASE LargoReanuda
  BY <1>2, <1>t, <1>o, QuietaCargados DEF Quieta, ConToken, HilosFijos,
     LargoReanuda, SaleDePausa
<1>3. CASE LargoConfirma
  BY <1>3, <1>o, ConfirmaCargados
<1>4. CASE LargoEsperaNew
  BY <1>4, <1>t, <1>o, QuietaCargados DEF Quieta, ConToken, HilosFijos,
     LargoEsperaNew
<1>5. CASE LargoSaca
  BY <1>5, <1>o, SacaCargados
<1>6. CASE LargoSacaNada
  BY <1>6, <1>t, <1>o, QuietaCargados DEF Quieta, ConToken, HilosFijos,
     LargoSacaNada
<1>7. CASE LargoPone
  BY <1>7, <1>t, <1>o, QuietaCargados DEF Quieta, ConToken, HilosFijos,
     LargoPone, Pone, SchedulerTypeOK
<1>8. CASE LargoCuenta
  BY <1>8, <1>t, <1>o, QuietaCargados DEF Quieta, ConToken, HilosFijos,
     LargoCuenta
<1> QED
  BY <1>1, <1>2, <1>3, <1>4, <1>5, <1>6, <1>7, <1>8 DEF Largo

\* The dispatcher: the handler is not ending anybody while it puts a process
\* in EXEC.
LEMMA CortoCargados ==
  ASSUME Inductivo, Cargados, ~ caido, Corto, UNCHANGED otras
  PROVE  Cargados'
<1>t. /\ pc \in [Hilos -> Etiquetas] /\ SchedulerTypeOK
      /\ HilosFijos \subseteq Hilos /\ Interfaz \subseteq Hilos
      /\ Interfaz \cap HilosFijos = {}
      /\ {"new", "ready", "aux", "exit"} \subseteq Colas
      /\ Interfaz \subseteq Colas /\ Recurso \subseteq Colas
      /\ {"new", "exit"} \cap (Interfaz \cup Recurso) = {}
  BY DEF Inductivo, TypeOK, Hilos, Colas, Bloqueados
<1>e. /\ UNCHANGED << numero_de_procesos, memVars, huerfana >>
      /\ colas'["new"] = colas["new"] /\ colas'["exit"] = colas["exit"]
      /\ \A g \in Hilos \ {"corto"} : pc'[g] = pc[g] /\ mano'[g] = mano[g]
      /\ proceso_ejecutando' = proceso_ejecutando \/ pc["corto"] = "pone_exec"
  <2>1. CASE CortoToma
    BY <2>1, <1>t DEF CortoToma, SigueSiActiva, Entrada
  <2>2. CASE CortoReanuda
    BY <2>2, <1>t DEF CortoReanuda, SaleDePausa, Entrada
  <2>3. CASE CortoElige
    BY <2>3, <1>t DEF CortoElige
  <2>4. CASE CortoSacaAux
    BY <2>4, <1>t DEF CortoSacaAux, Saca, SchedulerTypeOK
  <2>5. CASE CortoSacaReady
    BY <2>5, <1>t DEF CortoSacaReady, Saca, SchedulerTypeOK
  <2>6. CASE CortoDespacha
    BY <2>6, <1>t DEF CortoDespacha, PoneEnExec, SchedulerTypeOK
  <2> QED
    BY <2>1, <2>2, <2>3, <2>4, <2>5, <2>6 DEF Corto
<1>1. pc["corto"] = "pone_exec" => pc["interr"] \notin ConOlvidado
  BY DEF Inductivo, TurnoUnico, HandlerConTurno, Uno, ConOlvidado, TypeOK,
     SemaforosTypeOK
<1>2. SiguenOlvidados
  BY <1>t, <1>e, <1>1, OlvidadoQuieto DEF HilosFijos
<1>3. Quieta
  BY <1>t, <1>e DEF Quieta, HilosFijos
<1> QED
  BY <1>2, <1>3, QuietaCargados

\* A step of the handler that ends nobody.
LEMMA InterrQuieta ==
  ASSUME Inductivo, Cargados, ~ caido,
         \A g \in Hilos \ {"interr"} : pc'[g] = pc[g] /\ mano'[g] = mano[g],
         colas'["new"] = colas["new"], colas'["exit"] = colas["exit"],
         \A i \in Interfaz : pc[i] = "exit" =>
            Primero(huerfana'[i]) = Primero(huerfana[i]),
         pc["interr"] \notin ConOlvidado \cup {"fin_pone"},
         UNCHANGED << numero_de_procesos, memVars >>
  PROVE  Cargados'
<1>t. /\ pc \in [Hilos -> Etiquetas] /\ SchedulerTypeOK
      /\ HilosFijos \subseteq Hilos /\ Interfaz \subseteq Hilos
      /\ Interfaz \cap HilosFijos = {}
      /\ {"new", "ready", "aux", "exit"} \subseteq Colas
      /\ Interfaz \subseteq Colas /\ Recurso \subseteq Colas
      /\ {"new", "exit"} \cap (Interfaz \cup Recurso) = {}
  BY DEF Inductivo, TypeOK, Hilos, Colas, Bloqueados
<1>1. SiguenOlvidados
  BY <1>t, OlvidadoQuieto DEF HilosFijos
<1>2. Quieta
  BY <1>t DEF Quieta, HilosFijos
<1> QED
  BY <1>1, <1>2, QuietaCargados

\* The handler.
LEMMA InterrCargados ==
  ASSUME Inductivo, Cargados, ~ caido, Interr, UNCHANGED << pcb_io, consVars >>
  PROVE  Cargados'
<1>t. /\ pc \in [Hilos -> Etiquetas] /\ SchedulerTypeOK
      /\ HilosFijos \subseteq Hilos /\ Interfaz \subseteq Hilos
      /\ Interfaz \cap HilosFijos = {}
      /\ {"new", "ready", "aux", "exit"} \subseteq Colas
      /\ Interfaz \subseteq Colas /\ Recurso \subseteq Colas
      /\ {"new", "exit"} \cap (Interfaz \cup Recurso) = {}
  BY DEF Inductivo, TypeOK, Hilos, Colas, Bloqueados
<1>1. CASE InterrRecibe
  BY <1>1, <1>t, InterrQuieta DEF ConOlvidado,
     InterrRecibe
<1>2. CASE InterrActiva
  BY <1>2, <1>t, InterrQuieta DEF ConOlvidado,
     InterrActiva, SigueSiActiva
<1>3. CASE InterrReanuda
  BY <1>3, <1>t, InterrQuieta DEF ConOlvidado,
     InterrReanuda, SaleDePausa
<1>4. CASE InterrAvisaMemoria
  <2>1. /\ pc["interr"] = "fin_term" /\ pc'["interr"] = "lib_dicc"
        /\ \A g \in Hilos \ {"interr"} : pc'[g] = pc[g]
        /\ pedidos' = Append(pedidos,
                             Pedido("MEMORY_PROCESS_TERM", proceso_ejecutando))
        /\ UNCHANGED << schedVars, confirmaciones, en_memoria >>
    BY <1>4, <1>t DEF InterrAvisaMemoria, HilosFijos
  <2>2. proceso_ejecutando \in Pids
    BY <2>1 DEF Inductivo, ContextoPropio, AntesDeSacar, TypeOK, SchedulerTypeOK
  <2>3. SiguenOlvidados
    BY <1>t, <2>1, OlvidadoQuieto DEF HilosFijos, ConOlvidado
  <2>5. PICK x \in Pids : x = proceso_ejecutando
    BY <2>2
  <2>6. Olvidado(x)'
    BY <2>1, <2>5 DEF Olvidado
  <2> QED
    BY <1>t, <2>1, <2>3, <2>5, <2>6, OlvidaCargados DEF HilosFijos
<1>5. CASE InterrLibera
  <2>1. /\ \A g \in Hilos \ {"interr"} : pc'[g] = pc[g] /\ mano'[g] = mano[g]
        /\ colas'["new"] = colas["new"] /\ colas'["exit"] = colas["exit"]
        /\ pc["interr"] \in ConOlvidado /\ pc'["interr"] \in ConOlvidado
        /\ UNCHANGED << huerfana, proceso_ejecutando, memVars >>
    BY <1>5, <1>t, LiberarQuieto, LiberarColas
       DEF InterrLibera, Etiquetas, HilosFijos, ConOlvidado
  <2>2. pc["interr"] # "fin_pone"
    BY <2>1 DEF ConOlvidado
  <2>3. SiguenOlvidados
    BY <1>t, <2>1, <2>2, OlvidadoQuieto DEF HilosFijos
  <2>4. Quieta
    BY <1>t, <2>1 DEF Quieta, HilosFijos
  <2> QED
    BY <2>3, <2>4, QuietaCargados
<1>6. CASE InterrFinSaca
  <2>1. /\ pc["interr"] = "fin_saca" /\ pc'["interr"] = "fin_pone"
        /\ mano'["interr"] = proceso_ejecutando
        /\ \A g \in Hilos \ {"interr"} : pc'[g] = pc[g] /\ mano'[g] = mano[g]
        /\ UNCHANGED << colas, huerfana, memVars >>
    BY <1>6, <1>t DEF InterrFinSaca, SacaDeExec, SchedulerTypeOK, HilosFijos
  <2>2. SiguenOlvidados
    <3> SUFFICES ASSUME NEW p \in Pids, Olvidado(p)
                 PROVE  Olvidado(p)'
      BY DEF SiguenOlvidados
    <3>1. \/ Contains(colas["exit"], p) \/ proceso_ejecutando = p
          \/ \E i \in Interfaz : pc[i] = "exit" /\ Primero(huerfana[i]) = p
      BY <2>1 DEF Olvidado, Liberado
    <3> QED
      BY <1>t, <2>1, <3>1 DEF Olvidado, Liberado, HilosFijos
  <2>3. Quieta
    BY <1>t, <2>1 DEF Quieta, HilosFijos
  <2> QED
    BY <2>2, <2>3, QuietaCargados
<1>7. CASE InterrFinPone
  <2>1. /\ pc["interr"] = "fin_pone" /\ mano["interr"] \in Pids
        /\ colas'["exit"] = Append(colas["exit"], mano["interr"])
        /\ colas'["new"] = colas["new"]
        /\ \A g \in Hilos \ {"interr"} : pc'[g] = pc[g] /\ mano'[g] = mano[g]
        /\ UNCHANGED << huerfana, memVars >>
    <3>1. pc["interr"] = "fin_pone" /\ mano["interr"] \in Pids
      BY <1>7, <1>t DEF InterrFinPone, Inductivo, ManoLlena, HilosFijos
    <3> QED
      BY <1>7, <1>t, <3>1 DEF InterrFinPone, Pone, SchedulerTypeOK, HilosFijos
  <2>2. colas["exit"] \in Seq(Pids)
    BY <1>t DEF SchedulerTypeOK
  <2>3. \A p : Contains(colas'["exit"], p)
               <=> Contains(colas["exit"], p) \/ p = mano["interr"]
    BY <2>1, <2>2, AppendLista
  <2>4. SiguenOlvidados
    <3> SUFFICES ASSUME NEW p \in Pids, Olvidado(p)
                 PROVE  Olvidado(p)'
      BY DEF SiguenOlvidados
    <3>1. \/ Contains(colas["exit"], p) \/ mano["interr"] = p
          \/ \E i \in Interfaz : pc[i] = "exit" /\ Primero(huerfana[i]) = p
      BY <2>1 DEF Olvidado, Liberado
    <3> QED
      BY <1>t, <2>1, <2>3, <3>1 DEF Olvidado, Liberado, HilosFijos
  <2>5. Quieta
    BY <1>t, <2>1 DEF Quieta, HilosFijos
  <2> QED
    BY <2>4, <2>5, QuietaCargados
<1>8. CASE InterrAumentaMira
  BY <1>8, <1>t, InterrQuieta DEF ConOlvidado,
     InterrAumentaMira
<1>9. CASE InterrAumentaResta
  BY <1>9, <1>t, InterrQuieta DEF ConOlvidado,
     InterrAumentaResta
<1>10. CASE InterrRecursoInvalido
  BY <1>10, <1>t, InterrQuieta DEF ConOlvidado,
     InterrRecursoInvalido
<1>11. CASE InterrDesalojaSaca
  BY <1>11, <1>t, InterrQuieta DEF ConOlvidado,
     InterrDesalojaSaca, SacaDeExec, SchedulerTypeOK
<1>12. CASE InterrDesalojaPone
  BY <1>12, <1>t, InterrQuieta DEF ConOlvidado,
     InterrDesalojaPone, Pone, SchedulerTypeOK
<1>13. CASE InterrIO
  BY <1>13, <1>t, InterrQuieta DEF ConOlvidado,
     InterrIO
<1>14. CASE InterrAgregaInstruccion
  BY <1>14, <1>t, InterrQuieta DEF ConOlvidado,
     InterrAgregaInstruccion
<1>15. CASE InterrBloqueaSaca
  BY <1>15, <1>t, InterrQuieta DEF ConOlvidado,
     InterrBloqueaSaca, SacaDeExec, SchedulerTypeOK
<1>16. CASE InterrBloqueaBusca
  BY <1>16, <1>t, InterrQuieta DEF ConOlvidado,
     InterrBloqueaBusca
<1>17. CASE InterrBloqueaPone
  <2>1. /\ pc["interr"] = "bloq_pone" /\ tokens.arg \in Bloqueados
        /\ mano["interr"] \in Pids
    BY <1>17, <1>t DEF InterrBloqueaPone, Inductivo, ArgumentoValido, ManoLlena,
       HilosFijos
  <2>2. /\ colas'["new"] = colas["new"] /\ colas'["exit"] = colas["exit"]
        /\ \A g \in Hilos \ {"interr"} : mano'[g] = mano[g]
        /\ \A i \in Interfaz : \/ huerfana'[i] = huerfana[i]
                               \/ huerfana'[i] = Append(huerfana[i], mano["interr"])
    BY <1>17, <1>t, <2>1 DEF InterrBloqueaPone, Pone, PoneEnHuerfana,
       SchedulerTypeOK, Bloqueados
  <2>3. \A g \in Hilos \ {"interr"} : pc'[g] = pc[g]
    BY <1>17, <1>t DEF InterrBloqueaPone
  <2>4. \A i \in Interfaz : pc[i] = "exit" =>
           Primero(huerfana'[i]) = Primero(huerfana[i])
    <3> SUFFICES ASSUME NEW i \in Interfaz, pc[i] = "exit",
                        huerfana'[i] = Append(huerfana[i], mano["interr"])
                 PROVE  Primero(huerfana'[i]) = Primero(huerfana[i])
      BY <2>2
    <3>1. huerfana[i] # << >> /\ huerfana[i] \in Seq(Pids)
      BY DEF Inductivo, IteracionValida, TypeOK, SchedulerTypeOK
    <3>2. huerfana'[i] # << >> /\ Head(huerfana'[i]) = Head(huerfana[i])
      BY <2>1, <3>1
    <3> QED
      BY <3>1, <3>2 DEF Primero
  <2> QED
    BY <1>17, <2>1, <2>2, <2>3, <2>4, InterrQuieta DEF InterrBloqueaPone,
       ConOlvidado
<1>18. CASE InterrAsigna
  BY <1>18, <1>t, InterrQuieta DEF ConOlvidado,
     InterrAsigna
<1>19. CASE InterrCarga
  BY <1>19, <1>t, InterrQuieta DEF ConOlvidado,
     InterrCarga
<1>20. CASE InterrGuarda
  BY <1>20, <1>t, InterrQuieta DEF ConOlvidado,
     InterrGuarda
<1>21. CASE InterrWaitBloquea
  BY <1>21, <1>t, InterrQuieta DEF ConOlvidado,
     InterrWaitBloquea
<1>22. CASE InterrSigueEnCPU
  BY <1>22, <1>t, InterrQuieta DEF ConOlvidado,
     InterrSigueEnCPU, VuelveALaCPU
<1>23. CASE InterrSignalDespierta
  BY <1>23, <1>t, InterrQuieta DEF ConOlvidado,
     InterrSignalDespierta
<1>24. CASE InterrSignalSaca
  <2>1. tokens.arg \in Recurso
    BY <1>24 DEF InterrSignalSaca, Inductivo, ArgumentoValido
  <2> QED
    BY <1>24, <1>t, <2>1, InterrQuieta DEF InterrSignalSaca, Saca,
       SchedulerTypeOK, ConOlvidado
<1>25. CASE InterrSignalNadie
  BY <1>25, <1>t, InterrQuieta DEF ConOlvidado,
     InterrSignalNadie, VuelveALaCPU
<1>26. CASE InterrSignalPone
  BY <1>26, <1>t, InterrQuieta DEF ConOlvidado,
     InterrSignalPone, VuelveALaCPU, Pone,
     SchedulerTypeOK
<1> QED
  BY <1>1, <1>2, <1>3, <1>4, <1>5, <1>6, <1>7, <1>8, <1>9, <1>10, <1>11,
     <1>12, <1>13, <1>14, <1>15, <1>16, <1>17, <1>18, <1>19, <1>20, <1>21,
     <1>22, <1>23, <1>24, <1>25, <1>26 DEF Interr

\* The thread of an interface, which ends whoever was blocked on it when it
\* fails.
LEMMA InterfazCargados ==
  ASSUME Inductivo, Cargados, ~ caido, NEW i \in Interfaz, Interf(i),
         UNCHANGED << tokens, consVars >>
  PROVE  Cargados'
<1>t. /\ pc \in [Hilos -> Etiquetas] /\ SchedulerTypeOK
      /\ HilosFijos \subseteq Hilos /\ Interfaz \subseteq Hilos
      /\ Interfaz \cap HilosFijos = {}
      /\ {"new", "ready", "aux", "exit"} \subseteq Colas
      /\ Interfaz \subseteq Colas /\ Recurso \subseteq Colas
      /\ {"new", "exit"} \cap (Interfaz \cup Recurso) = {}
  BY DEF Inductivo, TypeOK, Hilos, Colas, Bloqueados
<1>q. ASSUME colas'["new"] = colas["new"],
             \A p \in Pids :
                Contains(colas["exit"], p) => Contains(colas'["exit"], p),
             \A g \in Hilos \ {i} : pc'[g] = pc[g] /\ mano'[g] = mano[g],
             \A g \in Interfaz \ {i} : huerfana'[g] = huerfana[g],
             pc[i] # "exit", UNCHANGED << proceso_ejecutando, memVars >>
      PROVE  Cargados'
  <2>1. SiguenOlvidados
    BY <1>t, <1>q, OlvidadoQuieto DEF HilosFijos
  <2>2. Quieta
    BY <1>t, <1>q DEF Quieta, HilosFijos
  <2> QED
    BY <2>1, <2>2, QuietaCargados
<1>1. CASE InterfazConecta(i)
  BY <1>1, <1>t, <1>q DEF InterfazConecta
<1>2. CASE InterfazToma(i)
  BY <1>2, <1>t, <1>q DEF InterfazToma
<1>3. CASE InterfazEjecuta(i)
  BY <1>3, <1>t, <1>q DEF InterfazEjecuta
<1>4. CASE InterfazResponde(i)
  BY <1>4, <1>t, <1>q DEF InterfazResponde, SigueSiActiva
<1>5. CASE InterfazReanuda(i)
  BY <1>5, <1>t, <1>q DEF InterfazReanuda, SaleDePausa
<1>6. CASE InterfazSaca(i)
  BY <1>6, <1>t, <1>q DEF InterfazSaca, Saca, SchedulerTypeOK
<1>7. CASE InterfazSacaNadie(i)
  BY <1>7, <1>t, <1>q DEF InterfazSacaNadie
<1>8. CASE InterfazPone(i)
  BY <1>8, <1>t, <1>q DEF InterfazPone, Pone, SchedulerTypeOK
<1>9. CASE InterfazBorra(i)
  BY <1>9, <1>t, <1>q DEF InterfazBorra
<1>10. CASE InterfazFalla(i)
  BY <1>10, <1>t, <1>q DEF InterfazFalla
<1>11. CASE InterfazQuitaCola(i)
  BY <1>11, <1>t, <1>q DEF InterfazQuitaCola, SchedulerTypeOK
<1>12. CASE InterfazItera(i)
  BY <1>12, <1>t, <1>q DEF InterfazItera
<1>13. CASE InterfazLibera(i)
  <2>1. /\ colas'["new"] = colas["new"] /\ colas'["exit"] = colas["exit"]
        /\ \A g \in Hilos \ {i} : pc'[g] = pc[g] /\ mano'[g] = mano[g]
        /\ pc[i] # "exit"
        /\ UNCHANGED << huerfana, proceso_ejecutando, memVars >>
    BY <1>13, <1>t, LiberarQuieto, LiberarColas DEF InterfazLibera, Etiquetas
  <2> QED
    BY <1>q, <2>1
<1>14. CASE InterfazAvisaMemoria(i)
  <2>1. /\ pc[i] = "avisa" /\ pc'[i] = "exit"
        /\ \A g \in Hilos \ {i} : pc'[g] = pc[g]
        /\ pedidos' = Append(pedidos,
                             Pedido("MEMORY_PROCESS_TERM", Head(huerfana[i])))
        /\ UNCHANGED << schedVars, confirmaciones, en_memoria >>
    BY <1>14, <1>t DEF InterfazAvisaMemoria
  <2>2. huerfana[i] # << >> /\ huerfana[i] \in Seq(Pids)
    BY <2>1 DEF Inductivo, IteracionValida, TypeOK, SchedulerTypeOK
  <2>3. SiguenOlvidados
    BY <1>t, <2>1, OlvidadoQuieto DEF HilosFijos
  <2>4. PICK x \in Pids : x = Head(huerfana[i])
    BY <2>2
  <2>5. Olvidado(x)'
    BY <2>1, <2>2, <2>4 DEF Olvidado, Primero
  <2> QED
    BY <1>t, <2>1, <2>3, <2>4, <2>5, OlvidaCargados DEF HilosFijos
<1>15. CASE InterfazAExit(i)
  <2>1. /\ colas'["exit"] = Append(colas["exit"], Head(huerfana[i]))
        /\ colas'["new"] = colas["new"]
        /\ \A g \in Hilos \ {i} : pc'[g] = pc[g]
        /\ \A g \in Interfaz \ {i} : huerfana'[g] = huerfana[g]
        /\ pc[i] = "exit"
        /\ UNCHANGED << mano, proceso_ejecutando, memVars >>
    BY <1>15, <1>t DEF InterfazAExit, SchedulerTypeOK
  <2>2. /\ huerfana[i] # << >> /\ huerfana[i] \in Seq(Pids)
        /\ colas["exit"] \in Seq(Pids)
    BY <1>t, <2>1 DEF Inductivo, IteracionValida, SchedulerTypeOK
  <2>3. \A p : Contains(colas'["exit"], p)
               <=> Contains(colas["exit"], p) \/ p = Head(huerfana[i])
    BY <2>1, <2>2, AppendLista
  <2>4. SiguenOlvidados
    <3> SUFFICES ASSUME NEW p \in Pids, Olvidado(p)
                 PROVE  Olvidado(p)'
      BY DEF SiguenOlvidados
    <3>1. CASE Contains(colas["exit"], p) \/ Primero(huerfana[i]) = p
      BY <2>2, <2>3, <3>1 DEF Olvidado, Liberado, Primero
    <3>2. CASE pc["interr"] \in ConOlvidado /\ proceso_ejecutando = p
      BY <1>t, <2>1, <3>2 DEF Olvidado, Liberado, ConOlvidado, HilosFijos
    <3>3. CASE pc["interr"] = "fin_pone" /\ mano["interr"] = p
      BY <1>t, <2>1, <3>3 DEF Olvidado, Liberado, HilosFijos
    <3>4. CASE \E g \in Interfaz \ {i} :
                  pc[g] = "exit" /\ Primero(huerfana[g]) = p
      BY <1>t, <2>1, <3>4 DEF Olvidado
    <3> QED
      BY <3>1, <3>2, <3>3, <3>4 DEF Olvidado, Liberado, ConOlvidado
  <2>5. Quieta
    BY <1>t, <2>1 DEF Quieta, HilosFijos
  <2> QED
    BY <2>4, <2>5, QuietaCargados
<1>16. CASE InterfazIteraFin(i)
  BY <1>16, <1>t, <1>q DEF InterfazIteraFin
<1> QED
  BY <1>1, <1>2, <1>3, <1>4, <1>5, <1>6, <1>7, <1>8, <1>9, <1>10, <1>11,
     <1>12, <1>13, <1>14, <1>15, <1>16 DEF Interf

\* The console, when it ends no process.
LEMMA ConsolaCargados ==
  ASSUME Inductivo, Cargados, ~ caido, "FINALIZAR_PROCESO" \notin Comandos,
         pc["consola"] \in SinFin, Orden \/ Ejecuta,
         UNCHANGED << tokens, pcb_io >>
  PROVE  Cargados'
<1>t. /\ pc \in [Hilos -> Etiquetas] /\ SchedulerTypeOK
      /\ HilosFijos \subseteq Hilos /\ Interfaz \subseteq Hilos
      /\ Interfaz \cap HilosFijos = {}
      /\ {"new", "ready", "aux", "exit"} \subseteq Colas
      /\ Interfaz \subseteq Colas /\ Recurso \subseteq Colas
      /\ {"new", "exit"} \cap (Interfaz \cup Recurso) = {}
  BY DEF Inductivo, TypeOK, Hilos, Colas, Bloqueados
<1>o. ASSUME colas'["exit"] = colas["exit"],
             \A g \in Hilos \ {"consola", "largo"} :
                pc'[g] = pc[g] /\ mano'[g] = mano[g],
             UNCHANGED << huerfana, proceso_ejecutando >>
      PROVE  SiguenOlvidados
  BY <1>t, <1>o, OlvidadoQuieto DEF HilosFijos
<1>q. ASSUME UNCHANGED << schedVars, numero_de_procesos, memVars >>,
             \A g \in Hilos \ {"consola"} : pc'[g] = pc[g],
             pc["consola"] # "a_new", pc'["consola"] # "a_new"
      PROVE  Cargados'
  <2>1. SiguenOlvidados
    BY <1>t, <1>q, <1>o
  <2>2. Quieta
    BY <1>t, <1>q DEF Quieta, HilosFijos
  <2> QED
    BY <2>1, <2>2, QuietaCargados
<1>1. ASSUME NEW op \in {"MEMORY_PROCESS_CREATE", "PATH_INEXISTENTE"},
             PideCreacion(op), pc["consola"] = "comando"
      PROVE  Cargados'
  <2>1. /\ \A g \in Hilos \ {"consola"} : pc'[g] = pc[g] /\ mano'[g] = mano[g]
        /\ UNCHANGED << colas, huerfana, proceso_ejecutando >>
    BY <1>1, <1>t DEF PideCreacion, SchedulerTypeOK
  <2>2. SiguenOlvidados
    BY <1>o, <2>1
  <2> QED
    BY <1>1, <2>2, PideCargados DEF OpsMemoria
<1>2. CASE IniciarProceso \/ IniciarProcesoSinPath
  BY <1>1, <1>2 DEF IniciarProceso, IniciarProcesoSinPath, Lee
<1>3. CASE DetenerPlanificacion \/ IniciarPlanificacion
  BY <1>3, <1>t, <1>q DEF DetenerPlanificacion, IniciarPlanificacion, Lee
<1>4. CASE Multiprogramacion
  BY <1>4, <1>t, <1>q DEF Multiprogramacion, Lee, HilosFijos
<1>5. CASE ProcesoAColaNew
  <2>1. /\ \A g \in Hilos \ {"consola", "largo"} :
              pc'[g] = pc[g] /\ mano'[g] = mano[g]
        /\ colas'["exit"] = colas["exit"]
        /\ UNCHANGED << huerfana, proceso_ejecutando >>
    BY <1>5, <1>t DEF ProcesoAColaNew, Pone, SchedulerTypeOK
  <2>2. SiguenOlvidados
    BY <1>o, <2>1
  <2> QED
    BY <1>5, <2>2, ColaNewCargados DEF ProcesoAColaNew
<1>6. CASE ConsolaInicializaRecursos \/ CambiaGrado
  BY <1>6, <1>t, <1>q DEF ConsolaInicializaRecursos, CambiaGrado, HilosFijos
<1>7. ~ FinalizarProceso
  BY DEF FinalizarProceso, Lee
<1>8. /\ ~ FinalizarEnExec /\ ~ FinalizarAvisaMemoria
  BY DEF FinalizarEnExec, FinalizarAvisaMemoria, SinFin
<1>9. ~ FinalizarLibera
  BY <1>t, LiberarQuieto DEF FinalizarLibera, SinFin, Etiquetas, HilosFijos
<1>10. ASSUME NEW k \in 1 .. 4
       PROVE  ~ FinalizarEncuentra(k) /\ ~ FinalizarNoEncuentra(k)
                 /\ ~ FinalizarAExit(k)
  BY DEF FinalizarEncuentra, FinalizarNoEncuentra, FinalizarAExit, EtapaFin,
     EtapaExit, SinFin
<1> QED
  BY <1>2, <1>3, <1>4, <1>5, <1>6, <1>7, <1>8, <1>9, <1>10 DEF Orden, Ejecuta

\* Every step of the kernel.
LEMMA PasoCargados ==
  ASSUME Inductivo, Ubicacion, Cargados, "FINALIZAR_PROCESO" \notin Comandos,
         pc["consola"] \in SinFin, [Next]_vars
  PROVE  Cargados'
<1>1. CASE PasoLargo
  BY <1>1, LargoCargados DEF PasoLargo
<1>2. CASE PasoCorto
  BY <1>2, CortoCargados DEF PasoCorto
<1>3. CASE PasoInterr
  BY <1>3, InterrCargados DEF PasoInterr
<1>4. CASE \E i \in Interfaz : PasoInterfaz(i)
  BY <1>4, InterfazCargados DEF PasoInterfaz
<1>5. CASE PasoOrden \/ PasoConsola
  BY <1>5, ConsolaCargados DEF PasoOrden, PasoConsola
<1>6. CASE PasoMemoria
  BY <1>6, MemoriaCargados DEF PasoMemoria
<1>7. CASE PasoCPU \/ PasoOrdenPerdida
  <2>1. /\ UNCHANGED << pc, schedVars, memVars, numero_de_procesos >> /\ ~ caido
    BY <1>7 DEF PasoCPU, PasoOrdenPerdida, CPUTermina, CPULlama, CPUDesaloja,
       CPUInterrumpe, CPUOlvidaOrden, kernelVars
  <2>2. SiguenOlvidados
    BY <2>1, OlvidadoQuieto
  <2>3. Quieta
    BY <2>1 DEF Quieta
  <2> QED
    BY <2>1, <2>2, <2>3, QuietaCargados
<1>8. CASE Reposo \/ UNCHANGED vars
  <2>1. /\ UNCHANGED << pc, schedVars, memVars, numero_de_procesos, caido >>
    BY <1>8 DEF Reposo, vars
  <2>2. /\ Admitidos' = Admitidos /\ Confirmados' = Confirmados
        /\ Respondidos' = Respondidos
    BY <2>1 DEF Admitidos, Confirmados, Respondidos, Uno
  <2>3. \A p : Olvidado(p)' <=> Olvidado(p)
    BY <2>1 DEF Olvidado, Liberado
  <2> QED
    BY <2>1, <2>2, <2>3 DEF Cargados, NuevosEnOrden, RespuestasEnOrden,
       EnMemoria, EsCreacion
<1> QED
  BY <1>1, <1>2, <1>3, <1>4, <1>5, <1>6, <1>7, <1>8 DEF Next

\* Nobody was created yet.
LEMMA InitCargados ==
  ASSUME Init
  PROVE  Cargados
<1>1. /\ colas["new"] = << >> /\ numero_de_procesos = 0
      /\ pc["consola"] = "comando" /\ pc["largo"] = "multi"
      /\ pedidos = << >> /\ confirmaciones = << >>
  BY DEF Init, InitScheduler, InitConexiones, Hilos, HilosFijos, Colas
<1>2. Admitidos = 0 /\ Confirmados = 0 /\ Respondidos = 0
  <2>1. /\ Len(colas["new"]) = 0 /\ Len(confirmaciones) = 0
        /\ Uno(En("consola", "a_new")) = 0
        /\ Uno(pc["largo"] \in {"saca_new", "cond_new", "despierta"}) = 0
    BY <1>1 DEF Uno
  <2>2. Admitidos = 0
    BY <1>1, <2>1 DEF Admitidos
  <2> QED
    BY <2>1, <2>2 DEF Confirmados, Respondidos
<1> QED
  BY <1>1, <1>2 DEF Cargados, NuevosEnOrden, RespuestasEnOrden, EnMemoria, Pids

\* Who is ready was admitted and is not to be forgotten, and so is who was
\* sent to the CPU: the handler ends nobody while the CPU has a pcb.
LEMMA CargadosSolo ==
  ASSUME Inductivo, Ubicacion, Cargados
  PROVE  SoloListosCargados
<1>1. ASSUME NEW p \in Pids, NEW l \in Sitios, Esta(p, l),
             \/ l \in { << "cola", "ready" >>, << "cola", "aux" >> }
             \/ /\ l = << "exec", "exec" >>
                /\ pc["interr"] \notin ConOlvidado
      PROVE  p \in en_memoria
  <2>1. p \in 1 .. Admitidos
    BY <1>1, EnOtroSitio DEF Cargados
  <2>2. p \in 1 .. Confirmados
    BY <2>1, AdmisionTipos DEF Confirmados, Uno
  <2>3. ~ Olvidado(p)
    <3> SUFFICES ASSUME Olvidado(p)
                 PROVE  FALSE
      OBVIOUS
    <3>1. PICK m \in Sitios :
             /\ Esta(p, m)
             /\ m \in { << "cola", "exit" >>, << "exec", "exec" >>,
                        << "mano", "interr" >> } \cup ({"huerfana"} \X Interfaz)
      BY OlvidadoSitio
    <3>2. m = l
      BY <1>1, <3>1 DEF Ubicacion, UnSitio
    <3>3. l = << "exec", "exec" >> /\ pc["interr"] \notin ConOlvidado
      BY <1>1, <3>1, <3>2
    <3>4. ASSUME NEW k \in Sitios, Esta(p, k)
          PROVE  k = l
      BY <1>1, <3>4 DEF Ubicacion, UnSitio
    <3>5. ~ Contains(colas["exit"], p) /\ mano["interr"] # p
      <4>1. /\ << "cola", "exit" >> \in Sitios
            /\ << "mano", "interr" >> \in Sitios
        BY SonSitios DEF Colas, Hilos, HilosFijos
      <4>2. /\ << "cola", "exit" >> # l /\ << "mano", "interr" >> # l
        BY <3>3
      <4>3. ~ Esta(p, << "cola", "exit" >>) /\ ~ Esta(p, << "mano", "interr" >>)
        BY <3>4, <4>1, <4>2
      <4> QED
        BY <4>3 DEF Esta
    <3>6. PICK i \in Interfaz : pc[i] = "exit" /\ Primero(huerfana[i]) = p
      BY <3>3, <3>5 DEF Olvidado, Liberado, ConOlvidado
    <3>7. huerfana[i] # << >> /\ huerfana[i] \in Seq(Pids)
      BY <3>6 DEF Inductivo, IteracionValida, TypeOK, SchedulerTypeOK
    <3>8. Contains(huerfana[i], p)
      BY <3>6, <3>7 DEF Primero, Contains
    <3> QED
      BY <3>3, <3>4, <3>8, SonSitios DEF Esta
  <2> QED
    BY <2>2, <2>3 DEF Cargados, EnMemoria
<1>2. ASSUME NEW q \in {"ready", "aux"}, NEW k \in 1 .. Len(colas[q])
      PROVE  colas[q][k] \in en_memoria
  <2>1. q \in Colas /\ colas[q] \in Seq(Pids)
    BY DEF Inductivo, TypeOK, SchedulerTypeOK, Colas
  <2>2. colas[q][k] \in Pids /\ Contains(colas[q], colas[q][k])
    BY <2>1, ElementOfSeq DEF Contains
  <2>3. Esta(colas[q][k], << "cola", q >>) /\ << "cola", q >> \in Sitios
    BY <2>1, <2>2, SonSitios DEF Esta
  <2> QED
    BY <1>1, <2>2, <2>3
<1>3. ASSUME NEW k \in 1 .. Len(enviados)
      PROVE  enviados[k] \in en_memoria
  <2>1. enviados \in Seq(Pids) /\ Len(enviados) \in Nat /\ Len(recibidos) \in Nat
    BY DEF Inductivo, TypeOK, ConexionesTypeOK
  <2>2. enviados[k] = proceso_ejecutando /\ enviados[k] \in Pids
    BY <2>1, ElementOfSeq DEF Inductivo, ContextoPropio
  <2>3. sem_interrupcion > 0
    BY <2>1 DEF Inductivo, ContextoPropio, TypeOK, SemaforosTypeOK
  <2>4. ~ HandlerConTurno
    BY <2>3 DEF Inductivo, TurnoUnico, Uno, TypeOK, SemaforosTypeOK
  <2>5. pc["interr"] \notin ConOlvidado
    BY <2>4 DEF HandlerConTurno, ConOlvidado
  <2>6. /\ Esta(enviados[k], << "exec", "exec" >>)
        /\ << "exec", "exec" >> \in Sitios
    BY <2>2, SonSitios DEF Esta
  <2> QED
    BY <1>1, <2>2, <2>5, <2>6
<1> QED
  BY <1>2, <1>3 DEF SoloListosCargados

-----------------------------------------------------------------------------
(* Where the kernel dies: who has a dictionary of resources, which names    *)
(* the handler works with, and each of the places where a step is the last. *)

(* The dictionaries. *)

\* The points of the handler, and of the thread of an interface, after they
\* took the dictionary of the process they are ending.
Soltando == { "lib_carga", "lib_guarda", "lib_mira", "lib_saca", "lib_pone",
              "fin_saca" }
SoltandoLista == { "lib_carga", "lib_guarda", "lib_mira", "lib_saca", "lib_pone",
                   "avisa", "exit" }

\* Who has lost its dictionary is not given another.
SiguenDespojados == \A p \in Pids : Despojado(p) => Despojado(p)'

\* A step that takes nobody out of EXIT and leaves the threads that are ending
\* a process at work on the same one.
LEMMA DespojadoQuieto ==
  ASSUME \A p \in Pids :
            Contains(colas["exit"], p) => Contains(colas'["exit"], p),
         pc["interr"] \in Soltando =>
            UNCHANGED proceso_ejecutando /\ pc'["interr"] \in Soltando,
         pc["interr"] = "fin_pone" =>
            pc'["interr"] = "fin_pone" /\ mano'["interr"] = mano["interr"],
         \A i \in Interfaz : pc[i] \in SoltandoLista =>
            /\ pc'[i] \in SoltandoLista
            /\ Primero(huerfana'[i]) = Primero(huerfana[i])
  PROVE  SiguenDespojados
<1> SUFFICES ASSUME NEW p \in Pids, Despojado(p)
             PROVE  Despojado(p)'
  BY DEF SiguenDespojados
<1>1. CASE Contains(colas["exit"], p)
  BY <1>1 DEF Despojado, Liberado
<1>2. CASE pc["interr"] \in Soltando /\ proceso_ejecutando = p
  BY <1>2 DEF Despojado, Liberado, Soltando
<1>3. CASE pc["interr"] = "fin_pone" /\ mano["interr"] = p
  BY <1>3 DEF Despojado, Liberado
<1>4. CASE \E i \in Interfaz : pc[i] \in SoltandoLista /\ Primero(huerfana[i]) = p
  BY <1>4 DEF Despojado, SoltandoLista
<1> QED
  BY <1>1, <1>2, <1>3, <1>4 DEF Despojado, Liberado, Soltando, SoltandoLista

\* No dictionary is taken and none is still to be given that was not.
LEMMA DiccionarioQuieto ==
  ASSUME Inductivo, ConDiccionario, SiguenDespojados,
         con_recursos \subseteq con_recursos', UNCHANGED numero_de_procesos,
         pc["consola"] \in {"a_new", "dicc_nuevo"} =>
            pc'["consola"] \in {"a_new", "dicc_nuevo"}
  PROVE  ConDiccionario'
<1> SUFFICES ASSUME NEW p \in Creados, p \notin con_recursos'
             PROVE  (\/ /\ pc["consola"] \in {"a_new", "dicc_nuevo"}
                        /\ p = numero_de_procesos
                     \/ Despojado(p))'
  BY DEF ConDiccionario, Creados
<1>1. p \in Pids
  BY AdmisionTipos DEF Creados
<1>2. \/ pc["consola"] \in {"a_new", "dicc_nuevo"} /\ p = numero_de_procesos
      \/ Despojado(p)
  BY DEF ConDiccionario
<1> QED
  BY <1>1, <1>2 DEF SiguenDespojados

\* liberar_recursos_de_proceso of x, which is then one of those that lost it.
LEMMA DiccionarioLiberado ==
  ASSUME Inductivo, ConDiccionario, SiguenDespojados, NEW x,
         con_recursos \ {x} \subseteq con_recursos',
         x \in Pids \ con_recursos' => Despojado(x)' \/ x \notin con_recursos,
         UNCHANGED numero_de_procesos, pc'["consola"] = pc["consola"]
  PROVE  ConDiccionario'
<1> SUFFICES ASSUME NEW p \in Creados, p \notin con_recursos'
             PROVE  (\/ /\ pc["consola"] \in {"a_new", "dicc_nuevo"}
                        /\ p = numero_de_procesos
                     \/ Despojado(p))'
  BY DEF ConDiccionario, Creados
<1>1. p \in Pids
  BY AdmisionTipos DEF Creados
<1>2. CASE p \notin con_recursos
  <2>1. \/ pc["consola"] \in {"a_new", "dicc_nuevo"} /\ p = numero_de_procesos
        \/ Despojado(p)
    BY <1>2 DEF ConDiccionario
  <2> QED
    BY <1>1, <2>1 DEF SiguenDespojados
<1>3. CASE p \in con_recursos
  <2>1. p = x
    BY <1>3
  <2> QED
    BY <1>1, <1>3, <2>1
<1> QED
  BY <1>2, <1>3

\* A process that is being ended, or that signals, and has no dictionary is
\* the last one, and the console has yet to give it one.
LEMMA SinDiccionario ==
  ASSUME Inductivo, Ubicacion, NuevosEnOrden, ConDiccionario,
         NEW p \in Pids \ con_recursos, NEW l \in Sitios, Esta(p, l),
         \/ /\ l = << "exec", "exec" >>
            /\ pc["interr"] \in {"lib_dicc", "asigna"}
         \/ \E i \in Interfaz : l = << "huerfana", i >> /\ pc[i] = "lib_dicc"
  PROVE  pc["consola"] = "dicc_nuevo" /\ p = numero_de_procesos
<1>1. p \in Creados
  BY DEF Ubicacion, SinCrear, Ubicado
<1>2. ASSUME NEW m \in Sitios, Esta(p, m)
      PROVE  m = l
  BY <1>2 DEF Ubicacion, UnSitio
<1>3. /\ << "cola", "exit" >> \in Sitios /\ << "mano", "interr" >> \in Sitios
      /\ << "mano", "consola" >> \in Sitios
  BY SonSitios DEF Colas, Hilos, HilosFijos
<1>4. /\ << "cola", "exit" >> # l /\ << "mano", "interr" >> # l
      /\ << "mano", "consola" >> # l
  OBVIOUS
<1>5. ~ Esta(p, << "cola", "exit" >>) /\ ~ Esta(p, << "mano", "interr" >>)
      /\ ~ Esta(p, << "mano", "consola" >>)
  BY <1>2, <1>3, <1>4
<1>6. ~ Contains(colas["exit"], p) /\ mano["interr"] # p /\ mano["consola"] # p
  BY <1>5 DEF Esta
<1>7. ~ Despojado(p)
  <2>1. ASSUME pc["interr"] \in Soltando, proceso_ejecutando = p
        PROVE  FALSE
    <3>1. Esta(p, << "exec", "exec" >>)
      BY <2>1 DEF Esta
    <3>2. l = << "exec", "exec" >>
      BY <1>2, <3>1, SonSitios
    <3> QED
      BY <2>1, <3>2 DEF Soltando
  <2>2. ASSUME NEW i \in Interfaz, pc[i] \in SoltandoLista,
               Primero(huerfana[i]) = p
        PROVE  FALSE
    <3>1. huerfana[i] # << >> /\ huerfana[i] \in Seq(Pids)
      BY <2>2 DEF Inductivo, IteracionValida, TypeOK, SchedulerTypeOK, SoltandoLista
    <3>2. Contains(huerfana[i], p)
      BY <2>2, <3>1 DEF Primero, Contains
    <3>3. Esta(p, << "huerfana", i >>)
      BY <3>2 DEF Esta
    <3>4. l = << "huerfana", i >>
      BY <1>2, <3>3, SonSitios
    <3> QED
      BY <2>2, <3>4 DEF SoltandoLista
  <2> QED
    BY <1>6, <2>1, <2>2 DEF Despojado, Liberado, Soltando, SoltandoLista
<1>8. pc["consola"] \in {"a_new", "dicc_nuevo"} /\ p = numero_de_procesos
  BY <1>1, <1>7 DEF ConDiccionario
<1> QED
  BY <1>6, <1>8 DEF NuevosEnOrden

(* The names the handler works with, and the paths. *)

\* A step of another thread.
LEMMA NombresQuietos ==
  ASSUME InterfazHallada, FinPorRecurso, pc'["interr"] = pc["interr"],
         UNCHANGED tokens, interfaces \subseteq interfaces' \cup Desconexiones
  PROVE  InterfazHallada' /\ FinPorRecurso'
BY InterfacesQueFallan DEF InterfazHallada, FinPorRecurso

\* What a step may do to the sockets of the memory.
LEMMA PathsQuietos ==
  ASSUME Inductivo, PathsValidos,
         \/ UNCHANGED << pedidos, confirmaciones >>
         \/ UNCHANGED pedidos /\ confirmaciones # << >>
               /\ confirmaciones' = Tail(confirmaciones)
         \/ \E op \in OpsMemoria, p \in Pids :
               /\ op = "PATH_INEXISTENTE" => "PATH_INEXISTENTE" \in Comandos
               /\ pedidos' = Append(pedidos, Pedido(op, p))
               /\ UNCHANGED confirmaciones
         \/ MemoriaAtiende
  PROVE  PathsValidos'
<1> SUFFICES ASSUME "PATH_INEXISTENTE" \notin Comandos
             PROVE  PathsValidos'
  BY DEF PathsValidos
<1>t. /\ pedidos \in Seq([op : OpsMemoria, pid : Pids])
      /\ confirmaciones \in Seq({"MEMORY_PROCESS_CREATE", "MEMORY_INVALID_PATH"})
      /\ Len(pedidos) \in Nat /\ Len(confirmaciones) \in Nat
  BY AdmisionTipos
<1>1. /\ \A k \in 1 .. Len(pedidos) : pedidos[k].op # "PATH_INEXISTENTE"
      /\ \A k \in 1 .. Len(confirmaciones) :
            confirmaciones[k] # "MEMORY_INVALID_PATH"
  BY DEF PathsValidos
<1>2. CASE UNCHANGED << pedidos, confirmaciones >>
  BY <1>1, <1>2 DEF PathsValidos
<1>3. ASSUME confirmaciones # << >>, confirmaciones' = Tail(confirmaciones)
      PROVE  \A k \in 1 .. Len(confirmaciones') :
                confirmaciones'[k] # "MEMORY_INVALID_PATH"
  <2>1. /\ Len(confirmaciones') = Len(confirmaciones) - 1
        /\ \A k \in 1 .. Len(confirmaciones') :
              confirmaciones'[k] = confirmaciones[k + 1]
    BY <1>3, <1>t
  <2>2. \A k \in 1 .. Len(confirmaciones') : k + 1 \in 1 .. Len(confirmaciones)
    BY <2>1, <1>t
  <2> QED
    BY <1>1, <2>1, <2>2
<1>4. CASE UNCHANGED pedidos /\ confirmaciones # << >>
              /\ confirmaciones' = Tail(confirmaciones)
  BY <1>1, <1>3, <1>4 DEF PathsValidos
<1>5. ASSUME NEW op \in OpsMemoria, NEW p \in Pids, op # "PATH_INEXISTENTE",
             pedidos' = Append(pedidos, Pedido(op, p)), UNCHANGED confirmaciones
      PROVE  PathsValidos'
  <2>1. Pedido(op, p) \in [op : OpsMemoria, pid : Pids] /\ Pedido(op, p).op = op
    BY DEF Pedido
  <2>2. /\ Len(pedidos') = Len(pedidos) + 1
        /\ \A k \in 1 .. Len(pedidos) : pedidos'[k] = pedidos[k]
        /\ pedidos'[Len(pedidos) + 1] = Pedido(op, p)
    BY <1>5, <1>t, <2>1
  <2>3. \A k \in 1 .. Len(pedidos') :
           k \in 1 .. Len(pedidos) \/ k = Len(pedidos) + 1
    BY <1>t, <2>2
  <2>4. \A k \in 1 .. Len(pedidos') : pedidos'[k].op # "PATH_INEXISTENTE"
    BY <1>1, <1>5, <2>1, <2>2, <2>3
  <2> QED
    BY <1>1, <1>5, <2>4 DEF PathsValidos
<1>6. CASE MemoriaAtiende
  <2>1. pedidos # << >> /\ pedidos' = Tail(pedidos)
    BY <1>6 DEF MemoriaAtiende
  <2>2. /\ Len(pedidos') = Len(pedidos) - 1 /\ 1 \in 1 .. Len(pedidos)
        /\ \A k \in 1 .. Len(pedidos') : pedidos'[k] = pedidos[k + 1]
        /\ Head(pedidos) = pedidos[1]
    BY <2>1, <1>t
  <2>3. \A k \in 1 .. Len(pedidos') : k + 1 \in 1 .. Len(pedidos)
    BY <2>2, <1>t
  <2>4. \A k \in 1 .. Len(pedidos') : pedidos'[k].op # "PATH_INEXISTENTE"
    BY <1>1, <2>2, <2>3
  <2>5. Head(pedidos).op # "PATH_INEXISTENTE"
    BY <1>1, <2>2
  <2>6. \/ UNCHANGED confirmaciones
        \/ confirmaciones' = Append(confirmaciones, "MEMORY_PROCESS_CREATE")
    BY <1>6, <2>5 DEF MemoriaAtiende
  <2>7. CASE confirmaciones' = Append(confirmaciones, "MEMORY_PROCESS_CREATE")
    <3>1. /\ Len(confirmaciones') = Len(confirmaciones) + 1
          /\ \A k \in 1 .. Len(confirmaciones) :
                confirmaciones'[k] = confirmaciones[k]
          /\ confirmaciones'[Len(confirmaciones) + 1] = "MEMORY_PROCESS_CREATE"
      BY <2>7, <1>t
    <3>2. \A k \in 1 .. Len(confirmaciones') :
             k \in 1 .. Len(confirmaciones) \/ k = Len(confirmaciones) + 1
      BY <1>t, <3>1
    <3>3. \A k \in 1 .. Len(confirmaciones') :
             confirmaciones'[k] # "MEMORY_INVALID_PATH"
      BY <1>1, <3>1, <3>2
    <3> QED
      BY <2>4, <3>3 DEF PathsValidos
  <2> QED
    BY <1>1, <2>4, <2>6, <2>7 DEF PathsValidos
<1> QED
  BY <1>2, <1>4, <1>5, <1>6

(* The steps of the threads. *)

\* The long term scheduler.
LEMMA LargoSinCaida ==
  ASSUME Inductivo, SinCaida, Largo, UNCHANGED otras
  PROVE  SinCaida'
<1>t. /\ pc \in [Hilos -> Etiquetas] /\ SchedulerTypeOK
      /\ HilosFijos \subseteq Hilos /\ Interfaz \subseteq Hilos
      /\ Interfaz \cap HilosFijos = {}
      /\ {"new", "ready", "aux", "exit"} \subseteq Colas
      /\ Interfaz \subseteq Colas /\ Recurso \subseteq Colas
      /\ {"new", "exit"} \cap (Interfaz \cup Recurso) = {}
  BY DEF Inductivo, TypeOK, Hilos, Colas, Bloqueados
<1>1. /\ colas'["exit"] = colas["exit"] /\ mano'["interr"] = mano["interr"]
      /\ \A g \in Hilos \ {"largo"} : pc'[g] = pc[g]
      /\ UNCHANGED << huerfana, proceso_ejecutando, con_recursos, interfaces >>
      /\ \/ UNCHANGED << pedidos, confirmaciones >>
         \/ UNCHANGED pedidos /\ confirmaciones # << >>
               /\ confirmaciones' = Tail(confirmaciones)
  <2>1. CASE LargoTomaCupo \/ LargoReanuda \/ LargoConfirma \/ LargoEsperaNew
    BY <1>t, <2>1 DEF LargoTomaCupo, LargoReanuda, LargoConfirma,
       LargoEsperaNew, SigueSiActiva, SaleDePausa
  <2>2. CASE LargoSaca \/ LargoSacaNada
    BY <1>t, <2>2 DEF LargoSaca, LargoSacaNada, Saca, SchedulerTypeOK, HilosFijos
  <2>3. CASE LargoPone \/ LargoCuenta
    BY <1>t, <2>3 DEF LargoPone, LargoCuenta, Pone, SchedulerTypeOK, HilosFijos
  <2> QED
    BY <2>1, <2>2, <2>3 DEF Largo
<1>2. SiguenDespojados
  BY <1>t, <1>1, DespojadoQuieto DEF HilosFijos
<1>3. ConDiccionario'
  BY <1>t, <1>1, <1>2, DiccionarioQuieto DEF HilosFijos, SinCaida
<1>4. InterfazHallada' /\ FinPorRecurso'
  BY <1>t, <1>1, NombresQuietos DEF HilosFijos, SinCaida
<1>5. PathsValidos'
  BY <1>1, PathsQuietos DEF SinCaida
<1> QED
  BY <1>3, <1>4, <1>5 DEF SinCaida

\* The dispatcher.
LEMMA CortoSinCaida ==
  ASSUME Inductivo, SinCaida, Corto, UNCHANGED otras
  PROVE  SinCaida'
<1>t. /\ pc \in [Hilos -> Etiquetas] /\ SchedulerTypeOK
      /\ HilosFijos \subseteq Hilos /\ Interfaz \subseteq Hilos
      /\ Interfaz \cap HilosFijos = {}
      /\ {"new", "ready", "aux", "exit"} \subseteq Colas
      /\ Interfaz \subseteq Colas /\ Recurso \subseteq Colas
      /\ {"new", "exit"} \cap (Interfaz \cup Recurso) = {}
  BY DEF Inductivo, TypeOK, Hilos, Colas, Bloqueados
<1>1. /\ UNCHANGED << con_recursos, memVars, interfaces, huerfana >>
      /\ colas'["exit"] = colas["exit"]
      /\ \A g \in Hilos \ {"corto"} : pc'[g] = pc[g] /\ mano'[g] = mano[g]
      /\ proceso_ejecutando' = proceso_ejecutando \/ pc["corto"] = "pone_exec"
  <2>1. CASE CortoToma
    BY <2>1, <1>t DEF CortoToma, SigueSiActiva, Entrada
  <2>2. CASE CortoReanuda
    BY <2>2, <1>t DEF CortoReanuda, SaleDePausa, Entrada
  <2>3. CASE CortoElige
    BY <2>3, <1>t DEF CortoElige
  <2>4. CASE CortoSacaAux
    BY <2>4, <1>t DEF CortoSacaAux, Saca, SchedulerTypeOK
  <2>5. CASE CortoSacaReady
    BY <2>5, <1>t DEF CortoSacaReady, Saca, SchedulerTypeOK
  <2>6. CASE CortoDespacha
    BY <2>6, <1>t DEF CortoDespacha, PoneEnExec, SchedulerTypeOK
  <2> QED
    BY <2>1, <2>2, <2>3, <2>4, <2>5, <2>6 DEF Corto
<1>2. pc["corto"] = "pone_exec" => pc["interr"] \notin Soltando
  BY DEF Inductivo, TurnoUnico, HandlerConTurno, Uno, Soltando, TypeOK,
     SemaforosTypeOK
<1>3. SiguenDespojados
  BY <1>t, <1>1, <1>2, DespojadoQuieto DEF HilosFijos
<1>4. ConDiccionario'
  BY <1>t, <1>1, <1>3, DiccionarioQuieto DEF HilosFijos, SinCaida
<1>5. InterfazHallada' /\ FinPorRecurso'
  BY <1>t, <1>1, NombresQuietos DEF HilosFijos, SinCaida
<1>6. PathsValidos'
  BY <1>1, PathsQuietos DEF SinCaida
<1> QED
  BY <1>4, <1>5, <1>6 DEF SinCaida

\* A thread takes the dictionary of process p.
LEMMA LiberarDiccionario ==
  ASSUME Inductivo, ConDiccionario, SiguenDespojados, NEW h \in Hilos, NEW p,
         NEW dest \in Etiquetas, LiberarRecursosDeProceso(h, p, dest),
         pc'[h] = "lib_carga" /\ pc[h] = "lib_dicc" /\ p \in Pids
            => Despojado(p)',
         UNCHANGED numero_de_procesos, pc'["consola"] = pc["consola"]
  PROVE  ConDiccionario'
<1>1. CASE con_recursos \subseteq con_recursos'
  BY <1>1, DiccionarioQuieto
<1>2. CASE ~ (con_recursos \subseteq con_recursos')
  <2>1. LiberarSacaDiccionario(h, p)
    BY <1>2 DEF LiberarRecursosDeProceso, LiberarCarga, CargaRecurso,
       LiberarGuarda, LiberarMira, PasaDeRecurso, LiberarSaca, LiberarPone,
       LiberarTermina
  <2>2. con_recursos' = con_recursos \ {p} /\ pc[h] = "lib_dicc"
        /\ pc'[h] = "lib_carga"
    BY <1>2, <2>1 DEF LiberarSacaDiccionario, Inductivo, TypeOK
  <2>3. p \in Pids => Despojado(p)'
    BY <2>2
  <2> QED
    BY <2>2, <2>3, DiccionarioLiberado
<1> QED
  BY <1>1, <1>2

\* The handler only ends a WAIT or a SIGNAL that is of no resource, and looks
\* for an interface before it works on it.
LEMMA InterrNombres ==
  ASSUME Inductivo, Enlace, InterfazHallada, FinPorRecurso, Interr
  PROVE  InterfazHallada' /\ FinPorRecurso'
<1>t. /\ pc \in [Hilos -> Etiquetas] /\ "interr" \in Hilos
      /\ tokens.op \in Operaciones
      /\ interfaces \in SUBSET Interfaz
  BY DEF Inductivo, TypeOK, Hilos, HilosFijos, LocalesTypeOK, Instruccion,
     ConexionesTypeOK
<1>1. CASE InterrRecibe
  BY <1>1, <1>t DEF InterrRecibe, InterfazHallada, FinPorRecurso,
     Operaciones, SinTokens
<1>2. CASE InterrActiva
  BY <1>2, <1>t DEF InterrActiva, InterfazHallada, FinPorRecurso,
     Operaciones, SinTokens, SigueSiActiva, Caso, OpsDeFin
<1>3. CASE InterrReanuda
  BY <1>3, <1>t DEF InterrReanuda, InterfazHallada, FinPorRecurso,
     Operaciones, SinTokens, SaleDePausa, Caso, OpsDeFin
<1>4. CASE InterrAvisaMemoria
  BY <1>4, <1>t DEF InterrAvisaMemoria, InterfazHallada, FinPorRecurso,
     Operaciones, SinTokens
<1>5. CASE InterrLibera
  BY <1>5, <1>t, LiberarQuieto
     DEF InterrLibera, Etiquetas, InterfazHallada, FinPorRecurso
<1>6. CASE InterrFinSaca
  BY <1>6, <1>t DEF InterrFinSaca, InterfazHallada, FinPorRecurso,
     Operaciones, SinTokens
<1>7. CASE InterrFinPone
  BY <1>7, <1>t DEF InterrFinPone, InterfazHallada, FinPorRecurso,
     Operaciones, SinTokens
<1>8. CASE InterrAumentaMira
  BY <1>8, <1>t DEF InterrAumentaMira, InterfazHallada, FinPorRecurso,
     Operaciones, SinTokens
<1>9. CASE InterrAumentaResta
  BY <1>9, <1>t DEF InterrAumentaResta, InterfazHallada, FinPorRecurso,
     Operaciones, SinTokens
<1>10. CASE InterrRecursoInvalido
  BY <1>10, <1>t DEF InterrRecursoInvalido, InterfazHallada, FinPorRecurso,
     Operaciones, SinTokens
<1>11. CASE InterrDesalojaSaca
  BY <1>11, <1>t DEF InterrDesalojaSaca, InterfazHallada, FinPorRecurso,
     Operaciones, SinTokens
<1>12. CASE InterrDesalojaPone
  BY <1>12, <1>t DEF InterrDesalojaPone, InterfazHallada, FinPorRecurso,
     Operaciones, SinTokens
<1>13. CASE InterrIO
  BY <1>13, <1>t DEF InterrIO, InterfazHallada, FinPorRecurso,
     Operaciones, SinTokens, Enlace, OperacionDeIO
<1>14. CASE InterrAgregaInstruccion
  BY <1>14, <1>t DEF InterrAgregaInstruccion, InterfazHallada, FinPorRecurso,
     Operaciones, SinTokens
<1>15. CASE InterrBloqueaSaca
  BY <1>15, <1>t DEF InterrBloqueaSaca, InterfazHallada, FinPorRecurso,
     Operaciones, SinTokens
<1>16. CASE InterrBloqueaBusca
  BY <1>16, <1>t DEF InterrBloqueaBusca, InterfazHallada, FinPorRecurso,
     Operaciones, SinTokens
<1>17. CASE InterrBloqueaPone
  BY <1>17, <1>t DEF InterrBloqueaPone, InterfazHallada, FinPorRecurso,
     Operaciones, SinTokens
<1>18. CASE InterrAsigna
  BY <1>18, <1>t DEF InterrAsigna, InterfazHallada, FinPorRecurso,
     Operaciones, SinTokens
<1>19. CASE InterrCarga
  BY <1>19, <1>t DEF InterrCarga, InterfazHallada, FinPorRecurso,
     Operaciones, SinTokens
<1>20. CASE InterrGuarda
  BY <1>20, <1>t DEF InterrGuarda, InterfazHallada, FinPorRecurso,
     Operaciones, SinTokens
<1>21. CASE InterrWaitBloquea
  BY <1>21, <1>t DEF InterrWaitBloquea, InterfazHallada, FinPorRecurso,
     Operaciones, SinTokens
<1>22. CASE InterrSigueEnCPU
  BY <1>22, <1>t DEF InterrSigueEnCPU, InterfazHallada, FinPorRecurso,
     Operaciones, SinTokens, VuelveALaCPU
<1>23. CASE InterrSignalDespierta
  BY <1>23, <1>t DEF InterrSignalDespierta, InterfazHallada, FinPorRecurso,
     Operaciones, SinTokens
<1>24. CASE InterrSignalSaca
  BY <1>24, <1>t DEF InterrSignalSaca, InterfazHallada, FinPorRecurso,
     Operaciones, SinTokens
<1>25. CASE InterrSignalNadie
  BY <1>25, <1>t DEF InterrSignalNadie, InterfazHallada, FinPorRecurso,
     Operaciones, SinTokens, VuelveALaCPU
<1>26. CASE InterrSignalPone
  BY <1>26, <1>t DEF InterrSignalPone, InterfazHallada, FinPorRecurso,
     Operaciones, SinTokens, VuelveALaCPU
<1> QED
  BY <1>1, <1>2, <1>3, <1>4, <1>5, <1>6, <1>7, <1>8, <1>9, <1>10, <1>11,
     <1>12, <1>13, <1>14, <1>15, <1>16, <1>17, <1>18, <1>19, <1>20, <1>21,
     <1>22, <1>23, <1>24, <1>25, <1>26 DEF Interr

\* The handler takes the dictionary of who it is ending.
LEMMA InterrDiccionario ==
  ASSUME Inductivo, ConDiccionario, Interr, UNCHANGED << pcb_io, consVars >>
  PROVE  ConDiccionario'
<1>t. /\ pc \in [Hilos -> Etiquetas] /\ SchedulerTypeOK
      /\ HilosFijos \subseteq Hilos /\ Interfaz \subseteq Hilos
      /\ Interfaz \cap HilosFijos = {}
      /\ {"new", "ready", "aux", "exit"} \subseteq Colas
      /\ Interfaz \subseteq Colas /\ Recurso \subseteq Colas
      /\ {"new", "exit"} \cap (Interfaz \cup Recurso) = {}
  BY DEF Inductivo, TypeOK, Hilos, Colas, Bloqueados
<1>q. ASSUME \A p \in Pids :
                Contains(colas["exit"], p) => Contains(colas'["exit"], p),
             \A g \in Hilos \ {"interr"} : pc'[g] = pc[g],
             \A i \in Interfaz : pc[i] \in SoltandoLista =>
                Primero(huerfana'[i]) = Primero(huerfana[i]),
             pc["interr"] \notin Soltando \cup {"fin_pone"},
             con_recursos \subseteq con_recursos'
      PROVE  ConDiccionario'
  <2>1. SiguenDespojados
    BY <1>t, <1>q, DespojadoQuieto DEF HilosFijos
  <2> QED
    BY <1>t, <1>q, <2>1, DiccionarioQuieto DEF HilosFijos
<1>1. CASE InterrRecibe
  BY <1>1, <1>t, <1>q DEF InterrRecibe, Soltando
<1>2. CASE InterrActiva
  BY <1>2, <1>t, <1>q DEF InterrActiva, Soltando, SigueSiActiva
<1>3. CASE InterrReanuda
  BY <1>3, <1>t, <1>q DEF InterrReanuda, Soltando, SaleDePausa
<1>4. CASE InterrAvisaMemoria
  BY <1>4, <1>t, <1>q DEF InterrAvisaMemoria, Soltando
<1>5. CASE InterrLibera
  <2>1. /\ \A g \in Hilos \ {"interr"} : pc'[g] = pc[g] /\ mano'[g] = mano[g]
        /\ colas'["exit"] = colas["exit"]
        /\ pc["interr"] \in Soltando \cup {"lib_dicc"}
        /\ pc'["interr"] \in Soltando \cup {"lib_dicc"}
        /\ UNCHANGED << huerfana, proceso_ejecutando >>
    BY <1>5, <1>t, LiberarQuieto, LiberarColas
       DEF InterrLibera, Etiquetas, HilosFijos, Soltando
  <2>2. pc'["interr"] = "lib_dicc" => pc["interr"] = "lib_dicc"
    BY <1>5, <1>t DEF InterrLibera, LiberarRecursosDeProceso,
       LiberarSacaDiccionario, LiberarCarga, LiberarGuarda, LiberarMira,
       LiberarSaca, LiberarPone, LiberarTermina, HilosFijos
  <2>3. pc["interr"] # "fin_pone" /\ (pc["interr"] \in Soltando => pc'["interr"] \in Soltando)
    BY <2>1, <2>2 DEF Soltando
  <2>4. SiguenDespojados
    BY <1>t, <2>1, <2>3, DespojadoQuieto DEF HilosFijos
  <2>5. PICK x : x = proceso_ejecutando
    OBVIOUS
  <2>6. LiberarRecursosDeProceso("interr", x, "fin_saca")
    BY <1>5, <2>5 DEF InterrLibera
  <2>7. pc'["interr"] = "lib_carga" => Despojado(x)'
    BY <2>1, <2>5 DEF Despojado, Liberado
  <2> QED
    BY <1>t, <2>1, <2>4, <2>6, <2>7, LiberarDiccionario DEF HilosFijos, Etiquetas
<1>6. CASE InterrFinSaca
  <2>1. /\ pc["interr"] = "fin_saca" /\ pc'["interr"] = "fin_pone"
        /\ mano'["interr"] = proceso_ejecutando
        /\ \A g \in Hilos \ {"interr"} : pc'[g] = pc[g]
        /\ UNCHANGED << colas, huerfana, con_recursos >>
    BY <1>6, <1>t DEF InterrFinSaca, SacaDeExec, SchedulerTypeOK, HilosFijos
  <2>2. SiguenDespojados
    <3> SUFFICES ASSUME NEW p \in Pids, Despojado(p)
                 PROVE  Despojado(p)'
      BY DEF SiguenDespojados
    <3>1. \/ Contains(colas["exit"], p) \/ proceso_ejecutando = p
          \/ \E i \in Interfaz :
                pc[i] \in SoltandoLista /\ Primero(huerfana[i]) = p
      BY <2>1 DEF Despojado, Liberado, SoltandoLista
    <3> QED
      BY <1>t, <2>1, <3>1 DEF Despojado, Liberado, SoltandoLista, HilosFijos
  <2> QED
    BY <1>t, <2>1, <2>2, DiccionarioQuieto DEF HilosFijos
<1>7. CASE InterrFinPone
  <2>1. pc["interr"] = "fin_pone" /\ mano["interr"] \in Pids
    BY <1>7, <1>t DEF InterrFinPone, Inductivo, ManoLlena, HilosFijos
  <2>2. /\ colas'["exit"] = Append(colas["exit"], mano["interr"])
        /\ \A g \in Hilos \ {"interr"} : pc'[g] = pc[g]
        /\ UNCHANGED << huerfana, con_recursos >>
    BY <1>7, <1>t, <2>1 DEF InterrFinPone, Pone, SchedulerTypeOK, HilosFijos
  <2>3. colas["exit"] \in Seq(Pids)
    BY <1>t DEF SchedulerTypeOK
  <2>4. \A p : Contains(colas'["exit"], p)
               <=> Contains(colas["exit"], p) \/ p = mano["interr"]
    BY <2>1, <2>2, <2>3, AppendLista
  <2>5. SiguenDespojados
    <3> SUFFICES ASSUME NEW p \in Pids, Despojado(p)
                 PROVE  Despojado(p)'
      BY DEF SiguenDespojados
    <3>1. \/ Contains(colas["exit"], p) \/ mano["interr"] = p
          \/ \E i \in Interfaz :
                pc[i] \in SoltandoLista /\ Primero(huerfana[i]) = p
      BY <2>1 DEF Despojado, Liberado, SoltandoLista
    <3> QED
      BY <1>t, <2>2, <2>4, <3>1 DEF Despojado, Liberado, SoltandoLista, HilosFijos
  <2> QED
    BY <1>t, <2>2, <2>5, DiccionarioQuieto DEF HilosFijos
<1>8. CASE InterrAumentaMira
  BY <1>8, <1>t, <1>q DEF InterrAumentaMira, Soltando
<1>9. CASE InterrAumentaResta
  BY <1>9, <1>t, <1>q DEF InterrAumentaResta, Soltando
<1>10. CASE InterrRecursoInvalido
  BY <1>10, <1>t, <1>q DEF InterrRecursoInvalido, Soltando
<1>11. CASE InterrDesalojaSaca
  BY <1>11, <1>t, <1>q DEF InterrDesalojaSaca, Soltando, SacaDeExec, SchedulerTypeOK
<1>12. CASE InterrDesalojaPone
  BY <1>12, <1>t, <1>q DEF InterrDesalojaPone, Soltando, Pone, SchedulerTypeOK
<1>13. CASE InterrIO
  BY <1>13, <1>t, <1>q DEF InterrIO, Soltando
<1>14. CASE InterrAgregaInstruccion
  BY <1>14, <1>t, <1>q DEF InterrAgregaInstruccion, Soltando
<1>15. CASE InterrBloqueaSaca
  BY <1>15, <1>t, <1>q DEF InterrBloqueaSaca, Soltando, SacaDeExec, SchedulerTypeOK
<1>16. CASE InterrBloqueaBusca
  BY <1>16, <1>t, <1>q DEF InterrBloqueaBusca, Soltando
<1>17. CASE InterrBloqueaPone
  <2>1. /\ pc["interr"] = "bloq_pone" /\ tokens.arg \in Bloqueados
        /\ mano["interr"] \in Pids
    BY <1>17, <1>t DEF InterrBloqueaPone, Inductivo, ArgumentoValido, ManoLlena,
       HilosFijos
  <2>2. /\ colas'["exit"] = colas["exit"]
        /\ \A i \in Interfaz : \/ huerfana'[i] = huerfana[i]
                               \/ huerfana'[i] = Append(huerfana[i], mano["interr"])
    BY <1>17, <1>t, <2>1 DEF InterrBloqueaPone, Pone, PoneEnHuerfana,
       SchedulerTypeOK, Bloqueados
  <2>3. \A g \in Hilos \ {"interr"} : pc'[g] = pc[g]
    BY <1>17, <1>t DEF InterrBloqueaPone
  <2>4. \A i \in Interfaz : pc[i] \in SoltandoLista =>
           Primero(huerfana'[i]) = Primero(huerfana[i])
    <3> SUFFICES ASSUME NEW i \in Interfaz, pc[i] \in SoltandoLista,
                        huerfana'[i] = Append(huerfana[i], mano["interr"])
                 PROVE  Primero(huerfana'[i]) = Primero(huerfana[i])
      BY <2>2
    <3>1. huerfana[i] # << >> /\ huerfana[i] \in Seq(Pids)
      BY DEF Inductivo, IteracionValida, TypeOK, SchedulerTypeOK, SoltandoLista
    <3>2. huerfana'[i] # << >> /\ Head(huerfana'[i]) = Head(huerfana[i])
      BY <2>1, <3>1
    <3> QED
      BY <3>1, <3>2 DEF Primero
  <2> QED
    BY <1>17, <2>1, <2>2, <2>3, <2>4, <1>q DEF InterrBloqueaPone, Soltando
<1>18. CASE InterrAsigna
  BY <1>18, <1>t, <1>q DEF InterrAsigna, Soltando, AsignarRecursoAProceso, LiberarRecursoDeProceso
<1>19. CASE InterrCarga
  BY <1>19, <1>t, <1>q DEF InterrCarga, Soltando, CargaRecurso
<1>20. CASE InterrGuarda
  BY <1>20, <1>t, <1>q DEF InterrGuarda, Soltando, GuardaRecurso
<1>21. CASE InterrWaitBloquea
  BY <1>21, <1>t, <1>q DEF InterrWaitBloquea, Soltando
<1>22. CASE InterrSigueEnCPU
  BY <1>22, <1>t, <1>q DEF InterrSigueEnCPU, Soltando, VuelveALaCPU
<1>23. CASE InterrSignalDespierta
  BY <1>23, <1>t, <1>q DEF InterrSignalDespierta, Soltando
<1>24. CASE InterrSignalSaca
  <2>1. tokens.arg \in Recurso
    BY <1>24 DEF InterrSignalSaca, Inductivo, ArgumentoValido
  <2> QED
    BY <1>24, <1>t, <2>1, <1>q DEF InterrSignalSaca, Saca, SchedulerTypeOK,
       Soltando
<1>25. CASE InterrSignalNadie
  BY <1>25, <1>t, <1>q DEF InterrSignalNadie, Soltando, VuelveALaCPU
<1>26. CASE InterrSignalPone
  BY <1>26, <1>t, <1>q DEF InterrSignalPone, Soltando, VuelveALaCPU, Pone, SchedulerTypeOK
<1> QED
  BY <1>1, <1>2, <1>3, <1>4, <1>5, <1>6, <1>7, <1>8, <1>9, <1>10, <1>11,
     <1>12, <1>13, <1>14, <1>15, <1>16, <1>17, <1>18, <1>19, <1>20, <1>21,
     <1>22, <1>23, <1>24, <1>25, <1>26 DEF Interr

\* The handler.
LEMMA InterrSinCaida ==
  ASSUME Inductivo, Enlace, SinCaida, Interr, UNCHANGED << pcb_io, consVars >>
  PROVE  SinCaida'
<1>1. CASE InterrAvisaMemoria
  <2>1. /\ pc["interr"] = "fin_term" /\ UNCHANGED confirmaciones
        /\ pedidos' = Append(pedidos,
                             Pedido("MEMORY_PROCESS_TERM", proceso_ejecutando))
    BY <1>1 DEF InterrAvisaMemoria
  <2>2. proceso_ejecutando \in Pids
    BY <2>1 DEF Inductivo, ContextoPropio, AntesDeSacar, TypeOK, SchedulerTypeOK
  <2>3. PathsValidos'
    BY <2>1, <2>2, PathsQuietos DEF OpsMemoria, SinCaida
  <2> QED
    BY <2>3, InterrDiccionario, InterrNombres DEF SinCaida
<1>2. CASE ~ InterrAvisaMemoria
  <2>1. UNCHANGED << pedidos, confirmaciones >>
    BY <1>2 DEF Interr, InterrRecibe, InterrActiva, InterrReanuda, InterrAvisaMemoria, InterrLibera, InterrFinSaca, InterrFinPone, InterrAumentaMira, InterrAumentaResta, InterrRecursoInvalido, InterrDesalojaSaca, InterrDesalojaPone, InterrIO, InterrAgregaInstruccion, InterrBloqueaSaca, InterrBloqueaBusca, InterrBloqueaPone, InterrAsigna, InterrCarga, InterrGuarda, InterrWaitBloquea, InterrSigueEnCPU, InterrSignalDespierta, InterrSignalSaca, InterrSignalNadie, InterrSignalPone, VuelveALaCPU
  <2>2. PathsValidos'
    BY <2>1, PathsQuietos DEF SinCaida
  <2> QED
    BY <2>2, InterrDiccionario, InterrNombres DEF SinCaida
<1> QED
  BY <1>1, <1>2

\* The thread of an interface, which takes the dictionaries of those who were
\* blocked on it when it fails.
LEMMA InterfazSinCaida ==
  ASSUME Inductivo, SinCaida, NEW i \in Interfaz, Interf(i),
         UNCHANGED << tokens, consVars >>
  PROVE  SinCaida'
<1>t. /\ pc \in [Hilos -> Etiquetas] /\ SchedulerTypeOK
      /\ HilosFijos \subseteq Hilos /\ Interfaz \subseteq Hilos
      /\ Interfaz \cap HilosFijos = {}
      /\ {"new", "ready", "aux", "exit"} \subseteq Colas
      /\ Interfaz \subseteq Colas /\ Recurso \subseteq Colas
      /\ {"new", "exit"} \cap (Interfaz \cup Recurso) = {}
  BY DEF Inductivo, TypeOK, Hilos, Colas, Bloqueados
<1>q. ASSUME \A p \in Pids :
                Contains(colas["exit"], p) => Contains(colas'["exit"], p),
             \A g \in Hilos \ {i} : pc'[g] = pc[g] /\ mano'[g] = mano[g],
             \A g \in Interfaz \ {i} : huerfana'[g] = huerfana[g],
             pc[i] \notin SoltandoLista,
             con_recursos \subseteq con_recursos',
             interfaces \subseteq interfaces' \cup Desconexiones,
             UNCHANGED << proceso_ejecutando, pedidos, confirmaciones >>
      PROVE  SinCaida'
  <2>1. SiguenDespojados
    BY <1>t, <1>q, DespojadoQuieto DEF HilosFijos
  <2>2. ConDiccionario'
    BY <1>t, <1>q, <2>1, DiccionarioQuieto DEF HilosFijos, SinCaida
  <2>3. InterfazHallada' /\ FinPorRecurso'
    BY <1>t, <1>q, NombresQuietos DEF HilosFijos, SinCaida
  <2>4. PathsValidos'
    BY <1>q, PathsQuietos DEF SinCaida
  <2> QED
    BY <2>2, <2>3, <2>4 DEF SinCaida
<1>1. CASE InterfazConecta(i)
  BY <1>1, <1>t, <1>q DEF InterfazConecta, SoltandoLista
<1>2. CASE InterfazToma(i)
  BY <1>2, <1>t, <1>q DEF InterfazToma, SoltandoLista
<1>3. CASE InterfazEjecuta(i)
  BY <1>3, <1>t, <1>q DEF InterfazEjecuta, SoltandoLista
<1>4. CASE InterfazResponde(i)
  BY <1>4, <1>t, <1>q DEF InterfazResponde, SigueSiActiva, SoltandoLista
<1>5. CASE InterfazReanuda(i)
  BY <1>5, <1>t, <1>q DEF InterfazReanuda, SaleDePausa, SoltandoLista
<1>6. CASE InterfazSaca(i)
  BY <1>6, <1>t, <1>q DEF InterfazSaca, Saca, SchedulerTypeOK, SoltandoLista
<1>7. CASE InterfazSacaNadie(i)
  BY <1>7, <1>t, <1>q DEF InterfazSacaNadie, SoltandoLista
<1>8. CASE InterfazPone(i)
  BY <1>8, <1>t, <1>q DEF InterfazPone, Pone, SchedulerTypeOK, SoltandoLista
<1>9. CASE InterfazBorra(i)
  BY <1>9, <1>t, <1>q DEF InterfazBorra, SoltandoLista
<1>10. CASE InterfazFalla(i)
  BY <1>10, <1>t, <1>q DEF InterfazFalla, SoltandoLista
<1>11. CASE InterfazQuitaCola(i)
  BY <1>11, <1>t, <1>q DEF InterfazQuitaCola, SchedulerTypeOK, SoltandoLista
<1>12. CASE InterfazItera(i)
  BY <1>12, <1>t, <1>q DEF InterfazItera, SoltandoLista
<1>13. CASE InterfazLibera(i)
  <2>1. /\ colas'["exit"] = colas["exit"]
        /\ \A g \in Hilos \ {i} : pc'[g] = pc[g] /\ mano'[g] = mano[g]
        /\ pc[i] \in SoltandoLista \cup {"lib_dicc"}
        /\ pc'[i] \in SoltandoLista \cup {"lib_dicc"}
        /\ UNCHANGED << huerfana, proceso_ejecutando, interfaces, pedidos,
                        confirmaciones >>
    BY <1>13, <1>t, LiberarQuieto, LiberarColas
       DEF InterfazLibera, Etiquetas, SoltandoLista
  <2>2. pc'[i] = "lib_dicc" => pc[i] = "lib_dicc"
    BY <1>13, <1>t DEF InterfazLibera, LiberarRecursosDeProceso,
       LiberarSacaDiccionario, LiberarCarga, LiberarGuarda, LiberarMira,
       LiberarSaca, LiberarPone, LiberarTermina
  <2>3. pc[i] \in SoltandoLista => pc'[i] \in SoltandoLista
    BY <2>1, <2>2 DEF SoltandoLista
  <2>4. SiguenDespojados
    BY <1>t, <2>1, <2>3, DespojadoQuieto DEF HilosFijos
  <2>5. PICK x : x = Primero(huerfana[i])
    OBVIOUS
  <2>6. LiberarRecursosDeProceso(i, x, "avisa")
    BY <1>13, <2>5 DEF InterfazLibera
  <2>7. pc'[i] = "lib_carga" => Despojado(x)'
    BY <2>1, <2>5 DEF Despojado
  <2>8. ConDiccionario'
    BY <1>t, <2>1, <2>4, <2>6, <2>7, LiberarDiccionario
       DEF HilosFijos, Etiquetas, SinCaida
  <2>9. InterfazHallada' /\ FinPorRecurso'
    BY <1>t, <2>1, NombresQuietos DEF HilosFijos, SinCaida
  <2>10. PathsValidos'
    BY <2>1, PathsQuietos DEF SinCaida
  <2> QED
    BY <2>8, <2>9, <2>10 DEF SinCaida
<1>14. CASE InterfazAvisaMemoria(i)
  <2>1. /\ pc[i] = "avisa" /\ pc'[i] = "exit"
        /\ \A g \in Hilos \ {i} : pc'[g] = pc[g]
        /\ pedidos' = Append(pedidos,
                             Pedido("MEMORY_PROCESS_TERM", Head(huerfana[i])))
        /\ UNCHANGED << schedVars, confirmaciones, con_recursos, interfaces >>
    BY <1>14, <1>t DEF InterfazAvisaMemoria
  <2>2. huerfana[i] # << >> /\ huerfana[i] \in Seq(Pids)
    BY <2>1 DEF Inductivo, IteracionValida, TypeOK, SchedulerTypeOK
  <2>3. SiguenDespojados
    BY <1>t, <2>1, DespojadoQuieto DEF HilosFijos, SoltandoLista
  <2>4. ConDiccionario'
    BY <1>t, <2>1, <2>3, DiccionarioQuieto DEF HilosFijos, SinCaida
  <2>5. InterfazHallada' /\ FinPorRecurso'
    BY <1>t, <2>1, NombresQuietos DEF HilosFijos, SinCaida
  <2>6. Head(huerfana[i]) \in Pids
    BY <2>2
  <2>7. PathsValidos'
    BY <2>1, <2>6, PathsQuietos DEF OpsMemoria, SinCaida
  <2> QED
    BY <2>4, <2>5, <2>7 DEF SinCaida
<1>15. CASE InterfazAExit(i)
  <2>1. /\ colas'["exit"] = Append(colas["exit"], Head(huerfana[i]))
        /\ \A g \in Hilos \ {i} : pc'[g] = pc[g]
        /\ \A g \in Interfaz \ {i} : huerfana'[g] = huerfana[g]
        /\ pc[i] = "exit"
        /\ UNCHANGED << mano, proceso_ejecutando, memVars, con_recursos,
                        interfaces >>
    BY <1>15, <1>t DEF InterfazAExit, SchedulerTypeOK
  <2>2. /\ huerfana[i] # << >> /\ huerfana[i] \in Seq(Pids)
        /\ colas["exit"] \in Seq(Pids)
    BY <1>t, <2>1 DEF Inductivo, IteracionValida, SchedulerTypeOK
  <2>3. \A p : Contains(colas'["exit"], p)
               <=> Contains(colas["exit"], p) \/ p = Head(huerfana[i])
    BY <2>1, <2>2, AppendLista
  <2>4. SiguenDespojados
    <3> SUFFICES ASSUME NEW p \in Pids, Despojado(p)
                 PROVE  Despojado(p)'
      BY DEF SiguenDespojados
    <3>1. CASE Contains(colas["exit"], p) \/ Primero(huerfana[i]) = p
      BY <2>2, <2>3, <3>1 DEF Despojado, Liberado, Primero
    <3>2. CASE pc["interr"] \in Soltando /\ proceso_ejecutando = p
      BY <1>t, <2>1, <3>2 DEF Despojado, Liberado, Soltando, HilosFijos
    <3>3. CASE pc["interr"] = "fin_pone" /\ mano["interr"] = p
      BY <1>t, <2>1, <3>3 DEF Despojado, Liberado, HilosFijos
    <3>4. CASE \E g \in Interfaz \ {i} :
                  pc[g] \in SoltandoLista /\ Primero(huerfana[g]) = p
      BY <1>t, <2>1, <3>4 DEF Despojado, SoltandoLista
    <3> QED
      BY <3>1, <3>2, <3>3, <3>4 DEF Despojado, Liberado, Soltando, SoltandoLista
  <2>5. ConDiccionario'
    BY <1>t, <2>1, <2>4, DiccionarioQuieto DEF HilosFijos, SinCaida
  <2>6. InterfazHallada' /\ FinPorRecurso'
    BY <1>t, <2>1, NombresQuietos DEF HilosFijos, SinCaida
  <2>7. PathsValidos'
    BY <2>1, PathsQuietos DEF SinCaida
  <2> QED
    BY <2>5, <2>6, <2>7 DEF SinCaida
<1>16. CASE InterfazIteraFin(i)
  BY <1>16, <1>t, <1>q DEF InterfazIteraFin, SoltandoLista
<1> QED
  BY <1>1, <1>2, <1>3, <1>4, <1>5, <1>6, <1>7, <1>8, <1>9, <1>10, <1>11,
     <1>12, <1>13, <1>14, <1>15, <1>16 DEF Interf

\* The console: the process it creates is the last one, without a dictionary
\* until it gives it one.
LEMMA ConsolaSinCaida ==
  ASSUME Inductivo, SinCaida, "FINALIZAR_PROCESO" \notin Comandos,
         pc["consola"] \in SinFin, Orden \/ Ejecuta,
         UNCHANGED << tokens, pcb_io >>
  PROVE  SinCaida'
<1>t. /\ pc \in [Hilos -> Etiquetas] /\ SchedulerTypeOK
      /\ HilosFijos \subseteq Hilos /\ Interfaz \subseteq Hilos
      /\ Interfaz \cap HilosFijos = {}
      /\ {"new", "ready", "aux", "exit"} \subseteq Colas
      /\ con_recursos \in SUBSET Pids
  BY DEF Inductivo, TypeOK, Hilos, Colas, Bloqueados, RecursosTypeOK
<1>n. /\ numero_de_procesos \in Nat /\ numero_de_procesos <= MaxProcesos
      /\ MaxProcesos \in Nat /\ Pids = 1 .. MaxProcesos
  BY AdmisionTipos
<1>d. ASSUME colas'["exit"] = colas["exit"],
             \A g \in Hilos \ {"consola", "largo"} :
                pc'[g] = pc[g] /\ mano'[g] = mano[g],
             UNCHANGED << huerfana, proceso_ejecutando >>
      PROVE  SiguenDespojados
  BY <1>t, <1>d, DespojadoQuieto DEF HilosFijos
<1>r. ASSUME SiguenDespojados, ConDiccionario', pc'["interr"] = pc["interr"],
             UNCHANGED interfaces,
             \/ UNCHANGED << pedidos, confirmaciones >>
             \/ \E op \in OpsMemoria, p \in Pids :
                   /\ op = "PATH_INEXISTENTE" => "PATH_INEXISTENTE" \in Comandos
                   /\ pedidos' = Append(pedidos, Pedido(op, p))
                   /\ UNCHANGED confirmaciones
      PROVE  SinCaida'
  <2>1. InterfazHallada' /\ FinPorRecurso'
    BY <1>r, NombresQuietos DEF SinCaida
  <2>2. PathsValidos'
    BY <1>r, PathsQuietos DEF SinCaida
  <2> QED
    BY <1>r, <2>1, <2>2 DEF SinCaida
<1>q. ASSUME UNCHANGED << schedVars, numero_de_procesos, memVars, interfaces,
                          con_recursos >>,
             \A g \in Hilos \ {"consola"} : pc'[g] = pc[g],
             pc["consola"] \notin {"a_new", "dicc_nuevo"}
      PROVE  SinCaida'
  <2>1. SiguenDespojados
    BY <1>t, <1>q, <1>d
  <2>2. ConDiccionario'
    BY <1>q, <2>1, DiccionarioQuieto DEF SinCaida
  <2> QED
    BY <1>t, <1>q, <1>r, <2>1, <2>2 DEF HilosFijos
<1>1. ASSUME NEW op \in {"MEMORY_PROCESS_CREATE", "PATH_INEXISTENTE"},
             op = "PATH_INEXISTENTE" => "PATH_INEXISTENTE" \in Comandos,
             PideCreacion(op), pc["consola"] = "comando"
      PROVE  SinCaida'
  <2>1. /\ \A g \in Hilos \ {"consola"} : pc'[g] = pc[g] /\ mano'[g] = mano[g]
        /\ UNCHANGED << colas, huerfana, proceso_ejecutando, con_recursos,
                        interfaces, confirmaciones >>
        /\ pc'["consola"] = "a_new" /\ numero_de_procesos < MaxProcesos
        /\ numero_de_procesos' = numero_de_procesos + 1
    BY <1>1, <1>t DEF PideCreacion, SchedulerTypeOK, HilosFijos
  <2>2. SiguenDespojados
    BY <1>d, <2>1
  <2>3. ConDiccionario'
    <3> SUFFICES ASSUME NEW p \in Creados', p \notin con_recursos
                 PROVE  p = numero_de_procesos' \/ Despojado(p)'
      BY <2>1 DEF ConDiccionario
    <3>1. p \in Creados \/ p = numero_de_procesos'
      BY <1>n, <2>1 DEF Creados
    <3>2. ASSUME p \in Creados
          PROVE  Despojado(p)
      BY <1>1, <3>2 DEF SinCaida, ConDiccionario
    <3>3. p \in Creados => p \in Pids
      BY <1>n DEF Creados
    <3> QED
      BY <2>2, <3>1, <3>2, <3>3 DEF SiguenDespojados
  <2>4. PICK x : x = numero_de_procesos'
    OBVIOUS
  <2>5. x \in Pids /\ pedidos' = Append(pedidos, Pedido(op, x))
    BY <1>1, <1>n, <2>1, <2>4 DEF PideCreacion
  <2> QED
    BY <1>1, <1>t, <1>r, <2>1, <2>2, <2>3, <2>5 DEF HilosFijos, OpsMemoria
<1>2. CASE IniciarProceso \/ IniciarProcesoSinPath
  BY <1>1, <1>2 DEF IniciarProceso, IniciarProcesoSinPath, Lee
<1>3. CASE DetenerPlanificacion \/ IniciarPlanificacion
  BY <1>3, <1>t, <1>q DEF DetenerPlanificacion, IniciarPlanificacion, Lee
<1>4. CASE Multiprogramacion
  BY <1>4, <1>t, <1>q DEF Multiprogramacion, Lee, HilosFijos
<1>5. CASE ProcesoAColaNew
  <2>1. /\ \A g \in Hilos \ {"consola", "largo"} :
              pc'[g] = pc[g] /\ mano'[g] = mano[g]
        /\ colas'["exit"] = colas["exit"] /\ pc'["consola"] = "dicc_nuevo"
        /\ UNCHANGED << huerfana, proceso_ejecutando, numero_de_procesos,
                        con_recursos, interfaces, pedidos, confirmaciones >>
    BY <1>5, <1>t DEF ProcesoAColaNew, Pone, SchedulerTypeOK, HilosFijos
  <2>2. SiguenDespojados
    BY <1>d, <2>1
  <2>3. ConDiccionario'
    BY <2>1, <2>2, DiccionarioQuieto DEF SinCaida
  <2> QED
    BY <1>t, <1>r, <2>1, <2>2, <2>3 DEF HilosFijos
<1>6. CASE ConsolaInicializaRecursos
  <2>1. /\ \A g \in Hilos \ {"consola"} : pc'[g] = pc[g]
        /\ pc'["consola"] = "comando"
        /\ con_recursos' = con_recursos \cup {numero_de_procesos}
        /\ UNCHANGED << schedVars, numero_de_procesos, interfaces, pedidos,
                        confirmaciones >>
    BY <1>6, <1>t DEF ConsolaInicializaRecursos, InicializarRecursosProceso,
       HilosFijos
  <2>2. SiguenDespojados
    BY <1>d, <2>1
  <2>3. ConDiccionario'
    <3> SUFFICES ASSUME NEW p \in Creados, p \notin con_recursos'
                 PROVE  Despojado(p)'
      BY <2>1 DEF ConDiccionario, Creados
    <3>1. p \in Pids /\ p \notin con_recursos /\ p # numero_de_procesos
      BY <1>n, <2>1 DEF Creados
    <3>2. Despojado(p)
      BY <3>1 DEF SinCaida, ConDiccionario
    <3> QED
      BY <2>2, <3>1, <3>2 DEF SiguenDespojados
  <2> QED
    BY <1>t, <1>r, <2>1, <2>2, <2>3 DEF HilosFijos
<1>7. CASE CambiaGrado
  BY <1>7, <1>t, <1>q DEF CambiaGrado, HilosFijos
<1>8. ~ FinalizarProceso
  BY DEF FinalizarProceso, Lee
<1>9. /\ ~ FinalizarEnExec /\ ~ FinalizarAvisaMemoria
  BY DEF FinalizarEnExec, FinalizarAvisaMemoria, SinFin
<1>10. ~ FinalizarLibera
  BY <1>t, LiberarQuieto DEF FinalizarLibera, SinFin, Etiquetas, HilosFijos
<1>11. ASSUME NEW k \in 1 .. 4
       PROVE  ~ FinalizarEncuentra(k) /\ ~ FinalizarNoEncuentra(k)
                 /\ ~ FinalizarAExit(k)
  BY DEF FinalizarEncuentra, FinalizarNoEncuentra, FinalizarAExit, EtapaFin,
     EtapaExit, SinFin
<1> QED
  BY <1>2, <1>3, <1>4, <1>5, <1>6, <1>7, <1>8, <1>9, <1>10, <1>11
     DEF Orden, Ejecuta

\* Every step of the kernel.
LEMMA PasoSinCaida ==
  ASSUME Inductivo, Enlace, SinCaida, "FINALIZAR_PROCESO" \notin Comandos,
         pc["consola"] \in SinFin, [Next]_vars
  PROVE  SinCaida'
<1>t. \A i \in Interfaz : i \in Hilos
  BY DEF Hilos
<1>q. ASSUME UNCHANGED << pc, schedVars, con_recursos, tokens, interfaces,
                          numero_de_procesos >>,
             PathsValidos'
      PROVE  SinCaida'
  <2>1. SiguenDespojados
    BY <1>q, DespojadoQuieto
  <2>2. ConDiccionario'
    BY <1>q, <2>1, DiccionarioQuieto DEF SinCaida
  <2>3. InterfazHallada' /\ FinPorRecurso'
    BY <1>q, NombresQuietos DEF SinCaida
  <2> QED
    BY <1>q, <2>2, <2>3 DEF SinCaida
<1>1. CASE PasoLargo
  BY <1>1, LargoSinCaida DEF PasoLargo
<1>2. CASE PasoCorto
  BY <1>2, CortoSinCaida DEF PasoCorto
<1>3. CASE PasoInterr
  BY <1>3, InterrSinCaida DEF PasoInterr
<1>4. CASE \E i \in Interfaz : PasoInterfaz(i)
  BY <1>4, InterfazSinCaida DEF PasoInterfaz
<1>5. CASE PasoOrden \/ PasoConsola
  BY <1>5, ConsolaSinCaida DEF PasoOrden, PasoConsola
<1>6. CASE PasoMemoria
  <2>1. PathsValidos'
    BY <1>6, PathsQuietos DEF PasoMemoria, SinCaida
  <2> QED
    BY <1>6, <1>q, <2>1 DEF PasoMemoria, MemoriaAtiende, kernelVars
<1>7. CASE PasoCPU \/ PasoOrdenPerdida
  <2>1. UNCHANGED << pc, schedVars, con_recursos, tokens, interfaces,
                     numero_de_procesos, pedidos, confirmaciones >>
    BY <1>7 DEF PasoCPU, PasoOrdenPerdida, CPUTermina, CPULlama, CPUDesaloja,
       CPUInterrumpe, CPUOlvidaOrden, kernelVars
  <2>2. PathsValidos'
    BY <2>1, PathsQuietos DEF SinCaida
  <2> QED
    BY <1>q, <2>1, <2>2
<1>8. CASE Reposo \/ UNCHANGED vars
  <2>1. UNCHANGED << pc, schedVars, con_recursos, tokens, interfaces,
                     numero_de_procesos, pedidos, confirmaciones >>
    BY <1>8 DEF Reposo, vars
  <2>2. PathsValidos'
    BY <2>1, PathsQuietos DEF SinCaida
  <2> QED
    BY <1>q, <2>1, <2>2
<1> QED
  BY <1>1, <1>2, <1>3, <1>4, <1>5, <1>6, <1>7, <1>8 DEF Next

(* The deaths. *)

\* The long term scheduler dies on a path the memory refused.
LEMMA LargoCae ==
  ASSUME Inductivo, NuevosEnOrden, SinCaida, ~ caido, Largo, UNCHANGED otras,
         caido'
  PROVE  CaidaConocida'
<1>1. CASE LargoConfirma
  <2>1. /\ pc["largo"] = "conf" /\ UNCHANGED pc /\ confirmaciones # << >>
        /\ Head(confirmaciones) = "MEMORY_INVALID_PATH"
    BY <1>1 DEF LargoConfirma
  <2>2. confirmaciones[1] = "MEMORY_INVALID_PATH"
        /\ 1 \in 1 .. Len(confirmaciones)
    BY <2>1, AdmisionTipos
  <2>3. "PATH_INEXISTENTE" \in Comandos
    BY <2>2 DEF SinCaida, PathsValidos
  <2> QED
    BY <2>1, <2>3 DEF CaidaConocida
<1>2. ~ LargoSacaNada
  BY DEF LargoSacaNada, NuevosEnOrden
<1>3. CASE ~ LargoConfirma
  BY <1>2, <1>3 DEF Largo, LargoTomaCupo, LargoReanuda, LargoEsperaNew,
     LargoSaca, LargoPone, LargoCuenta
<1> QED
  BY <1>1, <1>3

\* A thread that releases a process dies where it has no dictionary.
LEMMA LiberaCae ==
  ASSUME NEW h, NEW p, NEW dest, LiberarRecursosDeProceso(h, p, dest),
         ~ caido, caido'
  PROVE  pc[h] = "lib_dicc" /\ p \notin con_recursos /\ UNCHANGED << pc, schedVars >>
BY DEF LiberarRecursosDeProceso, LiberarSacaDiccionario, LiberarCarga,
   LiberarGuarda, LiberarMira, LiberarSaca, LiberarPone, LiberarTermina

\* The handler.
LEMMA InterrCae ==
  ASSUME Inductivo, Ubicacion, Enlace, NuevosEnOrden, SinCaida, ~ caido, Interr,
         UNCHANGED << pcb_io, consVars >>, caido'
  PROVE  CaidaConocida'
<1>t. /\ pc \in [Hilos -> Etiquetas] /\ SchedulerTypeOK
      /\ HilosFijos \subseteq Hilos /\ Interfaz \subseteq Hilos
      /\ Interfaz \cap HilosFijos = {}
      /\ recibidos \in Seq(Contexto) /\ interfaces \in SUBSET Interfaz
      /\ Bloqueados \subseteq Colas
  BY DEF Inductivo, TypeOK, Hilos, Colas, ConexionesTypeOK
<1>d. ASSUME pc["interr"] \in {"lib_dicc", "asigna"},
             pc["interr"] = "asigna" => tokens.op = "SIGNAL" /\ UNCHANGED tokens,
             proceso_ejecutando \notin con_recursos,
             UNCHANGED << pc, proceso_ejecutando, numero_de_procesos >>
      PROVE  CaidaConocida'
  <2>1. proceso_ejecutando \in Pids
    BY <1>d DEF Inductivo, ContextoPropio, AntesDeSacar, TypeOK, SchedulerTypeOK
  <2>2. << "exec", "exec" >> \in Sitios
        /\ Esta(proceso_ejecutando, << "exec", "exec" >>)
    BY SonSitios DEF Esta
  <2>3. PICK p \in Pids \ con_recursos : p = proceso_ejecutando
    BY <1>d, <2>1
  <2>4. PICK l \in Sitios : l = << "exec", "exec" >>
    BY <2>2
  <2>5. Esta(p, l)
    BY <2>2, <2>3, <2>4
  <2>6. pc["consola"] = "dicc_nuevo" /\ p = numero_de_procesos
    BY <1>d, <2>4, <2>5, SinDiccionario DEF SinCaida
  <2> QED
    BY <1>d, <2>3, <2>6 DEF CaidaConocida
<1>1. CASE InterrRecibe
  <2>1. recibidos # << >>
    BY <1>1 DEF InterrRecibe
  <2>2. 1 \in 1 .. Len(recibidos) /\ Head(recibidos) = recibidos[1]
    BY <1>t, <2>1
  <2>3. Head(recibidos).pid = proceso_ejecutando
    BY <2>2 DEF Inductivo, ContextoPropio
  <2>4. VRR_modo /\ pc'["interr"] = "activa"
    BY <1>1, <1>t, <2>3 DEF InterrRecibe, DestruyeTiempo, HilosFijos
  <2> QED
    BY <2>4 DEF CaidaConocida
<1>2. CASE InterrLibera
  <2>1. PICK x : x = proceso_ejecutando
    OBVIOUS
  <2>2. LiberarRecursosDeProceso("interr", x, "fin_saca")
    BY <1>2, <2>1 DEF InterrLibera
  <2>3. pc["interr"] = "lib_dicc" /\ x \notin con_recursos
        /\ UNCHANGED << pc, proceso_ejecutando >>
    BY <2>2, LiberaCae
  <2> QED
    BY <1>d, <2>1, <2>3
<1>3. CASE InterrAsigna
  <2>1. /\ pc["interr"] = "asigna" /\ UNCHANGED << pc, schedVars, tokens >>
        /\ tokens.op = "SIGNAL" /\ proceso_ejecutando \notin con_recursos
    BY <1>3 DEF InterrAsigna
  <2> QED
    BY <1>d, <2>1
<1>4. CASE InterrRecursoInvalido
  <2>1. /\ pc["interr"] = "invalido" /\ UNCHANGED << pc, tokens >>
    BY <1>4 DEF InterrRecursoInvalido
  <2>2. tokens.op \in {"WAIT", "SIGNAL"}
    BY <2>1 DEF SinCaida, FinPorRecurso
  <2>3. tokens.arg \notin Recurso
    BY <2>1, <2>2 DEF SinCaida, FinPorRecurso
  <2> QED
    BY <2>1, <2>3 DEF CaidaConocida
<1>5. CASE InterrAgregaInstruccion
  <2>1. /\ pc["interr"] = "agrega" /\ UNCHANGED << pc, tokens, interfaces >>
        /\ tokens.arg \notin interfaces
    BY <1>5 DEF InterrAgregaInstruccion
  <2>2. tokens.op = "IO"
    BY <2>1 DEF Enlace, OperacionDeIO
  <2>3. tokens.arg \in Desconexiones \ interfaces
    BY <2>1, <2>2 DEF SinCaida, InterfazHallada
  <2> QED
    BY <2>1, <2>3 DEF CaidaConocida
<1>6. CASE InterrBloqueaPone
  <2>1. PICK i : i = tokens.arg
    OBVIOUS
  <2>2. /\ pc["interr"] = "bloq_pone" /\ tokens.op = "IO" /\ i \notin interfaces
        /\ pc'["interr"] = "espera" /\ UNCHANGED interfaces
    BY <1>6, <1>t, <2>1 DEF InterrBloqueaPone, HilosFijos
  <2>3. i \in Desconexiones \ interfaces /\ i \in Interfaz
    BY <2>1, <2>2 DEF SinCaida, InterfazHallada
  <2>4. mano["interr"] \in Pids
    BY <1>t, <2>2 DEF Inductivo, ManoLlena, HilosFijos
  <2>5. colas[i] \in Seq(Pids) /\ huerfana[i] \in Seq(Pids) /\ i \in Colas
    BY <1>t, <2>3 DEF SchedulerTypeOK, Bloqueados
  <2>6. \/ colas'[i] = Append(colas[i], mano["interr"])
        \/ huerfana'[i] = Append(huerfana[i], mano["interr"])
    BY <1>6, <1>t, <2>1, <2>3, <2>5 DEF InterrBloqueaPone, Pone, PoneEnHuerfana,
       SchedulerTypeOK
  <2>7. colas'[i] # << >> \/ huerfana'[i] # << >>
    BY <2>4, <2>5, <2>6
  <2> QED
    BY <2>2, <2>3, <2>7 DEF CaidaConocida
<1>7. ~ (\/ InterrActiva \/ InterrReanuda
         \/ InterrAvisaMemoria \/ InterrFinSaca \/ InterrFinPone
         \/ InterrAumentaMira \/ InterrAumentaResta
         \/ InterrDesalojaSaca \/ InterrDesalojaPone
         \/ InterrIO \/ InterrCarga \/ InterrGuarda
         \/ InterrWaitBloquea \/ InterrSigueEnCPU \/ InterrSignalDespierta
         \/ InterrSignalSaca \/ InterrSignalNadie \/ InterrSignalPone)
  BY DEF InterrActiva, InterrReanuda, InterrAvisaMemoria, InterrFinSaca,
     InterrFinPone, InterrAumentaMira, InterrAumentaResta, InterrDesalojaSaca,
     InterrDesalojaPone, InterrIO, InterrCarga, InterrGuarda, InterrWaitBloquea, InterrSigueEnCPU,
     InterrSignalDespierta, InterrSignalSaca, InterrSignalNadie,
     InterrSignalPone, VuelveALaCPU
<1>8. CASE InterrBloqueaSaca
  <2>1. /\ pc'["interr"] = "bloq_busca" /\ UNCHANGED << tokens, instrucciones >>
        /\ mano'["interr"] = proceso_ejecutando
    BY <1>8, <1>t DEF InterrBloqueaSaca, SacaDeExec, HilosFijos, SchedulerTypeOK,
       conVars, ioVars
  <2>2. tokens.op = "IO" /\ proceso_ejecutando \notin instrucciones
    BY <1>8 DEF InterrBloqueaSaca, LeeNombre, LeeInstruccion
  <2> QED
    BY <2>1, <2>2 DEF CaidaConocida
<1>9. CASE InterrBloqueaBusca
  <2>1. /\ pc'["interr"] = "bloq_pone"
        /\ UNCHANGED << tokens, instrucciones, mano >>
    BY <1>9, <1>t DEF InterrBloqueaBusca, HilosFijos, conVars, ioVars
  <2>2. tokens.op = "IO" /\ mano["interr"] \notin instrucciones
    BY <1>9 DEF InterrBloqueaBusca, LeeNombre, LeeInstruccion
  <2> QED
    BY <2>1, <2>2 DEF CaidaConocida
<1> QED
  BY <1>1, <1>2, <1>3, <1>4, <1>5, <1>6, <1>7, <1>8, <1>9 DEF Interr

\* The thread of an interface: its queue is not empty when it looks at it.
LEMMA InterfazCae ==
  ASSUME Inductivo, Ubicacion, IOExacta, NuevosEnOrden, SinCaida, ~ caido,
         NEW i \in Interfaz, Interf(i), UNCHANGED << tokens, consVars >>, caido'
  PROVE  CaidaConocida'
<1>1. ~ InterfazToma(i)
  <2>1. SUFFICES ASSUME pc[i] = "espera", sem_IO_ejecucion[i] > 0,
                        colas[i] = << >>
                 PROVE  FALSE
    BY DEF InterfazToma
  <2>2. sem_IO_ejecucion[i] \in Nat
    BY DEF Inductivo, TypeOK, SemaforosTypeOK
  <2>3. sem_IO_ejecucion[i] + 0 = 0
    BY <2>1 DEF IOExacta, Caidas, Uno
  <2> QED
    BY <2>1, <2>2, <2>3
<1>2. CASE InterfazEjecuta(i)
  BY <1>2 DEF InterfazEjecuta, CaidaConocida
<1>3. CASE InterfazLibera(i)
  <2>1. PICK x : x = Primero(huerfana[i])
    OBVIOUS
  <2>2. LiberarRecursosDeProceso(i, x, "avisa")
    BY <1>3, <2>1 DEF InterfazLibera
  <2>3. pc[i] = "lib_dicc" /\ x \notin con_recursos /\ UNCHANGED << pc, huerfana >>
    BY <2>2, LiberaCae
  <2>4. huerfana[i] # << >> /\ huerfana[i] \in Seq(Pids)
    BY <2>3 DEF Inductivo, IteracionValida, TypeOK, SchedulerTypeOK
  <2>5. x \in Pids /\ Contains(huerfana[i], x)
    BY <2>1, <2>4 DEF Primero, Contains
  <2>6. PICK l \in Sitios : l = << "huerfana", i >>
    BY SonSitios
  <2>7. Esta(x, l)
    BY <2>5, <2>6 DEF Esta
  <2>8. pc["consola"] = "dicc_nuevo" /\ x = numero_de_procesos
    BY <2>3, <2>5, <2>6, <2>7, SinDiccionario DEF SinCaida
  <2> QED
    BY <2>1, <2>3, <2>8 DEF CaidaConocida
<1>4. ~ (\/ InterfazConecta(i) \/ InterfazReanuda(i)
         \/ InterfazSaca(i) \/ InterfazSacaNadie(i) \/ InterfazPone(i)
         \/ InterfazBorra(i) \/ InterfazQuitaCola(i)
         \/ InterfazItera(i) \/ InterfazAvisaMemoria(i) \/ InterfazAExit(i)
         \/ InterfazIteraFin(i))
  BY DEF InterfazConecta, InterfazReanuda, InterfazSaca,
     InterfazSacaNadie, InterfazPone, InterfazBorra,
     InterfazQuitaCola, InterfazItera, InterfazAvisaMemoria, InterfazAExit,
     InterfazIteraFin
<1>5. CASE InterfazResponde(i) \/ InterfazFalla(i)
  <2>1. /\ pcb_io[i] \notin instrucciones /\ UNCHANGED << pcb_io, instrucciones >>
        /\ \/ pc' = [pc EXCEPT ![i] = "pausa"]
           \/ pc' = [pc EXCEPT ![i] = "saca"]
           \/ pc' = [pc EXCEPT ![i] = "quita_cola"]
    BY <1>5 DEF InterfazResponde, InterfazFalla, LeeInstruccion, SigueSiActiva,
       Sigue, conVars, ioVars
  <2>2. pc'[i] \in {"instr", "saca", "pausa", "quita_cola"}
    BY <2>1 DEF Inductivo, TypeOK, Hilos
  <2> QED
    BY <2>1, <2>2 DEF CaidaConocida
<1> QED
  BY <1>1, <1>2, <1>3, <1>4, <1>5 DEF Interf

\* No other step is the last one, and none follows it.
LEMMA PasoCaida ==
  ASSUME Inductivo, Ubicacion, Enlace, IOExacta, NuevosEnOrden, SinCaida,
         CaidaConocida, "FINALIZAR_PROCESO" \notin Comandos,
         pc["consola"] \in SinFin, [Next]_vars
  PROVE  CaidaConocida'
<1>1. CASE ~ caido'
  BY <1>1 DEF CaidaConocida
<1>2. CASE Reposo \/ UNCHANGED vars
  <2>1. UNCHANGED << pc, caido, proceso_ejecutando, mano, colas, huerfana,
                     numero_de_procesos, tokens, pcb_io, instrucciones,
                     interfaces >>
    BY <1>2 DEF Reposo, vars, schedVars, conVars, ioVars, otras, consVars
  <2> QED
    BY <2>1 DEF CaidaConocida
<1>3. CASE caido' /\ PasoLargo
  BY <1>3, LargoCae DEF PasoLargo
<1>4. CASE caido' /\ PasoInterr
  BY <1>4, InterrCae DEF PasoInterr
<1>5. CASE caido' /\ \E i \in Interfaz : PasoInterfaz(i)
  BY <1>5, InterfazCae DEF PasoInterfaz
<1>6. PasoCorto => ~ caido'
  BY DEF PasoCorto, Corto, CortoToma, CortoReanuda, CortoElige, CortoSacaAux,
     CortoSacaReady, CortoDespacha
<1>7. PasoOrden => ~ caido'
  BY DEF PasoOrden, Orden, IniciarProceso, IniciarProcesoSinPath, PideCreacion,
     DetenerPlanificacion, IniciarPlanificacion, Multiprogramacion,
     FinalizarProceso
<1>8. PasoConsola => ~ caido'
  <2>1. ~ FinalizarLibera
    BY LiberarQuieto DEF FinalizarLibera, SinFin, Etiquetas, HilosFijos,
       Hilos, Inductivo, TypeOK
  <2> QED
    BY <2>1 DEF PasoConsola, Ejecuta, ProcesoAColaNew, ConsolaInicializaRecursos,
       CambiaGrado, FinalizarEnExec, FinalizarEncuentra, FinalizarNoEncuentra,
       FinalizarAExit, FinalizarAvisaMemoria
<1>9. PasoMemoria \/ PasoCPU \/ PasoOrdenPerdida => ~ caido'
  BY DEF PasoMemoria, PasoCPU, PasoOrdenPerdida, MemoriaAtiende, CPUTermina,
     CPULlama, CPUDesaloja, CPUInterrumpe, CPUOlvidaOrden, kernelVars
<1> QED
  BY <1>1, <1>2, <1>3, <1>4, <1>5, <1>6, <1>7, <1>8, <1>9 DEF Next

\* Nothing has been created, handled or asked for yet.
LEMMA InitCaida ==
  ASSUME Init
  PROVE  SinCaida /\ CaidaConocida
<1>1. /\ numero_de_procesos = 0 /\ caido = FALSE /\ pc["interr"] = "espera"
      /\ pedidos = << >> /\ confirmaciones = << >>
  BY DEF Init, InitSemaforos, InitScheduler, InitRecursos, InitConexiones,
     Hilos, HilosFijos
<1>2. Creados = {}
  BY <1>1 DEF Creados
<1>3. Len(pedidos) = 0 /\ Len(confirmaciones) = 0
  BY <1>1
<1> QED
  BY <1>1, <1>2, <1>3 DEF SinCaida, ConDiccionario, InterfazHallada,
     FinPorRecurso, PathsValidos, CaidaConocida
=============================================================================
