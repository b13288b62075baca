# A TLA+ model of the C scheduling simulator

The repository is a distributed operating-system simulator in C (Linux, pthreads,
POSIX semaphores, TCP sockets, the `so-commons` library): four programs that talk to each
other over sockets, `kernel`, `cpu`, `memoria` and `entradasalida`, and a static library
`utils`. This directory models what makes it hard: the kernel's threads and queues, the
instruction cycle of the CPU with its MMU and TLB, the memory's frames, the file
system of the DIALFS interfaces, how the four programs find each other and come down, and
what all of it together promises to a program: a machine of its own. Names of modules, variables and actions follow the source,
which is in Spanish.

1. [Inventory](#1-inventory) 2. [Modules](#2-modules) 3. [How the models were
written](#3-how-the-models-are-written) 4. [Runs and bounds](#4-runs-and-bounds)
5. [Fairness](#5-fairness-and-liveness) 6. [Proofs](#6-proofs) 7. [What the checks found](#7-what-the-checks-found)
8. [Not modelled](#8-what-is-not-modelled) 9. [Plan](#9-plan)

## 1. Inventory

| part | source | state | operations | what makes it correct |
|---|---|---|---|---|
| threads and semaphores of the kernel | `kernel/src/semaforos.c`, `main.c` | `sem_dispatch`, `sem_interrupcion`, `sem_multiprogramacion_ready`, `sem_hay_encolado_VRR`, one semaphore per interface, one per thread that can be stopped, the planning flag, the count of processes, the degree | post and wait from ten places | the CPU's turn is neither lost nor doubled; the tokens of the degree balance; the count of the ready queues is exact |
| process queues | `scheduler.c` | NEW, READY, `cola_aux_blocked` (VRR), EXIT, a list per interface and per resource, `proceso_ejecutando` | pop and push, each under its own mutex | a process is in one place only |
| resources | `recursos.c` | instances, and a dictionary per process | WAIT, SIGNAL, release at the end | no instance is made up or lost; one holder per instance |
| long term scheduler | `planificador_largo_plazo.c` | none of its own | admits NEW -> READY after the memory's confirmation; changes the degree | only what the memory has created is admitted, within the degree |
| short term scheduler | `planificador_corto_plazo.c` | the quantum thread | dispatches, FIFO/RR/VRR | never over a running process |
| handler of contexts | `manejo_interrupciones_cpu.c` | the decoded call | nine kinds of context | the context is that of the process in EXEC; every path gives the CPU's turn on |
| interface threads | `kernel_interface_handler.c` | instruction per process | connection, answer, failure | a process that asked for I/O is woken or ended, once |
| console | `consola.c` | last pid | INICIAR_PROCESO, FINALIZAR_PROCESO, DETENER/INICIAR_PLANIFICACION, MULTIPROGRAMACION | commands interleave safely with all the others |
| CPU cycle | `cpu/src/servers.c`, `instruccion.c` | pcb, instruction, the shared interruption | fetch, decode, execute, check of the interruption; interrupt thread | one context for each pcb |
| MMU and TLB | `mmu.c`, `tlb.c` | the list of entries | translation, FIFO and LRU replacement | an entry says what the page table says |
| memory | `memoria/src/main.c`, `manejar_instrucciones.c` | page tables, bitmap of frames, user space | create, end, resize, page access, read, write | a frame has one owner, none is lost |
| memory, for interfaces | `memory_interface_handler.c` | a thread per connection | accepting, reads and writes by physical address | an interface touches the frames of its process only |
| DIALFS | `entradasalida/src/dialfs.c` | bitmap, blocks, metadata files, `ultima_posicion` | create, delete, write, read, truncate, compact | a block has one owner; texts survive moves |
| generic, stdin, stdout | `generic.c`, `stdin.c`, `stdout.c`, `entradasalida/src/main.c` | none | sleep, read, print | answer every order, or be seen to be gone |
| registers and programs | `instruccion.c`, `utils/src/pcb.c`, `interrupcion.c` | four narrow and seven wide registers, packed and unpacked at every change of context | SET, SUM, SUB, JNZ, MOV_IN, MOV_OUT, COPY_STRING, RESIZE | a process finds what it left |
| start and end | the four `main.c`, `utils/src/servidor.c`, `cliente.c`, `serializacion.c` | ports, connections, descriptors | listen, connect, handshake, refused requests, close, exit | nobody is taken for somebody else, and a program that ends takes down those that cannot go on and no other |

**Interaction.** The kernel connects to the CPU twice (dispatch, interrupt) and to the
memory; the CPU connects to the memory; interfaces connect to the kernel and the memory.
Inside the kernel there are a console thread, a long term scheduler, a dispatcher, a handler
of contexts, a quantum thread per dispatch (RR, VRR), and a thread per interface; inside the
memory a thread per connection; inside the CPU the cycle and the interrupt thread.

**Where it is hard.**
* A move of a process is two critical sections under two mutexes, and between them it is in no queue.
* `sem_dispatch` and `sem_interrupcion` are posted in one thread and waited for in another on many paths.
* The console changes the degree, the flag and the queues side by side with the rest, partly with no lock.
* The console's FINALIZAR_PROCESO searches one queue after another while processes move.
* An interface may fail with processes waiting on it.
* The thread of an interface removes an instruction by pid, and frees its tokens, when others may be reading them.
* The confirmations of the memory and the orders to interrupt carry no pid, and arrive when they arrive.
* Two threads of the memory change bits of one byte of the bitmap with no lock.
* A truncation gives blocks back first and takes them again on six different ways out.
* A port takes whoever comes first; the order of `main()` in three programs must agree.
* Each program notices the end of another where it happens to read or send, and reacts there: one thread ends, the
  program exits, a -1 is taken for an answer, or nothing happens.
* A request that cannot be served is answered with an error that its caller may not expect, or ends the program that got it.

`PROJECT.json` lists every such hazard at its line with the property that covers it, or why none does.

## 2. Modules

```
Semaforos <- Scheduler <- Recursos <- Conexiones <-+- PlanificadorLargo      Diagrama
                                                   +- PlanificadorCorto          ^ refined by
                                                   +- ManejoInterrupciones       |
                                                   +- ManejoInterfaces           |
                                                   +- Consola  <- Kernel <- KernelProps <- MCKernel
KernelProps <- PruebaHilos <- PruebaConteo <- PruebaDiagrama <- KernelProofs
Memoria <- Mmu <- Cpu <- Maquina <-+- MCMaquina        DialFS <-+- MCDialFS
                                   +- MaquinaProofs             +- DialFSProofs
                      Registros <--+- Programas <-+- MCProgramas
                          ^              |        +- ProgramasProofs (with MaquinaProofs)
                          |              | implements
                          +---------- Aislado          Arranque <-+- MCArranque
                                                                  +- ArranqueProofs
```

| module | models | correspondence |
|---|---|---|
| `Semaforos` | `semaforos.c` | a semaphore is a natural number, `En(h, l)` says that thread `h` stands at label `l` |
| `Scheduler` | `scheduler.c` | `colas[q]` are the lists, `mano[h]` the pcb a thread has popped and not yet pushed, `Saca`/`Pone` the two critical sections of every `proceso_a_*` |
| `Recursos` | `recursos.c` | counters of `recursos` with a load and a store, dictionaries `asignados`, the iteration of `liberar_recursos_de_proceso` a key at a time, for whichever thread calls it |
| `Conexiones` | how `src/kernel` uses its sockets (the far ends are the other programs) | ordered queues of requests, confirmations, pcbs and contexts; the CPU returns any context a program may cause |
| `PlanificadorLargo`, `PlanificadorCorto`, `ManejoInterrupciones`, `ManejoInterfaces`, `Consola` | the threads | an action for each shared access of the thread, in program order |
| `Kernel` | `main.c` | the threads side by side; `Reposo` is the end: all processes ended, or the kernel gone |
| `Diagrama` | the five-state diagram, with no threads | the abstract specification |
| `KernelProps` | | the properties, the inductive invariants, the mapping of the diagram |
| `Memoria` | `memoria/src/main.c`, `manejar_instrucciones.c` | page tables, the loop over the bitmap, bit operations as a load and a store of a byte |
| `Mmu`, `Cpu` | `mmu.c`, `tlb.c`; `servers.c`, `instruccion.c` | translation and replacement as operators, the cycle a step per access to a shared variable or a socket |
| `Maquina` | CPU and memory together | the kernel reduced to the order of its messages |
| `Registros` | `actualizar_registro`, `execute`, `pcb.h` | a function from names to numbers modulo the width of each register |
| `Programas` | the same CPU and memory with their data, `pcb.c`, `interrupcion.c`, `stdin.c`, `stdout.c`, `generic.c` | every action is one of `Maquina` and what it does to registers, packets and bytes; the programs are real instructions |
| `Aislado` | a machine for each process, with no CPU, kernel or frames to share | the abstract specification |
| `Arranque` | the four `main.c`, `servidor.c`, `cliente.c`, `serializacion.c`, the accepting threads | `Guion` is what each main thread does step by step, `buzon` what each end of a connection has to read, `tabla` the descriptors of the kernel, then an action per send or receive of the working threads |
| `DialFS` | `entradasalida/src/dialfs.c` | an action per instruction, a way out of `truncar_archivo` per action, compaction as a fold, and the places where a death may leave a truncation |

`Maquina` is not composed with `Kernel`: the kernel is in it by the order of its messages
(the first of NEW admitted with the first confirmation, dispatch one at a time, release after the last context, next dispatch at once), and the CPU
and memory are in `Conexiones` by the contexts they may return. A composition of all threads is out of TLC's reach. FINALIZAR_PROCESO is in `Maquina` for
each place where it may find a process: in the CPU (`NucleoFinaliza`, an order to interrupt), in NEW (`NucleoFinalizaNuevo`: its confirmation
will be taken for that of the next), in another queue (`NucleoFinalizaOtro`), and in none (`NucleoFinalizaEnVuelo`: it is in the hands of a thread, or was dispatched after the
console looked, and goes on although its memory is released).
`Programas` *is* composed with `Maquina`: it adds data and takes no behaviour away, but for the choice of the next
instruction, which the program now makes. `Arranque` has all four programs and the sockets between them in full, and
the work of each reduced to which message follows which, the answers of error and the exits over a request among them; one process goes round.
Why a request fails is a free choice there: when the memory does not know a process is in `Maquina`, and when the kernel falls in `Kernel`.

## 3. How the models are written

* **Granularity.** An action of a thread is one shared access: a critical section, or an unlocked
  read or write of a variable others use. The waits and receives whose only consumer is that thread
  go with the access after them, the posts and sends with the one before: they commute with the other
  threads' steps. Reading a variable without its lock is a step of its own, and so are the load and
  the store of `recursos->instancias` and of a byte of the bitmap.
* **Death.** A NULL dereference, a failed assertion or an `exit` sets `caido` (kernel) or `cpu = "muerto"`:
  nothing runs after it. Which ones can happen is itself a property (`CaidaConocida`, `MuerteConocida`).
* **Data.** In the kernel and in `Maquina` a program is a free choice of its next call
  (`Llamadas`, `Instrucciones`), limited by what it holds (`MinAsignado`, `MaxAsignado`) and,
  for liveness, by a number of calls (`MaxContextos`). In `Programas` it is a sequence of instructions, and what
  they compute is there; a byte has `Base` values and a wide register `Ancho` bytes. A byte of a block is NUL or the
  file that wrote it.
* **Sockets.** In `Arranque` a connection is two queues and the ends that closed it. What was sent before a close can
  still be read; the first send after the other end closed may be lost in silence, the following ones fail. With
  messages left unread the close may be noticed at once.
* **The quantum** ends at any moment: `CPUDesaloja` in the kernel, and in `Maquina` an order on the
  interrupt socket that may arrive late, for another process.
* **Freed data.** `instrucciones` has the processes whose tokens are in the dictionary. The handler and the thread of an interface read tokens through
  a pointer; when the process is no longer there they were freed, and the read is harmless or the end, freely (`LeeInstruccion`). A wrong name
  that is read without a crash is counted with the second: what a process blocked on a garbage name leads to is not followed.
* **Uninitialised data.** When the far end closes during the handshake, `handshake_con_servidor` returns a variable nobody
  assigned (`cliente.c:38`): in `Arranque` the program goes on or gives up, freely.
* **History variables**: `pisado` (two bit operations on a byte overlapped), `redujo` (processes that had
  pages taken: by a RESIZE, or by a FINALIZAR_PROCESO that did not find them), `enVuelo` (the latter alone), `sobra` (a process was ended in NEW, its confirmation is over), `tocados` (processes whose bytes an access out of bounds reached) and `descuidos` (ways by which blocks were mixed up). They name the known defects, so
  that what holds apart from them can be stated. In `Arranque`, `fallados` has the programs that ended over a request of a process, and `desconocio` says that the
  memory once answered `MEMORY_INVALID_PID`.
* **Mutants.** The definitions commented "Mutant" are plausible bugs of the definition that follows them.
  They are used by no specification; substituting one breaks the property `PROJECT.json` pairs it with.

## 4. Runs and bounds

`MCKernel` (two processes everywhere; the constants are in the `.cfg` files):

| run | shows | properties |
|---|---|---|
| `recursos` | RR, an interface, a resource of one instance, all calls including invalid ones | `TypeOK`, `ContextoPropio`, `ExclusionMutua`, `CaidaConocida`, `SoloListosCargados`, `ConservaInstancias` |
| `comandos` | VRR, two commands among DETENER/INICIAR_PLANIFICACION and MULTIPROGRAMACION; deadlock checked | `UnSoloLugar`, `EncoladoExacto`, `NadieQuedaDetenido`, `CupoAlcanza` |
| `finalizar` | VRR, a degree of 1, FINALIZAR_PROCESO at any moment, a path that does not exist | `TurnoUnico`, `NuncaDoble`, `CupoNuncaSobra`, `CupoRetenido` |
| `desconexion` | FIFO, an interface that may fail with processes waiting, a resource | `Invariante`, `CupoExacto`, `ImplementaDiagrama` |
| `vida` | RR with finite programs under fairness | `TodosTerminan` |
| `finaliza_otro`, `tiempo_liberado` | violations, see 7 | |

`MCMaquina`, `MCProgramas`, `MCDialFS`, `MCArranque`:

| run | shows | properties |
|---|---|---|
| `maquina` | two processes, two frames in one byte, a TLB of two entries, LRU; FINALIZAR_PROCESO of either wherever it is | `UnContexto`, `MapaExacto`, `TLBVigente`, `TLBSinRepetidos`, `AccesoPropio`, `MuerteConocida`, `InvarianteMaquina` |
| `programas` | two programs at a time out of five, four frames, FIFO | `TypeOKProgramas`, `CadaUnoEnLoSuyo` (the refinement of `Aislado`) |
| `dialfs` | three files, four blocks of two bytes, truncations to 0, 1, 3 and 5, a death in the middle of one | `TypeOKFS`, `BloquesExactos`, `TextoIntacto`, `TruncaSiHayLugar`, `CaidaAcotada` |
| `arranque` | start, work and end of the four programs, in order or not, with one of them ended from outside, or with requests that cannot be served | `TypeOKArranque`, `OrdenBasta`, `NucleoSobrevive`, `DescriptorPropio`, `EsperaConocida`, `QuedanListos`, `CierreEnCadena`, `IOVuelve` |
| `marco_doble` | violation, see 7 | |

**Why the bounds are enough.**
* *Two processes* (`MaxProcesos`): one in the CPU and one anywhere else is what a race of scheduling
  needs; with a degree of 2 both are admitted, with 1 (in `vida` and `finalizar`) one waits in NEW for the token of the other.
  `finalizar` needs 1: the handler and the console keep back tokens that are missing only when there are more processes than tokens.
  What needs three, two waiters on one resource, is named in 7 and not claimed.
* *One interface, one resource of one instance*: two processes contend for both. A second of either would only repeat the code.
* `MaxComandos = 2`: a command and the one that undoes it, or two FINALIZAR_PROCESO; 1 where only a violation is shown.
  `Grados = {1}` in `comandos` lowers the degree under the processes that are active.
* `MinAsignado = 0`, `MaxAsignado = 1`: programs that signal only what they waited for, so that `ExclusionMutua`
  means something; `vida` has SIGNAL without WAIT (`MinAsignado = -1`) and no WAIT that keeps the instance,
  since a program that never signals blocks the other for ever and nothing would be wrong with the kernel.
* `MaxContextos = 2` calls in each program of `vida`: one to block on and one more after the wake-up.
* *Two frames, one byte* (`TamMemoria = 4`, `TamPagina = 2`, `CharBit = 2`): the second page of a process exhausts
  memory when the other has one, and all bit operations meet in the one byte. The code's 8-bit bytes give
  more frames in a byte, not other interleavings.
* `MaxOrdenes = 2`: two interrupts, so that one can overwrite the other; a release of the memory that
  meets an order; or a process ended in NEW or in flight while another order is on its way. One FINALIZAR_PROCESO in NEW is enough for a confirmation to be over, one in flight for all
  that follows from a process without its memory. `MaxReloj = 1`: entries of the TLB of
  the same second and of different ones, which is all the comparison of LRU tells apart. The call that comes back to the same process is a SIGNAL: a WAIT that blocks leaves
  the machine where an I/O without addresses does, and is in `programas`, which has FIFO too.
* *Four frames of two bytes, a byte of four values, wide registers of two bytes* in `programas` (`TamMemoria = 8`,
  `TamPagina = 2`, `Base = 4`, `Ancho = 2`): pages of both processes interleave, sums overflow, a wide register fills a page
  and crosses it if it starts at its second byte. The five programs are chosen so that between them they use every kind of instruction
  (`Cuentas` the arithmetic, wide and narrow moves and WAIT; `Textos` STDIN, STDOUT and COPY_STRING; `Pasada` an access
  past its page; `Reduce` a page that comes and goes; `Todo` the last byte of the memory and OUT_OF_MEMORY for the
  other). Each of the four pairs puts one of them beside another that would notice. `MaxOrdenes = 1`: one order to
  interrupt waiting, or one FINALIZAR_PROCESO, which any instruction may meet. Programs end in EXIT. The memory starts at zero, where `malloc` gives anything.
* *Scenarios of `arranque`* (`Escenas`): two generic interfaces, one of which may be ended, so that the other can get
  its descriptor; a STDIN or a DIALFS, which also talk to the memory, with any program ended from outside; the same with
  programs started in any order; a GENERICA or a DIALFS with processes that ask for what cannot be served (`errores`), so that each program may refuse, lose a thread or exit in
  service. STDOUT is STDIN without the user. One program at most is ended, since what follows a first death is what is asked;
  one process, since who is served first is the kernel's business and checked there. `Backlog = 1` is the argument
  of `listen` (`servidor.c:56`). One order to interrupt is unread at a time.
* *Three files, four blocks*: a file in the middle, room in two pieces, a compaction that moves two
  files past a third; sizes of zero, one, two and three blocks, the last block not full. `Punteros` and
  `Largos` keep the writes within a file or cross its end.
* `SYMMETRY` in `maquina`, `marco_doble` and `dialfs`: no property or action tells one pid, or one file name, from another
  (`CHOOSE` is only used on numbers), and none of these runs checks liveness.
* Once blocks are mixed up (`descuidos # {}`) `DialFS` stops: after a known defect has struck
  nothing is promised. `BloquesExactos` is therefore about all histories up to and excluding the first of the known causes,
  of which a death inside a truncation is one; `CaidaAcotada` says what that one does.

Deadlock is checked in all but `recursos`, `finalizar`, `desconexion` and the kernel's violations: with resources two
processes may wait for each other by their programs; with FINALIZAR_PROCESO or an interface that
failed a process is lost or its token is, as 7 describes, and the threads sleep.
`comandos` and `vida` show that without these the threads never sleep with work to do. `arranque` does stop: when all
programs have ended, and when those that run wait for one nobody started; what must not wait is in its temporal properties.

## 5. Fairness and liveness

`SpecJusta` in `Kernel` assumes weak fairness of each thread (the operating system schedules every
runnable pthread), of the memory (it answers what it is asked), and of the CPU (the cycle runs until the
program calls the kernel or its quantum ends). Nothing is assumed of the user (`PasoOrden` has no
fairness) nor of orders to interrupt being seen. Programs are finite in that run, `MaxContextos` calls each.
`TodosTerminan` says that each process that was created gets to EXIT, or the kernel died, which `CaidaConocida` limits.

`Spec` in `Arranque` assumes weak fairness of the main thread of each program, of the accepting threads, of the thread of each
connection, of the CPU's two threads, of the memory's two, of the loop of each interface, and of the kernel's work on its
process (one action of which is enabled at a time). These are pthreads and programs that the system schedules. Nothing is assumed of who starts programs, ends
them, types commands or texts, nor of when quanta end. Under it: started in order all programs get to their loops
(`QuedanListos`); a kernel that ends takes the others down (`CierreEnCadena`); an I/O comes back, done or failed (`IOVuelve`).
The one exception of the last two is a STDIN whose user does not type the length that was asked for.

## 6. Proofs

Theorems about the kernel are in `KernelProofs`, those about the CPU and the memory in `MaquinaProofs`, those about the file system in
`DialFSProofs`, those about the start and the end of the programs in `ArranqueProofs` and those about what the CPU does with a
program in `ProgramasProofs` (all four below). The first hold for any set of interfaces and of resources, any number of
processes, the three algorithms, any instances and degree, and every disconnection and order of messages. Those
of the first group hold for every command too; those of the second have the hypothesis in the last column, and each is one the
code needs (see 7 for what happens without it).

| theorem | says | hypothesis |
|---|---|---|
| `SpecInductivo`, `SpecInvariante` | `Spec => []Inductivo`, `Spec => []Invariante` | |
| `TipoCorrecto` | `[]TypeOK`: besides types, that no semaphore is negative and no NULL pcb is queued | |
| `TurnoUnicoSiempre` | `[]TurnoUnico`: the CPU's turn is never doubled and never lost | |
| `ContextoPropioSiempre` | `[]ContextoPropio`: the assertion of `actualizar_contexto_ejecucion` never fails | |
| `NuncaDobleSiempre` | `[]NuncaDoble`: no process is in two places | |
| `NadieQuedaDetenidoSiempre` | `[]NadieQuedaDetenido`: no thread stays stopped when planning is on | |
| `CupoRetenidoSiempre` | `CupoRetenido`: the only two windows in which a step may keep back one token too many | |
| `UnSoloLugarSiempre` | `[]UnSoloLugar`: no process is lost either | no FINALIZAR_PROCESO |
| `CupoNuncaSobraSiempre` | `[]CupoNuncaSobra`: no token of the degree is made up | no MULTIPROGRAMACION |
| `CupoExactoSiempre` | `[]CupoExacto`: nor lost | neither of the two |
| `CupoAlcanzaSiempre` | `[]CupoAlcanza`: lowering the degree keeps back no more than the excess | no FINALIZAR_PROCESO; one value to lower it to, not above the first |
| `EncoladoExactoSiempre` | `[]EncoladoExacto`: `sem_hay_encolado_VRR` counts the two ready queues | VRR, no resources, no FINALIZAR_PROCESO |
| `IOExactaSiempre` | `[]IOExacta`: `sem_IO_ejecucion` counts the list of its interface | no FINALIZAR_PROCESO |
| `SoloListosCargadosSiempre` | `[]SoloListosCargados`: nobody is ready or sent to the CPU whom the memory does not have | no FINALIZAR_PROCESO |
| `CaidaConocidaSiempre` | `[]CaidaConocida`: the places where the kernel process may die | no FINALIZAR_PROCESO |
| `ConservaInstanciasSiempre` | `ConservaInstancias`: no step makes up or loses an instance of a resource, but where a dictionary is put over another | no FINALIZAR_PROCESO, no interface fails; finitely many interfaces |
| `ExclusionMutuaSiempre` | `[]ExclusionMutua`: no more processes hold a resource than it has instances | the same, and programs signal only what they waited for (`MinAsignado >= 0`) |
| `ImplementaDiagramaSiempre` | `ImplementaDiagrama`: the kernel implements the five-state diagram | neither FINALIZAR_PROCESO nor MULTIPROGRAMACION |

Assumptions: the named `ASSUME`s of the modules, that is `ParametrosKernel` (positive number of processes and
degree, one of the three algorithms), `NombresDistintos` (names of interfaces, resources, threads and queues do not
collide), and those of `Recursos`, `Conexiones`, `ManejoInterfaces` and `Consola` on their constants. TLC evaluates all of them in each run.

**The turn of the CPU.** `TurnoUnico` and `ContextoPropio` are not inductive, together or apart. Whether the handler's step
keeps the turn depends on which case of its `switch` it is in (`ArgumentoValido`), whether a step of `lib_*` is at a
key of a dictionary (`ManoLlena`), and whether what it pushes into EXEC is a process and not a NULL (`TypeOK`, and
`ManoLlena` for the pcb in a thread's hands). An interface that failed walks its list with an element read
ahead (`IteracionValida`); without it the head of an empty list would be queued. `Inductivo` is the conjunction, and

1. `InitInductivo`: it holds initially;
2. one lemma for each thread (`PruebaHilos`): `LargoInductivo`, `CortoInductivo`, `InterfazInductivo`, `ConsolaInductivo`,
   `InterrInductivo`, and `ConexionesInductivo` for the far ends of the sockets. Each is a case for each action;
   the release of resources, which three threads call, is done once, at the head of the module;
3. `TurnoAjeno` disposes of all steps that touch neither the two semaphores, the sockets, EXEC nor the
   handler; the rest is arithmetic on four terms whose sum is one;
4. `PasoInductivo` puts the threads together and `SpecInductivo` is the temporal step.

**Where the processes are** (the second part of `PruebaHilos`). That no process is in two places follows from three facts, none of which is
inductive alone: no list repeats a process and no two of the *sites* (lists, hands, EXEC) share one
(`SinRepetidos`, `UnSitio`); a pid that was not given is at no site, so that `INICIAR_PROCESO` creates no
second copy (`SinCrear`); and a thread's hands are empty but between a pop and a push (`ManoJusta`), so that a pop drops nobody.
`EstadoNuevo` relates the site of a process to the field `estado` of its pcb, which `proceso_a_exit` reads to decide whether a token
goes back. `Ubicacion` is the conjunction. Every step of the kernel is one of three: nobody moves, one process goes from a site to another
(`Mueve`), or one is dropped (the console's `proceso_a_exit` on a queue it is no longer in). `MueveUbicacion` does the first two
for all threads; then there is a lemma for each thread, as before. Without FINALIZAR_PROCESO the console never gets to
the labels that drop somebody (`PasoSinFin`), so nobody is (`PasoTodosUbicados`), which is `UnSoloLugar`.

**What is counted** (`PruebaConteo`). `Enlace` says how threads depend on each other beyond places: whose name is in the
dictionary of interfaces, that the list the handler looked up is still one when it pushes, what operation it works on, and
`NadieQuedaDetenido`. `Invariante` is `Inductivo /\ Ubicacion /\ Enlace`, and each of the counts is a step from it. `Cupos` adds the tokens of
the degree where they are: in the semaphore, with the long term scheduler, counted for an admitted process, less those
that a thread has checked and not yet discounted. `PasoCupos` says by how much each action changes it: only an end of a process, and MULTIPROGRAMACION, do.
A process the console ends is NEW exactly if the test in `proceso_a_exit` says so, which is `EstadoNuevo`.
The four theorems on tokens follow from that lemma and
arithmetic; `CupoRetenido` keeps the two windows in which the unlocked check of one thread counts a process that the other
has checked already, and the run `finalizar` reaches both. `ColasContadas` is
the same for semaphores that count a list: each push has its post and each pop its wait, the place in between being a label.

**Who is loaded** (the third part of `PruebaConteo`). A confirmation of the memory carries no pid: the long term scheduler takes it for the head of NEW.
That it is right needs that NEW is in the order of the pids (`NuevosEnOrden`), that the memory's requests and answers are in that order too and
none is missing, whatever requests of end there are between them (`RespuestasEnOrden`), and that a request of end is about a process whose end has begun, which
nobody undoes (`EnMemoria`, `Olvidado`). `Cargados` is the conjunction; it is inductive with `Invariante`. FINALIZAR_PROCESO of a process in NEW breaks the count, which is
why the hypothesis is there.

**Where it dies** (the end of `PruebaConteo`). A step that is the last one is at a NULL, a freed counter or an `exit`, and most of them are
excluded by what was proved before: the empty NEW by `NuevosEnOrden`, the context of another process by `ContextoPropio`, the empty queue of
an interface by `IOExacta`. The others need `SinCaida`: each process has its dictionary of resources from its creation until
somebody took it to release it (`Despojado`, and who lost it is at one site from then on, on its way to EXIT), but the last one while the console is on its
way to create it (`ConDiccionario`); a name that was looked up is still there, or is that of an interface that fails (`InterfazHallada`); the handler goes past the end of a
WAIT or SIGNAL only for a name nobody configured (`FinPorRecurso`); and the memory refuses only what was asked (`PathsValidos`). What is left is `CaidaConocida`, with each place
reachable: the interfaces that fail add a list freed before the `sem_post` on it, VRR the second `free` of the counter.
FINALIZAR_PROCESO is out because `proceso_a_exit` drops whoever is first (`finaliza_otro`), after which no count holds.

**What it implements** (`PruebaDiagrama`). In `Diagrama` a step moves one process between the five states, in the order of the pids when it
creates or admits, with nobody in EXEC when it dispatches, and with no more admitted processes than the degree. `Vida` of a process
depends on its site alone (`VidaPorSitio`), and a step of the kernel moves one process from one site to another (`VidaMueve`), so it is
the move of the diagram between the states of the two sites, or a stutter when they are the same state (`MueveDiagrama`). Which pairs of
sites a step of each thread may join comes from the label it is at, and the guards of the diagram come from what was proved before:
the order of the pids from `NuevosEnOrden` and `Cargados` (`AdmiteEnOrden`), the empty EXEC at a dispatch from `TurnoUnico` and `ContextoPropio`, that nobody
is dropped from `TodosUbicados`, and the degree from `CupoExacto` with `ActivosContados`: the processes past NEW and not yet in EXIT are no more than
the tokens counted for them. `AdmiteEnOrden` and `ActivosContados` were found to hold with TLC, with two processes and with three and a degree of
one, before they were proved. The hypotheses are those of the run: the diagram has one degree, which MULTIPROGRAMACION changes, and FINALIZAR_PROCESO
takes processes out of any state and drops others (`finaliza_otro`). With interfaces that fail it does hold: their queue goes to EXIT, from BLOCKED.

**What is handed out** (the first part of `KernelProofs`). Both properties are about a sum over processes. What is needed of `SumFunction` is that it has an equation at all and that changing
one term changes the sum by as much. The community modules define it by a recursive function chosen with `CHOOSE`; that one exists for a finite set
is `WFInductiveDef` in the library's theorems, which take an operator as a parameter, so the module proves the instance it needs by a least counterexample in a set of
naturals (`InduccionNat`, `SumaExiste`, `SumaPunto`). `LibrosAlDia` is what the books of the handler say at each label: nobody but it releases, the value it loaded is the value
there still is (`ValorVigente`), what it took out of a dictionary is in its hands until it is given back (`PorLiberar`), and who has no dictionary has nothing in it. With that,
each step moves an instance from one of the four terms of `Balance` to another.

`ExclusionMutua` is not inductive, and neither is the balance enough: a counter below zero stands for waiting processes, and a wake-up
gives the instance to one of them without anybody counting. `Reparto` has two inequalities for each resource: what processes have is no more than there is (`Tenidas`), and
what they have or ask for, with what nobody has, is no more than there is either (`Pretendidas`, `Sueltas`). Who waits asks for one more than it has, and the
counter was lowered for it, so that when its WAIT ends what it asked for becomes what it has: the second inequality, with a counter that is not negative, gives the first. A dictionary
that is put over another makes the process forget what it had, and it may still signal it, and then owe it: what it owes counts as none (`Tiene`), and the SIGNAL
of an instance it no longer has is counted for itself while it is on its way (`SignalAjeno`). The hypotheses are what this needs of the code: an interface that fails and FINALIZAR_PROCESO run
`liberar_recursos_de_proceso` in a second thread, which loads and stores the same counter as the handler with no lock, and a program that signals
what it never waited for adds an instance, which is what a semaphore is for. TLC checked `LibrosAlDia` and `Reparto` on the bounds of `recursos` before they were proved.

TLC checks `Invariante` itself in `desconexion`.

**The CPU and the memory** (`MaquinaProofs`). These hold for any set of processes, sizes of the memory, of its pages and of a byte, any number
of entries of the TLB, both algorithms, any instructions, and any number of orders to interrupt. They assume `ParametrosMemoria` (0 is no pid,
pages and bytes are not empty, the memory has at least a page), `ParametrosTLB`, `InstruccionesPosibles` and `CotasMaquina`.

| theorem | says |
|---|---|
| `InvarianteMaquinaSiempre` | `[]InvarianteMaquina` |
| `TiposMaquinaSiempre` | `[]TypeOKMaquina`: besides types, that no frame past the bitmap is given and none is taken from an empty page table |
| `UnContextoSiempre` | `[]UnContexto`: one context for each pcb |
| `MapaExactoSiempre` | `[]MapaExacto`: the bitmap and the page tables agree, as long as no two bit operations overlapped |
| `TLBSinRepetidosSiempre`, `TLBVigenteSiempre` | `[]TLBSinRepetidos`, `[]TLBVigente`: the TLB is within its size, has no page twice, and says what the page tables say |
| `AccesoPropioSiempre` | `[]AccesoPropio`: nobody reaches the frames of another |
| `MuerteConocidaSiempre` | `[]MuerteConocida`: the CPU dies only of a program that uses a page it does not have, or in one of the three ways FINALIZAR_PROCESO opens (see 7) |

None of the properties is inductive alone. That an entry of the TLB stays right needs that page tables change only under the process that runs or
one that has ended or was not found (`Soltado`); that needs that the memory's two threads serve just these, never the same (`EnServicio`), which needs that a process is asked to be freed only then
(`PedidosEnOrden`), that it is created once (`CreadosEnMemoria`: a second creation would lose its pages), and that one process at a time is in EXEC,
as a pcb, running, or as a context (`UnTurno`). `AccesosPropios` adds to `AccesoPropio` the addresses on their way to the kernel in a context. That who is dispatched was created is not a guard: confirmations carry no pid. It follows, until a process is ended in NEW,
from `NuevosEnOrden`: the k-th confirmation on its way is that of the k-th of NEW, the others of NEW are those with a request still to be served, and these are in the order of NEW. After `sobra` it
does not hold, and `MuerteConocida` names what follows; `EnEspera` is what is left of it then. That only the fetch meets the rest of an answer to a RESIZE is a part of `EnServicio`.
`InvarianteMaquina` is the conjunction. Each part has a lemma `Paso...`, with a case for each action it can be disturbed by, and four lemmas
carry most of the weight: `CambioPaginas` (what a step may do to a page table, and to whose), `EfectoTLB` (an
access leaves the entries there were, less at most one, and the one it used, with FIFO as with LRU), `Traduce` (the address is in the frame the page table has) and
`QuitaPagina`, `AgregaPagina` and `GuardaExacta` (a page, its bit, and the store of the byte that was loaded). `MapaExacto` counts pages of one frame
up to `max_bit`, so that it also needs that no process has more pages than there are frames, which is the pigeonhole principle
(`PaginasHayMarcos`). TLC checks `InvarianteMaquina`, and `TypeOKMaquina` in it, in `maquina`.

**The file system** (`DialFSProofs`). These hold for any finite set of files, any number and size of blocks, of bits in a byte, any sizes, places and
lengths. They assume `ParametrosFS`; the last two also that the number of blocks is a whole number of bytes of the bitmap (`BytesJustos`).

| theorem | says |
|---|---|
| `InvarianteFSSiempre` | `[]InvarianteFS`: types, and until a known defect strikes an exact bitmap and an interface that does not hang |
| `TypeOKFSSiempre`, `BloquesExactosSiempre` | `[]TypeOKFS`, `[]BloquesExactos` |
| `TruncaSiHayLugarSiempre` | `TruncaSiHayLugar`: a truncation fails only when there are too few blocks |
| `CaidaAcotadaSiempre` | `CaidaAcotada`: a death in a truncation hurts one file |
| `TextoIntactoSiempre` | `TextoIntacto`: the text of a file survives everything but what is written in it |

`BloquesExactos` counts the files of a block; what is inductive is `Exacto`, that the runs of blocks of two files (`Tramo`) are disjoint and the bitmap is their union. Each operation takes
a file out of it (`QuitaExacto`) and puts it in at a run that is free (`CambiaExacto`), and the searches give such a run (`PrimeroEs`, `EspacioEs`, `LugarEs`).
The compaction is a fold over a list of files. What it leaves after each of them is `Colocado` (the files so far are packed from the first block on, in no more blocks than they had), `SinHuecos`
(if none is empty, they are all that is marked) and `ConTextos` (their texts are where the metadata says), each by a least counterexample in the naturals (`InduccionNat`) over `HechoPaso`, one step of the
fold. `FoldLeft` of the community modules is a recursive function chosen with `CHOOSE`, and that one exists is proved for this fold (`AcumuladoExiste`) as for the sums of the kernel. That
a fold of any length places all files is what `TruncaSiHayLugar` needs; it is also why `dialfs.c:454` is not reached. `Legible` chooses the length of a text, up to its first NUL, among the lengths; `LargoExiste` and `LargoUnico` say that
it is there and is one, `LegibleIgual` that it depends on the bytes of the file alone, and `BytesAparte` that runs of blocks that do not meet have no byte in common.

The attempt to prove `TextoIntacto` without `BytesJustos` failed at `BytesEs`, and for a reason: see 7.

**The start and the shutdown** (`ArranqueProofs`). These hold for any finite set of interfaces of any type, any backlog, and any scenarios, that is
whoever is started out of turn, whoever is ended from outside, and whether processes ask for what cannot be served. They assume `CotasArranque`; that the interfaces are finitely many is
used for one thing, that the kernel always has a free descriptor (`HayLibre`, by the pigeonhole principle).

| theorem | says |
|---|---|
| `ArranqueInvariante` | `[]InvarianteArranque` |
| `EsperaSiempreConocida` | `[]EsperaConocida`: the kernel waits for a dead CPU only if the memory ended, or once answered that it does not know a process |
| `OrdenSiempreBasta` | `[]OrdenBasta`: started in order and with nobody killed, the first program that ends is one that fell over the request of a process |
| `NucleoSiempreSobrevive` | `[]NucleoSobrevive`: the deaths of interfaces that end the kernel are the known ones |
| `DescriptorSiemprePropio` | `[]DescriptorPropio`: a registered interface loses its connection only to a second close |

`NucleoSobrevive` is a part of the invariant and the other three follow from it. `TipoArranque` has the types, and what a queue of a port needs to be one: nobody is in it
twice, a connection has one thread at most, and a descriptor has one owner. `Cierres` says who may have closed an end, from which `CicloMuerto` follows: the cycle of the CPU
dies only with one of the three, or after an answer that the memory does not know the process (`Rechazos`: such an answer, or what a RESIZE left of one, is in the socket only if the memory gave it). `Encadenados` is about programs that are started in turn while only interfaces are killed and the kernel lives. Its part `Vivos` says how far the ones before are
whenever a program runs, and that the four connections among the first three are open. That is not inductive: a program that goes on from a handshake relies on the other side having been at a
certain line, and the message it reads is all it has of that. `Saludos` says what each such message, and having read it, means. `SinCaidas` adds that nobody is killed and nobody falls over a request: then nothing
is ever closed, and a thread of the kernel has the descriptor it was given. `Duenos` is about descriptors: one that is in use belongs to a connection that the kernel did not close,
and a thread that works without its own lost it to a dead one with the same number. With `Encadenados` it gives each way in which the kernel may end.

Most of the lemmas are about the scripts and the sockets: what `Guion` has at each line (`GuionMemoriaEs` and the others), what each operation on a socket adds to, takes from and leaves of
the variables of the network (`EnviaEs`, `RecibeEs`, `ContestaEs`, `ColasMainEs`), and then for each step whom it ends or cuts off and why (`EfectoDeHilo`, `CausaDeUnPaso`). TLC checked all parts of the invariant on the bounds of `arranque` before they were proved.

**The programs and their data** (`ProgramasProofs`). These hold for any set of processes, any programs in any number of situations, any base and width of the
registers, and any sizes. They assume what `MaquinaProofs` does, `ParametrosRegistros`, `PotenciasDeBase` (powers of the base are positive, which
the prover cannot find out by itself) and `ProgramasPosibles`: each instruction has the words it takes, a jump is within the text, only SET
and JNZ write the program counter, and the last instruction is EXIT, as in the scripts of the repository.

| theorem | says |
|---|---|
| `ProgramasEnLaMaquina` | `SpecProgramas => Spec`: with data, the machine is the machine; all that `MaquinaProofs` proves is true of `Programas` |
| `InvarianteDatosSiempre` | `[]InvarianteDatos` |
| `TypeOKProgramasSiempre` | `[]TypeOKProgramas`: registers within their widths, bytes, and one set of registers for each pcb and context on its way |

The first is the composition: each action of `Programas` is one of `Maquina` with more conjuncts (`PasoEsPaso`), the choice of the next instruction being the
one place where `Maquina` has more. `InvarianteDatos` goes beyond types, and the types need it: that what MOV_IN writes is a number needs an address, a register and four bytes, hence the decoded instruction is
that of the text at the program counter (`InstruccionPropia`), hence the counter of a process that may run again is within its text, in the pcb of the kernel, on
the sockets and in the CPU (`EnTexto`: a jump or EXIT is where it could leave it). `BienTraducidas`, `ContextosIO` and `EntradasIO` follow an address from the translation, through the context
and the kernel, to the interface: until it is used it is the one the page table gives for the register it came from, whatever is
resized or ended in between, unless the process gave pages back. `Redimensiona` counts the pages a RESIZE still has to
assign or to take, of a process whose memory was not released meanwhile. A number read from memory is `DeBytes`, a fold; that it is below the modulus of the register is the same argument by least counterexample
as for the other folds (`PesosExiste`, `PesosTipo`). TLC checked `InvarianteDatos` on the bounds of `programas` before it was proved.

**Only model-checked.** Every safety property that a run checks of the kernel, of the CPU and the memory, and of the file system is proved, each under the hypotheses above; what happens
under the commands that they exclude is for the runs. So is every one of `Arranque` but one part of `TypeOKArranque`: that at most three messages wait
at an end (its types are `TipoArranque`). It would take a count of what both ends of each connection may have under way at each pair of
lines. Of a program and its machine: the refinement `CadaUnoEnLoSuyo`.
Out of the prover's reach are liveness
(`TodosTerminan`; `QuedanListos`, `CierreEnCadena` and `IOVuelve` of `Arranque`), `ENABLED`, and induction over data in general: the folds and sums are proved about because each is restated over the subsets or the prefixes of a set.
Recursive definitions are avoided.

## 7. What the checks found

Each of these is a run with a counterexample that TLC reproduces:

| run | code | what happens |
|---|---|---|
| `finaliza_otro` | `scheduler.c:224` | `proceso_a_exit` pops a queue from which `finalizar_proceso` has already removed the process: somebody else is dropped |
| `tiempo_liberado` | `manejo_interrupciones_cpu.c:51` | in VRR the time counter is destroyed for each context but created for each dispatch: after WAIT or SIGNAL it is read and freed again |
| `marco_doble` | `memoria/src/main.c:206` | two unlocked bit operations on a byte: the bit of an assigned frame is lost |

Ways to die or to hang that the passing runs state as the only ones:

* The kernel: a process that ends before `iniciar_proceso` has created its dictionary (`consola.c:115-117`), an instruction that the
  thread of an interface no longer finds, its tokens read by the handler after they were freed with it (`manejo_interrupciones_cpu.c:145`, `scheduler.c:149`), a resource nobody knows
  (`CaidaConocida`, which also names the deaths that take a second interface, whose thread reads such tokens, an interface that fails, a path that does not exist, or VRR; TLC
  found the one with two interfaces at `manejo_interrupciones_cpu.c:268` in an instance with one process); an interface that
  ends before it gave its name (`kernel_interface_handler.c:237`), and one whose descriptor another, dead one, closed for the
  second time (`serializacion.c:7`, `kernel_interface_handler.c:113`) before it gave its own (`NucleoSobrevive`). After its name,
  the second close only loses that connection (`DescriptorPropio`).
* The kernel waits for ever for a context when the memory ends and the CPU's cycle thread with it, since the CPU's `main` waits
  for the other thread (`EsperaConocida`; `instruccion.c:317`, `325`, `cpu/src/main.c:107`). It does too, with the memory alive, when that answers `MEMORY_INVALID_PID`
  to a fetch (`manejar_instrucciones.c:300`), or to a RESIZE, which reads the operation of the answer only (`instruccion.c:416`) and leaves the rest to the next fetch.
* The CPU: a page that the process does not have (`mmu.c:46`), and FINALIZAR_PROCESO. A process in flight (`consola.c:180-197`) goes on without its memory, so that its next fetch or translation is of an
  unknown pid (`instruccion.c:325`, `mmu.c:46`); of the answer to its RESIZE the CPU reads the operation only, and the rest ends the fetch of whoever is dispatched next, another
  process maybe; and with one ended in NEW the next is admitted on its confirmation, and may be fetched before it was created (`MuerteConocida`).
* Started in order and not killed, a program ends over a request of a process: an interface for a sleep of 0 (`generic.c:50`) or a write to a file that does not exist, is empty or whose
  text the memory refuses (`dialfs.c:290`, `309`, `317`), the CPU for a page that a process does not have (`mmu.c:46`), the memory for a program without EXIT (`manejar_instrucciones.c:315`), the kernel in
  the ways above (`OrdenBasta`).
* Started in another order any program may end: `perror("Error en handshake!")` comes after the other was answered 0.
* A program is out of the promise of `Aislado` when it makes an access past the end of a page, reads with MOV_IN in the last bytes of
  the memory (four are asked for, whatever the register), gives pages back, is ended while its interface works or while it is in flight, or is written on by one that did.
* A truncation to the same size leaves the blocks of the file free (`dialfs.c:376`), one of the causes in `descuidos`.

Also read off the code or met while the models were written, and not runs:

* A memory that is gone counts as a process created (`planificador_largo_plazo.c:61`) and as a RESIZE done (`instruccion.c:397`).
* A rise of the degree posts before it assigns; a process that ends in between keeps its token back.
  `comandos` only lowers the degree.
* FINALIZAR_PROCESO of a process that was admitted, while another ends: handler and console each check the count before the other has lowered it
  (`scheduler.c:222-230`, `manejo_interrupciones_cpu.c:379-387`), so that with more processes than tokens both keep theirs back and
  one is lost for ever. `CupoExacto` does not hold with that command; `CupoRetenido` says that nothing else loses one.
* FINALIZAR_PROCESO of the running process may be overwritten or cleared before the CPU sees it (`servers.c:56`, `94`).
* INICIAR_PLANIFICACION posts to threads that are not stopped, so the next DETENER_PLANIFICACION passes them by.
* In VRR `sem_hay_encolado_VRR` is posted by SIGNAL that woke nobody, and not posted for those whom the release of
  a resource at the end of a process woke.
* SIGNAL wakes a waiter only if the counter is not negative after it: with two waiters nobody is woken.
* A process ended by the failure of its interface never gives its token of the degree back.
* TLB entries survive RESIZE: a page given back stays reachable through them. Accesses of several bytes are translated by their first.
* DIALFS: the bitmap has whole bytes (`dialfs.c:151`), so that with a `BLOCK_COUNT` that is no multiple of eight blocks that are not there are given to files, and what is
  written to them goes to the first bytes of others (`obtener_inicio_bloque` answers -1, line 774). TLC finds `TextoIntacto` and `CaidaAcotada` violated with three blocks and four bits a
  byte. The configurations have 16 and 32 blocks, and the run a whole byte.
* DIALFS: truncating to zero, or failing to grow an empty file, loses its block; compacting gives empty files none;
  writes are not checked against the size; what a deleted file had in its last block is wiped by its size only.

## 8. What is not modelled

* The bytes of a packet and TCP itself: a socket is a reliable ordered queue that may break, which TCP gives. A connection
  that is refused after a timeout, a host that vanishes without closing, and a partial send are left out.
* In `Arranque`: a recv under way when another thread closes its descriptor sees the close at once; the descriptor of the memory that the kernel
  closes when it is gone is not reused; a program whose path the memory does not have (`MEMORY_INVALID_PATH` ends the kernel) is in the kernel's run `finalizar`;
  `exit` on the console and a kill are one action, the frees that precede `exit` are not; a `malloc`, `pthread_create`, `fopen` or `getcwd` that fails, for which
  most functions exit, is a kill.
* PROCESO_ESTADO and PRINT_IO print; EJECUTAR_SCRIPT gives the same commands from a file.
* Parsing of instructions, programs without EXIT (the memory reads past the end of its list), registers that do not
  exist, IO_FS_ instructions in `Programas` (their accesses are those of STDIN and STDOUT), quantum values
  (including the `uint16_t` that wraps when the quantum is over), logging and configuration files.
* The `so-commons` dictionary as a data structure: its operations are atomic in the model although the memory's threads call it with no lock.
* What the memory's two threads make of the pages of one process, when that of the kernel frees them under that of the CPU or the other way round (`memoria/src/main.c:173`, after a FINALIZAR_PROCESO in
  flight): the lists are freed while they are read. `Carrera` counts it as a death (`MuerteConocida` has it among those of `enVuelo`), without saying of which program.
* A death of DIALFS inside `compactar`, or between the creation of a metadata file and its values; the model stops after a death inside
  a truncation, so that what a restart makes of the mixed blocks is not followed.
* Quantum threads in the kernel module as threads: their effect, a DESALOJO_QUANTUM at any moment, is.

## 9. Plan

The order was: kernel threads and queues first, since scheduling is what the program is for; their
abstract promise; the inductive invariant; then CPU and memory; then DIALFS; then the data of the programs and what
the system promises them; then the start and end of the four programs. What is left, in order of value:

1. Theorems about the rest: the refinement `CadaUnoEnLoSuyo`, on top of `InvarianteDatos`; the bound of three messages of `TypeOKArranque`.
2. A death of DIALFS inside a compaction, and what the restart after it finds.
3. Three processes for the wake-ups of SIGNAL, with the programs restricted so that the run stays small.
4. IO_FS_ instructions in `Programas`, with `DialFS` as the interface.
