----------------------------- MODULE MCProgramas -----------------------------
(***************************************************************************)
(* Instances of the programs for TLC.                                      *)
(***************************************************************************)
EXTENDS Programas

\* Two pages; a wide number in the second, added up with overflow and read
\* back by its low byte, with a resource in between.
Cuentas == <<
    << "RESIZE", 4 >>,
    << "SET", "EAX", 7 >>,
    << "SET", "DI", 2 >>,
    << "SUM", "EAX", "EAX" >>,
    << "MOV_OUT", "DI", "EAX" >>,
    << "WAIT", "R" >>,
    << "MOV_IN", "BX", "DI" >>,
    << "JNZ", "BX", 9 >>,
    << "SET", "EAX", 0 >>,
    << "SUB", "BX", "EAX" >>,
    << "EXIT" >> >>

\* One page; a text comes in, a byte of it goes to the other and is printed.
Textos == <<
    << "RESIZE", 2 >>,
    << "SET", "CX", 1 >>,
    << "SET", "DI", 1 >>,
    << "IO_STDIN_READ", "SI", "CX" >>,
    << "COPY_STRING", 1 >>,
    << "IO_STDOUT_WRITE", "DI", "CX" >>,
    << "EXIT" >> >>

\* A wide number at the last byte of its page.
Pasada == <<
    << "RESIZE", 2 >>,
    << "SET", "SI", 1 >>,
    << "MOV_OUT", "SI", "EAX" >>,
    << "EXIT" >> >>

\* Grows, gives a page back and grows again.
Reduce == <<
    << "RESIZE", 4 >>,
    << "SET", "DX", 2 >>,
    << "MOV_OUT", "DX", "DX" >>,
    << "RESIZE", 1 >>,
    << "SIGNAL", "R" >>,
    << "RESIZE", 3 >>,
    << "MOV_OUT", "DX", "DX" >>,
    << "EXIT" >> >>

\* All the memory there is, its last byte written and read.
Todo == <<
    << "RESIZE", 8 >>,
    << "SET", "EDX", 7 >>,
    << "MOV_OUT", "EDX", "AX" >>,
    << "MOV_IN", "BX", "EDX" >>,
    << "EXIT" >> >>

CasosMC == << << Cuentas, Textos >>, << Textos, Pasada >>, << Reduce, Textos >>,
              << Todo, Cuentas >> >>

Direcciones2 == UNION { [1 .. n -> 0 .. 15] : n \in 0 .. 2 }
Posibles == [op : OpsCPU, dirs : Direcciones2, tam : 0 .. 8]
=============================================================================
