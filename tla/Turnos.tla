-------------------------------- MODULE Turnos --------------------------------
(***************************************************************************)
(* What the kernel promises about the files that processes open: a file    *)
(* has one user, the others wait in a row, and whoever closes it hands it  *)
(* to the first of the row.  There are no semaphores, threads, messages or *)
(* file system here.                                                       *)
(***************************************************************************)
EXTENDS Sequences

CONSTANTS Procesos, Archivos, Nadie

VARIABLES
    duenio,         \* the user of each file, or Nadie
    fila            \* the processes that wait for it

vars == <<duenio, fila>>

Init ==
    /\ duenio = [f \in Archivos |-> Nadie]
    /\ fila = [f \in Archivos |-> <<>>]

Tomar(p, f) ==
    /\ duenio[f] = Nadie /\ fila[f] = <<>>
    /\ duenio' = [duenio EXCEPT ![f] = p]
    /\ UNCHANGED fila

Esperar(p, f) ==
    /\ duenio[f] # Nadie
    /\ fila' = [fila EXCEPT ![f] = Append(@, p)]
    /\ UNCHANGED duenio

\* The file goes straight to the first of the row, so nobody gets ahead of it.
Soltar(f) ==
    /\ duenio[f] # Nadie
    /\ \/ /\ fila[f] = <<>>
          /\ duenio' = [duenio EXCEPT ![f] = Nadie]
          /\ UNCHANGED fila
       \/ /\ fila[f] # <<>>
          /\ duenio' = [duenio EXCEPT ![f] = Head(fila[f])]
          /\ fila' = [fila EXCEPT ![f] = Tail(@)]

Next == \E f \in Archivos :
            Soltar(f) \/ \E p \in Procesos : Tomar(p, f) \/ Esperar(p, f)

Spec == Init /\ [][Next]_vars

=============================================================================
