------------------------------ MODULE MCArchivos ------------------------------
(* Instances of Archivos for TLC.                                           *)
EXTENDS Serializacion, TLC

CONSTANTS p1, p2, p3, consoles, videogames, n0, n4, n16

Nombran == p1 :> Archivos @@ p2 :> {consoles} @@ p3 :> {consoles}
Pedidos == p1 :> 4 @@ p2 :> 1 @@ p3 :> 2

\* Consoles and Videogames of consola/FS_1 to FS_3, and numbers of one and two
\* digits, with the final zero.
Palabras3 == {consoles, videogames, n0, n4, n16}
Largos == consoles :> 9 @@ videogames :> 11 @@ n0 :> 2 @@ n4 :> 2 @@ n16 :> 3

\* Instructions of three, two, one and no parameters, like those of those files.
Ins(nombre, parametros) == [nombre |-> nombre, parametros |-> parametros]
Programas ==
    p1 :> <<Ins("F_OPEN", <<consoles>>), Ins("F_OPEN", <<videogames>>),
            Ins("F_TRUNCATE", <<consoles, n16>>), Ins("F_WRITE", <<consoles, n0, n4>>),
            Ins("EXIT", <<>>)>>
    @@ p2 :> <<Ins("F_OPEN", <<consoles>>), Ins("F_READ", <<consoles, n16, n4>>),
               Ins("EXIT", <<>>)>>
    @@ p3 :> <<Ins("F_OPEN", <<consoles>>), Ins("EXIT", <<>>)>>

=============================================================================
