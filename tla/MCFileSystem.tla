----------------------------- MODULE MCFileSystem -----------------------------
(* Instances of FileSystem for TLC: blocks of three bytes in which two block   *)
(* numbers fit, so that a file has three blocks at most, and the truncations.  *)
EXTENDS FileSystem

\* A file grows from nothing, within its only block, loses whole blocks but
\* keeps two or more, or loses its only block.
DesdeVacio ==
    {<<0, 1>>, <<0, 3>>, <<0, 5>>, <<0, 8>>, <<0, 9>>, <<1, 3>>, <<9, 6>>, <<3, 0>>, <<1, 0>>}

\* A file of one block, as F_TRUNCATE Videogames 64 leaves it, gets a second.
Crecer == {<<0, 3>>, <<3, 6>>}

=============================================================================
