------------------------------- MODULE MCTablas -------------------------------
(* Instances of Tablas for TLC.                                             *)
EXTENDS Tablas
=============================================================================
