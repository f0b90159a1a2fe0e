--------------------------- MODULE MCDevSupervisor ---------------------------
(* TLC instance of DevSupervisor.                                            *)
EXTENDS DevSupervisor
=============================================================================
