---------------------------- MODULE MCVllmStart ----------------------------
(* The weights alone: no terminal has given a command yet.                 *)
EXTENDS VllmStart

MCNoCmds == [s \in Shells |-> {}]
============================================================================
