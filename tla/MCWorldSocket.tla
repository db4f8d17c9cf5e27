---------------------------- MODULE MCWorldSocket ----------------------------
(* The world thread and one map thread; packets of less and of more than a *)
(* buffer.                                                                 *)
EXTENDS WorldSocket
=============================================================================
