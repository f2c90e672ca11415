---- MODULE MC_Logger ----
EXTENDS Logger
(* Sockets are told apart by number only and the tasks of the store are    *)
(* interchangeable; only safety is checked.                                *)
Symmetric == Permutations(Sockets) \cup Permutations(Tasks)
====
