---------------------------- MODULE MCClaudeLock ----------------------------
(* ClaudeLock on small instances: the configurations are ClaudeLock*.cfg.    *)
(* Processes that ask alike are interchangeable, and so are the marks that   *)
(* tell one process's mtimes apart.                                          *)
EXTENDS ClaudeLock, TLC

Marks == Permutations(Serials)
Symmetry == Permutations(Process) \cup Marks

=============================================================================
