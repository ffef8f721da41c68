------------------------------ MODULE MCDaemon ------------------------------
(* Model-checking instances of Daemon: the constants' values and the symmetry. *)
EXTENDS Daemon, TLC

\* Workers, handlers and teardowns are interchangeable where no liveness is asked.
Symmetry == Permutations(Workers) \cup Permutations(Hooks) \cup Permutations(Closers)
=============================================================================
