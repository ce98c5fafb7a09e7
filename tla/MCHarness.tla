----------------------------- MODULE MCHarness -----------------------------
(* Harness with three cells, one of a profile this host cannot use; an      *)
(* invocation may also find no profile usable.                              *)
EXTENDS Harness

MCMatrix == << [profile |-> "classical", payload |-> 100],
               [profile |-> "mldsa",     payload |-> 100],
               [profile |-> "hybrid",    payload |-> 100] >>
=============================================================================
