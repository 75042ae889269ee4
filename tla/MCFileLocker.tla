---------------------------- MODULE MCFileLocker -----------------------------
(***************************************************************************)
(* Model checking of the file locker with two processes, which are alike:  *)
(* one serves the impatient callers, the other one all others.             *)
(***************************************************************************)
EXTENDS FileLocker

Home == CHOOSE p \in Procs : TRUE
Away == CHOOSE p \in Procs \ {Home} : TRUE

MCInit ==
  /\ Init
  /\ proc = [c \in Callers |-> IF c \in Impatient THEN Home ELSE Away]

MCSpec == MCInit /\ [][Next]_vars /\ Fairness
=============================================================================
