------------------------------ MODULE MCKernel ------------------------------
(* Instances of Kernel for TLC. *)
EXTENDS Kernel

\* Only behaviours without a race are explored further.
NoRace == race = {}

\* After a race, only states without a rarer input in progress.
RaceOrInput ==
    \/ race = {}
    \/ \A p \in Pid :
          /\ ~pending_signal[p]
          /\ ~sighandler[p]
          /\ \A i \in DOMAIN frames[p] : frames[p][i] \notin {"exc", "sig"}
====
