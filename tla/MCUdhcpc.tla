------------------------------ MODULE MCUdhcpc ------------------------------
(***************************************************************************)
(* The signals of the runs, each with the points of the loop it arrives    *)
(* at: all of them, and all but a release that the rest of a handler       *)
(* overwrites or that select misses.  Addresses are interchangeable.       *)
(***************************************************************************)
EXTENDS Udhcpc, TLC

CONSTANTS a1, a2

AllSignals == {"SIGUSR1", "SIGUSR2"} \X {"select", "script", "late"}
RenewSignals == AllSignals \ {<<"SIGUSR2", "script">>, <<"SIGUSR2", "late">>}
Symmetry == Permutations(Addrs)
=============================================================================
