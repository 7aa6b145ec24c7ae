------------------------------ MODULE ShortLock ------------------------------
(***************************************************************************)
(* What a controller lock promises its users: one holder at a time, as     *)
(* long as no process has died with the lock in its hands and none has     *)
(* kept it beyond its lifetime.  From then on nothing is promised.         *)
(***************************************************************************)
CONSTANT Procs

VARIABLES
    holders,        \* the processes inside withControllerLock's operation
    broken          \* whether a process died or overran the lifetime

lockVars == <<holders, broken>>

Init == holders = {} /\ broken = FALSE

Acquire(p) ==
    /\ holders = {} \/ broken
    /\ holders' = holders \cup {p}
    /\ UNCHANGED broken

Release(p) ==
    /\ p \in holders
    /\ holders' = holders \ {p}
    /\ UNCHANGED broken

(* A process may vanish from the holders as it dies.                       *)
Break ==
    /\ broken' = TRUE
    /\ holders' \subseteq holders

Next == Break \/ \E p \in Procs : Acquire(p) \/ Release(p)

Spec == Init /\ [][Next]_lockVars
=============================================================================
