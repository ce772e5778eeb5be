----------------------------- MODULE Diagnosis -----------------------------
(***************************************************************************)
(* What publication promises to a user of the service, without handlers,   *)
(* reads or transactions: a clock moves along its status machine, and at   *)
(* most one snapshot per clock is its diagnosis in force.  Publishing puts *)
(* a snapshot in force and seals the clock in one step; a diagnosis in     *)
(* force is replaced, never withdrawn.                                     *)
(***************************************************************************)
EXTENDS Model

CONSTANTS Clocks, Snaps, SnapClock, None

VARIABLES status,    \* status of each clock
          inForce    \* the published snapshot of each clock, or None

vars == <<status, inForce>>

TypeOK == /\ status \in [Clocks -> ClockStatus]
          /\ inForce \in [Clocks -> Snaps \cup {None}]

Init == /\ status = [c \in Clocks |-> "collecting"]
        /\ inForce = [c \in Clocks |-> None]

Move(c, next) == /\ CanTransition(status[c], next)
                 /\ status' = [status EXCEPT ![c] = next]
                 /\ UNCHANGED inForce

Publish(c, s) == /\ SnapClock[s] = c
                 /\ inForce' = [inForce EXCEPT ![c] = s]
                 /\ status' = [status EXCEPT ![c] = "sealed"]

Next == \E c \in Clocks : \/ \E next \in ClockStatus : Move(c, next)
                          \/ \E s \in Snaps : Publish(c, s)

Spec == Init /\ [][Next]_vars
=============================================================================
