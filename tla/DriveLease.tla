----------------------------- MODULE DriveLease -----------------------------
(***************************************************************************)
(* What the drive of the robot promises to its two masters, the navigation  *)
(* loop and the remote controller: a navigation command reaches the motors  *)
(* only under a lease that was taken while the remote controller was not in *)
(* charge, one command per lease, and a remote command reaches them only    *)
(* while the remote controller is in charge.                                *)
(***************************************************************************)
CONSTANTS Speeds,      \* the pairs of wheel speeds a command may carry
          Main, Rx     \* the navigation loop and the remote controller

VARIABLES active,      \* the remote controller is in charge
          lease,       \* the navigation loop may send one more command
          last         \* the command the motors obey

vars == <<active, lease, last>>

Command == [by : {Main, Rx}, speed : Speeds]

Init == /\ active = FALSE
        /\ lease = FALSE
        /\ last \in [by : {Main}, speed : Speeds]

TakeOver == /\ active' = TRUE
            /\ UNCHANGED <<lease, last>>

GiveBack == /\ active' = FALSE
            /\ UNCHANGED <<lease, last>>

Grant == /\ ~active
         /\ ~lease
         /\ lease' = TRUE
         /\ UNCHANGED <<active, last>>

\* The serial line may lose the command: the lease is used up all the same.
UseLease == /\ lease
            /\ lease' = FALSE
            /\ last' \in {last} \cup [by : {Main}, speed : Speeds]
            /\ UNCHANGED active

RemoteCommand == /\ active
                 /\ last' \in [by : {Rx}, speed : Speeds]
                 /\ UNCHANGED <<active, lease>>

Next == TakeOver \/ GiveBack \/ Grant \/ UseLease \/ RemoteCommand

Spec == Init /\ [][Next]_vars
=============================================================================
