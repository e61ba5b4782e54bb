-------------------------- MODULE PortPublication --------------------------
(***************************************************************************)
(* What a listener promises about its external port: the gateway may       *)
(* assign another one, and each assignment is published to the users of    *)
(* the listener before the next one is made.  Nothing is skipped, nothing  *)
(* is published out of order, and what was assigned is published in time.  *)
(***************************************************************************)
CONSTANT Ports

VARIABLES
    assigned,   \* the port the gateway last assigned
    published   \* the port the listener reports

Init == assigned \in Ports /\ published = assigned

Assign ==
    /\ published = assigned
    /\ assigned' \in Ports
    /\ UNCHANGED published

Publish ==
    /\ published # assigned
    /\ published' = assigned
    /\ UNCHANGED assigned

Next == Assign \/ Publish

Spec == Init /\ [][Next]_<<assigned, published>>
             /\ WF_<<assigned, published>>(Publish)
=============================================================================
