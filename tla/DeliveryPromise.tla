--------------------------- MODULE DeliveryPromise ---------------------------
(***************************************************************************)
(* What the projection promises, object by object, without tables, leases  *)
(* or processes: clients want a state of the object; delivering it is      *)
(* granted to one consumer at a time, anew whenever that seems necessary;  *)
(* and only the latest grantee can report a delivery, which then is a      *)
(* delivery of what is wanted at that very moment.                         *)
(***************************************************************************)
CONSTANTS Object, Consumer, Desire, Nothing, NoOne

VARIABLES
    wanted,     \* object -> the desired state, or Nothing
    shown,      \* object -> the last delivered state, or Nothing
    settled,    \* objects delivered as wanted
    holder      \* object -> the consumer a delivery is granted to

promise == <<wanted, shown, settled, holder>>

Init ==
    /\ wanted = [o \in Object |-> Nothing]
    /\ shown = [o \in Object |-> Nothing]
    /\ settled = {}
    /\ holder = [o \in Object |-> NoOne]

Want(o, d) ==
    /\ wanted' = [wanted EXCEPT ![o] = d]
    /\ settled' = settled \ {o}
    /\ holder' \in {holder, [holder EXCEPT ![o] = NoOne]}
    /\ UNCHANGED shown

Grant(o, c) ==
    /\ wanted[o] # Nothing
    /\ o \notin settled
    /\ holder' = [holder EXCEPT ![o] = c]
    /\ UNCHANGED <<wanted, shown, settled>>

Deliver(o) ==
    /\ holder[o] # NoOne
    /\ shown' = [shown EXCEPT ![o] = wanted[o]]
    /\ settled' = settled \cup {o}
    /\ holder' = [holder EXCEPT ![o] = NoOne]
    /\ UNCHANGED wanted

\* Grants are withdrawn: a failure, a reaped lease, a newer wish.
Withdraw(gone) ==
    /\ holder' = [o \in Object |-> IF o \in gone THEN NoOne ELSE holder[o]]
    /\ UNCHANGED <<wanted, shown, settled>>

Next ==
    \/ \E o \in Object, d \in Desire : Want(o, d)
    \/ \E o \in Object, c \in Consumer : Grant(o, c)
    \/ \E o \in Object : Deliver(o)
    \/ \E gone \in SUBSET Object : Withdraw(gone)

Spec == Init /\ [][Next]_promise

=============================================================================
