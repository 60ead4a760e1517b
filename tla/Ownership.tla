----------------------------- MODULE Ownership ------------------------------
(***************************************************************************)
(* What Holder.h promises its users: at every moment a resource has one    *)
(* owner, the client that acquired it or one holder; it changes hands as a *)
(* whole, and a holder that gets a new one gives its old one back to the   *)
(* system.                                                                 *)
(***************************************************************************)
CONSTANTS Holders, Resources, Nobody, Client

VARIABLE owner   \* resource: its owner

Init == owner = [r \in Resources |-> Nobody]

\* The system hands r to the client.
Acquire(r) ==
    /\ owner[r] = Nobody
    /\ owner' = [x \in Resources |-> IF x = r THEN Client ELSE owner[x]]

\* h takes r from the client.
Take(h, r) ==
    /\ owner[r] = Client
    /\ owner' = [x \in Resources |->
                    IF x = r THEN h ELSE IF owner[x] = h THEN Nobody ELSE owner[x]]

\* h takes over what g has.
TakeOver(h, g) ==
    owner' = [x \in Resources |->
                    IF owner[x] = g THEN h ELSE IF owner[x] = h THEN Nobody ELSE owner[x]]

\* h parts with what it has: back to the client or to the system.
Part(h, who) ==
    owner' = [x \in Resources |-> IF owner[x] = h THEN who ELSE owner[x]]

Next ==
    \/ \E r \in Resources : Acquire(r)
    \/ \E h \in Holders :
        \/ \E r \in Resources : Take(h, r)
        \/ \E g \in Holders \ {h} : TakeOver(h, g)
        \/ \E who \in {Nobody, Client} : Part(h, who)

Spec == Init /\ [][Next]_owner

=============================================================================
