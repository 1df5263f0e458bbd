------------------------------- MODULE Lease -------------------------------
(***************************************************************************)
(* What the sync mutex of the UTxO index promises, without its row in the  *)
(* store: one client at a time holds the lease; a lease that has not       *)
(* expired ends only by its own release; an expired one may be taken over. *)
(***************************************************************************)
CONSTANTS Clients, Nobody

VARIABLES
    holder,   \* the client that has the lease, or Nobody
    expired   \* the holder has not renewed the lease in time

Init == holder = Nobody /\ expired = FALSE

Take(c) ==
    /\ holder = Nobody \/ expired
    /\ holder' = c /\ expired' = FALSE

Renew ==
    /\ holder # Nobody
    /\ expired' = FALSE /\ UNCHANGED holder

Release ==
    /\ holder # Nobody
    /\ holder' = Nobody /\ expired' = FALSE

Expire ==
    /\ holder # Nobody
    /\ expired' = TRUE /\ UNCHANGED holder

Next == (\E c \in Clients : Take(c)) \/ Renew \/ Release \/ Expire

Spec == Init /\ [][Next]_<<holder, expired>>
=============================================================================
