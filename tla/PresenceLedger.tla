---------------------------- MODULE PresenceLedger ----------------------------
(***************************************************************************)
(* What Core promises about transfer grants and presences, without         *)
(* handlers, gates or messages: a ticket is issued once and spent once; a  *)
(* spent ticket gives at most one seat; a player holds at most one seat at *)
(* a server at a time; a seat that was left is never held again.           *)
(***************************************************************************)
CONSTANTS Profile, Server, Grant, Presence

VARIABLES ticket, seat

ledger == <<ticket, seat>>

Free == [st |-> "none"]

SeatRec == [st : {"held", "left"}, profile : Profile, server : Server,
            grant : Grant]

LedgerTypeOK ==
    /\ ticket \in [Grant -> {"none", "issued", "spent"}]
    /\ seat \in [Presence -> SeatRec \cup {Free}]

Init ==
    /\ ticket = [g \in Grant |-> "none"]
    /\ seat = [p \in Presence |-> Free]

Issue(g) ==
    /\ ticket[g] = "none"
    /\ ticket' = [ticket EXCEPT ![g] = "issued"]
    /\ UNCHANGED seat

Spend(g) ==
    /\ ticket[g] = "issued"
    /\ ticket' = [ticket EXCEPT ![g] = "spent"]
    /\ UNCHANGED seat

TakeSeat(p, u, s, g) ==
    /\ ticket[g] = "spent"
    /\ seat[p] = Free
    /\ \A q \in Presence : seat[q] # Free => seat[q].grant # g
    /\ \A q \in Presence : seat[q].st = "held" =>
          <<seat[q].profile, seat[q].server>> # <<u, s>>
    /\ seat' = [seat EXCEPT ![p] =
            [st |-> "held", profile |-> u, server |-> s, grant |-> g]]
    /\ UNCHANGED ticket

\* Any number of seats is left at once: a ban covers all of a passport.
LeaveSeats(ps) ==
    /\ \A p \in ps : seat[p].st = "held"
    /\ seat' = [p \in Presence |->
            IF p \in ps THEN [seat[p] EXCEPT !.st = "left"] ELSE seat[p]]
    /\ UNCHANGED ticket

Next ==
    \/ \E g \in Grant : Issue(g) \/ Spend(g)
    \/ \E p \in Presence, u \in Profile, s \in Server, g \in Grant :
          TakeSeat(p, u, s, g)
    \/ \E ps \in SUBSET Presence : LeaveSeats(ps)

Spec == Init /\ [][Next]_ledger

===============================================================================
