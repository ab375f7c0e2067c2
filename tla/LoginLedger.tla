------------------------------ MODULE LoginLedger ------------------------------
(***************************************************************************)
(* What the web portal promises of login links and sessions, without       *)
(* requests, profiles or passports: a link is issued once, and closed once *)
(* and for all; only a link that was still open gives a login, and that    *)
(* login one session; a session begins once, from a login that is due or   *)
(* from no link, and one that has ended never comes back.                  *)
(***************************************************************************)
CONSTANTS Link, Session, NoLink

VARIABLES
    ticket,     \* of each link: "none", "open", "closed"
    login,      \* of each link: "no", "due", "done"
    seat,       \* of each session: "new", "live", "gone"
    origin      \* of each session: the link it is from, NoLink for a password

ledger == <<ticket, login, seat, origin>>

Init ==
    /\ ticket = [l \in Link |-> "none"]
    /\ login = [l \in Link |-> "no"]
    /\ seat = [s \in Session |-> "new"]
    /\ origin = [s \in Session |-> NoLink]

Issue(l) ==
    /\ ticket[l] = "none"
    /\ ticket' = [ticket EXCEPT ![l] = "open"]
    /\ UNCHANGED <<login, seat, origin>>

Redeem(l) ==
    /\ ticket[l] = "open"
    /\ ticket' = [ticket EXCEPT ![l] = "closed"]
    /\ login' = [login EXCEPT ![l] = "due"]
    /\ UNCHANGED <<seat, origin>>

BeginByLink(l, s) ==
    /\ login[l] = "due"
    /\ seat[s] = "new"
    /\ login' = [login EXCEPT ![l] = "done"]
    /\ seat' = [seat EXCEPT ![s] = "live"]
    /\ origin' = [origin EXCEPT ![s] = l]
    /\ UNCHANGED ticket

BeginByPassword(s) ==
    /\ seat[s] = "new"
    /\ seat' = [seat EXCEPT ![s] = "live"]
    /\ UNCHANGED <<ticket, login, origin>>

\* Any number of links and sessions end at once: they go with their passport.
End(ls, ss) ==
    /\ \A l \in ls : ticket[l] = "open"
    /\ \A s \in ss : seat[s] = "live"
    /\ ticket' = [l \in Link |-> IF l \in ls THEN "closed" ELSE ticket[l]]
    /\ seat' = [s \in Session |-> IF s \in ss THEN "gone" ELSE seat[s]]
    /\ UNCHANGED <<login, origin>>

Next ==
    \/ \E l \in Link : Issue(l) \/ Redeem(l) \/ \E s \in Session : BeginByLink(l, s)
    \/ \E s \in Session : BeginByPassword(s)
    \/ \E ls \in SUBSET Link, ss \in SUBSET Session : End(ls, ss)

Spec == Init /\ [][Next]_ledger

================================================================================
