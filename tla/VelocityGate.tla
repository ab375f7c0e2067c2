----------------------------- MODULE VelocityGate -----------------------------
(***************************************************************************)
(* The Velocity plugin's DownstreamAuthListener: the sets it keeps about   *)
(* the players on a proxy, each keyed by UUID, and its event handlers.     *)
(* A slot is one UUID on one gate.  A session is one network connection;   *)
(* the sets are keyed by slot and not by session, so a handler that runs   *)
(* late for an old session acts on the sets of the next one.               *)
(*                                                                         *)
(* Velocity is external: it keeps at most one live connection per UUID,    *)
(* and fires DisconnectEvent some time after it has dropped a connection.  *)
(***************************************************************************)
EXTENDS Naturals, Domain

CONSTANTS
    Session,      \* connection ids
    NoPresence,   \* "no entry" in the presences map
    MaxSwap       \* bound: hot replacements of the runtime, over all gates

ASSUME GateAssumption == NoPresence \notin Presence /\ MaxSwap \in Nat

VARIABLES
    sess,         \* the connections Velocity knows of
    pending,      \* slots that logged in and are not validated yet
    allowed,      \* slots let through to the backend servers
    validating,   \* slots whose grant is being consumed
    gatePres,     \* the presences map
    ending,       \* presences whose endPresence call is scheduled or running
    swaps,        \* how often each gate's runtime was replaced
    overtaken     \* history: sessions whose entries in the sets a handler of
                  \* an earlier session of the slot has removed

gateVars == <<sess, pending, allowed, validating, gatePres, ending, swaps, overtaken>>

Slot == Gate \X Profile

NoSession == [st |-> "none"]

\* "closed": dropped, DisconnectEvent not handled; "leaving": handled half.
SessionRec == [st : {"active", "closed", "leaving", "gone"}, slot : Slot]

GateTypeOK ==
    /\ sess \in [Session -> SessionRec \cup {NoSession}]
    /\ pending \subseteq Slot
    /\ allowed \subseteq Slot
    /\ validating \subseteq Slot
    /\ gatePres \in [Slot -> Presence \cup {NoPresence}]
    /\ ending \subseteq Presence
    /\ swaps \in [Gate -> Nat]
    /\ overtaken \subseteq Session

GateInit ==
    /\ sess = [c \in Session |-> NoSession]
    /\ pending = {}
    /\ allowed = {}
    /\ validating = {}
    /\ gatePres = [x \in Slot |-> NoPresence]
    /\ ending = {}
    /\ swaps = [n \in Gate |-> 0]
    /\ overtaken = {}

IsActive(c) == sess[c].st = "active"

\* A connection of the slot is live: player.isActive for some player.
Online(x) == \E c \in Session : IsActive(c) /\ sess[c].slot = x

\* Fault: a dropped connection still counts.
MatchesDropped(c, p) ==
    /\ sess[c] # NoSession
    /\ sess[c].slot \in allowed
    /\ gatePres[sess[c].slot] = p

\* presenceActionMatchesPlayer: this live session is the one Core means by p.
MatchesPresence(c, p) ==
    /\ IsActive(c)
    /\ sess[c].slot \in allowed
    /\ gatePres[sess[c].slot] = p

Matched(p) == {c \in Session : MatchesPresence(c, p)}

\* player.disconnect on each of the sessions cs that is still live.
Drop(cs) ==
    sess' = [c \in Session |->
        IF c \in cs /\ IsActive(c) THEN [sess[c] EXCEPT !.st = "closed"]
                                   ELSE sess[c]]

\* The sessions for which the sets may hold the UUID when a handler of session
\* c removes it.
Others(c, x) == {d \in Session \ {c} : IsActive(d) /\ sess[d].slot = x}

\* onGameProfileRequest gave the player its UUID; onLogin.
OnLogin(c, x) ==
    /\ sess[c] = NoSession
    /\ ~Online(x)
    /\ sess' = [sess EXCEPT ![c] = [st |-> "active", slot |-> x]]
    /\ pending' = pending \cup {x}
    /\ UNCHANGED <<allowed, validating, gatePres, ending, swaps, overtaken>>

\* Fault: the sets are cleared and the player stays.
RejectWithoutDisconnect(c, x, cur) ==
    /\ pending' = IF cur THEN pending \ {x} ELSE pending
    /\ allowed' = IF cur THEN allowed \ {x} ELSE allowed
    /\ validating' = IF cur THEN validating \ {x} ELSE validating
    /\ UNCHANGED <<sess, gatePres, ending, swaps, overtaken>>

\* rejectWith for the session c of slot x, run by a listener that is current
\* (cur) or was replaced: a replaced listener only has the disconnect left.
RejectWith(c, x, cur) ==
    /\ Drop({c})
    /\ pending' = IF cur THEN pending \ {x} ELSE pending
    /\ allowed' = IF cur THEN allowed \ {x} ELSE allowed
    /\ validating' = IF cur THEN validating \ {x} ELSE validating
    /\ overtaken' = IF cur THEN (overtaken \cup Others(c, x)) \ {c} ELSE overtaken
    /\ UNCHANGED <<gatePres, ending, swaps>>

\* onCookieReceive up to the call of Core: only the first of several cookie
\* answers of a slot passes the validating set.
OnCookieReceive(c) ==
    /\ IsActive(c)
    /\ sess[c].slot \notin allowed
    /\ sess[c].slot \notin validating
    /\ validating' = validating \cup {sess[c].slot}
    /\ UNCHANGED <<sess, pending, allowed, gatePres, ending, swaps, overtaken>>

\* onCookieReceive with no or an empty cookie.
OnCookieMissing(c) ==
    /\ IsActive(c)
    /\ sess[c].slot \notin allowed
    /\ sess[c].slot \notin validating
    /\ RejectWith(c, sess[c].slot, TRUE)

\* scheduleValidationTimeout fires.
ValidationTimeout(c) ==
    /\ IsActive(c)
    /\ sess[c].slot \in pending \ allowed
    /\ RejectWith(c, sess[c].slot, TRUE)

\* The two writes that follow a positive answer of Core, in their order.
AcceptAllow(x) ==
    /\ allowed' = allowed \cup {x}
    /\ UNCHANGED <<sess, pending, validating, gatePres, ending, swaps, overtaken>>

AcceptRecord(c, x, p) ==
    /\ gatePres' = [gatePres EXCEPT ![x] = p]
    /\ validating' = validating \ {x}
    /\ pending' = pending \ {x}
    /\ overtaken' = overtaken \cup Others(c, x)
    /\ UNCHANGED <<sess, allowed, ending, swaps>>

\* The client, or the network, drops the connection.
ConnectionLost(c) ==
    /\ IsActive(c)
    /\ Drop({c})
    /\ UNCHANGED <<pending, allowed, validating, gatePres, ending, swaps, overtaken>>

\* onDisconnect, first the sets, then the presences map.
OnDisconnectSets(c) ==
    /\ sess[c].st = "closed"
    /\ sess' = [sess EXCEPT ![c].st = "leaving"]
    /\ pending' = pending \ {sess[c].slot}
    /\ allowed' = allowed \ {sess[c].slot}
    /\ validating' = validating \ {sess[c].slot}
    /\ overtaken' = (overtaken \cup Others(c, sess[c].slot)) \ {c}
    /\ UNCHANGED <<gatePres, ending, swaps>>

OnDisconnectPresence(c) ==
    /\ sess[c].st = "leaving"
    /\ sess' = [sess EXCEPT ![c].st = "gone"]
    /\ gatePres' = [gatePres EXCEPT ![sess[c].slot] = NoPresence]
    /\ ending' = ending \cup ({gatePres[sess[c].slot]} \ {NoPresence})
    /\ UNCHANGED <<pending, allowed, validating, swaps, overtaken>>

\* stop, then start of the next runtime from the exported state: only the
\* allowed set and the presences of players that are online survive.
RuntimeSwap(n) ==
    /\ swaps[n] < MaxSwap
    /\ swaps' = [swaps EXCEPT ![n] = @ + 1]
    /\ pending' = {x \in pending : x[1] # n}
    /\ validating' = {x \in validating : x[1] # n}
    /\ allowed' = {x \in allowed : x[1] # n \/ Online(x)}
    /\ gatePres' = [x \in Slot |-> IF x[1] # n \/ Online(x) THEN gatePres[x]
                                                           ELSE NoPresence]
    /\ UNCHANGED <<sess, ending, overtaken>>

===============================================================================
