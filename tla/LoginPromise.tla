---------------------------- MODULE LoginPromise ----------------------------
(***************************************************************************)
(* What the login portal promises of its connections, in terms of where    *)
(* each is, what its player sees and who vouched for it.                   *)
(***************************************************************************)
CONSTANT Conn    \* connections

VARIABLE conns   \* where each connection is, and what its player sees

\* requireAuthedResolve, handleChat and the ways past the login dialog: a
\* connection is shown its passport's profiles, or sent on, only after Core
\* vouched for it as that passport (by a password, a registration, a cache
\* entry or a verified session), or it clicked through a dialog for which Core
\* asks no password because it calls the login locked: the passport was locked
\* at that time, or the primary profile of an active passport was.  The latter
\* may then be sent on with another profile, the former once it is unlocked.
AfterLoginOnly ==
    \A c \in Conn :
        \/ conns[c].at \in {"transfer", "sent"}
        \/ conns[c].screen = "profile"
        => conns[c].standing # "stranger"

=============================================================================
