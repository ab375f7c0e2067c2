------------------------------- MODULE Domain --------------------------------
(***************************************************************************)
(* The sets that Core and the Velocity gates both speak of.                *)
(***************************************************************************)
CONSTANTS
    Profile,    \* player profiles; a profile and its UUID are one value
    Passport,   \* accounts that own profiles
    Server,     \* downstream servers
    Gate,       \* Velocity nodes that guard a downstream server
    ServerOf,   \* the server each gate is configured with
    Presence    \* presence ids

ASSUME DomainAssumption ==
    /\ ServerOf \in [Gate -> Server]
    /\ Profile \cap Passport = {}

==============================================================================
