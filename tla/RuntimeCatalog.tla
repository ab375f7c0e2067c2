---------------------------- MODULE RuntimeCatalog ----------------------------
(***************************************************************************)
(* Core's catalogue of Velocity runtime releases: the artifacts, and the   *)
(* setting that names the one all gates shall run.  The handlers of the    *)
(* administrators make several store calls each, and nothing holds them    *)
(* together.                                                               *)
(***************************************************************************)
EXTENDS Naturals, Sequences, FiniteSets

CONSTANTS
    Release,   \* SHA-256 values, which also make the release ids
    Admin,     \* requests of administrators
    None

ASSUME NoneAssumption == None \notin Release

VARIABLES
    releases,    \* rows of the catalogue
    configured,  \* the setting velocity_runtime
    admin        \* what a request is about to do next

catalogVars == <<releases, configured, admin>>

AdminRec == [op : {"idle", "get", "set", "delete"}, rel : Release \cup {None}]

AtRest == [op |-> "idle", rel |-> None]

CatalogTypeOK ==
    /\ releases \subseteq Release
    /\ configured \in Release \cup {None}
    /\ admin \in [Admin -> AdminRec]

CatalogInit ==
    /\ releases = {}
    /\ configured = None
    /\ admin = [a \in Admin |-> AtRest]

\* configuredVelocityRuntimeRelease: what a sync names and a download serves.
Served == IF configured \in releases THEN configured ELSE None

\* handleAdminUploadVelocityRuntimeRelease, for a known artifact too.
Upload(a, r) ==
    /\ admin[a] = AtRest
    /\ releases' = releases \cup {r}
    /\ admin' = [admin EXCEPT ![a] = [op |-> "get", rel |-> r]]
    /\ UNCHANGED configured

\* handleAdminActivateVelocityRuntimeRelease.
Activate(a, r) ==
    /\ admin[a] = AtRest
    /\ r \in releases
    /\ admin' = [admin EXCEPT ![a] = [op |-> "get", rel |-> r]]
    /\ UNCHANGED <<releases, configured>>

\* activateVelocityRuntimeRelease, first call ...
ActivateGet(a) ==
    /\ admin[a].op = "get"
    /\ admin' = [admin EXCEPT ![a] =
            IF admin[a].rel \in releases THEN [@ EXCEPT !.op = "set"] ELSE AtRest]
    /\ UNCHANGED <<releases, configured>>

\* ... and second.
ActivateSet(a) ==
    /\ admin[a].op = "set"
    /\ configured' = admin[a].rel
    /\ admin' = [admin EXCEPT ![a] = AtRest]
    /\ UNCHANGED releases

\* handleAdminDeleteVelocityRuntimeRelease looks at the setting ...
DeleteCheck(a, r) ==
    /\ admin[a] = AtRest
    /\ r # configured
    /\ admin' = [admin EXCEPT ![a] = [op |-> "delete", rel |-> r]]
    /\ UNCHANGED <<releases, configured>>

\* ... and deletes the row.
Delete(a) ==
    /\ admin[a].op = "delete"
    /\ releases' = releases \ {admin[a].rel}
    /\ admin' = [admin EXCEPT ![a] = AtRest]
    /\ UNCHANGED configured

CatalogNext ==
    \E a \in Admin :
        \/ \E r \in Release : Upload(a, r) \/ Activate(a, r) \/ DeleteCheck(a, r)
        \/ ActivateGet(a) \/ ActivateSet(a) \/ Delete(a)

CatalogSpec == CatalogInit /\ [][CatalogNext]_catalogVars

===============================================================================
