------------------------------ MODULE KeyLookup ------------------------------
(***************************************************************************)
(* What the network database promises to those who ask it for a router: a  *)
(* lookup is started only for a router that is neither known, nor being    *)
(* looked up, nor remembered as not found; it ends, and it ends as found   *)
(* only when the router's description is in the database.  Dispatch.tla,   *)
(* the code of SearchManager, DHTFacade, NegativeLookupCache and the       *)
(* message handlers, implements this specification.                        *)
(***************************************************************************)
EXTENDS Naturals

CONSTANT Routers    \* the router hashes that may be asked for

VARIABLES
    known,      \* the routers whose RouterInfo is in the database
    running,    \* the keys a lookup is under way for
    failed      \* the keys the negative cache answers for

lookupVars == <<known, running, failed>>

LookupInit == known \subseteq Routers /\ running = {} /\ failed = {}

\* A RouterInfo arrives, asked for or not.
Learn(k) == known' = known \cup {k} /\ UNCHANGED <<running, failed>>

Start(k) ==
    /\ k \notin known \cup running \cup failed
    /\ running' = running \cup {k}
    /\ UNCHANGED <<known, failed>>

Found(k) ==
    /\ k \in running \cap known
    /\ running' = running \ {k}
    /\ UNCHANGED <<known, failed>>

Fail(k) ==
    /\ k \in running
    /\ running' = running \ {k}
    /\ failed' = failed \cup {k}
    /\ UNCHANGED known

\* The negative cache may forget.
Forget == failed' \subseteq failed /\ UNCHANGED <<known, running>>

LookupNext ==
    \/ \E k \in Routers : Learn(k) \/ Start(k) \/ Found(k) \/ Fail(k)
    \/ Forget

LookupSafety == LookupInit /\ [][LookupNext]_lookupVars

\* Every lookup ends.
LookupSpec == LookupSafety /\ \A k \in Routers : WF_lookupVars(Found(k) \/ Fail(k))
==============================================================================
