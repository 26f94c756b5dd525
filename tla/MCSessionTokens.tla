-------------------------- MODULE MCSessionTokens --------------------------
(* What a user of the application has in hand, for TLC: the sessions of    *)
(* one user (SessionTokens), the pages of a supplier and the notices of a  *)
(* manager (Portal), and any list that is read page by page (Listings).    *)
(* A behaviour is of one of them and leaves the others where they begin;   *)
(* so they can share the model values, and few permutations serve all.     *)
EXTENDS SessionTokens, Portal, Listings, TLC

CONSTANTS
    x1, x2, x3, y1, y2, z1, z2, c1, c2, n1, n2

VARIABLE part       \* which of the three

Symmetry == Permutations({x1, x2}) \cup Permutations({y1, y2})

-----------------------------------------------------------------------------
(* One company is changed, and may have a namesake.  What namesakes, two   *)
(* changes at once, notices read and accounts set by hand do is looked at  *)
(* each for itself.                                                        *)
Overlap == Cardinality({r \in Changes : change[r] # NoChange}) > 1
ReadIn == {l \in Lots : inbox[c1][l] = "read"}

Bounded ==
    /\ \A r \in Changes : change[r] # NoChange => change[r].company = c1
    /\ upload # NoUpload => upload.company = c1
    /\ c2 \in Known => c1 \in Known /\ slipped = {} /\ ReadIn = {}
    /\ Cardinality(ReadIn) <= 1
    /\ Overlap => /\ upload = NoUpload
                  /\ c2 \notin Known /\ ReadIn = {} /\ slipped = {}
                  /\ \A l \in Lots : lot[l] = "BIDDING"

(* The first change to begin is z1. *)
InOrder == change[z2] = NoChange /\ change'[z2] # NoChange => change[z1] # NoChange

BoundedPortal == PortalNext /\ Bounded' /\ InOrder

-----------------------------------------------------------------------------
MCInit ==
    /\ part \in {"sessions", "portal", "list"}
    /\ Init
    /\ PortalInit /\ name[c1] = n1 /\ (part # "portal" => name[c2] = n1)
    /\ ListInit /\ (part # "list" => list = Projects)

MCNext ==
    \/ part = "sessions" /\ Next /\ UNCHANGED <<part, portalVars, listVars>>
    \/ part = "portal" /\ BoundedPortal /\ UNCHANGED <<part, vars, listVars>>
    \/ part = "list" /\ ListNext /\ UNCHANGED <<part, vars, portalVars>>

MCSpec ==
    MCInit /\ [][MCNext]_<<part, vars, portalVars, listVars>>
=============================================================================
