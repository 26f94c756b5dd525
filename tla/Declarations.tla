---------------------------- MODULE Declarations ----------------------------
(***************************************************************************)
(* Giving a lot to experts: match_experts proposes those whom the graph    *)
(* shows no conflict of, each confirms or declares a conflict, and a       *)
(* declared conflict is written to the graph and brings in a supplement.   *)
(* Composed with the imports of Conflicts, which fill the same graph.      *)
(*                                                                         *)
(* A request reads the assignments from the snapshot its transaction       *)
(* began with, and the graph at a moment of its own; when Neo4j is away it *)
(* goes on without the check.  The ranking decides who of the unobjected   *)
(* candidates is taken: any choice of the right number here.               *)
(***************************************************************************)
EXTENDS Conflicts, Integers, FiniteSets

CONSTANTS
    Lots,
    Requests,       \* API requests that can be in flight together
    Colleagues,     \* SAME_ORGANIZATION: pairs of experts
    Suitable,       \* pairs <<lot, expert>>: the region and a tag agree
    Local,          \* pairs <<lot, expert>>: the region agrees
    ExpertCount,    \* lot_expert_criteria.expert_count
    Bidding,        \* lots that still take bids when the model starts
    Wavering        \* experts whose status changes

ASSUME MatchAssumption ==
    /\ Colleagues \subseteq Experts \X Experts
    /\ Suitable \subseteq Lots \X Experts
    /\ Local \subseteq Lots \X Experts
    /\ ExpertCount \in Nat
    /\ Bidding \subseteq Lots
    /\ Wavering \subseteq Experts

VARIABLES
    released,       \* lots under review
    bidders,        \* suppliers with a bid_document in the lot
    active,         \* experts with status ACTIVE
    asg,            \* lot_expert_assignment.status, "NONE" without a row
    declared,       \* rows of expert_conflict_declaration
    req             \* matchings and declarations in flight, with what they read

vars == <<conflictVars, released, bidders, active, asg, declared, req>>

-----------------------------------------------------------------------------
AssignmentStatus == {"PENDING_DECLARATION", "IN_PROGRESS", "CONFLICT_DECLARED"}
Column == [Experts -> AssignmentStatus \cup {"NONE"}]

(* barred is a history of the request: whom it should keep out because of  *)
(* what was declared before it began.                                      *)
RequestType ==
    {Idle}
        \cup [op: {"match"}, lot: Lots, seen: Column, cands: SUBSET Experts, barred: SUBSET Experts]
        \cup [op: {"assign"}, lot: Lots, seen: Column, chosen: SUBSET Experts, blind: BOOLEAN,
              barred: SUBSET Experts]
        \cup [op: {"declare"}, lot: Lots, expert: Experts, conflicts: SUBSET Suppliers,
              todo: SUBSET Suppliers]
        \cup [op: {"supplement"}, lot: Lots]
        \cup [op: {"search"}, lot: Lots, cands: SUBSET Experts, barred: SUBSET Experts]
        \cup [op: {"supply"}, lot: Lots, new: Experts, blind: BOOLEAN, barred: SUBSET Experts]
        \cup [op: {"notify"}, lot: Lots, new: Experts]

TypeOK ==
    /\ ConflictsTypeOK
    /\ released \subseteq Lots
    /\ bidders \in [Lots -> SUBSET Suppliers]
    /\ active \subseteq Experts
    /\ asg \in [Lots -> Column]
    /\ declared \subseteq Lots \X Experts \X Suppliers
    /\ req \in [Requests -> RequestType]

Init ==
    /\ ConflictsInit
    /\ released = Lots \ Bidding
    /\ bidders = [l \in Lots |-> IF l \in Bidding THEN {} ELSE Registered]
    /\ active = Experts
    /\ asg = [l \in Lots |-> [e \in Experts |-> "NONE"]]
    /\ declared = {}
    /\ req = [r \in Requests |-> Idle]

-----------------------------------------------------------------------------
(* Experts who declared a conflict with a bidder of the lot that reached   *)
(* the graph.                                                              *)
Barred(l) ==
    {e \in Experts : \E s \in bidders[l], k \in Lots :
        <<k, e, s>> \in declared /\ <<e, s>> \notin missed}

(* _conflicts_with_status: a relation to a bidder, or to another candidate *)
Objected(l, cands) ==
    {e \in cands : \/ \E s \in bidders[l] : <<e, s>> \in relation
                   \/ \E c \in cands \ {e} : <<e, c>> \in Colleagues}

Unobjected(l, cands) == IF up THEN cands \ Objected(l, cands) ELSE cands

Ask(r, q) == req[r] = Idle /\ req' = [req EXCEPT ![r] = q]
Proceed(r, q) == req' = [req EXCEPT ![r] = q]
End(r) == Proceed(r, Idle)

-----------------------------------------------------------------------------
(* The surroundings: bids before the release, the status of an expert      *)
Bid(l, s) ==
    /\ l \notin released
    /\ s \in known
    /\ bidders' = [bidders EXCEPT ![l] = @ \cup {s}]
    /\ UNCHANGED <<conflictVars, released, active, asg, declared, req>>

Release(l) ==
    /\ l \notin released
    /\ released' = released \cup {l}
    /\ UNCHANGED <<conflictVars, bidders, active, asg, declared, req>>

(* update_status: the row and its user in one commit.                      *)
UpdateExpertStatus(e, on) ==
    /\ active' = IF on THEN active \cup {e} ELSE active \ {e}
    /\ UNCHANGED <<conflictVars, released, bidders, asg, declared, req>>

-----------------------------------------------------------------------------
(* match_experts: what it reads from MySQL ...                             *)
MatchBegin(r, l) ==
    /\ l \in released
    /\ Ask(r, [op |-> "match", lot |-> l, seen |-> asg[l],
               cands |-> {e \in active : <<l, e>> \in Suitable},
               barred |-> Barred(l)])
    /\ UNCHANGED <<conflictVars, released, bidders, active, asg, declared>>

(* ... the check of the graph and the choice ...                           *)
MatchCheck(r) ==
    /\ req[r].op = "match"
    /\ LET q == req[r]
           clean == Unobjected(q.lot, q.cands)
       IN  \E chosen \in SUBSET clean :
            /\ IF Cardinality(clean) < ExpertCount
               THEN chosen = clean
               ELSE Cardinality(chosen) = ExpertCount
            /\ Proceed(r, [op |-> "assign", lot |-> q.lot, seen |-> q.seen, chosen |-> chosen,
                           blind |-> ~up, barred |-> q.barred])
    /\ UNCHANGED <<conflictVars, released, bidders, active, asg, declared>>

(* A row that was read is set back to PENDING_DECLARATION, if it was not   *)
(* that; without one it is inserted.                                       *)
Matched(row, seen) == IF seen = "PENDING_DECLARATION" THEN row ELSE "PENDING_DECLARATION"

Collides(l, seen, chosen) == \E e \in chosen : seen[e] = "NONE" /\ asg[l][e] # "NONE"

(* ... and the commit, refused when one of its rows exists by now.         *)
MatchCommit(r) ==
    /\ req[r].op = "assign"
    /\ LET q == req[r]
       IN  asg' = IF Collides(q.lot, q.seen, q.chosen) THEN asg
                  ELSE [asg EXCEPT ![q.lot] =
                        [e \in Experts |-> IF e \in q.chosen THEN Matched(@[e], q.seen[e]) ELSE @[e]]]
    /\ End(r)
    /\ UNCHANGED <<conflictVars, released, bidders, active, declared>>

-----------------------------------------------------------------------------
(* declare, for an assignment that is pending: what is left to do depends  *)
(* on whether any conflict is declared.                                    *)
DeclareBegin(r, l, e, conflicts) ==
    /\ asg[l][e] = "PENDING_DECLARATION"
    /\ conflicts \subseteq bidders[l]
    /\ Ask(r, [op |-> "declare", lot |-> l, expert |-> e,
               conflicts |-> conflicts, todo |-> conflicts])
    /\ UNCHANGED <<conflictVars, released, bidders, active, asg, declared>>

DeclareRelate(r, s) ==
    /\ req[r].op = "declare"
    /\ s \in req[r].todo
    /\ Relate(<<req[r].expert, s>>)
    /\ req' = [req EXCEPT ![r].todo = @ \ {s}]
    /\ UNCHANGED <<known, node, up, cold, imp, cut, raced>>
    /\ UNCHANGED <<released, bidders, active, asg, declared>>

(* The declarations and the status, over whatever the row has by now.      *)
Declare(r) ==
    /\ LET q == req[r]
           conflict == q.conflicts # {}
       IN  /\ asg' = [asg EXCEPT ![q.lot][q.expert] =
                        IF conflict THEN "CONFLICT_DECLARED" ELSE "IN_PROGRESS"]
           /\ declared' = declared \cup {<<q.lot, q.expert, s>> : s \in q.conflicts}
           /\ Proceed(r, IF conflict THEN [op |-> "supplement", lot |-> q.lot] ELSE Idle)
    /\ UNCHANGED <<conflictVars, released, bidders, active>>

(* Mutant: the declaration is committed before its relations are written.  *)
DeclareCommitFirst(r) == req[r].op = "declare" /\ Declare(r)

DeclareCommit(r) == req[r].op = "declare" /\ req[r].todo = {} /\ Declare(r)

(* _supplement: a new transaction reads who is left ...                    *)
SupplementBegin(r) ==
    /\ req[r].op = "supplement"
    /\ LET l == req[r].lot
       IN  Proceed(r, [op |-> "search", lot |-> l,
                       cands |-> {e \in active : <<l, e>> \in Local /\ asg[l][e] = "NONE"},
                       barred |-> Barred(l)])
    /\ UNCHANGED <<conflictVars, released, bidders, active, asg, declared>>

(* ... the graph objects or is away ...                                    *)
SupplementCheck(r) ==
    /\ req[r].op = "search"
    /\ LET q == req[r]
           clean == Unobjected(q.lot, q.cands)
       IN  \/ clean = {} /\ End(r)
           \/ \E e \in clean :
                Proceed(r, [op |-> "supply", lot |-> q.lot, new |-> e, blind |-> ~up,
                            barred |-> q.barred])
    /\ UNCHANGED <<conflictVars, released, bidders, active, asg, declared>>

(* ... and one is inserted, unless a row of theirs appeared meanwhile.     *)
SupplementCommit(r) ==
    /\ req[r].op = "supply"
    /\ LET q == req[r]
       IN  IF asg[q.lot][q.new] = "NONE"
           THEN /\ asg' = [asg EXCEPT ![q.lot][q.new] = "PENDING_DECLARATION"]
                /\ Proceed(r, [op |-> "notify", lot |-> q.lot, new |-> q.new])
           ELSE End(r) /\ UNCHANGED asg
    /\ UNCHANGED <<conflictVars, released, bidders, active, declared>>

(* The notifications, each with a commit of its own.                       *)
SupplementNotify(r) ==
    /\ req[r].op = "notify"
    /\ End(r)
    /\ UNCHANGED <<conflictVars, released, bidders, active, asg, declared>>

(* The process dies, or MySQL refuses the next statement.                  *)
RequestDies(r) ==
    /\ req[r] # Idle
    /\ End(r)
    /\ UNCHANGED <<conflictVars, released, bidders, active, asg, declared>>

-----------------------------------------------------------------------------
Manager(r) ==
    \/ \E l \in Lots : MatchBegin(r, l)
    \/ MatchCheck(r) \/ MatchCommit(r)

Expert(r) ==
    \/ \E l \in Lots, e \in Experts, conflicts \in SUBSET Suppliers : DeclareBegin(r, l, e, conflicts)
    \/ \E s \in Suppliers : DeclareRelate(r, s)
    \/ DeclareCommit(r)
    \/ SupplementBegin(r) \/ SupplementCheck(r) \/ SupplementCommit(r) \/ SupplementNotify(r)

Surroundings ==
    \/ \E l \in Lots, s \in Suppliers : Bid(l, s)
    \/ \E l \in Lots : Release(l)
    \/ \E e \in Wavering, on \in BOOLEAN : UpdateExpertStatus(e, on)

Imports ==
    /\ ConflictsNext
    /\ UNCHANGED <<released, bidders, active, asg, declared, req>>

Next ==
    \/ \E r \in Requests : Manager(r) \/ Expert(r) \/ RequestDies(r)
    \/ Surroundings
    \/ Imports

Spec == Init /\ [][Next]_vars

-----------------------------------------------------------------------------
(* Whoever declared a conflict with a bidder is not given the lot (again)  *)
(* by a matching or a supplement that began after the declaration, on this *)
(* lot or another: the relation is in the graph before the declaration is  *)
(* committed.  Unless Neo4j failed one of the two.                         *)
DeclaredKeepsOut ==
    [][\A r \in Requests, l \in Lots, e \in Experts :
        (/\ req[r].op \in {"assign", "supply"} /\ req'[r] # req[r]
         /\ asg'[l][e] = "PENDING_DECLARATION" /\ asg[l][e] # asg'[l][e])
            => req[r].blind \/ e \notin req[r].barred]_vars
=============================================================================
