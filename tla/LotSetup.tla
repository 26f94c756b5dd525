------------------------------ MODULE LotSetup ------------------------------
(***************************************************************************)
(* Setting a lot up: the lots of a project and their share of its budget   *)
(* (create_lot), the scoring dimensions of a lot with their criteria       *)
(* (add_dimensions), the numbers and weights experts are chosen by         *)
(* (configure_expert_criteria), and the share of the dimensions that a     *)
(* matching gives to each chosen expert (match_experts).                   *)
(*                                                                         *)
(* A request is one transaction under REPEATABLE READ: it reads from the   *)
(* snapshot of its beginning, and what it writes meets the rows of its     *)
(* commit.  Nothing is locked between.  The tables have no foreign keys.   *)
(***************************************************************************)
EXTENDS Integers, FiniteSets, FiniteSetsExt, SequencesExt

CONSTANTS
    Requests,       \* API requests that can be in flight together
    Lots,           \* ids that generate_id can give
    Followed,       \* lots whose dimensions, criteria and experts are followed
    Budget,         \* project.budget
    Amounts,        \* budgets that lots are created with
    Lists,          \* lists of dimensions that are asked for: of each the weight, in
                    \* thousandths, and whether the list gives it criteria
    Profiles,       \* criteria that are asked for
    Experts,
    Tags,
    Skill,          \* [Experts -> SUBSET Tags], expert_specialization in the region
    Experience,     \* [Experts -> Nat], in years
    Quality,        \* [Experts -> 0..10], expert_profile.review_quality in tenths
    Conflicted      \* experts whom the graph shows a conflict of

Dimension == [weight : Nat \ {0}, detailed : BOOLEAN]

ASSUME SetupAssumption ==
    /\ IsFiniteSet(Lots) /\ Followed \subseteq Lots /\ IsFiniteSet(Experts)
    /\ Budget \in Nat /\ Amounts \subseteq Nat \ {0}
    /\ \A list \in Lists : list \in Seq(Dimension) /\ list # <<>>
    /\ Profiles \subseteq [count : Nat, min : Nat, spec : Nat, exp : Nat, qual : Nat, region : Nat]
    /\ Skill \in [Experts -> SUBSET Tags]
    /\ Experience \in [Experts -> Nat] /\ Quality \in [Experts -> 0..10]

VARIABLES
    budget,         \* lot.budget, 0 without a row
    dims,           \* scoring_dimension by number, <<>> without any: as the list that
                    \* made the row had it, detailed being a history
    rubric,         \* numbers of the dimensions that have rows in scoring_criterion
    criteria,       \* lot_expert_criteria, NoRow without one
    asg,            \* lot_expert_assignment.dimension_ids, {0} without a row
    req,            \* requests in flight, with what they read
    released,       \* lots under review
    raced,          \* history: what was written while a like request was in flight
    floor           \* history: how many experts the last matching gave every dimension of now

vars == <<budget, dims, rubric, criteria, asg, released, req, raced, floor>>

-----------------------------------------------------------------------------
Idle == [op |-> "idle"]
NoRow == [count |-> 0]
Unassigned == {0}

(* match_experts without a row of criteria                                 *)
Fallback == [count |-> 5, min |-> 2, spec |-> 400, exp |-> 300, qual |-> 200, region |-> 100]

Exists(l) == budget[l] > 0
Spent == MapThenSumSet(LAMBDA l : budget[l], Lots)

Init ==
    /\ budget = [l \in Lots |-> 0]
    /\ dims = [l \in Followed |-> <<>>]
    /\ rubric = [l \in Followed |-> {}]
    /\ criteria = [l \in Followed |-> NoRow]
    /\ asg = [l \in Followed |-> [e \in Experts |-> Unassigned]]
    /\ released = {}
    /\ req = [r \in Requests |-> Idle]
    /\ raced = {}
    /\ floor = [l \in Followed |-> 0]

-----------------------------------------------------------------------------
Ask(r, q) == req[r] = Idle /\ req' = [req EXCEPT ![r] = q]
End(r) == req' = [req EXCEPT ![r] = Idle]

(* Remembers that r commits while a request like it is in flight.          *)
Race(r) ==
    raced' = IF \E q \in Requests \ {r} : req[q].op = req[r].op
             THEN raced \cup {req[r].op} ELSE raced

(* An accepted request can be lost before its commit: it is rolled back.   *)
RolledBack(r) ==
    /\ req[r] # Idle
    /\ End(r)
    /\ UNCHANGED <<budget, dims, rubric, criteria, asg, released, raced, floor>>

-----------------------------------------------------------------------------
(* Mutant: the other lots are forgotten.                                   *)
FitsAlone(amount) == amount <= Budget

Fits(amount) == Spent + amount <= Budget

(* create_lot: the sum it reads with the new budget has to fit ...         *)
CreateLot(r, l, amount) ==
    /\ ~Exists(l) /\ \A q \in Requests : req[q].op = "lot" => req[q].lot # l
    /\ Fits(amount)
    /\ Ask(r, [op |-> "lot", lot |-> l, amount |-> amount])
    /\ UNCHANGED <<budget, dims, rubric, criteria, asg, released, raced, floor>>

(* ... and the row is inserted in status BIDDING.                          *)
CommitLot(r) ==
    /\ req[r].op = "lot"
    /\ budget' = [budget EXCEPT ![req[r].lot] = req[r].amount]
    /\ Race(r) /\ End(r)
    /\ UNCHANGED <<dims, rubric, criteria, asg, released, floor>>

(* The lot leaves the bidding (close_bidding, confirm_prescreen).          *)
Release(l) ==
    /\ Exists(l) /\ l \notin released
    /\ released' = released \cup {l}
    /\ UNCHANGED <<budget, dims, rubric, criteria, asg, req, raced, floor>>

-----------------------------------------------------------------------------
WeightSum(list) == FoldSeq(LAMBDA d, sum : d.weight + sum, 0, list)

WeightsFit(sum) == 999 <= sum /\ sum <= 1001

(* add_dimensions, in any status of the lot: the weights are summed, and   *)
(* the numbers of the old dimensions read ...                              *)
AddDimensions(r, l, list) ==
    /\ Exists(l)
    /\ WeightsFit(WeightSum(list))
    /\ Ask(r, [op |-> "dims", lot |-> l, list |-> list, old |-> DOMAIN dims[l]])
    /\ UNCHANGED <<budget, dims, rubric, criteria, asg, released, raced, floor>>

(* Mutant: the criteria of the first of them only.                         *)
RubricLeftOfOthers(l, old) == rubric[l] \ {1}

(* ... when there were any, their criteria and the dimensions of the lot   *)
(* are deleted ...                                                         *)
DimensionsLeft(l, old) == IF old = {} THEN dims[l] ELSE <<>>
RubricLeft(l, old) == rubric[l] \ old

(* ... and the new ones inserted, under ids made of the lot and a number,  *)
(* with their criteria, which may be none: a row that is there ends the    *)
(* transaction with an error.                                              *)
Detailed(list) == {d \in DOMAIN list : list[d].detailed}

Taken(l, q) ==
    \/ DOMAIN DimensionsLeft(l, q.old) \cap DOMAIN q.list # {}
    \/ RubricLeft(l, q.old) \cap Detailed(q.list) # {}

Inserted(rows, list) == [d \in DOMAIN rows \cup DOMAIN list |->
                            IF d \in DOMAIN list THEN list[d] ELSE rows[d]]

CommitDimensions(r) ==
    /\ req[r].op = "dims"
    /\ LET q == req[r]
           l == q.lot
       IN  IF Taken(l, q) THEN UNCHANGED <<dims, rubric, floor>>
           ELSE /\ dims' = [dims EXCEPT ![l] = Inserted(DimensionsLeft(l, q.old), q.list)]
                /\ rubric' = [rubric EXCEPT ![l] = RubricLeft(l, q.old) \cup Detailed(q.list)]
                /\ floor' = [floor EXCEPT ![l] = 0]
    /\ Race(r) /\ End(r)
    /\ UNCHANGED <<budget, criteria, asg, released>>

(* list_lot_dimensions: each dimension with the criteria under its id.     *)
ListDimensions(l) ==
    [d \in DOMAIN dims[l] |-> [weight |-> dims[l][d].weight, criteria |-> {d} \cap rubric[l]]]

-----------------------------------------------------------------------------
(* configure_expert_criteria: what is asked for is checked as a whole ...  *)
ConfigureCriteria(r, l, new) ==
    /\ Exists(l)
    /\ WeightsFit(new.spec + new.exp + new.qual + new.region)
    /\ new.count >= new.min
    /\ Ask(r, [op |-> "criteria", lot |-> l, new |-> new, seen |-> criteria[l]])
    /\ UNCHANGED <<budget, dims, rubric, criteria, asg, released, raced, floor>>

(* ... and the columns that differ from the row it read are written; the   *)
(* second of two first rows is refused.                                    *)
Columns(row, seen, new) ==
    [c \in DOMAIN new |-> IF new[c] = seen[c] THEN row[c] ELSE new[c]]

CommitCriteria(r) ==
    /\ req[r].op = "criteria"
    /\ LET q == req[r]
           row == criteria[q.lot]
       IN  criteria' = [criteria EXCEPT ![q.lot] =
                IF q.seen # NoRow THEN Columns(row, q.seen, q.new)
                ELSE IF row = NoRow THEN q.new ELSE row]
    /\ Race(r) /\ End(r)
    /\ UNCHANGED <<budget, dims, rubric, asg, released, floor>>

-----------------------------------------------------------------------------
(* _load_candidates: a tag that is asked for, and the region               *)
Candidates(tags) == {e \in Experts : Skill[e] \cap tags # {}}

(* _score_candidates, in ten-thousandths and rounded: the hits, the years  *)
(* up to thirty, the quality, and the region, which agrees.                *)
Score(e, tags, w) ==
    LET whole == 30 * Cardinality(tags)
        sum == 300 * w.spec * Cardinality(Skill[e] \cap tags)
                 + 10 * w.exp * Min({Experience[e], 30}) * Cardinality(tags)
                 + whole * (w.qual * Quality[e] + 10 * w.region)
    IN  (2 * sum + whole) \div (2 * whole)

Rankings(pool, tags, w) ==
    {ranking \in SetToSeqs(pool) : \A i, j \in DOMAIN ranking :
        i < j => Score(ranking[i], tags, w) >= Score(ranking[j], tags, w)}

(* _assign_dimensions: the chosen take a dimension each in turn, and a     *)
(* dimension that is short of experts goes to the first who lack it.       *)
FirstRound(i, n) == ((i - 1) % n) + 1

(* Mutant: an expert too few.                                              *)
FilledButOne(d, n, size, min) ==
    LET first == {i \in 1..size : FirstRound(i, n) = d}
        lack == {i \in 1..size \ first :
                    Cardinality({j \in 1..i : j \notin first}) < min - Cardinality(first)}
    IN  first \cup lack

Filled(d, n, size, min) ==
    LET first == {i \in 1..size : FirstRound(i, n) = d}
        lack == {i \in 1..size \ first :
                    Cardinality({j \in 1..i : j \notin first}) <= min - Cardinality(first)}
    IN  first \cup lack

Share(i, n, size, min) == {d \in 1..n : i \in Filled(d, n, size, min)}

(* match_experts reads the criteria, the dimensions, the candidates and    *)
(* the rows of the experts ...                                             *)
MatchExperts(r, l, tags) ==
    /\ l \in released /\ tags # {}
    /\ Ask(r, [op |-> "match", lot |-> l, tags |-> tags, dims |-> dims[l], seen |-> asg[l],
               by |-> IF criteria[l] = NoRow THEN Fallback ELSE criteria[l]])
    /\ UNCHANGED <<budget, dims, rubric, criteria, asg, released, raced, floor>>

(* ... asks the graph who has a conflict, when it answers; and writes the  *)
(* rows of the chosen: a new row, or what differs from the row it read.  A *)
(* new row that is there by now ends the transaction with an error.        *)
CommitMatch(r) ==
    /\ req[r].op = "match"
    /\ \E pool \in {Candidates(req[r].tags), Candidates(req[r].tags) \ Conflicted} :
       \E ranking \in Rankings(pool, req[r].tags, req[r].by) :
        LET q == req[r]
            size == Min({Len(ranking), q.by.count})
            chosen == {ranking[i] : i \in 1..size}
            share == [e \in chosen |->
                        Share(CHOOSE i \in 1..size : ranking[i] = e, Len(q.dims), size, q.by.min)]
        IN  IF \E e \in chosen : q.seen[e] = Unassigned /\ asg[q.lot][e] # Unassigned
            THEN UNCHANGED <<asg, floor>>
            ELSE /\ asg' = [asg EXCEPT ![q.lot] = [e \in Experts |->
                                IF e \in chosen /\ share[e] # q.seen[e] THEN share[e] ELSE @[e]]]
                 /\ floor' = [floor EXCEPT ![q.lot] =
                                IF q.dims = dims[q.lot] THEN Min({size, q.by.min}) ELSE 0]
    /\ Race(r) /\ End(r)
    /\ UNCHANGED <<budget, dims, rubric, criteria, released>>

-----------------------------------------------------------------------------
(* The endpoints.                                                          *)
PostLot(r) == \E l \in Lots, amount \in Amounts : CreateLot(r, l, amount)
PostDimensions(r) == \E l \in Followed, list \in Lists : AddDimensions(r, l, list)
PostCriteria(r) == \E l \in Followed, new \in Profiles : ConfigureCriteria(r, l, new)
PostMatch(r) == \E l \in Followed, tags \in SUBSET Tags : MatchExperts(r, l, tags)

Next ==
    \E r \in Requests :
        \/ PostLot(r) \/ PostDimensions(r) \/ PostCriteria(r) \/ PostMatch(r)
        \/ CommitLot(r) \/ CommitDimensions(r) \/ CommitCriteria(r) \/ CommitMatch(r)
        \/ RolledBack(r)
        \/ \E l \in Followed : Release(l)

Spec == Init /\ [][Next]_vars

-----------------------------------------------------------------------------
(* The budgets of the lots never add up to more than that of the project,  *)
(* unless two lots were created at a time: create_lot sums without a lock. *)
WithinBudget == "lot" \notin raced => Spent <= Budget

(* Whoever else is configuring it, the dimensions of a lot are those of    *)
(* one request: their weights add up to one, within the tolerance.         *)
WeightsAddUp == \A l \in Followed : dims[l] # <<>> => WeightsFit(WeightSum(dims[l]))

(* A dimension is shown with criteria when the list that made it gave it   *)
(* some, and only then, and none are left of one that was replaced; unless *)
(* two replacements overlapped: then rows can stay that no replacement     *)
(* deletes, which refuse a later list that has criteria there, or come     *)
(* back under a dimension that was given none.                             *)
CriteriaBelong ==
    "dims" \notin raced => \A l \in Followed :
        /\ rubric[l] \subseteq DOMAIN dims[l]
        /\ \A d \in DOMAIN dims[l] :
            ListDimensions(l)[d].criteria # {} <=> dims[l][d].detailed

(* The numbers a matching goes by fit together: at least as many experts   *)
(* as a dimension needs, and weights of one; unless two requests for the   *)
(* criteria overlapped, which write the columns they change.               *)
CriteriaFit ==
    "criteria" \notin raced =>
        \A l \in Followed : criteria[l] # NoRow =>
            LET c == criteria[l]
            IN  c.count >= c.min /\ WeightsFit(c.spec + c.exp + c.qual + c.region)

(* The numbers that scores and matchings are computed with fit together.   *)
NumbersFit == WeightsAddUp /\ CriteriaFit

(* However many configure it at once, a lot has numbers that fit together, *)
(* and its dimensions the criteria they were given.                        *)
SetupFits == NumbersFit /\ CriteriaBelong

(* Until the dimensions are replaced, every one of them has the experts    *)
(* that the last matching was to give it, or all that it chose when these  *)
(* were fewer, whoever was assigned before; unless two matchings           *)
(* overlapped.                                                             *)
EveryDimensionCovered ==
    "match" \notin raced =>
        \A l \in Followed : \A d \in DOMAIN dims[l] :
            Cardinality({e \in Experts : d \in asg[l][e]}) >= floor[l]
=============================================================================
