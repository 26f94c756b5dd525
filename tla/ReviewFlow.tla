----------------------------- MODULE ReviewFlow -----------------------------
(***************************************************************************)
(* The review of one project's lots, from their release to the award: the  *)
(* rows of expert_review with their locking, the suspension of the reviews *)
(* of a blacklisted supplier and its undoing, the closing of a lot, the    *)
(* award and the archive job it starts.                                    *)
(*                                                                         *)
(* As in BidLifecycle, a handler that reads and then writes is two         *)
(* actions; it reads from the snapshot its transaction began with.  The    *)
(* ORM writes a column only where the new value differs from the one read. *)
(* One dimension stands for all those an expert is assigned.               *)
(***************************************************************************)
EXTENDS Integers

CONSTANTS
    Lots,           \* lots of the project, under review when the model starts
    Suppliers,
    Bids,           \* sealed bids
    BidLot, BidSupplier,
    Experts,
    Assigned,       \* pairs <<lot, expert>> in lot_expert_assignment
    Reviews,        \* review ids that may be created
    Requests,       \* API requests that can be in flight together
    Scores,         \* scores an expert can give ...
    Suggestions,    \* ... and the AI can suggest
    NoScore,        \* NULL, for either
    MaxRuns         \* deliveries of archive jobs

ASSUME OwnersAssumption ==
    /\ BidLot \in [Bids -> Lots]
    /\ BidSupplier \in [Bids -> Suppliers]
    /\ Assigned \subseteq Lots \X Experts

ASSUME BoundsAssumption ==
    /\ Scores \subseteq Nat
    /\ Suggestions \subseteq Nat
    /\ NoScore \notin Nat
    /\ MaxRuns \in Nat

VARIABLES
    awarded,        \* whether project.status = AWARDED
    lot,            \* lot.status
    bid,            \* bid_document.status
    blacklisted,    \* supplier.blacklisted
    review,         \* rows of expert_review
    req,            \* API requests in flight, with what they read
    jobs,           \* archive jobs queued, and past their first commit
    runs,           \* deliveries of archive jobs so far
    total,          \* expert_profile.total_reviews
    before,         \* history: the status a review had when it was suspended
    late            \* history: reviews created when their lot was, or was
                    \* about to be, evaluated

vars == <<awarded, lot, bid, blacklisted, review, req, jobs, runs, total, before, late>>

-----------------------------------------------------------------------------
(* Types *)

LotStatus == {"UNDER_REVIEW", "EVALUATED"}
BidStatus == {"FROZEN", "DISQUALIFIED"}
LockedStatus == {"CONFIRMED", "MANUAL_ADJUSTED"}
LiveStatus == {"DRAFT"} \cup LockedStatus
Score == Scores \cup {NoScore}
Suggestion == Suggestions \cup {NoScore}

Row == [status: LiveStatus \cup {"SUSPENDED"}, prev: LiveStatus \cup {"NULL"},
        expert: Experts, bid: Bids, score: Score, ai: Suggestion]

NoRow == [status |-> "NONE"]

(* The columns of a row that a handler compares or judges by. *)
View == [status: LiveStatus \cup {"SUSPENDED"}, score: Score, ai: Suggestion]
Read(row) == [status |-> row.status, score |-> row.score, ai |-> row.ai]

Idle == [op |-> "idle"]

RequestType ==
    {Idle, [op |-> "award"], [op |-> "enqueue"]}
        \cup [op: {"create"}, expert: Experts, bid: Bids]
        \cup [op: {"save"}, review: Reviews, seen: View, score: Scores, ai: Suggestion]
        \cup [op: {"submit"}, review: Reviews, seen: View]
        \cup [op: {"complete"}, lot: Lots]
        \cup [op: {"disqualify"}, bid: Bids]
        \cup [op: {"status"}, supplier: Suppliers, seen: BOOLEAN, want: BOOLEAN]

TypeOK ==
    /\ awarded \in BOOLEAN
    /\ lot \in [Lots -> LotStatus]
    /\ bid \in [Bids -> BidStatus]
    /\ blacklisted \in [Suppliers -> BOOLEAN]
    /\ review \in [Reviews -> Row \cup {NoRow}]
    /\ req \in [Requests -> RequestType]
    /\ jobs \in [queued: Nat, merging: Nat]
    /\ runs \in 0..MaxRuns
    /\ total \in [Experts -> Nat]
    /\ before \in [Reviews -> LiveStatus]
    /\ late \subseteq Reviews

Init ==
    /\ awarded = FALSE
    /\ lot = [l \in Lots |-> "UNDER_REVIEW"]
    /\ bid = [b \in Bids |-> "FROZEN"]
    /\ blacklisted = [s \in Suppliers |-> FALSE]
    /\ review = [v \in Reviews |-> NoRow]
    /\ req = [r \in Requests |-> Idle]
    /\ jobs = [queued |-> 0, merging |-> 0]
    /\ runs = 0
    /\ total = [e \in Experts |-> 0]
    /\ before = [v \in Reviews |-> "DRAFT"]
    /\ late = {}

-----------------------------------------------------------------------------
Exists(v) == review[v] # NoRow
Locked(v) == review[v].status \in LockedStatus
ReviewsOf(s) == {v \in Reviews : Exists(v) /\ BidSupplier[review[v].bid] = s}

(* A save or submission in flight has read the review while it was open. *)
ReadOpen(v) ==
    \E r \in Requests : /\ req[r].op \in {"save", "submit"} /\ req[r].review = v
                        /\ req[r].seen.status \notin LockedStatus

Completing(l) == \E r \in Requests : req[r].op = "complete" /\ req[r].lot = l

Ask(r, q) == req[r] = Idle /\ req' = [req EXCEPT ![r] = q]
Becomes(r, q) == req' = [req EXCEPT ![r] = q]

(* The request fails before its commit, or its archive job cannot be queued. *)
RequestFails(r) ==
    /\ req[r] # Idle
    /\ Becomes(r, Idle)
    /\ UNCHANGED <<awarded, lot, bid, blacklisted, review, jobs, runs, total, before, late>>

-----------------------------------------------------------------------------
(* Reviews *)

(* create_review asks for a FROZEN bid and an assignment, not for the      *)
(* status of the lot, of the assignment, or for a review that exists.      *)
CreateBegin(r, e, b) ==
    /\ bid[b] = "FROZEN"
    /\ <<BidLot[b], e>> \in Assigned
    /\ Ask(r, [op |-> "create", expert |-> e, bid |-> b])
    /\ UNCHANGED <<awarded, lot, bid, blacklisted, review, jobs, runs, total, before, late>>

CreateCommit(r, v) ==
    /\ req[r].op = "create"
    /\ ~Exists(v)
    /\ review' = [review EXCEPT ![v] =
            [status |-> "DRAFT", prev |-> "NULL", expert |-> req[r].expert, bid |-> req[r].bid,
             score |-> NoScore, ai |-> NoScore]]
    /\ LET l == BidLot[req[r].bid]
       IN  late' = IF lot[l] = "EVALUATED" \/ Completing(l) THEN late \cup {v} ELSE late
    /\ Becomes(r, Idle)
    /\ UNCHANGED <<awarded, lot, bid, blacklisted, jobs, runs, total, before>>

(* Mutant: adjusted reviews are forgotten in the check. *)
MayWriteAdjusted(v) == Exists(v) /\ review[v].status # "CONFIRMED"

(* save_score refuses submitted reviews, submit_review leaves them alone. *)
MayWrite(v) == Exists(v) /\ ~Locked(v)

SaveBegin(r, v, score, ai) ==
    /\ MayWrite(v)
    /\ Ask(r, [op |-> "save", review |-> v, seen |-> Read(review[v]), score |-> score, ai |-> ai])
    /\ UNCHANGED <<awarded, lot, bid, blacklisted, review, jobs, runs, total, before, late>>

Flushed(old, new, current) == IF old = new THEN current ELSE new

Saved(row, q) ==
    [row EXCEPT !.status = Flushed(q.seen.status, "DRAFT", @),
                !.score = Flushed(q.seen.score, q.score, @),
                !.ai = Flushed(q.seen.ai, q.ai, @)]

SaveCommit(r) ==
    /\ req[r].op = "save"
    /\ review' = [review EXCEPT ![req[r].review] = Saved(@, req[r])]
    /\ Becomes(r, Idle)
    /\ UNCHANGED <<awarded, lot, bid, blacklisted, jobs, runs, total, before, late>>

SubmitBegin(r, v) ==
    /\ MayWrite(v)
    /\ Ask(r, [op |-> "submit", review |-> v, seen |-> Read(review[v])])
    /\ UNCHANGED <<awarded, lot, bid, blacklisted, review, jobs, runs, total, before, late>>

(* A suggestion of 0 is falsy and counts as none. *)
Adjusted(row) == row.ai \notin {NoScore, 0} /\ row.score # NoScore /\ row.score # row.ai

Submitted(row, seen) ==
    [row EXCEPT !.status = IF Adjusted(seen) THEN "MANUAL_ADJUSTED" ELSE "CONFIRMED"]

SubmitCommit(r) ==
    /\ req[r].op = "submit"
    /\ review' = [review EXCEPT ![req[r].review] = Submitted(@, req[r].seen)]
    /\ Becomes(r, Idle)
    /\ UNCHANGED <<awarded, lot, bid, blacklisted, jobs, runs, total, before, late>>

-----------------------------------------------------------------------------
(* Suppliers *)

UpdateStatusBegin(r, s, want) ==
    /\ Ask(r, [op |-> "status", supplier |-> s, seen |-> blacklisted[s], want |-> want])
    /\ UNCHANGED <<awarded, lot, bid, blacklisted, review, jobs, runs, total, before, late>>

(* Mutant: the two UPDATEs of the cascade in the other order. *)
SuspendFirst(row) == [row EXCEPT !.status = "SUSPENDED", !.prev = "SUSPENDED"]

(* The first UPDATE keeps the status in previous_status, the second sets it. *)
Suspend(row) == [row EXCEPT !.prev = row.status, !.status = "SUSPENDED"]

Release(row) == [row EXCEPT !.status = row.prev, !.prev = "NULL"]

Unsuspended(s) == {v \in ReviewsOf(s) : review[v].status # "SUSPENDED"}

(* _cascade_blacklist: nothing writes freeze_hash, so sealed bids are      *)
(* disqualified too, whatever the project; reviews only before the award.  *)
Cascade(s) ==
    LET hit == IF awarded THEN {} ELSE Unsuspended(s)
    IN  /\ bid' = [b \in Bids |-> IF BidSupplier[b] = s THEN "DISQUALIFIED" ELSE bid[b]]
        /\ review' = [v \in Reviews |-> IF v \in hit THEN Suspend(review[v]) ELSE review[v]]
        /\ before' = [v \in Reviews |-> IF v \in hit THEN review[v].status ELSE before[v]]

(* _restore_suspended_reviews *)
Restore(s) ==
    LET hit == {v \in ReviewsOf(s) : review[v].status = "SUSPENDED" /\ review[v].prev # "NULL"}
    IN  /\ review' = [v \in Reviews |-> IF v \in hit THEN Release(review[v]) ELSE review[v]]
        /\ UNCHANGED <<bid, before>>

UpdateStatusCommit(r) ==
    /\ req[r].op = "status"
    /\ LET q == req[r]
       IN  /\ blacklisted' = [blacklisted EXCEPT ![q.supplier] = Flushed(q.seen, q.want, @)]
           /\ \/ q.want /\ ~q.seen /\ Cascade(q.supplier)
              \/ ~q.want /\ q.seen /\ Restore(q.supplier)
              \/ q.want = q.seen /\ UNCHANGED <<bid, review, before>>
    /\ Becomes(r, Idle)
    /\ UNCHANGED <<awarded, lot, jobs, runs, total, late>>

(* disqualify_bid *)
DisqualifyBegin(r, b) ==
    /\ lot[BidLot[b]] = "UNDER_REVIEW"
    /\ Ask(r, [op |-> "disqualify", bid |-> b])
    /\ UNCHANGED <<awarded, lot, bid, blacklisted, review, jobs, runs, total, before, late>>

DisqualifyCommit(r) ==
    /\ req[r].op = "disqualify"
    /\ bid' = [bid EXCEPT ![req[r].bid] = "DISQUALIFIED"]
    /\ Becomes(r, Idle)
    /\ UNCHANGED <<awarded, lot, blacklisted, review, jobs, runs, total, before, late>>

-----------------------------------------------------------------------------
(* Closing a lot, award, archive *)

Unfinished(l) ==
    {v \in Reviews : /\ Exists(v)
                     /\ BidLot[review[v].bid] = l
                     /\ bid[review[v].bid] = "FROZEN"
                     /\ review[v].status = "DRAFT"}

(* Mutant: complete_review does not look at the reviews. *)
CompleteBeginUnasked(r, l) ==
    /\ lot[l] = "UNDER_REVIEW"
    /\ Ask(r, [op |-> "complete", lot |-> l])
    /\ UNCHANGED <<awarded, lot, bid, blacklisted, review, jobs, runs, total, before, late>>

(* complete_review looks once, then prints the report and commits. *)
CompleteBegin(r, l) ==
    /\ lot[l] = "UNDER_REVIEW"
    /\ Unfinished(l) = {}
    /\ Ask(r, [op |-> "complete", lot |-> l])
    /\ UNCHANGED <<awarded, lot, bid, blacklisted, review, jobs, runs, total, before, late>>

CompleteCommit(r) ==
    /\ req[r].op = "complete"
    /\ lot' = [lot EXCEPT ![req[r].lot] = "EVALUATED"]
    /\ Becomes(r, Idle)
    /\ UNCHANGED <<awarded, bid, blacklisted, review, jobs, runs, total, before, late>>

AwardBegin(r) ==
    /\ \A l \in Lots : lot[l] = "EVALUATED"
    /\ Ask(r, [op |-> "award"])
    /\ UNCHANGED <<awarded, lot, bid, blacklisted, review, jobs, runs, total, before, late>>

AwardCommit(r) ==
    /\ req[r].op = "award"
    /\ awarded' = TRUE
    /\ Becomes(r, [op |-> "enqueue"])
    /\ UNCHANGED <<lot, bid, blacklisted, review, jobs, runs, total, before, late>>

EnqueueArchive(r) ==
    /\ req[r].op = "enqueue"
    /\ jobs.queued + jobs.merging + runs < MaxRuns
    /\ jobs' = [jobs EXCEPT !.queued = @ + 1]
    /\ Becomes(r, Idle)
    /\ UNCHANGED <<awarded, lot, bid, blacklisted, review, runs, total, before, late>>

(* _recalc_expert_profiles commits before the graph is touched. *)
RecalcProfiles ==
    /\ jobs.queued > 0 /\ runs < MaxRuns
    /\ jobs' = [queued |-> jobs.queued - 1, merging |-> jobs.merging + 1]
    /\ runs' = runs + 1
    /\ total' = [e \in Experts |->
            IF \E v \in Reviews : Exists(v) /\ review[v].expert = e
            THEN total[e] + 1 ELSE total[e]]
    /\ UNCHANGED <<awarded, lot, bid, blacklisted, review, req, before, late>>

(* _merge_bid_together ends the job ... *)
MergeBidTogether ==
    /\ jobs.merging > 0
    /\ jobs' = [jobs EXCEPT !.merging = @ - 1]
    /\ UNCHANGED <<awarded, lot, bid, blacklisted, review, req, runs, total, before, late>>

(* ... unless the worker dies and arq delivers it again. *)
ArchiveCrash ==
    /\ jobs.merging > 0
    /\ jobs' = [queued |-> jobs.queued + 1, merging |-> jobs.merging - 1]
    /\ UNCHANGED <<awarded, lot, bid, blacklisted, review, req, runs, total, before, late>>

-----------------------------------------------------------------------------
Expert(r) ==
    \/ \E e \in Experts, b \in Bids : CreateBegin(r, e, b)
    \/ \E v \in Reviews : CreateCommit(r, v)
    \/ \E v \in Reviews, score \in Scores, ai \in Suggestion : SaveBegin(r, v, score, ai)
    \/ \E v \in Reviews : SubmitBegin(r, v)
    \/ SaveCommit(r) \/ SubmitCommit(r)

Manager(r) ==
    \/ \E s \in Suppliers, want \in BOOLEAN : UpdateStatusBegin(r, s, want)
    \/ \E b \in Bids : DisqualifyBegin(r, b)
    \/ \E l \in Lots : CompleteBegin(r, l)
    \/ UpdateStatusCommit(r) \/ DisqualifyCommit(r) \/ CompleteCommit(r)
    \/ AwardBegin(r) \/ AwardCommit(r) \/ EnqueueArchive(r)

Next ==
    \/ \E r \in Requests : Expert(r) \/ Manager(r) \/ RequestFails(r)
    \/ RecalcProfiles \/ MergeBidTogether \/ ArchiveCrash

Spec == Init /\ [][Next]_vars

-----------------------------------------------------------------------------
(* A suspended review remembers exactly the status it had when the cascade *)
(* took it, through repeated blacklisting, overlapping status changes and  *)
(* saves or submissions in flight.                                         *)
SuspendedRemembers ==
    \A v \in Reviews : review[v].status = "SUSPENDED" => review[v].prev = before[v]

(* No review is left suspended after its supplier was cleared: whoever     *)
(* lifts the blacklisting restores what is suspended by then.              *)
SuspendedOnlyWhileBlacklisted ==
    \A v \in Reviews :
        review[v].status = "SUSPENDED" => blacklisted[BidSupplier[review[v].bid]]

(* A suspension loses nothing and ends with the blacklisting.              *)
SuspensionIsUndone == SuspendedRemembers /\ SuspendedOnlyWhileBlacklisted

(* A submitted review keeps its score, its suggestion and its verdict, and *)
(* only the cascade suspends it, but for a save or a submission that has   *)
(* read it before it was submitted and commits after.                      *)
LockedStays ==
    [][\A v \in Reviews : Locked(v) /\ ~ReadOpen(v) =>
        /\ review'[v].status \in {review[v].status, "SUSPENDED"}
        /\ review'[v].score = review[v].score
        /\ review'[v].ai = review[v].ai]_vars

(* An evaluated lot has no unfinished review of a sealed bid, except those *)
(* created when complete_review had already looked: whatever is saved,     *)
(* suspended or restored meanwhile, and whoever else completes the lot.    *)
EvaluatedIsComplete ==
    \A l \in Lots : lot[l] = "EVALUATED" => Unfinished(l) \subseteq late
=============================================================================
