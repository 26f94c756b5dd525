---------------------------- MODULE BidLifecycle ----------------------------
(***************************************************************************)
(* A bid document from its upload to the sealing of its lot: the API       *)
(* handlers that touch bid_document.status and lot.status, the arq job     *)
(* that parses a bid, the cron that reaps dead parses, and the blacklist   *)
(* cascade.                                                                *)
(*                                                                         *)
(* A handler that reads rows, awaits something and then writes is two      *)
(* actions, "...Begin" (what its session read; the request keeps it) and a *)
(* commit.  The sessions neither lock nor re-check what they read unless   *)
(* an action below says so: ORM flushes are UPDATE ... WHERE pk, under     *)
(* MySQL REPEATABLE READ.                                                  *)
(***************************************************************************)
EXTENDS Integers, FiniteSets

CONSTANTS
    Lots,           \* lots open for bidding when the model starts
    Suppliers,
    Bids,           \* bid ids that uploads may create
    BidLot,         \* the lot, and
    BidSupplier,    \* the supplier, a bid id is created for
    Requests,       \* API requests that can be in flight together
    Jobs,           \* document_ingest jobs that can exist together
    MinValidBids,   \* 3 in the code
    LastStep,       \* checkpoints of the pipeline before it finishes, 6 in the code
    MaxRetries,     \* settings.doc_parse_max_retries, 3 in the code
    MaxTries,       \* deliveries of one job by arq
    StatusChanges,  \* pairs <<blacklisted, active>> a PM may set a supplier to
    NoLot, NoBid    \* what an idle request and a free job refer to

ASSUME OwnersAssumption ==
    /\ BidLot \in [Bids -> Lots]
    /\ BidSupplier \in [Bids -> Suppliers]
    /\ NoLot \notin Lots
    /\ NoBid \notin Bids

ASSUME BoundsAssumption ==
    /\ MinValidBids \in Nat
    /\ LastStep \in Nat \ {0}
    /\ MaxRetries \in Nat
    /\ MaxTries \in Nat \ {0}
    /\ StatusChanges \subseteq BOOLEAN \X BOOLEAN

VARIABLES
    lot,        \* lot.status
    supplier,   \* supplier.blacklisted and supplier.status = ACTIVE
    bid,        \* bid_document.status, "NONE" before the row exists
    step,       \* bid_document.parsing_step, NoStep for NULL
    stale,      \* bids whose updated_at is older than the zombie timeout
    req,        \* API requests in flight: what their sessions read
    job,        \* arq jobs
    scan,       \* rows the zombie cron selected and has not yet updated
    exposed     \* history: bids an operation in flight held when their
                \* supplier was blacklisted

vars == <<lot, supplier, bid, step, stale, req, job, scan, exposed>>

-----------------------------------------------------------------------------
(* Types *)

NoStep == -1
Steps == 0..LastStep \cup {NoStep}

LotStatus == {"BIDDING", "PRE_SCREEN", "UNDER_REVIEW", "ABANDONED"}

BidStatus == {"SUBMITTED", "PARSING", "PARSED", "PARSE_FAILED", "FROZEN", "DISQUALIFIED"}

RequestOps == {"idle", "upload", "enqueue", "retry", "abandon", "screen", "confirm", "disqualify"}

JobPcs == {"free", "queued", "begin", "claim", "step", "giveup", "mark"}

RequestType == [op: RequestOps, lot: Lots \cup {NoLot}, bids: SUBSET Bids, seen: Steps]

JobType == [pc: JobPcs, bid: Bids \cup {NoBid}, done: 0..LastStep,
            att: 0..MaxRetries, tries: 0..MaxTries]

Idle == [op |-> "idle", lot |-> NoLot, bids |-> {}, seen |-> 0]
Free == [pc |-> "free", bid |-> NoBid, done |-> 0, att |-> 0, tries |-> 0]

TypeOK ==
    /\ lot \in [Lots -> LotStatus]
    /\ supplier \in [Suppliers -> [blacklisted: BOOLEAN, active: BOOLEAN]]
    /\ bid \in [Bids -> BidStatus \cup {"NONE"}]
    /\ step \in [Bids -> Steps]
    /\ stale \subseteq Bids
    /\ req \in [Requests -> RequestType]
    /\ job \in [Jobs -> JobType]
    /\ scan \subseteq Bids
    /\ exposed \subseteq Bids

-----------------------------------------------------------------------------
(* Who holds a bid *)

BidsOfLot(l) == {b \in Bids : BidLot[b] = l}
BidsOf(s) == {b \in Bids : BidSupplier[b] = s}

(* close_bidding and confirm_prescreen take a bid for valid while it is still parsed. *)
Valid(l) == {b \in BidsOfLot(l) : bid[b] \in {"PARSED", "PARSING"}}

Running(j) == job[j].pc \notin {"free", "queued"}

(* A job past the status check of its attempt writes the row unconditionally. *)
ParserHolds(b) == \E j \in Jobs : job[j].bid = b /\ job[j].pc \in {"claim", "step", "mark"}

RequestHolds(b, ops) == \E r \in Requests : b \in req[r].bids /\ req[r].op \in ops

(* Some operation already decided to write the status of b, whatever it is by then. *)
Writer(b) ==
    \/ ParserHolds(b)
    \/ b \in scan
    \/ RequestHolds(b, {"upload", "retry", "screen", "confirm"})

-----------------------------------------------------------------------------
Init ==
    /\ lot = [l \in Lots |-> "BIDDING"]
    /\ supplier = [s \in Suppliers |-> [blacklisted |-> FALSE, active |-> TRUE]]
    /\ bid = [b \in Bids |-> "NONE"]
    /\ step = [b \in Bids |-> 0]
    /\ stale = {}
    /\ req = [r \in Requests |-> Idle]
    /\ job = [j \in Jobs |-> Free]
    /\ scan = {}
    /\ exposed = {}

Ask(r, q) == req[r].op = "idle" /\ req' = [req EXCEPT ![r] = q]
Answer(r) == req' = [req EXCEPT ![r] = Idle]

(* A request ends where it is and writes nothing more: MinIO refused the   *)
(* object, Redis the job, the database the commit, or the process died.    *)
RequestFails(r) ==
    /\ req[r].op # "idle"
    /\ Answer(r)
    /\ UNCHANGED <<lot, supplier, bid, step, stale, job, scan, exposed>>

-----------------------------------------------------------------------------
(* Upload *)

(* Mutant: the blacklist check is forgotten, status alone decides. *)
UploadAllowedByStatus(b) ==
    /\ lot[BidLot[b]] = "BIDDING"
    /\ supplier[BidSupplier[b]].active
    /\ \A c \in BidsOfLot(BidLot[b]) \cap BidsOf(BidSupplier[b]) : bid[c] = "NONE"

(* Checks of upload_bid, before it awaits MinIO: the lot takes bids, the  *)
(* supplier may bid and has no bid for the lot yet.                       *)
UploadAllowed(b) ==
    /\ lot[BidLot[b]] = "BIDDING"
    /\ ~supplier[BidSupplier[b]].blacklisted
    /\ supplier[BidSupplier[b]].active
    /\ \A c \in BidsOfLot(BidLot[b]) \cap BidsOf(BidSupplier[b]) : bid[c] = "NONE"

UploadBegin(r, b) ==
    /\ UploadAllowed(b)
    /\ ~RequestHolds(b, {"upload"})     \* generate_id: no two requests share an id
    /\ Ask(r, [op |-> "upload", lot |-> BidLot[b], bids |-> {b}, seen |-> 0])
    /\ UNCHANGED <<lot, supplier, bid, step, stale, job, scan, exposed>>

(* MinIO has the object: insert the row, checking nothing again. *)
UploadCommit(r) ==
    /\ req[r].op = "upload"
    /\ \E b \in req[r].bids :
        /\ bid' = [bid EXCEPT ![b] = "SUBMITTED"]
        /\ step' = [step EXCEPT ![b] = 0]
        /\ stale' = stale \ {b}
    /\ req' = [req EXCEPT ![r].op = "enqueue"]
    /\ UNCHANGED <<lot, supplier, job, scan, exposed>>

(* enqueue_document_ingest after the commit; a failure is logged, not raised. *)
Enqueue(r, j) ==
    /\ req[r].op = "enqueue"
    /\ job[j].pc = "free"
    /\ \E b \in req[r].bids :
        job' = [job EXCEPT ![j] = [pc |-> "queued", bid |-> b, done |-> 0, att |-> 0, tries |-> 0]]
    /\ Answer(r)
    /\ UNCHANGED <<lot, supplier, bid, step, stale, scan, exposed>>

RetryParseBegin(r, b) ==
    /\ bid[b] = "PARSE_FAILED"
    /\ Ask(r, [op |-> "retry", lot |-> BidLot[b], bids |-> {b}, seen |-> step[b]])
    /\ UNCHANGED <<lot, supplier, bid, step, stale, job, scan, exposed>>

(* The flush writes parsing_step only when the session saw another value than 0. *)
RetryParseCommit(r) ==
    /\ req[r].op = "retry"
    /\ \E b \in req[r].bids :
        /\ bid' = [bid EXCEPT ![b] = "SUBMITTED"]
        /\ step' = [step EXCEPT ![b] = IF req[r].seen = 0 THEN @ ELSE 0]
        /\ stale' = stale \ {b}
    /\ req' = [req EXCEPT ![r].op = "enqueue", ![r].seen = 0]
    /\ UNCHANGED <<lot, supplier, job, scan, exposed>>

-----------------------------------------------------------------------------
(* Closing a lot *)

(* close_bidding reads the lot and its bids without a lock; the three     *)
(* fraud checks then take seconds.                                        *)
CloseBegin(r, l) ==
    /\ lot[l] = "BIDDING"
    /\ LET quorum == Cardinality(Valid(l)) >= MinValidBids
       IN  Ask(r, [op |-> IF quorum THEN "screen" ELSE "abandon",
                   lot |-> l, bids |-> Valid(l), seen |-> 0])
    /\ UNCHANGED <<lot, supplier, bid, step, stale, job, scan, exposed>>

(* Mutant: without populate_existing the session sees the lot it read first. *)
StillBiddingAsRead(l) == TRUE

(* SELECT ... FOR UPDATE with populate_existing: the lot as it is now. *)
StillBidding(l) == lot[l] = "BIDDING"

CloseAbandon(r) ==
    /\ req[r].op = "abandon"
    /\ StillBidding(req[r].lot)
    /\ lot' = [lot EXCEPT ![req[r].lot] = "ABANDONED"]
    /\ Answer(r)
    /\ UNCHANGED <<supplier, bid, step, stale, job, scan, exposed>>

(* Risk LOW: seal what was valid when the request began, whatever it is now. *)
CloseRelease(r) ==
    /\ req[r].op = "screen"
    /\ StillBidding(req[r].lot)
    /\ lot' = [lot EXCEPT ![req[r].lot] = "UNDER_REVIEW"]
    /\ bid' = [b \in Bids |-> IF b \in req[r].bids THEN "FROZEN" ELSE bid[b]]
    /\ Answer(r)
    /\ UNCHANGED <<supplier, step, stale, job, scan, exposed>>

CloseHold(r) ==
    /\ req[r].op = "screen"
    /\ StillBidding(req[r].lot)
    /\ lot' = [lot EXCEPT ![req[r].lot] = "PRE_SCREEN"]
    /\ Answer(r)
    /\ UNCHANGED <<supplier, bid, step, stale, job, scan, exposed>>

CloseRefused(r) ==
    /\ req[r].op \in {"abandon", "screen"}
    /\ ~StillBidding(req[r].lot)
    /\ Answer(r)
    /\ UNCHANGED <<lot, supplier, bid, step, stale, job, scan, exposed>>

ConfirmBegin(r, l) ==
    /\ lot[l] = "PRE_SCREEN"
    /\ Ask(r, [op |-> "confirm", lot |-> l, bids |-> Valid(l), seen |-> 0])
    /\ UNCHANGED <<lot, supplier, bid, step, stale, job, scan, exposed>>

(* Deep detection says HIGH or CRITICAL: the lot stays where it is. *)
ConfirmHold(r) ==
    /\ req[r].op = "confirm"
    /\ Answer(r)
    /\ UNCHANGED <<lot, supplier, bid, step, stale, job, scan, exposed>>

(* LOW or MEDIUM: seal and release, with no lock and no second look. *)
ConfirmRelease(r) ==
    /\ req[r].op = "confirm"
    /\ lot' = [lot EXCEPT ![req[r].lot] = "UNDER_REVIEW"]
    /\ bid' = [b \in Bids |-> IF b \in req[r].bids THEN "FROZEN" ELSE bid[b]]
    /\ Answer(r)
    /\ UNCHANGED <<supplier, step, stale, job, scan, exposed>>

-----------------------------------------------------------------------------
(* Disqualification *)

(* A bid read as DISQUALIFIED gives the flush nothing to write. *)
DisqualifyBegin(r, b) ==
    /\ lot[BidLot[b]] \in {"PRE_SCREEN", "UNDER_REVIEW"}
    /\ bid[b] \notin {"NONE", "DISQUALIFIED"}
    /\ Ask(r, [op |-> "disqualify", lot |-> BidLot[b], bids |-> {b}, seen |-> 0])
    /\ UNCHANGED <<lot, supplier, bid, step, stale, job, scan, exposed>>

DisqualifyCommit(r) ==
    /\ req[r].op = "disqualify"
    /\ bid' = [b \in Bids |-> IF b \in req[r].bids THEN "DISQUALIFIED" ELSE bid[b]]
    /\ Answer(r)
    /\ UNCHANGED <<lot, supplier, step, stale, job, scan, exposed>>

(* _cascade_blacklist on bids: freeze_hash is NULL in every row, so the   *)
(* sealed ones are taken too.                                             *)
Cascade(s) ==
    LET hit == {b \in BidsOf(s) : bid[b] \notin {"NONE", "DISQUALIFIED"}}
    IN  /\ bid' = [b \in Bids |-> IF b \in hit THEN "DISQUALIFIED" ELSE bid[b]]
        /\ stale' = stale \ hit
        /\ exposed' = (exposed \ BidsOf(s)) \cup {b \in BidsOf(s) : Writer(b)}

(* update_status of supplier_service: blacklisting also deactivates,      *)
(* lifting it also activates, otherwise only the status is set.           *)
UpdateSupplierStatus(s, blacklisted, active) ==
    /\ <<blacklisted, active>> \in StatusChanges
    /\ \/ blacklisted = TRUE /\ active = FALSE
       \/ blacklisted = FALSE /\ active = TRUE
       \/ blacklisted = supplier[s].blacklisted
    /\ supplier' = [supplier EXCEPT ![s] = [blacklisted |-> blacklisted, active |-> active]]
    /\ IF blacklisted /\ ~supplier[s].blacklisted
       THEN Cascade(s)
       ELSE UNCHANGED <<bid, stale, exposed>>
    /\ UNCHANGED <<lot, step, req, job, scan>>

-----------------------------------------------------------------------------
(* The document_ingest job *)

Move(j, pc) == job' = [job EXCEPT ![j].pc = pc]
EndJob(j) == job' = [job EXCEPT ![j] = Free]

JobStart(j) ==
    /\ job[j].pc = "queued"
    /\ job' = [job EXCEPT ![j].pc = "begin", ![j].tries = @ + 1]
    /\ UNCHANGED <<lot, supplier, bid, step, stale, req, scan, exposed>>

(* Mutant: only a finished parse is skipped. *)
SkipFinished == {"PARSED"}

(* _run_pipeline reads the row: nothing to do, ... *)
SkipStatus == {"FROZEN", "PARSED", "DISQUALIFIED"}

PipelineSkip(j) ==
    /\ job[j].pc = "begin"
    /\ bid[job[j].bid] \in SkipStatus
    /\ EndJob(j)
    /\ UNCHANGED <<lot, supplier, bid, step, stale, req, scan, exposed>>

(* ... a fresh upload to claim, or a parse to do again as it is. *)
PipelineBegin(j) ==
    /\ job[j].pc = "begin"
    /\ bid[job[j].bid] \notin SkipStatus
    /\ Move(j, IF bid[job[j].bid] = "SUBMITTED" THEN "claim" ELSE "step")
    /\ UNCHANGED <<lot, supplier, bid, step, stale, req, scan, exposed>>

PipelineClaim(j) ==
    /\ job[j].pc = "claim"
    /\ bid' = [bid EXCEPT ![job[j].bid] = "PARSING"]
    /\ stale' = stale \ {job[j].bid}
    /\ Move(j, "step")
    /\ UNCHANGED <<lot, supplier, step, req, scan, exposed>>

(* The next step's work succeeded: checkpoint it. *)
PipelineStep(j) ==
    /\ job[j].pc = "step" /\ job[j].done < LastStep
    /\ step' = [step EXCEPT ![job[j].bid] = job[j].done + 1]
    /\ stale' = stale \ {job[j].bid}
    /\ job' = [job EXCEPT ![j].done = @ + 1]
    /\ UNCHANGED <<lot, supplier, bid, req, scan, exposed>>

PipelineFinish(j) ==
    /\ job[j].pc = "step" /\ job[j].done = LastStep
    /\ bid' = [bid EXCEPT ![job[j].bid] = "PARSED"]
    /\ step' = [step EXCEPT ![job[j].bid] = NoStep]
    /\ stale' = stale \ {job[j].bid}
    /\ EndJob(j)
    /\ UNCHANGED <<lot, supplier, req, scan, exposed>>

(* A step raised: sleep and try again from the start, or give up. *)
AttemptFails(j) ==
    /\ job[j].pc \in {"begin", "claim", "step"}
    /\ job' = IF job[j].att < MaxRetries
              THEN [job EXCEPT ![j].pc = "begin", ![j].att = @ + 1, ![j].done = 0]
              ELSE [job EXCEPT ![j].pc = "giveup"]
    /\ UNCHANGED <<lot, supplier, bid, step, stale, req, scan, exposed>>

(* NonRetryableParseError: the file itself is bad, which step 1 finds out. *)
FileRejected(j) ==
    /\ job[j].pc = "step" /\ job[j].done = 0
    /\ Move(j, "giveup")
    /\ UNCHANGED <<lot, supplier, bid, step, stale, req, scan, exposed>>

(* _mark_parse_failed reads the row, and writes it only if it was PARSING. *)
MarkFailedRead(j) ==
    /\ job[j].pc = "giveup"
    /\ IF bid[job[j].bid] = "PARSING" THEN Move(j, "mark") ELSE EndJob(j)
    /\ UNCHANGED <<lot, supplier, bid, step, stale, req, scan, exposed>>

MarkFailedWrite(j) ==
    /\ job[j].pc = "mark"
    /\ bid' = [bid EXCEPT ![job[j].bid] = "PARSE_FAILED"]
    /\ stale' = stale \ {job[j].bid}
    /\ EndJob(j)
    /\ UNCHANGED <<lot, supplier, step, req, scan, exposed>>

(* arq's job timeout, or an exception out of _mark_parse_failed: not redelivered. *)
JobKilled(j) ==
    /\ Running(j)
    /\ EndJob(j)
    /\ UNCHANGED <<lot, supplier, bid, step, stale, req, scan, exposed>>

(* The worker process died: arq delivers the job again. *)
WorkerCrash(j) ==
    /\ Running(j) /\ job[j].tries < MaxTries
    /\ job' = [job EXCEPT ![j].pc = "queued", ![j].att = 0, ![j].done = 0]
    /\ UNCHANGED <<lot, supplier, bid, step, stale, req, scan, exposed>>

-----------------------------------------------------------------------------
(* The zombie cron *)

(* Half an hour without a write.  A job lives five minutes (arq's default  *)
(* timeout), so none that runs now has run for all of it.                  *)
Age(b) ==
    /\ bid[b] = "PARSING" /\ b \notin stale
    /\ \A j \in Jobs : job[j].bid = b => ~Running(j)
    /\ stale' = stale \cup {b}
    /\ UNCHANGED <<lot, supplier, bid, step, req, job, scan, exposed>>

(* Mutant: a parse that died after its first checkpoint is overlooked. *)
ZombiesPastFirst == {b \in Bids : bid[b] = "PARSING" /\ step[b] > 1 /\ b \in stale}

Zombies == {b \in Bids : bid[b] = "PARSING" /\ step[b] > 0 /\ b \in stale}

ScanSelect ==
    /\ scan = {} /\ Zombies # {}
    /\ scan' = Zombies
    /\ UNCHANGED <<lot, supplier, bid, step, stale, req, job, exposed>>

ScanUpdate ==
    /\ scan # {}
    /\ bid' = [b \in Bids |-> IF b \in scan THEN "PARSE_FAILED" ELSE bid[b]]
    /\ stale' = stale \ scan
    /\ scan' = {}
    /\ UNCHANGED <<lot, supplier, step, req, job, exposed>>

-----------------------------------------------------------------------------
Request(r) ==
    \/ \E b \in Bids : UploadBegin(r, b) \/ RetryParseBegin(r, b) \/ DisqualifyBegin(r, b)
    \/ \E l \in Lots : CloseBegin(r, l) \/ ConfirmBegin(r, l)
    \/ RequestFails(r) \/ UploadCommit(r) \/ RetryParseCommit(r)
    \/ \E j \in Jobs : Enqueue(r, j)
    \/ CloseAbandon(r) \/ CloseRelease(r) \/ CloseHold(r) \/ CloseRefused(r)
    \/ ConfirmHold(r) \/ ConfirmRelease(r)
    \/ DisqualifyCommit(r)

JobProgress(j) ==
    \/ JobStart(j)
    \/ PipelineSkip(j) \/ PipelineBegin(j) \/ PipelineClaim(j) \/ PipelineStep(j) \/ PipelineFinish(j)
    \/ MarkFailedRead(j) \/ MarkFailedWrite(j)

JobFailure(j) == AttemptFails(j) \/ FileRejected(j) \/ JobKilled(j) \/ WorkerCrash(j)

Next ==
    \/ \E r \in Requests : Request(r)
    \/ \E s \in Suppliers, bl \in BOOLEAN, ac \in BOOLEAN : UpdateSupplierStatus(s, bl, ac)
    \/ \E j \in Jobs : JobProgress(j) \/ JobFailure(j)
    \/ \E b \in Bids : Age(b)
    \/ ScanSelect \/ ScanUpdate

Spec == Init /\ [][Next]_vars

(* The worker keeps polling its queue, its cron fires every minute, and    *)
(* time passes.  Nobody has to send a request, and no failure has to end.  *)
Fairness ==
    /\ \A j \in Jobs : WF_vars(JobProgress(j))
    /\ \A b \in Bids : WF_vars(Age(b))
    /\ WF_vars(ScanSelect) /\ WF_vars(ScanUpdate)

FairSpec == Spec /\ Fairness

-----------------------------------------------------------------------------
(* Safety *)

(* A sealed bid belongs to a lot that was released to review: no lot is    *)
(* abandoned, held for screening or still open with a sealed bid in it,    *)
(* however many close_bidding and confirm_prescreen requests overlap.      *)
FrozenOnlyUnderReview ==
    \A b \in Bids : bid[b] = "FROZEN" => lot[BidLot[b]] = "UNDER_REVIEW"

(* The lot state machine has no way back and no second decision: of the    *)
(* close_bidding requests that overlap, one takes the lot out of BIDDING.  *)
LotEdges ==
    {<<"BIDDING", "ABANDONED">>, <<"BIDDING", "PRE_SCREEN">>,
     <<"BIDDING", "UNDER_REVIEW">>, <<"PRE_SCREEN", "UNDER_REVIEW">>}

LotMovesForward ==
    [][\A l \in Lots : lot'[l] = lot[l] \/ <<lot[l], lot'[l]>> \in LotEdges]_vars

(* A bid that is sealed or disqualified while nothing in flight holds it   *)
(* stays so for good: no handler, job or cron that starts later picks it   *)
(* up again, and a disqualified one never becomes sealed.                  *)
Settled(b) == bid[b] \in {"FROZEN", "DISQUALIFIED"} /\ ~Writer(b)

SettledIsFinal ==
    [][\A b \in Bids : Settled(b) =>
        /\ Settled(b)'
        /\ bid[b] = "DISQUALIFIED" => bid'[b] = "DISQUALIFIED"]_vars

(* While a supplier is blacklisted its bids are disqualified and it gets   *)
(* no new one, except through an operation that was already under way      *)
(* when the cascade ran.                                                   *)
BlacklistHolds ==
    \A b \in Bids :
        supplier[BidSupplier[b]].blacklisted /\ b \notin exposed
            => bid[b] \in {"NONE", "DISQUALIFIED"}

(* Liveness *)

(* A parse that reached a checkpoint ends: it is finished, given up, or    *)
(* reaped by the cron after its job died.                                  *)
CheckpointedParseEnds ==
    \A b \in Bids : (bid[b] = "PARSING" /\ step[b] > 0) ~> (bid[b] # "PARSING")

-----------------------------------------------------------------------------
(* The specification this one implements *)

PhaseOf(status) ==
    CASE status = "BIDDING" -> "open"
      [] status = "PRE_SCREEN" -> "screening"
      [] status = "UNDER_REVIEW" -> "released"
      [] OTHER -> "abandoned"

StandingOf(status) ==
    CASE status = "NONE" -> "absent"
      [] status = "FROZEN" -> "sealed"
      [] status = "DISQUALIFIED" -> "out"
      [] OTHER -> "live"

Seals == INSTANCE SealedLots WITH
    Quorum <- MinValidBids,
    phase <- [l \in Lots |-> PhaseOf(lot[l])],
    standing <- [b \in Bids |-> StandingOf(bid[b])],
    held <- {b \in Bids : Writer(b)}

(* Whatever requests, jobs and cron runs overlap, lots and bids keep to    *)
(* SealedLots: a lot is decided once, its bids are sealed by its release   *)
(* only, at once with it and, when no one looked closer, with a quorum,    *)
(* and no operation takes a bid in hand that is sealed or disqualified.    *)
DecidedOnce == Seals!Spec
=============================================================================
