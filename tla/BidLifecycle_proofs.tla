------------------------ MODULE BidLifecycle_proofs ------------------------
(* Proofs about BidLifecycle for any number of lots, bids, requests and    *)
(* jobs, and about Screening for any lots, findings, requests and updates. *)
EXTENDS BidLifecycle, ScreeningApart, TLAPS

USE OwnersAssumption, BoundsAssumption

(* Initially nothing is in flight and every field has its type. *)
LEMMA TypeInit == Init => TypeOK
BY DEF Init, TypeOK, RequestType, JobType, Idle, Free, LotStatus, BidStatus, RequestOps,
       JobPcs, Steps

(* Setting one field of a request or a job to a value of its type. *)
LEMMA RequestEdits ==
    \A q \in RequestType :
        /\ \A op \in RequestOps : [q EXCEPT !.op = op] \in RequestType
        /\ \A n \in Steps : [q EXCEPT !.seen = n] \in RequestType
BY DEF RequestType

LEMMA JobEdits ==
    \A k \in JobType :
        /\ \A pc \in JobPcs : [k EXCEPT !.pc = pc] \in JobType
        /\ \A n \in 0..MaxRetries : [k EXCEPT !.att = n] \in JobType
        /\ [k EXCEPT !.done = 0] \in JobType
BY DEF JobType

(* The edits handlers and jobs make to their own record keep its type. *)
LEMMA AskTyped ==
    ASSUME TypeOK, NEW r \in Requests, NEW q \in RequestType, Ask(r, q)
    PROVE  req' \in [Requests -> RequestType]
BY DEF TypeOK, Ask

LEMMA AnswerTyped ==
    ASSUME TypeOK, NEW r \in Requests, Answer(r)
    PROVE  req' \in [Requests -> RequestType]
<1>1. Idle \in RequestType
  BY DEF Idle, RequestType, RequestOps, Steps
<1> QED
  BY <1>1 DEF TypeOK, Answer

LEMMA MoveTyped ==
    ASSUME TypeOK, NEW j \in Jobs, NEW pc \in JobPcs, Move(j, pc)
    PROVE  job' \in [Jobs -> JobType]
<1>1. job[j] \in JobType
  BY DEF TypeOK
<1>2. [job[j] EXCEPT !.pc = pc] \in JobType
  BY <1>1 DEF JobType
<1> QED
  BY <1>2 DEF TypeOK, Move

LEMMA EndJobTyped ==
    ASSUME TypeOK, NEW j \in Jobs, EndJob(j)
    PROVE  job' \in [Jobs -> JobType]
<1>1. Free \in JobType
  BY DEF Free, JobType, JobPcs
<1> QED
  BY <1>1 DEF TypeOK, EndJob

(* Every step keeps the types. *)
LEMMA TypeStep == TypeOK /\ [Next]_vars => TypeOK'
<1> SUFFICES ASSUME TypeOK, [Next]_vars PROVE TypeOK'
  OBVIOUS
<1> DEFINE Rows == /\ lot' \in [Lots -> LotStatus]
                   /\ supplier' \in [Suppliers -> [blacklisted: BOOLEAN, active: BOOLEAN]]
                   /\ bid' \in [Bids -> BidStatus \cup {"NONE"}]
                   /\ step' \in [Bids -> Steps]
                   /\ stale' \subseteq Bids
                   /\ scan' \subseteq Bids
                   /\ exposed' \subseteq Bids
           ReqOK == req' \in [Requests -> RequestType]
           JobOK == job' \in [Jobs -> JobType]
<1>0. Rows /\ ReqOK /\ JobOK => TypeOK'
  BY DEF TypeOK
<1>1. ASSUME NEW r \in Requests, NEW b \in Bids, UploadBegin(r, b) PROVE TypeOK'
  <2>1. [op |-> "upload", lot |-> BidLot[b], bids |-> {b}, seen |-> 0] \in RequestType
    BY DEF RequestType, RequestOps, Steps
  <2>2. ReqOK
    BY <1>1, <2>1, AskTyped DEF UploadBegin
  <2> QED
    BY <1>0, <1>1, <2>2 DEF UploadBegin, TypeOK
<1>2. ASSUME NEW r \in Requests, NEW b \in Bids, RetryParseBegin(r, b) PROVE TypeOK'
  <2>1. [op |-> "retry", lot |-> BidLot[b], bids |-> {b}, seen |-> step[b]] \in RequestType
    BY DEF RequestType, RequestOps, TypeOK
  <2>2. ReqOK
    BY <1>2, <2>1, AskTyped DEF RetryParseBegin
  <2> QED
    BY <1>0, <1>2, <2>2 DEF RetryParseBegin, TypeOK
<1>3. ASSUME NEW r \in Requests, NEW b \in Bids, DisqualifyBegin(r, b) PROVE TypeOK'
  <2>1. [op |-> "disqualify", lot |-> BidLot[b], bids |-> {b}, seen |-> 0] \in RequestType
    BY DEF RequestType, RequestOps, Steps
  <2>2. ReqOK
    BY <1>3, <2>1, AskTyped DEF DisqualifyBegin
  <2> QED
    BY <1>0, <1>3, <2>2 DEF DisqualifyBegin, TypeOK
<1>4. ASSUME NEW r \in Requests, NEW l \in Lots, CloseBegin(r, l) PROVE TypeOK'
  <2>1. \A op \in RequestOps :
            [op |-> op, lot |-> l, bids |-> Valid(l), seen |-> 0] \in RequestType
    BY DEF RequestType, Steps, Valid, BidsOfLot
  <2>2. ReqOK
    BY <1>4, <2>1, AskTyped DEF CloseBegin, RequestOps
  <2> QED
    BY <1>0, <1>4, <2>2 DEF CloseBegin, TypeOK
<1>5. ASSUME NEW r \in Requests, NEW l \in Lots, ConfirmBegin(r, l) PROVE TypeOK'
  <2>1. [op |-> "confirm", lot |-> l, bids |-> Valid(l), seen |-> 0] \in RequestType
    BY DEF RequestType, RequestOps, Steps, Valid, BidsOfLot
  <2>2. ReqOK
    BY <1>5, <2>1, AskTyped DEF ConfirmBegin
  <2> QED
    BY <1>0, <1>5, <2>2 DEF ConfirmBegin, TypeOK
<1>6. ASSUME NEW r \in Requests,
             RequestFails(r) \/ CloseRefused(r) \/ ConfirmHold(r)
      PROVE  TypeOK'
  BY <1>0, <1>6, AnswerTyped DEF RequestFails, CloseRefused, ConfirmHold, TypeOK
<1>7. ASSUME NEW r \in Requests, UploadCommit(r) PROVE TypeOK'
  <2>0. req[r] \in RequestType
    BY DEF TypeOK
  <2>1. [req[r] EXCEPT !.op = "enqueue"] \in RequestType
    BY <2>0 DEF RequestType, RequestOps
  <2>2. ReqOK
    BY <1>7, <2>1 DEF UploadCommit, TypeOK
  <2>3. PICK b \in req[r].bids :
            /\ bid' = [bid EXCEPT ![b] = "SUBMITTED"]
            /\ step' = [step EXCEPT ![b] = 0]
            /\ stale' = stale \ {b}
    BY <1>7 DEF UploadCommit
  <2>4. step' \in [Bids -> Steps]
    <3>1. 0 \in Steps
      BY DEF Steps
    <3> QED
      BY <2>3, <3>1 DEF TypeOK
  <2>5. bid' \in [Bids -> BidStatus \cup {"NONE"}]
    BY <2>3 DEF TypeOK, BidStatus
  <2>6. stale' \subseteq Bids
    BY <2>3 DEF TypeOK
  <2> QED
    BY <1>0, <1>7, <2>2, <2>4, <2>5, <2>6 DEF UploadCommit, TypeOK
<1>8. ASSUME NEW r \in Requests, RetryParseCommit(r) PROVE TypeOK'
  <2>0. req[r] \in RequestType
    BY DEF TypeOK
  <2>1. [req[r] EXCEPT !.op = "enqueue", !.seen = 0] \in RequestType
    <3>1. [req[r] EXCEPT !.op = "enqueue", !.seen = 0]
              = [[req[r] EXCEPT !.op = "enqueue"] EXCEPT !.seen = 0]
      OBVIOUS
    <3>2. "enqueue" \in RequestOps /\ 0 \in Steps
      BY DEF RequestOps, Steps
    <3> QED
      BY <2>0, <3>1, <3>2, RequestEdits
  <2>2. ReqOK
    BY <1>8, <2>1 DEF RetryParseCommit, TypeOK
  <2>3. PICK b \in req[r].bids :
            /\ bid' = [bid EXCEPT ![b] = "SUBMITTED"]
            /\ step' = [step EXCEPT ![b] = IF req[r].seen = 0 THEN @ ELSE 0]
            /\ stale' = stale \ {b}
    BY <1>8 DEF RetryParseCommit
  <2>4. b \in Bids
    BY DEF TypeOK, RequestType
  <2>5. step' \in [Bids -> Steps]
    BY <2>3, <2>4 DEF TypeOK, Steps
  <2>6. bid' \in [Bids -> BidStatus \cup {"NONE"}]
    BY <2>3 DEF TypeOK, BidStatus
  <2>7. stale' \subseteq Bids
    BY <2>3 DEF TypeOK
  <2> QED
    BY <1>0, <1>8, <2>2, <2>5, <2>6, <2>7 DEF RetryParseCommit, TypeOK
<1>9. ASSUME NEW r \in Requests, NEW j \in Jobs, Enqueue(r, j) PROVE TypeOK'
  <2>1. PICK b \in req[r].bids :
            job' = [job EXCEPT ![j] = [pc |-> "queued", bid |-> b, done |-> 0, att |-> 0, tries |-> 0]]
    BY <1>9 DEF Enqueue
  <2>2. b \in Bids
    BY DEF TypeOK, RequestType
  <2>3. [pc |-> "queued", bid |-> b, done |-> 0, att |-> 0, tries |-> 0] \in JobType
    BY <2>2 DEF JobType, JobPcs
  <2>4. JobOK
    BY <2>1, <2>3 DEF TypeOK
  <2>5. ReqOK
    BY <1>9, AnswerTyped DEF Enqueue
  <2> QED
    BY <1>0, <1>9, <2>4, <2>5 DEF Enqueue, TypeOK
<1>10. ASSUME NEW r \in Requests, CloseAbandon(r) \/ CloseHold(r) PROVE TypeOK'
  BY <1>0, <1>10, AnswerTyped DEF CloseAbandon, CloseHold, TypeOK, LotStatus
<1>11. ASSUME NEW r \in Requests, CloseRelease(r) \/ ConfirmRelease(r) PROVE TypeOK'
  BY <1>0, <1>11, AnswerTyped DEF CloseRelease, ConfirmRelease, TypeOK, LotStatus, BidStatus
<1>12. ASSUME NEW r \in Requests, DisqualifyCommit(r) PROVE TypeOK'
  BY <1>0, <1>12, AnswerTyped DEF DisqualifyCommit, TypeOK, BidStatus
<1>13. ASSUME NEW s \in Suppliers, NEW bl \in BOOLEAN, NEW ac \in BOOLEAN,
              UpdateSupplierStatus(s, bl, ac)
       PROVE TypeOK'
  BY <1>0, <1>13 DEF UpdateSupplierStatus, Cascade, BidsOf, TypeOK, BidStatus
<1>14. ASSUME NEW j \in Jobs, JobStart(j) PROVE TypeOK'
  <2>1. [job[j] EXCEPT !.pc = "begin", !.tries = @ + 1] \in JobType
    BY <1>14 DEF TypeOK, JobType, JobPcs, JobStart
  <2> QED
    BY <1>0, <1>14, <2>1 DEF JobStart, TypeOK
<1>15. ASSUME NEW j \in Jobs, PipelineSkip(j) \/ JobKilled(j) PROVE TypeOK'
  BY <1>0, <1>15, EndJobTyped DEF PipelineSkip, JobKilled, TypeOK
<1>16. ASSUME NEW j \in Jobs, PipelineBegin(j) PROVE TypeOK'
  BY <1>0, <1>16, MoveTyped DEF PipelineBegin, TypeOK, JobPcs
<1>17. ASSUME NEW j \in Jobs, PipelineClaim(j) PROVE TypeOK'
  BY <1>0, <1>17, MoveTyped DEF PipelineClaim, TypeOK, JobPcs, BidStatus
<1>18. ASSUME NEW j \in Jobs, PipelineStep(j) PROVE TypeOK'
  <2>0. job[j] \in JobType
    BY DEF TypeOK
  <2>1. job[j].done + 1 \in 0..LastStep
    BY <1>18, <2>0 DEF PipelineStep, JobType
  <2>2. [job[j] EXCEPT !.done = @ + 1] \in JobType
    BY <2>0, <2>1 DEF JobType
  <2>3. JobOK
    BY <1>18, <2>2 DEF PipelineStep, TypeOK
  <2> QED
    BY <1>0, <1>18, <2>1, <2>3 DEF PipelineStep, TypeOK, Steps
<1>19. ASSUME NEW j \in Jobs, PipelineFinish(j) PROVE TypeOK'
  BY <1>0, <1>19, EndJobTyped DEF PipelineFinish, TypeOK, BidStatus, Steps
<1>20. ASSUME NEW j \in Jobs, AttemptFails(j) PROVE TypeOK'
  <2>0. job[j] \in JobType
    BY DEF TypeOK
  <2>1. job[j].att < MaxRetries =>
            [job[j] EXCEPT !.pc = "begin", !.att = @ + 1, !.done = 0] \in JobType
    <3>1. [job[j] EXCEPT !.pc = "begin", !.att = @ + 1, !.done = 0]
              = [[[job[j] EXCEPT !.pc = "begin"] EXCEPT !.att = job[j].att + 1] EXCEPT !.done = 0]
      BY <2>0 DEF JobType
    <3>2. "begin" \in JobPcs
      BY DEF JobPcs
    <3>3. job[j].att < MaxRetries => job[j].att + 1 \in 0..MaxRetries
      BY <2>0 DEF JobType
    <3> QED
      BY <2>0, <3>1, <3>2, <3>3, JobEdits
  <2>2. [job[j] EXCEPT !.pc = "giveup"] \in JobType
    BY <2>0 DEF JobType, JobPcs
  <2>3. JobOK
    BY <1>20, <2>1, <2>2 DEF AttemptFails, TypeOK
  <2> QED
    BY <1>0, <1>20, <2>3 DEF AttemptFails, TypeOK
<1>21. ASSUME NEW j \in Jobs, FileRejected(j) PROVE TypeOK'
  BY <1>0, <1>21, MoveTyped DEF FileRejected, TypeOK, JobPcs
<1>22. ASSUME NEW j \in Jobs, MarkFailedRead(j) PROVE TypeOK'
  BY <1>0, <1>22, MoveTyped, EndJobTyped DEF MarkFailedRead, TypeOK, JobPcs
<1>23. ASSUME NEW j \in Jobs, MarkFailedWrite(j) PROVE TypeOK'
  BY <1>0, <1>23, EndJobTyped DEF MarkFailedWrite, TypeOK, BidStatus
<1>24. ASSUME NEW j \in Jobs, WorkerCrash(j) PROVE TypeOK'
  <2>0. job[j] \in JobType
    BY DEF TypeOK
  <2>1. [job[j] EXCEPT !.pc = "queued", !.att = 0, !.done = 0] \in JobType
    <3>1. [job[j] EXCEPT !.pc = "queued", !.att = 0, !.done = 0]
              = [[[job[j] EXCEPT !.pc = "queued"] EXCEPT !.att = 0] EXCEPT !.done = 0]
      OBVIOUS
    <3>2. "queued" \in JobPcs /\ 0 \in 0..MaxRetries
      BY DEF JobPcs
    <3> QED
      BY <2>0, <3>1, <3>2, JobEdits
  <2> QED
    BY <1>0, <1>24, <2>1 DEF WorkerCrash, TypeOK
<1>25. ASSUME NEW b \in Bids, Age(b) PROVE TypeOK'
  BY <1>0, <1>25 DEF Age, TypeOK
<1>26. CASE ScanSelect
  BY <1>0, <1>26 DEF ScanSelect, Zombies, TypeOK
<1>27. CASE ScanUpdate
  BY <1>0, <1>27 DEF ScanUpdate, TypeOK, BidStatus
<1>28. CASE UNCHANGED vars
  BY <1>28 DEF vars, TypeOK
<1> QED
  BY <1>1, <1>2, <1>3, <1>4, <1>5, <1>6, <1>7, <1>8, <1>9, <1>10, <1>11, <1>12, <1>13, <1>14,
     <1>15, <1>16, <1>17, <1>18, <1>19, <1>20, <1>21, <1>22, <1>23, <1>24, <1>25, <1>26, <1>27,
     <1>28
  DEF Next, Request, JobProgress, JobFailure

(* Every row, request and job always holds a value of its type. *)
THEOREM TypeCorrect == Spec => []TypeOK
BY TypeInit, TypeStep, PTL DEF Spec

-----------------------------------------------------------------------------
(* Closing.  FrozenOnlyUnderReview is not inductive: a confirm_prescreen in *)
(* flight seals without looking at the lot again.  What it relies on is     *)
(* that a lot it saw in PRE_SCREEN can only have moved to UNDER_REVIEW, and *)
(* that a request seals bids of its own lot.                                *)
ClosingRequests ==
    \A r \in Requests :
        /\ req[r].op \in {"abandon", "screen", "confirm"} =>
              req[r].lot \in Lots /\ req[r].bids \subseteq BidsOfLot(req[r].lot)
        /\ req[r].op = "confirm" => lot[req[r].lot] \in {"PRE_SCREEN", "UNDER_REVIEW"}

ClosingInv == TypeOK /\ FrozenOnlyUnderReview /\ ClosingRequests

(* One step of a lot along its edges, for all lots. *)
LotsMoveForward == \A l \in Lots : lot'[l] = lot[l] \/ <<lot[l], lot'[l]>> \in LotEdges

LEMMA ClosingInit == Init => ClosingInv
<1> SUFFICES ASSUME Init PROVE FrozenOnlyUnderReview /\ ClosingRequests
  BY TypeInit DEF ClosingInv
<1> QED
  BY DEF Init, FrozenOnlyUnderReview, ClosingRequests, Idle

(* A step that moves no lot, seals no bid and starts no closing request    *)
(* changes nothing the invariant speaks of.                                *)
LEMMA QuietStep ==
    ASSUME ClosingInv, TypeOK', lot' = lot,
           \A b \in Bids : bid'[b] = "FROZEN" => bid[b] = "FROZEN",
           \A r \in Requests :
               req'[r] = req[r] \/ req'[r].op \notin {"abandon", "screen", "confirm"}
    PROVE  ClosingInv' /\ LotsMoveForward
BY DEF ClosingInv, FrozenOnlyUnderReview, ClosingRequests, LotsMoveForward, BidsOfLot

(* What AskTyped and the others say, for the requests that are not r. *)
LEMMA AnswerEffect ==
    ASSUME TypeOK, NEW r \in Requests, Answer(r)
    PROVE  \A q \in Requests : req'[q] = req[q] \/ req'[q].op = "idle"
BY DEF TypeOK, Answer, Idle

LEMMA AskEffect ==
    ASSUME TypeOK, NEW r \in Requests, NEW x, Ask(r, x)
    PROVE  req'[r] = x /\ \A q \in Requests : q # r => req'[q] = req[q]
BY DEF TypeOK, Ask

(* A commit that hands its bid over for a job to be queued. *)
LEMMA CommitEffect ==
    ASSUME TypeOK, NEW r \in Requests, UploadCommit(r) \/ RetryParseCommit(r)
    PROVE  \A q \in Requests : req'[q] = req[q] \/ (req'[q].op = "enqueue" /\ req'[q].bids = req[q].bids)
<1>1. req[r] \in RequestType
  BY DEF TypeOK
<1>2. CASE UploadCommit(r)
  BY <1>1, <1>2 DEF TypeOK, UploadCommit, RequestType
<1>3. CASE RetryParseCommit(r)
  <2>1. req' = [req EXCEPT ![r] = [[@ EXCEPT !.op = "enqueue"] EXCEPT !.seen = 0]]
    BY <1>3 DEF RetryParseCommit
  <2>2. [[req[r] EXCEPT !.op = "enqueue"] EXCEPT !.seen = 0].op = "enqueue"
    BY <1>1 DEF RequestType
  <2>3. [[req[r] EXCEPT !.op = "enqueue"] EXCEPT !.seen = 0].bids = req[r].bids
    BY <1>1 DEF RequestType
  <2> QED
    BY <2>1, <2>2, <2>3 DEF TypeOK
<1> QED
  BY <1>2, <1>3

(* Every step keeps the closing invariant and moves lots along their edges. *)
LEMMA ClosingStep == ClosingInv /\ [Next]_vars => ClosingInv' /\ LotsMoveForward
<1> SUFFICES ASSUME ClosingInv, [Next]_vars PROVE ClosingInv' /\ LotsMoveForward
  OBVIOUS
<1>0. TypeOK /\ TypeOK'
  BY TypeStep DEF ClosingInv
<1>1. ASSUME NEW r \in Requests, NEW b \in Bids,
             UploadBegin(r, b) \/ RetryParseBegin(r, b) \/ DisqualifyBegin(r, b)
      PROVE  ClosingInv' /\ LotsMoveForward
  BY <1>0, <1>1, AskEffect, QuietStep DEF UploadBegin, RetryParseBegin, DisqualifyBegin
<1>2. ASSUME NEW r \in Requests, NEW l \in Lots, CloseBegin(r, l)
      PROVE  ClosingInv' /\ LotsMoveForward
  <2>1. /\ req'[r].op \in {"abandon", "screen"}
        /\ req'[r].lot = l
        /\ req'[r].bids \subseteq BidsOfLot(l)
        /\ \A q \in Requests : q # r => req'[q] = req[q]
    BY <1>0, <1>2, AskEffect DEF CloseBegin, Valid
  <2>2. lot' = lot /\ bid' = bid
    BY <1>2 DEF CloseBegin
  <2>3. ClosingRequests'
    BY <2>1, <2>2 DEF ClosingInv, ClosingRequests, BidsOfLot
  <2> QED
    BY <1>0, <2>2, <2>3 DEF ClosingInv, FrozenOnlyUnderReview, LotsMoveForward
<1>3. ASSUME NEW r \in Requests, NEW l \in Lots, ConfirmBegin(r, l)
      PROVE  ClosingInv' /\ LotsMoveForward
  <2>1. /\ req'[r].op = "confirm"
        /\ req'[r].lot = l
        /\ req'[r].bids \subseteq BidsOfLot(l)
        /\ \A q \in Requests : q # r => req'[q] = req[q]
    BY <1>0, <1>3, AskEffect DEF ConfirmBegin, Valid
  <2>2. lot' = lot /\ bid' = bid /\ lot[l] = "PRE_SCREEN"
    BY <1>3 DEF ConfirmBegin
  <2>3. ClosingRequests'
    BY <2>1, <2>2 DEF ClosingInv, ClosingRequests, BidsOfLot
  <2> QED
    BY <1>0, <2>2, <2>3 DEF ClosingInv, FrozenOnlyUnderReview, LotsMoveForward
<1>4. ASSUME NEW r \in Requests, RequestFails(r) \/ CloseRefused(r) \/ ConfirmHold(r)
      PROVE  ClosingInv' /\ LotsMoveForward
  BY <1>0, <1>4, AnswerEffect, QuietStep DEF RequestFails, CloseRefused, ConfirmHold
<1>5. ASSUME NEW r \in Requests, UploadCommit(r) \/ RetryParseCommit(r)
      PROVE  ClosingInv' /\ LotsMoveForward
  <2>1. \A b \in Bids : bid'[b] = "FROZEN" => bid[b] = "FROZEN"
    BY <1>0, <1>5 DEF UploadCommit, RetryParseCommit, TypeOK
  <2> QED
    BY <1>0, <1>5, <2>1, CommitEffect, QuietStep DEF UploadCommit, RetryParseCommit
<1>6. ASSUME NEW r \in Requests, NEW j \in Jobs, Enqueue(r, j)
      PROVE  ClosingInv' /\ LotsMoveForward
  BY <1>0, <1>6, AnswerEffect, QuietStep DEF Enqueue
<1>7. ASSUME NEW r \in Requests, CloseAbandon(r) \/ CloseHold(r)
      PROVE  ClosingInv' /\ LotsMoveForward
  <2>1. /\ req[r].lot \in Lots
        /\ lot[req[r].lot] = "BIDDING"
        /\ bid' = bid
        /\ \E v \in {"ABANDONED", "PRE_SCREEN"} : lot' = [lot EXCEPT ![req[r].lot] = v]
    BY <1>7 DEF ClosingInv, ClosingRequests, CloseAbandon, CloseHold, StillBidding
  <2>2. \A q \in Requests : req'[q] = req[q] \/ req'[q].op = "idle"
    BY <1>0, <1>7, AnswerEffect DEF CloseAbandon, CloseHold
  <2>3. LotsMoveForward
    BY <1>0, <2>1 DEF LotsMoveForward, LotEdges, TypeOK
  <2>4. FrozenOnlyUnderReview'
    BY <1>0, <2>1 DEF ClosingInv, FrozenOnlyUnderReview, TypeOK
  <2>5. ClosingRequests'
    BY <1>0, <2>1, <2>2 DEF ClosingInv, ClosingRequests, BidsOfLot, TypeOK
  <2> QED
    BY <1>0, <2>3, <2>4, <2>5 DEF ClosingInv
<1>8. ASSUME NEW r \in Requests, CloseRelease(r) \/ ConfirmRelease(r)
      PROVE  ClosingInv' /\ LotsMoveForward
  <2>1. /\ req[r].lot \in Lots
        /\ req[r].bids \subseteq BidsOfLot(req[r].lot)
        /\ lot[req[r].lot] \in {"BIDDING", "PRE_SCREEN", "UNDER_REVIEW"}
        /\ lot' = [lot EXCEPT ![req[r].lot] = "UNDER_REVIEW"]
        /\ bid' = [b \in Bids |-> IF b \in req[r].bids THEN "FROZEN" ELSE bid[b]]
    BY <1>8 DEF ClosingInv, ClosingRequests, CloseRelease, ConfirmRelease, StillBidding
  <2>2. \A q \in Requests : req'[q] = req[q] \/ req'[q].op = "idle"
    BY <1>0, <1>8, AnswerEffect DEF CloseRelease, ConfirmRelease
  <2>3. LotsMoveForward
    BY <1>0, <2>1 DEF LotsMoveForward, LotEdges, TypeOK
  <2>4. FrozenOnlyUnderReview'
    BY <1>0, <2>1 DEF ClosingInv, FrozenOnlyUnderReview, BidsOfLot, TypeOK
  <2>5. ClosingRequests'
    BY <1>0, <2>1, <2>2 DEF ClosingInv, ClosingRequests, BidsOfLot, TypeOK
  <2> QED
    BY <1>0, <2>3, <2>4, <2>5 DEF ClosingInv
<1>9. ASSUME NEW r \in Requests, DisqualifyCommit(r)
      PROVE  ClosingInv' /\ LotsMoveForward
  BY <1>0, <1>9, AnswerEffect, QuietStep DEF DisqualifyCommit
<1>10. ASSUME NEW s \in Suppliers, NEW bl \in BOOLEAN, NEW ac \in BOOLEAN,
              UpdateSupplierStatus(s, bl, ac)
       PROVE  ClosingInv' /\ LotsMoveForward
  BY <1>0, <1>10, QuietStep DEF UpdateSupplierStatus, Cascade
<1>11. ASSUME NEW j \in Jobs, JobProgress(j) \/ JobFailure(j)
       PROVE  ClosingInv' /\ LotsMoveForward
  <2>1. lot' = lot /\ req' = req
    BY <1>11 DEF JobProgress, JobFailure, JobStart, PipelineSkip, PipelineBegin, PipelineClaim,
                 PipelineStep, PipelineFinish, MarkFailedRead, MarkFailedWrite, AttemptFails,
                 FileRejected, JobKilled, WorkerCrash
  <2>2. bid' = bid \/ \E v \in {"PARSING", "PARSED", "PARSE_FAILED"} : bid' = [bid EXCEPT ![job[j].bid] = v]
    BY <1>11 DEF JobProgress, JobFailure, JobStart, PipelineSkip, PipelineBegin, PipelineClaim,
                 PipelineStep, PipelineFinish, MarkFailedRead, MarkFailedWrite, AttemptFails,
                 FileRejected, JobKilled, WorkerCrash
  <2>3. \A b \in Bids : bid'[b] = "FROZEN" => bid[b] = "FROZEN"
    BY <1>0, <2>2 DEF TypeOK
  <2> QED
    BY <1>0, <2>1, <2>3, QuietStep
<1>12. ASSUME NEW b \in Bids, Age(b) PROVE ClosingInv' /\ LotsMoveForward
  BY <1>0, <1>12, QuietStep DEF Age
<1>13. CASE ScanSelect \/ ScanUpdate
  BY <1>0, <1>13, QuietStep DEF ScanSelect, ScanUpdate
<1>14. CASE UNCHANGED vars
  BY <1>0, <1>14, QuietStep DEF vars
<1> QED
  BY <1>1, <1>2, <1>3, <1>4, <1>5, <1>6, <1>7, <1>8, <1>9, <1>10, <1>11, <1>12, <1>13, <1>14
  DEF Next, Request

(* However many close_bidding and confirm_prescreen requests overlap, a    *)
(* sealed bid belongs to a lot under review.                               *)
THEOREM FrozenOnlyUnderReviewHolds == Spec => []FrozenOnlyUnderReview
<1>1. ClosingInv => FrozenOnlyUnderReview
  BY DEF ClosingInv
<1> QED
  BY <1>1, ClosingInit, ClosingStep, PTL DEF Spec

(* No lot ever goes back, and none is decided twice. *)
THEOREM LotMovesForwardHolds == Spec => LotMovesForward
<1>1. ClosingInv /\ [Next]_vars
          => [\A l \in Lots : lot'[l] = lot[l] \/ <<lot[l], lot'[l]>> \in LotEdges]_vars
  BY ClosingStep DEF LotsMoveForward
<1> QED
  BY <1>1, ClosingInit, ClosingStep, PTL DEF Spec, LotMovesForward

-----------------------------------------------------------------------------
(* Who may write a bid.  Every write of a status comes from an operation   *)
(* that already held the bid, or is a disqualification; and an operation   *)
(* takes hold of a bid only while the bid is in work or not yet there.     *)
(* Both need that what a job or a request refers to is there:              *)
(* _run_pipeline goes ahead on any status it does not skip.                *)
RecordsExist ==
    /\ \A j \in Jobs : job[j].pc # "free" => job[j].bid \in Bids /\ bid[job[j].bid] # "NONE"
    /\ \A r \in Requests :
        /\ req[r].op \in {"upload", "retry", "enqueue"} => \E b \in Bids : req[r].bids = {b}
        /\ req[r].op \in {"enqueue", "disqualify"} => \A b \in req[r].bids : bid[b] # "NONE"

InWork == {"SUBMITTED", "PARSING", "PARSED", "PARSE_FAILED"}

WriterPcs == {"claim", "step", "mark"}
WriterOps == {"upload", "retry", "screen", "confirm"}

(* What one step may do to bid b. *)
TakesHold(b) == Writer(b)' /\ ~Writer(b) => bid[b] \in InWork \/ UploadAllowed(b)
WritesHeld(b) == bid'[b] # bid[b] /\ ~Writer(b) => bid'[b] = "DISQUALIFIED" /\ bid[b] # "NONE"

(* A step that adds no holder of b satisfies the first. *)
LEMMA NoNewHolder ==
    ASSUME NEW b \in Bids,
           \A j \in Jobs : job'[j].bid = b /\ job'[j].pc \in WriterPcs
                              => job[j].bid = b /\ job[j].pc \in WriterPcs,
           \A r \in Requests : b \in req'[r].bids /\ req'[r].op \in WriterOps
                              => b \in req[r].bids /\ req[r].op \in WriterOps,
           b \in scan' => b \in scan
    PROVE  TakesHold(b)
BY DEF TakesHold, Writer, ParserHolds, RequestHolds, WriterPcs, WriterOps

(* A step that adds holders of b, b being in work, satisfies it too. *)
LEMMA HolderInWork ==
    ASSUME NEW b \in Bids, bid[b] \in InWork
    PROVE  TakesHold(b)
BY DEF TakesHold

(* The move of a job that is not j's leaves the others alone. *)
LEMMA MoveEffect ==
    ASSUME TypeOK, NEW j \in Jobs, NEW pc, Move(j, pc)
    PROVE  /\ job'[j].pc = pc /\ job'[j].bid = job[j].bid
           /\ \A k \in Jobs : k # j => job'[k] = job[k]
<1>1. job[j] \in JobType
  BY DEF TypeOK
<1> QED
  BY <1>1 DEF TypeOK, Move, JobType

LEMMA EndJobEffect ==
    ASSUME TypeOK, NEW j \in Jobs, EndJob(j)
    PROVE  /\ job'[j].pc = "free"
           /\ \A k \in Jobs : k # j => job'[k] = job[k]
BY DEF TypeOK, EndJob, Free

LEMMA StartEffect ==
    ASSUME TypeOK, NEW j \in Jobs, JobStart(j)
    PROVE  /\ job'[j].pc = "begin" /\ job'[j].bid = job[j].bid
           /\ \A k \in Jobs : k # j => job'[k] = job[k]
<1>1. job[j] \in JobType
  BY DEF TypeOK
<1>2. job' = [job EXCEPT ![j] = [[@ EXCEPT !.pc = "begin"] EXCEPT !.tries = job[j].tries + 1]]
  BY <1>1 DEF TypeOK, JobStart
<1>3. LET k == [[job[j] EXCEPT !.pc = "begin"] EXCEPT !.tries = job[j].tries + 1]
      IN  k.pc = "begin" /\ k.bid = job[j].bid
  BY <1>1 DEF JobType
<1> QED
  BY <1>2, <1>3 DEF TypeOK

LEMMA StepEffect ==
    ASSUME TypeOK, NEW j \in Jobs, PipelineStep(j)
    PROVE  /\ job'[j].pc = "step" /\ job'[j].bid = job[j].bid
           /\ \A k \in Jobs : k # j => job'[k] = job[k]
<1>1. job[j] \in JobType
  BY DEF TypeOK
<1> QED
  BY <1>1 DEF TypeOK, PipelineStep, JobType

LEMMA FailureEffect ==
    ASSUME TypeOK, NEW j \in Jobs, AttemptFails(j) \/ WorkerCrash(j)
    PROVE  /\ job'[j].pc \in {"queued", "begin", "giveup"} /\ job'[j].bid = job[j].bid
           /\ job[j].pc # "free"
           /\ \A k \in Jobs : k # j => job'[k] = job[k]
<1>1. job[j] \in JobType
  BY DEF TypeOK
<1>2. CASE AttemptFails(j) /\ job[j].att < MaxRetries
  <2> DEFINE k == [[[job[j] EXCEPT !.pc = "begin"] EXCEPT !.att = job[j].att + 1] EXCEPT !.done = 0]
  <2>1. job' = [job EXCEPT ![j] = k]
    BY <1>1, <1>2 DEF TypeOK, AttemptFails
  <2>2. k.pc = "begin" /\ k.bid = job[j].bid
    BY <1>1 DEF JobType
  <2> QED
    BY <1>2, <2>1, <2>2 DEF TypeOK, AttemptFails
<1>3. CASE AttemptFails(j) /\ ~(job[j].att < MaxRetries)
  BY <1>1, <1>3 DEF TypeOK, AttemptFails, JobType
<1>4. CASE WorkerCrash(j)
  <2> DEFINE k == [[[job[j] EXCEPT !.pc = "queued"] EXCEPT !.att = 0] EXCEPT !.done = 0]
  <2>1. job' = [job EXCEPT ![j] = k]
    BY <1>4 DEF WorkerCrash
  <2>2. k.pc = "queued" /\ k.bid = job[j].bid
    BY <1>1 DEF JobType
  <2> QED
    BY <1>4, <2>1, <2>2 DEF TypeOK, WorkerCrash, Running
<1> QED
  BY <1>2, <1>3, <1>4

(* Rows are never deleted, and only uploads create them. *)
HoldInv == TypeOK /\ RecordsExist

LEMMA HoldInit == Init => HoldInv
<1> SUFFICES ASSUME Init PROVE RecordsExist
  BY TypeInit DEF HoldInv
<1> QED
  BY DEF Init, RecordsExist, Idle, Free

(* One step of a request: it takes hold of bids in work only, and writes   *)
(* only bids it holds.                                                     *)
LEMMA RequestHoldStep ==
    ASSUME HoldInv, TypeOK', NEW r \in Requests, Request(r)
    PROVE  RecordsExist' /\ \A b \in Bids : TakesHold(b) /\ WritesHeld(b)
<1> DEFINE Goal == RecordsExist' /\ \A b \in Bids : TakesHold(b) /\ WritesHeld(b)
<1>0. TypeOK /\ RecordsExist
  BY DEF HoldInv
<1>1. ASSUME NEW c \in Bids, UploadBegin(r, c) PROVE Goal
  <2>1. /\ req'[r].op = "upload" /\ req'[r].bids = {c}
        /\ \A q \in Requests : q # r => req'[q] = req[q]
    BY <1>0, <1>1, AskEffect DEF UploadBegin
  <2>2. bid' = bid /\ job' = job /\ scan' = scan /\ UploadAllowed(c)
    BY <1>1 DEF UploadBegin
  <2>3. TakesHold(c)
    BY <2>2 DEF TakesHold
  <2>4. \A b \in Bids \ {c} : TakesHold(b)
    BY <2>1, <2>2, NoNewHolder
  <2> QED
    BY <1>0, <2>1, <2>2, <2>3, <2>4 DEF RecordsExist, WritesHeld
<1>2. ASSUME NEW c \in Bids, RetryParseBegin(r, c) PROVE Goal
  <2>1. /\ req'[r].op = "retry" /\ req'[r].bids = {c}
        /\ \A q \in Requests : q # r => req'[q] = req[q]
    BY <1>0, <1>2, AskEffect DEF RetryParseBegin
  <2>2. bid' = bid /\ job' = job /\ scan' = scan /\ bid[c] \in InWork
    BY <1>2 DEF RetryParseBegin, InWork
  <2>3. TakesHold(c)
    BY <2>2, HolderInWork
  <2>4. \A b \in Bids \ {c} : TakesHold(b)
    BY <2>1, <2>2, NoNewHolder
  <2> QED
    BY <1>0, <2>1, <2>2, <2>3, <2>4 DEF RecordsExist, WritesHeld
<1>3. ASSUME NEW c \in Bids, DisqualifyBegin(r, c) PROVE Goal
  <2>1. /\ req'[r].op = "disqualify" /\ req'[r].bids = {c}
        /\ \A q \in Requests : q # r => req'[q] = req[q]
    BY <1>0, <1>3, AskEffect DEF DisqualifyBegin
  <2>2. bid' = bid /\ job' = job /\ scan' = scan /\ bid[c] # "NONE"
    BY <1>3 DEF DisqualifyBegin
  <2>3. \A b \in Bids : TakesHold(b)
    BY <2>1, <2>2, NoNewHolder DEF WriterOps
  <2> QED
    BY <1>0, <2>1, <2>2, <2>3 DEF RecordsExist, WritesHeld
<1>4. ASSUME NEW l \in Lots, CloseBegin(r, l) \/ ConfirmBegin(r, l) PROVE Goal
  <2>1. /\ req'[r].op \in {"abandon", "screen", "confirm"} /\ req'[r].bids = Valid(l)
        /\ \A q \in Requests : q # r => req'[q] = req[q]
    BY <1>0, <1>4, AskEffect DEF CloseBegin, ConfirmBegin
  <2>2. bid' = bid /\ job' = job /\ scan' = scan
    BY <1>4 DEF CloseBegin, ConfirmBegin
  <2>3. \A b \in Valid(l) : TakesHold(b)
    BY HolderInWork DEF Valid, BidsOfLot, InWork
  <2>4. \A b \in Bids \ Valid(l) : TakesHold(b)
    BY <2>1, <2>2, NoNewHolder
  <2> QED
    BY <1>0, <2>1, <2>2, <2>3, <2>4 DEF RecordsExist, WritesHeld
<1>5. ASSUME RequestFails(r) \/ CloseRefused(r) \/ ConfirmHold(r) \/ CloseAbandon(r) \/ CloseHold(r)
      PROVE  Goal
  <2>1. \A q \in Requests : req'[q] = req[q] \/ req'[q].op = "idle"
    BY <1>0, <1>5, AnswerEffect
    DEF RequestFails, CloseRefused, ConfirmHold, CloseAbandon, CloseHold
  <2>2. bid' = bid /\ job' = job /\ scan' = scan
    BY <1>5 DEF RequestFails, CloseRefused, ConfirmHold, CloseAbandon, CloseHold
  <2>3. \A b \in Bids : TakesHold(b)
    BY <2>1, <2>2, NoNewHolder DEF WriterOps
  <2> QED
    BY <1>0, <2>1, <2>2, <2>3 DEF RecordsExist, WritesHeld
<1>6. ASSUME UploadCommit(r) \/ RetryParseCommit(r) PROVE Goal
  <2>1. \A q \in Requests : req'[q] = req[q] \/ (req'[q].op = "enqueue" /\ req'[q].bids = req[q].bids)
    BY <1>0, <1>6, CommitEffect
  <2>2. PICK c \in req[r].bids : bid' = [bid EXCEPT ![c] = "SUBMITTED"]
    BY <1>6 DEF UploadCommit, RetryParseCommit
  <2>3. job' = job /\ scan' = scan
    BY <1>6 DEF UploadCommit, RetryParseCommit
  <2>4. \A b \in Bids : TakesHold(b)
    BY <2>1, <2>3, NoNewHolder DEF WriterOps
  <2>5. Writer(c)
    BY <1>6, <2>2 DEF Writer, RequestHolds, UploadCommit, RetryParseCommit
  <2>6. \A b \in Bids : b # c => bid'[b] = bid[b]
    BY <1>0, <2>2 DEF TypeOK
  <2>7. \A b \in Bids : WritesHeld(b)
    BY <2>5, <2>6 DEF WritesHeld
  <2>8. req'[r].op = "enqueue" => \A b \in req'[r].bids : bid'[b] # "NONE"
    <3>1. req'[r].bids = req[r].bids
      BY <2>1
    <3>2. req[r].bids = {c} /\ c \in Bids
      BY <1>0, <1>6, <2>2 DEF RecordsExist, UploadCommit, RetryParseCommit
    <3> QED
      BY <1>0, <2>2, <3>1, <3>2 DEF TypeOK
  <2>9. \A b \in Bids : bid[b] # "NONE" => bid'[b] # "NONE"
    BY <1>0, <2>2 DEF TypeOK
  <2>10. RecordsExist'
    <3>1. \A q \in Requests : q # r => req'[q] = req[q]
      BY <1>0, <1>6 DEF UploadCommit, RetryParseCommit, TypeOK
    <3>2. req'[r].bids = req[r].bids /\ \E b \in Bids : req[r].bids = {b}
      BY <1>0, <1>6, <2>1 DEF RecordsExist, UploadCommit, RetryParseCommit
    <3>3. req'[r].op # "disqualify"
      BY <1>6, <2>1 DEF UploadCommit, RetryParseCommit
    <3>4. \A q \in Requests :
              /\ req'[q].op \in {"upload", "retry", "enqueue"} => \E b \in Bids : req'[q].bids = {b}
              /\ req'[q].op \in {"enqueue", "disqualify"} => \A b \in req'[q].bids : bid'[b] # "NONE"
      <4>1. ASSUME NEW q \in Requests, q # r
            PROVE  req'[q].op \in {"enqueue", "disqualify"} => \A b \in req'[q].bids : bid'[b] # "NONE"
        BY <1>0, <2>9, <3>1, <4>1 DEF RecordsExist, TypeOK, RequestType
      <4> QED
        BY <1>0, <2>8, <3>1, <3>2, <3>3, <4>1 DEF RecordsExist
    <3> QED
      BY <1>0, <2>3, <2>9, <3>4 DEF RecordsExist
  <2> QED
    BY <2>4, <2>7, <2>10
<1>7. ASSUME NEW j \in Jobs, Enqueue(r, j) PROVE Goal
  <2>1. \A q \in Requests : req'[q] = req[q] \/ req'[q].op = "idle"
    BY <1>0, <1>7, AnswerEffect DEF Enqueue
  <2>2. bid' = bid /\ scan' = scan
    BY <1>7 DEF Enqueue
  <2>3. PICK c \in req[r].bids :
            job' = [job EXCEPT ![j] = [pc |-> "queued", bid |-> c, done |-> 0, att |-> 0, tries |-> 0]]
    BY <1>7 DEF Enqueue
  <2>4. /\ job'[j].pc = "queued" /\ job'[j].bid = c
        /\ \A k \in Jobs : k # j => job'[k] = job[k]
    BY <1>0, <2>3 DEF TypeOK
  <2>5. c \in Bids /\ bid[c] # "NONE"
    BY <1>0, <1>7, <2>3 DEF RecordsExist, Enqueue
  <2>6. \A b \in Bids : TakesHold(b)
    BY <2>1, <2>2, <2>4, NoNewHolder DEF WriterOps, WriterPcs
  <2> QED
    BY <1>0, <2>1, <2>2, <2>4, <2>5, <2>6 DEF RecordsExist, WritesHeld
<1>8. ASSUME CloseRelease(r) \/ ConfirmRelease(r) \/ DisqualifyCommit(r) PROVE Goal
  <2>1. \A q \in Requests : req'[q] = req[q] \/ req'[q].op = "idle"
    BY <1>0, <1>8, AnswerEffect DEF CloseRelease, ConfirmRelease, DisqualifyCommit
  <2>2. job' = job /\ scan' = scan
    BY <1>8 DEF CloseRelease, ConfirmRelease, DisqualifyCommit
  <2>3. \A b \in Bids : TakesHold(b)
    BY <2>1, <2>2, NoNewHolder DEF WriterOps
  <2>4. \A b \in Bids : bid[b] # "NONE" => bid'[b] # "NONE"
    BY <1>8 DEF CloseRelease, ConfirmRelease, DisqualifyCommit
  <2>5. RecordsExist'
    <3>1. \A q \in Requests : req[q].bids \subseteq Bids
      BY <1>0 DEF TypeOK, RequestType
    <3> QED
      BY <1>0, <2>1, <2>2, <2>4, <3>1 DEF RecordsExist
  <2>6. ASSUME NEW b \in Bids PROVE WritesHeld(b)
    <3>1. CASE b \notin req[r].bids
      BY <1>8, <3>1 DEF WritesHeld, CloseRelease, ConfirmRelease, DisqualifyCommit
    <3>2. CASE b \in req[r].bids /\ req[r].op \in {"screen", "confirm"}
      BY <3>2 DEF WritesHeld, Writer, RequestHolds
    <3>3. CASE b \in req[r].bids /\ DisqualifyCommit(r)
      BY <1>0, <3>3 DEF WritesHeld, RecordsExist, DisqualifyCommit
    <3> QED
      BY <1>8, <3>1, <3>2, <3>3 DEF CloseRelease, ConfirmRelease
  <2> QED
    BY <2>3, <2>5, <2>6
<1> QED
  BY <1>1, <1>2, <1>3, <1>4, <1>5, <1>6, <1>7, <1>8 DEF Request

(* One step of a job: only the status check lets it take hold. *)
LEMMA JobHoldStep ==
    ASSUME HoldInv, TypeOK', NEW j \in Jobs, JobProgress(j) \/ JobFailure(j)
    PROVE  RecordsExist' /\ \A b \in Bids : TakesHold(b) /\ WritesHeld(b)
<1> DEFINE Goal == RecordsExist' /\ \A b \in Bids : TakesHold(b) /\ WritesHeld(b)
<1>0. TypeOK /\ RecordsExist
  BY DEF HoldInv
<1>1. ASSUME JobStart(j) \/ AttemptFails(j) \/ WorkerCrash(j) \/ FileRejected(j) PROVE Goal
  <2>1. /\ job'[j].pc \in {"queued", "begin", "giveup"} /\ job'[j].bid = job[j].bid
        /\ job[j].pc # "free"
        /\ \A k \in Jobs : k # j => job'[k] = job[k]
    BY <1>0, <1>1, StartEffect, FailureEffect, MoveEffect DEF JobStart, FileRejected
  <2>2. bid' = bid /\ req' = req /\ scan' = scan
    BY <1>1 DEF JobStart, AttemptFails, WorkerCrash, FileRejected
  <2>3. \A b \in Bids : TakesHold(b)
    BY <2>1, <2>2, NoNewHolder DEF WriterPcs
  <2> QED
    BY <1>0, <2>1, <2>2, <2>3 DEF RecordsExist, WritesHeld
<1>2. ASSUME PipelineSkip(j) \/ JobKilled(j) \/ (MarkFailedRead(j) /\ EndJob(j)) PROVE Goal
  <2>1. job'[j].pc = "free" /\ \A k \in Jobs : k # j => job'[k] = job[k]
    BY <1>0, <1>2, EndJobEffect DEF PipelineSkip, JobKilled
  <2>2. bid' = bid /\ req' = req /\ scan' = scan
    BY <1>2 DEF PipelineSkip, JobKilled, MarkFailedRead
  <2>3. \A b \in Bids : TakesHold(b)
    BY <2>1, <2>2, NoNewHolder DEF WriterPcs
  <2> QED
    BY <1>0, <2>1, <2>2, <2>3 DEF RecordsExist, WritesHeld
<1>3. ASSUME PipelineBegin(j) \/ (MarkFailedRead(j) /\ bid[job[j].bid] = "PARSING") PROVE Goal
  <2>1. /\ job'[j].pc \in {"claim", "step", "mark"} /\ job'[j].bid = job[j].bid
        /\ job[j].pc # "free"
        /\ \A k \in Jobs : k # j => job'[k] = job[k]
    BY <1>0, <1>3, MoveEffect DEF PipelineBegin, MarkFailedRead
  <2>2. bid' = bid /\ req' = req /\ scan' = scan
    BY <1>3 DEF PipelineBegin, MarkFailedRead
  <2>3. job[j].bid \in Bids /\ bid[job[j].bid] \in InWork
    BY <1>0, <1>3, <2>1
    DEF RecordsExist, PipelineBegin, MarkFailedRead, SkipStatus, TypeOK, BidStatus, InWork
  <2>4. TakesHold(job[j].bid)
    BY <2>3, HolderInWork
  <2>5. \A b \in Bids : b # job[j].bid => TakesHold(b)
    BY <2>1, <2>2, NoNewHolder
  <2> QED
    BY <1>0, <2>1, <2>2, <2>4, <2>5 DEF RecordsExist, WritesHeld
<1>4. ASSUME PipelineClaim(j) \/ PipelineStep(j) PROVE Goal
  <2>1. /\ job'[j].pc = "step" /\ job'[j].bid = job[j].bid
        /\ \A k \in Jobs : k # j => job'[k] = job[k]
    BY <1>0, <1>4, MoveEffect, StepEffect DEF PipelineClaim
  <2>2. /\ req' = req /\ scan' = scan
        /\ job[j].pc \in {"claim", "step"}
        /\ bid' = bid \/ bid' = [bid EXCEPT ![job[j].bid] = "PARSING"]
    BY <1>4 DEF PipelineClaim, PipelineStep
  <2>3. \A b \in Bids : TakesHold(b)
    BY <2>1, <2>2, NoNewHolder DEF WriterPcs
  <2>4. \A b \in Bids : WritesHeld(b)
    BY <1>0, <2>2 DEF WritesHeld, Writer, ParserHolds, TypeOK
  <2>5. \A b \in Bids : bid[b] # "NONE" => bid'[b] # "NONE"
    BY <1>0, <2>2 DEF TypeOK
  <2>6. RecordsExist'
    <3>1. \A q \in Requests : req[q].bids \subseteq Bids
      BY <1>0 DEF TypeOK, RequestType
    <3> QED
      BY <1>0, <2>1, <2>2, <2>5, <3>1 DEF RecordsExist
  <2> QED
    BY <2>3, <2>4, <2>6
<1>5. ASSUME PipelineFinish(j) \/ MarkFailedWrite(j) PROVE Goal
  <2>1. job'[j].pc = "free" /\ \A k \in Jobs : k # j => job'[k] = job[k]
    BY <1>0, <1>5, EndJobEffect DEF PipelineFinish, MarkFailedWrite
  <2>2. /\ req' = req /\ scan' = scan
        /\ job[j].pc \in {"step", "mark"}
        /\ \E v \in {"PARSED", "PARSE_FAILED"} : bid' = [bid EXCEPT ![job[j].bid] = v]
    BY <1>5 DEF PipelineFinish, MarkFailedWrite
  <2>3. \A b \in Bids : TakesHold(b)
    BY <2>1, <2>2, NoNewHolder DEF WriterPcs
  <2>4. \A b \in Bids : WritesHeld(b)
    BY <1>0, <2>2 DEF WritesHeld, Writer, ParserHolds, TypeOK
  <2>5. \A b \in Bids : bid[b] # "NONE" => bid'[b] # "NONE"
    BY <1>0, <2>2 DEF TypeOK
  <2>6. RecordsExist'
    <3>1. \A q \in Requests : req[q].bids \subseteq Bids
      BY <1>0 DEF TypeOK, RequestType
    <3> QED
      BY <1>0, <2>1, <2>2, <2>5, <3>1 DEF RecordsExist
  <2> QED
    BY <2>3, <2>4, <2>6
<1> QED
  BY <1>1, <1>2, <1>3, <1>4, <1>5 DEF JobProgress, JobFailure, MarkFailedRead

(* Every step takes hold of bids in work only, and writes held bids only. *)
LEMMA HoldStep ==
    ASSUME HoldInv, [Next]_vars
    PROVE  HoldInv' /\ \A b \in Bids : TakesHold(b) /\ WritesHeld(b)
<1> DEFINE Goal == RecordsExist' /\ \A b \in Bids : TakesHold(b) /\ WritesHeld(b)
<1>0. TypeOK /\ RecordsExist /\ TypeOK'
  BY TypeStep DEF HoldInv
<1>1. ASSUME NEW r \in Requests, Request(r) PROVE Goal
  BY <1>0, <1>1, RequestHoldStep
<1>2. ASSUME NEW j \in Jobs, JobProgress(j) \/ JobFailure(j) PROVE Goal
  BY <1>0, <1>2, JobHoldStep
<1>3. ASSUME NEW s \in Suppliers, NEW bl \in BOOLEAN, NEW ac \in BOOLEAN,
             UpdateSupplierStatus(s, bl, ac)
      PROVE  Goal
  <2>1. /\ req' = req /\ job' = job /\ scan' = scan
        /\ \A b \in Bids : bid'[b] = bid[b] \/ (bid'[b] = "DISQUALIFIED" /\ bid[b] # "NONE")
    BY <1>0, <1>3 DEF UpdateSupplierStatus, Cascade
  <2>2. \A b \in Bids : TakesHold(b)
    BY <2>1, NoNewHolder
  <2>3. \A q \in Requests : req[q].bids \subseteq Bids
    BY <1>0 DEF TypeOK, RequestType
  <2> QED
    BY <1>0, <2>1, <2>2, <2>3 DEF RecordsExist, WritesHeld
<1>4. ASSUME NEW c \in Bids, Age(c) PROVE Goal
  <2>1. \A b \in Bids : TakesHold(b)
    BY <1>4, NoNewHolder DEF Age
  <2> QED
    BY <1>0, <1>4, <2>1 DEF Age, RecordsExist, WritesHeld
<1>5. ASSUME ScanSelect PROVE Goal
  <2>1. \A b \in Bids : bid[b] = "PARSING" => TakesHold(b)
    BY HolderInWork DEF InWork
  <2>2. \A b \in Bids : bid[b] # "PARSING" => TakesHold(b)
    BY <1>5, NoNewHolder DEF ScanSelect, Zombies
  <2> QED
    BY <1>0, <1>5, <2>1, <2>2 DEF ScanSelect, RecordsExist, WritesHeld
<1>6. ASSUME ScanUpdate PROVE Goal
  <2>1. \A b \in Bids : TakesHold(b)
    BY <1>6, NoNewHolder DEF ScanUpdate
  <2>2. \A b \in Bids : WritesHeld(b)
    BY <1>6 DEF ScanUpdate, WritesHeld, Writer
  <2>3. \A b \in Bids : bid[b] # "NONE" => bid'[b] # "NONE"
    BY <1>6 DEF ScanUpdate
  <2>4. \A q \in Requests : req[q].bids \subseteq Bids
    BY <1>0 DEF TypeOK, RequestType
  <2> QED
    BY <1>0, <1>6, <2>1, <2>2, <2>3, <2>4 DEF ScanUpdate, RecordsExist
<1>7. ASSUME UNCHANGED vars PROVE Goal
  <2>1. \A b \in Bids : TakesHold(b)
    BY <1>7, NoNewHolder DEF vars
  <2> QED
    BY <1>0, <1>7, <2>1 DEF vars, RecordsExist, WritesHeld
<1>8. Goal
  BY <1>1, <1>2, <1>3, <1>4, <1>5, <1>6, <1>7 DEF Next
<1> QED
  BY <1>0, <1>8 DEF HoldInv

(* A sealed or disqualified bid that nothing in flight holds stays so. *)
THEOREM SettledIsFinalHolds == Spec => SettledIsFinal
<1> DEFINE Final == \A b \in Bids : Settled(b) =>
                        /\ Settled(b)'
                        /\ bid[b] = "DISQUALIFIED" => bid'[b] = "DISQUALIFIED"
<1>1. HoldInv /\ [Next]_vars => HoldInv'
  BY HoldStep
<1>2. HoldInv /\ [Next]_vars => [Final]_vars
  <2> SUFFICES ASSUME HoldInv, [Next]_vars, NEW b \in Bids, Settled(b)
               PROVE  Settled(b)' /\ (bid[b] = "DISQUALIFIED" => bid'[b] = "DISQUALIFIED")
    OBVIOUS
  <2>1. TakesHold(b) /\ WritesHeld(b)
    BY HoldStep
  <2>2. bid[b] \in {"FROZEN", "DISQUALIFIED"} /\ ~Writer(b)
    BY DEF Settled
  <2>3. ~UploadAllowed(b)
    BY <2>2 DEF UploadAllowed, BidsOfLot, BidsOf
  <2>4. ~Writer(b)'
    BY <2>1, <2>2, <2>3 DEF TakesHold, InWork
  <2>5. bid'[b] = bid[b] \/ bid'[b] = "DISQUALIFIED"
    BY <2>1, <2>2 DEF WritesHeld
  <2> QED
    BY <2>2, <2>4, <2>5 DEF Settled
<1> QED
  BY <1>1, <1>2, HoldInit, PTL DEF Spec, SettledIsFinal

-----------------------------------------------------------------------------
(* The blacklist.  BlacklistHolds is not inductive: a bid could be held    *)
(* without having been exposed.  The cascade records every holder it finds,*)
(* and afterwards nothing takes hold of a bid that is not in work.         *)
Barred(b) == supplier[BidSupplier[b]].blacklisted /\ b \notin exposed

BlacklistInv ==
    /\ HoldInv
    /\ \A b \in Bids : Barred(b) => bid[b] \in {"NONE", "DISQUALIFIED"} /\ ~Writer(b)

LEMMA BlacklistInit == Init => BlacklistInv
<1> SUFFICES ASSUME Init PROVE \A b \in Bids : ~Barred(b)
  BY HoldInit DEF BlacklistInv
<1> QED
  BY DEF Init, Barred

(* A step that leaves suppliers alone keeps barred bids untouched. *)
LEMMA BarredStays ==
    ASSUME BlacklistInv, [Next]_vars, supplier' = supplier, exposed' = exposed
    PROVE  BlacklistInv'
<1>1. HoldInv' /\ \A b \in Bids : TakesHold(b) /\ WritesHeld(b)
  BY HoldStep DEF BlacklistInv
<1>2. ASSUME NEW b \in Bids, Barred(b)'
      PROVE  bid'[b] \in {"NONE", "DISQUALIFIED"} /\ ~Writer(b)'
  <2>1. Barred(b) /\ bid[b] \in {"NONE", "DISQUALIFIED"} /\ ~Writer(b)
    BY <1>2 DEF Barred, BlacklistInv
  <2>2. ~UploadAllowed(b)
    BY <2>1 DEF Barred, UploadAllowed
  <2> QED
    BY <1>1, <2>1, <2>2 DEF TakesHold, WritesHeld, InWork
<1> QED
  BY <1>1, <1>2 DEF BlacklistInv

(* Blacklisting a supplier bars its bids and disqualifies them; setting it *)
(* to anything else bars none.                                             *)
LEMMA SupplierStays ==
    ASSUME BlacklistInv, [Next]_vars, NEW s \in Suppliers, NEW bl \in BOOLEAN, NEW ac \in BOOLEAN,
           UpdateSupplierStatus(s, bl, ac)
    PROVE  BlacklistInv'
<1>1. HoldInv' /\ TypeOK
  BY HoldStep DEF BlacklistInv, HoldInv
<1>2. supplier' = [supplier EXCEPT ![s] = [blacklisted |-> bl, active |-> ac]]
  BY DEF UpdateSupplierStatus
<1>3. \A b \in Bids : Writer(b)' <=> Writer(b)
  BY DEF UpdateSupplierStatus, Writer, ParserHolds, RequestHolds
<1>4. ASSUME NEW b \in Bids, Barred(b)'
      PROVE  bid'[b] \in {"NONE", "DISQUALIFIED"} /\ ~Writer(b)'
  <2>1. CASE bl /\ ~supplier[s].blacklisted /\ BidSupplier[b] = s
    <3>1. Cascade(s)
      BY <2>1 DEF UpdateSupplierStatus
    <3>2. ~Writer(b)
      BY <1>4, <2>1, <3>1 DEF Cascade, Barred, BidsOf
    <3>3. bid'[b] \in {"NONE", "DISQUALIFIED"}
      BY <1>1, <2>1, <3>1 DEF Cascade, BidsOf, TypeOK
    <3> QED
      BY <1>3, <3>2, <3>3
  <2>2. CASE bl /\ ~supplier[s].blacklisted /\ BidSupplier[b] # s
    <3>1. Cascade(s)
      BY <2>2 DEF UpdateSupplierStatus
    <3>2. bid'[b] = bid[b] /\ (b \in exposed' <=> b \in exposed)
      BY <1>1, <2>2, <3>1 DEF Cascade, BidsOf, TypeOK
    <3>3. supplier'[BidSupplier[b]] = supplier[BidSupplier[b]]
      BY <1>1, <1>2, <2>2 DEF TypeOK
    <3> QED
      BY <1>3, <1>4, <3>2, <3>3 DEF Barred, BlacklistInv
  <2>3. CASE ~(bl /\ ~supplier[s].blacklisted)
    <3>1. bid' = bid /\ exposed' = exposed
      BY <2>3 DEF UpdateSupplierStatus
    <3>2. supplier'[BidSupplier[b]].blacklisted => supplier[BidSupplier[b]].blacklisted
      BY <1>1, <1>2, <2>3 DEF TypeOK
    <3> QED
      BY <1>3, <1>4, <3>1, <3>2 DEF Barred, BlacklistInv
  <2> QED
    BY <2>1, <2>2, <2>3
<1> QED
  BY <1>1, <1>4 DEF BlacklistInv

LEMMA BlacklistStep == BlacklistInv /\ [Next]_vars => BlacklistInv'
<1> SUFFICES ASSUME BlacklistInv, [Next]_vars PROVE BlacklistInv'
  OBVIOUS
<1>1. ASSUME NEW s \in Suppliers, NEW bl \in BOOLEAN, NEW ac \in BOOLEAN,
             UpdateSupplierStatus(s, bl, ac)
      PROVE  BlacklistInv'
  BY <1>1, SupplierStays
<1>2. ASSUME NEW r \in Requests, Request(r) PROVE supplier' = supplier /\ exposed' = exposed
  BY <1>2 DEF Request, UploadBegin, RetryParseBegin, DisqualifyBegin, CloseBegin, ConfirmBegin,
              RequestFails, UploadCommit, RetryParseCommit, Enqueue, CloseAbandon, CloseRelease,
              CloseHold, CloseRefused, ConfirmHold, ConfirmRelease, DisqualifyCommit
<1>3. ASSUME NEW j \in Jobs, JobProgress(j) \/ JobFailure(j)
      PROVE  supplier' = supplier /\ exposed' = exposed
  BY <1>3 DEF JobProgress, JobFailure, JobStart, PipelineSkip, PipelineBegin, PipelineClaim,
              PipelineStep, PipelineFinish, MarkFailedRead, MarkFailedWrite, AttemptFails,
              FileRejected, JobKilled, WorkerCrash
<1>4. (\E b \in Bids : Age(b)) \/ ScanSelect \/ ScanUpdate \/ UNCHANGED vars
          => supplier' = supplier /\ exposed' = exposed
  BY DEF Age, ScanSelect, ScanUpdate, vars
<1> QED
  BY <1>1, <1>2, <1>3, <1>4, BarredStays DEF Next

(* A blacklisted supplier has no bid that still counts, except one that an *)
(* operation held when the cascade ran.                                    *)
THEOREM BlacklistHoldsAlways == Spec => []BlacklistHolds
<1>1. BlacklistInv => BlacklistHolds
  BY DEF BlacklistInv, BlacklistHolds, Barred
<1> QED
  BY <1>1, BlacklistInit, BlacklistStep, PTL DEF Spec

-----------------------------------------------------------------------------
(* SealedLots.  The step of an operation is one of its steps, or a stutter *)
(* of all but the rows in hand.  What it takes besides the invariants above *)
(* is that a request that screens a lot still has the quorum it counted.   *)
QuorumInHand == \A r \in Requests : req[r].op = "screen" => Cardinality(req[r].bids) >= MinValidBids

SealInv == HoldInv /\ ClosingInv /\ QuorumInHand

Held == {b \in Bids : Writer(b)}
Phases == [l \in Lots |-> PhaseOf(lot[l])]
Standings == [b \in Bids |-> StandingOf(bid[b])]

LEMMA SealInit == Init => SealInv /\ Seals!Init
<1> SUFFICES ASSUME Init PROVE SealInv /\ Seals!Init
  OBVIOUS
<1>1. QuorumInHand
  BY DEF Init, QuorumInHand, Idle
<1>2. \A b \in Bids : ~Writer(b)
  BY DEF Init, Writer, ParserHolds, RequestHolds, Idle, Free
<1> QED
  BY <1>1, <1>2, HoldInit, ClosingInit
  DEF SealInv, Seals!Init, Init, PhaseOf, StandingOf

(* Only close_bidding starts a screening, with the bids it counted.        *)
LEMMA QuorumStep == SealInv /\ [Next]_vars => QuorumInHand'
<1> SUFFICES ASSUME SealInv, [Next]_vars PROVE QuorumInHand'
  OBVIOUS
<1>0. TypeOK /\ QuorumInHand
  BY DEF SealInv, HoldInv
<1>1. ASSUME \A r \in Requests : req'[r] = req[r] \/ req'[r].op # "screen"
      PROVE  QuorumInHand'
  BY <1>0, <1>1 DEF QuorumInHand
<1>2. ASSUME NEW r \in Requests, NEW l \in Lots, CloseBegin(r, l)
      PROVE  QuorumInHand'
  <2>1. \A q \in Requests : q # r => req'[q] = req[q]
    BY <1>0, <1>2, AskEffect DEF CloseBegin
  <2>2. req'[r].op = "screen" => req'[r].bids = Valid(l) /\ Cardinality(Valid(l)) >= MinValidBids
    BY <1>0, <1>2, AskEffect DEF CloseBegin
  <2> QED
    BY <1>0, <2>1, <2>2 DEF QuorumInHand
<1>3. ASSUME NEW r \in Requests, Request(r), \A l \in Lots : ~CloseBegin(r, l)
      PROVE  QuorumInHand'
  <2>1. CASE UploadCommit(r) \/ RetryParseCommit(r)
    BY <1>0, <1>1, <2>1, CommitEffect
  <2>2. CASE \/ RequestFails(r) \/ CloseRefused(r) \/ ConfirmHold(r) \/ CloseAbandon(r) \/ CloseHold(r)
             \/ CloseRelease(r) \/ ConfirmRelease(r) \/ DisqualifyCommit(r)
             \/ \E j \in Jobs : Enqueue(r, j)
    BY <1>0, <1>1, <2>2, AnswerEffect
    DEF RequestFails, CloseRefused, ConfirmHold, CloseAbandon, CloseHold, CloseRelease,
        ConfirmRelease, DisqualifyCommit, Enqueue
  <2>3. ASSUME NEW x, Ask(r, x), x.op # "screen" PROVE QuorumInHand'
    BY <1>0, <1>1, <2>3, AskEffect
  <2>4. ASSUME NEW b \in Bids, UploadBegin(r, b) \/ RetryParseBegin(r, b) \/ DisqualifyBegin(r, b)
        PROVE  QuorumInHand'
    BY <2>3, <2>4 DEF UploadBegin, RetryParseBegin, DisqualifyBegin
  <2>5. ASSUME NEW l \in Lots, ConfirmBegin(r, l) PROVE QuorumInHand'
    BY <2>3, <2>5 DEF ConfirmBegin
  <2> QED
    BY <1>3, <2>1, <2>2, <2>4, <2>5 DEF Request
<1>4. CASE UNCHANGED req
  BY <1>1, <1>4
<1>5. ASSUME NEW j \in Jobs, JobProgress(j) \/ JobFailure(j) PROVE req' = req
  BY <1>5 DEF JobProgress, JobFailure, JobStart, PipelineSkip, PipelineBegin, PipelineClaim,
              PipelineStep, PipelineFinish, MarkFailedRead, MarkFailedWrite, AttemptFails,
              FileRejected, JobKilled, WorkerCrash
<1> QED
  BY <1>2, <1>3, <1>4, <1>5 DEF Next, UpdateSupplierStatus, Age, ScanSelect, ScanUpdate, vars

LEMMA SealInvStep == SealInv /\ [Next]_vars => SealInv'
BY HoldStep, ClosingStep, QuorumStep DEF SealInv

(* No row is taken in hand that is sealed or out.                          *)
LEMMA HeldInPlay ==
    ASSUME SealInv, [Next]_vars
    PROVE  Held' \subseteq Held \cup Seals!InPlay
<1> SUFFICES ASSUME NEW b \in Bids, Writer(b)', ~Writer(b)
             PROVE  b \in Seals!InPlay
  BY DEF Held
<1>1. bid[b] \in InWork \/ bid[b] = "NONE"
  BY HoldStep DEF SealInv, TakesHold, UploadAllowed, BidsOfLot, BidsOf
<1> QED
  BY <1>1 DEF Seals!InPlay, StandingOf, InWork

(* A request that ends leaves fewer rows in hand.                          *)
LEMMA HeldFewer ==
    ASSUME job' = job, scan' = scan,
           \A q \in Requests : req'[q] = req[q] \/ req'[q].op = "idle"
    PROVE  Held' \subseteq Held
BY DEF Held, Writer, ParserHolds, RequestHolds

(* What it is to work: no lot moves, and the bids whose status changes     *)
(* were held and are in work again.                                        *)
LEMMA WorkStep ==
    ASSUME SealInv, [Next]_vars, lot' = lot,
           \A b \in Bids : bid'[b] = bid[b] \/ (Writer(b) /\ bid'[b] \in InWork)
    PROVE  Seals!Work
<1> DEFINE S == {b \in Held : bid'[b] # bid[b]}
<1>1. Phases' = Phases
  BY DEF Phases
<1>2. Standings' = [b \in Bids |-> IF b \in S THEN "live" ELSE Standings[b]]
  <2>1. ASSUME NEW b \in Bids
        PROVE  StandingOf(bid'[b]) = IF b \in S THEN "live" ELSE StandingOf(bid[b])
    BY DEF StandingOf, InWork, Held
  <2> QED
    BY <2>1 DEF Standings
<1>3. S \in SUBSET Held
  OBVIOUS
<1> QED
  BY <1>1, <1>2, <1>3, HeldInPlay DEF Seals!Work, Seals!Set, Held, Phases, Standings

(* Disqualifying bids that are there, with no more rows in hand.           *)
LEMMA OutStep ==
    ASSUME NEW S \in SUBSET Bids, \A b \in S : bid[b] # "NONE", lot' = lot, Held' \subseteq Held,
           bid' = [b \in Bids |-> IF b \in S THEN "DISQUALIFIED" ELSE bid[b]]
    PROVE  Seals!Disqualify(S)
<1>1. Phases' = Phases
  BY DEF Phases
<1>2. Standings' = [b \in Bids |-> IF b \in S THEN "out" ELSE Standings[b]]
  BY DEF Standings, StandingOf
<1>3. \A b \in S : Standings[b] # "absent"
  BY DEF Standings, StandingOf
<1> QED
  BY <1>1, <1>2, <1>3 DEF Seals!Disqualify, Seals!Set, Held, Phases, Standings

(* The decisions on a lot.                                                 *)
LEMMA ReleaseStep ==
    ASSUME SealInv, NEW r \in Requests, CloseRelease(r) \/ ConfirmRelease(r)
    PROVE  \E l \in Lots, S \in SUBSET Held : Seals!Release(l, S)
<1> DEFINE l == req[r].lot
           S == req[r].bids
<1>0. TypeOK /\ ClosingRequests /\ QuorumInHand
  BY DEF SealInv, ClosingInv
<1>1. /\ l \in Lots
      /\ S \subseteq BidsOfLot(l)
      /\ req[r].op \in {"screen", "confirm"}
      /\ req[r].op = "screen" => lot[l] = "BIDDING"
      /\ req[r].op = "confirm" => lot[l] \in {"PRE_SCREEN", "UNDER_REVIEW"}
      /\ lot' = [lot EXCEPT ![l] = "UNDER_REVIEW"]
      /\ bid' = [b \in Bids |-> IF b \in S THEN "FROZEN" ELSE bid[b]]
  BY <1>0 DEF ClosingRequests, CloseRelease, ConfirmRelease, StillBidding
<1>2. Held' \subseteq Held
  BY <1>0, AnswerEffect, HeldFewer DEF CloseRelease, ConfirmRelease
<1>3. S \in SUBSET Held
  BY <1>1 DEF Held, Writer, RequestHolds, BidsOfLot
<1>4. Phases' = [Phases EXCEPT ![l] = "released"]
  <2>1. \A k \in Lots : PhaseOf(lot'[k]) = IF k = l THEN "released" ELSE PhaseOf(lot[k])
    BY <1>0, <1>1 DEF TypeOK, PhaseOf
  <2> QED
    BY <1>1, <2>1 DEF Phases
<1>5. Standings' = [b \in Bids |-> IF b \in S THEN "sealed" ELSE Standings[b]]
  <2>1. \A b \in Bids : StandingOf(bid'[b]) = IF b \in S THEN "sealed" ELSE StandingOf(bid[b])
    BY <1>1 DEF StandingOf
  <2> QED
    BY <2>1 DEF Standings
<1>6. Phases[l] = "open" => Cardinality(S) >= MinValidBids
  BY <1>0, <1>1 DEF Phases, PhaseOf, QuorumInHand
<1>7. Phases[l] # "abandoned"
  BY <1>1 DEF Phases, PhaseOf
<1>8. S \subseteq Held \cap {b \in Bids : BidLot[b] = l}
  BY <1>1, <1>3 DEF BidsOfLot
<1>9. Seals!Release(l, S)
  BY <1>2, <1>4, <1>5, <1>6, <1>7, <1>8
  DEF Seals!Release, Seals!Set, Held, Phases, Standings, Seals!Cardinality, Cardinality
<1> QED
  BY <1>1, <1>3, <1>9

LEMMA PutOffStep ==
    ASSUME SealInv, NEW r \in Requests, CloseAbandon(r) \/ CloseHold(r)
    PROVE  \E l \in Lots, v \in {"screening", "abandoned"} : Seals!PutOff(l, v)
<1>0. TypeOK /\ ClosingRequests
  BY DEF SealInv, ClosingInv
<1>1. PICK w \in {"ABANDONED", "PRE_SCREEN"} : lot' = [lot EXCEPT ![req[r].lot] = w]
  BY DEF CloseAbandon, CloseHold
<1>2. /\ req[r].lot \in Lots
      /\ lot[req[r].lot] = "BIDDING"
      /\ bid' = bid
  BY <1>0 DEF ClosingRequests, CloseAbandon, CloseHold, StillBidding
<1>3. Held' \subseteq Held
  BY <1>0, AnswerEffect, HeldFewer DEF CloseAbandon, CloseHold
<1>4. Phases' = [Phases EXCEPT ![req[r].lot] = PhaseOf(w)]
  <2>1. \A k \in Lots : PhaseOf(lot'[k]) = IF k = req[r].lot THEN PhaseOf(w) ELSE PhaseOf(lot[k])
    BY <1>0, <1>1, <1>2 DEF TypeOK
  <2> QED
    BY <1>2, <2>1 DEF Phases
<1>5. Phases[req[r].lot] = "open"
  BY <1>2 DEF Phases, PhaseOf
<1>6. Standings' = Standings
  BY <1>2 DEF Standings
<1>7. PhaseOf(w) \in {"screening", "abandoned"}
  BY DEF PhaseOf
<1>8. Seals!PutOff(req[r].lot, PhaseOf(w))
  BY <1>3, <1>4, <1>5, <1>6 DEF Seals!PutOff, Held, Phases, Standings
<1> QED
  BY <1>2, <1>7, <1>8

(* Every step is one of SealedLots.                                        *)
LEMMA SealStep == SealInv /\ [Next]_vars => Seals!Next
<1> SUFFICES ASSUME SealInv, [Next]_vars PROVE Seals!Next
  OBVIOUS
<1>0. TypeOK /\ RecordsExist
  BY DEF SealInv, HoldInv
<1>1. ASSUME lot' = lot, \A b \in Bids : bid'[b] = bid[b] \/ (Writer(b) /\ bid'[b] \in InWork)
      PROVE  Seals!Next
  BY <1>1, WorkStep DEF Seals!Next
<1>2. ASSUME NEW S \in SUBSET Bids, \A b \in S : bid[b] # "NONE", lot' = lot, Held' \subseteq Held,
             bid' = [b \in Bids |-> IF b \in S THEN "DISQUALIFIED" ELSE bid[b]]
      PROVE  Seals!Next
  BY <1>2, OutStep DEF Seals!Next
<1>3. ASSUME NEW r \in Requests, Request(r) PROVE Seals!Next
  <2>1. CASE CloseRelease(r) \/ ConfirmRelease(r)
    BY <2>1, ReleaseStep DEF Seals!Next, Held
  <2>2. CASE CloseAbandon(r) \/ CloseHold(r)
    BY <2>2, PutOffStep DEF Seals!Next
  <2>3. CASE DisqualifyCommit(r)
    <3>1. Held' \subseteq Held
      BY <1>0, <2>3, AnswerEffect, HeldFewer DEF DisqualifyCommit
    <3>2. req[r].bids \in SUBSET Bids /\ \A b \in req[r].bids : bid[b] # "NONE"
      BY <1>0, <2>3 DEF TypeOK, RequestType, RecordsExist, DisqualifyCommit
    <3> QED
      BY <1>2, <2>3, <3>1, <3>2 DEF DisqualifyCommit
  <2>4. CASE UploadCommit(r) \/ RetryParseCommit(r)
    <3>1. PICK c \in req[r].bids : bid' = [bid EXCEPT ![c] = "SUBMITTED"]
      BY <2>4 DEF UploadCommit, RetryParseCommit
    <3>2. Writer(c)
      BY <2>4, <3>1 DEF Writer, RequestHolds, UploadCommit, RetryParseCommit
    <3>3. lot' = lot
      BY <2>4 DEF UploadCommit, RetryParseCommit
    <3> QED
      BY <1>0, <1>1, <3>1, <3>2, <3>3 DEF TypeOK, InWork
  <2>5. CASE lot' = lot /\ bid' = bid
    BY <1>1, <2>5
  <2> QED
    BY <1>3, <2>1, <2>2, <2>3, <2>4, <2>5
    DEF Request, UploadBegin, RetryParseBegin, DisqualifyBegin, CloseBegin, ConfirmBegin,
        RequestFails, Enqueue, CloseRefused, ConfirmHold
<1>4. ASSUME NEW s \in Suppliers, NEW bl \in BOOLEAN, NEW ac \in BOOLEAN,
             UpdateSupplierStatus(s, bl, ac)
      PROVE  Seals!Next
  <2>1. lot' = lot /\ req' = req /\ job' = job /\ scan' = scan
    BY <1>4 DEF UpdateSupplierStatus
  <2>2. CASE bid' = bid
    BY <1>1, <2>1, <2>2
  <2>3. CASE Cascade(s)
    <3> DEFINE hit == {b \in BidsOf(s) : bid[b] \notin {"NONE", "DISQUALIFIED"}}
    <3>1. Held' \subseteq Held
      BY <2>1 DEF Held, Writer, ParserHolds, RequestHolds
    <3>2. hit \in SUBSET Bids /\ \A b \in hit : bid[b] # "NONE"
      BY DEF BidsOf
    <3>3. bid' = [b \in Bids |-> IF b \in hit THEN "DISQUALIFIED" ELSE bid[b]]
      BY <2>3 DEF Cascade
    <3> HIDE DEF hit
    <3> QED
      BY <1>2, <2>1, <3>1, <3>2, <3>3
  <2> QED
    BY <1>4, <2>2, <2>3 DEF UpdateSupplierStatus
<1>5. ASSUME NEW j \in Jobs, JobProgress(j) \/ JobFailure(j) PROVE Seals!Next
  <2>1. lot' = lot
    BY <1>5 DEF JobProgress, JobFailure, JobStart, PipelineSkip, PipelineBegin, PipelineClaim,
                PipelineStep, PipelineFinish, MarkFailedRead, MarkFailedWrite, AttemptFails,
                FileRejected, JobKilled, WorkerCrash
  <2>2. \/ bid' = bid
        \/ /\ job[j].pc \in {"claim", "step", "mark"}
           /\ \E v \in {"PARSING", "PARSED", "PARSE_FAILED"} : bid' = [bid EXCEPT ![job[j].bid] = v]
    BY <1>5 DEF JobProgress, JobFailure, JobStart, PipelineSkip, PipelineBegin, PipelineClaim,
                PipelineStep, PipelineFinish, MarkFailedRead, MarkFailedWrite, AttemptFails,
                FileRejected, JobKilled, WorkerCrash
  <2>3. \A b \in Bids : bid'[b] = bid[b] \/ (Writer(b) /\ bid'[b] \in InWork)
    BY <1>0, <2>2 DEF TypeOK, InWork, Writer, ParserHolds
  <2> QED
    BY <1>1, <2>1, <2>3
<1>6. CASE ScanUpdate
  <2>1. \A b \in Bids : bid'[b] = bid[b] \/ (Writer(b) /\ bid'[b] \in InWork)
    BY <1>6 DEF ScanUpdate, InWork, Writer
  <2> QED
    BY <1>1, <1>6, <2>1 DEF ScanUpdate
<1>7. CASE (\E b \in Bids : Age(b)) \/ ScanSelect \/ UNCHANGED vars
  BY <1>1, <1>7 DEF Age, ScanSelect, vars
<1> QED
  BY <1>3, <1>4, <1>5, <1>6, <1>7 DEF Next

(* Requests, jobs and cron runs, in any number and however they overlap,   *)
(* implement SealedLots.                                                   *)
THEOREM ImplementsSealedLots == Spec => DecidedOnce
<1>1. SealInv /\ [Next]_vars => [Seals!Next]_(Seals!vars)
  BY SealStep
<1> QED
  BY <1>1, SealInit, SealInvStep, PTL DEF Spec, DecidedOnce, Seals!Spec

(* SealedLots alone already keeps sealed bids to released lots: what it    *)
(* leaves out of BidLifecycle plays no part in that.                       *)
THEOREM SealedLotsSuffices == DecidedOnce => []FrozenOnlyUnderReview
<1> DEFINE Inv == \A b \in Bids : Standings[b] = "sealed" => Phases[BidLot[b]] = "released"
<1>1. Seals!Init => Inv
  BY DEF Seals!Init, Phases, Standings
<1>2. Inv /\ [Seals!Next]_(Seals!vars) => Inv'
  <2> SUFFICES ASSUME Inv, [Seals!Next]_(Seals!vars) PROVE Inv'
    OBVIOUS
  <2>1. CASE Seals!Work
    <3>1. Phases' = Phases
      BY <2>1 DEF Seals!Work, Phases
    <3>2. \A b \in Bids : Standings'[b] = "sealed" => Standings[b] = "sealed"
      BY <2>1 DEF Seals!Work, Seals!Set, Standings
    <3> QED
      BY <3>1, <3>2
  <2>2. ASSUME NEW l \in Lots, NEW S \in SUBSET Held, Seals!Release(l, S) PROVE Inv'
    <3>1. Phases' = [Phases EXCEPT ![l] = "released"]
      BY <2>2 DEF Seals!Release, Phases
    <3>2. \A b \in Bids : Standings'[b] = "sealed" => Standings[b] = "sealed" \/ BidLot[b] = l
      BY <2>2 DEF Seals!Release, Seals!Set, Standings
    <3>3. \A k \in Lots : Phases'[k] = IF k = l THEN "released" ELSE Phases[k]
      BY <3>1 DEF Phases
    <3> QED
      BY <3>2, <3>3
  <2>3. ASSUME NEW l \in Lots, NEW v, Seals!PutOff(l, v) PROVE Inv'
    <3>1. Phases' = [Phases EXCEPT ![l] = v] /\ Phases[l] = "open" /\ Standings' = Standings
      BY <2>3 DEF Seals!PutOff, Phases, Standings
    <3>2. \A k \in Lots : Phases'[k] = IF k = l THEN v ELSE Phases[k]
      BY <3>1 DEF Phases
    <3> QED
      BY <3>1, <3>2
  <2>4. ASSUME NEW S, Seals!Disqualify(S) PROVE Inv'
    <3>1. Phases' = Phases
      BY <2>4 DEF Seals!Disqualify, Phases
    <3>2. \A b \in Bids : Standings'[b] = "sealed" => Standings[b] = "sealed"
      BY <2>4 DEF Seals!Disqualify, Seals!Set, Standings
    <3> QED
      BY <3>1, <3>2
  <2>5. CASE UNCHANGED Seals!vars
    BY <2>5 DEF Seals!vars, Phases, Standings
  <2> QED
    BY <2>1, <2>2, <2>3, <2>4, <2>5 DEF Seals!Next, Held
<1>3. Inv => FrozenOnlyUnderReview
  BY DEF Standings, Phases, StandingOf, PhaseOf, FrozenOnlyUnderReview
<1> QED
  BY <1>1, <1>2, <1>3, PTL DEF DecidedOnce, Seals!Spec

-----------------------------------------------------------------------------
(* The screening *)

IsSet(q) == q = [op |-> "set", items |-> q.items, alone |-> q.alone] /\ q.items \in Updates
IsLoad(q) == q = [op |-> "load", rows |-> q.rows, alone |-> q.alone]

(* What the quick checks find when every store answers.                     *)
QuickScore(f) ==
    Fraud!GraphScore(f) + Fraud!PriceScore(f)
        + (IF \E i \in DOMAIN f.pairs : f.pairs[i] >= Defaults["pairs"] THEN 40 ELSE 0)

AskOk(q) ==
    \/ q = Fraud!Idle
    \/ IsSet(q)
    \/ IsLoad(q)
    \/ q.op = "close" /\ q.lot \in Tenders /\ (q.sound => q.score = QuickScore(facts[q.lot]))
    \/ q.op = "confirm" /\ q.lot \in Tenders /\ (q.sound => q.seen \in Fraud!Seen(facts[q.lot]))

AsksOk == ask = [r \in Askers |-> ask[r]] /\ \A r \in Askers : AskOk(ask[r])

Touches(q, k) == q.op = "set" /\ k \in Fraud!KeysOf(q.items)

(* An update that nothing disturbed: what it wrote into the cache is there. *)
SettersAlone ==
    \A r \in Askers : ask[r].op = "set" /\ ask[r].alone =>
        \A k \in Keys \cap Fraud!KeysOf(ask[r].items) :
            /\ cache[k] = Fraud!LastOf(ask[r].items, k)
            /\ \A p \in Askers \ {r} : ask[p].op # "load" /\ ~Touches(ask[p], k)

(* A reload that nothing disturbed: the table is as it was read.            *)
LoadersAlone ==
    \A r \in Askers : ask[r].op = "load" /\ ask[r].alone =>
        /\ ask[r].rows = table
        /\ \A p \in Askers, k \in Keys : ~Touches(ask[p], k)

Follows ==
    \A k \in Keys : k \notin doubtful /\ (\A r \in Askers : ~Touches(ask[r], k)) =>
        Fraud!Shown(cache)[k] = Fraud!Shown(table)[k]

SettingsType == table = [k \in Keys |-> table[k]] /\ cache = [k \in Keys |-> cache[k]]

SettingsInv == SettingsType /\ AsksOk /\ SettersAlone /\ LoadersAlone /\ Follows

LEMMA AskKinds ==
    ASSUME NEW q, AskOk(q)
    PROVE  /\ q.op \in {"idle", "set", "load", "close", "confirm"}
           /\ q.op = "idle" => q = Fraud!Idle
           /\ q.op = "set" => IsSet(q)
           /\ q.op = "load" => IsLoad(q)
           /\ q.op = "close" => q.lot \in Tenders /\ (q.sound => q.score = QuickScore(facts[q.lot]))
           /\ q.op = "confirm" => q.lot \in Tenders /\ (q.sound => q.seen \in Fraud!Seen(facts[q.lot]))
<1>1. Fraud!Idle.op = "idle"
  BY DEF Fraud!Idle
<1>2. IsSet(q) => q.op = "set"
  BY DEF IsSet
<1>3. IsLoad(q) => q.op = "load"
  BY DEF IsLoad
<1> QED
  BY <1>1, <1>2, <1>3 DEF AskOk

LEMMA SettingsBegin == Fraud!Init => SettingsInv
<1> SUFFICES ASSUME Fraud!Init PROVE SettingsInv
  OBVIOUS
<1>1. \A r \in Askers : ask[r] = Fraud!Idle /\ ask[r].op = "idle"
  BY DEF Fraud!Init, Fraud!Idle
<1>2. table = cache /\ SettingsType
  BY DEF Fraud!Init, SettingsType
<1>3. AsksOk
  BY <1>1 DEF Fraud!Init, AsksOk, AskOk
<1> QED
  BY <1>1, <1>2, <1>3 DEF SettingsInv, SettersAlone, LoadersAlone, Follows

(* One request changes hands and nothing is disturbed.                      *)
LEMMA OneAsk ==
    ASSUME AsksOk, NEW r \in Askers, NEW q, ask' = [ask EXCEPT ![r] = q]
    PROVE  /\ ask' = [p \in Askers |-> ask'[p]] /\ ask'[r] = q
           /\ \A p \in Askers : p # r => ask'[p] = ask[p]
BY DEF AsksOk

LEMMA IdleAsk ==
    /\ AskOk(Fraud!Idle) /\ Fraud!Idle.op = "idle"
    /\ \A k : ~Touches(Fraud!Idle, k)
BY DEF AskOk, Fraud!Idle, Touches

(* The screening of a lot leaves the settings alone.                        *)
LEMMA ScreeningAsk ==
    ASSUME SettingsInv, NEW r \in Askers, NEW q, AskOk(q),
           q.op \notin {"set", "load"}, ask[r].op \notin {"set", "load"},
           ask' = [ask EXCEPT ![r] = q], UNCHANGED <<table, cache, facts, doubtful>>
    PROVE  SettingsInv'
<1>1. AsksOk /\ SettersAlone /\ LoadersAlone /\ Follows /\ SettingsType
  BY DEF SettingsInv
<1>2. /\ ask' = [p \in Askers |-> ask'[p]] /\ ask'[r] = q
      /\ \A p \in Askers : p # r => ask'[p] = ask[p]
  BY <1>1, OneAsk
<1>3. \A p \in Askers : ask'[p].op \in {"set", "load"} \/ ask[p].op \in {"set", "load"} => ask'[p] = ask[p]
  BY <1>2
<1>4. \A p \in Askers, k \in Keys : Touches(ask'[p], k) <=> Touches(ask[p], k)
  BY <1>2 DEF Touches
<1>5. AsksOk'
  <2>1. \A p \in Askers : AskOk(ask[p])
    BY <1>1 DEF AsksOk
  <2>2. \A p \in Askers : AskOk(ask'[p])
    BY <1>2, <2>1
  <2>3. \A p \in Askers : AskOk(ask[p])'
    BY <2>2 DEF AskOk
  <2> QED
    BY <1>2, <2>3 DEF AsksOk
<1>6. SettersAlone'
  BY <1>1, <1>3, <1>4 DEF SettersAlone
<1>7. LoadersAlone'
  BY <1>1, <1>3, <1>4 DEF LoadersAlone
<1>8. Follows' /\ SettingsType'
  BY <1>1, <1>4 DEF Follows, Fraud!Shown, SettingsType
<1> QED
  BY <1>5, <1>6, <1>7, <1>8 DEF SettingsInv

LEMMA Released ==
    ASSUME NEW x, NEW y
    PROVE  /\ [[op |-> "set", items |-> x, alone |-> y] EXCEPT !.alone = FALSE]
                = [op |-> "set", items |-> x, alone |-> FALSE]
           /\ [[op |-> "load", rows |-> x, alone |-> y] EXCEPT !.alone = FALSE]
                = [op |-> "load", rows |-> x, alone |-> FALSE]
<1> DEFINE s == [op |-> "set", items |-> x, alone |-> y]
           t == [s EXCEPT !.alone = FALSE]
           l == [op |-> "load", rows |-> x, alone |-> y]
           m == [l EXCEPT !.alone = FALSE]
<1>1. t = [f \in {"op", "items", "alone"} |-> t[f]] /\ t.op = "set" /\ t.items = x /\ t.alone = FALSE
  OBVIOUS
<1>2. m = [f \in {"op", "rows", "alone"} |-> m[f]] /\ m.op = "load" /\ m.rows = x /\ m.alone = FALSE
  OBVIOUS
<1> HIDE DEF t, m
<1>3. t = [op |-> "set", items |-> x, alone |-> FALSE]
  BY <1>1
<1>4. m = [op |-> "load", rows |-> x, alone |-> FALSE]
  BY <1>2
<1> QED
  BY <1>3, <1>4 DEF t, m

LEMMA DisturbedRecord ==
    ASSUME NEW q
    PROVE  LET d == [q EXCEPT !.alone = FALSE]
           IN  /\ IsSet(q) => IsSet(d) /\ d.op = "set" /\ d.items = q.items /\ d.alone = FALSE
               /\ IsLoad(q) => IsLoad(d) /\ d.op = "load" /\ d.rows = q.rows /\ d.alone = FALSE
<1> DEFINE d == [q EXCEPT !.alone = FALSE]
<1>1. ASSUME IsSet(q) PROVE IsSet(d) /\ d.op = "set" /\ d.items = q.items /\ d.alone = FALSE
  <2>1. PICK x, y : q = [op |-> "set", items |-> x, alone |-> y] /\ x \in Updates
    BY <1>1 DEF IsSet
  <2>2. d = [op |-> "set", items |-> x, alone |-> FALSE]
    BY <2>1, Released, Zenon
  <2> HIDE DEF d
  <2> QED
    BY <2>1, <2>2 DEF IsSet
<1>2. ASSUME IsLoad(q) PROVE IsLoad(d) /\ d.op = "load" /\ d.rows = q.rows /\ d.alone = FALSE
  <2>1. PICK x, y : q = [op |-> "load", rows |-> x, alone |-> y]
    BY <1>2 DEF IsLoad
  <2>2. d = [op |-> "load", rows |-> x, alone |-> FALSE]
    BY <2>1, Released, Zenon
  <2> HIDE DEF d
  <2> QED
    BY <2>1, <2>2 DEF IsLoad
<1> QED
  BY <1>1, <1>2

(* What an update or a reload makes of those in flight.                     *)
LEMMA DisturbedAsks ==
    ASSUME AsksOk, NEW op, NEW ks, NEW r \in Askers
    PROVE  LET d == Fraud!Disturbed(op, ks)[r]
           IN  /\ AskOk(d) /\ d.op = ask[r].op
               /\ d.op = "set" => d.items = ask[r].items
               /\ d.op = "load" => d.rows = ask[r].rows
               /\ d.op \in {"set", "load"} /\ d.alone =>
                      ask[r].alone /\ r \notin Fraud!Disturb(op, ks)
<1> DEFINE d == Fraud!Disturbed(op, ks)[r]
           a == ask[r]
<1>1. AskOk(a)
  BY DEF AsksOk
<1>2. CASE r \notin Fraud!Disturb(op, ks)
  BY <1>1, <1>2 DEF Fraud!Disturbed
<1>3. CASE r \in Fraud!Disturb(op, ks)
  <2>1. d = [a EXCEPT !.alone = FALSE]
    BY <1>3 DEF Fraud!Disturbed
  <2>2. a.op \in {"set", "load"}
    BY <1>3 DEF Fraud!Disturb
  <2>3. IsSet(a) \/ IsLoad(a)
    BY <1>1, <2>2, AskKinds
  <2>4. /\ a.op = "set" => IsSet(a)
        /\ a.op = "load" => IsLoad(a)
    BY <1>1, AskKinds
  <2>5. /\ IsSet(a) => IsSet(d) /\ d.op = "set" /\ d.items = a.items /\ d.alone = FALSE
        /\ IsLoad(a) => IsLoad(d) /\ d.op = "load" /\ d.rows = a.rows /\ d.alone = FALSE
    BY <2>1, DisturbedRecord
  <2>6. AskOk(d)
    <3> HIDE DEF d, a
    <3> QED
      BY <2>3, <2>5 DEF AskOk
  <2> QED
    BY <1>3, <2>2, <2>4, <2>5, <2>6, Zenon
<1> QED
  BY <1>2, <1>3

OnlyDisturbs(op, ks, S) ==
    /\ facts' = facts
    /\ ask' = [p \in Askers |-> ask'[p]]
    /\ \A p \in Askers \ S : ask'[p] = Fraud!Disturbed(op, ks)[p]

Weakened(op, ks, S) ==
    \A p \in Askers \ S :
        /\ ask'[p].op = ask[p].op
        /\ ask[p].op = "set" => ask'[p].items = ask[p].items
        /\ ask[p].op = "load" => ask'[p].rows = ask[p].rows
        /\ ask[p].op \in {"set", "load"} /\ ask'[p].alone =>
               ask[p].alone /\ p \notin Fraud!Disturb(op, ks)
        /\ \A k : Touches(ask'[p], k) <=> Touches(ask[p], k)

(* A request that enters, or is refused, leaves the others as they are but  *)
(* for what it disturbs.                                                    *)
LEMMA OthersDisturbed ==
    ASSUME AsksOk, NEW op, NEW ks, NEW S \in SUBSET Askers, OnlyDisturbs(op, ks, S),
           \A p \in S : AskOk(ask'[p])
    PROVE  AsksOk' /\ Weakened(op, ks, S)
<1>1. ASSUME NEW p \in Askers \ S
      PROVE  /\ AskOk(ask'[p]) /\ ask'[p].op = ask[p].op
             /\ ask[p].op = "set" => ask'[p].items = ask[p].items
             /\ ask[p].op = "load" => ask'[p].rows = ask[p].rows
             /\ ask[p].op \in {"set", "load"} /\ ask'[p].alone =>
                    ask[p].alone /\ p \notin Fraud!Disturb(op, ks)
  BY <1>1, DisturbedAsks DEF OnlyDisturbs
<1>2. \A p \in Askers : AskOk(ask'[p])
  BY <1>1
<1>3. \A p \in Askers : AskOk(ask[p])'
  BY <1>2 DEF AskOk, OnlyDisturbs
<1>4. AsksOk'
  BY <1>3 DEF AsksOk, OnlyDisturbs
<1> QED
  BY <1>1, <1>4 DEF Touches, Weakened

(* An update: what it writes into the cache.                                *)
LEMMA WrittenIs ==
    ASSUME NEW entries, NEW items, NEW k \in Keys
    PROVE  /\ k \in Fraud!KeysOf(items) => Fraud!Written(entries, items)[k] = Fraud!LastOf(items, k)
           /\ k \notin Fraud!KeysOf(items) => Fraud!Written(entries, items)[k] = entries[k]
BY DEF Fraud!Written

LEMMA SetAccepted ==
    ASSUME SettingsInv, NEW r \in Askers, NEW items \in Updates, ask[r] = Fraud!Idle,
           cache' = Fraud!Written(cache, items),
           Fraud!Enter(r, [op |-> "set", items |-> items,
                           alone |-> Fraud!Undisturbed("set", Fraud!KeysOf(items))], Fraud!KeysOf(items)),
           UNCHANGED <<table, facts, doubtful>>
    PROVE  SettingsInv'
<1> DEFINE ks == Fraud!KeysOf(items)
           q == [op |-> "set", items |-> items, alone |-> Fraud!Undisturbed("set", ks)]
<1>1. AsksOk /\ SettersAlone /\ LoadersAlone /\ Follows /\ SettingsType
  BY DEF SettingsInv
<1>2. /\ ask' = [p \in Askers |-> ask'[p]] /\ ask'[r] = q
      /\ \A p \in Askers \ {r} : ask'[p] = Fraud!Disturbed("set", ks)[p]
  BY DEF Fraud!Enter, Fraud!Disturbed
<1>3. /\ q.op = "set" /\ q.items = items /\ q.alone = Fraud!Undisturbed("set", ks)
      /\ AskOk(q)
  BY DEF AskOk, IsSet
<1> HIDE DEF q
<1>4a. AsksOk' /\ Weakened("set", ks, {r})
  <2>1. {r} \in SUBSET Askers /\ \A p \in {r} : AskOk(ask'[p])
    BY <1>2, <1>3
  <2>2. OnlyDisturbs("set", ks, {r})
    BY <1>2 DEF OnlyDisturbs
  <2> QED
    BY <1>1, <2>1, <2>2, OthersDisturbed
<1>4. \A p \in Askers \ {r} :
          /\ ask'[p].op = ask[p].op
          /\ ask[p].op = "set" => ask'[p].items = ask[p].items
          /\ ask[p].op = "load" => ask'[p].rows = ask[p].rows
          /\ ask[p].op \in {"set", "load"} /\ ask'[p].alone =>
                 ask[p].alone /\ p \notin Fraud!Disturb("set", ks)
          /\ \A k : Touches(ask'[p], k) <=> Touches(ask[p], k)
  BY <1>4a DEF Weakened
<1>5. \A p \in Askers \ {r} : p \notin Fraud!Disturb("set", ks) =>
          ask[p].op # "load" /\ \A k \in ks : ~Touches(ask[p], k)
  BY DEF Fraud!Disturb, Touches
<1>6. \A k : Touches(ask'[r], k) <=> k \in ks
  BY <1>2, <1>3 DEF Touches
<1> HIDE DEF ks
<1>7. \A k \in Keys : /\ k \in ks => cache'[k] = Fraud!LastOf(items, k)
                      /\ k \notin ks => cache'[k] = cache[k]
  BY WrittenIs DEF ks
<1>8. SettersAlone'
  <2> SUFFICES ASSUME NEW p \in Askers, ask'[p].op = "set", ask'[p].alone,
                      NEW k \in Keys \cap Fraud!KeysOf(ask'[p].items)
               PROVE  /\ cache'[k] = Fraud!LastOf(ask'[p].items, k)
                      /\ \A x \in Askers \ {p} : ask'[x].op # "load" /\ ~Touches(ask'[x], k)
    BY DEF SettersAlone, Touches
  <2>1. CASE p = r
    <3>1. k \in ks /\ Fraud!Disturb("set", ks) = {}
      BY <1>2, <1>3, <2>1 DEF ks, Fraud!Undisturbed
    <3> QED
      BY <1>2, <1>3, <1>4, <1>5, <1>7, <2>1, <3>1
  <2>2. CASE p # r
    <3>1. /\ ask[p].op = "set" /\ ask[p].alone /\ p \notin Fraud!Disturb("set", ks)
          /\ ask'[p].items = ask[p].items
      BY <1>4, <2>2
    <3>2. k \notin ks
      BY <1>5, <2>2, <3>1 DEF Touches
    <3>3. /\ cache[k] = Fraud!LastOf(ask[p].items, k)
          /\ \A x \in Askers \ {p} : ask[x].op # "load" /\ ~Touches(ask[x], k)
      BY <1>1, <3>1 DEF SettersAlone
    <3> QED
      BY <1>2, <1>3, <1>4, <1>6, <1>7, <2>2, <3>1, <3>2, <3>3
  <2> QED
    BY <2>1, <2>2
<1>9. LoadersAlone'
  <2>1. \A p \in Askers : ~(ask'[p].op = "load" /\ ask'[p].alone)
    BY <1>2, <1>3, <1>4, <1>5
  <2> QED
    BY <2>1 DEF LoadersAlone
<1>10. Follows'
  <2> SUFFICES ASSUME NEW k \in Keys, k \notin doubtful, \A p \in Askers : ~Touches(ask'[p], k)
               PROVE  Fraud!Shown(cache')[k] = Fraud!Shown(table)[k]
    BY DEF Follows, Fraud!Shown, Touches
  <2>1. k \notin ks
    BY <1>6
  <2>2. \A p \in Askers : ~Touches(ask[p], k)
    BY <1>4, IdleAsk
  <2>3. Fraud!Shown(cache)[k] = Fraud!Shown(table)[k] /\ cache'[k] = cache[k]
    BY <1>1, <1>7, <2>1, <2>2 DEF Follows
  <2> QED
    BY <2>3 DEF Fraud!Shown
<1>11. SettingsType'
  BY <1>1 DEF SettingsType, Fraud!Written
<1> QED
  BY <1>4a, <1>8, <1>9, <1>10, <1>11 DEF SettingsInv

(* An update that is refused has disturbed the others all the same.         *)
LEMMA SetRefused ==
    ASSUME SettingsInv, NEW items,
           cache' = Fraud!Written(cache, items),
           ask' = Fraud!Disturbed("set", Fraud!KeysOf(items)),
           doubtful' = doubtful \cup Fraud!KeysOf(items),
           UNCHANGED <<table, facts>>
    PROVE  SettingsInv'
<1> DEFINE ks == Fraud!KeysOf(items)
<1>1. AsksOk /\ SettersAlone /\ LoadersAlone /\ Follows /\ SettingsType
  BY DEF SettingsInv
<1>2. AsksOk' /\ Weakened("set", ks, {})
  <2>1. OnlyDisturbs("set", ks, {})
    BY DEF OnlyDisturbs, Fraud!Disturbed
  <2> QED
    BY <1>1, <2>1, OthersDisturbed
<1>3. \A p \in Askers :
          /\ ask'[p].op = ask[p].op
          /\ ask[p].op = "set" => ask'[p].items = ask[p].items
          /\ ask[p].op \in {"set", "load"} /\ ask'[p].alone =>
                 ask[p].alone /\ p \notin Fraud!Disturb("set", ks)
          /\ \A k : Touches(ask'[p], k) <=> Touches(ask[p], k)
  BY <1>2 DEF Weakened
<1>4. \A p \in Askers : p \notin Fraud!Disturb("set", ks) =>
          ask[p].op # "load" /\ \A k \in ks : ~Touches(ask[p], k)
  BY DEF Fraud!Disturb, Touches
<1> HIDE DEF ks
<1>5. \A k \in Keys : k \notin ks => cache'[k] = cache[k]
  BY WrittenIs DEF ks
<1>6. SettersAlone'
  <2> SUFFICES ASSUME NEW p \in Askers, ask'[p].op = "set", ask'[p].alone,
                      NEW k \in Keys \cap Fraud!KeysOf(ask'[p].items)
               PROVE  /\ cache'[k] = Fraud!LastOf(ask'[p].items, k)
                      /\ \A x \in Askers \ {p} : ask'[x].op # "load" /\ ~Touches(ask'[x], k)
    BY DEF SettersAlone, Touches
  <2>1. /\ ask[p].op = "set" /\ ask[p].alone /\ p \notin Fraud!Disturb("set", ks)
        /\ ask'[p].items = ask[p].items
    BY <1>3
  <2>2. k \notin ks
    BY <1>4, <2>1 DEF Touches
  <2>3. /\ cache[k] = Fraud!LastOf(ask[p].items, k)
        /\ \A x \in Askers \ {p} : ask[x].op # "load" /\ ~Touches(ask[x], k)
    BY <1>1, <2>1 DEF SettersAlone
  <2> QED
    BY <1>3, <1>5, <2>1, <2>2, <2>3
<1>7. LoadersAlone'
  <2>1. \A p \in Askers : ~(ask'[p].op = "load" /\ ask'[p].alone)
    BY <1>3, <1>4
  <2> QED
    BY <2>1 DEF LoadersAlone
<1>8. Follows'
  <2> SUFFICES ASSUME NEW k \in Keys, k \notin doubtful', \A p \in Askers : ~Touches(ask'[p], k)
               PROVE  Fraud!Shown(cache')[k] = Fraud!Shown(table)[k]
    BY DEF Follows, Fraud!Shown, Touches
  <2>1. k \notin ks /\ k \notin doubtful
    BY DEF ks
  <2>2. \A p \in Askers : ~Touches(ask[p], k)
    BY <1>3
  <2>3. Fraud!Shown(cache)[k] = Fraud!Shown(table)[k] /\ cache'[k] = cache[k]
    BY <1>1, <1>5, <2>1, <2>2 DEF Follows
  <2> QED
    BY <2>3 DEF Fraud!Shown
<1>9. SettingsType'
  BY <1>1 DEF SettingsType, Fraud!Written
<1> QED
  BY <1>2, <1>6, <1>7, <1>8, <1>9 DEF SettingsInv

LEMMA LoadStep ==
    ASSUME SettingsInv, NEW r \in Askers, Fraud!LoadAll(r)
    PROVE  SettingsInv'
<1> DEFINE q == [op |-> "load", rows |-> table, alone |-> Fraud!Undisturbed("load", Keys)]
<1>1. AsksOk /\ SettersAlone /\ LoadersAlone /\ Follows /\ SettingsType
  BY DEF SettingsInv
<1>2. /\ ask[r] = Fraud!Idle
      /\ ask' = [p \in Askers |-> ask'[p]] /\ ask'[r] = q
      /\ \A p \in Askers \ {r} : ask'[p] = Fraud!Disturbed("load", Keys)[p]
      /\ UNCHANGED <<table, cache, facts, doubtful>>
  BY DEF Fraud!LoadAll, Fraud!Enter, Fraud!Disturbed
<1>3. /\ q.op = "load" /\ q.rows = table /\ q.alone = Fraud!Undisturbed("load", Keys)
      /\ AskOk(q) /\ \A k : ~Touches(q, k)
  BY DEF AskOk, IsLoad, Touches
<1> HIDE DEF q
<1>4. AsksOk' /\ Weakened("load", Keys, {r})
  <2>1. {r} \in SUBSET Askers /\ \A p \in {r} : AskOk(ask'[p])
    BY <1>2, <1>3
  <2>2. OnlyDisturbs("load", Keys, {r})
    BY <1>2 DEF OnlyDisturbs
  <2> QED
    BY <1>1, <2>1, <2>2, OthersDisturbed
<1>5. \A p \in Askers \ {r} :
          /\ ask'[p].op = ask[p].op
          /\ ask[p].op = "set" => ask'[p].items = ask[p].items
          /\ ask[p].op = "load" => ask'[p].rows = ask[p].rows
          /\ ask[p].op \in {"set", "load"} /\ ask'[p].alone =>
                 ask[p].alone /\ p \notin Fraud!Disturb("load", Keys)
          /\ \A k : Touches(ask'[p], k) <=> Touches(ask[p], k)
  BY <1>4 DEF Weakened
<1>6. \A p \in Askers : p \notin Fraud!Disturb("load", Keys) => \A k \in Keys : ~Touches(ask[p], k)
  BY DEF Fraud!Disturb, Touches
<1>7. \A p \in Askers, k \in Keys : Touches(ask'[p], k) <=> Touches(ask[p], k)
  BY <1>2, <1>3, <1>5, IdleAsk
<1>8. SettersAlone'
  <2>1. \A p \in Askers : ask'[p].op = "set" /\ ask'[p].alone =>
            Keys \cap Fraud!KeysOf(ask'[p].items) = {}
    BY <1>2, <1>3, <1>5, <1>6 DEF Touches
  <2> QED
    BY <2>1 DEF SettersAlone
<1>9. LoadersAlone'
  <2> SUFFICES ASSUME NEW p \in Askers, ask'[p].op = "load", ask'[p].alone
               PROVE  /\ ask'[p].rows = table'
                      /\ \A x \in Askers, k \in Keys : ~Touches(ask'[x], k)
    BY DEF LoadersAlone, Touches
  <2>1. CASE p = r
    <3>1. Fraud!Disturb("load", Keys) = {}
      BY <1>2, <1>3, <2>1 DEF Fraud!Undisturbed
    <3> QED
      BY <1>2, <1>3, <1>6, <1>7, <2>1, <3>1
  <2>2. CASE p # r
    <3>1. ask[p].op = "load" /\ ask[p].alone /\ ask'[p].rows = ask[p].rows
      BY <1>5, <2>2
    <3> QED
      BY <1>1, <1>2, <1>7, <3>1 DEF LoadersAlone
  <2> QED
    BY <2>1, <2>2
<1>10. Follows' /\ SettingsType'
  BY <1>1, <1>2, <1>7 DEF Follows, SettingsType, Fraud!Shown
<1> QED
  BY <1>4, <1>8, <1>9, <1>10 DEF SettingsInv

(* What ends leaves the others as they are.                                 *)
LEMMA Ended ==
    ASSUME AsksOk, NEW r \in Askers, UNCHANGED facts, Fraud!End(r)
    PROVE  /\ AsksOk' /\ ask'[r].op = "idle" /\ \A k : ~Touches(ask'[r], k)
           /\ \A p \in Askers : p # r => ask'[p] = ask[p]
<1>1. ask' = [ask EXCEPT ![r] = Fraud!Idle]
  BY DEF Fraud!End, Fraud!Proceed
<1>2. /\ ask' = [p \in Askers |-> ask'[p]] /\ ask'[r] = Fraud!Idle
      /\ \A p \in Askers : p # r => ask'[p] = ask[p]
  BY <1>1, OneAsk
<1>3. \A p \in Askers : AskOk(ask[p])
  BY DEF AsksOk
<1>4. \A p \in Askers : AskOk(ask'[p])
  BY <1>2, <1>3, IdleAsk
<1>5. \A p \in Askers : AskOk(ask[p])'
  BY <1>4 DEF AskOk
<1> QED
  BY <1>2, <1>5, IdleAsk DEF AsksOk

(* An update ends: what is still in flight is as alone as it was.           *)
LEMMA UpdateEnds ==
    ASSUME SettingsInv, NEW r \in Askers, ask[r].op = "set", Fraud!End(r), UNCHANGED <<cache, facts>>,
           table' = table \/ table' = Fraud!Written(table, ask[r].items)
    PROVE  /\ AsksOk' /\ SettersAlone' /\ LoadersAlone' /\ SettingsType'
           /\ \A k \in Keys : (\A p \in Askers : ~Touches(ask'[p], k)) =>
                  \A p \in Askers : Touches(ask[p], k) => p = r
<1>1. AsksOk /\ SettersAlone /\ LoadersAlone /\ SettingsType
  BY DEF SettingsInv
<1>2. /\ AsksOk' /\ ask'[r].op = "idle" /\ \A k : ~Touches(ask'[r], k)
      /\ \A p \in Askers : p # r => ask'[p] = ask[p]
  BY <1>1, Ended
<1>3. SettersAlone'
  <2> SUFFICES ASSUME NEW p \in Askers, ask'[p].op = "set", ask'[p].alone,
                      NEW k \in Keys \cap Fraud!KeysOf(ask'[p].items)
               PROVE  /\ cache'[k] = Fraud!LastOf(ask'[p].items, k)
                      /\ \A x \in Askers \ {p} : ask'[x].op # "load" /\ ~Touches(ask'[x], k)
    BY DEF SettersAlone, Touches
  <2>1. p # r /\ ask'[p] = ask[p]
    BY <1>2
  <2>2. /\ cache[k] = Fraud!LastOf(ask[p].items, k)
        /\ \A x \in Askers \ {p} : ask[x].op # "load" /\ ~Touches(ask[x], k)
    BY <1>1, <2>1 DEF SettersAlone
  <2> QED
    BY <1>2, <2>1, <2>2
<1>4. LoadersAlone'
  <2> SUFFICES ASSUME NEW p \in Askers, ask'[p].op = "load", ask'[p].alone
               PROVE  /\ ask'[p].rows = table'
                      /\ \A x \in Askers, k \in Keys : ~Touches(ask'[x], k)
    BY DEF LoadersAlone, Touches
  <2>1. p # r /\ ask'[p] = ask[p]
    BY <1>2
  <2>2. ask[p].rows = table /\ \A x \in Askers, k \in Keys : ~Touches(ask[x], k)
    BY <1>1, <2>1 DEF LoadersAlone
  <2>3. \A k \in Keys : k \notin Fraud!KeysOf(ask[r].items)
    BY <2>2 DEF Touches
  <2>4. Fraud!Written(table, ask[r].items) = table
    BY <1>1, <2>3 DEF Fraud!Written, SettingsType
  <2> QED
    BY <1>2, <2>1, <2>2, <2>4
<1>5. SettingsType'
  BY <1>1 DEF SettingsType, Fraud!Written
<1> QED
  BY <1>2, <1>3, <1>4, <1>5

LEMMA CommitConfigsStep ==
    ASSUME SettingsInv, NEW r \in Askers, Fraud!CommitConfigs(r)
    PROVE  SettingsInv'
<1> DEFINE items == ask[r].items
<1>1. /\ ask[r].op = "set" /\ Fraud!End(r) /\ UNCHANGED <<cache, facts>>
      /\ table' = Fraud!Written(table, items)
      /\ doubtful' = IF ask[r].alone THEN doubtful \ Fraud!KeysOf(items)
                     ELSE doubtful \cup Fraud!KeysOf(items)
  BY DEF Fraud!CommitConfigs
<1>2. /\ AsksOk' /\ SettersAlone' /\ LoadersAlone' /\ SettingsType'
      /\ \A k \in Keys : (\A p \in Askers : ~Touches(ask'[p], k)) =>
             \A p \in Askers : Touches(ask[p], k) => p = r
  BY <1>1, UpdateEnds
<1>3. Follows'
  <2> SUFFICES ASSUME NEW k \in Keys, k \notin doubtful', \A p \in Askers : ~Touches(ask'[p], k)
               PROVE  Fraud!Shown(cache)[k] = Fraud!Shown(table')[k]
    BY <1>1 DEF Follows, Fraud!Shown, Touches
  <2>1. CASE k \in Fraud!KeysOf(items)
    <3>1. ask[r].alone
      BY <1>1, <2>1
    <3>2. cache[k] = Fraud!LastOf(items, k)
      BY <1>1, <2>1, <3>1 DEF SettingsInv, SettersAlone
    <3>3. table'[k] = Fraud!LastOf(items, k)
      BY <1>1, <2>1, WrittenIs
    <3> QED
      BY <3>2, <3>3 DEF Fraud!Shown
  <2>2. CASE k \notin Fraud!KeysOf(items)
    <3>1. k \notin doubtful
      BY <1>1, <2>2
    <3>2. \A p \in Askers : ~Touches(ask[p], k)
      BY <1>2, <2>2 DEF Touches
    <3>3. Fraud!Shown(cache)[k] = Fraud!Shown(table)[k]
      BY <3>1, <3>2 DEF SettingsInv, Follows
    <3>4. table'[k] = table[k]
      BY <1>1, <2>2, WrittenIs
    <3> QED
      BY <3>3, <3>4 DEF Fraud!Shown
  <2> QED
    BY <2>1, <2>2
<1> QED
  BY <1>2, <1>3 DEF SettingsInv

LEMMA FailConfigsStep ==
    ASSUME SettingsInv, NEW r \in Askers, Fraud!FailConfigs(r)
    PROVE  SettingsInv'
<1>1. /\ ask[r].op = "set" /\ Fraud!End(r) /\ UNCHANGED <<table, cache, facts>>
      /\ doubtful' = doubtful \cup Fraud!KeysOf(ask[r].items)
  BY DEF Fraud!FailConfigs
<1>2. /\ AsksOk' /\ SettersAlone' /\ LoadersAlone' /\ SettingsType'
      /\ \A k \in Keys : (\A p \in Askers : ~Touches(ask'[p], k)) =>
             \A p \in Askers : Touches(ask[p], k) => p = r
  BY <1>1, UpdateEnds
<1>3. Follows'
  <2> SUFFICES ASSUME NEW k \in Keys, k \notin doubtful', \A p \in Askers : ~Touches(ask'[p], k)
               PROVE  Fraud!Shown(cache)[k] = Fraud!Shown(table)[k]
    BY <1>1 DEF Follows, Fraud!Shown, Touches
  <2>1. k \notin doubtful /\ \A p \in Askers : ~Touches(ask[p], k)
    BY <1>1, <1>2 DEF Touches
  <2> QED
    BY <2>1 DEF SettingsInv, Follows
<1> QED
  BY <1>2, <1>3 DEF SettingsInv

LEMMA ApplyLoadStep ==
    ASSUME SettingsInv, NEW r \in Askers, Fraud!ApplyLoad(r)
    PROVE  SettingsInv'
<1> DEFINE rows == ask[r].rows
           read == {k \in Keys : rows[k] # Absent}
<1>1. AsksOk /\ SettersAlone /\ LoadersAlone /\ Follows /\ SettingsType
  BY DEF SettingsInv
<1>2. /\ ask[r].op = "load" /\ Fraud!End(r) /\ UNCHANGED <<table, facts>>
      /\ cache' = Fraud!Loaded(rows)
      /\ doubtful' = IF ask[r].alone THEN doubtful \ read ELSE doubtful \cup read
  BY DEF Fraud!ApplyLoad
<1>3. /\ AsksOk' /\ ask'[r].op = "idle" /\ \A k : ~Touches(ask'[r], k)
      /\ \A p \in Askers : p # r => ask'[p] = ask[p]
  BY <1>1, <1>2, Ended
<1>4. \A p \in Askers : \A k : Touches(ask'[p], k) <=> Touches(ask[p], k)
  BY <1>2, <1>3 DEF Touches
<1>5. SettersAlone'
  <2> SUFFICES ASSUME NEW p \in Askers, ask'[p].op = "set", ask'[p].alone,
                      NEW k \in Keys \cap Fraud!KeysOf(ask'[p].items)
               PROVE  FALSE
    BY DEF SettersAlone, Touches
  <2>1. p # r /\ ask'[p] = ask[p]
    BY <1>3
  <2> QED
    BY <1>1, <1>2, <2>1 DEF SettersAlone
<1>6. LoadersAlone'
  <2> SUFFICES ASSUME NEW p \in Askers, ask'[p].op = "load", ask'[p].alone
               PROVE  /\ ask'[p].rows = table'
                      /\ \A x \in Askers, k \in Keys : ~Touches(ask'[x], k)
    BY DEF LoadersAlone, Touches
  <2>1. p # r /\ ask'[p] = ask[p]
    BY <1>3
  <2> QED
    BY <1>1, <1>2, <1>4, <2>1 DEF LoadersAlone
<1>7. \A k \in Keys : cache'[k] = IF k \in read THEN rows[k] ELSE cache[k]
  BY <1>2 DEF Fraud!Loaded
<1>8. Follows'
  <2> SUFFICES ASSUME NEW k \in Keys, k \notin doubtful', \A p \in Askers : ~Touches(ask'[p], k)
               PROVE  Fraud!Shown(cache')[k] = Fraud!Shown(table)[k]
    BY <1>2 DEF Follows, Fraud!Shown, Touches
  <2>1. CASE k \in read
    <3>1. ask[r].alone
      BY <1>2, <2>1
    <3>2. rows = table
      BY <1>1, <1>2, <3>1 DEF LoadersAlone
    <3> QED
      BY <1>7, <2>1, <3>2 DEF Fraud!Shown
  <2>2. CASE k \notin read
    <3>1. k \notin doubtful /\ \A p \in Askers : ~Touches(ask[p], k)
      BY <1>2, <1>4, <2>2
    <3>2. Fraud!Shown(cache)[k] = Fraud!Shown(table)[k] /\ cache'[k] = cache[k]
      BY <1>1, <1>7, <2>2, <3>1 DEF Follows
    <3> QED
      BY <3>2 DEF Fraud!Shown
  <2> QED
    BY <2>1, <2>2
<1>9. SettingsType'
  BY <1>1, <1>2 DEF SettingsType, Fraud!Loaded
<1> QED
  BY <1>3, <1>5, <1>6, <1>8, <1>9 DEF SettingsInv

LEMMA RestartStep ==
    ASSUME SettingsInv, NEW loads \in BOOLEAN, Fraud!Restart(loads)
    PROVE  SettingsInv'
<1>1. /\ cache' = IF loads THEN table ELSE [k \in Keys |-> Absent]
      /\ doubtful' = IF loads THEN {} ELSE {k \in Keys : table[k] # Absent}
      /\ ask' = [r \in Askers |-> Fraud!Idle]
      /\ UNCHANGED <<table, facts>>
  BY DEF Fraud!Restart
<1>2. \A r \in Askers : ask'[r] = Fraud!Idle /\ ask'[r].op = "idle"
  BY <1>1, IdleAsk
<1>3. AsksOk'
  <2>1. \A r \in Askers : AskOk(ask[r])'
    BY <1>2 DEF AskOk
  <2> QED
    BY <1>1, <2>1 DEF AsksOk
<1>4. SettersAlone' /\ LoadersAlone'
  BY <1>2 DEF SettersAlone, LoadersAlone
<1>5. Follows'
  <2> SUFFICES ASSUME NEW k \in Keys, k \notin doubtful'
               PROVE  Fraud!Shown(cache')[k] = Fraud!Shown(table)[k]
    BY <1>1 DEF Follows, Fraud!Shown
  <2>1. cache'[k] = table[k]
    BY <1>1
  <2> QED
    BY <2>1 DEF Fraud!Shown
<1>6. SettingsType'
  BY <1>1 DEF SettingsInv, SettingsType
<1> QED
  BY <1>3, <1>4, <1>5, <1>6 DEF SettingsInv

LEMMA SetStep ==
    ASSUME SettingsInv, NEW r \in Askers, NEW items \in Updates, Fraud!SetConfigs(r, items)
    PROVE  SettingsInv'
<1>1. /\ ask[r] = Fraud!Idle
      /\ cache' = Fraud!Written(cache, Fraud!Accepted(items))
      /\ UNCHANGED <<table, facts>>
  BY DEF Fraud!SetConfigs
<1>2. CASE Fraud!Accepted(items) = items
  <2>1. /\ Fraud!Enter(r, [op |-> "set", items |-> items,
                           alone |-> Fraud!Undisturbed("set", Fraud!KeysOf(items))], Fraud!KeysOf(items))
        /\ UNCHANGED doubtful
    BY <1>2 DEF Fraud!SetConfigs
  <2> QED
    BY <1>1, <1>2, <2>1, SetAccepted
<1>3. CASE Fraud!Accepted(items) # items
  <2> DEFINE accepted == Fraud!Accepted(items)
  <2>1. /\ ask' = Fraud!Disturbed("set", Fraud!KeysOf(accepted))
        /\ doubtful' = doubtful \cup Fraud!KeysOf(accepted)
    BY <1>3 DEF Fraud!SetConfigs, Fraud!Refuse
  <2> HIDE DEF accepted
  <2>2. cache' = Fraud!Written(cache, accepted)
    BY <1>1 DEF accepted
  <2> QED
    BY <1>1, <2>1, <2>2, SetRefused
<1> QED
  BY <1>2, <1>3

-----------------------------------------------------------------------------
(* Who passes *)

PassedOk ==
    \A l \in Tenders :
        /\ <<l, "auto", TRUE>> \in passed => QuickScore(facts[l]) <= Defaults["auto"]
        /\ <<l, "confirmed", TRUE>> \in passed => \E s \in Fraud!Seen(facts[l]) : s.same = 0

ScreenInv == SettingsInv /\ facts \in [Tenders -> FactSets] /\ PassedOk

LEMMA CloseStep ==
    ASSUME ScreenInv, NEW r \in Askers, NEW l \in Tenders, NEW graph \in BOOLEAN, NEW vector \in BOOLEAN,
           Fraud!CloseBidding(r, l, graph, vector)
    PROVE  ScreenInv'
<1> DEFINE f == facts[l]
           q == [op |-> "close", lot |-> l,
                 score |-> (IF graph THEN Fraud!GraphScore(f) ELSE 0) + Fraud!PriceScore(f)
                             + (IF vector THEN Fraud!VectorScore(f) ELSE 0),
                 sound |-> graph /\ vector /\ Fraud!Usual({"pairs"})]
<1>1. /\ ask[r] = Fraud!Idle /\ ask' = [ask EXCEPT ![r] = q]
      /\ UNCHANGED <<table, cache, facts, doubtful, passed>>
  BY DEF Fraud!CloseBidding, Fraud!Ask
<1>2. /\ q.op = "close" /\ q.lot = l
      /\ q.score = (IF graph THEN Fraud!GraphScore(f) ELSE 0) + Fraud!PriceScore(f)
                        + (IF vector THEN Fraud!VectorScore(f) ELSE 0)
      /\ q.sound = (graph /\ vector /\ Fraud!Usual({"pairs"}))
  OBVIOUS
<1>3. Fraud!Usual({"pairs"}) =>
          Fraud!VectorScore(f) = IF \E i \in DOMAIN f.pairs : f.pairs[i] >= Defaults["pairs"] THEN 40 ELSE 0
  BY DEF Fraud!Usual, Fraud!VectorScore
<1> HIDE DEF q
<1>4. q.sound => q.score = QuickScore(facts[q.lot])
  BY <1>2, <1>3 DEF QuickScore
<1>5. AskOk(q)
  BY <1>2, <1>4 DEF AskOk
<1>6. SettingsInv'
  BY <1>1, <1>2, <1>5, IdleAsk, ScreeningAsk DEF ScreenInv
<1> QED
  BY <1>1, <1>6 DEF ScreenInv, PassedOk

LEMMA ConfirmBegins ==
    ASSUME ScreenInv, NEW r \in Askers, NEW l \in Tenders, NEW graph \in BOOLEAN,
           Fraud!ConfirmPrescreen(r, l, graph)
    PROVE  ScreenInv'
<1>1. PICK s \in IF graph THEN Fraud!Seen(facts[l]) ELSE {Fraud!Nothing} :
          Fraud!Ask(r, [op |-> "confirm", lot |-> l, seen |-> s, sound |-> graph,
                        text |-> Fraud!DeepTextScore(facts[l], Fraud!Setting("pairs"))])
  BY DEF Fraud!ConfirmPrescreen
<1> DEFINE q == [op |-> "confirm", lot |-> l, seen |-> s, sound |-> graph,
                 text |-> Fraud!DeepTextScore(facts[l], Fraud!Setting("pairs"))]
<1>2. /\ ask[r] = Fraud!Idle /\ ask' = [ask EXCEPT ![r] = q]
      /\ UNCHANGED <<table, cache, facts, doubtful, passed>>
  BY <1>1 DEF Fraud!ConfirmPrescreen, Fraud!Ask
<1>3. q.op = "confirm" /\ q.lot = l /\ q.seen = s /\ q.sound = graph
  OBVIOUS
<1> HIDE DEF q
<1>4. AskOk(q)
  BY <1>1, <1>3 DEF AskOk
<1>5. SettingsInv'
  BY <1>2, <1>3, <1>4, IdleAsk, ScreeningAsk DEF ScreenInv
<1> QED
  BY <1>2, <1>5 DEF ScreenInv, PassedOk

(* The end of either.                                                       *)
LEMMA DecisionEnds ==
    ASSUME ScreenInv, NEW r \in Askers, ask[r].op \notin {"set", "load"}, Fraud!End(r),
           UNCHANGED <<table, cache, facts, doubtful>>
    PROVE  SettingsInv'
<1>1. ask' = [ask EXCEPT ![r] = Fraud!Idle]
  BY DEF Fraud!End, Fraud!Proceed
<1> QED
  BY <1>1, IdleAsk, ScreeningAsk DEF ScreenInv

LEMMA DecideStep ==
    ASSUME ScreenInv, NEW r \in Askers, Fraud!Decide(r)
    PROVE  ScreenInv'
<1> DEFINE q == ask[r]
           pass == q.score <= Fraud!Setting("auto")
           entry == <<q.lot, "auto", q.sound /\ Fraud!Usual({"auto"})>>
<1>1. /\ q.op = "close" /\ Fraud!End(r) /\ UNCHANGED <<table, cache, facts, doubtful>>
      /\ passed' = IF pass THEN passed \cup {entry} ELSE passed
  BY DEF Fraud!Decide
<1>2. SettingsInv'
  BY <1>1, DecisionEnds
<1>3. q.lot \in Tenders /\ (q.sound => q.score = QuickScore(facts[q.lot]))
  BY <1>1, AskKinds DEF ScreenInv, SettingsInv, AsksOk
<1>4. ASSUME NEW l \in Tenders, <<l, "auto", TRUE>> \in passed'
      PROVE  QuickScore(facts[l]) <= Defaults["auto"]
  <2>1. CASE <<l, "auto", TRUE>> \in passed
    BY <2>1 DEF ScreenInv, PassedOk
  <2>2. CASE pass /\ <<l, "auto", TRUE>> = entry
    <3>1. q.lot = l /\ q.sound /\ Fraud!Usual({"auto"})
      BY <2>2
    <3>2. Fraud!Setting("auto") = Defaults["auto"]
      BY <3>1 DEF Fraud!Usual
    <3> QED
      BY <1>3, <2>2, <3>1, <3>2
  <2> QED
    BY <1>1, <1>4, <2>1, <2>2
<1>5. ASSUME NEW l \in Tenders, <<l, "confirmed", TRUE>> \in passed'
      PROVE  \E s \in Fraud!Seen(facts[l]) : s.same = 0
  BY <1>1, <1>5 DEF ScreenInv, PassedOk
<1> QED
  BY <1>1, <1>2, <1>4, <1>5 DEF ScreenInv, PassedOk, QuickScore

LEMMA ConfirmStep ==
    ASSUME ScreenInv, NEW r \in Askers, Fraud!Confirm(r)
    PROVE  ScreenInv'
<1> DEFINE q == ask[r]
           risk == Fraud!Risk(facts[q.lot], q.seen, q.text, Fraud!Shown(cache))
<1>1. /\ q.op = "confirm" /\ Fraud!End(r) /\ UNCHANGED <<table, cache, facts, doubtful>>
      /\ passed' = IF risk \in Fraud!Held THEN passed
                   ELSE passed \cup {<<q.lot, "confirmed", q.sound>>}
  BY DEF Fraud!Confirm
<1>2. SettingsInv'
  BY <1>1, DecisionEnds
<1>3. q.lot \in Tenders /\ (q.sound => q.seen \in Fraud!Seen(facts[q.lot]))
  BY <1>1, AskKinds DEF ScreenInv, SettingsInv, AsksOk
<1>4. q.seen.same > 0 => risk \in Fraud!Held
  BY DEF Fraud!Risk, Fraud!Held
<1>5. ASSUME NEW l \in Tenders, <<l, "confirmed", TRUE>> \in passed'
      PROVE  \E s \in Fraud!Seen(facts[l]) : s.same = 0
  <2>1. CASE <<l, "confirmed", TRUE>> \in passed
    BY <2>1 DEF ScreenInv, PassedOk
  <2>2. CASE risk \notin Fraud!Held /\ <<l, "confirmed", TRUE>> = <<q.lot, "confirmed", q.sound>>
    <3>1. q.seen \in Fraud!Seen(facts[l]) /\ ~(q.seen.same > 0)
      BY <1>3, <1>4, <2>2
    <3>2. q.seen.same \in Nat
      BY <3>1 DEF Fraud!Seen
    <3> QED
      BY <3>1, <3>2
  <2> QED
    BY <1>1, <1>5, <2>1, <2>2
<1>6. ASSUME NEW l \in Tenders, <<l, "auto", TRUE>> \in passed'
      PROVE  <<l, "auto", TRUE>> \in passed
  BY <1>1, <1>6
<1> QED
  BY <1>1, <1>2, <1>5, <1>6 DEF ScreenInv, PassedOk

LEMMA ScreenBegins == Fraud!Init => ScreenInv
<1> SUFFICES ASSUME Fraud!Init PROVE ScreenInv
  OBVIOUS
<1>1. passed = {} /\ facts \in [Tenders -> FactSets]
  BY DEF Fraud!Init
<1> QED
  BY <1>1, SettingsBegin DEF ScreenInv, PassedOk

LEMMA ScreenStep == Fraud!ScreeningAssumption /\ ScreenInv /\ [Fraud!Next]_(Fraud!vars) => ScreenInv'
<1> SUFFICES ASSUME Fraud!ScreeningAssumption, ScreenInv, [Fraud!Next]_(Fraud!vars) PROVE ScreenInv'
  OBVIOUS
<1>1. ASSUME SettingsInv', UNCHANGED <<facts, passed>> PROVE ScreenInv'
  BY <1>1 DEF ScreenInv, PassedOk, QuickScore
<1>2. SettingsInv
  BY DEF ScreenInv
<1>3. CASE UNCHANGED Fraud!vars
  <2>1. SettingsInv'
    BY <1>2, <1>3 DEF Fraud!vars, SettingsInv, SettingsType, AsksOk, AskOk, SettersAlone, LoadersAlone,
                      Follows, Touches, Fraud!Shown, Fraud!KeysOf, Fraud!Seen, QuickScore
  <2> QED
    BY <1>1, <1>3, <2>1 DEF Fraud!vars
<1>4. ASSUME NEW r \in Askers, NEW items \in Updates, Fraud!SetConfigs(r, items) PROVE ScreenInv'
  BY <1>1, <1>2, <1>4, SetStep DEF Fraud!SetConfigs
<1>5. ASSUME NEW r \in Askers, Fraud!CommitConfigs(r) PROVE ScreenInv'
  BY <1>1, <1>2, <1>5, CommitConfigsStep DEF Fraud!CommitConfigs
<1>6. ASSUME NEW r \in Askers, Fraud!FailConfigs(r) PROVE ScreenInv'
  BY <1>1, <1>2, <1>6, FailConfigsStep DEF Fraud!FailConfigs
<1>7. ASSUME NEW r \in Askers, Fraud!LoadAll(r) PROVE ScreenInv'
  BY <1>1, <1>2, <1>7, LoadStep DEF Fraud!LoadAll
<1>8. ASSUME NEW r \in Askers, Fraud!ApplyLoad(r) PROVE ScreenInv'
  BY <1>1, <1>2, <1>8, ApplyLoadStep DEF Fraud!ApplyLoad
<1>9. ASSUME NEW loads \in BOOLEAN, Fraud!Restart(loads) PROVE ScreenInv'
  BY <1>1, <1>2, <1>9, RestartStep DEF Fraud!Restart
<1> QED
  BY <1>3, <1>4, <1>5, <1>6, <1>7, <1>8, <1>9, CloseStep, DecideStep, ConfirmBegins, ConfirmStep
  DEF Fraud!Next, Fraud!PutConfig, Fraud!PostCloseBidding, Fraud!PostConfirmPrescreen

LEMMA CacheIsTable == SettingsInv => Fraud!CacheFollowsTable
BY DEF SettingsInv, Follows, Touches, Fraud!CacheFollowsTable, Fraud!Setting

(* The similar passages count nothing where no pair has enough of them.     *)
LEMMA NoSimilarText ==
    ASSUME NEW f, NEW enough, \A i \in DOMAIN f.pairs : ~(f.pairs[i] >= enough)
    PROVE  Fraud!DeepTextScore(f, enough) = 0
<1> DEFINE similar == {i \in DOMAIN f.pairs : f.pairs[i] >= enough}
           sumStep(it, s) == IF s = {} THEN 0
                          ELSE LET x == CHOOSE x \in s : TRUE IN f.pairs[x] + it[s \ {x}]
           Rule(it) == [s \in SUBSET similar |-> sumStep(it, s)]
           iter == CHOOSE it : it = Rule(it)
           zero == [s \in SUBSET similar |-> 0]
<1>1. similar = {}
  OBVIOUS
<1>2. zero = Rule(zero)
  BY <1>1
<1>3. iter = Rule(iter)
  BY <1>2
<1>4. iter[similar] = 0
  BY <1>1, <1>3
<1> HIDE DEF iter
<1>5. Fraud!DeepTextScore(f, enough) = Fraud!Capped(25 * 0)
  BY <1>4 DEF Fraud!DeepTextScore, Fraud!MapThenSumSet, Fraud!MapThenFoldSet, iter
<1> QED
  BY <1>5 DEF Fraud!Capped, Fraud!AtMost

LEMMA Product ==
    ASSUME NEW w \in Nat, NEW x \in Nat, NEW c \in Nat, x <= c
    PROVE  w * x <= w * c /\ w * x \in Nat /\ w * c \in Nat
OBVIOUS

(* Who passes the quick checks shares no controller with another, has no    *)
(* relation but one affiliation and the bids they placed together, no       *)
(* cluster of prices and no similar text.                                   *)
LEMMA QuickFinds ==
    ASSUME Fraud!ScreeningAssumption, NEW f \in Fraud!Findings, QuickScore(f) <= Defaults["auto"]
    PROVE  /\ f.same = 0 /\ ~f.cluster
           /\ \A i \in DOMAIN f.pairs : ~(f.pairs[i] >= Defaults["pairs"])
<1> DEFINE graph == Fraud!GraphScore(f)
           price == Fraud!PriceScore(f)
           text == IF \E i \in DOMAIN f.pairs : f.pairs[i] >= Defaults["pairs"] THEN 40 ELSE 0
<1>1. f.same \in Nat /\ f.affiliate \in Nat /\ f.cluster \in BOOLEAN
  BY DEF Fraud!Findings
<1>2. graph \in Nat /\ (graph < 30 => f.same = 0)
  BY <1>1 DEF Fraud!GraphScore, Fraud!Capped, Fraud!AtMost
<1>3. price \in {0, 40} /\ (price = 0 => ~f.cluster)
  BY DEF Fraud!PriceScore
<1>4. text \in {0, 40} /\ (text = 0 => \A i \in DOMAIN f.pairs : ~(f.pairs[i] >= Defaults["pairs"]))
  OBVIOUS
<1>5. graph + price + text < 30
  <2>1. Defaults["auto"] \in Nat /\ Defaults["auto"] < 30
    BY DEF Fraud!ScreeningAssumption
  <2>2. graph + price + text <= Defaults["auto"]
    BY DEF QuickScore
  <2> HIDE DEF graph, price, text
  <2> QED
    BY <1>2, <1>3, <1>4, <2>1, <2>2
<1> HIDE DEF graph, price, text
<1> QED
  BY <1>2, <1>3, <1>4, <1>5

LEMMA QuickIsSafe ==
    ASSUME Fraud!ScreeningAssumption, NEW f \in Fraud!Findings, QuickScore(f) <= Defaults["auto"],
           NEW s \in Fraud!Seen(f)
    PROVE  Fraud!Risk(f, s, Fraud!DeepTextScore(f, Defaults["pairs"]), Defaults) \notin Fraud!Held
<1> DEFINE text == Fraud!DeepTextScore(f, Defaults["pairs"])
           graph == Fraud!DeepGraphScore(s)
           price == Fraud!DeepPriceScore(f)
           wt == Defaults["text"]
           wg == Defaults["graph"]
           wp == Defaults["price"]
           low == Defaults["auto"]
           top == Defaults["critical"]
           total == Fraud!Tenths(wt * text + wg * graph + wp * price)
<1>1. f.same = 0 /\ ~f.cluster /\ text = 0
  BY QuickFinds, NoSimilarText
<1>2. s.same \in 0..f.same /\ s.affiliate \in Nat /\ s.together \in Nat
  BY DEF Fraud!Seen
<1>3. s.same = 0
  BY <1>1, <1>2
<1>4. graph \in Nat /\ graph <= 100
  BY <1>2, <1>3 DEF Fraud!DeepGraphScore, Fraud!Capped, Fraud!AtMost
<1>5. price \in Nat /\ price <= 40
  BY <1>1 DEF Fraud!DeepPriceScore, Fraud!Capped, Fraud!AtMost
<1>6. wt \in Nat /\ wg \in Nat /\ wp \in Nat /\ low \in Nat /\ top \in Nat
  BY DEF Fraud!ScreeningAssumption
<1>7. 100 * wg + 40 * wp <= 50 * (low + top)
  BY DEF Fraud!ScreeningAssumption
<1> DEFINE sum == wt * text + wg * graph + wp * price
<1> HIDE DEF text, graph, price, wt, wg, wp, low, top
<1>8. sum \in Nat /\ sum <= 50 * (low + top)
  <2>1. wg * graph <= wg * 100 /\ wg * graph \in Nat
    BY <1>4, <1>6, Product
  <2>2. wp * price <= wp * 40 /\ wp * price \in Nat
    BY <1>5, <1>6, Product
  <2>3. wt * text = 0
    BY <1>1, <1>6
  <2> QED
    BY <1>6, <1>7, <2>1, <2>2, <2>3
<1>9. total = Fraud!Tenths(sum)
  OBVIOUS
<1> HIDE DEF sum, total
<1>10. total \in Int /\ total <= 5 * (low + top)
  BY <1>6, <1>8, <1>9 DEF Fraud!Tenths
<1>11. Fraud!RiskLevel(total, low, top) \in {"LOW", "MEDIUM"}
  BY <1>6, <1>10 DEF Fraud!RiskLevel
<1>12. Fraud!Risk(f, s, text, Defaults) = Fraud!RiskLevel(total, low, top)
  BY <1>3, <1>11 DEF Fraud!Risk, total, sum, text, graph, price, wt, wg, wp, low, top
<1> QED
  BY <1>11, <1>12 DEF Fraud!Held, text

LEMMA HeldAsDue == Fraud!ScreeningAssumption /\ ScreenInv => Fraud!HeldWhenDue
<1> SUFFICES ASSUME Fraud!ScreeningAssumption, ScreenInv
             PROVE  Fraud!QuickPassIsSafe /\ Fraud!VetoHolds
  BY DEF Fraud!HeldWhenDue
<1>1. \A l \in Tenders : facts[l] \in Fraud!Findings
  BY DEF ScreenInv, Fraud!ScreeningAssumption
<1>2. Fraud!QuickPassIsSafe
  <2> SUFFICES ASSUME NEW l \in Tenders, <<l, "auto", TRUE>> \in passed, NEW s \in Fraud!Seen(facts[l])
               PROVE  Fraud!Risk(facts[l], s, Fraud!DeepTextScore(facts[l], Defaults["pairs"]), Defaults)
                          \notin Fraud!Held
    BY DEF Fraud!QuickPassIsSafe
  <2>1. QuickScore(facts[l]) <= Defaults["auto"]
    BY DEF ScreenInv, PassedOk
  <2> QED
    BY <1>1, <2>1, QuickIsSafe
<1>3. ASSUME NEW l \in Tenders, <<l, "confirmed", TRUE>> \in passed
      PROVE  facts[l].same = 0 \/ facts[l].same + facts[l].affiliate + facts[l].together > 10
  <2> DEFINE f == facts[l]
  <2>1. PICK s \in Fraud!Seen(f) : s.same = 0
    BY <1>3 DEF ScreenInv, PassedOk
  <2>2. /\ s.affiliate \in 0..f.affiliate /\ s.together \in 0..f.together
        /\ s.same + s.affiliate + s.together = Fraud!AtMost(10, f.same + f.affiliate + f.together)
    BY DEF Fraud!Seen
  <2>3. f.same \in Nat /\ f.affiliate \in Nat /\ f.together \in Nat
    BY <1>1 DEF Fraud!Findings
  <2> HIDE DEF f
  <2>4. f.same = 0 \/ f.same + f.affiliate + f.together > 10
    BY <2>1, <2>2, <2>3 DEF Fraud!AtMost
  <2> QED
    BY <2>4 DEF f
<1> QED
  BY <1>2, <1>3 DEF Fraud!VetoHolds

(* What get_sync goes by is what the table says, however updates, reloads,  *)
(* failures and restarts overlap in config_service; but for the entries an  *)
(* update or reload left in doubt.                                          *)
THEOREM CacheFollowsTableHolds == Fraud!Spec => []CacheFollowsTable
<1>1. Fraud!Init => ScreenInv
  BY SettingsAssumption, ScreenBegins
<1>2. ScreenInv /\ [Fraud!Next]_(Fraud!vars) => ScreenInv'
  BY SettingsAssumption, ScreenStep
<1>3. ScreenInv => CacheFollowsTable
  BY SettingsAssumption, CacheIsTable DEF ScreenInv, CacheFollowsTable
<1> QED
  BY <1>1, <1>2, <1>3, PTL DEF Fraud!Spec

(* What close_bidding lets pass, deep_detection would not have held, as     *)
(* long as the stores answered and the settings were usual; and no lot with *)
(* a shared controller that was seen gets past confirm_prescreen, whatever  *)
(* the settings are changed to.                                             *)
THEOREM HeldWhenDueHolds == Fraud!Spec => []HeldWhenDue
<1>1. Fraud!Init => ScreenInv
  BY SettingsAssumption, ScreenBegins
<1>2. ScreenInv /\ [Fraud!Next]_(Fraud!vars) => ScreenInv'
  BY SettingsAssumption, ScreenStep
<1>3. ScreenInv => HeldWhenDue
  BY SettingsAssumption, HeldAsDue DEF HeldWhenDue
<1> QED
  BY <1>1, <1>2, <1>3, PTL DEF Fraud!Spec
=============================================================================
