------------------------- MODULE ReviewFlow_proofs -------------------------
(* Proofs about ReviewFlow for any number of lots, bids, experts, reviews   *)
(* and requests, about Results for any dimensions, scores and weights,      *)
(* about Tasks for any experts, bids, dimensions, reviews and workbenches,  *)
(* about ChatAgent for any windows and questions, and about Splitter for    *)
(* answers of any length in any pieces.                                     *)
EXTENDS Results, TasksApart, AssistantParts, Sequences, CountingLemmas, TLAPS

USE OwnersAssumption, BoundsAssumption

-----------------------------------------------------------------------------
(* Rows and requests *)

(* A row is told from NULL by its status alone. *)
LEMMA RowOrNone ==
    \A row \in Row \cup {NoRow} :
        /\ row # NoRow => row \in Row
        /\ row \in Row => row # NoRow
        /\ row \in Row <=> row.status \in LiveStatus \cup {"SUSPENDED"}
BY DEF Row, NoRow, LiveStatus, LockedStatus

(* What an operation on a row returns: each field, and its type. *)
LEMMA SuspendRow ==
    ASSUME NEW row \in Row, row.status \in LiveStatus
    PROVE  /\ Suspend(row) \in Row
           /\ Suspend(row).status = "SUSPENDED" /\ Suspend(row).prev = row.status
           /\ Suspend(row).bid = row.bid /\ Suspend(row).expert = row.expert
           /\ Suspend(row).score = row.score /\ Suspend(row).ai = row.ai
<1>1. Suspend(row) = [[row EXCEPT !.prev = row.status] EXCEPT !.status = "SUSPENDED"]
  BY DEF Suspend, Row
<1> QED
  BY <1>1 DEF Row

LEMMA ReleaseRow ==
    ASSUME NEW row \in Row, row.prev \in LiveStatus
    PROVE  /\ Release(row) \in Row
           /\ Release(row).status = row.prev
           /\ Release(row).bid = row.bid /\ Release(row).expert = row.expert
           /\ Release(row).score = row.score /\ Release(row).ai = row.ai
<1>1. Release(row) = [[row EXCEPT !.status = row.prev] EXCEPT !.prev = "NULL"]
  BY DEF Release, Row
<1> QED
  BY <1>1 DEF Row

LEMMA SavedRow ==
    ASSUME NEW row \in Row, NEW q, q.score \in Score, q.ai \in Suggestion
    PROVE  /\ Saved(row, q) \in Row
           /\ Saved(row, q).status = Flushed(q.seen.status, "DRAFT", row.status)
           /\ Saved(row, q).prev = row.prev
           /\ Saved(row, q).bid = row.bid /\ Saved(row, q).expert = row.expert
<1> DEFINE st == Flushed(q.seen.status, "DRAFT", row.status)
           sc == Flushed(q.seen.score, q.score, row.score)
           a == Flushed(q.seen.ai, q.ai, row.ai)
<1>1. Saved(row, q) = [[[row EXCEPT !.status = st] EXCEPT !.score = sc] EXCEPT !.ai = a]
  BY DEF Saved, Row
<1>2. st \in LiveStatus \cup {"SUSPENDED"} /\ sc \in Score /\ a \in Suggestion
  BY DEF Flushed, Row, LiveStatus
<1> HIDE DEF st, sc, a
<1>3. /\ Saved(row, q) \in Row
      /\ Saved(row, q).status = st
      /\ Saved(row, q).prev = row.prev
      /\ Saved(row, q).bid = row.bid /\ Saved(row, q).expert = row.expert
  BY <1>1, <1>2 DEF Row
<1> QED
  BY <1>3 DEF st

LEMMA SubmittedRow ==
    ASSUME NEW row \in Row, NEW seen
    PROVE  /\ Submitted(row, seen) \in Row
           /\ Submitted(row, seen).status \in LockedStatus
           /\ Submitted(row, seen).prev = row.prev
           /\ Submitted(row, seen).bid = row.bid /\ Submitted(row, seen).expert = row.expert
           /\ Submitted(row, seen).score = row.score /\ Submitted(row, seen).ai = row.ai
BY DEF Submitted, Row, LiveStatus, LockedStatus

(* What a request of each kind carries. *)
LEMMA RequestFields ==
    \A q \in RequestType :
        /\ q.op = "create" => q.expert \in Experts /\ q.bid \in Bids
        /\ q.op = "save" => /\ q.review \in Reviews /\ q.seen \in View
                            /\ q.score \in Score /\ q.ai \in Suggestion
        /\ q.op = "submit" => q.review \in Reviews /\ q.seen \in View
        /\ q.op = "complete" => q.lot \in Lots
        /\ q.op = "disqualify" => q.bid \in Bids
        /\ q.op = "status" => /\ q.supplier \in Suppliers
                              /\ q.seen \in BOOLEAN /\ q.want \in BOOLEAN
BY DEF RequestType, Idle, Score

LEMMA ReadTyped == \A row \in Row : Read(row) \in View /\ Read(row).status = row.status
BY DEF Row, Read, View

-----------------------------------------------------------------------------
(* Types.  TypeOK is not inductive: a save in flight edits its row in      *)
(* place, so the row must still be there.                                  *)
HeldRowsExist ==
    \A r \in Requests : req[r].op \in {"save", "submit"} => Exists(req[r].review)

TypeInv == TypeOK /\ SuspendedRemembers /\ HeldRowsExist

LEMMA IdleTyped == Idle \in RequestType /\ Idle.op = "idle"
BY DEF Idle, RequestType

LEMMA AskEffect ==
    ASSUME TypeOK, NEW r \in Requests, NEW q \in RequestType, Ask(r, q) \/ Becomes(r, q)
    PROVE  /\ req' \in [Requests -> RequestType]
           /\ req'[r] = q
           /\ \A o \in Requests : o # r => req'[o] = req[o]
BY DEF TypeOK, Ask, Becomes

LEMMA AnswerEffect ==
    ASSUME TypeOK, NEW r \in Requests, Becomes(r, Idle)
    PROVE  /\ req' \in [Requests -> RequestType]
           /\ req'[r].op = "idle"
           /\ \A o \in Requests : o # r => req'[o] = req[o]
BY AskEffect, IdleTyped

(* The rows that exist after the cascade, and what it did to them. *)
LEMMA CascadeEffect ==
    ASSUME TypeOK, NEW s \in Suppliers, Cascade(s)
    PROVE  /\ bid' \in [Bids -> BidStatus]
           /\ \A b \in Bids : bid'[b] = IF BidSupplier[b] = s THEN "DISQUALIFIED" ELSE bid[b]
           /\ review' \in [Reviews -> Row \cup {NoRow}]
           /\ before' \in [Reviews -> LiveStatus]
           /\ \A v \in Reviews :
                \/ review'[v] = review[v] /\ before'[v] = before[v]
                \/ /\ review[v] \in Row /\ review[v].status \in LiveStatus
                   /\ BidSupplier[review[v].bid] = s
                   /\ review'[v] = Suspend(review[v]) /\ before'[v] = review[v].status
<1> DEFINE hit == IF awarded THEN {} ELSE Unsuspended(s)
<1>1. /\ bid' = [b \in Bids |-> IF BidSupplier[b] = s THEN "DISQUALIFIED" ELSE bid[b]]
      /\ review' = [v \in Reviews |-> IF v \in hit THEN Suspend(review[v]) ELSE review[v]]
      /\ before' = [v \in Reviews |-> IF v \in hit THEN review[v].status ELSE before[v]]
  BY DEF Cascade
<1>2. ASSUME NEW v \in hit
      PROVE  /\ v \in Reviews /\ review[v] \in Row /\ review[v].status \in LiveStatus
             /\ BidSupplier[review[v].bid] = s
  <2>1. v \in Reviews /\ review[v] # NoRow /\ review[v].status # "SUSPENDED"
        /\ BidSupplier[review[v].bid] = s
    BY DEF Unsuspended, ReviewsOf, Exists
  <2> QED
    BY <2>1, RowOrNone DEF TypeOK, Row
<1>3. \A v \in hit : Suspend(review[v]) \in Row
  BY <1>2, SuspendRow
<1> HIDE DEF hit
<1> QED
  BY <1>1, <1>2, <1>3 DEF TypeOK, BidStatus

LEMMA RestoreEffect ==
    ASSUME TypeOK, NEW s \in Suppliers, Restore(s)
    PROVE  /\ bid' = bid /\ before' = before
           /\ review' \in [Reviews -> Row \cup {NoRow}]
           /\ \A v \in Reviews :
                \/ review'[v] = review[v]
                   /\ (review[v].status = "SUSPENDED" /\ BidSupplier[review[v].bid] = s
                          => review[v].prev = "NULL")
                \/ /\ review[v] \in Row /\ review[v].status = "SUSPENDED"
                   /\ review[v].prev \in LiveStatus
                   /\ BidSupplier[review[v].bid] = s
                   /\ review'[v] = Release(review[v])
<1> DEFINE hit == {v \in ReviewsOf(s) : review[v].status = "SUSPENDED" /\ review[v].prev # "NULL"}
<1>1. /\ review' = [v \in Reviews |-> IF v \in hit THEN Release(review[v]) ELSE review[v]]
      /\ bid' = bid /\ before' = before
  BY DEF Restore
<1>2. ASSUME NEW v \in hit
      PROVE  /\ v \in Reviews /\ review[v] \in Row /\ review[v].status = "SUSPENDED"
             /\ review[v].prev \in LiveStatus /\ BidSupplier[review[v].bid] = s
  <2>1. /\ v \in Reviews /\ review[v] # NoRow /\ review[v].status = "SUSPENDED"
        /\ review[v].prev # "NULL" /\ BidSupplier[review[v].bid] = s
    BY DEF ReviewsOf, Exists
  <2>2. review[v] \in Row
    BY <2>1, RowOrNone DEF TypeOK
  <2> QED
    BY <2>1, <2>2 DEF Row
<1>3. \A v \in hit : Release(review[v]) \in Row
  BY <1>2, ReleaseRow
<1>4. ASSUME NEW v \in Reviews, review[v].status = "SUSPENDED", BidSupplier[review[v].bid] = s,
             review[v].prev # "NULL"
      PROVE  v \in hit
  BY <1>4 DEF ReviewsOf, Exists, NoRow
<1> HIDE DEF hit
<1> QED
  BY <1>1, <1>2, <1>3, <1>4 DEF TypeOK

LEMMA TypeInit == Init => TypeInv
<1> SUFFICES ASSUME Init PROVE TypeInv
  OBVIOUS
<1>1. TypeOK
  <2>1. review \in [Reviews -> Row \cup {NoRow}] /\ req \in [Requests -> RequestType]
    BY IdleTyped DEF Init
  <2>2. /\ lot \in [Lots -> LotStatus] /\ bid \in [Bids -> BidStatus]
        /\ blacklisted \in [Suppliers -> BOOLEAN] /\ before \in [Reviews -> LiveStatus]
    BY DEF Init, LotStatus, BidStatus, LiveStatus
  <2>3. jobs \in [queued: Nat, merging: Nat] /\ runs \in 0..MaxRuns /\ total \in [Experts -> Nat]
    BY DEF Init
  <2> QED
    BY <2>1, <2>2, <2>3 DEF Init, TypeOK
<1>2. SuspendedRemembers
  BY DEF Init, SuspendedRemembers, NoRow
<1>3. HeldRowsExist
  BY DEF Init, HeldRowsExist, Idle
<1> QED
  BY <1>1, <1>2, <1>3 DEF TypeInv

(* Rows that exist stay, and no request takes hold of another. *)
LEMMA HeldStay ==
    ASSUME TypeInv,
           \A o \in Requests : req'[o] = req[o] \/ req'[o].op = "idle",
           \A v \in Reviews : Exists(v) => Exists(v)'
    PROVE  HeldRowsExist'
<1> SUFFICES ASSUME NEW o \in Requests, req'[o].op \in {"save", "submit"}
             PROVE  review'[req'[o].review] # NoRow
  BY DEF HeldRowsExist, Exists
<1>1. req'[o] = req[o]
  OBVIOUS
<1>2. req[o].review \in Reviews /\ Exists(req[o].review)
  BY <1>1, RequestFields DEF TypeInv, TypeOK, HeldRowsExist
<1> QED
  BY <1>1, <1>2 DEF Exists

(* A step that leaves the reviews alone only has to type the request it    *)
(* makes; if that is a save or a submission, its row must exist.           *)
LEMMA QuietTyped ==
    ASSUME TypeInv, NEW r \in Requests, NEW q \in RequestType, Ask(r, q) \/ Becomes(r, q),
           review' = review, before' = before,
           q.op \in {"save", "submit"} => Exists(q.review)
    PROVE  /\ req' \in [Requests -> RequestType]
           /\ SuspendedRemembers' /\ HeldRowsExist'
<1>1. /\ req' \in [Requests -> RequestType]
      /\ req'[r] = q /\ \A o \in Requests : o # r => req'[o] = req[o]
  BY AskEffect DEF TypeInv
<1> QED
  BY <1>1 DEF TypeInv, SuspendedRemembers, HeldRowsExist, Exists

(* A write of one row that keeps its type and, if it is suspended, its     *)
(* snapshot.                                                               *)
LEMMA RowTyped ==
    ASSUME TypeInv, NEW r \in Requests, Becomes(r, Idle), NEW v \in Reviews, NEW row \in Row,
           review' = [review EXCEPT ![v] = row], before' = before,
           row.status = "SUSPENDED" => row.prev = before[v]
    PROVE  /\ req' \in [Requests -> RequestType] /\ review' \in [Reviews -> Row \cup {NoRow}]
           /\ SuspendedRemembers' /\ HeldRowsExist'
<1>1. /\ req' \in [Requests -> RequestType]
      /\ req'[r].op = "idle" /\ \A o \in Requests : o # r => req'[o] = req[o]
  BY AnswerEffect DEF TypeInv
<1>2. review' \in [Reviews -> Row \cup {NoRow}]
  BY DEF TypeInv, TypeOK
<1>3. SuspendedRemembers'
  BY DEF TypeInv, TypeOK, SuspendedRemembers
<1>4. \A w \in Reviews : Exists(w) => Exists(w)'
  BY RowOrNone DEF TypeInv, TypeOK, Exists
<1>5. HeldRowsExist'
  BY <1>1, <1>4, HeldStay
<1> QED
  BY <1>1, <1>2, <1>3, <1>5

LEMMA StatusTyped ==
    ASSUME TypeInv, NEW r \in Requests, UpdateStatusCommit(r)
    PROVE  TypeInv'
<1> DEFINE q == req[r]
<1>1. q \in RequestType /\ q.op = "status" /\ q.supplier \in Suppliers /\ q.want \in BOOLEAN
  BY RequestFields DEF TypeInv, TypeOK, UpdateStatusCommit
<1>2. /\ req' \in [Requests -> RequestType]
      /\ req'[r].op = "idle" /\ \A o \in Requests : o # r => req'[o] = req[o]
  BY AnswerEffect DEF TypeInv, UpdateStatusCommit
<1>3. blacklisted' \in [Suppliers -> BOOLEAN]
  BY <1>1 DEF TypeInv, TypeOK, UpdateStatusCommit, Flushed
<1>4. /\ bid' \in [Bids -> BidStatus] /\ before' \in [Reviews -> LiveStatus]
      /\ review' \in [Reviews -> Row \cup {NoRow}]
      /\ \A v \in Reviews : Exists(v) => Exists(v)'
      /\ SuspendedRemembers'
  <2>1. CASE Cascade(q.supplier)
    <3>1. ASSUME NEW v \in Reviews
          PROVE  /\ Exists(v) => Exists(v)'
                 /\ review'[v].status = "SUSPENDED" => review'[v].prev = before'[v]
      <4>1. CASE review'[v] = review[v] /\ before'[v] = before[v]
        BY <4>1 DEF TypeInv, SuspendedRemembers, Exists
      <4>2. CASE /\ review[v] \in Row /\ review[v].status \in LiveStatus
                 /\ review'[v] = Suspend(review[v]) /\ before'[v] = review[v].status
        BY <4>2, SuspendRow, RowOrNone DEF Exists
      <4> QED
        BY <1>1, <2>1, <4>1, <4>2, CascadeEffect DEF TypeInv
    <3> QED
      BY <1>1, <2>1, <3>1, CascadeEffect DEF TypeInv, SuspendedRemembers
  <2>2. CASE Restore(q.supplier)
    <3>1. ASSUME NEW v \in Reviews
          PROVE  /\ Exists(v) => Exists(v)'
                 /\ review'[v].status = "SUSPENDED" => review'[v].prev = before'[v]
      <4>0. before' = before
        BY <1>1, <2>2, RestoreEffect DEF TypeInv
      <4>1. CASE review'[v] = review[v]
        BY <4>0, <4>1 DEF TypeInv, SuspendedRemembers, Exists
      <4>2. CASE /\ review[v] \in Row /\ review[v].prev \in LiveStatus
                 /\ review'[v] = Release(review[v])
        <5>1. review'[v] \in Row /\ review'[v].status \in LiveStatus
          BY <4>2, ReleaseRow
        <5> QED
          BY <5>1, RowOrNone DEF Exists, LiveStatus, LockedStatus
      <4> QED
        BY <1>1, <2>2, <4>1, <4>2, RestoreEffect DEF TypeInv
    <3> QED
      BY <1>1, <2>2, <3>1, RestoreEffect DEF TypeInv, TypeOK, SuspendedRemembers
  <2>3. CASE UNCHANGED <<bid, review, before>>
    BY <2>3 DEF TypeInv, TypeOK, SuspendedRemembers, Exists
  <2> QED
    BY <2>1, <2>2, <2>3 DEF UpdateStatusCommit
<1>5. HeldRowsExist'
  BY <1>2, <1>4, HeldStay
<1> QED
  BY <1>2, <1>3, <1>4, <1>5 DEF TypeInv, TypeOK, UpdateStatusCommit

LEMMA TypeStep == TypeInv /\ [Next]_vars => TypeInv'
<1> SUFFICES ASSUME TypeInv, [Next]_vars PROVE TypeInv'
  OBVIOUS
<1> DEFINE ReqOK == req' \in [Requests -> RequestType] /\ SuspendedRemembers' /\ HeldRowsExist'
           RowOK == review' \in [Reviews -> Row \cup {NoRow}] /\ ReqOK
<1>0. TypeOK /\ \A r \in Requests : req[r] \in RequestType
  BY DEF TypeInv, TypeOK
<1>1. ASSUME NEW r \in Requests, NEW e \in Experts, NEW b \in Bids, CreateBegin(r, e, b)
      PROVE  TypeInv'
  <2>1. [op |-> "create", expert |-> e, bid |-> b] \in RequestType
    BY DEF RequestType
  <2>2. ReqOK
    BY <1>1, <2>1, QuietTyped DEF CreateBegin
  <2> QED
    BY <1>0, <1>1, <2>2 DEF CreateBegin, TypeInv, TypeOK
<1>2. ASSUME NEW r \in Requests, NEW v \in Reviews, CreateCommit(r, v) PROVE TypeInv'
  <2> DEFINE row == [status |-> "DRAFT", prev |-> "NULL", expert |-> req[r].expert,
                     bid |-> req[r].bid, score |-> NoScore, ai |-> NoScore]
  <2>1. row \in Row /\ row.status = "DRAFT"
    BY <1>0, <1>2, RequestFields DEF CreateCommit, Row, LiveStatus, Score, Suggestion
  <2>2. RowOK
    BY <1>2, <2>1, RowTyped DEF CreateCommit
  <2>3. late' \subseteq Reviews
    BY <1>0, <1>2 DEF CreateCommit, TypeOK
  <2> QED
    BY <1>0, <1>2, <2>2, <2>3 DEF CreateCommit, TypeInv, TypeOK
<1>3. ASSUME NEW r \in Requests, NEW v \in Reviews, NEW score \in Scores, NEW ai \in Suggestion,
             SaveBegin(r, v, score, ai)
      PROVE  TypeInv'
  <2>1. review[v] \in Row /\ Exists(v)
    BY <1>0, <1>3, RowOrNone DEF SaveBegin, MayWrite, Exists, TypeOK
  <2>2. Read(review[v]) \in View
    BY <2>1, ReadTyped
  <2>3. [op |-> "save", review |-> v, seen |-> Read(review[v]), score |-> score, ai |-> ai]
            \in RequestType
    BY <2>2 DEF RequestType
  <2>4. ReqOK
    BY <1>3, <2>1, <2>3, QuietTyped DEF SaveBegin
  <2> QED
    BY <1>0, <1>3, <2>4 DEF SaveBegin, TypeInv, TypeOK
<1>4. ASSUME NEW r \in Requests, NEW v \in Reviews, SubmitBegin(r, v) PROVE TypeInv'
  <2>1. review[v] \in Row /\ Exists(v)
    BY <1>0, <1>4, RowOrNone DEF SubmitBegin, MayWrite, Exists, TypeOK
  <2>2. Read(review[v]) \in View
    BY <2>1, ReadTyped
  <2>3. [op |-> "submit", review |-> v, seen |-> Read(review[v])] \in RequestType
    BY <2>2 DEF RequestType
  <2>4. ReqOK
    BY <1>4, <2>1, <2>3, QuietTyped DEF SubmitBegin
  <2> QED
    BY <1>0, <1>4, <2>4 DEF SubmitBegin, TypeInv, TypeOK
<1>5. ASSUME NEW r \in Requests, SaveCommit(r) PROVE TypeInv'
  <2> DEFINE v == req[r].review
             row == Saved(review[v], req[r])
  <2>1. /\ v \in Reviews /\ review[v] \in Row
        /\ req[r].score \in Score /\ req[r].ai \in Suggestion
    BY <1>0, <1>5, RequestFields, RowOrNone
    DEF SaveCommit, TypeInv, TypeOK, HeldRowsExist, Exists
  <2>2. /\ row \in Row /\ row.prev = review[v].prev
        /\ row.status = Flushed(req[r].seen.status, "DRAFT", review[v].status)
    BY <2>1, SavedRow
  <2>3. row.status = "SUSPENDED" => row.prev = before[v]
    BY <2>1, <2>2 DEF Flushed, TypeInv, SuspendedRemembers
  <2>4. review' = [review EXCEPT ![v] = row]
    BY <1>0, <1>5, <2>1 DEF SaveCommit, TypeOK
  <2> HIDE DEF row
  <2>5. RowOK
    BY <1>5, <2>1, <2>2, <2>3, <2>4, RowTyped DEF SaveCommit
  <2> QED
    BY <1>0, <1>5, <2>5 DEF SaveCommit, TypeInv, TypeOK
<1>6. ASSUME NEW r \in Requests, SubmitCommit(r) PROVE TypeInv'
  <2> DEFINE v == req[r].review
             row == Submitted(review[v], req[r].seen)
  <2>1. v \in Reviews /\ review[v] \in Row
    BY <1>0, <1>6, RequestFields, RowOrNone
    DEF SubmitCommit, TypeInv, TypeOK, HeldRowsExist, Exists
  <2>2. row \in Row /\ row.status # "SUSPENDED"
    BY <2>1, SubmittedRow DEF LockedStatus
  <2>3. review' = [review EXCEPT ![v] = row]
    BY <1>0, <1>6, <2>1 DEF SubmitCommit, TypeOK
  <2> HIDE DEF row
  <2>4. RowOK
    BY <1>6, <2>1, <2>2, <2>3, RowTyped DEF SubmitCommit
  <2> QED
    BY <1>0, <1>6, <2>4 DEF SubmitCommit, TypeInv, TypeOK
<1>7. ASSUME NEW r \in Requests, NEW s \in Suppliers, NEW want \in BOOLEAN,
             UpdateStatusBegin(r, s, want)
      PROVE  TypeInv'
  <2>1. [op |-> "status", supplier |-> s, seen |-> blacklisted[s], want |-> want] \in RequestType
    BY <1>0 DEF RequestType, TypeOK
  <2>2. ReqOK
    BY <1>7, <2>1, QuietTyped DEF UpdateStatusBegin
  <2> QED
    BY <1>0, <1>7, <2>2 DEF UpdateStatusBegin, TypeInv, TypeOK
<1>8. ASSUME NEW r \in Requests, UpdateStatusCommit(r) PROVE TypeInv'
  BY <1>8, StatusTyped
<1>9. ASSUME NEW r \in Requests, NEW b \in Bids, DisqualifyBegin(r, b) PROVE TypeInv'
  <2>1. [op |-> "disqualify", bid |-> b] \in RequestType
    BY DEF RequestType
  <2>2. ReqOK
    BY <1>9, <2>1, QuietTyped DEF DisqualifyBegin
  <2> QED
    BY <1>0, <1>9, <2>2 DEF DisqualifyBegin, TypeInv, TypeOK
<1>10. ASSUME NEW r \in Requests, NEW l \in Lots, CompleteBegin(r, l) PROVE TypeInv'
  <2>1. [op |-> "complete", lot |-> l] \in RequestType
    BY DEF RequestType
  <2>2. ReqOK
    BY <1>10, <2>1, QuietTyped DEF CompleteBegin
  <2> QED
    BY <1>0, <1>10, <2>2 DEF CompleteBegin, TypeInv, TypeOK
<1>11. ASSUME NEW r \in Requests, AwardBegin(r) \/ AwardCommit(r) PROVE TypeInv'
  <2>1. [op |-> "award"] \in RequestType /\ [op |-> "enqueue"] \in RequestType
    BY DEF RequestType
  <2>2. ReqOK
    BY <1>11, <2>1, QuietTyped DEF AwardBegin, AwardCommit
  <2> QED
    BY <1>0, <1>11, <2>2 DEF AwardBegin, AwardCommit, TypeInv, TypeOK
<1>12. ASSUME NEW r \in Requests,
              RequestFails(r) \/ DisqualifyCommit(r) \/ CompleteCommit(r) \/ EnqueueArchive(r)
       PROVE  TypeInv'
  <2>1. ReqOK
    BY <1>12, IdleTyped, QuietTyped
    DEF RequestFails, DisqualifyCommit, CompleteCommit, EnqueueArchive
  <2> QED
    BY <1>0, <1>12, <2>1
    DEF RequestFails, DisqualifyCommit, CompleteCommit, EnqueueArchive, TypeInv, TypeOK, BidStatus,
        LotStatus
<1>13. ASSUME RecalcProfiles \/ MergeBidTogether \/ ArchiveCrash PROVE TypeInv'
  <2>1. SuspendedRemembers' /\ HeldRowsExist'
    BY <1>13 DEF RecalcProfiles, MergeBidTogether, ArchiveCrash, TypeInv, SuspendedRemembers,
                 HeldRowsExist, Exists
  <2>2. jobs' \in [queued: Nat, merging: Nat] /\ runs' \in 0..MaxRuns /\ total' \in [Experts -> Nat]
    BY <1>0, <1>13 DEF RecalcProfiles, MergeBidTogether, ArchiveCrash, TypeOK
  <2> QED
    BY <1>0, <1>13, <2>1, <2>2 DEF RecalcProfiles, MergeBidTogether, ArchiveCrash, TypeInv, TypeOK
<1>14. CASE UNCHANGED vars
  BY <1>14 DEF vars, TypeInv, TypeOK, SuspendedRemembers, HeldRowsExist, Exists
<1> QED
  BY <1>1, <1>2, <1>3, <1>4, <1>5, <1>6, <1>7, <1>8, <1>9, <1>10, <1>11, <1>12, <1>13, <1>14
  DEF Next, Expert, Manager

(* Every row, request and job always holds a value of its type. *)
THEOREM TypeCorrect == Spec => []TypeOK
<1>1. TypeInv => TypeOK
  BY DEF TypeInv
<1> QED
  BY <1>1, TypeInit, TypeStep, PTL DEF Spec

(* However often a supplier is blacklisted and cleared, and whatever is    *)
(* saved or submitted meanwhile, a suspended review knows what it was.     *)
THEOREM SuspendedRemembersHolds == Spec => []SuspendedRemembers
<1>1. TypeInv => SuspendedRemembers
  BY DEF TypeInv
<1> QED
  BY <1>1, TypeInit, TypeStep, PTL DEF Spec

-----------------------------------------------------------------------------
(* Suspension and completion.  Neither invariant is inductive.  A save that *)
(* read a suspended review makes it a draft again, and so may the restore: *)
(* what keeps such a draft out of an evaluated lot is that its bid was     *)
(* disqualified by the same cascade, and stays so.  And a complete_review  *)
(* in flight evaluates the lot without looking at the reviews again.       *)
SuspendedIsDisqualified ==
    \A v \in Reviews : review[v].status = "SUSPENDED" => bid[review[v].bid] = "DISQUALIFIED"

HeldWasOpen ==
    \A r \in Requests :
        req[r].op \in {"save", "submit"} =>
            /\ req[r].seen.status \in {"DRAFT", "SUSPENDED"}
            /\ req[r].seen.status = "SUSPENDED" =>
                  bid[review[req[r].review].bid] = "DISQUALIFIED"

CompletingIsComplete ==
    \A r \in Requests : req[r].op = "complete" => Unfinished(req[r].lot) \subseteq late

FlowInv ==
    /\ TypeInv
    /\ SuspendedOnlyWhileBlacklisted /\ SuspendedIsDisqualified
    /\ HeldWasOpen
    /\ EvaluatedIsComplete /\ CompletingIsComplete

LEMMA FlowInit == Init => FlowInv
<1> SUFFICES ASSUME Init PROVE FlowInv
  OBVIOUS
<1>1. \A v \in Reviews : review[v] = NoRow /\ review[v].status = "NONE"
  BY DEF Init, NoRow
<1>2. SuspendedOnlyWhileBlacklisted /\ SuspendedIsDisqualified
  BY <1>1 DEF SuspendedOnlyWhileBlacklisted, SuspendedIsDisqualified
<1>3. HeldWasOpen /\ CompletingIsComplete
  BY DEF Init, Idle, HeldWasOpen, CompletingIsComplete
<1>4. EvaluatedIsComplete
  BY DEF Init, EvaluatedIsComplete
<1> QED
  BY <1>2, <1>3, <1>4, TypeInit DEF FlowInv

(* What one step may do to a review ... *)
KeptByStep(v) ==
    /\ review'[v].status \in {review[v].status, "SUSPENDED"}
    /\ review'[v].score = review[v].score
    /\ review'[v].ai = review[v].ai

RowStep(v) ==
    /\ Exists(v) => /\ review'[v] # NoRow /\ review'[v].bid = review[v].bid
                    /\ review'[v].expert = review[v].expert
    /\ Exists(v) \/ review'[v] = review[v] \/ review'[v].status = "DRAFT"
    /\ Exists(v) /\ review'[v].status = "DRAFT" =>
          review[v].status = "DRAFT" \/ bid[review[v].bid] = "DISQUALIFIED"
    /\ review'[v].status = "SUSPENDED" =>
          /\ Exists(v)
          /\ blacklisted'[BidSupplier[review[v].bid]]
          /\ bid'[review[v].bid] = "DISQUALIFIED"
    /\ Locked(v) /\ ~ReadOpen(v) => KeptByStep(v)

(* ... and to the bids. *)
BidsStep == \A b \in Bids : bid[b] = "DISQUALIFIED" => bid'[b] = "DISQUALIFIED"

LEMMA BidOfRow == TypeOK => \A v \in Reviews : Exists(v) => review[v] \in Row /\ review[v].bid \in Bids
BY RowOrNone DEF TypeOK, Exists, Row

(* The review is not touched. *)
LEMMA RowUntouched ==
    ASSUME FlowInv, NEW v \in Reviews, review'[v] = review[v], BidsStep,
           review[v].status = "SUSPENDED" => blacklisted'[BidSupplier[review[v].bid]]
    PROVE  RowStep(v)
<1>1. CASE Exists(v)
  <2>1. review[v].bid \in Bids /\ BidSupplier[review[v].bid] \in Suppliers
    BY <1>1, BidOfRow DEF FlowInv, TypeInv
  <2> QED
    BY <1>1, <2>1 DEF RowStep, KeptByStep, BidsStep, FlowInv, SuspendedIsDisqualified, Exists
<1>2. CASE ~Exists(v)
  BY <1>2 DEF RowStep, Exists, NoRow, Locked, LockedStatus
<1> QED
  BY <1>1, <1>2

LEMMA SaveRowStep ==
    ASSUME FlowInv, NEW r \in Requests, SaveCommit(r), NEW v \in Reviews
    PROVE  RowStep(v)
<1>0. TypeOK /\ bid' = bid /\ blacklisted' = blacklisted
  BY DEF FlowInv, TypeInv, SaveCommit
<1>1. CASE v # req[r].review
  <2>1. review'[v] = review[v]
    BY <1>0, <1>1 DEF SaveCommit, TypeOK
  <2> QED
    BY <1>0, <2>1, RowUntouched DEF BidsStep, FlowInv, SuspendedOnlyWhileBlacklisted
<1>2. CASE v = req[r].review
  <2>1. /\ Exists(v) /\ review[v] \in Row
        /\ req[r].score \in Score /\ req[r].ai \in Suggestion
    BY <1>0, <1>2, RequestFields, RowOrNone
    DEF SaveCommit, FlowInv, TypeInv, TypeOK, HeldRowsExist, Exists
  <2>2. review'[v] = Saved(review[v], req[r])
    BY <1>0, <1>2 DEF SaveCommit, TypeOK
  <2>3. /\ review'[v] \in Row /\ review'[v].bid = review[v].bid
        /\ review'[v].expert = review[v].expert
        /\ review'[v].status = Flushed(req[r].seen.status, "DRAFT", review[v].status)
    BY <2>1, <2>2, SavedRow
  <2>4. /\ req[r].seen.status \in {"DRAFT", "SUSPENDED"}
        /\ req[r].seen.status = "SUSPENDED" => bid[review[v].bid] = "DISQUALIFIED"
    BY <1>2 DEF FlowInv, HeldWasOpen, SaveCommit
  <2>5. ReadOpen(v)
    BY <1>2, <2>4 DEF ReadOpen, SaveCommit, LockedStatus
  <2>6. review'[v] # NoRow
    BY <2>3, RowOrNone
  <2>7. review'[v].status = "DRAFT" => review[v].status = "DRAFT" \/ bid[review[v].bid] = "DISQUALIFIED"
    BY <2>3, <2>4 DEF Flushed
  <2>8. review'[v].status = "SUSPENDED" =>
          /\ blacklisted'[BidSupplier[review[v].bid]]
          /\ bid'[review[v].bid] = "DISQUALIFIED"
    <3>1. review'[v].status = "SUSPENDED" => review[v].status = "SUSPENDED"
      BY <2>3 DEF Flushed
    <3> QED
      BY <1>0, <3>1 DEF FlowInv, SuspendedOnlyWhileBlacklisted, SuspendedIsDisqualified
  <2> QED
    BY <2>1, <2>3, <2>5, <2>6, <2>7, <2>8 DEF RowStep
<1> QED
  BY <1>1, <1>2

LEMMA SubmitRowStep ==
    ASSUME FlowInv, NEW r \in Requests, SubmitCommit(r), NEW v \in Reviews
    PROVE  RowStep(v)
<1>0. TypeOK /\ bid' = bid /\ blacklisted' = blacklisted
  BY DEF FlowInv, TypeInv, SubmitCommit
<1>1. CASE v # req[r].review
  <2>1. review'[v] = review[v]
    BY <1>0, <1>1 DEF SubmitCommit, TypeOK
  <2> QED
    BY <1>0, <2>1, RowUntouched DEF BidsStep, FlowInv, SuspendedOnlyWhileBlacklisted
<1>2. CASE v = req[r].review
  <2>1. Exists(v) /\ review[v] \in Row
    BY <1>0, <1>2, RowOrNone DEF SubmitCommit, FlowInv, TypeInv, TypeOK, HeldRowsExist, Exists
  <2>2. review'[v] = Submitted(review[v], req[r].seen)
    BY <1>0, <1>2 DEF SubmitCommit, TypeOK
  <2>3. /\ review'[v] \in Row /\ review'[v].bid = review[v].bid
        /\ review'[v].expert = review[v].expert
        /\ review'[v].status \in LockedStatus
    BY <2>1, <2>2, SubmittedRow
  <2>4. req[r].seen.status \in {"DRAFT", "SUSPENDED"}
    BY DEF FlowInv, HeldWasOpen, SubmitCommit
  <2>5. ReadOpen(v)
    BY <1>2, <2>4 DEF ReadOpen, SubmitCommit, LockedStatus
  <2>6. review'[v] # NoRow
    BY <2>3, RowOrNone
  <2> QED
    BY <2>1, <2>3, <2>5, <2>6 DEF RowStep, LockedStatus
<1> QED
  BY <1>1, <1>2

LEMMA CreateRowStep ==
    ASSUME FlowInv, NEW r \in Requests, NEW n \in Reviews, CreateCommit(r, n), NEW v \in Reviews
    PROVE  RowStep(v)
<1>0. TypeOK /\ bid' = bid /\ blacklisted' = blacklisted
  BY DEF FlowInv, TypeInv, CreateCommit
<1>1. CASE v # n
  <2>1. review'[v] = review[v]
    BY <1>0, <1>1 DEF CreateCommit, TypeOK
  <2> QED
    BY <1>0, <2>1, RowUntouched DEF BidsStep, FlowInv, SuspendedOnlyWhileBlacklisted
<1>2. CASE v = n
  <2>1. ~Exists(v) /\ review'[v].status = "DRAFT"
    BY <1>0, <1>2 DEF CreateCommit, TypeOK
  <2> QED
    BY <2>1 DEF RowStep, Exists, NoRow, Locked, LockedStatus
<1> QED
  BY <1>1, <1>2

LEMMA StatusBidsStep ==
    ASSUME FlowInv, NEW r \in Requests, UpdateStatusCommit(r)
    PROVE  BidsStep
<1>1. TypeOK /\ req[r].supplier \in Suppliers
  BY RequestFields DEF FlowInv, TypeInv, TypeOK, UpdateStatusCommit
<1> QED
  BY <1>1, CascadeEffect, RestoreEffect DEF UpdateStatusCommit, BidsStep

LEMMA StatusRowStep ==
    ASSUME FlowInv, NEW r \in Requests, UpdateStatusCommit(r), NEW v \in Reviews
    PROVE  RowStep(v)
<1> DEFINE q == req[r]
<1>0. TypeOK
  BY DEF FlowInv, TypeInv
<1>1. q \in RequestType /\ q.supplier \in Suppliers /\ q.want \in BOOLEAN /\ q.seen \in BOOLEAN
  BY <1>0, RequestFields DEF TypeOK, UpdateStatusCommit
<1>2. /\ blacklisted'[q.supplier] = Flushed(q.seen, q.want, blacklisted[q.supplier])
      /\ \A s \in Suppliers : s # q.supplier => blacklisted'[s] = blacklisted[s]
  BY <1>0, <1>1 DEF TypeOK, UpdateStatusCommit
<1>3. review[v].status = "SUSPENDED" =>
          /\ Exists(v) /\ review[v] \in Row /\ BidSupplier[review[v].bid] \in Suppliers
          /\ blacklisted[BidSupplier[review[v].bid]]
          /\ review[v].prev \in LiveStatus
  <2>1. review[v].status = "SUSPENDED" => Exists(v)
    BY DEF Exists, NoRow
  <2> QED
    BY <1>0, <2>1, BidOfRow DEF FlowInv, TypeInv, TypeOK, SuspendedOnlyWhileBlacklisted,
                                SuspendedRemembers
<1>4. CASE q.want /\ ~q.seen /\ Cascade(q.supplier)
  <2>1. blacklisted'[q.supplier]
    BY <1>2, <1>4 DEF Flushed
  <2>2. BidsStep /\ \A b \in Bids : BidSupplier[b] = q.supplier => bid'[b] = "DISQUALIFIED"
    BY <1>0, <1>1, <1>4, CascadeEffect DEF BidsStep
  <2>3. CASE review'[v] = review[v]
    BY <1>2, <1>3, <2>1, <2>2, <2>3, RowUntouched
  <2>4. CASE /\ review[v] \in Row /\ review[v].status \in LiveStatus
             /\ BidSupplier[review[v].bid] = q.supplier
             /\ review'[v] = Suspend(review[v])
    <3>1. /\ review'[v] \in Row /\ review'[v].status = "SUSPENDED"
          /\ review'[v].bid = review[v].bid /\ review[v].bid \in Bids
          /\ review'[v].expert = review[v].expert
          /\ review'[v].score = review[v].score /\ review'[v].ai = review[v].ai
      BY <2>4, SuspendRow DEF Row
    <3>2. Exists(v) /\ review'[v] # NoRow
      BY <2>4, <3>1, RowOrNone DEF Exists
    <3> QED
      BY <2>1, <2>2, <2>4, <3>1, <3>2 DEF RowStep, KeptByStep
  <2> QED
    BY <1>0, <1>1, <1>4, <2>2, <2>3, <2>4, CascadeEffect
<1>5. CASE ~q.want /\ q.seen /\ Restore(q.supplier)
  <2>1. BidsStep
    BY <1>0, <1>1, <1>5, RestoreEffect DEF BidsStep
  <2>2. CASE /\ review'[v] = review[v]
             /\ review[v].status = "SUSPENDED" /\ BidSupplier[review[v].bid] = q.supplier
                    => review[v].prev = "NULL"
    <3>1. review[v].status = "SUSPENDED" => BidSupplier[review[v].bid] # q.supplier
      BY <1>3, <2>2 DEF LiveStatus, LockedStatus
    <3> QED
      BY <1>2, <1>3, <2>1, <2>2, <3>1, RowUntouched
  <2>3. CASE /\ review[v] \in Row /\ review[v].status = "SUSPENDED"
             /\ review[v].prev \in LiveStatus
             /\ review'[v] = Release(review[v])
    <3>1. /\ review'[v] \in Row /\ review'[v].status \in LiveStatus
          /\ review'[v].bid = review[v].bid /\ review'[v].expert = review[v].expert
      BY <2>3, ReleaseRow
    <3>2. Exists(v) /\ review'[v] # NoRow /\ ~Locked(v) /\ review'[v].status # "SUSPENDED"
      BY <2>3, <3>1, RowOrNone DEF Exists, Locked, LockedStatus, LiveStatus
    <3>3. bid[review[v].bid] = "DISQUALIFIED"
      BY <2>3 DEF FlowInv, SuspendedIsDisqualified
    <3> QED
      BY <2>1, <3>1, <3>2, <3>3 DEF RowStep
  <2> QED
    BY <1>0, <1>1, <1>5, <2>1, <2>2, <2>3, RestoreEffect
<1>6. CASE q.want = q.seen /\ UNCHANGED <<bid, review, before>>
  <2>1. blacklisted'[q.supplier] = blacklisted[q.supplier]
    BY <1>2, <1>6 DEF Flushed
  <2>2. BidsStep
    BY <1>6 DEF BidsStep
  <2> QED
    BY <1>2, <1>3, <1>6, <2>1, <2>2, RowUntouched
<1> QED
  BY <1>4, <1>5, <1>6 DEF UpdateStatusCommit

(* Every step does to reviews and bids only that. *)
LEMMA EveryRowStep == FlowInv /\ [Next]_vars => BidsStep /\ \A v \in Reviews : RowStep(v)
<1> SUFFICES ASSUME FlowInv, [Next]_vars PROVE BidsStep /\ \A v \in Reviews : RowStep(v)
  OBVIOUS
<1> DEFINE Goal == BidsStep /\ \A v \in Reviews : RowStep(v)
<1>0. TypeOK
  BY DEF FlowInv, TypeInv
<1>1. ASSUME NEW r \in Requests, NEW n \in Reviews, CreateCommit(r, n) PROVE Goal
  BY <1>1, CreateRowStep DEF CreateCommit, BidsStep
<1>2. ASSUME NEW r \in Requests, SaveCommit(r) PROVE Goal
  BY <1>2, SaveRowStep DEF SaveCommit, BidsStep
<1>3. ASSUME NEW r \in Requests, SubmitCommit(r) PROVE Goal
  BY <1>3, SubmitRowStep DEF SubmitCommit, BidsStep
<1>4. ASSUME NEW r \in Requests, UpdateStatusCommit(r) PROVE Goal
  BY <1>4, StatusBidsStep, StatusRowStep
<1>5. ASSUME NEW r \in Requests, DisqualifyCommit(r) PROVE Goal
  <2>1. BidsStep /\ review' = review /\ blacklisted' = blacklisted
    BY <1>0, <1>5 DEF DisqualifyCommit, BidsStep, TypeOK
  <2> QED
    BY <2>1, RowUntouched DEF FlowInv, SuspendedOnlyWhileBlacklisted
<1>6. ASSUME bid' = bid, review' = review, blacklisted' = blacklisted PROVE Goal
  BY <1>6, RowUntouched DEF BidsStep, FlowInv, SuspendedOnlyWhileBlacklisted
<1>7. ASSUME NEW r \in Requests,
             \/ \E e \in Experts, b \in Bids : CreateBegin(r, e, b)
             \/ \E w \in Reviews, score \in Scores, ai \in Suggestion : SaveBegin(r, w, score, ai)
             \/ \E w \in Reviews : SubmitBegin(r, w)
             \/ \E s \in Suppliers, want \in BOOLEAN : UpdateStatusBegin(r, s, want)
             \/ \E b \in Bids : DisqualifyBegin(r, b)
             \/ \E l \in Lots : CompleteBegin(r, l)
             \/ CompleteCommit(r) \/ AwardBegin(r) \/ AwardCommit(r) \/ EnqueueArchive(r)
             \/ RequestFails(r)
      PROVE  bid' = bid /\ review' = review /\ blacklisted' = blacklisted
  BY <1>7 DEF CreateBegin, SaveBegin, SubmitBegin, UpdateStatusBegin, DisqualifyBegin,
              CompleteBegin, CompleteCommit, AwardBegin, AwardCommit, EnqueueArchive, RequestFails
<1>8. RecalcProfiles \/ MergeBidTogether \/ ArchiveCrash \/ UNCHANGED vars
          => bid' = bid /\ review' = review /\ blacklisted' = blacklisted
  BY DEF RecalcProfiles, MergeBidTogether, ArchiveCrash, vars
<1> QED
  BY <1>1, <1>2, <1>3, <1>4, <1>5, <1>6, <1>7, <1>8 DEF Next, Expert, Manager

(* A review becomes unfinished, of a sealed bid, only by being created. *)
LEMMA NothingReopens ==
    ASSUME FlowInv, [Next]_vars, TypeOK', NEW l \in Lots, NEW v \in Unfinished(l)', Exists(v)
    PROVE  v \in Unfinished(l)
<1>1. /\ v \in Reviews /\ review'[v].status = "DRAFT"
      /\ BidLot[review'[v].bid] = l /\ bid'[review'[v].bid] = "FROZEN"
  BY DEF Unfinished
<1>2. RowStep(v) /\ BidsStep
  BY <1>1, EveryRowStep
<1>3. review[v].bid \in Bids /\ review'[v].bid = review[v].bid
  BY <1>1, <1>2, BidOfRow DEF FlowInv, TypeInv, RowStep
<1>4. bid[review[v].bid] = "FROZEN"
  BY <1>1, <1>2, <1>3 DEF BidsStep, FlowInv, TypeInv, TypeOK, BidStatus
<1> QED
  BY <1>1, <1>2, <1>3, <1>4 DEF RowStep, Unfinished

(* The part of the invariant that speaks of lots, for a step that creates  *)
(* no review.                                                              *)
LotsInv == EvaluatedIsComplete /\ CompletingIsComplete

LEMMA LotsQuiet ==
    ASSUME FlowInv, [Next]_vars, TypeOK', late' = late,
           \A v \in Reviews : ~Exists(v) => review'[v] = review[v],
           \A l \in Lots : lot'[l] = "EVALUATED" => Unfinished(l) \subseteq late,
           \A r \in Requests : req'[r].op = "complete" =>
                req'[r] = req[r] \/ Unfinished(req'[r].lot) = {}
    PROVE  LotsInv'
<1>1. \A l \in Lots : Unfinished(l)' \subseteq Unfinished(l)
  <2> SUFFICES ASSUME NEW l \in Lots, NEW v \in Unfinished(l)' PROVE v \in Unfinished(l)
    OBVIOUS
  <2>1. v \in Reviews /\ Exists(v)
    BY DEF Unfinished, Exists
  <2> QED
    BY <2>1, NothingReopens
<1>2. EvaluatedIsComplete'
  BY <1>1 DEF EvaluatedIsComplete
<1>3. CompletingIsComplete'
  <2>1. ASSUME NEW r \in Requests, req'[r].op = "complete"
        PROVE  req'[r].lot \in Lots /\ Unfinished(req'[r].lot) \subseteq late
    <3>1. req'[r].lot \in Lots
      BY <2>1, RequestFields DEF TypeOK
    <3>2. req'[r] = req[r] => Unfinished(req'[r].lot) \subseteq late
      BY <2>1 DEF FlowInv, CompletingIsComplete
    <3> QED
      BY <2>1, <3>1, <3>2
  <2>2. ASSUME NEW r \in Requests, NEW l \in Lots, req'[r].op = "complete", req'[r].lot = l
        PROVE  Unfinished(l)' \subseteq late'
    BY <1>1, <2>1, <2>2
  <2> QED
    BY <2>1, <2>2 DEF CompletingIsComplete, Unfinished
<1> QED
  BY <1>2, <1>3 DEF LotsInv

(* The part of the invariant that speaks of suspended rows follows from    *)
(* what steps do to rows; ...                                              *)
LEMMA SuspensionStep ==
    ASSUME FlowInv, [Next]_vars
    PROVE  SuspendedOnlyWhileBlacklisted' /\ SuspendedIsDisqualified'
<1>1. \A v \in Reviews : RowStep(v)
  BY EveryRowStep
<1> QED
  BY <1>1 DEF RowStep, SuspendedOnlyWhileBlacklisted, SuspendedIsDisqualified

(* ... and that of the requests holding one, unless the step takes hold.   *)
LEMMA HeldQuiet ==
    ASSUME FlowInv, [Next]_vars,
           \A r \in Requests : req'[r] = req[r] \/ req'[r].op \notin {"save", "submit"}
    PROVE  HeldWasOpen'
<1>1. BidsStep /\ \A v \in Reviews : RowStep(v)
  BY EveryRowStep
<1>2. ASSUME NEW r \in Requests, req[r].op \in {"save", "submit"}
      PROVE  LET v == req[r].review IN
             /\ review'[v].bid = review[v].bid
             /\ bid[review[v].bid] = "DISQUALIFIED" => bid'[review[v].bid] = "DISQUALIFIED"
  <2>1. req[r].review \in Reviews /\ Exists(req[r].review)
    BY <1>2, RequestFields DEF FlowInv, TypeInv, TypeOK, HeldRowsExist
  <2>2. review[req[r].review].bid \in Bids
    BY <2>1, BidOfRow DEF FlowInv, TypeInv
  <2> QED
    BY <1>1, <2>1, <2>2 DEF RowStep, BidsStep
<1> QED
  BY <1>2 DEF FlowInv, HeldWasOpen

LEMMA CreateLots ==
    ASSUME FlowInv, [Next]_vars, TypeOK', NEW r \in Requests, NEW n \in Reviews, CreateCommit(r, n)
    PROVE  LotsInv'
<1> DEFINE k == BidLot[req[r].bid]
<1>0. TypeOK /\ req[r].bid \in Bids /\ k \in Lots
  BY RequestFields DEF FlowInv, TypeInv, TypeOK, CreateCommit
<1>1. review'[n].bid = req[r].bid /\ \A v \in Reviews : v # n => review'[v] = review[v]
  BY <1>0 DEF TypeOK, CreateCommit
<1>2. late \subseteq late' /\ (lot[k] = "EVALUATED" \/ Completing(k) => n \in late')
  BY DEF CreateCommit
<1>3. \A l \in Lots : Unfinished(l)' \subseteq Unfinished(l) \cup (IF l = k THEN {n} ELSE {})
  <2> SUFFICES ASSUME NEW l \in Lots, NEW v \in Unfinished(l)', v # n \/ l # k
               PROVE  v \in Unfinished(l)
    OBVIOUS
  <2>1. v \in Reviews /\ BidLot[review'[v].bid] = l /\ Exists(v)'
    BY DEF Unfinished
  <2>2. v # n
    BY <1>1, <2>1
  <2> QED
    BY <1>1, <2>1, <2>2, NothingReopens DEF Exists
<1>4. \A o \in Requests : req'[o].op = "complete" => req'[o] = req[o] /\ req[o].lot \in Lots
  BY <1>0, AnswerEffect, RequestFields DEF CreateCommit, TypeOK
<1>5. EvaluatedIsComplete'
  BY <1>2, <1>3 DEF EvaluatedIsComplete, FlowInv, CreateCommit
<1>6. CompletingIsComplete'
  <2>1. ASSUME NEW o \in Requests, NEW l \in Lots, req'[o].op = "complete", req'[o].lot = l
        PROVE  Unfinished(l)' \subseteq late'
    <3>1. req[o].op = "complete" /\ req[o].lot = l
      BY <1>4, <2>1
    <3>2. Unfinished(l) \subseteq late
      BY <3>1 DEF FlowInv, CompletingIsComplete
    <3>3. l = k => n \in late'
      BY <1>2, <3>1 DEF Completing
    <3> QED
      BY <1>2, <1>3, <3>2, <3>3
  <2>2. \A o \in Requests : req'[o].op = "complete" => req'[o].lot \in Lots
    BY <1>4
  <2> QED
    BY <2>1, <2>2 DEF CompletingIsComplete, Unfinished
<1> QED
  BY <1>5, <1>6 DEF LotsInv

LEMMA FlowStep == FlowInv /\ [Next]_vars => FlowInv'
<1> SUFFICES ASSUME FlowInv, [Next]_vars PROVE FlowInv'
  OBVIOUS
<1>0. /\ TypeInv /\ TypeOK /\ TypeInv' /\ TypeOK'
      /\ SuspendedOnlyWhileBlacklisted' /\ SuspendedIsDisqualified'
  BY TypeStep, SuspensionStep DEF FlowInv, TypeInv
<1> DEFINE Rest == HeldWasOpen' /\ LotsInv'
           Quiet == /\ late' = late
                    /\ \A v \in Reviews : ~Exists(v) => review'[v] = review[v]
           LotsStay == lot' = lot
           ReqStays == \A o \in Requests :
                        req'[o] = req[o] \/ req'[o].op \notin {"save", "submit", "complete"}
<1>a. \A l \in Lots : lot[l] = "EVALUATED" => Unfinished(l) \subseteq late
  BY DEF FlowInv, EvaluatedIsComplete
<1>b. Quiet /\ LotsStay /\ ReqStays => Rest
  <2> SUFFICES ASSUME Quiet, LotsStay, ReqStays PROVE Rest
    OBVIOUS
  <2>1. HeldWasOpen'
    BY HeldQuiet
  <2>2. LotsInv'
    BY <1>0, <1>a, LotsQuiet
  <2> QED
    BY <2>1, <2>2
<1>1. ASSUME NEW r \in Requests,
             \/ \E e \in Experts, b \in Bids : CreateBegin(r, e, b)
             \/ \E s \in Suppliers, want \in BOOLEAN : UpdateStatusBegin(r, s, want)
             \/ \E b \in Bids : DisqualifyBegin(r, b)
             \/ AwardBegin(r) \/ AwardCommit(r) \/ EnqueueArchive(r) \/ RequestFails(r)
             \/ DisqualifyCommit(r)
      PROVE  Rest
  <2>1. Quiet /\ LotsStay
    BY <1>1 DEF CreateBegin, UpdateStatusBegin, DisqualifyBegin, AwardBegin, AwardCommit,
                EnqueueArchive, RequestFails, DisqualifyCommit
  <2> SUFFICES ReqStays
    BY <1>b, <2>1
  <2>2. ASSUME NEW q, req' = [req EXCEPT ![r] = q],
               q.op \in {"create", "status", "disqualify", "award", "enqueue", "idle"}
        PROVE  ReqStays
    BY <1>0, <2>2 DEF TypeOK
  <2>3. CASE \E e \in Experts, b \in Bids : CreateBegin(r, e, b)
    BY <2>2, <2>3 DEF CreateBegin, Ask
  <2>4. CASE \E s \in Suppliers, want \in BOOLEAN : UpdateStatusBegin(r, s, want)
    BY <2>2, <2>4 DEF UpdateStatusBegin, Ask
  <2>5. CASE \E b \in Bids : DisqualifyBegin(r, b)
    BY <2>2, <2>5 DEF DisqualifyBegin, Ask
  <2>6. CASE AwardBegin(r) \/ AwardCommit(r)
    BY <2>2, <2>6 DEF AwardBegin, AwardCommit, Ask, Becomes
  <2>7. CASE EnqueueArchive(r) \/ RequestFails(r) \/ DisqualifyCommit(r)
    BY <2>2, <2>7 DEF EnqueueArchive, RequestFails, DisqualifyCommit, Becomes, Idle
  <2> QED
    BY <1>1, <2>3, <2>4, <2>5, <2>6, <2>7
<1>2. ASSUME NEW r \in Requests, NEW n \in Reviews, CreateCommit(r, n) PROVE Rest
  <2>1. \A o \in Requests : req'[o] = req[o] \/ req'[o].op = "idle"
    BY <1>0, <1>2, AnswerEffect DEF CreateCommit
  <2> QED
    BY <1>0, <1>2, <2>1, CreateLots, HeldQuiet
<1>3. ASSUME NEW r \in Requests, NEW v \in Reviews,
             \/ \E score \in Scores, ai \in Suggestion : SaveBegin(r, v, score, ai)
             \/ SubmitBegin(r, v)
      PROVE  Rest
  <2>1. /\ review' = review /\ bid' = bid /\ lot' = lot /\ late' = late
        /\ Exists(v) /\ ~Locked(v)
    BY <1>3 DEF SaveBegin, SubmitBegin, MayWrite
  <2>2. review[v] \in Row /\ Read(review[v]).status = review[v].status
    BY <1>0, <2>1, BidOfRow, ReadTyped
  <2>3. /\ req'[r].op \in {"save", "submit"} /\ req'[r].review = v
        /\ req'[r].seen = Read(review[v])
        /\ \A o \in Requests : o # r => req'[o] = req[o]
    BY <1>0, <1>3 DEF SaveBegin, SubmitBegin, Ask, TypeOK
  <2>4. /\ review[v].status \in {"DRAFT", "SUSPENDED"}
        /\ review[v].status = "SUSPENDED" => bid[review[v].bid] = "DISQUALIFIED"
    BY <2>1, <2>2 DEF Row, LiveStatus, Locked, FlowInv, SuspendedIsDisqualified
  <2>5. HeldWasOpen'
    BY <2>1, <2>2, <2>3, <2>4 DEF FlowInv, HeldWasOpen
  <2>6. LotsInv'
    BY <1>0, <1>a, <2>1, <2>3, LotsQuiet
  <2> QED
    BY <2>5, <2>6
<1>4. ASSUME NEW r \in Requests, SaveCommit(r) \/ SubmitCommit(r) PROVE Rest
  <2>1. Quiet
    BY <1>0, <1>4 DEF SaveCommit, SubmitCommit, TypeInv, TypeOK, HeldRowsExist
  <2>2. LotsStay /\ ReqStays
    BY <1>0, <1>4, AnswerEffect DEF SaveCommit, SubmitCommit
  <2> QED
    BY <1>b, <2>1, <2>2
<1>5. ASSUME NEW r \in Requests, UpdateStatusCommit(r) PROVE Rest
  <2>1. req[r].supplier \in Suppliers
    BY <1>0, <1>5, RequestFields DEF TypeOK, UpdateStatusCommit
  <2>2. Quiet
    BY <1>0, <1>5, <2>1, CascadeEffect, RestoreEffect, RowOrNone
    DEF UpdateStatusCommit, Exists
  <2>3. LotsStay /\ ReqStays
    BY <1>0, <1>5, AnswerEffect DEF UpdateStatusCommit
  <2> QED
    BY <1>b, <2>2, <2>3
<1>6. ASSUME NEW r \in Requests, NEW l \in Lots, CompleteBegin(r, l) PROVE Rest
  <2>1. /\ req'[r].op = "complete" /\ req'[r].lot = l /\ Unfinished(l) = {}
        /\ \A o \in Requests : o # r => req'[o] = req[o]
    BY <1>0, <1>6 DEF CompleteBegin, Ask, TypeOK
  <2>2. HeldWasOpen'
    BY <2>1, HeldQuiet
  <2>3. LotsInv'
    BY <1>0, <1>a, <1>6, <2>1, LotsQuiet DEF CompleteBegin
  <2> QED
    BY <2>2, <2>3
<1>7. ASSUME NEW r \in Requests, CompleteCommit(r) PROVE Rest
  <2>1. \A o \in Requests : req'[o] = req[o] \/ req'[o].op = "idle"
    BY <1>0, <1>7, AnswerEffect DEF CompleteCommit
  <2>2. Unfinished(req[r].lot) \subseteq late
    BY <1>7 DEF CompleteCommit, FlowInv, CompletingIsComplete
  <2>3. \A l \in Lots : lot'[l] = "EVALUATED" => Unfinished(l) \subseteq late
    BY <1>0, <1>a, <1>7, <2>2 DEF CompleteCommit, TypeOK
  <2>4. LotsInv'
    BY <1>0, <1>7, <2>1, <2>3, LotsQuiet DEF CompleteCommit
  <2> QED
    BY <2>1, <2>4, HeldQuiet
<1>8. ASSUME RecalcProfiles \/ MergeBidTogether \/ ArchiveCrash \/ UNCHANGED vars PROVE Rest
  <2>1. Quiet /\ LotsStay /\ ReqStays
    BY <1>8 DEF RecalcProfiles, MergeBidTogether, ArchiveCrash, vars
  <2> QED
    BY <1>b, <2>1
<1>9. Rest
  BY <1>1, <1>2, <1>3, <1>4, <1>5, <1>6, <1>7, <1>8 DEF Next, Expert, Manager
<1> QED
  BY <1>0, <1>9 DEF FlowInv, LotsInv

(* Whoever clears a supplier leaves none of its reviews suspended, with    *)
(* any number of status changes overlapping.                               *)
THEOREM SuspendedOnlyWhileBlacklistedHolds == Spec => []SuspendedOnlyWhileBlacklisted
<1>1. FlowInv => SuspendedOnlyWhileBlacklisted
  BY DEF FlowInv
<1> QED
  BY <1>1, FlowInit, FlowStep, PTL DEF Spec

(* An evaluated lot is finished but for reviews created too late. *)
THEOREM EvaluatedIsCompleteHolds == Spec => []EvaluatedIsComplete
<1>1. FlowInv => EvaluatedIsComplete
  BY DEF FlowInv
<1> QED
  BY <1>1, FlowInit, FlowStep, PTL DEF Spec

(* A submitted review is changed only by who had read it before. *)
THEOREM LockedStaysHolds == Spec => LockedStays
<1>1. FlowInv /\ [Next]_vars
          => [\A v \in Reviews : Locked(v) /\ ~ReadOpen(v) =>
                /\ review'[v].status \in {review[v].status, "SUSPENDED"}
                /\ review'[v].score = review[v].score
                /\ review'[v].ai = review[v].ai]_vars
  BY EveryRowStep DEF RowStep, KeptByStep
<1> QED
  BY <1>1, FlowInit, FlowStep, PTL DEF Spec, LockedStays

(* Both halves of a suspension, as the run checks them.                    *)
THEOREM SuspensionIsUndoneHolds == Spec => []SuspensionIsUndone
<1>1. SuspendedRemembers /\ SuspendedOnlyWhileBlacklisted => SuspensionIsUndone
  BY DEF SuspensionIsUndone
<1> QED
  BY <1>1, SuspendedRemembersHolds, SuspendedOnlyWhileBlacklistedHolds, PTL

-----------------------------------------------------------------------------
(* Results.  What is shown of an average lies between the lowest and the    *)
(* highest score of those that count.                                       *)
LEMMA CountedScores ==
    ASSUME TypeOK, NEW b \in Bids, NEW d \in Dimensions
    PROVE  /\ IsFiniteSet(Counted(b, d))
           /\ \A v \in Counted(b, d) : v \in Reviews /\ review[v].score \in Nat
<1>1. \A v \in Counted(b, d) :
        v \in Reviews /\ review[v] \in Row /\ review[v].score # NoScore
  BY RowOrNone DEF Counted, Cell, Exists, TypeOK
<1>2. \A v \in Counted(b, d) : review[v].score \in Nat
  BY <1>1 DEF Row, Score
<1>3. Counted(b, d) \subseteq Reviews
  BY <1>1
<1> QED
  BY <1>1, <1>2, <1>3, FS_Subset, DimensionsAssumption

LEMMA RoundedMore ==
    ASSUME NEW m \in Nat, NEW n \in Nat, m <= n, NEW by \in Nat \ {0}
    PROVE  Rounded(m, by) <= Rounded(n, by) /\ Rounded(n, by) \in Nat
<1>1. /\ 2 * m + by \in Nat /\ 2 * n + by \in Nat /\ 2 * m + by <= 2 * n + by
      /\ 2 * by \in Nat \ {0}
  OBVIOUS
<1>2. (2 * m + by) \div (2 * by) <= (2 * n + by) \div (2 * by)
  BY <1>1, QuotientMore
<1>3. (2 * n + by) \div (2 * by) \in Nat
  BY <1>1, Quotient
<1> QED
  BY <1>2, <1>3 DEF Rounded

LEMMA RoundedExact ==
    ASSUME NEW k \in Nat, NEW by \in Nat \ {0}
    PROVE  Rounded(k * by, by) = k
<1> DEFINE a == 2 * (k * by) + by
           d == 2 * by
           p == a \div d
<1>1. k * by \in Nat /\ a \in Nat /\ d \in Nat \ {0}
  OBVIOUS
<1>2. p \in Nat /\ p * d <= a /\ a < p * d + d
  BY <1>1, Quotient
<1>3. k * d = 2 * (k * by) /\ k * d \in Nat /\ p * d \in Nat
  BY <1>2
<1> HIDE DEF p
<1>4. k * d < p * d + d /\ p * d < k * d + d
  BY <1>1, <1>2, <1>3
<1>5. k <= p
  BY <1>1, <1>2, <1>4, FactorMore
<1>6. p <= k
  BY <1>1, <1>2, <1>4, FactorMore
<1> QED
  BY <1>2, <1>5, <1>6 DEF p, Rounded

LEMMA AverageAsSum ==
    ASSUME TypeOK, NEW b \in Bids, NEW d \in Dimensions, Counted(b, d) # {}
    PROVE  LET g == Counted(b, d) IN
           /\ Cardinality(g) \in Nat \ {0}
           /\ [v \in g |-> review[v].score] \in [g -> Nat]
           /\ SumOver(g, [v \in g |-> review[v].score]) \in Nat
           /\ Average(b, d) = Rounded(100 * SumOver(g, [v \in g |-> review[v].score]), Cardinality(g))
<1> DEFINE g == Counted(b, d)
           f == [v \in g |-> review[v].score]
<1>1. IsFiniteSet(g) /\ f \in [g -> Nat]
  BY CountedScores
<1>2. Cardinality(g) \in Nat \ {0}
  BY <1>1, FS_CardinalityType, FS_EmptySet
<1>3. Average(b, d) = Rounded(100 * SumFunction(f), Cardinality(g))
  BY DEF Average
<1> HIDE DEF f, g
<1>4. SumFunction(f) = SumOver(g, f) /\ SumOver(g, f) \in Nat
  BY <1>1, SumOfFunction, SumIsNat
<1> QED
  BY <1>1, <1>2, <1>3, <1>4 DEF f, g

LEMMA AverageAtLeast ==
    ASSUME TypeOK, NEW b \in Bids, NEW d \in Dimensions, Counted(b, d) # {}, NEW k \in Nat,
           \A v \in Counted(b, d) : k <= review[v].score
    PROVE  100 * k <= Average(b, d)
<1> DEFINE g == Counted(b, d)
           n == Cardinality(g)
           f == [v \in g |-> review[v].score]
           c == [v \in g |-> k]
           s == SumOver(g, f)
<1>1. /\ n \in Nat \ {0} /\ f \in [g -> Nat] /\ s \in Nat
      /\ Average(b, d) = Rounded(100 * s, n)
  BY AverageAsSum
<1>2. c \in [g -> Nat] /\ (\A v \in g : c[v] <= f[v]) /\ IsFiniteSet(g)
  BY CountedScores
<1>3. SumOver(g, c) <= s
  <2> HIDE DEF c, f, g
  <2> QED
    BY <1>1, <1>2, SumMonotone
<1>4. SumOver(g, c) = k * n
  <2> HIDE DEF g
  <2> QED
    BY <1>2, SumConstant
<1> HIDE DEF g, n, f, c, s
<1>5. (100 * k) * n = 100 * (k * n) /\ k * n \in Nat /\ k * n <= s
  BY <1>1, <1>3, <1>4
<1>6. (100 * k) * n \in Nat /\ 100 * s \in Nat /\ (100 * k) * n <= 100 * s
  BY <1>1, <1>5
<1>7. Rounded((100 * k) * n, n) <= Rounded(100 * s, n)
  BY <1>1, <1>6, RoundedMore
<1>8. Rounded((100 * k) * n, n) = 100 * k
  BY <1>1, RoundedExact
<1> QED
  BY <1>1, <1>7, <1>8

LEMMA AverageAtMost ==
    ASSUME TypeOK, NEW b \in Bids, NEW d \in Dimensions, Counted(b, d) # {}, NEW k \in Nat,
           \A v \in Counted(b, d) : review[v].score <= k
    PROVE  Average(b, d) <= 100 * k
<1> DEFINE g == Counted(b, d)
           n == Cardinality(g)
           f == [v \in g |-> review[v].score]
           c == [v \in g |-> k]
           s == SumOver(g, f)
<1>1. /\ n \in Nat \ {0} /\ f \in [g -> Nat] /\ s \in Nat
      /\ Average(b, d) = Rounded(100 * s, n)
  BY AverageAsSum
<1>2. c \in [g -> Nat] /\ (\A v \in g : f[v] <= c[v]) /\ IsFiniteSet(g)
  BY CountedScores
<1>3. s <= SumOver(g, c)
  <2> HIDE DEF c, f, g
  <2> QED
    BY <1>1, <1>2, SumMonotone
<1>4. SumOver(g, c) = k * n
  <2> HIDE DEF g
  <2> QED
    BY <1>2, SumConstant
<1> HIDE DEF g, n, f, c, s
<1>5. (100 * k) * n = 100 * (k * n) /\ k * n \in Nat /\ s <= k * n
  BY <1>1, <1>3, <1>4
<1>6. (100 * k) * n \in Nat /\ 100 * s \in Nat /\ 100 * s <= (100 * k) * n
  BY <1>1, <1>5
<1>7. Rounded(100 * s, n) <= Rounded((100 * k) * n, n)
  BY <1>1, <1>6, RoundedMore
<1>8. Rounded((100 * k) * n, n) = 100 * k
  BY <1>1, RoundedExact
<1> QED
  BY <1>1, <1>7, <1>8

LEMMA AverageIsNat ==
    ASSUME TypeOK, NEW b \in Bids, NEW d \in Dimensions
    PROVE  Average(b, d) \in Nat
<1>1. CASE Counted(b, d) = {}
  BY <1>1 DEF Average
<1>2. CASE Counted(b, d) # {}
  <2> DEFINE s == SumOver(Counted(b, d), [v \in Counted(b, d) |-> review[v].score])
             n == Cardinality(Counted(b, d))
  <2>1. n \in Nat \ {0} /\ s \in Nat /\ Average(b, d) = Rounded(100 * s, n)
    BY <1>2, AverageAsSum
  <2> HIDE DEF s, n
  <2>2. 100 * s \in Nat
    BY <2>1
  <2> QED
    BY <2>1, <2>2, RoundedMore
<1> QED
  BY <1>1, <1>2

(* Where no reviewer of the one scores lower than one of the other, neither *)
(* is the average: the lowest score of the one lies between.                *)
LEMMA AverageFollows ==
    ASSUME TypeOK, NEW b \in Bids, NEW c \in Bids, Better(b, c), NEW d \in Dimensions
    PROVE  Average(c, d) <= Average(b, d)
<1>1. CASE Counted(c, d) = {}
  <2>1. Average(c, d) = 0
    BY <1>1 DEF Average
  <2> QED
    BY <2>1, AverageIsNat
<1>2. CASE Counted(c, d) # {}
  <2> DEFINE S == {review[v].score : v \in Counted(b, d)}
  <2>1. Counted(b, d) # {} /\ S \in SUBSET Nat
    BY <1>2, CountedScores DEF Better
  <2>2. PICK k \in S : \A m \in S : k <= m
    <3>1. PICK v \in Counted(b, d) : TRUE
      BY <2>1
    <3>2. review[v].score \in S
      BY <3>1
    <3> HIDE DEF S
    <3> QED
      BY <2>1, <3>2, Least
  <2>3. k \in Nat /\ \A v \in Counted(b, d) : k <= review[v].score
    BY <2>1, <2>2
  <2>4. \A w \in Counted(c, d) : review[w].score <= k
    BY <2>2, CountedScores DEF Better
  <2>5. 100 * k <= Average(b, d)
    BY <2>1, <2>3, AverageAtLeast
  <2>6. Average(c, d) <= 100 * k
    BY <1>2, <2>3, <2>4, AverageAtMost
  <2> QED
    BY <2>3, <2>5, <2>6, AverageIsNat
<1> QED
  BY <1>1, <1>2

LEMMA WeightedIsNat ==
    ASSUME TypeOK, NEW b \in Bids, NEW d \in Dimensions
    PROVE  Weight[d] * (Whole \div MaxScore[d]) \in Nat /\ Weighted(b, d) \in Nat
<1>1. Weight[d] \in Nat /\ Whole \in Nat /\ MaxScore[d] \in Nat \ {0}
  BY DimensionsAssumption
<1>2. Whole \div MaxScore[d] \in Nat
  BY <1>1, Quotient
<1>3. Weight[d] * (Whole \div MaxScore[d]) \in Nat
  BY <1>1, <1>2
<1>4. \A x, y \in Nat : x * y \in Nat
  OBVIOUS
<1> QED
  BY <1>3, <1>4, AverageIsNat DEF Weighted

LEMMA TotalFollows ==
    ASSUME TypeOK, NEW b \in Bids, NEW c \in Bids, Better(b, c)
    PROVE  Total(c) <= Total(b)
<1> DEFINE f == [d \in Dimensions |-> Weighted(b, d)]
           g == [d \in Dimensions |-> Weighted(c, d)]
<1>1. f \in [Dimensions -> Nat] /\ g \in [Dimensions -> Nat]
  BY WeightedIsNat
<1>2. ASSUME NEW d \in Dimensions PROVE g[d] <= f[d]
  <2> DEFINE w == Weight[d] * (Whole \div MaxScore[d])
  <2>1. w \in Nat /\ Average(c, d) \in Nat /\ Average(b, d) \in Nat
    BY WeightedIsNat, AverageIsNat
  <2>2. Average(c, d) <= Average(b, d)
    BY AverageFollows
  <2> HIDE DEF w
  <2>3. Average(c, d) * w <= Average(b, d) * w
    BY <2>1, <2>2, TimesMore
  <2> QED
    BY <2>3 DEF Weighted, w
<1>3. Total(b) = Rounded(SumFunction(f), Whole) /\ Total(c) = Rounded(SumFunction(g), Whole)
  BY DEF Total
<1> HIDE DEF f, g
<1>4. IsFiniteSet(Dimensions) /\ Whole \in Nat \ {0}
  BY DimensionsAssumption
<1>5. SumFunction(f) = SumOver(Dimensions, f) /\ SumFunction(g) = SumOver(Dimensions, g)
  BY <1>1, SumOfFunction
<1>6. SumOver(Dimensions, f) \in Nat /\ SumOver(Dimensions, g) \in Nat
  BY <1>1, <1>4, SumIsNat
<1>7. SumOver(Dimensions, g) <= SumOver(Dimensions, f)
  BY <1>1, <1>2, <1>4, SumMonotone
<1> QED
  BY <1>3, <1>4, <1>5, <1>6, <1>7, RoundedMore

LEMMA TotalIsNat ==
    ASSUME TypeOK, NEW b \in Bids
    PROVE  Total(b) \in Nat
<1> DEFINE f == [d \in Dimensions |-> Weighted(b, d)]
<1>1. f \in [Dimensions -> Nat]
  BY WeightedIsNat
<1>2. Total(b) = Rounded(SumFunction(f), Whole)
  BY DEF Total
<1> HIDE DEF f
<1>3. SumFunction(f) \in Nat
  BY <1>1, SumOfFunction, SumIsNat, DimensionsAssumption
<1> QED
  BY <1>2, <1>3, RoundedMore, DimensionsAssumption

LEMMA BetterAhead == TypeOK => BetterIsAhead
<1> SUFFICES ASSUME TypeOK, NEW b \in Bids, NEW c \in Bids, Better(b, c) PROVE Ahead(b, c)
  BY DEF BetterIsAhead, Sealed
<1>1. Total(c) <= Total(b) /\ Total(b) \in Nat /\ Total(c) \in Nat
  BY TotalFollows, TotalIsNat
<1> QED
  BY <1>1 DEF Better, Ahead

(* Who is blacklisted has all its bids disqualified by the same commit: it  *)
(* is told so.                                                              *)
BlacklistedBidsOut == \A b \in Bids : blacklisted[BidSupplier[b]] => bid[b] = "DISQUALIFIED"

ResultsInv == FlowInv /\ BlacklistedBidsOut

LEMMA ResultsBegin == Init => ResultsInv
<1>1. Init => BlacklistedBidsOut
  BY DEF Init, BlacklistedBidsOut
<1> QED
  BY <1>1, FlowInit DEF ResultsInv

LEMMA BlacklistingStep ==
    ASSUME FlowInv, [Next]_vars, BlacklistedBidsOut
    PROVE  BlacklistedBidsOut'
<1>0. TypeOK /\ TypeOK' /\ BidsStep
  BY FlowStep, EveryRowStep DEF FlowInv, TypeInv
<1>1. CASE blacklisted' = blacklisted
  BY <1>0, <1>1 DEF BlacklistedBidsOut, BidsStep
<1>2. ASSUME NEW r \in Requests, UpdateStatusCommit(r) PROVE BlacklistedBidsOut'
  <2> DEFINE q == req[r]
  <2>1. q.supplier \in Suppliers /\ q.want \in BOOLEAN /\ q.seen \in BOOLEAN
    BY <1>0, <1>2, RequestFields DEF TypeOK, UpdateStatusCommit
  <2>2. /\ blacklisted'[q.supplier] = Flushed(q.seen, q.want, blacklisted[q.supplier])
        /\ \A s \in Suppliers : s # q.supplier => blacklisted'[s] = blacklisted[s]
    BY <1>0, <1>2, <2>1 DEF TypeOK, UpdateStatusCommit
  <2>3. CASE q.want /\ ~q.seen /\ Cascade(q.supplier)
    <3>1. \A b \in Bids : BidSupplier[b] = q.supplier => bid'[b] = "DISQUALIFIED"
      BY <1>0, <2>1, <2>3, CascadeEffect
    <3> QED
      BY <1>0, <2>2, <3>1 DEF BlacklistedBidsOut, BidsStep
  <2>4. CASE ~q.want /\ q.seen
    <3>1. ~blacklisted'[q.supplier]
      BY <2>2, <2>4 DEF Flushed
    <3> QED
      BY <1>0, <2>2, <3>1 DEF BlacklistedBidsOut, BidsStep
  <2>5. CASE q.want = q.seen
    <3>1. blacklisted'[q.supplier] = blacklisted[q.supplier]
      BY <2>2, <2>5 DEF Flushed
    <3> QED
      BY <1>0, <2>2, <3>1 DEF BlacklistedBidsOut, BidsStep
  <2> QED
    BY <1>2, <2>3, <2>4, <2>5 DEF UpdateStatusCommit
<1>3. blacklisted' = blacklisted \/ \E r \in Requests : UpdateStatusCommit(r)
  BY DEF Next, Expert, Manager, vars,
         CreateBegin, CreateCommit, SaveBegin, SaveCommit, SubmitBegin, SubmitCommit,
         UpdateStatusBegin, DisqualifyBegin, DisqualifyCommit, CompleteBegin, CompleteCommit,
         AwardBegin, AwardCommit, EnqueueArchive, RequestFails,
         RecalcProfiles, MergeBidTogether, ArchiveCrash
<1> QED
  BY <1>1, <1>2, <1>3

LEMMA ResultsStep == ResultsInv /\ [Next]_vars => ResultsInv'
BY FlowStep, BlacklistingStep DEF ResultsInv

(* What counts for a sealed bid of an evaluated lot changes only with a     *)
(* review that came too late or that was submitted already.                 *)
LEMMA CountedStays ==
    ASSUME FlowInv, [Next]_vars, NEW l \in Lots, lot[l] = "EVALUATED",
           NEW b \in Sealed(l), b \in Sealed(l)', NEW d \in Dimensions,
           \A v \in Reviews : Rewritten(v) => v \notin late /\ ~Locked(v)
    PROVE  /\ Counted(b, d)' = Counted(b, d)
           /\ \A v \in Counted(b, d) : review'[v] = review[v]
<1>0. /\ TypeOK /\ TypeOK' /\ b \in Bids /\ bid[b] = "FROZEN" /\ BidLot[b] = l
      /\ \A v \in Reviews : RowStep(v)
  BY FlowStep, EveryRowStep DEF FlowInv, TypeInv, Sealed
<1>1. ASSUME NEW v \in Counted(b, d) PROVE v \in Counted(b, d)' /\ review'[v] = review[v]
  <2>1. v \in Reviews /\ Locked(v)
    BY DEF Counted, Cell
  <2>2. review'[v] = review[v]
    BY <2>1 DEF Rewritten
  <2> QED
    BY <2>2 DEF Counted, Cell, Exists, Locked
<1>2. ASSUME NEW v \in Counted(b, d)' PROVE v \in Counted(b, d)
  <2>1. v \in Reviews /\ Exists(v)' /\ Locked(v)' /\ review'[v].bid = b
    BY DEF Counted, Cell
  <2>2. CASE review'[v] = review[v]
    BY <2>2 DEF Counted, Cell, Exists, Locked
  <2>3. CASE review'[v] # review[v]
    <3>1. v \notin late /\ ~Locked(v)
      BY <2>1, <2>3 DEF Rewritten
    <3>2. Exists(v) /\ review[v].bid = b
      BY <1>0, <2>1, <2>3 DEF RowStep, Locked, LockedStatus
    <3>3. review[v].status \in {"DRAFT", "SUSPENDED"}
      BY <1>0, <2>1, <3>1, <3>2, BidOfRow DEF Row, LiveStatus, Locked
    <3>4. review[v].status # "SUSPENDED"
      BY <1>0, <2>1, <3>2 DEF FlowInv, SuspendedIsDisqualified
    <3>5. v \in Unfinished(l)
      BY <1>0, <2>1, <3>2, <3>3, <3>4 DEF Unfinished
    <3> QED
      BY <3>1, <3>5 DEF FlowInv, EvaluatedIsComplete
  <2> QED
    BY <2>2, <2>3
<1> QED
  BY <1>1, <1>2

LEMMA TotalStays ==
    ASSUME FlowInv, [Next]_vars, NEW l \in Lots, lot[l] = "EVALUATED",
           NEW b \in Sealed(l), b \in Sealed(l)',
           \A v \in Reviews : Rewritten(v) => v \notin late /\ ~Locked(v)
    PROVE  Total(b)' = Total(b)
<1>1. ASSUME NEW d \in Dimensions PROVE Weighted(b, d)' = Weighted(b, d)
  <2> DEFINE g == Counted(b, d)
  <2>1. g' = g /\ \A v \in g : review'[v] = review[v]
    BY CountedStays
  <2>2. [v \in g' |-> review'[v].score] = [v \in g |-> review[v].score]
    BY <2>1
  <2>3. Average(b, d)' = Average(b, d)
    BY <2>1, <2>2 DEF Average
  <2> QED
    BY <2>3 DEF Weighted
<1>2. [d \in Dimensions |-> Weighted(b, d)'] = [d \in Dimensions |-> Weighted(b, d)]
  BY <1>1
<1> QED
  BY <1>2 DEF Total

(* What is done stays done: a save or a submission in flight, the cascade   *)
(* and the restore make no submitted review of a sealed bid a draft.        *)
LEMMA LockedIsKept ==
    ASSUME FlowInv, [Next]_vars, NEW v \in Reviews, Exists(v), Locked(v),
           bid'[review[v].bid] = "FROZEN"
    PROVE  /\ Exists(v)' /\ Locked(v)'
           /\ review'[v].bid = review[v].bid /\ review'[v].expert = review[v].expert
<1>0. TypeOK /\ TypeOK' /\ BidsStep /\ RowStep(v) /\ review[v].bid \in Bids
  BY FlowStep, EveryRowStep, BidOfRow DEF FlowInv, TypeInv
<1>1. /\ Exists(v)' /\ review'[v].bid = review[v].bid /\ review'[v].expert = review[v].expert
      /\ review'[v].status # "SUSPENDED"
  BY <1>0 DEF RowStep, Exists
<1>2. review'[v].status # "DRAFT"
  BY <1>0 DEF RowStep, BidsStep, Locked, LockedStatus
<1>3. review'[v] \in Row
  BY <1>0, <1>1, RowOrNone DEF TypeOK, Exists
<1> QED
  BY <1>1, <1>2, <1>3 DEF Row, LiveStatus, Locked

(* A bid that is cheaper and scored no lower is ranked before its rival;    *)
(* who is blacklisted is told of the disqualification alone; the order of   *)
(* an evaluated lot changes only with what came too late or was submitted   *)
(* twice; and what is done of a bid stays done.                             *)
THEOREM ResultsStandHolds == Spec => ResultsStand
<1>1. ResultsInv => BetterIsAhead /\ BlacklistedIsOut
  <2>1. ResultsInv => BetterIsAhead
    BY BetterAhead DEF ResultsInv, FlowInv, TypeInv
  <2> QED
    BY <2>1 DEF ResultsInv, BlacklistedBidsOut, BlacklistedIsOut, Told
<1>2. ResultsInv /\ [Next]_vars
          => [\A l \in Lots : lot[l] = "EVALUATED" =>
                \A b, c \in Sealed(l) \cap Sealed(l)' :
                    Ahead(b, c)' # Ahead(b, c) =>
                        \E v \in Reviews : Rewritten(v) /\ (v \in late \/ Locked(v))]_vars
  <2> SUFFICES ASSUME ResultsInv, [Next]_vars, NEW l \in Lots, lot[l] = "EVALUATED",
                      NEW b \in Sealed(l) \cap Sealed(l)', NEW c \in Sealed(l) \cap Sealed(l)',
                      \A v \in Reviews : Rewritten(v) => v \notin late /\ ~Locked(v)
               PROVE  Ahead(b, c)' = Ahead(b, c)
    OBVIOUS
  <2>1. Total(b)' = Total(b) /\ Total(c)' = Total(c)
    BY TotalStays DEF ResultsInv
  <2> QED
    BY <2>1 DEF Ahead
<1>3. ResultsInv /\ [Next]_vars
          => [\A b \in Bids : bid'[b] = "FROZEN" =>
                /\ \A d \in Dimensions : Done(b, d) => Done(b, d)'
                /\ \A e \in Experts :
                      {v \in History(e) : review[v].bid = b} \subseteq History(e)']_vars
  <2> SUFFICES ASSUME ResultsInv, [Next]_vars, NEW b \in Bids, bid'[b] = "FROZEN"
               PROVE  /\ \A d \in Dimensions : Done(b, d) => Done(b, d)'
                      /\ \A e \in Experts :
                            {v \in History(e) : review[v].bid = b} \subseteq History(e)'
    OBVIOUS
  <2>1. \A v \in Reviews : Exists(v) /\ Locked(v) /\ review[v].bid = b =>
            /\ Exists(v)' /\ Locked(v)'
            /\ review'[v].bid = b /\ review'[v].expert = review[v].expert
    BY LockedIsKept DEF ResultsInv
  <2>2. ASSUME NEW d \in Dimensions, Done(b, d) PROVE Done(b, d)'
    <3>1. PICK v \in Cell(b, d) : Locked(v)
      BY <2>2 DEF Done
    <3>2. v \in Reviews /\ Exists(v) /\ review[v].bid = b /\ DimensionOf[review[v].expert] = d
      BY DEF Cell
    <3>3. v \in Cell(b, d)' /\ Locked(v)'
      BY <2>1, <3>1, <3>2 DEF Cell
    <3> QED
      BY <3>3 DEF Done
  <2>3. ASSUME NEW e \in Experts, NEW v \in History(e), review[v].bid = b
        PROVE  v \in History(e)'
    BY <2>1, <2>3 DEF History
  <2> QED
    BY <2>2, <2>3
<1> QED
  BY <1>1, <1>2, <1>3, ResultsBegin, ResultsStep, PTL DEF Spec, ResultsStand, OrderStays, ProgressStays

-----------------------------------------------------------------------------
(* The list of tasks *)

Cells == Frozen \X Fields

Tab == [open : {TRUE}, expert : Colleagues, cell : Cells,
        address : {None} \cup Ids, review : {None} \cup Ids, knew : SUBSET Ids]

TasksType ==
    /\ dims \in [Colleagues -> {None} \cup SUBSET Fields]
    /\ cellReview \in [Ids -> {None} \cup Work!Rows]
    /\ tab \in [Tabs -> {Work!Closed} \cup Tab]

(* An expert has, or had and was taken away, the dimension.                 *)
Entitled(e, d) == \/ dims[e] # None /\ d \in dims[e]
                  \/ <<e, d>> \in taken

(* A workbench that has no review was opened from a cell without one.       *)
TabOk(q) ==
    /\ Entitled(q.expert, q.cell[2])
    /\ q.review # None => cellReview[q.review] # None
    /\ q.address # None => cellReview[q.address] # None
    /\ q.review = None => q.address = None
    /\ q.address = None => q.knew = {}

EntitledReviews ==
    \A v \in Ids : cellReview[v] # None => Entitled(cellReview[v].expert, cellReview[v].dimension)

SameCell(v, w) ==
    /\ cellReview[v] # None /\ cellReview[w] # None
    /\ cellReview[v].expert = cellReview[w].expert
    /\ cellReview[v].bid = cellReview[w].bid
    /\ cellReview[v].dimension = cellReview[w].dimension

Alone ==
    \A v, w \in Ids : SameCell(v, w) /\ v # w =>
        <<cellReview[v].expert, <<cellReview[v].bid, cellReview[v].dimension>>>> \in doubled

(* The inductive invariant                                                  *)
TasksInv ==
    /\ TasksType
    /\ \A t \in Tabs : tab[t].open => TabOk(tab[t])
    /\ EntitledReviews
    /\ Alone

LEMMA TasksBegin == Work!TasksAssumption /\ Work!Init => TasksInv
<1> SUFFICES ASSUME Work!TasksAssumption, Work!Init PROVE TasksInv
  OBVIOUS
<1>1. \A v \in Ids : cellReview[v] = None
  BY DEF Work!Init
<1>2. \A t \in Tabs : ~tab[t].open
  BY DEF Work!Init, Work!Closed
<1>3. TasksType
  BY DEF Work!Init, TasksType
<1> QED
  BY <1>1, <1>2, <1>3 DEF TasksInv, EntitledReviews, Alone, SameCell

(* The matching and what it supplements leave everybody entitled.           *)
LEMMA AssignmentStep ==
    ASSUME TasksInv, UNCHANGED <<cellReview, tab, doubled>>,
           dims' \in [Colleagues -> {None} \cup SUBSET Fields],
           \A e \in Colleagues, d \in Fields : Entitled(e, d) => Entitled(e, d)'
    PROVE  TasksInv'
<1>1. TasksType' /\ Alone'
  BY DEF TasksInv, TasksType, Alone, SameCell
<1>2. ASSUME NEW t \in Tabs, tab'[t].open PROVE TabOk(tab[t])'
  <2>1. tab[t] \in Tab /\ TabOk(tab[t])
    BY <1>2 DEF TasksInv, TasksType, Work!Closed
  <2>2. tab[t].expert \in Colleagues /\ tab[t].cell[2] \in Fields
    BY <2>1 DEF Tab, Cells
  <2> QED
    BY <2>1, <2>2 DEF TabOk
<1>3. EntitledReviews'
  BY DEF TasksInv, TasksType, EntitledReviews, Work!Rows
<1> QED
  BY <1>1, <1>2, <1>3 DEF TasksInv

LEMMA MatchStep ==
    ASSUME TasksInv, Work!TasksAssumption,
           NEW chosen \in SUBSET Colleagues, NEW to \in [chosen -> SUBSET Fields],
           Work!Match(chosen, to)
    PROVE  TasksInv'
<1>1. /\ dims' = [e \in Colleagues |-> IF e \in chosen THEN to[e] ELSE dims[e]]
      /\ taken' = Work!TakenBy(chosen, to) \cup Work!StillTaken(chosen, to)
      /\ UNCHANGED <<cellReview, tab, doubled>>
  BY DEF Work!Match
<1>2. dims' \in [Colleagues -> {None} \cup SUBSET Fields]
  BY <1>1 DEF TasksInv, TasksType
<1>3. ASSUME NEW e \in Colleagues, NEW d \in Fields, Entitled(e, d)
      PROVE  Entitled(e, d)'
  <2>1. CASE e \notin chosen
    <3>1. <<e, d>> \in taken => <<e, d>> \in Work!StillTaken(chosen, to)
      BY <2>1 DEF Work!StillTaken
    <3>2. dims'[e] = dims[e]
      BY <1>1, <2>1
    <3> QED
      BY <1>1, <1>3, <3>1, <3>2 DEF Entitled
  <2>2. CASE e \in chosen /\ d \in to[e]
    <3>1. dims'[e] = to[e] /\ to[e] # None
      BY <1>1, <2>2 DEF Work!TasksAssumption
    <3> QED
      BY <2>2, <3>1 DEF Entitled
  <2>3. CASE e \in chosen /\ d \notin to[e]
    <3>1. <<e, d>> \in taken => <<e, d>> \in Work!StillTaken(chosen, to)
      BY <2>3 DEF Work!StillTaken
    <3>2. dims[e] # None /\ d \in dims[e] => <<e, d>> \in Work!Takes(e, to[e])
      BY <2>3 DEF Work!Takes, Work!HasAssignment
    <3>3. Work!Takes(e, to[e]) \subseteq Work!TakenBy(chosen, to)
      BY <2>3 DEF Work!TakenBy
    <3> QED
      BY <1>1, <1>3, <3>1, <3>2, <3>3 DEF Entitled
  <2> QED
    BY <2>1, <2>2, <2>3
<1> QED
  BY <1>1, <1>2, <1>3, AssignmentStep

LEMMA SupplementStep ==
    ASSUME TasksInv, NEW e \in Colleagues, NEW f \in Colleagues, Work!Supplement(e, f)
    PROVE  TasksInv'
<1>1. /\ dims[e] # None /\ dims[f] = None
      /\ dims' = [dims EXCEPT ![f] = dims[e]]
      /\ UNCHANGED <<cellReview, tab, taken, doubled>>
  BY DEF Work!Supplement, Work!HasAssignment
<1>2. dims' \in [Colleagues -> {None} \cup SUBSET Fields]
  BY <1>1 DEF TasksInv, TasksType
<1>3. ASSUME NEW g \in Colleagues, NEW d \in Fields, Entitled(g, d) PROVE Entitled(g, d)'
  BY <1>1, <1>3 DEF TasksInv, TasksType, Entitled
<1> QED
  BY <1>1, <1>2, <1>3, AssignmentStep

(* What happens in one workbench.                                           *)
LEMMA TabStep ==
    ASSUME TasksInv, NEW t \in Tabs, NEW q \in {Work!Closed} \cup Tab,
           q.open => TabOk(q),
           tab' = [tab EXCEPT ![t] = q],
           UNCHANGED <<dims, cellReview, taken, doubled>>
    PROVE  TasksInv'
<1>1. TasksType' /\ EntitledReviews' /\ Alone'
  BY DEF TasksInv, TasksType, Alone, SameCell, EntitledReviews, Entitled
<1>2. ASSUME NEW u \in Tabs, tab'[u].open PROVE TabOk(tab[u])'
  <2>1. TabOk(tab'[u])
    BY <1>2 DEF TasksInv, TasksType
  <2> QED
    BY <2>1 DEF TabOk, Entitled
<1> QED
  BY <1>1, <1>2 DEF TasksInv

LEMMA OpenStep ==
    ASSUME TasksInv, Work!TasksAssumption,
           NEW t \in Tabs, NEW e \in Colleagues, NEW c \in Cells, Work!Open(t, e, c)
    PROVE  TasksInv'
<1>1. c \in Work!CellsOf(e) /\ UNCHANGED <<dims, cellReview, taken, doubled>>
  BY DEF Work!Open
<1>2. PICK v \in Work!Shown(e, c) :
          tab' = [tab EXCEPT ![t] = [open |-> TRUE, expert |-> e, cell |-> c,
                                     address |-> v, review |-> v, knew |-> Work!In(e, c)]]
  BY DEF Work!Open
<1> DEFINE q == [open |-> TRUE, expert |-> e, cell |-> c,
                 address |-> v, review |-> v, knew |-> Work!In(e, c)]
<1>3. Entitled(e, c[2])
  BY <1>1 DEF Entitled, Work!CellsOf, Work!HasAssignment, Cells
<1>4. Work!In(e, c) \in SUBSET Ids /\ v \in {None} \cup Ids
  BY DEF Work!Shown, Work!In
<1>5. /\ v # None => cellReview[v] # None
      /\ v = None => Work!In(e, c) = {}
  BY DEF Work!Shown, Work!In, Work!Exists, Work!TasksAssumption
<1>6. q \in Tab /\ TabOk(q)
  BY <1>3, <1>4, <1>5 DEF Tab, TabOk
<1> QED
  BY <1>1, <1>2, <1>6, TabStep

LEMMA ReloadStep ==
    ASSUME TasksInv, NEW t \in Tabs, Work!Reload(t)
    PROVE  TasksInv'
<1>1. tab[t].open /\ UNCHANGED <<dims, cellReview, taken, doubled>>
  BY DEF Work!Reload
<1> DEFINE q == [tab[t] EXCEPT !.review = tab[t].address]
<1>2. tab[t] \in Tab /\ TabOk(tab[t])
  BY <1>1 DEF TasksInv, TasksType, Work!Closed
<1>3. tab' = [tab EXCEPT ![t] = q]
  BY DEF Work!Reload
<1>4. q \in Tab
  BY <1>2 DEF Tab
<1>5. TabOk(q)
  BY <1>2 DEF TabOk, Tab
<1> QED
  BY <1>1, <1>3, <1>4, <1>5, TabStep

LEMMA LeaveStep ==
    ASSUME TasksInv, NEW t \in Tabs, Work!Leave(t)
    PROVE  TasksInv'
BY TabStep DEF Work!Leave, Work!Closed

(* A review that is not in anybody's way.                                   *)
LEMMA CreateStep ==
    ASSUME TasksInv, Work!TasksAssumption, NEW t \in Tabs, NEW v \in Ids, Work!Create(t, v)
    PROVE  TasksInv'
<1> DEFINE e == tab[t].expert
           c == tab[t].cell
           row == [expert |-> e, bid |-> c[1], dimension |-> c[2], status |-> "DRAFT"]
           q == [tab[t] EXCEPT !.review = v]
<1>1. /\ tab[t].open /\ tab[t].review = None /\ cellReview[v] = None
      /\ cellReview' = [cellReview EXCEPT ![v] = row]
      /\ doubled' = IF Work!In(e, c) \subseteq tab[t].knew THEN doubled
                    ELSE doubled \cup {<<e, c>>}
      /\ tab' = [tab EXCEPT ![t] = q]
      /\ UNCHANGED <<dims, taken>>
  BY DEF Work!Create, Work!Exists
<1>2. tab[t] \in Tab /\ TabOk(tab[t])
  BY <1>1 DEF TasksInv, TasksType, Work!Closed
<1>3. /\ e \in Colleagues /\ c \in Cells /\ c = <<c[1], c[2]>>
      /\ c[1] \in Frozen /\ c[2] \in Fields
  <2>1. e \in Colleagues /\ c \in Cells
    BY <1>2 DEF Tab
  <2> QED
    BY <2>1 DEF Cells
<1>4. tab[t].knew = {}
  BY <1>1, <1>2 DEF TabOk
<1>5. row \in Work!Rows /\ row # None
  BY <1>3 DEF Work!Rows, Work!TasksAssumption
<1>6. /\ cellReview'[v] = row /\ row.expert = e /\ row.bid = c[1] /\ row.dimension = c[2]
      /\ \A w \in Ids : w # v => cellReview'[w] = cellReview[w]
  BY <1>1 DEF TasksInv, TasksType
<1> HIDE DEF row
<1>7. q \in Tab /\ TabOk(tab[t])'
  <2>1. q \in Tab
    BY <1>2 DEF Tab
  <2>0. tab'[t] = q
    BY <1>1 DEF TasksInv, TasksType
  <2>2. /\ q.expert = e /\ q.cell = c /\ q.address = tab[t].address
        /\ q.review = v /\ q.knew = tab[t].knew
    BY <1>2 DEF Tab
  <2>3. Entitled(tab[t].expert, tab[t].cell[2])' /\ tab[t].address = None
    BY <1>1, <1>2, <2>0, <2>2 DEF TabOk, Entitled
  <2>4. v # None /\ cellReview'[v] # None
    BY <1>5, <1>6 DEF Work!TasksAssumption
  <2> HIDE DEF q
  <2>5. /\ tab'[t].review = v /\ tab'[t].address = None /\ tab'[t].knew = {}
    BY <1>4, <2>0, <2>2, <2>3
  <2> QED
    BY <2>0, <2>1, <2>3, <2>4, <2>5 DEF TabOk
<1>8. TasksType'
  <2>1. cellReview' \in [Ids -> {None} \cup Work!Rows]
    BY <1>1, <1>5 DEF TasksInv, TasksType
  <2>2. tab' \in [Tabs -> {Work!Closed} \cup Tab]
    BY <1>1, <1>7 DEF TasksInv, TasksType
  <2> QED
    BY <1>1, <2>1, <2>2 DEF TasksInv, TasksType
<1>9. ASSUME NEW u \in Tabs, tab'[u].open PROVE TabOk(tab[u])'
  <2>1. CASE u = t
    BY <1>1, <1>7, <2>1 DEF TasksInv, TasksType
  <2>2. CASE u # t
    <3>1. tab'[u] = tab[u] /\ tab[u] \in Tab /\ TabOk(tab[u])
      BY <1>1, <1>9, <2>2 DEF TasksInv, TasksType, Work!Closed
    <3>2. \A w \in {None} \cup Ids :
              w # None /\ cellReview[w] # None => cellReview'[w] # None
      BY <1>5, <1>6
    <3>3. tab[u].review \in {None} \cup Ids /\ tab[u].address \in {None} \cup Ids
      BY <3>1 DEF Tab
    <3> QED
      <4>1. Entitled(tab[u].expert, tab[u].cell[2])'
        BY <1>1, <3>1 DEF TabOk, Entitled
      <4> HIDE DEF q, e, c
      <4> QED
        BY <3>1, <3>2, <3>3, <4>1 DEF TabOk
  <2> QED
    BY <2>1, <2>2
<1>10. EntitledReviews'
  <2>1. ASSUME NEW w \in Ids, cellReview'[w] # None
        PROVE  Entitled(cellReview[w].expert, cellReview[w].dimension)'
    <3>1. CASE w = v
      BY <1>1, <1>2, <1>6, <3>1 DEF TabOk, Entitled
    <3>2. CASE w # v
      BY <1>1, <1>6, <2>1, <3>2 DEF TasksInv, EntitledReviews, Entitled
    <3> QED
      BY <3>1, <3>2
  <2> QED
    BY <2>1 DEF EntitledReviews
<1>11. Alone'
  <2>1. ASSUME NEW w \in Ids, w # v, cellReview[w] # None,
               cellReview[w].expert = e, cellReview[w].bid = c[1], cellReview[w].dimension = c[2]
        PROVE  <<e, c>> \in doubled'
    <3>1. w \in Work!In(e, c)
      BY <2>1 DEF Work!In, Work!Exists
    <3> QED
      BY <1>1, <1>4, <3>1
  <2>2. doubled \subseteq doubled'
    BY <1>1
  <2>3. ASSUME NEW u \in Ids, NEW w \in Ids, SameCell(u, w)', u # w
        PROVE  <<cellReview'[u].expert, <<cellReview'[u].bid, cellReview'[u].dimension>>>> \in doubled'
    <3>1. CASE u # v /\ w # v
      BY <1>6, <2>2, <2>3, <3>1 DEF TasksInv, Alone, SameCell
    <3>2. CASE u = v
      BY <1>3, <1>6, <2>1, <2>3, <3>2 DEF SameCell
    <3>3. CASE w = v
      BY <1>3, <1>6, <2>1, <2>3, <3>3 DEF SameCell
    <3> QED
      BY <3>1, <3>2, <3>3
  <2> QED
    BY <2>3 DEF Alone
<1> QED
  BY <1>8, <1>9, <1>10, <1>11 DEF TasksInv

(* A submission changes nothing of where a review is.                       *)
LEMMA SubmitStep ==
    ASSUME TasksInv, Work!TasksAssumption, NEW t \in Tabs, Work!Submit(t)
    PROVE  TasksInv'
<1> DEFINE v == tab[t].review
           row == [cellReview[v] EXCEPT !.status = "CONFIRMED"]
<1>1. /\ tab[t].open /\ v # None
      /\ cellReview' = [cellReview EXCEPT ![v] = row]
      /\ UNCHANGED <<dims, tab, taken, doubled>>
  BY DEF Work!Submit
<1>2. tab[t] \in Tab /\ TabOk(tab[t])
  BY <1>1 DEF TasksInv, TasksType, Work!Closed
<1>3. v \in Ids /\ cellReview[v] # None
  BY <1>1, <1>2 DEF Tab, TabOk
<1>4. cellReview[v] \in Work!Rows
  BY <1>3 DEF TasksInv, TasksType
<1>5. /\ row \in Work!Rows /\ row # None
      /\ row.expert = cellReview[v].expert /\ row.bid = cellReview[v].bid
      /\ row.dimension = cellReview[v].dimension
  BY <1>4 DEF Work!Rows, Work!TasksAssumption
<1> HIDE DEF v, row
<1>6. cellReview'[v] = row /\ \A w \in Ids : w # v => cellReview'[w] = cellReview[w]
  BY <1>1, <1>3 DEF TasksInv, TasksType
<1>7. \A w \in Ids :
          /\ cellReview'[w] # None <=> cellReview[w] # None
          /\ cellReview[w] # None =>
                /\ cellReview'[w].expert = cellReview[w].expert
                /\ cellReview'[w].bid = cellReview[w].bid
                /\ cellReview'[w].dimension = cellReview[w].dimension
  BY <1>3, <1>5, <1>6
<1>8. TasksType'
  BY <1>1, <1>3, <1>5 DEF TasksInv, TasksType
<1>9. ASSUME NEW u \in Tabs, tab'[u].open PROVE TabOk(tab[u])'
  <2>1. tab[u] \in Tab /\ TabOk(tab[u])
    BY <1>1, <1>9 DEF TasksInv, TasksType, Work!Closed
  <2>2. tab[u].review \in {None} \cup Ids /\ tab[u].address \in {None} \cup Ids
    BY <2>1 DEF Tab
  <2> QED
    BY <1>1, <1>7, <2>1, <2>2 DEF TabOk, Entitled
<1>10. EntitledReviews' /\ Alone'
  BY <1>1, <1>7 DEF TasksInv, EntitledReviews, Entitled, Alone, SameCell
<1> QED
  BY <1>8, <1>9, <1>10 DEF TasksInv

LEMMA TasksStep == Work!TasksAssumption /\ TasksInv /\ [Work!Next]_(Work!vars) => TasksInv'
<1> SUFFICES ASSUME Work!TasksAssumption, TasksInv, [Work!Next]_(Work!vars) PROVE TasksInv'
  OBVIOUS
<1>1. ASSUME UNCHANGED <<dims, cellReview, tab, taken, doubled>> PROVE TasksInv'
  BY <1>1 DEF TasksInv, TasksType, TabOk, EntitledReviews, Entitled, Alone, SameCell
<1>2. CASE UNCHANGED Work!vars
  BY <1>1, <1>2 DEF Work!vars
<1>3. ASSUME NEW b \in Frozen, Work!Disqualify(b) PROVE TasksInv'
  BY <1>1, <1>3 DEF Work!Disqualify
<1>4. CASE Work!Complete
  BY <1>1, <1>4 DEF Work!Complete
<1> QED
  BY <1>2, <1>3, <1>4, MatchStep, SupplementStep, OpenStep, LeaveStep, ReloadStep, CreateStep,
     SubmitStep DEF Work!Next, Cells

(* A cell holds one review at most, where the history has nothing to say.   *)
LEMMA OneOfACell ==
    ASSUME TasksInv, NEW e \in Colleagues, NEW c \in Cells, <<e, c>> \notin doubled,
           NEW v \in Work!In(e, c)
    PROVE  Work!In(e, c) = {v}
<1>1. c = <<c[1], c[2]>>
  BY DEF Cells
<1>2. \A w \in Work!In(e, c) :
          /\ w \in Ids /\ cellReview[w] # None
          /\ cellReview[w].expert = e /\ cellReview[w].bid = c[1] /\ cellReview[w].dimension = c[2]
  BY DEF Work!In, Work!Exists
<1> QED
  BY <1>1, <1>2 DEF TasksInv, Alone, SameCell

LEMMA ShownAreTasks == TasksInv => Work!TasksAreShown
<1> SUFFICES ASSUME TasksInv PROVE Work!OneReviewPerCell /\ Work!WaitedForIsShown
  BY DEF Work!TasksAreShown
<1>1. ASSUME NEW e \in Colleagues, NEW c \in Cells, NEW v \in Work!In(e, c), NEW w \in Work!In(e, c)
      PROVE  v = w \/ <<e, c>> \in doubled
  BY OneOfACell
<1>2. ASSUME NEW v \in Work!Unfinished
      PROVE  LET e == cellReview[v].expert
                 c == <<cellReview[v].bid, cellReview[v].dimension>>
             IN  \/ <<e, c[2]>> \in taken
                 \/ <<e, c>> \in doubled
                 \/ c \in Work!CellsOf(e) /\ Work!Shown(e, c) = {v}
  <2> DEFINE e == cellReview[v].expert
             d == cellReview[v].dimension
             c == <<cellReview[v].bid, d>>
  <2>1. v \in Ids /\ cellReview[v] # None /\ taskBid[cellReview[v].bid] = "FROZEN"
    BY DEF Work!Unfinished, Work!Exists
  <2>2. cellReview[v] \in Work!Rows
    BY <2>1 DEF TasksInv, TasksType
  <2>3. e \in Colleagues /\ c \in Cells /\ c[2] = d /\ c[1] = cellReview[v].bid /\ c[1] \in Frozen
    BY <2>2 DEF Work!Rows, Cells
  <2>4. Entitled(e, d)
    BY <2>1 DEF TasksInv, EntitledReviews
  <2>5. v \in Work!In(e, c)
    BY <2>1 DEF Work!In, Work!Exists
  <2>6. <<e, c>> \notin doubled => Work!Shown(e, c) = {v}
    BY <2>3, <2>5, OneOfACell DEF Work!Shown
  <2>7. dims[e] # None /\ d \in dims[e] => c \in Work!CellsOf(e)
    BY <2>1, <2>3 DEF Work!CellsOf, Work!HasAssignment
  <2> QED
    BY <2>3, <2>4, <2>6, <2>7 DEF Entitled
<1>3. Work!OneReviewPerCell
  BY <1>1 DEF Work!OneReviewPerCell, Cells
<1>4. Work!WaitedForIsShown
  BY <1>2 DEF Work!WaitedForIsShown
<1> QED
  BY <1>3, <1>4

(* list_my_assignments shows every review a lot waits for in complete_review *)
(* to the expert it waits for: whatever is matched, supplemented, created    *)
(* and submitted meanwhile, in any number of workbenches; but for dimensions *)
(* the matching took away and reviews created twice.                         *)
THEOREM TasksAreShownHolds == Work!Spec => []TasksAreShown
<1>1. Work!Init => TasksInv
  BY TasksAssumption, TasksBegin
<1>2. TasksInv /\ [Work!Next]_(Work!vars) => TasksInv'
  BY TasksAssumption, TasksStep
<1>3. TasksInv => TasksAreShown
  BY ShownAreTasks DEF TasksAreShown
<1> QED
  BY <1>1, <1>2, <1>3, PTL DEF Work!Spec

-----------------------------------------------------------------------------
(* Conversations.  A message's number is above those that its window had    *)
(* seen; what a summary covers lies above every summary that was seen.      *)
Note == [type : Chat!AllTypes, dim : Nat, text : Chat!Texts, to : Nat, covers : SUBSET Nat, saw : Nat]

Talk == [at : {"idle", "ask", "decide", "reply", "stage", "compress"}, snap : Nat,
         text : Chat!Texts, intent : Chat!Intents, dim : Nat, kind : Chat!Kinds, covers : SUBSET Nat]

ChatType == msgs \in Seq(Note) /\ win \in [Windows -> Talk]

(* The rows S lie within the first n, above every summary there.            *)
AfterSummaries(S, n) ==
    \A k \in S : /\ k \in 1..n
                 /\ \A i \in 1..n : msgs[i].type = "SUMMARY" => msgs[i].dim < msgs[k].dim

NoteOk(j) ==
    /\ msgs[j].dim <= j
    /\ msgs[j].saw < j
    /\ msgs[j].type = "ANSWER" => msgs[j].to < msgs[j].dim
    /\ msgs[j].covers # {} => msgs[j].type = "SUMMARY"
    /\ AfterSummaries(msgs[j].covers, msgs[j].saw)
    /\ \A k \in msgs[j].covers : msgs[k].dim <= msgs[j].dim

(* Small talk is a greeting or follows one.                                 *)
Greeted(q) ==
    \/ q.text = "greeting"
    \/ /\ q.text = "followup"
       /\ \E i \in 1..q.snap : msgs[i].type = "USER" /\ msgs[i].text = "greeting"

TalkOk(q) ==
    /\ q.snap <= Len(msgs)
    /\ q.at \in {"decide", "reply"} => \E i \in 1..q.snap : msgs[i].dim = q.dim
    /\ q.at = "compress" => AfterSummaries(q.covers, q.snap)
    /\ q.at \in {"ask", "decide", "reply"} /\ q.intent = "smalltalk" => Greeted(q)
    /\ OverrideEnabled /\ q.at = "reply" /\ q.kind = "free" => q.text = "sum" \/ q.intent = "smalltalk"

ChatInv ==
    /\ ChatType
    /\ \A j \in 1..Len(msgs) : NoteOk(j)
    /\ \A w \in Windows : TalkOk(win[w])

LEMMA ChatBegins == Chat!Init => ChatInv
<1> SUFFICES ASSUME Chat!Init PROVE ChatInv
  OBVIOUS
<1>1. msgs = <<>> /\ win = [w \in Windows |-> Chat!Idle]
  BY DEF Chat!Init
<1>2. Chat!Idle \in Talk /\ Chat!Idle.at = "idle" /\ Chat!Idle.snap = 0
  BY DEF Chat!Idle, Talk, Chat!Texts, Chat!Intents, Chat!Kinds
<1>3. ChatType /\ Len(msgs) = 0
  BY <1>1, <1>2 DEF ChatType
<1>4. TalkOk(Chat!Idle)
  BY <1>2, <1>3 DEF TalkOk
<1> QED
  BY <1>1, <1>3, <1>4 DEF ChatInv

LEMMA NotesTyped ==
    ASSUME ChatInv
    PROVE  /\ Len(msgs) \in Nat
           /\ \A i \in 1..Len(msgs) : /\ msgs[i] \in Note /\ msgs[i].type \in Chat!AllTypes
                                     /\ msgs[i].dim \in 0..i /\ msgs[i].text \in Chat!Texts
<1>1. \A i \in 1..Len(msgs) : msgs[i] \in Note /\ msgs[i].dim <= i
  BY DEF ChatInv, ChatType, NoteOk
<1> QED
  BY <1>1 DEF ChatInv, ChatType, Note

(* The last number given among the first n messages.                        *)
LEMMA LastTurnBounds ==
    ASSUME ChatInv, NEW n \in 0..Len(msgs), NEW types
    PROVE  /\ Chat!LastTurn(n, types) \in 0..n
           /\ \A i \in 1..n : msgs[i].type \in types => msgs[i].dim <= Chat!LastTurn(n, types)
<1> DEFINE I == Chat!Seen(n, types)
           D == {msgs[i].dim : i \in I}
<1>0. Len(msgs) \in Nat /\ n \in Nat /\ \A i \in 1..n : msgs[i].dim \in 0..n
  BY NotesTyped
<1>1. I = {i \in 1..n : msgs[i].type \in types}
  BY DEF Chat!Seen
<1>2. CASE I = {}
  BY <1>0, <1>1, <1>2 DEF Chat!LastTurn
<1>3. CASE I # {}
  <2>1. D \in SUBSET (0..n)
    BY <1>0, <1>1
  <2>2. PICK m \in D : \A j \in D : j <= m
    <3>1. PICK i \in I : TRUE
      BY <1>3
    <3>2. msgs[i].dim \in D
      BY <3>1
    <3> HIDE DEF D
    <3> QED
      BY <1>0, <2>1, <3>2, Greatest
  <2>3. \A i \in I : msgs[i].dim <= m
    BY <2>2
  <2>4. Chat!LastTurn(n, types) = CHOOSE d \in D : \A i \in I : msgs[i].dim <= d
    BY <1>3 DEF Chat!LastTurn
  <2>5. Chat!LastTurn(n, types) \in D /\ \A i \in I : msgs[i].dim <= Chat!LastTurn(n, types)
    BY <2>2, <2>3, <2>4
  <2> QED
    BY <1>1, <2>1, <2>5
<1> QED
  BY <1>2, <1>3

(* What a step of one window leaves alone: the messages there are, and all  *)
(* that is known of the other windows.                                      *)
LEMMA TalkStep ==
    ASSUME ChatInv, NEW w \in Windows, NEW q \in Talk, win' = [win EXCEPT ![w] = q],
           \/ msgs' = msgs
           \/ /\ \E m \in Note : msgs' = Append(msgs, m)
              /\ \A j \in 1..Len(msgs') : j = Len(msgs) + 1 => NoteOk(j)',
           TalkOk(q)'
    PROVE  ChatInv'
<1>0. ChatType /\ Len(msgs) \in Nat
  BY DEF ChatInv, ChatType
<1>1. /\ msgs' \in Seq(Note) /\ Len(msgs') \in {Len(msgs), Len(msgs) + 1}
      /\ \A i \in 1..Len(msgs) : msgs'[i] = msgs[i]
      /\ Len(msgs') # Len(msgs) => \A j \in 1..Len(msgs') : j = Len(msgs) + 1 => NoteOk(j)'
  <2>1. CASE msgs' = msgs
    BY <1>0, <2>1 DEF ChatType
  <2>2. ASSUME NEW m \in Note, msgs' = Append(msgs, m)
        PROVE  /\ msgs' \in Seq(Note) /\ Len(msgs') = Len(msgs) + 1
               /\ \A i \in 1..Len(msgs) : msgs'[i] = msgs[i]
    BY <1>0, <2>2 DEF ChatType
  <2> QED
    BY <2>1, <2>2
<1>2. ASSUME NEW j \in 1..Len(msgs) PROVE NoteOk(j)'
  <2>1. NoteOk(j) /\ msgs[j] \in Note
    BY <1>0 DEF ChatInv, ChatType
  <2>2. msgs[j].saw \in Nat /\ msgs[j].saw < j
    BY <2>1 DEF NoteOk, Note
  <2>3. \A i \in 1..msgs[j].saw : msgs'[i] = msgs[i]
    BY <1>0, <1>1, <2>2
  <2>4. AfterSummaries(msgs[j].covers, msgs[j].saw)'
    BY <1>1, <2>1, <2>3 DEF NoteOk, AfterSummaries
  <2>5. \A k \in msgs[j].covers : msgs'[k] = msgs[k]
    BY <2>1, <2>3 DEF NoteOk, AfterSummaries
  <2> QED
    BY <1>1, <2>1, <2>4, <2>5 DEF NoteOk
<1>3. ASSUME NEW o \in Windows, o # w PROVE TalkOk(win[o])'
  <2>1. win'[o] = win[o] /\ win[o] \in Talk /\ TalkOk(win[o])
    BY <1>0, <1>3 DEF ChatInv, ChatType
  <2>2. win[o].snap \in Nat /\ win[o].snap <= Len(msgs) /\ win[o].snap <= Len(msgs')
    BY <1>0, <1>1, <2>1 DEF TalkOk, Talk
  <2>3. \A i \in 1..win[o].snap : msgs'[i] = msgs[i]
    BY <1>0, <1>1, <2>2
  <2>4. win[o].at = "compress" => AfterSummaries(win[o].covers, win[o].snap)'
    BY <2>1, <2>3 DEF TalkOk, AfterSummaries
  <2>5. /\ win[o].at \in {"decide", "reply"} => \E i \in 1..win[o].snap : msgs'[i].dim = win[o].dim
        /\ win[o].at \in {"ask", "decide", "reply"} /\ win[o].intent = "smalltalk" => Greeted(win[o])'
    BY <2>1, <2>3 DEF TalkOk, Greeted
  <2> QED
    BY <2>1, <2>2, <2>4, <2>5 DEF TalkOk
<1>4. win' \in [Windows -> Talk] /\ win'[w] = q
  BY <1>0 DEF ChatType
<1>5. \A o \in Windows : TalkOk(win[o])'
  BY <1>3, <1>4
<1>6. ASSUME NEW j \in 1..Len(msgs') PROVE NoteOk(j)'
  <2>1. j \in 1..Len(msgs) \/ (j = Len(msgs) + 1 /\ Len(msgs') # Len(msgs))
    BY <1>0, <1>1
  <2> QED
    BY <1>1, <1>2, <2>1
<1> QED
  BY <1>1, <1>4, <1>5, <1>6 DEF ChatInv, ChatType

(* Of questions that were seen there is a last one.                         *)
LEMMA LastExists ==
    ASSUME ChatInv, NEW n \in 0..Len(msgs), NEW S \in SUBSET (1..n), S # {}
    PROVE  \E i \in S : i \in Chat!LastOf(S, 1)
<1>0. Len(msgs) \in Nat /\ n \in Nat /\ \A i \in 1..n : msgs[i].dim \in 0..n
  BY NotesTyped
<1> DEFINE D == {msgs[i].dim : i \in S}
<1>1. PICK m \in D : \A j \in D : j <= m
  <2>1. PICK i \in S : TRUE
    OBVIOUS
  <2>2. D \in SUBSET (0..n) /\ msgs[i].dim \in D
    BY <1>0
  <2> HIDE DEF D
  <2> QED
    BY <1>0, <2>2, Greatest
<1> DEFINE E == {i \in S : msgs[i].dim = m}
<1>2. PICK e \in E : \A j \in E : j <= e
  <2>1. PICK i \in E : TRUE
    BY <1>1
  <2>2. E \in SUBSET (0..n)
    <3>1. \A x \in E : x \in S
      OBVIOUS
    <3>2. \A x \in S : x \in 0..n
      BY <1>0
    <3> QED
      BY <3>1, <3>2
  <2> HIDE DEF E
  <2> QED
    BY <1>0, <2>1, <2>2, Greatest
<1>3. ASSUME NEW j \in S, Chat!Before(e, j) PROVE FALSE
  <2>1. msgs[j].dim \in D /\ msgs[j].dim <= m /\ msgs[j].dim \in Nat /\ m \in Nat /\ msgs[e].dim = m
    BY <1>0, <1>1
  <2>2. msgs[j].dim = m /\ e < j
    BY <1>3, <2>1 DEF Chat!Before
  <2>3. j <= e
    BY <1>2, <2>2
  <2>4. e \in Int /\ j \in Int
    <3>1. \A i \in 1..n : i \in Int
      BY <1>0
    <3>2. e \in S
      OBVIOUS
    <3> HIDE DEF D, E
    <3> QED
      BY <3>1, <3>2
  <2> HIDE DEF D, E
  <2> QED
    BY <2>2, <2>3, <2>4
<1> DEFINE C == {j \in S : Chat!Before(e, j)}
<1>4. C = {}
  BY <1>3
<1>5. Chat!Cardinality(C) < 1
  <2> HIDE DEF C
  <2>1. Chat!Cardinality({}) = Cardinality({})
    BY DEF Chat!Cardinality, Cardinality
  <2>2. Cardinality({}) = 0
    BY FS_EmptySet
  <2> QED
    BY <1>4, <2>1, <2>2
<1> QED
  BY <1>5 DEF Chat!LastOf

LEMMA AskIsOk ==
    ASSUME ChatInv, NEW w \in Windows, NEW text \in Chat!Texts, Chat!Ask(w, text)
    PROVE  ChatInv'
<1>0. Len(msgs) \in Nat /\ \A i \in 1..Len(msgs) : msgs[i] \in Note /\ msgs[i].text \in Chat!Texts
  BY NotesTyped
<1> DEFINE n == Len(msgs)
           intent == Chat!Intent(n, text)
           other == {i \in Chat!LastOf(Chat!Seen(n, {"USER"}), 3) : msgs[i].text # text}
<1>1. \A x \in Chat!Texts : /\ Chat!OwnIntent(x) \in Chat!Intents
                            /\ Chat!OwnIntent(x) = "smalltalk" => x = "greeting"
  BY DEF Chat!OwnIntent, Chat!Texts, Chat!Intents
<1>2. other \in SUBSET (1..n) /\ \A i \in other : msgs[i].type = "USER"
  BY DEF Chat!LastOf, Chat!Seen
<1>3. /\ intent \in Chat!Intents
      /\ intent = "smalltalk" =>
            \/ text = "greeting"
            \/ text = "followup" /\ \E i \in 1..n : msgs[i].type = "USER" /\ msgs[i].text = "greeting"
  <2>1. CASE text = "followup" /\ other # {}
    <3> DEFINE i == CHOOSE i \in other : i \in Chat!LastOf(other, 1)
    <3>1. \E x \in other : x \in Chat!LastOf(other, 1)
      <4> HIDE DEF other
      <4> QED
        BY <1>0, <1>2, <2>1, LastExists
    <3>2. i \in other
      BY <3>1
    <3>3. intent = Chat!OwnIntent(msgs[i].text)
      BY <2>1 DEF Chat!Intent
    <3> HIDE DEF i, intent
    <3> QED
      BY <1>0, <1>1, <1>2, <2>1, <3>2, <3>3
  <2>2. CASE ~(text = "followup" /\ other # {})
    <3>1. intent = Chat!OwnIntent(text)
      BY <2>2 DEF Chat!Intent
    <3> HIDE DEF intent, other
    <3> QED
      BY <1>1, <3>1
  <2> QED
    BY <2>1, <2>2
<1> HIDE DEF other
<1>4. PICK p \in Chat!Intents : p = intent
  BY <1>3
<1>5. PICK k \in Nat : k = n
  BY <1>0
<1> DEFINE q == [Chat!Idle EXCEPT !.at = "ask", !.snap = k, !.text = text, !.intent = p]
<1>6. win' = [win EXCEPT ![w] = q] /\ msgs' = msgs
  BY <1>4, <1>5 DEF Chat!Ask
<1>7. q \in Talk /\ q.at = "ask" /\ q.snap = k /\ q.text = text /\ q.intent = p
  BY DEF Chat!Idle, Talk, Chat!Kinds
<1> HIDE DEF q, intent
<1>8. TalkOk(q)'
  BY <1>0, <1>3, <1>4, <1>5, <1>6, <1>7 DEF TalkOk, Greeted
<1> QED
  BY <1>6, <1>7, <1>8, TalkStep

(* A step that writes no message.                                           *)
LEMMA SilentStep ==
    ASSUME ChatInv, NEW w \in Windows, NEW q \in Talk, win' = [win EXCEPT ![w] = q],
           msgs' = msgs, TalkOk(q)
    PROVE  ChatInv'
<1>1. TalkOk(q)'
  BY DEF TalkOk, AfterSummaries, Greeted
<1> QED
  BY <1>1, TalkStep

LEMMA OwnTalk ==
    ASSUME ChatInv, NEW w \in Windows
    PROVE  /\ win[w] \in Talk /\ TalkOk(win[w]) /\ win[w].snap \in 0..Len(msgs) /\ Len(msgs) \in Nat
           /\ Chat!NextTurn(win[w].snap) \in 1..(win[w].snap + 1)
           /\ \A i \in 1..win[w].snap : msgs[i].dim < Chat!NextTurn(win[w].snap)
<1> DEFINE n == win[w].snap
<1>1. win[w] \in Talk /\ TalkOk(win[w]) /\ Len(msgs) \in Nat
  BY DEF ChatInv, ChatType
<1>2. n \in 0..Len(msgs)
  BY <1>1 DEF TalkOk, Talk
<1>3. \A i \in 1..n : msgs[i].type \in Chat!AllTypes /\ msgs[i].dim \in Nat
  BY <1>1, <1>2, NotesTyped
<1>4. /\ Chat!LastTurn(n, Chat!AllTypes) \in 0..n
      /\ \A i \in 1..n : msgs[i].dim <= Chat!LastTurn(n, Chat!AllTypes)
  BY <1>2, <1>3, LastTurnBounds
<1> QED
  BY <1>1, <1>2, <1>3, <1>4 DEF Chat!NextTurn

LEMMA IdleTalk == Chat!Idle \in Talk /\ Chat!Idle.at = "idle" /\ (ChatInv => TalkOk(Chat!Idle))
<1>1. Chat!Idle \in Talk /\ Chat!Idle.at = "idle" /\ Chat!Idle.snap = 0
  BY DEF Chat!Idle, Talk, Chat!Texts, Chat!Intents, Chat!Kinds
<1>2. ChatInv => Len(msgs) \in Nat
  BY DEF ChatInv, ChatType
<1> QED
  BY <1>1, <1>2 DEF TalkOk

LEMMA QuestionIsOk ==
    ASSUME ChatInv, NEW w \in Windows, Chat!SaveQuestion(w)
    PROVE  ChatInv'
<1>0. /\ win[w] \in Talk /\ TalkOk(win[w]) /\ win[w].snap \in 0..Len(msgs) /\ Len(msgs) \in Nat
      /\ Chat!NextTurn(win[w].snap) \in 1..(win[w].snap + 1) /\ win[w].at = "ask"
  BY OwnTalk DEF Chat!SaveQuestion
<1>1. PICK d \in Nat : d = Chat!NextTurn(win[w].snap) /\ d <= Len(msgs) + 1
  BY <1>0
<1>2. PICK n \in Nat : n = Len(msgs) + 1
  BY <1>0
<1>3. PICK t \in Talk : t = win[w]
  BY <1>0
<1> DEFINE m == [type |-> "USER", dim |-> d, text |-> t.text, to |-> 0, covers |-> {}, saw |-> 0]
           q == [[[t EXCEPT !.at = "decide"] EXCEPT !.snap = n] EXCEPT !.dim = d]
<1>4. m \in Note
  BY <1>3 DEF Note, Talk, Chat!AllTypes, Chat!Conversation
<1>5. msgs' = Append(msgs, m)
  <2>1. [Chat!Message("USER", d) EXCEPT !.text = t.text] = m
    BY DEF Chat!Message
  <2> QED
    BY <1>1, <1>3, <2>1 DEF Chat!SaveQuestion
<1>6. /\ q \in Talk /\ q.at = "decide" /\ q.snap = n /\ q.dim = d
      /\ q.text = t.text /\ q.intent = t.intent
  BY <1>3 DEF Talk
<1>7. win' = [win EXCEPT ![w] = q]
  BY <1>0, <1>1, <1>2, <1>3 DEF Chat!SaveQuestion, ChatInv, ChatType
<1> HIDE DEF q
<1>8. Len(msgs') = n /\ msgs'[n] = m /\ \A i \in 1..Len(msgs) : msgs'[i] = msgs[i]
  BY <1>0, <1>2, <1>4, <1>5 DEF ChatInv, ChatType
<1>9. \A j \in 1..Len(msgs') : j = Len(msgs) + 1 => NoteOk(j)'
  BY <1>1, <1>2, <1>8 DEF NoteOk, AfterSummaries
<1>10. q.intent = "smalltalk" => Greeted(q)'
  <2>1. q.intent = "smalltalk" => Greeted(t)
    BY <1>0, <1>3, <1>6 DEF TalkOk
  <2> QED
    BY <1>0, <1>2, <1>3, <1>6, <1>8, <2>1 DEF Greeted
<1>11. TalkOk(q)'
  BY <1>2, <1>6, <1>8, <1>10 DEF TalkOk
<1> QED
  BY <1>4, <1>5, <1>6, <1>7, <1>9, <1>11, TalkStep

(* An answer from nothing is about nothing in the bid, or the rules are off. *)
LEMMA AnsweredIsOk ==
    ASSUME ChatInv, NEW w \in Windows, NEW kind \in Chat!Kinds, Chat!Answered(w, kind),
           kind = "free" /\ OverrideEnabled => win[w].text = "sum" \/ win[w].intent = "smalltalk"
    PROVE  ChatInv'
<1>0. win[w] \in Talk /\ TalkOk(win[w]) /\ win[w].at = "decide" /\ msgs' = msgs
  BY OwnTalk DEF Chat!Answered
<1>1. PICK t \in Talk : t = win[w]
  BY <1>0
<1> DEFINE q == [[t EXCEPT !.at = "reply"] EXCEPT !.kind = kind]
<1>2. /\ q \in Talk /\ q.at = "reply" /\ q.kind = kind /\ q.snap = t.snap /\ q.dim = t.dim
      /\ q.text = t.text /\ q.intent = t.intent
  BY DEF Talk
<1>3. win' = [win EXCEPT ![w] = q]
  BY <1>0, <1>1 DEF Chat!Answered, ChatInv, ChatType
<1> HIDE DEF q
<1>4. TalkOk(q)
  BY <1>0, <1>1, <1>2 DEF TalkOk, Greeted
<1> QED
  BY <1>0, <1>2, <1>3, <1>4, SilentStep

LEMMA DecisionIsOk ==
    ASSUME ChatInv, NEW w \in Windows,
           \/ Chat!AnswerDirectly(w) \/ Chat!Search(w) \/ Chat!SearchRaises(w) \/ Chat!Lookup(w)
    PROVE  ChatInv'
<1>0. win[w].intent \in Chat!Intents
  BY OwnTalk DEF Talk
<1>1. CASE Chat!AnswerDirectly(w)
  <2>1. OverrideEnabled => win[w].text = "sum" \/ win[w].intent = "smalltalk"
    BY <1>0, <1>1 DEF Chat!AnswerDirectly, Chat!MustSearch, Chat!NonDoc, Chat!Intents
  <2>2. Chat!Answered(w, "free")
    BY <1>1 DEF Chat!AnswerDirectly, Chat!Answered
  <2> QED
    BY <2>1, <2>2, AnsweredIsOk DEF Chat!Kinds
<1>2. ASSUME NEW outcome, Chat!Answered(w, Chat!AfterResult(w, outcome)) PROVE ChatInv'
  <2>1. PICK kind \in Chat!Kinds : /\ kind = Chat!AfterResult(w, outcome)
                                   /\ kind = "free" => kind = Chat!FixedOrFree(w)
    BY DEF Chat!AfterResult, Chat!FixedOrFree, Chat!Kinds
  <2>2. kind = "free" => win[w].text = "sum" \/ win[w].intent = "smalltalk"
    BY <2>1 DEF Chat!FixedOrFree, Chat!NonDoc
  <2>3. Chat!Answered(w, kind)
    BY <1>2, <2>1
  <2> QED
    BY <2>2, <2>3, AnsweredIsOk
<1>3. CASE Chat!Search(w)
  BY <1>2, <1>3 DEF Chat!Search
<1>4. CASE Chat!SearchRaises(w)
  BY <1>2, <1>4 DEF Chat!SearchRaises
<1>5. CASE Chat!Lookup(w)
  BY <1>2, <1>5 DEF Chat!Lookup
<1> QED
  BY <1>1, <1>3, <1>4, <1>5

LEMMA LeavingIsOk ==
    ASSUME ChatInv, NEW w \in Windows,
           Chat!Leave(w) \/ Chat!LeaveLate(w) \/ Chat!SummaryFails(w)
    PROVE  ChatInv'
<1>0. /\ win[w] \in Talk /\ TalkOk(win[w]) /\ win[w].snap \in 0..Len(msgs) /\ Len(msgs) \in Nat
      /\ msgs' = msgs
  BY OwnTalk DEF Chat!Leave, Chat!LeaveLate, Chat!SummaryFails
<1>1. CASE Chat!Leave(w) \/ Chat!SummaryFails(w)
  <2>1. win' = [win EXCEPT ![w] = Chat!Idle]
    BY <1>1 DEF Chat!Leave, Chat!SummaryFails
  <2>2. PICK q \in Talk : q = Chat!Idle /\ TalkOk(q)
    BY IdleTalk
  <2> QED
    BY <1>0, <2>1, <2>2, SilentStep
<1>2. CASE Chat!LeaveLate(w)
  <2>1. PICK t \in Talk, n \in Nat : t = win[w] /\ n = Len(msgs)
    BY <1>0
  <2> DEFINE q == [t EXCEPT !.snap = n]
  <2>2. /\ q \in Talk /\ q.at = "reply" /\ q.kind = t.kind /\ q.snap = n /\ q.dim = t.dim
        /\ q.text = t.text /\ q.intent = t.intent /\ t.at = "reply"
    BY <1>2, <2>1 DEF Talk, Chat!LeaveLate
  <2>3. win' = [win EXCEPT ![w] = q]
    BY <1>0, <1>2, <2>1 DEF Chat!LeaveLate, ChatInv, ChatType
  <2> HIDE DEF q
  <2>4. TalkOk(q)
    BY <1>0, <2>1, <2>2 DEF TalkOk, Greeted
  <2> QED
    BY <1>0, <2>2, <2>3, <2>4, SilentStep
<1> QED
  BY <1>1, <1>2

LEMMA AnswerIsOk ==
    ASSUME ChatInv, NEW w \in Windows, Chat!SaveAnswer(w)
    PROVE  ChatInv'
<1>0. /\ win[w] \in Talk /\ TalkOk(win[w]) /\ win[w].snap \in 0..Len(msgs) /\ Len(msgs) \in Nat
      /\ Chat!NextTurn(win[w].snap) \in 1..(win[w].snap + 1)
      /\ \A i \in 1..win[w].snap : msgs[i].dim < Chat!NextTurn(win[w].snap)
      /\ win[w].at = "reply"
  BY OwnTalk DEF Chat!SaveAnswer
<1>1. PICK d \in Nat, to \in Nat : d = Chat!NextTurn(win[w].snap) /\ to = win[w].dim
  BY <1>0 DEF Talk
<1>2. d <= Len(msgs) + 1 /\ to < d
  BY <1>0, <1>1 DEF TalkOk
<1>3. PICK n \in Nat : n = Len(msgs) + 1
  BY <1>0
<1> DEFINE m == [type |-> "ANSWER", dim |-> d, text |-> "vague", to |-> to, covers |-> {}, saw |-> 0]
           q == [[Chat!Idle EXCEPT !.at = "stage"] EXCEPT !.snap = n]
<1>4. m \in Note
  BY DEF Note, Chat!AllTypes, Chat!Conversation, Chat!Texts
<1>5. msgs' = Append(msgs, m)
  <2>1. [Chat!Message("ANSWER", d) EXCEPT !.to = to] = m
    BY DEF Chat!Message
  <2> QED
    BY <1>1, <2>1 DEF Chat!SaveAnswer
<1>6. q \in Talk /\ q.at = "stage" /\ q.snap = n
  BY DEF Talk, Chat!Idle, Chat!Texts, Chat!Intents, Chat!Kinds
<1>7. win' = [win EXCEPT ![w] = q]
  BY <1>3 DEF Chat!SaveAnswer, Chat!Idle
<1> HIDE DEF q
<1>8. Len(msgs') = n /\ msgs'[n] = m
  BY <1>0, <1>3, <1>4, <1>5 DEF ChatInv, ChatType
<1>9. \A j \in 1..Len(msgs') : j = Len(msgs) + 1 => NoteOk(j)'
  BY <1>2, <1>3, <1>8 DEF NoteOk, AfterSummaries
<1>10. TalkOk(q)'
  BY <1>3, <1>6, <1>8 DEF TalkOk
<1> QED
  BY <1>4, <1>5, <1>6, <1>7, <1>9, <1>10, TalkStep

(* What is sent to the model lies above the last summary that was seen.     *)
LEMMA StageIsOk ==
    ASSUME ChatInv, NEW w \in Windows, Chat!ReadStage(w)
    PROVE  ChatInv'
<1> DEFINE n == win[w].snap
           S == Chat!ToCompress(n)
<1>0. /\ win[w] \in Talk /\ TalkOk(win[w]) /\ n \in 0..Len(msgs) /\ Len(msgs) \in Nat
      /\ win[w].at = "stage" /\ msgs' = msgs
  BY OwnTalk DEF Chat!ReadStage
<1>1. S \subseteq Chat!Stage(n)
  BY DEF Chat!ToCompress, Chat!FirstOf
<1>2. \A k \in Chat!Stage(n) : k \in 1..n /\ msgs[k].dim > Chat!LastTurn(n, {"SUMMARY"})
  BY DEF Chat!Stage, Chat!Seen
<1>3. /\ Chat!LastTurn(n, {"SUMMARY"}) \in 0..n
      /\ \A i \in 1..n : msgs[i].type = "SUMMARY" => msgs[i].dim <= Chat!LastTurn(n, {"SUMMARY"})
  BY <1>0, LastTurnBounds
<1>4. \A i \in 1..n : msgs[i].dim \in Nat
  BY <1>0, NotesTyped
<1>5. AfterSummaries(S, n)
  <2> HIDE DEF S, n
  <2> QED
    BY <1>0, <1>1, <1>2, <1>3, <1>4 DEF AfterSummaries
<1>6. PICK rows \in SUBSET Nat, t \in Talk : rows = S /\ t = win[w]
  <2>1. S \in SUBSET Nat
    BY <1>0, <1>1, <1>2
  <2> QED
    BY <1>0, <2>1
<1>7. CASE S = {}
  <2>1. win' = [win EXCEPT ![w] = Chat!Idle]
    BY <1>7 DEF Chat!ReadStage
  <2>2. PICK q \in Talk : q = Chat!Idle /\ TalkOk(q)
    BY IdleTalk
  <2> QED
    BY <1>0, <2>1, <2>2, SilentStep
<1>8. CASE S # {}
  <2> DEFINE q == [[t EXCEPT !.at = "compress"] EXCEPT !.covers = rows]
  <2>1. q \in Talk /\ q.at = "compress" /\ q.covers = rows /\ q.snap = t.snap
    BY DEF Talk
  <2>2. win' = [win EXCEPT ![w] = q]
    BY <1>0, <1>6, <1>8 DEF Chat!ReadStage, ChatInv, ChatType
  <2> HIDE DEF q, S
  <2>3. TalkOk(q)
    BY <1>0, <1>5, <1>6, <2>1 DEF TalkOk, Talk
  <2> QED
    BY <1>0, <2>1, <2>2, <2>3, SilentStep
<1> QED
  BY <1>7, <1>8

LEMMA SummaryIsOk ==
    ASSUME ChatInv, NEW w \in Windows, Chat!SaveSummary(w)
    PROVE  ChatInv'
<1>0. /\ win[w] \in Talk /\ TalkOk(win[w]) /\ win[w].snap \in 0..Len(msgs) /\ Len(msgs) \in Nat
      /\ Chat!NextTurn(win[w].snap) \in 1..(win[w].snap + 1)
      /\ \A i \in 1..win[w].snap : msgs[i].dim \in Nat /\ msgs[i].dim < Chat!NextTurn(win[w].snap)
      /\ win[w].at = "compress"
  <2>1. \A i \in 1..Len(msgs) : msgs[i].dim \in Nat
    BY NotesTyped
  <2> QED
    BY <2>1, OwnTalk DEF Chat!SaveSummary
<1>1. PICK d \in Nat, rows \in SUBSET Nat, saw \in Nat :
        d = Chat!NextTurn(win[w].snap) - 1 /\ rows = win[w].covers /\ saw = win[w].snap
  <2>1. win[w].covers \in SUBSET Nat /\ win[w].snap \in Nat
    BY <1>0 DEF Talk
  <2>2. Chat!NextTurn(win[w].snap) - 1 \in Nat
    BY <1>0, <2>1
  <2> QED
    BY <2>1, <2>2
<1>2. /\ d <= Len(msgs) /\ saw <= Len(msgs) /\ AfterSummaries(rows, saw)
      /\ \A i \in 1..saw : msgs[i].dim <= d
  BY <1>0, <1>1 DEF TalkOk
<1> DEFINE m == [type |-> "SUMMARY", dim |-> d, text |-> "vague", to |-> 0, covers |-> rows, saw |-> saw]
<1>4. m \in Note
  BY DEF Note, Chat!AllTypes, Chat!Texts
<1>5. msgs' = Append(msgs, m)
  <2> DEFINE x == [type |-> "SUMMARY", dim |-> d, text |-> "vague", to |-> 0, covers |-> {}, saw |-> 0]
             y == [x EXCEPT !.covers = rows]
  <2>0. Chat!Message("SUMMARY", d) = x
    BY DEF Chat!Message
  <2>1. [Chat!Message("SUMMARY", d) EXCEPT !.covers = rows, !.saw = saw] = m
    <3>1. [x EXCEPT !.covers = rows, !.saw = saw] = [y EXCEPT !.saw = saw]
      OBVIOUS
    <3>2. y = [type |-> "SUMMARY", dim |-> d, text |-> "vague", to |-> 0, covers |-> rows, saw |-> 0]
      OBVIOUS
    <3> HIDE DEF y
    <3>3. [y EXCEPT !.saw = saw] = m
      BY <3>2
    <3> QED
      BY <2>0, <3>1, <3>3
  <2> QED
    BY <1>1, <2>1 DEF Chat!SaveSummary
<1>8. /\ Len(msgs') = Len(msgs) + 1 /\ msgs'[Len(msgs) + 1] = m
      /\ \A i \in 1..Len(msgs) : msgs'[i] = msgs[i]
  BY <1>0, <1>4, <1>5 DEF ChatInv, ChatType
<1>9. ASSUME NEW j \in 1..Len(msgs'), j = Len(msgs) + 1 PROVE NoteOk(j)'
  <2>1. msgs'[j] = m /\ \A i \in 1..saw : msgs'[i] = msgs[i]
    BY <1>0, <1>2, <1>8, <1>9
  <2>2. \A k \in rows : /\ k \in 1..saw
                        /\ \A i \in 1..saw : msgs[i].type = "SUMMARY" => msgs[i].dim < msgs[k].dim
    BY <1>2 DEF AfterSummaries
  <2>3. /\ msgs'[j].dim = d /\ msgs'[j].saw = saw /\ msgs'[j].type = "SUMMARY"
        /\ msgs'[j].covers = rows
    BY <2>1
  <2>4. \A k \in rows : msgs'[k] = msgs[k] /\ msgs[k].dim <= d
    BY <1>2, <2>1, <2>2
  <2>5. AfterSummaries(msgs[j].covers, msgs[j].saw)'
    BY <2>1, <2>2, <2>3, <2>4 DEF AfterSummaries
  <2>6. d <= j /\ saw < j
    BY <1>0, <1>2, <1>9
  <2> QED
    BY <2>3, <2>4, <2>5, <2>6 DEF NoteOk
<1>10. PICK q \in Talk : q = Chat!Idle
  BY IdleTalk
<1>11. win' = [win EXCEPT ![w] = q]
  BY <1>10 DEF Chat!SaveSummary
<1>12. TalkOk(q)'
  <2>1. q.at = "idle" /\ q.snap = 0
    BY <1>10 DEF Chat!Idle
  <2> QED
    BY <1>0, <1>8, <2>1 DEF TalkOk
<1> QED
  BY <1>4, <1>5, <1>9, <1>10, <1>11, <1>12, TalkStep

LEMMA ChatStep == ChatInv /\ [Chat!Next]_(Chat!vars) => ChatInv'
<1> SUFFICES ASSUME ChatInv, [Chat!Next]_(Chat!vars) PROVE ChatInv'
  OBVIOUS
<1>1. CASE UNCHANGED Chat!vars
  BY <1>1 DEF Chat!vars, ChatInv, ChatType, NoteOk, TalkOk, AfterSummaries, Greeted
<1>2. CASE Chat!Next
  BY <1>2, AskIsOk, QuestionIsOk, DecisionIsOk, LeavingIsOk, AnswerIsOk, StageIsOk, SummaryIsOk
  DEF Chat!Next
<1> QED
  BY <1>1, <1>2

(* However many windows talk at once, an answer is read after its question; *)
(* and what a summary covers, no later one covers that knew of it: it lies  *)
(* at or under the first one's number, and the second begins above it.      *)
THEOREM ConversationHoldsAlways == Chat!Spec => []ConversationHolds
<1>1. ChatInv => ConversationHolds
  <2> SUFFICES ASSUME ChatInv PROVE ConversationHolds
    OBVIOUS
  <2>1. Len(msgs) \in Nat /\ DOMAIN msgs = 1..Len(msgs) /\ \A j \in 1..Len(msgs) : msgs[j] \in Note
    BY DEF ChatInv, ChatType
  <2>2. Chat!AnswerFollowsQuestion
    BY <2>1 DEF ChatInv, NoteOk, Chat!AnswerFollowsQuestion
  <2>3. ASSUME NEW i \in 1..Len(msgs), NEW j \in 1..Len(msgs), i <= msgs[j].saw,
               NEW k \in msgs[i].covers, k \in msgs[j].covers
        PROVE  FALSE
    <3>1. NoteOk(i) /\ NoteOk(j) /\ msgs[j].saw \in Nat /\ msgs[i].saw \in Nat
      BY <2>1 DEF ChatInv, Note
    <3>2. msgs[i].type = "SUMMARY" /\ msgs[k].dim <= msgs[i].dim /\ k \in 1..msgs[i].saw
      BY <2>3, <3>1 DEF NoteOk, AfterSummaries
    <3>3. i \in 1..msgs[j].saw
      BY <2>3, <3>1
    <3>4. msgs[i].dim < msgs[k].dim
      BY <2>3, <3>1, <3>2, <3>3 DEF NoteOk, AfterSummaries
    <3>5. k \in 1..Len(msgs)
      BY <2>1, <3>1, <3>2 DEF NoteOk
    <3>6. msgs[k].dim \in Nat /\ msgs[i].dim \in Nat
      BY <2>1, <3>5 DEF Note
    <3> QED
      BY <3>2, <3>4, <3>6
  <2>4. Chat!CompressedOnce
    BY <2>1, <2>3 DEF Chat!CompressedOnce
  <2> QED
    BY <2>2, <2>4 DEF ConversationHolds, Chat!ConversationHolds
<1> QED
  BY <1>1, ChatBegins, ChatStep, PTL DEF Chat!Spec

(* With the rules in force the model answers from nothing only a sum, a     *)
(* greeting, or a follow-up after a greeting that the window had seen.      *)
THEOREM GroundedAnswerHolds == Chat!Spec => []GroundedAnswer
<1>1. ChatInv => GroundedAnswer
  <2>1. ASSUME ChatInv, NEW w \in Windows, OverrideEnabled, win[w].at = "reply", win[w].kind = "free"
        PROVE  win[w].text = "sum" \/ Greeted(win[w])
    BY <2>1 DEF ChatInv, TalkOk
  <2> QED
    BY <2>1 DEF GroundedAnswer, Chat!GroundedAnswer, Greeted
<1> QED
  BY <1>1, ChatBegins, ChatStep, PTL DEF Chat!Spec

-----------------------------------------------------------------------------
(* Splitting.  What a tag looks like: "<" begins it, and stands nowhere    *)
(* else in it.                                                             *)
Marks == {Split!ThinkingOpen, Split!ThinkingClose, Split!AnswerOpen, Split!AnswerClose}

LEMMA TagLengths ==
    /\ Len(Split!ThinkingOpen) = 3 /\ Len(Split!ThinkingClose) = 4
    /\ Len(Split!AnswerOpen) = 3 /\ Len(Split!AnswerClose) = 4
BY DEF Split!ThinkingOpen, Split!ThinkingClose, Split!AnswerOpen, Split!AnswerClose

LEMMA TagStarts ==
    /\ Split!ThinkingOpen[1] = "<" /\ Split!ThinkingClose[1] = "<"
    /\ Split!AnswerOpen[1] = "<" /\ Split!AnswerClose[1] = "<"
    /\ Split!ThinkingOpen[2] = "T" /\ Split!AnswerOpen[2] = "A"
    /\ Split!ThinkingOpen[3] = ">" /\ Split!AnswerOpen[3] = ">"
BY DEF Split!ThinkingOpen, Split!ThinkingClose, Split!AnswerOpen, Split!AnswerClose

LEMMA TagInside ==
    \A tag \in Marks : \A k \in 2..Len(tag) : tag[k] # "<"
<1>1. \A k \in 2..3 : Split!ThinkingOpen[k] # "<"
  BY DEF Split!ThinkingOpen
<1>2. \A k \in 2..3 : Split!AnswerOpen[k] # "<"
  BY DEF Split!AnswerOpen
<1>3. \A k \in 2..4 : Split!ThinkingClose[k] # "<"
  BY DEF Split!ThinkingClose
<1>4. \A k \in 2..4 : Split!AnswerClose[k] # "<"
  BY DEF Split!AnswerClose
<1> QED
  BY <1>1, <1>2, <1>3, <1>4, TagLengths DEF Marks

(* The types, and what has been taken: it is blank, part of a tag, or sent. *)
SplitTypes ==
    /\ written \in Seq(STRING)
    /\ fed \in 0..Len(written) /\ head \in 0..fed
    /\ part \in {"neither", "thinking", "answer"}
    /\ ever \in BOOLEAN
    /\ reasoning \in SUBSET (1..head) /\ answer \in SUBSET (1..head)
    /\ splitting \in {"idle", "loop", "over"}

Taken ==
    \A i \in 1..head : written[i] = Split!Blank \/ i \in Split!Marked \/ i \in reasoning \cup answer

LostInv ==
    /\ SplitTypes
    /\ Taken
    /\ ~ever => part = "neither" /\ (splitting # "over" => reasoning = answer)
    /\ splitting = "over" =>
           /\ fed = Len(written) /\ head = fed
           /\ Split!Says(reasoning) => answer # {}

(* The first place of a tag in the buffer, and what that makes of it.      *)
LEMMA FoundIs ==
    ASSUME SplitTypes, NEW tag \in Marks, Split!Found(tag)
    PROVE  \E p \in Split!Places(tag) :
               /\ Split!Before(tag) = head + 1 .. p - 1
               /\ Split!After(tag) = p + Len(tag) - 1
               /\ Split!After(tag) \in head + 1 .. fed
               /\ \A i \in p .. Split!After(tag) : i \in Split!Marked
<1> DEFINE P == Split!Places(tag)
           p == Split!Min(P)
<1>0. head \in Nat /\ fed \in Nat /\ fed <= Len(written) /\ Len(written) \in Nat
  BY DEF SplitTypes
<1>1. P \in SUBSET Nat /\ P # {}
  BY <1>0 DEF Split!Places, Split!Found
<1>2. p \in P
  <2> HIDE DEF P
  <2>1. \E n \in P : \A m \in P : n <= m
    BY <1>1, Least
  <2> QED
    BY <2>1 DEF Split!Min
<1>3. p \in head + 1 .. fed /\ Split!At(tag, p)
  BY <1>2 DEF Split!Places
<1>4. Len(tag) \in 3..4
  BY TagLengths DEF Marks
<1>5. p + Len(tag) - 1 \in head + 1 .. fed
  <2> HIDE DEF p
  <2>1. p + Len(tag) - 1 <= fed
    BY <1>3 DEF Split!At
  <2> DEFINE l == Len(tag)
  <2>2. l \in 3..4 /\ p + l - 1 <= fed
    BY <1>4, <2>1
  <2> HIDE DEF l
  <2>3. p + l - 1 \in head + 1 .. fed
    BY <1>0, <1>3, <2>2
  <2> QED
    BY <2>3 DEF l
<1>6. \A i \in p .. p + Len(tag) - 1 : i \in Split!Marked
  <2> HIDE DEF p
  <2>1. p \in Split!Opens(tag)
    BY <1>0, <1>3 DEF Split!Opens
  <2> QED
    BY <2>1 DEF Split!Marked, Split!TagsOf, Marks
<1> QED
  BY <1>2, <1>5, <1>6 DEF Split!Before, Split!After

(* How much may be half a tag.                                             *)
LEMMA HalfIs ==
    ASSUME SplitTypes, NEW tag \in Marks
    PROVE  /\ Split!Half(tag) \in 0..Len(tag) /\ Split!Half(tag) <= fed - head
           /\ \A n \in 1..Len(tag) :
                  n <= fed - head /\ Split!Begins(tag, n, fed - n + 1) => n <= Split!Half(tag)
           /\ Split!Half(tag) > 0 =>
                  Split!Begins(tag, Split!Half(tag), fed - Split!Half(tag) + 1)
<1> DEFINE H == {n \in 1..Len(tag) : n <= fed - head /\ Split!Begins(tag, n, fed - n + 1)}
           S == {0} \cup H
           m == Split!Max(S)
<1>0. head \in Nat /\ fed \in Nat /\ head <= fed /\ Len(tag) \in Nat
  BY TagLengths DEF SplitTypes, Marks
<1>1. S \in SUBSET (0..Len(tag)) /\ 0 \in S
  BY <1>0
<1>2. m \in S /\ \A n \in S : n <= m
  <2> HIDE DEF S
  <2>1. \E x \in S : \A n \in S : n <= x
    BY <1>0, <1>1, Greatest
  <2>2. \E x \in S : \A n \in S : x >= n
    BY <1>0, <1>1, <2>1
  <2>3. m \in S /\ \A n \in S : m >= n
    BY <2>2 DEF Split!Max
  <2> HIDE DEF m
  <2> QED
    BY <1>0, <1>1, <2>3
<1>3. Split!Half(tag) = m
  BY DEF Split!Half
<1> HIDE DEF m
<1> QED
  BY <1>0, <1>2, <1>3

LEMMA HalfOpenIs ==
    ASSUME SplitTypes
    PROVE  Split!HalfOpen \in Nat /\ Split!HalfOpen <= fed - head
<1>1. Split!ThinkingOpen \in Marks /\ Split!AnswerOpen \in Marks
  BY DEF Marks
<1>2. Split!Half(Split!ThinkingOpen) \in Nat /\ Split!Half(Split!AnswerOpen) \in Nat
  BY <1>1, HalfIs, TagLengths
<1> QED
  BY <1>1, <1>2, HalfIs DEF Split!HalfOpen

-----------------------------------------------------------------------------
(* What is marked once stays so.                                           *)
LEMMA MarkedGrows ==
    ASSUME UNCHANGED written, fed \in Nat, fed' \in Nat, fed <= fed'
    PROVE  \A i \in Split!Marked : i \in Split!Marked'
<1>1. ASSUME NEW tag \in Marks PROVE \A p \in Split!Opens(tag) : p \in Split!Opens(tag)'
  <2> SUFFICES ASSUME NEW p \in Split!Opens(tag) PROVE p \in Split!Opens(tag)'
    OBVIOUS
  <2>1. p \in 1..Len(written) /\ p + Len(tag) - 1 <= fed /\ Split!Begins(tag, Len(tag), p)
    BY DEF Split!Opens, Split!At
  <2>2. Split!Begins(tag, Len(tag), p)'
    BY <2>1 DEF Split!Begins
  <2>3. p + Len(tag) - 1 \in Int
    BY <2>1, TagLengths DEF Marks
  <2>4. p + Len(tag) - 1 <= fed'
    <3> DEFINE x == p + Len(tag) - 1
    <3>1. x \in Int /\ x <= fed
      BY <2>1, <2>3
    <3> HIDE DEF x
    <3>2. x <= fed'
      BY <3>1
    <3> QED
      BY <3>2 DEF x
  <2> QED
    BY <2>1, <2>2, <2>4 DEF Split!Opens, Split!At
<1>2. ASSUME NEW tag \in Marks PROVE \A i \in Split!TagsOf(tag) : i \in Split!TagsOf(tag)'
  BY <1>1 DEF Split!TagsOf
<1> QED
  BY <1>2 DEF Split!Marked, Marks

LEMMA LostStarts == Split!Init => LostInv
<1> SUFFICES ASSUME Split!Init PROVE LostInv
  OBVIOUS
<1>1. PICK t \in Answers : Split!Start(t)
  BY DEF Split!Init
<1>2. written \in Seq(STRING)
  BY <1>1, SplitAssumption DEF Split!TextsAssumption, Split!Start
<1>3. Len(written) \in Nat
  BY <1>2
<1>4. /\ fed = 0 /\ head = 0 /\ part = "neither" /\ ever = FALSE /\ splitting = "idle"
      /\ reasoning = {} /\ answer = {}
  BY <1>1 DEF Split!Start
<1>5. SplitTypes
  <2>1. fed \in 0..Len(written) /\ head \in 0..fed
    BY <1>3, <1>4
  <2> QED
    BY <1>2, <1>4, <2>1 DEF SplitTypes
<1> QED
  BY <1>4, <1>5 DEF LostInv, Taken

LEMMA IntervalSplits ==
    \A h, k \in Nat : \A i \in 1..k : i \in 1..h \/ i \in h + 1 .. k
OBVIOUS

(* A part of the buffer that is taken, and sent unless it is blank or a    *)
(* tag, leaves nothing untaken.                                            *)
LEMMA TakesOn ==
    ASSUME Taken, UNCHANGED <<written, fed>>, head \in Nat, head' \in Nat,
           reasoning \subseteq reasoning', answer \subseteq answer',
           \A i \in head + 1 .. head' :
               written[i] = Split!Blank \/ i \in Split!Marked \/ i \in reasoning' \cup answer'
    PROVE  Taken'
<1>1. Split!Marked' = Split!Marked
  <2>1. \A tag, p : Split!At(tag, p)' <=> Split!At(tag, p)
    BY DEF Split!At, Split!Begins
  <2>2. \A tag : Split!Opens(tag)' = Split!Opens(tag)
    BY <2>1 DEF Split!Opens
  <2>3. \A tag : Split!TagsOf(tag)' = Split!TagsOf(tag)
    BY <2>2 DEF Split!TagsOf
  <2> QED
    BY <2>3 DEF Split!Marked
<1>2. \A i \in 1..head' : i \in 1..head \/ i \in head + 1 .. head'
  BY IntervalSplits, Zenon
<1> QED
  BY <1>1, <1>2 DEF Taken

LEMMA LostFeed ==
    ASSUME LostInv, NEW n \in 1..Len(written), Split!Feed(n) PROVE LostInv'
<1>1. /\ splitting = "idle" /\ n \in 1..Len(written) - fed /\ fed' = fed + n
      /\ splitting' = "loop" /\ UNCHANGED <<written, head, part, ever, reasoning, answer>>
  BY DEF Split!Feed
<1>2. fed \in Nat /\ Len(written) \in Nat /\ head \in Nat /\ head <= fed
  BY DEF LostInv, SplitTypes
<1>3. fed' \in 0..Len(written) /\ head \in 0..fed' /\ fed <= fed' /\ fed' \in Nat
  BY <1>1, <1>2
<1>4. \A i \in Split!Marked : i \in Split!Marked'
  BY <1>1, <1>2, <1>3, MarkedGrows
<1>5. Taken'
  BY <1>1, <1>4 DEF LostInv, Taken
<1>6. SplitTypes'
  BY <1>1, <1>3 DEF LostInv, SplitTypes
<1> QED
  BY <1>1, <1>5, <1>6 DEF LostInv

(* A turn of the loop, which sends a segment as some kinds.                *)
Turn(p, goesOn, kinds, segment) ==
    /\ splitting = "loop"
    /\ p \in head..fed /\ segment \subseteq 1..p
    /\ Split!TakeTo(p, goesOn) /\ Split!Send(kinds, segment)
    /\ UNCHANGED <<written, fed>>

LEMMA TurnBounds ==
    ASSUME NEW l \in Nat, NEW f \in 0..l, NEW h \in 0..f, NEW p \in h..f
    PROVE  /\ h \in Nat /\ f \in Nat /\ p \in Nat /\ h <= p /\ p <= f
           /\ p \in 0..f /\ \A i \in 1..h : i \in 1..p
OBVIOUS

LEMMA LengthIsNat == \A s \in Seq(STRING) : Len(s) \in Nat
OBVIOUS

LEMMA LostTurn ==
    ASSUME LostInv, NEW p, NEW goesOn, NEW kinds, NEW segment, Turn(p, goesOn, kinds, segment),
           kinds \in {{"reasoning"}, {"answer"}, {"reasoning", "answer"}},
           part' \in {"neither", "thinking", "answer"}, ever' \in BOOLEAN,
           ~ever' => ~ever /\ part' = "neither" /\ kinds = {"reasoning", "answer"},
           \A i \in head + 1 .. p :
               written[i] = Split!Blank \/ i \in Split!Marked \/ i \in segment
    PROVE  LostInv'
<1>1. /\ head' = p /\ splitting' \in {"idle", "loop"} /\ splitting = "loop"
      /\ p \in head..fed /\ segment \subseteq 1..p /\ UNCHANGED <<written, fed>>
  BY DEF Turn, Split!TakeTo
<1>2. /\ reasoning' = IF "reasoning" \in kinds THEN reasoning \cup segment ELSE reasoning
      /\ answer' = IF "answer" \in kinds THEN answer \cup segment ELSE answer
  BY DEF Turn, Split!Send
<1>3. Len(written) \in Nat /\ fed \in 0..Len(written) /\ head \in 0..fed
  BY LengthIsNat DEF LostInv, SplitTypes
<1>4. /\ head \in Nat /\ fed \in Nat /\ p \in Nat /\ head <= p /\ p <= fed
      /\ p \in 0..fed /\ \A i \in 1..head : i \in 1..p
  BY <1>1, <1>3, TurnBounds, Zenon
<1>5. reasoning \subseteq reasoning' /\ answer \subseteq answer' /\ segment \subseteq reasoning' \cup answer'
  BY <1>2
<1>6. Taken'
  BY <1>1, <1>4, <1>5, TakesOn DEF LostInv
<1>7. reasoning' \in SUBSET (1..p) /\ answer' \in SUBSET (1..p)
  <2>1. reasoning \in SUBSET (1..p) /\ answer \in SUBSET (1..p)
    BY <1>4, Zenon DEF LostInv, SplitTypes
  <2> QED
    BY <1>1, <1>2, <2>1
<1>8. SplitTypes'
  BY <1>1, <1>3, <1>4, <1>7, Zenon DEF LostInv, SplitTypes
<1>9. ~ever' => part' = "neither" /\ (splitting' # "over" => reasoning' = answer')
  <2> SUFFICES ASSUME ~ever' PROVE part' = "neither" /\ reasoning' = answer'
    OBVIOUS
  <2>1. reasoning = answer /\ kinds = {"reasoning", "answer"}
    BY <1>1, Zenon DEF LostInv
  <2> QED
    BY <1>2, <2>1
<1> QED
  BY <1>1, <1>6, <1>8, <1>9 DEF LostInv

(* What is taken with a tag, and what without one.                         *)
LEMMA CutAt ==
    ASSUME NEW h \in Nat, NEW f \in Nat, NEW p \in h + 1 .. f, NEW a \in h + 1 .. f,
           NEW M, \A i \in p..a : i \in M
    PROVE  /\ a \in h..f /\ (h + 1 .. p - 1) \subseteq 1..f
           /\ p - 1 <= a => (h + 1 .. p - 1) \subseteq 1..a
           /\ \A i \in h + 1 .. a : i \in h + 1 .. p - 1 \/ i \in M
           /\ \A i \in h + 1 .. f : i \in h + 1 .. a \/ i \in a + 1 .. f
           /\ (a + 1 .. f) \subseteq 1..f /\ f \in h..f
<1>1. \A i \in h + 1 .. a : i \in h + 1 .. p - 1 \/ i \in p..a
  OBVIOUS
<1> QED
  BY <1>1

LEMMA FoundTakes ==
    ASSUME SplitTypes, NEW tag \in Marks, Split!Found(tag)
    PROVE  /\ Split!After(tag) \in head..fed /\ fed \in head..fed
           /\ Split!Before(tag) \subseteq 1..Split!After(tag)
           /\ Split!Before(tag) \subseteq 1..fed /\ (Split!After(tag) + 1 .. fed) \subseteq 1..fed
           /\ \A i \in head + 1 .. Split!After(tag) :
                  i \in Split!Before(tag) \/ i \in Split!Marked
           /\ \A i \in head + 1 .. fed :
                  i \in head + 1 .. Split!After(tag) \/ i \in Split!After(tag) + 1 .. fed
<1>1. head \in Nat /\ fed \in Nat
  BY DEF SplitTypes
<1>2. PICK p \in Split!Places(tag) :
          /\ Split!Before(tag) = head + 1 .. p - 1
          /\ Split!After(tag) = p + Len(tag) - 1
          /\ Split!After(tag) \in head + 1 .. fed
          /\ \A i \in p .. Split!After(tag) : i \in Split!Marked
  BY FoundIs
<1>3. p \in head + 1 .. fed
  BY DEF Split!Places
<1>4. p - 1 <= Split!After(tag)
  <2>1. Len(tag) \in 3..4
    BY TagLengths DEF Marks
  <2> DEFINE l == Len(tag)
  <2> HIDE DEF l
  <2>2. p - 1 <= p + l - 1
    BY <1>1, <1>3, <2>1 DEF l
  <2> QED
    BY <1>2, <2>2 DEF l
<1> DEFINE a == Split!After(tag)
<1> HIDE DEF a
<1>5. /\ a \in head + 1 .. fed /\ \A i \in p..a : i \in Split!Marked
      /\ p - 1 <= a /\ Split!Before(tag) = head + 1 .. p - 1
  BY <1>2, <1>4 DEF a
<1> QED
  BY <1>1, <1>3, <1>5, CutAt DEF a

LEMMA RestTakes ==
    ASSUME NEW h \in Nat, NEW f \in Nat, h <= f, NEW half \in Nat, half <= f - h
    PROVE  f - half \in h..f /\ (h + 1 .. f - half) \subseteq 1 .. f - half
OBVIOUS

LEMMA LostRest ==
    ASSUME LostInv, splitting = "loop", NEW kinds, NEW half \in Nat, half <= fed - head,
           kinds \in {{"reasoning"}, {"answer"}, {"reasoning", "answer"}},
           ~ever => kinds = {"reasoning", "answer"},
           Split!SendRest(kinds, half), UNCHANGED <<written, fed>>
    PROVE  LostInv'
<1> DEFINE segment == head + 1 .. fed - half
<1>1. head \in Nat /\ fed \in Nat /\ head <= fed
  BY DEF LostInv, SplitTypes
<1>2. fed - half \in head..fed /\ segment \subseteq 1 .. fed - half
  BY <1>1, RestTakes
<1>3. /\ Split!TakeTo(fed - half, FALSE) /\ Split!Send(kinds, segment)
      /\ UNCHANGED <<part, ever>>
  BY DEF Split!SendRest
<1>4. Turn(fed - half, FALSE, kinds, segment)
  BY <1>2, <1>3 DEF Turn
<1>5. part' \in {"neither", "thinking", "answer"} /\ ever' \in BOOLEAN
      /\ (~ever' => ~ever /\ part' = "neither")
  BY <1>3 DEF LostInv, SplitTypes
<1> QED
  BY <1>3, <1>4, <1>5, LostTurn

LEMMA LostAnswer ==
    ASSUME LostInv, Split!InAnswer PROVE LostInv'
<1>1. splitting = "loop" /\ part = "answer" /\ UNCHANGED <<written, fed>> /\ ever /\ SplitTypes
  BY DEF Split!InAnswer, LostInv, SplitTypes
<1>2. Split!AnswerClose \in Marks
  BY DEF Marks
<1>3. CASE Split!Found(Split!AnswerClose)
  <2> DEFINE segment == Split!Before(Split!AnswerClose)
                            \cup (Split!After(Split!AnswerClose) + 1 .. fed)
  <2>1. Split!Send({"answer"}, segment) /\ Split!TakeTo(fed, FALSE) /\ part' = "neither" /\ ever' = ever
    BY <1>3 DEF Split!InAnswer
  <2>2. /\ fed \in head..fed /\ segment \subseteq 1..fed
        /\ \A i \in head + 1 .. fed : i \in Split!Marked \/ i \in segment
    BY <1>1, <1>2, <1>3, FoundTakes
  <2>3. Turn(fed, FALSE, {"answer"}, segment)
    BY <1>1, <2>1, <2>2 DEF Turn
  <2> HIDE DEF segment
  <2> QED
    BY <1>1, <2>1, <2>2, <2>3, LostTurn
<1>4. CASE ~Split!Found(Split!AnswerClose)
  <2>1. Split!SendRest({"answer"}, Split!Half(Split!AnswerClose))
    BY <1>4 DEF Split!InAnswer
  <2>2. Split!Half(Split!AnswerClose) \in Nat /\ Split!Half(Split!AnswerClose) <= fed - head
    BY <1>1, <1>2, HalfIs, TagLengths
  <2> QED
    BY <1>1, <2>1, <2>2, LostRest
<1> QED
  BY <1>3, <1>4

LEMMA LostThinking ==
    ASSUME LostInv, Split!InThinking PROVE LostInv'
<1>1. splitting = "loop" /\ part = "thinking" /\ UNCHANGED <<written, fed>> /\ ever /\ SplitTypes
  BY DEF Split!InThinking, LostInv, SplitTypes
<1>2. Split!ThinkingClose \in Marks /\ Split!AnswerOpen \in Marks
  BY DEF Marks
<1>3. CASE \E tag \in {Split!ThinkingClose, Split!AnswerOpen} : Split!Found(tag)
  <2> DEFINE tag == IF Split!Found(Split!ThinkingClose) THEN Split!ThinkingClose ELSE Split!AnswerOpen
  <2>1. /\ Split!Send({"reasoning"}, Split!Before(tag)) /\ Split!TakeTo(Split!After(tag), TRUE)
        /\ part' = (IF tag = Split!AnswerOpen THEN "answer" ELSE "neither") /\ ever' = ever
    BY <1>3 DEF Split!InThinking
  <2>2. tag \in Marks /\ Split!Found(tag)
    BY <1>2, <1>3
  <2> HIDE DEF tag
  <2>3. /\ Split!After(tag) \in head..fed /\ Split!Before(tag) \subseteq 1..Split!After(tag)
        /\ \A i \in head + 1 .. Split!After(tag) : i \in Split!Marked \/ i \in Split!Before(tag)
    BY <1>1, <2>2, FoundTakes
  <2>4. Turn(Split!After(tag), TRUE, {"reasoning"}, Split!Before(tag))
    BY <1>1, <2>1, <2>3 DEF Turn
  <2> QED
    BY <1>1, <2>1, <2>3, <2>4, LostTurn
<1>4. CASE ~\E tag \in {Split!ThinkingClose, Split!AnswerOpen} : Split!Found(tag)
  <2>1. Split!SendRest({"reasoning"}, Split!Half(Split!ThinkingClose))
    BY <1>4 DEF Split!InThinking
  <2>2. Split!Half(Split!ThinkingClose) \in Nat /\ Split!Half(Split!ThinkingClose) <= fed - head
    BY <1>1, <1>2, HalfIs, TagLengths
  <2> QED
    BY <1>1, <2>1, <2>2, LostRest
<1> QED
  BY <1>3, <1>4

(* The tag that opens a part, when none is open.                           *)
Opens == IF /\ Split!Found(Split!AnswerOpen)
            /\ Split!Found(Split!ThinkingOpen) =>
                   Split!After(Split!AnswerOpen) < Split!After(Split!ThinkingOpen)
         THEN "answer" ELSE "thinking"
OpenTag == IF Opens = "answer" THEN Split!AnswerOpen ELSE Split!ThinkingOpen
SaidBefore == IF Split!Says(Split!Before(OpenTag)) THEN Split!Before(OpenTag) ELSE {}

LEMMA BetweenTakes ==
    ASSUME Split!Between, \E tag \in {Split!AnswerOpen, Split!ThinkingOpen} : Split!Found(tag)
    PROVE  /\ Split!Send({IF Opens = "answer" THEN "reasoning" ELSE "answer"}, SaidBefore)
           /\ Split!TakeTo(Split!After(OpenTag), TRUE)
           /\ part' = Opens /\ ever' = TRUE
           /\ OpenTag \in Marks /\ Split!Found(OpenTag) /\ Opens \in {"answer", "thinking"}
<1>1. /\ Split!Send({IF Opens = "answer" THEN "reasoning" ELSE "answer"}, SaidBefore)
      /\ Split!TakeTo(Split!After(OpenTag), TRUE)
      /\ part' = Opens /\ ever' = TRUE
  BY DEF Split!Between, Opens, OpenTag, SaidBefore
<1>2. OpenTag \in Marks /\ Split!Found(OpenTag) /\ Opens \in {"answer", "thinking"}
  BY DEF Opens, OpenTag, Marks
<1> QED
  BY <1>1, <1>2

LEMMA LostBetween ==
    ASSUME LostInv, Split!Between PROVE LostInv'
<1>1. splitting = "loop" /\ UNCHANGED <<written, fed>> /\ SplitTypes
  BY DEF Split!Between, LostInv
<1>2. CASE \E tag \in {Split!AnswerOpen, Split!ThinkingOpen} : Split!Found(tag)
  <2> DEFINE kinds == {IF Opens = "answer" THEN "reasoning" ELSE "answer"}
             p == Split!After(OpenTag)
  <2>1. /\ Split!Send(kinds, SaidBefore) /\ Split!TakeTo(p, TRUE)
        /\ part' = Opens /\ ever' = TRUE
        /\ OpenTag \in Marks /\ Split!Found(OpenTag) /\ Opens \in {"answer", "thinking"}
    BY <1>2, BetweenTakes
  <2>2. /\ p \in head..fed /\ Split!Before(OpenTag) \subseteq 1..p
        /\ \A i \in head + 1 .. p : i \in Split!Marked \/ i \in Split!Before(OpenTag)
    BY <1>1, <2>1, FoundTakes
  <2>3. kinds \in {{"reasoning"}, {"answer"}, {"reasoning", "answer"}}
    BY <2>1
  <2> HIDE DEF kinds, p
  <2>4. Turn(p, TRUE, kinds, SaidBefore)
    BY <1>1, <2>1, <2>2 DEF Turn, SaidBefore
  <2>5. \A i \in head + 1 .. p :
           written[i] = Split!Blank \/ i \in Split!Marked \/ i \in SaidBefore
    BY <2>2 DEF SaidBefore, Split!Says
  <2> QED
    BY <2>1, <2>3, <2>4, <2>5, LostTurn
<1>3. CASE ~\E tag \in {Split!AnswerOpen, Split!ThinkingOpen} : Split!Found(tag)
  <2> DEFINE kinds == IF ever THEN {"answer"} ELSE {"reasoning", "answer"}
  <2>1. Split!SendRest(kinds, Split!HalfOpen)
    BY <1>3 DEF Split!Between
  <2>2. Split!HalfOpen \in Nat /\ Split!HalfOpen <= fed - head
    BY <1>1, HalfOpenIs
  <2>3. kinds \in {{"reasoning"}, {"answer"}, {"reasoning", "answer"}}
        /\ (~ever => kinds = {"reasoning", "answer"})
    OBVIOUS
  <2> HIDE DEF kinds
  <2> QED
    BY <1>1, <2>1, <2>2, <2>3, LostRest
<1> QED
  BY <1>2, <1>3

LEMMA LostFlush ==
    ASSUME LostInv, Split!Flush PROVE LostInv'
<1>1. /\ splitting = "idle" /\ fed = Len(written) /\ head' = fed /\ splitting' = "over"
      /\ answer' = answer \cup Split!Flushed
      /\ UNCHANGED <<written, fed, part, ever, reasoning>>
  BY DEF Split!Flush
<1>2. /\ head \in Nat /\ fed \in Nat /\ head <= fed /\ fed \in 0..fed /\ fed \in 0..Len(written)
      /\ \A i \in 1..head : i \in 1..fed
  BY DEF LostInv, SplitTypes
<1>3. Split!Flushed \subseteq 1..fed
  <2>1. (head + 1 .. fed) \subseteq 1..fed
    BY <1>2
  <2>2. reasoning \subseteq 1..fed
    BY <1>2, Zenon DEF LostInv, SplitTypes
  <2> QED
    BY <2>1, <2>2 DEF Split!Flushed
<1>4. reasoning' \in SUBSET (1..head') /\ answer' \in SUBSET (1..head')
  BY <1>1, <1>2, <1>3, Zenon DEF LostInv, SplitTypes
<1>5. SplitTypes'
  BY <1>1, <1>2, <1>4, Zenon DEF LostInv, SplitTypes
<1>6. Taken'
  <2>1. \A i \in head + 1 .. head' : i \in answer'
    BY <1>1, <1>2 DEF Split!Flushed
  <2>2. \A i \in head + 1 .. head' :
           written[i] = Split!Blank \/ i \in Split!Marked \/ i \in reasoning' \cup answer'
    BY <2>1, Zenon
  <2> QED
    BY <1>1, <1>2, <2>2, TakesOn DEF LostInv
<1>7. Split!Says(reasoning)' => answer' # {}
  <2> SUFFICES ASSUME Split!Says(reasoning)', answer' = {} PROVE FALSE
    OBVIOUS
  <2>1. reasoning # {} /\ answer = {} /\ Split!Flushed = {}
    BY <1>1 DEF Split!Says
  <2>2. head = fed
    BY <1>2, <2>1 DEF Split!Flushed
  <2>3. ever
    BY <1>1, <2>1 DEF LostInv
  <2>4. ~(head < fed)
    BY <1>2, <2>2
  <2> QED
    BY <2>1, <2>3, <2>4 DEF Split!Flushed
<1> QED
  BY <1>1, <1>5, <1>6, <1>7 DEF LostInv

LEMMA LostStep == LostInv /\ [Split!Next]_Split!vars => LostInv'
<1> SUFFICES ASSUME LostInv, [Split!Next]_Split!vars PROVE LostInv'
  OBVIOUS
<1>1. CASE \E n \in 1..Len(written) : Split!Feed(n)
  BY <1>1, LostFeed
<1>2. CASE UNCHANGED Split!vars
  <2>1. UNCHANGED <<written, fed, head, part, ever, reasoning, answer, splitting>>
    BY <1>2 DEF Split!vars
  <2>2. Taken'
    <3>1. head \in Nat /\ \A i \in head + 1 .. head : FALSE
      BY DEF LostInv, SplitTypes
    <3>2. \A i \in head + 1 .. head' : FALSE
      BY <2>1, <3>1, Zenon
    <3> QED
      BY <2>1, <3>1, <3>2, TakesOn DEF LostInv
  <2>3. SplitTypes'
    BY <2>1 DEF LostInv, SplitTypes
  <2> QED
    BY <2>1, <2>2, <2>3 DEF LostInv, Split!Says
<1> QED
  BY <1>1, <1>2, LostAnswer, LostThinking, LostBetween, LostFlush DEF Split!Next

LEMMA NothingLost == LostInv => Split!NothingIsLost
BY DEF LostInv, Split!NothingIsLost, SplitTypes, Taken, Split!Said, Split!Says

-----------------------------------------------------------------------------
(* A text that is written as it was asked for: <thinking> at t, </thinking> *)
(* at c (0 both, if there is no thinking), <answer> at a, </answer> at b.   *)
Stands(tag, p) ==
    /\ p \in 1..Len(written) /\ p + Len(tag) - 1 <= Len(written)
    /\ Split!Begins(tag, Len(tag), p)

Only(tag, x) == Stands(tag, x) /\ \A p : Stands(tag, p) => p = x

Absent(tag) == \A p : ~Stands(tag, p)

Laid(t, c, a, b) ==
    /\ t \in Nat /\ c \in Nat /\ a \in Nat /\ b \in Nat
    /\ IF t = 0 THEN c = 0 /\ Absent(Split!ThinkingOpen) /\ Absent(Split!ThinkingClose)
       ELSE /\ Only(Split!ThinkingOpen, t) /\ Only(Split!ThinkingClose, c)
            /\ t + 3 <= c /\ c + 4 <= a
    /\ Only(Split!AnswerOpen, a) /\ Only(Split!AnswerClose, b) /\ a + 3 <= b
    /\ \A i \in 1..Len(written) :
           written[i] # Split!Blank => (t # 0 /\ t <= i /\ i <= c + 3) \/ (a <= i /\ i <= b + 3)
    /\ \E i \in 1..Len(written) : a + 3 <= i /\ i < b /\ written[i] # Split!Blank

(* What is said of a segment that was sent stands between two places.      *)
Holds(sent, from, to) ==
    \A i \in 1..Len(written) : written[i] # Split!Blank => (i \in sent <=> from <= i /\ i <= to)

First(t, a) == IF t = 0 THEN a ELSE t

(* The stages of the splitting of such a text.                             *)
BeforeAll(t, c, a, b) ==
    /\ part = "neither" /\ ~ever
    /\ Holds(reasoning, 1, 0) /\ Holds(answer, 1, 0)
    /\ head < First(t, a) /\ (splitting = "idle" => fed < First(t, a) + 2)

Thinking(t, c, a, b) ==
    /\ t # 0 /\ part = "thinking" /\ ever
    /\ Holds(reasoning, t + 3, head) /\ Holds(answer, 1, 0)
    /\ t + 2 <= head /\ head < c /\ (splitting = "idle" => fed < c + 3)

BetweenParts(t, c, a, b) ==
    /\ t # 0 /\ part = "neither" /\ ever
    /\ Holds(reasoning, t + 3, c - 1) /\ Holds(answer, 1, 0)
    /\ c + 3 <= head /\ head < a /\ (splitting = "idle" => fed < a + 2)

Answering(t, c, a, b) ==
    /\ part = "answer" /\ ever
    /\ Holds(reasoning, t + 3, c - 1) /\ Holds(answer, a + 3, head)
    /\ a + 2 <= head /\ head < b /\ (splitting = "idle" => fed < b + 3)

AfterAll(t, c, a, b) ==
    /\ part = "neither" /\ ever
    /\ Holds(reasoning, t + 3, c - 1) /\ Holds(answer, a + 3, b - 1)
    /\ b + 3 <= head

Stage(t, c, a, b) ==
    \/ splitting # "over" /\ BeforeAll(t, c, a, b)
    \/ splitting # "over" /\ Thinking(t, c, a, b)
    \/ splitting # "over" /\ BetweenParts(t, c, a, b)
    \/ splitting # "over" /\ Answering(t, c, a, b)
    \/ AfterAll(t, c, a, b)

LEMMA OnlyTells ==
    ASSUME SplitTypes, NEW tag \in Marks, NEW x \in Nat, Only(tag, x)
    PROVE  /\ head < x /\ x + Len(tag) - 1 <= fed =>
                  /\ Split!Found(tag) /\ Split!Before(tag) = head + 1 .. x - 1
                  /\ Split!After(tag) = x + Len(tag) - 1
           /\ ~(head < x /\ x + Len(tag) - 1 <= fed) => ~Split!Found(tag)
<1> DEFINE P == Split!Places(tag)
<1>0. /\ head \in Nat /\ fed \in Nat /\ fed <= Len(written) /\ head <= fed /\ Len(written) \in Nat
  BY DEF SplitTypes
<1>1. Len(tag) \in 3..4
  BY TagLengths DEF Marks
<1>2. ASSUME NEW p \in P PROVE p = x /\ head < x /\ x + Len(tag) - 1 <= fed
  <2>1. p \in head + 1 .. fed /\ p + Len(tag) - 1 <= fed /\ Split!Begins(tag, Len(tag), p)
    BY DEF Split!Places, Split!At
  <2> DEFINE l == Len(tag)
  <2>2. p \in 1..Len(written) /\ p + l - 1 <= Len(written)
    <3>1. l \in 3..4 /\ p + l - 1 <= fed
      BY <1>1, <2>1
    <3> HIDE DEF l
    <3> QED
      BY <1>0, <2>1, <3>1
  <2>3. Stands(tag, p)
    BY <2>1, <2>2 DEF Stands
  <2>4. p = x
    BY <2>3 DEF Only
  <2>5. head < p
    BY <1>0, <2>1
  <2> QED
    BY <2>1, <2>4, <2>5
<1>3. ASSUME head < x, x + Len(tag) - 1 <= fed PROVE x \in P
  <2> DEFINE l == Len(tag)
  <2>1. l \in 3..4 /\ x + l - 1 <= fed
    BY <1>1, <1>3
  <2> HIDE DEF l
  <2>2. x \in head + 1 .. fed
    BY <1>0, <1>3, <2>1
  <2> QED
    BY <1>3, <2>2 DEF Split!Places, Split!At, Only, Stands
<1>4. ASSUME head < x, x + Len(tag) - 1 <= fed
      PROVE  /\ Split!Found(tag) /\ Split!Before(tag) = head + 1 .. x - 1
             /\ Split!After(tag) = x + Len(tag) - 1
  <2>1. P = {x}
    BY <1>2, <1>3, <1>4
  <2> HIDE DEF P
  <2>2. Split!Min(P) = x
    BY <2>1 DEF Split!Min
  <2> QED
    BY <2>1, <2>2 DEF Split!Found, Split!Before, Split!After, P
<1>5. ASSUME ~(head < x /\ x + Len(tag) - 1 <= fed) PROVE ~Split!Found(tag)
  BY <1>2, <1>5 DEF Split!Found
<1> QED
  BY <1>4, <1>5

LEMMA AbsentTells ==
    ASSUME SplitTypes, NEW tag \in Marks, Absent(tag) PROVE ~Split!Found(tag)
<1>0. /\ head \in Nat /\ fed \in Nat /\ fed <= Len(written) /\ Len(written) \in Nat
  BY DEF SplitTypes
<1>1. Len(tag) \in 3..4
  BY TagLengths DEF Marks
<1>2. ASSUME NEW p \in Split!Places(tag) PROVE FALSE
  <2>1. p \in head + 1 .. fed /\ p + Len(tag) - 1 <= fed /\ Split!Begins(tag, Len(tag), p)
    BY DEF Split!Places, Split!At
  <2> DEFINE l == Len(tag)
  <2>2. p \in 1..Len(written) /\ p + l - 1 <= Len(written)
    <3>1. l \in 3..4 /\ p + l - 1 <= fed
      BY <1>1, <2>1
    <3> HIDE DEF l
    <3> QED
      BY <1>0, <2>1, <3>1
  <2> QED
    BY <2>1, <2>2 DEF Stands, Absent
<1> QED
  BY <1>2 DEF Split!Found

(* A tag that has arrived in half is waited for.                           *)
LEMMA HalfBegins ==
    ASSUME SplitTypes, NEW tag \in Marks, NEW x \in Nat, Stands(tag, x),
           head < x, fed < x + Len(tag) - 1, x <= fed
    PROVE  /\ fed - x + 1 \in 1 .. Len(tag) - 1 /\ fed - x + 1 <= fed - head
           /\ Split!Begins(tag, fed - x + 1, x) /\ Split!Half(tag) >= fed - x + 1
           /\ Split!Half(tag) \in Nat
<1> DEFINE l == Len(tag)
           n == fed - x + 1
           m == Split!Half(tag)
<1>0. head \in Nat /\ fed \in Nat /\ l \in 3..4
  BY TagLengths DEF SplitTypes, Marks
<1>1. n \in 1 .. l - 1 /\ n <= fed - head /\ fed - n + 1 = x /\ n \in 1..l /\ \A k \in 1..n : k \in 1..l
  <2>1. fed < x + l - 1
    OBVIOUS
  <2> HIDE DEF l
  <2> QED
    BY <1>0, <2>1
<1>2. Split!Begins(tag, n, x)
  BY <1>1 DEF Stands, Split!Begins
<1>3. n <= m /\ m \in 0..l
  <2> HIDE DEF m, n
  <2> QED
    BY <1>1, <1>2, HalfIs DEF m
<1> HIDE DEF m, n, l
<1>4. m >= n /\ m \in Nat
  BY <1>0, <1>1, <1>3
<1> QED
  BY <1>1, <1>2, <1>4 DEF m, n, l

LEMMA HalfReaches ==
    ASSUME SplitTypes, NEW tag \in Marks, NEW x \in Nat, Stands(tag, x),
           head < x, fed < x + Len(tag) - 1
    PROVE  fed - Split!Half(tag) < x
<1> DEFINE m == Split!Half(tag)
<1>1. fed \in Nat /\ m \in Nat
  BY HalfIs, TagLengths DEF SplitTypes, Marks
<1>2. x <= fed => m >= fed - x + 1
  BY HalfBegins
<1> HIDE DEF m
<1>3. fed - m < x
  BY <1>1, <1>2
<1> QED
  BY <1>3 DEF m

LEMMA HalfOpenReaches ==
    ASSUME SplitTypes, NEW tag \in {Split!ThinkingOpen, Split!AnswerOpen}, NEW x \in Nat,
           Stands(tag, x), head < x, fed < x + 2
    PROVE  fed - Split!HalfOpen < x
<1> DEFINE m == Split!Half(Split!ThinkingOpen)
           k == Split!Half(Split!AnswerOpen)
           n == fed - x + 1
<1>0. tag \in Marks /\ Split!ThinkingOpen \in Marks /\ Split!AnswerOpen \in Marks
  BY DEF Marks
<1>1. /\ fed \in Nat /\ m \in Nat /\ k \in Nat
      /\ Len(tag) = 3 /\ fed < x + Len(tag) - 1
  <2>1. Len(tag) = 3 /\ x + 3 - 1 = x + 2
    BY TagLengths
  <2>2. m \in Nat /\ k \in Nat
    BY <1>0, HalfIs, TagLengths
  <2> QED
    BY <2>1, <2>2 DEF SplitTypes
<1>2. Split!HalfOpen = IF m > 0 THEN m ELSE k
  BY DEF Split!HalfOpen
<1>3. CASE fed < x
  <2> HIDE DEF m, k
  <2>1. Split!HalfOpen \in Nat
    BY <1>1, <1>2
  <2> QED
    BY <1>1, <1>3, <2>1
<1>4. CASE x <= fed /\ tag = Split!ThinkingOpen
  <2>1. m >= n /\ n \in 1..2
    <3>1. n \in 1 .. Len(tag) - 1 /\ Split!Half(tag) >= n
      BY <1>0, <1>1, <1>4, HalfBegins
    <3> HIDE DEF n
    <3> QED
      BY <1>1, <1>4, <3>1
  <2> HIDE DEF m, k
  <2>2. Split!HalfOpen = m
    BY <1>1, <1>2, <2>1
  <2> QED
    BY <1>1, <2>1, <2>2
<1>5. CASE x <= fed /\ tag = Split!AnswerOpen
  <2>1. k >= n /\ n \in 1..2 /\ Split!Begins(Split!AnswerOpen, n, x)
    <3>1. n \in 1 .. Len(tag) - 1 /\ Split!Half(tag) >= n /\ Split!Begins(tag, n, x)
      BY <1>0, <1>1, <1>5, HalfBegins
    <3> HIDE DEF n
    <3> QED
      BY <1>1, <1>5, <3>1
  <2>2. m > 0 => Split!Begins(Split!ThinkingOpen, m, fed - m + 1)
    BY <1>0, HalfIs
  <2>3. m > 0 => m >= n
    <3> SUFFICES ASSUME m > 0, m < n PROVE FALSE
      <4> HIDE DEF m, n
      <4> QED
        BY <1>1, <2>1
    <3>1. m = 1 /\ n = 2
      <4> HIDE DEF m, n
      <4> QED
        BY <1>1, <2>1
    <3>2. written[fed] = Split!ThinkingOpen[1]
      <4>1. Split!Begins(Split!ThinkingOpen, 1, fed)
        BY <1>1, <2>2, <3>1
      <4>2. written[fed + 1 - 1] = Split!ThinkingOpen[1]
        BY <4>1 DEF Split!Begins
      <4> QED
        BY <1>1, <4>2
    <3>3. written[fed] = Split!AnswerOpen[2]
      <4>1. Split!Begins(Split!AnswerOpen, 2, x) /\ fed = x + 1
        BY <1>1, <2>1, <3>1
      <4>2. written[x + 2 - 1] = Split!AnswerOpen[2]
        BY <4>1 DEF Split!Begins
      <4> QED
        BY <4>1, <4>2
    <3> QED
      BY <3>2, <3>3, TagStarts
  <2> HIDE DEF m, k
  <2> QED
    BY <1>1, <1>2, <2>1, <2>3
<1> QED
  BY <1>1, <1>3, <1>4, <1>5

(* What the layout of a text says of its places.                           *)
LEMMA LaidTells ==
    ASSUME SplitTypes, NEW t, NEW c, NEW a, NEW b, Laid(t, c, a, b)
    PROVE  /\ t \in Nat /\ c \in Nat /\ a \in Nat /\ b \in Nat
           /\ a + 3 <= b /\ b + 3 <= Len(written)
           /\ IF t = 0 THEN c = 0 ELSE t + 3 <= c /\ c + 4 <= a
           /\ First(t, a) \in Nat /\ First(t, a) <= a
           /\ \A i \in 1..Len(written) :
                  i < First(t, a) \/ (t # 0 /\ c + 3 < i /\ i < a) \/ b + 3 < i
                      => written[i] = Split!Blank
<1>1. /\ t \in Nat /\ c \in Nat /\ a \in Nat /\ b \in Nat /\ a + 3 <= b
      /\ IF t = 0 THEN c = 0 ELSE t + 3 <= c /\ c + 4 <= a
  BY DEF Laid
<1>2. Len(written) \in Nat
  BY LengthIsNat DEF SplitTypes
<1>3. b + 3 <= Len(written)
  <2>1. b + 4 - 1 <= Len(written)
    BY TagLengths DEF Laid, Only, Stands
  <2> QED
    BY <1>1, <1>2, <2>1
<1>4. First(t, a) \in Nat /\ First(t, a) <= a
  BY <1>1 DEF First
<1>5. ASSUME NEW i \in 1..Len(written),
             i < First(t, a) \/ (t # 0 /\ c + 3 < i /\ i < a) \/ b + 3 < i
      PROVE  written[i] = Split!Blank
  <2>1. i \in Int
    BY <1>2
  <2>2. ~(t # 0 /\ t <= i /\ i <= c + 3) /\ ~(a <= i /\ i <= b + 3)
    BY <1>1, <1>5, <2>1 DEF First
  <2> QED
    BY <2>2 DEF Laid
<1> QED
  BY <1>1, <1>3, <1>4, <1>5

(* What is said of the segments sent, after one more.                      *)
LEMMA HoldsBlank ==
    ASSUME NEW sent, NEW from, NEW to, Holds(sent, from, to),
           NEW S, \A i \in 1..Len(written) : i \in S => written[i] = Split!Blank
    PROVE  Holds(sent \cup S, from, to)
BY DEF Holds

LEMMA HoldsMore ==
    ASSUME SplitTypes, NEW sent, NEW from \in Int, NEW h \in Int, NEW k \in Int,
           Holds(sent, from, h), from <= h + 1, h <= k
    PROVE  Holds(sent \cup (h + 1 .. k), from, k)
<1> SUFFICES ASSUME NEW i \in 1..Len(written), written[i] # Split!Blank
             PROVE  i \in sent \cup (h + 1 .. k) <=> from <= i /\ i <= k
  BY DEF Holds
<1>1. i \in Int
  BY LengthIsNat DEF SplitTypes
<1>2. i \in sent <=> from <= i /\ i <= h
  BY DEF Holds
<1>3. i \in h + 1 .. k <=> h < i /\ i <= k
  BY <1>1
<1>4. from <= i /\ i <= k <=> (from <= i /\ i <= h) \/ (h < i /\ i <= k)
  BY <1>1
<1> QED
  BY <1>2, <1>3, <1>4

LEMMA SendsAnswer ==
    ASSUME NEW S, Split!Send({"answer"}, S)
    PROVE  reasoning' = reasoning /\ answer' = answer \cup S
BY DEF Split!Send

LEMMA SendsReasoning ==
    ASSUME NEW S, Split!Send({"reasoning"}, S)
    PROVE  reasoning' = reasoning \cup S /\ answer' = answer
BY DEF Split!Send

LEMMA SendsBoth ==
    ASSUME NEW S, Split!Send({"reasoning", "answer"}, S)
    PROVE  reasoning' = reasoning \cup S /\ answer' = answer \cup S
BY DEF Split!Send

LEMMA RestIs ==
    ASSUME SplitTypes, NEW kinds, NEW half \in Nat, half <= fed - head, Split!SendRest(kinds, half)
    PROVE  /\ head' = fed - half /\ splitting' = "idle" /\ part' = part /\ ever' = ever
           /\ Split!Send(kinds, head + 1 .. fed - half)
           /\ head' \in Nat /\ head <= head' /\ head' <= fed
<1>1. head \in Nat /\ fed \in Nat /\ head <= fed
  BY DEF SplitTypes
<1>2. head' = fed - half /\ splitting' = "idle" /\ part' = part /\ ever' = ever
      /\ Split!Send(kinds, head + 1 .. fed - half)
  BY DEF Split!SendRest, Split!TakeTo
<1>3. fed - half \in Nat /\ head <= fed - half /\ fed - half <= fed
  BY <1>1
<1> QED
  BY <1>2, <1>3

(* The loop goes on, or what has arrived is used up.                       *)
LEMMA TakeToIs ==
    ASSUME NEW p, NEW goesOn, Split!TakeTo(p, goesOn)
    PROVE  /\ head' = p /\ splitting' \in {"idle", "loop"}
           /\ goesOn = TRUE /\ splitting' = "idle" => ~(p < fed)
BY DEF Split!TakeTo

LEMMA AnswerStage ==
    ASSUME LostInv, Split!InAnswer, NEW t, NEW c, NEW a, NEW b, Laid(t, c, a, b),
           Answering(t, c, a, b)
    PROVE  Stage(t, c, a, b)'
<1>1. SplitTypes /\ written' = written /\ fed' = fed
  BY DEF LostInv, Split!InAnswer
<1>2. /\ t \in Nat /\ c \in Nat /\ a \in Nat /\ b \in Nat /\ a + 3 <= b
      /\ \A i \in 1..Len(written) : b + 3 < i => written[i] = Split!Blank
  BY <1>1, LaidTells
<1>3. head \in Nat /\ fed \in Nat /\ head <= fed
  BY <1>1 DEF SplitTypes
<1>4. /\ ever /\ Holds(reasoning, t + 3, c - 1) /\ Holds(answer, a + 3, head)
      /\ a + 2 <= head /\ head < b /\ part = "answer"
  BY DEF Answering
<1>5. Split!AnswerClose \in Marks /\ Len(Split!AnswerClose) = 4 /\ Only(Split!AnswerClose, b)
  BY TagLengths DEF Marks, Laid
<1>6. CASE b + 3 <= fed
  <2>1. /\ Split!Found(Split!AnswerClose) /\ Split!Before(Split!AnswerClose) = head + 1 .. b - 1
        /\ Split!After(Split!AnswerClose) = b + 3
    <3>1. b + 4 - 1 <= fed /\ b + 4 - 1 = b + 3
      BY <1>2, <1>3, <1>6
    <3> QED
      BY <1>1, <1>2, <1>4, <1>5, <3>1, OnlyTells
  <2>2. /\ Split!Send({"answer"}, (head + 1 .. b - 1) \cup (b + 3 + 1 .. fed))
        /\ Split!TakeTo(fed, FALSE) /\ part' = "neither" /\ ever' = ever
    BY <2>1 DEF Split!InAnswer
  <2>3. /\ reasoning' = reasoning
        /\ answer' = (answer \cup (head + 1 .. b - 1)) \cup (b + 3 + 1 .. fed)
    BY <2>2, SendsAnswer
  <2>4. Holds(answer \cup (head + 1 .. b - 1), a + 3, b - 1)
    BY <1>1, <1>2, <1>3, <1>4, HoldsMore
  <2>5. \A i \in 1..Len(written) : i \in b + 3 + 1 .. fed => written[i] = Split!Blank
    <3>1. \A i : i \in b + 3 + 1 .. fed => b + 3 < i
      BY <1>2, <1>3
    <3> QED
      BY <1>2, <3>1
  <2>6. Holds(answer', a + 3, b - 1)
    BY <2>3, <2>4, <2>5, HoldsBlank
  <2>7. Holds(reasoning, t + 3, c - 1)' /\ Holds(answer, a + 3, b - 1)'
    BY <1>1, <1>4, <2>3, <2>6 DEF Holds
  <2>8. b + 3 <= head' /\ part' = "neither" /\ ever'
    BY <1>4, <1>6, <2>2 DEF Split!TakeTo
  <2> QED
    BY <2>7, <2>8 DEF Stage, AfterAll
<1>7. CASE ~(b + 3 <= fed)
  <2>1. ~Split!Found(Split!AnswerClose) /\ fed < b + 3 /\ fed < b + 4 - 1
    <3>1. ~(b + 4 - 1 <= fed) /\ fed < b + 3 /\ fed < b + 4 - 1
      BY <1>2, <1>3, <1>7
    <3> QED
      BY <1>1, <1>2, <1>5, <3>1, OnlyTells
  <2> DEFINE half == Split!Half(Split!AnswerClose)
  <2>2. Split!SendRest({"answer"}, half)
    BY <2>1 DEF Split!InAnswer
  <2>3. half \in Nat /\ half <= fed - head
    BY <1>1, <1>5, HalfIs
  <2>4. fed - half < b
    BY <1>1, <1>2, <1>4, <1>5, <2>1, HalfReaches DEF Only
  <2> HIDE DEF half
  <2>5. /\ head' = fed - half /\ splitting' = "idle" /\ part' = part /\ ever' = ever
        /\ Split!Send({"answer"}, head + 1 .. head') /\ head' \in Nat /\ head <= head'
    BY <1>1, <2>2, <2>3, RestIs
  <2>6. reasoning' = reasoning /\ answer' = answer \cup (head + 1 .. head')
    BY <2>5, SendsAnswer
  <2>7. Holds(answer', a + 3, head')
    BY <1>1, <1>2, <1>3, <1>4, <2>5, <2>6, HoldsMore
  <2>8. Holds(reasoning, t + 3, c - 1)' /\ Holds(answer, a + 3, head)'
    BY <1>1, <1>4, <2>6, <2>7 DEF Holds
  <2>9. a + 2 <= head' /\ head' < b /\ fed' < b + 3
    BY <1>1, <1>2, <1>3, <1>4, <2>1, <2>4, <2>5
  <2> QED
    BY <1>4, <2>5, <2>8, <2>9 DEF Stage, Answering
<1> QED
  BY <1>6, <1>7

LEMMA ThinkingStage ==
    ASSUME LostInv, Split!InThinking, NEW t, NEW c, NEW a, NEW b, Laid(t, c, a, b),
           Thinking(t, c, a, b)
    PROVE  Stage(t, c, a, b)'
<1>1. SplitTypes /\ written' = written /\ fed' = fed
  BY DEF LostInv, Split!InThinking
<1>2. /\ t # 0 /\ part = "thinking" /\ ever
      /\ Holds(reasoning, t + 3, head) /\ Holds(answer, 1, 0)
      /\ t + 2 <= head /\ head < c
  BY DEF Thinking
<1>3. t \in Nat /\ c \in Nat /\ a \in Nat /\ c + 4 <= a
  BY <1>1, <1>2, LaidTells
<1>4. head \in Nat /\ fed \in Nat /\ head <= fed
  BY <1>1 DEF SplitTypes
<1>5. /\ Split!ThinkingClose \in Marks /\ Len(Split!ThinkingClose) = 4
      /\ Split!AnswerOpen \in Marks /\ Len(Split!AnswerOpen) = 3
      /\ Only(Split!ThinkingClose, c) /\ Only(Split!AnswerOpen, a)
  BY <1>2, TagLengths DEF Marks, Laid
<1>6. CASE c + 3 <= fed
  <2>1. /\ Split!Found(Split!ThinkingClose) /\ Split!Before(Split!ThinkingClose) = head + 1 .. c - 1
        /\ Split!After(Split!ThinkingClose) = c + 3
    <3>1. c + 4 - 1 <= fed /\ c + 4 - 1 = c + 3
      BY <1>3, <1>4, <1>6
    <3> QED
      BY <1>1, <1>2, <1>3, <1>5, <3>1, OnlyTells
  <2>2. Split!ThinkingClose # Split!AnswerOpen
    BY <1>5
  <2>3. /\ Split!Send({"reasoning"}, head + 1 .. c - 1)
        /\ Split!TakeTo(c + 3, TRUE) /\ part' = "neither" /\ ever' = ever
    BY <2>1, <2>2 DEF Split!InThinking
  <2>4. reasoning' = reasoning \cup (head + 1 .. c - 1) /\ answer' = answer
    BY <2>3, SendsReasoning
  <2>5. Holds(reasoning', t + 3, c - 1)
    BY <1>1, <1>2, <1>3, <1>4, <2>4, HoldsMore
  <2>6. Holds(reasoning, t + 3, c - 1)' /\ Holds(answer, 1, 0)'
    BY <1>1, <1>2, <2>4, <2>5 DEF Holds
  <2>7. head' = c + 3 /\ splitting' \in {"idle", "loop"} /\ (splitting' = "idle" => ~(c + 3 < fed))
    BY <2>3, TakeToIs
  <2>8. c + 3 <= head' /\ head' < a /\ (splitting' = "idle" => fed' < a + 2)
    BY <1>1, <1>3, <1>4, <2>7
  <2> QED
    BY <1>2, <2>3, <2>6, <2>7, <2>8 DEF Stage, BetweenParts
<1>7. CASE ~(c + 3 <= fed)
  <2>1. fed < c + 3 /\ fed < c + 4 - 1 /\ ~(c + 4 - 1 <= fed) /\ ~(a + 3 - 1 <= fed)
    BY <1>3, <1>4, <1>7
  <2>2. ~Split!Found(Split!ThinkingClose) /\ ~Split!Found(Split!AnswerOpen)
    BY <1>1, <1>3, <1>5, <2>1, OnlyTells
  <2> DEFINE half == Split!Half(Split!ThinkingClose)
  <2>3. Split!SendRest({"reasoning"}, half)
    BY <2>2 DEF Split!InThinking
  <2>4. half \in Nat /\ half <= fed - head
    BY <1>1, <1>5, HalfIs
  <2>5. fed - half < c
    BY <1>1, <1>2, <1>3, <1>5, <2>1, HalfReaches DEF Only
  <2> HIDE DEF half
  <2>6. /\ head' = fed - half /\ splitting' = "idle" /\ part' = part /\ ever' = ever
        /\ Split!Send({"reasoning"}, head + 1 .. head') /\ head' \in Nat /\ head <= head'
    BY <1>1, <2>3, <2>4, RestIs
  <2>7. reasoning' = reasoning \cup (head + 1 .. head') /\ answer' = answer
    BY <2>6, SendsReasoning
  <2>8. Holds(reasoning', t + 3, head')
    BY <1>1, <1>2, <1>3, <1>4, <2>6, <2>7, HoldsMore
  <2>9. Holds(reasoning, t + 3, head)' /\ Holds(answer, 1, 0)'
    BY <1>1, <1>2, <2>7, <2>8 DEF Holds
  <2>10. t + 2 <= head' /\ head' < c /\ fed' < c + 3
    BY <1>1, <1>2, <1>3, <1>4, <2>1, <2>5, <2>6
  <2> QED
    BY <1>2, <2>6, <2>9, <2>10 DEF Stage, Thinking
<1> QED
  BY <1>6, <1>7

(* Nothing is found between the parts but a tag that opens one; nothing is *)
(* sent but blanks.                                                        *)
LEMMA BlanksSent ==
    ASSUME written' = written, NEW S, \A i \in 1..Len(written) : i \in S => written[i] = Split!Blank,
           NEW kinds \in {{"reasoning"}, {"answer"}, {"reasoning", "answer"}},
           Split!Send(kinds, S), NEW from, NEW to, NEW u, NEW v,
           Holds(reasoning, from, to), Holds(answer, u, v)
    PROVE  Holds(reasoning, from, to)' /\ Holds(answer, u, v)'
<1>1. /\ reasoning' \in {reasoning, reasoning \cup S}
      /\ answer' \in {answer, answer \cup S}
  BY DEF Split!Send
<1>2. Holds(reasoning \cup S, from, to) /\ Holds(answer \cup S, u, v)
  BY HoldsBlank
<1>3. Holds(reasoning', from, to) /\ Holds(answer', u, v)
  BY <1>1, <1>2
<1> QED
  BY <1>3 DEF Holds

(* With only blanks before the one tag that is found, its part begins.     *)
LEMMA PartBegins ==
    ASSUME LostInv, Split!Between, NEW x \in Nat,
           Split!Found(OpenTag), Split!Before(OpenTag) = head + 1 .. x - 1,
           Split!After(OpenTag) = x + 2, Opens \in {"answer", "thinking"},
           \A i \in 1..Len(written) : i \in head + 1 .. x - 1 => written[i] = Split!Blank,
           NEW from, NEW to, NEW u, NEW v,
           Holds(reasoning, from, to), Holds(answer, u, v)
    PROVE  /\ Holds(reasoning, from, to)' /\ Holds(answer, u, v)'
           /\ part' = Opens /\ ever' = TRUE /\ head' = x + 2
           /\ splitting' \in {"idle", "loop"} /\ (splitting' = "idle" => ~(x + 2 < fed))
<1>1. written' = written
  BY DEF Split!Between
<1>2. OpenTag \in {Split!AnswerOpen, Split!ThinkingOpen}
  BY DEF OpenTag
<1>3. /\ Split!Send({IF Opens = "answer" THEN "reasoning" ELSE "answer"}, SaidBefore)
      /\ Split!TakeTo(x + 2, TRUE) /\ part' = Opens /\ ever' = TRUE
  BY <1>2, BetweenTakes
<1>4. \A i \in 1..Len(written) : i \in SaidBefore => written[i] = Split!Blank
  BY DEF SaidBefore
<1>5. {IF Opens = "answer" THEN "reasoning" ELSE "answer"} \in
          {{"reasoning"}, {"answer"}, {"reasoning", "answer"}}
  OBVIOUS
<1>6. Holds(reasoning, from, to)' /\ Holds(answer, u, v)'
  BY <1>1, <1>3, <1>4, <1>5, BlanksSent
<1>7. /\ head' = x + 2 /\ splitting' \in {"idle", "loop"}
      /\ (splitting' = "idle" => ~(x + 2 < fed))
  BY <1>3, TakeToIs
<1> QED
  BY <1>3, <1>6, <1>7

(* With blanks and at most half a tag, nothing begins.                     *)
LEMMA PartWaits ==
    ASSUME LostInv, Split!Between,
           ~Split!Found(Split!AnswerOpen), ~Split!Found(Split!ThinkingOpen),
           \A i \in 1..Len(written) :
               i \in head + 1 .. fed - Split!HalfOpen => written[i] = Split!Blank,
           NEW from, NEW to, NEW u, NEW v,
           Holds(reasoning, from, to), Holds(answer, u, v)
    PROVE  /\ Holds(reasoning, from, to)' /\ Holds(answer, u, v)'
           /\ part' = part /\ ever' = ever /\ head' = fed - Split!HalfOpen
           /\ splitting' = "idle" /\ head <= head' /\ head' \in Nat /\ head' <= fed
<1> DEFINE kinds == IF ever THEN {"answer"} ELSE {"reasoning", "answer"}
<1>1. SplitTypes /\ written' = written /\ fed' = fed
  BY DEF LostInv, Split!Between
<1>2. Split!SendRest(kinds, Split!HalfOpen)
  BY DEF Split!Between
<1>3. Split!HalfOpen \in Nat /\ Split!HalfOpen <= fed - head
  BY <1>1, HalfOpenIs
<1>4. kinds \in {{"reasoning"}, {"answer"}, {"reasoning", "answer"}}
  OBVIOUS
<1> HIDE DEF kinds
<1>5. /\ head' = fed - Split!HalfOpen /\ splitting' = "idle" /\ part' = part /\ ever' = ever
      /\ Split!Send(kinds, head + 1 .. fed - Split!HalfOpen)
      /\ head' \in Nat /\ head <= head' /\ head' <= fed
  BY <1>1, <1>2, <1>3, RestIs
<1>6. Holds(reasoning, from, to)' /\ Holds(answer, u, v)'
  BY <1>1, <1>4, <1>5, BlanksSent
<1> QED
  BY <1>5, <1>6

LEMMA HoldsNone ==
    ASSUME SplitTypes, NEW sent, NEW from \in Int, NEW to \in Int, to < from, Holds(sent, 1, 0)
    PROVE  Holds(sent, from, to)
<1> SUFFICES ASSUME NEW i \in 1..Len(written), written[i] # Split!Blank
             PROVE  i \in sent <=> from <= i /\ i <= to
  BY DEF Holds
<1>1. i \in Int
  BY LengthIsNat DEF SplitTypes
<1>2. i \in sent <=> 1 <= i /\ i <= 0
  BY DEF Holds
<1>3. ~(1 <= i /\ i <= 0) /\ ~(from <= i /\ i <= to)
  BY <1>1
<1> QED
  BY <1>2, <1>3

LEMMA BeforeStage ==
    ASSUME LostInv, Split!Between, splitting = "loop",
           NEW t, NEW c, NEW a, NEW b, Laid(t, c, a, b), BeforeAll(t, c, a, b)
    PROVE  Stage(t, c, a, b)'
<1>1. SplitTypes /\ written' = written /\ fed' = fed
  BY DEF LostInv, Split!Between
<1>2. /\ part = "neither" /\ ~ever /\ Holds(reasoning, 1, 0) /\ Holds(answer, 1, 0)
      /\ head < First(t, a)
  BY DEF BeforeAll
<1>3. /\ t \in Nat /\ c \in Nat /\ a \in Nat /\ b \in Nat /\ a + 3 <= b
      /\ IF t = 0 THEN c = 0 ELSE t + 3 <= c /\ c + 4 <= a
      /\ First(t, a) \in Nat /\ First(t, a) <= a
      /\ \A i \in 1..Len(written) : i < First(t, a) => written[i] = Split!Blank
  BY <1>1, LaidTells
<1>4. head \in Nat /\ fed \in Nat /\ head <= fed
  BY <1>1 DEF SplitTypes
<1>5. /\ Split!ThinkingOpen \in Marks /\ Len(Split!ThinkingOpen) = 3
      /\ Split!AnswerOpen \in Marks /\ Len(Split!AnswerOpen) = 3
      /\ Only(Split!AnswerOpen, a)
      /\ IF t = 0 THEN Absent(Split!ThinkingOpen) ELSE Only(Split!ThinkingOpen, t)
  BY TagLengths DEF Marks, Laid
<1> DEFINE x == First(t, a)
<1>6. ASSUME NEW k \in Int, k < x
      PROVE  \A i \in 1..Len(written) : i \in head + 1 .. k => written[i] = Split!Blank
  <2>1. \A i : i \in head + 1 .. k => i < x
    <3>1. x \in Int
      BY <1>3
    <3> HIDE DEF x
    <3> QED
      BY <1>4, <1>6, <3>1
  <2> HIDE DEF x
  <2> QED
    BY <1>3, <2>1 DEF x
<1>7. CASE x + 2 <= fed
  <2>1. CASE t = 0
    <3>1. x = a /\ a + 3 - 1 <= fed /\ a + 3 - 1 = a + 2 /\ head < a
      BY <1>2, <1>3, <1>4, <1>7, <2>1 DEF First
    <3>2. ~Split!Found(Split!ThinkingOpen)
      BY <1>1, <1>5, <2>1, AbsentTells
    <3>3. /\ Split!Found(Split!AnswerOpen) /\ Split!Before(Split!AnswerOpen) = head + 1 .. a - 1
          /\ Split!After(Split!AnswerOpen) = a + 2
      BY <1>1, <1>3, <1>5, <3>1, OnlyTells
    <3>4. Opens = "answer" /\ OpenTag = Split!AnswerOpen
      BY <3>2, <3>3 DEF Opens, OpenTag
    <3>5. \A i \in 1..Len(written) : i \in head + 1 .. a - 1 => written[i] = Split!Blank
      <4>1. a - 1 \in Int /\ a - 1 < x
        BY <1>3, <3>1
      <4> QED
        BY <1>6, <4>1
    <3>6. Holds(reasoning, t + 3, c - 1) /\ Holds(answer, a + 3, a + 2)
      <4>1. c - 1 < t + 3 /\ a + 2 < a + 3
        BY <1>3, <2>1
      <4> QED
        BY <1>1, <1>2, <1>3, <4>1, HoldsNone
    <3>7. /\ Holds(reasoning, t + 3, c - 1)' /\ Holds(answer, a + 3, a + 2)'
          /\ part' = "answer" /\ ever' = TRUE /\ head' = a + 2
          /\ splitting' \in {"idle", "loop"} /\ (splitting' = "idle" => ~(a + 2 < fed))
      BY <1>3, <3>3, <3>4, <3>5, <3>6, PartBegins
    <3>8. Holds(answer, a + 3, head)'
      BY <3>7 DEF Holds
    <3>9. a + 2 <= head' /\ head' < b /\ (splitting' = "idle" => fed' < b + 3)
      BY <1>1, <1>3, <1>4, <3>7
    <3> QED
      BY <3>7, <3>8, <3>9 DEF Stage, Answering
  <2>2. CASE t # 0
    <3>1. x = t /\ t + 3 - 1 <= fed /\ t + 3 - 1 = t + 2 /\ head < t /\ t < a
          /\ a + 3 - 1 = a + 2 /\ head < a
      BY <1>2, <1>3, <1>4, <1>7, <2>2 DEF First
    <3>2. /\ Split!Found(Split!ThinkingOpen) /\ Split!Before(Split!ThinkingOpen) = head + 1 .. t - 1
          /\ Split!After(Split!ThinkingOpen) = t + 2
      BY <1>1, <1>3, <1>5, <2>2, <3>1, OnlyTells
    <3>3. Split!Found(Split!AnswerOpen) => Split!After(Split!AnswerOpen) = a + 2
      BY <1>1, <1>3, <1>5, <3>1, OnlyTells
    <3>4. Opens = "thinking" /\ OpenTag = Split!ThinkingOpen
      <4>1. ~(a + 2 < t + 2)
        BY <1>3, <3>1
      <4>2. Opens = "thinking"
        BY <3>2, <3>3, <4>1 DEF Opens
      <4> QED
        BY <4>2 DEF OpenTag
    <3>5. \A i \in 1..Len(written) : i \in head + 1 .. t - 1 => written[i] = Split!Blank
      <4>1. t - 1 \in Int /\ t - 1 < x
        BY <1>3, <3>1
      <4> QED
        BY <1>6, <4>1
    <3>6. Holds(reasoning, t + 3, t + 2)
      BY <1>1, <1>2, <1>3, HoldsNone
    <3>7. /\ Holds(reasoning, t + 3, t + 2)' /\ Holds(answer, 1, 0)'
          /\ part' = "thinking" /\ ever' = TRUE /\ head' = t + 2
          /\ splitting' \in {"idle", "loop"} /\ (splitting' = "idle" => ~(t + 2 < fed))
      BY <1>2, <1>3, <3>2, <3>4, <3>5, <3>6, PartBegins
    <3>8. Holds(reasoning, t + 3, head)'
      BY <3>7 DEF Holds
    <3>9. t + 2 <= head' /\ head' < c /\ (splitting' = "idle" => fed' < c + 3)
      BY <1>1, <1>3, <1>4, <2>2, <3>7
    <3> QED
      BY <2>2, <3>7, <3>8, <3>9 DEF Stage, Thinking
  <2> QED
    BY <2>1, <2>2
<1>8. CASE ~(x + 2 <= fed)
  <2>1. x \in Nat /\ fed < x + 2 /\ ~(x + 3 - 1 <= fed) /\ ~(a + 3 - 1 <= fed) /\ head < x
    <3>1. x \in Nat /\ x <= a /\ head < x
      BY <1>2, <1>3
    <3> HIDE DEF x
    <3> QED
      BY <1>3, <1>4, <1>8, <3>1
  <2>2. ~Split!Found(Split!AnswerOpen)
    BY <1>1, <1>3, <1>5, <2>1, OnlyTells
  <2>3. ~Split!Found(Split!ThinkingOpen)
    <3>1. CASE t = 0
      BY <1>1, <1>5, <3>1, AbsentTells
    <3>2. CASE t # 0
      BY <1>1, <1>3, <1>5, <2>1, <3>2, OnlyTells DEF First
    <3> QED
      BY <3>1, <3>2
  <2>4. fed - Split!HalfOpen < x
    <3>1. Stands(IF t = 0 THEN Split!AnswerOpen ELSE Split!ThinkingOpen, x)
      BY <1>5 DEF Only, First
    <3> HIDE DEF x
    <3> QED
      BY <1>1, <2>1, <3>1, HalfOpenReaches
  <2>5. \A i \in 1..Len(written) :
           i \in head + 1 .. fed - Split!HalfOpen => written[i] = Split!Blank
    <3>1. fed - Split!HalfOpen \in Int
      BY <1>1, <1>4, HalfOpenIs
    <3> QED
      BY <1>6, <2>4, <3>1
  <2>6. /\ Holds(reasoning, 1, 0)' /\ Holds(answer, 1, 0)'
        /\ part' = part /\ ever' = ever /\ head' = fed - Split!HalfOpen /\ splitting' = "idle"
    BY <1>2, <2>2, <2>3, <2>5, PartWaits
  <2>7. head' < x /\ fed' < x + 2
    BY <1>1, <2>1, <2>4, <2>6
  <2> QED
    BY <1>2, <2>6, <2>7 DEF Stage, BeforeAll
<1> QED
  BY <1>7, <1>8

LEMMA BetweenStage ==
    ASSUME LostInv, Split!Between, splitting = "loop",
           NEW t, NEW c, NEW a, NEW b, Laid(t, c, a, b), BetweenParts(t, c, a, b)
    PROVE  Stage(t, c, a, b)'
<1>1. SplitTypes /\ written' = written /\ fed' = fed
  BY DEF LostInv, Split!Between
<1>2. /\ t # 0 /\ part = "neither" /\ ever
      /\ Holds(reasoning, t + 3, c - 1) /\ Holds(answer, 1, 0)
      /\ c + 3 <= head /\ head < a
  BY DEF BetweenParts
<1>3. /\ t \in Nat /\ c \in Nat /\ a \in Nat /\ b \in Nat /\ a + 3 <= b
      /\ t + 3 <= c /\ c + 4 <= a
      /\ \A i \in 1..Len(written) : c + 3 < i /\ i < a => written[i] = Split!Blank
  BY <1>1, <1>2, LaidTells
<1>4. head \in Nat /\ fed \in Nat /\ head <= fed
  BY <1>1 DEF SplitTypes
<1>5. /\ Split!ThinkingOpen \in Marks /\ Len(Split!ThinkingOpen) = 3
      /\ Split!AnswerOpen \in Marks /\ Len(Split!AnswerOpen) = 3
      /\ Only(Split!AnswerOpen, a) /\ Only(Split!ThinkingOpen, t)
  BY <1>2, TagLengths DEF Marks, Laid
<1>6. ~Split!Found(Split!ThinkingOpen)
  <2>1. ~(head < t)
    BY <1>2, <1>3, <1>4
  <2> QED
    BY <1>1, <1>3, <1>5, <2>1, OnlyTells
<1>7. ASSUME NEW k \in Int, k < a
      PROVE  \A i \in 1..Len(written) : i \in head + 1 .. k => written[i] = Split!Blank
  <2>1. \A i : i \in head + 1 .. k => c + 3 < i /\ i < a
    BY <1>2, <1>3, <1>4, <1>7
  <2> QED
    BY <1>3, <2>1
<1>8. CASE a + 2 <= fed
  <2>1. a + 3 - 1 <= fed /\ a + 3 - 1 = a + 2
    BY <1>3, <1>4, <1>8
  <2>2. /\ Split!Found(Split!AnswerOpen) /\ Split!Before(Split!AnswerOpen) = head + 1 .. a - 1
        /\ Split!After(Split!AnswerOpen) = a + 2
    BY <1>1, <1>2, <1>3, <1>5, <2>1, OnlyTells
  <2>3. Opens = "answer" /\ OpenTag = Split!AnswerOpen
    BY <1>6, <2>2 DEF Opens, OpenTag
  <2>4. \A i \in 1..Len(written) : i \in head + 1 .. a - 1 => written[i] = Split!Blank
    <3>1. a - 1 \in Int /\ a - 1 < a
      BY <1>3
    <3> QED
      BY <1>7, <3>1
  <2>5. Holds(answer, a + 3, a + 2)
    BY <1>1, <1>2, <1>3, HoldsNone
  <2>6. /\ Holds(reasoning, t + 3, c - 1)' /\ Holds(answer, a + 3, a + 2)'
        /\ part' = "answer" /\ ever' = TRUE /\ head' = a + 2
        /\ splitting' \in {"idle", "loop"} /\ (splitting' = "idle" => ~(a + 2 < fed))
    BY <1>2, <1>3, <2>2, <2>3, <2>4, <2>5, PartBegins
  <2>7. Holds(answer, a + 3, head)'
    BY <2>6 DEF Holds
  <2>8. a + 2 <= head' /\ head' < b /\ (splitting' = "idle" => fed' < b + 3)
    BY <1>1, <1>3, <1>4, <2>6
  <2> QED
    BY <2>6, <2>7, <2>8 DEF Stage, Answering
<1>9. CASE ~(a + 2 <= fed)
  <2>1. fed < a + 2 /\ ~(a + 3 - 1 <= fed)
    BY <1>3, <1>4, <1>9
  <2>2. ~Split!Found(Split!AnswerOpen)
    BY <1>1, <1>3, <1>5, <2>1, OnlyTells
  <2>3. fed - Split!HalfOpen < a /\ fed - Split!HalfOpen \in Int
    <3>1. fed - Split!HalfOpen < a
      BY <1>1, <1>2, <1>3, <1>5, <2>1, HalfOpenReaches DEF Only
    <3> QED
      BY <1>1, <1>4, <3>1, HalfOpenIs
  <2>4. \A i \in 1..Len(written) :
           i \in head + 1 .. fed - Split!HalfOpen => written[i] = Split!Blank
    BY <1>7, <2>3
  <2>5. /\ Holds(reasoning, t + 3, c - 1)' /\ Holds(answer, 1, 0)'
        /\ part' = part /\ ever' = ever /\ head' = fed - Split!HalfOpen /\ splitting' = "idle"
        /\ head <= head' /\ head' \in Nat
    BY <1>2, <1>6, <2>2, <2>4, PartWaits
  <2>6. c + 3 <= head' /\ head' < a /\ fed' < a + 2
    BY <1>1, <1>2, <1>3, <1>4, <2>1, <2>3, <2>5
  <2> QED
    BY <1>2, <2>5, <2>6 DEF Stage, BetweenParts
<1> QED
  BY <1>8, <1>9

LEMMA AfterStage ==
    ASSUME LostInv, Split!Between, splitting = "loop",
           NEW t, NEW c, NEW a, NEW b, Laid(t, c, a, b), AfterAll(t, c, a, b)
    PROVE  Stage(t, c, a, b)'
<1>1. SplitTypes /\ written' = written /\ fed' = fed
  BY DEF LostInv, Split!Between
<1>2. /\ part = "neither" /\ ever
      /\ Holds(reasoning, t + 3, c - 1) /\ Holds(answer, a + 3, b - 1)
      /\ b + 3 <= head
  BY DEF AfterAll
<1>3. /\ t \in Nat /\ c \in Nat /\ a \in Nat /\ b \in Nat /\ a + 3 <= b
      /\ IF t = 0 THEN c = 0 ELSE t + 3 <= c /\ c + 4 <= a
      /\ \A i \in 1..Len(written) : b + 3 < i => written[i] = Split!Blank
  BY <1>1, LaidTells
<1>4. head \in Nat /\ fed \in Nat /\ head <= fed
  BY <1>1 DEF SplitTypes
<1>5. /\ Split!ThinkingOpen \in Marks /\ Split!AnswerOpen \in Marks
      /\ Only(Split!AnswerOpen, a)
      /\ IF t = 0 THEN Absent(Split!ThinkingOpen) ELSE Only(Split!ThinkingOpen, t)
  BY DEF Marks, Laid
<1>6. ~Split!Found(Split!AnswerOpen) /\ ~Split!Found(Split!ThinkingOpen)
  <2>1. ~(head < a) /\ (t # 0 => ~(head < t))
    BY <1>2, <1>3, <1>4
  <2>2. ~Split!Found(Split!AnswerOpen)
    BY <1>1, <1>3, <1>5, <2>1, OnlyTells
  <2>3. CASE t = 0
    BY <1>1, <1>5, <2>2, <2>3, AbsentTells
  <2>4. CASE t # 0
    BY <1>1, <1>3, <1>5, <2>1, <2>2, <2>4, OnlyTells
  <2> QED
    BY <2>3, <2>4
<1>7. \A i \in 1..Len(written) :
         i \in head + 1 .. fed - Split!HalfOpen => written[i] = Split!Blank
  <2>1. fed - Split!HalfOpen \in Int
    BY <1>1, <1>4, HalfOpenIs
  <2>2. \A i : i \in head + 1 .. fed - Split!HalfOpen => b + 3 < i
    BY <1>2, <1>3, <1>4, <2>1
  <2> QED
    BY <1>3, <2>2
<1>8. /\ Holds(reasoning, t + 3, c - 1)' /\ Holds(answer, a + 3, b - 1)'
      /\ part' = part /\ ever' = ever /\ head <= head' /\ head' \in Nat
  BY <1>2, <1>6, <1>7, PartWaits
<1>9. b + 3 <= head'
  BY <1>2, <1>3, <1>4, <1>8
<1> QED
  BY <1>2, <1>8, <1>9 DEF Stage, AfterAll

Staged == \A t, c, a, b \in Nat : Laid(t, c, a, b) => Stage(t, c, a, b)

LEMMA StagesStart ==
    ASSUME Split!Init PROVE Staged
<1> SUFFICES ASSUME NEW t \in Nat, NEW c \in Nat, NEW a \in Nat, NEW b \in Nat, Laid(t, c, a, b)
             PROVE  Stage(t, c, a, b)
  BY DEF Staged
<1>1. LostInv /\ SplitTypes
  BY LostStarts DEF LostInv
<1>2. /\ fed = 0 /\ head = 0 /\ part = "neither" /\ ever = FALSE /\ splitting = "idle"
      /\ reasoning = {} /\ answer = {}
  BY DEF Split!Init, Split!Start
<1>3. First(t, a) \in Nat /\ First(t, a) # 0
  BY <1>1, LaidTells DEF Laid, Only, Stands, First
<1>4. 0 < First(t, a) /\ 0 < First(t, a) + 2
  BY <1>3
<1>5. Holds({}, 1, 0)
  <2>1. \A i : ~(1 <= i /\ i <= 0) \/ i \notin Int
    OBVIOUS
  <2>2. \A i \in 1..Len(written) : i \in Int
    BY <1>1, LengthIsNat DEF SplitTypes
  <2> QED
    BY <2>1, <2>2 DEF Holds
<1>6. splitting # "over" /\ BeforeAll(t, c, a, b)
  BY <1>2, <1>4, <1>5 DEF BeforeAll
<1> QED
  BY <1>6 DEF Stage

LEMMA StageKept ==
    ASSUME UNCHANGED <<written, head, part, ever, reasoning, answer>>,
           \/ splitting' # "idle" /\ splitting # "over" /\ splitting' # "over"
           \/ UNCHANGED <<fed, splitting>>,
           NEW t, NEW c, NEW a, NEW b, Stage(t, c, a, b)
    PROVE  Stage(t, c, a, b)'
<1>1. \A from, to : /\ Holds(reasoning, from, to)' <=> Holds(reasoning, from, to)
                    /\ Holds(answer, from, to)' <=> Holds(answer, from, to)
  BY DEF Holds
<1>2. Holds(reasoning, t + 3, head)' <=> Holds(reasoning, t + 3, head)
  BY DEF Holds
<1>3. Holds(answer, a + 3, head)' <=> Holds(answer, a + 3, head)
  BY DEF Holds
<1> QED
  BY <1>1, <1>2, <1>3 DEF Stage, BeforeAll, Thinking, BetweenParts, Answering, AfterAll

LEMMA FlushStage ==
    ASSUME LostInv, Split!Flush, NEW t, NEW c, NEW a, NEW b, Laid(t, c, a, b), Stage(t, c, a, b)
    PROVE  Stage(t, c, a, b)'
<1>1. /\ splitting = "idle" /\ fed = Len(written) /\ head' = fed
      /\ answer' = answer \cup Split!Flushed
      /\ UNCHANGED <<written, fed, part, ever, reasoning>> /\ SplitTypes
  BY DEF Split!Flush, LostInv
<1>2. /\ t \in Nat /\ c \in Nat /\ a \in Nat /\ b \in Nat /\ a + 3 <= b /\ b + 3 <= fed
      /\ IF t = 0 THEN c = 0 ELSE t + 3 <= c /\ c + 4 <= a
      /\ First(t, a) \in Nat /\ First(t, a) <= a
      /\ \A i \in 1..Len(written) : b + 3 < i => written[i] = Split!Blank
  BY <1>1, LaidTells
<1>3. head \in Nat /\ fed \in Nat /\ head <= fed
  BY <1>1 DEF SplitTypes
<1>4. AfterAll(t, c, a, b)
  <2>1. ~(fed < First(t, a) + 2)
    <3> DEFINE x == First(t, a)
    <3>1. x \in Nat /\ x <= a
      BY <1>2
    <3> HIDE DEF x
    <3>2. ~(fed < x + 2)
      BY <1>2, <1>3, <3>1
    <3> QED
      BY <3>2 DEF x
  <2>2. ~(fed < a + 2) /\ ~(fed < b + 3) /\ (t # 0 => ~(fed < c + 3))
    BY <1>2, <1>3
  <2> QED
    BY <1>1, <2>1, <2>2 DEF Stage, BeforeAll, Thinking, BetweenParts, Answering
<1>5. /\ part = "neither" /\ ever
      /\ Holds(reasoning, t + 3, c - 1) /\ Holds(answer, a + 3, b - 1) /\ b + 3 <= head
  BY <1>4 DEF AfterAll
<1>6. answer # {}
  <2>1. PICK i \in 1..Len(written) : a + 3 <= i /\ i < b /\ written[i] # Split!Blank
    BY DEF Laid
  <2>2. i <= b - 1
    BY <1>1, <1>2, <1>3, <2>1
  <2> QED
    BY <1>5, <2>1, <2>2 DEF Holds
<1>7. \A i \in 1..Len(written) : i \in Split!Flushed => written[i] = Split!Blank
  <2>1. \A i : i \in head + 1 .. fed => b + 3 < i
    BY <1>2, <1>3, <1>5
  <2>2. \A i : i \in Split!Flushed => i \in head + 1 .. fed
    BY <1>6 DEF Split!Flushed
  <2> QED
    BY <1>2, <2>1, <2>2
<1>8. Holds(answer', a + 3, b - 1)
  BY <1>1, <1>5, <1>7, HoldsBlank
<1>9. Holds(reasoning, t + 3, c - 1)' /\ Holds(answer, a + 3, b - 1)'
  BY <1>1, <1>5, <1>8 DEF Holds
<1>10. b + 3 <= head'
  BY <1>1, <1>2
<1> QED
  BY <1>1, <1>5, <1>9, <1>10 DEF Stage, AfterAll

LEMMA StagesStep == LostInv /\ Staged /\ [Split!Next]_Split!vars => Staged'
<1> SUFFICES ASSUME LostInv, Staged, [Split!Next]_Split!vars,
                    NEW t \in Nat, NEW c \in Nat, NEW a \in Nat, NEW b \in Nat,
                    Laid(t, c, a, b)'
             PROVE  Stage(t, c, a, b)'
  BY DEF Staged
<1>1. written' = written
  BY DEF Split!Next, Split!Feed, Split!InAnswer, Split!InThinking, Split!Between, Split!Flush, Split!vars
<1>2. Laid(t, c, a, b)
  <2>1. \A tag, p : Stands(tag, p)' <=> Stands(tag, p)
    BY <1>1 DEF Stands, Split!Begins
  <2>2. \A tag : Absent(tag)' <=> Absent(tag)
    BY <2>1 DEF Absent
  <2>3. \A tag, x : Only(tag, x)' <=> Only(tag, x)
    BY <2>1 DEF Only
  <2> QED
    BY <1>1, <2>2, <2>3 DEF Laid
<1>3. Stage(t, c, a, b)
  BY <1>2 DEF Staged
<1>4. CASE \E n \in 1..Len(written) : Split!Feed(n)
  <2>1. /\ splitting = "idle" /\ splitting' = "loop"
        /\ UNCHANGED <<written, head, part, ever, reasoning, answer>>
    BY <1>4 DEF Split!Feed
  <2> QED
    BY <1>3, <2>1, StageKept
<1>5. CASE Split!InAnswer
  <2>1. splitting = "loop" /\ part = "answer"
    BY <1>5 DEF Split!InAnswer
  <2>2. Answering(t, c, a, b)
    BY <1>3, <2>1 DEF Stage, BeforeAll, Thinking, BetweenParts, AfterAll
  <2> QED
    BY <1>2, <1>5, <2>2, AnswerStage
<1>6. CASE Split!InThinking
  <2>1. splitting = "loop" /\ part = "thinking"
    BY <1>6 DEF Split!InThinking
  <2>2. Thinking(t, c, a, b)
    BY <1>3, <2>1 DEF Stage, BeforeAll, Answering, BetweenParts, AfterAll
  <2> QED
    BY <1>2, <1>6, <2>2, ThinkingStage
<1>7. CASE Split!Between
  <2>1. splitting = "loop" /\ part = "neither"
    BY <1>7 DEF Split!Between
  <2>2. BeforeAll(t, c, a, b) \/ BetweenParts(t, c, a, b) \/ AfterAll(t, c, a, b)
    BY <1>3, <2>1 DEF Stage, Thinking, Answering
  <2> QED
    BY <1>2, <1>7, <2>1, <2>2, BeforeStage, BetweenStage, AfterStage
<1>8. CASE Split!Flush
  BY <1>2, <1>3, <1>8, FlushStage
<1>9. CASE UNCHANGED Split!vars
  <2>1. UNCHANGED <<written, fed, head, part, ever, reasoning, answer, splitting>>
    BY <1>9 DEF Split!vars
  <2> QED
    BY <1>3, <2>1, StageKept
<1> QED
  BY <1>4, <1>5, <1>6, <1>7, <1>8, <1>9 DEF Split!Next

(* Two tags of a text do not overlap.                                      *)
LEMMA TagsApart ==
    ASSUME NEW tag1 \in Marks, NEW tag2 \in Marks, NEW p \in Nat, NEW q \in Nat,
           Stands(tag1, p), Stands(tag2, q), p < q
    PROVE  p + Len(tag1) <= q
<1> DEFINE l == Len(tag1)
<1>1. l \in 3..4 /\ Len(tag2) \in 3..4
  BY TagLengths DEF Marks
<1>2. written[q] = "<"
  <2>1. 1 \in 1..Len(tag2) /\ q + 1 - 1 = q
    <3> DEFINE k == Len(tag2)
    <3>1. k \in 3..4
      BY <1>1
    <3> HIDE DEF k
    <3>2. 1 \in 1..k /\ q + 1 - 1 = q
      BY <3>1
    <3> QED
      BY <3>2 DEF k
  <2>2. written[q + 1 - 1] = tag2[1]
    BY <2>1 DEF Stands, Split!Begins
  <2> QED
    BY <2>1, <2>2, TagStarts DEF Marks
<1>3. SUFFICES ASSUME q < p + l PROVE FALSE
  <2>1. p \in Int /\ q \in Int /\ l \in Int
    BY <1>1
  <2> HIDE DEF l
  <2>2. q < p + l \/ p + l <= q
    BY <2>1
  <2> QED
    BY <2>2 DEF l
<1>4. q - p + 1 \in 2..l /\ p + (q - p + 1) - 1 = q
  <2> HIDE DEF l
  <2> QED
    BY <1>1, <1>3
<1>5. written[q] = tag1[q - p + 1]
  <2>1. \A k \in 1..l : written[p + k - 1] = tag1[k]
    BY DEF Stands, Split!Begins
  <2>2. q - p + 1 \in 1..l
    <3> HIDE DEF l
    <3> QED
      BY <1>1, <1>4
  <2>3. written[p + (q - p + 1) - 1] = tag1[q - p + 1]
    BY <2>1, <2>2
  <2> QED
    BY <1>4, <2>3
<1> QED
  BY <1>2, <1>4, <1>5, TagInside

(* At the end, the tags are where they are in the text.                    *)
LEMMA OpensIs ==
    ASSUME SplitTypes, fed = Len(written), NEW tag
    PROVE  \A p : p \in Split!Opens(tag) <=> Stands(tag, p)
BY DEF Split!Opens, Split!At, Stands

(* What stands between the one tag that opens and the one that closes.     *)
LEMMA InnerIs ==
    ASSUME SplitTypes, NEW open, NEW close, Len(open) = 3, NEW p \in Nat, NEW q \in Nat,
           Split!Opens(open) = {p}, Split!Opens(close) = {q}, p + 3 <= q
    PROVE  Split!Inner(open, close) = p + 3 .. q - 1
<1> DEFINE P == Split!Pairs(open, close)
<1>1. P = {<<p, q>>}
  BY DEF Split!Pairs
<1>2. {pair[1] : pair \in P} = {p} /\ {pair[2] : pair \in {r \in P : r[1] = p}} = {q} /\ P # {}
  <2>1. \A r \in P : r = <<p, q>> /\ r[1] = p /\ r[2] = q
    BY <1>1
  <2>2. <<p, q>> \in P
    BY <1>1
  <2> HIDE DEF P
  <2> QED
    BY <2>1, <2>2
<1>3. \A x \in Nat : Split!Min({x}) = x
  BY DEF Split!Min
<1>4. Split!Inner(open, close) =
          LET x == Split!Min({pair[1] : pair \in P})
              y == Split!Min({pair[2] : pair \in {r \in P : r[1] = x}})
          IN  IF P = {} THEN {} ELSE x + Len(open) .. y - 1
  BY DEF Split!Inner
<1>5. Split!Min({pair[1] : pair \in P}) = p
  BY <1>2, <1>3
<1>6. Split!Min({pair[2] : pair \in {r \in P : r[1] = p}}) = q
  BY <1>2, <1>3
<1> HIDE DEF P
<1> QED
  BY <1>2, <1>4, <1>5, <1>6

LEMMA InnerNone ==
    ASSUME NEW open, NEW close, Split!Opens(open) = {} PROVE Split!Inner(open, close) = {}
BY DEF Split!Inner, Split!Pairs

(* A text that is written as it was asked for is laid out.                 *)
LEMMA AskedIsLaid ==
    ASSUME SplitTypes, fed = Len(written), Split!AsAsked
    PROVE  \E t, c, a, b \in Nat :
               /\ Laid(t, c, a, b)
               /\ Split!Thought = t + 3 .. c - 1 /\ Split!Answered = a + 3 .. b - 1
<1> DEFINE TO == Split!ThinkingOpen
           TC == Split!ThinkingClose
           AO == Split!AnswerOpen
           AC == Split!AnswerClose
<1>1. /\ Len(TO) = 3 /\ Len(TC) = 4 /\ Len(AO) = 3 /\ Len(AC) = 4
      /\ TO \in Marks /\ TC \in Marks /\ AO \in Marks /\ AC \in Marks
      /\ Marks = {TO, TC, AO, AC} /\ Len(written) \in Nat
  BY TagLengths, LengthIsNat DEF Marks, SplitTypes
<1>2. \A tag \in Marks : \A p : p \in Split!Opens(tag) <=> Stands(tag, p)
  BY OpensIs
<1>3. /\ Split!Opens(AO) # {} /\ Split!Opens(AC) # {}
      /\ \A tag \in Marks : \A p, q \in Split!Opens(tag) : p = q
      /\ Split!Opens(TO) = {} <=> Split!Opens(TC) = {}
      /\ \A p \in Split!Opens(TO), q \in Split!Opens(TC) : p < q
      /\ \A p \in Split!Opens(TC), q \in Split!Opens(AO) : p < q
      /\ \A p \in Split!Opens(AO), q \in Split!Opens(AC) : p < q
  BY DEF Split!AsAsked, Split!Ordered, Marks
<1>4. /\ Split!Says(Split!Answered)
      /\ ~Split!Says(1..Len(written) \ (Split!Thought \cup Split!Answered \cup Split!Marked))
  BY DEF Split!AsAsked
<1>5. \A tag \in Marks : \A p \in Split!Opens(tag) :
         /\ p \in 1..Len(written) /\ p \in Nat
         /\ Stands(tag, p) /\ Only(tag, p) /\ Split!Opens(tag) = {p}
         /\ Split!TagsOf(tag) = p .. p + Len(tag) - 1
  <2> SUFFICES ASSUME NEW tag \in Marks, NEW p \in Split!Opens(tag)
               PROVE  /\ p \in 1..Len(written) /\ p \in Nat
                      /\ Stands(tag, p) /\ Only(tag, p) /\ Split!Opens(tag) = {p}
                      /\ Split!TagsOf(tag) = p .. p + Len(tag) - 1
    OBVIOUS
  <2>1. Stands(tag, p) /\ p \in 1..Len(written) /\ p \in Nat
    BY <1>1, <1>2 DEF Stands
  <2>2. Split!Opens(tag) = {p}
    BY <1>3
  <2>3. Only(tag, p)
    BY <1>2, <2>1, <2>2 DEF Only
  <2>4. Split!TagsOf(tag) = p .. p + Len(tag) - 1
    BY <2>2 DEF Split!TagsOf
  <2> QED
    BY <2>1, <2>2, <2>3, <2>4
<1> HIDE DEF TO, TC, AO, AC
<1>6. PICK a \in Split!Opens(AO), b \in Split!Opens(AC) : a < b
  BY <1>3
<1>7. /\ a \in Nat /\ b \in Nat /\ Only(AO, a) /\ Only(AC, b)
      /\ Stands(AO, a) /\ Stands(AC, b) /\ Split!Opens(AO) = {a} /\ Split!Opens(AC) = {b}
      /\ Split!TagsOf(AO) = a .. a + 3 - 1 /\ Split!TagsOf(AC) = b .. b + 4 - 1
  BY <1>1, <1>5
<1>8. a + 3 <= b
  BY <1>1, <1>6, <1>7, TagsApart
<1>9. Split!Answered = a + 3 .. b - 1
  BY <1>1, <1>7, <1>8, InnerIs DEF Split!Answered, AO, AC
<1>10. \E i \in 1..Len(written) : a + 3 <= i /\ i < b /\ written[i] # Split!Blank
  <2>1. PICK i \in a + 3 .. b - 1 : written[i] # Split!Blank
    BY <1>4, <1>9 DEF Split!Says
  <2>2. b \in 1..Len(written)
    BY <1>1, <1>5
  <2>3. i \in 1..Len(written) /\ a + 3 <= i /\ i < b
    BY <1>1, <1>7, <2>1, <2>2
  <2> QED
    BY <2>1, <2>3
<1>11. ASSUME NEW i \in 1..Len(written), written[i] # Split!Blank
       PROVE  \/ i \in Split!Thought \/ i \in Split!TagsOf(TO) \/ i \in Split!TagsOf(TC)
              \/ a <= i /\ i <= b + 3
  <2>1. \/ i \in Split!Thought \/ i \in Split!Answered
        \/ \E tag \in Marks : i \in Split!TagsOf(tag)
    BY <1>4, <1>11 DEF Split!Says, Split!Marked, Marks
  <2>2. i \in a + 3 .. b - 1 \/ i \in a .. a + 3 - 1 \/ i \in b .. b + 4 - 1
            => a <= i /\ i <= b + 3
    BY <1>1, <1>7, <1>8
  <2> QED
    BY <1>1, <1>7, <1>9, <2>1, <2>2
<1>12. CASE Split!Opens(TO) = {}
  <2>1. /\ Split!Thought = {} /\ Split!TagsOf(TO) = {} /\ Split!TagsOf(TC) = {}
    BY <1>3, <1>12, InnerNone DEF Split!Thought, Split!TagsOf, TO, TC
  <2>2. Absent(TO) /\ Absent(TC)
    BY <1>1, <1>2, <1>3, <1>12 DEF Absent
  <2>3. Laid(0, 0, a, b)
    BY <1>7, <1>8, <1>10, <1>11, <2>1, <2>2 DEF Laid, TO, TC, AO, AC
  <2>4. Split!Thought = 0 + 3 .. 0 - 1
    BY <2>1
  <2> QED
    BY <1>7, <1>9, <2>3, <2>4
<1>13. CASE Split!Opens(TO) # {}
  <2>1. PICK t \in Split!Opens(TO), c \in Split!Opens(TC) : t < c
    BY <1>3, <1>13
  <2>2. /\ t \in Nat /\ c \in Nat /\ Only(TO, t) /\ Only(TC, c)
        /\ Stands(TO, t) /\ Stands(TC, c) /\ Split!Opens(TO) = {t} /\ Split!Opens(TC) = {c}
        /\ Split!TagsOf(TO) = t .. t + 3 - 1 /\ Split!TagsOf(TC) = c .. c + 4 - 1
        /\ t # 0
    <3>1. t \in 1..Len(written) => t # 0
      OBVIOUS
    <3> QED
      BY <1>1, <1>5, <3>1
  <2>3. t + 3 <= c
    BY <1>1, <2>1, <2>2, TagsApart
  <2>4. c < a
    BY <1>3, <1>6, <2>1
  <2>5. c + 4 <= a
    BY <1>1, <1>7, <2>2, <2>4, TagsApart
  <2>6. Split!Thought = t + 3 .. c - 1
    BY <1>1, <2>2, <2>3, InnerIs DEF Split!Thought, TO, TC
  <2>7. ASSUME NEW i \in 1..Len(written), written[i] # Split!Blank
        PROVE  (t # 0 /\ t <= i /\ i <= c + 3) \/ (a <= i /\ i <= b + 3)
    <3>1. i \in t + 3 .. c - 1 \/ i \in t .. t + 3 - 1 \/ i \in c .. c + 4 - 1
              => t <= i /\ i <= c + 3
      BY <1>1, <2>2, <2>3
    <3> QED
      BY <1>11, <2>2, <2>6, <2>7, <3>1
  <2>8. Laid(t, c, a, b)
    BY <1>7, <1>8, <1>10, <2>2, <2>3, <2>5, <2>7 DEF Laid, TO, TC, AO, AC
  <2> QED
    BY <1>7, <1>9, <2>2, <2>6, <2>8
<1> QED
  BY <1>12, <1>13

LEMMA SplitRight == LostInv /\ Staged => Split!SplitAsAWhole
<1> SUFFICES ASSUME LostInv, Staged, splitting = "over", Split!AsAsked
             PROVE  /\ Split!Said(reasoning) = Split!Said(Split!Thought)
                    /\ Split!Said(answer) = Split!Said(Split!Answered)
  BY DEF Split!SplitAsAWhole
<1>1. SplitTypes /\ fed = Len(written) /\ head = fed
  BY DEF LostInv
<1>2. PICK t \in Nat, c \in Nat, a \in Nat, b \in Nat :
          /\ Laid(t, c, a, b)
          /\ Split!Thought = t + 3 .. c - 1 /\ Split!Answered = a + 3 .. b - 1
  BY <1>1, AskedIsLaid
<1>3. Holds(reasoning, t + 3, c - 1) /\ Holds(answer, a + 3, b - 1)
  BY <1>2 DEF Staged, Stage, AfterAll
<1>4. /\ a + 3 <= b /\ b + 3 <= Len(written) /\ Len(written) \in Nat
      /\ IF t = 0 THEN c = 0 ELSE t + 3 <= c /\ c + 4 <= a
  BY <1>1, <1>2, LaidTells, LengthIsNat DEF SplitTypes
<1>5. /\ \A i \in 1..Len(written) :
            /\ i \in t + 3 .. c - 1 <=> t + 3 <= i /\ i <= c - 1
            /\ i \in a + 3 .. b - 1 <=> a + 3 <= i /\ i <= b - 1
      /\ \A i : i \in t + 3 .. c - 1 \/ i \in a + 3 .. b - 1 => i \in 1..Len(written)
  BY <1>2, <1>4
<1>6. \A i : i \in reasoning \/ i \in answer => i \in 1..Len(written)
  BY <1>1, Zenon DEF SplitTypes
<1> QED
  BY <1>2, <1>3, <1>5, <1>6 DEF Holds, Split!Said

(* In whatever pieces an answer of any length arrives, whatever was said   *)
(* reaches the reader as reasoning or as answer, and an answer written as  *)
(* it was asked for is split as split_thinking_answer splits the whole     *)
(* (src/app/ai/llm/prompts.py).                                            *)
THEOREM ReaderGetsAllHolds == Split!Spec => []ReaderGetsAll
<1> DEFINE Inv == LostInv /\ Staged
<1>1. Split!Init => Inv
  BY LostStarts, StagesStart
<1>2. Inv /\ [Split!Next]_Split!vars => Inv'
  BY LostStep, StagesStep
<1>3. Inv => ReaderGetsAll
  BY NothingLost, SplitRight DEF ReaderGetsAll, Split!ReaderGetsAll
<1> QED
  BY <1>1, <1>2, <1>3, PTL DEF Split!Spec
=============================================================================
