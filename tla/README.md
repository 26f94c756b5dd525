# A TLA+ development of smart-procurement

The repository is a back end (FastAPI, MySQL, Redis with arq workers, Neo4j, Milvus, MinIO,
an LLM service) for tenders: suppliers upload bids, a worker parses them, closing a lot screens
them for collusion, experts are matched, declare conflicts and score with the help of an LLM,
a lot is evaluated, the project is awarded and archived.  This directory holds TLA+ models of
its stateful core, TLC configurations that check them on small instances, and TLAPS proofs of
their safety properties for every instance.  Paths below are relative to the repository;
`solution.md` and `task.md` are the repository's design documents.

Files: `X.tla` models a component, `MCX.tla` instantiates it for TLC, `*.cfg` are runs,
`X_proofs.tla` holds its theorems.  `PROJECT.json` lists components, runs, mutants (a plausible
bug for every property, which TLC must find), the code lines behind every definition, findings,
hazards and theorems.

    tlc -workers 2 -config BidClosing.cfg MCBidLifecycle.tla     # a run
    tlapm BidLifecycle_proofs.tla                                # a proof

## 1. Inventory

### 1.1 What is modelled

**Bid documents** (`app/services/bid_document_service.py`, `app/api/v1/bids.py`).
State: a row of `bid_document` (status, parsing_step, updated_at), its object in MinIO.
Operations: upload (checks, MinIO, insert, enqueue), retry-parse.
Interaction: enqueues `document_ingest`; competes with closing, blacklisting and the parser for
the status.  Hard: every operation checks, awaits and writes without a lock; the enqueue after
the commit may be lost.  Correct if a settled bid stays settled and every parse ends.

**Parsing worker** (`app/tasks/document_ingest.py`, `dispatch.py`, `worker.py`).
State: arq jobs, checkpoints in `parsing_step`.  Operations: an attempt of the pipeline, its
retries, marking a failure, the zombie cron.  Hard: kills, crashes and redelivery between any
two steps; the cron racing a live job; status checked once and written seven steps later.
Correct if a parse ends, and no parse revives what was decided meanwhile.

**Closing and screening** (`app/services/fraud_detection_service.py`).
State: `lot.status`, bid statuses.  Operations: close_bidding, confirm_prescreen, disqualify_bid.
Hard: long awaits (detection) between reading and writing, overlapping requests.  Correct if a
lot is decided once, and bids are sealed only in a lot released to review.

**Suppliers** (`app/services/supplier_service.py`).
State: blacklisted, status, the account of the same display name.  Operations: import; update_status with
the cascade on bids and reviews, its undoing, the account and the notices; the market, the own bids and
results.  Hard: the cascade sees the rows of its moment, the notices those of the snapshot; each notice
commits; changes overlap and write only the columns they changed.  Correct if a blacklisted supplier keeps
nothing that counts, clearing it restores what was suspended, no manager of its bids is passed over, and
its account is offered what it may bid for and shown what is its own.

**Reviews, closeout, archive** (`review_service.py`, `closeout_service.py`, `app/tasks/archive.py`).
State: rows of `expert_review`, lot and project status, archive jobs, expert profiles.
Operations: create, save, submit; complete_review, submit_for_award; the archive job.
Hard: checks of a lock that are stale when the ORM writes; suspension and restoration between
them; a job that is delivered twice.  Correct if a submitted review is final, a suspended one
comes back as it was, and an evaluated lot has no unfinished review.

**LLM client** (`app/ai/llm/deepseek_client.py`, the check in `app/api/v1/reviews.py`).
State: the circuit breaker of the process.  Operations: acquire, record_success, record_failure,
streaming and direct calls with their retries.  Hard: overlapping calls share one counter; retries
do not ask again; the routes refuse before anyone calls acquire.  Correct if it trips on the
threshold and nothing less, sheds load while open, and heals.

**Outbox and graph** (`outbox_consumer.py`, `outbox.py`, `neo4j_sync.py`, the writers of events in
the project, supplier, expert and conflict services).
State: `outbox_event`, the graph.  Operations: event with the change, direct write after the
commit, batches of the two cron jobs.  Hard: overlapping jobs, one transaction for fifty events
with writes to another store inside, stale snapshots, Neo4j away at any time.  Correct if every
event is processed in the end and never before the graph shows it.

**Experts, conflicts and cold data** (`conflict_service.py`, `supplier_service.py`,
`app/models/pending_conflict.py`).
State: relations between experts and suppliers in Neo4j, rows of `pending_conflict` about companies
that are not suppliers yet.  Operations: the import of ties, the import of companies, which wakes the
cold data.  Hard: each import commits in the middle and writes to another store afterwards, statement
by statement; the companies of a file are woken one after the other from one snapshot; two imports overlap.  Correct if a tie that counts as known is in the graph, and cold
data about a known company does not sleep on.

**Matching and declarations** (`expert_match_service.py`, `expert_declaration_service.py`).
State: `lot_expert_assignment.status`, rows of `expert_conflict_declaration`, the same graph.
Operations: match_experts, declare with its supplement.  Interaction: matching reads the graph that
declarations and imports write, and goes on without it.  Hard: a matching rewrites assignments while
experts declare; two declarations of one expert.  Correct if whoever declared a conflict is kept out.

**Score stream** (`review_service.py`, the route in `app/api/v1/reviews.py`).
State: the cached score of a bid and dimension, the cached frames of a review, both in Redis.
Operations: stream, replay, save, resume by Last-Event-ID, flush when the text or the settings
change.  Hard: overlapping streams, broken connections, a flush in the middle of a run, Redis failing
between any two steps.  Correct if the cache holds one complete and fresh score, and a reader sees no
gap.

**Sessions** (`app/api/v1/auth.py`, `app/core/security.py`).
State: refresh tokens, their marks and the revocation of a user in Redis.  Operations: login,
refresh, revocation of everything when a token comes back.  Hard: requests that present one token at
once; a revocation that deletes marks whose absence means "let pass"; Redis failing or losing its keys.
Correct if a token exchanged twice is noticed, and a revocation holds.

**Agent and conversations** (`app/ai/agent/`, `conversation_service.py`).
State: `conversation_message` of a review and dimension.  Operations: a question, the decision of the
model, its overruling, the tools, the answer, the summary.  Hard: windows of one expert that number and
compress the same conversation from old snapshots; the many ways to an answer.  Correct if answers
follow their questions, nothing is compressed twice unnoticed, and no question about a bid is
answered from nothing.

**Retrieval** (`app/ai/rag/retriever.py`, `degradation.py`).
State: none; one search with three calls outside that may each fail.  Correct if the fusion of its
routes keeps what they agree on, loses nothing, and the hint says what is true.

**Texts** (`app/ai/rag/chunker.py`, `ThinkingAnswerSplitter` in `app/ai/llm/prompts.py`).
State: that of a parser in the middle of its input.  Operations: cut a bid into chunks; split a streamed
answer, which arrives in any pieces, into thinking and conclusion.  Hard: boundaries of sections, of chunks
and of tags, and what happens to the rest.  Correct if nothing said is lost or put in the wrong place.

**Lots** (`project_service.py`, `expert_match_service.py`).
State: budgets, `scoring_dimension` with its criteria, `lot_expert_criteria`, the dimensions of an assignment.
Operations: create_lot, add_dimensions, configure_expert_criteria, match_experts with its ranking.  Hard: sums
and numbers that must fit across rows, checked from snapshots without a lock or a foreign key.  Correct if
weights add up, the budget holds, and every dimension has its experts.

**Detection scores and settings** (`fraud_detection_service.py`, `config_service.py`).
State: `system_config` and its cache in the process.  Operations: close_bidding and confirm_prescreen with their
checks, scores, weights and veto; set_configs, load_all, a restart.  Hard: two sets of weights judge one lot; the
cache is written before what it caches; settings change between two checks.  Correct if what the quick
detection lets pass the deep one would not hold, and the cache comes back to the table.

**Accounts and the login limiter** (`expert_service.py`, `app/api/v1/users.py`, `auth.py`, `core/rate_limit.py`).
State: `user` and `expert` rows; counters with a lifetime in Redis.  Operations: import of experts, creation,
enabling and disabling, change of a password; check, count, cool down and clear.  Hard: the ORM writes only the
columns that changed; overlapping imports choose the same usernames; check and count are two calls.
Correct if no one is registered twice, who is barred does not get in, and guesses stay few.

**Tasks** (`expert_declaration_service.list_my_assignments`, `review_service.create_review`, `src/web/src/views/expert` as far as it
decides whether to continue or to create).  State: the dimensions of an assignment, the reviews of a cell, the workbench
that is open.  Operations: matching and supplement, opening, reloading, creating, submitting, completing the lot.
Hard: the list, the address of the page and the reviews are of three moments.  Correct if what a lot waits for
is in somebody's list.

**Lists and notices** (the paged lists of nine services, `notification_service.py`).  State: rows, notices read or not.
Hard: pages are queries of their own by OFFSET, while rows come and go.  Correct if whoever turns all pages has
seen what was there all the time.

**Observation** (`app/obs.py`, `core/middleware.py`, the places that record or mark).
State: the marks and records of a request.  Hard: a stream has answered 200 before it fails, so whoever fails must
mark the request; generators are closed and cancelled in the middle.  Correct if what is told is so.

**What is shown of reviews** (`closeout_service.get_lot_summary`, `supplier_service.list_my_results`,
`review_service.get_lot_review_progress`, `list_my_reviews`).  No state of its own: computed from the rows of the
moment.  Correct if the order is right, and what was shown of a decided lot stays.

### 1.2 What is not modelled yet, or not at all

- **Stores of the pipeline**: two jobs of one bid delete and insert vectors.  Planned.
- **compare_across_bids, the marks of structured data, the texts of the prompts, the masking of personal data, the
  price formula**: string and number processing without state.
- **Detail pages** that read rows and return them, but for those of sections 3.13 and 3.14.
- **Spreadsheets of imports, infrastructure clients, the rest of the application shell and of the front end**:
  no state another part relies on, or external systems whose failures appear in the modules of their users.
- **Scripts and migrations** (`src/scripts`, `src/alembic`): acceptance runs against a deployed system,
  benchmarks, generators of synthetic data, and DDL.  They are programs that are run by hand, once, one step
  after the other, and hold about two fifths of the repository's lines of implementation; that is why the map
  covers three tenths of all lines, but well over half of those in `app/services`, `app/ai` and `app/tasks`.

## 2. Plan

1. `BidLifecycle`, shown to implement `SealedLots`, with proofs (done)
2. `LLMClient` with proofs (done)
3. `ReviewFlow` with proofs (done)
4. `OutboxSync`, shown to implement `Mirror`, with proofs (done)
5. `Conflicts`, and `Declarations` composed with it, with proofs (done)
6. `ScoreStream` with proofs of its cache (done)
7. `SessionTokens` with proofs (done)
8. `ChatAgent`, `Retrieval`, `Splitter`, `Chunker` with proofs; `Cleaning` (done, model-checked)
9. `LotSetup`, `Accounts`, `LoginLimiter`, `Screening` with the cache of the settings, with proofs (done)
10. `Observation`, composed with LLMClient, with proofs (done); `Results`, composed with ReviewFlow, with proofs (done);
    `Portal`, `Tasks`, `Listings` with proofs (done)
11. `IngestPipeline`: the contents of MinIO, Milvus and Neo4j under concurrent and repeated jobs of
    a bid; refines the steps of BidLifecycle.
12. A composition of BidLifecycle and ReviewFlow across the release of a lot, and of Declarations with
    ReviewFlow's create_review, which does not look at the status of an assignment.

## 3. Modules

Common conventions.  A handler that reads rows, awaits and then writes is two actions,
`...Begin` with the checks, and a commit; the record of the request keeps what it read.  A
session reads from the snapshot of its transaction (MySQL REPEATABLE READ), and the ORM flushes
only the columns that changed; UPDATE statements with a WHERE see the newest rows.  A request may
end anywhere (`RequestFails`).  What a decision is taken on but the properties do not tell apart
(the risk of collusion, the text of a prompt) is a nondeterministic choice.  `Mutant:` comments mark
variants of a definition that no specification uses.  A history variable is marked as such where it is
declared, and no guard reads it.  A property whose name is a conjunction of others (`BreakerHolds` is `TripsInTime`,
`OpenShedsLoad` and `NoEarlyTrip`) is defined beside them.

Several small components share a run (`registry`, `assistant`, `screening`, `sessions`, `review_flow`).  They share no variable, so that every
one of their interleavings is a pair of behaviours of the parts: the run chooses one part at the start and
leaves the others where they begin, which is every behaviour of each part and none of their product.  `TasksApart`,
`ScreeningApart` and `AssistantParts` instantiate Tasks, Screening, and ChatAgent, Retrieval and Splitter with names that no module beside them has; the
runs and the proofs extend these.

### 3.1 BidLifecycle and SealedLots

| state | code |
| --- | --- |
| `lot` | `lot.status`, from BIDDING on |
| `supplier` | `supplier.blacklisted`, and whether `supplier.status` is ACTIVE |
| `bid`, `step`, `stale` | `bid_document.status`, `parsing_step`, and whether `updated_at` is past the zombie timeout |
| `req` | handlers between what they read and their commit |
| `job` | arq jobs: queued, before the status check, claiming, in the steps, marking the failure |
| `scan` | ids the cron has selected and not yet updated |
| `exposed` | history: bids some operation held when their supplier was blacklisted |

`UploadBegin`, `UploadCommit` and `Enqueue`, `RetryParse...`, `Close...`, `Confirm...`, `Disqualify...`
are the handlers; `UpdateSupplierStatus` is one transaction with its cascade; `Pipeline...`,
`AttemptFails`, `FileRejected`, `MarkFailed...`, `JobKilled`, `WorkerCrash` are the job; `Age`, `ScanSelect`
and `ScanUpdate` are the cron.  The seven steps of the pipeline differ in what they write to other
stores, which is not modelled; `LastStep` is the number of checkpoints.

`SealedLots` is the abstract promise, without requests, jobs and cron: a lot is open, screened, released or abandoned, and
decided once; a bid is absent, live, sealed or out; `held` are the bids some operation will write, whatever they are by
then.  Bids are sealed by the release of their lot and by nothing else, straight from the open lot only with a quorum, and an
operation takes in hand only bids that are still in play.  `PhaseOf` and `StandingOf` read lots and bids so; `Seals` is
the instance, and `DecidedOnce` states that BidLifecycle implements it.

Runs.
- `bid_closing` (4.8 million states): two bids of two suppliers, two requests of any kind, a job
  with a retry, the cron; quorum 2.  `FrozenOnlyUnderReview`, `DecidedOnce`.  Two requests are enough for a pair that overlaps; two bids for a lot just at its quorum, so that of
  two closing requests one finds it and one does not.
- `bid_parsing` (0.8 million states): one bid with two jobs (a retry-parse beside a redelivered
  job), two deliveries each, and arbitrary changes of the supplier.  `BlacklistHolds`,
  `CheckpointedParseEnds`.

Runs without supplier changes set CHECK_DEADLOCK FALSE: once a lot is abandoned and nothing is in
flight the model has nothing left to do, and neither has the code.

Fairness (`Fairness`): the worker polls its queue and runs the job it has, the cron fires every
minute, rows age.  No request, retry or crash is assumed to happen or to stop; deliveries of a job
are bounded (`MaxTries`, arq's max_tries).

### 3.2 LLMClient

| state | code |
| --- | --- |
| `state`, `count`, `left` | `_CircuitBreaker._state`, `_failure_count`, and the time left of `_opened_at` + window |
| `call` | per caller: where its call is and how many attempts it has used |
| `healthy` | the provider |
| `streak`, `sends` | history: failures in a row; requests sent while OPEN |

`Gated` callers come through a route that checks the breaker first (`Ask`), the others call `chat`
directly (`AskDirectly`).  `Streaming` callers may fail after their first chunks.  The code runs on
one event loop: between two awaits an operation is atomic, so each attempt is one action to send and
one to end.

**Observation** EXTENDS LLMClient: every action of a client's call is conjoined with what it records and marks.

| state | code |
| --- | --- |
| `route`, `at` | the request a gated caller serves, and how far it is: the first call, a tool, the later call, the summary |
| `hardFail` | `health["hard_fail"]` of the request's context (`obs_mark_hard_fail`) |
| `entries` | what record_llm_ok and record_llm_error were told |
| `root` | what end_request was told by `_obs_finish` |
| `sent`, `fate` | history: requests that reached the provider; what became of the answer |

A request's later call of the agent is made by the caller `Later[q]`, which asks nobody but the breaker.  `Summarize` is
the call of conversation_service, which goes past the client.  Of a disconnect the middleware may or
may not learn; that is the server's (external).

Run.
- `llm_calls` (68,490 states, specification `ObservedFairSpec`): a gated streaming call, a chat or a score, beside
  a direct one, which may be its later call; threshold 3, a window of 2 ticks, two back-offs, all kinds of error.
  `BreakerHolds` (`TripsInTime`, `OpenShedsLoad`, `NoEarlyTrip`), `TraceIsHonest`, `EveryCallEnds`, `Heals`.
  Two callers with up to three attempts each are more failures than the threshold in any order; a third caller
  adds only a longer queue for the same counter.

Fairness (`ObservedFairSpec`, which contains that of LLMClient's `Running`): time passes, a request that was sent ends
in an answer or a timeout (httpx has one), a sleep ends, a handler that is at work goes on.  `Heals` assumes
besides (`Users`) that people keep using the routes and not every one of them disconnects before the answer
is complete: strong fairness of Acquire and Succeed, since a disconnecting client may end a call at any time.

### 3.3 ReviewFlow

| state | code |
| --- | --- |
| `review` | rows of `expert_review`: status, prev_status, expert, bid, score, AI suggestion |
| `lot`, `bid`, `blacklisted`, `awarded` | the columns the handlers check |
| `req` | handlers in flight, with the columns they read |
| `jobs`, `runs`, `total` | archive jobs queued and past their first commit, deliveries, `expert_profile.total_reviews` |
| `before`, `late` | history: status at the suspension; reviews created too late for complete_review |

Actions are the two halves of create, save, submit, update_status, disqualify, complete and award, the
enqueue of the archive job, its two commits and its redelivery.  `Suspend`, `Release`, `Saved` and
`Submitted` are the UPDATE statements and flushes as functions on a row.  One dimension stands for
all that an expert is assigned.

Runs.
- `review_flow` (2.37 million states, with 3.14): one review and three requests at a time, of experts and managers.
  Three requests are a save, the blacklisting and the clearing that overlap; the properties are about a
  single review, which meets other reviews only in `Unfinished`.  `SuspensionIsUndone`
  (`SuspendedRemembers`, `SuspendedOnlyWhileBlacklisted`), `EvaluatedIsComplete`, `LockedStays`.

### 3.4 OutboxSync and Mirror

| state | code |
| --- | --- |
| `row` | a row of project, lot, supplier, expert, or an import of conflicts; a version stands for its columns |
| `status`, `about` | `outbox_event.status`, `aggregate_id` |
| `graph` | nodes and relations of Neo4j, by the version they show |
| `up` | whether Neo4j answers |
| `req` | requests between their commit and their answer (`session.refresh`, `_sync_neo4j`) |
| `batch` | `_claim_and_process`: what it has claimed, done and failed, its snapshot, the statement it has come to |
| `version`, `newest` | history: the version committed with an event; the newest an element had |

The constants describe the graph: the statements of each upsert in their order, the nodes a statement
MATCHes, which event types have a handler, which aggregates change without an event.  `Claim` is the
SELECT ... FOR UPDATE SKIP LOCKED; `Read` makes the snapshot at the first plain SELECT; `WorkerMerge`
is one Cypher statement, a transaction of its own; `Commit` is the end of `session.begin()`, where all
marks become visible at once; `Abort` is a job that is killed, with its rollback.  A rollback leaves
in the graph what was written.

`Mirror` is the abstract promise: events are published, nodes are shown, and a set of events is
delivered, once and for all, only when the graph has their nodes.  `KeepsPromise` states that
OutboxSync implements it, with `delivered` as the set of PROCESSED events and `shown` as the aggregates
whose node is in the graph.

Runs.
- `outbox_sync` (0.18 million states): a supplier whose row changes, an import of two conflicts with it,
  one request, two cron jobs at a time in batches of two, three events, versions up to 2.  Two jobs
  overlap; two versions tell a stale snapshot; with batches of two an event waits behind another and a
  batch may be done in part.  `ProcessedIsShown`, `KeepsPromise`, `EventsAreDelivered`.

Fairness (`Crons`): a job that runs goes on, and consume_outbox and reconcile_outbox are started again
and again, which the worker's cron does.  `EventsAreDelivered` assumes besides (`Calm`) that from some time
on Neo4j answers and jobs are not killed: without that nothing can be promised.

### 3.5 Conflicts

| state | code |
| --- | --- |
| `known` | companies with a row in `supplier` |
| `node`, `relation` | Supplier nodes, and EMPLOYED_BY, HOLDS_SHARE and RELATIVE_EMPLOYED relations in Neo4j |
| `up` | whether Neo4j answers |
| `cold` | `pending_conflict.status` of a tie |
| `imp` | imports between two of their steps, with what they read |
| `missed`, `cut`, `raced` | history: relations Neo4j did not take; companies whose import died after its commit; ties stored after their company's import had its snapshot |

`ConflictsBegin`, `ConflictsCommit`, `ConflictsRelate` are import_conflicts: the lookup of the companies, the
commit of the cold data, the relations of the rest.  `SuppliersBegin` to `SuppliersActivate` are import_suppliers:
the check for existing rows, the commit of all the companies of the file (which fails when another import took the same
usernames meanwhile), and then, for one company after the other, the node (`SuppliersNode`), the SELECT of
the cold data (`SuppliersLook`) and one relation per row (`SuppliersRelate`; `_activate_pending_conflicts` logs and goes on);
one commit ends them all.  The turns are one transaction: the first SELECT takes the snapshot (`seen`) from which the others
read, so that a tie stored between two turns is not woken although its company's turn is still to come.  `Relate` writes nothing when
Neo4j is away or the node it has to MATCH is missing.  `WorkerNode` is the outbox worker, which replays
nodes and no relations.  A file of companies is a set of any size, in any order of turns; one that lists a
company twice is not considered (without a number in the file it makes two rows of one credit code).  A file of
ties holds one: several ties of a file behave as imports that begin and commit together.

Run `registry` (1.80 million states, with 3.12): one expert, two companies, files of one and of both, two imports of any kind at once; the type of one
company's tie has no relation.  `ColdDataKept` (`ActivatedIsShown`, `ColdIsUnknown`), `ColdDataWakes`.  The hazards are the
overlap of one import of each kind, and the turns of two companies, which take a file of two; the second company's tie is also the one that is never mapped.

Fairness (`ConflictsSpec`): an import goes on until it ends or dies.  Nothing is assumed of Neo4j.

### 3.6 Declarations

| state | code |
| --- | --- |
| `released`, `bidders` | lots UNDER_REVIEW; suppliers with a row of `bid_document` in the lot |
| `active` | `expert.status` is ACTIVE |
| `asg` | `lot_expert_assignment.status` |
| `declared` | rows of `expert_conflict_declaration` |
| `req` | matchings and declarations between two of their steps, with what they read, whether they were `blind` (Neo4j away), and whom they should keep out (`barred`, history) |

EXTENDS Conflicts: its imports fill the graph that `Unobjected` reads.  `MatchBegin`, `MatchCheck`,
`MatchCommit` are match_experts: reads of MySQL, the query of the graph and the choice, the commit, refused
as a whole when a row exists by now (`uq_lot_expert`).  `DeclareBegin`, `DeclareRelate`, `DeclareCommit` are declare up to
its commit; `Supplement...` what follows a declared conflict.  The ranking is any choice of the right number.

Run `declarations` (5.7 million states): a lot with two experts who are colleagues one way, one supplier, two requests,
one import.  `DeclaredKeepsOut`.  Two requests are a matching beside a declaration, two declarations, or two
matchings; a supplement needs the second expert.  The property relates a declaration to every later
matching, its violation needs six steps of two requests.  Several lots are in the theorem, not in the run.

### 3.7 ScoreStream

| state | code |
| --- | --- |
| `scores` | Redis list `score:scache:{bid}:{dimension}:{model}` |
| `frames` | Redis list `sse:cache:{review}` |
| `conn` | the generator of a stream: `lookup`, `replay`, `live`, `retrieve`, `ask`, `save` |
| `linked`, `seen` | clients that receive, and the frames they have |
| `now`, `changing` | text of the bid and settings of the LLM; what was written and not flushed yet |
| `basis`, `resumed`, `gap`, `overlap`, `dirty` | history: what a run used; attempts that were resumed; reviews whose frames Redis lost; runs under way at a flush; a change without a flush |

A stream is a first frame, the frames of a run of the LLM and a last one.  `Frame.run` is the run a frame
came from, which is what its content amounts to.  A run reads the text at `Retrieve` and the settings at `AskLLM`;
it is saved when it ended in a score (`kept`).  A client whose connection broke may have lost the last
`MaxLost` frames while the server goes on, and resumes with the id of the last one it has.

Run `score_stream` (5.5 million states): two clients on one review, so that both write the same list of frames;
one of them loses its connection.  Two runs, one change, one outage; three frames are a first, a middle and
a last one.  `CacheIsRight` (`CacheIsOneRun`, `FreshUnlessOverlap`), `StreamIsOneRun`, `GaplessView`.

CHECK_DEADLOCK FALSE: with MaxRuns streams over, nothing is left to do.

### 3.8 SessionTokens

| state | code |
| --- | --- |
| `issued`, `expired` | refresh tokens in the order of issue; how many have expired |
| `mark` | `refresh:user:{user}:{jti}`: none, "1" or "USED" |
| `revoked`, `cut` | `refresh:revoke:{user}`; tokens issued when it was set |
| `redis`, `outages` | whether Redis answers |
| `req` | refreshes and logins between two of their steps |
| `parent`, `loose` | history: what a token was issued for; tokens used while Redis failed, or lost by it |

`Check`, `Consume`, `Revoke`, `Clear` are the calls to Redis of `_consume_refresh_token` and `_revoke_all_refresh`, one action each;
each may fail, and the request is then let through (`Unseen`).  `Clear` deletes what the scan returned: what
was there all along and any of the newer keys.  One user, whose sessions are all that interact.

Run `sessions` (4.1 million states, with 3.14): two requests, four tokens, one outage.  Two requests are two that present
one token, or a refresh beside a login; the third and the fourth token are their successors, which come back once the
first two are over.  `ReuseIsStopped` (`TwiceMeansRevoked`, `RevocationHolds`).  CHECK_DEADLOCK FALSE: when no token is left
to issue and all have expired, nothing happens any more.

### 3.9 ChatAgent

| state | code |
| --- | --- |
| `msgs` | `conversation_message` of one review and dimension, in the order of commits: type, `dim_turn_number` |
| `win` | the request of each window: where it is, the snapshot of its transaction, the class of its question, what its answer is made from |
| `to`, `covers`, `saw` | history, in a message: the question it answers, the rows it compresses, what its writer had read |

A session's transaction sees the conversation as it was at its first read, and `session.refresh` after a
commit is that read: the answer is numbered from the snapshot taken when the question was committed,
however long the model talked (`SaveQuestion`, `SaveAnswer`), and `ReadStage` from the one after the answer.  `Texts` are the
classes intent.py distinguishes; `kind` is what the answer is made from: the context, an answer that has been
told of an error, a fixed text, or the model's own.

Run `assistant` (2.41 million states, with 3.10 and 3.11): two windows, four questions of which each may be of the classes given in
`MCQuestions`, so that stages of four messages fill and overlap.  `ConversationHolds`
(`AnswerFollowsQuestion`, `CompressedOnce`), `GroundedAnswer`.

### 3.10 Retrieval

`world` is what the semantic search would return, `vector`, `listed` and `hits` what the search has in its hands,
`results` and `hint` what it returns.  Each call outside is an action with a failing twin.  `Fused` is `_rrf_fuse` with
exact fractions (`Scale`), ties in the order of first appearance; `Hint` is classify_retrieval.

In the run `assistant`: four passages of which the listing reaches three (`Limit`), three returned, every
ranking and every count up to two terms.  `SearchIsSound` (`AgreementKept`, `NothingFoundIsLost`, `HintIsHonest`): the rank fusion is
compared with what the two rankings agree on, not with a second copy of itself.

### 3.11 Chunker, Splitter and Cleaning

**Chunker.**  `text` is a sequence of lines (a page mark, a heading, a line of some tokens); `at`, `title`, `lines`, `pages`, `page`
are the variables of the loop that reads it, `sections` and `chunks` what it has made, `paras`, `cur` and `pieces` those of
`_split_body`.  Tokens are numbered, so that a paragraph or a chunk is a set of numbers and "lost", "repeated" and "on which page" are
about sets; the next paragraph is the one with the least numbers (`First`).  That the tokens of two lines add up is an abstraction (the tokenizer is external).
In the run `assistant`: every document of one to five lines of the given kinds, chunks of 3 tokens, an overlap of 2, lines
that are shorter and longer than a chunk.  `ChunksAreRight` (`NothingIsCut`, `ChunksAreBounded`, `PlaceIsRight`).  Five lines
are a page, a heading, two paragraphs of which one is too long, and what follows them.

**Splitter.**  `text` is what the model writes, symbol by symbol; the tags are made of symbols that share their beginnings,
as in the code, so that a piece may end in half of either.  `fed`, `head`, `part`, `ever` are what the splitter keeps,
`reasoning` and `answer` what it has sent.  `Feed` receives a piece of any length, `InThinking`, `InAnswer`, `Between` are a round
of its loop, `Flush` the end.  `Thought` and `Answered` are split_thinking_answer, for the whole text.
`ReaderGetsAll` (`SplitAsAWhole`, `NothingIsLost`): for a text written as the prompt asks, the pieces do not matter; for any
other nothing is lost.  The texts are all sequences of the four tags, complete or not, with letters, blanks and
half tags between, up to the length given in `MCAnswers`.

**Cleaning.**  `text` is a sequence of kinds of characters: words, wide characters, polite words, emoji, marks of punctuation,
blanks, line breaks, hidden characters.  `CleanQuery` is clean_query with its prefix and suffix, its noise at either end and
its limit, `CleanText` is clean_text, in the order the code works.  In the run `assistant`: every question of up to five and every
passage of up to seven of these, a limit of 4 of which 2 are kept.  `CleaningKeepsTheText` (`QuestionIsAsked`, `PassageIsKept`): no
word is lost but by the limit, no line or paragraph of a passage, and the second cleaning is the last that changes
anything; the first is not.

### 3.12 Accounts and LoginLimiter

**Accounts.**  `rows` has per username the account and the expert it was made for; `call` what a request (`Calls`) has read.
`Newcomers` are the rows of a file about persons who are not known when an import reads, `Made` gives them the unused usernames in
order; the second of two imports that chose the same fails as a whole (username is unique).  A file may list a person twice: both rows
become experts, as the code compares a row with what was known before the first (`expert_service.py:84-121`); `twins` (history) are
the pairs of accounts that came about so, the exception `OnePersonOnce` names.  `Create...`, `User...` are the pages of the administrator,
`Status...` update_status of an expert, `Password...` the change a first login forces.  `Finish` writes the columns that differ from what
the request read, and no others; `slipped` (history) are the accounts for which that was not what it meant.

**LoginLimiter.**  `count`, `windowLeft`, `cooldownLeft` are the two keys of an address with their lifetimes; `CheckLimit`, `Record`, `Cool`,
`ClearAttempts` the calls, each of which lets pass when Redis does not answer; `passed` (history) counts the attempts that got
to the password by their age.  `Tick` is time.

Run `registry` (1.80 million states, with 3.5): two requests, two persons in files of one or two rows, one of which lists a person twice, two usernames; three attempts
at a limit of 2, a window of 2 ticks and a cool-down of 3, one failure of Redis.  `AccountsHold` (`OnePersonOnce`, `WhoGetsIn` with
`LockedOut` and `InitialPasswordGone`), `FewAttempts`, `CooldownEnds`.  Two requests are any overlap of two; the files have persons in common, in other places; three attempts are one more than the limit, so that all have checked before one is counted.
Fairness: time passes (`Fairness`).

### 3.13 LotSetup, Screening and Results

**LotSetup.**  `budget`, `dims`, `rubric`, `criteria`, `asg` are the rows of a lot; `req` what a request read.  Each operation is its
checks on the snapshot and its commit on the rows there are then: `CommitDimensions` deletes the rows it has seen and
inserts its own, each with criteria or without (they are optional, `schemas/project.py:110`; `Detailed` are those that have some), and fails on
the primary keys when others stand there; `Columns` is the ORM's update.  `Rankings` is the
sort by the weighted score, with ties in any order; `Share` the distribution of dimensions: round robin, then every
dimension filled to its minimum.  `raced` (history) is what two like requests overlapped on.
Run `lot_setup` (2.16 million states): two requests, two lots of one project, lists of one dimension with criteria and of two of which the first has none, and one whose weights do not add
up, criteria that differ in one column, two experts, one in conflict.  `WithinBudget`, `SetupFits` (`WeightsAddUp`,
`CriteriaFit`, `CriteriaBelong`: exactly the dimensions that were given criteria show some), `EveryDimensionCovered`.  CHECK_DEADLOCK FALSE: the budget of the project can be spent.

**Screening.**  `facts` is what is true of a lot (controllers shared, affiliates, common bids, prices in a cluster or a ring,
pairs of similar texts); `GraphScore` to `RiskLevel` are the scores of the quick and of the deep detection with their caps,
weights, rounding and thresholds; `Risk` has the veto.  A store that does not answer counts nothing.  `table` and `cache` are
`system_config` and `_cache`; `SetConfigs` writes the cache item by item, `CommitConfigs` the table, `FailConfigs` leaves the cache as it is;
`LoadAll` reads the rows and `ApplyLoad` writes them over the entries; `Restart` begins with an empty cache.
`ScreeningAssumption` has what makes the values of config.py safe together: a shared controller (30 points) is over the default threshold of the quick
detection, and the graph at its weight with one pattern of prices at theirs is not over the middle of the two thresholds.  The arms of
`RiskLevel` are tried in the order of the code, since a critical level below the automatic one would satisfy two of them.

**Results** EXTENDS ReviewFlow with what is computed from its rows: `Average` and `Total` in hundredths (the code rounds binary
fractions; `Whole`, a multiple of every maximum, lets the shares of the dimensions be added before they are rounded), `Ahead` the key of the sort, `Told` what a supplier reads, `Done` and `History` the progress and the history.

Run `screening` (1.59 million states): one lot with each of 216 findings at and beside every threshold, two requests of
managers and administrators, three batches of settings of which one is refused in its second item;
`CacheFollowsTable`, `HeldWhenDue` (`QuickPassIsSafe`, `VetoHolds`).  The other part is Results over two bids, two experts and two
reviews (`Bounded`): requests one after the other over both reviews, or two at once over a single review;
`ResultsStand`.  Two overlapping requests meet in one row, two rows meet in one ranking; both together is
`review_flow` without the views.

### 3.14 Portal, Listings and Tasks

**Portal.**

| state | code |
| --- | --- |
| `name` | `supplier.name`, which is `users.display_name` of its account |
| `company`, `enabled` | `supplier.blacklisted` and `status`; `users.is_active` |
| `lot`, `bid` | whether the lot takes bids; the status of the company's bid |
| `upload` | an upload between its checks and its commit |
| `change` | update_status in flight: what it read (`was`, `active`, `bids`), what it wants, how far it is |
| `inbox` | the last notice about a company to the manager of a lot |
| `told`, `silent`, `late`, `slipped` | history: lots told of the company since it was last cleared; requests that died between two notices; bids that came between; accounts that one of two overlapping changes, or an administrator, left |

`StatusBegin` is the read, in whose snapshot the bids to tell of are found later; `Cascade` the UPDATE, which sees the newest rows and locks
them; `Send` a notice, whose commit is also that of everything before (`Write`); `Answer` the end, which commits when there was none to send.
`Flushed` is the ORM, which writes a column only if it differs from what was read.  `Namesakes`, `Me`, `Offered`, `BidsOf`, `Opens` are what an
account is resolved to and shown.  In the run `sessions`: two companies, which may have one name, two lots with managers, two changes; the second
change begins while no upload, namesake or notice read is about, each of which is looked at beside one change (`Bounded` in MCSessionTokens).
`PortalIsRight` (`OfferStands`, `ShownIsOwn`), `NobodyPassedOver`.

**Listings.**  `time` is the column a list is ordered by, and two rows may have the same; `Lists` are the ten paged lists, told apart by whether
rows leave and whether they come in elsewhere than on top.  `Turn` reads the next page; `Pages` are the sets of rows a query with ORDER BY, LIMIT
and OFFSET may return.  `slid` and `tied` (history) are the rows behind one that left, and those beside another of their time.  In the run `sessions`:
four rows, pages of two, four times, so that there is a row on the boundary from either side.  `PagesMissNothing`.

**Tasks.**  `dims` is `lot_expert_assignment.dimension_ids`, `review` rows of `expert_review`, `tab` a workbench with its address, the
review it works on, and what the list said (`knew`).  `Match` and `Supplement` rewrite `dims`; `Open`, `Reload`, `Create`, `Submit` are the workbench
with the checks of create_review and submit_review; `Complete` is complete_review.  `Shown` is `review_map`, which keeps one review of a cell.  `taken`
and `doubled` (history) are dimensions that a second matching took away, and cells in which a workbench that could not know of a review made another.
In the run `review_flow`: two experts, two dimensions, two workbenches, two reviews, one bid.  `TasksAreShown` (`OneReviewPerCell`, `WaitedForIsShown`).
`TasksAssumption` says that the values of the constants are apart, and nothing of the system.

### 3.15 Bounds

`MaxTries` in BidLifecycle, `MaxRuns` in ReviewFlow, `MaxEvents` and `MaxVersion` in OutboxSync, `MaxLost`, `MaxRuns`,
`MaxChanges` and `MaxOutages` in ScoreStream, `MaxTokens` and `MaxOutages` in SessionTokens, the length of `Questions` in
ChatAgent, `N` and `Terms` in Retrieval, `LastName` in Accounts, `MaxFailures` in LoginLimiter, `Documents` and `Texts` of Chunker and
Splitter, `Amounts`, `Lists`, `Profiles` of LotSetup, `Updates` and `FactSets` of Screening, `LastTime` and `PageSize` of Listings, `Longest` and
`MaxLength` of Cleaning, `Tabs` and `Ids` of Tasks, `Bounded` in MCScreening and MCSessionTokens, `InOrder` in
MCSessionTokens and `WorkNext` in MCReviewFlow (names are used in order), and the identifiers of each kind.  They occur only in guards and types; the theorems hold for every value.

## 4. What is proved

TLAPS proves these for every value of the constants (any number of lots, bids, experts, reviews,
callers, aggregates, events, requests and jobs, any graph of the assumed shape, any limits and weights), from the named
assumptions of each module, which TLC evaluates in every run.  Each module proves its type invariant
(`TypeCorrect`, `AssignmentsTypeCorrect`, or within its invariant); a conjunction that a run checks has a theorem of its own
(`BreakerHoldsAlways`, `SuspensionIsUndoneHolds`, `ColdDataKeptHolds`, `CacheIsRightHolds`,
`ReuseIsStoppedHolds`, `AccountsHoldAlways`, `SetupFitsHolds`, `PortalIsRightHolds`, `HeldWhenDueHolds`, `TasksAreShownHolds`,
`ResultsStandHolds`, `ConversationHoldsAlways`), which combines those of its parts.  Where a run
checks a part of the state with one of several specifications, the theorem is about the part's own specification, of which
the run explores an instance.

**BidLifecycle_proofs** (`OwnersAssumption`, `BoundsAssumption`).
`TypeCorrect`, by one step per action.  `FrozenOnlyUnderReviewHolds` and `LotMovesForwardHolds`
from `ClosingInv`: a confirm_prescreen in flight seals without a second look at the lot, but a lot
it saw in PRE_SCREEN can only have moved to UNDER_REVIEW, and a request seals bids of its own lot.  `SettledIsFinalHolds` from `HoldInv`:
jobs and requests refer to rows that exist; then a lemma says of each step that it writes a
bid only on behalf of an operation that already held it, and takes hold of it only while the bid
is in work.  `BlacklistHoldsAlways` from `BlacklistInv`: a barred bid is also held by nobody, which
`BlacklistHolds` alone would not survive.
`ImplementsSealedLots` maps every step, under `ClosingInv` and `HoldInv`: what the closing, the confirmation, the disqualification
and the cascade do to `Release`, `PutOff` and `Disqualify`, everything else to `Work` or a stutter.  `SealedLotsSuffices` derives
from the abstract specification alone that sealed bids are those of lots under review.
Of Screening (`SettingsAssumption`): `CacheFollowsTableHolds`
from `SettingsInv`: an update that nothing disturbed still has its values in the cache, and nobody else is in flight on its items
(`SettersAlone`); a reload that nothing disturbed has read the table as it is (`LoadersAlone`); so that the commit of the one and the writes of
the other leave the cache as the table (`Follows`).  `HeldWhenDueHolds` from `ScreenInv`, which adds what a lot that was let pass was found
with (`PassedOk`): a lot that passes the quick detection under the defaults has no controller in common, no cluster of prices and no pair of similar texts; and what
is left at most, the graph and one pattern of prices with their caps, weights and rounding, stays under the risk that holds a lot (`QuickIsSafe`).

**LLMClient_proofs** (`CallersAssumption`, `SettingsAssumption`).
`TypeCorrect`; `TripsInTimeHolds` and `NoEarlyTripHolds` from `CountsTheStreak`: in CLOSED the counter
is the streak; `OpenShedsLoadHolds` from `ShedInv`: every request sent to an open breaker has cost its
caller an attempt, with room left for the one that a back-off still owes.
Of Observation (`LaterAssumption`): `ObservedIsClient`, every step of the observed system is a step of LLMClient or leaves it alone,
so that what is proved of the client (`BreakerHolds`) holds of the observed one too; `TraceIsHonestHolds` from `TraceInv`: where a
request is says what its records and its mark can be, call by call, and no two requests share a later caller (`OneEach`).
Of ScoreStream (`StreamAssumption`), `CacheIsOneRunHolds` and `FreshUnlessOverlapHolds` from `CacheInv`: streams have runs of their own, a cached run is over, and
a run that may still be saved has used what is in force or was under way at the flush (`Fresh`).
`StreamIsOneRunHolds` from `StreamInv`: a client that listens has read a prefix of one run up to where its stream is (`Follows`), live or
replayed.  `GaplessViewHolds` from `GapInv`: the frames kept of a review have no gap up to where any of its streams is, so that what follows a
frame in them follows it without one; what the replay sends is a filter of the cached list, and the lemmas about it (`TakenMore`) go along the list.

**ReviewFlow_proofs** (`OwnersAssumption`, `BoundsAssumption`).
`TypeCorrect` and `SuspendedRemembersHolds` together (`TypeInv`: the restore writes prev_status, whose
type is known only if it is what was remembered).  `SuspendedOnlyWhileBlacklistedHolds`,
`EvaluatedIsCompleteHolds` and `LockedStaysHolds` from `FlowInv`: a suspended review belongs to a
disqualified bid, a request that read a suspended review too, and a completion in flight has found its
lot complete.  That is why a save of a suspended review, which makes it a draft again, does not reopen
an evaluated lot: its bid does not count any more.
Of Results (`DimensionsAssumption`): `ResultsStandHolds` from `ResultsInv`, which adds to `FlowInv` that the bids of a blacklisted supplier are disqualified
(`BlacklistedBidsOut`).  The lowest score of the better bid lies between the two averages, whatever the numbers of reviewers (`AverageAtLeast`,
`AverageAtMost`), and weighing, adding and rounding keep that order (`TotalFollows`).  What counts for a sealed bid of an evaluated lot is what counted
before (`CountedStays`): a review that becomes submitted was a draft, which `EvaluatedIsComplete` leaves only to those that came too late, or suspended, and then its bid
is out.  That a submitted review of a sealed bid is never a draft again (`LockedIsKept`) keeps the progress.
Of Tasks (`TasksAssumption`): `TasksAreShownHolds` from `TasksInv`: the expert of a review, or of an open workbench, has the dimension in the
assignment or a second matching took it (`EntitledReviews`, `TabOk`); a workbench without a review was opened from a cell that had none, or could not
know of the one it had.  A second review of a cell therefore comes only from a workbench that could not know (`Alone`), and the list, which keeps one review of a cell, shows
the one the lot waits for everywhere else.
Of Splitter (`TextsAssumption`: texts are sequences of symbols, of any length): `ReaderGetsAllHolds` from `LostInv` and `Staged`.  `LostInv`: what was taken from
the buffer is blank, of a tag, or sent; until a tag was met reasoning and answer are the same.  `Staged`: of a text
in the form that was asked for, with its four tags at `t`, `c`, `a`, `b`, the splitter is in one of five stages (`BeforeAll`, `Thinking`,
`BetweenParts`, `Answering`, `AfterAll`), each of which says what has been sent and up to which place the buffer may have been
taken: what is kept back is at least as long as the part of the next tag that may have arrived (`OnlyTells`, `FoundIs`).
Of ChatAgent, `ConversationHoldsAlways` and `GroundedAnswerHolds` from `ChatInv`, for any number of windows and with no assumption: a question is
numbered within the snapshot its answer is numbered from (`TalkOk`); what a summary covers has numbers up to its own and above those of every summary
it saw (`NoteOk`, `AfterSummaries`), so that of two that cover one message neither knew of the other; and an intent that
lets the model answer from nothing is that of a greeting which the window had seen (`Greeted`).

**OutboxSync_proofs** (`GraphAssumption`, `NodeAssumption`, `BoundsAssumption`).
`TypeCorrect`, `ProcessedIsShownHolds` and `KeepsPromiseHolds` from `Inv`: claims of different jobs are
disjoint (`Locks`), a job's snapshot is younger than what it claimed, and what it has done so far, or
half done, is already in the graph (`BatchInv`).  `JobStep` shows once for all actions of a job that the
others are not disturbed.  The refinement maps each step of OutboxSync to a step of Mirror or a stutter:
`Commit` to `Deliver`, a statement that merges a new node to `Show`, the change with its event to `Publish`.
Of Retrieval (`RetrievalAssumption`): `SearchIsSoundHolds` for rankings of any length.  What is ranked by scores has the places the scores give
(`RanksTell`); a passage that one route ranks higher, and none lower, has the greater sum of reciprocal ranks or as great a one and the earlier
appearance (`AgreementRaises`); the hits that `List` and `Fuse` keep are the best (`ResultsAre`).  `SearchInv` says what a search still
remembers of its world when a call has failed.

**Experts_proofs** (`TiesAssumption`, `MatchAssumption`, `AccountsAssumption`).
Of Conflicts, `ActivatedIsShownHolds` and `ColdIsUnknownHolds` from `Inv`: the companies of a file that is being woken have
rows, none of them has had its turn before the snapshot is taken, the snapshot is about them, and each tie in it is of
a company that waits, still to do, in the graph or missed (`ImportInv`).  Neither property is inductive alone: the first needs what an import
in flight has already written, turn by turn, the second that an import which ends leaves no row of its file behind
(`Minds`: it has the row in its snapshot, or will have).
Of Declarations, `AssignmentsTypeCorrect`, `DeclaredIsShownHolds`, `DeclaredKeepsOutHolds` from `MatchInv`: a declaration in flight has
written the ties it is done with, so that a committed one is shown or missed; whoever a request has to
keep out is then someone the graph has a tie of, and its choice, unless blind, avoids them.  The imports
enter only through `GraphGrows`: nothing leaves the graph.
Of Accounts, `AccountsHoldAlways` from `AccountsInv`.  No lock keeps two imports from registering one person twice, and nothing one file
that lists them twice (`twins`); what keeps the two imports from it is the numbering (`Ranks` counts the unused usernames and the rows): of the usernames an import in flight is going to take, one has none free before it (`Leads`), so that two imports
that read before either committed want the same one, and the second fails as a whole.  A change of status that was not
overtaken has read what is there (`CallOk`), and so the column it does not write is right already.

**SessionTokens_proofs** (`SessionAssumption`).
`TypeCorrect`, `TwiceMeansRevokedHolds`, `RevocationHoldsAlways` from `Inv`.  Without a revocation a token has at most one
successor, or one request about to issue it, and is USED then (`Once`); under a revocation every token
issued after it is untouched, and those before it have expired when it does (`TokenInv`), which is why
letting a token without a mark pass does no harm.
Of Portal (`PortalAssumption`): `NobodyPassedOverHolds` and `PortalIsRightHolds` from `PortalInv`.  The bids to tell of are the union of two reads
at different moments; that none is lost between them takes four invariants that hold each other up: a blacklisting in flight foresees every bid
that is owed a notice, by its snapshot or its cascade, or somebody else has covered it (`Pending`, `Covered`); what its cascade found is all there was
to find (`Taken`); a company that stands blacklisted has no bid that counts (`Barred`) and every manager of its bids was told or is about to be
(`Informed`), also when another request clears it and blacklists it anew.  `InStep`: a change that nobody overtook has read what is there
(`UpToDate`), so that the account and the status of a company go together although each is written only where it changes.  `Written` says
once what the first commit does, `Commits` what every commit has in common.
Of Listings (`ListingsAssumption`): `PagesMissNothingHolds` from `PagesInv`: a row
that stayed, that no gap pulled up and that was not shown yet has at least as many newer rows before it as the pages read have places.  A row
alone with its time has the place after those (`AloneInPlace`), so that the next page returns it or ends before it, and there is a next page.

**LotSetup_proofs** (`SetupAssumption`).
`TypeCorrect`; `WithinBudgetHolds` from `LotsInv`: requests in flight create lots of their own that have no budget yet (`LotsApart`), and unless two of them
overlapped, each one's amount still fits beside the sum of the rows (`SumsHold`).  `SetupFitsHolds` from `DimsInv` and `CriteriaInv`: unless requests overlapped, what one has read is still there
(`OldIsThere`, `SeenIsThere`), so that the deletions and the columns it writes are the right ones.  `EveryDimensionCoveredHolds` from `MatchInv`: a matching
that is alone finds the rows it has read (`ExpertsAreThere`), and `FilledEnough` counts the experts that the distribution gives a dimension, whatever
their number.  Of LoginLimiter (`LimiterAssumption`), `FewAttemptsHolds` from `LimiterInv`: the attempts that passed within the window are no more than the
count, and the count lives as long as the window of the youngest of them.
Of Chunker (`ChunkerAssumption`: documents are sequences of lines, the overlap is smaller than a chunk): `ChunksAreRightHolds` from `ChunkInv`.
The lines between two headings have all tokens between two offsets (`LinesInARow`), so that sections, paragraphs, pieces and windows are stretches of
numbers and the argument is about their ends.  `Kept`: of each line of text no stretch of the length of an overlap is cut by all chunks, or the line is in a section
that is still to come, or to be read.  `SplitAt` says how far a section has come: its finished pieces end before a number, the growing
piece reaches up to it, the paragraphs that are left begin after it, and each line is kept in a piece or whole in a paragraph.  The three
ways to go on (`ParagraphTaken`, `PieceBroken`, `ParagraphCut`) keep that; of a paragraph that is too long, the last window that begins before a token holds
the overlap after it (`SlideIs`).

**CountingLemmas** has what these modules share of numbers and sums.  A sum over a finite set is a fold of the community modules;
that one summand changes it by its difference (`SumMore`, `SumDiffers`), that greater summands make no smaller sum (`SumMonotone`) and equal ones a multiple
(`SumConstant`) is proved from the fold's definition, by the least number at which a partial sum would fail (`Least`, `ReachedAll`).

## 5. What is only model-checked

The liveness properties (`CheckpointedParseEnds`, `EveryCallEnds`, `Heals`, `EventsAreDelivered`, `ColdDataWakes`, `CooldownEnds`):
TLAPS does not reason about fairness here.

`CleaningKeepsTheText`: it compares what a chain of filters, replacements and folds over one text
computes, of which each takes induction over data.  The library states induction with an operator as a parameter, which
the installed provers cannot instantiate; where a proof above needed one (sums over a set, the rest of a list, the least
free number) it goes by the least counterexample, which is affordable for one function and not for a chain of a dozen.

## 6. Differences from the repository's documents

Met while modelling.  The properties of the modules say what remains true, with these as named exceptions.

Bids, reviews, calls, graph, sessions:
- The relation of a lot to its project is lost for good when the lot's event is processed before the project's node
  exists (`neo4j_sync.py:44` MATCHes it; README.md:320 "MySQL → Neo4j 最终一致").
- A parse in flight when close_bidding seals its bid sets it back to PARSED (`document_ingest.py:302`;
  `app/models/bid_document.py:24` "FROZEN（围串标初筛通过封存，不可改）").
- Two overlapping uploads of a supplier for one lot both succeed (`bid_document_service.py:125`; its
  docstring, line 104, "同标段去重（409）").
- A bid whose enqueue failed stays SUBMITTED; neither retry-parse nor the cron takes it
  (`dispatch.py:6` "解析可由 PM 手动 retry-parse 或僵尸扫描兜底").
- A stream of the LLM that breaks off after its first chunks is retried, and its output repeated
  (`deepseek_client.py:170` "已开始流式输出后中断不再重试（避免重复输出）").
- A save that read a draft changes the score of the review submitted meanwhile, and a suspended one can be
  saved (`review_service.py:487` "提交后不可回改（save_score 拒绝）").
- The archive job counts the project again for its experts when it is queued or delivered again
  (`archive.py:112` "重跑安全（幂等）").
- The zombie cron asks for `parsing_step > 0` (`document_ingest.py:369`): a parse that dies before its first
  checkpoint is never reaped (README.md:350), which is why `CheckpointedParseEnds` names the checkpoint.
- The pipeline may set a bid that was disqualified meanwhile to PARSED (solution.md:4426 has no way back);
  close_bidding seals bids that are still PARSING; an upload may insert its bid after the lot was closed.
- The cascade disqualifies FROZEN bids, those of awarded projects included (`freeze_hash` is never set);
  solution.md:4456 and task.md:88 keep them.
- The breaker is closed in the middle of its window by the late success of an older call
  (`deepseek_client.py:5`); 502 and 503 are retried three times, against the docstring.
- create_review asks neither for the status of the lot nor of the assignment (solution.md:4474), and allows
  a second review of the same expert, bid and dimension, which complete_review then waits for; reviews
  created after complete_review stay drafts of an evaluated lot (`closeout_service.py:3`, solution.md:4286).
- submit_review accepts a review without a score; an AI suggestion of 0 counts as none.
- A second matching resets a declared conflict to pending (solution.md:4468 calls it final), though only for an
  expert the graph does not object to; two declarations of one expert overlap, and the last decides the
  status.  A matching notifies nobody.  Two supplements of a lot may choose the same expert: one of
  them fails and its vacancy stays (solution.md:4480).  A supplement is not asked whether the new expert
  is a colleague of those already assigned.
- A tie stored as cold data while its company is being imported is never woken, not even when its company's turn is still to
  come: the first SELECT of the file decides what all see.  Nor is that of a company whose
  import died after its commit (`app/models/pending_conflict.py:4-5`).
- declare writes no event, though `expert_declaration_service.py:267-268` expects the worker to replay the relation.
- A stream resumed by Last-Event-ID may mix the frames of two runs when two windows score one review, and ends
  with what is cached at that moment (solution.md:2131, 2582).
- After a revocation the refresh token of a new login is refused for days: login never clears the mark.  The
  window of the login limiter begins anew with each attempt ("60s 固定窗口").
- The fourth message of a stage is in neither its summary nor the next ("永远保留最近 3 轮原文 + 所有更早轮次的合并摘要",
  solution.md:955); only the last summary is read; a "round" is one message.  With overlapping windows
  turn numbers repeat (`app/models/conversation.py:4` "全局递增") and a stage may be compressed twice (`conversation_service.py:213`).
- A search that finds nothing counts as an error, which the model is told, and so is answered by the model
  with a caveat instead of the fixed text (`tools.py:129`, `agent_loop.py:65`).
- The cache of the configuration is written before the database, although `config_service.py:4` keeps the two always equal.
- A slower writer may put an older version of a node over a newer one, for good.  Changes that write no event
  (an expert's status, clearing a supplier, the relations of an import) are lost when the direct write
  fails, though `supplier_service.py:65`, `expert_service.py:52` and `conflict_service.py:35` count on a replay.
  Deleted dimensions stay in the graph.
- Pending conflicts are marked ACTIVATED even if their relation could not be written.
- create_lot accepts a project that has been awarded.

Lots and matching:
- create_lot sums the budgets without a lock, so that two lots created at a time may exceed the project's.  add_dimensions
  does not ask for the status of the lot.  Two replacements that overlap leave criteria of dimensions that are gone,
  which no later replacement deletes and which make it fail.
- configure_expert_criteria writes only the columns that changed: two that overlap may leave fewer experts than a
  dimension needs.  Two matchings that overlap may leave a dimension without an expert.  An expert with an empty list of
  dimensions may review every one.

Detection and settings:
- set_configs writes the cache before it has checked the rest and before the commit, and load_all removes no entry
  without a row: a refused update goes on working in the process (`config_service.py:4`, 137-138).
- The first ten relations between the bidders decide (LIMIT 10): others may hide a shared controller.  A service that does
  not answer counts 0.  The settings may change between two checks of one lot.

Texts:
- After thinking alone, followed by a blank or half a tag, that is all the reader gets for an answer, although flush
  promises the thinking in its place (`prompts.py:445-449`).  For a text that is not in the asked form the result depends on
  the pieces it comes in.
- A chunk may reach twice the maximum and an overlap, against "[min, max]" (`chunker.py:242`); the minimum is checked once and
  never used; a heading without a text is in no chunk; a long paragraph shares no overlap with its neighbours.

Accounts:
- The account of an expert who is not ACTIVE is disabled, says `models/expert.py`; two changes of the status that overlap, or one
  with the page of users, leave it enabled.
- INITIAL_PASSWORD has no letter, against "满足复杂度" (`expert_service.py:31`).  create_user takes any role; its race for a username
  ends in an internal error, and so do all but the first of overlapping imports.  A person listed twice in a file becomes two
  experts.  change_password takes the old password again, revokes no token, and of two at a time both succeed.
- resolve_me finds a supplier by the display name: suppliers of one name are all refused; of experts of one name the
  first is taken.

Observation:
- The refusal of the agent's later call by the breaker is not marked (`agent_loop.py:257`; its comment, 192-193, and `obs.py:103-112`),
  so that the trace says ok.  Errors that are not the LLM's, and empty answers, pass for ok.  A failed summary leaves an error
  in a trace that is ok.  A call cancelled while it waits for the provider is on no record.

Results:
- complete_review succeeds on a lot without any review.  A bid without an amount counts as 0 and wins every tie
  (`closeout_service.py:210` "同分按报价低者优先").  A score of 0 is printed as "-" in the report.
- Blacklisting the winner after the award tells the second bidder that it won; reviews created too late change the
  ranking of an evaluated lot.  A draft hides behind a submitted review of the same cell of the progress.
- The price formula takes the bids that are sealed at the moment: experts who score at different times may be given
  different suggestions.

Suppliers, tasks and lists:
- Of a blacklisting whose request dies after a notice, the rest is never sent, and it ends in an error although the change is committed.  A manager
  gets a notice per bid ("SELECT DISTINCT managed_by", solution.md:3711).  Two overlapping changes of a status may each leave half of it to the other, so that a
  company that is ACTIVE has an account that is disabled.  After a blacklisting and a clearing a supplier cannot bid again for a lot
  that still takes bids: its disqualified bid is in the way.
- A namesake may upload for either company if it names it, and is refused on its own pages.
- mark_all_read also marks the notices that came after the list was shown.
- The workbench loaded again starts from an address that does not name the review it has created, and creates a second one; so do two
  workbenches of one cell.  The list shows one of them, and complete_review waits for the other.  A second matching that takes a dimension away
  strands a draft in it: it is in nobody's list and the lot waits for it.
- Lists ordered by created_at alone may leave out a row, or show it twice, when the rows of an import share their time at a boundary of pages.
- clean_text is not idempotent: blank lines that hold blanks become empty only after the empty lines were merged (`text_cleaner.py:12`, "幂等").
- declare does not check that the confirmations cover all bidders (its error for that is never raised); get_declaration marks every bidder with the
  expert's types of relation, whoever they were declared of.
- get_bid_content shows the first 1024 chunks of a bid.
