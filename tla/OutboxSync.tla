----------------------------- MODULE OutboxSync -----------------------------
(***************************************************************************)
(* The graph in Neo4j as a copy of MySQL: the services write an event in   *)
(* the transaction of the change and then try to write the graph           *)
(* themselves; the worker's cron jobs read the events, and write what      *)
(* MySQL has by then.                                                      *)
(*                                                                         *)
(* An aggregate (a project, a lot, a supplier, an imported conflict) is a  *)
(* row of MySQL, of which the version stands for the contents.  It is      *)
(* written to the graph by a few statements, a transaction each, that      *)
(* MERGE one element: its node, or the relation to another node.           *)
(***************************************************************************)
EXTENDS Integers, Sequences, FiniteSets

CONSTANTS
    Aggregates,
    Elements,       \* nodes and relations of the graph
    Statements,     \* the elements an aggregate's upsert merges, in order
    Needs,          \* the nodes an element's statement MATCHes first
    RowNeeds,       \* rows that have to exist before an aggregate's
    Rebuilt,        \* aggregates with a handler in _HANDLERS; events of the
                    \* others, CONFLICT_IMPORTED, count as processed
    Changing,       \* aggregates with an update_status (experts, suppliers)
    Piecewise,      \* aggregates of which each statement is tried by itself
    Requests,       \* API requests that write the graph at the same time
    Batches,        \* cron jobs of the worker that run at the same time
    BatchSize,      \* CONSUME_BATCH, 50 in the code
    MaxEvents,      \* bound on the rows of outbox_event
    MaxVersion,     \* bound on the changes of a row
    NoAggregate, NoView

ASSUME GraphAssumption ==
    /\ Statements \in [Aggregates -> Seq(Elements)]
    /\ \A a \in Aggregates : Statements[a] # << >>
    /\ Needs \in [Elements -> SUBSET Elements]
    /\ RowNeeds \in [Aggregates -> SUBSET Aggregates]
    /\ Rebuilt \subseteq Aggregates
    /\ Changing \subseteq Aggregates
    /\ Piecewise \subseteq Aggregates
    /\ NoAggregate \notin Aggregates

(* Every upsert merges first the node of its aggregate.  A handler's does  *)
(* so unconditionally.                                                     *)
Node(a) == Statements[a][1]

ASSUME NodeAssumption ==
    /\ \A a, b \in Aggregates : Node(a) = Node(b) => a = b
    /\ \A a \in Rebuilt : Needs[Node(a)] = {}

ASSUME BoundsAssumption ==
    /\ BatchSize \in Nat \ {0}
    /\ MaxEvents \in Nat
    /\ MaxVersion \in Nat \ {0}

VARIABLES
    row,        \* version of an aggregate's row in MySQL, 0 before it is there
    status,     \* outbox_event.status
    about,      \* outbox_event.aggregate_id
    graph,      \* version of an element in Neo4j, 0 before it is there
    up,         \* whether Neo4j answers
    req,        \* API requests between their commit and their answer
    batch,      \* cron jobs in their transaction
    version,    \* history: the version that was committed with an event
    newest      \* history: the newest version an element ever had

vars == <<row, status, about, graph, up, req, batch, version, newest>>

-----------------------------------------------------------------------------
Events == 1..MaxEvents
Versions == 0..MaxVersion
EventStatus == {"NONE", "PENDING", "PROCESSED", "FAILED"}

RequestType == [pc: {"idle", "refresh", "sync"}, agg: Aggregates \cup {NoAggregate},
                seen: Versions, at: Nat]

BatchType == [on: {"none", "PENDING", "FAILED"}, todo: SUBSET Events, done: SUBSET Events,
              failed: SUBSET Events, seen: [Aggregates -> Versions] \cup {NoView}, at: Nat]

Idle == [pc |-> "idle", agg |-> NoAggregate, seen |-> 0, at |-> 0]

NoBatch == [on |-> "none", todo |-> {}, done |-> {}, failed |-> {}, seen |-> NoView, at |-> 0]

TypeOK ==
    /\ row \in [Aggregates -> Versions]
    /\ status \in [Events -> EventStatus]
    /\ about \in [Events -> Aggregates \cup {NoAggregate}]
    /\ graph \in [Elements -> Versions]
    /\ up \in BOOLEAN
    /\ req \in [Requests -> RequestType]
    /\ batch \in [Batches -> BatchType]
    /\ version \in [Events -> Versions]
    /\ newest \in [Elements -> Versions]

Init ==
    /\ row = [a \in Aggregates |-> 0]
    /\ status = [e \in Events |-> "NONE"]
    /\ about = [e \in Events |-> NoAggregate]
    /\ graph = [x \in Elements |-> 0]
    /\ up = TRUE
    /\ req = [r \in Requests |-> Idle]
    /\ batch = [w \in Batches |-> NoBatch]
    /\ version = [e \in Events |-> 0]
    /\ newest = [x \in Elements |-> 0]

Neo4j ==
    /\ up' = ~up
    /\ UNCHANGED <<row, status, about, graph, req, batch, version, newest>>

-----------------------------------------------------------------------------
(* One statement of an upsert.  A relation to a node that is not there is  *)
(* not merged, and nobody is told.                                         *)
Merge(x, v) ==
    IF \E n \in Needs[x] : graph[n] = 0
    THEN UNCHANGED <<graph, newest>>
    ELSE /\ graph' = [graph EXCEPT ![x] = v]
         /\ newest' = [newest EXCEPT ![x] = IF v > @ THEN v ELSE @]

-----------------------------------------------------------------------------
(* The services *)

(* write_outbox_event, in the transaction of the change *)
Publish(a) ==
    \E e \in Events :
        /\ status[e] = "NONE" /\ \A f \in 1..e - 1 : status[f] # "NONE"
        /\ status' = [status EXCEPT ![e] = "PENDING"]
        /\ about' = [about EXCEPT ![e] = a]
        /\ version' = [version EXCEPT ![e] = row'[a]]

(* create_project, create_lot, add_dimensions, the imports *)
Create(r, a) ==
    /\ req[r] = Idle
    /\ row[a] = 0 /\ \A b \in RowNeeds[a] : row[b] # 0
    /\ row' = [row EXCEPT ![a] = 1]
    /\ Publish(a)
    /\ req' = [req EXCEPT ![r] = [pc |-> "sync", agg |-> a, seen |-> 1, at |-> 0]]
    /\ UNCHANGED <<graph, up, batch, newest>>

(* update_status: blacklisting a supplier writes an event, all the other   *)
(* changes of a supplier or an expert do not.                              *)
Change(r, a) ==
    /\ req[r] = Idle
    /\ a \in Changing /\ row[a] \in 1..MaxVersion - 1
    /\ row' = [row EXCEPT ![a] = @ + 1]
    /\ Publish(a) \/ UNCHANGED <<status, about, version>>
    /\ req' = [req EXCEPT ![r] = [pc |-> "refresh", agg |-> a, seen |-> 0, at |-> 0]]
    /\ UNCHANGED <<graph, up, batch, newest>>

(* session.refresh after the commit *)
Refresh(r) ==
    /\ req[r].pc = "refresh"
    /\ req' = [req EXCEPT ![r].pc = "sync", ![r].seen = row[req[r].agg]]
    /\ UNCHANGED <<row, status, about, graph, up, batch, version, newest>>

(* The request goes on to the next statement, or is answered. *)
Advance(r) ==
    req' = [req EXCEPT ![r] = IF @.at + 1 = Len(Statements[@.agg])
                              THEN Idle ELSE [@ EXCEPT !.at = req[r].at + 1]]

(* _sync_neo4j *)
DirectMerge(r) ==
    /\ req[r].pc = "sync" /\ up
    /\ Merge(Statements[req[r].agg][req[r].at + 1], req[r].seen)
    /\ Advance(r)
    /\ UNCHANGED <<row, status, about, up, batch, version>>

(* import_conflicts calls _sync_neo4j for every relation: when one of them *)
(* raises, the next is tried all the same.                                 *)
StatementFails(r) ==
    /\ req[r].pc = "sync" /\ ~up /\ req[r].agg \in Piecewise
    /\ Advance(r)
    /\ UNCHANGED <<row, status, about, graph, up, batch, version, newest>>

(* Neo4j raised, which is only logged, or the process died. *)
RequestEnds(r) ==
    /\ req[r] # Idle
    /\ req' = [req EXCEPT ![r] = Idle]
    /\ UNCHANGED <<row, status, about, graph, up, batch, version, newest>>

-----------------------------------------------------------------------------
(* The worker *)

Claimed(w) == batch[w].todo \cup batch[w].done \cup batch[w].failed

(* Mutant: FOR UPDATE is forgotten. *)
UnlockedOrNot(s) == {e \in Events : status[e] = s}

(* SKIP LOCKED: rows that another job's transaction has not locked. *)
Unlocked(s) == {e \in Events : status[e] = s /\ \A w \in Batches : e \notin Claimed(w)}

(* ORDER BY id LIMIT *)
FirstOf(S) == {e \in S : Cardinality({f \in S : f < e}) < BatchSize}

(* Mutant: reconcile_outbox is not registered with the worker. *)
ClaimPending(w, s) ==
    /\ s = "PENDING" /\ batch[w].on = "none"
    /\ Unlocked(s) # {}
    /\ batch' = [batch EXCEPT ![w].on = s, ![w].todo = FirstOf(Unlocked(s))]
    /\ UNCHANGED <<row, status, about, graph, up, req, version, newest>>

Claim(w, s) ==
    /\ batch[w].on = "none"
    /\ Unlocked(s) # {}
    /\ batch' = [batch EXCEPT ![w].on = s, ![w].todo = FirstOf(Unlocked(s))]
    /\ UNCHANGED <<row, status, about, graph, up, req, version, newest>>

(* The first session.get of a handler makes the snapshot of the            *)
(* transaction, from which the later ones read too.                        *)
Read(w) ==
    /\ batch[w].todo # {} /\ batch[w].seen = NoView
    /\ \E e \in batch[w].todo : about[e] \in Rebuilt /\ \A f \in batch[w].todo : e <= f
    /\ batch' = [batch EXCEPT ![w].seen = row]
    /\ UNCHANGED <<row, status, about, graph, up, req, version, newest>>

(* Events are taken one after the other; this one is finished. *)
Finish(w, e) ==
    batch' = [batch EXCEPT ![w].todo = @ \ {e}, ![w].done = @ \cup {e}, ![w].at = 0]

Turn(w, e) == e \in batch[w].todo /\ \A f \in batch[w].todo : e <= f

Skip(w) ==
    /\ \E e \in Events : Turn(w, e) /\ about[e] \notin Rebuilt /\ Finish(w, e)
    /\ UNCHANGED <<row, status, about, graph, up, req, version, newest>>

WorkerMerge(w) ==
    /\ batch[w].seen # NoView /\ up
    /\ \E e \in Events :
        /\ Turn(w, e) /\ about[e] \in Rebuilt
        /\ LET upsert == Statements[about[e]]
               next   == batch[w].at + 1
           IN  /\ Merge(upsert[next], batch[w].seen[about[e]])
               /\ IF next = Len(upsert)
                  THEN Finish(w, e)
                  ELSE batch' = [batch EXCEPT ![w].at = next]
    /\ UNCHANGED <<row, status, about, up, req, version>>

(* Neo4j raised: the event is marked and the next one taken. *)
EventFails(w) ==
    /\ batch[w].seen # NoView /\ ~up
    /\ \E e \in Events :
        /\ Turn(w, e) /\ about[e] \in Rebuilt
        /\ batch' = [batch EXCEPT ![w].todo = @ \ {e}, ![w].failed = @ \cup {e}, ![w].at = 0]
    /\ UNCHANGED <<row, status, about, graph, up, req, version, newest>>

Marked(w) ==
    [e \in Events |-> IF e \in batch[w].done THEN "PROCESSED"
                      ELSE IF e \in batch[w].failed THEN "FAILED" ELSE status[e]]

(* Mutant: one session for all batches, whose snapshot is never given up. *)
AfterKeeping(w) == [NoBatch EXCEPT !.seen = batch[w].seen]

After(w) == NoBatch

Commit(w) ==
    /\ batch[w].on # "none" /\ batch[w].todo = {}
    /\ status' = Marked(w)
    /\ batch' = [batch EXCEPT ![w] = After(w)]
    /\ UNCHANGED <<row, about, graph, up, req, version, newest>>

(* The job times out, loses MySQL or dies with its worker: its transaction *)
(* is rolled back, what it wrote to the graph stays.                       *)
Abort(w) ==
    /\ batch[w].on # "none"
    /\ batch' = [batch EXCEPT ![w] = NoBatch]
    /\ UNCHANGED <<row, status, about, graph, up, req, version, newest>>

-----------------------------------------------------------------------------
Request(r) ==
    \/ \E a \in Aggregates : Create(r, a) \/ Change(r, a)
    \/ Refresh(r) \/ DirectMerge(r) \/ StatementFails(r) \/ RequestEnds(r)

Progress(w) == Read(w) \/ Skip(w) \/ WorkerMerge(w) \/ EventFails(w) \/ Commit(w)

Next ==
    \/ \E r \in Requests : Request(r)
    \/ \E w \in Batches : Progress(w) \/ Abort(w) \/ \E s \in {"PENDING", "FAILED"} : Claim(w, s)
    \/ Neo4j

Spec == Init /\ [][Next]_vars

(* consume_outbox runs every minute and reconcile_outbox every hour. *)
Crons ==
    /\ \A w \in Batches : WF_vars(Progress(w))
    /\ \A s \in {"PENDING", "FAILED"} : WF_vars(\E w \in Batches : Claim(w, s))

FairSpec == Spec /\ Crons

(* Neo4j is back for good, and the worker is left to finish its jobs. *)
Calm == <>[]up /\ <>[][\A w \in Batches : ~Abort(w)]_vars

-----------------------------------------------------------------------------
(* The outbox keeps the promise of Mirror: however jobs and requests       *)
(* overlap, fail and die, an event that is marked PROCESSED stays so, and  *)
(* the graph has the node it is about.                                     *)
Promise == INSTANCE Mirror WITH
    delivered <- {e \in Events : status[e] = "PROCESSED"},
    shown <- {a \in Aggregates : graph[Node(a)] # 0}

KeepsPromise == Promise!Spec

(* When an event is processed the graph has shown the change it was        *)
(* written for, or a newer one: a job reads the row after it claimed the   *)
(* event.  A slower writer may still put back an older version.            *)
ProcessedIsShown ==
    \A e \in Events :
        status[e] = "PROCESSED" /\ about[e] \in Rebuilt
            => newest[Node(about[e])] >= version[e]

(* Every event is processed in the end, whatever failed before. *)
EventsAreDelivered ==
    Calm => \A e \in Events : status[e] # "NONE" ~> status[e] = "PROCESSED"
=============================================================================
