----------------------------- MODULE Conflicts -----------------------------
(***************************************************************************)
(* What the system knows of the ties between experts and suppliers: the    *)
(* relations in Neo4j, which decide whom a lot is given to, and the rows   *)
(* of pending_conflict, the "cold data" about companies that have no row   *)
(* in supplier yet.  Two imports bring them in: import_conflicts with the  *)
(* ties, import_suppliers with the companies, which is to wake the cold    *)
(* data.  Every statement to Neo4j stands alone and its failure is only    *)
(* logged; every read of a request is from the snapshot of its MySQL       *)
(* transaction.                                                            *)
(*                                                                         *)
(* A company is its credit code.  A file of companies is a set of them,    *)
(* which are woken one after the other in any order; one that lists a      *)
(* company twice is not considered.  A file of ties holds one here: that   *)
(* of several reads them in one snapshot, commits once, and then writes    *)
(* one after the other, as do as many imports that begin and commit        *)
(* together.  The nodes of experts are in the graph.  A tie becomes cold   *)
(* data at most once: an import that would add a second, equal row is not  *)
(* considered.                                                             *)
(***************************************************************************)

CONSTANTS
    Experts, Suppliers,
    Importers,      \* imports that can be in flight together
    Listed,         \* ties that the imported files may hold
    Mapped,         \* ties whose type QCC_RELATION_TO_NEO4J knows
    Registered      \* suppliers with a row and a node when the model starts

ASSUME TiesAssumption ==
    /\ Listed \subseteq Experts \X Suppliers
    /\ Mapped \subseteq Experts \X Suppliers
    /\ Registered \subseteq Suppliers

VARIABLES
    known,          \* companies with a committed row in supplier
    node,           \* suppliers with a node in the graph
    relation,       \* ties in the graph
    up,             \* whether Neo4j answers
    cold,           \* pending_conflict.status of a tie, "NONE" without a row
    imp,            \* imports in flight, with what they read
    missed,         \* history: ties whose relation could not be written once
    cut,            \* history: companies whose import died after its commit
    raced           \* history: ties stored as cold data when the import of
                    \* their company had its snapshot of the cold data

conflictVars == <<known, node, relation, up, cold, imp, missed, cut, raced>>

-----------------------------------------------------------------------------
Ties == Experts \X Suppliers
Of(t) == t[2]

Idle == [op |-> "idle"]

(* Of an import of companies after its commit: file has the companies, left *)
(* those whose turn has not come, seen the rows its snapshot shows once it *)
(* has looked, and todo the relations to write before the next turn.       *)
ImportType ==
    {Idle}
        \cup [op: {"conflict"}, tie: Ties, match: BOOLEAN]
        \cup [op: {"relate"}, tie: Ties]
        \cup [op: {"suppliers"}, file: SUBSET Suppliers, base: SUBSET Suppliers]
        \cup [op: {"look"}, supplier: Suppliers, file: SUBSET Suppliers, left: SUBSET Suppliers,
              looked: BOOLEAN, seen: SUBSET Ties]
        \cup [op: {"write"}, file: SUBSET Suppliers, left: SUBSET Suppliers,
              looked: BOOLEAN, seen: SUBSET Ties, todo: SUBSET Ties]

ConflictsTypeOK ==
    /\ known \subseteq Suppliers
    /\ node \subseteq Suppliers
    /\ relation \subseteq Ties
    /\ up \in BOOLEAN
    /\ cold \in [Ties -> {"NONE", "PENDING", "ACTIVATED"}]
    /\ imp \in [Importers -> ImportType]
    /\ missed \subseteq Ties
    /\ cut \subseteq Suppliers
    /\ raced \subseteq Ties

ConflictsInit ==
    /\ known = Registered
    /\ node = Registered
    /\ relation = {}
    /\ up = TRUE
    /\ cold = [t \in Ties |-> "NONE"]
    /\ imp = [r \in Importers |-> Idle]
    /\ missed = {}
    /\ cut = {}
    /\ raced = {}

-----------------------------------------------------------------------------
(* upsert_conflict_relation: the MATCH finds nothing without the node, and *)
(* an error is logged by the caller.                                       *)
Relate(t) ==
    LET done == up /\ Of(t) \in node
    IN  /\ relation' = IF done THEN relation \cup {t} ELSE relation
        /\ missed' = IF done THEN missed ELSE missed \cup {t}

(* What an import of companies does between its two commits                *)
InTurn(q) == q.op \in {"look", "write"}

(* An import of the company is between its first commit and its snapshot   *)
(* of the cold data.                                                       *)
Waking(s) == \E r \in Importers : InTurn(imp[r]) /\ ~imp[r].looked /\ s \in imp[r].file

Becomes(r, q) == imp' = [imp EXCEPT ![r] = q]

(* import_conflicts: the lookup of the companies ...                       *)
ConflictsBegin(r, t) ==
    /\ imp[r] = Idle
    /\ Becomes(r, [op |-> "conflict", tie |-> t, match |-> Of(t) \in known])
    /\ UNCHANGED <<known, node, relation, up, cold, missed, cut, raced>>

(* ... the commit: a tie to a company without a row becomes cold data, one *)
(* whose type is not known is skipped ...                                  *)
ConflictsCommit(r) ==
    /\ imp[r].op = "conflict"
    /\ LET t == imp[r].tie
       IN  \/ /\ ~imp[r].match
              /\ cold[t] = "NONE"
              /\ cold' = [cold EXCEPT ![t] = "PENDING"]
              /\ raced' = IF Of(t) \in known /\ ~Waking(Of(t)) THEN raced \cup {t} ELSE raced
              /\ Becomes(r, Idle)
           \/ /\ imp[r].match
              /\ Becomes(r, IF t \in Mapped THEN [op |-> "relate", tie |-> t] ELSE Idle)
              /\ UNCHANGED <<cold, raced>>
    /\ UNCHANGED <<known, node, relation, up, missed, cut>>

(* ... and the relations of the others, after the commit.                  *)
ConflictsRelate(r) ==
    /\ imp[r].op = "relate"
    /\ Relate(imp[r].tie)
    /\ Becomes(r, Idle)
    /\ UNCHANGED <<known, node, up, cold, cut, raced>>

-----------------------------------------------------------------------------
(* import_suppliers: companies that have a row are skipped.                *)
SuppliersBegin(r, file) ==
    /\ imp[r] = Idle
    /\ file \ known # {}
    /\ Becomes(r, [op |-> "suppliers", file |-> file \ known, base |-> known])
    /\ UNCHANGED <<known, node, relation, up, cold, missed, cut, raced>>

(* The accounts of the companies get the first unused usernames, so that   *)
(* an import fails when another one has committed since it began.          *)
SuppliersCommit(r) ==
    /\ imp[r].op = "suppliers"
    /\ LET file == imp[r].file
       IN  IF imp[r].base # known
           THEN Becomes(r, Idle) /\ UNCHANGED known
           ELSE /\ known' = known \cup file
                /\ Becomes(r, [op |-> "write", file |-> file, left |-> file,
                               looked |-> FALSE, seen |-> {}, todo |-> {}])
    /\ UNCHANGED <<node, relation, up, cold, missed, cut, raced>>

(* The turn of s, a company that is left, begins.                          *)
Turn(r, s) ==
    /\ imp[r].op = "write" /\ imp[r].todo = {}
    /\ s \in imp[r].left
    /\ node' = IF up THEN node \cup {s} ELSE node

LooksFor(q, s) == [op |-> "look", supplier |-> s, file |-> q.file, left |-> q.left \ {s},
                   looked |-> q.looked, seen |-> q.seen]

(* Mutant: an error of Neo4j ends the import.                              *)
SuppliersNodeStrict(r, s) ==
    /\ Turn(r, s)
    /\ Becomes(r, IF up THEN LooksFor(imp[r], s) ELSE Idle)
    /\ UNCHANGED <<known, relation, up, cold, missed, cut, raced>>

(* After the commit, for one company after the other: the node, if Neo4j   *)
(* answers ...                                                             *)
SuppliersNode(r, s) ==
    /\ Turn(r, s)
    /\ Becomes(r, LooksFor(imp[r], s))
    /\ UNCHANGED <<known, relation, up, cold, missed, cut, raced>>

(* Mutant: rows whose type has no relation are left alone.                 *)
ColdMapped(file) == {t \in Mapped : Of(t) \in file /\ cold[t] = "PENDING"}

Cold(file) == {t \in Ties : Of(t) \in file /\ cold[t] = "PENDING"}

(* ... then _activate_pending_conflicts: the SELECT.  That of the first    *)
(* company takes the snapshot, from which all the others read: one         *)
(* transaction wakes them all ...                                          *)
SuppliersLook(r) ==
    /\ imp[r].op = "look"
    /\ LET q == imp[r]
           seen == IF q.looked THEN q.seen ELSE Cold(q.file)
       IN  Becomes(r, [op |-> "write", file |-> q.file, left |-> q.left, looked |-> TRUE,
                       seen |-> seen, todo |-> {t \in seen \cap Mapped : Of(t) = q.supplier}])
    /\ UNCHANGED <<known, node, relation, up, cold, missed, cut, raced>>

(* ... a relation for every row whose type is known ...                    *)
SuppliersRelate(r, t) ==
    /\ imp[r].op = "write"
    /\ t \in imp[r].todo
    /\ Relate(t)
    /\ imp' = [imp EXCEPT ![r].todo = @ \ {t}]
    /\ UNCHANGED <<known, node, up, cold, cut, raced>>

(* ... and, when no company is left, the commit that ends the import.      *)
SuppliersActivate(r) ==
    /\ imp[r].op = "write"
    /\ imp[r].todo = {} /\ imp[r].left = {}
    /\ cold' = [t \in Ties |-> IF t \in imp[r].seen THEN "ACTIVATED" ELSE cold[t]]
    /\ Becomes(r, Idle)
    /\ UNCHANGED <<known, node, relation, up, missed, cut, raced>>

(* The process dies, or the database refuses the next statement: between   *)
(* the two commits, all the companies are known and none is woken.         *)
ImportDies(r) ==
    /\ imp[r] # Idle
    /\ cut' = IF InTurn(imp[r]) THEN cut \cup imp[r].file ELSE cut
    /\ Becomes(r, Idle)
    /\ UNCHANGED <<known, node, relation, up, cold, missed, raced>>

(* The outbox worker replays SUPPLIER_CREATED; no event has the relations. *)
WorkerNode(s) ==
    /\ up /\ s \in known \ node
    /\ node' = node \cup {s}
    /\ UNCHANGED <<known, relation, up, cold, imp, missed, cut, raced>>

GraphTurns ==
    /\ up' = ~up
    /\ UNCHANGED <<known, node, relation, cold, imp, missed, cut, raced>>

ImportStep(r) ==
    \/ ConflictsCommit(r) \/ ConflictsRelate(r)
    \/ SuppliersCommit(r) \/ (\E s \in Suppliers : SuppliersNode(r, s)) \/ SuppliersLook(r)
    \/ (\E t \in Ties : SuppliersRelate(r, t)) \/ SuppliersActivate(r)

ConflictsNext ==
    \/ \E r \in Importers :
        \/ \E t \in Listed : ConflictsBegin(r, t)
        \/ \E file \in SUBSET Suppliers : SuppliersBegin(r, file)
        \/ ImportStep(r) \/ ImportDies(r)
    \/ \E s \in Suppliers : WorkerNode(s)
    \/ GraphTurns

(* An import goes on until it ends or dies.                                *)
ConflictsSpec ==
    /\ ConflictsInit /\ [][ConflictsNext]_conflictVars
    /\ \A i \in Importers : WF_conflictVars(ImportStep(i))

-----------------------------------------------------------------------------
(* A tie that is ACTIVATED is in the graph, unless Neo4j or the node of    *)
(* its supplier was missing when it was written, or its type has no        *)
(* relation: the status is committed after the writes, and a crash before  *)
(* it leaves the row PENDING.                                              *)
ActivatedIsShown ==
    \A t \in Mapped : cold[t] = "ACTIVATED" => t \in relation \cup missed

(* Cold data about a company that has a row is about to be woken, or the   *)
(* company's import died, or the two imports overlapped: that of the tie   *)
(* looked for the company before it was there, and stored the tie after    *)
(* the other had its snapshot, which it takes for the first company of its *)
(* file, although the tie's may be the last.                               *)
ColdIsUnknown ==
    \A t \in Ties : (cold[t] = "PENDING" /\ Of(t) \in known) =>
        \/ Waking(Of(t))
        \/ \E r \in Importers : InTurn(imp[r]) /\ t \in imp[r].seen
        \/ Of(t) \in cut
        \/ t \in raced

(* No tie that was imported is lost without a cause that is named here.    *)
ColdDataKept == ActivatedIsShown /\ ColdIsUnknown

(* Cold data that is there when its company's import takes its snapshot,   *)
(* for the first company of the file, is woken, unless the import dies.    *)
(* What comes after the snapshot is not, however many companies still wait *)
(* for their turn.                                                         *)
ColdDataWakes ==
    \A t \in Ties :
        (cold[t] = "PENDING" /\ Waking(Of(t))) ~> (cold[t] = "ACTIVATED" \/ Of(t) \in cut)
=============================================================================
