--------------------------- MODULE Experts_proofs ---------------------------
(* Proofs about what makes experts known and keeps them out: the imports of *)
(* ties (Conflicts), what experts declare and the matchings (Declarations), *)
(* and their accounts (Accounts); for any experts, suppliers, lots,         *)
(* requests, files and usernames.                                           *)
EXTENDS Declarations, Accounts, CountingLemmas, SequenceTheorems, TLAPS

USE TiesAssumption, MatchAssumption, AccountsAssumption

-----------------------------------------------------------------------------
(* Part I: the imports *)

(* The inductive invariant *)

(* The companies an import has not yet woken, the relations that are to do *)
Waits(q) == IF q.op = "look" THEN q.left \cup {q.supplier} ELSE q.left

ToDo(q) == IF q.op = "write" THEN q.todo ELSE {}

(* The companies of a file that is being woken have their rows; none has   *)
(* been woken before the snapshot; and the relations of the rows in it are *)
(* written, or missed, but for those to do and those of the companies that *)
(* wait.                                                                   *)
ImportInv(q) ==
    InTurn(q) =>
        /\ q.file \subseteq known
        /\ q.looked \/ q.file \subseteq Waits(q)
        /\ \A t \in q.seen : Of(t) \in q.file
        /\ \A t \in q.seen \cap Mapped :
                Of(t) \in Waits(q) \/ t \in ToDo(q) \cup relation \cup missed

(* The import has the row of t in its snapshot, or will have.              *)
Minds(q, t) == InTurn(q) /\ (t \in q.seen \/ (~q.looked /\ Of(t) \in q.file))

Inv ==
    /\ ConflictsTypeOK
    /\ \A r \in Importers : ImportInv(imp[r])
    /\ ActivatedIsShown
    /\ ColdIsUnknown

-----------------------------------------------------------------------------
(* What an import holds in each of its states. *)
LEMMA ImportFields ==
    ASSUME NEW q \in ImportType
    PROVE  /\ q.op \in {"idle", "conflict", "relate", "suppliers", "look", "write"}
           /\ q.op = "conflict" => q.tie \in Ties /\ q.match \in BOOLEAN
           /\ q.op = "relate" => q.tie \in Ties
           /\ q.op = "suppliers" => q.file \subseteq Suppliers
           /\ q.op = "look" => q.supplier \in Suppliers
           /\ q.op = "write" =>
                /\ q.todo \subseteq Ties
                /\ q = [op |-> "write", file |-> q.file, left |-> q.left, looked |-> q.looked,
                        seen |-> q.seen, todo |-> q.todo]
           /\ InTurn(q) =>
                /\ q.file \subseteq Suppliers /\ q.left \subseteq Suppliers
                /\ q.looked \in BOOLEAN /\ q.seen \subseteq Ties
BY DEF ImportType, Idle, InTurn

(* What ColdIsUnknown asks for, import by import.                          *)
LEMMA ColdMeans ==
    ColdIsUnknown <=>
        \A t \in Ties : (cold[t] = "PENDING" /\ Of(t) \in known) =>
            (\E x \in Importers : Minds(imp[x], t)) \/ Of(t) \in cut \/ t \in raced
BY DEF ColdIsUnknown, Waking, Minds, InTurn

LEMMA ColdMeansNext ==
    ColdIsUnknown' <=>
        \A t \in Ties : (cold'[t] = "PENDING" /\ Of(t) \in known') =>
            (\E x \in Importers : Minds(imp'[x], t)) \/ Of(t) \in cut' \/ t \in raced'
BY DEF ColdIsUnknown, Waking, Minds, InTurn, Of, Ties

(* The step of one import leaves the others alone. *)
LEMMA OthersStay ==
    ASSUME ConflictsTypeOK, NEW r \in Importers, NEW q, Becomes(r, q)
    PROVE  /\ imp'[r] = q
           /\ \A x \in Importers \ {r} : imp'[x] = imp[x]
BY DEF Becomes, ConflictsTypeOK

LEMMA TypeStays ==
    ASSUME ConflictsTypeOK, NEW r \in Importers, NEW q \in ImportType, Becomes(r, q)
    PROVE  imp' \in [Importers -> ImportType]
BY DEF Becomes, ConflictsTypeOK

LEMMA TieHasSupplier == \A t \in Ties : Of(t) \in Suppliers
BY DEF Ties, Of

LEMMA RelateFacts ==
    ASSUME ConflictsTypeOK, NEW t \in Ties, Relate(t)
    PROVE  /\ relation' \subseteq Ties /\ missed' \subseteq Ties
           /\ relation \subseteq relation' /\ missed \subseteq missed'
           /\ t \in relation' \cup missed'
BY DEF Relate, ConflictsTypeOK

-----------------------------------------------------------------------------
(* The imports that do not move keep their part, whatever grows.           *)
LEMMA OthersKeep ==
    ASSUME Inv, NEW r \in Importers,
           \A x \in Importers \ {r} : imp'[x] = imp[x],
           known \subseteq known', relation \subseteq relation', missed \subseteq missed',
           ImportInv(imp[r])'
    PROVE  \A x \in Importers : ImportInv(imp[x])'
<1> TAKE x \in Importers
<1>1. CASE x = r
  BY <1>1
<1>2. CASE x # r
  <2>1. imp'[x] = imp[x] /\ ImportInv(imp[x])
    BY <1>2 DEF Inv
  <2> QED
    BY <2>1 DEF ImportInv, InTurn, Waits, ToDo, Of
<1> QED
  BY <1>1, <1>2

(* What does not touch the rows keeps everything, as long as relations are *)
(* only added and no import forgets a row it is to wake.                   *)
LEMMA ColdStays ==
    ASSUME Inv, ConflictsTypeOK', cold' = cold, known' = known,
           relation \subseteq relation', missed \subseteq missed',
           cut \subseteq cut', raced \subseteq raced',
           NEW r \in Importers,
           \A x \in Importers \ {r} : imp'[x] = imp[x],
           ImportInv(imp[r])',
           \A t \in Ties : (cold[t] = "PENDING" /\ Minds(imp[r], t)) =>
                Minds(imp'[r], t) \/ Of(t) \in cut'
    PROVE  Inv'
<1>1. \A x \in Importers : ImportInv(imp[x])'
  BY OthersKeep
<1>2. ActivatedIsShown'
  BY DEF Inv, ActivatedIsShown
<1>3. ColdIsUnknown'
  <2> SUFFICES ASSUME NEW t \in Ties, cold[t] = "PENDING", Of(t) \in known
               PROVE  \/ \E x \in Importers : Minds(imp'[x], t)
                      \/ Of(t) \in cut' \/ t \in raced'
    BY ColdMeansNext
  <2>1. (\E x \in Importers : Minds(imp[x], t)) \/ Of(t) \in cut \/ t \in raced
    BY ColdMeans DEF Inv
  <2>2. ASSUME NEW x \in Importers, Minds(imp[x], t)
        PROVE  Minds(imp'[x], t) \/ Of(t) \in cut'
    BY <2>2
  <2> QED
    BY <2>1, <2>2
<1> QED
  BY <1>1, <1>2, <1>3 DEF Inv

-----------------------------------------------------------------------------
LEMMA InitInv == ConflictsInit => Inv
<1> SUFFICES ASSUME ConflictsInit PROVE Inv
  OBVIOUS
<1>1. ConflictsTypeOK
  BY DEF ConflictsInit, ConflictsTypeOK, ImportType
<1>2. \A r \in Importers : ImportInv(imp[r])
  BY DEF ConflictsInit, ImportInv, InTurn, Idle
<1>3. \A t \in Ties : cold[t] = "NONE"
  BY DEF ConflictsInit
<1> QED
  BY <1>1, <1>2, <1>3 DEF Inv, ActivatedIsShown, ColdIsUnknown, Ties

(* Every step keeps the types. *)
LEMMA TypeStep ==
    ASSUME ConflictsTypeOK, ConflictsNext
    PROVE  ConflictsTypeOK'
<1> USE DEF ConflictsTypeOK
<1>1. ASSUME NEW r \in Importers, NEW t \in Listed, ConflictsBegin(r, t)
      PROVE  ConflictsTypeOK'
  <2>1. [op |-> "conflict", tie |-> t, match |-> Of(t) \in known] \in ImportType
    BY DEF ImportType, Ties
  <2> QED
    BY <1>1, <2>1, TypeStays DEF ConflictsBegin
<1>2. ASSUME NEW r \in Importers, NEW file \in SUBSET Suppliers, SuppliersBegin(r, file)
      PROVE  ConflictsTypeOK'
  <2>1. [op |-> "suppliers", file |-> file \ known, base |-> known] \in ImportType
    BY DEF ImportType
  <2> QED
    BY <1>2, <2>1, TypeStays DEF SuppliersBegin
<1>3. ASSUME NEW r \in Importers, ImportStep(r)
      PROVE  ConflictsTypeOK'
  <2>0. imp[r] \in ImportType /\ Idle \in ImportType
    BY DEF ImportType
  <2>1. CASE ConflictsCommit(r)
    <3>1. imp[r].tie \in Ties
      BY <2>0, <2>1, ImportFields DEF ConflictsCommit
    <3>2. [op |-> "relate", tie |-> imp[r].tie] \in ImportType
      BY <3>1 DEF ImportType
    <3>3. imp' \in [Importers -> ImportType]
      BY <2>0, <2>1, <3>2, TypeStays DEF ConflictsCommit
    <3>4. cold' \in [Ties -> {"NONE", "PENDING", "ACTIVATED"}] /\ raced' \subseteq Ties
      BY <2>1, <3>1 DEF ConflictsCommit
    <3> QED
      BY <2>1, <3>3, <3>4 DEF ConflictsCommit
  <2>2. CASE ConflictsRelate(r)
    BY <2>0, <2>2, ImportFields, TypeStays, RelateFacts DEF ConflictsRelate
  <2>3. CASE SuppliersCommit(r)
    <3>1. imp[r].file \subseteq Suppliers
      BY <2>0, <2>3, ImportFields DEF SuppliersCommit
    <3>2. [op |-> "write", file |-> imp[r].file, left |-> imp[r].file,
           looked |-> FALSE, seen |-> {}, todo |-> {}] \in ImportType
      BY <3>1 DEF ImportType
    <3> QED
      BY <2>0, <2>3, <3>1, <3>2, TypeStays DEF SuppliersCommit
  <2>4. ASSUME NEW s \in Suppliers, SuppliersNode(r, s)
        PROVE  ConflictsTypeOK'
    <3>1. LooksFor(imp[r], s) \in ImportType
      BY <2>0, <2>4, ImportFields DEF SuppliersNode, Turn, LooksFor, ImportType, InTurn
    <3> QED
      BY <2>0, <2>4, <3>1, TypeStays DEF SuppliersNode, Turn
  <2>5. CASE SuppliersLook(r)
    <3> DEFINE seen == IF imp[r].looked THEN imp[r].seen ELSE Cold(imp[r].file)
    <3>1. seen \subseteq Ties
      BY <2>0, <2>5, ImportFields DEF SuppliersLook, InTurn, Cold
    <3>2. [op |-> "write", file |-> imp[r].file, left |-> imp[r].left, looked |-> TRUE,
           seen |-> seen, todo |-> {t \in seen \cap Mapped : Of(t) = imp[r].supplier}]
             \in ImportType
      BY <2>0, <2>5, <3>1, ImportFields DEF SuppliersLook, ImportType, InTurn
    <3> QED
      BY <2>0, <2>5, <3>2, TypeStays DEF SuppliersLook
  <2>6. ASSUME NEW t \in Ties, SuppliersRelate(r, t)
        PROVE  ConflictsTypeOK'
    <3>1. /\ imp[r] = [op |-> "write", file |-> imp[r].file, left |-> imp[r].left,
                       looked |-> imp[r].looked, seen |-> imp[r].seen, todo |-> imp[r].todo]
          /\ imp[r].file \subseteq Suppliers /\ imp[r].left \subseteq Suppliers
          /\ imp[r].looked \in BOOLEAN /\ imp[r].seen \subseteq Ties
          /\ imp[r].todo \subseteq Ties
      BY <2>0, <2>6, ImportFields DEF SuppliersRelate, InTurn
    <3>2. imp'[r] = [imp[r] EXCEPT !.todo = imp[r].todo \ {t}]
      BY <2>6 DEF SuppliersRelate
    <3>3. imp'[r] \in [op: {"write"}, file: SUBSET Suppliers, left: SUBSET Suppliers,
                       looked: BOOLEAN, seen: SUBSET Ties, todo: SUBSET Ties]
      BY <3>1, <3>2
    <3>4. imp' = [imp EXCEPT ![r] = imp'[r]]
      BY <2>6 DEF SuppliersRelate
    <3>5. imp' \in [Importers -> ImportType]
      BY <3>3, <3>4 DEF ImportType
    <3> QED
      BY <2>6, <3>5, RelateFacts DEF SuppliersRelate
  <2>7. CASE SuppliersActivate(r)
    BY <2>0, <2>7, TypeStays DEF SuppliersActivate
  <2> QED
    BY <1>3, <2>1, <2>2, <2>3, <2>4, <2>5, <2>6, <2>7 DEF ImportStep
<1>4. ASSUME NEW r \in Importers, ImportDies(r)
      PROVE  ConflictsTypeOK'
  <2>0. imp[r] \in ImportType /\ Idle \in ImportType
    BY DEF ImportType
  <2>1. cut' \subseteq Suppliers
    BY <1>4, <2>0, ImportFields DEF ImportDies, InTurn
  <2> QED
    BY <1>4, <2>0, <2>1, TypeStays DEF ImportDies
<1>5. ASSUME NEW s \in Suppliers, WorkerNode(s)
      PROVE  ConflictsTypeOK'
  BY <1>5 DEF WorkerNode
<1>6. CASE GraphTurns
  BY <1>6 DEF GraphTurns
<1> QED
  BY <1>1, <1>2, <1>3, <1>4, <1>5, <1>6 DEF ConflictsNext

-----------------------------------------------------------------------------
(* Every step keeps the invariant. *)

LEMMA BeginKeeps ==
    ASSUME Inv, ConflictsTypeOK', NEW r \in Importers,
           \/ \E t \in Listed : ConflictsBegin(r, t)
           \/ \E file \in SUBSET Suppliers : SuppliersBegin(r, file)
    PROVE  Inv'
<1>0. imp[r] = Idle /\ ConflictsTypeOK
  BY DEF ConflictsBegin, SuppliersBegin, Inv
<1>1. /\ imp'[r].op \in {"conflict", "suppliers"}
      /\ \A x \in Importers \ {r} : imp'[x] = imp[x]
  BY <1>0 DEF ConflictsBegin, SuppliersBegin, Becomes, ConflictsTypeOK
<1>2. ImportInv(imp[r])'
  BY <1>1 DEF ImportInv, InTurn
<1>3. \A t \in Ties : ~Minds(imp[r], t)
  BY <1>0 DEF Idle, Minds, InTurn
<1>4. /\ cold' = cold /\ known' = known /\ relation' = relation /\ missed' = missed
      /\ cut' = cut /\ raced' = raced
  BY DEF ConflictsBegin, SuppliersBegin
<1> QED
  BY <1>1, <1>2, <1>3, <1>4, ColdStays

(* Cold data appears: its company is unknown, is being imported and not    *)
(* looked for yet, or the two imports overlapped.                          *)
LEMMA ConflictsCommitKeeps ==
    ASSUME Inv, ConflictsTypeOK', NEW r \in Importers, ConflictsCommit(r)
    PROVE  Inv'
<1> DEFINE t == imp[r].tie
<1>0. ConflictsTypeOK /\ imp[r] \in ImportType /\ imp[r].op = "conflict" /\ t \in Ties
  BY ImportFields DEF Inv, ConflictsTypeOK, ConflictsCommit
<1>1. /\ imp'[r].op \in {"idle", "relate"}
      /\ \A x \in Importers \ {r} : imp'[x] = imp[x]
      /\ known' = known /\ relation' = relation /\ missed' = missed /\ cut' = cut
  BY <1>0 DEF ConflictsCommit, Becomes, ConflictsTypeOK, Idle
<1>2. ImportInv(imp[r])' /\ \A k \in Ties : ~Minds(imp[r], k)
  BY <1>0, <1>1 DEF ImportInv, Minds, InTurn
<1>3. CASE cold' = cold /\ raced' = raced
  BY <1>1, <1>2, <1>3, ColdStays
<1>4. CASE /\ cold[t] = "NONE"
           /\ cold' = [cold EXCEPT ![t] = "PENDING"]
           /\ raced' = IF Of(t) \in known /\ ~Waking(Of(t)) THEN raced \cup {t} ELSE raced
  <2>1. \A x \in Importers : ImportInv(imp[x])'
    BY <1>1, <1>2, OthersKeep
  <2>2. ActivatedIsShown'
    BY <1>0, <1>1, <1>4 DEF Inv, ActivatedIsShown, ConflictsTypeOK
  <2>3. ASSUME NEW k \in Ties, cold'[k] = "PENDING", Of(k) \in known
        PROVE  (\E x \in Importers : Minds(imp'[x], k)) \/ Of(k) \in cut \/ k \in raced'
    <3>1. (\E x \in Importers : Minds(imp[x], k)) \/ Of(k) \in cut \/ k \in raced'
      <4>1. CASE k = t
        BY <1>4, <2>3, <4>1 DEF Waking, Minds
      <4>2. CASE k # t
        <5>1. cold[k] = "PENDING"
          BY <1>0, <1>4, <2>3, <4>2 DEF ConflictsTypeOK
        <5> QED
          BY <1>4, <2>3, <5>1, ColdMeans DEF Inv
      <4> QED
        BY <4>1, <4>2
    <3>2. ASSUME NEW x \in Importers, Minds(imp[x], k)
          PROVE  Minds(imp'[x], k)
      BY <1>1, <1>2, <3>2
    <3> QED
      BY <3>1, <3>2
  <2>4. ColdIsUnknown'
    BY <1>1, <2>3, ColdMeansNext
  <2> QED
    BY <2>1, <2>2, <2>4 DEF Inv
<1> QED
  BY <1>3, <1>4 DEF ConflictsCommit

LEMMA ConflictsRelateKeeps ==
    ASSUME Inv, ConflictsTypeOK', NEW r \in Importers, ConflictsRelate(r)
    PROVE  Inv'
<1>0. ConflictsTypeOK /\ imp[r] \in ImportType /\ imp[r].op = "relate" /\ imp[r].tie \in Ties
  BY ImportFields DEF Inv, ConflictsTypeOK, ConflictsRelate
<1>1. imp'[r] = Idle /\ \A x \in Importers \ {r} : imp'[x] = imp[x]
  BY <1>0, OthersStay DEF ConflictsRelate
<1>2. ImportInv(imp[r])' /\ \A t \in Ties : ~Minds(imp[r], t)
  BY <1>0, <1>1 DEF ImportInv, Minds, InTurn, Idle
<1>3. relation \subseteq relation' /\ missed \subseteq missed'
  BY <1>0, RelateFacts DEF ConflictsRelate
<1>4. cold' = cold /\ known' = known /\ cut' = cut /\ raced' = raced
  BY DEF ConflictsRelate
<1> QED
  BY <1>1, <1>2, <1>3, <1>4, ColdStays

(* The companies are known from now on, and their import will look for the *)
(* rows of all of them.                                                    *)
LEMMA SuppliersCommitKeeps ==
    ASSUME Inv, ConflictsTypeOK', NEW r \in Importers, SuppliersCommit(r)
    PROVE  Inv'
<1> DEFINE file == imp[r].file
<1>0. ConflictsTypeOK /\ imp[r] \in ImportType /\ imp[r].op = "suppliers"
  BY DEF Inv, ConflictsTypeOK, SuppliersCommit
<1>1. cold' = cold /\ relation' = relation /\ missed' = missed /\ cut' = cut /\ raced' = raced
  BY DEF SuppliersCommit
<1>2. \A t \in Ties : ~Minds(imp[r], t)
  BY <1>0 DEF Minds, InTurn
<1>3. CASE imp[r].base # known
  <2>1. imp'[r] = Idle /\ (\A x \in Importers \ {r} : imp'[x] = imp[x]) /\ known' = known
    BY <1>0, <1>3, OthersStay DEF SuppliersCommit
  <2>2. ImportInv(imp[r])'
    BY <2>1 DEF ImportInv, InTurn, Idle
  <2> QED
    BY <1>1, <1>2, <2>1, <2>2, ColdStays
<1>4. CASE imp[r].base = known
  <2>1. /\ imp'[r] = [op |-> "write", file |-> file, left |-> file,
                      looked |-> FALSE, seen |-> {}, todo |-> {}]
        /\ \A x \in Importers \ {r} : imp'[x] = imp[x]
        /\ known' = known \cup file
    BY <1>0, <1>4, OthersStay DEF SuppliersCommit
  <2>2. ImportInv(imp[r])'
    BY <2>1 DEF ImportInv, InTurn, Waits
  <2>3. \A x \in Importers : ImportInv(imp[x])'
    BY <1>1, <2>1, <2>2, OthersKeep
  <2>4. ActivatedIsShown'
    BY <1>1 DEF Inv, ActivatedIsShown
  <2>5. ASSUME NEW k \in Ties, cold[k] = "PENDING", Of(k) \in known'
        PROVE  (\E x \in Importers : Minds(imp'[x], k)) \/ Of(k) \in cut \/ k \in raced
    <3>1. CASE Of(k) \in file
      BY <2>1, <3>1 DEF Minds, InTurn
    <3>2. CASE Of(k) \notin file
      <4>1. (\E x \in Importers : Minds(imp[x], k)) \/ Of(k) \in cut \/ k \in raced
        BY <2>1, <2>5, <3>2, ColdMeans DEF Inv
      <4>2. ASSUME NEW x \in Importers, Minds(imp[x], k)
            PROVE  Minds(imp'[x], k)
        BY <1>2, <2>1, <4>2
      <4> QED
        BY <4>1, <4>2
    <3> QED
      BY <3>1, <3>2
  <2>6. ColdIsUnknown'
    BY <1>1, <2>5, ColdMeansNext
  <2> QED
    BY <2>3, <2>4, <2>6 DEF Inv
<1> QED
  BY <1>3, <1>4

(* A company's turn begins when the one before has nothing left to do.     *)
LEMMA SuppliersNodeKeeps ==
    ASSUME Inv, ConflictsTypeOK', NEW r \in Importers, NEW s \in Suppliers, SuppliersNode(r, s)
    PROVE  Inv'
<1> DEFINE q == imp[r]
<1>0. ConflictsTypeOK /\ q.op = "write" /\ q.todo = {} /\ ImportInv(q)
  BY DEF Inv, SuppliersNode, Turn
<1>1. /\ imp'[r] = [op |-> "look", supplier |-> s, file |-> q.file, left |-> q.left \ {s},
                    looked |-> q.looked, seen |-> q.seen]
      /\ \A x \in Importers \ {r} : imp'[x] = imp[x]
  BY <1>0, OthersStay DEF SuppliersNode, LooksFor
<1>2. /\ cold' = cold /\ known' = known /\ relation' = relation /\ missed' = missed
      /\ cut' = cut /\ raced' = raced
  BY DEF SuppliersNode
<1>3. q.left \subseteq Waits(imp'[r])
  BY <1>1 DEF Waits
<1>4. Waits(q) = q.left /\ ToDo(q) = {}
  BY <1>0 DEF Waits, ToDo
<1>5. ImportInv(imp[r])'
  BY <1>0, <1>1, <1>2, <1>3, <1>4 DEF ImportInv, InTurn, Waits, ToDo, Of
<1>6. \A t \in Ties : Minds(q, t) => Minds(imp'[r], t)
  BY <1>1 DEF Minds, InTurn
<1> QED
  BY <1>1, <1>2, <1>5, <1>6, ColdStays

(* Of the company whose turn it is all the rows that need it are to do; of *)
(* those before it, when there was one, nothing is.                        *)
LEMMA SuppliersLookKeeps ==
    ASSUME Inv, ConflictsTypeOK', NEW r \in Importers, SuppliersLook(r)
    PROVE  Inv'
<1> DEFINE q == imp[r]
           seen == IF q.looked THEN q.seen ELSE Cold(q.file)
           todo == {t \in seen \cap Mapped : Of(t) = q.supplier}
<1>0. ConflictsTypeOK /\ q.op = "look" /\ ImportInv(q)
  BY DEF Inv, SuppliersLook
<1>1. /\ imp'[r] = [op |-> "write", file |-> q.file, left |-> q.left, looked |-> TRUE,
                    seen |-> seen, todo |-> todo]
      /\ \A x \in Importers \ {r} : imp'[x] = imp[x]
  BY <1>0, OthersStay DEF SuppliersLook
<1>2. /\ cold' = cold /\ known' = known /\ relation' = relation /\ missed' = missed
      /\ cut' = cut /\ raced' = raced
  BY DEF SuppliersLook
<1>3. Waits(q) = q.left \cup {q.supplier} /\ ToDo(q) = {}
  BY <1>0 DEF Waits, ToDo
<1>4. Waits(imp'[r]) = q.left /\ ToDo(imp'[r]) = todo
  BY <1>1 DEF Waits, ToDo
<1>5. \A t \in seen : Of(t) \in q.file
  BY <1>0 DEF ImportInv, InTurn, Cold
<1>6. ASSUME NEW t \in seen \cap Mapped
      PROVE  Of(t) \in q.left \/ t \in todo \cup relation \cup missed
  <2>1. CASE Of(t) = q.supplier
    BY <2>1
  <2>2. CASE Of(t) # q.supplier /\ q.looked
    BY <1>0, <1>3, <2>2 DEF ImportInv, InTurn
  <2>3. CASE Of(t) # q.supplier /\ ~q.looked
    BY <1>0, <1>3, <1>5, <2>3 DEF ImportInv, InTurn
  <2> QED
    BY <2>1, <2>2, <2>3
<1>7. ImportInv(imp[r])'
  <2>1. q.file \subseteq known
    BY <1>0 DEF ImportInv, InTurn
  <2> QED
    BY <1>1, <1>2, <1>4, <1>5, <1>6, <2>1 DEF ImportInv, InTurn, Waits, ToDo, Of
<1>8. ASSUME NEW t \in Ties, cold[t] = "PENDING", Minds(q, t)
      PROVE  Minds(imp'[r], t)
  <2>1. t \in seen
    BY <1>0, <1>8 DEF Minds, ImportInv, InTurn, Cold
  <2> QED
    BY <1>1, <2>1 DEF Minds, InTurn
<1> QED
  BY <1>1, <1>2, <1>7, <1>8, ColdStays

LEMMA SuppliersRelateKeeps ==
    ASSUME Inv, ConflictsTypeOK', NEW r \in Importers, NEW t \in Ties, SuppliersRelate(r, t)
    PROVE  Inv'
<1> DEFINE q == imp[r]
<1>0. ConflictsTypeOK /\ q \in ImportType /\ q.op = "write" /\ ImportInv(q)
  BY DEF Inv, ConflictsTypeOK, SuppliersRelate
<1>1. q = [op |-> "write", file |-> q.file, left |-> q.left, looked |-> q.looked,
           seen |-> q.seen, todo |-> q.todo]
  BY <1>0, ImportFields
<1>2. imp'[r] = [q EXCEPT !.todo = q.todo \ {t}]
  BY <1>0 DEF SuppliersRelate, ConflictsTypeOK
<1>3. /\ imp'[r].op = "write" /\ imp'[r].file = q.file /\ imp'[r].left = q.left
      /\ imp'[r].looked = q.looked /\ imp'[r].seen = q.seen /\ imp'[r].todo = q.todo \ {t}
  BY <1>1, <1>2
<1>4. \A x \in Importers \ {r} : imp'[x] = imp[x]
  BY <1>0 DEF SuppliersRelate, ConflictsTypeOK
<1>5. /\ relation \subseteq relation' /\ missed \subseteq missed'
      /\ t \in relation' \cup missed'
  BY <1>0, RelateFacts DEF SuppliersRelate
<1>6. cold' = cold /\ known' = known /\ cut' = cut /\ raced' = raced
  BY DEF SuppliersRelate
<1>7. ImportInv(imp[r])'
  BY <1>0, <1>3, <1>5, <1>6 DEF ImportInv, InTurn, Waits, ToDo, Of
<1>8. \A k \in Ties : Minds(q, k) => Minds(imp'[r], k)
  BY <1>3 DEF Minds, InTurn
<1> QED
  BY <1>4, <1>5, <1>6, <1>7, <1>8, ColdStays

(* The commit: what is ACTIVATED was written, or missed, before. *)
LEMMA SuppliersActivateKeeps ==
    ASSUME Inv, ConflictsTypeOK', NEW r \in Importers, SuppliersActivate(r)
    PROVE  Inv'
<1> DEFINE q == imp[r]
<1>0. /\ ConflictsTypeOK /\ q \in ImportType /\ q.op = "write" /\ ImportInv(q)
      /\ q.todo = {} /\ q.left = {}
  BY DEF Inv, ConflictsTypeOK, SuppliersActivate
<1>1. imp'[r] = Idle /\ \A x \in Importers \ {r} : imp'[x] = imp[x]
  BY <1>0, OthersStay DEF SuppliersActivate
<1>2. /\ known' = known /\ relation' = relation /\ missed' = missed
      /\ cut' = cut /\ raced' = raced
      /\ cold' = [t \in Ties |-> IF t \in q.seen THEN "ACTIVATED" ELSE cold[t]]
  BY DEF SuppliersActivate
<1>3. Waits(q) = {} /\ ToDo(q) = {}
  BY <1>0 DEF Waits, ToDo
<1>4. \A x \in Importers : ImportInv(imp[x])'
  <2>1. ImportInv(imp[r])'
    BY <1>1 DEF ImportInv, InTurn, Idle
  <2> QED
    BY <1>1, <1>2, <2>1, OthersKeep
<1>5. ActivatedIsShown'
  <2>1. \A t \in q.seen \cap Mapped : t \in relation \cup missed
    BY <1>0, <1>3 DEF ImportInv, InTurn
  <2> QED
    BY <1>2, <2>1 DEF Inv, ActivatedIsShown, Ties
<1>6. ASSUME NEW t \in Ties, cold'[t] = "PENDING", Of(t) \in known
      PROVE  (\E x \in Importers : Minds(imp'[x], t)) \/ Of(t) \in cut \/ t \in raced
  <2>1. t \notin q.seen /\ cold[t] = "PENDING"
    BY <1>2, <1>6
  <2>2. ~Minds(q, t)
    BY <1>0, <1>3, <2>1 DEF Minds, ImportInv
  <2>3. (\E x \in Importers : Minds(imp[x], t)) \/ Of(t) \in cut \/ t \in raced
    BY <1>6, <2>1, ColdMeans DEF Inv
  <2>4. ASSUME NEW x \in Importers, Minds(imp[x], t)
        PROVE  Minds(imp'[x], t)
    BY <1>1, <2>2, <2>4
  <2> QED
    BY <2>3, <2>4
<1>7. ColdIsUnknown'
  BY <1>2, <1>6, ColdMeansNext
<1> QED
  BY <1>4, <1>5, <1>7 DEF Inv

LEMMA ImportDiesKeeps ==
    ASSUME Inv, ConflictsTypeOK', NEW r \in Importers, ImportDies(r)
    PROVE  Inv'
<1> DEFINE q == imp[r]
<1>0. ConflictsTypeOK /\ ImportInv(q)
  BY DEF Inv
<1>1. imp'[r] = Idle /\ \A x \in Importers \ {r} : imp'[x] = imp[x]
  BY <1>0, OthersStay DEF ImportDies
<1>2. /\ cold' = cold /\ known' = known /\ relation' = relation /\ missed' = missed
      /\ raced' = raced
      /\ cut' = IF InTurn(q) THEN cut \cup q.file ELSE cut
  BY DEF ImportDies
<1>3. ImportInv(imp[r])'
  BY <1>1 DEF ImportInv, InTurn, Idle
<1>4. \A t \in Ties : Minds(q, t) => Of(t) \in cut'
  BY <1>0, <1>2 DEF Minds, ImportInv
<1> QED
  BY <1>1, <1>2, <1>3, <1>4, ColdStays

LEMMA SurroundingsKeep ==
    ASSUME Inv, ConflictsTypeOK', (\E s \in Suppliers : WorkerNode(s)) \/ GraphTurns
    PROVE  Inv'
<1>1. /\ cold' = cold /\ known' = known /\ relation' = relation /\ missed' = missed
      /\ cut' = cut /\ raced' = raced /\ imp' = imp
  BY DEF WorkerNode, GraphTurns
<1>2. \A x \in Importers : ImportInv(imp[x])'
  BY <1>1 DEF Inv, ImportInv, InTurn, Waits, ToDo, Of
<1>3. ActivatedIsShown' /\ ColdIsUnknown'
  BY <1>1 DEF Inv, ActivatedIsShown, ColdIsUnknown, Waking, InTurn, Of, Ties
<1> QED
  BY <1>2, <1>3 DEF Inv

LEMMA InvStep ==
    ASSUME Inv, [ConflictsNext]_conflictVars
    PROVE  Inv'
<1>1. CASE UNCHANGED conflictVars
  BY <1>1 DEF conflictVars, Inv, ConflictsTypeOK, ImportInv, InTurn, Waits, ToDo,
              ActivatedIsShown, ColdIsUnknown, Waking, Of, Ties, ImportType, Idle
<1>2. CASE ConflictsNext
  <2>0. ConflictsTypeOK'
    BY <1>2, TypeStep DEF Inv
  <2>1. ASSUME NEW r \in Importers,
               \/ \E t \in Listed : ConflictsBegin(r, t)
               \/ \E file \in SUBSET Suppliers : SuppliersBegin(r, file)
               \/ ImportStep(r) \/ ImportDies(r)
        PROVE  Inv'
    BY <2>0, <2>1, BeginKeeps, ConflictsCommitKeeps, ConflictsRelateKeeps, SuppliersCommitKeeps,
       SuppliersNodeKeeps, SuppliersLookKeeps, SuppliersRelateKeeps, SuppliersActivateKeeps,
       ImportDiesKeeps DEF ImportStep
  <2> QED
    BY <1>2, <2>0, <2>1, SurroundingsKeep DEF ConflictsNext
<1> QED
  BY <1>1, <1>2

(* The types of what is stored and of what the imports carry. *)
THEOREM TypeCorrect == ConflictsSpec => []ConflictsTypeOK
<1>1. Inv => ConflictsTypeOK
  BY DEF Inv
<1> QED
  BY <1>1, InitInv, InvStep, PTL DEF ConflictsSpec

(* A row of pending_conflict is ACTIVATED only after its relation was      *)
(* written, or missed because Neo4j or the node of the supplier was away.  *)
THEOREM ActivatedIsShownHolds == ConflictsSpec => []ActivatedIsShown
<1>1. Inv => ActivatedIsShown
  BY DEF Inv
<1> QED
  BY <1>1, InitInv, InvStep, PTL DEF ConflictsSpec

(* A row that stays PENDING although its company is known is the work of a *)
(* dead import, or of two that overlapped: it was stored after the import  *)
(* of its company had taken its snapshot, for whichever company of its     *)
(* file.                                                                   *)
THEOREM ColdIsUnknownHolds == ConflictsSpec => []ColdIsUnknown
<1>1. Inv => ColdIsUnknown
  BY DEF Inv
<1> QED
  BY <1>1, InitInv, InvStep, PTL DEF ConflictsSpec

(* Both ways to keep cold data, as the run checks them.                    *)
THEOREM ColdDataKeptHolds == ConflictsSpec => []ColdDataKept
<1>1. ActivatedIsShown /\ ColdIsUnknown => ColdDataKept
  BY DEF ColdDataKept
<1> QED
  BY <1>1, ActivatedIsShownHolds, ColdIsUnknownHolds, PTL

-----------------------------------------------------------------------------
(* Part II: the declarations and matchings *)

(* The inductive invariant *)

Shown(e, s) == <<e, s>> \in relation \cup missed

(* A request that gives a lot to experts keeps out whom the graph shows a   *)
(* conflict of; a declaration has written the relations it is done with.    *)
RequestInv(q) ==
    /\ q.op = "declare" => \A s \in q.conflicts \ q.todo : Shown(q.expert, s)
    /\ q.op \in {"match", "assign", "search", "supply"} =>
            \A e \in q.barred : \E s \in bidders[q.lot] : <<e, s>> \in relation
    /\ q.op = "assign" /\ ~q.blind => q.chosen \cap q.barred = {}
    /\ q.op = "supply" /\ ~q.blind => q.new \notin q.barred

DeclaredIsShown ==
    \A l \in Lots, e \in Experts, s \in Suppliers : <<l, e, s>> \in declared => Shown(e, s)

MatchInv ==
    /\ TypeOK
    /\ DeclaredIsShown
    /\ \A r \in Requests : RequestInv(req[r])

-----------------------------------------------------------------------------
(* What a request holds in each of its states. *)
LEMMA RequestFields ==
    ASSUME NEW q \in RequestType
    PROVE  /\ q.op \in {"match", "assign", "search", "supply", "declare", "supplement", "notify"} =>
                q.lot \in Lots
           /\ q.op \in {"match", "assign", "search", "supply"} => q.barred \subseteq Experts
           /\ q.op \in {"match", "assign"} => q.seen \in Column
           /\ q.op \in {"match", "search"} => q.cands \subseteq Experts
           /\ q.op \in {"assign", "supply"} => q.blind \in BOOLEAN
           /\ q.op = "assign" => q.chosen \subseteq Experts
           /\ q.op = "supply" => q.new \in Experts
           /\ q.op = "declare" =>
                /\ q.expert \in Experts
                /\ q.conflicts \subseteq Suppliers /\ q.todo \subseteq Suppliers
                /\ q = [op |-> "declare", lot |-> q.lot, expert |-> q.expert,
                        conflicts |-> q.conflicts, todo |-> q.todo]
BY DEF RequestType, Idle

(* The step of one request leaves the others alone. *)
LEMMA Proceeds ==
    ASSUME TypeOK, NEW r \in Requests, NEW q, Proceed(r, q)
    PROVE  /\ req'[r] = q
           /\ \A x \in Requests \ {r} : req'[x] = req[x]
           /\ q \in RequestType => req' \in [Requests -> RequestType]
BY DEF Proceed, TypeOK

LEMMA Blindness == (~up) \in BOOLEAN
<1>1. CASE up
  BY <1>1
<1>2. CASE ~up
  BY <1>2
<1> QED
  BY <1>1, <1>2

LEMMA ProceedsIdle == Idle \in RequestType
BY DEF RequestType

LEMMA NotIdle == \A r \in Requests : \A q : Ask(r, q) => Proceed(r, q)
BY DEF Ask, Proceed

(* Nothing leaves the graph. *)
LEMMA GraphGrows ==
    ASSUME ConflictsTypeOK, ConflictsNext
    PROVE  relation \subseteq relation' /\ missed \subseteq missed'
<1>1. \A t \in Ties : Relate(t) => relation \subseteq relation' /\ missed \subseteq missed'
  BY RelateFacts
<1>2. ASSUME NEW r \in Importers, ConflictsRelate(r)
      PROVE  relation \subseteq relation' /\ missed \subseteq missed'
  <2>1. imp[r].tie \in Ties
    BY <1>2, ImportFields DEF ConflictsRelate, ConflictsTypeOK
  <2> QED
    BY <1>1, <1>2, <2>1 DEF ConflictsRelate
<1>3. ASSUME NEW r \in Importers, ImportStep(r)
      PROVE  relation \subseteq relation' /\ missed \subseteq missed'
  BY <1>1, <1>2, <1>3
  DEF ImportStep, ConflictsCommit, SuppliersCommit, SuppliersNode, SuppliersLook, SuppliersRelate,
      SuppliersActivate
<1> QED
  BY <1>3 DEF ConflictsNext, ConflictsBegin, SuppliersBegin, ImportDies, WorkerNode, GraphTurns

LEMMA MatchInit == Init => MatchInv
<1> SUFFICES ASSUME Init PROVE MatchInv
  OBVIOUS
<1>1. ConflictsTypeOK
  BY InitInv DEF Init, Inv
<1>2. bidders \in [Lots -> SUBSET Suppliers] /\ asg \in [Lots -> Column]
  BY DEF Init, Column
<1>3. req \in [Requests -> RequestType]
  BY ProceedsIdle DEF Init
<1>4. \A r \in Requests : RequestInv(req[r])
  BY DEF Init, RequestInv, Idle
<1> QED
  BY <1>1, <1>2, <1>3, <1>4 DEF Init, MatchInv, TypeOK, DeclaredIsShown

-----------------------------------------------------------------------------
(* What a step leaves as it was keeps its part of the invariant. *)
LEMMA RequestKept ==
    ASSUME MatchInv, NEW r \in Requests, req'[r] = req[r],
           relation \subseteq relation', missed \subseteq missed',
           \A l \in Lots : bidders[l] \subseteq bidders'[l]
    PROVE  RequestInv(req[r])'
<1>1. req[r] \in RequestType /\ RequestInv(req[r])
  BY DEF MatchInv, TypeOK
<1>2. req[r].op \in {"match", "assign", "search", "supply"} => req[r].lot \in Lots
  BY <1>1, RequestFields
<1> QED
  BY <1>1, <1>2 DEF RequestInv, Shown

LEMMA DeclaredKept ==
    ASSUME MatchInv, declared' = declared, relation \subseteq relation', missed \subseteq missed'
    PROVE  DeclaredIsShown'
BY DEF MatchInv, DeclaredIsShown, Shown

(* A step of one request that declares nothing. *)
LEMMA OwnStep ==
    ASSUME MatchInv, TypeOK', NEW r \in Requests, NEW q, Proceed(r, q), RequestInv(q)',
           relation \subseteq relation', missed \subseteq missed',
           bidders' = bidders, declared' = declared
    PROVE  MatchInv'
<1>1. TypeOK
  BY DEF MatchInv
<1>2. ASSUME NEW p \in Requests
      PROVE  RequestInv(req[p])'
  <2>1. CASE p = r
    <3>1. req'[p] = q
      BY <1>1, <2>1, Proceeds
    <3> QED
      BY <3>1 DEF RequestInv, Shown
  <2>2. CASE p # r
    BY <1>1, <2>2, Proceeds, RequestKept
  <2> QED
    BY <2>1, <2>2
<1> QED
  BY <1>2, DeclaredKept DEF MatchInv

(* A step that moves no request. *)
LEMMA NoRequestMoves ==
    ASSUME MatchInv, TypeOK', req' = req, declared' = declared,
           relation \subseteq relation', missed \subseteq missed',
           \A l \in Lots : bidders[l] \subseteq bidders'[l]
    PROVE  MatchInv'
BY RequestKept, DeclaredKept DEF MatchInv

-----------------------------------------------------------------------------
(* Every step keeps the types. *)
LEMMA ConflictsStay == ConflictsTypeOK /\ UNCHANGED conflictVars => ConflictsTypeOK'
BY DEF ConflictsTypeOK, conflictVars

LEMMA ManagerTypes ==
    ASSUME TypeOK, NEW r \in Requests, Manager(r)
    PROVE  TypeOK'
<1>0. req[r] \in RequestType
  BY DEF TypeOK
<1>1. ASSUME NEW l \in Lots, MatchBegin(r, l)
      PROVE  TypeOK'
  <2>1. [op |-> "match", lot |-> l, seen |-> asg[l], cands |-> {e \in active : <<l, e>> \in Suitable},
         barred |-> Barred(l)] \in RequestType
    BY DEF TypeOK, RequestType, Barred
  <2>2. req' \in [Requests -> RequestType]
    BY <1>1, <2>1, NotIdle, Proceeds DEF MatchBegin
  <2> QED
    BY <1>1, <2>2, ConflictsStay DEF MatchBegin, TypeOK
<1>2. CASE MatchCheck(r)
  <2> DEFINE clean == Unobjected(req[r].lot, req[r].cands)
  <2>1. /\ req[r].lot \in Lots /\ req[r].seen \in Column /\ req[r].cands \subseteq Experts
        /\ req[r].barred \subseteq Experts
    BY <1>0, <1>2, RequestFields DEF MatchCheck
  <2>2. clean \subseteq Experts
    BY <2>1 DEF Unobjected
  <2>3. PICK chosen \in SUBSET clean :
            Proceed(r, [op |-> "assign", lot |-> req[r].lot, seen |-> req[r].seen, chosen |-> chosen,
                        blind |-> ~up, barred |-> req[r].barred])
    BY <1>2 DEF MatchCheck
  <2>4. [op |-> "assign", lot |-> req[r].lot, seen |-> req[r].seen, chosen |-> chosen,
         blind |-> ~up, barred |-> req[r].barred] \in RequestType
    <3>1. chosen \subseteq Experts
      BY <2>2, <2>3
    <3> QED
      BY <2>1, <3>1, Blindness DEF RequestType
  <2>5. req' \in [Requests -> RequestType]
    BY <2>3, <2>4, Proceeds
  <2> QED
    BY <1>2, <2>5, ConflictsStay DEF MatchCheck, TypeOK
<1>3. CASE MatchCommit(r)
  <2>1. req[r].lot \in Lots
    BY <1>0, <1>3, RequestFields DEF MatchCommit
  <2>2. req' \in [Requests -> RequestType]
    BY <1>3, Proceeds, ProceedsIdle DEF MatchCommit, End
  <2> DEFINE column == [e \in Experts |-> IF e \in req[r].chosen
                                          THEN Matched(asg[req[r].lot][e], req[r].seen[e])
                                          ELSE asg[req[r].lot][e]]
  <2>3. column \in Column
    BY <2>1 DEF Column, Matched, AssignmentStatus, TypeOK
  <2>4. asg' = asg \/ asg' = [asg EXCEPT ![req[r].lot] = column]
    BY <1>3 DEF MatchCommit
  <2>5. asg' \in [Lots -> Column]
    <3> HIDE DEF column
    <3> QED
      BY <2>3, <2>4 DEF TypeOK
  <2> QED
    BY <1>3, <2>2, <2>5, ConflictsStay DEF MatchCommit, TypeOK
<1> QED
  BY <1>1, <1>2, <1>3 DEF Manager

LEMMA ExpertTypes ==
    ASSUME TypeOK, NEW r \in Requests, Expert(r)
    PROVE  TypeOK'
<1>0. req[r] \in RequestType
  BY DEF TypeOK
<1>1. ASSUME NEW l \in Lots, NEW e \in Experts, NEW conflicts \in SUBSET Suppliers,
             DeclareBegin(r, l, e, conflicts)
      PROVE  TypeOK'
  <2>1. [op |-> "declare", lot |-> l, expert |-> e, conflicts |-> conflicts, todo |-> conflicts]
            \in RequestType
    BY DEF RequestType
  <2>2. req' \in [Requests -> RequestType]
    BY <1>1, <2>1, NotIdle, Proceeds DEF DeclareBegin
  <2> QED
    BY <1>1, <2>2, ConflictsStay DEF DeclareBegin, TypeOK
<1>2. ASSUME NEW s \in Suppliers, DeclareRelate(r, s)
      PROVE  TypeOK'
  <2>1. /\ req[r].expert \in Experts /\ req[r].lot \in Lots
        /\ req[r].conflicts \subseteq Suppliers /\ req[r].todo \subseteq Suppliers
        /\ req[r] = [op |-> "declare", lot |-> req[r].lot, expert |-> req[r].expert,
                     conflicts |-> req[r].conflicts, todo |-> req[r].todo]
    BY <1>0, <1>2, RequestFields DEF DeclareRelate
  <2>2. req'[r] = [req[r] EXCEPT !.todo = req[r].todo \ {s}]
    BY <1>2 DEF DeclareRelate, TypeOK
  <2>3. req'[r] \in RequestType
    BY <2>1, <2>2 DEF RequestType
  <2>4. req' = [req EXCEPT ![r] = req'[r]]
    BY <1>2 DEF DeclareRelate, TypeOK
  <2>5. req' \in [Requests -> RequestType]
    BY <2>3, <2>4 DEF TypeOK
  <2>6. <<req[r].expert, s>> \in Ties
    BY <2>1 DEF Ties
  <2>7. relation' \subseteq Ties /\ missed' \subseteq Ties
    BY <1>2, <2>6, RelateFacts DEF DeclareRelate, TypeOK
  <2>8. ConflictsTypeOK'
    BY <1>2, <2>7 DEF DeclareRelate, TypeOK, ConflictsTypeOK
  <2> QED
    BY <1>2, <2>5, <2>8 DEF DeclareRelate, TypeOK
<1>3. CASE DeclareCommit(r)
  <2>1. req[r].lot \in Lots /\ req[r].expert \in Experts /\ req[r].conflicts \subseteq Suppliers
    BY <1>0, <1>3, RequestFields DEF DeclareCommit
  <2>2. [op |-> "supplement", lot |-> req[r].lot] \in RequestType
    BY <2>1 DEF RequestType
  <2>3. req' \in [Requests -> RequestType]
    BY <1>3, <2>2, Proceeds, ProceedsIdle DEF DeclareCommit, Declare
  <2>4. PICK status \in AssignmentStatus : asg' = [asg EXCEPT ![req[r].lot][req[r].expert] = status]
    BY <1>3 DEF DeclareCommit, Declare, AssignmentStatus
  <2>5. asg' \in [Lots -> Column]
    BY <2>1, <2>4 DEF TypeOK, Column
  <2>6. declared' \subseteq Lots \X Experts \X Suppliers
    BY <1>3, <2>1 DEF DeclareCommit, Declare, TypeOK
  <2> QED
    BY <1>3, <2>3, <2>5, <2>6, ConflictsStay DEF DeclareCommit, Declare, TypeOK
<1>4. CASE SupplementBegin(r)
  <2>1. req[r].lot \in Lots
    BY <1>0, <1>4, RequestFields DEF SupplementBegin
  <2>2. [op |-> "search", lot |-> req[r].lot,
         cands |-> {e \in active : <<req[r].lot, e>> \in Local /\ asg[req[r].lot][e] = "NONE"},
         barred |-> Barred(req[r].lot)] \in RequestType
    BY <2>1 DEF RequestType, TypeOK, Barred
  <2>3. req' \in [Requests -> RequestType]
    BY <1>4, <2>2, Proceeds DEF SupplementBegin
  <2> QED
    BY <1>4, <2>3, ConflictsStay DEF SupplementBegin, TypeOK
<1>5. CASE SupplementCheck(r)
  <2>1. req[r].lot \in Lots /\ req[r].cands \subseteq Experts /\ req[r].barred \subseteq Experts
    BY <1>0, <1>5, RequestFields DEF SupplementCheck
  <2>2. Unobjected(req[r].lot, req[r].cands) \subseteq Experts
    BY <2>1 DEF Unobjected
  <2>3. \A e \in Experts :
            [op |-> "supply", lot |-> req[r].lot, new |-> e, blind |-> ~up,
             barred |-> req[r].barred] \in RequestType
    BY <2>1, Blindness DEF RequestType
  <2>4. req' \in [Requests -> RequestType]
    BY <1>5, <2>2, <2>3, Proceeds, ProceedsIdle DEF SupplementCheck, End
  <2> QED
    BY <1>5, <2>4, ConflictsStay DEF SupplementCheck, TypeOK
<1>6. CASE SupplementCommit(r)
  <2>1. req[r].lot \in Lots /\ req[r].new \in Experts
    BY <1>0, <1>6, RequestFields DEF SupplementCommit
  <2>2. [op |-> "notify", lot |-> req[r].lot, new |-> req[r].new] \in RequestType
    BY <2>1 DEF RequestType
  <2>3. req' \in [Requests -> RequestType]
    BY <1>6, <2>2, Proceeds, ProceedsIdle DEF SupplementCommit, End
  <2>4. asg' = asg \/ asg' = [asg EXCEPT ![req[r].lot][req[r].new] = "PENDING_DECLARATION"]
    BY <1>6 DEF SupplementCommit
  <2>5. asg' \in [Lots -> Column]
    BY <2>1, <2>4 DEF TypeOK, Column, AssignmentStatus
  <2> QED
    BY <1>6, <2>3, <2>5, ConflictsStay DEF SupplementCommit, TypeOK
<1>7. CASE SupplementNotify(r)
  <2>1. req' \in [Requests -> RequestType]
    BY <1>7, Proceeds, ProceedsIdle DEF SupplementNotify, End
  <2> QED
    BY <1>7, <2>1, ConflictsStay DEF SupplementNotify, TypeOK
<1> QED
  BY <1>1, <1>2, <1>3, <1>4, <1>5, <1>6, <1>7 DEF Expert

LEMMA MatchTypes ==
    ASSUME TypeOK, Next
    PROVE  TypeOK'
<1>1. ASSUME NEW r \in Requests, RequestDies(r)
      PROVE  TypeOK'
  <2>1. req' \in [Requests -> RequestType]
    BY <1>1, Proceeds, ProceedsIdle DEF RequestDies, End
  <2> QED
    BY <1>1, <2>1, ConflictsStay DEF RequestDies, TypeOK
<1>2. CASE Surroundings
  BY <1>2, ConflictsStay DEF Surroundings, Bid, Release, UpdateExpertStatus, TypeOK
<1>3. CASE Imports
  BY <1>3, TypeStep DEF Imports, TypeOK
<1> QED
  BY <1>1, <1>2, <1>3, ManagerTypes, ExpertTypes DEF Next

-----------------------------------------------------------------------------
(* Whoever is barred from a lot has a relation to one of its bidders. *)
LEMMA BarredIsShown ==
    ASSUME MatchInv, NEW l \in Lots, NEW e \in Barred(l)
    PROVE  e \in Experts /\ \E s \in bidders[l] : <<e, s>> \in relation
<1>1. PICK s \in bidders[l], k \in Lots : <<k, e, s>> \in declared /\ <<e, s>> \notin missed
  BY DEF Barred
<1>2. e \in Experts /\ s \in Suppliers
  BY <1>1 DEF Barred, MatchInv, TypeOK
<1> QED
  BY <1>1, <1>2 DEF MatchInv, DeclaredIsShown, Shown

(* The check of the graph, when it answers, keeps out the barred. *)
LEMMA CheckKeepsOut ==
    ASSUME NEW l, NEW cands, NEW barred, up,
           \A e \in barred : e \in Experts /\ \E s \in bidders[l] : <<e, s>> \in relation,
           cands \subseteq Experts
    PROVE  Unobjected(l, cands) \cap barred = {}
BY DEF Unobjected, Objected

LEMMA ManagerStep ==
    ASSUME MatchInv, TypeOK', NEW r \in Requests, Manager(r)
    PROVE  MatchInv'
<1>0. TypeOK /\ req[r] \in RequestType /\ RequestInv(req[r])
  BY DEF MatchInv, TypeOK
<1>1. ASSUME NEW l \in Lots, MatchBegin(r, l)
      PROVE  MatchInv'
  <2> DEFINE q == [op |-> "match", lot |-> l, seen |-> asg[l],
                   cands |-> {e \in active : <<l, e>> \in Suitable}, barred |-> Barred(l)]
  <2>1. Proceed(r, q) /\ bidders' = bidders /\ declared' = declared
        /\ relation' = relation /\ missed' = missed
    BY <1>1, NotIdle DEF MatchBegin, conflictVars
  <2>2. PICK x : x = q
    OBVIOUS
  <2>3. RequestInv(x)'
    BY <2>1, <2>2, BarredIsShown DEF RequestInv
  <2> HIDE DEF q
  <2> QED
    BY <2>1, <2>2, <2>3, OwnStep
<1>2. CASE MatchCheck(r)
  <2> DEFINE clean == Unobjected(req[r].lot, req[r].cands)
  <2>1. PICK chosen \in SUBSET clean :
            \E x : /\ x = [op |-> "assign", lot |-> req[r].lot, seen |-> req[r].seen,
                           chosen |-> chosen, blind |-> ~up, barred |-> req[r].barred]
                  /\ Proceed(r, x)
    BY <1>2 DEF MatchCheck
  <2>0. PICK x : /\ x = [op |-> "assign", lot |-> req[r].lot, seen |-> req[r].seen,
                         chosen |-> chosen, blind |-> ~up, barred |-> req[r].barred]
                 /\ Proceed(r, x)
    BY <2>1
  <2>2. bidders' = bidders /\ declared' = declared /\ relation' = relation /\ missed' = missed
    BY <1>2 DEF MatchCheck, conflictVars
  <2>3. up => chosen \cap req[r].barred = {}
    BY <1>0, <1>2, <2>1, RequestFields, CheckKeepsOut DEF MatchCheck, RequestInv
  <2>4. RequestInv(x)'
    BY <1>0, <1>2, <2>0, <2>2, <2>3 DEF RequestInv, MatchCheck
  <2> QED
    BY <2>0, <2>2, <2>4, OwnStep
<1>3. CASE MatchCommit(r)
  <2>1. Proceed(r, Idle) /\ UNCHANGED <<bidders, declared, relation, missed>>
    BY <1>3 DEF MatchCommit, End, conflictVars
  <2>2. RequestInv(Idle)'
    BY DEF RequestInv, Idle
  <2> QED
    BY <2>1, <2>2, OwnStep
<1> QED
  BY <1>1, <1>2, <1>3 DEF Manager

LEMMA ExpertStep ==
    ASSUME MatchInv, TypeOK', NEW r \in Requests, Expert(r)
    PROVE  MatchInv'
<1>0. TypeOK /\ ConflictsTypeOK /\ req[r] \in RequestType /\ RequestInv(req[r])
  BY DEF MatchInv, TypeOK
<1>1. ASSUME NEW l \in Lots, NEW e \in Experts, NEW conflicts \in SUBSET Suppliers,
             DeclareBegin(r, l, e, conflicts)
      PROVE  MatchInv'
  <2>1. PICK x : /\ x = [op |-> "declare", lot |-> l, expert |-> e,
                         conflicts |-> conflicts, todo |-> conflicts]
                 /\ Proceed(r, x)
    BY <1>1, NotIdle DEF DeclareBegin
  <2>2. UNCHANGED <<bidders, declared, relation, missed>>
    BY <1>1 DEF DeclareBegin, conflictVars
  <2>3. RequestInv(x)'
    BY <2>1 DEF RequestInv
  <2> QED
    BY <2>1, <2>2, <2>3, OwnStep
<1>2. ASSUME NEW s \in Suppliers, DeclareRelate(r, s)
      PROVE  MatchInv'
  <2> DEFINE q == req[r]
  <2>1. /\ q.expert \in Experts
        /\ q = [op |-> "declare", lot |-> q.lot, expert |-> q.expert,
                conflicts |-> q.conflicts, todo |-> q.todo]
    BY <1>0, <1>2, RequestFields DEF DeclareRelate
  <2>2. PICK x : x = [q EXCEPT !.todo = q.todo \ {s}] /\ Proceed(r, x)
    BY <1>2 DEF DeclareRelate, Proceed
  <2>3. x.op = "declare" /\ x.expert = q.expert /\ x.conflicts = q.conflicts /\ x.todo = q.todo \ {s}
    BY <2>1, <2>2
  <2>4. <<q.expert, s>> \in Ties
    BY <2>1 DEF Ties
  <2>5. /\ relation \subseteq relation' /\ missed \subseteq missed'
        /\ <<q.expert, s>> \in relation' \cup missed'
    BY <1>0, <1>2, <2>4, RelateFacts DEF DeclareRelate
  <2>6. \A c \in q.conflicts \ q.todo : Shown(q.expert, c)
    BY <1>0, <1>2 DEF RequestInv, DeclareRelate
  <2> HIDE DEF q
  <2>7. \A c \in x.conflicts \ x.todo : <<x.expert, c>> \in relation' \cup missed'
    BY <2>3, <2>5, <2>6 DEF Shown
  <2>8. RequestInv(x)'
    BY <2>3, <2>7 DEF RequestInv, Shown
  <2>9. bidders' = bidders /\ declared' = declared
    BY <1>2 DEF DeclareRelate
  <2> QED
    BY <2>2, <2>5, <2>8, <2>9, OwnStep
<1>3. CASE DeclareCommit(r)
  <2> DEFINE q == req[r]
  <2>1. \A s \in q.conflicts : Shown(q.expert, s)
    BY <1>0, <1>3 DEF RequestInv, DeclareCommit
  <2>2. UNCHANGED <<bidders, relation, missed>>
    BY <1>3 DEF DeclareCommit, Declare, conflictVars
  <2>3. PICK x : Proceed(r, x) /\ x \in {[op |-> "supplement", lot |-> q.lot], Idle}
    BY <1>3 DEF DeclareCommit, Declare
  <2>4. RequestInv(x)'
    BY <2>3 DEF RequestInv, Idle
  <2>5. ASSUME NEW p \in Requests
        PROVE  RequestInv(req[p])'
    <3>1. CASE p = r
      <4>1. req'[p] = x
        BY <1>0, <2>3, <3>1, Proceeds
      <4> QED
        BY <2>4, <4>1 DEF RequestInv, Shown
    <3>2. CASE p # r
      BY <1>0, <2>2, <2>3, <3>2, Proceeds, RequestKept
    <3> QED
      BY <3>1, <3>2
  <2>6. DeclaredIsShown'
    <3>1. declared' = declared \cup {<<q.lot, q.expert, s>> : s \in q.conflicts}
      BY <1>3 DEF DeclareCommit, Declare
    <3> QED
      BY <2>1, <2>2, <3>1 DEF MatchInv, DeclaredIsShown, Shown
  <2> QED
    BY <2>5, <2>6 DEF MatchInv
<1>4. CASE SupplementBegin(r)
  <2>1. PICK x : /\ x = [op |-> "search", lot |-> req[r].lot,
                         cands |-> {e \in active : /\ <<req[r].lot, e>> \in Local
                                                   /\ asg[req[r].lot][e] = "NONE"},
                         barred |-> Barred(req[r].lot)]
                 /\ Proceed(r, x)
    BY <1>4 DEF SupplementBegin
  <2>2. UNCHANGED <<bidders, declared, relation, missed>>
    BY <1>4 DEF SupplementBegin, conflictVars
  <2>3. req[r].lot \in Lots
    BY <1>0, <1>4, RequestFields DEF SupplementBegin
  <2>4. RequestInv(x)'
    BY <2>1, <2>2, <2>3, BarredIsShown DEF RequestInv
  <2> QED
    BY <2>1, <2>2, <2>4, OwnStep
<1>5. CASE SupplementCheck(r)
  <2> DEFINE clean == Unobjected(req[r].lot, req[r].cands)
  <2>1. UNCHANGED <<bidders, declared, relation, missed>>
    BY <1>5 DEF SupplementCheck, conflictVars
  <2>2. CASE Proceed(r, Idle)
    <3>1. RequestInv(Idle)'
      BY DEF RequestInv, Idle
    <3> QED
      BY <2>1, <2>2, <3>1, OwnStep
  <2>3. ASSUME NEW e \in clean, NEW x,
               x = [op |-> "supply", lot |-> req[r].lot, new |-> e, blind |-> ~up,
                    barred |-> req[r].barred],
               Proceed(r, x)
        PROVE  MatchInv'
    <3>1. up => clean \cap req[r].barred = {}
      BY <1>0, <1>5, RequestFields, CheckKeepsOut DEF SupplementCheck, RequestInv
    <3>2. RequestInv(x)'
      BY <1>0, <1>5, <2>1, <2>3, <3>1 DEF RequestInv, SupplementCheck
    <3> QED
      BY <2>1, <2>3, <3>2, OwnStep
  <2> QED
    BY <1>5, <2>2, <2>3 DEF SupplementCheck, End
<1>6. CASE SupplementCommit(r)
  <2>1. PICK x : Proceed(r, x) /\ x \in {[op |-> "notify", lot |-> req[r].lot, new |-> req[r].new], Idle}
    BY <1>6 DEF SupplementCommit, End
  <2>2. UNCHANGED <<bidders, declared, relation, missed>>
    BY <1>6 DEF SupplementCommit, conflictVars
  <2>3. RequestInv(x)'
    BY <2>1 DEF RequestInv, Idle
  <2> QED
    BY <2>1, <2>2, <2>3, OwnStep
<1>7. CASE SupplementNotify(r)
  <2>1. Proceed(r, Idle) /\ UNCHANGED <<bidders, declared, relation, missed>>
    BY <1>7 DEF SupplementNotify, End, conflictVars
  <2>2. RequestInv(Idle)'
    BY DEF RequestInv, Idle
  <2> QED
    BY <2>1, <2>2, OwnStep
<1> QED
  BY <1>1, <1>2, <1>3, <1>4, <1>5, <1>6, <1>7 DEF Expert

LEMMA MatchStep == MatchInv /\ [Next]_vars => MatchInv'
<1> SUFFICES ASSUME MatchInv, [Next]_vars PROVE MatchInv'
  OBVIOUS
<1>0. TypeOK
  BY DEF MatchInv
<1>1. CASE Next
  <2>0. TypeOK'
    BY <1>0, <1>1, MatchTypes
  <2>1. ASSUME NEW r \in Requests, RequestDies(r)
        PROVE  MatchInv'
    <3>1. Proceed(r, Idle) /\ UNCHANGED <<bidders, declared, relation, missed>>
      BY <2>1 DEF RequestDies, End, conflictVars
    <3>2. RequestInv(Idle)'
      BY DEF RequestInv, Idle
    <3> QED
      BY <2>0, <3>1, <3>2, OwnStep
  <2>2. CASE Surroundings
    <3>1. UNCHANGED <<req, declared, relation, missed>>
      BY <2>2 DEF Surroundings, Bid, Release, UpdateExpertStatus, conflictVars
    <3>2. \A l \in Lots : bidders[l] \subseteq bidders'[l]
      BY <1>0, <2>2 DEF Surroundings, Bid, Release, UpdateExpertStatus, TypeOK
    <3> QED
      BY <2>0, <3>1, <3>2, NoRequestMoves
  <2>3. CASE Imports
    <3>1. relation \subseteq relation' /\ missed \subseteq missed'
      BY <1>0, <2>3, GraphGrows DEF Imports, TypeOK
    <3>2. req' = req /\ declared' = declared /\ bidders' = bidders
      BY <2>3 DEF Imports
    <3> QED
      BY <2>0, <3>1, <3>2, NoRequestMoves
  <2> QED
    BY <1>1, <2>0, <2>1, <2>2, <2>3, ManagerStep, ExpertStep DEF Next
<1>2. CASE UNCHANGED vars
  <2>1. TypeOK'
    BY <1>0, <1>2 DEF vars, conflictVars, TypeOK, ConflictsTypeOK
  <2> QED
    BY <1>2, <2>1, NoRequestMoves DEF vars, conflictVars
<1> QED
  BY <1>1, <1>2

LEMMA MatchInvariance == Spec => []MatchInv
BY MatchInit, MatchStep, PTL DEF Spec

-----------------------------------------------------------------------------
(* The results *)

(* Assignments, declarations and requests keep their shape beside the       *)
(* imports.                                                                 *)
THEOREM AssignmentsTypeCorrect == Spec => []TypeOK
<1>1. MatchInv => TypeOK
  BY DEF MatchInv
<1> QED
  BY <1>1, MatchInvariance, PTL

(* A declared conflict is in the graph, unless Neo4j failed to write it:    *)
(* declare writes the relation before it commits the row.                   *)
THEOREM DeclaredIsShownHolds == Spec => []DeclaredIsShown
<1>1. MatchInv => DeclaredIsShown
  BY DEF MatchInv
<1> QED
  BY <1>1, MatchInvariance, PTL

(* Who declared a conflict with a bidder is not given the lot by a matching *)
(* or a supplement that began later, unless Neo4j failed one of the two.    *)
THEOREM DeclaredKeepsOutHolds == Spec => DeclaredKeepsOut
<1> DEFINE KeepsOut ==
      \A r \in Requests, l \in Lots, e \in Experts :
        (/\ req[r].op \in {"assign", "supply"} /\ req'[r] # req[r]
         /\ asg'[l][e] = "PENDING_DECLARATION" /\ asg[l][e] # asg'[l][e])
            => req[r].blind \/ e \notin req[r].barred
<1>1. MatchInv /\ [Next]_vars => [KeepsOut]_vars
  <2> SUFFICES ASSUME MatchInv, Next,
                      NEW r \in Requests, NEW l \in Lots, NEW e \in Experts,
                      req[r].op \in {"assign", "supply"}, req'[r] # req[r],
                      asg'[l][e] = "PENDING_DECLARATION", asg[l][e] # asg'[l][e],
                      ~req[r].blind
               PROVE  e \notin req[r].barred
    OBVIOUS
  <2>1. TypeOK /\ req[r] \in RequestType /\ RequestInv(req[r])
    BY DEF MatchInv, TypeOK
  <2>2. ASSUME NEW p \in Requests, p # r, NEW q, Proceed(p, q)
        PROVE  FALSE
    BY <2>1, <2>2, Proceeds
  <2>3. MatchCommit(r) \/ SupplementCommit(r)
    <3>1. asg' # asg
      OBVIOUS
    <3>2. PICK p \in Requests : MatchCommit(p) \/ SupplementCommit(p) \/ DeclareCommit(p)
      BY <3>1 DEF Next, Manager, Expert, Surroundings, Imports, MatchBegin, MatchCheck, DeclareBegin,
                  DeclareRelate, SupplementBegin, SupplementCheck, SupplementNotify, RequestDies,
                  Bid, Release, UpdateExpertStatus
    <3>3. \E q : Proceed(p, q)
      BY <3>2 DEF MatchCommit, SupplementCommit, DeclareCommit, Declare, End
    <3>4. p = r
      BY <2>2, <3>3
    <3> QED
      BY <3>2, <3>4 DEF DeclareCommit
  <2>4. CASE MatchCommit(r)
    <3>1. e \in req[r].chosen
      BY <2>1, <2>4, RequestFields DEF MatchCommit, TypeOK, Column
    <3> QED
      BY <2>1, <2>4, <3>1 DEF MatchCommit, RequestInv
  <2>5. CASE SupplementCommit(r)
    <3>1. e = req[r].new
      BY <2>1, <2>5, RequestFields DEF SupplementCommit, TypeOK, Column
    <3> QED
      BY <2>1, <2>5, <3>1 DEF SupplementCommit, RequestInv
  <2> QED
    BY <2>3, <2>4, <2>5
<1>2. Spec => [][KeepsOut]_vars
  BY <1>1, MatchInvariance, PTL DEF Spec
<1> QED
  BY <1>2 DEF DeclaredKeepsOut

-----------------------------------------------------------------------------
(* Part III: the accounts *)

Account == [person : Persons \cup {Nobody}, status : Statuses, is_active : BOOLEAN,
            password : AnyPassword, must_change : BOOLEAN]

(* An import in flight is going to take a username before which all are     *)
(* taken; while that one is free, nobody of the import has become known.    *)
Leads(made) ==
    \E n \in DOMAIN made :
        /\ n \in Names /\ \A k \in Names : k < n => k \in Taken
        /\ n \notin Taken => \A k \in DOMAIN made : made[k] \notin Known

MadeOk(made) ==
    /\ DOMAIN made \subseteq Names
    /\ \A n \in DOMAIN made : made[n] \in Persons
    /\ Leads(made)

(* A change of status that was not overtaken has read what is there.        *)
CallOk(c) ==
    /\ c.op \in {"idle", "import", "create", "status", "user", "password"}
    /\ c.op = "import" => MadeOk(c.made)
    /\ c.op = "create" => c.name \in Names
    /\ c.op = "status" =>
            /\ c = [op |-> "status", name |-> c.name, to |-> c.to, overtaken |-> c.overtaken,
                    status |-> c.status, is_active |-> c.is_active]
            /\ c.name \in Taken /\ c.to \in Statuses /\ c.overtaken \in BOOLEAN
            /\ c.status \in Statuses /\ c.is_active \in BOOLEAN
            /\ ~ c.overtaken => /\ c.status = rows[c.name].status
                                /\ c.is_active = rows[c.name].is_active
    /\ c.op = "user" => c.name \in Taken /\ c.to \in BOOLEAN
    /\ c.op = "password" => c.name \in Taken /\ c.new \in Strong

AccountsType ==
    /\ rows \in [Names -> {NoRow} \cup Account]
    /\ call = [q \in Calls |-> call[q]]

(* Whoever has an initial password must still change it; and of an account  *)
(* that is enabled, the status is ACTIVE, but for what slipped.             *)
RowOk(n) ==
    /\ ~ rows[n].must_change => rows[n].password # "initial"
    /\ rows[n].is_active /\ rows[n].status # "ACTIVE" => n \in slipped

AccountsInv ==
    /\ AccountsType
    /\ \A q \in Calls : CallOk(call[q])
    /\ \A n \in Taken : RowOk(n)
    /\ OnePersonOnce

-----------------------------------------------------------------------------
(* Rows *)

LEMMA AccountIsNot ==
    ASSUME NEW a \in Account PROVE a # NoRow
<1>1. DOMAIN a = {"person", "status", "is_active", "password", "must_change"}
  BY DEF Account
<1>2. DOMAIN NoRow = {"free"}
  BY DEF NoRow
<1>3. "free" \in DOMAIN NoRow /\ "free" \notin DOMAIN a
  BY <1>1, <1>2
<1> QED
  BY <1>3

LEMMA NewIsAccount ==
    ASSUME NEW p \in Persons \cup {Nobody}, NEW w \in AnyPassword
    PROVE  /\ NewAccount(p, w) \in Account
           /\ NewAccount(p, w).person = p /\ NewAccount(p, w).status = "ACTIVE"
           /\ NewAccount(p, w).must_change = TRUE /\ NewAccount(p, w).password = w
BY DEF NewAccount, Account, Statuses

LEMMA TakenRows ==
    ASSUME AccountsType
    PROVE  \A n \in Names : n \in Taken <=> rows[n] \in Account
BY AccountIsNot DEF AccountsType, Taken

(* What changes the columns of one row, and neither its person nor others.  *)
Changes(n) ==
    /\ twins' = twins
    /\ n \in Taken /\ rows' \in [Names -> {NoRow} \cup Account]
    /\ rows'[n] \in Account /\ rows'[n].person = rows[n].person
    /\ \A m \in Names : m # n => rows'[m] = rows[m]

LEMMA ChangesKeep ==
    ASSUME AccountsType, NEW n, Changes(n)
    PROVE  /\ Taken' = Taken /\ Known' = Known
           /\ \A m \in Taken : rows'[m].person = rows[m].person
           /\ OnePersonOnce => OnePersonOnce'
<1>1. n \in Names /\ Taken \subseteq Names
  BY DEF Changes, Taken
<1>2. Taken' = Taken
  BY <1>1, AccountIsNot DEF Changes, Taken
<1>3. \A m \in Taken : rows'[m].person = rows[m].person
  BY <1>1 DEF Changes
<1>4. Known' = Known
  BY <1>2, <1>3 DEF Known
<1>5. OnePersonOnce => OnePersonOnce'
  BY <1>2, <1>3 DEF OnePersonOnce, Changes
<1> QED
  BY <1>2, <1>3, <1>4, <1>5

-----------------------------------------------------------------------------
(* What a step leaves of the other requests *)

LEMMA Finished ==
    ASSUME AccountsType, NEW q \in Calls, NEW names, Finish(q, names)
    PROVE  /\ call' = [p \in Calls |-> call'[p]]
           /\ call'[q] = NoCall
           /\ \A p \in Calls : p # q =>
                \/ call'[p] = call[p] /\ ~ (call[p].op = "status" /\ call[p].name \in names)
                \/ /\ call[p].op = "status" /\ call[p].name \in names
                   /\ call'[p] = [call[p] EXCEPT !.overtaken = TRUE]
BY DEF AccountsType, Finish

LEMMA EndedOk ==
    ASSUME NEW q \in Calls, call'[q] = NoCall
    PROVE  CallOk(call[q])'
BY DEF CallOk, NoCall

(* A change of columns overtakes the changes of status that read them.      *)
LEMMA ChangedCalls ==
    ASSUME AccountsType, NEW q \in Calls, NEW n, Changes(n), Finish(q, {n}),
           NEW p \in Calls, p # q, CallOk(call[p])
    PROVE  CallOk(call[p])'
<1>1. Taken' = Taken /\ Known' = Known
  BY ChangesKeep
<1>2. CASE call'[p] = call[p] /\ ~ (call[p].op = "status" /\ call[p].name \in {n})
  <2>1. call[p].op = "status" => rows'[call[p].name] = rows[call[p].name]
    BY <1>2 DEF CallOk, Changes, Taken
  <2> QED
    BY <1>1, <1>2, <2>1 DEF CallOk, MadeOk, Leads
<1>3. CASE /\ call[p].op = "status" /\ call[p].name \in {n}
           /\ call'[p] = [call[p] EXCEPT !.overtaken = TRUE]
  <2>1. call'[p] = [op |-> "status", name |-> call[p].name, to |-> call[p].to,
                    overtaken |-> TRUE, status |-> call[p].status,
                    is_active |-> call[p].is_active]
    BY <1>3 DEF CallOk
  <2> QED
    BY <1>1, <1>3, <2>1 DEF CallOk
<1> QED
  BY <1>2, <1>3, Finished

(* What was read of a row that was there is there.                          *)
LEMMA GrownCalls ==
    ASSUME AccountsType, NEW p \in Calls, call'[p] = call[p], CallOk(call[p]),
           Taken \subseteq Taken', \A m \in Taken : rows'[m] = rows[m],
           call[p].op = "import" => MadeOk(call[p].made)'
    PROVE  CallOk(call[p])'
BY DEF CallOk

(* A request that begins changes nothing yet.                               *)
LEMMA Began ==
    ASSUME AccountsInv, NEW q \in Calls, NEW c, Begin(q, c), CallOk(c)
    PROVE  AccountsInv'
<1>1. /\ call' = [p \in Calls |-> call'[p]] /\ UNCHANGED <<rows, slipped, twins>>
      /\ \A p \in Calls : call'[p] = c \/ call'[p] = call[p]
  BY DEF Begin, AccountsInv, AccountsType
<1>2. Taken' = Taken /\ Known' = Known
  BY <1>1 DEF Taken, Known
<1>3. ASSUME NEW p \in Calls PROVE CallOk(call[p])'
  <2>1. CASE call'[p] = c
    BY <1>1, <1>2, <2>1 DEF CallOk, MadeOk, Leads
  <2>2. CASE call'[p] = call[p]
    BY <1>1, <1>2, <2>2 DEF AccountsInv, CallOk, MadeOk, Leads
  <2> QED
    BY <1>1, <2>1, <2>2
<1>4. AccountsType'
  BY <1>1 DEF AccountsInv, AccountsType
<1>5. (\A n \in Taken : RowOk(n))' /\ OnePersonOnce'
  BY <1>1, <1>2 DEF AccountsInv, RowOk, OnePersonOnce
<1> QED
  BY <1>3, <1>4, <1>5 DEF AccountsInv

-----------------------------------------------------------------------------
(* The usernames of an import *)

(* A finite set of numbers is counted from 1 on, the smaller ones first.    *)
LEMMA Ranks ==
    ASSUME NEW S \in SUBSET Nat, IsFiniteSet(S)
    PROVE  /\ \A x \in S : Rank(S, x) \in 1..Cardinality(S)
           /\ \A x, y \in S : x < y => Rank(S, x) < Rank(S, y)
           /\ \A k \in 1..Cardinality(S) : \E x \in S : Rank(S, x) = k
<1> DEFINE below(x) == {y \in S : y <= x}
           f == [x \in S |-> Rank(S, x)]
           I == 1..Cardinality(S)
<1>0. Cardinality(S) \in Nat
  BY FS_CardinalityType
<1>1. ASSUME NEW x \in S
      PROVE  /\ IsFiniteSet(below(x)) /\ Rank(S, x) = Cardinality(below(x))
             /\ x \in Nat /\ Rank(S, x) \in Nat /\ Rank(S, x) \in I
  <2>1. below(x) \subseteq S /\ x \in below(x)
    OBVIOUS
  <2>2. /\ IsFiniteSet(below(x)) /\ Cardinality(below(x)) <= Cardinality(S)
        /\ Cardinality(below(x)) \in Nat
    BY <2>1, FS_Subset, FS_CardinalityType
  <2>3. Cardinality(below(x)) # 0
    BY <2>1, <2>2, FS_EmptySet
  <2> QED
    BY <1>0, <2>2, <2>3 DEF Rank
<1>2. ASSUME NEW x \in S, NEW y \in S, x < y
      PROVE  Rank(S, x) < Rank(S, y)
  <2>0. x \in Nat /\ y \in Nat /\ \A z \in S : z \in Nat
    BY <1>1
  <2>1. below(x) \subseteq below(y) /\ y \in below(y) /\ y \notin below(x)
    <3>1. ASSUME NEW z \in S, z <= x PROVE z <= y
      <4>1. z \in Nat
        BY <2>0
      <4> QED
        BY <1>2, <2>0, <3>1, <4>1
    <3>2. y <= y /\ ~(y <= x)
      BY <1>2, <2>0
    <3> QED
      BY <3>1, <3>2
  <2>2. /\ Cardinality(below(x)) <= Cardinality(below(y))
        /\ Cardinality(below(x)) # Cardinality(below(y))
    BY <1>1, <2>1, FS_Subset
  <2>3. /\ Rank(S, x) \in Nat /\ Rank(S, y) \in Nat
        /\ Rank(S, x) <= Rank(S, y) /\ Rank(S, x) # Rank(S, y)
    BY <1>1, <2>2
  <2> QED
    BY <2>3
<1>3. f \in Injection(S, I)
  <2>1. f \in [S -> I]
    BY <1>1
  <2>2. ASSUME NEW x \in S, NEW y \in S, f[x] = f[y] PROVE x = y
    <3>1. Rank(S, x) = Rank(S, y)
      BY <2>2
    <3>2. x < y \/ y < x \/ x = y
      BY <1>1
    <3>3. Rank(S, x) \in Nat /\ Rank(S, y) \in Nat
      BY <1>1
    <3>4. CASE x < y
      BY <1>2, <3>1, <3>3, <3>4
    <3>5. CASE y < x
      BY <1>2, <3>1, <3>3, <3>5
    <3> QED
      BY <3>2, <3>4, <3>5
  <2> QED
    BY <2>1, <2>2 DEF Injection, IsInjective
<1>4. IsFiniteSet(I) /\ Cardinality(I) = Cardinality(S)
  BY <1>0, FS_Interval
<1>5. f \in Surjection(S, I)
  BY <1>3, <1>4, FS_Injection
<1>6. \A k \in I : \E x \in S : f[x] = k
  BY <1>5 DEF Surjection
<1> QED
  BY <1>1, <1>2, <1>6

(* The rows about persons who are not known have as many usernames, which   *)
(* are unused, and one of them is the first that is.                        *)
LEMMA ImportLeads ==
    ASSUME NEW file \in Files, Newcomers(file) # {},
           Cardinality(Newcomers(file)) <= Cardinality(Unused)
    PROVE  MadeOk(Made(file))
<1> DEFINE rowsOf == Newcomers(file)
           N == Cardinality(rowsOf)
           made == Made(file)
<1>0. /\ file \in Seq(Persons) /\ DOMAIN file = 1..Len(file) /\ Len(file) \in Nat
      /\ \A i \in DOMAIN file : file[i] \in Persons
  <2>1. file \in Seq(Persons)
    OBVIOUS
  <2> QED
    BY <2>1, LenProperties, ElementOfSeq
<1>1. Unused \in SUBSET Nat /\ IsFiniteSet(Unused) /\ Unused \subseteq Names
  <2>1. IsFiniteSet(Names) /\ Names \subseteq Nat
    BY FS_Interval DEF Names
  <2> QED
    BY <2>1, FS_Subset DEF Unused
<1>2. rowsOf \in SUBSET Nat /\ IsFiniteSet(rowsOf) /\ rowsOf \subseteq DOMAIN file
  <2>1. rowsOf \subseteq 1..Len(file) /\ IsFiniteSet(1..Len(file))
    BY <1>0, FS_Interval DEF Newcomers
  <2> QED
    BY <1>0, <2>1, FS_Subset
<1>3. N \in Nat /\ N # 0 /\ Cardinality(Unused) \in Nat
  BY <1>1, <1>2, FS_EmptySet, FS_CardinalityType
<1>4. DOMAIN made = {k \in Unused : Rank(Unused, k) <= N}
  BY DEF Made
<1>5. ASSUME NEW n \in DOMAIN made
      PROVE  made[n] \in Persons /\ made[n] \notin Known
  <2>1. n \in Unused /\ Rank(Unused, n) <= N
    BY <1>4
  <2>2. Rank(Unused, n) \in 1..N
    BY <1>1, <1>3, <2>1, Ranks
  <2>3. \E i \in rowsOf : Rank(rowsOf, i) = Rank(Unused, n)
    BY <1>2, <2>2, Ranks
  <2>4. made[n] = file[CHOOSE i \in rowsOf : Rank(rowsOf, i) = Rank(Unused, n)]
    BY <2>1 DEF Made
  <2>5. \E i \in rowsOf : made[n] = file[i]
    BY <2>3, <2>4
  <2> QED
    BY <1>0, <1>2, <2>5 DEF Newcomers
<1>6. PICK n \in Unused : Rank(Unused, n) = 1
  <2>1. 1 \in 1..Cardinality(Unused)
    BY <1>3
  <2> QED
    BY <1>1, <2>1, Ranks
<1>7. n \in DOMAIN made /\ n \in Names
  BY <1>1, <1>3, <1>4, <1>6
<1>8. ASSUME NEW k \in Names, k < n PROVE k \in Taken
  <2>1. ASSUME k \in Unused PROVE FALSE
    <3>1. Rank(Unused, k) < Rank(Unused, n) /\ Rank(Unused, k) \in 1..Cardinality(Unused)
      BY <1>1, <1>8, <2>1, Ranks
    <3> QED
      BY <1>3, <1>6, <3>1
  <2> QED
    BY <2>1 DEF Unused
<1>9. Leads(made)
  BY <1>5, <1>7, <1>8 DEF Leads
<1> QED
  BY <1>1, <1>4, <1>5, <1>9 DEF MadeOk

-----------------------------------------------------------------------------
(* The steps *)

(* The first import that commits takes the username that all others lead    *)
(* with: they fail, so who they found unknown does not come twice.          *)
LEMMA ImportCommits ==
    ASSUME AccountsInv, NEW q \in Calls, ImportCommit(q)
    PROVE  AccountsInv'
<1> DEFINE made == call[q].made
           both == {x \in (DOMAIN made) \X (DOMAIN made) : x[1] # x[2] /\ made[x[1]] = made[x[2]]}
<1>0. /\ AccountsType /\ Finish(q, {}) /\ UNCHANGED slipped /\ MadeOk(made)
  BY DEF AccountsInv, ImportCommit, CallOk
<1>1. /\ call' = [p \in Calls |-> call'[p]] /\ call'[q] = NoCall
      /\ \A p \in Calls : p # q => call'[p] = call[p]
  BY <1>0 DEF AccountsType, Finish
<1>2. ASSUME UNCHANGED <<rows, twins>> PROVE AccountsInv'
  <2>1. Taken' = Taken /\ Known' = Known
    BY <1>2 DEF Taken, Known
  <2>2. ASSUME NEW p \in Calls PROVE CallOk(call[p])'
    <3>1. CASE p = q
      BY <1>1, <3>1, EndedOk
    <3>2. CASE p # q
      BY <1>1, <1>2, <2>1, <3>2 DEF AccountsInv, CallOk, MadeOk, Leads
    <3> QED
      BY <3>1, <3>2
  <2>3. (\A n \in Taken : RowOk(n))' /\ OnePersonOnce' /\ AccountsType'
    BY <1>0, <1>1, <1>2, <2>1 DEF AccountsInv, RowOk, OnePersonOnce, AccountsType
  <2> QED
    BY <2>2, <2>3 DEF AccountsInv
<1>3. ASSUME /\ DOMAIN made \cap Taken = {}
             /\ rows' = [n \in Names |-> IF n \in DOMAIN made
                                         THEN NewAccount(made[n], "initial") ELSE rows[n]]
             /\ twins' = twins \cup both
      PROVE  AccountsInv'
  <2>1. ASSUME NEW n \in DOMAIN made
        PROVE  /\ n \in Names /\ rows'[n] \in Account /\ rows'[n].person = made[n]
               /\ rows'[n].status = "ACTIVE" /\ rows'[n].must_change = TRUE
    <3>1. n \in Names /\ made[n] \in Persons \cup {Nobody} /\ "initial" \in AnyPassword
      BY <1>0 DEF MadeOk, AnyPassword
    <3> DEFINE a == NewAccount(made[n], "initial")
    <3>2. /\ a \in Account /\ a.person = made[n]
          /\ a.status = "ACTIVE" /\ a.must_change = TRUE
      BY <3>1, NewIsAccount
    <3>3. rows'[n] = a
      BY <1>3, <3>1
    <3> HIDE DEF a
    <3> QED
      BY <3>1, <3>2, <3>3
  <2>2. \A n \in Names : n \notin DOMAIN made => rows'[n] = rows[n]
    BY <1>3
  <2>3. rows' \in [Names -> {NoRow} \cup Account]
    <3>1. \A n \in Names : rows'[n] \in {NoRow} \cup Account
      BY <1>0, <2>1, <2>2 DEF AccountsType
    <3>2. rows' = [n \in Names |-> rows'[n]]
      BY <1>3
    <3> QED
      BY <3>1, <3>2
  <2>4. /\ Taken' = Taken \cup DOMAIN made
        /\ \A m \in Taken : rows'[m] = rows[m] /\ m \notin DOMAIN made
    <3>1. \A m \in Taken : m \in Names /\ m \notin DOMAIN made
      BY <1>3 DEF Taken
    <3>2. \A m \in Taken : rows'[m] = rows[m]
      BY <2>2, <3>1
    <3>3. \A n \in DOMAIN made : n \in Names /\ rows'[n] # NoRow
      BY <2>1, AccountIsNot
    <3>4. \A n \in Names : n \in Taken' <=> n \in Taken \/ n \in DOMAIN made
      BY <2>2, <3>1, <3>2, <3>3 DEF Taken
    <3>5. Taken' \subseteq Names /\ Taken \subseteq Names
      BY DEF Taken
    <3> QED
      BY <3>1, <3>2, <3>3, <3>4, <3>5
  <2>5. PICK n1 \in DOMAIN made :
            /\ n1 \in Names /\ n1 \notin Taken
            /\ \A k \in Names : k < n1 => k \in Taken
            /\ \A k \in DOMAIN made : made[k] \notin Known
    BY <1>0, <1>3 DEF MadeOk, Leads
  <2>6. ASSUME NEW p \in Calls PROVE CallOk(call[p])'
    <3>1. CASE p = q
      BY <1>1, <3>1, EndedOk
    <3>2. CASE p # q
      <4>1. call'[p] = call[p] /\ CallOk(call[p])
        BY <1>1, <3>2 DEF AccountsInv
      <4>2. ASSUME call[p].op = "import" PROVE MadeOk(call[p].made)'
        <5>1. PICK n \in DOMAIN call[p].made : n \in Names /\ \A k \in Names : k < n => k \in Taken
          BY <4>1, <4>2 DEF CallOk, MadeOk, Leads
        <5>2. n \in Taken'
          <6>1. n \in Taken \/ n = n1
            BY <2>5, <5>1 DEF Names
          <6> QED
            BY <2>4, <6>1
        <5>3. \A k \in Names : k < n => k \in Taken'
          BY <2>4, <5>1
        <5> QED
          BY <4>1, <4>2, <5>1, <5>2, <5>3 DEF CallOk, MadeOk, Leads
      <4> QED
        BY <1>0, <2>4, <4>1, <4>2, GrownCalls
    <3> QED
      BY <3>1, <3>2
  <2>7. (\A n \in Taken : RowOk(n))'
    <3>1. ASSUME NEW n \in Taken' PROVE RowOk(n)'
      <4>1. CASE n \in Taken
        BY <1>0, <2>4, <4>1 DEF AccountsInv, RowOk
      <4>2. CASE n \in DOMAIN made
        BY <2>1, <4>2 DEF RowOk
      <4> QED
        BY <2>4, <4>1, <4>2
    <3> QED
      BY <3>1
  <2>8. OnePersonOnce'
    <3>1. ASSUME NEW m \in Taken', NEW n \in Taken', rows'[m].person = rows'[n].person,
                 rows'[m].person # Nobody, m # n
          PROVE  <<m, n>> \in twins'
      <4>1. CASE m \in Taken /\ n \in Taken
        BY <1>3, <2>4, <3>1, <4>1 DEF AccountsInv, OnePersonOnce
      <4>2. ASSUME NEW i \in Taken, NEW j \in DOMAIN made, rows'[i].person = rows'[j].person
            PROVE  FALSE
        <5>1. rows'[i].person \in Known
          BY <2>4 DEF Known
        <5>2. rows'[j].person = made[j]
          BY <2>1
        <5> QED
          BY <2>5, <4>2, <5>1, <5>2
      <4>3. CASE m \in DOMAIN made /\ n \in DOMAIN made
        <5>1. made[m] = made[n]
          BY <2>1, <3>1, <4>3
        <5> QED
          BY <1>3, <3>1, <4>3, <5>1
      <4> QED
        BY <2>4, <3>1, <4>1, <4>2, <4>3
    <3> QED
      BY <3>1 DEF OnePersonOnce
  <2> QED
    BY <1>1, <2>3, <2>6, <2>7, <2>8 DEF AccountsInv, AccountsType
<1>4. CASE DOMAIN made \cap Taken # {}
  BY <1>2, <1>4 DEF ImportCommit
<1>5. CASE DOMAIN made \cap Taken = {}
  BY <1>3, <1>5 DEF ImportCommit
<1> QED
  BY <1>4, <1>5

(* What the administrator makes is nobody's whom an import could bring.     *)
LEMMA CreateCommits ==
    ASSUME AccountsInv, NEW q \in Calls, CreateCommit(q)
    PROVE  AccountsInv'
<1> DEFINE n == call[q].name
           a == NewAccount(Nobody, "strong")
<1>0. AccountsType /\ Finish(q, {}) /\ UNCHANGED <<slipped, twins>> /\ n \in Names
  BY DEF AccountsInv, CreateCommit, CallOk
<1>1. /\ call' = [p \in Calls |-> call'[p]] /\ call'[q] = NoCall
      /\ \A p \in Calls : p # q => call'[p] = call[p]
  BY <1>0 DEF AccountsType, Finish
<1>2. a \in Account /\ a.person = Nobody /\ a.status = "ACTIVE" /\ a.must_change = TRUE
  BY NewIsAccount DEF AnyPassword
<1>3. CASE n \in Taken
  <2>1. UNCHANGED rows
    BY <1>3 DEF CreateCommit
  <2>2. Taken' = Taken /\ Known' = Known
    BY <2>1 DEF Taken, Known
  <2>3. ASSUME NEW p \in Calls PROVE CallOk(call[p])'
    <3>1. CASE p = q
      BY <1>1, <3>1, EndedOk
    <3>2. CASE p # q
      BY <1>1, <2>1, <2>2, <3>2 DEF AccountsInv, CallOk, MadeOk, Leads
    <3> QED
      BY <3>1, <3>2
  <2>4. (\A m \in Taken : RowOk(m))' /\ OnePersonOnce' /\ AccountsType'
    BY <1>0, <1>1, <2>1, <2>2 DEF AccountsInv, RowOk, OnePersonOnce, AccountsType
  <2> QED
    BY <2>3, <2>4 DEF AccountsInv
<1>4. CASE n \notin Taken
  <2>0. rows' = [rows EXCEPT ![n] = a]
    BY <1>4 DEF CreateCommit
  <2> HIDE DEF a
  <2>1. /\ rows' \in [Names -> {NoRow} \cup Account] /\ rows'[n] = a
        /\ \A m \in Names : m # n => rows'[m] = rows[m]
    BY <1>0, <1>2, <2>0 DEF AccountsType
  <2>2. /\ Taken' = Taken \cup {n} /\ \A m \in Taken : rows'[m] = rows[m] /\ m # n
    BY <1>0, <1>2, <1>4, <2>1, AccountIsNot DEF Taken
  <2>3. Known' \subseteq Known \cup {Nobody}
    BY <1>2, <2>1, <2>2 DEF Known
  <2>4. ASSUME NEW p \in Calls PROVE CallOk(call[p])'
    <3>1. CASE p = q
      BY <1>1, <3>1, EndedOk
    <3>2. CASE p # q
      <4>1. call'[p] = call[p] /\ CallOk(call[p])
        BY <1>1, <3>2 DEF AccountsInv
      <4>2. ASSUME call[p].op = "import" PROVE MadeOk(call[p].made)'
        <5> DEFINE made == call[p].made
        <5>1. DOMAIN made \subseteq Names /\ \A k \in DOMAIN made : made[k] \in Persons
          BY <4>1, <4>2 DEF CallOk, MadeOk
        <5>2. PICK k \in DOMAIN made :
                    /\ k \in Names /\ \A j \in Names : j < k => j \in Taken
                    /\ k \notin Taken => \A j \in DOMAIN made : made[j] \notin Known
          BY <4>1, <4>2 DEF CallOk, MadeOk, Leads
        <5>3. k \notin Taken' => \A j \in DOMAIN made : made[j] \notin Known'
          BY <2>2, <2>3, <5>1, <5>2
        <5> QED
          BY <2>2, <4>1, <5>1, <5>2, <5>3 DEF MadeOk, Leads
      <4> QED
        BY <1>0, <2>2, <4>1, <4>2, GrownCalls
    <3> QED
      BY <3>1, <3>2
  <2>5. (\A m \in Taken : RowOk(m))'
    BY <1>0, <1>2, <2>1, <2>2 DEF AccountsInv, RowOk
  <2>6. OnePersonOnce'
    BY <1>0, <1>2, <2>1, <2>2 DEF AccountsInv, OnePersonOnce
  <2> QED
    BY <1>1, <2>1, <2>4, <2>5, <2>6 DEF AccountsInv, AccountsType
<1> QED
  BY <1>3, <1>4

(* The changes of columns, from what they leave in their row.               *)
LEMMA Changed ==
    ASSUME AccountsInv, NEW q \in Calls, NEW n, Changes(n), Finish(q, {n}), RowOk(n)',
           \A m : m # n => (m \in slipped <=> m \in slipped')
    PROVE  AccountsInv'
<1>0. AccountsType
  BY DEF AccountsInv
<1>1. Taken' = Taken /\ OnePersonOnce'
  BY <1>0, ChangesKeep DEF AccountsInv
<1>2. call' = [p \in Calls |-> call'[p]] /\ call'[q] = NoCall
  BY <1>0, Finished
<1>3. ASSUME NEW p \in Calls PROVE CallOk(call[p])'
  <2>1. CASE p = q
    BY <1>2, <2>1, EndedOk
  <2>2. CASE p # q
    BY <1>0, <2>2, ChangedCalls DEF AccountsInv
  <2> QED
    BY <2>1, <2>2
<1>4. ASSUME NEW m \in Taken PROVE RowOk(m)'
  <2>1. CASE m = n
    BY <2>1
  <2>2. CASE m # n
    BY <2>2 DEF AccountsInv, RowOk, Changes, Taken
  <2> QED
    BY <2>1, <2>2
<1> QED
  BY <1>1, <1>2, <1>3, <1>4 DEF AccountsInv, AccountsType, Changes

LEMMA StatusCommits ==
    ASSUME AccountsInv, NEW q \in Calls, StatusCommit(q)
    PROVE  AccountsInv'
<1>a. PICK r, n : r = call[q] /\ n = r.name
  OBVIOUS
<1> DEFINE statusChanges == r.status # r.to
           activeChanges == r.is_active # ActiveIn(r.to)
           status == IF statusChanges THEN r.to ELSE rows[n].status
           isOn == IF activeChanges THEN ActiveIn(r.to) ELSE rows[n].is_active
<1>0. /\ AccountsType /\ Finish(q, {n}) /\ CallOk(r) /\ r.op = "status"
      /\ n \in Taken /\ n \in Names /\ rows[n] \in Account /\ RowOk(n)
  <2>1. /\ AccountsType /\ Finish(q, {n}) /\ CallOk(r) /\ r.op = "status" /\ n \in Taken
    BY <1>a DEF AccountsInv, StatusCommit, CallOk
  <2> QED
    BY <2>1, TakenRows DEF AccountsInv, Taken
<1>1. /\ r.to \in Statuses /\ r.status \in Statuses /\ r.is_active \in BOOLEAN
      /\ r.overtaken \in BOOLEAN
      /\ ~ r.overtaken => r.status = rows[n].status /\ r.is_active = rows[n].is_active
      /\ ActiveIn(r.to) \in BOOLEAN
  <2>1. ActiveIn(r.to) \in BOOLEAN
    BY DEF ActiveIn
  <2> QED
    BY <1>a, <1>0, <2>1 DEF CallOk
<1>2. /\ rows' = [rows EXCEPT ![n].status = status, ![n].is_active = isOn]
      /\ slipped' = IF r.overtaken /\ ~(statusChanges /\ activeChanges)
                    THEN slipped \cup {n} ELSE slipped \ {n}
  BY <1>a DEF StatusCommit
<1>3. status \in Statuses /\ isOn \in BOOLEAN
  BY <1>0, <1>1 DEF Account
<1>4. n \in slipped' \/ ((isOn <=> ActiveIn(r.to)) /\ status = r.to)
  <2>1. CASE statusChanges /\ activeChanges
    BY <2>1
  <2>2. CASE r.overtaken /\ ~ (statusChanges /\ activeChanges)
    <3>1. slipped' = slipped \cup {n}
      BY <1>1, <1>2, <2>2
    <3> QED
      BY <3>1
  <2>3. CASE ~ r.overtaken
    <3>1. status = r.to
      BY <1>1, <2>3
    <3>2. isOn <=> ActiveIn(r.to)
      BY <1>1, <2>3
    <3> QED
      BY <3>1, <3>2
  <2> QED
    BY <1>1, <2>1, <2>2, <2>3
<1> HIDE DEF status, isOn, statusChanges, activeChanges
<1>5. rows'[n] = [rows[n] EXCEPT !.status = status, !.is_active = isOn]
  BY <1>0, <1>2 DEF AccountsType
<1>6. /\ rows'[n] \in Account /\ rows'[n].person = rows[n].person
      /\ rows'[n].status = status /\ rows'[n].is_active = isOn
      /\ rows'[n].password = rows[n].password /\ rows'[n].must_change = rows[n].must_change
  BY <1>0, <1>3, <1>5 DEF Account
<1>7. Changes(n)
  BY <1>0, <1>2, <1>6 DEF Changes, AccountsType, StatusCommit
<1>8. RowOk(n)'
  BY <1>0, <1>4, <1>6 DEF RowOk, ActiveIn
<1> QED
  BY <1>0, <1>2, <1>7, <1>8, Changed

LEMMA UserCommits ==
    ASSUME AccountsInv, NEW q \in Calls, UserCommit(q)
    PROVE  AccountsInv'
<1>a. PICK r, n : r = call[q] /\ n = r.name
  OBVIOUS
<1> DEFINE isOn == IF r.is_active # r.to THEN r.to ELSE rows[n].is_active
<1>0. /\ AccountsType /\ Finish(q, {n}) /\ r.to \in BOOLEAN
      /\ n \in Taken /\ n \in Names /\ rows[n] \in Account /\ RowOk(n)
  <2>1. AccountsType /\ Finish(q, {n}) /\ n \in Taken /\ r.to \in BOOLEAN
    BY <1>a DEF AccountsInv, UserCommit, CallOk
  <2> QED
    BY <2>1, TakenRows DEF AccountsInv, Taken
<1>1. /\ rows' = [rows EXCEPT ![n].is_active = isOn]
      /\ slipped' = IF r.is_active # r.to /\ r.to THEN slipped \cup {n} ELSE slipped
      /\ isOn \in BOOLEAN
  <2>1. CASE r.is_active # r.to
    BY <1>a, <1>0, <2>1 DEF UserCommit
  <2>2. CASE r.is_active = r.to
    <3>1. rows' = rows /\ slipped' = slipped /\ isOn = rows[n].is_active
      BY <1>a, <2>2 DEF UserCommit
    <3>2. rows = [rows EXCEPT ![n].is_active = rows[n].is_active] /\ rows[n].is_active \in BOOLEAN
      BY <1>0 DEF AccountsType, Account
    <3> QED
      BY <2>2, <3>1, <3>2
  <2> QED
    BY <2>1, <2>2
<1>2. isOn = rows[n].is_active \/ n \in slipped' \/ isOn = FALSE
  BY <1>0, <1>1
<1> HIDE DEF isOn
<1>3. rows'[n] = [rows[n] EXCEPT !.is_active = isOn]
  BY <1>0, <1>1 DEF AccountsType
<1>4. /\ rows'[n] \in Account /\ rows'[n].person = rows[n].person
      /\ rows'[n].status = rows[n].status /\ rows'[n].is_active = isOn
      /\ rows'[n].password = rows[n].password /\ rows'[n].must_change = rows[n].must_change
  BY <1>0, <1>1, <1>3 DEF Account
<1>5. Changes(n)
  BY <1>0, <1>1, <1>4 DEF Changes, AccountsType, UserCommit
<1>6. RowOk(n)'
  BY <1>0, <1>1, <1>2, <1>4 DEF RowOk
<1> QED
  BY <1>0, <1>1, <1>5, <1>6, Changed

LEMMA PasswordCommits ==
    ASSUME AccountsInv, NEW q \in Calls, PasswordCommit(q)
    PROVE  AccountsInv'
<1>a. PICK r, n : r = call[q] /\ n = r.name
  OBVIOUS
<1>0. /\ AccountsType /\ Finish(q, {n}) /\ r.new = "strong" /\ UNCHANGED slipped
      /\ n \in Taken /\ n \in Names /\ rows[n] \in Account /\ RowOk(n)
  <2>1. /\ AccountsType /\ Finish(q, {n}) /\ n \in Taken /\ r.new = "strong"
        /\ UNCHANGED slipped
    BY <1>a DEF AccountsInv, PasswordCommit, CallOk, Strong
  <2> QED
    BY <2>1, TakenRows DEF AccountsInv, Taken
<1>1. rows' = [rows EXCEPT ![n].password = "strong", ![n].must_change = FALSE]
  BY <1>a, <1>0 DEF PasswordCommit
<1>2. rows'[n] = [rows[n] EXCEPT !.password = "strong", !.must_change = FALSE]
  BY <1>0, <1>1 DEF AccountsType
<1>3. /\ rows'[n] \in Account /\ rows'[n].person = rows[n].person
      /\ rows'[n].status = rows[n].status /\ rows'[n].is_active = rows[n].is_active
      /\ rows'[n].password = "strong"
  BY <1>0, <1>2 DEF Account, AnyPassword
<1>4. Changes(n)
  BY <1>0, <1>1, <1>3 DEF Changes, AccountsType, PasswordCommit
<1>5. RowOk(n)'
  BY <1>0, <1>3 DEF RowOk
<1> QED
  BY <1>0, <1>4, <1>5, Changed

(* Requests begin with what they found in their snapshot.                   *)
LEMMA CallsBegin ==
    ASSUME AccountsInv, NEW q \in Calls
    PROVE  /\ \A file \in Files : ImportBegin(q, file) => AccountsInv'
           /\ \A n \in Names : CreateBegin(q, n) => AccountsInv'
           /\ \A n \in Names, to \in Statuses : StatusBegin(q, n, to) => AccountsInv'
           /\ \A n \in Names, isOn \in BOOLEAN : UserBegin(q, n, isOn) => AccountsInv'
           /\ \A n \in Names, new \in AnyPassword : PasswordBegin(q, n, new) => AccountsInv'
<1>1. ASSUME NEW file \in Files, ImportBegin(q, file) PROVE AccountsInv'
  <2> DEFINE c == [op |-> "import", made |-> Made(file)]
  <2>1. Begin(q, c) /\ CallOk(c)
    BY <1>1, ImportLeads DEF ImportBegin, CallOk
  <2> QED
    BY <2>1, Began
<1>2. ASSUME NEW n \in Names, CreateBegin(q, n) PROVE AccountsInv'
  <2> DEFINE c == [op |-> "create", name |-> n]
  <2>1. Begin(q, c) /\ CallOk(c)
    BY <1>2 DEF CreateBegin, CallOk
  <2> QED
    BY <2>1, Began
<1>3. ASSUME NEW n \in Names, NEW to \in Statuses, StatusBegin(q, n, to) PROVE AccountsInv'
  <2> DEFINE c == [op |-> "status", name |-> n, to |-> to, overtaken |-> FALSE,
                   status |-> rows[n].status, is_active |-> rows[n].is_active]
  <2>1. n \in Taken /\ rows[n] \in Account
    BY <1>3, TakenRows DEF StatusBegin, AccountsInv
  <2>2. Begin(q, c)
    BY <1>3 DEF StatusBegin
  <2>3. CallOk(c)
    BY <2>1 DEF CallOk, Account
  <2> QED
    BY <2>2, <2>3, Began
<1>4. ASSUME NEW n \in Names, NEW isOn \in BOOLEAN, UserBegin(q, n, isOn) PROVE AccountsInv'
  <2> DEFINE c == [op |-> "user", name |-> n, to |-> isOn, is_active |-> rows[n].is_active]
  <2>1. Begin(q, c) /\ CallOk(c)
    BY <1>4 DEF UserBegin, CallOk
  <2> QED
    BY <2>1, Began
<1>5. ASSUME NEW n \in Names, NEW new \in AnyPassword, PasswordBegin(q, n, new) PROVE AccountsInv'
  <2> DEFINE c == [op |-> "password", name |-> n, new |-> new]
  <2>1. Begin(q, c) /\ CallOk(c)
    BY <1>5 DEF PasswordBegin, CallOk, Enabled
  <2> QED
    BY <2>1, Began
<1> QED
  BY <1>1, <1>2, <1>3, <1>4, <1>5

LEMMA AccountsStep ==
    ASSUME AccountsInv, [AccountsNext]_accountVars
    PROVE  AccountsInv'
<1>1. CASE UNCHANGED accountVars
  <2>1. UNCHANGED <<rows, call, slipped, twins>>
    BY <1>1 DEF accountVars
  <2>2. Taken' = Taken /\ Known' = Known
    BY <2>1 DEF Taken, Known
  <2>3. \A p \in Calls : CallOk(call[p])'
    BY <2>1, <2>2 DEF AccountsInv, CallOk, MadeOk, Leads
  <2>4. (\A n \in Taken : RowOk(n))' /\ OnePersonOnce' /\ AccountsType'
    BY <2>1, <2>2 DEF AccountsInv, RowOk, OnePersonOnce, AccountsType
  <2> QED
    BY <2>3, <2>4 DEF AccountsInv
<1>2. CASE AccountsNext
  <2>1. PICK q \in Calls :
            \/ \E file \in Files : ImportBegin(q, file)
            \/ \E n \in Names : CreateBegin(q, n)
            \/ \E n \in Names, to \in Statuses : StatusBegin(q, n, to)
            \/ \E n \in Names, isOn \in BOOLEAN : UserBegin(q, n, isOn)
            \/ \E n \in Names, new \in AnyPassword : PasswordBegin(q, n, new)
            \/ ImportCommit(q) \/ CreateCommit(q)
            \/ StatusCommit(q) \/ UserCommit(q) \/ PasswordCommit(q)
    BY <1>2 DEF AccountsNext
  <2> QED
    BY <2>1, CallsBegin, ImportCommits, CreateCommits, StatusCommits, UserCommits, PasswordCommits
<1> QED
  BY <1>1, <1>2

LEMMA AccountsBegin == AccountsInit => AccountsInv
<1> SUFFICES ASSUME AccountsInit PROVE AccountsInv
  OBVIOUS
<1>1. Taken = {}
  BY DEF AccountsInit, Taken
<1>2. \A q \in Calls : CallOk(call[q])
  BY DEF AccountsInit, CallOk, NoCall
<1>3. AccountsType
  BY DEF AccountsInit, AccountsType
<1> QED
  BY <1>1, <1>2, <1>3 DEF AccountsInv, OnePersonOnce

LEMMA AccountsMean == AccountsInv => AccountsHold
<1> SUFFICES ASSUME AccountsInv PROVE AccountsHold
  OBVIOUS
<1>1. OnePersonOnce
  BY DEF AccountsInv
<1>2. ASSUME NEW n \in Taken, Admitted(n)
      PROVE  /\ rows[n].status # "ACTIVE" => n \in slipped
             /\ rows[n].password # "initial"
  BY <1>2 DEF AccountsInv, RowOk, Admitted, Enabled
<1> QED
  BY <1>1, <1>2 DEF AccountsHold, WhoGetsIn, LockedOut, InitialPasswordGone

(* However imports and the two pages overlap, nobody becomes an expert      *)
(* twice but by being listed twice in one file, who is not ACTIVE is let in *)
(* by someone's doing only, and nobody gets in with the password of an      *)
(* import: for any files, and any number of usernames and of requests in    *)
(* flight.                                                                  *)
THEOREM AccountsHoldAlways == AccountsSpec => []AccountsHold
<1>1. AccountsInv /\ [AccountsNext]_accountVars => AccountsInv'
  BY AccountsStep
<1> QED
  BY AccountsBegin, AccountsMean, <1>1, PTL DEF AccountsSpec
=============================================================================
