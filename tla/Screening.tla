------------------------------ MODULE Screening ------------------------------
(***************************************************************************)
(* Screening a lot for collusion, by the settings of the moment:           *)
(* close_bidding lets a lot with a low score pass, confirm_prescreen looks *)
(* closer at the others and holds those of high risk.  The scores follow   *)
(* from what the bids and the graph say (facts), the settings from         *)
(* config_service: a table, and a cache in the process that every update   *)
(* writes first and every reload writes over.                              *)
(*                                                                         *)
(* Bids, locks and races on the status of the lot are in BidLifecycle;     *)
(* one manager screens here, while administrators change the settings.     *)
(***************************************************************************)
EXTENDS Integers, FiniteSets, FiniteSetsExt, SequencesExt

CONSTANTS
    Lots,
    FactSets,       \* what the checks of a lot can find
    Requests,       \* requests that can be in flight together
    Keys,           \* the settings
    Defaults,       \* [Keys -> Nat], _DEFAULTS
    Allowed,        \* [Keys -> SUBSET Nat], _VALUE_RANGES
    Updates,        \* batches of items <<key, value>> that are asked for
    Absent          \* no row, no entry

Findings == [same : Nat, affiliate : Nat, together : Nat,   \* relations between the bidders
             cluster : BOOLEAN, ring : BOOLEAN,             \* patterns of the prices
             pairs : Seq(Nat)]                              \* similar passages, per pair of bids

(* The last two lines are what makes the defaults safe: a shared           *)
(* controller alone is over the threshold of the quick checks; the graph   *)
(* and one pattern of prices are not over the middle of the closer ones.   *)
ScreeningAssumption ==
    /\ {"auto", "critical", "text", "graph", "price", "pairs"} \subseteq Keys
    /\ FactSets \subseteq Findings
    /\ Defaults \in [Keys -> Nat]
    /\ \A k \in Keys : Defaults[k] \in Allowed[k]
    /\ Updates \subseteq Seq(Keys \X Nat)
    /\ Absent \notin Nat
    /\ Defaults["auto"] < 30
    /\ 100 * Defaults["graph"] + 40 * Defaults["price"] <= 50 * (Defaults["auto"] + Defaults["critical"])

VARIABLES
    table,          \* system_config
    cache,          \* _cache of the process
    facts,          \* what is so of every lot
    status,         \* lot.status
    req,            \* requests in flight
    doubtful,       \* history: keys whose entry need not be that of the row
    passed          \* history: <<lot, how, sound>> of every release

vars == <<table, cache, facts, status, req, doubtful, passed>>

Idle == [op |-> "idle"]

Init ==
    /\ table = [k \in Keys |-> Absent]
    /\ cache = [k \in Keys |-> Absent]
    /\ facts \in [Lots -> FactSets]
    /\ status = [l \in Lots |-> "BIDDING"]
    /\ req = [r \in Requests |-> Idle]
    /\ doubtful = {}
    /\ passed = {}

Ask(r, q) == req[r] = Idle /\ req' = [req EXCEPT ![r] = q]
Proceed(r, q) == req' = [req EXCEPT ![r] = q]
End(r) == Proceed(r, Idle)

-----------------------------------------------------------------------------
(* get_sync                                                                *)
Shown(entries) == [k \in Keys |-> IF entries[k] = Absent THEN Defaults[k] ELSE entries[k]]
Setting(k) == Shown(cache)[k]

Usual(ks) == \A k \in ks : Setting(k) = Defaults[k]

KeysOf(items) == {items[i][1] : i \in DOMAIN items}

(* The items before the first that _validate refuses.                      *)
Valid(item) == item[2] \in Allowed[item[1]]
Accepted(items) ==
    LET bad == SelectInSeq(items, LAMBDA item : ~Valid(item))
    IN  IF bad = 0 THEN items ELSE SubSeq(items, 1, bad - 1)

(* Of several items for a key the last one stays.                          *)
LastOf(items, k) == items[SelectLastInSeq(items, LAMBDA item : item[1] = k)][2]
Written(entries, items) ==
    [k \in Keys |-> IF k \in KeysOf(items) THEN LastOf(items, k) ELSE entries[k]]

(* Requests in flight that disturb op, an update or a reload of the keys.  *)
Disturb(op, ks) ==
    {r \in Requests : \/ req[r].op = "set" /\ KeysOf(req[r].items) \cap ks # {}
                      \/ req[r].op = "load" /\ op = "set"}
Disturbed(op, ks) ==
    [r \in Requests |-> IF r \in Disturb(op, ks) THEN [req[r] EXCEPT !.alone = FALSE] ELSE req[r]]
Undisturbed(op, ks) == Disturb(op, ks) = {}
Enter(r, q, ks) == req' = [Disturbed(q.op, ks) EXCEPT ![r] = q]
Refuse(ks) == req' = Disturbed("set", ks)

-----------------------------------------------------------------------------
(* set_configs: one item after the other is checked and put in the cache;  *)
(* one that is refused ends the request, the entries before it stay.       *)
SetConfigs(r, items) ==
    /\ req[r] = Idle
    /\ cache' = Written(cache, Accepted(items))
    /\ LET ks == KeysOf(Accepted(items))
       IN  IF Accepted(items) = items
           THEN /\ Enter(r, [op |-> "set", items |-> items, alone |-> Undisturbed("set", ks)], ks)
                /\ UNCHANGED doubtful
           ELSE Refuse(ks) /\ doubtful' = doubtful \cup ks
    /\ UNCHANGED <<table, facts, status, passed>>

(* Then the rows are written, in one transaction ...                       *)
CommitConfigs(r) ==
    /\ req[r].op = "set"
    /\ table' = Written(table, req[r].items)
    /\ doubtful' = IF req[r].alone THEN doubtful \ KeysOf(req[r].items)
                   ELSE doubtful \cup KeysOf(req[r].items)
    /\ End(r)
    /\ UNCHANGED <<cache, facts, status, passed>>

(* ... which may fail.  The entries stay.                                  *)
FailConfigs(r) ==
    /\ req[r].op = "set"
    /\ doubtful' = doubtful \cup KeysOf(req[r].items)
    /\ End(r)
    /\ UNCHANGED <<table, cache, facts, status, passed>>

(* load_all, when get_all finds the last one too old: the rows are read    *)
(* (a failure of which get_all ignores) ...                                *)
LoadAll(r) ==
    /\ req[r] = Idle
    /\ Enter(r, [op |-> "load", rows |-> table, alone |-> Undisturbed("load", Keys)], Keys)
    /\ UNCHANGED <<table, cache, facts, status, doubtful, passed>>

(* Mutant: only entries that are missing are read.                         *)
LoadedMissing(rows) ==
    [k \in Keys |-> IF cache[k] = Absent THEN rows[k] ELSE cache[k]]

(* ... and put in the cache, where an entry without a row stays.           *)
Loaded(rows) == [k \in Keys |-> IF rows[k] = Absent THEN cache[k] ELSE rows[k]]

ApplyLoad(r) ==
    /\ req[r].op = "load"
    /\ cache' = Loaded(req[r].rows)
    /\ doubtful' = LET rows == {k \in Keys : req[r].rows[k] # Absent}
                   IN  IF req[r].alone THEN doubtful \ rows ELSE doubtful \cup rows
    /\ End(r)
    /\ UNCHANGED <<table, facts, status, passed>>

(* The process starts anew (lifespan), with or without an answer of MySQL. *)
Restart(loads) ==
    /\ cache' = IF loads THEN table ELSE [k \in Keys |-> Absent]
    /\ doubtful' = IF loads THEN {} ELSE {k \in Keys : table[k] # Absent}
    /\ req' = [r \in Requests |-> Idle]
    /\ UNCHANGED <<table, facts, status, passed>>

-----------------------------------------------------------------------------
AtMost(cap, n) == IF n < cap THEN n ELSE cap
Capped(n) == AtMost(100, n)

(* _graph_check, _price_check, _vector_check                               *)
GraphScore(f) == Capped(30 * f.same + 20 * f.affiliate)
PriceScore(f) == IF f.cluster THEN 40 ELSE 0
VectorScore(f) == IF \E i \in DOMAIN f.pairs : f.pairs[i] >= Setting("pairs") THEN 40 ELSE 0

(* _deep_graph_check: the relations among the bidders, ten of them.        *)
Seen(f) ==
    {s \in [same : 0..f.same, affiliate : 0..f.affiliate, together : 0..f.together] :
        s.same + s.affiliate + s.together = AtMost(10, f.same + f.affiliate + f.together)}

Nothing == [same |-> 0, affiliate |-> 0, together |-> 0]

DeepGraphScore(s) == Capped(40 * s.same + 30 * s.affiliate + 15 * s.together)

(* _deep_price_check                                                       *)
DeepPriceScore(f) == Capped(40 * ((IF f.cluster THEN 1 ELSE 0) + (IF f.ring THEN 1 ELSE 0)))

(* deep_text_similarity: the similar passages of the pairs of bids that    *)
(* have enough of them.                                                    *)
DeepTextScore(f, enough) ==
    Capped(25 * MapThenSumSet(LAMBDA i : f.pairs[i], {i \in DOMAIN f.pairs : f.pairs[i] >= enough}))

(* The weighted sum, rounded to tenths, and risk_level                     *)
Tenths(hundredths) == (hundredths + 5) \div 10

RiskLevel(total, low, critical) ==
    IF total <= 10 * low THEN "LOW"
    ELSE IF total <= 5 * (low + critical) THEN "MEDIUM"
    ELSE IF total <= 10 * critical THEN "HIGH" ELSE "CRITICAL"

(* Mutant: only the sum counts.                                            *)
RiskBySum(f, s, text, of) ==
    RiskLevel(Tenths(of["text"] * text + of["graph"] * DeepGraphScore(s)
                        + of["price"] * DeepPriceScore(f)), of["auto"], of["critical"])

(* deep_detection: whoever shares a controller is at least of high risk.   *)
Risk(f, s, text, of) ==
    LET total == Tenths(of["text"] * text + of["graph"] * DeepGraphScore(s)
                            + of["price"] * DeepPriceScore(f))
        level == RiskLevel(total, of["auto"], of["critical"])
    IN  IF s.same > 0 /\ level # "CRITICAL" THEN "HIGH" ELSE level

Held == {"HIGH", "CRITICAL"}

-----------------------------------------------------------------------------
(* close_bidding: the three checks, each of which counts for nothing when  *)
(* its store does not answer ...                                           *)
CloseBidding(r, l, graph, vector) ==
    /\ status[l] = "BIDDING"
    /\ \A q \in Requests : req[q].op \notin {"close", "confirm"}
    /\ Ask(r, [op |-> "close", lot |-> l,
               score |-> (IF graph THEN GraphScore(facts[l]) ELSE 0) + PriceScore(facts[l])
                            + (IF vector THEN VectorScore(facts[l]) ELSE 0),
               sound |-> graph /\ vector /\ Usual({"pairs"})])
    /\ UNCHANGED <<table, cache, facts, status, doubtful, passed>>

(* ... and the decision, by the threshold of this moment.                  *)
Decide(r) ==
    /\ req[r].op = "close"
    /\ LET q == req[r]
           pass == q.score <= Setting("auto")
       IN  /\ status' = [status EXCEPT ![q.lot] = IF pass THEN "UNDER_REVIEW" ELSE "PRE_SCREEN"]
           /\ passed' = IF pass THEN passed \cup {<<q.lot, "auto", q.sound /\ Usual({"auto"})>>}
                        ELSE passed
    /\ End(r)
    /\ UNCHANGED <<table, cache, facts, doubtful>>

(* confirm_prescreen: the texts by the threshold of the beginning, the     *)
(* graph when it answers ...                                               *)
ConfirmPrescreen(r, l, graph) ==
    /\ status[l] = "PRE_SCREEN"
    /\ \A q \in Requests : req[q].op \notin {"close", "confirm"}
    /\ \E s \in IF graph THEN Seen(facts[l]) ELSE {Nothing} :
        Ask(r, [op |-> "confirm", lot |-> l, seen |-> s, sound |-> graph,
                text |-> DeepTextScore(facts[l], Setting("pairs"))])
    /\ UNCHANGED <<table, cache, facts, status, doubtful, passed>>

(* ... and the decision, by the weights and thresholds of this moment.     *)
Confirm(r) ==
    /\ req[r].op = "confirm"
    /\ LET q == req[r]
       IN  IF Risk(facts[q.lot], q.seen, q.text, Shown(cache)) \in Held
           THEN UNCHANGED <<status, passed>>
           ELSE /\ status' = [status EXCEPT ![q.lot] = "UNDER_REVIEW"]
                /\ passed' = passed \cup {<<q.lot, "confirmed", q.sound>>}
    /\ End(r)
    /\ UNCHANGED <<table, cache, facts, doubtful>>

-----------------------------------------------------------------------------
(* The endpoints.                                                          *)
PutConfig(r) == \E items \in Updates : SetConfigs(r, items)
PostCloseBidding(r) == \E l \in Lots, graph, vector \in BOOLEAN : CloseBidding(r, l, graph, vector)
PostConfirmPrescreen(r) == \E l \in Lots, graph \in BOOLEAN : ConfirmPrescreen(r, l, graph)

Next ==
    \/ \E r \in Requests :
        \/ PutConfig(r) \/ CommitConfigs(r) \/ FailConfigs(r)
        \/ LoadAll(r) \/ ApplyLoad(r)
        \/ PostCloseBidding(r) \/ Decide(r)
        \/ PostConfirmPrescreen(r) \/ Confirm(r)
    \/ \E loads \in BOOLEAN : Restart(loads)

Spec == Init /\ [][Next]_vars

-----------------------------------------------------------------------------
(* What the process goes by is what the table says, for every setting that *)
(* no update is being made of; unless an update of it was refused or       *)
(* failed half-way, or two of them, or one and a reload, overlapped, and   *)
(* no later update or reload has set that right.                           *)
CacheFollowsTable ==
    \A k \in Keys \ doubtful :
        (\A r \in Requests : req[r].op = "set" => k \notin KeysOf(req[r].items)) =>
            Setting(k) = Shown(table)[k]

(* What the quick checks let pass without a manager, the closer ones would *)
(* not have held: as long as the stores answered and the settings were the *)
(* usual ones.                                                             *)
QuickPassIsSafe ==
    \A l \in Lots : <<l, "auto", TRUE>> \in passed =>
        \A s \in Seen(facts[l]) :
            Risk(facts[l], s, DeepTextScore(facts[l], Defaults["pairs"]), Defaults) \notin Held

(* Bidders of one controller do not get past the manager, whatever the     *)
(* settings are changed to meanwhile; unless the graph did not answer, or  *)
(* has more relations between them than the check reads.                   *)
VetoHolds ==
    \A l \in Lots : <<l, "confirmed", TRUE>> \in passed =>
        LET f == facts[l] IN f.same = 0 \/ f.same + f.affiliate + f.together > 10

(* No check lets pass without a manager what must be held.                 *)
HeldWhenDue == QuickPassIsSafe /\ VetoHolds
=============================================================================
