------------------------------- MODULE Portal -------------------------------
(***************************************************************************)
(* The pages of a supplier and the blacklisting that takes them away: an   *)
(* account stands for the company of its display name, the market offers   *)
(* what the company may bid for, a change of the company's status goes     *)
(* through bids, account and notices, and the managers read these.         *)
(*                                                                         *)
(* The import makes an account with every company; here they are one       *)
(* element of Companies.  A bid is there or disqualified; its parsing and  *)
(* its sealing are BidLifecycle's, its reviews ReviewFlow's.  Every lot is *)
(* a project of its own.                                                   *)
(***************************************************************************)
EXTENDS Integers, FiniteSets

CONSTANTS
    Companies,
    Names,
    Lots,
    Managed,        \* those whose project has a managed_by
    Changes         \* changes of status in flight together

ASSUME PortalAssumption == IsFiniteSet(Companies) /\ Managed \subseteq Lots

VARIABLES
    name,       \* supplier.name, and users.display_name of its account
    company,    \* rows of supplier, Unknown before the import
    enabled,    \* users.is_active of the account
    lot,        \* whether the lot is BIDDING
    bid,        \* status of the company's bid for the lot
    upload,     \* the upload in flight
    change,     \* changes of status in flight, with what they read
    inbox,      \* the last notice about a company to the manager of a lot
    told,       \* history: lots told of the company since it was last cleared,
    silent,     \* companies whose blacklisting died between two notices,
    late,       \* bids that came between, and
    slipped     \* accounts left by a change that wrote half of what it meant

portalVars == <<name, company, enabled, lot, bid, upload, change, inbox, told, silent, late, slipped>>
history == <<told, silent, late>>

Unknown == [blacklisted |-> FALSE, status |-> "NONE"]
Known == {c \in Companies : company[c] # Unknown}
NoUpload == [op |-> "none"]
NoChange == [op |-> "idle"]

PortalInit ==
    /\ name \in [Companies -> Names]
    /\ company = [c \in Companies |-> Unknown]
    /\ enabled = [c \in Companies |-> FALSE]
    /\ lot = [l \in Lots |-> "BIDDING"]
    /\ bid = [c \in Companies |-> [l \in Lots |-> "none"]]
    /\ upload = NoUpload
    /\ change = [r \in Changes |-> NoChange]
    /\ inbox = [c \in Companies |-> [l \in Lots |-> "none"]]
    /\ told = [c \in Companies |-> {}]
    /\ silent = {}
    /\ late = {}
    /\ slipped = {}

(* import_suppliers: whoever is ACTIVE, with an account that is enabled.   *)
Import(c) ==
    /\ c \notin Known
    /\ company' = [company EXCEPT ![c] = [blacklisted |-> FALSE, status |-> "ACTIVE"]]
    /\ enabled' = [enabled EXCEPT ![c] = TRUE]
    /\ UNCHANGED <<name, lot, bid, upload, change, inbox, history, slipped>>

-----------------------------------------------------------------------------
(* What an account is shown *)

Namesakes(a) == {c \in Known : name[c] = name[a]}

(* resolve_me: nobody, unless the name is that of one company. *)
Me(a) == IF Cardinality(Namesakes(a)) = 1 THEN Namesakes(a) ELSE {}

HasBid(c, l) == bid[c][l] # "none"

(* Mutant: a disqualified bid is none, as in the count beside it.          *)
OfferedAnew(c) == {l \in Lots : lot[l] = "BIDDING" /\ bid[c][l] \notin {"SUBMITTED"}}

(* The market without the lots that say has_bid. *)
Offered(c) == {l \in Lots : lot[l] = "BIDDING" /\ ~HasBid(c, l)}

Market(a) == UNION {Offered(c) : c \in Me(a)}

BidsOf(c) == {l \in Lots : HasBid(c, l)}

MyBids(a) == {p \in Me(a) \X Lots : p[2] \in BidsOf(p[1])}

(* get_my_bid_detail: another company's bid is not found.                  *)
Opens(a, c, l) == HasBid(c, l) /\ c \in Me(a)

-----------------------------------------------------------------------------
(* Uploads *)

(* _resolve_supplier: an account that names the company may name a         *)
(* namesake, one that does not is as in resolve_me.                        *)
Bidder(a) == Namesakes(a)

Eligible(c) == ~company[c].blacklisted /\ company[c].status = "ACTIVE"

Accepted(c, l) == lot[l] = "BIDDING" /\ Eligible(c) /\ ~HasBid(c, l)

UploadBegin(c, l) ==
    /\ upload = NoUpload
    /\ c \in Known
    /\ Accepted(c, l)
    /\ upload' = [op |-> "upload", company |-> c, lot |-> l]
    /\ UNCHANGED <<name, company, enabled, lot, bid, change, inbox, history, slipped>>

(* By an account for itself or for a namesake, or by an administrator, who *)
(* names the company.                                                      *)
SupplierUploads(a, l) == enabled[a] /\ \E c \in Bidder(a) : UploadBegin(c, l)
AdminUploads(c, l) == UploadBegin(c, l)

Blacklisting(q) == q.op = "status" /\ q.want.blacklisted /\ ~q.was.blacklisted
Sending(q, c) == Blacklisting(q) /\ q.company = c /\ q.cascaded

(* History: a bid that the cascade has missed. *)
UploadCommit ==
    /\ upload # NoUpload
    /\ LET c == upload.company
           l == upload.lot
       IN  /\ bid' = [bid EXCEPT ![c][l] = "SUBMITTED"]
           /\ late' = IF company[c].blacklisted \/ \E r \in Changes : Sending(change[r], c)
                      THEN late \cup {<<c, l>>} ELSE late
    /\ upload' = NoUpload
    /\ UNCHANGED <<name, company, enabled, lot, change, inbox, told, silent, slipped>>

UploadFails ==
    /\ upload # NoUpload
    /\ upload' = NoUpload
    /\ UNCHANGED <<name, company, enabled, lot, bid, change, inbox, history, slipped>>

-----------------------------------------------------------------------------
(* A cascade that is not committed keeps its rows locked. *)
LockedBy(q, c, l) == Sending(q, c) /\ ~q.wrote /\ l \in q.hit
Free(c, l) == \A r \in Changes : ~LockedBy(change[r], c, l)

Close(l) ==
    /\ lot[l] = "BIDDING"
    /\ lot' = [lot EXCEPT ![l] = "CLOSED"]
    /\ UNCHANGED <<name, company, enabled, bid, upload, change, inbox, history, slipped>>

(* History: a bid that a blacklisting in flight neither reads nor finds.   *)
Disqualify(c, l) ==
    /\ lot[l] = "CLOSED"
    /\ bid[c][l] = "SUBMITTED"
    /\ Free(c, l)
    /\ bid' = [bid EXCEPT ![c][l] = "DISQUALIFIED"]
    /\ late' = IF \E r \in Changes : /\ Blacklisting(change[r]) /\ ~change[r].cascaded
                                      /\ change[r].company = c /\ l \notin change[r].bids
               THEN late \cup {<<c, l>>} ELSE late
    /\ UNCHANGED <<name, company, enabled, lot, upload, change, inbox, told, silent, slipped>>

-----------------------------------------------------------------------------
(* PUT /suppliers/{id}/status *)

(* blacklisted decides, or else status. *)
Target(row, body) ==
    CASE body = "blacklist" -> [blacklisted |-> TRUE, status |-> "INACTIVE"]
      [] body = "clear" -> [blacklisted |-> FALSE, status |-> "ACTIVE"]
      [] OTHER -> [row EXCEPT !.status = body]

Bodies == {"blacklist", "clear", "ACTIVE", "INACTIVE"}

(* The account is the first of its name. *)
StatusBegin(r, c, body) ==
    /\ change[r] = NoChange
    /\ c \in Known
    /\ \E a \in Namesakes(c) :
        change' = [change EXCEPT ![r] =
            [op |-> "status", company |-> c, was |-> company[c],
             want |-> Target(company[c], body),
             account |-> a, active |-> enabled[a],
             bids |-> BidsOf(c),
             cascaded |-> FALSE, hit |-> {}, due |-> {}, wrote |-> FALSE, overtaken |-> FALSE]]
    /\ UNCHANGED <<name, company, enabled, lot, bid, upload, inbox, history, slipped>>

(* Mutant: the managers of the bids that the cascade has just taken.       *)
AffectedByCascade(bids, hit) == hit \cap Managed

(* _notify_blacklist: the bids of the snapshot, and those that the request *)
(* itself has changed.                                                     *)
Affected(bids, hit) == (bids \cup hit) \cap Managed

(* _cascade_blacklist sees the bids as they are, the query of the notices  *)
(* those of the snapshot.                                                  *)
Cascade(r) ==
    LET q == change[r]
        hit == {l \in Lots : bid[q.company][l] = "SUBMITTED"}
    IN  /\ Blacklisting(q) /\ ~q.cascaded
        /\ \A l \in hit : Free(q.company, l)
        /\ change' = [change EXCEPT
               ![r].cascaded = TRUE, ![r].hit = hit, ![r].due = Affected(q.bids, hit)]
        /\ UNCHANGED <<name, company, enabled, lot, bid, upload, inbox, history, slipped>>

Flushed(old, new, current) == IF old = new THEN current ELSE new

(* The first commit of the request writes all that it changed; others that *)
(* have read before it are overtaken.                                      *)
Write(r, after) ==
    LET q == change[r]
        c == q.company
        row == [blacklisted |-> Flushed(q.was.blacklisted, q.want.blacklisted, company[c].blacklisted),
                status |-> Flushed(q.was.status, q.want.status, company[c].status)]
        active == q.want.status = "ACTIVE"
        statusChanges == q.was.status # q.want.status
        activeChanges == q.active # active
    IN  /\ company' = [company EXCEPT ![c] = row]
        /\ enabled' = [enabled EXCEPT ![q.account] = Flushed(q.active, active, @)]
        /\ bid' = [bid EXCEPT ![c] =
                      [l \in Lots |-> IF l \in q.hit THEN "DISQUALIFIED" ELSE bid[c][l]]]
        /\ slipped' = IF q.overtaken /\ ~(statusChanges /\ activeChanges)
                      THEN slipped \cup {q.account} ELSE slipped \ {q.account}
        /\ change' = [p \in Changes |->
                         IF p = r THEN after
                         ELSE IF change[p].op = "status" /\ ~change[p].wrote
                                 /\ (change[p].company = c \/ change[p].account = q.account)
                         THEN [change[p] EXCEPT !.overtaken = TRUE]
                         ELSE change[p]]

(* History: a company that is cleared is told of anew, unless another      *)
(* blacklisting of it is in flight: it goes on with what it has read.      *)
InFlight(c) == \E r \in Changes : Blacklisting(change[r]) /\ change[r].company = c
Cleared(c) == company[c].blacklisted /\ ~company'[c].blacklisted /\ ~InFlight(c)
Remember(c, lots) ==
    /\ told' = [told EXCEPT ![c] = IF Cleared(c) THEN {} ELSE @ \cup lots]
    /\ silent' = IF Cleared(c) THEN silent \ {c} ELSE silent
    /\ late' = IF Cleared(c) THEN {p \in late : p[1] # c} ELSE late

(* notification.send commits, the first one all that is pending as well.   *)
Send(r, l) ==
    LET q == change[r]
        after == [q EXCEPT !.due = @ \ {l}, !.wrote = TRUE]
    IN  /\ q.op = "status" /\ l \in q.due
        /\ inbox' = [inbox EXCEPT ![q.company][l] = "unread"]
        /\ IF q.wrote
           THEN /\ change' = [change EXCEPT ![r] = after]
                /\ UNCHANGED <<company, enabled, bid, slipped>>
           ELSE Write(r, after)
        /\ Remember(q.company, {l})
        /\ UNCHANGED <<name, lot, upload>>

Answer(r) ==
    LET q == change[r]
    IN  /\ q.op = "status" /\ q.due = {}
        /\ Blacklisting(q) => q.cascaded
        /\ IF q.wrote
           THEN /\ change' = [change EXCEPT ![r] = NoChange]
                /\ UNCHANGED <<company, enabled, bid, slipped>>
           ELSE Write(r, NoChange)
        /\ Remember(q.company, {})
        /\ UNCHANGED <<name, lot, upload, inbox>>

(* The notices that were not sent yet are never sent. *)
Dies(r) ==
    /\ change[r] # NoChange
    /\ change' = [change EXCEPT ![r] = NoChange]
    /\ silent' = IF change[r].wrote THEN silent \cup {change[r].company} ELSE silent
    /\ UNCHANGED <<name, company, enabled, lot, bid, upload, inbox, told, late, slipped>>

(* PUT /users/{id}/status: the administrator's own choice. *)
SetActive(a, active) ==
    /\ a \in Known /\ enabled[a] # active
    /\ enabled' = [enabled EXCEPT ![a] = active]
    /\ slipped' = slipped \cup {a}
    /\ change' = [p \in Changes |->
                     IF change[p].op = "status" /\ change[p].account = a /\ ~change[p].wrote
                     THEN [change[p] EXCEPT !.overtaken = TRUE] ELSE change[p]]
    /\ UNCHANGED <<name, company, lot, bid, upload, inbox, history>>

-----------------------------------------------------------------------------
(* The managers' notices *)

Unread(l) == {c \in Companies : inbox[c][l] = "unread"}

MarkRead(c, l) ==
    /\ c \in Unread(l)
    /\ inbox' = [inbox EXCEPT ![c][l] = "read"]
    /\ UNCHANGED <<name, company, enabled, lot, bid, upload, change, history, slipped>>

MarkAllRead(l) ==
    /\ Unread(l) # {}
    /\ inbox' = [c \in Companies |->
                    IF c \in Unread(l) THEN [inbox[c] EXCEPT ![l] = "read"] ELSE inbox[c]]
    /\ UNCHANGED <<name, company, enabled, lot, bid, upload, change, history, slipped>>

-----------------------------------------------------------------------------
PortalNext ==
    \/ \E c \in Companies : Import(c)
    \/ \E c \in Companies, l \in Lots :
        SupplierUploads(c, l) \/ AdminUploads(c, l) \/ Disqualify(c, l) \/ MarkRead(c, l)
    \/ UploadCommit \/ UploadFails
    \/ \E l \in Lots : Close(l) \/ MarkAllRead(l)
    \/ \E r \in Changes :
        \/ \E c \in Companies, body \in Bodies : StatusBegin(r, c, body)
        \/ Cascade(r) \/ Answer(r) \/ Dies(r)
        \/ \E l \in Lots : Send(r, l)
    \/ \E a \in Companies, active \in BOOLEAN : SetActive(a, active)

PortalSpec == PortalInit /\ [][PortalNext]_portalVars

-----------------------------------------------------------------------------
(* What the market offers to an account that gets in is accepted when it   *)
(* is uploaded at once: however changes of the status overlap, and unless  *)
(* the company was made ACTIVE without being cleared, the account was set  *)
(* by hand, or one of two overlapping changes left half of it to the other.*)
OfferStands ==
    \A a \in Known : enabled[a] /\ a \notin slipped =>
        \A c \in Me(a), l \in Market(a) :
            Accepted(c, l) \/ company[c] = [blacklisted |-> TRUE, status |-> "ACTIVE"]

(* The bids an account is shown are those it can open, and are of the      *)
(* company it was made for, whoever is imported later under its name.      *)
ShownIsOwn ==
    \A a \in Known, c \in Companies, l \in Lots :
        /\ <<c, l>> \in MyBids(a) <=> Opens(a, c, l)
        /\ Opens(a, c, l) => c = a

(* The pages of a supplier are its own, and they are right. *)
PortalIsRight == OfferStands /\ ShownIsOwn

(* When a company stands blacklisted, the manager of every lot it has bid  *)
(* for has a notice of it and its bid is out: unless the request died      *)
(* between two notices, or the bid came when the cascade was over.         *)
NobodyPassedOver ==
    \A c \in Companies :
        company[c].blacklisted /\ c \notin silent /\ (\A r \in Changes : ~Sending(change[r], c))
            => \A l \in Managed : HasBid(c, l) /\ <<c, l>> \notin late =>
                   l \in told[c] /\ inbox[c][l] # "none" /\ bid[c][l] = "DISQUALIFIED"
=============================================================================
