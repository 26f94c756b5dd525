--------------------------- MODULE ScreeningApart ---------------------------
(***************************************************************************)
(* Screening with names of its own, to stand beside modules whose lots and *)
(* requests are others.                                                    *)
(***************************************************************************)
CONSTANTS
    Tenders,        \* Lots
    Askers,         \* Requests
    FactSets, Keys, Defaults, Allowed, Updates, Absent

VARIABLES table, cache, facts, status, ask, doubtful, passed

settingVars == <<table, cache, facts, status, ask, doubtful, passed>>

Fraud == INSTANCE Screening WITH Lots <- Tenders, Requests <- Askers, req <- ask

ASSUME SettingsAssumption == Fraud!ScreeningAssumption

(* What a process goes by are the settings of the table, but for entries   *)
(* that an update or a reload has left in doubt.                           *)
CacheFollowsTable == Fraud!CacheFollowsTable

(* What the quick checks let pass the closer ones would not have held, and *)
(* no shared controller that was seen gets past the manager.               *)
HeldWhenDue == Fraud!HeldWhenDue
=============================================================================
