----------------------------- MODULE LogClients -----------------------------
(***************************************************************************)
(* A client of the analysis service that looks at Redis while the consumer *)
(* service writes: /stats (_stats, analytics.py), /logs page by page, and  *)
(* LogStore.clear, which only tests call.  Each asks Redis several times.  *)
(***************************************************************************)
EXTENDS ConsumerService, FiniteSetsExt

CONSTANT Limit      \* the page size of /logs

ASSUME TraceIdsAreOrdered == TraceIds \subseteq Nat
ASSUME LimitAssumption == Limit \in Nat \ {0}

VARIABLES
    doing,      \* "none", or what the client is in the middle of
    listed,     \* the index when it began
    todo,       \* the ids it has not got, or deleted, yet
    entries,    \* what /stats has read: the list without its order, each entry with its id
    shown,      \* the ids on the pages so far
    offset,     \* of the next page
    saved,      \* history: the ids the consumers have written since it began
    reset       \* history: whether Redis was ever cleared

client == <<doing, listed, todo, entries, shown, offset, saved, reset>>
service == <<broker, replica, logStore>>

LcInit ==
    /\ Init
    /\ doing = "none"
    /\ listed = {}
    /\ todo = {}
    /\ entries = {}
    /\ shown = {}
    /\ offset = 0
    /\ saved = {}
    /\ reset = FALSE

(* Mutant: in no order, which differs from call to call.                    *)
HashRank(ids, t) ==
    LET hash(s) == (s + Cardinality(ids)) % 3
    IN  Cardinality({s \in ids : hash(s) < hash(t)})

(* sorted: how many of the ids come before t.                               *)
Rank(ids, t) == Cardinality({s \in ids : s < t})

(* A request begins: its first look at the index.                           *)
Begin(what) ==
    /\ doing \in {"none", "counted", "paged", "cleared"}
    /\ doing' = what
    /\ listed' = ListTraceIds
    /\ entries' = {}
    /\ shown' = {}
    /\ offset' = 0
    /\ saved' = {}
    /\ reset' = (reset \/ what = "clear")
    /\ todo' = IF what = "pages" THEN {} ELSE ListTraceIds
    /\ UNCHANGED service

(* _stats: get each id that was listed, and leave out what is not there.    *)
StatsGet ==
    /\ doing = "stats"
    /\ todo # {}
    /\ LET t == Min(todo)
       IN  /\ todo' = todo \ {t}
           /\ entries' = IF Get(t) = None
                           THEN entries
                           ELSE entries \cup {[trace_id |-> t, entry |-> Get(t)]}
    /\ UNCHANGED <<service, doing, listed, shown, offset, saved, reset>>

(* compute_log_stats: the total and the number of each kind of entry.       *)
ComputeLogStats ==
    [total_logs |-> Cardinality(entries),
     level_distribution |->
        [e \in {r.entry : r \in entries} |-> Cardinality({r \in entries : r.entry = e})]]

StatsAnswer ==
    /\ doing = "stats"
    /\ todo = {}
    /\ doing' = "counted"
    /\ UNCHANGED <<service, listed, todo, entries, shown, offset, saved, reset>>

(* list_logs_v1; the client asks until it is past the total it was told.    *)
Page ==
    LET ids == ListTraceIds
        next == offset + Limit
    IN  /\ doing = "pages"
        /\ shown' = shown \cup {t \in ids : Rank(ids, t) \in offset .. next - 1}
        /\ offset' = next
        /\ doing' = IF next >= Cardinality(ids) THEN "paged" ELSE "pages"
        /\ UNCHANGED <<service, listed, todo, entries, saved, reset>>

(* clear: the keys of the ids that were listed, in any order, then the      *)
(* index.                                                                   *)
ClearKey ==
    /\ doing = "clear"
    /\ \E t \in todo :
          /\ DeleteEntry(t)
          /\ todo' = todo \ {t}
    /\ UNCHANGED <<broker, replica, doing, listed, entries, shown, offset, saved, reset>>

(* Mutant: the index is forgotten.                                          *)
ClearKeysOnly ==
    /\ doing = "clear"
    /\ todo = {}
    /\ doing' = "cleared"
    /\ UNCHANGED <<service, listed, todo, entries, shown, offset, saved, reset>>

ClearIndex ==
    /\ doing = "clear"
    /\ todo = {}
    /\ DeleteIndex
    /\ doing' = "cleared"
    /\ UNCHANGED <<broker, replica, listed, todo, entries, shown, offset, saved, reset>>

ClientNext ==
    \/ \E what \in {"stats", "pages", "clear"} : Begin(what)
    \/ StatsGet
    \/ StatsAnswer
    \/ Page
    \/ ClearKey
    \/ ClearIndex

ServiceNext ==
    /\ Next
    /\ saved' = saved \cup {t \in TraceIds : kv'[t] # kv[t] \/ t \in index' \ index}
    /\ UNCHANGED <<doing, listed, todo, entries, shown, offset, reset>>

LcNext == ClientNext \/ ServiceNext

LcVars == <<service, client>>

LcSpec == LcInit /\ [][LcNext]_LcVars

-----------------------------------------------------------------------------
(* /stats counts each id of its listing once, with the entry that was there *)
(* when it asked (main.py:126-132): what the consumer does in between adds  *)
(* to the entries and takes none away, and a count is off by no more than   *)
(* what was saved meanwhile.  It may skip only what a clear under the       *)
(* consumer's writes has left listed without an entry.                      *)
StatsCountWhatIsListed ==
    doing = "counted" =>
        LET stats == ComputeLogStats
            counts == stats.level_distribution
            left(e) == {t \in listed \ saved : kv[t] = e}
        IN  /\ stats.total_logs <= Cardinality(listed)
            /\ ~ reset => stats.total_logs = Cardinality(listed)
            /\ \A e \in Entries : left(e) # {} => e \in DOMAIN counts
            /\ \A e \in DOMAIN counts :
                 counts[e] - Cardinality(left(e)) \in 0 .. Cardinality(listed \cap saved)

(* A client that pages through /logs until the total it is told sees every  *)
(* id that was listed when it began, although ids are inserted in front of  *)
(* and between the pages it has.                                            *)
PagingMissesNothing ==
    doing = "paged" => listed \subseteq shown

(* What clear has listed and nobody has written since is gone, the key and  *)
(* the id, whatever was saved meanwhile.                                    *)
ClearIsThorough ==
    doing = "cleared" => \A t \in listed \ saved : kv[t] = None /\ t \notin index
=============================================================================
