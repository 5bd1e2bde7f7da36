------------------------------ MODULE LogStore ------------------------------
(***************************************************************************)
(* libs/logsage_common/log_store.py: the Redis database the consumer       *)
(* writes and the analysis service reads.  Key log:{t} holds the JSON of   *)
(* one entry, the set log:index holds the trace ids of all of them.        *)
(*                                                                         *)
(* Redis runs one command at a time, so each operator below is ONE command *)
(* and the methods of LogStore (save, clear, a listing followed by gets)   *)
(* are sequences of them that other clients can interleave with.           *)
(***************************************************************************)
EXTENDS Messages

VARIABLES
    kv,         \* kv[t] is the value of key log:t, None when the key is missing
    index       \* the members of log:index

logStore == <<kv, index>>

LogStoreInit ==
    /\ kv = [t \in TraceIds |-> None]
    /\ index = {}

LogStoreTypeOK ==
    /\ kv \in [TraceIds -> Entries \cup {None}]
    /\ index \in SUBSET TraceIds

-----------------------------------------------------------------------------
(* save(t, e) is SetEntry(t, e) and then AddToIndex(t).                     *)

SetEntry(t, e) ==
    /\ kv' = [kv EXCEPT ![t] = e]
    /\ UNCHANGED index

AddToIndex(t) ==
    /\ index' = index \cup {t}
    /\ UNCHANGED kv

(* clear() is a read of log:index, a DeleteEntry(t) for each id it read,    *)
(* and DeleteIndex.                                                         *)

DeleteEntry(t) ==
    /\ kv' = [kv EXCEPT ![t] = None]
    /\ UNCHANGED index

DeleteIndex ==
    /\ index' = {}
    /\ UNCHANGED kv

(* list_trace_ids() and get(t).                                             *)
ListTraceIds == index
Get(t) == kv[t]

(* The entry a client finds that lists the trace ids and then asks for t.   *)
Visible(t) == IF t \in ListTraceIds THEN Get(t) ELSE None
=============================================================================
