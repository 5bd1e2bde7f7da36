------------------------------ MODULE Messages ------------------------------
(***************************************************************************)
(* What travels from the ingestion service to Redis: one record per        *)
(* anomalous log line or block, published as the JSON object               *)
(* {"trace_id": t, "entry": e} (kafka_producer.py:75).                     *)
(*                                                                         *)
(* Consumers decode the bytes with _safe_json_deserializer and then check  *)
(* the shape (consumer_service/app/main.py:27-35, 82-87).  All that the    *)
(* service tells apart is whether a payload passes: null, bytes that are   *)
(* not JSON, JSON that is no object and an object without one of the two   *)
(* fields are the single value Malformed.                                  *)
(***************************************************************************)
CONSTANTS
    TraceIds,   \* the trace ids that occur
    Entries,    \* the parsed entries, as far as a property tells them apart
    Malformed,  \* any payload that fails the shape check
    None        \* a missing Redis key, and "nothing" elsewhere

ASSUME NoneIsNoEntry == None \notin Entries

Records == [trace_id : TraceIds, entry : Entries]

ASSUME MalformedIsNoRecord == Malformed \notin Records

Payloads == Records \cup {Malformed}
=============================================================================
