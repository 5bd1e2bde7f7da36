----------------------------- MODULE VectorStore -----------------------------
(***************************************************************************)
(* libs/logsage_common/vector_store_qdrant.py: one Qdrant collection and   *)
(* QdrantVectorStore.build_index, which several processes may run at once. *)
(*                                                                         *)
(* Qdrant runs one request at a time; build_index is the requests          *)
(*     get_collections, [delete_collection], create_collection, [upsert]   *)
(* so the requests of other writers and readers fall between them.  Points *)
(* get fresh uuids: upserting the same templates twice stores them twice,  *)
(* and a collection is as good as how often it holds each template.        *)
(*                                                                         *)
(* Qdrant is external: creating a collection that exists and upserting     *)
(* into one that does not are errors (UnexpectedResponse, raised to the    *)
(* caller); deleting one that does not exist is none.                      *)
(***************************************************************************)
EXTENDS Naturals

CONSTANTS
    Writers,    \* the processes that rebuild the collection
    Templates,  \* the template ids that occur
    Missing     \* the collection does not exist

ASSUME MissingIsNoCollection == Missing \notin [Templates -> Nat]

VARIABLES
    points,     \* how many points of each template the collection holds, or Missing
    step,       \* step[w]: the next request of w's build_index, "none" outside of it
    building    \* building[w]: the templates w's build_index was called with

vectorStore == <<points, step, building>>

Exists == points # Missing      \* _collection_exists

VectorStoreTypeOK ==
    /\ points \in [Templates -> Nat] \cup {Missing}
    /\ step \in [Writers -> {"none", "exists", "delete", "create", "upsert"}]
    /\ building \in [Writers -> SUBSET Templates]

VectorStoreInit ==
    /\ points = Missing
    /\ step = [w \in Writers |-> "none"]
    /\ building = [w \in Writers |-> {}]

Goto(w, s) == step' = [step EXCEPT ![w] = s]

Leave(w) ==
    /\ Goto(w, "none")
    /\ building' = [building EXCEPT ![w] = {}]

BuildIndex(w, templates) ==
    /\ Goto(w, "exists")
    /\ building' = [building EXCEPT ![w] = templates]
    /\ UNCHANGED points

(* Mutant: a collection that exists is used as it is.                       *)
CheckExistsKeeping(w) ==
    /\ step[w] = "exists"
    /\ Goto(w, IF Exists THEN "upsert" ELSE "create")
    /\ UNCHANGED <<points, building>>

(* Mutant: nothing is deleted first.                                        *)
CheckExistsBlind(w) ==
    /\ step[w] = "exists"
    /\ Goto(w, "create")
    /\ UNCHANGED <<points, building>>

CheckExists(w) ==
    /\ step[w] = "exists"
    /\ Goto(w, IF Exists THEN "delete" ELSE "create")
    /\ UNCHANGED <<points, building>>

DeleteCollection(w) ==
    /\ step[w] = "delete"
    /\ points' = Missing
    /\ Goto(w, "create")
    /\ UNCHANGED building

CreateCollection(w) ==
    /\ step[w] = "create"
    /\ ~ Exists
    /\ points' = [t \in Templates |-> 0]
    /\ Goto(w, "upsert")
    /\ UNCHANGED building

(* With no templates build_index returns here without a request.            *)
Upsert(w) ==
    /\ step[w] = "upsert"
    /\ Exists \/ building[w] = {}
    /\ points' = IF Exists
                   THEN [t \in Templates |-> points[t] + (IF t \in building[w] THEN 1 ELSE 0)]
                   ELSE Missing
    /\ Leave(w)

(* No answer from Qdrant to any of the requests, or another writer in the   *)
(* way: create_collection finds one, upsert finds none.  What the requests  *)
(* before did stays done.  (A request that took effect although its answer  *)
(* was lost is the request, followed by the end of the process.)            *)
BuildRaises(w) ==
    /\ step[w] # "none"
    /\ Leave(w)
    /\ UNCHANGED points

(* The next request of w cannot succeed.                                    *)
InTheWay(w) ==
    \/ step[w] = "create" /\ Exists
    \/ step[w] = "upsert" /\ ~ Exists /\ building[w] # {}

(* What query can return: a missing collection is like an empty one.        *)
Found == IF Exists THEN {t \in Templates : points[t] > 0} ELSE {}
=============================================================================
