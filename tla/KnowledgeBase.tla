---------------------------- MODULE KnowledgeBase ----------------------------
(***************************************************************************)
(* services/analysis_service: the replicas and the knowledge_base          *)
(* collection they share.  Each replica rebuilds the collection when it    *)
(* starts (lifespan, main.py:36-41) and only then answers requests; an     *)
(* exception of build_index ends the startup, and the platform starts the  *)
(* process again.                                                          *)
(***************************************************************************)
EXTENDS VectorStore, FiniteSets

CONSTANT Kb         \* the entries of data/knowledge_base.json

ASSUME KbAssumption == Kb \subseteq Templates
ASSUME ReplicasAssumption == IsFiniteSet(Writers) /\ Writers # {}

VARIABLE up         \* up[r]: "down", "starting" (inside lifespan) or "serving"

kbVars == <<vectorStore, up>>

Replicas == Writers

KbTypeOK ==
    /\ VectorStoreTypeOK
    /\ up \in [Replicas -> {"down", "starting", "serving"}]

KbInit ==
    /\ VectorStoreInit
    /\ up = [r \in Replicas |-> "down"]

Start(r) ==
    /\ up[r] = "down"
    /\ BuildIndex(r, Kb)
    /\ up' = [up EXCEPT ![r] = "starting"]

Request(r) ==
    /\ CheckExists(r) \/ DeleteCollection(r) \/ CreateCollection(r)
    /\ UNCHANGED up

Serve(r) ==
    /\ Upsert(r)
    /\ up' = [up EXCEPT ![r] = "serving"]

(* Mutant: a failed rebuild is ignored.                                     *)
StartupFailsQuietly(r) ==
    /\ BuildRaises(r)
    /\ up' = [up EXCEPT ![r] = "serving"]

StartupFails(r) ==
    /\ BuildRaises(r)
    /\ up' = [up EXCEPT ![r] = "down"]

Kill(r) ==
    /\ up[r] # "down"
    /\ Leave(r)
    /\ up' = [up EXCEPT ![r] = "down"]
    /\ UNCHANGED points

KbNext ==
    \E r \in Replicas :
        \/ Start(r)
        \/ Request(r)
        \/ Serve(r)
        \/ StartupFails(r)
        \/ Kill(r)

KbSpec == KbInit /\ [][KbNext]_kbVars

(* What the code and the platform do by themselves, and the rest.  (A kill  *)
(* and an exception are the same step; with another writer in the way it is *)
(* not a fault.)                                                            *)
Startup(r) ==
    \/ Start(r)
    \/ Request(r)
    \/ Serve(r)
    \/ InTheWay(r) /\ StartupFails(r)

StartupFault(r) == ~ InTheWay(r) /\ (StartupFails(r) \/ Kill(r))

-----------------------------------------------------------------------------
(* Rebuilds that get in each other's way can store the knowledge base more  *)
(* than once, but never more often than there are replicas - whoever is     *)
(* killed or restarted, and however often: the next to start sees what the  *)
(* others left and deletes it.  (retrieve_context asks for k points, so     *)
(* copies crowd out other entries.)                                         *)
OneCopyPerReplica ==
    Exists => \A t \in Templates : points[t] <= Cardinality(Replicas)

(* Once every replica is through its startup the knowledge base is there    *)
(* and whole: no order of deletes, conflicts and failed startups makes all  *)
(* of them serve without it.                                                *)
WholeWhenAllServe ==
    (\A r \in Replicas : up[r] = "serving") => Kb \subseteq Found

(* "safe to scale: read-only against the shared index, no shared-write      *)
(* races" (k8s/deployment.yaml:180): a replica that serves is not disturbed *)
(* by another one, it finds each entry of the knowledge base, once.         *)
NoSharedWriteRaces ==
    (\E r \in Replicas : up[r] = "serving") => Kb \subseteq Found /\ \A t \in Kb : points[t] = 1
=============================================================================
