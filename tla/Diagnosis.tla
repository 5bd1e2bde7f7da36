------------------------------ MODULE Diagnosis ------------------------------
(***************************************************************************)
(* services/analysis_service/app/agentic_pipeline.py and rag.py: one       *)
(* diagnosis - triage, research, report - in a replica that serves, while  *)
(* the replicas rebuild the knowledge base under it (KnowledgeBase).       *)
(* All replicas have the same knowledge base.  What _analyze decides before *)
(* it asks for a diagnosis is in Baseline.                                  *)
(*                                                                         *)
(* The LLM is external: a call gives an answer, is rate limited, or raises *)
(* something else.  Embeddings are abstracted to a distance between a line *)
(* and an entry; a text is a sequence of lines, each with a kind: "event", *)
(* "omitted" (starts with "...") or "blank".                               *)
(***************************************************************************)
EXTENDS KnowledgeBase, Lists

CONSTANTS
    Texts,                  \* the messages of the entries that are analysed
    Whole,                  \* the text of several lines as a query
    Distance(_, _),         \* of a line, or Whole, to an entry
    K,                      \* how many points a query asks for
    RAG_MAX_DISTANCE,
    RAG_MAX_QUERY_LINES,
    LLM_MAX_RETRIES,
    LogPaths(_),            \* the paths that occur in a line
    KbPaths(_),             \* and in an entry of the knowledge base
    Fixes,                  \* what the LLM suggests
    NotText                 \* a suggested_fix that is no string: null, a list, ...

ASSUME RetrievalAssumption ==
    /\ K \in Nat \ {0}
    /\ RAG_MAX_DISTANCE \in Nat
    /\ RAG_MAX_QUERY_LINES \in Nat
    /\ Templates \subseteq Nat
    /\ IsFiniteSet(Kb)
    /\ \A t \in Templates : Distance(Whole, t) \in Nat
    /\ \A lines \in Texts : DOMAIN lines \subseteq Nat \ {0}
    /\ \A lines \in Texts, t \in Templates :
         \A i \in DOMAIN lines : Distance(lines[i], t) \in Nat

ASSUME FixesAssumption ==
    \A fix \in Fixes \ {NotText} :
        /\ fix \in Seq(ToSet(fix))
        /\ \A i \in DOMAIN fix : "kind" \in DOMAIN fix[i]

(* With no attempt at all every call would raise the RuntimeError of        *)
(* agentic_pipeline.py:90.                                                  *)
ASSUME RetriesAssumption == LLM_MAX_RETRIES \in Nat \ {0}

VARIABLES
    place,      \* the node of the graph the request is in, or "idle"
    replica,    \* that answers it
    text,       \* the message it is about
    attempt,    \* of the LLM call it is in
    todo,       \* the queries retrieve_context has not made yet (Queries)
    best,       \* the smallest distance of the entries it has met
    context,    \* retrieved_context: the entries, without their order
    report,     \* final_analysis: the suggested fix and the guardrail's flags
    answer,     \* how the last request ended
    suggested,  \* history: the suggested_fix of the LLM
    calls,      \* history: the LLM calls of this node
    calm        \* history: all replicas served, and all queries were answered,
                \* since the research began

research == <<todo, best, context, calm>>
llm == <<attempt, calls>>
result == <<report, answer, suggested>>
vars == <<kbVars, place, replica, text, research, llm, result>>

NoReport == [fix |-> <<>>, flags |-> {}]

(* retrieve_context: the positions of the lines that are asked for; 0, for  *)
(* the text itself, if there is none.                                       *)
Queries(lines) ==
    LET events == {i \in DOMAIN lines : lines[i].kind = "event"}
        first == {i \in events : Cardinality({j \in events : j < i}) < RAG_MAX_QUERY_LINES}
    IN  IF first = {} THEN {0} ELSE first

(* What is asked for there.                                                 *)
QueryText(i) == IF i = 0 THEN Whole ELSE text[i]

TypeOK ==
    /\ KbTypeOK
    /\ place \in {"idle", "triage", "research", "report"}
    /\ replica \in Replicas
    /\ text \in Texts
    /\ attempt \in 0 .. LLM_MAX_RETRIES - 1
    /\ todo \subseteq Queries(text)
    /\ DOMAIN best \subseteq Templates
    /\ \A t \in DOMAIN best : best[t] \in Nat
    /\ context \subseteq Templates
    /\ report.flags \subseteq {"destructive_command_removed", "unsupported_path_removed"}
    /\ answer \in {"none", "ok", "limited", "error", "lost"}
    /\ calls \in Nat
    /\ calm \in BOOLEAN
    /\ place # "idle" => up[replica] = "serving"

Init ==
    /\ KbInit
    /\ place = "idle"
    /\ replica \in Replicas
    /\ text \in Texts
    /\ attempt = 0
    /\ todo = {}
    /\ best = <<>>
    /\ context = {}
    /\ report = NoReport
    /\ suggested = <<>>
    /\ answer = "none"
    /\ calls = 0
    /\ calm = FALSE

-----------------------------------------------------------------------------
(* The points of the collection: copies of entries.                         *)
Points ==
    IF points = Missing THEN {} ELSE UNION {{t} \X (1 .. points[t]) : t \in Templates}

(* query(q, k): the k nearest points, in any order where distances tie.     *)
Hits(q) ==
    {H \in SUBSET Points :
        /\ Cardinality(H) = Min({K, Cardinality(Points)})
        /\ \A h \in H, p \in Points \ H : Distance(q, h[1]) <= Distance(q, p[1])}

(* Mutant: the last distance, not the best.                                 *)
MeetLast(q, H) ==
    LET met == {h[1] : h \in H}
    IN  [t \in DOMAIN best \cup met |-> IF t \in met THEN Distance(q, t) ELSE best[t]]

(* The best distances after the results of q.                               *)
Meet(q, H) ==
    LET met == {h[1] : h \in H}
    IN  [t \in DOMAIN best \cup met |->
            IF t \in met /\ (t \in DOMAIN best => Distance(q, t) < best[t])
              THEN Distance(q, t)
              ELSE best[t]]

(* Mutant: the cutoff is not applied.                                       *)
RankedUncut ==
    {t \in DOMAIN best :
        Cardinality({s \in DOMAIN best : best[s] < best[t] \/ (best[s] = best[t] /\ s < t)}) < K}

(* The first K of those within the cutoff, by distance and number.          *)
Ranked ==
    LET near == {t \in DOMAIN best : best[t] <= RAG_MAX_DISTANCE}
        before(s, t) == best[s] < best[t] \/ (best[s] = best[t] /\ s < t)
    IN  {t \in near : Cardinality({s \in near : before(s, t)}) < K}

-----------------------------------------------------------------------------
(* A fix is a sequence of words, paths, destructive commands and breaks     *)
(* (newline, ; | or `), where the reach of a command ends.                  *)
InReach(fix, i) ==
    \E j \in 1 .. i : fix[j].kind = "command" /\ \A k \in j .. i : fix[k].kind # "break"

Mask(token, allowed) ==
    IF token.kind = "path" /\ token.path \notin allowed THEN [token EXCEPT !.kind = "masked"] ELSE token

(* What is left when the commands are removed.                              *)
OutOfReach(fix) == Pick(fix, {i \in DOMAIN fix : ~ InReach(fix, i)})

(* sanitize_suggested_fix: commands first, then paths that are not allowed; *)
(* what is no string is not looked at.                                      *)
Sanitize(fix, allowed) ==
    IF fix = NotText
      THEN [fix |-> fix, flags |-> {}]
      ELSE LET kept == OutOfReach(fix)
               clean == [k \in DOMAIN kept |-> Mask(kept[k], allowed)]
           IN  [fix |-> clean,
                flags |-> (IF Len(kept) < Len(fix) THEN {"destructive_command_removed"} ELSE {})
                            \cup (IF clean # kept THEN {"unsupported_path_removed"} ELSE {})]

(* Mutant: the whole knowledge base is a source of paths.                   *)
AllowedByKb ==
    (UNION {LogPaths(text[i]) : i \in DOMAIN text}) \cup (UNION {KbPaths(t) : t \in Kb})

(* redacted_log and context_str.                                            *)
Allowed ==
    (UNION {LogPaths(text[i]) : i \in DOMAIN text}) \cup (UNION {KbPaths(t) : t \in context})

-----------------------------------------------------------------------------
AllServe == \A r \in Replicas : up[r] = "serving"

(* The locals of the request are gone.                                      *)
End(a) ==
    /\ place' = "idle"
    /\ answer' = a
    /\ todo' = {}
    /\ best' = <<>>
    /\ calm' = FALSE

(* run_diagnostic_pipeline of an entry, from _analyze.                      *)
Diagnose(r, message) ==
    /\ place = "idle"
    /\ up[r] = "serving"
    /\ place' = "triage"
    /\ replica' = r
    /\ text' = message
    /\ attempt' = 0
    /\ calls' = 0
    /\ context' = {}
    /\ report' = NoReport
    /\ suggested' = <<>>
    /\ answer' = "none"
    /\ UNCHANGED <<kbVars, todo, best, calm>>

Calling == place \in {"triage", "report"}

(* Mutant: one attempt more.                                                *)
RateLimitedOnceMore ==
    /\ Calling
    /\ attempt < LLM_MAX_RETRIES
    /\ attempt' = attempt + 1
    /\ calls' = calls + 1
    /\ UNCHANGED <<kbVars, place, replica, text, research, result>>

(* Mutant: after the last attempt the first one follows.                    *)
RateLimitedForGood ==
    /\ Calling
    /\ attempt' = (attempt + 1) % LLM_MAX_RETRIES
    /\ UNCHANGED <<kbVars, place, replica, text, research, calls, result>>

(* _call_llm_json: RateLimitError, and a pause before the next attempt ...  *)
RateLimited ==
    /\ Calling
    /\ attempt < LLM_MAX_RETRIES - 1
    /\ attempt' = attempt + 1
    /\ calls' = calls + 1
    /\ UNCHANGED <<kbVars, place, replica, text, research, result>>

(* Mutant: one attempt less.                                                *)
GivesUpEarly ==
    /\ Calling
    /\ attempt >= LLM_MAX_RETRIES - 2
    /\ calls' = calls + 1
    /\ End("limited")
    /\ UNCHANGED <<kbVars, replica, text, context, attempt, report, suggested>>

(* ... unless it was the last one.                                          *)
GivesUp ==
    /\ Calling
    /\ attempt = LLM_MAX_RETRIES - 1
    /\ calls' = calls + 1
    /\ End("limited")
    /\ UNCHANGED <<kbVars, replica, text, context, attempt, report, suggested>>

(* Any other exception: of the client, of json.loads, or of a report that   *)
(* is no object.                                                            *)
LlmRaises ==
    /\ Calling
    /\ calls' = calls + 1
    /\ End("error")
    /\ UNCHANGED <<kbVars, replica, text, context, attempt, report, suggested>>

(* triage_node, and the start of retrieve_context.                          *)
Triaged ==
    /\ place = "triage"
    /\ place' = "research"
    /\ calls' = calls + 1
    /\ todo' = Queries(text)
    /\ best' = <<>>
    /\ calm' = AllServe
    /\ UNCHANGED <<kbVars, replica, text, attempt, context, result>>

(* The next query of retrieve_context.                                      *)
Query ==
    /\ place = "research"
    /\ todo # {}
    /\ LET q == QueryText(Min(todo))
       IN  \E H \in Hits(q) : best' = Meet(q, H)
    /\ todo' = todo \ {Min(todo)}
    /\ UNCHANGED <<kbVars, place, replica, text, context, calm, llm, result>>

(* UnexpectedResponse for any reason counts as "nothing found".             *)
QueryRefused ==
    /\ place = "research"
    /\ todo # {}
    /\ todo' = todo \ {Min(todo)}
    /\ calm' = FALSE
    /\ UNCHANGED <<kbVars, place, replica, text, best, context, llm, result>>

(* No response at all is not caught.                                        *)
QueryRaises ==
    /\ place = "research"
    /\ todo # {}
    /\ End("error")
    /\ UNCHANGED <<kbVars, replica, text, context, llm, report, suggested>>

(* The end of retrieve_context, and research_node's result.                 *)
Retrieved ==
    /\ place = "research"
    /\ todo = {}
    /\ place' = "report"
    /\ context' = Ranked
    /\ attempt' = 0
    /\ calls' = 0
    /\ UNCHANGED <<kbVars, replica, text, todo, best, calm, result>>

(* report_node.                                                             *)
Report(fix) ==
    /\ place = "report"
    /\ calls' = calls + 1
    /\ suggested' = fix
    /\ report' = Sanitize(fix, Allowed)
    /\ End("ok")
    /\ UNCHANGED <<kbVars, replica, text, context, attempt>>

Step ==
    \/ RateLimited
    \/ GivesUp
    \/ LlmRaises
    \/ Triaged
    \/ Query
    \/ QueryRefused
    \/ QueryRaises
    \/ Retrieved
    \/ \E fix \in Fixes : Report(fix)

(* What a step of the replicas means for a diagnosis that goes on.          *)
GoesOn ==
    /\ place # "idle" => up'[replica] = "serving"
    /\ calm' = (calm /\ AllServe')
    /\ UNCHANGED <<place, replica, text, todo, best, context, llm, result>>

(* The replicas go on starting, and being killed.                           *)
Rebuild == KbNext /\ GoesOn

Killed ==
    /\ place # "idle"
    /\ Kill(replica)
    /\ End("lost")
    /\ UNCHANGED <<replica, text, context, llm, report, suggested>>

Next ==
    \/ \E r \in Replicas, message \in Texts : Diagnose(r, message)
    \/ Step
    \/ Rebuild
    \/ Killed

Spec == Init /\ [][Next]_vars

(* The thread of the request runs, and the platform starts what has ended.  *)
FairSpec ==
    /\ Spec
    /\ WF_vars(Step)
    /\ \A r \in Replicas : WF_vars(Startup(r) /\ GoesOn)

-----------------------------------------------------------------------------
(* The distance of an entry to the nearest line that is asked for.          *)
Nearness(t) == Min({Distance(QueryText(i), t) : i \in Queries(text)})

(* What the knowledge base has for a text and is within the cutoff.         *)
Candidates == {t \in Kb : Nearness(t) <= RAG_MAX_DISTANCE}

(* The nearest entries reach the report although the replicas may have      *)
(* stored each entry several times, the queries cut off after K points, and *)
(* the ranking mixes lines: as many as fit when each has a copy per replica.*)
NearestAreRetrieved ==
    place = "report" /\ calm =>
        \A t \in Candidates :
            LET nearer == {s \in Candidates \ {t} : Nearness(s) <= Nearness(t)}
            IN  Cardinality(nearer) * Cardinality(Replicas) < K => t \in context

(* Whatever rebuilds and refused queries do: at most K entries, each from   *)
(* the knowledge base and within the cutoff of a line that was asked for.   *)
NothingFarIsRetrieved ==
    place = "report" =>
        /\ Cardinality(context) <= K
        /\ context \subseteq Candidates

(* If the suggestion is text, the report has no destructive command, and no *)
(* path that is neither in the log nor in what was retrieved for it; the    *)
(* flags tell, and without a command nothing else is touched.               *)
GuardedFix ==
    LET known(path) == \/ \E i \in DOMAIN text : path \in LogPaths(text[i])
                       \/ \E t \in context : path \in KbPaths(t)
        hasCommand == \E i \in DOMAIN suggested : suggested[i].kind = "command"
        fix == report.fix
    IN  answer = "ok" /\ suggested # NotText =>
          /\ \A i \in DOMAIN fix : fix[i].kind # "command"
          /\ \A i \in DOMAIN fix : fix[i].kind = "path" => known(fix[i].path)
          /\ hasCommand <=> "destructive_command_removed" \in report.flags
          /\ ~ hasCommand => \A i \in DOMAIN suggested :
                fix[i] = suggested[i]
                  <=> (suggested[i].kind = "path" => known(suggested[i].path))

(* The LLM is not given up before the last attempt, and never called more   *)
(* often.                                                                   *)
RetriesAreSpent ==
    /\ calls <= LLM_MAX_RETRIES
    /\ answer = "limited" => calls = LLM_MAX_RETRIES

(* Every diagnosis ends, whatever the LLM, Qdrant and the replicas do.      *)
EveryDiagnosisEnds == (place # "idle") ~> (place = "idle")

(* Whatever half-finished rebuilds have left behind: when nothing fails any *)
(* more, and the platform's backoff has drawn the startups apart, all       *)
(* replicas come to serve.  (Startups that overlap can make each other's    *)
(* create and upsert fail for ever.)                                        *)
StartupsSettle ==
    /\ <>[][\A r \in Replicas : ~ StartupFault(r)]_vars
    /\ <>[](Cardinality({r \in Replicas : up[r] = "starting"}) <= 1)
    => <>[]AllServe
=============================================================================
