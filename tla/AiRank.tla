------------------------------- MODULE AiRank -------------------------------
(***************************************************************************)
(* The ranking of search results by a model: natural-language              *)
(* recommendations, which wait for it, and AI search, which answers with   *)
(* the base ranking, records a pending analysis and lets a background task *)
(* finish it. What the model says is checked against the list it was given *)
(* and can only reorder it; a cache saves calls, and an account's calls    *)
(* are limited by permits in memory and a daily quota in the database.     *)
(*                                                                         *)
(* The model is asked through TaskRouter (AiRouter) or AiGateway, an await *)
(* during which anything may happen. The intent parse that may precede the *)
(* ranking changes only the list that is ranked.                           *)
(***************************************************************************)
EXTENDS Integers, Sequences, SequencesExt, Selection

CONSTANTS Tasks,           \* requests and background tasks at work
          Users,           \* accounts
          Visitor,         \* a request without an account
          Asks,            \* requests: [who, own, async], own: brings a provider of its own
          Bases,           \* base rankings, sequences of games
          Retrieved,       \* results of hybrid_search, sequences of games and others
          Foreign,         \* in a model's answer: no candidate, or no usable entry
          MaxRanked,       \* AI_MAX_RECOMMENDATIONS
          MaxPermits,      \* concurrent calls of an account
          DailyQuota

Games == UNION {ToSet(base) : base \in Bases}

ASSUME RankAssumption ==
    /\ Visitor \notin Users /\ Foreign \notin Games /\ IsFiniteSet(Tasks)
    /\ \A ask \in Asks : /\ ask.who \in Users \cup {Visitor}
                         /\ {ask.own, ask.async} \subseteq BOOLEAN
                         /\ ask.own => ask.who \in Users /\ ~ask.async
    /\ \A ids \in Bases \cup Retrieved : ids \in Seq(ToSet(ids)) /\ IsInjective(ids)
    /\ {MaxPermits, DailyQuota, MaxRanked} \subseteq Nat \ {0}

VARIABLES mode,       \* user_ai_credentials: "builtin", "custom", "off"
          usage,      \* account_ai_usage of the day
          permits,    \* calls of each account under way, in this process
          kept,       \* ai_analysis_cache: key to validated ranking
          task,       \* the tasks
          analysis,   \* by the task that made it: status of its progressive analysis
          called      \* history: ranking calls made for each account's own requests today

rankVars == <<mode, usage, permits, kept, task, analysis, called>>

Modes == {"builtin", "custom", "off"}
Outputs == [ids : SeqOf(Games \cup {Foreign}, MaxRanked + 1), clean : BOOLEAN]

NoTask == [stage |-> "idle", who |-> Visitor, own |-> FALSE, async |-> FALSE, scope |-> <<>>,
           base |-> <<>>, items |-> <<>>, permit |-> FALSE, charged |-> FALSE, status |-> "none"]

RankInit ==
    /\ mode \in [Users -> Modes]
    /\ usage = [u \in Users |-> 0] /\ permits = [u \in Users |-> 0]
    /\ kept = {} /\ task = [t \in Tasks |-> NoTask]
    /\ analysis = [t \in Tasks |-> "none"] /\ called = [u \in Users |-> 0]

(***************************************************************************)
(* The answer of a model                                                   *)
(***************************************************************************)

(* validate_rank_result: distinct candidates, no more than asked for, and  *)
(* every text short, plain and with evidence of its own candidate.         *)
Valid(output, items) ==
    /\ Len(output.ids) <= MaxRanked /\ output.clean
    /\ ToSet(output.ids) \subseteq ToSet(items) /\ IsInjective(output.ids)

(* sanitize_rank_result: entries that name no candidate are dropped,       *)
(* forged evidence and forbidden texts replaced; the rest must be valid.   *)
Sanitized(output, items) ==
    [ids |-> Among(output.ids, ToSet(items)), clean |-> TRUE]

Sanitizable(output, items) ==
    /\ output.ids # <<>> => Sanitized(output, items).ids # <<>>
    /\ Valid(Sanitized(output, items), items)

(* validate_rank_result_with_safe_degradation: strictly, sanitized, or the *)
(* ranking without its texts.                                              *)
RankingOnly(output) == [output EXCEPT !.clean = TRUE]
Acceptable(output, items) ==
    Valid(output, items) \/ Sanitizable(output, items) \/ Valid(RankingOnly(output), items)

Accepted(output, items) ==
    IF Valid(output, items) THEN output.ids
    ELSE IF Sanitizable(output, items) THEN Sanitized(output, items).ids
    ELSE output.ids

\* Mutant: what the model did not mention is left out.
AppliedAlone(items, ranking) == Among(ranking, ToSet(items))

(* apply_validated_ai_rank: the model's games first, then the others by    *)
(* their score.                                                            *)
Applied(items, ranking) ==
    Among(ranking, ToSet(items)) \o Among(items, ToSet(items) \ ToSet(ranking))

(***************************************************************************)
(* The requests                                                            *)
(***************************************************************************)

Turns(t, fields) == task' = [task EXCEPT ![t] = fields]

(* reorder_items_by_hybrid: what retrieval found comes first.              *)
Reordered(items, hits) ==
    Among(hits, ToSet(items)) \o Among(items, ToSet(items) \ ToSet(hits))

(* natural_language_recommendations up to its list: the query interpreted, *)
(* the first page of a feed, reordered by retrieval. Search with async     *)
(* leaves the ranking to later. The cut to the length asked for is left    *)
(* out.                                                                    *)
BeginRanking(t, ask, base, hits) ==
    /\ task[t].stage = "idle" /\ analysis[t] = "none"
    /\ Turns(t, [NoTask EXCEPT !.stage = "resolve", !.who = ask.who, !.own = ask.own,
                               !.async = ask.async, !.scope = <<ask.who, ask.own>>,
                               !.base = base, !.items = Reordered(base, hits)])
    /\ UNCHANGED <<mode, usage, permits, kept, analysis, called>>

(* transient_custom_ai_resolved: the provider a request brings counts only *)
(* in the mode "custom", and may be refused with a 400.                    *)
BringsModel(t) == task[t].own /\ mode[task[t].who] = "custom"

RefuseModel(t) ==
    /\ task[t].stage = "resolve" /\ BringsModel(t) /\ Turns(t, NoTask)
    /\ UNCHANGED <<mode, usage, permits, kept, analysis, called>>

(* account_ai_gateway: "builtin" is charged, "open" is not, "none" is no   *)
(* model.                                                                  *)
Gateway(t) ==
    LET u == task[t].who
    IN  IF u = Visitor THEN "open"
        ELSE IF mode[u] = "builtin" THEN "builtin"
        ELSE IF BringsModel(t) THEN "open" ELSE "none"

Finish(t, status, items) ==
    Turns(t, [task[t] EXCEPT !.stage = "done", !.status = status, !.items = items,
                             !.permit = FALSE])

\* Mutant: a permit is given back that was never taken.
FreesAlways(t) == permits' = [permits EXCEPT ![task[t].who] = @ - 1]

Frees(t) == permits' = IF task[t].permit
                       THEN [permits EXCEPT ![task[t].who] = @ - 1] ELSE permits

(* The mode is read when the list is there. A search only learns whether   *)
(* there will be a ranking; any other request goes on to it.               *)
ResolveGateway(t) ==
    LET gateway == Gateway(t)
    IN  /\ task[t].stage = "resolve"
        /\ IF task[t].async
           THEN Turns(t, [task[t] EXCEPT !.stage = "publish",
                            !.status = IF gateway = "none" THEN "fallback" ELSE "pending"])
           ELSE IF gateway = "none" THEN Finish(t, "fallback", task[t].items)
           ELSE IF task[t].items = <<>> THEN Finish(t, "used", <<>>)
           ELSE Turns(t, [task[t] EXCEPT !.stage = "lookup", !.charged = (gateway = "builtin")])
        /\ UNCHANGED <<mode, usage, permits, kept, analysis, called>>

(* ai_search records the analysis and answers. A pending one goes on in    *)
(* the background: with the deployment's model, in a scope of its own and  *)
(* for no account.                                                         *)
PublishAnalysis(t) ==
    /\ task[t].stage = "publish"
    /\ analysis' = [analysis EXCEPT ![t] = task[t].status]
    /\ IF task[t].status = "pending" /\ task[t].items # <<>>
       THEN Turns(t, [task[t] EXCEPT !.stage = "lookup", !.scope = <<"progressive">>])
       ELSE Finish(t, IF task[t].status = "pending" THEN "used" ELSE "fallback", task[t].items)
    /\ UNCHANGED <<mode, usage, permits, kept, called>>

(* nl_ai_cache_key: who asks of which model, and what exactly is ranked.   *)
Key(t) == <<task[t].scope, ToSet(task[t].items)>>
Hits(t) == {e \in kept : e.key = Key(t) /\ Valid([ids |-> e.ids, clean |-> TRUE], task[t].items)}

(* get_ai_cache: what is kept is checked again.                            *)
LookUp(t) ==
    /\ task[t].stage = "lookup"
    /\ \/ \E e \in Hits(t) : Finish(t, "cached", Applied(task[t].items, e.ids))
       \/ Hits(t) = {} /\ Turns(t, [task[t] EXCEPT !.stage = "admit"])
    /\ UNCHANGED <<mode, usage, permits, kept, analysis, called>>

(* try_acquire of the account's permits.                                   *)
Admit(t) ==
    LET u == task[t].who
    IN  /\ task[t].stage = "admit"
        /\ IF ~task[t].charged
           THEN Turns(t, [task[t] EXCEPT !.stage = "call"]) /\ UNCHANGED permits
           ELSE IF permits[u] < MaxPermits
           THEN /\ Turns(t, [task[t] EXCEPT !.stage = "charge", !.permit = TRUE])
                /\ permits' = [permits EXCEPT ![u] = @ + 1]
           ELSE Finish(t, "fallback", task[t].items) /\ UNCHANGED permits
        /\ UNCHANGED <<mode, usage, kept, analysis, called>>

\* Mutant: one call more than the quota.
QuotaLeftOneMore(u) == usage[u] <= DailyQuota
QuotaLeft(u) == usage[u] < DailyQuota

(* consume_account_ai_quota, one transaction: it may also fail.            *)
Charge(t, fails) ==
    LET u == task[t].who
    IN  /\ task[t].stage = "charge"
        /\ IF QuotaLeft(u) /\ ~fails
           THEN /\ usage' = [usage EXCEPT ![u] = @ + 1]
                /\ Turns(t, [task[t] EXCEPT !.stage = "call"]) /\ UNCHANGED permits
           ELSE Finish(t, "fallback", task[t].items) /\ Frees(t) /\ UNCHANGED usage
        /\ UNCHANGED <<mode, kept, analysis, called>>

(* run_rank_completion begins ...                                          *)
CallModel(t) ==
    LET u == task[t].who
    IN  /\ task[t].stage = "call"
        /\ Turns(t, [task[t] EXCEPT !.stage = "wait"])
        /\ called' = IF task[t].charged THEN [called EXCEPT ![u] = @ + 1] ELSE called
        /\ UNCHANGED <<mode, usage, permits, kept, analysis>>

(* ... and fails, or answers: the ranking is kept and applied, or the base *)
(* ranking stands.                                                         *)
ModelFails(t) ==
    /\ task[t].stage = "wait"
    /\ Finish(t, "fallback", task[t].items) /\ Frees(t)
    /\ UNCHANGED <<mode, usage, kept, analysis, called>>

ModelAnswers(t, output) ==
    LET items == task[t].items
        ranking == Accepted(output, items)
    IN  /\ task[t].stage = "wait" /\ Acceptable(output, items)
        /\ kept' = {e \in kept : e.key # Key(t)} \cup {[key |-> Key(t), ids |-> ranking]}
        /\ Finish(t, "used", Applied(items, ranking)) /\ Frees(t)
        /\ UNCHANGED <<mode, usage, analysis, called>>

(* complete_progressive_analysis; get_ai_analysis serves the row until it  *)
(* expires.                                                                *)
Complete(t) ==
    /\ task[t].stage = "done"
    /\ Turns(t, NoTask)
    /\ analysis' = [analysis EXCEPT ![t] = IF @ = "pending" THEN task[t].status ELSE @]
    /\ UNCHANGED <<mode, usage, permits, kept, called>>

(***************************************************************************)
(* Everything else                                                         *)
(***************************************************************************)

(* put_account_ai_settings. A custom provider was resolved and checked     *)
(* before; deleting its key returns to the built-in one.                   *)
Configured(u, m) == mode' = [mode EXCEPT ![u] = m]

SetMode(u, m) ==
    /\ Configured(u, m)
    /\ UNCHANGED <<usage, permits, kept, task, analysis, called>>

DeleteKey(u) ==
    /\ Configured(u, "builtin")
    /\ UNCHANGED <<usage, permits, kept, task, analysis, called>>

(* The next UTC day has a quota of its own. Calls across midnight are not  *)
(* modelled.                                                               *)
NextDay ==
    /\ \A t \in Tasks : task[t].stage \notin {"charge", "call"}
    /\ usage' = [u \in Users |-> 0] /\ called' = [u \in Users |-> 0]
    /\ UNCHANGED <<mode, permits, kept, task, analysis>>

(* Six hours later a ranking is gone, and so is an analysis.               *)
Forget(e) ==
    /\ e \in kept /\ kept' = kept \ {e}
    /\ UNCHANGED <<mode, usage, permits, task, analysis, called>>
ForgetAnalysis(t) ==
    /\ analysis[t] # "none" /\ task[t] = NoTask
    /\ analysis' = [analysis EXCEPT ![t] = "none"]
    /\ UNCHANGED <<mode, usage, permits, kept, task, called>>

(* The client of a request that waits goes away: the permit is dropped     *)
(* with the request, the charge stays. A search has answered by then.      *)
ClientLeaves(t) ==
    /\ task[t].stage \notin {"idle", "done"} /\ analysis[t] = "none"
    /\ Turns(t, NoTask) /\ Frees(t)
    /\ UNCHANGED <<mode, usage, kept, analysis, called>>

(* A restart forgets permits and tasks; a pending analysis stays pending.  *)
RestartServer ==
    /\ task' = [t \in Tasks |-> NoTask] /\ permits' = [u \in Users |-> 0]
    /\ UNCHANGED <<mode, usage, kept, analysis, called>>

RankNext ==
    \/ \E t \in Tasks :
         \/ \E ask \in Asks, base \in Bases, hits \in Retrieved :
               BeginRanking(t, ask, base, hits)
         \/ RefuseModel(t) \/ ResolveGateway(t) \/ PublishAnalysis(t) \/ LookUp(t)
         \/ Admit(t) \/ CallModel(t) \/ ModelFails(t)
         \/ \E fails \in BOOLEAN : Charge(t, fails)
         \/ \E output \in Outputs : ModelAnswers(t, output)
         \/ Complete(t) \/ ForgetAnalysis(t) \/ ClientLeaves(t)
    \/ \E u \in Users : DeleteKey(u) \/ \E m \in Modes : SetMode(u, m)
    \/ \E e \in kept : Forget(e)
    \/ NextDay \/ RestartServer

RankSpec == RankInit /\ [][RankNext]_rankVars

(***************************************************************************)
(* Properties                                                              *)
(***************************************************************************)

RankTypeOK ==
    /\ mode \in [Users -> Modes]
    /\ usage \in [Users -> Nat] /\ permits \in [Users -> 0..MaxPermits]
    /\ \A e \in kept : e.ids \in SeqOf(Games, MaxRanked)
    /\ \A t \in Tasks : analysis[t] \in {"none", "pending", "used", "cached", "fallback"}

(* Whatever a model says or the cache kept, a result has the games of the  *)
(* base ranking, each once (PRD_AI_0.3.md:110): nothing invented, nothing  *)
(* lost.                                                                   *)
RankingKeepsList ==
    \A t \in Tasks : /\ ToSet(task[t].items) = ToSet(task[t].base)
                     /\ Len(task[t].items) = Len(task[t].base)

(* An account's own rankings of a day never cost more model calls than its *)
(* quota, none without a charge (API.md:605), and permits are exactly the  *)
(* calls that hold one, also when clients leave or calls fail.             *)
CallsWithinQuota ==
    \A u \in Users :
        /\ called[u] <= usage[u] /\ usage[u] <= DailyQuota
        /\ permits[u] = Quantify({t \in Tasks : task[t].who = u}, LAMBDA t : task[t].permit)
=============================================================================
