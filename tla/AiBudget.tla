------------------------------ MODULE AiBudget ------------------------------
(***************************************************************************)
(* consume_budget of TaskRouter and of AiGateway: how many model calls the *)
(* process makes in a minute and in a day. The counters are relaxed        *)
(* atomics, so each load and store is a step of its own, and the wall      *)
(* clock is read once, before all of them.                                 *)
(***************************************************************************)
EXTENDS Integers

CONSTANTS Callers,        \* calls, each of which counts once
          MinuteTicks, DayTicks,
          MinuteBudget, DayBudget,
          MaxWall         \* bound on the clock

ASSUME BudgetAssumption ==
    /\ {MinuteTicks, DayTicks, MinuteBudget, DayBudget} \subseteq Nat \ {0}
    /\ MaxWall \in Nat

VARIABLES wall,       \* the clock
          budget,     \* by window: the one counted last and its count
          caller,     \* [stage, at, window] of each call
          passed,     \* history: by window and its number, calls the count let through
          racers      \* history: calls that found another one counting

budgetVars == <<wall, budget, caller, passed, racers>>

Windows == {"minute", "day"}
Number(w, t) == t \div (IF w = "minute" THEN MinuteTicks ELSE DayTicks)
Limit(w) == IF w = "minute" THEN MinuteBudget ELSE DayBudget
Unset == -1

Counting(c) == caller[c].stage \in {"load", "window", "count", "add"}

BudgetInit ==
    /\ wall = 0 /\ racers = 0
    /\ budget = [w \in Windows |-> [number |-> Unset, count |-> 0]]
    /\ caller = [c \in Callers |-> [stage |-> "idle", at |-> 0, window |-> "minute"]]
    /\ passed = [w \in Windows |-> [n \in 0..Number(w, MaxWall) |-> 0]]

CallerAt(c, stage) == caller' = [caller EXCEPT ![c].stage = stage]

StartCounting(c) ==
    /\ caller[c].stage = "idle"
    /\ caller' = [caller EXCEPT ![c] = [stage |-> "load", at |-> wall, window |-> "minute"]]
    /\ racers' = IF \E d \in Callers \ {c} : Counting(d) THEN racers + 1 ELSE racers
    /\ UNCHANGED <<wall, budget, passed>>

(* The window this call is in, by its own reading of the clock.            *)
OwnNumber(c) == Number(caller[c].window, caller[c].at)

LoadWindow(c) ==
    /\ caller[c].stage = "load"
    /\ CallerAt(c, IF budget[caller[c].window].number # OwnNumber(c) THEN "window" ELSE "add")
    /\ UNCHANGED <<wall, budget, passed, racers>>

StoreWindow(c) ==
    /\ caller[c].stage = "window"
    /\ budget' = [budget EXCEPT ![caller[c].window].number = OwnNumber(c)]
    /\ CallerAt(c, "count")
    /\ UNCHANGED <<wall, passed, racers>>

ClearCount(c) ==
    /\ caller[c].stage = "count"
    /\ budget' = [budget EXCEPT ![caller[c].window].count = 0]
    /\ CallerAt(c, "add")
    /\ UNCHANGED <<wall, passed, racers>>

\* Mutant: what is compared is the count before this call.
CountedBefore(count) == count

(* fetch_add and the count with this call in it.                           *)
CountedWith(count) == count + 1

(* The minute comes first, so a call the day refuses has used its minute.  *)
AddOne(c) ==
    LET w == caller[c].window
        within == CountedWith(budget[w].count) <= Limit(w)
    IN  /\ caller[c].stage = "add"
        /\ budget' = [budget EXCEPT ![w].count = @ + 1]
        /\ caller' = [caller EXCEPT ![c].window = "day",
                        ![c].stage = IF ~within THEN "refused"
                                     ELSE IF w = "minute" THEN "load" ELSE "granted"]
        /\ passed' = IF within THEN [passed EXCEPT ![w][OwnNumber(c)] = @ + 1] ELSE passed
        /\ UNCHANGED <<wall, racers>>

PassTime ==
    /\ wall < MaxWall /\ wall' = wall + 1
    /\ UNCHANGED <<budget, caller, passed, racers>>

BudgetNext ==
    \/ PassTime
    \/ \E c \in Callers :
         StartCounting(c) \/ LoadWindow(c) \/ StoreWindow(c) \/ ClearCount(c) \/ AddOne(c)

BudgetSpec == BudgetInit /\ [][BudgetNext]_budgetVars

BudgetTypeOK ==
    /\ wall \in 0..MaxWall /\ racers \in Nat
    /\ \A w \in Windows : /\ budget[w].number \in Unset..Number(w, MaxWall)
                          /\ budget[w].count \in Nat
    /\ caller \in [Callers -> [stage : {"idle", "load", "window", "count", "add", "granted",
                                       "refused"}, at : 0..MaxWall, window : Windows]]

(* A window lets no more calls through than its budget, and calls that     *)
(* meet while they count cost at most one call more each, whatever number  *)
(* of windows they clear: the load, the stores and the add are not one     *)
(* step (router.rs:437, gateway.rs:148), and a late call can even put an   *)
(* older minute back.                                                      *)
BudgetHolds ==
    \A w \in Windows : \A n \in DOMAIN passed[w] : passed[w][n] <= Limit(w) + racers
=============================================================================
