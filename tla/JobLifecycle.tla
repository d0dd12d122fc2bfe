---------------------------- MODULE JobLifecycle ----------------------------
(***************************************************************************)
(* What the durable job queue promises, without saying how: a submitted    *)
(* job is pending until it is leased to one owner, only that owner can     *)
(* settle the lease it holds, a lease may lapse at any time and make the   *)
(* job pending again, and a completed or dead job is never touched again.  *)
(* JobQueue implements this specification when every queue call runs       *)
(* behind one process's write lock.                                        *)
(***************************************************************************)
EXTENDS Naturals

CONSTANTS
    Jobs,     \* job identities
    Owners,   \* lease owner names
    None      \* "no owner"

VARIABLES
    phase,      \* phase[j]: where the job is in its life
    holder,     \* holder[j]: the owner of the current lease, None without one
    tries,      \* tries[j]: leases granted so far
    settledBy   \* settledBy[j]: the owner whose completion was accepted

lifeVars == <<phase, holder, tries, settledBy>>

Init ==
    /\ phase = [j \in Jobs |-> "absent"]
    /\ holder = [j \in Jobs |-> None]
    /\ tries = [j \in Jobs |-> 0]
    /\ settledBy = [j \in Jobs |-> None]

Submit(j) ==
    /\ phase[j] = "absent"
    /\ phase' = [phase EXCEPT ![j] = "pending"]
    /\ UNCHANGED <<holder, tries, settledBy>>

Grant(j, o) ==
    /\ phase[j] = "pending"
    /\ phase' = [phase EXCEPT ![j] = "leased"]
    /\ holder' = [holder EXCEPT ![j] = o]
    /\ tries' = [tries EXCEPT ![j] = @ + 1]
    /\ UNCHANGED settledBy

\* One recovery statement makes every lapsed job pending at once.
Lapse(S) ==
    /\ \A j \in S : phase[j] = "leased"
    /\ phase' = [j \in Jobs |-> IF j \in S THEN "pending" ELSE phase[j]]
    /\ holder' = [j \in Jobs |-> IF j \in S THEN None ELSE holder[j]]
    /\ UNCHANGED <<tries, settledBy>>

\* The holder o settles its lease: accepted result, retry later, or dead.
Settle(j, o, to) ==
    /\ phase[j] = "leased"
    /\ holder[j] = o
    /\ phase' = [phase EXCEPT ![j] = to]
    /\ holder' = [holder EXCEPT ![j] = None]
    /\ settledBy' = [settledBy EXCEPT ![j] = IF to = "completed" THEN o ELSE @]
    /\ UNCHANGED tries

Next ==
    \/ \E j \in Jobs : Submit(j)
    \/ \E j \in Jobs, o \in Owners : Grant(j, o)
    \/ \E S \in SUBSET Jobs : Lapse(S)
    \/ \E j \in Jobs, o \in Owners, to \in {"completed", "pending", "dead"} :
           Settle(j, o, to)

Spec == Init /\ [][Next]_lifeVars
=============================================================================
