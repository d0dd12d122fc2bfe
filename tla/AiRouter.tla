------------------------------ MODULE AiRouter ------------------------------
(***************************************************************************)
(* TaskRouter: a call for one task walks a chain of models, each over the  *)
(* protocols it may understand, within a time shared by the whole chain.   *)
(* All calls of the process share one circuit per model and the model      *)
(* registry; each attempt awaits the provider, and in the meantime other   *)
(* calls change both.                                                      *)
(*                                                                         *)
(* The provider is there and the task's route is enabled; otherwise a call *)
(* answers Disabled and changes nothing.                                   *)
(***************************************************************************)
EXTENDS Integers, Sequences, FiniteSets, Selection

CONSTANTS Calls,          \* calls that may be under way at once
          Chain,          \* by call: primary model and fallbacks, or one model asked for
          Preference,     \* protocol_preference, a sequence
          RouteTicks,     \* the route's timeout
          FailureThreshold,      \* circuit_failure_threshold
          OpenTicks,      \* circuit_open_ms
          FreshTicks,     \* lifetime of the registry
          MaxClock         \* bound on the clock

Models == UNION {{Chain[c][i] : i \in DOMAIN Chain[c]} : c \in Calls}
Wires == {Preference[i] : i \in DOMAIN Preference}
Never == -1

ASSUME RouterAssumption ==
    /\ \A c \in Calls : Chain[c] \in Seq(Models)
    /\ Preference \in Seq(Wires)
    /\ RouteTicks \in Nat /\ RouteTicks >= 2
    /\ {FailureThreshold, OpenTicks} \subseteq Nat \ {0}
    /\ FreshTicks \in Nat /\ MaxClock \in Nat

VARIABLES clock,
          circuit,    \* by model: failures in a row, open until
          registry,   \* [at, rows]: when it was made and what it knows; at = Never: empty
          call        \* the calls

routerVars == <<clock, circuit, registry, call>>

NoCall == [stage |-> "idle", ends |-> 0, expires |-> 0, models |-> <<>>, wires |-> <<>>,
           tried |-> 0, last |-> "none"]

(* refresh_model_registry, once when the server starts: it may fail. A     *)
(* listed model is taken to speak every protocol.                          *)
RouterInit ==
    /\ clock = 0
    /\ circuit = [m \in Models |-> [failures |-> 0, until |-> 0]]
    /\ \/ registry = [at |-> Never, rows |-> <<>>]
       \/ \E listed \in SUBSET Models :
            registry = [at |-> 0, rows |-> [m \in listed |-> [available |-> TRUE, wires |-> Wires]]]
    /\ call = [c \in Calls |-> NoCall]

Becomes(c, fields) == call' = [call EXCEPT ![c] = fields]

(* A call ends with its answer; each of them is made once.                 *)
Over(c, error) == [call[c] EXCEPT !.stage = "over", !.models = <<>>, !.wires = <<>>, !.last = error]

(* The route's time runs before the budget is asked (AiBudget).            *)
StartCall(c, within) ==
    /\ call[c].stage = "idle"
    /\ Becomes(c, IF within
                  THEN [NoCall EXCEPT !.stage = "walk", !.ends = clock + RouteTicks,
                                      !.models = Chain[c]]
                  ELSE Over(c, "budget"))
    /\ UNCHANGED <<clock, circuit, registry>>

(***************************************************************************)
(* The walk along the chain                                                *)
(***************************************************************************)

(* is_model_allowed: everything while the registry is empty, afterwards    *)
(* only what it lists as available, however old it is.                     *)
Allowed(m) ==
    registry.at # Never => m \in DOMAIN registry.rows /\ registry.rows[m].available

Fresh == registry.at # Never /\ clock - registry.at < FreshTicks

(* protocols_for_model: what the model is known not to speak is left out   *)
(* while the registry is fresh.                                            *)
WiresFor(m) ==
    LET Known(wire) == m \in DOMAIN registry.rows => wire \in registry.rows[m].wires
    IN  Among(Preference, {wire \in Wires : Known(wire) \/ ~Fresh})

NextModel(c) == [call[c] EXCEPT !.stage = "walk", !.models = Tail(@), !.wires = <<>>]

\* Mutant: one attempt may take all that is left.
AttemptTicksAll(left) == left

(* per_attempt_budget: half of the route's time, or what is left.          *)
AttemptTicks(left) == IF left < RouteTicks \div 2 THEN left ELSE RouteTicks \div 2

(* The next attempt at this model, over the first of the protocols left.   *)
Attempt(c, wires) ==
    IF clock >= call[c].ends THEN Over(c, "deadline")
    ELSE [call[c] EXCEPT !.stage = "wait", !.wires = wires, !.tried = @ + 1,
                         !.expires = clock + AttemptTicks(call[c].ends - clock)]

(* The head of the loop over models: out of time, not allowed, circuit     *)
(* open, no protocol, or the first attempt. At the end of the chain the    *)
(* last error is the answer.                                               *)
ConsiderModel(c) ==
    LET m == Head(call[c].models)
    IN  /\ call[c].stage = "walk"
        /\ Becomes(c,
             IF call[c].models = <<>> THEN Over(c, call[c].last)
             ELSE IF clock >= call[c].ends THEN Over(c, "deadline")
             ELSE IF ~Allowed(m) THEN NextModel(c)
             ELSE IF circuit[m].until > clock THEN [NextModel(c) EXCEPT !.last = "circuit open"]
             ELSE IF WiresFor(m) = <<>> THEN [NextModel(c) EXCEPT !.last = "no protocol"]
             ELSE Attempt(c, WiresFor(m)))
        /\ UNCHANGED <<clock, circuit, registry>>

(* record_protocol_success, mark_unavailable: both make a registry of one  *)
(* row when there was none, so that every other model is then left out;    *)
(* a new row knows one protocol or none.                                   *)
Row(m) == IF m \in DOMAIN registry.rows THEN registry.rows[m]
          ELSE [available |-> TRUE, wires |-> {}]

WithRow(m, row) ==
    [at |-> IF registry.at = Never THEN clock ELSE registry.at,
     rows |-> [x \in DOMAIN registry.rows \cup {m} |-> IF x = m THEN row ELSE registry.rows[x]]]

Succeed(c) ==
    LET m == Head(call[c].models)
    IN  /\ call[c].stage = "wait"
        /\ circuit' = [circuit EXCEPT ![m] = [failures |-> 0, until |-> 0]]
        /\ registry' = WithRow(m, [available |-> TRUE,
                                   wires |-> Row(m).wires \cup {Head(call[c].wires)}])
        /\ Becomes(c, Over(c, "answered"))
        /\ UNCHANGED <<clock>>

(* note_model_failure: the count first; the circuit opens in a second      *)
(* step, also if a success cleared the count in between.                   *)
Failed(c, error) ==
    LET m == Head(call[c].models)
        opens == circuit[m].failures + 1 >= FailureThreshold
    IN  /\ circuit' = [circuit EXCEPT ![m].failures = @ + 1]
        /\ Becomes(c, IF opens THEN [call[c] EXCEPT !.stage = "trip", !.last = error]
                      ELSE [NextModel(c) EXCEPT !.last = error])

TripCircuit(c) ==
    /\ call[c].stage = "trip"
    /\ circuit' = [circuit EXCEPT ![Head(call[c].models)].until = clock + OpenTicks]
    /\ Becomes(c, NextModel(c))
    /\ UNCHANGED <<clock, registry>>

(* Any error but a rejected protocol ends the attempts at this model.      *)
FailModel(c, missing) ==
    LET m == Head(call[c].models)
    IN  /\ call[c].stage = "wait"
        /\ registry' = IF missing THEN WithRow(m, [Row(m) EXCEPT !.available = FALSE])
                       ELSE registry
        /\ Failed(c, "failed")
        /\ UNCHANGED <<clock>>

(* is_protocol_rejection: the next protocol is tried first, and only when  *)
(* the last one is rejected the model has failed.                          *)
RejectProtocol(c) ==
    LET rest == Tail(call[c].wires)
    IN  /\ call[c].stage = "wait"
        /\ IF rest = <<>> THEN Failed(c, "failed")
           ELSE Becomes(c, Attempt(c, rest)) /\ UNCHANGED circuit
        /\ UNCHANGED <<clock, registry>>

(* The attempt's own time is up: next protocol, then next model, without   *)
(* blame for the model.                                                    *)
ExpireAttempt(c) ==
    LET rest == Tail(call[c].wires)
    IN  /\ call[c].stage = "wait" /\ clock >= call[c].expires
        /\ Becomes(c, IF clock >= call[c].ends THEN Over(c, "deadline")
                      ELSE IF rest = <<>> THEN [NextModel(c) EXCEPT !.last = "timeout"]
                      ELSE [Attempt(c, rest) EXCEPT !.last = "timeout"])
        /\ UNCHANGED <<clock, circuit, registry>>

(* Time passes while calls count or wait. Timers fire when they are due,   *)
(* and what happens between two awaits of the walk takes no time.          *)
RouterTick ==
    /\ clock < MaxClock /\ clock' = clock + 1
    /\ \A c \in Calls : \/ call[c].stage \in {"idle", "over"}
                        \/ call[c].stage = "wait" /\ clock < call[c].expires
    /\ UNCHANGED <<circuit, registry, call>>

RouterNext ==
    \/ RouterTick
    \/ \E c \in Calls, flag \in BOOLEAN : StartCall(c, flag) \/ FailModel(c, flag)
    \/ \E c \in Calls : \/ ConsiderModel(c) \/ Succeed(c) \/ RejectProtocol(c)
                        \/ ExpireAttempt(c) \/ TripCircuit(c)

RouterSpec == RouterInit /\ [][RouterNext]_routerVars

(***************************************************************************)
(* Properties                                                              *)
(***************************************************************************)

RouterTypeOK ==
    /\ clock \in 0..MaxClock
    /\ circuit \in [Models -> [failures : Nat, until : 0..(MaxClock + OpenTicks)]]
    /\ registry.at \in Never..MaxClock /\ DOMAIN registry.rows \subseteq Models
    /\ \A c \in Calls : call[c].stage \in {"idle", "walk", "wait", "trip", "over"}

(* A single hang cannot burn the whole chain budget (router.rs:282): a     *)
(* call that runs out of time has asked at least twice.                    *)
HangLeavesRoom ==
    \A c \in Calls : call[c].last = "deadline" => call[c].tried >= 2
=============================================================================
