----------------------------- MODULE Speculation -----------------------------
(***************************************************************************)
(* SpeculativeExecutor.run (app/routing/router/speculative.py): the branch *)
(* of the likely route starts before the router has decided; a hit keeps   *)
(* its result, a miss cancels it and runs the branch of the true route.    *)
(*                                                                         *)
(* The router and the speculative dispatch are asyncio tasks; the second   *)
(* dispatch runs inside run() itself.  A task that is cancelled ends at    *)
(* one of its awaits, cancelled or with an exception of its clean-up.      *)
(***************************************************************************)
EXTENDS Naturals

CONSTANTS
    DecidedRoutes,     \* routes the router may decide
    SpeculativeRoute,  \* speculative_route
    MaxCancels         \* bound: cancellations of run()

ASSUME SpeculationAssumption == SpeculativeRoute \in DecidedRoutes /\ MaxCancels \in Nat

VARIABLES
    router_task,       \* state of the task that routes
    speculative_task,  \* state of the task that runs the likely branch
    run                \* run() itself

speculationVars == <<router_task, speculative_task, run>>

TaskStates == {"running", "cancelling", "ok", "raised", "cancelled"}
Ended == {"ok", "raised", "cancelled"}

(* The awaits of run(): router_task, speculative_task after a hit, _cancel *)
(* after a miss, the dispatch after a miss, _cancel in the finally clause. *)
Awaits == {"router_task", "speculative_task", "drop", "dispatch", "cleanup"}

(* cancelled_at is history: where run() was cancelled.                     *)
Runs == [at: Awaits \cup {"finally", "ended"}, actual_route: DecidedRoutes,
         branch_result: {"none", "speculative", "dispatched"},
         outcome: {"none", "returns", "raises", "cancelled"},
         cancels: 0..MaxCancels, cancelled_at: SUBSET Awaits]

SpeculationTypeOK ==
    /\ router_task \in TaskStates
    /\ speculative_task \in TaskStates
    /\ run \in Runs

SpeculationInit ==
    /\ router_task = "running"
    /\ speculative_task = "running"
    /\ run = [at |-> "router_task", actual_route |-> SpeculativeRoute, branch_result |-> "none",
              outcome |-> "none", cancels |-> 0, cancelled_at |-> {}]

TaskOutcomes(task) == IF task = "cancelling" THEN {"cancelled", "raised"} ELSE {"ok", "raised"}

RouterEnds ==
    /\ router_task \notin Ended
    /\ router_task' \in TaskOutcomes(router_task)
    /\ UNCHANGED <<speculative_task, run>>

SpeculativeEnds ==
    /\ speculative_task \notin Ended
    /\ speculative_task' \in TaskOutcomes(speculative_task)
    /\ UNCHANGED <<router_task, run>>

Leaves(outcome, branch_result) ==
    run' = [run EXCEPT !.at = "finally", !.outcome = outcome, !.branch_result = branch_result]

(* An exception of the awaited task goes on in run().                      *)
Propagates(task) ==
    \/ task = "raised" /\ Leaves("raises", "none")
    \/ task = "cancelled" /\ Leaves("cancelled", "none")

(* A miss: _cancel asks the speculation to end, unless it has ended, even  *)
(* with an exception.                                                      *)
Drops(route) ==
    IF speculative_task \in Ended
    THEN /\ run' = [run EXCEPT !.at = "dispatch", !.actual_route = route]
         /\ UNCHANGED speculative_task
    ELSE /\ run' = [run EXCEPT !.at = "drop", !.actual_route = route]
         /\ speculative_task' = "cancelling"

(* A decision that was not accepted counts as the default route.           *)
Decide ==
    /\ run.at = "router_task" /\ router_task = "ok"
    /\ \E route \in DecidedRoutes :
        IF route = SpeculativeRoute
        THEN /\ run' = [run EXCEPT !.at = "speculative_task", !.actual_route = route]
             /\ UNCHANGED speculative_task
        ELSE Drops(route)
    /\ UNCHANGED router_task

RouterFails ==
    /\ run.at = "router_task" /\ Propagates(router_task)
    /\ UNCHANGED <<router_task, speculative_task>>

Hit ==
    /\ run.at = "speculative_task"
    /\ \/ speculative_task = "ok" /\ Leaves("returns", "speculative")
       \/ Propagates(speculative_task)
    /\ UNCHANGED <<router_task, speculative_task>>

(* _cancel passes over CancelledError and nothing else.                    *)
Dropped ==
    /\ run.at = "drop"
    /\ \/ speculative_task = "cancelled" /\ run' = [run EXCEPT !.at = "dispatch"]
       \/ speculative_task = "raised" /\ Leaves("raises", "none")
    /\ UNCHANGED <<router_task, speculative_task>>

DispatchEnds ==
    /\ run.at = "dispatch"
    /\ Leaves("returns", "dispatched") \/ Leaves("raises", "none")
    /\ UNCHANGED <<router_task, speculative_task>>

(* Bug: only a miss cancels the speculation.                               *)
FinallyForgets ==
    /\ run.at = "finally"
    /\ run' = [run EXCEPT !.at = "ended"]
    /\ UNCHANGED <<router_task, speculative_task>>

(* The router has ended whenever the clause is reached: run() waited for   *)
(* it first.                                                               *)
Finally ==
    /\ run.at = "finally"
    /\ IF speculative_task \in Ended
       THEN run' = [run EXCEPT !.at = "ended"] /\ UNCHANGED speculative_task
       ELSE run' = [run EXCEPT !.at = "cleanup"] /\ speculative_task' = "cancelling"
    /\ UNCHANGED router_task

CleanedUp ==
    /\ run.at = "cleanup" /\ speculative_task \in Ended
    /\ run' = [run EXCEPT !.at = "ended", !.outcome = IF speculative_task = "raised" THEN "raises" ELSE @]
    /\ UNCHANGED <<router_task, speculative_task>>

(* Inside _cancel the cancellation of run() is passed over like the one of *)
(* the task, and with it the exception of a task that has just ended.      *)
PassedOver == IF speculative_task \notin Ended THEN run.at
              ELSE IF run.at = "drop" THEN "dispatch" ELSE "ended"

Asked == [run EXCEPT !.cancels = @ + 1, !.cancelled_at = @ \cup {run.at}]
AskedLeaves == [Asked EXCEPT !.at = "finally", !.outcome = "cancelled"]

(* The caller cancels run().  A cancellation goes to the task run() waits  *)
(* for; if that has ended, run() is cancelled itself.                      *)
CancelRun ==
    /\ run.at \in Awaits /\ run.cancels < MaxCancels
    /\ \/ /\ run.at = "router_task" /\ router_task \notin Ended
          /\ router_task' = "cancelling" /\ run' = Asked
          /\ UNCHANGED speculative_task
       \/ /\ run.at = "speculative_task" /\ speculative_task \notin Ended
          /\ speculative_task' = "cancelling" /\ run' = Asked
          /\ UNCHANGED router_task
       \/ /\ \/ run.at = "router_task" /\ router_task \in Ended
             \/ run.at = "speculative_task" /\ speculative_task \in Ended
             \/ run.at = "dispatch"
          /\ run' = AskedLeaves
          /\ UNCHANGED <<router_task, speculative_task>>
       \/ /\ run.at \in {"drop", "cleanup"}
          /\ run' = [Asked EXCEPT !.at = PassedOver]
          /\ UNCHANGED <<router_task, speculative_task>>

SpeculationNext ==
    \/ RouterEnds \/ SpeculativeEnds
    \/ Decide \/ RouterFails \/ Hit \/ Dropped \/ DispatchEnds \/ Finally \/ CleanedUp
    \/ CancelRun

SpeculationSpec == SpeculationInit /\ [][SpeculationNext]_speculationVars

(* run() leaves no task behind, however it ends and whenever it was        *)
(* cancelled; and the branch of the true route never runs beside the       *)
(* dropped one.                                                            *)
NothingLeftRunning ==
    /\ run.at = "ended" => router_task \in Ended /\ speculative_task \in Ended
    /\ run.at = "dispatch" => speculative_task \in Ended

(* A result always belongs to the route the router decided: the            *)
(* speculation's when that is the speculative route, else the second       *)
(* dispatch's.                                                             *)
ResultOfRoute ==
    run.outcome = "returns" =>
        run.branch_result = IF run.actual_route = SpeculativeRoute THEN "speculative" ELSE "dispatched"

(* A cancelled run() does not return a result, unless every cancellation   *)
(* came while it waited for a dropped task: there alone one is lost.       *)
CancellationIsKept ==
    run.at = "ended" /\ ~(run.cancelled_at \subseteq {"drop", "cleanup"}) => run.outcome # "returns"

(* What run() leaves behind and returns, whenever it is cancelled and      *)
(* however its tasks end.                                                  *)
RunIsClean ==
    SpeculationTypeOK /\ NothingLeftRunning /\ ResultOfRoute /\ CancellationIsKept
==============================================================================
