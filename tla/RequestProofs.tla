---------------------------- MODULE RequestProofs ----------------------------
(***************************************************************************)
(* Proofs about the parts of a chat request that run beside each other: the *)
(* speculative executor, the messages of a conversation, and the summaries *)
(* made of batches in parallel.                                            *)
(***************************************************************************)
EXTENDS Speculation, Conversation, Summarizer, GlobalSummary, SequenceLemmas

(***************************************************************************)
(* Proofs about SpeculativeExecutor.run, for any routes and any number of  *)
(* cancellations.  At every await of run() three things are known: which   *)
(* tasks have ended (TasksEnd), which route the result will belong to      *)
(* (RouteKnown), and that a cancellation is still on its way to run() or   *)
(* has decided its outcome (CancellationReaches).                          *)
(***************************************************************************)

Over == {"finally", "cleanup", "ended"}
Fails == {"raises", "cancelled"}

TasksEnd ==
    /\ run.at # "router_task" => router_task \in Ended
    /\ run.at \in {"dispatch", "ended"} => speculative_task \in Ended

RouteKnown ==
    /\ run.at \notin Over => run.outcome = "none"
    /\ run.at = "speculative_task" => run.actual_route = SpeculativeRoute
    /\ run.at \in {"drop", "dispatch"} => run.actual_route # SpeculativeRoute
    /\ ResultOfRoute

(* task was cancelled while run() waited for it at the step named at.      *)
OnItsWay(at, task) ==
    at \in run.cancelled_at =>
        \/ run.at = at /\ task \in {"cancelling", "cancelled", "raised"}
        \/ run.outcome \in Fails

CancellationReaches ==
    /\ OnItsWay("router_task", router_task)
    /\ OnItsWay("speculative_task", speculative_task)
    /\ "dispatch" \in run.cancelled_at => run.outcome \in Fails

SpeculationInv == SpeculationTypeOK /\ TasksEnd /\ RouteKnown /\ CancellationReaches

LEMMA SpeculationInitInv == SpeculationInit => SpeculationInv
<1> SUFFICES ASSUME SpeculationInit PROVE SpeculationInv
  OBVIOUS
<1>1. SpeculationTypeOK
  BY SpeculationAssumption DEF SpeculationInit, SpeculationTypeOK, Runs, TaskStates, Awaits
<1>2. TasksEnd /\ RouteKnown /\ CancellationReaches
  BY DEF SpeculationInit, TasksEnd, RouteKnown, ResultOfRoute, CancellationReaches, OnItsWay, Over
<1> QED BY <1>1, <1>2 DEF SpeculationInv

(* A task that ends while run() does nothing.                              *)
LEMMA TaskEndsInv ==
    ASSUME SpeculationInv, RouterEnds \/ SpeculativeEnds
    PROVE  SpeculationInv'
<1>1. SpeculationTypeOK'
  BY DEF SpeculationInv, SpeculationTypeOK, RouterEnds, SpeculativeEnds, TaskOutcomes, TaskStates
<1>2. TasksEnd'
  BY DEF SpeculationInv, TasksEnd, RouterEnds, SpeculativeEnds, TaskOutcomes, Ended
<1>3. RouteKnown'
  BY DEF SpeculationInv, RouteKnown, ResultOfRoute, RouterEnds, SpeculativeEnds
<1>4. CancellationReaches'
  BY DEF SpeculationInv, CancellationReaches, OnItsWay, RouterEnds, SpeculativeEnds,
         TaskOutcomes, Ended
<1> QED BY <1>1, <1>2, <1>3, <1>4 DEF SpeculationInv

(* run() leaves its try block.                                             *)
LEMMA LeavesInv ==
    ASSUME SpeculationInv, NEW outcome, NEW branch_result, Leaves(outcome, branch_result),
           UNCHANGED <<router_task, speculative_task>>,
           outcome \in {"returns", "raises", "cancelled"},
           branch_result \in {"none", "speculative", "dispatched"},
           router_task \in Ended,
           outcome = "returns" =>
             /\ ~(\E at \in {"router_task", "speculative_task", "dispatch"} : at \in run.cancelled_at)
             /\ branch_result = IF run.actual_route = SpeculativeRoute THEN "speculative" ELSE "dispatched"
    PROVE  SpeculationInv'
<1>1. run \in Runs
  BY DEF SpeculationInv, SpeculationTypeOK
<1>2. /\ run'.at = "finally" /\ run'.outcome = outcome /\ run'.branch_result = branch_result
      /\ run'.actual_route = run.actual_route /\ run'.cancelled_at = run.cancelled_at
      /\ run' \in Runs
  BY <1>1 DEF Leaves, Runs
<1>3. SpeculationTypeOK'
  BY <1>2 DEF SpeculationInv, SpeculationTypeOK
<1>4. TasksEnd'
  BY <1>2 DEF TasksEnd
<1>5. RouteKnown'
  BY <1>2 DEF RouteKnown, ResultOfRoute, Over
<1>6. CancellationReaches'
  BY <1>2 DEF SpeculationInv, CancellationReaches, OnItsWay, Fails
<1> QED BY <1>3, <1>4, <1>5, <1>6 DEF SpeculationInv

(* The exception of a task that ended goes on in run().                    *)
LEMMA PropagatesInv ==
    ASSUME SpeculationInv, NEW task, Propagates(task), router_task \in Ended,
           UNCHANGED <<router_task, speculative_task>>
    PROVE  SpeculationInv'
<1>1. CASE Leaves("raises", "none")
  BY <1>1, LeavesInv
<1>2. CASE Leaves("cancelled", "none")
  BY <1>2, LeavesInv
<1> QED BY <1>1, <1>2 DEF Propagates

(* While run() goes from one await of its try block to the next one, no    *)
(* cancellation is on its way.                                             *)
LEMMA MovesOnInv ==
    ASSUME SpeculationInv, NEW at \in {"speculative_task", "drop", "dispatch"},
           NEW route \in DecidedRoutes,
           run' = [run EXCEPT !.at = at, !.actual_route = route],
           run.at \notin Over,
           at = "speculative_task" <=> route = SpeculativeRoute,
           at = "dispatch" => speculative_task' \in Ended,
           speculative_task' \in TaskStates, UNCHANGED router_task, router_task \in Ended,
           ~(\E c \in {"router_task", "speculative_task", "dispatch"} : c \in run.cancelled_at)
    PROVE  SpeculationInv'
<1>1. run \in Runs
  BY DEF SpeculationInv, SpeculationTypeOK
<1>2. /\ run'.at = at /\ run'.actual_route = route /\ run'.outcome = run.outcome
      /\ run'.cancelled_at = run.cancelled_at
      /\ run' \in Runs
  BY <1>1 DEF Runs, Awaits
<1>3. run.outcome = "none"
  BY DEF SpeculationInv, RouteKnown
<1>4. SpeculationTypeOK'
  BY <1>2 DEF SpeculationInv, SpeculationTypeOK
<1>5. TasksEnd'
  BY <1>2 DEF TasksEnd
<1>6. RouteKnown'
  BY <1>2, <1>3 DEF RouteKnown, ResultOfRoute
<1>7. CancellationReaches'
  BY <1>2 DEF CancellationReaches, OnItsWay
<1> QED BY <1>4, <1>5, <1>6, <1>7 DEF SpeculationInv

LEMMA DecideInv ==
    ASSUME SpeculationInv, Decide
    PROVE  SpeculationInv'
<1>1. /\ router_task \in Ended /\ run.at \notin Over
      /\ ~(\E c \in {"router_task", "speculative_task", "dispatch"} : c \in run.cancelled_at)
  BY DEF SpeculationInv, CancellationReaches, OnItsWay, RouteKnown, Decide, Ended, Over, Fails
<1>2. UNCHANGED router_task /\ speculative_task \in TaskStates
  BY DEF Decide, SpeculationInv, SpeculationTypeOK
<1>3. PICK route \in DecidedRoutes :
        IF route = SpeculativeRoute
        THEN /\ run' = [run EXCEPT !.at = "speculative_task", !.actual_route = route]
             /\ UNCHANGED speculative_task
        ELSE Drops(route)
  BY DEF Decide
<1>4. CASE route = SpeculativeRoute
  BY <1>1, <1>2, <1>3, <1>4, MovesOnInv
<1>5. CASE route # SpeculativeRoute /\ speculative_task \in Ended
  <2>1. run' = [run EXCEPT !.at = "dispatch", !.actual_route = route] /\ UNCHANGED speculative_task
    BY <1>3, <1>5 DEF Drops
  <2> QED BY <1>1, <1>2, <1>5, <2>1, MovesOnInv
<1>6. CASE route # SpeculativeRoute /\ speculative_task \notin Ended
  <2>1. /\ run' = [run EXCEPT !.at = "drop", !.actual_route = route]
        /\ speculative_task' = "cancelling"
    BY <1>3, <1>6 DEF Drops
  <2>2. speculative_task' \in TaskStates
    BY <2>1 DEF TaskStates
  <2> QED BY <1>1, <1>2, <1>6, <2>1, <2>2, MovesOnInv
<1> QED BY <1>4, <1>5, <1>6

LEMMA HitInv ==
    ASSUME SpeculationInv, Hit
    PROVE  SpeculationInv'
<1>1. router_task \in Ended /\ UNCHANGED <<router_task, speculative_task>>
  BY DEF SpeculationInv, TasksEnd, Hit
<1>2. CASE speculative_task = "ok" /\ Leaves("returns", "speculative")
  <2>1. /\ run.actual_route = SpeculativeRoute
        /\ ~(\E at \in {"router_task", "speculative_task", "dispatch"} : at \in run.cancelled_at)
    BY <1>2 DEF SpeculationInv, RouteKnown, CancellationReaches, OnItsWay, Hit, Over, Fails
  <2> QED BY <1>1, <1>2, <2>1, LeavesInv
<1>3. CASE Propagates(speculative_task)
  BY <1>1, <1>3, PropagatesInv
<1> QED BY <1>2, <1>3 DEF Hit

LEMMA DroppedInv ==
    ASSUME SpeculationInv, Dropped
    PROVE  SpeculationInv'
<1>1. router_task \in Ended /\ UNCHANGED <<router_task, speculative_task>>
  BY DEF SpeculationInv, TasksEnd, Dropped
<1>2. CASE speculative_task = "cancelled" /\ run' = [run EXCEPT !.at = "dispatch"]
  <2>1. /\ run.actual_route \in DecidedRoutes \ {SpeculativeRoute} /\ run.at \notin Over
        /\ ~(\E at \in {"router_task", "speculative_task", "dispatch"} : at \in run.cancelled_at)
    BY DEF SpeculationInv, SpeculationTypeOK, Runs, RouteKnown, CancellationReaches, OnItsWay,
           Dropped, Over, Fails
  <2>2. run' = [run EXCEPT !.at = "dispatch", !.actual_route = run.actual_route]
    BY <1>2 DEF SpeculationInv, SpeculationTypeOK, Runs
  <2>3. speculative_task' \in Ended /\ speculative_task' \in TaskStates
    BY <1>1, <1>2 DEF Ended, TaskStates
  <2> QED BY <1>1, <2>1, <2>2, <2>3, MovesOnInv
<1>3. CASE speculative_task = "raised" /\ Leaves("raises", "none")
  BY <1>1, <1>3, LeavesInv
<1> QED BY <1>2, <1>3 DEF Dropped

LEMMA DispatchEndsInv ==
    ASSUME SpeculationInv, DispatchEnds
    PROVE  SpeculationInv'
<1>1. router_task \in Ended /\ UNCHANGED <<router_task, speculative_task>>
  BY DEF SpeculationInv, TasksEnd, DispatchEnds
<1>2. /\ run.actual_route # SpeculativeRoute
      /\ ~(\E at \in {"router_task", "speculative_task", "dispatch"} : at \in run.cancelled_at)
  BY DEF SpeculationInv, RouteKnown, CancellationReaches, OnItsWay, DispatchEnds, Over, Fails
<1>3. CASE Leaves("returns", "dispatched")
  BY <1>1, <1>2, <1>3, LeavesInv
<1>4. CASE Leaves("raises", "none")
  BY <1>1, <1>4, LeavesInv
<1> QED BY <1>3, <1>4 DEF DispatchEnds

(* The finally clause: what has failed stays failed.                       *)
LEMMA CleanupInv ==
    ASSUME SpeculationInv, NEW at \in {"cleanup", "ended"}, NEW outcome,
           run' = [run EXCEPT !.at = at, !.outcome = outcome],
           run.at \in Over, outcome \in {run.outcome, "raises"},
           at = "ended" => speculative_task' \in Ended,
           speculative_task' \in TaskStates, UNCHANGED router_task
    PROVE  SpeculationInv'
<1>1. run \in Runs
  BY DEF SpeculationInv, SpeculationTypeOK
<1>2. /\ run'.at = at /\ run'.outcome = outcome /\ run'.actual_route = run.actual_route
      /\ run'.branch_result = run.branch_result /\ run'.cancelled_at = run.cancelled_at
      /\ run' \in Runs
  BY <1>1 DEF Runs, Awaits
<1>3. SpeculationTypeOK'
  BY <1>2 DEF SpeculationInv, SpeculationTypeOK
<1>4. TasksEnd'
  BY <1>2 DEF SpeculationInv, TasksEnd, Over
<1>5. RouteKnown'
  BY <1>2 DEF SpeculationInv, RouteKnown, ResultOfRoute, Over
<1>6. CancellationReaches'
  BY <1>2 DEF SpeculationInv, CancellationReaches, OnItsWay, Over, Fails
<1> QED BY <1>3, <1>4, <1>5, <1>6 DEF SpeculationInv

LEMMA FinallyInv ==
    ASSUME SpeculationInv, Finally
    PROVE  SpeculationInv'
<1>1. run.at \in Over /\ UNCHANGED router_task /\ run \in Runs /\ speculative_task \in TaskStates
  BY DEF Finally, Over, SpeculationInv, SpeculationTypeOK
<1>2. CASE speculative_task \in Ended
  <2>1. run' = [run EXCEPT !.at = "ended", !.outcome = run.outcome] /\ UNCHANGED speculative_task
    BY <1>1, <1>2 DEF Finally, Runs
  <2> QED BY <1>1, <1>2, <2>1, CleanupInv
<1>3. CASE speculative_task \notin Ended
  <2>1. /\ run' = [run EXCEPT !.at = "cleanup", !.outcome = run.outcome]
        /\ speculative_task' \in TaskStates
    BY <1>1, <1>3 DEF Finally, Runs, TaskStates
  <2> QED BY <1>1, <2>1, CleanupInv
<1> QED BY <1>2, <1>3

LEMMA CleanedUpInv ==
    ASSUME SpeculationInv, CleanedUp
    PROVE  SpeculationInv'
<1>1. /\ run.at \in Over /\ speculative_task \in Ended /\ speculative_task \in TaskStates
      /\ UNCHANGED <<router_task, speculative_task>>
  BY DEF CleanedUp, Over, SpeculationInv, SpeculationTypeOK
<1>2. run' = [run EXCEPT !.at = "ended",
                         !.outcome = IF speculative_task = "raised" THEN "raises" ELSE run.outcome]
  BY DEF CleanedUp
<1> QED BY <1>1, <1>2, CleanupInv

(* A cancellation reaches run() at any of its awaits.                      *)
LEMMA CancelRunInv ==
    ASSUME SpeculationInv, CancelRun
    PROVE  SpeculationInv'
<1>0. /\ run \in Runs /\ router_task \in TaskStates /\ speculative_task \in TaskStates
      /\ run.at \in Awaits /\ run.cancels < MaxCancels
  BY DEF SpeculationInv, SpeculationTypeOK, CancelRun
<1>1. /\ Asked \in Runs /\ Asked.at = run.at /\ Asked.outcome = run.outcome
      /\ Asked.actual_route = run.actual_route /\ Asked.branch_result = run.branch_result
      /\ Asked.cancelled_at = run.cancelled_at \cup {run.at}
  <2>1. run.cancels + 1 \in 0..MaxCancels
    BY <1>0, SpeculationAssumption DEF Runs
  <2>2. run.cancelled_at \cup {run.at} \in SUBSET Awaits
    BY <1>0 DEF Runs
  <2> QED BY <1>0, <2>1, <2>2 DEF Asked, Runs
<1>2. /\ AskedLeaves \in Runs /\ AskedLeaves.at = "finally" /\ AskedLeaves.outcome = "cancelled"
      /\ AskedLeaves.cancelled_at = run.cancelled_at \cup {run.at}
  BY <1>1 DEF AskedLeaves, Runs
<1>3. CASE /\ run.at = "router_task" /\ router_task \notin Ended
           /\ router_task' = "cancelling" /\ run' = Asked /\ UNCHANGED speculative_task
  BY <1>0, <1>1, <1>3 DEF SpeculationInv, SpeculationTypeOK, TasksEnd, RouteKnown, ResultOfRoute,
         CancellationReaches, OnItsWay, TaskStates
<1>4. CASE /\ run.at = "speculative_task" /\ speculative_task \notin Ended
           /\ speculative_task' = "cancelling" /\ run' = Asked /\ UNCHANGED router_task
  BY <1>0, <1>1, <1>4 DEF SpeculationInv, SpeculationTypeOK, TasksEnd, RouteKnown, ResultOfRoute,
         CancellationReaches, OnItsWay, TaskStates
<1>5. CASE /\ \/ run.at = "router_task" /\ router_task \in Ended
              \/ run.at = "speculative_task" /\ speculative_task \in Ended
              \/ run.at = "dispatch"
           /\ run' = AskedLeaves /\ UNCHANGED <<router_task, speculative_task>>
  <2>1. router_task \in Ended
    BY <1>5 DEF SpeculationInv, TasksEnd
  <2> QED BY <1>0, <1>2, <1>5, <2>1 DEF SpeculationInv, SpeculationTypeOK, TasksEnd, RouteKnown,
         ResultOfRoute, CancellationReaches, OnItsWay, Over, Fails
<1>6. CASE /\ run.at \in {"drop", "cleanup"}
           /\ run' = [Asked EXCEPT !.at = PassedOver]
           /\ UNCHANGED <<router_task, speculative_task>>
  <2>1. /\ PassedOver \in {run.at, "dispatch", "ended"}
        /\ PassedOver \in {"dispatch", "ended"} => speculative_task \in Ended
        /\ PassedOver = "dispatch" => run.at = "drop"
        /\ PassedOver \in Over <=> run.at \in Over
    BY <1>6 DEF PassedOver, Over
  <2>2. /\ run' \in Runs /\ run'.at = PassedOver /\ run'.outcome = run.outcome
        /\ run'.actual_route = run.actual_route /\ run'.branch_result = run.branch_result
        /\ run'.cancelled_at = run.cancelled_at \cup {run.at}
    BY <1>0, <1>1, <1>6, <2>1 DEF Runs, Awaits
  <2>3. SpeculationTypeOK'
    BY <1>0, <1>6, <2>2 DEF SpeculationTypeOK
  <2>4. TasksEnd'
    BY <1>6, <2>1, <2>2 DEF SpeculationInv, TasksEnd
  <2>5. RouteKnown'
    BY <1>6, <2>1, <2>2 DEF SpeculationInv, RouteKnown, ResultOfRoute
  <2>6. CancellationReaches'
    BY <1>6, <2>1, <2>2 DEF SpeculationInv, CancellationReaches, OnItsWay
  <2> QED BY <2>3, <2>4, <2>5, <2>6 DEF SpeculationInv
<1> QED BY <1>3, <1>4, <1>5, <1>6 DEF CancelRun

LEMMA SpeculationInvariant == SpeculationSpec => []SpeculationInv
<1>1. SpeculationInv /\ [SpeculationNext]_speculationVars => SpeculationInv'
  <2> SUFFICES ASSUME SpeculationInv, [SpeculationNext]_speculationVars PROVE SpeculationInv'
    OBVIOUS
  <2>1. CASE RouterFails
    <3>1. router_task \in Ended /\ UNCHANGED <<router_task, speculative_task>>
      BY <2>1 DEF RouterFails, Propagates, Ended
    <3> QED BY <2>1, <3>1, PropagatesInv DEF RouterFails
  <2>2. CASE UNCHANGED speculationVars
    BY <2>2 DEF speculationVars, SpeculationInv, SpeculationTypeOK, TasksEnd, RouteKnown,
           ResultOfRoute, CancellationReaches, OnItsWay
  <2> QED BY <2>1, <2>2, TaskEndsInv, DecideInv, HitInv, DroppedInv, DispatchEndsInv,
         FinallyInv, CleanedUpInv, CancelRunInv DEF SpeculationNext
<1> QED BY <1>1, SpeculationInitInv, PTL DEF SpeculationSpec

(* Types of the tasks and of run().                                        *)
THEOREM SpeculationTypeCorrect == SpeculationSpec => []SpeculationTypeOK
<1>1. SpeculationInv => SpeculationTypeOK
  BY DEF SpeculationInv
<1> QED BY <1>1, SpeculationInvariant, PTL

(* run() ends only when both of its tasks have, also when it is cancelled  *)
(* at any await and any number of times, and the second dispatch never     *)
(* runs beside the speculation.                                            *)
THEOREM NothingIsLeftRunning == SpeculationSpec => []NothingLeftRunning
<1>1. SpeculationInv => NothingLeftRunning
  BY DEF SpeculationInv, TasksEnd, NothingLeftRunning
<1> QED BY <1>1, SpeculationInvariant, PTL

(* The result handed on is the one of the route the router decided.        *)
THEOREM ResultIsOfRoute == SpeculationSpec => []ResultOfRoute
<1>1. SpeculationInv => ResultOfRoute
  BY DEF SpeculationInv, RouteKnown
<1> QED BY <1>1, SpeculationInvariant, PTL

(* A cancellation of run() is lost only in the two waits of _cancel.       *)
THEOREM CancellationStays == SpeculationSpec => []CancellationIsKept
<1>1. SpeculationInv => CancellationIsKept
  BY DEF SpeculationInv, SpeculationTypeOK, Runs, Awaits, CancellationReaches, OnItsWay, Fails,
         CancellationIsKept
<1> QED BY <1>1, SpeculationInvariant, PTL

(* Together: what run() of the speculative executor leaves behind and      *)
(* returns, for all sets of routes and any number of cancellations.        *)
THEOREM RunsEndClean == SpeculationSpec => []RunIsClean
<1>1. SpeculationTypeOK /\ NothingLeftRunning /\ ResultOfRoute /\ CancellationIsKept => RunIsClean
  BY DEF RunIsClean
<1> QED BY <1>1, SpeculationTypeCorrect, NothingIsLeftRunning, ResultIsOfRoute, CancellationStays, PTL

(***************************************************************************)
(* Proofs about the messages of a conversation, for any number of turns.   *)
(* The highest number is well defined because a highest message always     *)
(* exists (HighestExists); the rows of a turn carry the number it has read *)
(* (RowsAreOwn), and a turn that was known to another one when it read had *)
(* no message above what that one has read (KnownIsBelow).                 *)
(***************************************************************************)

HighestExists ==
    messages # {} => \E n \in Numbers : \A k \in Numbers : n >= k

(* The rows of a turn, once stored.                                        *)
RowsAreOwn ==
    \A m \in messages :
        /\ turn[m.turn].step = "done"
        /\ m = Question(m.turn) \/ m \in Answers(m.turn)

QuestionsAreStored ==
    \A m \in messages : Question(m.turn) \in messages

KnownIsBelow ==
    \A t \in Turns : \A n \in messages :
        n.turn \in turn[t].known => n.sequence_number <= turn[t].max_seq_num

KnownAreStored == \A t \in Turns : turn[t].known \subseteq Stored

(* What a turn holds as its answer, by its step.                           *)
ContentKnown ==
    \A t \in Turns :
        LET s == turn[t] IN
        /\ s.step = "idle" => s = NoTurn
        /\ s.step = "streaming" => s.full_answer \in {"none", "partial"} /\ ~s.cut
        /\ s.step \in {"ended", "numbered", "done"} =>
             s.full_answer \in IF s.cut THEN {"none", "partial"} ELSE {"whole"}

ChatInv ==
    /\ ChatTypeOK /\ HighestExists
    /\ RowsAreOwn /\ QuestionsAreStored
    /\ KnownIsBelow /\ KnownAreStored /\ ContentKnown

LEMMA ChatInitInv == ChatInit => ChatInv
<1> SUFFICES ASSUME ChatInit PROVE ChatInv
  OBVIOUS
<1>1. ChatTypeOK
  BY DEF ChatInit, ChatTypeOK, TurnStates, NoTurn, ChatSteps, Contents
<1>2. KnownIsBelow /\ KnownAreStored /\ ContentKnown
  BY DEF ChatInit, KnownIsBelow, KnownAreStored, ContentKnown, NoTurn
<1> QED BY <1>1, <1>2 DEF ChatInit, ChatInv, HighestExists, RowsAreOwn, QuestionsAreStored

(* Numbers are natural, and Max finds the highest.                         *)
LEMMA MaxIsHighest ==
    ASSUME ChatTypeOK, HighestExists, messages # {}
    PROVE  Max(Numbers) \in Nat /\ \A m \in messages : m.sequence_number <= Max(Numbers)
<1>1. Numbers \subseteq Nat
  BY DEF ChatTypeOK, Rows, Numbers
<1>2. \E n \in Numbers : \A k \in Numbers : n >= k
  BY DEF HighestExists
<1>3. Max(Numbers) \in Numbers /\ \A k \in Numbers : Max(Numbers) >= k
  BY <1>2 DEF Max
<1>4. \A m \in messages : m.sequence_number \in Numbers
  BY DEF Numbers
<1> QED BY <1>1, <1>3, <1>4

(* A step of one turn that stores nothing.                                 *)
LEMMA TurnMoves ==
    ASSUME ChatInv, NEW t \in Turns, NEW state \in TurnStates,
           turn' = [turn EXCEPT ![t] = state], UNCHANGED messages,
           turn[t].step # "done",
           state.known \subseteq Stored,
           \A n \in messages : n.turn \in state.known => n.sequence_number <= state.max_seq_num,
           /\ state.step # "idle"
           /\ state.step = "streaming" => state.full_answer \in {"none", "partial"} /\ ~state.cut
           /\ state.step \in {"ended", "numbered", "done"} =>
                state.full_answer \in IF state.cut THEN {"none", "partial"} ELSE {"whole"}
    PROVE  ChatInv'
<1>1. turn'[t] = state /\ \A u \in Turns \ {t} : turn'[u] = turn[u]
  BY DEF ChatInv, ChatTypeOK
<1>2. ChatTypeOK'
  BY DEF ChatInv, ChatTypeOK
<1>3. \A m \in messages : m.turn \in Turns \ {t}
  BY DEF ChatInv, ChatTypeOK, Rows, RowsAreOwn
<1>4. \A m \in messages : Question(m.turn)' = Question(m.turn) /\ Answers(m.turn)' = Answers(m.turn)
  BY <1>1, <1>3 DEF Question, Answers, NewMessage
<1>5. RowsAreOwn' /\ QuestionsAreStored'
  BY <1>1, <1>3, <1>4 DEF ChatInv, RowsAreOwn, QuestionsAreStored
<1>6. KnownIsBelow' /\ KnownAreStored'
  BY <1>1 DEF ChatInv, KnownIsBelow, KnownAreStored, Stored
<1>7. ContentKnown'
  BY <1>1 DEF ChatInv, ContentKnown
<1>8. HighestExists'
  BY DEF ChatInv, HighestExists, Numbers
<1> QED BY <1>2, <1>5, <1>6, <1>7, <1>8 DEF ChatInv

(* What the steps of a turn that stores nothing leave of the invariant.    *)
LEMMA QuietSteps ==
    ASSUME ChatInv, NEW t \in Turns,
           \/ Begin(t) \/ Token(t) \/ RespondEvent(t) \/ GraphFails(t)
           \/ Disconnect(t) \/ ReadMax(t) \/ StoreFails(t)
    PROVE  ChatInv'
<1> DEFINE s == turn[t]
<1>0. /\ s \in TurnStates /\ s.known \subseteq Stored
      /\ \A n \in messages : n.turn \in s.known => n.sequence_number <= s.max_seq_num
  BY DEF ChatInv, ChatTypeOK, KnownIsBelow, KnownAreStored
<1>1. CASE Begin(t)
  <2>1. s = NoTurn
    BY <1>1 DEF ChatInv, ContentKnown, Begin
  <2> DEFINE e == [s EXCEPT !.step = "streaming"]
  <2>2. e \in TurnStates /\ turn' = [turn EXCEPT ![t] = e] /\ UNCHANGED messages
    BY <1>0, <1>1 DEF TurnStates, ChatSteps, Begin
  <2>3. /\ e.step = "streaming" /\ e.full_answer = "none" /\ ~e.cut
        /\ e.known = s.known /\ e.max_seq_num = s.max_seq_num
    BY <2>1 DEF NoTurn
  <2>4. s.step # "done"
    BY <1>1 DEF Begin
  <2> HIDE DEF e
  <2> QED BY <1>0, <2>2, <2>3, <2>4, TurnMoves
<1>2. CASE Token(t)
  <2>1. ~s.cut
    BY <1>2 DEF ChatInv, ContentKnown, Token
  <2> DEFINE e == [s EXCEPT !.full_answer = "partial"]
  <2>2. e \in TurnStates
    BY <1>0 DEF TurnStates, Contents
  <2>3. turn' = [turn EXCEPT ![t] = e] /\ UNCHANGED messages /\ s.step = "streaming"
    BY <1>2 DEF Token
  <2>4. /\ e.step = "streaming" /\ e.full_answer = "partial" /\ ~e.cut
        /\ e.known = s.known /\ e.max_seq_num = s.max_seq_num
    BY <1>0, <2>1, <2>3 DEF TurnStates
  <2> HIDE DEF e
  <2> QED BY <1>0, <2>2, <2>3, <2>4, TurnMoves
<1>3. CASE RespondEvent(t)
  <2>1. s.full_answer \in {"none", "partial"} /\ ~s.cut
    BY <1>3 DEF ChatInv, ContentKnown, RespondEvent
  <2>2. CASE turn' = [turn EXCEPT ![t].step = "ended", ![t].full_answer = "whole"]
    <3> DEFINE e == [s EXCEPT !.step = "ended", !.full_answer = "whole"]
    <3>1. e \in TurnStates /\ turn' = [turn EXCEPT ![t] = e]
      BY <1>0, <2>2 DEF TurnStates, Contents, ChatSteps
    <3>2. UNCHANGED messages /\ s.step = "streaming"
      BY <1>3 DEF RespondEvent
    <3>3. /\ e.step = "ended" /\ e.full_answer = "whole" /\ ~e.cut
          /\ e.known = s.known /\ e.max_seq_num = s.max_seq_num
      BY <1>0, <2>1 DEF TurnStates
    <3> HIDE DEF e
    <3> QED BY <1>0, <3>1, <3>2, <3>3, TurnMoves
  <2>3. CASE turn' = [turn EXCEPT ![t].step = "ended", ![t].cut = TRUE]
    <3> DEFINE e == [s EXCEPT !.step = "ended", !.cut = TRUE]
    <3>1. e \in TurnStates /\ turn' = [turn EXCEPT ![t] = e]
      BY <1>0, <2>3 DEF TurnStates, ChatSteps
    <3>2. UNCHANGED messages /\ s.step = "streaming"
      BY <1>3 DEF RespondEvent
    <3>3. /\ e.step = "ended" /\ e.full_answer \in {"none", "partial"} /\ e.cut
          /\ e.known = s.known /\ e.max_seq_num = s.max_seq_num
      BY <1>0, <2>1 DEF TurnStates
    <3> HIDE DEF e
    <3> QED BY <1>0, <3>1, <3>2, <3>3, TurnMoves
  <2> QED BY <1>3, <2>2, <2>3 DEF RespondEvent
<1>4. CASE GraphFails(t)
  <2> DEFINE e == [s EXCEPT !.step = "ended", !.cut = TRUE]
  <2>1. s.full_answer \in {"none", "partial"}
    BY <1>4 DEF ChatInv, ContentKnown, GraphFails
  <2>2. e \in TurnStates /\ turn' = [turn EXCEPT ![t] = e]
    BY <1>0, <1>4 DEF TurnStates, ChatSteps, GraphFails
  <2>3. UNCHANGED messages /\ s.step = "streaming"
    BY <1>4 DEF GraphFails
  <2>4. /\ e.step = "ended" /\ e.full_answer \in {"none", "partial"} /\ e.cut
        /\ e.known = s.known /\ e.max_seq_num = s.max_seq_num
    BY <1>0, <2>1 DEF TurnStates
  <2> HIDE DEF e
  <2> QED BY <1>0, <2>2, <2>3, <2>4, TurnMoves
<1>5. CASE Disconnect(t)
  <2> DEFINE e == [s EXCEPT !.step = "gone"]
  <2>1. e \in TurnStates /\ turn' = [turn EXCEPT ![t] = e] /\ UNCHANGED messages
    BY <1>0, <1>5 DEF TurnStates, ChatSteps, Disconnect
  <2>2. e.step = "gone" /\ e.known = s.known /\ e.max_seq_num = s.max_seq_num
    BY <1>0 DEF TurnStates
  <2>3. s.step # "done"
    BY <1>5 DEF Disconnect
  <2> HIDE DEF e
  <2> QED BY <1>0, <2>1, <2>2, <2>3, TurnMoves
<1>6. CASE StoreFails(t)
  <2> DEFINE e == [s EXCEPT !.step = "unsaved"]
  <2>1. e \in TurnStates /\ turn' = [turn EXCEPT ![t] = e] /\ UNCHANGED messages
    BY <1>0, <1>6 DEF TurnStates, ChatSteps, StoreFails
  <2>2. e.step = "unsaved" /\ e.known = s.known /\ e.max_seq_num = s.max_seq_num
    BY <1>0 DEF TurnStates
  <2>3. s.step # "done"
    BY <1>6 DEF StoreFails
  <2> HIDE DEF e
  <2> QED BY <1>0, <2>1, <2>2, <2>3, TurnMoves
<1>7. CASE ReadMax(t)
  <2> DEFINE highest == IF messages = {} THEN 0 ELSE Max(Numbers)
             e == [s EXCEPT !.step = "numbered", !.known = Stored, !.max_seq_num = highest]
  <2>1. highest \in Nat /\ \A n \in messages : n.sequence_number <= highest
    BY MaxIsHighest DEF ChatInv
  <2>2. Stored \subseteq Turns
    BY DEF ChatInv, ChatTypeOK, Rows, Stored
  <2>3. turn' = [turn EXCEPT ![t] = e]
    BY <1>0, <1>7 DEF ReadMax, TurnStates
  <2>4. e \in TurnStates
    BY <1>0, <2>1, <2>2 DEF TurnStates, ChatSteps
  <2>5. s.full_answer \in IF s.cut THEN {"none", "partial"} ELSE {"whole"}
    BY <1>7 DEF ChatInv, ContentKnown, ReadMax
  <2>6. /\ e.step = "numbered" /\ e.known = Stored /\ e.max_seq_num = highest
        /\ e.full_answer = s.full_answer /\ e.cut = s.cut
    BY <1>0 DEF TurnStates
  <2> HIDE DEF e, highest
  <2> QED BY <1>7, <2>1, <2>3, <2>4, <2>5, <2>6, TurnMoves DEF ReadMax
<1> QED BY <1>1, <1>2, <1>3, <1>4, <1>5, <1>6, <1>7

(* The rows of a commit are the first ones of their turn, which no turn    *)
(* has known before.                                                       *)
LEMMA StoreKeepsInv == ASSUME ChatInv, NEW t \in Turns, Store(t) PROVE ChatInv'
<1> DEFINE max == turn[t].max_seq_num
<1>1. /\ turn[t] \in TurnStates /\ turn[t].step = "numbered" /\ max \in Nat
      /\ turn[t].full_answer \in Contents
  BY DEF ChatInv, ChatTypeOK, Store, TurnStates
<1>2. /\ turn'[t] = [turn[t] EXCEPT !.step = "done"]
      /\ \A u \in Turns \ {t} : turn'[u] = turn[u]
  BY DEF ChatInv, ChatTypeOK, Store
<1>3. turn' \in [Turns -> TurnStates]
  BY <1>1, <1>2 DEF ChatInv, ChatTypeOK, Store, TurnStates, ChatSteps
<1>4. \A u \in Turns : /\ turn'[u].known = turn[u].known
                       /\ turn'[u].max_seq_num = turn[u].max_seq_num
                       /\ turn'[u].full_answer = turn[u].full_answer
                       /\ turn'[u].cut = turn[u].cut
  BY <1>1, <1>2 DEF TurnStates
<1>5. \A u \in Turns : Question(u)' = Question(u) /\ Answers(u)' = Answers(u)
  BY <1>4 DEF Question, Answers, NewMessage
<1>6. \A m \in messages : m.turn \in Turns \ {t}
  BY <1>1 DEF ChatInv, ChatTypeOK, Rows, RowsAreOwn
<1>7. /\ Question(t) \in Rows /\ Question(t).turn = t /\ Question(t).sequence_number = max + 1
      /\ \A m \in Answers(t) : m \in Rows /\ m.turn = t /\ m.sequence_number = max + 2
  BY <1>1 DEF Question, Answers, NewMessage, Rows, Contents
<1>8. messages' = messages \cup {Question(t)} \cup Answers(t)
  BY DEF Store
<1>9. ChatTypeOK'
  BY <1>3, <1>7, <1>8 DEF ChatInv, ChatTypeOK
<1>10. HighestExists'
  <2> DEFINE last == IF Answers(t) = {} THEN max + 1 ELSE max + 2
  <2>1. Numbers' = Numbers \cup {max + 1, last}
    BY <1>7, <1>8 DEF Numbers
  <2>2. Numbers \subseteq Nat
    BY DEF ChatInv, ChatTypeOK, Rows, Numbers
  <2>3. last \in Nat /\ last >= max + 1
    BY <1>1
  <2> HIDE DEF last
  <2>4. CASE messages = {}
    <3>1. Numbers = {}
      BY <2>4 DEF Numbers
    <3> QED BY <1>1, <2>1, <2>3, <3>1 DEF HighestExists
  <2>5. CASE messages # {}
    <3>1. PICK h \in Numbers : \A k \in Numbers : h >= k
      BY <2>5 DEF ChatInv, HighestExists
    <3>2. CASE h >= last
      BY <1>1, <2>1, <2>2, <2>3, <3>1, <3>2 DEF HighestExists
    <3>3. CASE ~(h >= last)
      <4>1. \A k \in Numbers' : last >= k
        BY <1>1, <2>1, <2>2, <2>3, <3>1, <3>3
      <4> QED BY <2>1, <4>1 DEF HighestExists
    <3> QED BY <3>2, <3>3
  <2> QED BY <2>4, <2>5
<1>11. RowsAreOwn' /\ QuestionsAreStored'
  <2>1. \A m \in messages : /\ turn'[m.turn].step = "done"
                            /\ m = Question(m.turn)' \/ m \in Answers(m.turn)'
                            /\ Question(m.turn)' \in messages
    BY <1>2, <1>5, <1>6 DEF ChatInv, RowsAreOwn, QuestionsAreStored
  <2>2. turn'[t].step = "done"
    BY <1>1, <1>2 DEF TurnStates
  <2> QED BY <1>5, <1>7, <1>8, <2>1, <2>2 DEF RowsAreOwn, QuestionsAreStored
<1>12. t \notin Stored
  BY <1>6 DEF Stored
<1>13. KnownIsBelow' /\ KnownAreStored'
  BY <1>4, <1>7, <1>8, <1>12 DEF ChatInv, KnownIsBelow, KnownAreStored, Stored
<1>14. ContentKnown'
  <2>1. \A u \in Turns \ {t} : turn'[u] = turn[u]
    BY <1>2
  <2>2. turn'[t].step = "done"
    BY <1>1, <1>2 DEF TurnStates
  <2> QED BY <1>1, <1>4, <2>1, <2>2 DEF ChatInv, ContentKnown
<1> QED BY <1>9, <1>10, <1>11, <1>13, <1>14 DEF ChatInv

LEMMA ChatInvariant == ChatSpec => []ChatInv
<1>1. ChatInv /\ [ChatNext]_chatVars => ChatInv'
  <2> SUFFICES ASSUME ChatInv, [ChatNext]_chatVars PROVE ChatInv'
    OBVIOUS
  <2>1. CASE ChatNext
    BY <2>1, QuietSteps, StoreKeepsInv DEF ChatNext
  <2>2. CASE UNCHANGED chatVars
    BY <2>2 DEF chatVars, ChatInv, ChatTypeOK, HighestExists, Numbers, RowsAreOwn, Question,
                Answers, NewMessage, QuestionsAreStored, KnownIsBelow, KnownAreStored, Stored,
                ContentKnown
  <2> QED BY <2>1, <2>2
<1> QED BY <1>1, ChatInitInv, PTL DEF ChatSpec

(* What chat() numbers for a turn comes after every message that was       *)
(* stored when it read the highest number, for any number of turns and any *)
(* interleaving and failure of them.                                       *)
THEOREM NumbersAlwaysFollow == ChatSpec => []NumbersFollow
<1>1. ChatInv => NumbersFollow
  <2> SUFFICES ASSUME ChatInv, NEW m \in messages, NEW n \in messages,
                      n.turn \in turn[m.turn].known
               PROVE  m.sequence_number > n.sequence_number
    BY DEF NumbersFollow
  <2>1. m.turn \in Turns /\ n.sequence_number \in Nat
    BY DEF ChatInv, ChatTypeOK, Rows
  <2>2. turn[m.turn].max_seq_num \in Nat /\ n.sequence_number <= turn[m.turn].max_seq_num
    BY <2>1 DEF ChatInv, ChatTypeOK, TurnStates, KnownIsBelow
  <2>3. m.sequence_number \in {turn[m.turn].max_seq_num + 1, turn[m.turn].max_seq_num + 2}
    BY DEF ChatInv, RowsAreOwn, Question, Answers, NewMessage
  <2> QED BY <2>1, <2>2, <2>3
<1> QED BY <1>1, ChatInvariant, PTL

(* The answer of a turn has the number after its question's, which is      *)
(* stored with it, also when turns of the conversation overlap.            *)
THEOREM AnswersFollowTheirQuestions == ChatSpec => []AnswerFollowsQuestion
<1>1. ChatInv => AnswerFollowsQuestion
  <2> SUFFICES ASSUME ChatInv, NEW m \in messages, m.role = "AI"
               PROVE  \E q \in messages : /\ q.turn = m.turn
                                          /\ q.role = "USER"
                                          /\ m.sequence_number = q.sequence_number + 1
    BY DEF AnswerFollowsQuestion
  <2> DEFINE q == Question(m.turn)
  <2>1. q \in messages /\ q.turn = m.turn /\ q.role = "USER"
    BY DEF ChatInv, QuestionsAreStored, Question, NewMessage
  <2>2. q.sequence_number = turn[m.turn].max_seq_num + 1
    BY DEF Question, NewMessage
  <2>3. m \in Answers(m.turn)
    BY DEF ChatInv, RowsAreOwn, Question, NewMessage
  <2>4. m.sequence_number = turn[m.turn].max_seq_num + 2
    BY <2>3 DEF Answers, NewMessage
  <2>5. turn[m.turn].max_seq_num \in Nat
    BY DEF ChatInv, ChatTypeOK, Rows, TurnStates
  <2> QED BY <2>1, <2>2, <2>4, <2>5
<1> QED BY <1>1, ChatInvariant, PTL

(* What chat() stores as an answer is what the respond node holds, unless  *)
(* the turn was cut short, and never an empty message.                     *)
THEOREM StoredAnswersAreWhole == ChatSpec => []AnswersAreWhole
<1>1. ChatInv => AnswersAreWhole
  <2> SUFFICES ASSUME ChatInv, NEW m \in messages, m.role = "AI"
               PROVE  m.content = IF turn[m.turn].cut THEN "partial" ELSE "whole"
    BY DEF AnswersAreWhole
  <2>1. m.turn \in Turns /\ turn[m.turn].step = "done"
    BY DEF ChatInv, ChatTypeOK, Rows, RowsAreOwn
  <2>2. m \in Answers(m.turn)
    BY DEF ChatInv, RowsAreOwn, Question, NewMessage
  <2>3. m.content = turn[m.turn].full_answer /\ turn[m.turn].full_answer # "none"
    BY <2>2 DEF Answers, NewMessage
  <2>4. turn[m.turn].full_answer \in IF turn[m.turn].cut THEN {"none", "partial"} ELSE {"whole"}
    BY <2>1 DEF ChatInv, ContentKnown
  <2> QED BY <2>3, <2>4
<1> QED BY <1>1, ChatInvariant, PTL

(* Together: what a conversation shows of its turns.                       *)
THEOREM MessagesStayRight == ChatSpec => []MessagesAreRight
<1>1. ChatInv => ChatTypeOK
  BY DEF ChatInv
<1>2. ChatTypeOK /\ NumbersFollow /\ AnswerFollowsQuestion /\ AnswersAreWhole => MessagesAreRight
  BY DEF MessagesAreRight
<1> QED BY <1>1, <1>2, ChatInvariant, NumbersAlwaysFollow, AnswersFollowTheirQuestions,
           StoredAnswersAreWhole, PTL

(***************************************************************************)
(* Batches of a list: the k-th element is in the batch (k - 1) \div size.  *)
(***************************************************************************)

(* What a quotient is. *)
LEMMA Quotient ==
  ASSUME NEW a \in Nat, NEW b \in Nat \ {0}
  PROVE  a \div b \in Nat /\ b * (a \div b) <= a /\ a < b * (a \div b) + b
  OBVIOUS

(* A positive factor may be cancelled. *)
LEMMA FactorCancels ==
  ASSUME NEW a \in Int, NEW b \in Int, NEW c \in Nat \ {0}, c * a < c * b
  PROVE  a < b
  OBVIOUS

(* A multiple is divided without a rest. *)
LEMMA MultipleDivided ==
  ASSUME NEW a \in Nat, NEW b \in Nat \ {0}
  PROVE  (b * a) \div b = a
  OBVIOUS

(* Every element is in one of the batches counted. *)
LEMMA InSomeBatch ==
  ASSUME NEW n \in Nat, NEW size \in Nat \ {0}, NEW k \in 1..n
  PROVE  (k - 1) \div size + 1 \in 1..((n + size - 1) \div size)
<1> DEFINE q == (k - 1) \div size
           c == (n + size - 1) \div size
<1>1. q \in Nat /\ size * q <= k - 1
  BY Quotient
<1>2. c \in Nat /\ n + size - 1 < size * c + size
  BY Quotient
<1> HIDE DEF q, c
<1>3. size * q \in Int /\ size * c \in Int
  BY <1>1, <1>2
<1>4. size * q < size * c
  BY <1>1, <1>2, <1>3
<1>5. q < c
  BY <1>1, <1>2, <1>4, FactorCancels
<1>6. q + 1 \in 1..c
  BY <1>1, <1>2, <1>5
<1> QED BY <1>6 DEF q, c

(* Every batch counted has a first element. *)
LEMMA BatchNotEmpty ==
  ASSUME NEW n \in Nat, NEW size \in Nat \ {0}, NEW i \in 1..((n + size - 1) \div size)
  PROVE  \E k \in 1..n : (k - 1) \div size = i - 1
<1> DEFINE c == (n + size - 1) \div size
           k == size * (i - 1) + 1
<1>1. c \in Nat /\ size * c <= n + size - 1
  BY Quotient
<1> HIDE DEF c
<1>2. i \in Nat /\ i - 1 \in Nat /\ i <= c
  BY <1>1 DEF c
<1>3. PICK d \in Nat : c = i + d
  <2>1. c - i \in Nat /\ c = i + (c - i)
    BY <1>1, <1>2
  <2> QED BY <2>1
<1>4. size * c = size * (i - 1) + size + size * d /\ size * d \in Nat /\ size * (i - 1) \in Nat
  BY <1>2, <1>3
<1>5. k \in 1..n
  BY <1>1, <1>4
<1>6. (k - 1) \div size = i - 1
  <2>1. k - 1 = size * (i - 1)
    BY <1>4
  <2> QED BY <1>2, <2>1, MultipleDivided
<1> QED BY <1>5, <1>6

(***************************************************************************)
(* The document summarizer: what the texts of a round speak for never      *)
(* changes, so the reduce call speaks for the whole document.              *)
(***************************************************************************)
SummarizerInv ==
    /\ SummarizerTypeOK
    /\ UNION ToSet(inputs) = 1..sections
    /\ CallsBounded

(* Together the batches speak for what the texts speak for. *)
LEMMA BatchesWhole ==
  ASSUME NEW D, NEW texts \in Seq(SUBSET D)
  PROVE  /\ Batches(texts) \in Seq(SUBSET D)
         /\ UNION ToSet(Batches(texts)) = UNION ToSet(texts)
<1> DEFINE c == (Len(texts) + SummaryBatchSize - 1) \div SummaryBatchSize
           batch(i) == UNION {texts[j] : j \in {k \in DOMAIN texts : (k - 1) \div SummaryBatchSize = i - 1}}
           b == [i \in 1..c |-> batch(i)]
<1>1. SummaryBatchSize \in Nat \ {0}
  BY SummarizerAssumption
<1>2. c \in Nat
  BY <1>1, Quotient
<1>3. Batches(texts) = b
  BY DEF Batches
<1>4. ASSUME NEW i \in 1..c PROVE batch(i) \in SUBSET D
  OBVIOUS
<1> HIDE DEF c
<1>5. b \in Seq(SUBSET D) /\ Len(b) = c
  <2> HIDE DEF batch
  <2> QED BY <1>2, <1>4
<1>6. ASSUME NEW i \in 1..c PROVE b[i] = batch(i)
  OBVIOUS
<1>7. ASSUME NEW d, d \in UNION ToSet(b) PROVE d \in UNION ToSet(texts)
  <2>1. PICK t \in ToSet(b) : d \in t
    BY <1>7
  <2>2. PICK i \in 1..Len(b) : b[i] = t
    <3> HIDE DEF b
    <3> QED BY <1>5, <2>1, ElementsAt
  <2>3. d \in batch(i)
    BY <1>5, <1>6, <2>1, <2>2
  <2>4. PICK j \in DOMAIN texts : d \in texts[j]
    BY <2>3
  <2>5. texts[j] \in ToSet(texts)
    BY <2>4, ElementsAt
  <2> QED BY <2>4, <2>5
<1>8. ASSUME NEW d, d \in UNION ToSet(texts) PROVE d \in UNION ToSet(b)
  <2>1. PICK t \in ToSet(texts) : d \in t
    BY <1>8
  <2>2. PICK j \in 1..Len(texts) : texts[j] = t
    BY <2>1, ElementsAt
  <2> DEFINE i == (j - 1) \div SummaryBatchSize + 1
  <2>3. i \in 1..c
    BY <1>1, InSomeBatch DEF c
  <2>4. i - 1 = (j - 1) \div SummaryBatchSize
    <3>1. (j - 1) \div SummaryBatchSize \in Nat
      BY <1>1, Quotient
    <3> QED BY <3>1
  <2>5. d \in batch(i)
    <3>1. j \in {k \in DOMAIN texts : (k - 1) \div SummaryBatchSize = i - 1}
      BY <2>4
    <3> HIDE DEF i
    <3> QED BY <2>1, <2>2, <3>1
  <2> HIDE DEF i
  <2>6. b[i] \in ToSet(b) /\ d \in b[i]
    <3>1. b[i] = batch(i) /\ i \in 1..Len(b)
      BY <1>5, <1>6, <2>3
    <3> HIDE DEF b
    <3> QED BY <1>5, <2>5, <3>1, ElementsAt
  <2> HIDE DEF b
  <2> QED BY <2>6
<1> QED BY <1>3, <1>5, <1>7, <1>8

(* The running calls are among the calls of the round. *)
LEMMA RunningFinite ==
  ASSUME SummarizerTypeOK
  PROVE  IsFiniteSet(RunningCalls) /\ Cardinality(RunningCalls) \in Nat
<1>1. Len(outcomes) \in Nat /\ RunningCalls \subseteq 1..Len(outcomes)
  BY DEF SummarizerTypeOK, RunningCalls
<1>2. IsFiniteSet(1..Len(outcomes))
  BY <1>1, FS_Interval
<1> QED BY <1>1, <1>2, FS_Subset, FS_CardinalityType

(* A new round starts with no call running. *)
LEMMA NewRound ==
  ASSUME SummarizerInv, NEW next_phase \in SummaryPhases, NEW texts \in Seq(SUBSET (1..sections)),
         UNION ToSet(texts) = 1..sections, NextCalls(next_phase, texts)
  PROVE  SummarizerInv'
<1>1. phase' = next_phase /\ inputs' = texts /\ outcomes' = AllWaiting(texts) /\ sections' = sections
  BY DEF NextCalls
<1>2. /\ AllWaiting(texts) \in Seq({"waiting", "running", "ok"})
      /\ Len(AllWaiting(texts)) = Len(texts)
      /\ \A i \in DOMAIN AllWaiting(texts) : AllWaiting(texts)[i] = "waiting"
  BY DEF AllWaiting
<1>3. SummarizerTypeOK'
  BY <1>1, <1>2 DEF SummarizerInv, SummarizerTypeOK
<1>4. RunningCalls' = {}
  BY <1>1, <1>2 DEF RunningCalls
<1>5. CallsBounded'
  BY <1>4, FS_EmptySet, SummarizerAssumption DEF CallsBounded
<1> QED BY <1>1, <1>3, <1>5 DEF SummarizerInv

(* The first round speaks for every section. *)
LEMMA SummarizerInitInv == SummarizerInit => SummarizerInv
<1> SUFFICES ASSUME SummarizerInit PROVE SummarizerInv
  OBVIOUS
<1>1. /\ sections \in SectionCounts /\ sections \in Nat \ {0}
      /\ phase = IF sections = 1 THEN "reduce" ELSE "map"
      /\ inputs = [i \in 1..sections |-> {i}]
      /\ outcomes = AllWaiting(inputs)
  BY SummarizerAssumption DEF SummarizerInit
<1>2. inputs \in Seq(SUBSET (1..sections)) /\ Len(inputs) = sections
  BY <1>1
<1>3. /\ outcomes \in Seq({"waiting", "running", "ok"})
      /\ Len(outcomes) = Len(inputs)
      /\ \A i \in DOMAIN outcomes : outcomes[i] = "waiting"
  BY <1>1, <1>2 DEF AllWaiting
<1>4. SummarizerTypeOK
  BY <1>1, <1>2, <1>3 DEF SummarizerTypeOK, SummaryPhases
<1>5. UNION ToSet(inputs) = 1..sections
  <2>1. \A i \in 1..sections : inputs[i] = {i}
    BY <1>1
  <2>2. \A e : e \in ToSet(inputs) <=> \E i \in 1..sections : inputs[i] = e
    BY <1>2, ElementsAt
  <2>3. ASSUME NEW d \in 1..sections PROVE d \in UNION ToSet(inputs)
    <3>1. {d} \in ToSet(inputs)
      BY <2>1, <2>2
    <3> QED BY <3>1
  <2>4. ASSUME NEW d, d \in UNION ToSet(inputs) PROVE d \in 1..sections
    <3>1. PICK e \in ToSet(inputs) : d \in e
      BY <2>4
    <3> QED BY <2>1, <2>2, <3>1
  <2> QED BY <2>3, <2>4
<1>6. RunningCalls = {}
  BY <1>3 DEF RunningCalls
<1>7. CallsBounded
  BY <1>6, FS_EmptySet, SummarizerAssumption DEF CallsBounded
<1> QED BY <1>4, <1>5, <1>7 DEF SummarizerInv

(* Every step keeps what the texts speak for and the number of calls. *)
LEMMA SummarizerNextInv == SummarizerInv /\ [SummarizerNext]_summarizerVars => SummarizerInv'
<1> SUFFICES ASSUME SummarizerInv, [SummarizerNext]_summarizerVars PROVE SummarizerInv'
  OBVIOUS
<1>1. /\ SummarizerTypeOK /\ UNION ToSet(inputs) = 1..sections /\ CallsBounded
      /\ IsFiniteSet(RunningCalls) /\ Cardinality(RunningCalls) \in Nat
      /\ SummaryConcurrency \in Nat \ {0}
  BY RunningFinite, SummarizerAssumption DEF SummarizerInv
<1>2. inputs \in Seq(SUBSET (1..sections)) /\ outcomes \in Seq({"waiting", "running", "ok"})
      /\ DOMAIN outcomes = 1..Len(outcomes)
  BY <1>1 DEF SummarizerTypeOK
<1>3. CASE StartCall
  <2>1. PICK i \in DOMAIN outcomes : outcomes[i] = "waiting" /\ outcomes' = [outcomes EXCEPT ![i] = "running"]
    BY <1>3 DEF StartCall
  <2>2. phase' = phase /\ sections' = sections /\ inputs' = inputs
        /\ Cardinality(RunningCalls) < SummaryConcurrency
    BY <1>3 DEF StartCall
  <2>3. RunningCalls' = RunningCalls \cup {i} /\ i \notin RunningCalls
    BY <1>2, <2>1 DEF RunningCalls
  <2>4. Cardinality(RunningCalls') = Cardinality(RunningCalls) + 1
    BY <1>1, <2>3, FS_AddElement
  <2>5. CallsBounded'
    BY <1>1, <2>2, <2>4 DEF CallsBounded
  <2>6. SummarizerTypeOK'
    <3>1. outcomes' \in Seq({"waiting", "running", "ok"}) /\ Len(outcomes') = Len(outcomes)
      BY <1>2, <2>1
    <3> QED BY <1>1, <2>2, <3>1 DEF SummarizerTypeOK
  <2> QED BY <1>1, <2>2, <2>5, <2>6 DEF SummarizerInv
<1>4. CASE CallReturns \/ CallRaises
  <2>1. PICK i \in RunningCalls : outcomes' = [outcomes EXCEPT ![i] = "ok"]
    BY <1>4 DEF CallReturns, CallRaises
  <2>2. phase' \in SummaryPhases /\ sections' = sections /\ inputs' = inputs
    BY <1>1, <1>4 DEF CallReturns, CallRaises, SummarizerTypeOK, SummaryPhases
  <2>3. RunningCalls' = RunningCalls \ {i}
    BY <1>2, <2>1 DEF RunningCalls
  <2>4. Cardinality(RunningCalls') = Cardinality(RunningCalls) - 1
    BY <1>1, <2>3, FS_RemoveElement
  <2>5. CallsBounded'
    BY <1>1, <2>4 DEF CallsBounded
  <2>6. SummarizerTypeOK'
    <3>1. outcomes' \in Seq({"waiting", "running", "ok"}) /\ Len(outcomes') = Len(outcomes)
      BY <1>2, <2>1 DEF RunningCalls
    <3> QED BY <1>1, <2>2, <3>1 DEF SummarizerTypeOK
  <2> QED BY <1>1, <2>2, <2>5, <2>6 DEF SummarizerInv
<1>5. CASE Mapped \/ Summarized
  <2>1. phase' \in SummaryPhases /\ sections' = sections /\ inputs' = inputs /\ outcomes' = outcomes
    BY <1>5 DEF Mapped, Summarized, SummaryPhases
  <2>2. RunningCalls' = RunningCalls
    BY <2>1 DEF RunningCalls
  <2> QED BY <1>1, <2>1, <2>2 DEF SummarizerInv, SummarizerTypeOK, CallsBounded
<1>6. CASE Collapse
  <2>1. NextCalls("map", Batches(inputs)) /\ "map" \in SummaryPhases
    BY <1>6 DEF Collapse, SummaryPhases
  <2>2. Batches(inputs) \in Seq(SUBSET (1..sections)) /\ UNION ToSet(Batches(inputs)) = 1..sections
    BY <1>1, <1>2, BatchesWhole
  <2> QED BY <2>1, <2>2, NewRound
<1>7. CASE Reduce
  <2> DEFINE whole == <<UNION ToSet(inputs)>>
  <2>1. NextCalls("reduce", whole) /\ "reduce" \in SummaryPhases
    BY <1>7 DEF Reduce, SummaryPhases
  <2>2. whole = <<1..sections>>
    BY <1>1
  <2>3. whole \in Seq(SUBSET (1..sections)) /\ ToSet(whole) = {1..sections}
    <3>1. whole \in Seq(SUBSET (1..sections)) /\ Len(whole) = 1 /\ whole[1] = 1..sections
      BY <2>2
    <3> HIDE DEF whole
    <3>2. \A e : e \in ToSet(whole) <=> \E i \in 1..1 : whole[i] = e
      BY <3>1, ElementsAt
    <3> QED BY <3>1, <3>2
  <2>4. UNION ToSet(whole) = 1..sections
    BY <2>3
  <2> HIDE DEF whole
  <2> QED BY <2>1, <2>3, <2>4, NewRound
<1>8. CASE UNCHANGED summarizerVars
  <2>1. RunningCalls' = RunningCalls
    BY <1>8 DEF RunningCalls, summarizerVars
  <2> QED BY <1>1, <1>8, <2>1 DEF SummarizerInv, SummarizerTypeOK, CallsBounded, summarizerVars
<1> QED BY <1>3, <1>4, <1>5, <1>6, <1>7, <1>8 DEF SummarizerNext

(* Over any number of rounds and batches, with calls that raise and the    *)
(* ones a failed summary leaves behind: the reduce call has every section  *)
(* of the document, and no more calls run than max_concurrency.            *)
THEOREM SummaryAlwaysRight == SummarizerSpec => []SummaryIsRight
<1>1. SummarizerInit => SummarizerInv
  BY SummarizerInitInv
<1>2. SummarizerInv /\ [SummarizerNext]_summarizerVars => SummarizerInv'
  BY SummarizerNextInv
<1>3. SummarizerInv => SummaryIsRight
  BY DEF SummarizerInv, SummaryIsRight, SummaryIsWhole
<1> QED BY <1>1, <1>2, <1>3, PTL DEF SummarizerSpec

(***************************************************************************)
(* The global summary: askers share the permits of the semaphore, and a    *)
(* turn's texts speak for different documents, so that a batch left out is *)
(* missed by the answer.                                                   *)
(***************************************************************************)
AskerType == [step: GlobalSteps, total: Nat, current: Texts, calls: Seq(CallStates),
              failed_batches: Nat, notices: SUBSET {"truncated", "partial"}]

(* The number of documents a turn reads. *)
Used(t) == IF t.total < MaxDocuments THEN t.total ELSE MaxDocuments

(* Texts that speak for some of the first n documents each, none for the   *)
(* same one.                                                               *)
Separate(texts, n) ==
    /\ \A i \in 1..Len(texts) : texts[i] # {} /\ texts[i] \subseteq 1..n
    /\ \A i, j \in 1..Len(texts) : i # j => texts[i] \cap texts[j] = {}

AskerInv(t) ==
    /\ t.step \notin {"map", "answer"} => t.calls = <<>>
    /\ t.step = "fetch" => t.failed_batches = 0
    /\ t.step \in {"ready", "map", "answer", "answered"} =>
        /\ t.total > 0
        /\ Len(t.current) > 0
        /\ Separate(t.current, Used(t))
        /\ t.failed_batches = 0 <=> UNION ToSet(t.current) = 1..Used(t)
    /\ t.step = "map" => Len(t.calls) = BatchCount(t.current)
    /\ t.step \in {"answer", "answered"} => Len(t.current) <= BatchSize
    /\ t.step = "answered" =>
        /\ "truncated" \in t.notices <=> t.total > MaxDocuments
        /\ "partial" \in t.notices <=> t.failed_batches > 0

(* The running calls of all turns. *)
RunningNow == UNION {RunningOf(a) : a \in Askers}

GlobalInv ==
    /\ GlobalTypeOK
    /\ \A a \in Askers : AskerInv(asker[a])
    /\ IsFiniteSet(RunningNow)
    /\ PermitsConserved

(* The constants, as the proofs use them. *)
LEMMA GlobalConstants ==
  /\ Totals \subseteq Nat /\ MaxDocuments \in Nat \ {0}
  /\ BatchSize \in Nat \ {0} /\ GuardSize \in Nat \ {0}
  BY GlobalAssumption

(* The batches of separate texts are separate, and together they speak for *)
(* what the texts speak for.                                               *)
LEMMA BatchesSeparate ==
  ASSUME NEW texts \in Texts, NEW n \in Nat, n <= MaxDocuments, Separate(texts, n), Len(texts) > 0,
         NEW b, b = [i \in 1..BatchCount(texts) |-> Batch(texts, i)]
  PROVE  /\ BatchCount(texts) \in Nat \ {0}
         /\ b \in Texts /\ Len(b) = BatchCount(texts)
         /\ Separate(b, n)
         /\ UNION ToSet(b) = UNION ToSet(texts)
<1> DEFINE c == BatchCount(texts)
           size == BatchSize
<1>1. BatchSize \in Nat \ {0} /\ texts \in Seq(SUBSET (1..MaxDocuments)) /\ Len(texts) \in Nat
      /\ MaxDocuments \in Nat
  BY GlobalConstants DEF Texts
<1>2. c \in Nat
  BY <1>1, Quotient DEF BatchCount
<1>3. ASSUME NEW k \in 1..Len(texts)
      PROVE  (k - 1) \div size + 1 \in 1..c /\ (k - 1) \div size \in Nat
  <2>1. (k - 1) \div size \in Nat
    <3>1. k - 1 \in Nat
      BY <1>1
    <3> QED BY <1>1, <3>1, Quotient
  <2> QED BY <1>1, <2>1, InSomeBatch DEF BatchCount
<1>4. ASSUME NEW i \in 1..c PROVE \E k \in 1..Len(texts) : (k - 1) \div size = i - 1
  BY <1>1, BatchNotEmpty DEF BatchCount
<1>5. ASSUME NEW i, NEW d
      PROVE  d \in Batch(texts, i) <=> \E k \in 1..Len(texts) : (k - 1) \div size = i - 1 /\ d \in texts[k]
  BY <1>1 DEF Batch
<1>6. c # 0
  <2>1. 1 \in 1..Len(texts)
    BY <1>1
  <2> QED BY <1>2, <1>3, <2>1
<1> HIDE DEF c, size
<1>7. \A k \in 1..Len(texts) : texts[k] # {} /\ texts[k] \subseteq 1..n
  BY DEF Separate
<1>8. ASSUME NEW i \in 1..c PROVE b[i] = Batch(texts, i) /\ b[i] \subseteq 1..n /\ b[i] # {}
  <2>1. b[i] = Batch(texts, i)
    BY DEF c
  <2>2. Batch(texts, i) \subseteq 1..n
    BY <1>5, <1>7
  <2>3. PICK k \in 1..Len(texts) : (k - 1) \div size = i - 1
    BY <1>4
  <2>4. PICK d : d \in texts[k]
    BY <1>7
  <2>5. d \in Batch(texts, i)
    BY <1>5, <2>3, <2>4
  <2> QED BY <2>1, <2>2, <2>5
<1>9. b \in Seq(SUBSET (1..MaxDocuments)) /\ Len(b) = c
  <2>1. \A i \in 1..c : Batch(texts, i) \in SUBSET (1..MaxDocuments)
    <3>1. 1..n \subseteq 1..MaxDocuments
      BY <1>1
    <3> QED BY <1>8, <3>1
  <2>2. b = [i \in 1..c |-> Batch(texts, i)]
    BY DEF c
  <2>3. b \in [1..c -> SUBSET (1..MaxDocuments)]
    BY <2>1, <2>2
  <2> QED BY <1>2, <2>3 DEF c
<1>20. \A e : e \in ToSet(b) <=> \E i \in 1..c : b[i] = e
  <2>1. PICK f \in Seq(SUBSET (1..MaxDocuments)) : f = b /\ Len(f) = c
    BY <1>9
  <2>2. \A e : e \in ToSet(f) <=> \E i \in 1..Len(f) : f[i] = e
    BY ElementsAt
  <2>3. \A e : e \in ToSet(f) <=> \E i \in 1..c : f[i] = e
    BY <2>1, <2>2
  <2> QED BY <2>1, <2>3
<1>10. ASSUME NEW i \in 1..c, NEW j \in 1..c, i # j PROVE b[i] \cap b[j] = {}
  <2> SUFFICES ASSUME NEW d, d \in b[i], d \in b[j] PROVE FALSE
    OBVIOUS
  <2>1. PICK k \in 1..Len(texts) : (k - 1) \div size = i - 1 /\ d \in texts[k]
    BY <1>5, <1>8
  <2>2. PICK l \in 1..Len(texts) : (l - 1) \div size = j - 1 /\ d \in texts[l]
    BY <1>5, <1>8
  <2>3. i - 1 # j - 1
    BY <1>2, <1>10
  <2>4. k # l
    BY <2>1, <2>2, <2>3
  <2>5. texts[k] \cap texts[l] = {}
    BY <2>4 DEF Separate
  <2> QED BY <2>1, <2>2, <2>5
<1>11. Separate(b, n)
  BY <1>8, <1>9, <1>10 DEF Separate
<1>12. ASSUME NEW d, d \in UNION ToSet(b) PROVE d \in UNION ToSet(texts)
  <2>1. PICK i \in 1..c : d \in b[i]
    BY <1>12, <1>20
  <2>2. PICK k \in 1..Len(texts) : d \in texts[k]
    BY <1>5, <1>8, <2>1
  <2>3. texts[k] \in ToSet(texts)
    BY <1>1, ElementsAt
  <2> QED BY <2>2, <2>3
<1>13. ASSUME NEW d, d \in UNION ToSet(texts) PROVE d \in UNION ToSet(b)
  <2>1. PICK k \in 1..Len(texts) : d \in texts[k]
    BY <1>1, <1>13, ElementsAt
  <2>2. PICK i \in 1..c : i = (k - 1) \div size + 1
    BY <1>3
  <2>3. (k - 1) \div size = i - 1
    BY <1>3, <2>2
  <2>4. d \in b[i]
    BY <1>5, <1>8, <2>1, <2>3
  <2>5. b[i] \in ToSet(b)
    BY <1>20
  <2> QED BY <2>4, <2>5
<1> QED BY <1>2, <1>6, <1>9, <1>11, <1>12, <1>13 DEF c, Texts

(* Separate texts stay separate when some are left out, and a text left    *)
(* out is missed.                                                          *)
LEMMA KeptSeparate ==
  ASSUME NEW b \in Texts, NEW n \in Nat, Separate(b, n), NEW I \in SUBSET (1..Len(b))
  PROVE  /\ Those(b, I) \in Texts
         /\ Len(Those(b, I)) = Cardinality(I)
         /\ Separate(Those(b, I), n)
         /\ I = 1..Len(b) => UNION ToSet(Those(b, I)) = UNION ToSet(b)
         /\ I # 1..Len(b) => UNION ToSet(Those(b, I)) # 1..n
<1> DEFINE t == Those(b, I)
           p == InOrder(I)
<1>1. b \in Seq(SUBSET (1..MaxDocuments))
  BY DEF Texts
<1> DEFINE m == Cardinality(I)
<1>2. /\ t \in Seq(SUBSET (1..MaxDocuments)) /\ Len(t) = m /\ m \in Nat
      /\ p \in [1..Len(t) -> I]
      /\ \A k \in 1..Len(t) : t[k] = b[p[k]]
      /\ \A j, k \in 1..Len(t) : j < k => p[j] < p[k]
  <2>1. /\ t \in Seq(SUBSET (1..MaxDocuments)) /\ Len(t) = m /\ m \in 0..Len(b)
        /\ p \in [1..m -> I]
        /\ \A k \in 1..m : t[k] = b[p[k]]
        /\ \A j, k \in 1..m : j < k => p[j] < p[k]
    <3> DEFINE S == SUBSET (1..MaxDocuments)
    <3>1. b \in Seq(S)
      BY <1>1
    <3> HIDE DEF S
    <3>2. /\ t \in Seq(S) /\ Len(t) = m /\ m \in 0..Len(b)
          /\ p \in [1..m -> I]
          /\ \A k \in 1..m : t[k] = b[p[k]]
          /\ \A j, k \in 1..m : j < k => p[j] < p[k]
      BY <3>1, ThoseListed
    <3> QED BY <3>2 DEF S
  <2> HIDE DEF t, p, m
  <2> QED BY <1>1, <2>1
<1>3. \A e : e \in ToSet(t) <=> \E i \in I : b[i] = e
  BY <1>1, ThoseElements
<1>4. \A e : e \in ToSet(b) <=> \E i \in 1..Len(b) : b[i] = e
  BY <1>1, ElementsAt
<1> HIDE DEF t, p
<1>5. ASSUME NEW k \in 1..Len(t) PROVE p[k] \in 1..Len(b) /\ t[k] = b[p[k]]
  <2>1. p[k] \in I
    BY <1>2
  <2> QED BY <1>2, <2>1
<1>6. ASSUME NEW j \in 1..Len(t), NEW k \in 1..Len(t), j # k PROVE t[j] \cap t[k] = {}
  <2>1. j < k \/ k < j
    BY <1>2, <1>6
  <2>2. p[j] < p[k] \/ p[k] < p[j]
    BY <1>2, <2>1
  <2>3. p[j] # p[k]
    BY <1>5, <2>2
  <2> QED BY <1>5, <2>3 DEF Separate
<1>7. Separate(t, n)
  BY <1>5, <1>6 DEF Separate
<1>8. ASSUME I = 1..Len(b) PROVE UNION ToSet(t) = UNION ToSet(b)
  <2>1. \A e : e \in ToSet(t) <=> e \in ToSet(b)
    BY <1>3, <1>4, <1>8
  <2> QED BY <2>1
<1>9. ASSUME I # 1..Len(b) PROVE UNION ToSet(t) # 1..n
  <2>1. PICK i \in 1..Len(b) : i \notin I
    BY <1>9
  <2>2. PICK d : d \in b[i] /\ d \in 1..n
    BY DEF Separate
  <2>3. \A j \in I : j \in 1..Len(b) /\ d \notin b[j]
    BY <2>1, <2>2 DEF Separate
  <2>4. d \notin UNION ToSet(t)
    BY <1>3, <2>3
  <2> QED BY <2>2, <2>4
<1> QED BY <1>2, <1>7, <1>8, <1>9 DEF t, Texts

(* The running calls after the turn of one asker changed. *)
LEMMA RunsAfter ==
  ASSUME NEW a \in Askers, asker \in [Askers -> AskerType], NEW new \in AskerType,
         asker' = [asker EXCEPT ![a] = new]
  PROVE  RunningNow' = (RunningNow \ RunningOf(a)) \cup
                   {<<a, i>> : i \in {j \in DOMAIN new.calls : new.calls[j] = "running"}}
<1>1. \A e : e \in RunningNow <=>
        \E b \in Askers : \E i \in DOMAIN asker[b].calls : asker[b].calls[i] = "running" /\ e = <<b, i>>
  BY DEF RunningNow, RunningOf
<1>2. \A e : e \in RunningNow' <=>
        \E b \in Askers : \E i \in DOMAIN asker'[b].calls : asker'[b].calls[i] = "running" /\ e = <<b, i>>
  BY DEF RunningNow, RunningOf
<1>3. \A e : e \in RunningOf(a) <=>
        \E i \in DOMAIN asker[a].calls : asker[a].calls[i] = "running" /\ e = <<a, i>>
  BY DEF RunningOf
<1>4. asker'[a] = new /\ \A b \in Askers : b # a => asker'[b] = asker[b]
  OBVIOUS
<1> DEFINE N == {<<a, i>> : i \in {j \in DOMAIN new.calls : new.calls[j] = "running"}}
<1>5. \A e : e \in N <=> \E i \in DOMAIN new.calls : new.calls[i] = "running" /\ e = <<a, i>>
  OBVIOUS
<1> HIDE DEF N
<1>6. ASSUME NEW e, e \in RunningNow' PROVE e \in (RunningNow \ RunningOf(a)) \cup N
  <2>1. PICK b \in Askers : \E i \in DOMAIN asker'[b].calls : asker'[b].calls[i] = "running" /\ e = <<b, i>>
    BY <1>2, <1>6
  <2>2. PICK i \in DOMAIN asker'[b].calls : asker'[b].calls[i] = "running" /\ e = <<b, i>>
    BY <2>1
  <2>3. CASE b = a
    BY <1>4, <1>5, <2>2, <2>3
  <2>4. CASE b # a
    <3>1. e \in RunningNow
      BY <1>1, <1>4, <2>2, <2>4
    <3>2. e \notin RunningOf(a)
      BY <1>3, <2>2, <2>4
    <3> QED BY <3>1, <3>2
  <2> QED BY <2>3, <2>4
<1>7. ASSUME NEW e, e \in N PROVE e \in RunningNow'
  BY <1>2, <1>4, <1>5, <1>7
<1>8. ASSUME NEW e, e \in RunningNow, e \notin RunningOf(a) PROVE e \in RunningNow'
  <2>1. PICK b \in Askers : \E i \in DOMAIN asker[b].calls : asker[b].calls[i] = "running" /\ e = <<b, i>>
    BY <1>1, <1>8
  <2>2. b # a
    BY <1>3, <1>8, <2>1
  <2> QED BY <1>2, <1>4, <2>1, <2>2
<1>9. \A e : e \in RunningNow' <=> e \in (RunningNow \ RunningOf(a)) \cup N
  BY <1>6, <1>7, <1>8
<1> QED BY <1>9 DEF N

(* A turn that neither had nor gets a running call leaves the permits.     *)
LEMMA QuietStep ==
  ASSUME GlobalInv, NEW a \in Askers, NEW new \in AskerType, AskerInv(new),
         asker' = [asker EXCEPT ![a] = new], permits' = permits,
         \A i \in DOMAIN asker[a].calls : asker[a].calls[i] # "running",
         \A i \in DOMAIN new.calls : new.calls[i] # "running"
  PROVE  GlobalInv'
<1>1. asker \in [Askers -> AskerType]
  BY DEF GlobalInv, GlobalTypeOK, AskerType
<1>2. asker' \in [Askers -> AskerType]
  BY <1>1
<1>3. RunningNow' = RunningNow
  <2>1. RunningOf(a) = {}
    BY DEF RunningOf
  <2>2. {<<a, i>> : i \in {j \in DOMAIN new.calls : new.calls[j] = "running"}} = {}
    OBVIOUS
  <2> QED BY <1>1, <2>1, <2>2, RunsAfter
<1>4. GlobalTypeOK'
  BY <1>2 DEF GlobalInv, GlobalTypeOK, AskerType
<1>5. ASSUME NEW b \in Askers PROVE AskerInv(asker'[b])
  BY <1>1 DEF GlobalInv
<1>6. ASSUME NEW b \in Askers PROVE AskerInv(asker[b])'
  BY <1>5 DEF AskerInv, Separate, Used, BatchCount
<1>7. PermitsConserved' /\ IsFiniteSet(RunningNow')
  BY <1>3 DEF GlobalInv, PermitsConserved, RunningNow
<1> QED BY <1>4, <1>6, <1>7 DEF GlobalInv

(* A turn may have no call. *)
LEMMA NoCalls == <<>> \in Seq(CallStates)
  OBVIOUS

(* What the invariant says of one turn. *)
LEMMA OneTurn ==
  ASSUME GlobalInv, NEW a \in Askers
  PROVE  /\ asker \in [Askers -> AskerType] /\ asker[a] \in AskerType /\ AskerInv(asker[a])
         /\ asker[a].calls \in Seq(CallStates)
         /\ DOMAIN asker[a].calls = 1..Len(asker[a].calls)
         /\ asker[a].current \in Seq(SUBSET (1..MaxDocuments))
         /\ Used(asker[a]) \in Nat /\ Used(asker[a]) <= MaxDocuments
<1>1. asker \in [Askers -> AskerType] /\ AskerInv(asker[a])
  BY DEF GlobalInv, GlobalTypeOK, AskerType
<1>2. asker[a] \in AskerType
  BY <1>1
<1>3. asker[a].calls \in Seq(CallStates) /\ asker[a].current \in Seq(SUBSET (1..MaxDocuments))
      /\ asker[a].total \in Nat
  BY <1>2 DEF AskerType, Texts
<1>4. Used(asker[a]) \in Nat /\ Used(asker[a]) <= MaxDocuments
  BY <1>3, GlobalConstants DEF Used
<1> QED BY <1>1, <1>2, <1>3, <1>4

(* A turn starts with a text for each document it reads. *)
LEMMA FetchKeeps ==
  ASSUME GlobalInv, NEW a \in Askers, Fetch(a)
  PROVE  GlobalInv'
<1> DEFINE t == asker[a]
           used(total) == IF total < MaxDocuments THEN total ELSE MaxDocuments
           texts(total) == [i \in 1..used(total) |-> {i}]
           step(total) == IF total = 0 THEN "empty" ELSE "ready"
<1>1. PICK total \in Totals :
        asker' = [asker EXCEPT ![a].total = total, ![a].step = step(total), ![a].current = texts(total)]
  BY DEF Fetch
<1>2. t.step = "fetch" /\ permits' = permits
  BY DEF Fetch
<1>3. asker \in [Askers -> AskerType] /\ t \in AskerType /\ AskerInv(t) /\ t.calls = <<>>
      /\ t.failed_batches = 0
  BY <1>2, OneTurn DEF AskerInv
<1> DEFINE new == [t EXCEPT !.total = total, !.step = step(total), !.current = texts(total)]
<1>4. asker' = [asker EXCEPT ![a] = new]
  <2> HIDE DEF step, texts
  <2> QED BY <1>1, <1>3
<1>5. total \in Nat /\ MaxDocuments \in Nat \ {0}
  BY GlobalConstants
<1>6. used(total) \in Nat /\ used(total) <= MaxDocuments
      /\ (total > 0 => used(total) > 0) /\ (total = 0 \/ total > 0)
  BY <1>5
<1> HIDE DEF used
<1>7. texts(total) \in Seq(SUBSET (1..MaxDocuments)) /\ Len(texts(total)) = used(total)
      /\ \A i \in 1..used(total) : texts(total)[i] = {i}
  BY <1>5, <1>6
<1> HIDE DEF texts
<1>8. step(total) \in GlobalSteps
  BY DEF GlobalSteps
<1>9. new \in AskerType
  BY <1>3, <1>5, <1>7, <1>8 DEF AskerType, Texts
<1>10. /\ new.total = total /\ new.step = step(total) /\ new.current = texts(total)
       /\ new.calls = <<>> /\ new.failed_batches = 0
  BY <1>3, <1>2 DEF AskerType
<1>11. Used(new) = used(total)
  BY <1>10 DEF Used, used
<1>12. Separate(texts(total), used(total))
  BY <1>7 DEF Separate
<1>13. UNION ToSet(texts(total)) = 1..used(total)
  <2>1. \A e : e \in ToSet(texts(total)) <=> \E i \in 1..used(total) : texts(total)[i] = e
    <3>1. PICK s \in Seq(SUBSET (1..MaxDocuments)) : s = texts(total)
      BY <1>7
    <3>2. \A e : e \in ToSet(s) <=> \E i \in 1..Len(s) : s[i] = e
      BY ElementsAt
    <3> QED BY <1>7, <3>1, <3>2
  <2>2. ASSUME NEW d \in 1..used(total) PROVE d \in UNION ToSet(texts(total))
    <3>1. {d} \in ToSet(texts(total))
      BY <1>7, <2>1
    <3> QED BY <3>1
  <2>3. ASSUME NEW d, d \in UNION ToSet(texts(total)) PROVE d \in 1..used(total)
    <3>1. PICK e \in ToSet(texts(total)) : d \in e
      BY <2>3
    <3> QED BY <1>7, <2>1, <3>1
  <2> QED BY <2>2, <2>3
<1>14. AskerInv(new)
  <2> HIDE DEF new
  <2>1. step(total) \in {"empty", "ready"} /\ (step(total) = "ready" => total > 0)
    BY <1>6
  <2> HIDE DEF step
  <2> QED BY <1>6, <1>7, <1>10, <1>11, <1>12, <1>13, <2>1 DEF AskerInv
<1> HIDE DEF new
<1>15. \A i \in DOMAIN new.calls : new.calls[i] # "running"
  BY <1>10
<1>16. \A i \in DOMAIN t.calls : t.calls[i] # "running"
  BY <1>3
<1> QED BY <1>2, <1>4, <1>9, <1>14, <1>15, <1>16, QuietStep

(* A round starts with calls for all batches, or with the answer's. *)
LEMMA StartRoundKeeps ==
  ASSUME GlobalInv, NEW a \in Askers, StartRound(a)
  PROVE  GlobalInv'
<1> DEFINE t == asker[a]
           c == BatchCount(t.current)
<1>1. t.step = "ready" /\ permits' = permits
  BY DEF StartRound
<1>2. asker \in [Askers -> AskerType] /\ t \in AskerType /\ AskerInv(t) /\ t.calls = <<>>
      /\ t.current \in Seq(SUBSET (1..MaxDocuments))
  BY <1>1, OneTurn DEF AskerInv
<1>3. c \in Nat
  <2>1. BatchSize \in Nat \ {0} /\ Len(t.current) + BatchSize - 1 \in Nat
    BY <1>2, GlobalConstants
  <2> QED BY <2>1, Quotient DEF BatchCount
<1>4. \A i \in DOMAIN t.calls : t.calls[i] # "running"
  BY <1>2
<1>5. CASE Len(t.current) > BatchSize
  <2> DEFINE calls == [i \in 1..c |-> "waiting"]
             new == [t EXCEPT !.step = "map", !.calls = calls]
  <2>1. asker' = [asker EXCEPT ![a] = new]
    BY <1>2, <1>5 DEF StartRound
  <2>2. calls \in Seq(CallStates) /\ Len(calls) = c /\ \A i \in DOMAIN calls : calls[i] = "waiting"
    BY <1>3 DEF CallStates
  <2> HIDE DEF calls
  <2>3. new \in AskerType
    BY <1>2, NoCalls, <2>2 DEF AskerType, GlobalSteps
  <2>4. /\ new.step = "map" /\ new.calls = calls /\ new.current = t.current /\ new.total = t.total
        /\ new.failed_batches = t.failed_batches
    BY <1>2 DEF AskerType
  <2> HIDE DEF new
  <2>5. AskerInv(new)
    BY <1>1, <1>2, <2>2, <2>4 DEF AskerInv, Used
  <2>6. \A i \in DOMAIN new.calls : new.calls[i] # "running"
    BY <2>2, <2>4
  <2> QED BY <1>1, <1>4, <2>1, <2>3, <2>5, <2>6, QuietStep
<1>6. CASE ~(Len(t.current) > BatchSize)
  <2> DEFINE new == [t EXCEPT !.step = "answer", !.calls = <<"waiting">>]
  <2>1. asker' = [asker EXCEPT ![a] = new]
    BY <1>2, <1>6 DEF StartRound
  <2>2. <<"waiting">> \in Seq(CallStates)
    BY DEF CallStates
  <2>3. new \in AskerType
    BY <1>2, NoCalls, <2>2 DEF AskerType, GlobalSteps
  <2>4. /\ new.step = "answer" /\ new.calls = <<"waiting">> /\ new.current = t.current
        /\ new.total = t.total /\ new.failed_batches = t.failed_batches
    BY <1>2 DEF AskerType
  <2> HIDE DEF new
  <2>5. Len(t.current) <= BatchSize
    BY <1>2, <1>6, GlobalConstants
  <2>6. AskerInv(new)
    BY <1>1, <1>2, <2>4, <2>5 DEF AskerInv, Used
  <2>7. \A i \in DOMAIN new.calls : new.calls[i] # "running"
    BY <2>4
  <2> QED BY <1>1, <1>4, <2>1, <2>3, <2>6, <2>7, QuietStep
<1> QED BY <1>5, <1>6

(* The texts of the batches that succeeded. *)
LEMMA CondensedRight ==
  ASSUME GlobalInv, NEW a \in Askers, asker[a].step = "map", AllEnded(a),
         ~(2 * Cardinality(Errors(a)) > Len(asker[a].calls))
  PROVE  LET n == Used(asker[a]) IN
         /\ Condensed(a) \in Texts
         /\ Len(Condensed(a)) > 0
         /\ Separate(Condensed(a), n)
         /\ Cardinality(Errors(a)) \in Nat
         /\ Cardinality(Errors(a)) = 0 => UNION ToSet(Condensed(a)) = UNION ToSet(asker[a].current)
         /\ Cardinality(Errors(a)) # 0 => UNION ToSet(Condensed(a)) # 1..n
<1> DEFINE t == asker[a]
           n == Used(t)
           c == BatchCount(t.current)
           ok == {i \in DOMAIN t.calls : t.calls[i] = "ok"}
           b == [i \in 1..c |-> Batch(t.current, i)]
<1>1. /\ AskerInv(t) /\ t.calls \in Seq(CallStates) /\ DOMAIN t.calls = 1..Len(t.calls)
      /\ n \in Nat /\ n <= MaxDocuments
      /\ t.current \in Texts
  BY OneTurn DEF Texts
<1>2. Len(t.calls) = c /\ Separate(t.current, n) /\ Len(t.current) > 0
  BY <1>1 DEF AskerInv
<1>3. c \in Nat \ {0} /\ b \in Texts /\ Len(b) = c /\ Separate(b, n)
      /\ UNION ToSet(b) = UNION ToSet(t.current)
  <2> HIDE DEF n
  <2> QED BY <1>1, <1>2, BatchesSeparate
<1>4. Condensed(a) = Those(b, ok)
  BY <1>1, <1>2 DEF Condensed
<1>5. ok \in SUBSET (1..c) /\ Errors(a) = (1..c) \ ok
  BY <1>1, <1>2 DEF AllEnded, Errors
<1>6. IsFiniteSet(1..c) /\ Cardinality(1..c) = c
  BY <1>3, PositionsCount
<1> HIDE DEF ok, b, c, n
<1>7. IsFiniteSet(Errors(a)) /\ Cardinality(Errors(a)) \in Nat
  BY <1>5, <1>6, FS_Subset, FS_CardinalityType
<1>8. Cardinality(Errors(a)) = 0 <=> ok = 1..c
  BY <1>5, <1>7, FS_EmptySet
<1>9. IsFiniteSet(ok) /\ Cardinality(ok) \in Nat
  BY <1>5, <1>6, FS_Subset, FS_CardinalityType
<1>10. Cardinality(ok) > 0
  <2> SUFFICES ASSUME Cardinality(ok) = 0 PROVE FALSE
    BY <1>9
  <2>1. ok = {}
    BY <1>9, FS_EmptySet
  <2>2. Cardinality(Errors(a)) = c
    <3>1. Errors(a) = 1..c
      BY <1>5, <2>1
    <3> QED BY <1>6, <3>1
  <2> QED BY <1>2, <1>3, <2>2
<1>11. PICK d \in Texts : d = b
  BY <1>3
<1>12. /\ Those(d, ok) \in Texts /\ Len(Those(d, ok)) = Cardinality(ok) /\ Separate(Those(d, ok), n)
       /\ ok = 1..Len(d) => UNION ToSet(Those(d, ok)) = UNION ToSet(d)
       /\ ok # 1..Len(d) => UNION ToSet(Those(d, ok)) # 1..n
  BY <1>1, <1>3, <1>5, <1>11, KeptSeparate
<1> QED BY <1>3, <1>4, <1>7, <1>8, <1>10, <1>11, <1>12 DEF n

(* A round leaves separate texts, and its failures are remembered. *)
LEMMA RoundEndsKeeps ==
  ASSUME GlobalInv, NEW a \in Askers, RoundEnds(a)
  PROVE  GlobalInv'
<1> DEFINE t == asker[a]
<1>1. t.step = "map" /\ permits' = permits /\ AllEnded(a)
  BY DEF RoundEnds
<1>2. asker \in [Askers -> AskerType] /\ t \in AskerType /\ AskerInv(t)
  BY OneTurn
<1>3. \A i \in DOMAIN t.calls : t.calls[i] # "running"
  BY <1>1 DEF AllEnded
<1>4. CASE 2 * Cardinality(Errors(a)) > Len(t.calls)
  <2> DEFINE new == [t EXCEPT !.step = "failed", !.calls = <<>>]
  <2>1. asker' = [asker EXCEPT ![a] = new]
    BY <1>2, <1>4 DEF RoundEnds
  <2>2. new \in AskerType
    BY <1>2, NoCalls DEF AskerType, GlobalSteps
  <2>3. new.step = "failed" /\ new.calls = <<>>
    BY <1>2 DEF AskerType
  <2> HIDE DEF new
  <2>4. AskerInv(new) /\ \A i \in DOMAIN new.calls : new.calls[i] # "running"
    BY <2>3 DEF AskerInv
  <2> QED BY <1>1, <1>3, <2>1, <2>2, <2>4, QuietStep
<1>5. CASE ~(2 * Cardinality(Errors(a)) > Len(t.calls))
  <2> DEFINE e == Cardinality(Errors(a))
             failed == t.failed_batches + e
             new == [t EXCEPT !.step = "ready", !.calls = <<>>, !.current = Condensed(a),
                              !.failed_batches = failed]
  <2>1. asker' = [asker EXCEPT ![a] = new]
    BY <1>2, <1>5 DEF RoundEnds
  <2>2. /\ Condensed(a) \in Texts /\ Len(Condensed(a)) > 0 /\ Separate(Condensed(a), Used(t))
        /\ e \in Nat
        /\ e = 0 => UNION ToSet(Condensed(a)) = UNION ToSet(t.current)
        /\ e # 0 => UNION ToSet(Condensed(a)) # 1..Used(t)
    BY <1>1, <1>5, CondensedRight
  <2> HIDE DEF e
  <2>3. t.failed_batches \in Nat /\ failed \in Nat
    BY <1>2, <2>2 DEF AskerType
  <2>4. failed = 0 <=> t.failed_batches = 0 /\ e = 0
    BY <2>2, <2>3
  <2> HIDE DEF failed
  <2>5. new \in AskerType
    BY <1>2, NoCalls, <2>2, <2>3 DEF AskerType, GlobalSteps
  <2>6. /\ new.step = "ready" /\ new.calls = <<>> /\ new.current = Condensed(a)
        /\ new.failed_batches = failed /\ new.total = t.total
    BY <1>2 DEF AskerType
  <2> HIDE DEF new
  <2>7. Used(new) = Used(t)
    BY <2>6 DEF Used
  <2>8. /\ t.total > 0
        /\ t.failed_batches = 0 <=> UNION ToSet(t.current) = 1..Used(t)
    BY <1>1, <1>2 DEF AskerInv
  <2>9. new.failed_batches = 0 <=> UNION ToSet(new.current) = 1..Used(new)
    <3>1. CASE e = 0
      <4>1. UNION ToSet(new.current) = UNION ToSet(t.current)
        BY <2>2, <2>6, <3>1
      <4>2. new.failed_batches = 0 <=> t.failed_batches = 0
        BY <2>6, <2>4, <3>1
      <4> QED BY <2>7, <2>8, <4>1, <4>2
    <3>2. CASE e # 0
      <4>1. UNION ToSet(new.current) # 1..Used(new)
        BY <2>2, <2>6, <2>7, <3>2
      <4>2. new.failed_batches # 0
        BY <2>6, <2>4, <3>2
      <4> QED BY <4>1, <4>2
    <3> QED BY <3>1, <3>2
  <2>10. new.total > 0 /\ Len(new.current) > 0 /\ Separate(new.current, Used(new))
    BY <2>2, <2>6, <2>7, <2>8
  <2>11. AskerInv(new) /\ \A i \in DOMAIN new.calls : new.calls[i] # "running"
    BY <2>6, <2>9, <2>10 DEF AskerInv
  <2> QED BY <1>1, <1>3, <2>1, <2>5, <2>11, QuietStep
<1> QED BY <1>4, <1>5

(* The answer carries the notices that are due. *)
LEMMA AnswerEndsKeeps ==
  ASSUME GlobalInv, NEW a \in Askers, AnswerEnds(a)
  PROVE  GlobalInv'
<1> DEFINE t == asker[a]
<1>1. t.step = "answer" /\ permits' = permits /\ AllEnded(a)
  BY DEF AnswerEnds
<1>2. asker \in [Askers -> AskerType] /\ t \in AskerType /\ AskerInv(t)
  BY OneTurn
<1>3. \A i \in DOMAIN t.calls : t.calls[i] # "running"
  BY <1>1 DEF AllEnded
<1>4. CASE Errors(a) = {}
  <2> DEFINE new == [t EXCEPT !.step = "answered", !.calls = <<>>, !.notices = Notices(a)]
  <2>1. asker' = [asker EXCEPT ![a] = new]
    BY <1>2, <1>4 DEF AnswerEnds
  <2>2. new \in AskerType
    BY <1>2, NoCalls DEF AskerType, GlobalSteps, Notices
  <2>3. /\ new.step = "answered" /\ new.calls = <<>> /\ new.notices = Notices(a)
        /\ new.total = t.total /\ new.failed_batches = t.failed_batches /\ new.current = t.current
    BY <1>2 DEF AskerType
  <2>4. /\ "truncated" \in Notices(a) <=> t.total > MaxDocuments
        /\ "partial" \in Notices(a) <=> t.failed_batches > 0
    BY DEF Notices
  <2> HIDE DEF new
  <2>5. AskerInv(new) /\ \A i \in DOMAIN new.calls : new.calls[i] # "running"
    BY <1>1, <1>2, <2>3, <2>4 DEF AskerInv, Used
  <2> QED BY <1>1, <1>3, <2>1, <2>2, <2>5, QuietStep
<1>5. CASE Errors(a) # {}
  <2> DEFINE new == [t EXCEPT !.step = "failed", !.calls = <<>>]
  <2>1. asker' = [asker EXCEPT ![a] = new]
    BY <1>2, <1>5 DEF AnswerEnds
  <2>2. new \in AskerType
    BY <1>2, NoCalls DEF AskerType, GlobalSteps
  <2>3. new.step = "failed" /\ new.calls = <<>>
    BY <1>2 DEF AskerType
  <2> HIDE DEF new
  <2>4. AskerInv(new) /\ \A i \in DOMAIN new.calls : new.calls[i] # "running"
    BY <2>3 DEF AskerInv
  <2> QED BY <1>1, <1>3, <2>1, <2>2, <2>4, QuietStep
<1> QED BY <1>4, <1>5

(* A step that changes the calls and the permits together. *)
LEMMA PermitStep ==
  ASSUME GlobalInv, NEW a \in Askers, NEW new \in AskerType, AskerInv(new),
         asker' = [asker EXCEPT ![a] = new], permits' \in Int,
         IsFiniteSet(RunningNow'), permits' + Cardinality(RunningNow') = GuardSize, permits' >= 0
  PROVE  GlobalInv'
<1>1. asker \in [Askers -> AskerType]
  BY DEF GlobalInv, GlobalTypeOK, AskerType
<1>2. asker' \in [Askers -> AskerType]
  BY <1>1
<1>3. Cardinality(RunningNow') \in Nat
  BY FS_CardinalityType
<1>4. permits' \in 0..GuardSize
  BY <1>3, GlobalConstants
<1>5. GlobalTypeOK'
  BY <1>2, <1>4 DEF GlobalTypeOK, AskerType
<1>6. ASSUME NEW b \in Askers PROVE AskerInv(asker'[b])
  BY <1>1 DEF GlobalInv
<1>7. ASSUME NEW b \in Askers PROVE AskerInv(asker[b])'
  BY <1>6 DEF AskerInv, Separate, Used, BatchCount
<1>8. PermitsConserved'
  BY DEF PermitsConserved, RunningNow
<1> QED BY <1>5, <1>7, <1>8 DEF GlobalInv

(* A call that gets a permit runs. *)
LEMMA AcquireKeeps ==
  ASSUME GlobalInv, NEW a \in Askers, Acquire(a)
  PROVE  GlobalInv'
<1> DEFINE t == asker[a]
<1>1. PICK i \in DOMAIN t.calls : t.calls[i] = "waiting" /\ asker' = [asker EXCEPT ![a].calls[i] = "running"]
  BY DEF Acquire
<1>2. permits > 0 /\ permits' = permits - 1
  BY DEF Acquire
<1>3. /\ asker \in [Askers -> AskerType] /\ t \in AskerType /\ AskerInv(t)
      /\ t.calls \in Seq(CallStates) /\ DOMAIN t.calls = 1..Len(t.calls)
  BY OneTurn
<1> DEFINE calls == [t.calls EXCEPT ![i] = "running"]
           new == [t EXCEPT !.calls = calls]
<1>4. calls \in Seq(CallStates) /\ Len(calls) = Len(t.calls) /\ DOMAIN calls = DOMAIN t.calls
      /\ \A j \in DOMAIN t.calls : calls[j] = IF j = i THEN "running" ELSE t.calls[j]
  BY <1>1, <1>3 DEF CallStates
<1>5. asker' = [asker EXCEPT ![a] = new]
  BY <1>1, <1>3
<1> HIDE DEF calls
<1>6. new \in AskerType
  BY <1>3, <1>4 DEF AskerType
<1>7. /\ new.calls = calls /\ new.step = t.step /\ new.total = t.total /\ new.current = t.current
      /\ new.failed_batches = t.failed_batches /\ new.notices = t.notices
  BY <1>3 DEF AskerType
<1> HIDE DEF new
<1>8. t.step \in {"map", "answer"}
  <2>1. t.calls # <<>>
    BY <1>1
  <2> QED BY <1>3, <2>1 DEF AskerInv
<1>9. AskerInv(new)
  BY <1>3, <1>4, <1>7, <1>8 DEF AskerInv, Used
<1> DEFINE r == <<a, i>>
           N == {<<a, k>> : k \in {j \in DOMAIN new.calls : new.calls[j] = "running"}}
<1>10. N = RunningOf(a) \cup {r}
  <2>1. {j \in DOMAIN new.calls : new.calls[j] = "running"}
          = {j \in DOMAIN t.calls : t.calls[j] = "running"} \cup {i}
    BY <1>1, <1>4, <1>7
  <2> QED BY <2>1 DEF RunningOf
<1>11. RunningNow' = (RunningNow \ RunningOf(a)) \cup N
  BY <1>3, <1>5, <1>6, RunsAfter
<1> HIDE DEF N
<1>12. RunningOf(a) \subseteq RunningNow
  BY DEF RunningNow
<1>13. RunningNow' = RunningNow \cup {r}
  BY <1>10, <1>11, <1>12
<1>14. r \notin RunningNow
  BY <1>1 DEF RunningNow, RunningOf
<1>15. IsFiniteSet(RunningNow) /\ permits + Cardinality(RunningNow) = GuardSize /\ permits \in Nat
  BY GlobalConstants DEF GlobalInv, PermitsConserved, GlobalTypeOK, RunningNow
<1> HIDE DEF r
<1>16. IsFiniteSet(RunningNow') /\ Cardinality(RunningNow') = Cardinality(RunningNow) + 1
  BY <1>13, <1>14, <1>15, FS_AddElement
<1>17. Cardinality(RunningNow) \in Nat
  BY <1>15, FS_CardinalityType
<1>18. permits' + Cardinality(RunningNow') = GuardSize /\ permits' \in Int /\ permits' >= 0
  BY <1>2, <1>15, <1>16, <1>17
<1> QED BY <1>5, <1>6, <1>9, <1>16, <1>18, PermitStep

(* A call that returns or raises gives its permit back. *)
LEMMA CallEndsKeeps ==
  ASSUME GlobalInv, NEW a \in Askers, CallEnds(a)
  PROVE  GlobalInv'
<1> DEFINE t == asker[a]
<1>1. PICK i \in DOMAIN t.calls, result \in {"ok", "error"} :
        t.calls[i] = "running" /\ asker' = [asker EXCEPT ![a].calls[i] = result]
        /\ permits' = permits + 1
  BY DEF CallEnds
<1>3. /\ asker \in [Askers -> AskerType] /\ t \in AskerType /\ AskerInv(t)
      /\ t.calls \in Seq(CallStates) /\ DOMAIN t.calls = 1..Len(t.calls)
  BY OneTurn
<1> DEFINE calls == [t.calls EXCEPT ![i] = result]
           new == [t EXCEPT !.calls = calls]
<1>4. calls \in Seq(CallStates) /\ Len(calls) = Len(t.calls) /\ DOMAIN calls = DOMAIN t.calls
      /\ \A j \in DOMAIN t.calls : calls[j] = IF j = i THEN result ELSE t.calls[j]
  BY <1>1, <1>3 DEF CallStates
<1>5. asker' = [asker EXCEPT ![a] = new]
  BY <1>1, <1>3
<1> HIDE DEF calls
<1>6. new \in AskerType
  BY <1>3, <1>4 DEF AskerType
<1>7. /\ new.calls = calls /\ new.step = t.step /\ new.total = t.total /\ new.current = t.current
      /\ new.failed_batches = t.failed_batches /\ new.notices = t.notices
  BY <1>3 DEF AskerType
<1> HIDE DEF new
<1>8. t.step \in {"map", "answer"}
  <2>1. t.calls # <<>>
    BY <1>1
  <2> QED BY <1>3, <2>1 DEF AskerInv
<1>9. AskerInv(new)
  BY <1>3, <1>4, <1>7, <1>8 DEF AskerInv, Used
<1> DEFINE r == <<a, i>>
           N == {<<a, k>> : k \in {j \in DOMAIN new.calls : new.calls[j] = "running"}}
<1>10. N = RunningOf(a) \ {r}
  <2>1. {j \in DOMAIN new.calls : new.calls[j] = "running"}
          = {j \in DOMAIN t.calls : t.calls[j] = "running"} \ {i}
    BY <1>1, <1>4, <1>7
  <2> QED BY <2>1 DEF RunningOf
<1>11. RunningNow' = (RunningNow \ RunningOf(a)) \cup N
  BY <1>3, <1>5, <1>6, RunsAfter
<1> HIDE DEF N
<1>12. RunningOf(a) \subseteq RunningNow /\ r \in RunningOf(a)
  BY <1>1 DEF RunningNow, RunningOf
<1>13. RunningNow' = RunningNow \ {r}
  BY <1>10, <1>11, <1>12
<1>15. IsFiniteSet(RunningNow) /\ permits + Cardinality(RunningNow) = GuardSize /\ permits \in Nat
  BY GlobalConstants DEF GlobalInv, PermitsConserved, GlobalTypeOK, RunningNow
<1> HIDE DEF r
<1>16. IsFiniteSet(RunningNow') /\ Cardinality(RunningNow') = Cardinality(RunningNow) - 1
  BY <1>12, <1>13, <1>15, FS_RemoveElement
<1>17. Cardinality(RunningNow) \in Nat
  BY <1>15, FS_CardinalityType
<1>18. permits' + Cardinality(RunningNow') = GuardSize /\ permits' \in Int /\ permits' >= 0
  BY <1>1, <1>15, <1>16, <1>17
<1> QED BY <1>5, <1>6, <1>9, <1>16, <1>18, PermitStep

(* A cancelled turn gives back the permits of all its running calls. *)
LEMMA CancelKeeps ==
  ASSUME GlobalInv, NEW a \in Askers, CancelAsker(a)
  PROVE  GlobalInv'
<1> DEFINE t == asker[a]
           new == [t EXCEPT !.step = "cancelled", !.calls = <<>>]
           running == {i \in DOMAIN t.calls : t.calls[i] = "running"}
<1>1. /\ asker \in [Askers -> AskerType] /\ t \in AskerType
      /\ t.calls \in Seq(CallStates) /\ DOMAIN t.calls = 1..Len(t.calls)
  BY OneTurn
<1>2. asker' = [asker EXCEPT ![a] = new] /\ permits' = permits + Cardinality(running)
  BY <1>1 DEF CancelAsker
<1>3. new \in AskerType /\ new.step = "cancelled" /\ new.calls = <<>>
  BY <1>1, NoCalls DEF AskerType, GlobalSteps
<1> HIDE DEF new
<1>4. AskerInv(new)
  BY <1>3 DEF AskerInv
<1>5. RunningNow' = RunningNow \ RunningOf(a)
  <2>1. {<<a, i>> : i \in {j \in DOMAIN new.calls : new.calls[j] = "running"}} = {}
    BY <1>3
  <2> QED BY <1>1, <1>2, <1>3, <2>1, RunsAfter
<1>6. IsFiniteSet(running)
  <2>1. IsFiniteSet(1..Len(t.calls))
    BY <1>1, FS_Interval
  <2>2. running \subseteq 1..Len(t.calls)
    BY <1>1
  <2> HIDE DEF running
  <2> QED BY <2>1, <2>2, FS_Subset
<1>7. Cardinality(RunningOf(a)) = Cardinality(running)
  <2> DEFINE f == [i \in running |-> <<a, i>>]
  <2>1. RunningOf(a) = {<<a, i>> : i \in running}
    BY DEF RunningOf
  <2> HIDE DEF running
  <2>2. f \in [running -> RunningOf(a)]
    BY <2>1
  <2>3. \A i, j \in running : f[i] = f[j] => i = j
    OBVIOUS
  <2>4. \A e \in RunningOf(a) : \E i \in running : f[i] = e
    BY <2>1
  <2> HIDE DEF f
  <2>5. f \in Bijection(running, RunningOf(a))
    BY <2>2, <2>3, <2>4 DEF Bijection, Injection, Surjection, IsInjective
  <2>6. ExistsBijection(running, RunningOf(a))
    BY <2>5 DEF ExistsBijection
  <2> QED BY <1>6, <2>6, FS_Bijection
<1> HIDE DEF running
<1>8. IsFiniteSet(RunningNow) /\ permits + Cardinality(RunningNow) = GuardSize /\ permits \in Nat
  BY GlobalConstants DEF GlobalInv, PermitsConserved, GlobalTypeOK, RunningNow
<1>9. IsFiniteSet(RunningNow') /\ Cardinality(RunningNow') = Cardinality(RunningNow) - Cardinality(running)
  <2>1. RunningNow \cap RunningOf(a) = RunningOf(a)
    BY DEF RunningNow
  <2>2. /\ IsFiniteSet(RunningNow \ RunningOf(a))
        /\ Cardinality(RunningNow \ RunningOf(a)) = Cardinality(RunningNow) - Cardinality(RunningNow \cap RunningOf(a))
    BY <1>8, FS_Difference
  <2> QED BY <1>5, <1>7, <2>1, <2>2
<1>10. Cardinality(RunningNow) \in Nat /\ Cardinality(running) \in Nat
  BY <1>6, <1>8, FS_CardinalityType
<1>11. permits' + Cardinality(RunningNow') = GuardSize /\ permits' \in Int /\ permits' >= 0
  BY <1>2, <1>8, <1>9, <1>10
<1> QED BY <1>2, <1>3, <1>4, <1>9, <1>11, PermitStep

(* The initial state is good. *)
LEMMA GlobalInitInv == GlobalInit => GlobalInv
<1> SUFFICES ASSUME GlobalInit PROVE GlobalInv
  OBVIOUS
<1>1. permits = GuardSize /\ asker = [a \in Askers |-> NoAsker]
  BY DEF GlobalInit
<1>2. NoAsker \in AskerType
  BY DEF NoAsker, AskerType, GlobalSteps, Texts, CallStates
<1>3. GlobalTypeOK
  BY <1>1, <1>2, GlobalConstants DEF GlobalTypeOK, AskerType
<1>4. \A a \in Askers : AskerInv(asker[a])
  BY <1>1 DEF AskerInv, NoAsker
<1>5. RunningNow = {}
  BY <1>1 DEF RunningNow, RunningOf, NoAsker
<1>6. IsFiniteSet(RunningNow) /\ Cardinality(RunningNow) = 0
  BY <1>5, FS_EmptySet
<1>7. PermitsConserved
  BY <1>1, <1>6, GlobalConstants DEF PermitsConserved, RunningNow
<1> QED BY <1>3, <1>4, <1>6, <1>7 DEF GlobalInv

(* Every step of every asker keeps the invariant. *)
LEMMA GlobalNextInv == GlobalInv /\ [GlobalNext]_globalVars => GlobalInv'
<1> SUFFICES ASSUME GlobalInv, [GlobalNext]_globalVars PROVE GlobalInv'
  OBVIOUS
<1>1. CASE GlobalNext
  <2>1. PICK a \in Askers : GlobalProgress(a) \/ Acquire(a) \/ CancelAsker(a)
    BY <1>1 DEF GlobalNext
  <2> QED BY <2>1, FetchKeeps, StartRoundKeeps, CallEndsKeeps, RoundEndsKeeps, AnswerEndsKeeps,
             AcquireKeeps, CancelKeeps DEF GlobalProgress
<1>2. CASE UNCHANGED globalVars
  <2>1. asker' = asker /\ permits' = permits
    BY <1>2 DEF globalVars
  <2>2. GlobalTypeOK' /\ RunningNow' = RunningNow /\ PermitsConserved'
    BY <2>1 DEF GlobalInv, GlobalTypeOK, RunningNow, RunningOf, PermitsConserved
  <2>3. ASSUME NEW b \in Askers PROVE AskerInv(asker[b])'
    BY <2>1 DEF GlobalInv, AskerInv, Separate, Used, BatchCount
  <2> QED BY <2>2, <2>3 DEF GlobalInv
<1> QED BY <1>1, <1>2

(* The invariant says what the askers rely on. *)
LEMMA GlobalInvTrue == GlobalInv => SummariesAreTrue
<1> SUFFICES ASSUME GlobalInv PROVE SummariesAreTrue
  OBVIOUS
<1>1. ASSUME NEW a \in Askers, asker[a].step = "answered"
      PROVE  LET covered == UNION Range(asker[a].current) IN
        /\ "truncated" \in asker[a].notices <=> Cardinality(covered) < asker[a].total
                                                /\ asker[a].total > MaxDocuments
        /\ "partial" \in asker[a].notices <=>
             covered # 1..(IF asker[a].total < MaxDocuments THEN asker[a].total ELSE MaxDocuments)
  <2> DEFINE t == asker[a]
             covered == UNION Range(t.current)
             n == Used(t)
  <2>1. /\ AskerInv(t) /\ t.current \in Seq(SUBSET (1..MaxDocuments)) /\ n \in Nat /\ n <= MaxDocuments
        /\ t.total \in Nat /\ t.failed_batches \in Nat
    BY OneTurn DEF AskerType
  <2>2. Range(t.current) = ToSet(t.current)
    BY DEF Range, ToSet
  <2>3. /\ "truncated" \in t.notices <=> t.total > MaxDocuments
        /\ "partial" \in t.notices <=> t.failed_batches > 0
        /\ Separate(t.current, n)
        /\ t.failed_batches = 0 <=> covered = 1..n
    BY <1>1, <2>1, <2>2 DEF AskerInv
  <2>4. covered \subseteq 1..n
    <3>1. \A e : e \in ToSet(t.current) <=> \E i \in 1..Len(t.current) : t.current[i] = e
      BY <2>1, ElementsAt
    <3> QED BY <2>2, <2>3, <3>1 DEF Separate
  <2>5. IsFiniteSet(1..n) /\ Cardinality(1..n) = n
    BY <2>1, PositionsCount
  <2> HIDE DEF covered
  <2>6. Cardinality(covered) \in Nat /\ Cardinality(covered) <= n
    BY <2>4, <2>5, FS_Subset, FS_CardinalityType
  <2>7. t.total > MaxDocuments => Cardinality(covered) < t.total
    BY <2>1, <2>6, GlobalConstants
  <2>8. "partial" \in t.notices <=> covered # 1..n
    BY <2>1, <2>3
  <2> QED BY <2>3, <2>7, <2>8 DEF Used, covered
<1>2. NoticesAreTrue
  BY <1>1 DEF NoticesAreTrue
<1>3. AnswerFits
  <2> SUFFICES ASSUME NEW a \in Askers, asker[a].step \in {"answer", "answered"}
               PROVE  Len(asker[a].current) \in 1..BatchSize
    BY DEF AnswerFits
  <2>1. AskerInv(asker[a]) /\ Len(asker[a].current) \in Nat
    BY OneTurn
  <2>2. Len(asker[a].current) > 0 /\ Len(asker[a].current) <= BatchSize
    BY <2>1 DEF AskerInv
  <2> QED BY <2>1, <2>2, GlobalConstants
<1> QED BY <1>2, <1>3 DEF GlobalInv, SummariesAreTrue

(* For any number of askers, documents and permits, whatever fails and     *)
(* whoever is cancelled: permits are neither lost nor made up, the answer  *)
(* says when it lacks a document that was read or when not all were read,  *)
(* and its call gets a text but no more than fit.                          *)
THEOREM SummariesAlwaysTrue == GlobalSpec => []SummariesAreTrue
<1>1. GlobalInit => GlobalInv
  BY GlobalInitInv
<1>2. GlobalInv /\ [GlobalNext]_globalVars => GlobalInv'
  BY GlobalNextInv
<1>3. GlobalInv => SummariesAreTrue
  BY GlobalInvTrue
<1> QED BY <1>1, <1>2, <1>3, PTL DEF GlobalSpec
==============================================================================
