---------------------------- MODULE MCAgentThread ----------------------------
(***************************************************************************)
(* Conversation threads on small instances: clients are interchangeable.   *)
(* A behaviour is of one of two kinds, picked at the start: the turns of   *)
(* the thread come one after the other, under any strategy, or they may    *)
(* overlap, under the routed graph.                                        *)
(***************************************************************************)
EXTENDS AgentThread, TLC

VARIABLE overlapping

ClientSymmetry == Permutations(Clients)

threadVars == <<vars, overlapping>>

ThreadInit == Init /\ overlapping \in BOOLEAN

InTurn == \A c, d \in Clients : c # d => At(c, "idle") \/ At(d, "idle")

(* Bound: overlapping turns ask for one tool call at a time.               *)
Routed ==
    \A c \in Clients :
      /\ At(c, "idle") \/ run[c].strategy = "ROUTED"
      /\ At(c, "tools") \/ At(c, "finalize") => Pending(c) <= 1

ThreadNext == Next /\ UNCHANGED overlapping /\ IF overlapping THEN Routed' ELSE InTurn'

ThreadSpec == ThreadInit /\ [][ThreadNext]_threadVars

(* HistoryAccepted, also while turns of the routed graph overlap.          *)
RoutedHistoryIsAccepted == overlapping => HistoryAccepted

(* The thread forgets no message as long as turns follow each other:       *)
(* failing turns and changes of strategy lose none of those checkpointed.  *)
ThreadRemembersTurns == [][~overlapping => IsPrefix(thread.history, thread'.history)]_threadVars
=============================================================================
