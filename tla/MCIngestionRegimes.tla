-------------------------- MODULE MCIngestionRegimes --------------------------
(***************************************************************************)
(* The ingestion queue under two regimes, for TLC in one run: with the     *)
(* faults of the cfg on the first document alone, and without any on all.  *)
(***************************************************************************)
EXTENDS MCIngestion

VARIABLE quiet

Quiet == INSTANCE Ingestion WITH Faults <- {}

RegimeInit ==
    /\ quiet \in BOOLEAN
    /\ Init

RegimeNext ==
    /\ UNCHANGED quiet
    /\ \/ quiet /\ Quiet!Next
       \/ ~quiet /\ Next /\ \A d \in Docs \ {1} : status'[d] = "ABSENT"

RegimeSpec == RegimeInit /\ [][RegimeNext]_<<quiet, vars>>

(* NoLostWakeup of Ingestion where nothing fails: an upload that a worker  *)
(* was told of does not wait for its poll.                                 *)
QuietWakeups == quiet => NoLostWakeup
===============================================================================
