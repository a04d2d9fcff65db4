--------------------------- MODULE DocumentLifecycle ---------------------------
(***************************************************************************)
(* What the ingestion queue promises about a document, without workers,    *)
(* leases or transactions: an uploaded document is attempted, one attempt  *)
(* at a time, at most MaxAttempts times, until an attempt finishes it or   *)
(* none is left, and then its row never changes again.                     *)
(***************************************************************************)
EXTENDS Integers

CONSTANTS Docs, MaxAttempts

VARIABLES status, attempt

vars == <<status, attempt>>

Init ==
    /\ status = [d \in Docs |-> "ABSENT"]
    /\ attempt = [d \in Docs |-> 0]

Submit(d) ==
    /\ status[d] = "ABSENT"
    /\ status' = [status EXCEPT ![d] = "PENDING"]
    /\ UNCHANGED attempt

Begin(d) ==
    /\ status[d] = "PENDING"
    /\ attempt[d] < MaxAttempts
    /\ status' = [status EXCEPT ![d] = "PROCESSING"]
    /\ attempt' = [attempt EXCEPT ![d] = @ + 1]

Finish(d) ==
    /\ status[d] = "PROCESSING"
    /\ \E s \in {"INDEXED", "FAILED"} : status' = [status EXCEPT ![d] = s]
    /\ UNCHANGED attempt

(* The running attempts of the documents in lost came to nothing.          *)
Abandon(lost) ==
    /\ \A d \in lost : status[d] = "PROCESSING"
    /\ status' = [d \in Docs |-> IF d \notin lost THEN status[d]
                                 ELSE IF attempt[d] < MaxAttempts THEN "PENDING" ELSE "FAILED"]
    /\ UNCHANGED attempt

Next ==
    \/ \E d \in Docs : Submit(d) \/ Begin(d) \/ Finish(d)
    \/ \E lost \in SUBSET Docs : Abandon(lost)

Spec == Init /\ [][Next]_vars
=============================================================================
