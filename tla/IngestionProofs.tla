--------------------------- MODULE IngestionProofs ---------------------------
(***************************************************************************)
(* Proofs about the ingestion queue, for any number of documents, workers, *)
(* attempts and chunks, and whatever faults occur.                         *)
(***************************************************************************)
EXTENDS Ingestion, TLAPS

(* A worker about to commit a claim has locked a PENDING row that no other *)
(* worker has locked, so the number it will return is the next one.        *)
LocksHold ==
    /\ \A w \in Workers : pc[w] = "commit" =>
         /\ job[w].doc \in Docs
         /\ status[job[w].doc] = "PENDING"
         /\ job[w].attempt = attempt_count[job[w].doc] + 1
    /\ \A v, w \in Workers :
         v # w /\ pc[v] = "commit" /\ pc[w] = "commit" => job[v].doc # job[w].doc

(* A running job is about a row that was uploaded, with a number that was  *)
(* handed out.                                                             *)
JobsClaimed ==
    \A w \in Workers : pc[w] \in JobSteps =>
      /\ job[w].doc \in Docs
      /\ status[job[w].doc] # "ABSENT"
      /\ job[w].attempt >= 1

AbsentUntried == \A d \in Docs : status[d] = "ABSENT" => attempt_count[d] = 0

Claims == LocksHold /\ JobsClaimed /\ AbsentUntried /\ TokensFence

QInv == TypeOK /\ Claims

(* The queue begins with nothing claimed. *)
LEMMA InitQInv == Init => QInv
  BY MaxAttemptsAssumption, MaxChunksAssumption
     DEF Init, QInv, Claims, TypeOK, LocksHold, JobsClaimed, AbsentUntried, TokensFence, Statuses, Attempts,
         Errors, Steps, IdleSteps, JobSteps, Jobs, NoJob

(***************************************************************************)
(* Control flow: what a worker's step does to pc and job.                  *)
(***************************************************************************)

(* Only w moves; it keeps its job or has none afterwards, and locks none.  *)
Moves(w) ==
    /\ \A v \in Workers \ {w} : pc'[v] = pc[v] /\ job'[v] = job[v]
    /\ pc'[w] # "commit"
    /\ pc'[w] \in JobSteps =>
         pc[w] \in JobSteps /\ job'[w].doc = job[w].doc /\ job'[w].attempt = job[w].attempt

ControlType == pc \in [Workers -> Steps] /\ job \in [Workers -> Jobs]

(* A step within a worker keeps the control state typed and moves that worker alone. *)
LEMMA GotoMoves ==
  ASSUME ControlType, NEW w \in Workers, NEW step \in Steps, Goto(w, step),
         step # "commit", step \in JobSteps => pc[w] \in JobSteps
  PROVE  ControlType' /\ Moves(w)
  BY MaxAttemptsAssumption, MaxChunksAssumption
     DEF ControlType, Goto, Moves, Jobs, NoJob, Attempts, Steps, IdleSteps, JobSteps

(* An exception handler never leads into a claim, and into a job only from a step of it. *)
LEMMA HandlerStep ==
  ASSUME NEW step \in Steps
  PROVE  /\ Handler(step) \in Steps
         /\ Handler(step) # "commit"
         /\ Handler(step) \in JobSteps => step \in JobSteps
  BY DEF Handler, Steps, IdleSteps, JobSteps

(* A commit, whether it returns or raises, is such a move. *)
LEMMA CommitMoves ==
  ASSUME ControlType, NEW w \in Workers, NEW step \in Steps, AfterCommit(w, step),
         step # "commit", step \in JobSteps => pc[w] \in JobSteps
  PROVE  ControlType' /\ Moves(w)
  <1>1. CASE Goto(w, step)
    BY <1>1, GotoMoves
  <1>2. CASE Goto(w, Handler(pc[w]))
    <2>1. pc[w] \in Steps
      BY DEF ControlType
    <2>2. QED
      BY <1>2, <2>1, HandlerStep, GotoMoves
  <1>3. QED
    BY <1>1, <1>2 DEF AfterCommit

(***************************************************************************)
(* Rows: what every step but a claim and an upload does to status and      *)
(* attempt_count.                                                          *)
(***************************************************************************)
RowsSettle ==
    /\ attempt_count' = attempt_count
    /\ \A d \in Docs :
         \/ status'[d] = status[d]
         \/ status[d] = "PROCESSING" /\ status'[d] \in Terminal
         \/ status[d] = "PROCESSING" /\ status'[d] = "PENDING" /\ attempt_count[d] < MaxAttempts

(* Rows that only leave their claim, and a worker that only moves on, keep every claim valid. *)
LEMMA SettlingKeepsClaims ==
  ASSUME Claims, NEW w \in Workers, Moves(w), RowsSettle
  PROVE  Claims'
  <1>1. LocksHold'
    BY DEF Claims, LocksHold, Moves, RowsSettle, Terminal
  <1>2. JobsClaimed'
    BY DEF Claims, JobsClaimed, Moves, RowsSettle, Terminal
  <1>3. AbsentUntried'
    BY DEF Claims, AbsentUntried, RowsSettle, Terminal
  <1>4. TokensFence'
    <2>1. \A d \in Docs : status'[d] = "PENDING" => attempt_count'[d] < MaxAttempts
      BY DEF Claims, TokensFence, RowsSettle, Terminal
    <2>2. \A v \in Workers : pc'[v] \in JobSteps => job'[v].attempt <= attempt_count'[job'[v].doc]
      BY DEF Claims, TokensFence, Moves, RowsSettle
    <2>3. \A u, v \in Workers :
            (u # v /\ pc'[u] \in JobSteps /\ pc'[v] \in JobSteps /\ job'[u].doc = job'[v].doc)
              => job'[u].attempt # job'[v].attempt
      BY DEF Claims, TokensFence, Moves
    <2>4. QED
      BY <2>1, <2>2, <2>3 DEF TokensFence
  <1>5. QED
    BY <1>1, <1>2, <1>3, <1>4 DEF Claims
(***************************************************************************)
(* One lemma per group of actions: type, and what it is to the rows.       *)
(***************************************************************************)

(* Steps of the loop and of process_document that leave status and         *)
(* attempt_count alone.                                                    *)
LEMMA LoopKeepsQInv ==
  ASSUME QInv, NEW w \in Workers,
         Start(w) \/ ClearWake(w) \/ WakeUp(w) \/ PollTimeout(w) \/ NothingToClaim(w)
         \/ Sleep(w) \/ DbRaises(w) \/ LoadFails(w)
  PROVE  QInv'
  <1> USE DEF QInv
  <1>1. ControlType /\ pc[w] \in Steps
    BY DEF TypeOK, ControlType
  <1>2. \E step \in Steps : /\ Goto(w, step)
                            /\ step # "commit"
                            /\ step \in JobSteps => pc[w] \in JobSteps
    BY <1>1, HandlerStep
       DEF Start, ClearWake, WakeUp, PollTimeout, NothingToClaim, Sleep, DbRaises, LoadFails,
           Steps, IdleSteps, JobSteps
  <1>3. ControlType' /\ Moves(w)
    BY <1>1, <1>2, GotoMoves
  <1>4. UNCHANGED <<rowVars, chunks, uploadVars>> /\ wake' \in [Workers -> BOOLEAN]
    BY DEF Start, ClearWake, WakeUp, PollTimeout, NothingToClaim, Sleep, DbRaises, LoadFails, TypeOK
  <1>5. TypeOK'
    BY <1>3, <1>4 DEF TypeOK, ControlType, rowVars, uploadVars
  <1>6. RowsSettle
    BY <1>4 DEF RowsSettle, rowVars
  <1>7. QED
    BY <1>3, <1>5, <1>6, SettlingKeepsClaims

(* Steps of a job that read a row or call out keep QInv. *)
LEMMA LocalKeepsQInv ==
  ASSUME QInv, NEW w \in Workers, Get(w) \/ Load(w) \/ Summarize(w)
  PROVE  QInv'
  <1> USE DEF QInv
  <1>1. pc' \in [Workers -> Steps] /\ Moves(w)
    BY DEF Get, Load, Summarize, Moves, TypeOK, Steps, JobSteps, Jobs
  <1>2. job' \in [Workers -> Jobs]
    <2>1. job[w] \in Jobs
      BY DEF TypeOK
    <2>2. CASE Get(w)
      <3>1. summary[job[w].doc] \in Attempts
        BY <2>2 DEF Get, TypeOK, Claims, JobsClaimed, JobSteps
      <3>2. [job[w] EXCEPT !.summary = summary[job[w].doc]] \in Jobs
        BY <2>1, <3>1 DEF Jobs
      <3>3. QED
        BY <2>2, <3>2 DEF Get, TypeOK
    <2>3. CASE Load(w)
      <3>1. \A n \in 1..MaxChunks : [job[w] EXCEPT !.n = n] \in Jobs
        BY <2>1, MaxChunksAssumption DEF Jobs
      <3>2. QED
        BY <2>3, <3>1 DEF Load, TypeOK
    <2>4. CASE Summarize(w)
      <3>1. /\ [job[w] EXCEPT !.summary = job[w].attempt] \in Jobs
            /\ [job[w] EXCEPT !.summary_error = TRUE] \in Jobs
        BY <2>1 DEF Jobs
      <3>2. QED
        BY <2>4, <3>1 DEF Summarize, TypeOK
    <2>5. QED
      BY <2>2, <2>3, <2>4
  <1>3. UNCHANGED <<rowVars, chunks, wake, uploadVars>>
    BY DEF Get, Load, Summarize
  <1>4. TypeOK'
    BY <1>1, <1>2, <1>3 DEF TypeOK, rowVars, uploadVars
  <1>5. RowsSettle
    BY <1>3 DEF RowsSettle, rowVars
  <1>6. QED
    BY <1>1, <1>4, <1>5, SettlingKeepsClaims

(* Writes to the vector store, and the death of a process.                 *)
LEMMA StoreKeepsQInv ==
  ASSUME QInv, NEW w \in Workers,
         \/ DeleteChunks(w) \/ AddChunks(w) \/ StoreRaises(w)
         \/ Cleanup(w) \/ CleanupFails(w) \/ Crash(w)
  PROVE  QInv'
  <1> USE DEF QInv
  <1>1. ControlType /\ pc[w] \in Steps
    BY DEF TypeOK, ControlType
  <1>2. \E step \in Steps : /\ Goto(w, step)
                            /\ step # "commit"
                            /\ step \in JobSteps => pc[w] \in JobSteps
    BY <1>1, HandlerStep
       DEF DeleteChunks, AddChunks, StoreRaises, Cleanup, CleanupFails, Crash,
           Steps, IdleSteps, JobSteps
  <1>3. ControlType' /\ Moves(w)
    BY <1>1, <1>2, GotoMoves
  <1>4. UNCHANGED rowVars
    BY DEF DeleteChunks, AddChunks, StoreRaises, Cleanup, CleanupFails, Crash
  <1>5. chunks' \in [Docs -> SUBSET Ids(MaxChunks)]
    <2>1. \A n \in 0..MaxChunks : Ids(n) \subseteq Ids(MaxChunks)
      BY MaxChunksAssumption DEF Ids
    <2>2. job[w].n \in 0..MaxChunks
      BY DEF TypeOK, Jobs
    <2>3. CASE DeleteChunks(w) \/ Cleanup(w) \/ CleanupFails(w)
      BY <2>3 DEF DeleteChunks, Cleanup, CleanupFails, PartialDelete, TypeOK
    <2>4. CASE AddChunks(w)
      BY <2>1, <2>2, <2>4 DEF AddChunks, TypeOK
    <2>5. CASE StoreRaises(w)
      BY <2>1, <2>2, <2>5 DEF StoreRaises, PartialDelete, PartialAdd, TypeOK
    <2>6. CASE Crash(w)
      BY <2>1, <2>2, <2>6 DEF Crash, PartialDelete, PartialAdd, TypeOK
    <2>7. QED
      BY <2>3, <2>4, <2>5, <2>6
  <1>6. /\ wake' \in [Workers -> BOOLEAN]
        /\ unsent' \in [Workers -> SUBSET Docs]
        /\ notified' \in [Workers -> SUBSET Docs]
    BY DEF DeleteChunks, AddChunks, StoreRaises, Cleanup, CleanupFails, Crash, TypeOK, uploadVars
  <1>7. TypeOK'
    BY <1>3, <1>4, <1>5, <1>6 DEF TypeOK, ControlType, rowVars
  <1>8. RowsSettle
    BY <1>4 DEF RowsSettle, rowVars
  <1>9. QED
    BY <1>3, <1>7, <1>8, SettlingKeepsClaims

(* The transactions of a worker that settle rows.                          *)
LEMMA SaveContentKeepsQInv ==
  ASSUME QInv, NEW w \in Workers, SaveContent(w)
  PROVE  QInv'
  <1> USE DEF QInv
  <1>1. ControlType' /\ Moves(w)
    BY CommitMoves DEF SaveContent, TypeOK, ControlType, Steps, IdleSteps, JobSteps
  <1>2. summary' \in [Docs -> Attempts]
    BY DEF SaveContent, TypeOK, Jobs
  <1>3. UNCHANGED <<status, attempt_count, lease_expired, error_message, chunk_count,
                    chunks, wake, uploadVars>>
    BY DEF SaveContent
  <1>4. TypeOK'
    BY <1>1, <1>2, <1>3 DEF TypeOK, ControlType, uploadVars
  <1>5. RowsSettle
    BY <1>3 DEF RowsSettle
  <1>6. QED
    BY <1>1, <1>4, <1>5, SettlingKeepsClaims

(* Finishing a row, fenced or not, keeps QInv. *)
LEMMA FinishingKeepsQInv ==
  ASSUME QInv, NEW w \in Workers, MarkIndexed(w) \/ MarkFailed(w)
  PROVE  QInv'
  <1> USE DEF QInv
  <1>1. ControlType' /\ Moves(w)
    BY CommitMoves DEF MarkIndexed, MarkFailed, TypeOK, ControlType, Steps, IdleSteps, JobSteps
  <1>2. /\ status' \in [Docs -> Statuses]
        /\ error_message' \in [Docs -> Errors]
        /\ chunk_count' \in [Docs -> 0..MaxChunks]
        /\ lease_expired' \in [Docs -> BOOLEAN]
    <2>1. job[w].n \in 0..MaxChunks
      BY DEF TypeOK, Jobs
    <2>2. CASE MarkIndexed(w)
      BY <2>1, <2>2 DEF MarkIndexed, TypeOK, Statuses, Errors
    <2>3. CASE MarkFailed(w)
      BY <2>3 DEF MarkFailed, TypeOK, Statuses, Errors
    <2>4. QED
      BY <2>2, <2>3
  <1>3. UNCHANGED <<attempt_count, summary, chunks, wake, uploadVars>>
    BY DEF MarkIndexed, MarkFailed
  <1>4. TypeOK'
    BY <1>1, <1>2, <1>3 DEF TypeOK, ControlType, uploadVars
  <1>5. RowsSettle
    BY DEF RowsSettle, MarkIndexed, MarkFailed, MayWrite, Fenced, Terminal, TypeOK
  <1>6. QED
    BY <1>1, <1>4, <1>5, SettlingKeepsClaims

(* Requeueing and giving up stale rows keeps QInv. *)
LEMMA RequeueKeepsQInv ==
  ASSUME QInv, NEW w \in Workers, RequeueStale(w)
  PROVE  QInv'
  <1> USE DEF QInv
  <1>1. ControlType' /\ Moves(w)
    BY CommitMoves DEF RequeueStale, TypeOK, ControlType, Steps, IdleSteps, JobSteps
  <1>2. /\ status' \in [Docs -> Statuses]
        /\ error_message' \in [Docs -> Errors]
        /\ lease_expired' \in [Docs -> BOOLEAN]
    BY DEF RequeueStale, TypeOK, Statuses, Errors
  <1>3. UNCHANGED <<attempt_count, summary, chunk_count, chunks, wake, uploadVars>>
    BY DEF RequeueStale
  <1>4. TypeOK'
    BY <1>1, <1>2, <1>3 DEF TypeOK, ControlType, uploadVars
  <1>5. RowsSettle
    BY DEF RowsSettle, RequeueStale, GivenUp, Retried, Stale, Terminal, TypeOK
  <1>6. QED
    BY <1>1, <1>4, <1>5, SettlingKeepsClaims
(* The steps that make new rows, locks and numbers.                        *)
LEMMA UploadKeepsQInv ==
  ASSUME QInv, NEW w \in Workers, NEW d \in Docs, Enqueue(w, d) \/ Notify(w, d)
  PROVE  QInv'
  <1> USE DEF QInv
  <1>1. TypeOK'
    <2>1. CASE Enqueue(w, d)
      <3>1. status' \in [Docs -> Statuses] /\ unsent' \in [Workers -> SUBSET Docs]
        BY <2>1 DEF Enqueue, TypeOK, Statuses
      <3>2. QED
        BY <2>1, <3>1 DEF Enqueue, TypeOK
    <2>2. CASE Notify(w, d)
      <3>1. /\ wake' \in [Workers -> BOOLEAN]
            /\ unsent' \in [Workers -> SUBSET Docs]
            /\ notified' \in [Workers -> SUBSET Docs]
        BY <2>2 DEF Notify, TypeOK
      <3>2. QED
        BY <2>2, <3>1 DEF Notify, TypeOK, rowVars
    <2>3. QED
      BY <2>1, <2>2
  <1>2. UNCHANGED <<pc, job, attempt_count>>
    BY DEF Enqueue, Notify, rowVars
  <1>3. \A e \in Docs : \/ status'[e] = status[e]
                        \/ status[e] = "ABSENT" /\ status'[e] = "PENDING"
    BY DEF Enqueue, Notify, rowVars, TypeOK
  <1>4. LocksHold'
    BY <1>2, <1>3 DEF Claims, LocksHold
  <1>5. JobsClaimed'
    BY <1>2, <1>3 DEF Claims, JobsClaimed
  <1>6. AbsentUntried'
    BY <1>2, <1>3 DEF Claims, AbsentUntried
  <1>7. TokensFence'
    BY <1>2, <1>3, MaxAttemptsAssumption DEF Claims, AbsentUntried, TokensFence
  <1>8. QED
    BY <1>1, <1>4, <1>5, <1>6, <1>7 DEF Claims

(* Locking a pending row keeps QInv: no other claim holds its lock. *)
LEMMA LockKeepsQInv ==
  ASSUME QInv, NEW w \in Workers, LockOldest(w)
  PROVE  QInv'
  <1> USE DEF QInv
  <1>1. PICK d \in Claimable :
          job' = [job EXCEPT ![w] = [NoJob EXCEPT !.doc = d, !.attempt = attempt_count[d] + 1]]
    BY DEF LockOldest
  <1>2. d \in Docs /\ status[d] = "PENDING"
    BY DEF Claimable
  <1>3. attempt_count[d] \in Nat /\ attempt_count[d] < MaxAttempts
    BY <1>2 DEF TypeOK, Attempts, Claims, TokensFence
  <1>4. \A v \in Workers : pc[v] = "commit" => job[v].doc # d
    BY DEF Claimable
  <1>5. pc' = [pc EXCEPT ![w] = "commit"] /\ UNCHANGED <<rowVars, chunks, wake, uploadVars>>
    BY DEF LockOldest
  <1>6. pc' \in [Workers -> Steps] /\ pc'[w] = "commit"
        /\ \A v \in Workers \ {w} : pc'[v] = pc[v] /\ job'[v] = job[v]
    BY <1>1, <1>5 DEF TypeOK, Steps
  <1>7. /\ job'[w].doc = d
        /\ job'[w].attempt = attempt_count[d] + 1
        /\ job'[w] \in Jobs
    <2>1. job'[w] = [doc |-> d, attempt |-> attempt_count[d] + 1, summary |-> 0,
                     summary_error |-> FALSE, n |-> 0]
      BY <1>1 DEF TypeOK, NoJob
    <2>2. attempt_count[d] + 1 \in Attempts /\ 0 \in Attempts /\ 0 \in 0..MaxChunks
      BY <1>3, MaxAttemptsAssumption, MaxChunksAssumption DEF Attempts
    <2>3. QED
      BY <1>2, <2>1, <2>2 DEF Jobs
  <1>8. job' \in [Workers -> Jobs]
    BY <1>1, <1>6, <1>7 DEF TypeOK
  <1>9. TypeOK'
    BY <1>5, <1>6, <1>8 DEF TypeOK, rowVars, uploadVars
  <1>10. LocksHold'
    BY <1>2, <1>4, <1>5, <1>6, <1>7 DEF Claims, LocksHold, rowVars
  <1>11. JobsClaimed'
    BY <1>5, <1>6 DEF Claims, JobsClaimed, JobSteps, rowVars
  <1>12. AbsentUntried'
    BY <1>5 DEF Claims, AbsentUntried, rowVars
  <1>13. TokensFence'
    BY <1>5, <1>6 DEF Claims, TokensFence, JobSteps, rowVars
  <1>14. QED
    BY <1>9, <1>10, <1>11, <1>12, <1>13 DEF Claims

(* Committing a claim hands out a number that no job of the document has. *)
LEMMA ClaimKeepsQInv ==
  ASSUME QInv, NEW w \in Workers, CommitClaim(w)
  PROVE  QInv'
  <1> USE DEF QInv
  <1> DEFINE d == job[w].doc
  <1>1. /\ pc[w] = "commit"
        /\ d \in Docs
        /\ status[d] = "PENDING"
        /\ job[w].attempt = attempt_count[d] + 1
        /\ attempt_count[d] \in Nat
        /\ attempt_count[d] < MaxAttempts
    BY DEF CommitClaim, Claims, LocksHold, TokensFence, TypeOK, Attempts
  <1>2. /\ status' = [status EXCEPT ![d] = "PROCESSING"]
        /\ attempt_count' = [attempt_count EXCEPT ![d] = @ + 1]
        /\ lease_expired' = [lease_expired EXCEPT ![d] = FALSE]
        /\ error_message' = [error_message EXCEPT ![d] = "none"]
        /\ UNCHANGED <<summary, chunk_count, chunks, wake, uploadVars>>
    BY DEF CommitClaim
  <1>3. Goto(w, "get") \/ Goto(w, "sleep")
    BY <1>1 DEF CommitClaim, AfterCommit, Handler
  <1>4. /\ pc' \in [Workers -> Steps]
        /\ job' \in [Workers -> Jobs]
        /\ \A v \in Workers \ {w} : pc'[v] = pc[v] /\ job'[v] = job[v]
        /\ pc'[w] \in {"get", "sleep"}
        /\ pc'[w] = "get" => job'[w] = job[w]
    <2>1. NoJob \in Jobs
      BY MaxAttemptsAssumption, MaxChunksAssumption DEF NoJob, Jobs, Attempts
    <2>2. CASE Goto(w, "get")
      BY <2>2 DEF Goto, TypeOK, Steps, IdleSteps, JobSteps
    <2>3. CASE Goto(w, "sleep")
      BY <2>1, <2>3 DEF Goto, TypeOK, Steps, IdleSteps, JobSteps
    <2>4. QED
      BY <1>3, <2>2, <2>3
  <1>5. attempt_count' \in [Docs -> Attempts]
    BY <1>1, <1>2, MaxAttemptsAssumption DEF TypeOK, Attempts
  <1>6. TypeOK'
    BY <1>2, <1>4, <1>5 DEF TypeOK, Statuses, Errors, uploadVars
  <1>7. LocksHold'
    <2>1. \A v \in Workers : pc'[v] = "commit" =>
            /\ v # w /\ pc[v] = "commit" /\ job'[v] = job[v]
            /\ job[v].doc \in Docs /\ job[v].doc # d
            /\ status[job[v].doc] = "PENDING"
            /\ job[v].attempt = attempt_count[job[v].doc] + 1
      BY <1>1, <1>4 DEF Claims, LocksHold, CommitClaim
    <2>2. \A v \in Workers : pc'[v] = "commit" =>
            /\ status'[job'[v].doc] = "PENDING"
            /\ job'[v].attempt = attempt_count'[job'[v].doc] + 1
      BY <1>1, <1>2, <2>1 DEF TypeOK
    <2>3. QED
      BY <2>1, <2>2 DEF Claims, LocksHold
  <1>8. JobsClaimed'
    BY <1>1, <1>2, <1>4 DEF Claims, JobsClaimed, TypeOK, JobSteps
  <1>9. AbsentUntried'
    BY <1>1, <1>2 DEF Claims, AbsentUntried, TypeOK
  <1>10. TokensFence'
    <2>1. \A e \in Docs : status'[e] = "PENDING" => attempt_count'[e] < MaxAttempts
      BY <1>1, <1>2 DEF Claims, TokensFence, TypeOK
    <2>2. \A v \in Workers \ {w} : pc'[v] \in JobSteps =>
            /\ job[v].attempt <= attempt_count[job[v].doc]
            /\ job[v].doc \in Docs
            /\ job[v].attempt \in Nat
            /\ attempt_count[job[v].doc] \in Nat
      BY <1>4 DEF Claims, TokensFence, JobsClaimed, TypeOK, Jobs, Attempts
    <2>3. \A v \in Workers : pc'[v] \in JobSteps => job'[v].attempt <= attempt_count'[job'[v].doc]
      BY <1>1, <1>2, <1>4, <2>2 DEF TypeOK, JobSteps
    <2>4. \A u, v \in Workers :
            (u # v /\ pc'[u] \in JobSteps /\ pc'[v] \in JobSteps /\ job'[u].doc = job'[v].doc)
              => job'[u].attempt # job'[v].attempt
      <3>1. \A v \in Workers \ {w} :
              pc'[v] \in JobSteps /\ job[v].doc = d => job[v].attempt < job[w].attempt
        BY <1>1, <2>2
      <3>2. QED
        BY <1>1, <1>4, <2>2, <3>1 DEF Claims, TokensFence, JobSteps
    <2>5. QED
      BY <2>1, <2>3, <2>4 DEF TokensFence
  <1>11. QED
    BY <1>6, <1>7, <1>8, <1>9, <1>10 DEF Claims

(* A lease that runs out changes no claim. *)
LEMMA LeaseKeepsQInv ==
  ASSUME QInv, NEW d \in Docs, LeaseExpires(d)
  PROVE  QInv'
  BY DEF LeaseExpires, QInv, TypeOK, Claims, LocksHold, JobsClaimed, AbsentUntried, TokensFence,
         rowVars, uploadVars

(* A step that changes nothing keeps QInv. *)
LEMMA StutterKeepsQInv ==
  ASSUME QInv, UNCHANGED vars
  PROVE  QInv'
  BY DEF vars, QInv, TypeOK, Claims, LocksHold, JobsClaimed, AbsentUntried, TokensFence,
         rowVars, uploadVars

(* Every step keeps QInv. *)
LEMMA NextQInv == QInv /\ [Next]_vars => QInv'
  BY LoopKeepsQInv, LocalKeepsQInv, StoreKeepsQInv, SaveContentKeepsQInv, FinishingKeepsQInv,
     RequeueKeepsQInv, UploadKeepsQInv, LockKeepsQInv, ClaimKeepsQInv, LeaseKeepsQInv,
     StutterKeepsQInv
     DEF Next, RunOnce, ProcessDocument

(* QInv holds in every reachable state. *)
LEMMA SpecQInv == Spec => []QInv
  BY InitQInv, NextQInv, PTL DEF Spec

(* The variables of the queue always have the declared types; attempt      *)
(* numbers never pass MaxAttempts although the claim does not look.        *)
THEOREM TypeCorrect == Spec => []TypeOK
  BY SpecQInv, PTL DEF QInv

(* The attempt number works as a fencing token.                            *)
THEOREM TokensFenceHolds == Spec => []TokensFence
  <1>1. QInv => TokensFence
    BY DEF QInv, Claims
  <1>2. QED
    BY <1>1, SpecQInv, PTL
(***************************************************************************)
(* Summaries and error messages.                                           *)
(***************************************************************************)

(* What a job knows about its summary, as long as its row is still its own:*)
(* it never carries one that differs from a stored one, and it reports an  *)
(* error exactly if there is none.                                         *)
Known(w) ==
    /\ (/\ pc[w] \in {"load", "summarize", "save"}
        /\ attempt_count[job[w].doc] = job[w].attempt
        /\ summary[job[w].doc] # 0)
          => job[w].summary = summary[job[w].doc]
    /\ pc[w] = "summarize" => job[w].summary = 0
    /\ pc[w] \in {"commit", "get", "load", "summarize"} => ~ job[w].summary_error
    /\ pc[w] = "save" => (job[w].summary_error <=> job[w].summary = 0)
    /\ (pc[w] \in {"delete", "add", "index"} /\ MayWrite(w))
          => (job[w].summary_error <=> summary[job[w].doc] = 0)

SummaryKnown == \A w \in Workers : Known(w)

AbsentClean == \A d \in Docs : status[d] = "ABSENT" => error_message[d] = "none"

SInv == QInv /\ SummaryKnown /\ ErrorsExplain /\ AbsentClean

(* A job whose row was not its own before a step has not got it back, and  *)
(* if it is, nobody else has touched its summary.                          *)
Undisturbed(v) ==
    attempt_count'[job[v].doc] = job[v].attempt =>
      /\ attempt_count[job[v].doc] = job[v].attempt
      /\ summary'[job[v].doc] = summary[job[v].doc]
      /\ status'[job[v].doc] = "PROCESSING" => status[job[v].doc] = "PROCESSING"

(* A worker that does not move still knows its row if the row is not disturbed. *)
LEMMA BystanderKnows ==
  ASSUME NEW v \in Workers, Known(v), pc'[v] = pc[v], job'[v] = job[v],
         pc[v] \in JobSteps => Undisturbed(v)
  PROVE  Known(v)'
  BY DEF Known, Undisturbed, MayWrite, Fenced, JobSteps

(* A step that leaves the rows alone disturbs nobody.                      *)
LEMMA QuietStep ==
  ASSUME SInv, NEW w \in Workers, UNCHANGED rowVars, QInv', Known(w)',
         \A v \in Workers \ {w} : pc'[v] = pc[v] /\ job'[v] = job[v]
  PROVE  SInv'
  <1>1. ASSUME NEW v \in Workers \ {w} PROVE Known(v)'
    BY <1>1, BystanderKnows DEF SInv, SummaryKnown, Undisturbed, rowVars
  <1>2. ErrorsExplain' /\ AbsentClean'
    BY DEF SInv, ErrorsExplain, AbsentClean, rowVars
  <1>3. QED
    BY <1>1, <1>2 DEF SInv, SummaryKnown

(* A worker that is idle, or handles an exception, claims to know nothing. *)
LEMMA IdleKnows ==
  ASSUME NEW w \in Workers, pc'[w] \in IdleSteps \cup {"cleanup", "fail"}
  PROVE  Known(w)'
  BY DEF Known, IdleSteps
(* Steps by which a worker starts, sleeps, fails or dies keep SInv. *)
LEMMA LeavingKeepsSInv ==
  ASSUME SInv, NEW w \in Workers, QInv',
         \/ Start(w) \/ ClearWake(w) \/ WakeUp(w) \/ PollTimeout(w) \/ NothingToClaim(w) \/ Sleep(w)
         \/ DbRaises(w) \/ LoadFails(w) \/ StoreRaises(w) \/ Cleanup(w) \/ CleanupFails(w)
         \/ Crash(w)
  PROVE  SInv'
  <1>1. pc[w] \in Steps /\ TypeOK
    BY DEF SInv, QInv, TypeOK
  <1>2. UNCHANGED rowVars
    BY DEF Start, ClearWake, WakeUp, PollTimeout, NothingToClaim, Sleep, DbRaises, LoadFails,
           StoreRaises, Cleanup, CleanupFails, Crash
  <1>3. \E step \in IdleSteps \cup {"cleanup", "fail"} : Goto(w, step)
    <2>1. Handler(pc[w]) \in {"sleep", "cleanup", "fail"}
      BY DEF Handler
    <2>2. Handler("load") = "fail"
      BY DEF Handler
    <2>3. QED
      BY <2>1, <2>2
         DEF Start, ClearWake, WakeUp, PollTimeout, NothingToClaim, Sleep, DbRaises, LoadFails,
             StoreRaises, Cleanup, CleanupFails, Crash, IdleSteps
  <1>4. /\ pc'[w] \in IdleSteps \cup {"cleanup", "fail"}
        /\ \A v \in Workers \ {w} : pc'[v] = pc[v] /\ job'[v] = job[v]
    BY <1>1, <1>3 DEF Goto, TypeOK
  <1>5. QED
    BY <1>2, <1>4, IdleKnows, QuietStep

(* Steps of a job that read a row or write chunks keep SInv. *)
LEMMA LocalKeepsSInv ==
  ASSUME SInv, NEW w \in Workers, QInv',
         Get(w) \/ Load(w) \/ Summarize(w) \/ LockOldest(w) \/ DeleteChunks(w) \/ AddChunks(w)
  PROVE  SInv'
  <1> DEFINE d == job[w].doc
  <1>1. TypeOK /\ Known(w) /\ job[w] \in Jobs
    BY DEF SInv, QInv, TypeOK, SummaryKnown
  <1>2. UNCHANGED rowVars
    BY DEF Get, Load, Summarize, LockOldest, DeleteChunks, AddChunks
  <1>3. \A v \in Workers \ {w} : pc'[v] = pc[v] /\ job'[v] = job[v]
    BY <1>1 DEF Get, Load, Summarize, LockOldest, DeleteChunks, AddChunks, Goto, TypeOK
  <1>4. Known(w)'
    <2>1. CASE Get(w)
      <3>1. /\ pc[w] = "get" /\ pc'[w] = "load"
            /\ job'[w] = [job[w] EXCEPT !.summary = summary[d]]
        BY <1>1, <2>1 DEF Get, TypeOK
      <3>2. /\ job'[w].doc = d
            /\ job'[w].summary = summary[d]
            /\ job'[w].summary_error = job[w].summary_error
        BY <1>1, <3>1 DEF Jobs
      <3>3. QED
        BY <1>1, <1>2, <3>1, <3>2 DEF Known, rowVars
    <2>2. CASE Load(w)
      <3>1. PICK n \in 1..MaxChunks : job' = [job EXCEPT ![w].n = n]
        BY <2>2 DEF Load
      <3>2. /\ job'[w].doc = d
            /\ job'[w].attempt = job[w].attempt
            /\ job'[w].summary = job[w].summary
            /\ job'[w].summary_error = job[w].summary_error
        BY <1>1, <3>1 DEF TypeOK, Jobs
      <3>3. pc[w] = "load" /\ pc'[w] = (IF job[w].summary = 0 THEN "summarize" ELSE "save")
        BY <1>1, <2>2 DEF Load, TypeOK
      <3>4. QED
        BY <1>1, <1>2, <3>2, <3>3 DEF Known, rowVars
    <2>3. CASE Summarize(w)
      <3>1. pc[w] = "summarize" /\ pc'[w] = "save"
        BY <1>1, <2>3 DEF Summarize, TypeOK
      <3>2. \/ job'[w] = [job[w] EXCEPT !.summary = job[w].attempt]
            \/ job'[w] = [job[w] EXCEPT !.summary_error = TRUE]
        BY <1>1, <2>3 DEF Summarize, TypeOK
      <3>3. /\ job'[w].doc = d
            /\ job'[w].attempt = job[w].attempt
            /\ \/ job'[w].summary = job[w].attempt /\ job'[w].summary_error = job[w].summary_error
               \/ job'[w].summary = job[w].summary /\ job'[w].summary_error = TRUE
        BY <1>1, <3>2 DEF Jobs
      <3>4. job[w].attempt # 0
        BY <3>1 DEF SInv, QInv, Claims, JobsClaimed, JobSteps
      <3>5. job[w].summary = 0 /\ ~ job[w].summary_error
        BY <1>1, <3>1 DEF Known
      <3>6. attempt_count[d] = job[w].attempt => summary[d] = 0
        BY <1>1, <3>1, <3>5 DEF Known
      <3>7. QED
        BY <1>2, <3>1, <3>3, <3>4, <3>5, <3>6 DEF Known, rowVars
    <2>4. CASE LockOldest(w)
      <3>1. pc'[w] = "commit"
        BY <1>1, <2>4 DEF LockOldest, TypeOK
      <3>2. PICK e \in Claimable :
              job' = [job EXCEPT ![w] = [NoJob EXCEPT !.doc = e, !.attempt = attempt_count[e] + 1]]
        BY <2>4 DEF LockOldest
      <3>3. job'[w] = [doc |-> e, attempt |-> attempt_count[e] + 1, summary |-> 0,
                       summary_error |-> FALSE, n |-> 0]
        BY <1>1, <3>2 DEF TypeOK, NoJob
      <3>4. job'[w].summary_error = FALSE
        BY <3>3
      <3>5. QED
        BY <3>1, <3>4 DEF Known
    <2>5. CASE DeleteChunks(w) \/ AddChunks(w)
      <3>1. /\ pc[w] \in {"delete", "add"}
            /\ pc'[w] \in {"add", "index"}
            /\ job'[w] = job[w]
        BY <1>1, <2>5 DEF DeleteChunks, AddChunks, Goto, TypeOK, IdleSteps
      <3>2. QED
        BY <1>1, <1>2, <3>1 DEF Known, MayWrite, Fenced, rowVars
    <2>6. QED
      BY <2>1, <2>2, <2>3, <2>4, <2>5
  <1>5. QED
    BY <1>2, <1>3, <1>4, QuietStep

(* Two jobs of one document have different numbers, so a write by one of   *)
(* them that passes the fence finds the other without its row.             *)
LEMMA FenceExcludesOthers ==
  ASSUME QInv, NEW w \in Workers, pc[w] \in JobSteps, MayWrite(w),
         NEW v \in Workers \ {w}, pc[v] \in JobSteps, job[v].doc = job[w].doc
  PROVE  attempt_count[job[v].doc] # job[v].attempt
  BY DEF QInv, Claims, TokensFence, MayWrite, Fenced

(* Storing a summary keeps SInv: the writer holds the row, and every other job of the document is outdated. *)
LEMMA SaveContentKeepsSInv ==
  ASSUME SInv, NEW w \in Workers, QInv', SaveContent(w)
  PROVE  SInv'
  <1> DEFINE d == job[w].doc
  <1>1. /\ TypeOK /\ Known(w) /\ QInv /\ pc[w] = "save"
        /\ d \in Docs
        /\ UNCHANGED <<status, attempt_count, error_message>>
    BY DEF SInv, QInv, SummaryKnown, SaveContent, Claims, JobsClaimed, JobSteps
  <1>2. summary' = IF MayWrite(w) /\ job[w].summary # 0
                     THEN [summary EXCEPT ![d] = job[w].summary] ELSE summary
    BY DEF SaveContent
  <1>3. Goto(w, "fail") \/ Goto(w, IF MayWrite(w) THEN "delete" ELSE "top")
    BY <1>1 DEF SaveContent, AfterCommit, Handler
  <1>4. /\ \A v \in Workers \ {w} : pc'[v] = pc[v] /\ job'[v] = job[v]
        /\ pc'[w] \in {"delete", "top", "fail"}
        /\ pc'[w] = "delete" => MayWrite(w) /\ job'[w] = job[w]
    BY <1>1, <1>3 DEF Goto, TypeOK, IdleSteps
  <1>5. ASSUME NEW v \in Workers \ {w} PROVE Known(v)'
    <2>1. ASSUME pc[v] \in JobSteps PROVE Undisturbed(v)
      <3>1. CASE job[v].doc = d /\ MayWrite(w)
        BY <1>1, <2>1, <3>1, FenceExcludesOthers DEF Undisturbed, JobSteps
      <3>2. CASE ~ (job[v].doc = d /\ MayWrite(w))
        <4>1. job[v].doc \in Docs
          BY <1>1, <2>1 DEF QInv, Claims, JobsClaimed
        <4>2. summary'[job[v].doc] = summary[job[v].doc]
          BY <1>1, <1>2, <3>2, <4>1 DEF TypeOK
        <4>3. QED
          BY <1>1, <4>2 DEF Undisturbed
      <3>3. QED
        BY <3>1, <3>2
    <2>2. QED
      BY <1>4, <2>1, BystanderKnows DEF SInv, SummaryKnown
  <1>6. Known(w)'
    <2>1. CASE pc'[w] = "delete"
      <3>1. MayWrite(w) /\ attempt_count[d] = job[w].attempt
        BY <1>4, <2>1 DEF MayWrite, Fenced
      <3>2. job[w].summary_error <=> job[w].summary = 0
        BY <1>1 DEF Known
      <3>3. summary'[d] = job[w].summary
        BY <1>1, <1>2, <3>1 DEF Known, TypeOK
      <3>4. QED
        BY <1>4, <2>1, <3>2, <3>3 DEF Known
    <2>2. CASE pc'[w] # "delete"
      BY <1>4, <2>2, IdleKnows DEF IdleSteps
    <2>3. QED
      BY <2>1, <2>2
  <1>7. \A e \in Docs : status[e] = "INDEXED" => summary'[e] = summary[e]
    BY <1>1, <1>2 DEF MayWrite, Fenced, TypeOK
  <1>8. ErrorsExplain' /\ AbsentClean'
    BY <1>1, <1>7 DEF SInv, ErrorsExplain, AbsentClean
  <1>9. QED
    BY <1>5, <1>6, <1>8 DEF SInv, SummaryKnown

(* Finishing a row keeps SInv, with the error message it writes. *)
LEMMA FinishingKeepsSInv ==
  ASSUME SInv, NEW w \in Workers, QInv', MarkIndexed(w) \/ MarkFailed(w)
  PROVE  SInv'
  <1> DEFINE d == job[w].doc
  <1>1. /\ TypeOK /\ Known(w) /\ pc[w] \in {"index", "fail"}
        /\ d \in Docs
        /\ UNCHANGED <<attempt_count, summary>>
    BY DEF SInv, QInv, SummaryKnown, MarkIndexed, MarkFailed, Claims, JobsClaimed, JobSteps
  <1>2. \E step \in {"top", "cleanup", "sleep"} : Goto(w, step)
    BY <1>1 DEF MarkIndexed, MarkFailed, AfterCommit, Handler
  <1>3. /\ \A v \in Workers \ {w} : pc'[v] = pc[v] /\ job'[v] = job[v]
        /\ pc'[w] \in {"top", "cleanup", "sleep"}
    BY <1>1, <1>2 DEF Goto, TypeOK
  <1>4. \A e \in Docs :
          \/ status'[e] = status[e] /\ error_message'[e] = error_message[e]
          \/ /\ e = d /\ MayWrite(w) /\ pc[w] = "index" /\ status'[e] = "INDEXED"
             /\ error_message'[e] = IF job[w].summary_error THEN "summary" ELSE "none"
          \/ status'[e] = "FAILED" /\ error_message'[e] = "failed"
    <2>1. CASE MarkIndexed(w)
      BY <1>1, <2>1 DEF MarkIndexed, TypeOK
    <2>2. CASE MarkFailed(w)
      BY <1>1, <2>2 DEF MarkFailed, TypeOK
    <2>3. QED
      BY <2>1, <2>2
  <1>5. ASSUME NEW v \in Workers \ {w} PROVE Known(v)'
    <2>1. pc[v] \in JobSteps => job[v].doc \in Docs
      BY DEF SInv, QInv, Claims, JobsClaimed
    <2>2. pc[v] \in JobSteps => Undisturbed(v)
      BY <1>1, <1>4, <2>1 DEF Undisturbed
    <2>3. QED
      BY <1>3, <2>2, BystanderKnows DEF SInv, SummaryKnown
  <1>6. Known(w)'
    BY <1>3, IdleKnows DEF IdleSteps
  <1>7. ErrorsExplain'
    BY <1>1, <1>4 DEF SInv, ErrorsExplain, Known
  <1>8. AbsentClean'
    BY <1>4 DEF SInv, AbsentClean
  <1>9. QED
    BY <1>5, <1>6, <1>7, <1>8 DEF SInv, SummaryKnown
(* Requeueing and giving up keep SInv: no summary changes. *)
LEMMA RequeueKeepsSInv ==
  ASSUME SInv, NEW w \in Workers, QInv', RequeueStale(w)
  PROVE  SInv'
  <1>1. /\ TypeOK /\ pc[w] = "requeue"
        /\ UNCHANGED <<attempt_count, summary>>
    BY DEF SInv, QInv, RequeueStale
  <1>2. Goto(w, "claim") \/ Goto(w, "sleep")
    BY <1>1 DEF RequeueStale, AfterCommit, Handler
  <1>3. /\ \A v \in Workers \ {w} : pc'[v] = pc[v] /\ job'[v] = job[v]
        /\ pc'[w] \in IdleSteps
    BY <1>1, <1>2 DEF Goto, TypeOK, IdleSteps
  <1>4. \A e \in Docs :
          \/ status'[e] = status[e] /\ error_message'[e] = error_message[e]
          \/ status'[e] = "FAILED" /\ error_message'[e] = "lease"
          \/ /\ status[e] = "PROCESSING" /\ status'[e] = "PENDING"
             /\ error_message'[e] = error_message[e]
    BY DEF RequeueStale, GivenUp, Retried, Stale
  <1>5. ASSUME NEW v \in Workers \ {w} PROVE Known(v)'
    <2>1. pc[v] \in JobSteps => job[v].doc \in Docs
      BY DEF SInv, QInv, Claims, JobsClaimed
    <2>2. pc[v] \in JobSteps => Undisturbed(v)
      BY <1>1, <1>4, <2>1 DEF Undisturbed
    <2>3. QED
      BY <1>3, <2>2, BystanderKnows DEF SInv, SummaryKnown
  <1>6. Known(w)'
    BY <1>3, IdleKnows
  <1>7. ErrorsExplain'
    BY <1>1, <1>4 DEF SInv, ErrorsExplain
  <1>8. AbsentClean'
    BY <1>4 DEF SInv, AbsentClean
  <1>9. QED
    BY <1>5, <1>6, <1>7, <1>8 DEF SInv, SummaryKnown

(* A claim keeps SInv: the error is cleared, the new job has read nothing yet. *)
LEMMA ClaimKeepsSInv ==
  ASSUME SInv, NEW w \in Workers, QInv', CommitClaim(w)
  PROVE  SInv'
  <1> DEFINE d == job[w].doc
  <1>1. /\ TypeOK /\ Known(w) /\ pc[w] = "commit"
        /\ d \in Docs
        /\ status[d] = "PENDING"
        /\ attempt_count[d] \in Nat
    BY DEF SInv, QInv, SummaryKnown, CommitClaim, Claims, LocksHold, TypeOK, Attempts
  <1>2. /\ status' = [status EXCEPT ![d] = "PROCESSING"]
        /\ attempt_count' = [attempt_count EXCEPT ![d] = @ + 1]
        /\ error_message' = [error_message EXCEPT ![d] = "none"]
        /\ UNCHANGED summary
    BY DEF CommitClaim
  <1>3. Goto(w, "get") \/ Goto(w, "sleep")
    BY <1>1 DEF CommitClaim, AfterCommit, Handler
  <1>4. /\ \A v \in Workers \ {w} : pc'[v] = pc[v] /\ job'[v] = job[v]
        /\ pc'[w] \in {"get", "sleep"}
        /\ pc'[w] = "get" => job'[w] = job[w]
    BY <1>1, <1>3 DEF Goto, TypeOK, IdleSteps
  <1>5. ASSUME NEW v \in Workers \ {w} PROVE Known(v)'
    <2>1. ASSUME pc[v] \in JobSteps PROVE Undisturbed(v)
      <3>1. /\ job[v].doc \in Docs
            /\ job[v].attempt \in Nat
            /\ job[v].attempt <= attempt_count[job[v].doc]
        BY <2>1 DEF SInv, QInv, Claims, JobsClaimed, TokensFence, TypeOK, Jobs, Attempts
      <3>2. CASE job[v].doc = d
        BY <1>1, <1>2, <3>1, <3>2 DEF Undisturbed, TypeOK
      <3>3. CASE job[v].doc # d
        BY <1>1, <1>2, <3>1, <3>3 DEF Undisturbed, TypeOK
      <3>4. QED
        BY <3>2, <3>3
    <2>2. QED
      BY <1>4, <2>1, BystanderKnows DEF SInv, SummaryKnown
  <1>6. Known(w)'
    BY <1>1, <1>4 DEF Known
  <1>7. ErrorsExplain'
    BY <1>1, <1>2 DEF SInv, ErrorsExplain, TypeOK
  <1>8. AbsentClean'
    BY <1>1, <1>2 DEF SInv, AbsentClean, TypeOK
  <1>9. QED
    BY <1>5, <1>6, <1>7, <1>8 DEF SInv, SummaryKnown

(* Uploads, leases and steps in which nothing happens.                     *)
LEMMA RestKeepsSInv ==
  ASSUME SInv, QInv',
         \/ \E w \in Workers, d \in Docs : Enqueue(w, d) \/ Notify(w, d)
         \/ \E d \in Docs : LeaseExpires(d)
         \/ UNCHANGED vars
  PROVE  SInv'
  <1>1. UNCHANGED <<pc, job, attempt_count, summary, error_message>>
    BY DEF Enqueue, Notify, LeaseExpires, vars, rowVars
  <1>2. \A e \in Docs : \/ status'[e] = status[e]
                        \/ status[e] = "ABSENT" /\ status'[e] = "PENDING"
    BY DEF Enqueue, Notify, LeaseExpires, vars, rowVars, SInv, QInv, TypeOK
  <1>3. ASSUME NEW v \in Workers PROVE Known(v)'
    <2>1. pc[v] \in JobSteps => job[v].doc \in Docs
      BY DEF SInv, QInv, Claims, JobsClaimed
    <2>2. pc[v] \in JobSteps => Undisturbed(v)
      BY <1>1, <1>2, <2>1 DEF Undisturbed
    <2>3. QED
      BY <1>1, <2>2, BystanderKnows DEF SInv, SummaryKnown
  <1>4. ErrorsExplain' /\ AbsentClean'
    BY <1>1, <1>2 DEF SInv, ErrorsExplain, AbsentClean
  <1>5. QED
    BY <1>3, <1>4 DEF SInv, SummaryKnown

(* Nothing is stored in the beginning. *)
LEMMA InitSInv == Init => SInv
  <1>1. ASSUME Init PROVE SummaryKnown /\ ErrorsExplain /\ AbsentClean
    BY <1>1 DEF Init, SummaryKnown, Known, ErrorsExplain, AbsentClean
  <1>2. QED
    BY <1>1, InitQInv DEF SInv

(* Every step keeps SInv. *)
LEMMA NextSInv == SInv /\ [Next]_vars => SInv'
  <1> SUFFICES ASSUME SInv, [Next]_vars PROVE SInv'
    OBVIOUS
  <1>1. QInv'
    BY NextQInv DEF SInv
  <1>2. QED
    BY <1>1, LeavingKeepsSInv, LocalKeepsSInv, SaveContentKeepsSInv, FinishingKeepsSInv,
       RequeueKeepsSInv, ClaimKeepsSInv, RestKeepsSInv
       DEF Next, RunOnce, ProcessDocument

(* SInv holds in every reachable state. *)
LEMMA SpecSInv == Spec => []SInv
  BY InitSInv, NextSInv, PTL DEF Spec

(* What error_message says of a row is true, for every schedule and fault. *)
THEOREM ErrorsAlwaysExplain == Spec => []ErrorsExplain
  <1>1. SInv => ErrorsExplain
    BY DEF SInv
  <1>2. QED
    BY <1>1, SpecSInv, PTL
(***************************************************************************)
(* Action properties.                                                      *)
(***************************************************************************)

(* The steps that write to the documents table; all others leave it alone. *)
RowWrite ==
    \/ \E w \in Workers, d \in Docs : Enqueue(w, d)
    \/ \E w \in Workers : \/ RequeueStale(w) \/ CommitClaim(w) \/ SaveContent(w)
                          \/ MarkIndexed(w) \/ MarkFailed(w)
    \/ \E d \in Docs : LeaseExpires(d)

(* Only the steps in RowWrite change a row. *)
LEMMA OnlyRowWritesWrite ==
  ASSUME [Next]_vars, ~ RowWrite
  PROVE  UNCHANGED rowVars
  BY DEF Next, RunOnce, ProcessDocument, RowWrite, Notify, Start, ClearWake, WakeUp, PollTimeout,
         LockOldest, NothingToClaim, Sleep, Get, Load, LoadFails, Summarize, DeleteChunks, AddChunks,
         StoreRaises, Cleanup, CleanupFails, DbRaises, Crash, vars

(* No step changes a finished row. *)
LEMMA FinishedStep ==
  ASSUME SInv, [Next]_vars, NEW d \in Docs, status[d] \in Terminal
  PROVE  /\ status'[d] = status[d]
         /\ attempt_count'[d] = attempt_count[d]
         /\ error_message'[d] = error_message[d]
         /\ summary'[d] = summary[d]
         /\ chunk_count'[d] = chunk_count[d]
  <1>1. TypeOK /\ QInv
    BY DEF SInv, QInv
  <1>2. CASE ~ RowWrite
    BY <1>2, OnlyRowWritesWrite DEF rowVars
  <1>3. ASSUME NEW w \in Workers, NEW e \in Docs, Enqueue(w, e) PROVE d # e
    BY <1>3 DEF Enqueue, Terminal
  <1>4. ASSUME NEW w \in Workers, pc[w] \in JobSteps, MayWrite(w) PROVE d # job[w].doc
    BY <1>4 DEF MayWrite, Fenced, Terminal
  <1>5. ASSUME NEW w \in Workers, pc[w] = "commit" PROVE d # job[w].doc
    BY <1>1, <1>5 DEF QInv, Claims, LocksHold, Terminal
  <1>6. CASE \E w \in Workers, e \in Docs : Enqueue(w, e)
    BY <1>1, <1>3, <1>6 DEF Enqueue, TypeOK
  <1>7. CASE \E w \in Workers : RequeueStale(w)
    BY <1>7 DEF RequeueStale, GivenUp, Retried, Stale, Terminal
  <1>8. CASE \E w \in Workers : CommitClaim(w)
    <2>1. PICK w \in Workers : CommitClaim(w)
      BY <1>8
    <2>2. pc[w] = "commit"
      BY <2>1 DEF CommitClaim
    <2>3. QED
      BY <1>1, <1>5, <2>1, <2>2 DEF CommitClaim, TypeOK
  <1>9. CASE \E w \in Workers : SaveContent(w)
    <2>1. PICK w \in Workers : SaveContent(w)
      BY <1>9
    <2>2. pc[w] \in JobSteps
      BY <2>1 DEF SaveContent, JobSteps
    <2>3. summary'[d] = summary[d]
      BY <1>1, <1>4, <2>1, <2>2 DEF SaveContent, TypeOK
    <2>4. QED
      BY <2>1, <2>3 DEF SaveContent
  <1>10. CASE \E w \in Workers : MarkIndexed(w)
    <2>1. PICK w \in Workers : MarkIndexed(w)
      BY <1>10
    <2>2. pc[w] \in JobSteps
      BY <2>1 DEF MarkIndexed, JobSteps
    <2>3. QED
      BY <1>1, <1>4, <2>1, <2>2 DEF MarkIndexed, TypeOK
  <1>11. CASE \E w \in Workers : MarkFailed(w)
    <2>1. PICK w \in Workers : MarkFailed(w)
      BY <1>11
    <2>2. pc[w] \in JobSteps
      BY <2>1 DEF MarkFailed, JobSteps
    <2>3. QED
      BY <1>1, <1>4, <2>1, <2>2 DEF MarkFailed, TypeOK
  <1>12. CASE \E e \in Docs : LeaseExpires(e)
    BY <1>12 DEF LeaseExpires
  <1>13. QED
    BY <1>2, <1>6, <1>7, <1>8, <1>9, <1>10, <1>11, <1>12 DEF RowWrite

(* No step of any worker writes to a row that is INDEXED or FAILED.        *)
THEOREM FinishedStaysFinal == Spec => FinishedIsFinal
  <1>1. SInv /\ [Next]_vars =>
          [\A d \in Docs : status[d] \in Terminal =>
             /\ status'[d] = status[d]
             /\ attempt_count'[d] = attempt_count[d]
             /\ error_message'[d] = error_message[d]
             /\ summary'[d] = summary[d]
             /\ chunk_count'[d] = chunk_count[d]]_vars
    BY FinishedStep
  <1>2. QED
    BY <1>1, SpecSInv, PTL DEF Spec, FinishedIsFinal

(* No step changes a stored summary. *)
LEMMA SummaryStep ==
  ASSUME SInv, [Next]_vars, NEW d \in Docs, summary[d] # 0
  PROVE  summary'[d] = summary[d]
  <1>1. CASE \E w \in Workers : SaveContent(w)
    <2>1. PICK w \in Workers : SaveContent(w)
      BY <1>1
    <2>2. pc[w] = "save" /\ Known(w) /\ TypeOK
      BY <2>1 DEF SaveContent, SInv, QInv, SummaryKnown
    <2>3. MayWrite(w) /\ job[w].doc = d => job[w].summary = summary[d]
      BY <2>2 DEF Known, MayWrite, Fenced
    <2>4. QED
      BY <2>1, <2>2, <2>3 DEF SaveContent, TypeOK
  <1>2. CASE ~ \E w \in Workers : SaveContent(w)
    <2>1. CASE ~ RowWrite
      BY <2>1, OnlyRowWritesWrite DEF rowVars
    <2>2. CASE RowWrite
      BY <1>2, <2>2 DEF RowWrite, Enqueue, RequeueStale, CommitClaim, MarkIndexed, MarkFailed,
                        LeaseExpires
    <2>3. QED
      BY <2>1, <2>2
  <1>3. QED
    BY <1>1, <1>2

(* A summary paid for once is kept, however attempts overlap.              *)
THEOREM SummaryStaysKept == Spec => SummaryIsKept
  <1>1. SInv /\ [Next]_vars => [\A d \in Docs : summary[d] # 0 => summary'[d] = summary[d]]_vars
    BY SummaryStep
  <1>2. QED
    BY <1>1, SpecSInv, PTL DEF Spec, SummaryIsKept

(***************************************************************************)
(* The queue implements DocumentLifecycle.                                 *)
(***************************************************************************)
LEMMA LifecycleStep == QInv /\ [Next]_vars => [Lifecycle!Next]_(Lifecycle!vars)
  <1> SUFFICES ASSUME QInv, [Next]_vars PROVE [Lifecycle!Next]_(Lifecycle!vars)
    OBVIOUS
  <1>1. TypeOK
    BY DEF QInv
  <1>2. CASE UNCHANGED <<status, attempt_count>>
    BY <1>2 DEF Lifecycle!vars
  <1>3. CASE ~ RowWrite \/ (\E w \in Workers : SaveContent(w)) \/ (\E d \in Docs : LeaseExpires(d))
    <2>1. UNCHANGED <<status, attempt_count>>
      BY <1>3, OnlyRowWritesWrite DEF SaveContent, LeaseExpires, rowVars
    <2>2. QED
      BY <1>2, <2>1
  <1>4. ASSUME NEW w \in Workers, NEW d \in Docs, Enqueue(w, d) PROVE Lifecycle!Submit(d)
    BY <1>4 DEF Enqueue, Lifecycle!Submit
  <1>5. ASSUME NEW w \in Workers, CommitClaim(w)
        PROVE  job[w].doc \in Docs /\ Lifecycle!Begin(job[w].doc)
    BY <1>5 DEF CommitClaim, QInv, Claims, LocksHold, TokensFence, Lifecycle!Begin
  <1>6. ASSUME NEW w \in Workers, MarkIndexed(w) \/ MarkFailed(w)
        PROVE  \/ job[w].doc \in Docs /\ Lifecycle!Finish(job[w].doc)
               \/ UNCHANGED <<status, attempt_count>>
    <2>1. job[w].doc \in Docs
      BY <1>6 DEF MarkIndexed, MarkFailed, QInv, Claims, JobsClaimed, JobSteps
    <2>2. CASE MayWrite(w)
      BY <1>6, <2>1, <2>2 DEF MarkIndexed, MarkFailed, MayWrite, Fenced, Lifecycle!Finish
    <2>3. CASE ~ MayWrite(w)
      BY <1>6, <2>3 DEF MarkIndexed, MarkFailed
    <2>4. QED
      BY <2>1, <2>2, <2>3
  <1>7. ASSUME NEW w \in Workers, RequeueStale(w) PROVE Lifecycle!Abandon(Stale)
    <2>1. \A d \in Docs : attempt_count[d] \in Nat
      BY <1>1 DEF TypeOK, Attempts
    <2>2. \A d \in Stale : status[d] = "PROCESSING"
      BY DEF Stale
    <2>3. status' = [d \in Docs |-> IF d \notin Stale THEN status[d]
                                   ELSE IF attempt_count[d] < MaxAttempts THEN "PENDING" ELSE "FAILED"]
      BY <1>7, <2>1, MaxAttemptsAssumption DEF RequeueStale, GivenUp, Retried, Stale
    <2>4. UNCHANGED attempt_count
      BY <1>7 DEF RequeueStale
    <2>5. QED
      BY <2>2, <2>3, <2>4 DEF Lifecycle!Abandon
  <1>8. Stale \in SUBSET Docs
    BY DEF Stale
  <1>9. CASE RowWrite
    BY <1>2, <1>3, <1>4, <1>5, <1>6, <1>7, <1>8, <1>9 DEF RowWrite, Lifecycle!Next
  <1>10. QED
    BY <1>3, <1>9

(* Every behaviour of the queue, with overlapping attempts, crashes and    *)
(* uncertain commits, is one of the abstract life of its documents.        *)
THEOREM QueueImplementsLifecycle == Spec => ImplementsLifecycle
  <1>1. Init => Lifecycle!Init
    BY DEF Init, Lifecycle!Init
  <1>2. QED
    BY <1>1, LifecycleStep, SpecQInv, PTL DEF Spec, ImplementsLifecycle, Lifecycle!Spec
(* What a step does to the lease, the status and the attempts of rows that *)
(* jobs work on, in a step that finishes a row.                            *)
LEMMA HolderStep ==
  ASSUME QInv, NEW w \in Workers, MarkIndexed(w) \/ MarkFailed(w),
         NEW d \in Docs, status'[d] # status[d]
  PROVE  Holds(w, d) /\ pc[w] \in {"index", "fail"} /\ pc'[w] # pc[w]
  <1>1. TypeOK /\ pc[w] \in {"index", "fail"} /\ pc[w] \in JobSteps
    BY DEF QInv, MarkIndexed, MarkFailed, JobSteps
  <1>2. MayWrite(w) /\ job[w].doc = d
    <2>1. MayWrite(w)
      BY DEF MarkIndexed, MarkFailed
    <2>2. \E new \in Terminal : status' = [status EXCEPT ![job[w].doc] = new]
      BY <2>1 DEF MarkIndexed, MarkFailed, Terminal
    <2>3. QED
      BY <1>1, <2>1, <2>2 DEF TypeOK
  <1>3. pc'[w] # pc[w]
    <2>1. Handler("index") = "cleanup" /\ Handler("fail") = "sleep"
      BY DEF Handler
    <2>2. AfterCommit(w, "top")
      BY DEF MarkIndexed, MarkFailed
    <2>3. \E step \in {"top", "cleanup", "sleep"} : Goto(w, step)
      BY <1>1, <2>1, <2>2 DEF AfterCommit
    <2>4. QED
      BY <1>1, <2>3 DEF Goto, TypeOK
  <1>4. QED
    BY <1>1, <1>2, <1>3 DEF Holds, MayWrite, Fenced

(* A row is finished by the worker that holds it, or by a lease check.     *)
LEMMA HolderFinishesStep ==
  ASSUME QInv, [Next]_vars, NEW d \in Docs, status[d] = "PROCESSING", status'[d] \in Terminal
  PROVE  \/ \E w \in Workers : Holds(w, d) /\ pc[w] \in {"index", "fail"} /\ pc'[w] # pc[w]
         \/ error_message'[d] = "lease" /\ attempt_count[d] = MaxAttempts
  <1>1. TypeOK /\ status'[d] # status[d]
    BY DEF QInv, Terminal
  <1>2. CASE \E w \in Workers : MarkIndexed(w) \/ MarkFailed(w)
    BY <1>1, <1>2, HolderStep
  <1>3. CASE \E w \in Workers : RequeueStale(w)
    <2>1. d \in GivenUp /\ error_message'[d] = "lease"
      BY <1>1, <1>3 DEF RequeueStale, Retried, Terminal
    <2>2. QED
      BY <1>1, <2>1, MaxAttemptsAssumption DEF GivenUp, TypeOK, Attempts
  <1>4. CASE \E w \in Workers : CommitClaim(w)
    BY <1>1, <1>4 DEF CommitClaim, TypeOK, Terminal
  <1>5. CASE \E w \in Workers, e \in Docs : Enqueue(w, e)
    BY <1>1, <1>5 DEF Enqueue, TypeOK, Terminal
  <1>6. CASE ~ RowWrite \/ (\E w \in Workers : SaveContent(w)) \/ \E e \in Docs : LeaseExpires(e)
    BY <1>1, <1>6, OnlyRowWritesWrite DEF SaveContent, LeaseExpires, rowVars
  <1>7. QED
    BY <1>2, <1>3, <1>4, <1>5, <1>6 DEF RowWrite

(* No attempt finishes a row that has been taken from it.                  *)
THEOREM OnlyTheHolderFinishes == Spec => OnlyHolderFinishes
  <1>1. QInv /\ [Next]_vars =>
          [\A d \in Docs : (status[d] = "PROCESSING" /\ status'[d] \in Terminal) =>
             \/ \E w \in Workers : Holds(w, d) /\ pc[w] \in {"index", "fail"} /\ pc'[w] # pc[w]
             \/ error_message'[d] = "lease" /\ attempt_count[d] = MaxAttempts]_vars
    BY HolderFinishesStep
  <1>2. QED
    BY <1>1, SpecQInv, PTL DEF Spec, OnlyHolderFinishes

(* A step of a worker leaves the others where they are.                    *)
LEMMA OthersStay ==
  ASSUME TypeOK, NEW w \in Workers, NEW v \in Workers \ {w},
         Start(w) \/ RunOnce(w) \/ ProcessDocument(w) \/ DbRaises(w) \/ Crash(w)
  PROVE  pc'[v] = pc[v] /\ job'[v] = job[v]
  <1>1. CASE LockOldest(w) \/ Get(w) \/ Load(w) \/ Summarize(w)
    <2>1. /\ \E new : job' = [job EXCEPT ![w] = new]
          /\ \E step : pc' = [pc EXCEPT ![w] = step]
      <3>1. CASE LockOldest(w)
        BY <3>1 DEF LockOldest
      <3>2. CASE Get(w)
        BY <3>2 DEF Get
      <3>3. CASE Load(w)
        BY <3>3 DEF Load
      <3>4. CASE Summarize(w)
        BY <3>4 DEF Summarize
      <3>5. QED
        BY <1>1, <3>1, <3>2, <3>3, <3>4
    <2>2. QED
      BY <2>1 DEF TypeOK
  <1>2. CASE ~ (LockOldest(w) \/ Get(w) \/ Load(w) \/ Summarize(w))
    <2>1. \E step : Goto(w, step)
      BY <1>2
         DEF Start, RunOnce, ClearWake, WakeUp, PollTimeout, RequeueStale, CommitClaim, NothingToClaim,
             Sleep, ProcessDocument, LoadFails, SaveContent, DeleteChunks, AddChunks, StoreRaises,
             MarkIndexed, Cleanup, CleanupFails, MarkFailed, DbRaises, Crash, AfterCommit
    <2>2. QED
      BY <2>1 DEF Goto, TypeOK
  <1>3. QED
    BY <1>1, <1>2

(***************************************************************************)
(* Rows and chunks, when no lease runs out under a running worker.         *)
(***************************************************************************)

(* A running job has its row: the row is in work under the number of the   *)
(* job and its lease is good.  Only a commit that raised after it was done *)
(* leaves an INDEXED row with a job that is handling the exception.        *)
Alone ==
    \A w \in Workers : pc[w] \in JobSteps =>
      /\ job[w].attempt = attempt_count[job[w].doc]
      /\ \/ status[job[w].doc] = "PROCESSING" /\ ~ lease_expired[job[w].doc]
         \/ /\ status[job[w].doc] = "INDEXED"
            /\ pc[w] \in {"cleanup", "fail"}
            /\ "ambiguous" \in Faults

AInv == QInv /\ Alone

(* So no document has two jobs.                                            *)
LEMMA OneJob ==
  ASSUME AInv, NEW v \in Workers, NEW w \in Workers, pc[v] \in JobSteps, pc[w] \in JobSteps,
         job[v].doc = job[w].doc
  PROVE  v = w
  BY DEF AInv, Alone, QInv, Claims, TokensFence

(* Where the steps that leave status and lease alone may lead.             *)
LEMMA QuietMoves ==
  ASSUME QInv, NEW w \in Workers,
         \/ Start(w) \/ ClearWake(w) \/ WakeUp(w) \/ PollTimeout(w) \/ NothingToClaim(w) \/ Sleep(w)
         \/ DbRaises(w) \/ Get(w) \/ Load(w) \/ LoadFails(w) \/ Summarize(w) \/ SaveContent(w)
         \/ DeleteChunks(w) \/ AddChunks(w) \/ StoreRaises(w) \/ Cleanup(w) \/ CleanupFails(w)
         \/ Crash(w)
  PROVE  /\ Moves(w)
         /\ UNCHANGED <<status, attempt_count, lease_expired>>
         /\ pc[w] \in {"cleanup", "fail"} => pc'[w] \in IdleSteps \cup {"fail"}
  <1> USE DEF QInv
  <1>1. ControlType /\ pc[w] \in Steps /\ TypeOK
    BY DEF TypeOK, ControlType
  <1>2. UNCHANGED <<status, attempt_count, lease_expired>>
    BY DEF Start, ClearWake, WakeUp, PollTimeout, NothingToClaim, Sleep, DbRaises, Get, Load, LoadFails,
           Summarize, SaveContent, DeleteChunks, AddChunks, StoreRaises, Cleanup, CleanupFails, Crash,
           rowVars
  <1>3. CASE Get(w) \/ Load(w) \/ Summarize(w)
    <2>1. Moves(w) /\ pc[w] \notin {"cleanup", "fail"}
      BY <1>1, <1>3 DEF Get, Load, Summarize, Moves, TypeOK, Steps, JobSteps, Jobs
    <2>2. QED
      BY <1>2, <2>1
  <1>4. CASE ~ (Get(w) \/ Load(w) \/ Summarize(w))
    <2>1. \E step \in Steps : /\ Goto(w, step)
                              /\ step # "commit"
                              /\ step \in JobSteps => pc[w] \in JobSteps
                              /\ pc[w] \in {"cleanup", "fail"} => step \in IdleSteps \cup {"fail"}
      <3>1. Handler("cleanup") = "sleep" /\ Handler("fail") = "sleep"
        BY DEF Handler
      <3>2. CASE SaveContent(w)
        BY <1>1, <3>2, HandlerStep DEF SaveContent, AfterCommit, Steps, IdleSteps, JobSteps
      <3>3. CASE Start(w) \/ ClearWake(w) \/ WakeUp(w) \/ PollTimeout(w) \/ NothingToClaim(w) \/ Sleep(w)
        BY <3>3 DEF Start, ClearWake, WakeUp, PollTimeout, NothingToClaim, Sleep, Steps, IdleSteps, JobSteps
      <3>4. CASE DbRaises(w) \/ LoadFails(w) \/ StoreRaises(w)
        BY <1>1, <3>1, <3>4, HandlerStep DEF DbRaises, LoadFails, StoreRaises, Steps, IdleSteps, JobSteps
      <3>5. CASE DeleteChunks(w) \/ AddChunks(w) \/ Cleanup(w) \/ CleanupFails(w) \/ Crash(w)
        BY <3>5 DEF DeleteChunks, AddChunks, Cleanup, CleanupFails, Crash, Steps, IdleSteps, JobSteps
      <3>6. QED
        BY <1>4, <3>2, <3>3, <3>4, <3>5
    <2>2. PICK step \in Steps : /\ Goto(w, step)
                                /\ step # "commit"
                                /\ step \in JobSteps => pc[w] \in JobSteps
                                /\ pc[w] \in {"cleanup", "fail"} => step \in IdleSteps \cup {"fail"}
      BY <2>1
    <2>3. Moves(w)
      BY <1>1, <2>2, GotoMoves
    <2>4. pc'[w] = step
      BY <1>1, <2>2 DEF Goto, ControlType
    <2>5. QED
      BY <1>2, <2>2, <2>3, <2>4
  <1>5. QED
    BY <1>3, <1>4

(* Such steps keep every running job on its row. *)
LEMMA QuietKeepsAlone ==
  ASSUME AInv, NEW w \in Workers,
         \/ Start(w) \/ ClearWake(w) \/ WakeUp(w) \/ PollTimeout(w) \/ NothingToClaim(w) \/ Sleep(w)
         \/ DbRaises(w) \/ Get(w) \/ Load(w) \/ LoadFails(w) \/ Summarize(w) \/ SaveContent(w)
         \/ DeleteChunks(w) \/ AddChunks(w) \/ StoreRaises(w) \/ Cleanup(w) \/ CleanupFails(w)
         \/ Crash(w)
  PROVE  Alone'
  <1>1. /\ Moves(w)
        /\ UNCHANGED <<status, attempt_count, lease_expired>>
        /\ pc[w] \in {"cleanup", "fail"} => pc'[w] \in IdleSteps \cup {"fail"}
    BY QuietMoves DEF AInv
  <1>2. QED
    BY <1>1 DEF AInv, Alone, Moves, IdleSteps, JobSteps

(* A worker that finishes its row leaves it, or has an exception to handle. *)
LEMMA FinishingKeepsAlone ==
  ASSUME AInv, NEW w \in Workers, MarkIndexed(w) \/ MarkFailed(w)
  PROVE  Alone'
  <1> DEFINE d == job[w].doc
  <1>1. /\ TypeOK /\ QInv /\ Alone /\ pc[w] \in JobSteps /\ d \in Docs
        /\ UNCHANGED attempt_count
    BY DEF AInv, QInv, Claims, JobsClaimed, MarkIndexed, MarkFailed, JobSteps
  <1>2. \A e \in Docs \ {d} : status'[e] = status[e] /\ lease_expired'[e] = lease_expired[e]
    BY <1>1 DEF MarkIndexed, MarkFailed, TypeOK
  <1>3. ASSUME NEW v \in Workers \ {w}, pc[v] \in JobSteps PROVE job[v].doc \in Docs \ {d}
    BY <1>1, <1>3, OneJob DEF AInv, QInv, Claims, JobsClaimed
  <1>4. /\ Handler("index") = "cleanup" /\ Handler("fail") = "sleep"
        /\ AfterCommit(w, "top")
    BY DEF Handler, MarkIndexed, MarkFailed
  <1>5. \/ Goto(w, "top")
        \/ Goto(w, "sleep")
        \/ MarkIndexed(w) /\ Goto(w, "cleanup") /\ "ambiguous" \in Faults
    BY <1>4 DEF AfterCommit, MarkIndexed, MarkFailed
  <1>6. /\ \A v \in Workers \ {w} : pc'[v] = pc[v] /\ job'[v] = job[v]
        /\ \/ pc'[w] \in IdleSteps
           \/ MarkIndexed(w) /\ "ambiguous" \in Faults /\ pc'[w] = "cleanup" /\ job'[w] = job[w]
    BY <1>1, <1>5 DEF Goto, TypeOK, IdleSteps
  <1>7. MarkIndexed(w) => status'[d] = "INDEXED"
    <2>1. ASSUME MarkIndexed(w) PROVE status'[d] = "INDEXED"
      <3>1. pc[w] = "index" /\ MayWrite(w)
        BY <1>1, <2>1 DEF MarkIndexed, Alone, MayWrite, Fenced, JobSteps
      <3>2. QED
        BY <1>1, <2>1, <3>1 DEF MarkIndexed, TypeOK
    <2>2. QED
      BY <2>1
  <1>8. ASSUME NEW v \in Workers, pc'[v] \in JobSteps
        PROVE  /\ job'[v].attempt = attempt_count'[job'[v].doc]
               /\ \/ status'[job'[v].doc] = "PROCESSING" /\ ~ lease_expired'[job'[v].doc]
                  \/ /\ status'[job'[v].doc] = "INDEXED"
                     /\ pc'[v] \in {"cleanup", "fail"}
                     /\ "ambiguous" \in Faults
    <2>1. CASE v = w
      BY <1>1, <1>6, <1>7, <1>8, <2>1 DEF Alone, IdleSteps, JobSteps
    <2>2. CASE v # w
      BY <1>1, <1>2, <1>3, <1>6, <1>8, <2>2 DEF Alone
    <2>3. QED
      BY <2>1, <2>2
  <1>9. QED
    BY <1>8 DEF Alone

(* The other steps: a lease check finds no running job, a claim takes a    *)
(* row without one, and a lease runs out only where nobody works.          *)
LEMMA RestKeepsAlone ==
  ASSUME AInv, "slow" \notin Faults, [Next]_vars,
         \/ \E w \in Workers : RequeueStale(w) \/ LockOldest(w) \/ CommitClaim(w)
         \/ \E w \in Workers, d \in Docs : Enqueue(w, d) \/ Notify(w, d)
         \/ \E d \in Docs : LeaseExpires(d)
         \/ UNCHANGED vars
  PROVE  Alone'
  <1>1. TypeOK /\ QInv /\ Alone /\ JobsClaimed
    BY DEF AInv, QInv, Claims
  <1>2. ASSUME NEW w \in Workers, RequeueStale(w) PROVE Alone'
    <2>1. ControlType' /\ Moves(w) /\ pc'[w] \notin JobSteps
      <3>1. Handler("requeue") = "sleep"
        BY DEF Handler
      <3>2. Goto(w, "claim") \/ Goto(w, "sleep")
        BY <1>2, <3>1 DEF RequeueStale, AfterCommit
      <3>3. QED
        BY <1>1, <3>2, GotoMoves DEF TypeOK, ControlType, Goto, Steps, IdleSteps, JobSteps
    <2>2. \A d \in Docs \ Stale : status'[d] = status[d] /\ lease_expired'[d] = lease_expired[d]
      BY <1>1, <1>2 DEF RequeueStale, GivenUp, Retried, TypeOK
    <2>3. \A v \in Workers : pc[v] \in JobSteps => job[v].doc \in Docs \ Stale
      BY <1>1 DEF Alone, JobsClaimed, Stale
    <2>4. UNCHANGED attempt_count
      BY <1>2 DEF RequeueStale
    <2>5. QED
      BY <1>1, <2>1, <2>2, <2>3, <2>4 DEF Alone, Moves
  <1>3. ASSUME NEW w \in Workers, LockOldest(w) PROVE Alone'
    <2>1. /\ \A v \in Workers \ {w} : pc'[v] = pc[v] /\ job'[v] = job[v]
          /\ pc'[w] = "commit"
      <3>1. \E new : job' = [job EXCEPT ![w] = new]
        BY <1>3 DEF LockOldest
      <3>2. QED
        BY <1>1, <1>3, <3>1 DEF LockOldest, TypeOK
    <2>2. UNCHANGED <<status, attempt_count, lease_expired>>
      BY <1>3 DEF LockOldest, rowVars
    <2>3. QED
      BY <1>1, <2>1, <2>2 DEF Alone, JobSteps
  <1>4. ASSUME NEW w \in Workers, CommitClaim(w) PROVE Alone'
    <2> DEFINE d == job[w].doc
    <2>1. /\ pc[w] = "commit" /\ d \in Docs /\ status[d] = "PENDING"
          /\ job[w].attempt = attempt_count[d] + 1
      BY <1>1, <1>4 DEF CommitClaim, QInv, Claims, LocksHold
    <2>2. /\ \A v \in Workers \ {w} : pc'[v] = pc[v] /\ job'[v] = job[v]
          /\ pc'[w] \in {"get", "sleep"}
          /\ pc'[w] = "get" => job'[w] = job[w]
      <3>1. Handler("commit") = "sleep"
        BY DEF Handler
      <3>2. Goto(w, "get") \/ Goto(w, "sleep")
        BY <1>4, <2>1, <3>1 DEF CommitClaim, AfterCommit
      <3>3. QED
        BY <1>1, <3>2 DEF Goto, TypeOK, IdleSteps
    <2>3. \A v \in Workers : pc[v] \in JobSteps => job[v].doc \in Docs \ {d}
      BY <1>1, <2>1 DEF Alone, JobsClaimed
    <2>4. /\ \A e \in Docs \ {d} : /\ status'[e] = status[e]
                                   /\ lease_expired'[e] = lease_expired[e]
                                   /\ attempt_count'[e] = attempt_count[e]
          /\ status'[d] = "PROCESSING" /\ lease_expired'[d] = FALSE
          /\ attempt_count'[d] = attempt_count[d] + 1
      BY <1>1, <1>4, <2>1 DEF CommitClaim, TypeOK
    <2>5. QED
      BY <1>1, <2>1, <2>2, <2>3, <2>4 DEF Alone, JobSteps
  <1>5. ASSUME NEW w \in Workers, NEW d \in Docs, Enqueue(w, d) PROVE Alone'
    <2>1. \A v \in Workers : pc[v] \in JobSteps => job[v].doc \in Docs \ {d}
      BY <1>1, <1>5 DEF Enqueue, Alone, JobsClaimed
    <2>2. QED
      BY <1>1, <1>5, <2>1 DEF Enqueue, Alone, TypeOK
  <1>6. ASSUME NEW w \in Workers, NEW d \in Docs, Notify(w, d) PROVE Alone'
    BY <1>1, <1>6 DEF Notify, Alone, rowVars
  <1>7. ASSUME NEW d \in Docs, LeaseExpires(d) PROVE Alone'
    <2>1. \A v \in Workers : pc[v] \in JobSteps => job[v].doc \in Docs \ {d}
      BY <1>1, <1>7 DEF LeaseExpires, Holds, Alone, JobsClaimed
    <2>2. QED
      BY <1>1, <1>7, <2>1 DEF LeaseExpires, Alone, TypeOK
  <1>8. CASE UNCHANGED vars
    BY <1>1, <1>8 DEF vars, rowVars, Alone
  <1>9. QED
    BY <1>2, <1>3, <1>4, <1>5, <1>6, <1>7, <1>8

(* Every running job keeps its row as long as no lease runs out under it.  *)
LEMMA NextAlone == "slow" \notin Faults /\ AInv /\ [Next]_vars => AInv'
  <1> SUFFICES ASSUME "slow" \notin Faults, AInv, [Next]_vars PROVE AInv'
    OBVIOUS
  <1>1. QInv'
    BY NextQInv DEF AInv
  <1>2. Alone'
    BY QuietKeepsAlone, FinishingKeepsAlone, RestKeepsAlone DEF Next, RunOnce, ProcessDocument
  <1>3. QED
    BY <1>1, <1>2 DEF AInv

(* With nobody at work every job has its row. *)
LEMMA InitAlone == Init => AInv
  BY InitQInv DEF Init, AInv, Alone, JobSteps

(* What a job knows of the chunks of its document.                         *)
ChunksKnown ==
    \A w \in Workers :
      /\ pc[w] = "add" => chunks[job[w].doc] = {}
      /\ pc[w] = "index" => chunks[job[w].doc] = Ids(job[w].n)

CInv == AInv /\ ChunksKnown /\ IndexedIsSearchable

(* A write to the vector store is about the document of the job alone. *)
LEMMA StoreWrites ==
  ASSUME QInv, NEW w \in Workers,
         \/ DeleteChunks(w) \/ AddChunks(w) \/ StoreRaises(w)
         \/ Cleanup(w) \/ CleanupFails(w) \/ Crash(w)
  PROVE  /\ UNCHANGED rowVars
         /\ \A v \in Workers \ {w} : pc'[v] = pc[v] /\ job'[v] = job[v]
         /\ \/ chunks' = chunks
            \/ /\ pc[w] \in {"delete", "add", "cleanup"} /\ job[w].doc \in Docs
               /\ \A d \in Docs \ {job[w].doc} : chunks'[d] = chunks[d]
  <1>1. TypeOK /\ JobsClaimed
    BY DEF QInv, Claims
  <1>2. UNCHANGED rowVars
    BY DEF DeleteChunks, AddChunks, StoreRaises, Cleanup, CleanupFails, Crash
  <1>3. \E step : Goto(w, step)
    BY DEF DeleteChunks, AddChunks, StoreRaises, Cleanup, CleanupFails, Crash
  <1>4. \A v \in Workers \ {w} : pc'[v] = pc[v] /\ job'[v] = job[v]
    BY <1>1, <1>3 DEF Goto, TypeOK
  <1>5. \/ chunks' = chunks
        \/ /\ pc[w] \in {"delete", "add", "cleanup"}
           /\ \E new : chunks' = [chunks EXCEPT ![job[w].doc] = new]
    BY DEF DeleteChunks, AddChunks, StoreRaises, Cleanup, CleanupFails, Crash, PartialDelete, PartialAdd
  <1>6. QED
    BY <1>1, <1>2, <1>4, <1>5 DEF TypeOK, JobsClaimed, JobSteps

(* Writes to the vector store keep CInv: the row of the job is in work, and no other job has it. *)
LEMMA StoreKeepsCInv ==
  ASSUME CInv, "ambiguous" \notin Faults, NEW w \in Workers,
         \/ DeleteChunks(w) \/ AddChunks(w) \/ StoreRaises(w)
         \/ Cleanup(w) \/ CleanupFails(w) \/ Crash(w)
  PROVE  ChunksKnown' /\ IndexedIsSearchable'
  <1>1. AInv /\ QInv /\ TypeOK /\ Alone
    BY DEF CInv, AInv, QInv
  <1>2. /\ UNCHANGED rowVars
        /\ \A v \in Workers \ {w} : pc'[v] = pc[v] /\ job'[v] = job[v]
        /\ \/ chunks' = chunks
           \/ /\ pc[w] \in {"delete", "add", "cleanup"} /\ job[w].doc \in Docs
              /\ \A d \in Docs \ {job[w].doc} : chunks'[d] = chunks[d]
    BY <1>1, StoreWrites
  <1>3. ASSUME NEW v \in Workers \ {w}, pc[v] \in JobSteps PROVE chunks'[job[v].doc] = chunks[job[v].doc]
    <2>1. CASE pc[w] \in {"delete", "add", "cleanup"}
      BY <1>1, <1>2, <1>3, <2>1, OneJob DEF QInv, Claims, JobsClaimed, JobSteps
    <2>2. QED
      BY <1>2, <2>1
  <1>4. IndexedIsSearchable'
    <2>1. pc[w] \in {"delete", "add", "cleanup"} => status[job[w].doc] # "INDEXED"
      BY <1>1 DEF Alone, JobSteps
    <2>2. QED
      BY <1>2, <2>1 DEF CInv, IndexedIsSearchable, rowVars
  <1>5. CASE DeleteChunks(w)
    <2>1. pc'[w] = "add" /\ job'[w] = job[w] /\ chunks'[job[w].doc] = {}
      BY <1>1, <1>5 DEF DeleteChunks, Goto, TypeOK, IdleSteps, QInv, Claims, JobsClaimed, JobSteps
    <2>2. QED
      BY <1>2, <1>3, <1>4, <2>1 DEF CInv, ChunksKnown, JobSteps
  <1>6. CASE AddChunks(w)
    <2>1. /\ pc[w] = "add" /\ pc'[w] = "index" /\ job'[w] = job[w]
          /\ chunks'[job[w].doc] = chunks[job[w].doc] \cup Ids(job[w].n)
      BY <1>1, <1>6 DEF AddChunks, Goto, TypeOK, IdleSteps, QInv, Claims, JobsClaimed, JobSteps
    <2>2. chunks'[job[w].doc] = Ids(job[w].n)
      BY <2>1 DEF CInv, ChunksKnown
    <2>3. QED
      BY <1>2, <1>3, <1>4, <2>1, <2>2 DEF CInv, ChunksKnown, JobSteps
  <1>7. CASE StoreRaises(w) \/ Cleanup(w) \/ CleanupFails(w) \/ Crash(w)
    <2>1. Handler("delete") = "cleanup" /\ Handler("add") = "cleanup"
      BY DEF Handler
    <2>2. \E step \in {"cleanup", "fail", "off"} : Goto(w, step)
      BY <1>7, <2>1 DEF StoreRaises, Cleanup, CleanupFails, Crash
    <2>3. pc'[w] \notin {"add", "index"}
      BY <1>1, <2>2 DEF Goto, TypeOK
    <2>4. QED
      BY <1>2, <1>3, <1>4, <2>3 DEF CInv, ChunksKnown, JobSteps
  <1>8. QED
    BY <1>5, <1>6, <1>7

(* No other step writes chunks, and only writers get to the two steps      *)
(* ChunksKnown is about.                                                   *)
LEMMA ElsewhereStep ==
  ASSUME QInv, [Next]_vars,
         \A w \in Workers : ~ (\/ DeleteChunks(w) \/ AddChunks(w) \/ StoreRaises(w)
                               \/ Cleanup(w) \/ CleanupFails(w) \/ Crash(w))
  PROVE  /\ UNCHANGED chunks
         /\ \A w \in Workers : pc'[w] \in {"add", "index"} =>
              pc'[w] = pc[w] /\ job'[w] = job[w]
  <1>1. TypeOK
    BY DEF QInv
  <1>2. ASSUME NEW w \in Workers,
               \/ Start(w) \/ RunOnce(w) \/ DbRaises(w) \/ Get(w) \/ Load(w) \/ LoadFails(w)
               \/ Summarize(w) \/ SaveContent(w) \/ MarkIndexed(w) \/ MarkFailed(w)
        PROVE  /\ UNCHANGED chunks
               /\ \A v \in Workers \ {w} : pc'[v] = pc[v] /\ job'[v] = job[v]
               /\ pc'[w] \notin {"add", "index"}
    <2>1. UNCHANGED chunks
      BY <1>2 DEF Start, RunOnce, ClearWake, WakeUp, PollTimeout, RequeueStale, LockOldest, CommitClaim,
                  NothingToClaim, Sleep, DbRaises, Get, Load, LoadFails, Summarize, SaveContent,
                  MarkIndexed, MarkFailed
    <2>2. CASE LockOldest(w) \/ Get(w) \/ Load(w) \/ Summarize(w)
      <3>1. /\ \E new : job' = [job EXCEPT ![w] = new]
            /\ \E step \in {"commit", "load", "summarize", "save"} : pc' = [pc EXCEPT ![w] = step]
        <4>1. CASE LockOldest(w)
          BY <4>1 DEF LockOldest
        <4>2. CASE Get(w)
          BY <4>2 DEF Get
        <4>3. CASE Load(w)
          BY <4>3 DEF Load
        <4>4. CASE Summarize(w)
          BY <4>4 DEF Summarize
        <4>5. QED
          BY <2>2, <4>1, <4>2, <4>3, <4>4
      <3>2. QED
        BY <1>1, <2>1, <3>1 DEF TypeOK
    <2>3. CASE ~ (LockOldest(w) \/ Get(w) \/ Load(w) \/ Summarize(w))
      <3>1. Handler(pc[w]) \notin {"add", "index"} /\ Handler("load") \notin {"add", "index"}
        BY DEF Handler
      <3>2. \E step : Goto(w, step) /\ step \notin {"add", "index"}
        BY <1>2, <2>3, <3>1
           DEF Start, RunOnce, ClearWake, WakeUp, PollTimeout, RequeueStale, CommitClaim,
               NothingToClaim, Sleep, DbRaises, LoadFails, SaveContent, MarkIndexed, MarkFailed, AfterCommit
      <3>3. QED
        BY <1>1, <2>1, <3>2 DEF Goto, TypeOK
    <2>4. QED
      BY <2>2, <2>3
  <1>3. CASE \E w \in Workers, d \in Docs : Enqueue(w, d) \/ Notify(w, d)
    BY <1>3 DEF Enqueue, Notify
  <1>4. CASE (\E d \in Docs : LeaseExpires(d)) \/ UNCHANGED vars
    BY <1>4 DEF LeaseExpires, vars
  <1>5. QED
    BY <1>2, <1>3, <1>4 DEF Next, ProcessDocument

(* The other steps keep CInv: a row becomes INDEXED with the chunks its job wrote. *)
LEMMA RestKeepsCInv ==
  ASSUME CInv, "ambiguous" \notin Faults, [Next]_vars,
         \A w \in Workers : ~ (\/ DeleteChunks(w) \/ AddChunks(w) \/ StoreRaises(w)
                               \/ Cleanup(w) \/ CleanupFails(w) \/ Crash(w))
  PROVE  ChunksKnown' /\ IndexedIsSearchable'
  <1>1. AInv /\ QInv /\ TypeOK /\ Alone
    BY DEF CInv, AInv, QInv
  <1>2. /\ UNCHANGED chunks
        /\ \A w \in Workers : pc'[w] \in {"add", "index"} => pc'[w] = pc[w] /\ job'[w] = job[w]
    BY <1>1, ElsewhereStep
  <1>3. ChunksKnown'
    BY <1>2 DEF CInv, ChunksKnown
  <1>4. CASE \E w \in Workers : MarkIndexed(w)
    <2>1. PICK w \in Workers : MarkIndexed(w)
      BY <1>4
    <2>2. pc[w] = "index" /\ job[w].doc \in Docs /\ chunks[job[w].doc] = Ids(job[w].n)
      BY <1>1, <2>1 DEF MarkIndexed, CInv, ChunksKnown, QInv, Claims, JobsClaimed, JobSteps
    <2>3. \A d \in Docs \ {job[w].doc} : status'[d] = status[d] /\ chunk_count'[d] = chunk_count[d]
      BY <1>1, <2>1 DEF MarkIndexed, TypeOK
    <2>4. MayWrite(w)
      BY <1>1, <2>2 DEF Alone, MayWrite, Fenced, JobSteps
    <2>5. chunk_count'[job[w].doc] = job[w].n
      BY <1>1, <2>1, <2>2, <2>4 DEF MarkIndexed, TypeOK
    <2>6. QED
      BY <1>2, <1>3, <2>2, <2>3, <2>5 DEF CInv, IndexedIsSearchable
  <1>5. CASE ~ \E w \in Workers : MarkIndexed(w)
    <2>1. UNCHANGED chunk_count
      BY <1>5, OnlyRowWritesWrite
         DEF RowWrite, rowVars, Enqueue, RequeueStale, CommitClaim, SaveContent, MarkFailed, LeaseExpires
    <2>2. \A d \in Docs : status'[d] = "INDEXED" => status[d] = "INDEXED"
      <3>1. CASE ~ RowWrite \/ (\E w \in Workers : SaveContent(w)) \/ \E d \in Docs : LeaseExpires(d)
        BY <3>1, OnlyRowWritesWrite DEF SaveContent, LeaseExpires, rowVars
      <3>2. CASE \E w \in Workers : RequeueStale(w) \/ CommitClaim(w) \/ MarkFailed(w)
        BY <1>1, <3>2 DEF RequeueStale, CommitClaim, MarkFailed, TypeOK
      <3>3. CASE \E w \in Workers, d \in Docs : Enqueue(w, d)
        BY <1>1, <3>3 DEF Enqueue, TypeOK
      <3>4. QED
        BY <1>5, <3>1, <3>2, <3>3 DEF RowWrite
    <2>3. QED
      BY <1>2, <1>3, <2>1, <2>2 DEF CInv, IndexedIsSearchable
  <1>6. QED
    BY <1>4, <1>5

(* Crashes, database calls that raise and cleanups that fail do not make   *)
(* an INDEXED document incomplete, as long as no lease runs out under a    *)
(* running worker and no commit raises after it was done.                  *)
THEOREM IndexedAreSearchable ==
  ASSUME "slow" \notin Faults, "ambiguous" \notin Faults
  PROVE  Spec => []IndexedIsSearchable
  <1>1. Init => CInv
    BY InitAlone DEF Init, CInv, ChunksKnown, IndexedIsSearchable
  <1>2. CInv /\ [Next]_vars => CInv'
    BY NextAlone, StoreKeepsCInv, RestKeepsCInv DEF CInv
  <1>3. CInv => IndexedIsSearchable
    BY DEF CInv
  <1>4. QED
    BY <1>1, <1>2, <1>3, PTL DEF Spec

(* A row that has a running job keeps its number: a claim finds it taken.  *)
LEMMA AttemptKept ==
  ASSUME AInv, [Next]_vars, NEW v \in Workers, pc[v] \in JobSteps
  PROVE  attempt_count'[job[v].doc] = attempt_count[job[v].doc]
  <1>1. TypeOK /\ QInv /\ Alone
    BY DEF AInv, QInv
  <1>2. CASE \E w \in Workers : CommitClaim(w)
    <2>1. PICK w \in Workers : CommitClaim(w)
      BY <1>2
    <2>2. job[w].doc # job[v].doc /\ job[w].doc \in Docs
      BY <1>1, <2>1 DEF CommitClaim, Alone, QInv, Claims, LocksHold
    <2>3. QED
      BY <1>1, <2>1, <2>2 DEF CommitClaim, TypeOK
  <1>3. CASE ~ \E w \in Workers : CommitClaim(w)
    BY <1>3, OnlyRowWritesWrite
       DEF RowWrite, rowVars, Enqueue, RequeueStale, SaveContent, MarkIndexed, MarkFailed, LeaseExpires
  <1>4. QED
    BY <1>2, <1>3

(* The writer of a document, in the window its chunks may be found in.     *)
Writing(w, d) == Holds(w, d) /\ pc[w] \in {"index", "cleanup"}

(* A step of another kind than a write to the vector store keeps a writer  *)
(* in its window, or the document becomes INDEXED.                         *)
LEMMA WriterStays ==
  ASSUME AInv, [Next]_vars, NEW v \in Workers, NEW d \in Docs, Writing(v, d),
         \A w \in Workers : ~ (\/ DeleteChunks(w) \/ AddChunks(w) \/ StoreRaises(w)
                               \/ Cleanup(w) \/ CleanupFails(w) \/ Crash(w))
  PROVE  status'[d] = "INDEXED" \/ Writing(v, d)'
  <1>1. /\ QInv /\ TypeOK /\ Alone /\ pc[v] \in JobSteps /\ pc[v] \in {"index", "cleanup"}
        /\ job[v].doc = d /\ job[v].attempt = attempt_count[d]
        /\ status[d] \in {"PROCESSING", "INDEXED"}
    BY DEF AInv, QInv, Alone, Writing, Holds, JobSteps
  <1>2. attempt_count'[d] = attempt_count[d]
    BY <1>1, AttemptKept
  <1>3. CASE pc'[v] = pc[v] /\ job'[v] = job[v]
    BY <1>1, <1>2, <1>3 DEF Writing, Holds
  <1>4. CASE MarkIndexed(v)
    <2>1. MayWrite(v)
      BY <1>1, <1>4 DEF MarkIndexed, Alone, MayWrite, Fenced
    <2>2. QED
      BY <1>1, <1>4, <2>1 DEF MarkIndexed, TypeOK
  <1>5. CASE DbRaises(v)
    <2>1. Handler("index") = "cleanup"
      BY DEF Handler
    <2>2. Goto(v, "cleanup")
      BY <1>1, <1>5, <2>1 DEF DbRaises
    <2>3. pc'[v] = "cleanup" /\ job'[v] = job[v]
      BY <1>1, <2>2 DEF Goto, TypeOK, IdleSteps
    <2>4. QED
      BY <1>1, <1>2, <2>3 DEF Writing, Holds, JobSteps
  <1>6. ASSUME NEW w \in Workers \ {v},
               \/ Start(w) \/ RunOnce(w) \/ DbRaises(w) \/ Get(w) \/ Load(w) \/ LoadFails(w)
               \/ Summarize(w) \/ SaveContent(w) \/ MarkIndexed(w) \/ MarkFailed(w)
        PROVE  pc'[v] = pc[v] /\ job'[v] = job[v]
    BY <1>1, <1>6, OthersStay DEF ProcessDocument
  <1>7. ~ (\/ Start(v) \/ RunOnce(v) \/ Get(v) \/ Load(v) \/ LoadFails(v)
           \/ Summarize(v) \/ SaveContent(v) \/ MarkFailed(v))
    BY <1>1 DEF Start, RunOnce, ClearWake, WakeUp, PollTimeout, RequeueStale, LockOldest, CommitClaim,
                NothingToClaim, Sleep, Get, Load, LoadFails, Summarize, SaveContent, MarkFailed
  <1>8. CASE \/ \E w \in Workers, e \in Docs : Enqueue(w, e) \/ Notify(w, e)
             \/ \E e \in Docs : LeaseExpires(e)
             \/ UNCHANGED vars
    BY <1>3, <1>8 DEF Enqueue, Notify, LeaseExpires, vars
  <1>9. QED
    BY <1>3, <1>4, <1>5, <1>6, <1>7, <1>8 DEF Next, ProcessDocument

(* A write to the vector store opens the window, and the cleanup closes it. *)
LEMMA WriteOpensWindow ==
  ASSUME AInv, SearchableWindow, "cleanup" \notin Faults, "crash" \notin Faults, NEW w \in Workers,
         \/ DeleteChunks(w) \/ AddChunks(w) \/ StoreRaises(w)
         \/ Cleanup(w) \/ CleanupFails(w) \/ Crash(w)
  PROVE  SearchableWindow'
  <1>0. PICK d : d = job[w].doc
    OBVIOUS
  <1>1. /\ QInv /\ TypeOK /\ Alone
        /\ DeleteChunks(w) \/ AddChunks(w) \/ StoreRaises(w) \/ Cleanup(w)
    BY DEF AInv, QInv, CleanupFails, Crash
  <1>2. pc[w] \in JobSteps /\ pc[w] # "index" /\ d \in Docs /\ job[w].attempt = attempt_count[d]
    BY <1>0, <1>1 DEF DeleteChunks, AddChunks, StoreRaises, Cleanup, QInv, Claims, JobsClaimed, Alone, JobSteps
  <1>3. /\ UNCHANGED rowVars
        /\ \A v \in Workers \ {w} : pc'[v] = pc[v] /\ job'[v] = job[v]
        /\ \A e \in Docs \ {d} : chunks'[e] = chunks[e]
    BY <1>0, <1>1, StoreWrites
  <1>4. ASSUME NEW e \in Docs \ {d}
        PROVE  \/ status'[e] = "INDEXED"
               \/ chunks'[e] = {}
               \/ \E v \in Workers : Writing(v, e)'
    <2>1. ASSUME NEW v \in Workers, Writing(v, e) PROVE Writing(v, e)'
      BY <1>0, <1>3, <2>1 DEF Writing, Holds, rowVars
    <2>2. QED
      BY <1>3, <2>1 DEF SearchableWindow, Writing, rowVars
  <1>5. chunks'[d] = {} \/ Writing(w, d)'
    <2>1. CASE DeleteChunks(w) \/ Cleanup(w)
      <3>1. chunks' = [chunks EXCEPT ![d] = {}]
        BY <1>0, <2>1 DEF DeleteChunks, Cleanup
      <3>2. QED
        BY <1>1, <1>2, <3>1 DEF TypeOK
    <2>2. CASE AddChunks(w) \/ StoreRaises(w)
      <3>1. Handler("delete") = "cleanup" /\ Handler("add") = "cleanup"
        BY DEF Handler
      <3>2. Goto(w, "index") \/ Goto(w, "cleanup")
        BY <2>2, <3>1 DEF AddChunks, StoreRaises
      <3>3. pc'[w] \in {"index", "cleanup"} /\ job'[w] = job[w]
        BY <1>1, <3>2 DEF Goto, TypeOK, IdleSteps
      <3>4. QED
        BY <1>0, <1>2, <1>3, <3>3 DEF Writing, Holds, JobSteps, rowVars
    <2>3. QED
      BY <1>1, <2>1, <2>2
  <1>6. ASSUME NEW e \in Docs
        PROVE  \/ status'[e] = "INDEXED"
               \/ chunks'[e] = {}
               \/ \E v \in Workers : Writing(v, e)'
    <2>1. CASE e = d
      BY <1>5, <2>1
    <2>2. CASE e # d
      BY <1>4, <2>2
    <2>3. QED
      BY <2>1, <2>2
  <1>7. QED
    BY <1>6 DEF SearchableWindow, Writing

(* The window is open only for the one job of its document.                *)
LEMMA SpecWindow ==
  ASSUME "slow" \notin Faults, "crash" \notin Faults, "cleanup" \notin Faults
  PROVE  Spec => [](AInv /\ SearchableWindow)
  <1>1. Init => AInv /\ SearchableWindow
    BY InitAlone DEF Init, SearchableWindow
  <1>2. SInv /\ AInv /\ SearchableWindow /\ [Next]_vars => AInv' /\ SearchableWindow'
    <2> SUFFICES ASSUME SInv, AInv, SearchableWindow, [Next]_vars PROVE AInv' /\ SearchableWindow'
      OBVIOUS
    <2>1. AInv'
      BY NextAlone
    <2>2. CASE \E w \in Workers : \/ DeleteChunks(w) \/ AddChunks(w) \/ StoreRaises(w)
                                  \/ Cleanup(w) \/ CleanupFails(w) \/ Crash(w)
      BY <2>1, <2>2, WriteOpensWindow
    <2>3. CASE \A w \in Workers : ~ (\/ DeleteChunks(w) \/ AddChunks(w) \/ StoreRaises(w)
                                     \/ Cleanup(w) \/ CleanupFails(w) \/ Crash(w))
      <3>1. UNCHANGED chunks
        BY <2>3, ElsewhereStep DEF AInv
      <3>2. ASSUME NEW d \in Docs, status[d] = "INDEXED" PROVE status'[d] = "INDEXED"
        BY <3>2, FinishedStep DEF Terminal
      <3>3. ASSUME NEW d \in Docs, NEW v \in Workers, Writing(v, d)
            PROVE  status'[d] = "INDEXED" \/ Writing(v, d)'
        BY <2>3, <3>3, WriterStays
      <3>4. QED
        BY <2>1, <3>1, <3>2, <3>3 DEF SearchableWindow, Writing
    <2>4. QED
      BY <2>2, <2>3
  <1>3. QED
    BY <1>1, <1>2, SpecSInv, PTL DEF Spec


(* Chunks of a document that is not INDEXED can be found only while its    *)
(* job writes, whatever database calls raise and even if a commit raises   *)
(* after it was done, unless a process dies, the cleanup fails or a lease  *)
(* runs out under a running worker.                                        *)
THEOREM SearchableOnlyInWindow ==
  ASSUME "slow" \notin Faults, "crash" \notin Faults, "cleanup" \notin Faults
  PROVE  Spec => []SearchableWindow
  BY SpecWindow, PTL

(* "A FAILED document must not stay searchable" (processor.py): nothing but *)
(* those three faults can leave chunks behind it.                          *)
THEOREM FailedLeaveNothing ==
  ASSUME "slow" \notin Faults, "crash" \notin Faults, "cleanup" \notin Faults
  PROVE  Spec => []FailedNotSearchable
  <1>1. AInv /\ SearchableWindow => FailedNotSearchable
    <2> SUFFICES ASSUME AInv, SearchableWindow, NEW d \in Docs, status[d] = "FAILED", chunks[d] # {}
                 PROVE  FALSE
      BY DEF FailedNotSearchable
    <2>1. PICK w \in Workers : Holds(w, d) /\ pc[w] \in {"index", "cleanup"}
      BY DEF SearchableWindow
    <2>2. QED
      BY <2>1 DEF AInv, Alone, Holds, JobSteps
  <1>2. QED
    BY <1>1, SpecWindow, PTL

(***************************************************************************)
(* Wake-ups, when only loading, summarizing and writing to the vector      *)
(* store may fail.                                                         *)
(***************************************************************************)
Quiet == Faults \subseteq {"cleanup"}

(* Every row in work is held, so no lease runs out and no row comes back.  *)
NoRetry ==
    \A d \in Docs :
      /\ ~ lease_expired[d]
      /\ status[d] = "PROCESSING" => \E w \in Workers : Holds(w, d)

RowsUploaded ==
    \A w \in Workers : \A d \in unsent[w] \cup notified[w] : status[d] # "ABSENT"

Locked(d) == \E v \in Workers : pc[v] = "commit" /\ job[v].doc = d

(* A worker that found the queue empty, or sleeps, has nothing to take.    *)
Awake ==
    \A w \in Workers : (pc[w] \in {"empty", "sleep"} /\ ~ wake[w]) =>
      \A d \in notified[w] : status[d] = "PENDING" => Locked(d)

KInv == AInv /\ NoRetry /\ RowsUploaded /\ Awake

(* Without faults of the database a commit returns. *)
LEMMA QuietCommit ==
  ASSUME Quiet, NEW w \in Workers, NEW step, AfterCommit(w, step)
  PROVE  Goto(w, step)
  BY DEF Quiet, AfterCommit

(* A worker that holds a row in work keeps it until the row is finished.   *)
LEMMA HolderKeeps ==
  ASSUME AInv, Quiet, [Next]_vars, NEW v \in Workers, NEW d \in Docs, Holds(v, d),
         status[d] = "PROCESSING", status'[d] = "PROCESSING"
  PROVE  Holds(v, d)'
  <1>1. /\ TypeOK /\ QInv /\ Alone /\ pc[v] \in JobSteps /\ job[v].doc = d
        /\ job[v].attempt = attempt_count[d] /\ MayWrite(v)
    BY DEF AInv, QInv, Holds, MayWrite, Fenced
  <1>2. attempt_count'[d] = attempt_count[d]
    BY <1>1, AttemptKept
  <1>3. CASE pc'[v] = pc[v] /\ job'[v] = job[v]
    BY <1>1, <1>2, <1>3 DEF Holds
  <1>4. CASE ProcessDocument(v)
    <2>1. ~ (MarkIndexed(v) \/ MarkFailed(v))
      BY <1>1 DEF MarkIndexed, MarkFailed, TypeOK
    <2>2. Moves(v)
      BY <1>1, <1>4, <2>1, QuietMoves DEF ProcessDocument
    <2>3. pc'[v] \in JobSteps
      <3>1. CASE Get(v) \/ Load(v) \/ Summarize(v)
        BY <1>1, <3>1 DEF Get, Load, Summarize, TypeOK, JobSteps
      <3>2. CASE SaveContent(v)
        <4>1. Goto(v, "delete")
          BY <1>1, <3>2, QuietCommit DEF SaveContent
        <4>2. QED
          BY <1>1, <4>1 DEF Goto, TypeOK, JobSteps
      <3>3. CASE LoadFails(v) \/ DeleteChunks(v) \/ AddChunks(v) \/ StoreRaises(v)
                 \/ Cleanup(v) \/ CleanupFails(v)
        <4>1. Handler("load") = "fail" /\ Handler("delete") = "cleanup" /\ Handler("add") = "cleanup"
          BY DEF Handler
        <4>2. \E step \in {"fail", "add", "index", "cleanup"} : Goto(v, step)
          BY <3>3, <4>1 DEF LoadFails, DeleteChunks, AddChunks, StoreRaises, Cleanup, CleanupFails
        <4>3. QED
          BY <1>1, <4>2 DEF Goto, TypeOK, JobSteps
      <3>4. QED
        BY <1>4, <2>1, <3>1, <3>2, <3>3 DEF ProcessDocument
    <2>4. QED
      BY <1>1, <1>2, <2>2, <2>3 DEF Moves, Holds
  <1>5. ~ (Start(v) \/ RunOnce(v) \/ DbRaises(v) \/ Crash(v))
    BY <1>1 DEF Quiet, Start, RunOnce, ClearWake, WakeUp, PollTimeout, RequeueStale, LockOldest, CommitClaim,
                NothingToClaim, Sleep, DbRaises, Crash, JobSteps
  <1>6. CASE \/ \E w \in Workers, e \in Docs : Enqueue(w, e) \/ Notify(w, e)
             \/ \E e \in Docs : LeaseExpires(e)
             \/ UNCHANGED vars
    BY <1>3, <1>6 DEF Enqueue, Notify, LeaseExpires, vars
  <1>7. QED
    BY <1>1, <1>3, <1>4, <1>5, <1>6, OthersStay DEF Next

(* The lock of a claim goes only with the row it has taken.                *)
LEMMA LockStays ==
  ASSUME TypeOK, LocksHold, Quiet, [Next]_vars, NEW d \in Docs, Locked(d), status'[d] = "PENDING"
  PROVE  Locked(d)'
  <1>1. PICK v \in Workers : pc[v] = "commit" /\ job[v].doc = d
    BY DEF Locked
  <1>2. CASE pc'[v] = pc[v] /\ job'[v] = job[v]
    BY <1>1, <1>2 DEF Locked
  <1>3. ~ CommitClaim(v)
    BY <1>1 DEF CommitClaim, TypeOK
  <1>4. ~ (Start(v) \/ RunOnce(v) \/ ProcessDocument(v) \/ DbRaises(v) \/ Crash(v))
    BY <1>1, <1>3
       DEF Quiet, Start, RunOnce, ClearWake, WakeUp, PollTimeout, RequeueStale, LockOldest,
           NothingToClaim, Sleep, DbRaises, Crash, ProcessDocument, Get, Load, LoadFails, Summarize,
           SaveContent, DeleteChunks, AddChunks, StoreRaises, MarkIndexed, Cleanup, CleanupFails, MarkFailed
  <1>5. CASE \/ \E w \in Workers, e \in Docs : Enqueue(w, e) \/ Notify(w, e)
             \/ \E e \in Docs : LeaseExpires(e)
             \/ UNCHANGED vars
    BY <1>2, <1>5 DEF Enqueue, Notify, LeaseExpires, vars
  <1>6. QED
    BY <1>2, <1>4, <1>5, OthersStay DEF Next

(* A worker gets to sleep only by way of an empty queue.                   *)
LEMMA SleepStep ==
  ASSUME TypeOK, Quiet, [Next]_vars, NEW w \in Workers, pc'[w] \in {"empty", "sleep"}, ~ wake'[w]
  PROVE  \/ NothingToClaim(w)
         \/ pc[w] \in {"empty", "sleep"} /\ ~ wake[w]
  <1>1. CASE Sleep(w)
    BY <1>1 DEF Sleep
  <1>2. CASE LockOldest(w) \/ Get(w) \/ Load(w) \/ Summarize(w)
    <2>1. \E step \in {"commit", "load", "summarize", "save"} : pc' = [pc EXCEPT ![w] = step]
      <3>1. CASE LockOldest(w)
        BY <3>1 DEF LockOldest
      <3>2. CASE Get(w)
        BY <3>2 DEF Get
      <3>3. CASE Load(w)
        BY <3>3 DEF Load
      <3>4. CASE Summarize(w)
        BY <3>4 DEF Summarize
      <3>5. QED
        BY <1>2, <3>1, <3>2, <3>3, <3>4
    <2>2. QED
      BY <2>1 DEF TypeOK
  <1>3. CASE \/ Start(w) \/ ClearWake(w) \/ WakeUp(w) \/ PollTimeout(w) \/ RequeueStale(w) \/ CommitClaim(w)
             \/ SaveContent(w) \/ MarkIndexed(w) \/ MarkFailed(w) \/ LoadFails(w) \/ DeleteChunks(w)
             \/ AddChunks(w) \/ StoreRaises(w) \/ Cleanup(w) \/ CleanupFails(w)
    <2>1. Handler("load") = "fail" /\ Handler("delete") = "cleanup" /\ Handler("add") = "cleanup"
      BY DEF Handler
    <2>2. \E step : Goto(w, step) /\ step \notin {"empty", "sleep"}
      <3>1. CASE Start(w) \/ ClearWake(w) \/ WakeUp(w) \/ PollTimeout(w)
        BY <3>1 DEF Start, ClearWake, WakeUp, PollTimeout
      <3>2. CASE RequeueStale(w) \/ CommitClaim(w) \/ MarkIndexed(w) \/ MarkFailed(w)
        BY <3>2, QuietCommit DEF RequeueStale, CommitClaim, MarkIndexed, MarkFailed
      <3>3. CASE SaveContent(w)
        BY <3>3, QuietCommit DEF SaveContent
      <3>4. CASE LoadFails(w) \/ DeleteChunks(w) \/ AddChunks(w) \/ StoreRaises(w)
                 \/ Cleanup(w) \/ CleanupFails(w)
        BY <2>1, <3>4 DEF LoadFails, DeleteChunks, AddChunks, StoreRaises, Cleanup, CleanupFails
      <3>5. QED
        BY <1>3, <3>1, <3>2, <3>3, <3>4
    <2>3. QED
      BY <2>2 DEF Goto, TypeOK
  <1>4. ~ (DbRaises(w) \/ Crash(w))
    BY DEF Quiet, DbRaises, Crash
  <1>5. ASSUME NEW v \in Workers \ {w},
               Start(v) \/ RunOnce(v) \/ ProcessDocument(v) \/ DbRaises(v) \/ Crash(v)
        PROVE  pc[w] \in {"empty", "sleep"} /\ ~ wake[w]
    <2>1. pc'[w] = pc[w]
      BY <1>5, OthersStay
    <2>2. wake'[w] = wake[w]
      BY <1>5
         DEF TypeOK, Start, RunOnce, ClearWake, WakeUp, PollTimeout, RequeueStale, LockOldest, CommitClaim,
             NothingToClaim, Sleep, DbRaises, Crash, ProcessDocument, Get, Load, LoadFails, Summarize,
             SaveContent, DeleteChunks, AddChunks, StoreRaises, MarkIndexed, Cleanup, CleanupFails, MarkFailed
    <2>3. QED
      BY <2>1, <2>2
  <1>6. CASE \/ \E v \in Workers, e \in Docs : Enqueue(v, e) \/ Notify(v, e)
             \/ \E e \in Docs : LeaseExpires(e)
             \/ UNCHANGED vars
    BY <1>6 DEF Enqueue, Notify, LeaseExpires, vars, TypeOK
  <1>7. QED
    BY <1>1, <1>2, <1>3, <1>4, <1>5, <1>6 DEF Next, RunOnce, ProcessDocument

(* Where a status comes from when no row is ever stale.                    *)
LEMMA StatusStep ==
  ASSUME QInv, NoRetry, [Next]_vars, NEW d \in Docs
  PROVE  /\ status'[d] = "PENDING" => \/ status[d] = "PENDING"
                                      \/ status[d] = "ABSENT" /\ \E w \in Workers : Enqueue(w, d)
         /\ status'[d] = "ABSENT" => status[d] = "ABSENT"
         /\ status'[d] = "PROCESSING" => \/ status[d] = "PROCESSING"
                                         \/ \E w \in Workers : CommitClaim(w) /\ job[w].doc = d
  <1>1. TypeOK /\ LocksHold
    BY DEF QInv, Claims
  <1>2. CASE ~ RowWrite \/ (\E w \in Workers : SaveContent(w)) \/ (\E e \in Docs : LeaseExpires(e))
    BY <1>2, OnlyRowWritesWrite DEF SaveContent, LeaseExpires, rowVars
  <1>3. CASE \E w \in Workers, e \in Docs : Enqueue(w, e)
    BY <1>1, <1>3 DEF Enqueue, TypeOK
  <1>4. CASE \E w \in Workers : RequeueStale(w)
    BY <1>4 DEF RequeueStale, GivenUp, Retried, Stale, NoRetry
  <1>5. CASE \E w \in Workers : CommitClaim(w)
    BY <1>1, <1>5 DEF CommitClaim, TypeOK
  <1>6. CASE \E w \in Workers : MarkIndexed(w) \/ MarkFailed(w)
    BY <1>1, <1>6 DEF MarkIndexed, MarkFailed, TypeOK
  <1>7. QED
    BY <1>2, <1>3, <1>4, <1>5, <1>6 DEF RowWrite

(* Rows in work stay held, and their leases good.                          *)
LEMMA NextNoRetry ==
  ASSUME AInv, NoRetry, Quiet, [Next]_vars
  PROVE  NoRetry'
  <1>1. TypeOK /\ QInv /\ LocksHold
    BY DEF AInv, QInv, Claims
  <1>2. ASSUME NEW d \in Docs PROVE ~ lease_expired'[d]
    <2>1. ~ \E e \in Docs : LeaseExpires(e)
      BY DEF LeaseExpires, NoRetry, Quiet
    <2>2. CASE RowWrite
      BY <1>1, <2>1, <2>2
         DEF RowWrite, NoRetry, Enqueue, RequeueStale, CommitClaim, SaveContent, MarkIndexed, MarkFailed, TypeOK
    <2>3. CASE ~ RowWrite
      BY <2>3, OnlyRowWritesWrite DEF NoRetry, rowVars
    <2>4. QED
      BY <2>2, <2>3
  <1>3. ASSUME NEW d \in Docs, status'[d] = "PROCESSING" PROVE \E w \in Workers : Holds(w, d)'
    <2>1. CASE status[d] = "PROCESSING"
      BY <1>3, <2>1, HolderKeeps DEF NoRetry
    <2>2. CASE \E w \in Workers : CommitClaim(w) /\ job[w].doc = d
      <3>1. PICK w \in Workers : CommitClaim(w) /\ job[w].doc = d
        BY <2>2
      <3>2. Goto(w, "get")
        BY <3>1, QuietCommit DEF CommitClaim
      <3>3. pc'[w] = "get" /\ job'[w] = job[w]
        BY <1>1, <3>2 DEF Goto, TypeOK, IdleSteps
      <3>4. job[w].attempt = attempt_count'[d]
        BY <1>1, <3>1 DEF CommitClaim, LocksHold, TypeOK
      <3>5. QED
        BY <3>1, <3>3, <3>4 DEF Holds, JobSteps
    <2>3. QED
      BY <1>1, <1>3, <2>1, <2>2, StatusStep
  <1>4. QED
    BY <1>2, <1>3 DEF NoRetry

(* Notifications are about rows that were uploaded. *)
LEMMA NotifiedStep ==
  ASSUME TypeOK, [Next]_vars, NEW w \in Workers, NEW d \in Docs
  PROVE  /\ d \in notified'[w] => d \in notified[w] \/ (Notify(w, d) /\ wake'[w] = TRUE)
         /\ d \in unsent'[w] => d \in unsent[w] \/ (Enqueue(w, d) /\ status'[d] = "PENDING")
  <1>0. /\ unsent \in [Workers -> SUBSET Docs] /\ notified \in [Workers -> SUBSET Docs]
        /\ wake \in [Workers -> BOOLEAN] /\ status \in [Docs -> Statuses]
    BY DEF TypeOK
  <1>1. ASSUME NEW v \in Workers, NEW e \in Docs, Enqueue(v, e)
        PROVE  /\ notified'[w] = notified[w]
               /\ unsent'[w] = IF v = w THEN unsent[w] \cup {e} ELSE unsent[w]
               /\ status'[e] = "PENDING"
    BY <1>0, <1>1 DEF Enqueue
  <1>2. ASSUME NEW v \in Workers, NEW e \in Docs, Notify(v, e)
        PROVE  /\ notified'[w] = IF v = w THEN notified[w] \cup {e} ELSE notified[w]
               /\ unsent'[w] = IF v = w THEN unsent[w] \ {e} ELSE unsent[w]
               /\ v = w => wake'[w] = TRUE
    BY <1>0, <1>2 DEF Notify
  <1>3. ASSUME NEW v \in Workers, Crash(v)
        PROVE  /\ notified'[w] = IF v = w THEN {} ELSE notified[w]
               /\ unsent'[w] = IF v = w THEN {} ELSE unsent[w]
    BY <1>0, <1>3 DEF Crash
  <1>4. CASE UNCHANGED uploadVars
    BY <1>4 DEF uploadVars
  <1>5. ASSUME NEW v \in Workers, Start(v) \/ RunOnce(v) \/ ProcessDocument(v) \/ DbRaises(v)
        PROVE  UNCHANGED uploadVars
    BY <1>5
       DEF Start, RunOnce, ClearWake, WakeUp, PollTimeout, RequeueStale, LockOldest, CommitClaim,
           NothingToClaim, Sleep, DbRaises, ProcessDocument, Get, Load, LoadFails, Summarize,
           SaveContent, DeleteChunks, AddChunks, StoreRaises, MarkIndexed, Cleanup, CleanupFails, MarkFailed
  <1>6. CASE (\E e \in Docs : LeaseExpires(e)) \/ UNCHANGED vars
    BY <1>4, <1>6 DEF LeaseExpires, vars
  <1>7. QED
    BY <1>1, <1>2, <1>3, <1>4, <1>5, <1>6 DEF Next

(* What a worker was notified of keeps it awake until it is taken.         *)
LEMMA NextAwake ==
  ASSUME KInv, Quiet, [Next]_vars
  PROVE  RowsUploaded' /\ Awake'
  <1>1. TypeOK /\ QInv /\ LocksHold /\ NoRetry
    BY DEF KInv, AInv, QInv, Claims
  <1>2. TypeOK'
    BY <1>1, NextQInv DEF QInv
  <1>3. RowsUploaded'
    <2>1. ASSUME NEW w \in Workers, NEW d \in Docs, d \in unsent'[w] \cup notified'[w]
          PROVE  status'[d] # "ABSENT"
      <3>1. CASE Enqueue(w, d) /\ status'[d] = "PENDING"
        BY <3>1
      <3>2. CASE Notify(w, d)
        BY <1>1, <3>2, StatusStep DEF Notify, KInv, RowsUploaded
      <3>3. CASE d \in unsent[w] \cup notified[w]
        BY <1>1, <3>3, StatusStep DEF KInv, RowsUploaded
      <3>4. QED
        BY <1>1, <2>1, <3>1, <3>2, <3>3, NotifiedStep
    <2>2. QED
      BY <1>2, <2>1 DEF RowsUploaded, TypeOK
  <1>4. ASSUME NEW w \in Workers, pc'[w] \in {"empty", "sleep"}, ~ wake'[w],
               NEW d \in Docs, d \in notified'[w], status'[d] = "PENDING"
        PROVE  Locked(d)'
    <2>1. d \in notified[w]
      BY <1>1, <1>4, NotifiedStep
    <2>2. status[d] = "PENDING"
      BY <1>1, <1>4, <2>1, StatusStep DEF KInv, RowsUploaded
    <2>3. Locked(d)
      <3>1. CASE NothingToClaim(w)
        BY <2>2, <3>1 DEF NothingToClaim, Claimable, Locked
      <3>2. CASE pc[w] \in {"empty", "sleep"} /\ ~ wake[w]
        BY <2>1, <2>2, <3>2 DEF KInv, Awake
      <3>3. QED
        BY <1>1, <1>4, <3>1, <3>2, SleepStep
    <2>4. QED
      BY <1>1, <1>4, <2>3, LockStays
  <1>5. Awake'
    BY <1>2, <1>4 DEF Awake, TypeOK
  <1>6. QED
    BY <1>3, <1>5

(* No notify() is lost: a worker sleeps only when every row it was told of *)
(* has been taken, or is being taken, by somebody.                         *)
THEOREM NoWakeupIsLost ==
  ASSUME Quiet
  PROVE  Spec => []NoLostWakeup
  <1>1. Init => KInv
    BY InitAlone DEF Init, KInv, NoRetry, RowsUploaded, Awake
  <1>2. KInv /\ [Next]_vars => KInv'
    <2>1. "slow" \notin Faults
      BY DEF Quiet
    <2>2. QED
      BY <2>1, NextAlone, NextNoRetry, NextAwake DEF KInv
  <1>3. KInv => NoLostWakeup
    BY DEF KInv, Awake, Locked, NoLostWakeup
  <1>4. QED
    BY <1>1, <1>2, <1>3, PTL DEF Spec
=============================================================================
