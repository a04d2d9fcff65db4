------------------------------ MODULE Ingestion ------------------------------
(***************************************************************************)
(* The document ingestion queue of app/ingestion: the documents table used *)
(* as a queue (repository.py), the worker loop of every API process        *)
(* (worker.py), the pipeline a claimed document goes through               *)
(* (processor.py), and the chunks it leaves in the vector store.           *)
(*                                                                         *)
(* One step is what happens between two awaits: one database transaction,  *)
(* one call that runs on another thread, or one pass through the loop.     *)
(* Documents are numbered in the order of their created_dt, which is the   *)
(* start of the uploading transaction, so rows may be committed in any     *)
(* order.                                                                  *)
(***************************************************************************)
EXTENDS Integers

CONSTANTS
    NumDocs,      \* documents 1..NumDocs may be uploaded
    Workers,      \* API processes, each running one ingestion worker
    MaxAttempts,  \* settings.INGESTION_MAX_ATTEMPTS
    MaxChunks,    \* a file is split into 1..MaxChunks chunks
    Faults        \* what the environment may do wrong, see FaultKinds

(***************************************************************************)
(* crash     - a process dies, or is stopped, at any point                 *)
(* slow      - a lease runs out while the worker that holds it still runs  *)
(* db        - a database call raises and has had no effect                *)
(* ambiguous - a commit raises although the server has committed it        *)
(* cleanup   - the delete in the exception handler fails                   *)
(* That loading a file, or a first write to the vector store, fails is not *)
(* a fault but an outcome every run allows.                                *)
(***************************************************************************)
FaultKinds == {"crash", "slow", "db", "ambiguous", "cleanup"}

ASSUME NumDocsAssumption == NumDocs \in Nat
ASSUME MaxAttemptsAssumption == MaxAttempts \in Nat \ {0}
ASSUME MaxChunksAssumption == MaxChunks \in Nat \ {0}
ASSUME FaultsAssumption == Faults \subseteq FaultKinds

Docs == 1..NumDocs
Ids(n) == 0..(n - 1)

VARIABLES
    status,         \* "ABSENT" until the row is committed, then its status column
    attempt_count,  \* the column of that name: bumped by every claim, the fencing token
    lease_expired,  \* processing_started_at is older than the lease
    summary,        \* 0 for NULL, else the attempt whose LLM run produced it
    error_message,  \* which message the column holds
    chunk_count,    \* the column of that name, 0 for NULL
    chunks,         \* the chunk indexes of the document the vector store holds
    pc,             \* where each worker is
    job,            \* the local variables of its process_document call
    wake,           \* its asyncio.Event
    unsent,         \* rows committed by an upload of its process, notify() still to come
    notified        \* rows its process was notified of (history, see NoLostWakeup)

rowVars == <<status, attempt_count, lease_expired, summary, error_message, chunk_count>>
uploadVars == <<unsent, notified>>
vars == <<rowVars, chunks, pc, job, wake, uploadVars>>

Statuses == {"ABSENT", "PENDING", "PROCESSING", "INDEXED", "FAILED"}
Terminal == {"INDEXED", "FAILED"}
Errors == {"none", "summary", "lease", "failed"}

(* A worker is idle, or it is at a step of process_document with a job.    *)
IdleSteps == {"off", "top", "requeue", "claim", "empty", "sleep"}
JobSteps == {"get", "load", "summarize", "save", "delete", "add", "index", "cleanup", "fail"}
Steps == IdleSteps \cup {"commit"} \cup JobSteps

Attempts == 0..MaxAttempts
Jobs == [doc: Docs \cup {0}, attempt: Attempts, summary: Attempts,
         summary_error: BOOLEAN, n: 0..MaxChunks]
NoJob == [doc |-> 0, attempt |-> 0, summary |-> 0, summary_error |-> FALSE, n |-> 0]

TypeOK ==
    /\ status \in [Docs -> Statuses]
    /\ attempt_count \in [Docs -> Attempts]
    /\ lease_expired \in [Docs -> BOOLEAN]
    /\ summary \in [Docs -> Attempts]
    /\ error_message \in [Docs -> Errors]
    /\ chunk_count \in [Docs -> 0..MaxChunks]
    /\ chunks \in [Docs -> SUBSET Ids(MaxChunks)]
    /\ pc \in [Workers -> Steps]
    /\ job \in [Workers -> Jobs]
    /\ wake \in [Workers -> BOOLEAN]
    /\ unsent \in [Workers -> SUBSET Docs]
    /\ notified \in [Workers -> SUBSET Docs]

Init ==
    /\ status = [d \in Docs |-> "ABSENT"]
    /\ attempt_count = [d \in Docs |-> 0]
    /\ lease_expired = [d \in Docs |-> FALSE]
    /\ summary = [d \in Docs |-> 0]
    /\ error_message = [d \in Docs |-> "none"]
    /\ chunk_count = [d \in Docs |-> 0]
    /\ chunks = [d \in Docs |-> {}]
    /\ pc = [w \in Workers |-> "off"]
    /\ job = [w \in Workers |-> NoJob]
    /\ wake = [w \in Workers |-> FALSE]
    /\ unsent = [w \in Workers |-> {}]
    /\ notified = [w \in Workers |-> {}]

(***************************************************************************)
(* Control flow of a worker.                                               *)
(***************************************************************************)

(* Leaving process_document or an unfinished claim discards the job.       *)
Goto(w, step) ==
    /\ pc' = [pc EXCEPT ![w] = step]
    /\ job' = IF step \in IdleSteps THEN [job EXCEPT ![w] = NoJob] ELSE job

(* Bug: chroma_touched set after the writes instead of before them.        *)
LateTouchHandler(step) ==
    CASE step \in {"load", "summarize", "save", "delete", "add"} -> "fail"
      [] step = "index" -> "cleanup"
      [] OTHER -> "sleep"

(* Where an exception raised at a step is caught: by the loop, which goes  *)
(* to sleep, or by process_document, which cleans up once it has begun to  *)
(* write to the vector store (chroma_touched) and then marks the row.      *)
Handler(step) ==
    CASE step \in {"load", "summarize", "save"} -> "fail"
      [] step \in {"delete", "add", "index"}    -> "cleanup"
      [] OTHER                                  -> "sleep"

(* A commit returns and the worker goes on, or it raises after all.        *)
AfterCommit(w, step) ==
    \/ Goto(w, step)
    \/ "ambiguous" \in Faults /\ Goto(w, Handler(pc[w]))

(***************************************************************************)
(* Upload endpoint: the row is committed, then the worker is notified.     *)
(***************************************************************************)
Enqueue(w, d) ==
    /\ pc[w] # "off"
    /\ status[d] = "ABSENT"
    /\ status' = [status EXCEPT ![d] = "PENDING"]
    /\ unsent' = [unsent EXCEPT ![w] = @ \cup {d}]
    /\ UNCHANGED <<attempt_count, lease_expired, summary, error_message, chunk_count,
                   chunks, pc, job, wake, notified>>

Notify(w, d) ==
    /\ d \in unsent[w]
    /\ wake' = [wake EXCEPT ![w] = TRUE]
    /\ unsent' = [unsent EXCEPT ![w] = @ \ {d}]
    /\ notified' = [notified EXCEPT ![w] = @ \cup {d}]
    /\ UNCHANGED <<rowVars, chunks, pc, job>>

(***************************************************************************)
(* The worker loop.                                                        *)
(***************************************************************************)
Start(w) ==
    /\ pc[w] = "off"
    /\ Goto(w, "top")
    /\ UNCHANGED <<rowVars, chunks, wake, uploadVars>>

ClearWake(w) ==
    /\ pc[w] = "top"
    /\ Goto(w, "requeue")
    /\ wake' = [wake EXCEPT ![w] = FALSE]
    /\ UNCHANGED <<rowVars, chunks, uploadVars>>

(* asyncio.wait_for(wake.wait(), poll_interval): both ways of waking up.   *)
WakeUp(w) ==
    /\ pc[w] = "sleep"
    /\ wake[w]
    /\ Goto(w, "top")
    /\ UNCHANGED <<rowVars, chunks, wake, uploadVars>>

PollTimeout(w) ==
    /\ pc[w] = "sleep"
    /\ ~ wake[w]
    /\ Goto(w, "top")
    /\ UNCHANGED <<rowVars, chunks, wake, uploadVars>>

(***************************************************************************)
(* The queue: requeue_stale and claim_next.                                *)
(***************************************************************************)
(* Bug: lease expiry is not looked at for rows on their last attempt.      *)
GivenUpTooLate == {d \in Docs : /\ status[d] = "PROCESSING" /\ lease_expired[d]
                                /\ attempt_count[d] > MaxAttempts}

Stale == {d \in Docs : status[d] = "PROCESSING" /\ lease_expired[d]}
GivenUp == {d \in Stale : attempt_count[d] >= MaxAttempts}
Retried == {d \in Stale : attempt_count[d] < MaxAttempts}

RequeueStale(w) ==
    /\ pc[w] = "requeue"
    /\ status' = [d \in Docs |-> IF d \in GivenUp THEN "FAILED"
                                 ELSE IF d \in Retried THEN "PENDING" ELSE status[d]]
    /\ error_message' = [d \in Docs |-> IF d \in GivenUp THEN "lease" ELSE error_message[d]]
    /\ lease_expired' = [d \in Docs |-> lease_expired[d] /\ d \notin Retried]
    /\ AfterCommit(w, "claim")
    /\ UNCHANGED <<attempt_count, summary, chunk_count, chunks, wake, uploadVars>>

(* Bugs: a plain SELECT in the claim; a claim that retries FAILED rows too.*)
ClaimableUnlocked == {d \in Docs : status[d] = "PENDING"}
ClaimableAgain == {d \in Docs : /\ status[d] \in {"PENDING", "FAILED"}
                                /\ \A v \in Workers : ~ (pc[v] = "commit" /\ job[v].doc = d)}

(* FOR UPDATE SKIP LOCKED: rows another claim has locked are not seen.     *)
Claimable == {d \in Docs : /\ status[d] = "PENDING"
                           /\ \A v \in Workers : ~ (pc[v] = "commit" /\ job[v].doc = d)}

LockOldest(w) ==
    /\ pc[w] = "claim"
    /\ \E d \in Claimable :
         /\ \A e \in Claimable : d <= e
         /\ job' = [job EXCEPT ![w] = [NoJob EXCEPT !.doc = d, !.attempt = attempt_count[d] + 1]]
    /\ pc' = [pc EXCEPT ![w] = "commit"]
    /\ UNCHANGED <<rowVars, chunks, wake, uploadVars>>

CommitClaim(w) ==
    LET d == job[w].doc IN
    /\ pc[w] = "commit"
    /\ status' = [status EXCEPT ![d] = "PROCESSING"]
    /\ attempt_count' = [attempt_count EXCEPT ![d] = @ + 1]
    /\ lease_expired' = [lease_expired EXCEPT ![d] = FALSE]
    /\ error_message' = [error_message EXCEPT ![d] = "none"]
    /\ AfterCommit(w, "get")
    /\ UNCHANGED <<summary, chunk_count, chunks, wake, uploadVars>>

(* The queue was empty when the statement ran; the worker hears of it      *)
(* later, and rows may be committed and notified of in between.            *)
NothingToClaim(w) ==
    /\ pc[w] = "claim"
    /\ Claimable = {}
    /\ Goto(w, "empty")
    /\ UNCHANGED <<rowVars, chunks, wake, uploadVars>>

(* Bug: the event is cleared on the way to sleep, after the queue was read.*)
ClearBeforeSleep(w) ==
    /\ pc[w] = "empty"
    /\ Goto(w, "sleep")
    /\ wake' = [wake EXCEPT ![w] = FALSE]
    /\ UNCHANGED <<rowVars, chunks, uploadVars>>

Sleep(w) ==
    /\ pc[w] = "empty"
    /\ Goto(w, "sleep")
    /\ UNCHANGED <<rowVars, chunks, wake, uploadVars>>

(***************************************************************************)
(* process_document.                                                       *)
(***************************************************************************)

(* Bugs: the fence without the attempt, and without the status.            *)
FencedByStatus(d, attempt) == status[d] = "PROCESSING"
FencedByAttempt(d, attempt) == attempt_count[d] = attempt

(* The condition of every write to a claimed row.                          *)
Fenced(d, attempt) == status[d] = "PROCESSING" /\ attempt_count[d] = attempt

MayWrite(w) == Fenced(job[w].doc, job[w].attempt)

(* No code sets deleted_at, so the row read here is always found.          *)
Get(w) ==
    /\ pc[w] = "get"
    /\ job' = [job EXCEPT ![w].summary = summary[job[w].doc]]
    /\ pc' = [pc EXCEPT ![w] = "load"]
    /\ UNCHANGED <<rowVars, chunks, wake, uploadVars>>

(* Loading and splitting a file yields the same text every time, but the   *)
(* number of chunks may differ between attempts: a deploy may change the   *)
(* splitter.                                                               *)
Load(w) ==
    /\ pc[w] = "load"
    /\ \E n \in 1..MaxChunks : job' = [job EXCEPT ![w].n = n]
    /\ pc' = [pc EXCEPT ![w] = IF job[w].summary = 0 THEN "summarize" ELSE "save"]
    /\ UNCHANGED <<rowVars, chunks, wake, uploadVars>>

LoadFails(w) ==
    /\ pc[w] = "load"
    /\ Goto(w, Handler("load"))
    /\ UNCHANGED <<rowVars, chunks, wake, uploadVars>>

Summarize(w) ==
    /\ pc[w] = "summarize"
    /\ \/ job' = [job EXCEPT ![w].summary = job[w].attempt]
       \/ job' = [job EXCEPT ![w].summary_error = TRUE]
    /\ pc' = [pc EXCEPT ![w] = "save"]
    /\ UNCHANGED <<rowVars, chunks, wake, uploadVars>>

(* A lost lease (rowcount 0) ends the job: run_once returns True, so the   *)
(* loop continues without sleeping.                                        *)
SaveContent(w) ==
    LET d == job[w].doc IN
    /\ pc[w] = "save"
    /\ summary' = IF MayWrite(w) /\ job[w].summary # 0
                    THEN [summary EXCEPT ![d] = job[w].summary] ELSE summary
    /\ AfterCommit(w, IF MayWrite(w) THEN "delete" ELSE "top")
    /\ UNCHANGED <<status, attempt_count, lease_expired, error_message, chunk_count,
                   chunks, wake, uploadVars>>

(* Bug: the chunks of an earlier attempt are not deleted first.            *)
KeepOldChunks(w) ==
    /\ pc[w] = "delete"
    /\ Goto(w, "add")
    /\ UNCHANGED <<rowVars, chunks, wake, uploadVars>>

(* Writes to the vector store carry no fencing token.                      *)
DeleteChunks(w) ==
    /\ pc[w] = "delete"
    /\ chunks' = [chunks EXCEPT ![job[w].doc] = {}]
    /\ Goto(w, "add")
    /\ UNCHANGED <<rowVars, wake, uploadVars>>

AddChunks(w) ==
    /\ pc[w] = "add"
    /\ chunks' = [chunks EXCEPT ![job[w].doc] = @ \cup Ids(job[w].n)]
    /\ Goto(w, "index")
    /\ UNCHANGED <<rowVars, wake, uploadVars>>

(* What a write to the vector store that was cut short may have done.      *)
PartialDelete(d) == chunks' = chunks \/ chunks' = [chunks EXCEPT ![d] = {}]
PartialAdd(d, n) == \E some \in SUBSET Ids(n) : chunks' = [chunks EXCEPT ![d] = @ \cup some]

StoreRaises(w) ==
    LET d == job[w].doc IN
    /\ \/ pc[w] = "delete" /\ PartialDelete(d)
       \/ pc[w] = "add" /\ PartialAdd(d, job[w].n)
    /\ Goto(w, Handler(pc[w]))
    /\ UNCHANGED <<rowVars, wake, uploadVars>>

(* Bug: the summary error is not handed on to the row.                     *)
MarkIndexedSilently(w) ==
    LET d == job[w].doc IN
    /\ pc[w] = "index"
    /\ MayWrite(w)
    /\ status' = [status EXCEPT ![d] = "INDEXED"]
    /\ chunk_count' = [chunk_count EXCEPT ![d] = job[w].n]
    /\ lease_expired' = [lease_expired EXCEPT ![d] = FALSE]
    /\ AfterCommit(w, "top")
    /\ UNCHANGED <<attempt_count, summary, error_message, chunks, wake, uploadVars>>

MarkIndexed(w) ==
    LET d == job[w].doc IN
    /\ pc[w] = "index"
    /\ IF MayWrite(w)
         THEN /\ status' = [status EXCEPT ![d] = "INDEXED"]
              /\ chunk_count' = [chunk_count EXCEPT ![d] = job[w].n]
              /\ error_message' = [error_message EXCEPT ![d] =
                                     IF job[w].summary_error THEN "summary" ELSE "none"]
              /\ lease_expired' = [lease_expired EXCEPT ![d] = FALSE]
         ELSE UNCHANGED <<status, chunk_count, error_message, lease_expired>>
    /\ AfterCommit(w, "top")
    /\ UNCHANGED <<attempt_count, summary, chunks, wake, uploadVars>>

(* The exception handler of process_document.                              *)
Cleanup(w) ==
    /\ pc[w] = "cleanup"
    /\ chunks' = [chunks EXCEPT ![job[w].doc] = {}]
    /\ Goto(w, "fail")
    /\ UNCHANGED <<rowVars, wake, uploadVars>>

CleanupFails(w) ==
    /\ "cleanup" \in Faults
    /\ pc[w] = "cleanup"
    /\ PartialDelete(job[w].doc)
    /\ Goto(w, "fail")
    /\ UNCHANGED <<rowVars, wake, uploadVars>>

MarkFailed(w) ==
    LET d == job[w].doc IN
    /\ pc[w] = "fail"
    /\ IF MayWrite(w)
         THEN /\ status' = [status EXCEPT ![d] = "FAILED"]
              /\ error_message' = [error_message EXCEPT ![d] = "failed"]
              /\ lease_expired' = [lease_expired EXCEPT ![d] = FALSE]
         ELSE UNCHANGED <<status, error_message, lease_expired>>
    /\ AfterCommit(w, "top")
    /\ UNCHANGED <<attempt_count, summary, chunk_count, chunks, wake, uploadVars>>

(***************************************************************************)
(* Faults and the passing of time.                                         *)
(***************************************************************************)
DbRaises(w) ==
    /\ "db" \in Faults
    /\ pc[w] \in {"requeue", "claim", "commit", "get", "save", "index", "fail"}
    /\ Goto(w, Handler(pc[w]))
    /\ UNCHANGED <<rowVars, chunks, wake, uploadVars>>

(* A transaction that was not committed is rolled back; a write to the     *)
(* vector store may have got anywhere; notifications not yet sent are lost.*)
Crash(w) ==
    /\ "crash" \in Faults
    /\ pc[w] # "off"
    /\ CASE pc[w] \in {"delete", "cleanup"} -> PartialDelete(job[w].doc)
         [] pc[w] = "add"                   -> PartialAdd(job[w].doc, job[w].n)
         [] OTHER                           -> UNCHANGED chunks
    /\ Goto(w, "off")
    /\ wake' = [wake EXCEPT ![w] = FALSE]
    /\ unsent' = [unsent EXCEPT ![w] = {}]
    /\ notified' = [notified EXCEPT ![w] = {}]
    /\ UNCHANGED rowVars

(* A worker holds a row while it runs the attempt the row is at.           *)
Holds(w, d) == pc[w] \in JobSteps /\ job[w].doc = d /\ job[w].attempt = attempt_count[d]

LeaseExpires(d) ==
    /\ status[d] = "PROCESSING"
    /\ ~ lease_expired[d]
    /\ "slow" \in Faults \/ \A w \in Workers : ~ Holds(w, d)
    /\ lease_expired' = [lease_expired EXCEPT ![d] = TRUE]
    /\ UNCHANGED <<status, attempt_count, summary, error_message, chunk_count,
                   chunks, pc, job, wake, uploadVars>>

(* What the code of one worker may do next, faults aside.                  *)
RunOnce(w) ==
    \/ ClearWake(w) \/ WakeUp(w) \/ PollTimeout(w)
    \/ RequeueStale(w) \/ LockOldest(w) \/ CommitClaim(w)
    \/ NothingToClaim(w) \/ Sleep(w)

ProcessDocument(w) ==
    \/ Get(w) \/ Load(w) \/ LoadFails(w) \/ Summarize(w) \/ SaveContent(w)
    \/ DeleteChunks(w) \/ AddChunks(w) \/ StoreRaises(w) \/ MarkIndexed(w)
    \/ Cleanup(w) \/ CleanupFails(w) \/ MarkFailed(w)

Next ==
    \/ \E w \in Workers, d \in Docs : Enqueue(w, d) \/ Notify(w, d)
    \/ \E w \in Workers : Start(w) \/ RunOnce(w) \/ ProcessDocument(w) \/ DbRaises(w) \/ Crash(w)
    \/ \E d \in Docs : LeaseExpires(d)

Spec == Init /\ [][Next]_vars

(***************************************************************************)
(* Fairness: the event loop runs every ready task and every await returns, *)
(* a process that died is started again, and time passes, so the lease of  *)
(* a row nobody works on runs out.  Faults that strike for ever are not    *)
(* survivable (a database that is always down), so they end at some point. *)
(***************************************************************************)
RequeueRaises(w) == pc[w] = "requeue" /\ pc'[w] = "sleep"

FaultsEnd == <>[][\A w \in Workers : ~ (DbRaises(w) \/ RequeueRaises(w) \/ Crash(w))]_vars

Fairness ==
    /\ \A w \in Workers : WF_vars(Start(w)) /\ WF_vars(RunOnce(w)) /\ WF_vars(ProcessDocument(w))
    /\ \A d \in Docs : WF_vars(LeaseExpires(d))
    /\ FaultsEnd

FairSpec == Spec /\ Fairness

(***************************************************************************)
(* Properties that hold whatever goes wrong.                               *)
(***************************************************************************)

(* The attempt number is a fencing token only if no two jobs of a document *)
(* ever carry the same one and none carries one that was not handed out    *)
(* (claim_next), and the document is tried at most MaxAttempts times       *)
(* although only requeue_stale looks at the limit.                         *)
TokensFence ==
    /\ \A d \in Docs : status[d] = "PENDING" => attempt_count[d] < MaxAttempts
    /\ \A w \in Workers : pc[w] \in JobSteps => job[w].attempt <= attempt_count[job[w].doc]
    /\ \A v, w \in Workers :
         (v # w /\ pc[v] \in JobSteps /\ pc[w] \in JobSteps /\ job[v].doc = job[w].doc)
           => job[v].attempt # job[w].attempt

(* What an INDEXED row tells its reader is true: it has a summary exactly  *)
(* if no summary error is reported, and only a FAILED row shows another    *)
(* error; a row that is queued or in work shows none, not even the one of  *)
(* an attempt given up (claim_next, mark_indexed, requeue_stale).          *)
ErrorsExplain ==
    \A d \in Docs :
      /\ status[d] = "INDEXED" => error_message[d] = (IF summary[d] = 0 THEN "summary" ELSE "none")
      /\ status[d] = "FAILED" => error_message[d] \in {"failed", "lease"}
      /\ status[d] \in {"PENDING", "PROCESSING"} => error_message[d] = "none"

(* A finished row is never written again, however late an older attempt,   *)
(* its error handler or a lease check comes (the fence of repository.py).  *)
FinishedIsFinal ==
    [][\A d \in Docs : status[d] \in Terminal =>
         /\ status'[d] = status[d]
         /\ attempt_count'[d] = attempt_count[d]
         /\ error_message'[d] = error_message[d]
         /\ summary'[d] = summary[d]
         /\ chunk_count'[d] = chunk_count[d]]_vars

(* A stored summary is never replaced by the one of another attempt: it is *)
(* read once at the start of the job and written much later.               *)
SummaryIsKept ==
    [][\A d \in Docs : summary[d] # 0 => summary'[d] = summary[d]]_vars

(* A row is finished only by the worker that runs its latest attempt, or   *)
(* given up by a lease check: never by an attempt it has been taken from.  *)
OnlyHolderFinishes ==
    [][\A d \in Docs : (status[d] = "PROCESSING" /\ status'[d] \in Terminal) =>
         \/ \E w \in Workers : Holds(w, d) /\ pc[w] \in {"index", "fail"} /\ pc'[w] # pc[w]
         \/ error_message'[d] = "lease" /\ attempt_count[d] = MaxAttempts]_vars

(***************************************************************************)
(* What rows and vector store say about each other.  These hold only in    *)
(* the absence of certain faults; README.md says which and why.            *)
(***************************************************************************)

(* An INDEXED document can be found, all of it and nothing left over from  *)
(* an earlier attempt with more chunks.                                    *)
IndexedIsSearchable ==
    \A d \in Docs : status[d] = "INDEXED" => chunks[d] = Ids(chunk_count[d])

(* The same, once no job of the document is left: what a second attempt    *)
(* that overlaps the first one must leave behind (processor.py: "their run *)
(* rewrites the same chunk ids").                                          *)
IndexedAtRest ==
    \A d \in Docs :
      (status[d] = "INDEXED" /\ \A w \in Workers : pc[w] \in JobSteps => job[w].doc # d)
        => chunks[d] = Ids(chunk_count[d])

(* "A FAILED document must not stay searchable" (processor.py).            *)
FailedNotSearchable ==
    \A d \in Docs : status[d] = "FAILED" => chunks[d] = {}

(* Chunks of a document that is not INDEXED exist only while the job that  *)
(* wrote them is between its write and its last commit.                    *)
SearchableWindow ==
    \A d \in Docs :
      \/ status[d] = "INDEXED"
      \/ chunks[d] = {}
      \/ \E w \in Workers : Holds(w, d) /\ pc[w] \in {"index", "cleanup"}

(***************************************************************************)
(* Progress.                                                               *)
(***************************************************************************)

(* A worker goes to sleep, without a wake-up pending, only if every row it *)
(* was notified of has been taken or is being taken: a notify() that lands *)
(* while run_once is busy is not lost (run_forever).                       *)
NoLostWakeup ==
    \A w \in Workers : (pc[w] = "sleep" /\ ~ wake[w]) =>
      \A d \in notified[w] :
        status[d] = "PENDING" => \E v \in Workers : pc[v] = "commit" /\ job[v].doc = d

(* Every uploaded document ends up INDEXED or FAILED.                      *)
EventuallyFinished ==
    \A d \in Docs : status[d] = "PENDING" ~> status[d] \in Terminal

(* The queue does what DocumentLifecycle promises its readers.             *)
Lifecycle == INSTANCE DocumentLifecycle WITH attempt <- attempt_count

(* Every step of the queue is a step of the life of a document, or of      *)
(* several that a lease check handles together, or leaves rows alone.      *)
ImplementsLifecycle == Lifecycle!Spec
=============================================================================
