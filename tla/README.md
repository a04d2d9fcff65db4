# Verification of LoginFastapi

LoginFastapi is a multi-tenant question answering service: users upload files
into knowledge bases, a background worker turns each file into chunks in a
vector store, and a chat endpoint answers questions with a LangGraph agent that
retrieves those chunks. This directory holds TLA+ models of the parts of it
whose correctness depends on order, failure and concurrency, the TLC
configurations that check them, and TLAPS proofs.

## 1. Inventory

Paths are relative to `src/`.

| Component | State it keeps | Operations | Hard behaviour | What makes it correct |
|---|---|---|---|---|
| Ingestion queue `app/ingestion/repository.py` | rows of `documents` (status, attempt_count, lease, summary, error) | claim_next, requeue_stale, get, save_content, mark_indexed, mark_failed | several processes, leases that run out under a live worker, commits that raise | the attempt number fences every write; finished rows stay finished; every upload is finished |
| Ingestion worker `app/ingestion/worker.py` | an `asyncio.Event`, a task | notify, run_once, run_forever, start, stop | notify racing the loop, crash, database down | no lost wake-up; progress |
| Document processor `app/ingestion/processor.py` | local variables of one job; chunks in the vector store | process_document | a failure or crash between any two steps, partial writes | what a row says about its chunks and summary is true |
| Summarizer `app/ingestion/summarizer.py` | none | map-reduce over LLM calls | one call of many failing | terminates, every section used |
| Vector store indexer `app/vectorstore/` | chunks, listeners | add, delete, get all, notify | partial writes, notification order | caches hear of every write after it |
| BM25 cache `app/rag/retriever/bm25_index.py` | indexes, order of use, generations | get, invalidate | builds outside the lock racing writes, foreign writes, eviction | answers contain every notified write and lack others for at most the time to live |
| Upload and storage `app/api/v1/endpoints/knowledgeBases.py`, `app/core/storage/` | a file, a row | store file, commit row, notify, roll back | crash between the two, ambiguous commit | a row has its file, a file without a row is removed |
| Lookup agent `app/agent/` | checkpointed thread (messages, counters, grade) | retrieve, grade, rewrite, search, generate, tools, finalize | tool loop and its budget, failing nodes, state that survives a turn | ends, stays in budget, leaves a history the provider accepts |
| Routed graph `app/agent/graphs/routed_rag.py`, resolver | checkpointed thread, trace | resolve, route, branch, respond | degradation paths | always reaches one branch; the answer is in the history |
| Router `app/routing/router/` | shared caches of vectors | cascade, fallback chain, layers | any layer failing or unsure | an accepted decision, whatever fails |
| Speculative executor `routing/router/speculative.py` (experimental, not wired into the graph) | two tasks | run | either task finishing, failing or cancelled first | result is of the decided route, no task survives |
| Semantic cache `routing/cache/semantic_cache.py` (experimental, not wired into the graph) | list of entries | get, put, purge | awaits inside get and put | tenants and versions never mix, bound, expiry |
| Multi-hop and global branches `routing/branches/` | local lists, a shared semaphore | decompose, retrieve, map, reduce | timeout cancelling midway, failing batches | guardrails hold, finished work is kept, losses are reported |
| Chat endpoint `app/api/v1/endpoints/chats.py` | stored messages | stream, store the turn | concurrent turns, disconnects, failing graph | messages numbered in order, no empty answers |
| Accounts and tenants `app/api/v1/endpoints/users.py`, `app/services/` | users, tenants | register, log in, ownership checks | concurrent registration | one account per name; nobody reads another tenant |
| Scripts `scripts/`, `migrations/` | collections, rows | migrate, back-fill | interruption and rerun | rerun completes, nothing is lost |

The components meet in four places. The *upload endpoint* commits a row and sets
the worker's event. The *processor* writes chunks through `StoreIndexer`, which
tells the *BM25 cache* (same process only) after each write. The *agent*
retrieves from the vector store and the BM25 cache; nothing it reads there
depends on the row's status. *Global summaries* read the summary column of
INDEXED rows.

## 2. Modules

| Module | Part | Proofs | Run |
|---|---|---|---|
| `Ingestion`, implementing `DocumentLifecycle` | queue, worker, processor and the chunks they leave | `IngestionProofs` | `ingestion_*` (6), `MCIngestion`, `MCIngestionRegimes` |
| `KbIndexCache` | BM25 cache, indexer and its notifications | `KbIndexCacheProofs` | `vector_store`, `MCVectorStore` |
| `AgentThread` | lookup agent, routed graph and checkpointer over the turns of a thread | `AgentThreadProofs` | `agent_thread`, `agent_thread_dangling`, `MCAgentThread` |
| `Routing` | resolver, cascade, fallback chain, embedding router with its shared caches | `RoutingProofs` | `request_path`, `MCRequestPath` |
| `MultiHop` | multi-hop branch | `RoutingProofs` | `request_path` |
| `GlobalSummary` | global branch and its semaphore | `RequestProofs` | `request_path` |
| `Speculation` | speculative executor | `RequestProofs` | `request_path` |
| `Summarizer` | map-reduce of the ingestion | `RequestProofs` | `request_path` |
| `Conversation` | chat endpoint and the stored messages | `RequestProofs` | `request_path` |
| `Uploads` | upload endpoint, file storage and row | `StoresProofs` | `stores`, `MCStores` |
| `Migration` | both Chroma migration scripts next to the app | `StoresProofs` | `vector_store`, `MCVectorStore`; `migration_skips` |
| `Handles` | collection manager | `CachesProofs` | `stores` |
| `Backfill` | backfill of summaries next to the worker | `StoresProofs` | `stores` |
| `Accounts` | registration, change of username and e-mail, suspension | `StoresProofs` | `stores` |
| `SemanticCache` | semantic cache | `CachesProofs` | `stores` |
| `Metadata` | metadata branch next to uploads | `CachesProofs` | `stores` |
| `Selection` | what a comprehension or a WHERE clause keeps of a list, for the four modules that need it | `SequenceLemmas` | `request_path`, `stores` |

`Ingestion` and `KbIndexCache` are each checked against an environment that does
whatever the other part may do to them: writes and notifications arrive at any
time. The same holds between `Routing` and `AgentThread` (whose `Route` is any
route), `Summarizer` and `Ingestion` (whose `Summarize` returns a summary or an
error), and `Uploads` and `Ingestion` (whose rows appear in any order). The parts
of `MCRequestPath`, of `MCStores` and of `MCVectorStore` share no state in the
modules, so one run
checks them side by side: the variable `part` picks the part that moves, all
others stay in an initial state, and the states of the run are the sum of those
of its parts instead of their product. `MCIngestionRegimes` does the same with two
regimes of one module, `quiet` and not.

A module states its properties as named parts (`RowHasFile`, `NoOrphanFile`, ...)
and, where one run checks several of them, as their conjunction together with the
type invariant of the module (`StoresAgree`).

## 3. Ingestion

### Model

| TLA+ | Code |
|---|---|
| `status`, `attempt_count`, `summary`, `error_message`, `chunk_count` | columns of `documents`; a status of ABSENT means no row is committed |
| `lease_expired` | `processing_started_at` lies further back than the lease |
| `chunks` | indexes i of the chunk ids `{document_id}:{i}` in the vector store |
| `pc`, `job` | where the loop of a process is, and the locals of its `process_document` |
| `wake` | the `asyncio.Event` |
| `unsent`, `notified` | uploads between commit and `notify()`; history for `NoLostWakeup` |
| `Enqueue`, `Notify` | `uploadDocument` |
| `Start`, `ClearWake`, `WakeUp`, `PollTimeout`, `Sleep` | `run_forever`, `run_once` |
| `RequeueStale` | both updates and the commit of `requeue_stale` |
| `LockOldest`, `CommitClaim`, `NothingToClaim` | the claim: rows are locked by the statement and written by the commit, other claims skip them in between |
| `Get` ... `MarkFailed` | the steps of `process_document`, one per await |
| `StoreRaises`, `LoadFails`, `CleanupFails`, `DbRaises`, `AfterCommit` | its exception paths, and the loop's |
| `Crash` | a process that dies or is stopped, at any await |
| `LeaseExpires` | time |

A step is what happens between two awaits. Documents are numbered by
`created_dt`, which PostgreSQL fixes when the uploading transaction starts, so
the model lets rows appear in any order. A summary is the number of the attempt
whose LLM run produced it. `deleted_at` is never set by any code of the
repository, so the row a job reads is always there.

`Faults` selects what may go wrong: `crash`; `slow` (a lease runs out while its
worker lives, which INGESTION_LEASE_SECONDS makes rare and nothing excludes);
`db` (a database call raises without effect); `ambiguous` (a commit raises after
the server committed); `cleanup` (the delete in the exception handler fails). A
file that cannot be loaded, a failed summary and a first vector store write that
fails, possibly midway, are ordinary outcomes in every run.

### Runs

| Run | Instance | Shows |
|---|---|---|
| `ingestion_fencing` | 1 document, 3 workers, 3 attempts, all faults | `TokensFence`, `ErrorsExplain`, `FinishedIsFinal`, `SummaryIsKept`, `OnlyHolderFinishes`, refinement of `DocumentLifecycle` (`ImplementsLifecycle`) |
| `ingestion_searchable` | 1 document, 3 workers, 3 attempts, up to 2 chunks; crash, db, cleanup | `IndexedIsSearchable` |
| `ingestion_window` | 2 workers, 3 attempts, up to 3 chunks; either 1 document with db and ambiguous, or 2 documents and no fault (`quiet`) | `SearchableWindow`; `QuietWakeups`, which is `NoLostWakeup` in the second regime |
| `ingestion_takeover` | 1 document, 2 workers, all faults, fair | `EventuallyFinished` |
| `ingestion_failed_searchable` | 1 worker, 1 attempt, crash | violates `FailedNotSearchable` |
| `ingestion_overlap` | 2 workers, 2 attempts, slow | violates `IndexedAtRest` |

Fencing is a matter of one row, so one document is enough; three workers let a
first attempt be late, a second one be given up and a third one finish. Three
attempts reach the limit with one attempt to spare. Claim order and
sleeping need several documents, and get them where faults are off.

What the rows say about the vector store depends on faults, and the runs draw the
line. `IndexedIsSearchable` survives crashes, database errors and failing
cleanups. It does not survive `slow` (finding 2). Nor does it survive an
ambiguous commit of `mark_indexed`: the handler deletes the chunks, `mark_failed`
is fenced off because the row is INDEXED, and the row keeps a chunk count with no
chunks. No text of the repository denies the latter, so it is recorded here and
not as a finding. `SearchableWindow` holds with both kinds of database error,
and not with crashes: a dead worker's chunks stay searchable until the row is
claimed again, or for ever (finding 1).

### Fairness

`FairSpec` assumes that a process that died is started again (`Start`), that an
enabled step of the loop or of a job is taken eventually (the event loop runs
ready tasks; loading, LLM and vector store calls return or raise), that the lease
of an abandoned row runs out (time), and that database errors and crashes do not
go on for ever (`FaultsEnd`). Without the last one a database that is always down
keeps a row PENDING, as it should. Notifications are under no fairness: a
document is finished by polling alone.

### Findings

1. `FailedNotSearchable`. `processor.py:137` says "A FAILED document must not stay
   searchable". A worker that dies between `add_documents` and `mark_indexed` on
   its last attempt leaves a row that `requeue_stale` marks FAILED without
   touching the vector store; its chunks stay searchable.
2. `IndexedAtRest`. `processor.py:128` relies on the next attempt rewriting the
   same chunk ids, and the design note
   (`plans/in-progress/background-ingestion-20261014.md:322`) says an overlap
   costs only a second run. Deletes are not fenced: a late attempt that fails
   removes the chunks of the attempt that replaced it, whose row is INDEXED.

### Proofs (`IngestionProofs`)

For every number of documents, workers, attempts and chunks and every set of
faults: `TypeCorrect`, `TokensFenceHolds`, `ErrorsAlwaysExplain`,
`FinishedStaysFinal`, `SummaryStaysKept`, `OnlyTheHolderFinishes` and
`QueueImplementsLifecycle`. For every size and the faults the runs draw the line
at: `IndexedAreSearchable` (neither `slow` nor `ambiguous`),
`SearchableOnlyInWindow` and `FailedLeaveNothing` (neither `slow` nor `crash` nor
`cleanup`) and `NoWakeupIsLost` (at most `cleanup`). `FailedLeaveNothing` is the
statement that finding 1 refutes, under the faults that do not refute it.

The first inductive invariant, `QInv`, is `TypeOK` with four facts about claims:
a claim that has locked a row but not committed owns the row's next attempt
number and the row is PENDING (`LocksHold`); every job carries an attempt number
that was handed out for its document (`JobsClaimed`); a row not yet committed was
never tried (`AbsentUntried`); and `TokensFence`. `TokensFence` alone is not
inductive: without `LocksHold` two claims could commit the same attempt.
`SInv` adds what a job knows about the summary column: the holder of a row without
a stored summary read none, and a stored summary is what the holder would store
(`SummaryKnown`), `ErrorsExplain` itself, and that a row not yet committed has no error
(`AbsentClean`). Fenced writes are then writes of the holder, which gives
finality, kept summaries and the error messages. The refinement uses the same
invariant: `CommitClaim` is `Begin` because the attempt it commits is at most
`MaxAttempts`.

What rows and chunks say of each other needs one more fact, `Alone`: without `slow`
a running job carries the number of its row, the row is PROCESSING and its lease
good, so a document has one job at most. Only an ambiguous commit leaves a job
behind an INDEXED row, and then it is handling the exception. `Alone` is kept
because a lease runs out only when nobody holds the row, and the number of the row
changes only when it is claimed. `CInv` adds what the job knows of the chunks:
none before it writes, all of its own after it. `KInv` adds, for the wake-ups, that every row in work is
held, so none comes back to PENDING (`NoRetry`), and that a worker that found the
queue empty has either been woken since or every row it was told of is locked by another
claim (`Awake`).

Only checked by TLC: `EventuallyFinished`, since liveness is outside the prover's
reach.

## 4. Index cache

### Model

The content of a knowledge base is the number of writes it has seen. Readers run
`BM25IndexProvider.get`: the lookup under the lock (`Hit`, `Miss`), the clock
reading (`Stamp`), the load (`Load`, `LoadRaises`) and the insertion under the
lock (`Insert`); writers run a `StoreIndexer` write (`Write`, several parts if
chunks go in in batches) and then `notify_kb_changed` (`Notify`). `ForeignWrite`
is a write by another process. `asked_at`, `owed`, `told` and `changed_at` are
history. A finished call stays in `done` until `Return`, so invariants can speak
about its answer. Bounds: `MaxWrites` and `MaxTime` cap the writes per knowledge
base and the clock.

### Runs

| Run | Instance | Shows |
|---|---|---|
| `vector_store` (part `index_cache`) | 2 knowledge bases, cache of 1, 2 readers, 2 writers, 1 write each, time to live 1, clock to 2 | `WritesAreSeen` (`CacheSeesWrites`, `AnswerSeesWrites`), `AnswerWithinTtl`, `CacheBounded` |

Knowledge bases are interchangeable, so the first one to be written is fixed (`AnyKbFirst`).
Two knowledge bases compete for the one place in the cache, two readers build the
same or different keys at once, and two writers make a notification late for
another writer's write. The clock passes the time to live. One write per
knowledge base is little; the theorems below cover any number.

### Proofs (`KbIndexCacheProofs`)

For every number of threads, knowledge bases, writes and ticks, every cache size
and time to live: `CacheAlwaysSeesWrites` and `AnswersAlwaysSeeWrites` (together
`WritesAreAlwaysSeen`) and `AnswersAlwaysWithinTtl`. The invariant behind the first two is that a build
whose generation is still current has loaded every write notified so far
(`BuildsKnow`), and that a notified write is in the store (`ToldApplied`): an
invalidation either finds the index in the cache and drops it or makes the
generation of every build in progress old. The third needs the age of builds and
entries (`AgeInv`): what an index lacks was written after its `built_at`, because
the clock is read before the load.

`CacheAlwaysBounded` and `CacheTypesHold` rest on the order of use (`LruInv`): it is a
sequence that holds each cached key once, so `popitem` takes a key that is cached, and taking
and appending keys are the operations of the ordered dict in `SequenceLemmas`.

## 5. Agent thread

### Model

A thread is what the checkpointer keeps under `user::knowledge base`
(`runtime_config.py`): messages, `loop_count` and the two budget counters. A turn
runs a graph on its own copy of it, one step per node together with the
conditional edge behind the node.

| TLA+ | Code |
|---|---|
| `thread` | the state in the latest checkpoint of the thread |
| `run[c]` | the graph run of a client: its node, its copy of the state, which graph it runs |
| `Ask` | `build_initial_state`, and the `add_messages` reducer behind the checkpoint |
| `Resolve`, `Route`, `Branch`, `Respond` | the routed graph; the five branches other than lookup are one step that writes an answer |
| `Retrieve`, `Grade`, `Rewrite`, `WebSearch`, `Generate`, `Tools`, `Finalize` | the nodes of the lookup graph, with `decider_from_grade` and `decider_from_tools` (`AfterGenerate`) |
| `Leave`, `Checkpointed` | LangGraph applies a node's update and checkpoints it; the lookup graph inside the routed one is compiled with `checkpointer=None`, and its state reaches the thread when it ends |
| `Finish`, `Abort` | the end of `event_stream`, and any exception, disconnect or death of the process in between |

A message is its kind and the number of tool calls it asks for; ids, names and
texts are left out, as are documents and queries. A model answer asks for any
number of calls up to `MaxRequests` and uses any number of tokens up to
`MaxUsage`; grading and routing are choices. LangGraph is modelled from how the
code uses it, and two of its freedoms need a word. It may write a checkpoint
while the next node already runs: a process that dies before the write leaves
the thread as if it had died one node earlier, which `Abort` covers. And the
input of a turn carries defaults for `loop_count` and the counters; whether they
replace the checkpointed values is left open (`kept` in `Ask`), so what is shown
holds either way.

`executed` and `steps` are history, for the budget and the length of a turn.
`MaxTurns` bounds the number of turns; after the last one nothing happens, so
deadlock is not checked.

### Runs

| Run | Instance | Shows |
|---|---|---|
| `agent_thread` | 2 clients, 3 turns, both strategies, 1 tool call, up to 2 requested at once, 1 token | `TypeOK`, `ToolBudget`, `TokenBudget`, `TurnBounded`, `ThreadRemembersTurns`, `RoutedHistoryIsAccepted`, `AnswerRecorded` |
| `agent_thread_dangling` | 1 client, 2 turns, lookup graph alone | violates `HistoryAccepted` |

A behaviour of `agent_thread` is of one of two kinds, picked at the start in
`MCAgentThread`. Either turns follow each other, each under any strategy: a turn
is within budget, exceeds either limit, or exceeds it by a round of several calls,
and finds counters of an earlier one or of a branch that counted more than the
whole budget (`BranchUsage`). Or turns overlap, under the routed graph and asking
for one tool call at a time (a bound of the run): two interleave on one thread
and a third starts from what they left. `TurnBounded` counts nodes, so it is a
safety property and no fairness is needed: a turn whose nodes return ends.

`ThreadRemembersTurns` is stated of turns that follow each other. With two at once
the later checkpoint replaces the earlier one and its messages are gone from the
thread, though not from the stored chat messages; nothing in the code prevents it
and no text promises otherwise.

### Finding

3. `HistoryAccepted` under the lookup graph alone. `conditional.py:22` and
   `finalizer.py:17` explain that tool calls without replies must never be
   checkpointed, because the provider rejects the history from then on. With
   GRAPH_STRATEGY SEARCH the message that asks for them is checkpointed when
   `generate` ends; if `tools` or `finalize` then fails or the turn is cut off,
   the thread keeps it and the next turn sends it. With ROUTED the property holds.

### Proofs (`AgentThreadProofs`)

For every number of clients and turns, all limits and all sizes of answers:
`ThreadTypeCorrect`, `ToolBudgetHolds`, `TokenBudgetHolds`, `TurnsAreBounded`, and
`RoutedHistoryAccepted` for `Strategies \subseteq {"ROUTED"}`.

The budget theorems share the invariant `BInv`: types, and for every node what
the counters of a run at that node may be. `CallsCounted` relates calls executed
to calls counted: `tool_calls_count` is ahead of `executed` by the calls pending,
so an edge to `tools` that finds the count within the limit bounds what `tools`
will execute. `TokensCounted` leaves room for one call at `finalize` and two
behind it. `StepsCounted` bounds the nodes passed by the rewrites and the calls
executed so far: every return to `generate` has executed a call.

`HInv` adds that the checkpointed history is answered, and that a run's history is
answered except at `tools` and `finalize`, where its last message asks for what
the node is about to answer (`Open`). It is inductive only in the routed graph,
where no checkpoint falls on those two nodes.

`OverlappingHistoryAccepted` states it of the behaviours of the run in which turns
overlap.

`AnswersAreRecorded` says of every node what the last message of the run is once it can
end (`Recorded`). `ThreadsRememberTurns` is an action property: while turns follow
each other, the running one has a history that the thread's is a prefix of
(`MInv`), and every node extends it, so what a checkpoint replaces is a prefix of what
it writes.

## 6. The path of a request (`MCRequestPath`)

A step of these modules is what runs between two awaits: one event loop serves
all requests, and only an await lets another one in. Every model or database call
may raise, and a request may be cancelled at any of its awaits.

### Routing

| TLA+ | Code |
|---|---|
| `examples`, `query_vectors` | the embedding router's vectors of its examples and of the last queries, shared by all requests |
| `request[r].phase`, `.stage` | the layer a request is at, and the await within it |
| `trace` | degradations recorded by the router node; `failed` and `llm` are history |
| `RuleLayer`, `EmbedQuery` ... `EmbeddingLayer`, `LlmAnswers`, `LlmRaises`, `Score` | the layers of `cascade.py`, each call of a model with its failure |
| `FallbackEmbedding`, `FallbackRule`, the phases named `fallback_` | the fallback chain, which asks the LLM first and then goes down the cascade |

Patterns and similarity are classes of queries (`MetaQueries`, `MetadataQueries`,
`ClearQueries`); the LLM chooses any of `LlmRoutes`. `RoutesAreRight` says that a
turn records exactly the layers that failed in it, that a route the model chose
is taken whatever the similarity says, that a rule decides before any model is
asked, and that the query cache keeps its bound and its keys apart.
`RequestsAreRouted`, under weak fairness of every request's next step (calls
return or raise within LLM_TIMEOUT_SECONDS, and no router waits for another
request), says that every request that is not cancelled gets a branch. Two
requests, one of each class of query and a cache of one are enough for
each to evict, overtake or embed for the other.

### Multi-hop and global branch

`MultiHop` runs the rounds of one question; its timeout may strike between any two
appends. `HopsAreRight`: no sub-query twice, the cost exceeds its cap by at most
one round, and the one guardrail in the trace is the one that ended the run.
`HopsAreKept`: the timeout loses no finished hop. Three rounds of up to two
sub-queries, of four, reach the cap, the limit and convergence, and the cap and
the limit in one round.

`GlobalSummary` lets two requests compete for `GuardSize` permits; a text is the
set of documents it speaks for, so a document that is lost in a round is seen in
the answer. `SummariesAreTrue`: no permit is lost or made up, the partial and the
truncated notice are there exactly when something is missing, and the answer call
gets between one text and a batch. `SummariesAreAnswered` needs weak fairness of
the calls and strong fairness of `Acquire`: permits are taken and given back
again and again, and the waiters of an `asyncio.Semaphore` are served in
order. One document, eight with seven read, batches of two: rounds of four, two
and one text, and every combination of failures in them.

### Speculative executor

The source marks it experimental; the routed graph does not use it yet.

The router and the speculation are tasks that return, raise or end cancelled;
`CancelRun` cancels whatever `run()` awaits, up to `MaxCancels` times. `RunIsClean`:
no task outlives `run()`, the result is of the route the router decided, and a
cancelled `run()` returns no result. The last one excepts the two waits of
`_cancel`: there `except asyncio.CancelledError: pass` cannot tell the cancellation
of the task from one of its own, and a cancellation that comes at that moment is
lost. The docstring promises only that no task is left behind.

### Summarizer

Sections are mapped, collapsed and reduced under a semaphore of the document; a
failed call fails the summary while its siblings run on. The model may
write more than it was asked for, so a round need not shrink the text.
`SummaryIsRight`: every section is in the reduce call, and no more calls run than
allowed, those of a failed summary included. `DocumentsAreSummarized`: it ends all
the same, under weak fairness (calls return or raise). Up to five sections give
three batches, one of them short, and a second round.

### Conversation

Turns stream, read the highest number, and store. `MessagesAreRight`: a turn is
numbered after everything stored when it read, the answer stands right after its
question, and its content is what `respond` holds unless the turn was cut short.
Two turns that both read before either commits get equal numbers; nothing
prevents it, the property says what holds all the same. A client that
disconnects leaves neither question nor answer. With three turns, one can
be known to another and unknown to a third. The one commit that stores both messages
takes effect or raises; one that raises after it took effect is left out: the stream breaks
off in both cases, and no property depends on which it was.

## 7. Stores, caches and scripts (`MCStores`, and `Migration` in `MCVectorStore`)

| Part | Actions | What holds |
|---|---|---|
| `Uploads` | one per step of `uploadDocument` and its finally clause; `UploadFaults`: crash, failing write, delete, commit, refresh, ambiguous commit | `StoresAgree`: a row has its file unless an applied commit raised; a file without a row was left by a crash or the storage itself; the answer is true |
| `Migration` | both scripts page by page, `VerifyMoved`, `Dies`, `AppWrites`, `AppDeletes` | `NoForeignRecord`; `ScriptsComplete`: success of a script leaves nothing to do for it but what the app's deletes took from it; `EveryRecordMoved` is violated (finding 4) |
| `Handles` | `CacheHit`, `CacheMiss`, `StoreHandle`, `BuildFails`, `Evict` | `HandlesAreKept`: bounded, and a handle in use is not evicted by others' lookups below the bound |
| `Backfill` | `Select`, `Summarize`, `Write`, `RunDies`, `RunEnds`, `WorkerWrites` | `BackfillIsRight`: no summary is written over, and the report counts what was done |
| `Accounts` | checks and commits of register, update_user, change_email, `CommitUnknown`; `Suspend` | `AccountsAreRight`: names are unique, a registration is told the truth unless its commit raised, a suspended tenant's later requests commit nothing |
| `SemanticCache` | get and put split at their awaits, `Tick` | `HitsAreRight`: entries in order and bounded, a hit is of the scope, version, neighbourhood and age; `OldestGoFirst` |
| `Metadata` | `Extract`, `Query`, `BeginUpload`, `EndUpload` | `ListsAreRight`: a version told is final unless an earlier upload of the name was under way, an answer lists what was asked for and hints when rows may be missing |

The source marks the semantic cache experimental; the routed graph does not use it
yet.

In `Migration` a collection is the set of its records, and `script` holds what a run
of a script knows: the collections to do, the one it reads, the records it counted
and has not reached (`left`), those below its offset (`behind`), the page it has read
and not yet upserted (`batch`), and the ids the final check asks for (`expected`). The
app writes and deletes chunks of the documents it ingests (`ingesting`), which may
already be in the collections; `process_document` deletes before it writes and after a
failure. A page is read by offset, in the order of insertion (the one thing assumed of
Chroma, which is external): records added meanwhile come last, and a delete of a record
that was paged moves the next one below the offset (`Slips`). `lost` is history: what
the app deleted during the run, and what slipped. `ScriptsComplete` excepts `lost` and
nothing else, so that a run during which the app deletes nothing leaves nothing.

In `Metadata` an upload begins, which fixes `created_dt`, and ends later, committed or
not. `created_dt` is the start of the PostgreSQL transaction, opened by the first select
of `getCurrentUser`, before the file is read and stored, so uploads of one name
that overlap are committed in any order and `ROW_NUMBER()` numbers them by their start. No two
transactions start at once. A version is settled when no earlier upload of the name
is under way as it is told; `VersionsAgree` says that a settled one never changes, that
one that is not settled is never above it, and that two rows never share one if
the later one's is settled.

| Run | Instance | Shows |
|---|---|---|
| `stores` | all parts but `Migration` | the properties of the table |
| `vector_store` (part `migration`) | 2 users, 2 tenants, 2 records, anything being ingested; tenants and records are interchangeable, and one of the orders that exchanging them gives is enough | `NoForeignRecord`, `ScriptsComplete` |
| `migration_skips` | the same, from every initial state | violates `EveryRecordMoved` |

Bounds. Three uploads under all faults at once; two users in one or two tenants with
two records, so that a record can be in the wrong one of several collections, the app
can add or delete one while a script pages, and another can slip; two backfills
and the worker over two documents; two threads and
three collections for two places; three account requests on two e-mail addresses and
two usernames, so that two can pass each other's checks while a third changes a
name; two cache callers, two entries and a clock of two ticks, with every
question near the other; at most two uploads and two questions in the metadata
branch, with a limit of one, so that an earlier upload can commit between two answers.

Finding:

4. `EveryRecordMoved`. `migrate_to_tenant_collections.py:10` says "Every record in every
   collection of the current EMBEDDING_VERSION is assigned an owner" and upserted
   into its tenant's collection, and the comment at line 84 that "offset paging stays
   stable", thinking of the script's own upserts. Line 26 has the app restarted only
   afterwards. A chunk that the running app deletes below the offset makes the script skip a
   record: the final check asks only for ids that were read, and success is reported.

What the code does and no property denies: an upload whose commit raised after it
was applied keeps a row without a file and is answered 500. A registration
whose commit raised after it was applied is answered 500 too and has its account; trying
again is told that the address is taken. `RegistrationIsTold` says
nothing of such an answer (`unknown`), and tells it from a look-up that failed (`down`), after
which there is no account. A version told while an earlier upload of the name is
under way may grow when that upload commits. The tenants script upserts a page as it
was read, so a chunk the app deletes in between comes back, and the chunks of a FAILED
document can be searchable again. A lost race of
`update_user` or `change_email` is an unhandled `IntegrityError`, hence 500, with
the rows unchanged; only `register` catches it. A second run of the names script
may find more records in its target than it copied (the app or the tenants script
wrote there) and stops with RuntimeError (`VerifyCopy`); it never reports success
wrongly. `evict()` may run between a miss and its insert, and the old handle is then
cached after it; `evict` has no caller under `app/`.

## 8. Proofs of sections 6 and 7

All hold for every value of the constants; the only assumptions are the named
ones of the modules, which say what the parameters are (positive limits, non-empty
or finite sets, values apart from "none").

`StoresProofs`:

- `StoresAlwaysAgree`: the step of an upload determines in which
  of the two stores it may have left something (`KnownAt`). `StoresAgree` alone is
  not inductive: it does not say that a row at step "committed" has been given
  its file. No step but `Crash` touches two uploads, so one lemma
  (`OneUploadMoves`) carries over all others.
- `AccountsStayRight`: what holds of a request at its step
  (`Knows`), which no other request can take away, because accounts are never
  removed and tenants never become active again. A commit that raises may have been
  applied, and leaves a request of which nothing is known but that it came in time.
- `NoForeignRecords`, `ScriptsAreComplete`: a running script still
  has to do what is in its list, in what is left of the source it has opened and in the
  page it has read (`NamesToGo`, `TenantsToGo`). Neither depends on earlier runs, which is
  why a script may die and be run again. A delete of the app takes a record out of what
  is to do only by adding it to `lost`, and a page in hand is always of an open
  source (`BatchOpen`).
- `BackfillIsSafe`: the counts of a run are those of the documents it wrote and what
  it has left (`Balance`, `OwnCounted`), which stay what they are because a summary once
  there keeps its author. Assumes that there are finitely many documents.

`RequestProofs`:

- `RunsEndClean`: at every await of `run()`, which tasks have
  ended (`TasksEnd`), which route the result will be of (`RouteKnown`), and that a
  cancellation is still on its way or has decided the outcome
  (`CancellationReaches`).
- `MessagesStayRight`: a highest number exists
  (`HighestExists`), the rows of a turn carry the number it has read (`RowsAreOwn`),
  and a turn that was known had no message above it (`KnownIsBelow`).
  `NumbersFollow` then compares max + 1 with what was at most max.
- `SummaryAlwaysRight`: the texts of a round speak for all sections, and cutting any
  number of them into batches loses none (`BatchesWhole`).
- `SummariesAlwaysTrue`: the texts of a turn speak for separate documents
  (`Separate`), and for all it has read exactly as long as no batch has failed
  (`AskerInv`): a text that is left out is missed because no other speaks for its
  documents. No permit is lost: those that are out
  are those of the running calls.

`RoutingProofs`:

- `RoutesAlwaysRight`: the phase of a turn says what it may hold (`TurnInv`): a
  failure in its trace is its own, the route is the model's once the model chose,
  and only the rules have seen a question they know.
- `HopsAlwaysRight`, `HopsStay`: sub-queries that were asked are not asked again
  (`HopInv`), and before every round the cost is below its cap.

`CachesProofs`:

- `HandlesAlwaysKept`: what stands after a thread's own handle in the order of use was
  looked up since (`Recent`, `After`). So the handle that is first of
  `MaxCollections + 1` has `MaxCollections` others behind it, all of them counted.
  `HandlesAreKept` alone says nothing of a handle that is still cached.
- `HitsAlwaysRight`, `OldestAlwaysGoFirst`: no entry is from the future and all
  stand in the order of their dates (`InDateOrder`), which the purge keeps and an append extends,
  although the embeddings of concurrent puts end in any order: the date is the one
  of the append. Candidates matched when the call came (`MatchedWhenAsked`) and are not looked
  up again after the await.
- `ListsAlwaysRight`: a version told is at most the number of the caller's committed rows of that
  name up to the row, and exactly that if no earlier upload was under way
  (`ToldRight`): uploads that begin later come later, and those that were over stay as they
  are. An answer was right for the rows committed when the query ran (`AnswerRight`).

`SequenceLemmas` holds what these proofs share: the operations of an ordered dict,
prefixes, and the selection of positions in order. `Selection` states what a
comprehension or a WHERE clause keeps by the set of positions it keeps, listed in
order, because the provers cannot expand the folds behind `SelectSeq`. That every set
of positions can be listed in order (`Listed`) is proved by induction over the
numbers, for a property given as a set (`SetInduction`), since the provers cannot
instantiate a property given as an operator.

Only checked by TLC: `EventuallyFinished`, `RequestsAreRouted`,
`SummariesAreAnswered` and `DocumentsAreSummarized`. They are liveness properties under
fairness, which is out of the prover's reach. Every other property
that a passing run checks is stated by a theorem; `QuietWakeups` is `NoLostWakeup`, which
`NoWakeupIsLost` states, where nothing fails.

## 9. Not modelled

- Loading, cleaning and splitting of files, prompts, chains, LLM and embedding
  factories, logging, configuration, middleware: computation or wording without
  state of its own; where a call may fail, its failure is a step of the module
  that calls it.
- The meta and no-retrieval branches: one template, one LLM call.
- Hybrid retrieval and reranking: a pure ranking of what the vector store and the
  BM25 cache return.
- Knowledge bases: one select or one insert per request. The check for an existing
  title compares the trimmed title with titles stored as given, and two creations
  may pass it at once; no constraint and no text says more about titles.
- Login, password change, reads: one statement each.
- The schema migrations under `migrations/`: run once, by Alembic, in one
  transaction each.
- The counts of the agent's grader and rewriter calls, which the code leaves out of
  its token budget, and `standalone_query`, whose reset depends on how LangGraph
  applies defaulted input.

## 10. Running

    tlc -config IngestionFencing.cfg MCIngestion.tla
    tlapm IngestionProofs.tla

`PROJECT.json` lists components, runs, the mutants that show each property can
fail, the source lines of every definition, findings, hazards and theorems.
