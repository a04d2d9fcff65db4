------------------------------ MODULE Metadata ------------------------------
(***************************************************************************)
(* The METADATA branch (app/routing/branches/metadata.py): the extractor   *)
(* turns a question into one of three fixed queries on documents, run in   *)
(* the scope of the caller while uploads go on.                            *)
(*                                                                         *)
(* created_dt is the start of the transaction of the upload, which is its  *)
(* first look at the caller: the file is read and stored before the row is *)
(* committed, and uploads that overlap are committed in any order.         *)
(*                                                                         *)
(* Time is counted in half days, so that a day has a start and an inside;  *)
(* no two transactions start at once.  Rows that are soft-deleted are left *)
(* out: no code under app/ deletes one.                                    *)
(***************************************************************************)
EXTENDS Integers, SequencesExt, Selection

CONSTANTS
    Scopes,      \* knowledge base, tenant and user of a row
    OwnScope,    \* those of the caller
    Filenames,
    Extensions,  \* allowed extensions
    Limit,       \* default_limit
    MaxRows,     \* bound: uploads
    MaxDay,      \* bound: the last day
    MaxAsked     \* bound: questions asked

ASSUME MetadataAssumption ==
    /\ OwnScope \in Scopes
    /\ Limit \in Nat \ {0} /\ MaxRows \in Nat /\ MaxDay \in Nat /\ MaxAsked \in Nat

VARIABLES
    clock,      \* the time, in half days
    documents,  \* the rows of all uploads, in the order of created_dt
    branch,     \* the turn of the branch
    told        \* history: the versions told

metadataVars == <<clock, documents, branch, told>>

Times == 0..(2 * MaxDay + 1)
Row == [scope: Scopes, filename: Filenames, file_extension: Extensions, created_dt: Times,
        state: {"uploading", "committed", "failed"}]

(* The requests _build_query_params lets through.                          *)
QueryParams ==
    {r \in [query_type: {"BY_DATE_RANGE"}, start_date: 0..MaxDay, end_date: 0..MaxDay] :
       r.start_date <= r.end_date}
    \cup [query_type: {"BY_DOCUMENT_TYPE"}, file_extension: Extensions]
    \cup [query_type: {"BY_VERSION"}, filename: Filenames]

NoParams == [query_type |-> "none"]

(* rows are positions in documents; seen is history: the rows committed    *)
(* when the query ran.                                                     *)
Branch == [at: {"extract", "query", "answered", "degraded", "no_scope"},
           params: QueryParams \cup {NoParams}, rows: Seq(1..MaxRows), hint: BOOLEAN,
           seen: SUBSET (1..MaxRows), asked: 0..MaxAsked]

(* overlapped: an upload of the same name had begun before that of the row *)
(* and was not over.                                                       *)
Told == [row: 1..MaxRows, version: 1..MaxRows, overlapped: BOOLEAN]

MetadataTypeOK ==
    /\ clock \in Times
    /\ documents \in Seq(Row) /\ Len(documents) <= MaxRows
    /\ branch \in Branch
    /\ told \subseteq Told

NoBranch == [at |-> "extract", params |-> NoParams, rows |-> <<>>, hint |-> FALSE, seen |-> {}, asked |-> 0]

MetadataInit ==
    /\ clock = 0
    /\ documents = <<>>
    /\ branch \in {NoBranch, [NoBranch EXCEPT !.at = "no_scope"]}
    /\ told = {}

Pass ==
    /\ clock < 2 * MaxDay + 1
    /\ clock' = clock + 1
    /\ UNCHANGED <<documents, branch, told>>

(* An upload, by anyone, starts its transaction.                           *)
BeginUpload ==
    /\ Len(documents) < MaxRows
    /\ \E scope \in Scopes, filename \in Filenames, extension \in Extensions :
        documents' = Append(documents, [scope |-> scope, filename |-> filename, file_extension |-> extension,
                                        created_dt |-> clock, state |-> "uploading"])
    /\ UNCHANGED <<clock, branch, told>>

(* Its row is committed, or it fails before.                               *)
EndUpload ==
    /\ \E i \in DOMAIN documents, state \in {"committed", "failed"} :
        /\ documents[i].state = "uploading"
        /\ documents' = [documents EXCEPT ![i].state = state]
    /\ UNCHANGED <<clock, branch, told>>

(* The extractor raises, or a required field is missing, the range is      *)
(* empty or the extension unknown: an explanation is the answer.           *)
ExtractFails ==
    /\ branch.at = "extract"
    /\ branch' = [branch EXCEPT !.at = "degraded"]
    /\ UNCHANGED <<clock, documents, told>>

Extract ==
    /\ branch.at = "extract"
    /\ \E params \in QueryParams : branch' = [branch EXCEPT !.at = "query", !.params = params]
    /\ UNCHANGED <<clock, documents, told>>

(* Bug: the range ends with the start of its last day.                     *)
EndDateItself(end_date) == end_date

EndDateExclusive(end_date) == end_date + 1

(* The WHERE clause on what is committed; a date is compared as the start  *)
(* of its day.                                                             *)
Selects(row) ==
    /\ row.state = "committed" /\ row.scope = OwnScope
    /\ \/ /\ branch.params.query_type = "BY_DATE_RANGE"
          /\ row.created_dt >= 2 * branch.params.start_date
          /\ row.created_dt < 2 * EndDateExclusive(branch.params.end_date)
       \/ /\ branch.params.query_type = "BY_DOCUMENT_TYPE"
          /\ row.file_extension = branch.params.file_extension
       \/ /\ branch.params.query_type = "BY_VERSION"
          /\ row.filename = branch.params.filename

(* The positions of the selected rows, the newest first.                   *)
Selected == Reverse(InOrder({i \in DOMAIN documents : Selects(documents[i])}))

Newest(rows) == IF Len(rows) > Limit THEN SubSeq(rows, 1, Limit) ELSE rows

(* ROW_NUMBER() counts from the oldest and before LIMIT cuts.              *)
Version(i) == Len(Selected) + 1 - i

(* More rows may exist when limit of them came back.                       *)
Hint(rows) == Len(rows) >= Limit

Overlapped(p) ==
    \E i \in 1..p : /\ documents[i].state = "uploading" /\ documents[i].scope = OwnScope
                    /\ documents[i].filename = documents[p].filename

Query ==
    LET rows == Newest(Selected) IN
    /\ branch.at = "query"
    /\ branch' = [branch EXCEPT !.at = "answered", !.rows = rows, !.hint = Hint(rows),
                                !.seen = {i \in DOMAIN documents : documents[i].state = "committed"}]
    /\ told' = IF branch.params.query_type = "BY_VERSION"
               THEN told \cup {[row |-> rows[i], version |-> Version(i), overlapped |-> Overlapped(rows[i])] :
                            i \in DOMAIN rows} ELSE told
    /\ UNCHANGED <<clock, documents>>

QueryFails ==
    /\ branch.at = "query"
    /\ branch' = [branch EXCEPT !.at = "degraded"]
    /\ UNCHANGED <<clock, documents, told>>

(* The next turn of the same caller.                                       *)
NextTurn ==
    /\ branch.at \in {"answered", "degraded"} /\ branch.asked < MaxAsked
    /\ branch' = [NoBranch EXCEPT !.asked = branch.asked + 1]
    /\ UNCHANGED <<clock, documents, told>>

MetadataNext ==
    Pass \/ BeginUpload \/ EndUpload \/ ExtractFails \/ Extract \/ Query \/ QueryFails \/ NextTurn

MetadataSpec == MetadataInit /\ [][MetadataNext]_metadataVars

(* A version told while no earlier upload of the name was under way is the *)
(* document's for ever: later uploads, the limit and uploads that fail     *)
(* change nothing.  What is told while one is can only be too low, so that *)
(* it never is the number of a newer document that was told for ever.      *)
VersionsAgree ==
    \A t, u \in told :
        documents[t.row].filename = documents[u.row].filename /\ ~u.overlapped =>
            /\ t.row = u.row => t.version <= u.version /\ (t.overlapped \/ t.version = u.version)
            /\ t.row < u.row => t.version < u.version

(* What the question asked for; a range with both its days.                *)
Wanted(row) ==
    /\ row.scope = OwnScope
    /\ CASE branch.params.query_type = "BY_DATE_RANGE" ->
              row.created_dt \div 2 \in branch.params.start_date..branch.params.end_date
         [] branch.params.query_type = "BY_DOCUMENT_TYPE" ->
              row.file_extension = branch.params.file_extension
         [] OTHER -> row.filename = branch.params.filename

(* An answer lists only documents that were asked for, and one without the *)
(* hint lists all that were committed, those of the last day of a range    *)
(* included.                                                               *)
AnswerIsComplete ==
    branch.at = "answered" =>
        /\ \A i \in ToSet(branch.rows) : Wanted(documents[i])
        /\ ~branch.hint => \A i \in branch.seen : Wanted(documents[i]) => i \in ToSet(branch.rows)

(* What the metadata branch tells of the documents while others are        *)
(* uploaded.                                                               *)
ListsAreRight ==
    MetadataTypeOK /\ VersionsAgree /\ AnswerIsComplete
==============================================================================
