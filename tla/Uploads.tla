------------------------------- MODULE Uploads -------------------------------
(***************************************************************************)
(* POST /upload (app/api/v1/endpoints/knowledgeBases.py): the file goes to *)
(* the file storage (app/core/storage/fileStorage.py), then the documents  *)
(* row is committed.  The two stores share no transaction: the endpoint    *)
(* deletes the file again when it saw the row fail.                        *)
(*                                                                         *)
(* An upload is named by its storage key, which holds a fresh random part. *)
(* Its step is its program counter and, at the end, how it was answered.   *)
(***************************************************************************)
CONSTANTS
    Uploads,      \* uploads, each with a storage key of its own
    UploadFaults  \* what may go wrong: a subset of AllUploadFaults

AllUploadFaults == {"crash", "write", "delete", "db", "ambiguous", "refresh"}

ASSUME UploadFaultsAssumption == UploadFaults \subseteq AllUploadFaults

VARIABLES
    files,   \* keys with a file, whole or partial, in the storage
    rows,    \* keys a committed documents row points at
    upload,  \* the step each upload is at
    confirmed \* history: the uploads whose commit returned

uploadVars == <<files, rows, upload, confirmed>>

Running == {"received", "valid", "stored", "committed", "cleanup"}

(* refused: 404 or 400.  queued: 202.  The others were answered 500:       *)
(* unstored, the file was not written; undone, the row was not saved;      *)
(* leaked, nor could the file be deleted; unconfirmed, failed after the    *)
(* commit.  crashed: never answered.                                       *)
Answered == {"refused", "queued", "unstored", "undone", "leaked", "unconfirmed"}

UploadTypeOK ==
    /\ files \subseteq Uploads
    /\ rows \subseteq Uploads
    /\ upload \in [Uploads -> Running \cup Answered \cup {"crashed"}]
    /\ confirmed \subseteq Uploads

UploadInit ==
    /\ files = {}
    /\ rows = {}
    /\ upload = [u \in Uploads |-> "received"]
    /\ confirmed = {}

Moves(u, from, to) ==
    /\ upload[u] = from
    /\ upload' = [upload EXCEPT ![u] = to]

(* The knowledge base is not the caller's, the extension is not allowed,   *)
(* or the file is too large.                                               *)
Refuse(u) ==
    /\ Moves(u, "received", "refused")
    /\ UNCHANGED <<files, rows, confirmed>>

Validate(u) ==
    /\ Moves(u, "received", "valid")
    /\ UNCHANGED <<files, rows, confirmed>>

StoreFile(u) ==
    /\ Moves(u, "valid", "stored")
    /\ files' = files \cup {u}
    /\ UNCHANGED <<rows, confirmed>>

(* upload_file raises, with nothing or a part of the file written; stored  *)
(* is still None, so the finally clause has nothing to delete.             *)
StoreFails(u) ==
    /\ "write" \in UploadFaults
    /\ Moves(u, "valid", "unstored")
    /\ files' \in {files, files \cup {u}}
    /\ UNCHANGED <<rows, confirmed>>

CommitRow(u) ==
    /\ Moves(u, "stored", "committed")
    /\ rows' = rows \cup {u}
    /\ confirmed' = confirmed \cup {u}
    /\ UNCHANGED files

(* The commit raises; an ambiguous one was applied all the same.           *)
CommitFails(u) ==
    /\ Moves(u, "stored", "cleanup")
    /\ \/ "db" \in UploadFaults /\ rows' = rows
       \/ "ambiguous" \in UploadFaults /\ rows' = rows \cup {u}
    /\ UNCHANGED <<files, confirmed>>

DeleteFile(u) ==
    /\ Moves(u, "cleanup", "undone")
    /\ files' = files \ {u}
    /\ UNCHANGED <<rows, confirmed>>

DeleteFails(u) ==
    /\ "delete" \in UploadFaults
    /\ Moves(u, "cleanup", "leaked")
    /\ UNCHANGED <<files, rows, confirmed>>

(* Bug: stored is not reset after the commit.                              *)
RefreshFailsCleansUp(u) ==
    /\ "refresh" \in UploadFaults
    /\ Moves(u, "committed", "cleanup")
    /\ UNCHANGED <<files, rows, confirmed>>

RefreshFails(u) ==
    /\ "refresh" \in UploadFaults
    /\ Moves(u, "committed", "unconfirmed")
    /\ UNCHANGED <<files, rows, confirmed>>

(* Refreshes the row, notifies the worker and answers.                     *)
Accept(u) ==
    /\ Moves(u, "committed", "queued")
    /\ UNCHANGED <<files, rows, confirmed>>

(* The process dies with every upload it was running: a write it was in    *)
(* may leave a part of the file, a commit it was in may have been applied. *)
Crash ==
    /\ "crash" \in UploadFaults
    /\ \E u \in Uploads : upload[u] \in Running \ {"received"}
    /\ upload' = [u \in Uploads |-> IF upload[u] \in Running \ {"received"}
                                    THEN "crashed" ELSE upload[u]]
    /\ \E written \in SUBSET {u \in Uploads : upload[u] = "valid"} : files' = files \cup written
    /\ \E applied \in SUBSET {u \in Uploads : upload[u] = "stored"} : rows' = rows \cup applied
    /\ UNCHANGED confirmed

UploadStep(u) ==
    \/ Refuse(u) \/ Validate(u)
    \/ StoreFile(u) \/ StoreFails(u)
    \/ CommitRow(u) \/ CommitFails(u)
    \/ DeleteFile(u) \/ DeleteFails(u)
    \/ RefreshFails(u) \/ Accept(u)

UploadNext == Crash \/ \E u \in Uploads : UploadStep(u)

UploadSpec == UploadInit /\ [][UploadNext]_uploadVars

(* A row points at a file the worker can read, unless the upload was       *)
(* answered 500 after a commit that raised although it was applied: once   *)
(* the commit has returned, no failure makes the finally clause of         *)
(* uploadDocument take the file away from its row.                         *)
RowHasFile == \A u \in rows \ files : upload[u] = "undone" /\ u \notin confirmed

(* A file no row points at belongs to an upload that is still running, or  *)
(* was left by a crash or by a failure of the storage itself: an error of  *)
(* the database never leaves a file nothing would ever read or delete.     *)
NoOrphanFile ==
    \A u \in files \ rows : upload[u] \in {"stored", "cleanup", "crashed", "unstored", "leaked"}

(* What the client was told is true: 202 means queued with its file, a     *)
(* refusal left nothing, and a file that could not be written no row.      *)
AnswerIsTrue ==
    \A u \in Uploads :
        /\ upload[u] = "queued" => u \in rows \cap files
        /\ upload[u] = "refused" => u \notin rows \cup files
        /\ upload[u] = "unstored" => u \notin rows

(* The file store, the table and the answer to the client agree after      *)
(* every step and failure of uploadDocument.                               *)
StoresAgree ==
    UploadTypeOK /\ RowHasFile /\ NoOrphanFile /\ AnswerIsTrue
==============================================================================
