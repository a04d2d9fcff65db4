------------------------------ MODULE Backfill ------------------------------
(***************************************************************************)
(* scripts/backfill_document_summaries.py: each run of the script takes    *)
(* the indexed documents without a summary, summarizes them one by one and *)
(* writes a summary only where there still is none.  Runs may overlap, and *)
(* the ingestion worker may write summaries in the meantime.               *)
(***************************************************************************)
EXTENDS Naturals, FiniteSets, FiniteSetsExt

CONSTANTS
    BackfillRuns,
    Documents,
    NoAuthor  \* the author of no summary

ASSUME BackfillAssumption == NoAuthor \notin BackfillRuns \cup {"worker"} /\ "worker" \notin BackfillRuns
ASSUME DocumentsAssumption == IsFiniteSet(Documents) /\ Documents # {}

VARIABLES
    author,  \* who wrote documents.summary
    script_run \* what each run knows

backfillVars == <<author, script_run>>

BackfillRun == [at: {"idle", "next", "write", "ended", "died"}, candidates: SUBSET Documents,
        left: SUBSET Documents, doc: Documents, summarized: Nat, failed: Nat, skipped: Nat]

BackfillTypeOK ==
    /\ author \in [Documents -> BackfillRuns \cup {"worker", NoAuthor}]
    /\ script_run \in [BackfillRuns -> BackfillRun]

BackfillInit ==
    /\ author = [d \in Documents |-> NoAuthor]
    /\ script_run = [s \in BackfillRuns |->
              [at |-> "idle", candidates |-> {}, left |-> {}, doc |-> CHOOSE d \in Documents : TRUE,
               summarized |-> 0, failed |-> 0, skipped |-> 0]]

Without == {d \in Documents : author[d] = NoAuthor}

(* The candidates, at most limit of them.                                  *)
Select(s) ==
    /\ script_run[s].at = "idle"
    /\ \E candidates \in SUBSET Without :
        script_run' = [script_run EXCEPT ![s].at = "next", ![s].candidates = candidates, ![s].left = candidates]
    /\ UNCHANGED author

(* The summary is made, or a step of it raises and the run goes on.        *)
Summarize(s) ==
    /\ script_run[s].at = "next"
    /\ \E d \in script_run[s].left :
        \/ script_run' = [script_run EXCEPT ![s].at = "write", ![s].doc = d, ![s].left = @ \ {d}]
        \/ script_run' = [script_run EXCEPT ![s].left = @ \ {d}, ![s].failed = @ + 1]
    /\ UNCHANGED author

(* Bug: the update is by id alone.                                         *)
WriteByIdAlone(s) ==
    /\ script_run[s].at = "write"
    /\ author' = [author EXCEPT ![script_run[s].doc] = s]
    /\ script_run' = [script_run EXCEPT ![s].at = "next", ![s].summarized = @ + 1]

(* UPDATE ... WHERE summary IS NULL, counted by its rowcount.              *)
Write(s) ==
    /\ script_run[s].at = "write"
    /\ IF author[script_run[s].doc] = NoAuthor
       THEN /\ author' = [author EXCEPT ![script_run[s].doc] = s]
            /\ script_run' = [script_run EXCEPT ![s].at = "next", ![s].summarized = @ + 1]
       ELSE /\ script_run' = [script_run EXCEPT ![s].at = "next", ![s].skipped = @ + 1]
            /\ UNCHANGED author

(* The write raises, which ends the script, or it is killed.               *)
RunDies(s) ==
    /\ script_run[s].at \in {"next", "write"}
    /\ script_run' = [script_run EXCEPT ![s].at = "died"]
    /\ author' \in {author} \cup IF script_run[s].at = "write" /\ author[script_run[s].doc] = NoAuthor
                                 THEN {[author EXCEPT ![script_run[s].doc] = s]} ELSE {}

RunEnds(s) ==
    /\ script_run[s].at = "next" /\ script_run[s].left = {}
    /\ script_run' = [script_run EXCEPT ![s].at = "ended"]
    /\ UNCHANGED author

(* The ingestion worker indexes one of them with a summary.                *)
WorkerWrites ==
    /\ \E d \in Without : author' = [author EXCEPT ![d] = "worker"]
    /\ UNCHANGED script_run

BackfillNext ==
    \/ WorkerWrites
    \/ \E s \in BackfillRuns : Select(s) \/ Summarize(s) \/ Write(s) \/ RunDies(s) \/ RunEnds(s)

BackfillSpec == BackfillInit /\ [][BackfillNext]_backfillVars

(* A summary that is there is never written over, by no run and whatever   *)
(* the run believed when it selected the document.                         *)
SummaryStays == [][\A d \in Documents : author[d] # NoAuthor => author'[d] = author[d]]_backfillVars

(* What a run reports is what it did: its counts add up to its candidates, *)
(* and it claims exactly the summaries that are its own.                   *)
ReportIsTrue ==
    \A s \in BackfillRuns :
        LET report == script_run[s] IN
        report.at = "ended" =>
            /\ report.summarized + report.failed + report.skipped = Cardinality(report.candidates)
            /\ report.summarized = Cardinality({d \in Documents : author[d] = s})

(* A backfill overwrites nothing and reports what it did, whatever other   *)
(* runs and the worker store meanwhile.                                    *)
BackfillIsRight ==
    []BackfillTypeOK /\ []ReportIsTrue /\ SummaryStays
==============================================================================
