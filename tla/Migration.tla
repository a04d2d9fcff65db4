------------------------------ MODULE Migration ------------------------------
(***************************************************************************)
(* The two scripts that move Chroma records to the collections the app     *)
(* reads: scripts/migrate_collection_names.py copies {NAME}_{key} to       *)
(* {NAME}_v1_{key}; scripts/migrate_to_tenant_collections.py upserts the   *)
(* records of every {NAME}_v1 collection into the one of their tenant.     *)
(*                                                                         *)
(* A collection is named by its partition key, a knowledge base by its     *)
(* owner.  Batches end anywhere, a script may die between two of its       *)
(* calls, and either may be run again.  In the meantime the app writes and *)
(* deletes chunks of the documents it ingests.  Chroma pages a collection  *)
(* in the order of insertion, so that a delete moves what follows up.      *)
(***************************************************************************)
EXTENDS FiniteSets

CONSTANTS
    Users,
    Tenants,
    Records  \* Chroma ids

GlobalKey == "global"
Keys == {GlobalKey} \cup Users \cup Tenants

ASSUME MigrationAssumption ==
    Users \cap Tenants = {} /\ {GlobalKey, "none"} \cap (Users \cup Tenants) = {}

VARIABLES
    tenant_of,  \* users.tenant_id
    metadata,   \* user_id and knowledge base of a record, as ingested
    ingesting,  \* chunks of the documents the app ingests in the meantime
    legacy,     \* records of the unversioned collections
    versioned,  \* state of each record in the versioned collections
    script      \* the script that runs

migrationVars == <<tenant_of, metadata, ingesting, legacy, versioned, script>>
world == <<tenant_of, metadata, ingesting>>

(* "old" is metadata as ingested, "owned" with the owner and the tenant.   *)
RecordStates == {"absent", "old", "owned"}

Metadata == [user_id: Users \cup {"none"}, kb_owner: Users \cup {"none"}]

(* Of the records counted in source, left are before the cursor, and those *)
(* behind it have been paged or slipped; batch was read and is still to be *)
(* upserted; expected are the ids to be found in the end.  lost is         *)
(* history: records the app deleted, or moved behind the cursor unread.    *)
Scripts == [name: {"none", "names", "tenants"}, sources: SUBSET Keys,
            source: Keys \cup {"none"}, left: SUBSET Records, behind: SUBSET Records,
            batch: SUBSET Records, expected: SUBSET Records, lost: SUBSET Records]

NoScript == [name |-> "none", sources |-> {}, source |-> "none", left |-> {}, behind |-> {},
             batch |-> {}, expected |-> {}, lost |-> {}]

MigrationTypeOK ==
    /\ tenant_of \in [Users -> Tenants]
    /\ metadata \in [Records -> Metadata] /\ ingesting \subseteq Records
    /\ legacy \in [Keys -> SUBSET Records]
    /\ versioned \in [Keys -> [Records -> RecordStates]]
    /\ script \in Scripts

(* A record was ingested into one collection, of an earlier or the current *)
(* naming, under its uploader, his tenant or no key; early ones do not     *)
(* name the uploader.  The app ingests documents that are new or that an   *)
(* earlier attempt left unfinished; who uploads one owns the knowledge     *)
(* base.                                                                   *)
MigrationInit ==
    /\ tenant_of \in [Users -> Tenants]
    /\ \E uploader \in [Records -> Users], named \in [Records -> BOOLEAN],
          kb_owner \in [Records -> Users \cup {"none"}],
          by \in {"global", "user", "tenant"}, unversioned, current \in SUBSET Records :
        LET home(r) == CASE by = "global" -> GlobalKey
                         [] by = "user" -> uploader[r]
                         [] OTHER -> tenant_of[uploader[r]] IN
        /\ unversioned \cap current = {}
        /\ metadata = [r \in Records |-> [user_id |-> IF named[r] THEN uploader[r] ELSE "none",
                                          kb_owner |-> kb_owner[r]]]
        /\ ingesting \in SUBSET {r \in Records : kb_owner[r] = uploader[r]}
        /\ legacy = [k \in Keys |-> {r \in unversioned : home(r) = k}]
        /\ versioned = [k \in Keys |-> [r \in Records |->
                          IF r \in current /\ home(r) = k THEN "old" ELSE "absent"]]
    /\ script = NoScript

Held(k) == {r \in Records : versioned[k][r] # "absent"}

(* Bug: a record of another user's knowledge base is given to its owner.   *)
ResolveOwnerOfKb(r) ==
    IF metadata[r].kb_owner # "none" THEN metadata[r].kb_owner ELSE metadata[r].user_id

(* The owner of the record's knowledge base, unless another user uploaded  *)
(* it; without a known knowledge base, the uploader; or none.              *)
ResolveOwner(r) ==
    CASE metadata[r].kb_owner = "none" -> metadata[r].user_id
      [] metadata[r].user_id \in {"none", metadata[r].kb_owner} -> metadata[r].kb_owner
      [] OTHER -> "none"

Resolvable == {r \in Records : ResolveOwner(r) # "none"}
Target(r) == tenant_of[ResolveOwner(r)]

PlanRenames == {k \in Keys : legacy[k] # {}}

(* Both scripts list their collections first.                              *)
StartNames ==
    /\ script.name = "none"
    /\ script' = [NoScript EXCEPT !.name = "names", !.sources = PlanRenames]
    /\ UNCHANGED <<world, legacy, versioned>>

StartTenants ==
    /\ script.name = "none"
    /\ script' = [NoScript EXCEPT !.name = "tenants", !.sources = {k \in Keys : Held(k) # {}}]
    /\ UNCHANGED <<world, legacy, versioned>>

(* The next collection; its records are counted once.                      *)
OpenSource ==
    /\ script.source = "none"
    /\ \E k \in script.sources :
        script' = [script EXCEPT !.source = k, !.sources = @ \ {k},
                                 !.left = IF script.name = "names" THEN legacy[k] ELSE Held(k)]
    /\ UNCHANGED <<world, legacy, versioned>>

(* The vectors and the metadata of a batch are upserted as they are.       *)
CopyBatch ==
    /\ script.name = "names"
    /\ \E batch \in SUBSET script.left \ {{}} :
        /\ versioned' = [versioned EXCEPT ![script.source] =
                           [r \in Records |-> IF r \in batch THEN "old" ELSE @[r]]]
        /\ script' = [script EXCEPT !.left = @ \ batch]
    /\ UNCHANGED <<world, legacy>>

(* The counts are compared; a target with more records ends the script.    *)
VerifyCopy ==
    /\ script.name = "names" /\ script.source # "none" /\ script.left = {}
    /\ script' = IF Cardinality(Held(script.source)) = Cardinality(legacy[script.source])
                 THEN [script EXCEPT !.source = "none"] ELSE NoScript
    /\ UNCHANGED <<world, legacy, versioned>>

(* A page of what was counted, with what was added since only at the end;  *)
(* records without an owner are skipped.                                   *)
ReadBatch ==
    /\ script.name = "tenants" /\ script.source # "none" /\ script.batch = {}
    /\ \E page \in SUBSET (Held(script.source) \ script.behind) \ {{}} :
        /\ page \subseteq script.left \/ script.left \subseteq page
        /\ script' = [script EXCEPT !.left = @ \ page, !.behind = @ \cup page,
                                    !.batch = page \cap Resolvable, !.expected = @ \cup (page \cap Resolvable)]
    /\ UNCHANGED <<world, legacy, versioned>>

(* Bug: a record in the right collection is not written again.             *)
MoveBatchElsewhere ==
    /\ script.name = "tenants"
    /\ \E k \in {Target(r) : r \in script.batch} :
        LET group == {r \in script.batch : Target(r) = k} IN
        /\ versioned' = [versioned EXCEPT ![k] =
                           [r \in Records |-> IF r \in group /\ k # script.source THEN "owned" ELSE @[r]]]
        /\ script' = [script EXCEPT !.batch = @ \ group]
    /\ UNCHANGED <<world, legacy>>

(* Each record goes to the collection of its owner's tenant, which may be  *)
(* the one it is in: one upsert for every tenant, of what was read.        *)
MoveBatch ==
    /\ script.name = "tenants"
    /\ \E k \in {Target(r) : r \in script.batch} :
        LET group == {r \in script.batch : Target(r) = k} IN
        /\ versioned' = [versioned EXCEPT ![k] = [r \in Records |-> IF r \in group THEN "owned" ELSE @[r]]]
        /\ script' = [script EXCEPT !.batch = @ \ group]
    /\ UNCHANGED <<world, legacy>>

SourceMoved ==
    /\ script.name = "tenants" /\ script.source # "none" /\ script.left = {} /\ script.batch = {}
    /\ script' = [script EXCEPT !.source = "none", !.behind = {}]
    /\ UNCHANGED <<world, legacy, versioned>>

AllDone == script.name # "none" /\ script.source = "none" /\ script.sources = {}

(* One collection after the other must hold every id that was to be moved  *)
(* there, or the script ends with an error.                                *)
VerifyMoved ==
    /\ AllDone
    /\ \E k \in {Target(r) : r \in script.expected} :
        LET ids == {r \in script.expected : Target(r) = k} IN
        script' = IF ids \subseteq Held(k) THEN [script EXCEPT !.expected = @ \ ids] ELSE NoScript
    /\ UNCHANGED <<world, legacy, versioned>>

(* The script reports success.                                             *)
ScriptEnds ==
    /\ AllDone /\ script.expected = {}
    /\ script' = NoScript
    /\ UNCHANGED <<world, legacy, versioned>>

Dies ==
    /\ script.name # "none"
    /\ script' = NoScript
    /\ UNCHANGED <<world, legacy, versioned>>

(* The app adds a chunk.                                                   *)
AppWrites ==
    /\ \E r \in ingesting : versioned' = [versioned EXCEPT ![Target(r)][r] = "owned"]
    /\ UNCHANGED <<world, legacy, script>>

(* The records that move behind the cursor with the delete of r: the next  *)
(* one, if r was paged.                                                    *)
Slips(r) ==
    IF script.name = "tenants" /\ script.source = Target(r) /\ r \in script.behind /\ script.left # {}
    THEN {{x} : x \in script.left} ELSE {{}}

(* The app deletes a chunk, before it writes the document again or because *)
(* its ingestion failed.                                                   *)
AppDeletes ==
    /\ \E r \in ingesting :
        /\ r \in Held(Target(r))
        /\ versioned' = [versioned EXCEPT ![Target(r)][r] = "absent"]
        /\ IF script.name = "none" THEN UNCHANGED script
           ELSE \E slipped \in Slips(r) :
                LET paged == IF script.name = "tenants" /\ script.source = Target(r) THEN {r} ELSE {} IN
                script' = [script EXCEPT !.left = @ \ (paged \cup slipped),
                                         !.behind = (@ \ paged) \cup slipped,
                                         !.lost = @ \cup {r} \cup slipped]
    /\ UNCHANGED <<world, legacy>>

MigrationNext ==
    \/ StartNames \/ StartTenants \/ OpenSource
    \/ CopyBatch \/ VerifyCopy \/ ReadBatch \/ MoveBatch \/ SourceMoved \/ VerifyMoved
    \/ ScriptEnds \/ Dies \/ AppWrites \/ AppDeletes

MigrationSpec == MigrationInit /\ [][MigrationNext]_migrationVars

(* A record is owned in no tenant's collection but that of its uploader,   *)
(* if he is known, and of its knowledge base's owner, if there is one.     *)
NoForeignRecord ==
    \A k \in Keys, r \in Records : versioned[k][r] = "owned" =>
        \A u \in {metadata[r].user_id, metadata[r].kb_owner} \ {"none"} : k = tenant_of[u]

(* When the names script reports success, every record of an unversioned   *)
(* collection is in the versioned one, whatever ran or died before, unless *)
(* the app deleted it meanwhile.                                           *)
NamesComplete ==
    [][script.name = "names" /\ ScriptEnds =>
         \A k \in Keys : legacy[k] \subseteq Held(k) \cup script.lost]_migrationVars

(* When the tenants script reports success, every record of a versioned    *)
(* collection that has an owner is owned in the collection of his tenant,  *)
(* also when an earlier run died half-way or the app wrote meanwhile: all  *)
(* but what the app deleted, and one record for each chunk it deleted      *)
(* behind the cursor.                                                      *)
TenantsComplete ==
    [][script.name = "tenants" /\ ScriptEnds =>
         \A k \in Keys : \A r \in (Held(k) \cap Resolvable) \ script.lost :
             versioned[Target(r)][r] = "owned"]_migrationVars

(* The success of either script means that nothing is left for it to do    *)
(* but what the app's deletes took from it.                                *)
ScriptsComplete ==
    NamesComplete /\ TenantsComplete

(* "Every record in every collection of the current EMBEDDING_VERSION is   *)
(* assigned an owner", says the tenants script of itself, and is upserted  *)
(* into the collection of his tenant.  Then it is so when success is       *)
(* reported, whatever happens to documents that are being ingested.        *)
EveryRecordMoved ==
    script.name = "tenants" /\ AllDone /\ script.expected = {} =>
        \A k \in Keys : \A r \in (Held(k) \cap Resolvable) \ ingesting : versioned[Target(r)][r] = "owned"
==============================================================================
