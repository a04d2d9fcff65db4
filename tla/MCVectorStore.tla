---------------------------- MODULE MCVectorStore ----------------------------
(***************************************************************************)
(* The index cache and the migration scripts, which both work on the       *)
(* collections of the vector store while others write to them, for TLC in  *)
(* one run.  They share no state: one of them moves, the other stays where *)
(* it begins.  Threads, knowledge bases, tenants and records are           *)
(* interchangeable; the last three come in one of the orders that          *)
(* exchanging them gives.                                                  *)
(***************************************************************************)
EXTENDS KbIndexCache, Migration, TLC

VARIABLE part

partVars == <<part, vars, migrationVars>>

ThreadSymmetry == Permutations(Readers) \cup Permutations(Writers)

(* One of the initial states of the scripts, for when they do not run.     *)
MigrationAtRest ==
    /\ tenant_of \in [Users -> {CHOOSE t \in Tenants : TRUE}]
    /\ metadata = [r \in Records |-> [user_id |-> "none", kb_owner |-> "none"]]
    /\ ingesting = {}
    /\ legacy = [k \in Keys |-> {}]
    /\ versioned = [k \in Keys |-> [r \in Records |-> "absent"]]
    /\ script = NoScript

(* Where a record starts, as a number.                                     *)
Rank(r) ==
    (IF r \in ingesting THEN 4 ELSE 0) + Cardinality({k \in Keys : r \in Held(k)})
      + 2 * Cardinality({k \in Keys : r \in legacy[k]})

(* The first knowledge base to be written is always the same one.          *)
AnyKbFirst == store[AnyKb] = 0 => \A k \in Kbs : store[k] = 0

PartInit ==
    /\ part \in {"index_cache", "migration"}
    /\ Init
    /\ IF part = "migration"
       THEN MigrationInit /\ tenant_of["user1"] = "tenant1" /\ Rank("c1") >= Rank("c2")
       ELSE MigrationAtRest

PartNext ==
    /\ UNCHANGED part
    /\ \/ part = "index_cache" /\ Next /\ AnyKbFirst' /\ UNCHANGED migrationVars
       \/ part = "migration" /\ MigrationNext /\ UNCHANGED vars

PartSpec == PartInit /\ [][PartNext]_partVars
==============================================================================
