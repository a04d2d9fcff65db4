------------------------------ MODULE MCStores ------------------------------
(***************************************************************************)
(* The parts that keep something in a store or a cache, for TLC in one     *)
(* run.  They share no state, so a behaviour is one of a single part,      *)
(* picked at the start, while the others stay where they begin.            *)
(***************************************************************************)
EXTENDS Uploads, Handles, Backfill, Accounts, SemanticCache, Metadata

VARIABLE part

Parts == {"uploads", "handles", "backfill", "accounts", "semantic_cache", "metadata"}

partVars == <<part, uploadVars, handlesVars, backfillVars, accountVars, semanticVars,
              metadataVars>>

Init ==
    /\ part \in Parts
    /\ UploadInit /\ BackfillInit /\ AccountsInit
    /\ HandlesInit /\ (part # "handles" => \A t \in Threads : lookup[t].name = "a")
    /\ SemanticInit
    /\ part # "semantic_cache" => \A c \in Callers : /\ call[c].cache_key = "k1"
                                                     /\ call[c].vector = "q1"
                                                     /\ call[c].router_version = "v1"
    /\ MetadataInit /\ (part # "metadata" => branch.at = "extract")

Rest(name) ==
    /\ part = name
    /\ UNCHANGED part
    /\ name = "uploads" \/ UNCHANGED uploadVars
    /\ name = "handles" \/ UNCHANGED handlesVars
    /\ name = "backfill" \/ UNCHANGED backfillVars
    /\ name = "accounts" \/ UNCHANGED accountVars
    /\ name = "semantic_cache" \/ UNCHANGED semanticVars
    /\ name = "metadata" \/ UNCHANGED metadataVars

Next ==
    \/ UploadNext /\ Rest("uploads")
    \/ HandlesNext /\ Rest("handles")
    \/ BackfillNext /\ Rest("backfill")
    \/ AccountsNext /\ Rest("accounts")
    \/ SemanticNext /\ Rest("semantic_cache")
    \/ MetadataNext /\ Rest("metadata")

Spec == Init /\ [][Next]_partVars
==============================================================================
