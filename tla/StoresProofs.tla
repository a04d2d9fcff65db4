----------------------------- MODULE StoresProofs -----------------------------
(***************************************************************************)
(* Proofs about what the parts of the system leave behind in their stores: *)
(* uploads, accounts, the collections that migration scripts copy, and the *)
(* summaries that the backfill writes, for any number of each.             *)
(***************************************************************************)
EXTENDS Uploads, Accounts, Migration, Backfill, FiniteSetTheorems, TLAPS

(***************************************************************************)
(* Proofs about uploads, for any number of them and any faults.  What is   *)
(* at which step of uploadDocument determines in which of the two stores   *)
(* an upload may have left something: KnownAt, an invariant of each upload *)
(* by itself, since no step but the crash of the process touches two.      *)
(***************************************************************************)

(* What the storage and the table may hold of an upload, by its step.      *)
KnownAt(u) ==
    /\ upload[u] \in {"received", "valid", "refused"} => u \notin files /\ u \notin rows
    /\ upload[u] = "unstored" => u \notin rows
    /\ upload[u] = "stored" => u \in files /\ u \notin rows
    /\ upload[u] \in {"cleanup", "leaked"} => u \in files
    /\ upload[u] \in {"committed", "queued", "unconfirmed"} => u \in files /\ u \in rows
    /\ upload[u] = "undone" => u \notin files
    /\ upload[u] = "crashed" => (u \in rows => u \in files)
    /\ u \in confirmed => upload[u] \in {"committed", "queued", "unconfirmed", "crashed"}

UploadInv == UploadTypeOK /\ \A u \in Uploads : KnownAt(u)

LEMMA UploadInitInv == UploadInit => UploadInv
  BY DEF UploadInit, UploadInv, UploadTypeOK, KnownAt, Running, Answered

(* A step of one upload leaves the others alone.                           *)
LEMMA OneUploadMoves ==
    ASSUME UploadInv, NEW u \in Uploads, NEW from, NEW to, Moves(u, from, to),
           to \in Running \cup Answered,
           files' \ {u} = files \ {u}, files' \subseteq Uploads,
           rows' \ {u} = rows \ {u}, rows' \subseteq Uploads,
           confirmed' \ {u} = confirmed \ {u}, confirmed' \subseteq Uploads,
           KnownAt(u)'
    PROVE  UploadInv'
<1>1. UploadTypeOK'
  BY DEF UploadInv, UploadTypeOK, Moves
<1>2. ASSUME NEW v \in Uploads \ {u} PROVE KnownAt(v)'
  <2>1. upload'[v] = upload[v] /\ KnownAt(v)
    BY <1>2 DEF UploadInv, UploadTypeOK, Moves
  <2>2. /\ v \in files' <=> v \in files
        /\ v \in rows' <=> v \in rows
        /\ v \in confirmed' <=> v \in confirmed
    BY <1>2
  <2> QED BY <2>1, <2>2 DEF KnownAt
<1> QED BY <1>1, <1>2 DEF UploadInv

LEMMA UploadStepInv ==
    ASSUME UploadInv, NEW u \in Uploads, UploadStep(u)
    PROVE  UploadInv'
<1> USE DEF Running, Answered
<1>0. /\ KnownAt(u) /\ u \in DOMAIN upload
      /\ files \subseteq Uploads /\ rows \subseteq Uploads /\ confirmed \subseteq Uploads
  BY DEF UploadInv, UploadTypeOK
<1>1. CASE Refuse(u)
  <2>1. KnownAt(u)' BY <1>0, <1>1 DEF Refuse, Moves, KnownAt
  <2> QED BY <1>0, <1>1, <2>1, OneUploadMoves DEF Refuse
<1>2. CASE Validate(u)
  <2>1. KnownAt(u)' BY <1>0, <1>2 DEF Validate, Moves, KnownAt
  <2> QED BY <1>0, <1>2, <2>1, OneUploadMoves DEF Validate
<1>3. CASE StoreFile(u)
  <2>1. KnownAt(u)' BY <1>0, <1>3 DEF StoreFile, Moves, KnownAt
  <2> QED BY <1>0, <1>3, <2>1, OneUploadMoves DEF StoreFile
<1>4. CASE StoreFails(u)
  <2>1. KnownAt(u)' BY <1>0, <1>4 DEF StoreFails, Moves, KnownAt
  <2> QED BY <1>0, <1>4, <2>1, OneUploadMoves DEF StoreFails
<1>5. CASE CommitRow(u)
  <2>1. KnownAt(u)' BY <1>0, <1>5 DEF CommitRow, Moves, KnownAt
  <2> QED BY <1>0, <1>5, <2>1, OneUploadMoves DEF CommitRow
<1>6. CASE CommitFails(u)
  <2>1. KnownAt(u)' BY <1>0, <1>6 DEF CommitFails, Moves, KnownAt
  <2> QED BY <1>0, <1>6, <2>1, OneUploadMoves DEF CommitFails
<1>7. CASE DeleteFile(u)
  <2>1. KnownAt(u)' BY <1>0, <1>7 DEF DeleteFile, Moves, KnownAt
  <2> QED BY <1>0, <1>7, <2>1, OneUploadMoves DEF DeleteFile
<1>8. CASE DeleteFails(u)
  <2>1. KnownAt(u)' BY <1>0, <1>8 DEF DeleteFails, Moves, KnownAt
  <2> QED BY <1>0, <1>8, <2>1, OneUploadMoves DEF DeleteFails
<1>9. CASE RefreshFails(u)
  <2>1. KnownAt(u)' BY <1>0, <1>9 DEF RefreshFails, Moves, KnownAt
  <2> QED BY <1>0, <1>9, <2>1, OneUploadMoves DEF RefreshFails
<1>10. CASE Accept(u)
  <2>1. KnownAt(u)' BY <1>0, <1>10 DEF Accept, Moves, KnownAt
  <2> QED BY <1>0, <1>10, <2>1, OneUploadMoves DEF Accept
<1> QED BY <1>1, <1>2, <1>3, <1>4, <1>5, <1>6, <1>7, <1>8, <1>9, <1>10 DEF UploadStep

(* A crash ends every upload that has begun: of a write it was in a part   *)
(* may be left, and a commit it was in may have been applied, of a file    *)
(* that was stored whole.                                                  *)
LEMMA CrashInv ==
    ASSUME UploadInv, Crash
    PROVE  UploadInv'
<1>1. PICK written \in SUBSET {u \in Uploads : upload[u] = "valid"} : files' = files \cup written
  BY DEF Crash
<1>2. PICK applied \in SUBSET {u \in Uploads : upload[u] = "stored"} : rows' = rows \cup applied
  BY DEF Crash
<1>3. UploadTypeOK'
  BY <1>1, <1>2 DEF UploadInv, UploadTypeOK, Crash, Running, Answered
<1>4. ASSUME NEW u \in Uploads PROVE KnownAt(u)'
  <2>1. KnownAt(u) /\ upload[u] \in Running \cup Answered \cup {"crashed"}
    BY DEF UploadInv, UploadTypeOK
  <2>2. upload'[u] = IF upload[u] \in Running \ {"received"} THEN "crashed" ELSE upload[u]
    BY DEF Crash
  <2>3. confirmed' = confirmed
    BY DEF Crash
  <2>4. CASE upload[u] \in Running \ {"received"}
    <3>1. u \in rows' => u \in files'
      BY <1>1, <1>2, <2>1, <2>4 DEF KnownAt, Running
    <3> QED BY <2>2, <2>3, <2>4, <3>1 DEF KnownAt
  <2>5. CASE upload[u] \notin Running \ {"received"}
    <3>1. u \notin written /\ u \notin applied
      BY <1>1, <1>2, <2>5 DEF Running
    <3>2. (u \in files' <=> u \in files) /\ (u \in rows' <=> u \in rows)
      BY <1>1, <1>2, <3>1
    <3> QED BY <2>1, <2>2, <2>3, <2>5, <3>2 DEF KnownAt
  <2> QED BY <2>4, <2>5
<1> QED BY <1>3, <1>4 DEF UploadInv

LEMMA UploadInvariant == UploadSpec => []UploadInv
<1>1. UploadInv /\ [UploadNext]_uploadVars => UploadInv'
  <2> SUFFICES ASSUME UploadInv, [UploadNext]_uploadVars PROVE UploadInv'
    OBVIOUS
  <2>1. CASE UNCHANGED uploadVars
    BY <2>1 DEF UploadInv, UploadTypeOK, KnownAt, uploadVars
  <2> QED BY <2>1, UploadStepInv, CrashInv DEF UploadNext
<1> QED BY <1>1, UploadInitInv, PTL DEF UploadSpec

(* A documents row points at a file the worker can read, unless a commit   *)
(* that was applied told uploadDocument that it had failed.                *)
THEOREM RowsHaveFiles == UploadSpec => []RowHasFile
<1>1. UploadInv => RowHasFile
  BY DEF UploadInv, UploadTypeOK, RowHasFile, KnownAt, Running, Answered
<1> QED BY <1>1, UploadInvariant, PTL

(* Only a crash or a failure of the storage leaves a file without a row.   *)
THEOREM NoFileOrphaned == UploadSpec => []NoOrphanFile
<1>1. UploadInv => NoOrphanFile
  BY DEF UploadInv, UploadTypeOK, NoOrphanFile, KnownAt, Running, Answered
<1> QED BY <1>1, UploadInvariant, PTL

(* The answer of uploadDocument says what is in the two stores.            *)
THEOREM UploadAnswersAreTrue == UploadSpec => []AnswerIsTrue
<1>1. UploadInv => AnswerIsTrue
  BY DEF UploadInv, AnswerIsTrue, KnownAt
<1> QED BY <1>1, UploadInvariant, PTL

(* Together: file store, table and answer agree, for any number of uploads *)
(* and whatever fails.                                                     *)
THEOREM StoresAlwaysAgree == UploadSpec => []StoresAgree
<1>1. UploadInv => UploadTypeOK
  BY DEF UploadInv
<1>2. UploadTypeOK /\ RowHasFile /\ NoOrphanFile /\ AnswerIsTrue => StoresAgree
  BY DEF StoresAgree
<1> QED BY <1>1, <1>2, UploadInvariant, RowsHaveFiles, NoFileOrphaned, UploadAnswersAreTrue, PTL

(***************************************************************************)
(* Proofs about accounts, for any number of requests, tenants, e-mail      *)
(* addresses and usernames.  Uniqueness needs nothing but the constraints  *)
(* at the commit; what a request is told follows from what it may know at  *)
(* each step (Knows), which no step of another request can take away:      *)
(* accounts are never removed and tenants never become active again.       *)
(***************************************************************************)

Going == {"tenant", "name", "commit", "written"}

(* What holds of the request q at its step.                                *)
Knows(q) ==
    /\ http[q].at = "start" => http[q].op = "register"
    /\ http[q].at \in Going /\ http[q].op # "register" => Exists(http[q].self)
    /\ http[q].op = "register" =>
        /\ http[q].at \in {"written", "saved", "error"} => Exists(q)
        /\ http[q].at \notin {"written", "saved", "error", "unknown"} => ~Exists(q)
    /\ http[q].late =>
        /\ http[q].at \notin {"name", "commit", "written", "saved", "error", "unknown"}
        /\ http[q].at = "tenant" => http[q].wanted.tenant \notin active

AccountsInv ==
    /\ AccountsTypeOK
    /\ NamesUnique
    /\ \A q \in AccountRequests : Knows(q)

LEMMA NotBegunTyped ==
    ASSUME NEW q \in AccountRequests
    PROVE  /\ NotBegun(q) \in AccountTurns
           /\ NotBegun(q).at = "start" /\ NotBegun(q).op = "register" /\ NotBegun(q).late = FALSE
  BY AccountsAssumption DEF NotBegun, AccountTurns, Columns

(* A row is never taken for no row.                                        *)
LEMMA ColumnsAreRows == NoUser \notin Columns
  BY AccountsAssumption DEF NoUser, Columns

LEMMA AccountsInitInv == AccountsInit => AccountsInv
<1> SUFFICES ASSUME AccountsInit PROVE AccountsInv
  OBVIOUS
<1>1. AccountsTypeOK
  BY NotBegunTyped DEF AccountsInit, AccountsTypeOK
<1>2. \A q \in AccountRequests : ~Exists(q)
  BY DEF AccountsInit, Exists
<1>3. \A q \in AccountRequests : Knows(q)
  BY <1>2, NotBegunTyped DEF AccountsInit, Knows, Going
<1> QED BY <1>1, <1>2, <1>3 DEF AccountsInv, NamesUnique

(* The turn a request is left with: typed, and at the step it reached.     *)
LEMMA TurnedTyped ==
    ASSUME NEW q \in AccountRequests, NEW turn \in AccountTurns
    PROVE  /\ Turned(turn, q) \in AccountTurns
           /\ Turned(turn, q).at = turn.at /\ Turned(turn, q).op = turn.op
           /\ Turned(turn, q).late = turn.late
           /\ turn.at \notin AccountAnswers => Turned(turn, q) = turn
<1>1. NotBegun(q) \in AccountTurns
  BY NotBegunTyped
<1>2. CASE turn.at \in AccountAnswers
  <2>1. Turned(turn, q) = [NotBegun(q) EXCEPT !.op = turn.op, !.at = turn.at, !.late = turn.late]
    BY <1>2 DEF Turned
  <2> QED BY <1>1, <1>2, <2>1 DEF AccountTurns
<1>3. CASE turn.at \notin AccountAnswers
  BY <1>3 DEF Turned
<1> QED BY <1>2, <1>3

LEMMA TurnBegins ==
    ASSUME AccountsTypeOK, NEW q \in AccountRequests, NEW turn \in AccountTurns,
           http' = [http EXCEPT ![q] = Turned(turn, q)]
    PROVE  /\ http' \in [AccountRequests -> AccountTurns]
           /\ \A p \in AccountRequests \ {q} : http'[p] = http[p]
           /\ http'[q].at = turn.at /\ http'[q].op = turn.op /\ http'[q].late = turn.late
           /\ turn.at \notin AccountAnswers => http'[q] = turn
  BY TurnedTyped DEF AccountsTypeOK

LEMMA TurnReaches ==
    ASSUME AccountsTypeOK, NEW q \in AccountRequests, NEW at \in Going \cup AccountAnswers,
           Reaches(q, at)
    PROVE  /\ http' \in [AccountRequests -> AccountTurns]
           /\ \A p \in AccountRequests \ {q} : http'[p] = http[p]
           /\ http'[q].at = at /\ http'[q].op = http[q].op /\ http'[q].late = http[q].late
           /\ at \in Going => http'[q].self = http[q].self /\ http'[q].wanted = http[q].wanted
<1> DEFINE turn == [http[q] EXCEPT !.at = at]
<1>1. /\ turn \in AccountTurns /\ turn.at = at /\ turn.op = http[q].op /\ turn.late = http[q].late
      /\ turn.self = http[q].self /\ turn.wanted = http[q].wanted
  BY DEF AccountsTypeOK, AccountTurns, Going
<1>2. http' = [http EXCEPT ![q] = Turned(turn, q)]
  BY DEF Reaches, AccountsTypeOK
<1>3. at \in Going => at \notin AccountAnswers
  BY DEF Going, AccountAnswers
<1> HIDE DEF turn
<1> QED BY <1>1, <1>2, <1>3, TurnBegins

(* A step of one request leaves what the others know true.                 *)
LEMMA OthersKnow ==
    ASSUME NEW p \in AccountRequests, Knows(p), http'[p] = http[p], http[p].self \in AccountRequests,
           \A a \in AccountRequests : Exists(a) => Exists(a)',
           http[p].op = "register" => (Exists(p)' <=> Exists(p)),
           active' \subseteq active
    PROVE  Knows(p)'
<1>1. Exists(http[p].self) => Exists(http[p].self)'
  OBVIOUS
<1> QED BY <1>1 DEF Knows

(* Most steps change nothing but the request they belong to.               *)
LEMMA OnlyTheTurn ==
    ASSUME AccountsInv, NEW q \in AccountRequests, UNCHANGED <<active, users>>,
           http' \in [AccountRequests -> AccountTurns],
           \A p \in AccountRequests \ {q} : http'[p] = http[p],
           Knows(q)'
    PROVE  AccountsInv'
<1>1. AccountsTypeOK'
  BY DEF AccountsInv, AccountsTypeOK
<1>2. NamesUnique'
  BY DEF AccountsInv, NamesUnique, Exists
<1>3. \A a \in AccountRequests : Exists(a)' <=> Exists(a)
  BY DEF Exists
<1>4. ASSUME NEW p \in AccountRequests \ {q} PROVE Knows(p)'
  <2>1. Knows(p) /\ http'[p] = http[p] /\ http[p].self \in AccountRequests
    BY <1>4 DEF AccountsInv, AccountsTypeOK, AccountTurns
  <2> QED BY <1>3, <2>1, OthersKnow
<1> QED BY <1>1, <1>2, <1>4 DEF AccountsInv

LEMMA CheckRegisterInv ==
    ASSUME AccountsInv, NEW q \in AccountRequests, CheckRegister(q)
    PROVE  AccountsInv'
<1>1. PICK wanted \in Columns :
        http' = [http EXCEPT ![q] = Turned(
            [op |-> "register", self |-> q, wanted |-> wanted, late |-> wanted.tenant \notin active,
             at |-> IF TakenEmail(q, wanted.email) THEN "used" ELSE "tenant"], q)]
  BY DEF CheckRegister
<1> DEFINE turn == [op |-> "register", self |-> q, wanted |-> wanted,
                    late |-> wanted.tenant \notin active,
                    at |-> IF TakenEmail(q, wanted.email) THEN "used" ELSE "tenant"]
<1>2. /\ turn \in AccountTurns /\ turn.op = "register" /\ turn.at \in {"used", "tenant"}
      /\ turn.late = (wanted.tenant \notin active) /\ turn.wanted = wanted
  BY DEF AccountTurns, AccountAnswers
<1>3. ~Exists(q)
  BY DEF AccountsInv, Knows, CheckRegister
<1> HIDE DEF turn
<1>4. http' = [http EXCEPT ![q] = Turned(turn, q)] /\ AccountsTypeOK
  BY <1>1 DEF turn, AccountsInv
<1>5. /\ http' \in [AccountRequests -> AccountTurns]
      /\ \A p \in AccountRequests \ {q} : http'[p] = http[p]
      /\ http'[q].at = turn.at /\ http'[q].op = turn.op /\ http'[q].late = turn.late
      /\ turn.at \notin AccountAnswers => http'[q] = turn
  BY <1>2, <1>4, TurnBegins
<1>6. "tenant" \notin AccountAnswers
  BY DEF AccountAnswers
<1>7. UNCHANGED <<active, users>>
  BY DEF CheckRegister
<1>8. Knows(q)'
  BY <1>2, <1>3, <1>5, <1>6, <1>7 DEF Knows, Exists, Going
<1> QED BY <1>5, <1>7, <1>8, OnlyTheTurn

LEMMA AuthorizeInv ==
    ASSUME AccountsInv, NEW q \in AccountRequests, Authorize(q)
    PROVE  AccountsInv'
<1>1. PICK op \in {"update", "email"}, self \in AccountRequests, wanted \in Columns :
        /\ Exists(self)
        /\ http' = [http EXCEPT ![q] = Turned(
               [op |-> op, self |-> self, wanted |-> wanted, late |-> wanted.tenant \notin active,
                at |-> IF wanted.tenant \in active THEN "name" ELSE "refused"], q)]
  BY DEF Authorize
<1> DEFINE turn == [op |-> op, self |-> self, wanted |-> wanted, late |-> wanted.tenant \notin active,
                    at |-> IF wanted.tenant \in active THEN "name" ELSE "refused"]
<1>2. /\ turn \in AccountTurns /\ turn.op # "register" /\ turn.self = self
      /\ turn.at \in {"refused", "name"} /\ (turn.late => turn.at = "refused")
  BY DEF AccountTurns, AccountAnswers
<1> HIDE DEF turn
<1>3. http' = [http EXCEPT ![q] = Turned(turn, q)] /\ AccountsTypeOK
  BY <1>1 DEF turn, AccountsInv
<1>4. /\ http' \in [AccountRequests -> AccountTurns]
      /\ \A p \in AccountRequests \ {q} : http'[p] = http[p]
      /\ http'[q].at = turn.at /\ http'[q].op = turn.op /\ http'[q].late = turn.late
      /\ turn.at \notin AccountAnswers => http'[q] = turn
  BY <1>2, <1>3, TurnBegins
<1>5. "name" \notin AccountAnswers
  BY DEF AccountAnswers
<1>6. UNCHANGED <<active, users>>
  BY DEF Authorize
<1>7. Knows(q)'
  BY <1>1, <1>2, <1>4, <1>5, <1>6 DEF Knows, Exists, Going
<1> QED BY <1>4, <1>6, <1>7, OnlyTheTurn

(* A step after which the request has reached at, with nothing written.    *)
LEMMA ReachesInv ==
    ASSUME AccountsInv, NEW q \in AccountRequests, NEW at \in Going \cup AccountAnswers,
           Reaches(q, at), UNCHANGED <<active, users>>, http[q].at \in Going \cup {"start"},
           http[q].op = "register" =>
             (http[q].at = "written" <=> at \in {"written", "saved", "error"}),
           at \in Going => http[q].at \in Going /\ at # "tenant",
           http[q].late => at \notin {"name", "commit", "written", "saved", "error", "unknown"}
    PROVE  AccountsInv'
<1>1. AccountsTypeOK /\ Knows(q)
  BY DEF AccountsInv
<1>2. /\ http' \in [AccountRequests -> AccountTurns]
      /\ \A p \in AccountRequests \ {q} : http'[p] = http[p]
      /\ http'[q].at = at /\ http'[q].op = http[q].op /\ http'[q].late = http[q].late
      /\ at \in Going => http'[q].self = http[q].self /\ http'[q].wanted = http[q].wanted
  BY <1>1, TurnReaches
<1>3. at # "start" /\ at # "tenant"
  BY DEF Going, AccountAnswers
<1>4. Exists(q) <=> Exists(q)'
  BY DEF Exists
<1>5. http[q].at \in Going /\ http[q].op # "register" => users'[http[q].self] # NoUser
  BY <1>1 DEF Knows, Exists
<1>6. Knows(q)'
  BY <1>1, <1>2, <1>3, <1>4, <1>5 DEF Knows, Going, Exists
<1> QED BY <1>2, <1>6, OnlyTheTurn

LEMMA RequestStepInv ==
    ASSUME AccountsInv, NEW q \in AccountRequests,
           \/ CheckTenant(q) \/ CheckName(q) \/ CommitConflicts(q) \/ AnswerWritten(q) \/ StatementFails(q)
           \/ CommitUnknown(q) /\ UNCHANGED users
    PROVE  AccountsInv'
<1> USE DEF Going, AccountAnswers
<1>1. Knows(q)
  BY DEF AccountsInv
<1>2. CASE CheckTenant(q)
  <2>1. CASE Reaches(q, "refused")
    BY <1>2, <2>1, ReachesInv DEF CheckTenant
  <2>2. CASE http[q].wanted.tenant \in active /\ Reaches(q, "name")
    <3>1. ~http[q].late
      BY <1>1, <1>2, <2>2 DEF CheckTenant, Knows
    <3> QED BY <1>2, <2>2, <3>1, ReachesInv DEF CheckTenant
  <2> QED BY <1>2, <2>1, <2>2 DEF CheckTenant
<1>3. CASE CheckName(q)
  <2>1. ~http[q].late
    BY <1>1, <1>3 DEF CheckName, Knows
  <2>2. CASE Reaches(q, "used")
    BY <1>3, <2>2, ReachesInv DEF CheckName
  <2>3. CASE Reaches(q, "commit")
    BY <1>3, <2>1, <2>3, ReachesInv DEF CheckName
  <2> QED BY <1>3, <2>2, <2>3 DEF CheckName
<1>4. CASE CommitConflicts(q)
  <2>0. ~http[q].late
    BY <1>1, <1>4 DEF CommitConflicts, Knows
  <2>1. CASE http[q].op = "register" /\ Reaches(q, "used")
    BY <1>4, <2>1, ReachesInv DEF CommitConflicts
  <2>2. CASE http[q].op # "register" /\ Reaches(q, "error")
    BY <1>4, <2>0, <2>2, ReachesInv DEF CommitConflicts
  <2> QED BY <1>4, <2>1, <2>2 DEF CommitConflicts
<1>5. CASE AnswerWritten(q)
  <2>1. ~http[q].late
    BY <1>1, <1>5 DEF AnswerWritten, Knows
  <2>2. CASE Reaches(q, "saved")
    BY <1>5, <2>1, <2>2, ReachesInv DEF AnswerWritten
  <2>3. CASE Reaches(q, "error")
    BY <1>5, <2>1, <2>3, ReachesInv DEF AnswerWritten
  <2> QED BY <1>5, <2>2, <2>3 DEF AnswerWritten
<1>6. CASE StatementFails(q)
  BY <1>6, ReachesInv DEF StatementFails
<1>7. CASE CommitUnknown(q) /\ UNCHANGED users
  <2>1. ~http[q].late
    BY <1>1, <1>7 DEF CommitUnknown, Knows
  <2> QED BY <1>7, <2>1, ReachesInv DEF CommitUnknown
<1> QED BY <1>2, <1>3, <1>4, <1>5, <1>6, <1>7

(* The commit takes effect, told or not: a row that conflicts with none.   *)
LEMMA CommitInv ==
    ASSUME AccountsInv, NEW q \in AccountRequests, NEW at \in {"written", "unknown"},
           http[q].at = "commit", ~Conflicts(q),
           users' = [users EXCEPT ![Account(q)] = NewRow(q)], Reaches(q, at), UNCHANGED active
    PROVE  AccountsInv'
<1> DEFINE a == Account(q)
           row == NewRow(q)
<1>0. AccountsTypeOK /\ Knows(q) /\ NamesUnique /\ http[q] \in AccountTurns
  BY DEF AccountsInv, AccountsTypeOK
<1>1. http[q].at = "commit" /\ a \in AccountRequests
  BY <1>0 DEF Account, AccountTurns
<1>2. row \in Columns
  <2>1. http[q].op = "register" => row = http[q].wanted
    BY DEF NewRow
  <2>2. http[q].op # "register" => users[http[q].self] \in Columns
    BY <1>0, <1>1 DEF Knows, Exists, AccountsTypeOK, AccountTurns, Going
  <2>3. http[q].op = "update" => row = [users[http[q].self] EXCEPT !.username = http[q].wanted.username]
    BY DEF NewRow
  <2>4. http[q].op = "email" => row = [users[http[q].self] EXCEPT !.email = http[q].wanted.email]
    BY DEF NewRow
  <2>5. http[q].wanted \in Columns /\ http[q].op \in {"register", "update", "email"}
    BY <1>0 DEF AccountTurns
  <2> QED BY <2>1, <2>2, <2>3, <2>4, <2>5 DEF Columns
<1>3. /\ ~TakenEmail(a, row.email) /\ ~TakenUsername(a, row.tenant, row.username)
      /\ users' = [users EXCEPT ![a] = row] /\ Reaches(q, at) /\ UNCHANGED active
  BY DEF Conflicts
<1> HIDE DEF a, row
<1>4. /\ users' \in [AccountRequests -> Columns \cup {NoUser}] /\ users'[a] = row
      /\ \A b \in AccountRequests \ {a} : users'[b] = users[b]
  BY <1>0, <1>1, <1>2, <1>3 DEF AccountsTypeOK
<1>5. NamesUnique'
  <2>1. \A b \in AccountRequests \ {a} :
          /\ users[b].email # row.email
          /\ users[b].tenant = row.tenant => users[b].username # row.username
    BY <1>3 DEF TakenEmail, TakenUsername
  <2>2. ASSUME NEW b \in AccountRequests, NEW c \in AccountRequests, b # c,
               users'[b] # NoUser, users'[c] # NoUser
        PROVE  /\ users'[b].email # users'[c].email
               /\ users'[b].tenant = users'[c].tenant => users'[b].username # users'[c].username
    <3>1. CASE b = a
      BY <1>4, <2>1, <2>2, <3>1
    <3>2. CASE c = a
      BY <1>4, <2>1, <2>2, <3>2
    <3>3. CASE b # a /\ c # a
      BY <1>0, <1>4, <2>2, <3>3 DEF NamesUnique, Exists
    <3> QED BY <3>1, <3>2, <3>3
  <2> QED BY <2>2 DEF NamesUnique, Exists
<1>6. /\ http' \in [AccountRequests -> AccountTurns]
      /\ \A p \in AccountRequests \ {q} : http'[p] = http[p]
      /\ http'[q].at = at /\ http'[q].op = http[q].op /\ http'[q].late = http[q].late
      /\ at = "written" => http'[q].self = http[q].self
  BY <1>0, <1>3, TurnReaches DEF Going, AccountAnswers
<1>7. AccountsTypeOK'
  BY <1>0, <1>3, <1>4, <1>6 DEF AccountsTypeOK
<1>8. users'[a] # NoUser /\ \A b \in AccountRequests : Exists(b) => Exists(b)'
  BY <1>2, <1>4, ColumnsAreRows DEF Exists
<1>9. ~http[q].late
  BY <1>0, <1>1 DEF Knows
<1>10. http[q].op # "register" => Exists(a) /\ a = http[q].self
  BY <1>0, <1>1 DEF a, Account, Knows, Going
<1>11. http[q].op = "register" => a = q
  BY DEF a, Account
<1>12. Knows(q)'
  BY <1>6, <1>8, <1>9, <1>10, <1>11 DEF Knows, Going, Exists
<1>13. ASSUME NEW p \in AccountRequests \ {q} PROVE Knows(p)'
  <2>1. Knows(p) /\ http'[p] = http[p] /\ http[p].self \in AccountRequests
    BY <1>0, <1>6, <1>13 DEF AccountsInv, AccountsTypeOK, AccountTurns
  <2>2. Exists(p)' <=> Exists(p)
    BY <1>4, <1>8, <1>10, <1>11, <1>13 DEF Exists
  <2> QED BY <1>3, <1>8, <2>1, <2>2, OthersKnow
<1> QED BY <1>5, <1>7, <1>12, <1>13 DEF AccountsInv

LEMMA SuspendInv ==
    ASSUME AccountsInv, Suspend
    PROVE  AccountsInv'
<1>1. active' \subseteq active /\ UNCHANGED <<users, http>>
  BY DEF Suspend
<1>2. AccountsTypeOK' /\ NamesUnique'
  BY <1>1 DEF AccountsInv, AccountsTypeOK, NamesUnique, Exists
<1>3. ASSUME NEW p \in AccountRequests PROVE Knows(p)'
  <2>1. Knows(p) /\ http'[p] = http[p] /\ http[p].self \in AccountRequests
    BY <1>1 DEF AccountsInv, AccountsTypeOK, AccountTurns
  <2>2. \A b \in AccountRequests : Exists(b)' <=> Exists(b)
    BY <1>1 DEF Exists
  <2> QED BY <1>1, <2>1, <2>2, OthersKnow
<1> QED BY <1>2, <1>3 DEF AccountsInv

LEMMA AccountsInvariant == AccountsSpec => []AccountsInv
<1>1. AccountsInv /\ [AccountsNext]_accountVars => AccountsInv'
  <2> SUFFICES ASSUME AccountsInv, [AccountsNext]_accountVars PROVE AccountsInv'
    OBVIOUS
  <2>1. CASE UNCHANGED accountVars
    BY <2>1 DEF accountVars, AccountsInv, AccountsTypeOK, NamesUnique, Knows, Exists
  <2>2. ASSUME NEW q \in AccountRequests,
               \/ CheckRegister(q) \/ CheckTenant(q) \/ Authorize(q) \/ CheckName(q)
               \/ CommitConflicts(q) \/ Commit(q) \/ CommitUnknown(q) \/ AnswerWritten(q) \/ StatementFails(q)
        PROVE  AccountsInv'
    <3>1. CASE Commit(q)
      BY <3>1, CommitInv DEF Commit
    <3>2. CASE CommitUnknown(q)
      BY <3>2, CommitInv, RequestStepInv DEF CommitUnknown
    <3> QED BY <2>2, <3>1, <3>2, CheckRegisterInv, AuthorizeInv, RequestStepInv
  <2> QED BY <2>1, <2>2, SuspendInv DEF AccountsNext
<1> QED BY <1>1, AccountsInitInv, PTL DEF AccountsSpec

(* No two accounts share an e-mail address, nor two of a tenant a          *)
(* username, in whatever order checks and commits of requests interleave.  *)
THEOREM NamesStayUnique == AccountsSpec => []NamesUnique
<1>1. AccountsInv => NamesUnique
  BY DEF AccountsInv
<1> QED BY <1>1, AccountsInvariant, PTL

(* A registration is told whether its account exists, unless its commit    *)
(* raised.                                                                 *)
THEOREM RegistrationsAreTold == AccountsSpec => []RegistrationIsTold
<1>1. AccountsInv => RegistrationIsTold
  BY DEF AccountsInv, Knows, RegistrationIsTold
<1> QED BY <1>1, AccountsInvariant, PTL

(* A request that came after the suspension of its tenant comes to no      *)
(* commit.                                                                 *)
THEOREM SuspensionAlwaysHolds == AccountsSpec => []SuspensionHolds
<1>1. AccountsInv => SuspensionHolds
  BY DEF AccountsInv, Knows, SuspensionHolds
<1> QED BY <1>1, AccountsInvariant, PTL

(* Together: what the account endpoints keep, for any number of requests.  *)
THEOREM AccountsStayRight == AccountsSpec => []AccountsAreRight
<1>1. AccountsInv => AccountsTypeOK
  BY DEF AccountsInv
<1>2. AccountsTypeOK /\ NamesUnique /\ RegistrationIsTold /\ SuspensionHolds => AccountsAreRight
  BY DEF AccountsAreRight
<1> QED BY <1>1, <1>2, AccountsInvariant, NamesStayUnique, RegistrationsAreTold, SuspensionAlwaysHolds, PTL

(***************************************************************************)
(* Proofs about the migration scripts, for any users, tenants and records, *)
(* and any number of runs, interruptions, writes and deletes of the app.   *)
(* A running script still has to do what is in its list of sources, in     *)
(* what is left of the source it has opened, and in the batch it has read: *)
(* NamesToGo and TenantsToGo.  Neither depends on what ran before, which   *)
(* is why a script may be run again; a delete of the app adds to lost what *)
(* it takes away.                                                          *)
(***************************************************************************)

(* What is owned is in the collection of its owner's tenant.               *)
OwnedAtTarget ==
    \A k \in Keys, r \in Records :
        versioned[k][r] = "owned" => r \in Resolvable /\ k = Target(r)

(* The script has yet to read the record r of the source k.                *)
CopyPending(k, r) == k \in script.sources \/ (k = script.source /\ r \in script.left)

(* The tenants script has yet to read or to upsert it.                     *)
MovePending(k, r) == CopyPending(k, r) \/ r \in script.batch

NamesToGo ==
    script.name = "names" =>
        \A k \in Keys : \A r \in legacy[k] :
            r \in Records => CopyPending(k, r) \/ r \in Held(k) \cup script.lost

TenantsToGo ==
    script.name = "tenants" =>
        \A k \in Keys : \A r \in Held(k) \cap Resolvable :
            MovePending(k, r) \/ r \in script.lost \/ versioned[Target(r)][r] = "owned"

OwnersKnown == ingesting \subseteq Resolvable /\ script.batch \subseteq Resolvable

MigrationInv == MigrationTypeOK /\ OwnedAtTarget /\ OwnersKnown /\ NamesToGo /\ TenantsToGo

(* A batch in hand is of a source that is still open.                      *)
BatchOpen == script.batch # {} => script.name = "tenants" /\ script.source # "none"

(* "none" names no collection.                                             *)
LEMMA NoneIsNoKey == "none" \notin Keys
  BY MigrationAssumption DEF Keys, GlobalKey

LEMMA TargetIsKey ==
    ASSUME MigrationTypeOK, NEW r \in Resolvable
    PROVE  r \in Records /\ ResolveOwner(r) \in Users /\ Target(r) \in Tenants /\ Target(r) \in Keys
<1>1. r \in Records /\ ResolveOwner(r) # "none"
  BY DEF Resolvable
<1>2. metadata[r].user_id \in Users \cup {"none"} /\ metadata[r].kb_owner \in Users \cup {"none"}
  BY <1>1 DEF MigrationTypeOK, Metadata
<1>3. ResolveOwner(r) \in {metadata[r].user_id, metadata[r].kb_owner}
  BY <1>1, <1>2 DEF ResolveOwner
<1>4. ResolveOwner(r) \in Users
  BY <1>1, <1>2, <1>3
<1> QED BY <1>1, <1>4 DEF MigrationTypeOK, Target, Keys

(* Owners and targets do not change.                                       *)
LEMMA WorldStays ==
    ASSUME UNCHANGED world
    PROVE  /\ Resolvable' = Resolvable
           /\ \A r \in Records : Target(r)' = Target(r)
  BY DEF world, Resolvable, ResolveOwner, Target

LEMMA MigrationInitInv == MigrationInit => MigrationInv
<1> SUFFICES ASSUME MigrationInit PROVE MigrationInv
  OBVIOUS
<1>1. PICK uploader \in [Records -> Users], named \in [Records -> BOOLEAN],
           kb_owner \in [Records -> Users \cup {"none"}],
           by \in {"global", "user", "tenant"}, unversioned \in SUBSET Records, current \in SUBSET Records :
        LET home(r) == CASE by = "global" -> GlobalKey
                         [] by = "user" -> uploader[r]
                         [] OTHER -> tenant_of[uploader[r]] IN
        /\ unversioned \cap current = {}
        /\ metadata = [r \in Records |-> [user_id |-> IF named[r] THEN uploader[r] ELSE "none",
                                          kb_owner |-> kb_owner[r]]]
        /\ ingesting \in SUBSET {r \in Records : kb_owner[r] = uploader[r]}
        /\ legacy = [k \in Keys |-> {r \in unversioned : home(r) = k}]
        /\ versioned = [k \in Keys |-> [r \in Records |->
                          IF r \in current /\ home(r) = k THEN "old" ELSE "absent"]]
  BY DEF MigrationInit
<1>2. tenant_of \in [Users -> Tenants]
  BY DEF MigrationInit
<1>3. metadata \in [Records -> Metadata]
  BY <1>1 DEF Metadata
<1>4. legacy \in [Keys -> SUBSET Records]
  BY <1>1
<1>5. versioned \in [Keys -> [Records -> RecordStates]]
  BY <1>1 DEF RecordStates
<1>6. \A k \in Keys, r \in Records : versioned[k][r] # "owned"
  BY <1>1
<1>7. script.name = "none" /\ script.batch = {} /\ script \in Scripts
  BY DEF MigrationInit, NoScript, Scripts
<1>8. ingesting \subseteq Records /\ ingesting \subseteq Resolvable
  <2> SUFFICES ASSUME NEW r \in ingesting PROVE r \in Records /\ ResolveOwner(r) # "none"
    BY DEF Resolvable
  <2>1. r \in Records /\ kb_owner[r] = uploader[r] /\ uploader[r] \in Users
    BY <1>1
  <2>2. metadata[r].kb_owner = uploader[r] /\ metadata[r].user_id \in {"none", uploader[r]}
    BY <1>1, <2>1
  <2>3. uploader[r] # "none"
    BY <2>1, MigrationAssumption
  <2> QED BY <2>1, <2>2, <2>3 DEF ResolveOwner
<1> QED BY <1>2, <1>3, <1>4, <1>5, <1>6, <1>7, <1>8
        DEF MigrationInv, MigrationTypeOK, Scripts, OwnedAtTarget, OwnersKnown, NamesToGo, TenantsToGo

(* A script that starts lists every collection it has work in.             *)
LEMMA StartInv ==
    ASSUME MigrationInv, StartNames \/ StartTenants
    PROVE  MigrationInv'
<1>1. UNCHANGED <<world, legacy, versioned>>
  BY DEF StartNames, StartTenants
<1>2. Resolvable' = Resolvable /\ \A r \in Records : Target(r)' = Target(r)
  BY <1>1, WorldStays
<1>3. \A k \in Keys : Held(k)' = Held(k)
  BY <1>1 DEF Held
<1>4. OwnedAtTarget'
  BY <1>1, <1>2 DEF MigrationInv, OwnedAtTarget, world
<1>5. script' \in Scripts /\ script'.batch = {}
  BY DEF StartNames, StartTenants, NoScript, Scripts, PlanRenames
<1>6. MigrationTypeOK' /\ OwnersKnown'
  BY <1>1, <1>2, <1>5 DEF MigrationInv, MigrationTypeOK, Scripts, OwnersKnown, world
<1>7. CASE StartNames
  <2>1. script'.name = "names" /\ script'.sources = PlanRenames
    BY <1>7 DEF StartNames, NoScript
  <2>2. \A k \in Keys : \A r \in legacy[k] : k \in script'.sources
    BY <2>1 DEF PlanRenames
  <2>3. NamesToGo'
    BY <1>1, <2>2 DEF NamesToGo, CopyPending
  <2>4. TenantsToGo'
    BY <2>1 DEF TenantsToGo
  <2> QED BY <1>4, <1>6, <2>3, <2>4 DEF MigrationInv
<1>8. CASE StartTenants
  <2>1. script'.name = "tenants" /\ script'.sources = {k \in Keys : Held(k) # {}}
    BY <1>8 DEF StartTenants, NoScript
  <2>2. \A k \in Keys : \A r \in Held(k)' : k \in script'.sources
    BY <1>3, <2>1
  <2>3. TenantsToGo'
    BY <2>2 DEF TenantsToGo, MovePending, CopyPending
  <2>4. NamesToGo'
    BY <2>1 DEF NamesToGo
  <2> QED BY <1>4, <1>6, <2>3, <2>4 DEF MigrationInv
<1> QED BY <1>7, <1>8

(* A step of the running script that writes nothing and forgets nothing it *)
(* still has to do.                                                        *)
LEMMA BookkeepingInv ==
    ASSUME MigrationInv, UNCHANGED <<world, legacy, versioned>>,
           script'.name # "none" => script'.name = script.name,
           script' \in Scripts, script'.batch \subseteq Resolvable,
           script'.name # "none" => script'.lost = script.lost,
           script'.name = "names" => \A k \in Keys : \A r \in legacy[k] \ Held(k) :
                                        CopyPending(k, r) => CopyPending(k, r)',
           script'.name = "tenants" => \A k \in Keys : \A r \in Held(k) \cap Resolvable :
                                        MovePending(k, r) => MovePending(k, r)'
    PROVE  MigrationInv'
<1>1. Resolvable' = Resolvable /\ \A r \in Records : Target(r)' = Target(r)
  BY WorldStays
<1>2. \A k \in Keys : Held(k)' = Held(k) /\ Held(k) \subseteq Records
  BY DEF Held
<1>3. MigrationTypeOK' /\ OwnedAtTarget' /\ OwnersKnown'
  BY <1>1 DEF MigrationInv, MigrationTypeOK, Scripts, OwnedAtTarget, OwnersKnown, world
<1>4. NamesToGo'
  <2> SUFFICES ASSUME script'.name = "names", NEW k \in Keys, NEW r \in legacy[k], r \in Records
               PROVE  CopyPending(k, r)' \/ r \in Held(k) \cup script.lost
    BY <1>2 DEF NamesToGo
  <2>1. CopyPending(k, r) \/ r \in Held(k) \cup script.lost
    BY DEF MigrationInv, NamesToGo
  <2> QED BY <2>1
<1>5. TenantsToGo'
  <2> SUFFICES ASSUME script'.name = "tenants", NEW k \in Keys, NEW r \in Held(k) \cap Resolvable
               PROVE  MovePending(k, r)' \/ r \in script.lost \/ versioned[Target(r)][r] = "owned"
    BY <1>1, <1>2 DEF TenantsToGo
  <2>1. MovePending(k, r) \/ r \in script.lost \/ versioned[Target(r)][r] = "owned"
    BY DEF MigrationInv, TenantsToGo
  <2> QED BY <2>1
<1> QED BY <1>3, <1>4, <1>5 DEF MigrationInv

LEMMA OpenSourceInv ==
    ASSUME MigrationInv, OpenSource
    PROVE  MigrationInv'
<1>1. script \in Scripts /\ script.source = "none"
  BY DEF MigrationInv, MigrationTypeOK, Scripts, OpenSource
<1>2. PICK source \in script.sources :
        script' = [script EXCEPT !.source = source, !.sources = @ \ {source},
                                 !.left = IF script.name = "names" THEN legacy[source] ELSE Held(source)]
  BY DEF OpenSource
<1>3. /\ script'.name = script.name /\ script'.source = source
      /\ script'.sources = script.sources \ {source}
      /\ script'.batch = script.batch /\ script'.lost = script.lost
      /\ script'.left = IF script.name = "names" THEN legacy[source] ELSE Held(source)
  BY <1>1, <1>2 DEF Scripts
<1>4. source \in Keys /\ legacy[source] \subseteq Records /\ Held(source) \subseteq Records
  BY <1>1, <1>2 DEF MigrationInv, MigrationTypeOK, Scripts, Held
<1>5. script' \in Scripts
  BY <1>1, <1>2, <1>4 DEF Scripts
<1>6. UNCHANGED <<world, legacy, versioned>>
  BY DEF OpenSource
<1>7. \A k \in Keys, r \in Records : CopyPending(k, r) => k \in script.sources
  BY <1>1, NoneIsNoKey DEF CopyPending
<1>8. script'.name = "names" => \A k \in Keys : \A r \in legacy[k] \ Held(k) :
          CopyPending(k, r) => CopyPending(k, r)'
  BY <1>3, <1>7 DEF MigrationInv, MigrationTypeOK, CopyPending
<1>9. script'.name = "tenants" => \A k \in Keys : \A r \in Held(k) \cap Resolvable :
          MovePending(k, r) => MovePending(k, r)'
  BY <1>3, <1>7 DEF Held, MovePending, CopyPending
<1>10. script'.batch \subseteq Resolvable
  BY <1>3 DEF MigrationInv, OwnersKnown
<1> QED BY <1>3, <1>5, <1>6, <1>8, <1>9, <1>10, BookkeepingInv

(* A collection is done or verified, or the script ends with everything or *)
(* with nothing done.                                                      *)
LEMMA CloseInv ==
    ASSUME MigrationInv, VerifyCopy \/ SourceMoved \/ VerifyMoved \/ ScriptEnds \/ Dies
    PROVE  MigrationInv'
<1>1. /\ script \in Scripts /\ UNCHANGED <<world, legacy, versioned>>
      /\ script.batch \subseteq Resolvable
  BY DEF MigrationInv, MigrationTypeOK, Scripts, OwnersKnown, VerifyCopy, SourceMoved, VerifyMoved,
         ScriptEnds, Dies
<1>2. CASE script' = NoScript
  <2>1. script' \in Scripts /\ script'.name = "none" /\ script'.batch = {}
    BY <1>2 DEF NoScript, Scripts
  <2> QED BY <1>1, <2>1, BookkeepingInv
<1>3. ASSUME script' \in Scripts, script'.name = script.name, script'.sources = script.sources,
             script'.batch = script.batch, script'.lost = script.lost,
             \/ script'.source = script.source /\ script'.left = script.left
             \/ script.left = {}
      PROVE  MigrationInv'
  <2>1. \A k \in Keys, r \in Records : CopyPending(k, r) => CopyPending(k, r)'
    BY <1>3 DEF CopyPending
  <2>2. \A k \in Keys, r \in Records : MovePending(k, r) => MovePending(k, r)'
    BY <1>3, <2>1 DEF MovePending
  <2>3. \A k \in Keys : legacy[k] \subseteq Records /\ Held(k) \subseteq Records
    BY DEF MigrationInv, MigrationTypeOK, Held
  <2> QED BY <1>1, <1>3, <2>1, <2>2, <2>3, BookkeepingInv
<1>4. CASE VerifyCopy
  <2>1. CASE script.left = {} /\ script' = [script EXCEPT !.source = "none"]
    BY <1>1, <1>3, <2>1 DEF Scripts
  <2> QED BY <1>2, <1>4, <2>1 DEF VerifyCopy
<1>5. CASE SourceMoved
  <2>1. script.left = {} /\ script' = [script EXCEPT !.source = "none", !.behind = {}]
    BY <1>5 DEF SourceMoved
  <2> QED BY <1>1, <1>3, <2>1 DEF Scripts
<1>6. CASE VerifyMoved
  <2>1. PICK ids \in SUBSET script.expected :
          script' = [script EXCEPT !.expected = @ \ ids] \/ script' = NoScript
    BY <1>6 DEF VerifyMoved
  <2>2. CASE script' = [script EXCEPT !.expected = @ \ ids]
    BY <1>1, <1>3, <2>2 DEF Scripts
  <2> QED BY <1>2, <2>1, <2>2
<1> QED BY <1>2, <1>4, <1>5, <1>6 DEF ScriptEnds, Dies

(* A page read is to be upserted.                                          *)
LEMMA ReadBatchInv ==
    ASSUME MigrationInv, ReadBatch
    PROVE  MigrationInv'
<1>1. /\ script \in Scripts /\ script.name = "tenants" /\ script.batch = {}
      /\ UNCHANGED <<world, legacy, versioned>>
  BY DEF MigrationInv, MigrationTypeOK, Scripts, ReadBatch
<1>2. PICK page \in SUBSET Records :
        script' = [script EXCEPT !.left = @ \ page, !.behind = @ \cup page,
                                 !.batch = page \cap Resolvable, !.expected = @ \cup (page \cap Resolvable)]
  <2>1. Held(script.source) \subseteq Records
    BY DEF Held
  <2> QED BY <2>1 DEF ReadBatch
<1>3. /\ script'.name = script.name /\ script'.sources = script.sources
      /\ script'.source = script.source /\ script'.left = script.left \ page
      /\ script'.batch = page \cap Resolvable /\ script'.lost = script.lost
  BY <1>1, <1>2 DEF Scripts
<1>4. script' \in Scripts
  BY <1>1, <1>2 DEF Scripts
<1>5. \A k \in Keys : \A r \in Held(k) \cap Resolvable : MovePending(k, r) => MovePending(k, r)'
  BY <1>1, <1>3 DEF MovePending, CopyPending
<1> QED BY <1>1, <1>3, <1>4, <1>5, BookkeepingInv

(* The names script: a batch is held by the versioned collection and not   *)
(* yet owned there.                                                        *)
LEMMA CopyBatchInv ==
    ASSUME MigrationInv, CopyBatch
    PROVE  MigrationInv'
<1>1. /\ script \in Scripts /\ script.name = "names" /\ UNCHANGED <<world, legacy>>
      /\ MigrationTypeOK
  BY DEF MigrationInv, MigrationTypeOK, Scripts, CopyBatch
<1>2. PICK batch \in SUBSET script.left \ {{}} :
        /\ versioned' = [versioned EXCEPT ![script.source] =
                           [r \in Records |-> IF r \in batch THEN "old" ELSE @[r]]]
        /\ script' = [script EXCEPT !.left = @ \ batch]
  BY DEF CopyBatch
<1>3. /\ script'.name = "names" /\ script'.sources = script.sources
      /\ script'.source = script.source /\ script'.left = script.left \ batch
      /\ script'.batch = script.batch /\ script'.lost = script.lost
      /\ script' \in Scripts
  BY <1>1, <1>2 DEF Scripts
<1>4. ASSUME NEW k \in Keys, NEW r \in Records
      PROVE  versioned'[k][r] = IF k = script.source /\ r \in batch THEN "old" ELSE versioned[k][r]
  BY <1>1, <1>2, <1>4 DEF MigrationTypeOK
<1>5. versioned' \in [Keys -> [Records -> RecordStates]]
  BY <1>1, <1>2 DEF MigrationTypeOK, RecordStates
<1>6. MigrationTypeOK'
  BY <1>1, <1>3, <1>5 DEF MigrationTypeOK, Scripts, world
<1>7. Resolvable' = Resolvable /\ \A r \in Records : Target(r)' = Target(r)
  BY <1>1, WorldStays
<1>8. OwnedAtTarget' /\ OwnersKnown'
  BY <1>1, <1>3, <1>4, <1>7 DEF MigrationInv, OwnedAtTarget, OwnersKnown, world
<1>9. NamesToGo'
  <2> SUFFICES ASSUME NEW k \in Keys, NEW r \in legacy[k], r \in Records
               PROVE  CopyPending(k, r)' \/ r \in Held(k)' \cup script.lost
    BY <1>1, <1>3 DEF NamesToGo
  <2>1. CopyPending(k, r) \/ r \in Held(k) \cup script.lost
    BY <1>1 DEF MigrationInv, NamesToGo
  <2>2. CASE k = script.source /\ r \in batch
    BY <1>4, <2>2 DEF Held
  <2>3. CASE ~(k = script.source /\ r \in batch)
    BY <1>3, <1>4, <2>1, <2>3 DEF Held, CopyPending
  <2> QED BY <2>2, <2>3
<1>10. TenantsToGo'
  BY <1>3 DEF TenantsToGo
<1> QED BY <1>6, <1>8, <1>9, <1>10 DEF MigrationInv

(* Records that become owned at their target, and nothing else.            *)
LEMMA OwningInv ==
    ASSUME MigrationInv, UNCHANGED <<world, legacy>>,
           NEW given \in SUBSET Resolvable,
           \A k \in Keys, r \in Records :
               versioned'[k][r] = IF r \in given /\ k = Target(r) THEN "owned" ELSE versioned[k][r],
           versioned' \in [Keys -> [Records -> RecordStates]],
           script' \in Scripts, script'.name = script.name,
           script'.batch \subseteq Resolvable, script'.lost = script.lost,
           \A k \in Keys, r \in Records : MovePending(k, r) => MovePending(k, r)' \/ r \in given,
           script.name = "names" => script' = script
    PROVE  MigrationInv'
<1>1. MigrationTypeOK /\ MigrationTypeOK'
  BY DEF MigrationInv, MigrationTypeOK, Scripts, world
<1>2. Resolvable' = Resolvable /\ \A r \in Records : Target(r)' = Target(r)
  BY WorldStays
<1>3. \A r \in Resolvable : r \in Records /\ Target(r) \in Keys
  BY <1>1, TargetIsKey
<1>4. OwnedAtTarget' /\ OwnersKnown'
  BY <1>2 DEF MigrationInv, OwnedAtTarget, OwnersKnown, world
<1>5. \A k \in Keys : Held(k) \subseteq Held(k)'
  BY DEF Held
<1>6. NamesToGo'
  <2> SUFFICES ASSUME script.name = "names", NEW k \in Keys, NEW r \in legacy[k], r \in Records
               PROVE  CopyPending(k, r)' \/ r \in Held(k)' \cup script.lost
    BY DEF NamesToGo
  <2>1. CopyPending(k, r) \/ r \in Held(k) \cup script.lost
    BY DEF MigrationInv, NamesToGo
  <2> QED BY <1>5, <2>1 DEF CopyPending
<1>7. TenantsToGo'
  <2> SUFFICES ASSUME script.name = "tenants", NEW k \in Keys, NEW r \in Held(k)' \cap Resolvable
               PROVE  MovePending(k, r)' \/ r \in script.lost \/ versioned'[Target(r)][r] = "owned"
    BY <1>2 DEF TenantsToGo, Held
  <2>1. r \in Records /\ Target(r) \in Keys
    BY <1>3
  <2>2. CASE r \in given
    BY <2>1, <2>2
  <2>3. CASE r \notin given
    <3>1. r \in Held(k)
      BY <2>1, <2>3 DEF Held
    <3>2. MovePending(k, r) \/ r \in script.lost \/ versioned[Target(r)][r] = "owned"
      BY <3>1 DEF MigrationInv, TenantsToGo
    <3> QED BY <2>1, <2>3, <3>2
  <2> QED BY <2>2, <2>3
<1> QED BY <1>1, <1>4, <1>6, <1>7 DEF MigrationInv

LEMMA MoveBatchInv ==
    ASSUME MigrationInv, MoveBatch
    PROVE  MigrationInv'
<1>1. /\ script \in Scripts /\ script.name = "tenants" /\ MigrationTypeOK /\ UNCHANGED <<world, legacy>>
      /\ script.batch \subseteq Resolvable
  BY DEF MigrationInv, MigrationTypeOK, Scripts, OwnersKnown, MoveBatch
<1>2. PICK k \in {Target(r) : r \in script.batch} :
        LET group == {r \in script.batch : Target(r) = k} IN
        /\ versioned' = [versioned EXCEPT ![k] = [r \in Records |-> IF r \in group THEN "owned" ELSE @[r]]]
        /\ script' = [script EXCEPT !.batch = @ \ group]
  BY DEF MoveBatch
<1> DEFINE group == {r \in script.batch : Target(r) = k}
<1>3. k \in Keys
  BY <1>1, TargetIsKey
<1>4. /\ script'.name = script.name /\ script'.sources = script.sources
      /\ script'.source = script.source /\ script'.left = script.left
      /\ script'.batch = script.batch \ group /\ script'.lost = script.lost
      /\ script' \in Scripts
  BY <1>1, <1>2 DEF Scripts
<1>5. group \in SUBSET Resolvable /\ \A r \in Records : r \in group => Target(r) = k
  BY <1>1
<1>6. /\ versioned' \in [Keys -> [Records -> RecordStates]]
      /\ \A l \in Keys, r \in Records :
           versioned'[l][r] = IF r \in group /\ l = k THEN "owned" ELSE versioned[l][r]
  <2> HIDE DEF group
  <2>1. versioned' = [versioned EXCEPT ![k] = [r \in Records |-> IF r \in group THEN "owned" ELSE @[r]]]
    BY <1>2 DEF group
  <2> QED BY <1>1, <1>3, <2>1 DEF MigrationTypeOK, RecordStates
<1>7. \A l \in Keys, r \in Records :
        versioned'[l][r] = IF r \in group /\ l = Target(r) THEN "owned" ELSE versioned[l][r]
  BY <1>5, <1>6
<1>8. \A l \in Keys, r \in Records : MovePending(l, r) => MovePending(l, r)' \/ r \in group
  BY <1>4 DEF MovePending, CopyPending
<1>9. script'.batch \subseteq Resolvable /\ script.name # "names"
  BY <1>1, <1>4
<1> HIDE DEF group
<1> QED BY <1>1, <1>4, <1>5, <1>6, <1>7, <1>8, <1>9, OwningInv

LEMMA AppWritesInv ==
    ASSUME MigrationInv, AppWrites
    PROVE  MigrationInv'
<1>1. /\ script \in Scripts /\ MigrationTypeOK /\ UNCHANGED <<world, legacy, script>>
      /\ ingesting \subseteq Resolvable /\ script.batch \subseteq Resolvable
  BY DEF MigrationInv, MigrationTypeOK, Scripts, OwnersKnown, AppWrites
<1>2. PICK r \in Resolvable : versioned' = [versioned EXCEPT ![Target(r)][r] = "owned"]
  BY <1>1 DEF AppWrites
<1>3. r \in Records /\ Target(r) \in Keys
  BY <1>1, TargetIsKey
<1>4. versioned' \in [Keys -> [Records -> RecordStates]]
  BY <1>1, <1>2, <1>3 DEF MigrationTypeOK, RecordStates
<1>5. \A k \in Keys, s \in Records :
        versioned'[k][s] = IF s \in {r} /\ k = Target(s) THEN "owned" ELSE versioned[k][s]
  BY <1>1, <1>2, <1>3 DEF MigrationTypeOK
<1>6. \A k \in Keys, s \in Records : MovePending(k, s) => MovePending(k, s)'
  BY <1>1 DEF MovePending, CopyPending
<1>7. {r} \in SUBSET Resolvable /\ script'.name = script.name /\ script' \in Scripts
      /\ script'.batch \subseteq Resolvable /\ script'.lost = script.lost
  BY <1>1
<1> QED BY <1>1, <1>4, <1>5, <1>6, <1>7, OwningInv

(* A delete of the app: what it deletes and what slips past the script is  *)
(* lost, everything else is as it was.                                     *)
LEMMA AppDeletesInv ==
    ASSUME MigrationInv, AppDeletes
    PROVE  MigrationInv'
<1>1. /\ script \in Scripts /\ MigrationTypeOK /\ UNCHANGED <<world, legacy>>
      /\ ingesting \subseteq Resolvable /\ script.batch \subseteq Resolvable
  BY DEF MigrationInv, MigrationTypeOK, Scripts, OwnersKnown, AppDeletes
<1>2. PICK r \in Resolvable :
        /\ versioned' = [versioned EXCEPT ![Target(r)][r] = "absent"]
        /\ IF script.name = "none" THEN UNCHANGED script
           ELSE \E slipped \in Slips(r) :
                LET paged == IF script.name = "tenants" /\ script.source = Target(r) THEN {r} ELSE {} IN
                script' = [script EXCEPT !.left = @ \ (paged \cup slipped),
                                         !.behind = (@ \ paged) \cup slipped,
                                         !.lost = @ \cup {r} \cup slipped]
  BY <1>1 DEF AppDeletes
<1>3. r \in Records /\ Target(r) \in Keys
  BY <1>1, TargetIsKey
<1>4. /\ versioned' \in [Keys -> [Records -> RecordStates]]
      /\ \A k \in Keys, s \in Records :
           versioned'[k][s] = IF k = Target(r) /\ s = r THEN "absent" ELSE versioned[k][s]
  BY <1>1, <1>2, <1>3 DEF MigrationTypeOK, RecordStates
<1>5. ASSUME script.name # "none"
      PROVE  \E gone \in SUBSET Records :
               /\ script' \in Scripts
               /\ script'.name = script.name /\ script'.sources = script.sources
               /\ script'.source = script.source /\ script'.batch = script.batch
               /\ script'.left = script.left \ gone /\ script'.lost = script.lost \cup {r} \cup gone
               /\ script.name = "names" => gone = {}
  <2>1. PICK slipped \in Slips(r) :
          LET paged == IF script.name = "tenants" /\ script.source = Target(r) THEN {r} ELSE {} IN
          script' = [script EXCEPT !.left = @ \ (paged \cup slipped),
                                   !.behind = (@ \ paged) \cup slipped,
                                   !.lost = @ \cup {r} \cup slipped]
    BY <1>2, <1>5
  <2> DEFINE paged == IF script.name = "tenants" /\ script.source = Target(r) THEN {r} ELSE {}
             gone == paged \cup slipped
  <2>2. script.left \subseteq Records
    BY <1>1 DEF Scripts
  <2>3. slipped \subseteq Records /\ (script.name = "names" => slipped = {})
    BY <2>2 DEF Slips
  <2>4. paged \subseteq {r} /\ (script.name = "names" => paged = {})
    OBVIOUS
  <2>5. script' = [script EXCEPT !.left = @ \ (paged \cup slipped),
                                 !.behind = (@ \ paged) \cup slipped,
                                 !.lost = @ \cup {r} \cup slipped]
    BY <2>1
  <2> HIDE DEF paged
  <2>6. /\ script' \in Scripts
        /\ script'.name = script.name /\ script'.sources = script.sources
        /\ script'.source = script.source /\ script'.batch = script.batch
        /\ script'.left = script.left \ gone /\ script'.lost = script.lost \cup {r} \cup slipped
    BY <1>1, <1>3, <2>3, <2>4, <2>5 DEF Scripts
  <2>7. script'.lost = script.lost \cup {r} \cup gone /\ gone \in SUBSET Records
    BY <1>3, <2>3, <2>4, <2>6
  <2>8. script.name = "names" => gone = {}
    BY <2>3, <2>4
  <2> HIDE DEF gone
  <2> QED BY <2>6, <2>7, <2>8
<1>6. Resolvable' = Resolvable /\ \A s \in Records : Target(s)' = Target(s)
  BY <1>1, WorldStays
<1>7. script' \in Scripts /\ script'.batch = script.batch /\ script'.name = script.name
  BY <1>1, <1>2, <1>5
<1>8. MigrationTypeOK'
  BY <1>1, <1>4, <1>7 DEF MigrationTypeOK, Scripts, world
<1>9. OwnedAtTarget' /\ OwnersKnown'
  BY <1>1, <1>4, <1>6, <1>7 DEF MigrationInv, OwnedAtTarget, OwnersKnown, world
<1>10. \A k \in Keys, s \in Records \ {r} : s \in Held(k)' <=> s \in Held(k)
  BY <1>4 DEF Held
<1>11. NamesToGo'
  <2> SUFFICES ASSUME script.name = "names", NEW k \in Keys, NEW s \in legacy[k], s \in Records
               PROVE  CopyPending(k, s)' \/ s \in Held(k)' \cup script'.lost
    BY <1>1, <1>7 DEF NamesToGo
  <2>1. CopyPending(k, s) \/ s \in Held(k) \cup script.lost
    BY DEF MigrationInv, NamesToGo
  <2>2. /\ script'.sources = script.sources /\ script'.source = script.source
        /\ script'.left = script.left /\ script'.lost = script.lost \cup {r}
    BY <1>5
  <2> QED BY <1>10, <2>1, <2>2 DEF CopyPending
<1>12. TenantsToGo'
  <2> SUFFICES ASSUME script.name = "tenants", NEW k \in Keys, NEW s \in Held(k)' \cap Resolvable,
                      s \notin script'.lost
               PROVE  MovePending(k, s)' \/ versioned'[Target(s)][s] = "owned"
    BY <1>6, <1>7 DEF TenantsToGo, Held
  <2>1. PICK gone \in SUBSET Records :
               /\ script'.sources = script.sources
               /\ script'.source = script.source /\ script'.batch = script.batch
               /\ script'.left = script.left \ gone /\ script'.lost = script.lost \cup {r} \cup gone
    BY <1>5
  <2>2. s \in Records \ {r} /\ s \notin gone /\ s \notin script.lost /\ Target(s) \in Keys
    BY <1>1, <2>1, TargetIsKey
  <2>3. MovePending(k, s) \/ versioned[Target(s)][s] = "owned"
    BY <1>10, <2>2 DEF MigrationInv, TenantsToGo
  <2>4. MovePending(k, s) => MovePending(k, s)'
    BY <2>1, <2>2 DEF MovePending, CopyPending
  <2>5. versioned'[Target(s)][s] = versioned[Target(s)][s]
    BY <1>4, <2>2
  <2> QED BY <2>3, <2>4, <2>5
<1> QED BY <1>8, <1>9, <1>11, <1>12 DEF MigrationInv

LEMMA MigrationStepInv == MigrationInv /\ [MigrationNext]_migrationVars => MigrationInv'
<1> SUFFICES ASSUME MigrationInv, [MigrationNext]_migrationVars PROVE MigrationInv'
  OBVIOUS
<1>1. CASE UNCHANGED migrationVars
  <2>1. /\ script \in Scripts /\ UNCHANGED <<world, legacy, versioned, script>>
        /\ script.batch \subseteq Resolvable
    BY <1>1 DEF migrationVars, world, MigrationInv, MigrationTypeOK, Scripts, OwnersKnown
  <2>2. \A k \in Keys, r \in Records : /\ CopyPending(k, r) => CopyPending(k, r)'
                                       /\ MovePending(k, r) => MovePending(k, r)'
    BY <2>1 DEF CopyPending, MovePending
  <2>3. \A k \in Keys : legacy[k] \subseteq Records /\ Held(k) \subseteq Records
    BY DEF MigrationInv, MigrationTypeOK, Held
  <2> QED BY <2>1, <2>2, <2>3, BookkeepingInv
<1> QED BY <1>1, StartInv, OpenSourceInv, CloseInv, CopyBatchInv, ReadBatchInv, MoveBatchInv, AppWritesInv,
           AppDeletesInv
        DEF MigrationNext

LEMMA MigrationInvariant == MigrationSpec => []MigrationInv
  BY MigrationInitInv, MigrationStepInv, PTL DEF MigrationSpec

(* A source is left only when its batches are upserted.                    *)
LEMMA BatchOpenInvariant == MigrationSpec => []BatchOpen
<1>1. MigrationInit => BatchOpen
  BY DEF MigrationInit, NoScript, BatchOpen
<1>2. MigrationInv /\ BatchOpen /\ [MigrationNext]_migrationVars => BatchOpen'
  <2> SUFFICES ASSUME MigrationInv, BatchOpen, [MigrationNext]_migrationVars PROVE BatchOpen'
    OBVIOUS
  <2>1. script \in Scripts
    BY DEF MigrationInv, MigrationTypeOK
  <2>2. CASE UNCHANGED script
    BY <2>2 DEF BatchOpen
  <2>3. script' = NoScript \/ StartNames \/ StartTenants => BatchOpen'
    <3>1. script' = NoScript => script'.batch = {}
      BY DEF NoScript
    <3>2. StartNames \/ StartTenants => script'.batch = {}
      BY DEF NoScript, StartNames, StartTenants
    <3> QED BY <3>1, <3>2 DEF BatchOpen
  <2>4. CASE OpenSource
    BY <2>1, <2>4 DEF BatchOpen, OpenSource, Scripts
  <2>5. CASE CopyBatch \/ VerifyCopy
    BY <2>1, <2>3, <2>5 DEF BatchOpen, CopyBatch, VerifyCopy, Scripts
  <2>6. CASE ReadBatch
    BY <2>1, <2>6 DEF BatchOpen, ReadBatch, Scripts
  <2>7. CASE MoveBatch
    BY <2>1, <2>7 DEF BatchOpen, MoveBatch, Scripts
  <2>8. CASE SourceMoved
    BY <2>1, <2>8 DEF BatchOpen, SourceMoved, Scripts
  <2>9. CASE VerifyMoved
    BY <2>1, <2>3, <2>9 DEF BatchOpen, VerifyMoved, Scripts
  <2>10. CASE AppDeletes
    BY <2>1, <2>2, <2>10 DEF BatchOpen, AppDeletes, Scripts
  <2> QED BY <2>2, <2>3, <2>4, <2>5, <2>6, <2>7, <2>8, <2>9, <2>10
          DEF MigrationNext, migrationVars, ScriptEnds, Dies, AppWrites
<1> QED BY <1>1, <1>2, MigrationInvariant, PTL DEF MigrationSpec

(* Types of the collections and of the script.                             *)
THEOREM MigrationTypeCorrect == MigrationSpec => []MigrationTypeOK
<1>1. MigrationInv => MigrationTypeOK
  BY DEF MigrationInv
<1> QED BY <1>1, MigrationInvariant, PTL

(* No script and no ingestion ever gives a record to a tenant that is not  *)
(* its uploader's and its knowledge base owner's.                          *)
THEOREM NoForeignRecords == MigrationSpec => []NoForeignRecord
<1>1. MigrationInv => NoForeignRecord
  <2> SUFFICES ASSUME MigrationInv, NEW k \in Keys, NEW r \in Records, versioned[k][r] = "owned",
                      NEW u \in {metadata[r].user_id, metadata[r].kb_owner} \ {"none"}
               PROVE  k = tenant_of[u]
    BY DEF NoForeignRecord
  <2>1. r \in Resolvable /\ k = tenant_of[ResolveOwner(r)]
    BY DEF MigrationInv, OwnedAtTarget, Target
  <2>2. ResolveOwner(r) = u
    BY <2>1 DEF Resolvable, ResolveOwner
  <2> QED BY <2>1, <2>2
<1> QED BY <1>1, MigrationInvariant, PTL

(* The names script ends with success only when it has copied every record *)
(* that the app did not delete meanwhile, whatever earlier runs of either  *)
(* script did or left undone.                                              *)
THEOREM NamesAreComplete == MigrationSpec => NamesComplete
<1>1. MigrationInv /\ [MigrationNext]_migrationVars =>
        [script.name = "names" /\ ScriptEnds =>
           \A k \in Keys : legacy[k] \subseteq Held(k) \cup script.lost]_migrationVars
  <2> SUFFICES ASSUME MigrationInv, script.name = "names", ScriptEnds,
                      NEW k \in Keys, NEW r \in legacy[k]
               PROVE  r \in Held(k) \cup script.lost
    OBVIOUS
  <2>1. script.source = "none" /\ script.sources = {}
    BY DEF ScriptEnds, AllDone
  <2>2. r \in Records
    BY DEF MigrationInv, MigrationTypeOK
  <2>3. ~CopyPending(k, r)
    BY <2>1, NoneIsNoKey DEF CopyPending
  <2> QED BY <2>2, <2>3 DEF MigrationInv, NamesToGo
<1> QED BY <1>1, MigrationInvariant, PTL DEF MigrationSpec, NamesComplete

(* The tenants script ends with success only when every record that has an *)
(* owner is owned in the collection of his tenant: all but what the app    *)
(* deleted meanwhile, and what a delete of the app let slip past it.       *)
THEOREM TenantsAreComplete == MigrationSpec => TenantsComplete
<1>1. MigrationInv /\ BatchOpen /\ [MigrationNext]_migrationVars =>
        [script.name = "tenants" /\ ScriptEnds =>
           \A k \in Keys : \A r \in (Held(k) \cap Resolvable) \ script.lost :
               versioned[Target(r)][r] = "owned"]_migrationVars
  <2> SUFFICES ASSUME MigrationInv, BatchOpen, script.name = "tenants", ScriptEnds,
                      NEW k \in Keys, NEW r \in (Held(k) \cap Resolvable) \ script.lost
               PROVE  versioned[Target(r)][r] = "owned"
    OBVIOUS
  <2>1. script.source = "none" /\ script.sources = {} /\ script.batch = {}
    BY DEF ScriptEnds, AllDone, BatchOpen
  <2>2. ~MovePending(k, r)
    BY <2>1, NoneIsNoKey DEF MovePending, CopyPending
  <2> QED BY <2>2 DEF MigrationInv, TenantsToGo
<1> QED BY <1>1, MigrationInvariant, BatchOpenInvariant, PTL DEF MigrationSpec, TenantsComplete

(* Together: what the success of either migration script means.            *)
THEOREM ScriptsAreComplete == MigrationSpec => ScriptsComplete
  BY NamesAreComplete, TenantsAreComplete DEF ScriptsComplete

(***************************************************************************)
(* Proofs about the backfill, for any number of runs and documents.  What  *)
(* a run has counted, has in hand and has left are its candidates          *)
(* together (Balance); the summaries in its name are the ones it counted   *)
(* (OwnCounted), because nobody writes in its name or over it.             *)
(***************************************************************************)
Own(s) == {d \in Documents : author[d] = s}

(* What holds of the report of a run, with its own summaries.              *)
Balance(report) ==
    report.at \in {"next", "write", "ended"} =>
      report.summarized + report.failed + report.skipped
        + Cardinality(report.left) + (IF report.at = "write" THEN 1 ELSE 0)
        = Cardinality(report.candidates)

OwnCounted(report, own) ==
    /\ report.at = "idle" => own = {} /\ report.summarized = 0 /\ report.failed = 0 /\ report.skipped = 0
    /\ report.at # "died" => report.summarized = Cardinality(own)
    /\ report.at = "ended" => report.left = {}

Correct(s) == Balance(script_run[s]) /\ OwnCounted(script_run[s], Own(s))

BackfillInv == BackfillTypeOK /\ \A s \in BackfillRuns : Correct(s)

(* Sets of documents can be counted. *)
LEMMA DocumentsFinite ==
  ASSUME NEW D, D \subseteq Documents
  PROVE  IsFiniteSet(D) /\ Cardinality(D) \in Nat
  BY DocumentsAssumption, FS_Subset, FS_CardinalityType

(* The summaries of a run that does not write stay the same. *)
LEMMA OwnStays ==
  ASSUME BackfillTypeOK, NEW s \in BackfillRuns, NEW other, other # s,
         author' = author \/ \E d \in Documents : author[d] = NoAuthor /\ author' = [author EXCEPT ![d] = other]
  PROVE  Own(s)' = Own(s)
  BY BackfillAssumption DEF Own, BackfillTypeOK

(* One run moves on, and the summaries of the others stay theirs. *)
LEMMA OneRunMoves ==
  ASSUME BackfillInv, NEW s \in BackfillRuns, NEW report \in BackfillRun,
         script_run' = [script_run EXCEPT ![s] = report],
         author' = author \/ \E d \in Documents : author[d] = NoAuthor /\ author' = [author EXCEPT ![d] = s],
         Balance(report), OwnCounted(report, Own(s)')
  PROVE  BackfillInv'
  <1>1. BackfillTypeOK'
    BY DEF BackfillInv, BackfillTypeOK
  <1>2. ASSUME NEW q \in BackfillRuns PROVE Balance(script_run'[q]) /\ OwnCounted(script_run'[q], Own(q)')
    <2>1. CASE q = s
      BY <2>1 DEF BackfillInv, BackfillTypeOK
    <2>2. CASE q # s
      <3>1. Own(q)' = Own(q) /\ script_run'[q] = script_run[q]
        BY <2>2, OwnStays DEF BackfillInv, BackfillTypeOK
      <3>2. QED
        BY <3>1 DEF BackfillInv, Correct
    <2>3. QED
      BY <2>1, <2>2
  <1>3. (\A q \in BackfillRuns : Correct(q))'
    BY <1>2 DEF Correct, Balance, OwnCounted, Own
  <1>4. QED
    BY <1>1, <1>3 DEF BackfillInv

(* Selecting the candidates begins the report. *)
LEMMA SelectKeeps ==
  ASSUME BackfillInv, NEW s \in BackfillRuns, Select(s)
  PROVE  BackfillInv'
  <1> DEFINE r == script_run[s]
  <1>1. r \in BackfillRun /\ r.at = "idle" /\ Correct(s) /\ script_run \in [BackfillRuns -> BackfillRun]
    BY DEF Select, BackfillInv, BackfillTypeOK
  <1>2. PICK candidates \in SUBSET Documents :
          script_run' = [script_run EXCEPT ![s].at = "next", ![s].candidates = candidates,
                                           ![s].left = candidates]
    BY DEF Select, Without
  <1> DEFINE report == [r EXCEPT !.at = "next", !.candidates = candidates, !.left = candidates]
  <1>3. /\ report \in BackfillRun /\ script_run' = [script_run EXCEPT ![s] = report]
        /\ report.at = "next" /\ report.left = candidates /\ report.candidates = candidates
        /\ report.summarized = r.summarized /\ report.failed = r.failed /\ report.skipped = r.skipped
    BY <1>1, <1>2 DEF BackfillRun
  <1>4. author' = author /\ Own(s)' = Own(s)
    BY DEF Select, Own
  <1>5. r.summarized = 0 /\ r.failed = 0 /\ r.skipped = 0 /\ r.summarized = Cardinality(Own(s))
    BY <1>1 DEF Correct, OwnCounted
  <1>6. Cardinality(candidates) \in Nat
    BY DocumentsFinite
  <1> HIDE DEF report
  <1>7. Balance(report) /\ OwnCounted(report, Own(s)')
    BY <1>3, <1>4, <1>5, <1>6 DEF Balance, OwnCounted
  <1>8. QED
    BY <1>3, <1>4, <1>7, OneRunMoves

(* A document taken in hand, or failed, is one less to do. *)
LEMMA SummarizeKeeps ==
  ASSUME BackfillInv, NEW s \in BackfillRuns, Summarize(s)
  PROVE  BackfillInv'
  <1> DEFINE r == script_run[s]
  <1>1. /\ r \in BackfillRun /\ r.at = "next" /\ Correct(s) /\ r.left \subseteq Documents
        /\ script_run \in [BackfillRuns -> BackfillRun]
        /\ r.summarized \in Nat /\ r.failed \in Nat /\ r.skipped \in Nat
    BY DEF Summarize, BackfillInv, BackfillTypeOK, BackfillRun
  <1>2. PICK d \in r.left :
          \/ script_run' = [script_run EXCEPT ![s].at = "write", ![s].doc = d, ![s].left = @ \ {d}]
          \/ script_run' = [script_run EXCEPT ![s].left = @ \ {d}, ![s].failed = @ + 1]
    BY DEF Summarize
  <1>3. author' = author /\ Own(s)' = Own(s)
    BY DEF Summarize, Own
  <1>4. Cardinality(r.left \ {d}) = Cardinality(r.left) - 1 /\ Cardinality(r.left) \in Nat
    BY <1>1, DocumentsFinite, FS_RemoveElement
  <1>5. CASE script_run' = [script_run EXCEPT ![s].at = "write", ![s].doc = d, ![s].left = @ \ {d}]
    <2> DEFINE report == [r EXCEPT !.at = "write", !.doc = d, !.left = @ \ {d}]
    <2>1. /\ report \in BackfillRun /\ script_run' = [script_run EXCEPT ![s] = report]
          /\ report.at = "write" /\ report.left = r.left \ {d} /\ report.candidates = r.candidates
          /\ report.summarized = r.summarized /\ report.failed = r.failed /\ report.skipped = r.skipped
      BY <1>1, <1>5 DEF BackfillRun
    <2> HIDE DEF report
    <2>2. Balance(report) /\ OwnCounted(report, Own(s)')
      BY <1>1, <1>3, <1>4, <2>1 DEF Balance, OwnCounted, Correct
    <2>3. QED
      BY <1>3, <2>1, <2>2, OneRunMoves
  <1>6. CASE script_run' = [script_run EXCEPT ![s].left = @ \ {d}, ![s].failed = @ + 1]
    <2> DEFINE report == [r EXCEPT !.left = @ \ {d}, !.failed = @ + 1]
    <2>1. /\ report \in BackfillRun /\ script_run' = [script_run EXCEPT ![s] = report]
          /\ report.at = "next" /\ report.left = r.left \ {d} /\ report.candidates = r.candidates
          /\ report.summarized = r.summarized /\ report.failed = r.failed + 1 /\ report.skipped = r.skipped
      BY <1>1, <1>6 DEF BackfillRun
    <2> HIDE DEF report
    <2>2. Balance(report) /\ OwnCounted(report, Own(s)')
      BY <1>1, <1>3, <1>4, <2>1 DEF Balance, OwnCounted, Correct
    <2>3. QED
      BY <1>3, <2>1, <2>2, OneRunMoves
  <1>7. QED
    BY <1>2, <1>5, <1>6

(* The write counts as summarized exactly when it changed the row. *)
LEMMA WriteKeeps ==
  ASSUME BackfillInv, NEW s \in BackfillRuns, Write(s)
  PROVE  BackfillInv'
  <1> DEFINE r == script_run[s]
  <1>1. /\ r \in BackfillRun /\ r.at = "write" /\ Correct(s) /\ r.doc \in Documents
        /\ script_run \in [BackfillRuns -> BackfillRun]
        /\ author \in [Documents -> BackfillRuns \cup {"worker", NoAuthor}]
        /\ r.summarized \in Nat /\ r.failed \in Nat /\ r.skipped \in Nat
        /\ r.left \subseteq Documents
    BY DEF Write, BackfillInv, BackfillTypeOK, BackfillRun
  <1>2. Cardinality(r.left) \in Nat /\ IsFiniteSet(Own(s)) /\ Cardinality(Own(s)) \in Nat
    BY <1>1, DocumentsFinite DEF Own
  <1>3. CASE author[r.doc] = NoAuthor
    <2> DEFINE report == [r EXCEPT !.at = "next", !.summarized = @ + 1]
    <2>1. /\ report \in BackfillRun /\ script_run' = [script_run EXCEPT ![s] = report]
          /\ report.at = "next" /\ report.left = r.left /\ report.candidates = r.candidates
          /\ report.summarized = r.summarized + 1 /\ report.failed = r.failed /\ report.skipped = r.skipped
      BY <1>1, <1>3 DEF Write, BackfillRun
    <2>2. author' = [author EXCEPT ![r.doc] = s]
      BY <1>3 DEF Write
    <2>3. Own(s)' = Own(s) \cup {r.doc} /\ r.doc \notin Own(s)
      BY <1>1, <1>3, <2>2, BackfillAssumption DEF Own
    <2>4. Cardinality(Own(s)') = Cardinality(Own(s)) + 1
      BY <1>2, <2>3, FS_AddElement
    <2> HIDE DEF report
    <2>5. Balance(report) /\ OwnCounted(report, Own(s)')
      BY <1>1, <1>2, <2>1, <2>4 DEF Balance, OwnCounted, Correct
    <2>6. QED
      BY <1>1, <1>3, <2>1, <2>2, <2>5, OneRunMoves
  <1>4. CASE author[r.doc] # NoAuthor
    <2> DEFINE report == [r EXCEPT !.at = "next", !.skipped = @ + 1]
    <2>1. /\ report \in BackfillRun /\ script_run' = [script_run EXCEPT ![s] = report]
          /\ report.at = "next" /\ report.left = r.left /\ report.candidates = r.candidates
          /\ report.summarized = r.summarized /\ report.failed = r.failed /\ report.skipped = r.skipped + 1
      BY <1>1, <1>4 DEF Write, BackfillRun
    <2>2. author' = author /\ Own(s)' = Own(s)
      BY <1>4 DEF Write, Own
    <2> HIDE DEF report
    <2>3. Balance(report) /\ OwnCounted(report, Own(s)')
      BY <1>1, <1>2, <2>1, <2>2 DEF Balance, OwnCounted, Correct
    <2>4. QED
      BY <2>1, <2>2, <2>3, OneRunMoves
  <1>5. QED
    BY <1>3, <1>4

(* A run that dies reports nothing; one that ends has nothing left. *)
LEMMA EndKeeps ==
  ASSUME BackfillInv, NEW s \in BackfillRuns, RunDies(s) \/ RunEnds(s)
  PROVE  BackfillInv'
  <1> DEFINE r == script_run[s]
  <1>1. /\ r \in BackfillRun /\ Correct(s) /\ r.doc \in Documents
        /\ script_run \in [BackfillRuns -> BackfillRun]
    BY DEF BackfillInv, BackfillTypeOK, BackfillRun
  <1>2. CASE RunDies(s)
    <2> DEFINE report == [r EXCEPT !.at = "died"]
    <2>1. report \in BackfillRun /\ script_run' = [script_run EXCEPT ![s] = report] /\ report.at = "died"
      BY <1>1, <1>2 DEF RunDies, BackfillRun
    <2>2. author' = author \/ \E d \in Documents : author[d] = NoAuthor /\ author' = [author EXCEPT ![d] = s]
      BY <1>1, <1>2 DEF RunDies
    <2> HIDE DEF report
    <2>3. QED
      BY <2>1, <2>2, OneRunMoves DEF Balance, OwnCounted
  <1>3. CASE RunEnds(s)
    <2> DEFINE report == [r EXCEPT !.at = "ended"]
    <2>1. /\ report \in BackfillRun /\ script_run' = [script_run EXCEPT ![s] = report] /\ report.at = "ended"
          /\ report.left = r.left /\ report.candidates = r.candidates
          /\ report.summarized = r.summarized /\ report.failed = r.failed /\ report.skipped = r.skipped
      BY <1>1, <1>3 DEF RunEnds, BackfillRun
    <2>2. r.at = "next" /\ r.left = {} /\ author' = author /\ Own(s)' = Own(s)
      BY <1>3 DEF RunEnds, Own
    <2> HIDE DEF report
    <2>3. Balance(report) /\ OwnCounted(report, Own(s)')
      BY <1>1, <2>1, <2>2 DEF Balance, OwnCounted, Correct
    <2>4. QED
      BY <2>1, <2>2, <2>3, OneRunMoves
  <1>4. QED
    BY <1>2, <1>3

(* The worker writes in no run's name. *)
LEMMA WorkerKeeps == BackfillInv /\ WorkerWrites => BackfillInv'
  <1> SUFFICES ASSUME BackfillInv, WorkerWrites PROVE BackfillInv'
    OBVIOUS
  <1>1. PICK d \in Documents : author[d] = NoAuthor /\ author' = [author EXCEPT ![d] = "worker"]
    BY DEF WorkerWrites, Without
  <1>2. script_run' = script_run /\ BackfillTypeOK'
    BY <1>1 DEF WorkerWrites, BackfillInv, BackfillTypeOK
  <1>3. ASSUME NEW s \in BackfillRuns PROVE Own(s)' = Own(s)
    BY <1>1, BackfillAssumption, OwnStays DEF BackfillInv
  <1>4. QED
    BY <1>2, <1>3 DEF BackfillInv, Correct

(* The sum a report states. *)
LEMMA ReportAdds ==
  ASSUME BackfillInv, NEW s \in BackfillRuns, script_run[s].at = "ended"
  PROVE  /\ script_run[s].summarized + script_run[s].failed + script_run[s].skipped
              = Cardinality(script_run[s].candidates)
         /\ script_run[s].summarized = Cardinality(Own(s))
  <1>1. script_run[s] \in BackfillRun /\ Correct(s)
    BY DEF BackfillInv, BackfillTypeOK
  <1>2. Cardinality({}) = 0
    BY FS_EmptySet
  <1>3. /\ script_run[s].left = {} /\ script_run[s].summarized \in Nat
        /\ script_run[s].failed \in Nat /\ script_run[s].skipped \in Nat
    BY <1>1 DEF Correct, OwnCounted, BackfillRun
  <1>4. QED
    BY <1>1, <1>2, <1>3 DEF Correct, Balance, OwnCounted

(* Overlapping runs and the ingestion worker write over no summary, and    *)
(* every run that ends claims the summaries that are its own, no more and  *)
(* no fewer: the guarded update of backfill_document_summaries.py is all   *)
(* the synchronization they need.                                          *)
THEOREM BackfillIsSafe == BackfillSpec => BackfillIsRight
  <1>1. BackfillInit => BackfillInv
    <2> SUFFICES ASSUME BackfillInit PROVE BackfillInv
      OBVIOUS
    <2>1. BackfillTypeOK
      BY DocumentsAssumption DEF BackfillInit, BackfillTypeOK, BackfillRun
    <2>2. ASSUME NEW s \in BackfillRuns PROVE Correct(s)
      <3>1. Own(s) = {}
        BY BackfillAssumption DEF BackfillInit, Own
      <3>2. script_run[s].at = "idle" /\ script_run[s].summarized = 0
            /\ script_run[s].failed = 0 /\ script_run[s].skipped = 0
        BY DEF BackfillInit
      <3>3. QED
        BY <3>1, <3>2, FS_EmptySet DEF Correct, Balance, OwnCounted
    <2>3. QED
      BY <2>1, <2>2 DEF BackfillInv
  <1>2. BackfillInv /\ [BackfillNext]_backfillVars => BackfillInv'
    <2>1. BackfillInv /\ UNCHANGED backfillVars => BackfillInv'
      BY DEF backfillVars, BackfillInv, BackfillTypeOK, Correct, Own
    <2>2. QED
      BY <2>1, SelectKeeps, SummarizeKeeps, WriteKeeps, EndKeeps, WorkerKeeps DEF BackfillNext
  <1>3. BackfillInv => BackfillTypeOK /\ ReportIsTrue
    BY ReportAdds DEF BackfillInv, ReportIsTrue, Own
  <1>4. BackfillInv /\ [BackfillNext]_backfillVars
          => [\A d \in Documents : author[d] # NoAuthor => author'[d] = author[d]]_backfillVars
    BY DEF BackfillInv, BackfillTypeOK, BackfillRun, BackfillNext, WorkerWrites, Without, Select,
           Summarize, Write, RunDies, RunEnds
  <1>5. QED
    BY <1>1, <1>2, <1>3, <1>4, PTL DEF BackfillSpec, BackfillIsRight, SummaryStays
==============================================================================
