----------------------------- MODULE FkBackfill -----------------------------
(* The replay of the staged rows inside the sync transaction and the FK      *)
(* backfill that it calls (internal/sync/fk_backfill.go, the foreign key     *)
(* checks of worker.go and registry.go). A row whose required parent is      *)
(* missing makes the worker ask upstream for the parent, in batches, under a *)
(* budget of requests and a deadline, and for the parents of that parent by  *)
(* recursion: the call stack is a variable. Rows have one version here:      *)
(* versions and watermarks are MirrorSync's matter.                          *)
EXTENDS Integers, Sequences, FiniteSets

CONSTANTS
    Keys,           \* the rows that exist: <<type, id>>, the fkBackfillKey
    Steps,          \* the types in step order, parents first
    ByName,         \* the same types in alphabetical order
    Required,       \* the parents a row cannot be stored without
    Optional,       \* the parents whose reference can be NULL
    StagedPrefetch, \* the types whose optional parents are fetched up front (fac)
    Cap,            \* fkBackfillRequestCap
    BatchSize,      \* FetchByIDsBatchSize
    ChunkSize,      \* scratchChunkSize
    Fetches,        \* what the fetch pass of a cycle can stage
    Purgeable,      \* the rows that upstream may have removed for good
    MaxCycles       \* bound: the cycles that start

TypeOf(k) == k[1]
Id(k) == k[2]
Place(types, t) == CHOOSE i \in DOMAIN types : types[i] = t

ASSUME RowsAssumption ==
    /\ IsFiniteSet(Keys)
    /\ Steps \in Seq({TypeOf(k) : k \in Keys})
    /\ \A k \in Keys : \E i \in DOMAIN Steps : Steps[i] = TypeOf(k)
    /\ \A i, j \in DOMAIN Steps : Steps[i] = Steps[j] => i = j
    /\ \A k \in Keys : TypeOf(k) \in {ByName[i] : i \in DOMAIN ByName}
    /\ Required \in [Keys -> SUBSET Keys]
    /\ Optional \in [Keys -> SUBSET Keys]
    /\ \A k \in Keys : \A p \in Required[k] \cup Optional[k] :
           Place(Steps, TypeOf(p)) < Place(Steps, TypeOf(k))
ASSUME BudgetAssumption ==
    /\ Cap \in Nat
    /\ BatchSize \in Nat \ {0}
    /\ ChunkSize \in Nat \ {0}
    /\ Fetches \subseteq SUBSET Keys
    /\ Purgeable \subseteq Keys
    /\ MaxCycles \in Nat

VARIABLES
    db,       \* the committed rows
    tx,       \* the rows as the sync transaction sees them
    upstream, \* the rows that a ?since=1&id__in= request returns, live or deleted
    staged,   \* the rows that the fetch pass put into scratch
    step,     \* the step whose type is replayed
    place,    \* where the replay is: idle, type, chunk, rows
    left,     \* the staged rows of the type that no chunk has read yet
    chunk,    \* the rows of the chunk that the filter has not seen yet
    kept,     \* the rows that the filter kept, with the parents they refer to
    stack,    \* the calls of fkBackfillBatch that have not returned
    tried,    \* fkBackfillTried
    missing,  \* fkMissing
    count,    \* fkBackfillRequestCount
    late,     \* fkBackfillDeadline has passed
    cycles,   \* the number of cycles so far
    asked,    \* history: how often the cycle asked upstream for each row
    sent,     \* history: the requests of the cycle
    excused,  \* history: rows not obtained for another reason than their absence
    nulled    \* history: the optional references that the filter set to NULL

replay == <<step, place, left, chunk, kept>>
budget == <<tried, missing, count, late>>
history == <<asked, sent, excused, nulled>>
vars == <<db, tx, upstream, staged, replay, stack, budget, cycles, history>>

-----------------------------------------------------------------------------
(* The parts of fkBackfillBatch.                                             *)

(* fkHasParent: the registry and the presence cache only hold rows that the  *)
(* transaction holds too, and nothing is deleted while rows are replayed.    *)
Absent(keys) == keys \ tx

(* Mutant: ids are not filtered by the tried set.                            *)
RemainingAll(ids) == ids

Remaining(ids) == ids \ tried

RequestsLeft == IF count < Cap THEN Cap - count ELSE 0

Requests(n) == (n + BatchSize - 1) \div BatchSize

(* part is the prefix of at most n rows of keys in the order of their ids.   *)
IsPrefix(part, keys, n) ==
    /\ part \subseteq keys
    /\ Cardinality(part) <= n
    /\ part = keys \/ Cardinality(part) = n
    /\ \A k \in part, other \in keys \ part : Id(k) < Id(other)

(* Mutant: the parents of the rows that a batch returned are not looked at.  *)
NoGrandparents(rows) == {}

Grandparents(rows) == Absent(UNION {Required[r] : r \in rows})

(* The references of a row that is stored: nullMissingOptionalFKs and        *)
(* nullOptionalFK set the others to NULL.                                    *)
StoredReferences(r) == Required[r] \cup (Optional[r] \cap tx)

Top == stack[Len(stack)]
Below == SubSeq(stack, 1, Len(stack) - 1)
Frame(rows, parents) == [rows |-> rows, parents |-> parents]
Push(frames, frame) == Append(frames, frame)

(* fkBackfillBatch up to its recursion, called with the frames below it.     *)
Batch(below, ids) ==
    LET remaining == Remaining(ids)
    IN  \/ /\ remaining = {}
           /\ stack' = below
           /\ UNCHANGED <<tried, count, asked, sent, excused>>
        \/ /\ remaining # {}
           /\ late
           /\ tried' = tried \cup remaining
           /\ excused' = excused \cup remaining
           /\ stack' = below
           /\ UNCHANGED <<count, asked, sent>>
        \/ /\ remaining # {}
           /\ ~late
           /\ tried' = tried \cup remaining
           /\ \E fetch \in SUBSET remaining :
                /\ IsPrefix(fetch, remaining, RequestsLeft * BatchSize)
                /\ count' = count + Requests(Cardinality(fetch))
                /\ sent' = sent + (Cardinality(fetch) + BatchSize - 1) \div BatchSize
                /\ asked' = [k \in Keys |-> asked[k] + IF k \in fetch THEN 1 ELSE 0]
                /\ \/ /\ fetch # {}
                      /\ stack' = Push(below, Frame(fetch \cap upstream,
                                                    Grandparents(fetch \cap upstream)))
                      /\ excused' = excused \cup (remaining \ fetch)
                   \/ /\ stack' = below
                      /\ excused' = excused \cup remaining

-----------------------------------------------------------------------------
(* The cycle.                                                                *)

(* Mutant: the negative cache outlives its cycle.                            *)
ResetFKStateKeepsMissing ==
    /\ tried' = {}
    /\ count' = 0
    /\ late' = FALSE
    /\ UNCHANGED missing

ResetFKState ==
    /\ tried' = {}
    /\ missing' = {}
    /\ count' = 0
    /\ late' = FALSE

StartCycle ==
    /\ place = "idle"
    /\ cycles < MaxCycles
    /\ cycles' = cycles + 1
    /\ staged' \in Fetches
    /\ \E gone \in SUBSET Purgeable : upstream' = Keys \ gone
    /\ place' = "type"
    /\ ResetFKState
    /\ UNCHANGED <<db, tx, step, left, chunk, kept, stack, history>>

StagedOf(t) == {k \in staged : TypeOf(k) = t}

(* The frame of a pre-pass lands no rows of its own.                         *)
Prefetch(parents) ==
    IF Cap > 0 THEN Push(<<>>, Frame({}, Absent(parents))) ELSE <<>>

BeginType ==
    /\ place = "type"
    /\ step <= Len(Steps)
    /\ left' = StagedOf(Steps[step])
    /\ stack' = IF Steps[step] \in StagedPrefetch
                THEN Prefetch(UNION {Optional[k] : k \in StagedOf(Steps[step])})
                ELSE <<>>
    /\ place' = "chunk"
    /\ UNCHANGED <<db, tx, upstream, staged, step, chunk, kept, budget, cycles, history>>

BeginChunk ==
    /\ place = "chunk"
    /\ stack = <<>>
    /\ left # {}
    /\ \E rows \in SUBSET left :
         /\ IsPrefix(rows, left, ChunkSize)
         /\ chunk' = rows
         /\ left' = left \ rows
         /\ stack' = Prefetch(UNION {Required[r] : r \in rows})
    /\ place' = "rows"
    /\ UNCHANGED <<db, tx, upstream, staged, step, kept, budget, cycles, history>>

EndType ==
    /\ place = "chunk"
    /\ stack = <<>>
    /\ left = {}
    /\ step' = step + 1
    /\ place' = "type"
    /\ UNCHANGED <<db, tx, upstream, staged, left, chunk, kept, stack, budget, cycles, history>>

(* The next parent type of the innermost call, in the order of the names.    *)
Recurse ==
    /\ stack # <<>>
    /\ \E t \in {TypeOf(p) : p \in Top.parents} :
         /\ \A p \in Top.parents : Place(ByName, t) <= Place(ByName, TypeOf(p))
         /\ LET ids == {p \in Top.parents : TypeOf(p) = t}
            IN  Batch(Push(Below, Frame(Top.rows, Top.parents \ ids)), ids)
    /\ UNCHANGED <<db, tx, upstream, staged, replay, missing, late, cycles, nulled>>

(* The innermost call upserts the rows that upstream returned and that have  *)
(* their required parents by now; bad rows do not decode or do not upsert.   *)
Land ==
    /\ stack # <<>>
    /\ Top.parents = {}
    /\ \E bad \in SUBSET Top.rows :
         /\ tx' = tx \cup {r \in Top.rows \ bad : StoredReferences(r) \subseteq tx}
         /\ excused' = excused \cup bad
    /\ stack' = Below
    /\ UNCHANGED <<db, upstream, staged, replay, budget, cycles, asked, sent, nulled>>

-----------------------------------------------------------------------------
(* The filter of a chunk, row by row in the order of the ids.                *)

(* Mutant: the filter looks at one required parent only.                     *)
AbsentFirst(r) == Absent({p \in Required[r] : Id(p) = 1})

AbsentRequired(r) == Absent(Required[r])

(* The parents that fkBackfillParent is called for before the row is settled.*)
ToTry(r) ==
    IF Cap = 0 \/ AbsentRequired(r) \cap missing # {} THEN {}
    ELSE IF AbsentRequired(r) # {} THEN AbsentRequired(r)
    ELSE Absent(Optional[r]) \ missing

NextRow(r) ==
    /\ place = "rows"
    /\ stack = <<>>
    /\ r \in chunk
    /\ \A other \in chunk : Id(r) <= Id(other)

(* fkBackfillParent: a batch of one, then the negative cache.                *)
CheckParent(r, k) ==
    /\ NextRow(r)
    /\ k \in ToTry(r)
    /\ \/ k \notin tried /\ Batch(<<>>, {k}) /\ UNCHANGED missing
       \/ /\ k \in tried
          /\ missing' = missing \cup {k}
          /\ UNCHANGED <<stack, tried, count, asked, sent, excused>>
    /\ UNCHANGED <<db, tx, upstream, staged, replay, late, cycles, nulled>>

KeepRow(r) ==
    /\ NextRow(r)
    /\ ToTry(r) = {}
    /\ AbsentRequired(r) = {}
    /\ kept' = kept \cup {<<r, StoredReferences(r)>>}
    /\ nulled' = nulled \cup {<<r, p>> : p \in Absent(Optional[r])}
    /\ chunk' = chunk \ {r}
    /\ UNCHANGED <<db, tx, upstream, staged, step, place, left, stack, budget, cycles,
                   asked, sent, excused>>

DropRow(r) ==
    /\ NextRow(r)
    /\ ToTry(r) = {}
    /\ AbsentRequired(r) # {}
    /\ chunk' = chunk \ {r}
    /\ UNCHANGED <<db, tx, upstream, staged, step, place, left, kept, stack, budget, cycles,
                   history>>

UpsertChunk ==
    /\ place = "rows"
    /\ stack = <<>>
    /\ chunk = {}
    /\ tx' = tx \cup {e[1] : e \in kept}
    /\ kept' = {}
    /\ place' = "chunk"
    /\ UNCHANGED <<db, upstream, staged, step, left, chunk, stack, budget, cycles, history>>

-----------------------------------------------------------------------------
AtCommit == place = "type" /\ step > Len(Steps)

(* What only the cycle knows is gone at its end; the FK state stays until    *)
(* the next one resets it.                                                   *)
EndCycle ==
    /\ place' = "idle"
    /\ tx' = db'
    /\ staged' = {} /\ left' = {} /\ chunk' = {} /\ kept' = {} /\ stack' = <<>>
    /\ step' = 1
    /\ asked' = [k \in Keys |-> 0] /\ sent' = 0 /\ excused' = {} /\ nulled' = {}
    /\ UNCHANGED <<upstream, budget, cycles>>

Commit ==
    /\ AtCommit
    /\ db' = tx
    /\ EndCycle

(* Any other error, a crash or a lost lease rolls the transaction back.      *)
RollBack ==
    /\ place # "idle"
    /\ UNCHANGED db
    /\ EndCycle

DeadlinePasses ==
    /\ place # "idle"
    /\ ~late
    /\ late' = TRUE
    /\ UNCHANGED <<db, tx, upstream, staged, replay, stack, tried, missing, count, cycles, history>>

Init ==
    /\ db = {} /\ tx = {} /\ upstream = Keys /\ staged = {}
    /\ step = 1 /\ place = "idle" /\ left = {} /\ chunk = {} /\ kept = {}
    /\ stack = <<>> /\ tried = {} /\ missing = {} /\ count = 0 /\ late = FALSE
    /\ cycles = 0
    /\ asked = [k \in Keys |-> 0] /\ sent = 0 /\ excused = {} /\ nulled = {}

Next ==
    \/ StartCycle \/ BeginType \/ BeginChunk \/ EndType
    \/ Recurse \/ Land
    \/ \E r \in Keys : \/ \E k \in Keys : CheckParent(r, k)
                       \/ KeepRow(r)
                       \/ DropRow(r)
    \/ UpsertChunk \/ Commit \/ RollBack \/ DeadlinePasses

Spec == Init /\ [][Next]_vars

-----------------------------------------------------------------------------
(* The values that the variables take.                                       *)
TypeOK ==
    /\ db \subseteq Keys /\ tx \subseteq Keys /\ upstream \subseteq Keys /\ staged \subseteq Keys
    /\ step \in 1..(Len(Steps) + 1)
    /\ place \in {"idle", "type", "chunk", "rows"}
    /\ left \subseteq Keys /\ chunk \subseteq Keys
    /\ kept \subseteq Keys \X SUBSET Keys
    /\ stack \in Seq([rows : SUBSET Keys, parents : SUBSET Keys])
    /\ tried \subseteq Keys /\ missing \subseteq tried
    /\ count \in Nat /\ late \in BOOLEAN
    /\ cycles \in 0..MaxCycles
    /\ asked \in [Keys -> Nat] /\ sent \in Nat
    /\ excused \subseteq Keys /\ nulled \subseteq Keys \X Keys

(* A cycle sends at most Cap backfill requests, however deep it recurses, and *)
(* asks for a row at most once (the tried set and the request count of        *)
(* fkBackfillBatch, which the recursion and the filter share).                *)
RequestBudget == sent <= Cap /\ \A k \in Keys : asked[k] <= 1

(* A row that is stored, or that the filter of the chunk kept for the bulk    *)
(* upsert, has every parent it refers to in the transaction: no statement     *)
(* fails on a foreign key, which would roll the whole cycle back.             *)
NoDanglingReference ==
    /\ \A r \in tx : Required[r] \subseteq tx
    /\ \A e \in kept : e[2] \subseteq tx

(* Lost[k]: there is a reason outside the worker why the row k is not in the  *)
(* transaction: upstream no longer has it, its request failed, came too late  *)
(* or exceeded the cap, or the same holds for a parent it needs.              *)
Lost[k \in Keys] ==
    \/ k \notin upstream
    \/ k \in excused
    \/ \E p \in Required[k] \ tx : Lost[p]

(* At the commit of a cycle, every staged row that was dropped misses a       *)
(* parent that is lost, and every optional reference that was set to NULL is  *)
(* to a lost parent: backfill gives up on nothing that it could have had.     *)
EveryLossExplained ==
    (AtCommit /\ Cap > 0) =>
        /\ \A r \in staged \ tx : \E p \in Required[r] \ tx : Lost[p]
        /\ \A e \in nulled : Lost[e[2]]
=============================================================================
