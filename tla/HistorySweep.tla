---------------------------- MODULE HistorySweep ----------------------------
(* The history sweep (internal/sync/history_sweep.go): a slow pass over the  *)
(* ids of every type that fetches the tombstones that no ?since= fetch       *)
(* returns any more. Its windows are staged by the cycles of the worker next *)
(* to the normal fetch, its progress commits with their rows, and its memo   *)
(* of the windows sent lives in the process. Upstream changes between the    *)
(* normal fetch and any window.                                              *)
EXTENDS Integers, FiniteSetsExt

CONSTANTS
    Types,      \* the object types that the sweep fetches
    Step,       \* the place of a type in canonicalStepOrder
    Width,      \* the ids in a window of a type; 0 fetches the whole type
    AllStatuses,\* the types whose windows leave out status=deleted
    Rows,       \* the rows of all types
    TypeOf,     \* the type of a row
    IdOf,       \* the id of a row within its type
    Budget,     \* HistoryMaxRequestsPerCycle
    TTL,        \* historyMemoTTL
    Start,      \* the upstream time of the first state
    Begin,      \* bound: the first states, upstream, mirror and the finished types
    Changing,   \* bound: the rows that upstream changes
    MaxClock,   \* bound: the upstream changes
    MaxFaults   \* bound: the failed requests, reads and cycles, the crashes, and
                \* the sweeps that an operator restarts

ASSUME SweepAssumption ==
    /\ Step \in [Types -> Nat] /\ \A s, t \in Types : Step[s] = Step[t] => s = t
    /\ Width \in [Types -> Nat]
    /\ AllStatuses \subseteq Types
    /\ TypeOf \in [Rows -> Types] /\ IdOf \in [Rows -> Nat \ {0}]
    /\ {Budget, TTL, Start} \subseteq Nat \ {0}
    /\ {MaxClock, MaxFaults} \subseteq Nat /\ Start <= MaxClock
    /\ IsFiniteSet(Types) /\ IsFiniteSet(Rows) /\ Rows # {}

VARIABLES
    clock,    \* the upstream clock: every change has a second of its own
    up,       \* the rows upstream
    mirror,   \* the rows of the database
    progress, \* sync_history_sweep
    memo,     \* historyMemo: the time for which a window is not sent again
    place,    \* where the cycle is: idle, fetched, sweep, swept
    restart,  \* withHistoryRestart
    staged,   \* the rows in the scratch DB
    fresh,    \* the empty types that the normal fetch staged rows of, until
              \* the sweep has seen them
    work,     \* historySweep.progress
    queue,    \* the types that the sweep still has to look at
    spent,    \* historySweep.requests
    faults,   \* the faults so far
    late      \* the types that got rows while they were marked done

cycle == <<place, restart, staged, fresh, work, queue, spent>>
vars == <<clock, up, mirror, progress, memo, cycle, faults, late>>

None == [live |-> FALSE, updated |-> 0]
Unswept == [next |-> 0, done |-> FALSE, left |-> 0, rank |-> 0]

RowsOf(t) == {r \in Rows : TypeOf[r] = t}
Newest(table, t) == Max({table[r].updated : r \in RowsOf(t)} \cup {0})

(* The first states, as earlier cycles leave them: what the mirror has are   *)
(* earlier versions, and what it lacks below the cursor are tombstones of    *)
(* types that are not done.                                                  *)
Lacks(table, copy, r) ==
    table[r] # None /\ table[r].updated <= Newest(copy, TypeOf[r]) /\ copy[r] # table[r]

ASSUME BeginAssumption ==
    \A b \in Begin :
        /\ b.up \in [Rows -> [live : BOOLEAN, updated : 0..Start]]
        /\ b.mirror \in [Rows -> [live : BOOLEAN, updated : 0..Start]]
        /\ b.done \subseteq Types
        /\ \A r \in Rows :
             /\ b.up[r].updated = 0 => b.up[r] = None
             /\ b.mirror[r].updated <= b.up[r].updated
             /\ b.mirror[r].updated = b.up[r].updated => b.mirror[r] = b.up[r]
             /\ Lacks(b.up, b.mirror, r) => ~b.up[r].live /\ TypeOf[r] \notin b.done

(* GetMaxUpdated and maxStoredID, on the committed rows.                     *)
Cursor(t) == Newest(mirror, t)
MaxId(t) == Max({IdOf[r] : r \in {s \in RowsOf(t) : mirror[s] # None}} \cup {0})

-----------------------------------------------------------------------------
(* Upstream: a row is created, edited, deleted or restored.                  *)
Change(r) ==
    /\ r \in Changing
    /\ clock < MaxClock
    /\ clock' = clock + 1
    /\ \E live \in BOOLEAN :
         /\ live \/ up[r].live
         /\ up' = [up EXCEPT ![r] = [live |-> live, updated |-> clock']]
    /\ UNCHANGED <<mirror, progress, memo, cycle, faults, late>>

-----------------------------------------------------------------------------
(* The normal fetch of an incremental cycle: ?since=<cursor>, or for an      *)
(* empty type the live rows and what changed after the newest of them.       *)
LiveNewest(t) == Max({up[r].updated : r \in {s \in RowsOf(t) : up[s].live}} \cup {0})

NormalFetch(t) ==
    {r \in RowsOf(t) :
        IF Cursor(t) = 0
        THEN LiveNewest(t) # 0 /\ (up[r].live \/ up[r].updated > LiveNewest(t))
        ELSE up[r].updated > Cursor(t)}

Fetch(again) ==
    /\ place = "idle"
    /\ again => faults < MaxFaults
    /\ faults' = IF again THEN faults + 1 ELSE faults
    /\ restart' = again
    /\ staged' = [r \in Rows |-> IF r \in NormalFetch(TypeOf[r]) THEN up[r] ELSE None]
    /\ fresh' = {t \in Types : Cursor(t) = 0 /\ NormalFetch(t) # {}}
    /\ place' = "fetched"
    /\ UNCHANGED <<clock, up, mirror, progress, memo, work, queue, spent, late>>

-----------------------------------------------------------------------------
(* The sweep.                                                                *)

BeginSweep ==
    /\ place = "fetched"
    /\ work' = IF restart THEN [t \in Types |-> Unswept] ELSE progress
    /\ queue' = Types
    /\ spent' = 0
    /\ place' = "sweep"
    /\ UNCHANGED <<clock, up, mirror, progress, memo, restart, staged, fresh, faults, late>>

(* readHistoryProgress fails: the cycle goes on without a sweep.             *)
SkipSweep ==
    /\ place = "fetched"
    /\ ~restart
    /\ faults < MaxFaults
    /\ faults' = faults + 1
    /\ work' = progress
    /\ place' = "swept"
    /\ UNCHANGED <<clock, up, mirror, progress, memo, restart, staged, fresh, queue, spent,
                   late>>

(* Mutant: the finished types keep the order of the steps.                   *)
BeforeByStep(s, t) ==
    \/ ~work[s].done /\ work[t].done
    \/ work[s].done = work[t].done /\ Step[s] < Step[t]

(* windowOrder: the unfinished types, then the oldest checks.                *)
Before(s, t) ==
    \/ ~work[s].done /\ work[t].done
    \/ ~work[s].done /\ ~work[t].done /\ Step[s] < Step[t]
    \/ work[s].done /\ work[t].done /\ work[s].rank < work[t].rank

AtType(t) == place = "sweep" /\ t \in queue /\ \A s \in queue \ {t} : Before(t, s)

(* Mutant: the window that reaches the last id is not the last one.          *)
IsLastLate(t, from) == Width[t] = 0 \/ from > MaxId(t)

(* nextHistoryWindow, and the whole feed of an empty type.                   *)
IsLast(t, from) == Width[t] = 0 \/ from + Width[t] > MaxId(t)

From(t) == IF Cursor(t) = 0 THEN 1 ELSE Max({work[t].next, 1})
Window(t) ==
    [type |-> t, from |-> From(t),
     to |-> IF Cursor(t) = 0 \/ IsLast(t, From(t)) THEN 0 ELSE From(t) + Width[t],
     whole |-> Cursor(t) = 0 /\ t \notin AllStatuses]

(* The entries of the memo; a window that is not in it may be sent.          *)
Sent(w) == \E e \in memo : e.window = w

CheckedAgain(t) == Cursor(t) = 0 /\ work[t].done /\ (work[t].left > 0 \/ Sent(Window(t)))

(* A type that has nothing to sweep.                                         *)
PassType(t) ==
    /\ AtType(t)
    /\ \/ work[t].done /\ Cursor(t) # 0
       \/ CheckedAgain(t) /\ t \notin fresh
    /\ queue' = queue \ {t}
    /\ UNCHANGED <<clock, up, mirror, progress, memo, place, restart, staged, fresh, work, spent,
                   faults, late>>

Reopened(t) == IF work[t].done THEN [work EXCEPT ![t] = Unswept] ELSE work

(* zero_cursor: the normal commit establishes the cursor first.              *)
WaitForCursor(t) ==
    /\ AtType(t)
    /\ t \in fresh
    /\ work' = Reopened(t)
    /\ fresh' = fresh \ {t}
    /\ place' = "swept"
    /\ UNCHANGED <<clock, up, mirror, progress, memo, restart, staged, queue, spent, faults,
                   late>>

Wanted(t) == AtType(t) /\ t \notin fresh /\ (~work[t].done \/ (Cursor(t) = 0 /\ ~CheckedAgain(t)))

(* budget, memo, or the end of the types.                                    *)
StopSweep ==
    /\ \/ \E t \in queue : Wanted(t) /\ (spent = Budget \/ Sent(Window(t)))
       \/ place = "sweep" /\ queue = {}
    /\ place' = "swept"
    /\ UNCHANGED <<clock, up, mirror, progress, memo, restart, staged, fresh, work, queue, spent,
                   faults, late>>

Send(t) ==
    /\ Wanted(t)
    /\ spent < Budget
    /\ ~Sent(Window(t))
    /\ memo' = memo \cup {[window |-> Window(t), left |-> TTL]}
    /\ spent' = spent + 1

(* Mutant: the window stages whatever it returns.                            *)
KeptWhole(t, w) ==
    {r \in RowsOf(t) : /\ up[r] # None /\ (w.whole \/ t \in AllStatuses \/ ~up[r].live)
                       /\ IdOf[r] >= w.from /\ (w.to # 0 => IdOf[r] < w.to)}

(* The rows of a window that are staged: for a populated type none that is   *)
(* newer than the newest row of its table.                                   *)
Kept(t, w) ==
    {r \in RowsOf(t) : /\ up[r] # None /\ (w.whole \/ t \in AllStatuses \/ ~up[r].live)
                       /\ IdOf[r] >= w.from /\ (w.to # 0 => IdOf[r] < w.to)
                       /\ Cursor(t) # 0 => up[r].updated <= Cursor(t)}

(* The progress after a window, checked last of all types.                   *)
Advanced(t) ==
    LET ended == Cursor(t) = 0 \/ IsLast(t, From(t))
    IN  [work EXCEPT ![t] =
            [next |-> IF ended THEN From(t) ELSE From(t) + Width[t], done |-> ended, left |-> TTL,
             rank |-> Max({work[s].rank : s \in Types}) + 1]]

WindowArrives(t) ==
    /\ Send(t)
    /\ staged' = [r \in Rows |->
                    IF r \in Kept(t, Window(t)) /\ up[r].updated > staged[r].updated
                    THEN up[r] ELSE staged[r]]
    /\ work' = Advanced(t)
    /\ place' = IF work'[t].done THEN "swept" ELSE "sweep"
    /\ UNCHANGED <<clock, up, mirror, progress, restart, fresh, queue, faults, late>>

(* Mutant: a failed window counts as swept.                                  *)
AfterFailureAdvanced(t) == Advanced(t)

AfterFailure(t) == work

(* A failed window rolls its rows back and ends the sweep of the cycle.      *)
WindowFails(t) ==
    /\ Send(t)
    /\ faults < MaxFaults
    /\ faults' = faults + 1
    /\ work' = AfterFailure(t)
    /\ place' = "swept"
    /\ UNCHANGED <<clock, up, mirror, progress, restart, staged, fresh, queue, late>>

-----------------------------------------------------------------------------
(* The end of the cycle.                                                     *)

(* Checks compare by their times; the ranks only keep their order.           *)
Ranked(p) ==
    [t \in Types |->
        IF p[t].done
        THEN [p[t] EXCEPT !.rank = Cardinality({s \in Types : p[s].done /\ p[s].rank <= @})]
        ELSE [next |-> p[t].next, done |-> FALSE, left |-> 0, rank |-> 0]]

EndCycle ==
    /\ place' = "idle"
    /\ restart' = FALSE
    /\ staged' = [r \in Rows |-> None]
    /\ fresh' = {} /\ queue' = {} /\ spent' = 0
    /\ work' = [t \in Types |-> Unswept]

(* The rows and the progress commit together (writeHistoryProgress).         *)
Commit ==
    /\ place = "swept"
    /\ mirror' = [r \in Rows |->
                    IF staged[r].updated > mirror[r].updated THEN staged[r] ELSE mirror[r]]
    /\ progress' = Ranked(work)
    /\ late' = {t \in late \cup fresh : work[t].done}
    /\ EndCycle
    /\ UNCHANGED <<clock, up, memo, faults>>

(* A cycle that fails keeps only the memo; a crash loses it too.             *)
FailCycle ==
    /\ place # "idle"
    /\ faults < MaxFaults
    /\ faults' = faults + 1
    /\ memo' \in {memo, {}}
    /\ EndCycle
    /\ UNCHANGED <<clock, up, mirror, progress, late>>

Older(left) == IF left > 0 THEN left - 1 ELSE 0

(* Time passes between the cycles; sweepHistory drops the expired entries.   *)
Tick ==
    /\ place = "idle"
    /\ memo # {} \/ \E t \in Types : progress[t].left > 0
    /\ memo' = {[e EXCEPT !.left = @ - 1] : e \in {d \in memo : d.left > 1}}
    /\ progress' = [t \in Types |-> [progress[t] EXCEPT !.left = Older(@)]]
    /\ UNCHANGED <<clock, up, mirror, cycle, faults, late>>

-----------------------------------------------------------------------------
Init ==
    /\ clock = Start
    /\ \E b \in Begin :
         /\ up = b.up /\ mirror = b.mirror
         /\ progress = Ranked([t \in Types |->
               IF t \in b.done THEN [next |-> 1, done |-> TRUE, left |-> 0, rank |-> Step[t]]
               ELSE Unswept])
    /\ memo = {}
    /\ place = "idle" /\ restart = FALSE
    /\ staged = [r \in Rows |-> None]
    /\ fresh = {} /\ queue = {} /\ spent = 0
    /\ work = [t \in Types |-> Unswept]
    /\ faults = 0 /\ late = {}

Sweep ==
    \/ BeginSweep \/ SkipSweep \/ StopSweep
    \/ \E t \in Types : PassType(t) \/ WaitForCursor(t) \/ WindowArrives(t) \/ WindowFails(t)

Next ==
    \/ \E r \in Rows : Change(r)
    \/ \E again \in BOOLEAN : Fetch(again)
    \/ Sweep \/ Commit \/ FailCycle \/ Tick

Spec == Init /\ [][Next]_vars

(* The scheduler starts cycles for ever, every cycle ends, time passes.      *)
FairSpec ==
    /\ Spec
    /\ WF_vars(\E again \in BOOLEAN : Fetch(again))
    /\ WF_vars(Sweep) /\ WF_vars(Commit) /\ SF_vars(Tick)

-----------------------------------------------------------------------------
Versions == [live : BOOLEAN, updated : 0..MaxClock]
Ids == {IdOf[r] : r \in Rows}
Progress == [next : 0..Max(Ids), done : BOOLEAN, left : 0..TTL, rank : 0..Cardinality(Types) + Budget]
Windows == [type : Types, from : 1..Max(Ids), to : 0..Max(Ids), whole : BOOLEAN]

(* Every variable has its type; the progress stays within the ids of a type. *)
TypeOK ==
    /\ clock \in Start..MaxClock
    /\ up \in [Rows -> Versions] /\ mirror \in [Rows -> Versions] /\ staged \in [Rows -> Versions]
    /\ progress \in [Types -> Progress] /\ work \in [Types -> Progress]
    /\ memo \subseteq [window : Windows, left : 1..TTL]
    /\ place \in {"idle", "fetched", "sweep", "swept"}
    /\ restart \in BOOLEAN
    /\ fresh \subseteq Types /\ queue \subseteq Types /\ late \subseteq Types
    /\ spent \in 0..Budget
    /\ faults \in 0..MaxFaults

Behind(r) == Lacks(up, mirror, r)

(* The sweep never moves the cursor of a type past a live row that the next  *)
(* ?since= fetch has yet to return, however upstream changes between the     *)
(* normal fetch and the windows of a cycle (stageHistoryWindow's cursor).    *)
NoLiveRowBehind == \A r \in Rows : up[r].live => ~Behind(r)

Swept(r) == progress[TypeOf[r]].done \/ IdOf[r] < progress[TypeOf[r]].next

(* The stored progress is true after failed windows, failed cycles, crashes  *)
(* and restarts: below it the mirror has every tombstone up to the cursor.   *)
(* Left out is a type that the sweep did not look at in the cycle in which   *)
(* it stopped being empty: stageHistoryWindows reopens it in that cycle only.*)
ProgressIsTrue == \A r \in Rows : Swept(r) /\ TypeOf[r] \notin late => ~Behind(r)

(* When upstream is quiet and the faults end, the mirror reaches upstream,   *)
(* the tombstones of types without a live row included: no type starves      *)
(* behind the request budget, the memo or the checks of another (windowOrder)*)
Converges == \A r \in Rows : <>[](mirror[r] = up[r] \/ TypeOf[r] \in late)

=============================================================================
