--------------------------- MODULE NetIxLanCascade ---------------------------
(* The netixlan cascade and the verification of its candidates               *)
(* (internal/sync/netixlan_verify.go, netixlan_cascade.go, the netixlan gate *)
(* of upsert.go). Upstream can remove the netixlans of a deleted network     *)
(* without tombstones; the worker asks upstream about the live rows that it  *)
(* still has under a deleted network, remembers the answers, and marks the   *)
(* rows deleted in the sync transaction. Upstream changes between any two    *)
(* requests, and between the plan and the transaction.                       *)
EXTENDS SyncCursor

CONSTANTS
    Rows,        \* the netixlan ids
    Nets,        \* the network ids
    NetOf,       \* the network of a netixlan
    Poison,      \* the rows that fail every request they are part of
    Cursor0,     \* the newest `updated` of the netixlans that are not in Rows
    MaxRequests, \* min(netIxLanVerifyMaxRequests, fkBackfillRequestCap)
    ChunkSizes,  \* the ids of a request after no, one, and more failures
    LiveTTL,     \* netIxLanVerifyLiveTTL
    GoneTTL,     \* netIxLanVerifyGoneTTL
    Backoff,     \* netIxLanVerifyFailureBackoff
    MaxClock,    \* bound: the upstream changes
    MaxFaults,   \* bound: the requests that fail though no row is poisonous
    MaxFailures  \* bound: the failures that a memo entry counts

ASSUME CascadeAssumption ==
    /\ Rows \subseteq Nat
    /\ NetOf \in [Rows -> Nets]
    /\ Poison \subseteq Rows
    /\ {MaxRequests, LiveTTL, GoneTTL, Backoff} \subseteq Nat \ {0}
    /\ {MaxClock, MaxFaults, MaxFailures} \subseteq Nat
    /\ Cursor0 \in 2..MaxClock
    /\ ChunkSizes \in [0..2 -> Nat \ {0}]

VARIABLES
    clock,      \* the upstream clock: it moves with every change
    up,         \* the netixlans upstream: live, deleted (a tombstone) or absent
    upNet,      \* the networks upstream
    listed,     \* the live rows of the bare list in upstream's API cache
    nix,        \* the committed netixlans
    net,        \* the committed networks
    memo,       \* netIxLanVerifyMemo, with the time that an entry has left
    place,      \* where the worker is: boot, idle, nets, fetched, verify, planned
    mode,       \* the mode of the run: incremental, full or startup
    scratchNet, \* the staged networks
    scratchNix, \* the staged netixlans
    canStage,   \* there is a scratch DB and the netixlan cursor is known
    pending,    \* the candidates that the pass still has to ask about
    requests,   \* the requests of the pass
    prevOK,     \* the request before succeeded
    gone,       \* the plan: the rows found gone
    rirNets,    \* the plan: the networks that the RIR reclaim deleted
    faults      \* the faults so far

upstream == <<clock, up, upNet>>
committed == <<nix, net>>
pass == <<pending, requests, prevOK, gone>>
vars == <<upstream, listed, committed, memo, place, mode, scratchNet, scratchNix, canStage,
          pass, rirNets, faults>>

NoRow == [live |-> FALSE, updated |-> 0]
NoNet == [deleted |-> FALSE, updated |-> 0, rir |-> FALSE]
NoEntry == [outcome |-> "none", updated |-> 0, netUpdated |-> 0, left |-> 0, failures |-> 0]

-----------------------------------------------------------------------------
(* Upstream. Its own rules, as the comments of the code rely on them: a      *)
(* delete of a network deletes its live netixlans, with tombstones or, in    *)
(* the RIR reclaim, without; no row is saved under a deleted network; an     *)
(* absent row never returns. Old data can hold live rows under a network     *)
(* that was deleted long ago.                                                *)

LiveOf(n) == {i \in Rows : NetOf[i] = n /\ up[i].status = "live"}
TombstonesOf(n) == {i \in Rows : NetOf[i] = n /\ up[i].status = "deleted"}
At(status, t) == [status |-> status, updated |-> t]

UpstreamChange(n) ==
    /\ clock < MaxClock
    /\ clock' = clock + 1
    /\ \/ /\ ~upNet[n].deleted
          /\ upNet' = [upNet EXCEPT ![n] = [deleted |-> TRUE, updated |-> clock', rir |-> FALSE]]
          /\ up' = [i \in Rows |-> IF i \in LiveOf(n) THEN At("deleted", clock') ELSE up[i]]
       \/ /\ ~upNet[n].deleted
          /\ upNet' = [upNet EXCEPT ![n] = [deleted |-> TRUE, updated |-> clock', rir |-> TRUE]]
          /\ up' = [i \in Rows |-> IF i \in LiveOf(n) THEN At("absent", 0) ELSE up[i]]
       \/ /\ upNet[n].deleted
          /\ upNet' = [upNet EXCEPT ![n] = [deleted |-> FALSE, updated |-> clock', rir |-> FALSE]]
          /\ \E back \in SUBSET TombstonesOf(n) :
                up' = [i \in Rows |-> IF i \in back THEN At("live", clock') ELSE up[i]]
       \/ /\ upNet[n].deleted
          /\ upNet' = [upNet EXCEPT ![n].updated = clock']
          /\ UNCHANGED up
    /\ UNCHANGED <<listed, committed, memo, place, mode, scratchNet, scratchNix, canStage, pass,
                   rirNets, faults>>

-----------------------------------------------------------------------------
(* The fetch pass of a cycle, as far as the cascade reads it: networks       *)
(* first, netixlans later. A ?since= window returns the rows after its       *)
(* start, and those of the start's own second that changed late in it.       *)

NixCursor == Max({nix[i].updated : i \in Rows} \cup {Cursor0})
NetCursor == Max({net[n].updated : n \in Nets})
NixCutoff == Max({listed[i] : i \in Rows} \cup {Cursor0})

SentSince(t, since, tie) == t > since \/ (tie /\ t = since)

FetchNets(m) ==
    /\ place = "idle"
    /\ mode' = m
    /\ scratchNet' = [n \in Nets |->
           IF SentSince(upNet[n].updated, NetCursor, TRUE) THEN upNet[n] ELSE NoNet]
    /\ place' = "nets"
    /\ UNCHANGED <<upstream, listed, committed, memo, scratchNix, canStage, pass, rirNets, faults>>

Window(since, tie) ==
    {i \in Rows : up[i].status # "absent" /\ SentSince(up[i].updated, since, tie)}

UpstreamRow(i) == [live |-> up[i].status = "live", updated |-> up[i].updated]
LiveTimes == [i \in Rows |-> IF up[i].status = "live" THEN up[i].updated ELSE 0]

(* A full cycle reads the bare list, which upstream may serve from its API   *)
(* cache, and then a window that starts no later than the list.              *)
FetchNetIxLans ==
    /\ place = "nets"
    /\ listed' \in IF mode = "full" THEN {listed, LiveTimes} ELSE {listed}
    /\ \E tie \in BOOLEAN :
         LET since == IF mode = "full" THEN SnapshotWindowStart(NixCursor, NixCutoff')
                      ELSE NixCursor
         IN  scratchNix' = [i \in Rows |->
                 IF i \in Window(since, tie) THEN UpstreamRow(i)
                 ELSE [live |-> mode = "full" /\ listed'[i] > 0,
                       updated |-> IF mode = "full" THEN listed'[i] ELSE 0]]
    /\ place' = "fetched"
    /\ UNCHANGED <<upstream, committed, memo, mode, scratchNet, canStage, pass, rirNets, faults>>

-----------------------------------------------------------------------------
(* The verification pass.                                                    *)

(* cascadeCandidatesSQL, on the committed rows.                              *)
Candidates ==
    {i \in Rows : /\ net[NetOf[i]].deleted
                  /\ nix[i].live
                  /\ nix[i].updated <= net[NetOf[i]].updated}

(* Mutant: an entry outlives a later change of the network.                  *)
EntryAppliesToRow(i) ==
    /\ memo[i].outcome # "none"
    /\ i \in Candidates
    /\ memo[i].updated = nix[i].updated

EntryApplies(i) ==
    /\ memo[i].outcome # "none"
    /\ i \in Candidates
    /\ memo[i].updated = nix[i].updated
    /\ memo[i].netUpdated = net[NetOf[i]].updated

Honoured(i) == EntryApplies(i) /\ memo[i].left > 0

BeginVerify ==
    /\ \/ place = "fetched" /\ canStage' \in BOOLEAN /\ UNCHANGED mode
       \/ place = "boot" /\ mode' = "startup" /\ canStage' = FALSE
    /\ memo' = [i \in Rows |-> IF EntryApplies(i) THEN memo[i] ELSE NoEntry]
    /\ gone' = {i \in Candidates : Honoured(i) /\ memo[i].outcome = "gone"}
    /\ pending' = {i \in Candidates : ~Honoured(i)}
    /\ requests' = 0
    /\ prevOK' = FALSE
    /\ rirNets' \in IF place = "boot" THEN {{}}
                    ELSE {{}, {n \in Nets : /\ scratchNet[n].deleted /\ scratchNet[n].rir
                                            /\ ~net[n].deleted}}
    /\ place' = "verify"
    /\ UNCHANGED <<upstream, listed, committed, scratchNet, scratchNix, faults>>

FailuresOf(i) == IF memo[i].outcome = "failed" THEN memo[i].failures ELSE 0

(* Mutant: the ids of a failed request are sent together again.              *)
SameChunkSize(failures) == ChunkSizes[0]

ChunkSize(failures) == ChunkSizes[IF failures < 2 THEN failures ELSE 2]

(* netIxLanVerifyChunks: ids of one size, the fewest failures first.         *)
Before(i, j) ==
    \/ FailuresOf(i) < FailuresOf(j)
    \/ FailuresOf(i) = FailuresOf(j) /\ i < j

NextChunk ==
    LET first == CHOOSE i \in pending : \A j \in pending \ {i} : Before(i, j)
        size == ChunkSize(FailuresOf(first))
        class == {i \in pending : ChunkSize(FailuresOf(i)) = size}
    IN  {i \in class : Cardinality({j \in class : Before(j, i)}) < size}

Entry(i, outcome, left, failures) ==
    [outcome |-> outcome, updated |-> nix[i].updated, netUpdated |-> net[NetOf[i]].updated,
     left |-> left, failures |-> failures]

(* The rows whose upstream tombstone no ?since fetch returns again.          *)
Staged(chunk) ==
    IF canStage THEN {i \in chunk : up[i].status = "deleted" /\ up[i].updated <= NixCursor}
    ELSE {}

(* The rows of a chunk that the answer puts into the plan, and those whose   *)
(* gone verdict is remembered.                                               *)
GoneVerdicts(chunk) ==
    {i \in chunk : \/ up[i].status = "absent"
                   \/ up[i].status = "deleted" /\ canStage /\ up[i].updated > NixCursor}

VerifySucceeds(chunk) ==
    /\ chunk \cap Poison = {}
    /\ gone' = gone \cup GoneVerdicts(chunk) \cup Staged(chunk)
    /\ memo' = [i \in Rows |->
                  IF i \notin chunk THEN memo[i]
                  ELSE IF i \in GoneVerdicts(chunk) THEN Entry(i, "gone", GoneTTL, 0)
                  ELSE IF up[i].status = "live" THEN Entry(i, "live", LiveTTL, 0)
                  ELSE NoEntry]
    /\ scratchNix' = [i \in Rows |->
                        IF i \in Staged(chunk) THEN [live |-> FALSE, updated |-> up[i].updated]
                        ELSE scratchNix[i]]
    /\ pending' = pending \ chunk
    /\ prevOK' = TRUE
    /\ UNCHANGED faults

VerifyFails(chunk) ==
    /\ \/ chunk \cap Poison # {} /\ UNCHANGED faults
       \/ chunk \cap Poison = {} /\ faults < MaxFaults /\ faults' = faults + 1
    /\ memo' = [i \in Rows |->
                  IF i \notin chunk THEN memo[i]
                  ELSE Entry(i, "failed", Backoff, Min({FailuresOf(i) + 1, MaxFailures}))]
    /\ pending' = IF prevOK THEN pending \ chunk ELSE {}
    /\ prevOK' = FALSE
    /\ UNCHANGED <<gone, scratchNix>>

(* A 429, a WAF block, no response: the pass stops and remembers nothing.    *)
VerifyStops ==
    /\ faults < MaxFaults
    /\ faults' = faults + 1
    /\ pending' = {}
    /\ UNCHANGED <<memo, gone, scratchNix, prevOK>>

VerifyChunk ==
    /\ place = "verify"
    /\ pending # {}
    /\ requests < MaxRequests
    /\ requests' = requests + 1
    /\ VerifySucceeds(NextChunk) \/ VerifyFails(NextChunk) \/ VerifyStops
    /\ UNCHANGED <<upstream, listed, committed, place, mode, scratchNet, canStage, rirNets>>

EndVerify ==
    /\ place = "verify"
    /\ pending = {} \/ requests = MaxRequests
    /\ place' = "planned"
    /\ pending' = {} /\ requests' = 0 /\ prevOK' = FALSE /\ canStage' = FALSE
    /\ UNCHANGED <<upstream, listed, committed, memo, mode, scratchNet, scratchNix, gone,
                   rirNets, faults>>

-----------------------------------------------------------------------------
(* The transaction.                                                          *)

(* skipUnchangedPredicate: a full cycle also rewrites rows with an equal     *)
(* updated, and rows that are older than the whole list.                     *)
GatePasses(old, new, cutoff) ==
    /\ new.updated > 0
    /\ \/ new.updated > old.updated
       \/ mode = "full" /\ (new.updated = old.updated \/ old.updated < cutoff)

(* netIxLanUpsertPredicate.                                                  *)
NetIxLanGatePasses(old, new) ==
    /\ GatePasses(old, new, NixCutoff)
    /\ old.live \/ ~new.live \/ new.updated # old.updated

UpsertedNets ==
    IF mode = "startup" THEN net
    ELSE [n \in Nets |-> IF GatePasses(net[n], scratchNet[n], 0) THEN scratchNet[n] ELSE net[n]]

UpsertedNetIxLans ==
    IF mode = "startup" THEN nix
    ELSE [i \in Rows |-> IF NetIxLanGatePasses(nix[i], scratchNix[i]) THEN scratchNix[i] ELSE nix[i]]

(* Mutant: the cascade trusts its plan and checks nothing again.             *)
CascadesPlan(i, row, network) ==
    row.live /\ (i \in gone \/ NetOf[i] \in rirNets)

(* cascadeVerifiedSQL and cascadeRIRNetsSQL, on the rows after the upserts.  *)
Cascades(i, row, network) ==
    /\ row.live
    /\ i \in gone \/ NetOf[i] \in rirNets
    /\ network.deleted
    /\ row.updated <= network.updated

(* Mutant: the plan outlives the run that made it.                           *)
DiscardRunButPlan ==
    /\ scratchNet' = [n \in Nets |-> NoNet]
    /\ scratchNix' = [i \in Rows |-> NoRow]
    /\ pending' = {} /\ requests' = 0 /\ prevOK' = FALSE /\ canStage' = FALSE
    /\ mode' = "incremental"
    /\ UNCHANGED <<gone, rirNets>>

(* What a run keeps to itself: the scratch DB, the pass and the plan.        *)
DiscardRun ==
    /\ scratchNet' = [n \in Nets |-> NoNet]
    /\ scratchNix' = [i \in Rows |-> NoRow]
    /\ gone' = {} /\ rirNets' = {}
    /\ pending' = {} /\ requests' = 0 /\ prevOK' = FALSE /\ canStage' = FALSE
    /\ mode' = "incremental"

Commit ==
    /\ place = "planned"
    /\ net' = UpsertedNets
    /\ nix' = [i \in Rows |->
                 LET row == UpsertedNetIxLans[i]
                 IN  IF Cascades(i, row, net'[NetOf[i]])
                     THEN [live |-> FALSE, updated |-> row.updated] ELSE row]
    /\ DiscardRun
    /\ place' = "idle"
    /\ UNCHANGED <<upstream, listed, memo, faults>>

(* An error of the cycle: the plan and the scratch DB go, the memo stays.    *)
FailRun ==
    /\ place \notin {"boot", "idle"}
    /\ faults < MaxFaults
    /\ faults' = faults + 1
    /\ DiscardRun
    /\ place' = "idle"
    /\ UNCHANGED <<upstream, listed, committed, memo>>

(* A crash loses the memo; the next process verifies once at startup, unless *)
(* a cycle holds the latch by then.                                          *)
Crash ==
    /\ place # "boot"
    /\ faults < MaxFaults
    /\ faults' = faults + 1
    /\ DiscardRun
    /\ memo' = [i \in Rows |-> NoEntry]
    /\ place' = "boot"
    /\ UNCHANGED <<upstream, listed, committed>>

SkipStartup ==
    /\ place = "boot"
    /\ place' = "idle"
    /\ UNCHANGED <<upstream, listed, committed, memo, mode, scratchNet, scratchNix, canStage,
                   pass, rirNets, faults>>

(* Time passes between the runs.                                             *)
Tick ==
    /\ place = "idle"
    /\ \E i \in Rows : memo[i].left > 0
    /\ memo' = [i \in Rows |-> [memo[i] EXCEPT !.left = IF @ > 0 THEN @ - 1 ELSE 0]]
    /\ UNCHANGED <<upstream, listed, committed, place, mode, scratchNet, scratchNix, canStage,
                   pass, rirNets, faults>>

-----------------------------------------------------------------------------
Init ==
    /\ clock = Cursor0
    /\ upNet \in [Nets -> {[deleted |-> FALSE, updated |-> 1, rir |-> FALSE],
                           [deleted |-> TRUE, updated |-> 2, rir |-> FALSE]}]
    /\ up \in [Rows -> {At("live", 1), At("deleted", 1), At("deleted", 2), At("absent", 0)}]
    /\ \A i \in Rows : ~upNet[NetOf[i]].deleted => up[i].updated = 1
    /\ net = upNet
    /\ nix = [i \in Rows |-> [live |-> up[i] # At("deleted", 1), updated |-> 1]]
    /\ listed = LiveTimes
    /\ memo = [i \in Rows |-> NoEntry]
    /\ place = "boot" /\ mode = "incremental"
    /\ scratchNet = [n \in Nets |-> NoNet] /\ scratchNix = [i \in Rows |-> NoRow]
    /\ canStage = FALSE /\ pending = {} /\ requests = 0 /\ prevOK = FALSE
    /\ gone = {} /\ rirNets = {} /\ faults = 0

Next ==
    \/ \E n \in Nets : UpstreamChange(n)
    \/ \E m \in {"incremental", "full"} : FetchNets(m)
    \/ FetchNetIxLans \/ BeginVerify \/ VerifyChunk \/ EndVerify
    \/ Commit \/ FailRun \/ Crash \/ SkipStartup \/ Tick

Spec == Init /\ [][Next]_vars

(* The scheduler starts cycles for ever, a started step ends, time passes,   *)
(* and the netixlan cursor is not unreadable for ever.                       *)
FairSpec ==
    /\ Spec
    /\ WF_vars(\E m \in {"incremental", "full"} : FetchNets(m))
    /\ WF_vars(FetchNetIxLans) /\ WF_vars(BeginVerify) /\ SF_vars(BeginVerify /\ canStage')
    /\ WF_vars(VerifyChunk) /\ WF_vars(EndVerify) /\ WF_vars(Commit) /\ SF_vars(Tick)

-----------------------------------------------------------------------------
Times == 0..MaxClock

(* Every variable has its type, and a plan exists only in the run that made  *)
(* it (cascadePlan is a local of the cycle).                                 *)
TypeOK ==
    /\ clock \in Times
    /\ up \in [Rows -> [status : {"live", "deleted", "absent"}, updated : Times]]
    /\ upNet \in [Nets -> [deleted : BOOLEAN, updated : Times, rir : BOOLEAN]]
    /\ listed \in [Rows -> Times]
    /\ nix \in [Rows -> [live : BOOLEAN, updated : Times]]
    /\ net \in [Nets -> [deleted : BOOLEAN, updated : Times, rir : BOOLEAN]]
    /\ memo \in [Rows -> [outcome : {"none", "live", "gone", "failed"}, updated : Times,
                          netUpdated : Times, left : 0..Max({LiveTTL, GoneTTL, Backoff}),
                          failures : 0..MaxFailures]]
    /\ place \in {"boot", "idle", "nets", "fetched", "verify", "planned"}
    /\ mode \in {"incremental", "full", "startup"}
    /\ scratchNet \in [Nets -> [deleted : BOOLEAN, updated : Times, rir : BOOLEAN]]
    /\ scratchNix \in [Rows -> [live : BOOLEAN, updated : Times]]
    /\ canStage \in BOOLEAN
    /\ pending \subseteq Rows
    /\ requests \in 0..MaxRequests
    /\ prevOK \in BOOLEAN
    /\ gone \subseteq Rows
    /\ rirNets \subseteq Nets
    /\ faults \in 0..MaxFaults
    /\ place \notin {"verify", "planned"} => gone = {} /\ rirNets = {}

(* A verdict that is used again without a request is still what upstream     *)
(* would answer for the stored version of the row, unless the network has    *)
(* changed upstream since its stored version: that change drops the entry as *)
(* soon as the mirror stores it (runNetIxLanVerification, the memo key).     *)
MemoTrue ==
    \A i \in Rows :
        Honoured(i) =>
            CASE memo[i].outcome = "gone" ->
                   ~(up[i].status = "live" /\ up[i].updated = nix[i].updated)
              [] memo[i].outcome = "live" ->
                   \/ up[i].status = "live"
                   \/ upNet[NetOf[i]].updated > net[NetOf[i]].updated
              [] OTHER -> TRUE

Mirror == INSTANCE NetIxLanMirror
    WITH served <- LiveTimes, stored <- nix

(* The worker never marks a row deleted while upstream serves that version   *)
(* of it live, and never brings a tombstone back but by a newer live version *)
(* (cascadeDeletedNetIxLans, netIxLanUpsertPredicate).                       *)
ImplementsMirror == Mirror!Spec

(* When upstream is quiet, the mirror ends up with the version of every row  *)
(* that upstream serves live, and with no other live row under a deleted     *)
(* network (verifyNetIxLanCandidates). A row that fails every request delays *)
(* no other row for ever (netIxLanVerifyChunks).                             *)
Settled(i) ==
    IF up[i].status = "live" THEN nix[i] = UpstreamRow(i)
    ELSE upNet[NetOf[i]].deleted => ~nix[i].live

Settles == \A i \in Rows \ Poison : <>[]Settled(i)

=============================================================================
