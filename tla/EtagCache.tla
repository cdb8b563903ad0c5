------------------------------ MODULE EtagCache ------------------------------
(* The ETag of a node and the HTTP cache of a client                         *)
(* (cmd/peeringdb-plus/etag.go, internal/middleware/caching.go). On every    *)
(* node a watcher polls the version of the local database and swaps the ETag *)
(* of the middleware; its reads come one after the other while commits       *)
(* arrive. A request loads the ETag, then the time of the last sync, then    *)
(* the rows, while the watcher goes on. A client may ask another node each   *)
(* time. The commits of a node never go back.                                *)
EXTENDS Integers, Sequences

CONSTANTS
    Nodes,      \* the nodes that serve clients, with LiteFS
    Alone,      \* the node of a deployment without LiteFS
    MaxCommits, \* bound: the commits
    MaxFaults   \* bound: the failed polls, the restarts and the error responses

ASSUME EtagAssumption == Alone \in Nodes /\ MaxCommits \in Nat /\ MaxFaults \in Nat

VARIABLES
    litefs,  \* whether the version is the LiteFS position or PRAGMA data_version
    newest,  \* the last commit; the first state is commit 1
    synced,  \* for each commit, the completion time of the newest success row
    db,      \* the commit that a node has reached
    pins,    \* the connections of DataVersionProbe, each with the commit at which it began
    watcher, \* etagWatcher: the poll, and the epoch of the pinned connection (0: none)
    etag,    \* CachingState.etag
    clock,   \* SyncClock
    request, \* the request in flight
    cached,  \* the response that the client holds
    seen,    \* where the database stood when the last poll that ended began
    faults   \* the faults so far

database == <<litefs, newest, synced>>
vars == <<database, db, pins, watcher, etag, clock, request, cached, seen, faults>>

(* A version string, with the commit for which it was read.                  *)
NoTag == [epoch |-> 0, value |-> 0, version |-> 0]
SameTag(a, b) == a # NoTag /\ b # NoTag /\ a.epoch = b.epoch /\ a.value = b.value

Started == [stage |-> "idle", epoch |-> 0, polled |-> NoTag, last |-> NoTag, seenSync |-> FALSE]
NoRequest == [stage |-> "none", node |-> Alone, tag |-> NoTag, generated |-> 0]
NoResponse == [tag |-> NoTag, body |-> 0, generated |-> 0]

Serving == IF litefs THEN Nodes ELSE {Alone}

-----------------------------------------------------------------------------
(* The database: a commit of the primary, which may be the one that records  *)
(* a success, and its arrival on a node.                                     *)
Commit ==
    /\ newest < MaxCommits
    /\ newest' = newest + 1
    /\ \E success \in BOOLEAN :
         synced' = [v \in 1..newest' |-> IF v <= newest THEN synced[v]
                                         ELSE IF success THEN newest' ELSE synced[newest]]
    /\ UNCHANGED <<litefs, db, pins, watcher, etag, clock, request, cached, seen, faults>>

Apply(n) ==
    /\ db[n] < newest
    /\ db' = [db EXCEPT ![n] = @ + 1]
    /\ UNCHANGED <<database, pins, watcher, etag, clock, request, cached, seen, faults>>

(* GetLastSuccessfulSyncTime; 0 when no success row is there.                *)
LastSync(n) == synced[db[n]]

-----------------------------------------------------------------------------
(* The poll of a node.                                                       *)

Epoch(n) == watcher[n].epoch

(* Mutant: a version does not say on which connection it was read.           *)
VersionWithoutEpoch(n) ==
    [epoch |-> 1, value |-> IF litefs THEN db[n] ELSE db[n] - pins[Epoch(n)], version |-> db[n]]

(* ReadPos, or DataVersionProbe.Version: data_version counts the commits     *)
(* that its connection saw.                                                  *)
Version(n) ==
    [epoch |-> Epoch(n), value |-> IF litefs THEN db[n] ELSE db[n] - pins[Epoch(n)],
     version |-> db[n]]

(* DataVersionProbe.Version pins a connection first.                         *)
Pin(n) ==
    /\ ~litefs /\ n = Alone /\ Epoch(n) = 0
    /\ watcher[n].stage = "idle"
    /\ pins' = Append(pins, db[n])
    /\ watcher' = [watcher EXCEPT ![n].epoch = Len(pins) + 1]
    /\ UNCHANGED <<database, db, etag, clock, request, cached, seen, faults>>

Polls(n) == n \in Serving /\ watcher[n].stage = "idle" /\ (litefs \/ Epoch(n) # 0)

PollUnchanged(n) ==
    /\ Polls(n)
    /\ SameTag(Version(n), watcher[n].last)
    /\ seen' = [seen EXCEPT ![n] = db[n]]
    /\ UNCHANGED <<database, db, pins, watcher, etag, clock, request, cached, faults>>

(* Mutant: the ETag does not wait for the first sync.                        *)
FirstReadClock(n) == "clock"

(* A watcher that has not seen a success row looks for one first.            *)
FirstRead(n) == IF watcher[n].seenSync THEN "clock" ELSE "status"

PollVersion(n) ==
    /\ Polls(n)
    /\ ~SameTag(Version(n), watcher[n].last)
    /\ watcher' = [watcher EXCEPT ![n].polled = Version(n), ![n].stage = FirstRead(n)]
    /\ UNCHANGED <<database, db, pins, etag, clock, request, cached, seen, faults>>

EndPoll(n, tag) ==
    /\ etag' = [etag EXCEPT ![n] = tag]
    /\ watcher' = [watcher EXCEPT ![n].stage = "idle", ![n].polled = NoTag,
                                  ![n].last = watcher[n].polled]
    /\ seen' = [seen EXCEPT ![n] = watcher[n].polled.version]

(* Before the first sync there is no ETag.                                   *)
PollUnsynced(n) ==
    /\ watcher[n].stage = "status"
    /\ LastSync(n) = 0
    /\ EndPoll(n, NoTag)
    /\ UNCHANGED <<database, db, pins, clock, request, cached, faults>>

PollSynced(n) ==
    /\ watcher[n].stage = "status"
    /\ LastSync(n) # 0
    /\ watcher' = [watcher EXCEPT ![n].seenSync = TRUE, ![n].stage = "clock"]
    /\ UNCHANGED <<database, db, pins, etag, clock, request, cached, seen, faults>>

PollClock(n) ==
    /\ watcher[n].stage = "clock"
    /\ clock' = [clock EXCEPT ![n] = LastSync(n)]
    /\ watcher' = [watcher EXCEPT ![n].stage = "publish"]
    /\ UNCHANGED <<database, db, pins, etag, request, cached, seen, faults>>

(* SetVersion.                                                               *)
Publish(n) ==
    /\ watcher[n].stage = "publish"
    /\ EndPoll(n, watcher[n].polled)
    /\ UNCHANGED <<database, db, pins, clock, request, cached, faults>>

(* Mutant: the version is kept, so the next poll finds it unchanged.         *)
AfterFailureKept(n) == [watcher[n] EXCEPT !.stage = "idle", !.polled = NoTag]

(* A read that fails forgets the version; a failed read of data_version also *)
(* releases the connection.                                                  *)
AfterFailure(n) ==
    [Started EXCEPT !.seenSync = watcher[n].seenSync,
                    !.epoch = IF watcher[n].stage = "idle" THEN 0 ELSE Epoch(n)]

(* fail: no ETag until a poll succeeds.                                      *)
PollFails(n) ==
    /\ n \in Serving
    /\ watcher[n].stage # "publish"
    /\ faults < MaxFaults
    /\ faults' = faults + 1
    /\ etag' = [etag EXCEPT ![n] = NoTag]
    /\ watcher' = [watcher EXCEPT ![n] = AfterFailure(n)]
    /\ UNCHANGED <<database, db, pins, clock, request, cached, seen>>

(* The process of a node ends, with the request that it serves, and starts.  *)
Restart(n) ==
    /\ n \in Serving
    /\ faults < MaxFaults
    /\ faults' = faults + 1
    /\ watcher' = [watcher EXCEPT ![n] = Started]
    /\ etag' = [etag EXCEPT ![n] = NoTag]
    /\ clock' = [clock EXCEPT ![n] = 0]
    /\ request' = IF request.node = n THEN NoRequest ELSE request
    /\ UNCHANGED <<database, db, pins, cached, seen>>

-----------------------------------------------------------------------------
(* The requests of the client, conditional on the ETag that it holds. A      *)
(* match is answered by 304, which changes nothing (etagMatch).              *)
Matches(n) == SameTag(cached.tag, etag[n])

(* Middleware loads the ETag once.                                           *)
LoadTag(n) ==
    /\ n \in Serving
    /\ request.stage = "none"
    /\ ~Matches(n)
    /\ request' = [stage |-> "clock", node |-> n, tag |-> etag[n], generated |-> 0]
    /\ UNCHANGED <<database, db, pins, watcher, etag, clock, cached, seen, faults>>

(* listMeta.                                                                 *)
ReadClock ==
    /\ request.stage = "clock"
    /\ request' = [request EXCEPT !.stage = "rows", !.generated = clock[request.node]]
    /\ UNCHANGED <<database, db, pins, watcher, etag, clock, cached, seen, faults>>

(* Mutant: the headers are set when the rows are there.                      *)
SentTagAtEnd(r) == etag[r.node]

SentTag(r) == r.tag

(* The rows; those of a list that is read in parts are not older.            *)
Respond ==
    /\ request.stage = "rows"
    /\ cached' = [tag |-> SentTag(request), body |-> db[request.node],
                  generated |-> request.generated]
    /\ request' = NoRequest
    /\ UNCHANGED <<database, db, pins, watcher, etag, clock, seen, faults>>

(* cacheStripWriter: an error goes out for no-store and without the ETag.    *)
RespondError ==
    /\ request.stage # "none"
    /\ faults < MaxFaults
    /\ faults' = faults + 1
    /\ request' = NoRequest
    /\ UNCHANGED <<database, db, pins, watcher, etag, clock, cached, seen>>

-----------------------------------------------------------------------------
Init ==
    /\ litefs \in BOOLEAN
    /\ newest = 1
    /\ synced \in [1..1 -> 0..1]
    /\ db = [n \in Nodes |-> 1]
    /\ pins = <<>>
    /\ watcher = [n \in Nodes |-> Started]
    /\ etag = [n \in Nodes |-> NoTag]
    /\ clock = [n \in Nodes |-> 0]
    /\ request = NoRequest /\ cached = NoResponse
    /\ seen = [n \in Nodes |-> 0]
    /\ faults = 0

Poll(n) ==
    \/ Pin(n) \/ PollUnchanged(n) \/ PollVersion(n)
    \/ PollUnsynced(n) \/ PollSynced(n) \/ PollClock(n) \/ Publish(n)

Respond200 == ReadClock \/ Respond

Next ==
    \/ Commit
    \/ \E n \in Nodes : Apply(n) \/ Poll(n) \/ PollFails(n) \/ Restart(n) \/ LoadTag(n)
    \/ Respond200 \/ RespondError

Spec == Init /\ [][Next]_vars

(* Commits arrive, the ticker of the watcher runs, and a client that holds a *)
(* stale response asks again.                                                *)
FairSpec ==
    /\ Spec
    /\ \A n \in Nodes : WF_vars(Apply(n)) /\ WF_vars(Poll(n))
    /\ WF_vars(\E n \in Nodes : LoadTag(n)) /\ WF_vars(Respond200)

-----------------------------------------------------------------------------
Commits == 1..newest
Tags == [epoch : 0..Len(pins), value : 0..newest, version : Commits] \cup {NoTag}
Times == 0..newest
Watchers == [stage : {"idle", "status", "clock", "publish"}, epoch : 0..Len(pins),
             polled : Tags, last : Tags, seenSync : BOOLEAN]

(* Every variable has its type.                                              *)
TypeOK ==
    /\ litefs \in BOOLEAN
    /\ newest \in Nat \ {0}
    /\ synced \in [Commits -> Times]
    /\ db \in [Nodes -> Commits]
    /\ pins \in Seq(Commits)
    /\ watcher \in [Nodes -> Watchers]
    /\ etag \in [Nodes -> Tags]
    /\ clock \in [Nodes -> Times]
    /\ request \in [stage : {"none", "clock", "rows"}, node : Nodes, tag : Tags, generated : Times]
    /\ cached \in [tag : Tags, body : 0..newest, generated : Times]
    /\ seen \in [Nodes -> 0..newest]
    /\ faults \in 0..MaxFaults

(* A 304 never confirms a response whose rows, or whose meta.generated, are  *)
(* older than the database was when the last poll of the node began: not     *)
(* when the response came from another node, from before a restart or from   *)
(* the middle of a poll (etagWatcher.poll, Middleware).                      *)
RevalidationIsSound ==
    \A n \in Nodes :
        Matches(n) =>
            /\ cached.body >= seen[n]
            /\ seen[n] # 0 => cached.generated >= synced[seen[n]]

(* A response claims no sync that its rows do not have, and one that may be  *)
(* stored has the rows of a sync: meta.generated and the ETag are read at    *)
(* other times than the rows.                                                *)
ResponseIsTrue ==
    cached.body # 0 =>
        /\ cached.generated <= synced[cached.body]
        /\ cached.tag # NoTag => synced[cached.body] # 0

(* When the commits and the faults end, a client that keeps asking gets the  *)
(* newest rows and the time of the newest sync, from whatever node.          *)
ClientConverges == <>[](cached.body = newest /\ cached.generated = synced[newest])

(* The ETag comes back after every failure: a node with a sync serves        *)
(* cacheable responses at last (etagWatcher.fail).                           *)
TagReturns == <>[](synced[newest] # 0 => \A n \in Serving : etag[n] # NoTag)
=============================================================================
