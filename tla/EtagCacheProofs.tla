--------------------------- MODULE EtagCacheProofs ---------------------------
(* Proofs that the safety properties of EtagCache hold for every set of      *)
(* nodes and every bound. The inductive invariant says for which commit each *)
(* version string stands, and orders what the watcher, a request and the     *)
(* client know by these commits.                                             *)
EXTENDS EtagCache, SequenceTheorems, TLAPS

(* A version string stands for one commit: the position for itself, a        *)
(* data_version for the commits since its connection began.                  *)
TagOK(t) ==
    t # NoTag =>
        /\ t.version \in 1..newest
        /\ IF litefs THEN t.epoch = 0 /\ t.value = t.version
           ELSE t.epoch \in 1..Len(pins) /\ t.version = t.value + pins[t.epoch]

(* A later commit never has an older success row.                            *)
History == \A u, v \in 1..newest : u <= v => synced[u] <= synced[v]

(* A tag that was read on the node n, with the clock at least at its sync.   *)
Held(n, t) ==
    t # NoTag => t.version <= db[n] /\ synced[t.version] <= clock[n] /\ synced[db[n]] # 0

PollOK(n) ==
    /\ watcher[n].epoch # 0 => ~litefs /\ pins[watcher[n].epoch] <= db[n]
    /\ watcher[n].stage # "idle" =>
          /\ watcher[n].polled # NoTag
          /\ watcher[n].polled.version <= db[n]
    /\ watcher[n].stage \in {"clock", "publish"} => watcher[n].seenSync
    /\ watcher[n].seenSync => synced[db[n]] # 0
    /\ watcher[n].stage = "publish" => synced[watcher[n].polled.version] <= clock[n]
    /\ clock[n] <= synced[db[n]]

EtagOK(n) ==
    etag[n] # NoTag => etag[n] = watcher[n].last /\ seen[n] <= etag[n].version

WatcherOK(n) ==
    /\ TagOK(watcher[n].polled) /\ TagOK(watcher[n].last) /\ TagOK(etag[n])
    /\ PollOK(n) /\ EtagOK(n) /\ Held(n, etag[n])

RequestOK ==
    /\ TagOK(request.tag)
    /\ request.stage # "none" => Held(request.node, request.tag)
    /\ request.stage = "rows" =>
          /\ request.generated <= synced[db[request.node]]
          /\ request.tag # NoTag => synced[request.tag.version] <= request.generated

CachedOK ==
    /\ TagOK(cached.tag)
    /\ cached.tag # NoTag =>
          /\ cached.tag.version <= cached.body
          /\ synced[cached.tag.version] <= cached.generated
          /\ synced[cached.body] # 0
    /\ cached.body # 0 => cached.generated <= synced[cached.body]

IInv == TypeOK /\ History /\ (\A n \in Nodes : WatcherOK(n)) /\ RequestOK /\ CachedOK

-----------------------------------------------------------------------------
(* Two equal version strings stand for the same commit.                      *)
LEMMA TagsAgree ==
    ASSUME NEW a, NEW b, TagOK(a), TagOK(b), SameTag(a, b)
    PROVE  a.version = b.version
  BY DEF TagOK, SameTag

(* The version that a poll reads stands for the commit of the database.      *)
LEMMA VersionOK ==
    ASSUME TypeOK, NEW n \in Nodes, WatcherOK(n), litefs \/ Epoch(n) # 0
    PROVE  /\ Version(n) \in Tags
           /\ Version(n) # NoTag
           /\ Version(n).version = db[n]
           /\ TagOK(Version(n))
<1>1. db[n] \in 1..newest /\ watcher[n].epoch \in 0..Len(pins) /\ newest \in Nat
  BY DEF TypeOK, Watchers, Commits
<1>2. CASE litefs
  <2>1. watcher[n].epoch = 0
    BY <1>2 DEF WatcherOK, PollOK
  <2>2. Version(n) = [epoch |-> 0, value |-> db[n], version |-> db[n]]
    BY <1>2, <2>1 DEF Version, Epoch
  <2>3. Version(n) \in Tags
    BY <1>1, <2>2, LenProperties DEF Tags, Commits, TypeOK
  <2> QED BY <1>1, <1>2, <2>2, <2>3 DEF TagOK, NoTag
<1>3. CASE ~litefs
  <2>1. watcher[n].epoch \in 1..Len(pins)
    BY <1>1, <1>3 DEF Epoch
  <2>2. pins[watcher[n].epoch] \in 1..newest /\ pins[watcher[n].epoch] <= db[n]
    BY <2>1 DEF TypeOK, Commits, WatcherOK, PollOK
  <2>3. Version(n) = [epoch |-> watcher[n].epoch, value |-> db[n] - pins[watcher[n].epoch],
                      version |-> db[n]]
    BY <1>3 DEF Version, Epoch
  <2>4. Version(n) \in Tags
    BY <1>1, <2>1, <2>2, <2>3 DEF Tags, Commits
  <2> QED BY <1>1, <1>3, <2>1, <2>2, <2>3, <2>4 DEF TagOK, NoTag
<1> QED BY <1>2, <1>3

-----------------------------------------------------------------------------
(* The first states satisfy the invariant.                                   *)
LEMMA InvInit == Init => IInv
<1> SUFFICES ASSUME Init PROVE IInv
  OBVIOUS
<1>1. TypeOK
  BY EtagAssumption, EmptySeq
  DEF Init, TypeOK, Commits, Tags, Times, Watchers, Started, NoRequest, NoResponse, NoTag
<1>2. History
  BY DEF Init, History
<1>3. ASSUME NEW n \in Nodes PROVE WatcherOK(n)
  BY <1>3 DEF Init, WatcherOK, TagOK, PollOK, EtagOK, Held, Started
<1>4. RequestOK /\ CachedOK
  BY DEF Init, RequestOK, CachedOK, TagOK, Held, NoRequest, NoResponse
<1> QED BY <1>1, <1>2, <1>3, <1>4 DEF IInv

(* The commit of a success or of something else on the primary.              *)
LEMMA CommitKeeps == IInv /\ Commit => IInv'
<1> SUFFICES ASSUME IInv, Commit PROVE IInv'
  OBVIOUS
<1>1. /\ newest \in Nat \ {0} /\ newest' = newest + 1
      /\ synced \in [1..newest -> 0..newest]
      /\ synced' \in [1..newest' -> 0..newest']
      /\ \A v \in 1..newest : synced'[v] = synced[v]
      /\ synced'[newest'] \in {newest', synced[newest]}
      /\ UNCHANGED <<litefs, db, pins, watcher, etag, clock, request, cached, seen, faults>>
  BY DEF IInv, TypeOK, Commit, Commits, Times
<1>2. pins \in Seq(1..newest')
  <2>1. 1..newest \subseteq 1..newest'
    BY <1>1
  <2> QED BY <2>1, SeqMonotonic DEF IInv, TypeOK, Commits
<1>3. Tags \subseteq Tags' /\ Times \subseteq Times' /\ Commits \subseteq Commits'
  BY <1>1 DEF Tags, Times, Commits
<1>4. Watchers \subseteq Watchers'
  BY <1>1, <1>3 DEF Watchers
<1>5. TypeOK'
  <2>1. watcher' \in [Nodes -> Watchers']
    BY <1>1, <1>4 DEF IInv, TypeOK
  <2>2. etag' \in [Nodes -> Tags']
    BY <1>1, <1>3 DEF IInv, TypeOK
  <2>3. request' \in [stage : {"none", "clock", "rows"}, node : Nodes, tag : Tags',
                      generated : Times']
    BY <1>1, <1>3 DEF IInv, TypeOK
  <2>4. cached' \in [tag : Tags', body : 0..newest', generated : Times']
    <3>1. 0..newest \subseteq 0..newest'
      BY <1>1
    <3>2. cached \in [tag : Tags, body : 0..newest, generated : Times] /\ cached' = cached
      BY <1>1 DEF IInv, TypeOK
    <3> QED BY <1>3, <3>1, <3>2
  <2>5. db' \in [Nodes -> Commits'] /\ clock' \in [Nodes -> Times'] /\ seen' \in [Nodes -> 0..newest']
    BY <1>1, <1>3 DEF IInv, TypeOK, Commits, Times
  <2> QED BY <1>1, <1>2, <2>1, <2>2, <2>3, <2>4, <2>5 DEF IInv, TypeOK, Commits, Times
<1>6. History'
  BY <1>1 DEF IInv, History
<1>7. ASSUME NEW n \in Nodes PROVE WatcherOK(n)'
  <2>1. db[n] \in 1..newest
    BY DEF IInv, TypeOK, Commits
  <2>2. WatcherOK(n)
    BY DEF IInv
  <2>3. TagOK(watcher[n].polled)' /\ TagOK(watcher[n].last)' /\ TagOK(etag[n])'
    BY <1>1, <2>2 DEF WatcherOK, TagOK
  <2>4. PollOK(n)' /\ EtagOK(n)' /\ Held(n, etag[n])'
    BY <1>1, <2>1, <2>2 DEF WatcherOK, PollOK, EtagOK, Held, TagOK
  <2> QED BY <2>3, <2>4 DEF WatcherOK
<1>8. RequestOK'
  <2>1. db[request.node] \in 1..newest
    BY DEF IInv, TypeOK, Commits
  <2> QED BY <1>1, <2>1 DEF IInv, RequestOK, TagOK, Held
<1>9. CachedOK'
  <2>1. cached.body \in 0..newest
    BY DEF IInv, TypeOK
  <2> QED BY <1>1, <2>1 DEF IInv, CachedOK, TagOK
<1> QED BY <1>5, <1>6, <1>7, <1>8, <1>9 DEF IInv

(* A commit arrives on a node.                                               *)
LEMMA ApplyKeeps == ASSUME NEW m \in Nodes PROVE IInv /\ Apply(m) => IInv'
<1> SUFFICES ASSUME IInv, Apply(m) PROVE IInv'
  OBVIOUS
<1>1. /\ db' = [db EXCEPT ![m] = db[m] + 1] /\ db \in [Nodes -> 1..newest]
      /\ db[m] \in 1..newest /\ db[m] < newest /\ newest \in Nat
      /\ synced \in [1..newest -> 0..newest]
      /\ UNCHANGED <<database, pins, watcher, etag, clock, request, cached, seen, faults>>
  BY DEF IInv, TypeOK, Apply, Commits, Times
<1>2. db' \in [Nodes -> 1..newest]
  BY <1>1
<1>3. TypeOK'
  BY <1>1, <1>2 DEF IInv, TypeOK, Commits, Times, Tags, Watchers, database
<1>4. History'
  BY <1>1 DEF IInv, History, database
<1>5. ASSUME NEW n \in Nodes
      PROVE  /\ db[n] \in 1..newest /\ db'[n] \in 1..newest /\ db[n] <= db'[n]
             /\ synced[db[n]] <= synced[db'[n]]
             /\ synced[db[n]] \in Nat /\ synced[db'[n]] \in Nat
  BY <1>1, <1>2 DEF IInv, History
<1>6. ASSUME NEW n \in Nodes PROVE WatcherOK(n)'
  <2>1. WatcherOK(n) /\ clock[n] \in Nat
    BY DEF IInv, TypeOK, Times
  <2>2. TagOK(watcher[n].polled)' /\ TagOK(watcher[n].last)' /\ TagOK(etag[n])'
    BY <1>1, <2>1 DEF WatcherOK, TagOK, database
  <2>3. EtagOK(n)'
    BY <1>1, <2>1 DEF WatcherOK, EtagOK
  <2>4. Held(n, etag[n])'
    BY <1>1, <1>5, <2>1 DEF WatcherOK, Held, TagOK, database
  <2>5. PollOK(n)'
    <3>1. watcher[n].epoch # 0 => pins[watcher[n].epoch] \in Nat
      BY LenProperties DEF IInv, TypeOK, Watchers, Commits
    <3>2. watcher[n].stage # "idle" => watcher[n].polled.version \in 1..newest
      BY <2>1 DEF WatcherOK, PollOK, TagOK
    <3> QED BY <1>1, <1>5, <2>1, <3>1, <3>2 DEF WatcherOK, PollOK, database
  <2> QED BY <2>2, <2>3, <2>4, <2>5 DEF WatcherOK
<1>7. RequestOK'
  <2>1. request.node \in Nodes /\ request.generated \in Nat
    BY DEF IInv, TypeOK, Times
  <2>2. RequestOK
    BY DEF IInv
  <2> QED BY <1>1, <1>5, <2>1, <2>2 DEF RequestOK, TagOK, Held, database
<1>8. CachedOK'
  BY <1>1 DEF IInv, CachedOK, TagOK, database
<1> QED BY <1>3, <1>4, <1>6, <1>7, <1>8 DEF IInv

-----------------------------------------------------------------------------
(* What a step leaves alone stays as it was.                                 *)
LEMMA SameWatcher ==
    ASSUME IInv, UNCHANGED <<database, db, pins>>, NEW n \in Nodes,
           watcher'[n] = watcher[n], etag'[n] = etag[n], clock'[n] = clock[n], seen'[n] = seen[n]
    PROVE  WatcherOK(n)'
<1>1. WatcherOK(n)
  BY DEF IInv
<1> QED BY <1>1 DEF WatcherOK, TagOK, PollOK, EtagOK, Held, database

LEMMA SameRequest ==
    ASSUME IInv, UNCHANGED <<database, db, pins, request>>, clock' \in [Nodes -> Times],
           clock[request.node] <= clock'[request.node]
    PROVE  RequestOK'
<1>1. request.node \in Nodes /\ TagOK(request.tag)
  BY DEF IInv, TypeOK, RequestOK
<1>2. db[request.node] \in 1..newest /\ synced \in [1..newest -> 0..newest] /\ newest \in Nat
      /\ clock[request.node] \in 0..newest /\ clock'[request.node] \in 0..newest
  BY <1>1 DEF IInv, TypeOK, Commits, Times
<1>3. request.stage # "none" => Held(request.node, request.tag)'
  <2>1. request.tag # NoTag => synced[request.tag.version] \in 0..newest
    BY <1>1, <1>2 DEF TagOK
  <2> QED BY <1>2, <2>1 DEF IInv, RequestOK, Held, database
<1> QED BY <1>3 DEF IInv, RequestOK, TagOK, database

LEMMA SameCached ==
    ASSUME IInv, UNCHANGED <<database, pins, cached>>
    PROVE  CachedOK'
  BY DEF IInv, CachedOK, TagOK, database

LEMMA SameHistory ==
    ASSUME IInv, UNCHANGED database
    PROVE  History'
  BY DEF IInv, History, database

(* The probe pins a connection: the other versions keep their meaning.       *)
LEMMA PinKeeps == ASSUME NEW m \in Nodes PROVE IInv /\ Pin(m) => IInv'
<1> SUFFICES ASSUME IInv, Pin(m) PROVE IInv'
  OBVIOUS
<1>1. /\ ~litefs /\ watcher[m].epoch = 0 /\ watcher[m].stage = "idle"
      /\ pins' = Append(pins, db[m]) /\ pins \in Seq(Commits) /\ db[m] \in Commits
      /\ watcher \in [Nodes -> Watchers]
      /\ watcher' = [watcher EXCEPT ![m].epoch = Len(pins) + 1]
      /\ UNCHANGED <<database, db, etag, clock, request, cached, seen, faults>>
  BY DEF IInv, TypeOK, Pin, Epoch
<1>2. /\ pins' \in Seq(Commits) /\ Len(pins) \in Nat /\ Len(pins') = Len(pins) + 1
      /\ \A i \in 1..Len(pins) : pins'[i] = pins[i]
      /\ pins'[Len(pins) + 1] = db[m]
  BY <1>1
<1>3. Tags \subseteq Tags'
  BY <1>1, <1>2 DEF Tags, Commits, database
<1>4. watcher'[m] = [watcher[m] EXCEPT !.epoch = Len(pins) + 1]
      /\ \A n \in Nodes \ {m} : watcher'[n] = watcher[n]
  BY <1>1
<1>5. watcher' \in [Nodes -> Watchers']
  <2>1. Watchers \subseteq Watchers'
    BY <1>2, <1>3 DEF Watchers
  <2>2. watcher'[m] \in Watchers'
    <3>1. watcher'[m] = [stage |-> watcher[m].stage, epoch |-> Len(pins) + 1,
                         polled |-> watcher[m].polled, last |-> watcher[m].last,
                         seenSync |-> watcher[m].seenSync]
      BY <1>1, <1>4 DEF Watchers
    <3>2. Len(pins) + 1 \in 0..Len(pins')
      BY <1>2
    <3> QED BY <1>1, <1>3, <3>1, <3>2 DEF Watchers
  <2> QED BY <1>1, <1>4, <2>1, <2>2
<1>6. TypeOK'
  <2>1. etag' \in [Nodes -> Tags']
    BY <1>1, <1>3 DEF IInv, TypeOK
  <2>2. request' \in [stage : {"none", "clock", "rows"}, node : Nodes, tag : Tags',
                      generated : Times']
        /\ cached' \in [tag : Tags', body : 0..newest', generated : Times']
    BY <1>1, <1>3 DEF IInv, TypeOK, Times, database
  <2> QED BY <1>1, <1>2, <1>5, <2>1, <2>2 DEF IInv, TypeOK, Commits, Times, database
<1>7. History'
  BY <1>1, SameHistory
<1>8. ASSUME NEW t, TagOK(t) PROVE t # NoTag => /\ t.version \in 1..newest
                                                /\ t.epoch \in 1..Len(pins')
                                                /\ t.version = t.value + pins'[t.epoch]
  BY <1>1, <1>2, <1>8 DEF TagOK
<1>9. ASSUME NEW n \in Nodes PROVE WatcherOK(n)'
  <2>1. WatcherOK(n) /\ watcher'[n].polled = watcher[n].polled /\ watcher'[n].last = watcher[n].last
        /\ watcher'[n].stage = watcher[n].stage /\ watcher'[n].seenSync = watcher[n].seenSync
    BY <1>1, <1>4 DEF IInv, Watchers
  <2>2. TagOK(watcher[n].polled)' /\ TagOK(watcher[n].last)' /\ TagOK(etag[n])'
    BY <1>1, <1>8, <2>1 DEF WatcherOK, TagOK, database
  <2>3. EtagOK(n)' /\ Held(n, etag[n])'
    BY <1>1, <2>1 DEF WatcherOK, EtagOK, Held, database
  <2>4. watcher'[n].epoch # 0 => ~litefs /\ pins'[watcher'[n].epoch] <= db[n]
    <3>1. CASE n = m
      BY <1>1, <1>2, <1>4, <3>1 DEF IInv, TypeOK, Watchers, Commits
    <3>2. CASE n # m
      BY <1>1, <1>2, <1>4, <2>1, <3>2 DEF IInv, TypeOK, Watchers, WatcherOK, PollOK
    <3> QED BY <3>1, <3>2
  <2>5. PollOK(n)'
    BY <1>1, <2>1, <2>4 DEF WatcherOK, PollOK, database
  <2> QED BY <2>2, <2>3, <2>5 DEF WatcherOK
<1>10. RequestOK'
  BY <1>1, <1>8 DEF IInv, RequestOK, TagOK, Held, database
<1>11. CachedOK'
  BY <1>1, <1>8 DEF IInv, CachedOK, TagOK, database
<1> QED BY <1>6, <1>7, <1>9, <1>10, <1>11 DEF IInv

-----------------------------------------------------------------------------
(* The steps of the poll of a node m. Each changes at most the watcher, the  *)
(* ETag, the clock and the mark of m, and the clock never goes back.         *)
LEMMA PollStepKeeps ==
    ASSUME IInv, NEW m \in Nodes,
           UNCHANGED <<database, db, pins, request, cached>>,
           faults' = faults \/ faults' \in 0..MaxFaults,
           watcher' \in [Nodes -> Watchers], \A n \in Nodes \ {m} : watcher'[n] = watcher[n],
           etag' \in [Nodes -> Tags], \A n \in Nodes \ {m} : etag'[n] = etag[n],
           clock' \in [Nodes -> Times], \A n \in Nodes \ {m} : clock'[n] = clock[n],
           seen' \in [Nodes -> 0..newest], \A n \in Nodes \ {m} : seen'[n] = seen[n],
           clock[m] <= clock'[m],
           WatcherOK(m)'
    PROVE  IInv'
<1>1. TypeOK'
  BY DEF IInv, TypeOK, Commits, Tags, Times, Watchers, database
<1>2. ASSUME NEW n \in Nodes PROVE WatcherOK(n)'
  BY SameWatcher
<1>3. RequestOK'
  <2>1. request.node \in Nodes /\ clock[request.node] \in Nat
    BY DEF IInv, TypeOK, Times
  <2>2. clock[request.node] <= clock'[request.node]
    BY <2>1
  <2> QED BY <2>2, SameRequest
<1> QED BY <1>1, <1>2, <1>3, SameCached, SameHistory DEF IInv

LEMMA PollUnchangedKeeps == ASSUME NEW m \in Nodes PROVE IInv /\ PollUnchanged(m) => IInv'
<1> SUFFICES ASSUME IInv, PollUnchanged(m) PROVE IInv'
  OBVIOUS
<1>1. /\ SameTag(Version(m), watcher[m].last) /\ (litefs \/ Epoch(m) # 0)
      /\ seen' = [seen EXCEPT ![m] = db[m]] /\ seen \in [Nodes -> 0..newest]
      /\ db[m] \in 1..newest /\ newest \in Nat /\ clock[m] \in Nat
      /\ UNCHANGED <<database, db, pins, watcher, etag, clock, request, cached, faults>>
  BY DEF IInv, TypeOK, PollUnchanged, Polls, Commits, Times
<1>2. WatcherOK(m) /\ TagOK(Version(m)) /\ Version(m).version = db[m]
  BY <1>1, VersionOK DEF IInv
<1>3. watcher[m].last.version = db[m]
  BY <1>1, <1>2, TagsAgree DEF WatcherOK
<1>4. WatcherOK(m)'
  BY <1>1, <1>2, <1>3 DEF WatcherOK, TagOK, PollOK, EtagOK, Held, database
<1>5. /\ seen' \in [Nodes -> 0..newest] /\ \A n \in Nodes \ {m} : seen'[n] = seen[n]
      /\ clock[m] <= clock'[m]
  BY <1>1
<1>6. watcher' \in [Nodes -> Watchers] /\ etag' \in [Nodes -> Tags] /\ clock' \in [Nodes -> Times]
  BY <1>1 DEF IInv, TypeOK
<1> QED BY <1>1, <1>4, <1>5, <1>6, PollStepKeeps

LEMMA PollVersionKeeps == ASSUME NEW m \in Nodes PROVE IInv /\ PollVersion(m) => IInv'
<1> SUFFICES ASSUME IInv, PollVersion(m) PROVE IInv'
  OBVIOUS
<1> DEFINE w == [watcher[m] EXCEPT !.polled = Version(m), !.stage = FirstRead(m)]
<1>1. /\ watcher[m].stage = "idle" /\ (litefs \/ Epoch(m) # 0)
      /\ watcher' = [watcher EXCEPT ![m].polled = Version(m), ![m].stage = FirstRead(m)]
      /\ watcher \in [Nodes -> Watchers]
      /\ db[m] \in 1..newest /\ newest \in Nat /\ clock[m] \in Nat
      /\ UNCHANGED <<database, db, pins, etag, clock, request, cached, seen, faults>>
  BY DEF IInv, TypeOK, PollVersion, Polls, Commits, Times
<1>2. WatcherOK(m) /\ TagOK(Version(m)) /\ Version(m).version = db[m] /\ Version(m) \in Tags
      /\ Version(m) # NoTag
  BY <1>1, VersionOK DEF IInv
<1>3. w \in Watchers /\ w.polled = Version(m) /\ w.last = watcher[m].last
      /\ w.epoch = watcher[m].epoch /\ w.seenSync = watcher[m].seenSync
      /\ w.stage \in {"clock", "status"} /\ (w.stage = "clock" => w.seenSync)
  BY <1>1, <1>2 DEF Watchers, FirstRead
<1>4. watcher' \in [Nodes -> Watchers] /\ watcher'[m] = w
      /\ \A n \in Nodes \ {m} : watcher'[n] = watcher[n]
  BY <1>1, <1>3
<1> HIDE DEF w
<1>5. WatcherOK(m)'
  <2>1. TagOK(watcher[m].polled)' /\ TagOK(watcher[m].last)' /\ TagOK(etag[m])'
    BY <1>1, <1>2, <1>3, <1>4 DEF WatcherOK, TagOK, database
  <2>2. PollOK(m)'
    <3>1. PollOK(m) /\ UNCHANGED <<litefs, synced, db, pins, clock>>
      BY <1>1, <1>2 DEF WatcherOK, database
    <3>2. w.polled # NoTag /\ w.polled.version <= db[m] /\ w.stage # "publish"
      BY <1>1, <1>2, <1>3
    <3> QED BY <1>3, <1>4, <3>1, <3>2 DEF PollOK
  <2>3. EtagOK(m)' /\ Held(m, etag[m])'
    BY <1>1, <1>2, <1>3, <1>4 DEF WatcherOK, EtagOK, Held, database
  <2> QED BY <2>1, <2>2, <2>3 DEF WatcherOK
<1>6. /\ seen' \in [Nodes -> 0..newest] /\ etag' \in [Nodes -> Tags]
      /\ clock' \in [Nodes -> Times] /\ clock[m] <= clock'[m]
  BY <1>1 DEF IInv, TypeOK
<1> QED BY <1>1, <1>4, <1>5, <1>6, PollStepKeeps

LEMMA PollUnsyncedKeeps == ASSUME NEW m \in Nodes PROVE IInv /\ PollUnsynced(m) => IInv'
<1> SUFFICES ASSUME IInv, PollUnsynced(m) PROVE IInv'
  OBVIOUS
<1> DEFINE w == [watcher[m] EXCEPT !.stage = "idle", !.polled = NoTag, !.last = watcher[m].polled]
<1>1. /\ watcher \in [Nodes -> Watchers] /\ etag \in [Nodes -> Tags] /\ seen \in [Nodes -> 0..newest]
      /\ etag' = [etag EXCEPT ![m] = NoTag]
      /\ watcher' = [watcher EXCEPT ![m].stage = "idle", ![m].polled = NoTag,
                                    ![m].last = watcher[m].polled]
      /\ seen' = [seen EXCEPT ![m] = watcher[m].polled.version]
      /\ newest \in Nat /\ clock[m] \in Nat /\ NoTag \in Tags
      /\ UNCHANGED <<database, db, pins, clock, request, cached, faults>>
  BY DEF IInv, TypeOK, PollUnsynced, EndPoll, Times, Tags
<1>2. WatcherOK(m)
  BY DEF IInv
<1>3. w \in Watchers /\ w.polled = NoTag /\ w.last = watcher[m].polled /\ w.stage = "idle"
      /\ w.epoch = watcher[m].epoch /\ w.seenSync = watcher[m].seenSync
  BY <1>1 DEF Watchers
<1>4. /\ watcher' \in [Nodes -> Watchers] /\ watcher'[m] = w
      /\ \A n \in Nodes \ {m} : watcher'[n] = watcher[n]
      /\ etag' \in [Nodes -> Tags] /\ etag'[m] = NoTag
      /\ \A n \in Nodes \ {m} : etag'[n] = etag[n] /\ seen'[n] = seen[n]
  BY <1>1, <1>3
<1> HIDE DEF w
<1>5. seen' \in [Nodes -> 0..newest]
  <2>1. watcher[m].polled.version \in 0..newest
    BY <1>1 DEF Watchers, Tags, Commits, NoTag
  <2> QED BY <1>1, <2>1
<1>6. WatcherOK(m)'
  <2>1. TagOK(watcher[m].polled)' /\ TagOK(watcher[m].last)' /\ TagOK(etag[m])'
    BY <1>1, <1>2, <1>3, <1>4 DEF WatcherOK, TagOK, database
  <2>2. PollOK(m)'
    <3>1. PollOK(m) /\ UNCHANGED <<litefs, synced, db, pins, clock>>
      BY <1>1, <1>2 DEF WatcherOK, database
    <3> QED BY <1>3, <1>4, <3>1 DEF PollOK
  <2>3. EtagOK(m)' /\ Held(m, etag[m])'
    BY <1>4 DEF EtagOK, Held
  <2> QED BY <2>1, <2>2, <2>3 DEF WatcherOK
<1>7. clock' \in [Nodes -> Times] /\ clock[m] <= clock'[m] /\ \A n \in Nodes \ {m} : clock'[n] = clock[n]
  BY <1>1 DEF IInv, TypeOK
<1> QED BY <1>1, <1>4, <1>5, <1>6, <1>7, PollStepKeeps

LEMMA PollSyncedKeeps == ASSUME NEW m \in Nodes PROVE IInv /\ PollSynced(m) => IInv'
<1> SUFFICES ASSUME IInv, PollSynced(m) PROVE IInv'
  OBVIOUS
<1> DEFINE w == [watcher[m] EXCEPT !.seenSync = TRUE, !.stage = "clock"]
<1>1. /\ watcher \in [Nodes -> Watchers] /\ watcher[m].stage = "status" /\ synced[db[m]] # 0
      /\ watcher' = [watcher EXCEPT ![m].seenSync = TRUE, ![m].stage = "clock"]
      /\ clock[m] \in Nat
      /\ UNCHANGED <<database, db, pins, etag, clock, request, cached, seen, faults>>
  BY DEF IInv, TypeOK, PollSynced, LastSync, Times
<1>2. WatcherOK(m)
  BY DEF IInv
<1>3. w \in Watchers /\ w.polled = watcher[m].polled /\ w.last = watcher[m].last
      /\ w.stage = "clock" /\ w.epoch = watcher[m].epoch /\ w.seenSync = TRUE
  BY <1>1 DEF Watchers
<1>4. /\ watcher' \in [Nodes -> Watchers] /\ watcher'[m] = w
      /\ \A n \in Nodes \ {m} : watcher'[n] = watcher[n]
  BY <1>1, <1>3
<1> HIDE DEF w
<1>5. WatcherOK(m)'
  <2>1. TagOK(watcher[m].polled)' /\ TagOK(watcher[m].last)' /\ TagOK(etag[m])'
    BY <1>1, <1>2, <1>3, <1>4 DEF WatcherOK, TagOK, database
  <2>2. PollOK(m)'
    <3>1. PollOK(m) /\ UNCHANGED <<litefs, synced, db, pins, clock>>
      BY <1>1, <1>2 DEF WatcherOK, database
    <3> QED BY <1>1, <1>3, <1>4, <3>1 DEF PollOK
  <2>3. EtagOK(m)' /\ Held(m, etag[m])'
    BY <1>1, <1>2, <1>3, <1>4 DEF WatcherOK, EtagOK, Held, database
  <2> QED BY <2>1, <2>2, <2>3 DEF WatcherOK
<1>6. /\ seen' \in [Nodes -> 0..newest] /\ etag' \in [Nodes -> Tags]
      /\ clock' \in [Nodes -> Times] /\ clock[m] <= clock'[m]
  BY <1>1 DEF IInv, TypeOK
<1> QED BY <1>1, <1>4, <1>5, <1>6, PollStepKeeps

LEMMA PollClockKeeps == ASSUME NEW m \in Nodes PROVE IInv /\ PollClock(m) => IInv'
<1> SUFFICES ASSUME IInv, PollClock(m) PROVE IInv'
  OBVIOUS
<1> DEFINE w == [watcher[m] EXCEPT !.stage = "publish"]
<1>1. /\ watcher \in [Nodes -> Watchers] /\ watcher[m].stage = "clock"
      /\ watcher' = [watcher EXCEPT ![m].stage = "publish"]
      /\ clock' = [clock EXCEPT ![m] = synced[db[m]]] /\ clock \in [Nodes -> 0..newest]
      /\ newest \in Nat /\ db[m] \in 1..newest /\ synced \in [1..newest -> 0..newest]
      /\ UNCHANGED <<database, db, pins, etag, request, cached, seen, faults>>
  BY DEF IInv, TypeOK, PollClock, LastSync, Times, Commits
<1>2. WatcherOK(m)
  BY DEF IInv
<1>3. w \in Watchers /\ w.polled = watcher[m].polled /\ w.last = watcher[m].last
      /\ w.stage = "publish" /\ w.epoch = watcher[m].epoch /\ w.seenSync = watcher[m].seenSync
  BY <1>1 DEF Watchers
<1>4. /\ watcher' \in [Nodes -> Watchers] /\ watcher'[m] = w
      /\ \A n \in Nodes \ {m} : watcher'[n] = watcher[n]
      /\ clock' \in [Nodes -> 0..newest] /\ clock'[m] = synced[db[m]]
      /\ \A n \in Nodes \ {m} : clock'[n] = clock[n]
  BY <1>1, <1>3
<1> HIDE DEF w
<1>5. \A v \in 1..newest : v <= db[m] => synced[v] <= clock'[m]
  BY <1>1, <1>4 DEF IInv, History
<1>6. clock[m] <= clock'[m]
  BY <1>2, <1>4 DEF WatcherOK, PollOK
<1>7. WatcherOK(m)'
  <2>1. TagOK(watcher[m].polled)' /\ TagOK(watcher[m].last)' /\ TagOK(etag[m])'
    BY <1>1, <1>2, <1>3, <1>4 DEF WatcherOK, TagOK, database
  <2>2. PollOK(m)'
    <3>1. PollOK(m) /\ UNCHANGED <<litefs, synced, db, pins>>
      BY <1>1, <1>2 DEF WatcherOK, database
    <3>2. watcher[m].polled # NoTag /\ watcher[m].polled.version \in 1..newest
          /\ watcher[m].polled.version <= db[m]
      BY <1>1, <1>2, <3>1 DEF WatcherOK, PollOK, TagOK
    <3>3. synced[watcher[m].polled.version] <= clock'[m]
      BY <1>5, <3>2
    <3>4. clock'[m] <= synced[db[m]]
      BY <1>1, <1>4
    <3> QED BY <1>1, <1>3, <1>4, <3>1, <3>2, <3>3, <3>4 DEF PollOK
  <2>3. EtagOK(m)'
    BY <1>1, <1>2, <1>3, <1>4 DEF WatcherOK, EtagOK
  <2>4. Held(m, etag[m])'
    BY <1>1, <1>2, <1>5 DEF WatcherOK, Held, TagOK, database
  <2> QED BY <2>1, <2>2, <2>3, <2>4 DEF WatcherOK
<1>8. seen' \in [Nodes -> 0..newest] /\ etag' \in [Nodes -> Tags] /\ clock' \in [Nodes -> Times]
  BY <1>1, <1>4 DEF IInv, TypeOK, Times
<1> QED BY <1>1, <1>4, <1>6, <1>7, <1>8, PollStepKeeps

LEMMA PublishKeeps == ASSUME NEW m \in Nodes PROVE IInv /\ Publish(m) => IInv'
<1> SUFFICES ASSUME IInv, Publish(m) PROVE IInv'
  OBVIOUS
<1> DEFINE w == [watcher[m] EXCEPT !.stage = "idle", !.polled = NoTag, !.last = watcher[m].polled]
<1>1. /\ watcher \in [Nodes -> Watchers] /\ etag \in [Nodes -> Tags] /\ seen \in [Nodes -> 0..newest]
      /\ watcher[m].stage = "publish"
      /\ etag' = [etag EXCEPT ![m] = watcher[m].polled]
      /\ watcher' = [watcher EXCEPT ![m].stage = "idle", ![m].polled = NoTag,
                                    ![m].last = watcher[m].polled]
      /\ seen' = [seen EXCEPT ![m] = watcher[m].polled.version]
      /\ newest \in Nat /\ clock[m] \in Nat /\ NoTag \in Tags /\ watcher[m].polled \in Tags
      /\ UNCHANGED <<database, db, pins, clock, request, cached, faults>>
  BY DEF IInv, TypeOK, Publish, EndPoll, Times, Tags, Watchers
<1>2. WatcherOK(m) /\ PollOK(m) /\ TagOK(watcher[m].polled)
  BY DEF IInv, WatcherOK
<1>3. w \in Watchers /\ w.polled = NoTag /\ w.last = watcher[m].polled /\ w.stage = "idle"
      /\ w.epoch = watcher[m].epoch /\ w.seenSync = watcher[m].seenSync
  BY <1>1 DEF Watchers
<1>4. /\ watcher' \in [Nodes -> Watchers] /\ watcher'[m] = w
      /\ \A n \in Nodes \ {m} : watcher'[n] = watcher[n]
      /\ etag' \in [Nodes -> Tags] /\ etag'[m] = watcher[m].polled
      /\ \A n \in Nodes \ {m} : etag'[n] = etag[n] /\ seen'[n] = seen[n]
      /\ seen'[m] = watcher[m].polled.version
  BY <1>1, <1>3
<1> HIDE DEF w
<1>5. watcher[m].polled # NoTag /\ watcher[m].polled.version \in 1..newest
      /\ watcher[m].polled.version <= db[m] /\ synced[watcher[m].polled.version] <= clock[m]
      /\ synced[db[m]] # 0
  BY <1>1, <1>2 DEF PollOK, TagOK
<1>6. seen' \in [Nodes -> 0..newest]
  BY <1>1, <1>5
<1>7. WatcherOK(m)'
  <2>1. TagOK(watcher[m].polled)' /\ TagOK(watcher[m].last)' /\ TagOK(etag[m])'
    BY <1>1, <1>2, <1>3, <1>4 DEF WatcherOK, TagOK, database
  <2>2. PollOK(m)'
    <3>1. UNCHANGED <<litefs, synced, db, pins, clock>>
      BY <1>1 DEF database
    <3> QED BY <1>2, <1>3, <1>4, <3>1 DEF PollOK
  <2>3. EtagOK(m)'
    BY <1>1, <1>3, <1>4, <1>5 DEF EtagOK
  <2>4. Held(m, etag[m])'
    BY <1>1, <1>4, <1>5 DEF Held, database
  <2> QED BY <2>1, <2>2, <2>3, <2>4 DEF WatcherOK
<1>8. clock' \in [Nodes -> Times] /\ clock[m] <= clock'[m] /\ \A n \in Nodes \ {m} : clock'[n] = clock[n]
  BY <1>1 DEF IInv, TypeOK
<1> QED BY <1>1, <1>4, <1>6, <1>7, <1>8, PollStepKeeps

LEMMA PollFailsKeeps == ASSUME NEW m \in Nodes PROVE IInv /\ PollFails(m) => IInv'
<1> SUFFICES ASSUME IInv, PollFails(m) PROVE IInv'
  OBVIOUS
<1> DEFINE w == AfterFailure(m)
<1>1. /\ watcher \in [Nodes -> Watchers] /\ etag \in [Nodes -> Tags]
      /\ watcher' = [watcher EXCEPT ![m] = w] /\ etag' = [etag EXCEPT ![m] = NoTag]
      /\ NoTag \in Tags /\ clock[m] \in Nat
      /\ UNCHANGED <<database, db, pins, clock, request, cached, seen>>
  BY DEF IInv, TypeOK, PollFails, Times, Tags
<1>2. WatcherOK(m) /\ PollOK(m)
  BY DEF IInv, WatcherOK
<1>3. w \in Watchers /\ w.polled = NoTag /\ w.last = NoTag /\ w.stage = "idle"
      /\ w.epoch \in {0, watcher[m].epoch} /\ w.seenSync = watcher[m].seenSync
  <2>1. Len(pins) \in Nat
    BY LenProperties DEF IInv, TypeOK
  <2>2. watcher[m].seenSync \in BOOLEAN /\ watcher[m].epoch \in 0..Len(pins)
    BY <1>1 DEF Watchers
  <2>3. w \in Watchers
    <3>1. Started \in Watchers
      BY <1>1, <2>1 DEF Watchers, Started
    <3> DEFINE e == IF watcher[m].stage = "idle" THEN 0 ELSE watcher[m].epoch
    <3>2. e \in 0..Len(pins)
      BY <2>1, <2>2
    <3>3. w = [Started EXCEPT !.seenSync = watcher[m].seenSync, !.epoch = e]
      BY DEF AfterFailure, Epoch
    <3> HIDE DEF e, w
    <3> QED BY <2>2, <3>1, <3>2, <3>3 DEF Watchers
  <2>4. w.polled = NoTag /\ w.last = NoTag /\ w.stage = "idle" /\ w.epoch \in {0, watcher[m].epoch}
    BY DEF AfterFailure, Started, Epoch
  <2>5. w.seenSync = watcher[m].seenSync
    BY <2>2 DEF AfterFailure, Started
  <2> QED BY <2>3, <2>4, <2>5
<1>4. /\ watcher' \in [Nodes -> Watchers] /\ watcher'[m] = w
      /\ \A n \in Nodes \ {m} : watcher'[n] = watcher[n]
      /\ etag' \in [Nodes -> Tags] /\ etag'[m] = NoTag
      /\ \A n \in Nodes \ {m} : etag'[n] = etag[n]
  BY <1>1, <1>3
<1> HIDE DEF w
<1>5. WatcherOK(m)'
  <2>1. PollOK(m)'
    <3>1. UNCHANGED <<litefs, synced, db, pins, clock>>
      BY <1>1 DEF database
    <3> QED BY <1>2, <1>3, <1>4, <3>1 DEF PollOK
  <2> QED BY <1>3, <1>4, <2>1 DEF WatcherOK, TagOK, EtagOK, Held
<1>6. faults' \in 0..MaxFaults
  BY EtagAssumption DEF IInv, TypeOK, PollFails
<1>7. /\ seen' \in [Nodes -> 0..newest] /\ clock' \in [Nodes -> Times] /\ clock[m] <= clock'[m]
  BY <1>1 DEF IInv, TypeOK
<1> QED BY <1>1, <1>4, <1>5, <1>6, <1>7, PollStepKeeps

-----------------------------------------------------------------------------
(* A restart forgets the clock with the request that could have read it.     *)
LEMMA RestartKeeps == ASSUME NEW m \in Nodes PROVE IInv /\ Restart(m) => IInv'
<1> SUFFICES ASSUME IInv, Restart(m) PROVE IInv'
  OBVIOUS
<1>1. /\ watcher \in [Nodes -> Watchers] /\ etag \in [Nodes -> Tags] /\ clock \in [Nodes -> Times]
      /\ watcher' = [watcher EXCEPT ![m] = Started] /\ etag' = [etag EXCEPT ![m] = NoTag]
      /\ clock' = [clock EXCEPT ![m] = 0]
      /\ request' = IF request.node = m THEN NoRequest ELSE request
      /\ NoTag \in Tags /\ 0 \in Times /\ newest \in Nat /\ Len(pins) \in Nat
      /\ UNCHANGED <<database, db, pins, cached, seen>>
  BY LenProperties DEF IInv, TypeOK, Restart, Times, Tags
<1>2. Started \in Watchers
  BY <1>1 DEF Started, Watchers
<1>3. NoRequest \in [stage : {"none", "clock", "rows"}, node : Nodes, tag : Tags, generated : Times]
  BY <1>1, EtagAssumption DEF NoRequest
<1>4. faults' \in 0..MaxFaults
  BY EtagAssumption DEF IInv, TypeOK, Restart
<1>5. TypeOK'
  <2>1. watcher' \in [Nodes -> Watchers] /\ etag' \in [Nodes -> Tags] /\ clock' \in [Nodes -> Times]
    BY <1>1, <1>2
  <2>2. request' \in [stage : {"none", "clock", "rows"}, node : Nodes, tag : Tags, generated : Times]
    BY <1>1, <1>3 DEF IInv, TypeOK
  <2> QED BY <1>1, <1>4, <2>1, <2>2 DEF IInv, TypeOK, Commits, Tags, Times, Watchers, database
<1>6. ASSUME NEW n \in Nodes PROVE WatcherOK(n)'
  <2>1. CASE n = m
    <3>1. watcher'[m] = Started /\ etag'[m] = NoTag /\ clock'[m] = 0 /\ synced'[db'[m]] \in Nat
      BY <1>1 DEF IInv, TypeOK, Commits, Times, database
    <3> QED BY <2>1, <3>1 DEF WatcherOK, TagOK, PollOK, EtagOK, Held, Started
  <2>2. CASE n # m
    BY <1>1, <2>2, SameWatcher
  <2> QED BY <2>1, <2>2
<1>7. RequestOK'
  <2>1. CASE request.node = m
    BY <1>1, <2>1 DEF RequestOK, NoRequest, TagOK
  <2>2. CASE request.node # m
    <3>1. request.node \in Nodes /\ request' = request /\ clock'[request.node] = clock[request.node]
      BY <1>1, <2>2 DEF IInv, TypeOK
    <3> QED BY <1>1, <3>1 DEF IInv, RequestOK, TagOK, Held, database
  <2> QED BY <2>1, <2>2
<1> QED BY <1>1, <1>5, <1>6, <1>7, SameCached, SameHistory DEF IInv

-----------------------------------------------------------------------------
(* The requests.                                                             *)
LEMMA RequestStepKeeps ==
    ASSUME IInv, UNCHANGED <<database, db, pins, watcher, etag, clock, seen>>,
           faults' = faults \/ faults' \in 0..MaxFaults,
           request' \in [stage : {"none", "clock", "rows"}, node : Nodes, tag : Tags,
                         generated : Times],
           cached' \in [tag : Tags, body : 0..newest, generated : Times],
           RequestOK', CachedOK'
    PROVE  IInv'
<1>1. TypeOK'
  BY DEF IInv, TypeOK, Commits, Tags, Times, Watchers, database
<1>2. ASSUME NEW n \in Nodes PROVE WatcherOK(n)'
  BY SameWatcher
<1> QED BY <1>1, <1>2, SameHistory DEF IInv

LEMMA LoadTagKeeps == ASSUME NEW m \in Nodes PROVE IInv /\ LoadTag(m) => IInv'
<1> SUFFICES ASSUME IInv, LoadTag(m) PROVE IInv'
  OBVIOUS
<1>1. /\ request' = [stage |-> "clock", node |-> m, tag |-> etag[m], generated |-> 0]
      /\ UNCHANGED <<database, db, pins, watcher, etag, clock, cached, seen, faults>>
  BY DEF LoadTag
<1>2. WatcherOK(m) /\ etag[m] \in Tags /\ 0 \in Times
  BY DEF IInv, TypeOK, Times
<1>3. RequestOK'
  BY <1>1, <1>2 DEF WatcherOK, RequestOK, TagOK, Held, database
<1>4. cached' \in [tag : Tags, body : 0..newest, generated : Times]
  BY <1>1 DEF IInv, TypeOK
<1> QED BY <1>1, <1>2, <1>3, <1>4, SameCached, RequestStepKeeps

LEMMA ReadClockKeeps == IInv /\ ReadClock => IInv'
<1> SUFFICES ASSUME IInv, ReadClock PROVE IInv'
  OBVIOUS
<1> DEFINE Requests == [stage : {"none", "clock", "rows"}, node : Nodes, tag : Tags, generated : Times]
           r == [request EXCEPT !.stage = "rows", !.generated = clock[request.node]]
<1>1. /\ request \in Requests /\ request.stage = "clock" /\ request' = r
      /\ clock[request.node] \in Times
      /\ UNCHANGED <<database, db, pins, watcher, etag, clock, cached, seen, faults>>
  BY DEF IInv, TypeOK, ReadClock
<1>2. /\ r \in Requests /\ r.stage = "rows" /\ r.node = request.node /\ r.tag = request.tag
      /\ r.generated = clock[request.node]
  BY <1>1
<1>3. request.node \in Nodes /\ PollOK(request.node)
  BY <1>1 DEF IInv, WatcherOK
<1> HIDE DEF r
<1>4. RequestOK'
  <2>1. TagOK(request.tag) /\ Held(request.node, request.tag)
    BY <1>1 DEF IInv, RequestOK
  <2> QED BY <1>1, <1>2, <1>3, <2>1 DEF RequestOK, PollOK, TagOK, Held, database
<1>5. cached' \in [tag : Tags, body : 0..newest, generated : Times]
  BY <1>1 DEF IInv, TypeOK
<1> QED BY <1>1, <1>2, <1>4, <1>5, SameCached, RequestStepKeeps

LEMMA RespondKeeps == IInv /\ Respond => IInv'
<1> SUFFICES ASSUME IInv, Respond PROVE IInv'
  OBVIOUS
<1>1. /\ request.stage = "rows" /\ request' = NoRequest
      /\ cached' = [tag |-> request.tag, body |-> db[request.node],
                    generated |-> request.generated]
      /\ request.node \in Nodes /\ request.tag \in Tags /\ request.generated \in Times
      /\ db[request.node] \in 1..newest /\ newest \in Nat
      /\ UNCHANGED <<database, db, pins, watcher, etag, clock, seen, faults>>
  BY DEF IInv, TypeOK, Respond, SentTag, Commits
<1>2. RequestOK
  BY DEF IInv
<1>3. CachedOK'
  BY <1>1, <1>2 DEF CachedOK, RequestOK, TagOK, Held, database
<1>4. RequestOK'
  BY <1>1 DEF RequestOK, NoRequest, TagOK
<1>5. NoRequest \in [stage : {"none", "clock", "rows"}, node : Nodes, tag : Tags, generated : Times]
  BY <1>1, EtagAssumption DEF NoRequest, Tags, Times
<1>6. cached' \in [tag : Tags, body : 0..newest, generated : Times]
  BY <1>1
<1> QED BY <1>1, <1>3, <1>4, <1>5, <1>6, RequestStepKeeps

LEMMA RespondErrorKeeps == IInv /\ RespondError => IInv'
<1> SUFFICES ASSUME IInv, RespondError PROVE IInv'
  OBVIOUS
<1>1. /\ request' = NoRequest /\ faults' \in 0..MaxFaults /\ newest \in Nat
      /\ UNCHANGED <<database, db, pins, watcher, etag, clock, cached, seen>>
  BY EtagAssumption DEF IInv, TypeOK, RespondError
<1>2. RequestOK'
  BY <1>1 DEF RequestOK, NoRequest, TagOK
<1>3. NoRequest \in [stage : {"none", "clock", "rows"}, node : Nodes, tag : Tags, generated : Times]
  BY <1>1, EtagAssumption DEF NoRequest, Tags, Times
<1>4. cached' \in [tag : Tags, body : 0..newest, generated : Times]
  BY <1>1 DEF IInv, TypeOK
<1> QED BY <1>1, <1>2, <1>3, <1>4, SameCached, RequestStepKeeps

-----------------------------------------------------------------------------
(* The invariant is inductive.                                               *)
LEMMA InvNext == IInv /\ [Next]_vars => IInv'
<1> SUFFICES ASSUME IInv, [Next]_vars PROVE IInv'
  OBVIOUS
<1>1. CASE Commit
  BY <1>1, CommitKeeps
<1>2. ASSUME NEW n \in Nodes, Apply(n) \/ PollFails(n) \/ Restart(n) \/ LoadTag(n) PROVE IInv'
  BY <1>2, ApplyKeeps, PollFailsKeeps, RestartKeeps, LoadTagKeeps
<1>3. ASSUME NEW n \in Nodes, Poll(n) PROVE IInv'
  BY <1>3, PinKeeps, PollUnchangedKeeps, PollVersionKeeps, PollUnsyncedKeeps, PollSyncedKeeps,
     PollClockKeeps, PublishKeeps DEF Poll
<1>4. CASE Respond200 \/ RespondError
  BY <1>4, ReadClockKeeps, RespondKeeps, RespondErrorKeeps DEF Respond200
<1>5. CASE UNCHANGED vars
  <2>1. /\ UNCHANGED <<database, db, pins, watcher, etag, clock, seen>> /\ faults' = faults
        /\ UNCHANGED <<request, cached>>
    BY <1>5 DEF vars
  <2>2. RequestOK'
    BY <2>1 DEF IInv, RequestOK, TagOK, Held, database
  <2>3. /\ request' \in [stage : {"none", "clock", "rows"}, node : Nodes, tag : Tags,
                         generated : Times]
        /\ cached' \in [tag : Tags, body : 0..newest, generated : Times]
    BY <2>1 DEF IInv, TypeOK
  <2> QED BY <2>1, <2>2, <2>3, SameCached, RequestStepKeeps
<1> QED BY <1>1, <1>2, <1>3, <1>4, <1>5 DEF Next

(* The invariant holds in every state.                                       *)
THEOREM EtagInvariant == Spec => []IInv
  BY InvInit, InvNext, PTL DEF Spec

(* Every variable keeps its type, for every number of commits and faults.    *)
THEOREM EtagTypes == Spec => []TypeOK
<1>1. IInv => TypeOK
  BY DEF IInv
<1> QED BY <1>1, EtagInvariant, PTL

(* A 304 of any node confirms rows and a meta.generated that are not older   *)
(* than the node's database was when its last poll began.                    *)
THEOREM RevalidationHolds == Spec => []RevalidationIsSound
<1>1. ASSUME IInv PROVE RevalidationIsSound
  <2> SUFFICES ASSUME NEW n \in Nodes, Matches(n)
               PROVE  /\ cached.body >= seen[n]
                      /\ seen[n] # 0 => cached.generated >= synced[seen[n]]
    BY DEF RevalidationIsSound
  <2>1. WatcherOK(n) /\ CachedOK /\ cached.tag # NoTag /\ etag[n] # NoTag
    BY <1>1 DEF IInv, Matches, SameTag
  <2>2. cached.tag.version = etag[n].version /\ etag[n].version \in 1..newest
    BY <2>1, TagsAgree DEF Matches, WatcherOK, CachedOK, TagOK
  <2>3. seen[n] <= etag[n].version /\ seen[n] \in 0..newest /\ newest \in Nat
    BY <1>1, <2>1 DEF WatcherOK, EtagOK, IInv, TypeOK
  <2>4. seen[n] # 0 => /\ synced[seen[n]] <= synced[etag[n].version]
                       /\ synced[seen[n]] \in Nat /\ synced[etag[n].version] \in Nat
    <3>1. synced \in [1..newest -> 0..newest] /\ History
      BY <1>1 DEF IInv, TypeOK, Commits, Times
    <3>2. seen[n] # 0 => seen[n] \in 1..newest
      BY <2>3
    <3> QED BY <2>2, <2>3, <3>1, <3>2 DEF History
  <2>5. cached.body \in Nat /\ cached.generated \in Nat
    BY <1>1 DEF IInv, TypeOK, Times
  <2> QED BY <2>1, <2>2, <2>3, <2>4, <2>5 DEF CachedOK
<1> QED BY <1>1, EtagInvariant, PTL

(* No response claims a sync that its rows do not have, and none that may be *)
(* stored has rows from before the first sync.                               *)
THEOREM ResponseHolds == Spec => []ResponseIsTrue
<1>1. IInv => ResponseIsTrue
  BY DEF IInv, CachedOK, ResponseIsTrue
<1> QED BY <1>1, EtagInvariant, PTL
=============================================================================
