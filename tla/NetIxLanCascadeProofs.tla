------------------------ MODULE NetIxLanCascadeProofs ------------------------
(* Proofs about NetIxLanCascade for every set of rows and networks, every    *)
(* request budget, chunk size and memo time: its types, the truth of its     *)
(* memo, and that it implements NetIxLanMirror.                              *)
EXTENDS NetIxLanCascade, MaxMinFacts, TLAPS

IsLive(i) == up[i].status = "live"

(* Nothing is newer than the upstream clock.                                 *)
TimesOK ==
    /\ Cursor0 <= clock
    /\ \A i \in Rows : /\ up[i].updated <= clock /\ listed[i] <= clock
                       /\ nix[i].updated \in 1..clock /\ scratchNix[i].updated <= clock
                       /\ memo[i].updated <= clock /\ memo[i].netUpdated <= clock
                       /\ IsLive(i) => up[i].updated > 0
    /\ \A n \in Nets : /\ upNet[n].updated <= clock
                       /\ net[n].updated <= clock /\ scratchNet[n].updated <= clock

(* What is stored, staged or cached of a row is no newer than upstream's.    *)
HistoryOK(i) ==
    up[i].status # "absent" =>
        /\ nix[i].updated <= up[i].updated
        /\ scratchNix[i].updated <= up[i].updated
        /\ listed[i] <= up[i].updated

(* A version that is newer than the cached list's is newer than the list.    *)
CacheOK(i) ==
    listed[i] > 0 =>
        /\ nix[i].updated > listed[i] => nix[i].updated >= NixCutoff
        /\ scratchNix[i].updated > listed[i] => scratchNix[i].updated >= NixCutoff
        /\ up[i].status # "absent" /\ up[i].updated > listed[i] => up[i].updated >= NixCutoff

(* A staged tombstone is no older than the stored row and older than any     *)
(* live version; a staged live row is older only if the cached list had it.  *)
ScratchOK(i) ==
    /\ scratchNix[i].updated > 0 /\ ~scratchNix[i].live =>
          /\ nix[i].updated <= scratchNix[i].updated
          /\ IsLive(i) => up[i].updated > scratchNix[i].updated
    /\ scratchNix[i].live /\ scratchNix[i].updated < nix[i].updated =>
          scratchNix[i].updated = listed[i] /\ listed[i] > 0

(* A row that is live although its network is known as deleted was restored  *)
(* later, or is old data under a network that was not deleted by the reclaim.*)
LiveAfter(i, v) ==
    v.deleted /\ IsLive(i) => \/ up[i].updated > v.updated
                              \/ up[i].updated <= Cursor0 /\ ~v.rir

NetworkOK(i) ==
    /\ upNet[NetOf[i]].deleted /\ IsLive(i) =>
          up[i].updated <= Cursor0 /\ ~upNet[NetOf[i]].rir
    /\ LiveAfter(i, net[NetOf[i]])
    /\ LiveAfter(i, scratchNet[NetOf[i]])

(* A row that was found gone is live only in a version of a later time.      *)
VerdictOK(i) ==
    /\ i \in gone /\ IsLive(i) => up[i].updated > Cursor0
    /\ memo[i].outcome = "gone" /\ IsLive(i) =>
          up[i].updated > Cursor0 /\ up[i].updated > memo[i].updated
    /\ memo[i].outcome = "live" =>
          IsLive(i) \/ upNet[NetOf[i]].updated > memo[i].netUpdated

(* The reclaim plans networks that only the staged row shows as deleted.     *)
PlanOK ==
    \A n \in rirNets : ~net[n].deleted /\ scratchNet[n].deleted /\ scratchNet[n].rir

RowOK(i) == HistoryOK(i) /\ CacheOK(i) /\ ScratchOK(i) /\ NetworkOK(i) /\ VerdictOK(i)

IInv == TypeOK /\ TimesOK /\ PlanOK /\ \A i \in Rows : RowOK(i)

-----------------------------------------------------------------------------
Networks == [deleted : BOOLEAN, updated : Times, rir : BOOLEAN]

(* The times of the model are naturals.                                      *)
LEMMA TimesAreNat ==
  /\ Times \subseteq Nat /\ 0 \in Times /\ Cursor0 \in Times /\ Cursor0 >= 2
  /\ \A t \in Times : t \in Nat /\ t <= MaxClock
  /\ MaxClock \in Nat
BY CascadeAssumption DEF Times

(* The longest time that an entry of the memo is kept.                       *)
LEMMA MaxIsNat ==
  /\ Max({LiveTTL, GoneTTL, Backoff}) \in Nat
  /\ \A t \in {LiveTTL, GoneTTL, Backoff} : t <= Max({LiveTTL, GoneTTL, Backoff})
<1> DEFINE S == {LiveTTL, GoneTTL, Backoff}
<1>1. /\ S \in SUBSET Nat /\ S # {} /\ LiveTTL + GoneTTL + Backoff \in Nat
      /\ \A t \in S : t <= LiveTTL + GoneTTL + Backoff
  BY CascadeAssumption
<1> QED BY <1>1, MaxExists

(* The newest row of the cached list is no newer than the upstream clock.    *)
LEMMA CutoffFacts ==
  ASSUME TypeOK, TimesOK
  PROVE  NixCutoff \in Nat /\ NixCutoff <= clock
<1> DEFINE S == {listed[i] : i \in Rows} \cup {Cursor0}
<1>1. clock \in Nat /\ Cursor0 \in Nat /\ Cursor0 <= clock
  BY TimesAreNat DEF TypeOK, TimesOK
<1>2. \A i \in Rows : listed[i] \in Nat /\ listed[i] <= clock
  BY TimesAreNat DEF TypeOK, TimesOK
<1>3. S \in SUBSET Nat /\ S # {} /\ \A t \in S : t <= clock
  BY <1>1, <1>2
<1>4. Max(S) \in S
  BY <1>1, <1>3, MaxExists
<1> QED BY <1>3, <1>4 DEF NixCutoff

-----------------------------------------------------------------------------
(* The invariant holds in the first states.                                  *)
LEMMA CascadeInit == Init => IInv
<1> SUFFICES ASSUME Init PROVE IInv
  OBVIOUS
<1>1. TypeOK
  <2>1. 0 \in 0..MaxRequests /\ 0 \in 0..MaxFaults /\ 0 \in 0..MaxFailures
    BY CascadeAssumption
  <2>2. Max({LiveTTL, GoneTTL, Backoff}) \in Nat
    BY CascadeAssumption, MaxIsNat
  <2>3. NoEntry \in [outcome : {"none", "live", "gone", "failed"}, updated : Times,
                     netUpdated : Times, left : 0..Max({LiveTTL, GoneTTL, Backoff}),
                     failures : 0..MaxFailures]
    BY <2>1, <2>2, TimesAreNat DEF NoEntry
  <2>4. 1 \in Times /\ 2 \in Times
    BY CascadeAssumption DEF Times
  <2>5. up \in [Rows -> [status : {"live", "deleted", "absent"}, updated : Times]]
    BY <2>4, TimesAreNat DEF Init, At
  <2>6. /\ upNet \in [Nets -> Networks] /\ net \in [Nets -> Networks]
        /\ scratchNet \in [Nets -> Networks]
    <3>1. NoNet \in Networks
      BY TimesAreNat DEF NoNet, Networks
    <3>2. {[deleted |-> FALSE, updated |-> 1, rir |-> FALSE],
           [deleted |-> TRUE, updated |-> 2, rir |-> FALSE]} \subseteq Networks
      BY <2>4 DEF Networks
    <3> QED BY <3>1, <3>2 DEF Init
  <2>7. /\ nix \in [Rows -> [live : BOOLEAN, updated : Times]]
        /\ scratchNix \in [Rows -> [live : BOOLEAN, updated : Times]]
    BY <2>4, TimesAreNat DEF Init, NoRow
  <2>8. listed \in [Rows -> Times]
    BY <2>5, TimesAreNat DEF Init, LiveTimes
  <2> QED BY <2>1, <2>3, <2>5, <2>6, <2>7, <2>8, TimesAreNat DEF Init, TypeOK, Networks
<1>2. clock = Cursor0 /\ clock \in Nat /\ clock >= 2
  BY TimesAreNat DEF Init
<1>3. ASSUME NEW i \in Rows
      PROVE  /\ up[i].updated \in {0, 1, 2}
             /\ up[i].status = "live" => up[i].updated = 1
             /\ up[i].status # "absent" => up[i].updated >= 1
             /\ listed[i] = IF up[i].status = "live" THEN up[i].updated ELSE 0
             /\ nix[i].updated = 1
             /\ memo[i] = NoEntry /\ scratchNix[i] = NoRow
  <2>1. up[i] \in {At("live", 1), At("deleted", 1), At("deleted", 2), At("absent", 0)}
    BY DEF Init
  <2>2. up[i].updated \in {0, 1, 2} /\ (up[i].status = "live" => up[i].updated = 1)
        /\ (up[i].status # "absent" => up[i].updated >= 1)
    <3>1. CASE up[i] = At("live", 1)
      BY <3>1 DEF At
    <3>2. CASE up[i] = At("deleted", 1)
      BY <3>2 DEF At
    <3>3. CASE up[i] = At("deleted", 2)
      BY <3>3 DEF At
    <3>4. CASE up[i] = At("absent", 0)
      BY <3>4 DEF At
    <3> QED BY <2>1, <3>1, <3>2, <3>3, <3>4
  <2> QED BY <2>2 DEF Init, LiveTimes
<1>4. ASSUME NEW n \in Nets
      PROVE  /\ upNet[n].updated \in {1, 2} /\ ~upNet[n].rir
             /\ net[n] = upNet[n] /\ scratchNet[n] = NoNet
  <2>1. upNet[n] \in {[deleted |-> FALSE, updated |-> 1, rir |-> FALSE],
                     [deleted |-> TRUE, updated |-> 2, rir |-> FALSE]}
    BY DEF Init
  <2>2. CASE upNet[n] = [deleted |-> FALSE, updated |-> 1, rir |-> FALSE]
    BY <2>2 DEF Init
  <2>3. CASE upNet[n] = [deleted |-> TRUE, updated |-> 2, rir |-> FALSE]
    BY <2>3 DEF Init
  <2> QED BY <2>1, <2>2, <2>3
<1>5. NoRow.updated = 0 /\ ~NoRow.live /\ NoNet.updated = 0 /\ ~NoNet.deleted
       /\ NoEntry.outcome = "none" /\ NoEntry.updated = 0 /\ NoEntry.netUpdated = 0
  BY DEF NoRow, NoNet, NoEntry
<1>6. TimesOK
  <2>1. \A n \in Nets : /\ upNet[n].updated <= clock
                        /\ net[n].updated <= clock /\ scratchNet[n].updated <= clock
    BY <1>2, <1>4, <1>5
  <2>2. \A i \in Rows : /\ up[i].updated <= clock /\ listed[i] <= clock
                        /\ nix[i].updated \in 1..clock /\ scratchNix[i].updated <= clock
                        /\ memo[i].updated <= clock /\ memo[i].netUpdated <= clock
                        /\ IsLive(i) => up[i].updated > 0
    BY <1>2, <1>3, <1>5 DEF IsLive
  <2> QED BY <1>2, <2>1, <2>2 DEF TimesOK
<1>7. PlanOK
  BY DEF Init, PlanOK
<1>8. ASSUME NEW i \in Rows PROVE RowOK(i)
  <2>1. HistoryOK(i) /\ CacheOK(i) /\ ScratchOK(i)
    BY <1>2, <1>3, <1>5 DEF HistoryOK, CacheOK, ScratchOK, IsLive
  <2>2. NetworkOK(i)
    <3>1. IsLive(i) => up[i].updated <= Cursor0
      BY <1>2, <1>3 DEF IsLive
    <3>2. NetOf[i] \in Nets
      BY CascadeAssumption
    <3> QED BY <1>4, <1>5, <3>1, <3>2 DEF NetworkOK, LiveAfter
  <2>3. VerdictOK(i)
    BY <1>3, <1>5 DEF VerdictOK, Init
  <2> QED BY <2>1, <2>2, <2>3 DEF RowOK
<1> QED BY <1>1, <1>6, <1>7, <1>8 DEF IInv

-----------------------------------------------------------------------------
(* The steps.                                                                *)

(* Upstream: a version that appears is newer than all that is known.         *)
LEMMA UpstreamStep ==
  ASSUME IInv, NEW n \in Nets, UpstreamChange(n)
  PROVE  IInv'
<1> DEFINE Row == [status : {"live", "deleted", "absent"}, updated : Times]
<1>1. /\ TypeOK /\ TimesOK /\ PlanOK
      /\ clock \in Nat /\ clock' = clock + 1 /\ clock' \in Times /\ Cursor0 \in Nat
      /\ up \in [Rows -> Row] /\ upNet \in [Nets -> Networks]
  <2>1. TypeOK /\ TimesOK /\ PlanOK
    BY DEF IInv
  <2>2. /\ clock \in Nat /\ clock' = clock + 1 /\ clock < MaxClock /\ Cursor0 \in Nat
        /\ MaxClock \in Nat
    BY <2>1, TimesAreNat DEF TypeOK, UpstreamChange
  <2>3. clock' \in Times
    BY <2>2 DEF Times
  <2> QED BY <2>1, <2>2, <2>3 DEF TypeOK, Networks
<1>2. /\ listed' = listed /\ nix' = nix /\ net' = net /\ memo' = memo /\ place' = place
      /\ mode' = mode /\ scratchNet' = scratchNet /\ scratchNix' = scratchNix
      /\ canStage' = canStage /\ pending' = pending /\ requests' = requests
      /\ prevOK' = prevOK /\ gone' = gone /\ rirNets' = rirNets /\ faults' = faults
  BY DEF UpstreamChange, committed, pass
<1>3. /\ upNet' \in [Nets -> Networks]
      /\ \A m \in Nets \ {n} : upNet'[m] = upNet[m]
      /\ upNet'[n].updated = clock'
      /\ upNet'[n].deleted /\ upNet'[n].rir /\ upNet[n].deleted => upNet[n].rir
  <2>1. ASSUME ~upNet[n].deleted, NEW reclaimed \in BOOLEAN,
               upNet' = [upNet EXCEPT ![n] =
                            [deleted |-> TRUE, updated |-> clock', rir |-> reclaimed]]
        PROVE  <1>3
    <3>1. [deleted |-> TRUE, updated |-> clock', rir |-> reclaimed] \in Networks
      BY <1>1 DEF Networks
    <3> QED BY <1>1, <2>1, <3>1
  <2>2. CASE upNet' = [upNet EXCEPT ![n] = [deleted |-> FALSE, updated |-> clock', rir |-> FALSE]]
    BY <1>1, <2>2 DEF Networks
  <2>3. CASE upNet' = [upNet EXCEPT ![n].updated = clock']
    BY <1>1, <2>3 DEF Networks
  <2> QED BY <2>1, <2>2, <2>3 DEF UpstreamChange
<1>4. /\ up' \in [Rows -> Row]
      /\ \A i \in Rows :
           \/ /\ NetOf[i] = n /\ up[i].status = "live" /\ up'[i].status # "live"
              /\ up'[i].status # "absent" => up'[i].updated = clock'
              /\ up'[i].updated <= clock'
           \/ /\ NetOf[i] = n /\ upNet[n].deleted /\ ~upNet'[n].deleted
              /\ up[i].status = "deleted" /\ up'[i] = At("live", clock')
           \/ /\ up'[i] = up[i]
              /\ NetOf[i] = n /\ up[i].status = "live" => upNet[n].deleted
  <2>1. CASE /\ ~upNet[n].deleted
            /\ up' = [i \in Rows |-> IF i \in LiveOf(n) THEN At("deleted", clock') ELSE up[i]]
    BY <1>1, <2>1, TimesAreNat DEF LiveOf, At
  <2>2. CASE /\ ~upNet[n].deleted
            /\ up' = [i \in Rows |-> IF i \in LiveOf(n) THEN At("absent", 0) ELSE up[i]]
    BY <1>1, <2>2, TimesAreNat DEF LiveOf, At
  <2>3. ASSUME upNet[n].deleted, ~upNet'[n].deleted, NEW back \in SUBSET TombstonesOf(n),
               up' = [i \in Rows |-> IF i \in back THEN At("live", clock') ELSE up[i]]
        PROVE  <1>4
    BY <1>1, <2>3, TimesAreNat DEF TombstonesOf, At
  <2>4. CASE upNet[n].deleted /\ up' = up
    BY <1>1, <2>4
  <2>5. upNet' = [upNet EXCEPT ![n] = [deleted |-> FALSE, updated |-> clock', rir |-> FALSE]]
        => ~upNet'[n].deleted
    BY <1>1
  <2> QED BY <2>1, <2>2, <2>3, <2>4, <2>5 DEF UpstreamChange
<1>5. TypeOK'
  BY <1>1, <1>2, <1>3, <1>4 DEF TypeOK, Networks
<1>6. TimesOK'
  <2>1. Cursor0 <= clock' /\ \A t \in Times : t <= clock => t <= clock' /\ t \in Nat
    BY <1>1, TimesAreNat DEF TimesOK
  <2>2. \A m \in Nets : upNet'[m].updated <= clock'
    <3> SUFFICES ASSUME NEW m \in Nets PROVE upNet'[m].updated <= clock'
      OBVIOUS
    <3>1. upNet[m].updated \in Times /\ upNet[m].updated <= clock
      BY <1>1 DEF TimesOK, Networks
    <3>2. CASE m = n
      BY <1>1, <1>3, <3>2
    <3>3. CASE m # n
      BY <1>3, <2>1, <3>1, <3>3
    <3> QED BY <3>2, <3>3
  <2>3. \A m \in Nets : net[m].updated <= clock' /\ scratchNet[m].updated <= clock'
    BY <1>1, <2>1 DEF TimesOK, TypeOK
  <2>4. \A i \in Rows : up'[i].updated <= clock' /\ (up'[i].status = "live" => up'[i].updated > 0)
    <3> SUFFICES ASSUME NEW i \in Rows
                 PROVE  up'[i].updated <= clock' /\ (up'[i].status = "live" => up'[i].updated > 0)
      OBVIOUS
    <3>1. /\ up[i].updated \in Times /\ up[i].updated <= clock
          /\ up[i].status = "live" => up[i].updated > 0
      BY <1>1 DEF TimesOK, IsLive
    <3>2. clock' \in Nat /\ clock' > 0 /\ up[i].updated <= clock'
      <4>1. clock \in Nat /\ clock' = clock + 1
        BY <1>1
      <4>2. up[i].updated \in Nat
        BY <3>1, TimesAreNat
      <4> QED BY <3>1, <4>1, <4>2
    <3>3. \/ up'[i] = up[i]
          \/ up'[i].status # "live" /\ up'[i].updated <= clock'
          \/ up'[i].updated = clock'
      BY <1>4 DEF At
    <3> QED BY <3>1, <3>2, <3>3
  <2>5. \A i \in Rows : /\ nix[i].updated \in 1..clock' /\ scratchNix[i].updated <= clock'
                        /\ memo[i].updated <= clock' /\ memo[i].netUpdated <= clock'
                        /\ listed[i] <= clock'
    <3> SUFFICES ASSUME NEW i \in Rows
                 PROVE  /\ nix[i].updated \in 1..clock' /\ scratchNix[i].updated <= clock'
                        /\ memo[i].updated <= clock' /\ memo[i].netUpdated <= clock'
                        /\ listed[i] <= clock'
      OBVIOUS
    <3>1. /\ nix[i].updated \in 1..clock /\ scratchNix[i].updated <= clock
          /\ memo[i].updated <= clock /\ memo[i].netUpdated <= clock /\ listed[i] <= clock
      BY <1>1 DEF TimesOK
    <3>2. /\ scratchNix[i].updated \in Times /\ memo[i].updated \in Times
          /\ memo[i].netUpdated \in Times /\ listed[i] \in Times
      BY <1>1 DEF TypeOK
    <3>3. nix[i].updated \in 1..clock'
      <4>1. clock \in Nat /\ clock' = clock + 1
        BY <1>1
      <4> QED BY <3>1, <4>1
    <3> QED BY <2>1, <3>1, <3>2, <3>3
  <2> QED BY <1>2, <2>1, <2>2, <2>3, <2>4, <2>5 DEF TimesOK, IsLive
<1>7. PlanOK'
  BY <1>1, <1>2 DEF PlanOK
<1>8. ASSUME NEW i \in Rows PROVE RowOK(i)'
  <2>1. /\ RowOK(i) /\ NetOf[i] \in Nets
        /\ up[i] \in Row /\ up'[i] \in Row /\ upNet[NetOf[i]] \in Networks
        /\ upNet'[NetOf[i]] \in Networks /\ net[NetOf[i]] \in Networks
        /\ scratchNet[NetOf[i]] \in Networks
        /\ nix[i].updated \in Times /\ scratchNix[i].updated \in Times /\ listed[i] \in Times
        /\ memo[i].updated \in Times /\ memo[i].netUpdated \in Times
    BY <1>1, <1>3, <1>4, CascadeAssumption DEF IInv, TypeOK, Networks
  <2>2. /\ nix[i].updated <= clock /\ scratchNix[i].updated <= clock /\ listed[i] <= clock
        /\ memo[i].updated <= clock /\ memo[i].netUpdated <= clock
        /\ net[NetOf[i]].updated <= clock /\ scratchNet[NetOf[i]].updated <= clock
        /\ upNet[NetOf[i]].updated <= clock /\ Cursor0 <= clock /\ NixCutoff <= clock
        /\ NixCutoff \in Nat /\ NixCutoff' = NixCutoff
    <3>1. NixCutoff \in Nat /\ NixCutoff <= clock
      BY <1>1, CutoffFacts
    <3>2. NixCutoff' = NixCutoff
      BY <1>2 DEF NixCutoff
    <3> QED BY <1>1, <2>1, <3>1, <3>2 DEF TimesOK
  <2>3. \A t \in Times : t <= clock => clock' > t
    BY <1>1, TimesAreNat
  <2>4. /\ up'[i].status # "absent" => up'[i] = up[i] \/ up'[i].updated = clock'
        /\ IsLive(i)' => \/ up'[i] = up[i]
                         \/ up'[i].updated = clock' /\ up[i].status = "deleted"
    BY <1>4 DEF At, IsLive
  <2>5. HistoryOK(i)' /\ CacheOK(i)' /\ ScratchOK(i)'
    BY <1>1, <1>2, <2>1, <2>2, <2>3, <2>4, TimesAreNat
    DEF RowOK, HistoryOK, CacheOK, ScratchOK, IsLive
  <2>6. NetworkOK(i)'
    <3>1. \A v \in {net[NetOf[i]], scratchNet[NetOf[i]]} : LiveAfter(i, v) => LiveAfter(i, v)'
      BY <1>1, <2>1, <2>2, <2>4, TimesAreNat DEF LiveAfter, IsLive, Networks
    <3>2. upNet'[NetOf[i]].deleted /\ IsLive(i)' =>
             up'[i].updated <= Cursor0 /\ ~upNet'[NetOf[i]].rir
      BY <1>3, <1>4, <2>1 DEF RowOK, NetworkOK, IsLive
    <3> QED BY <1>2, <2>1, <3>1, <3>2 DEF RowOK, NetworkOK
  <2>7. VerdictOK(i)'
    <3>1. VerdictOK(i)
      BY <2>1 DEF RowOK
    <3>2. IsLive(i)' => \/ IsLive(i) /\ up'[i] = up[i]
                        \/ up'[i].updated > Cursor0 /\ up'[i].updated > memo[i].updated
      <4>1. clock' > Cursor0 /\ clock' > memo[i].updated
        BY <1>1, <2>1, <2>2, <2>3, TimesAreNat
      <4>2. CASE up'[i] = up[i]
        BY <4>2 DEF IsLive
      <4>3. CASE up'[i].updated = clock'
        BY <4>1, <4>3
      <4> QED BY <2>4, <4>2, <4>3
    <3>3. IsLive(i) => IsLive(i)' \/ upNet'[NetOf[i]].updated > memo[i].netUpdated
      <4>1. clock' > memo[i].netUpdated
        BY <2>1, <2>2, <2>3
      <4>2. IsLive(i) /\ ~IsLive(i)' => NetOf[i] = n
        BY <1>4, <2>1 DEF IsLive
      <4> QED BY <1>3, <4>1, <4>2
    <3>4. upNet'[NetOf[i]].updated >= upNet[NetOf[i]].updated
      <4> DEFINE now == upNet[NetOf[i]].updated
      <4>1. now \in Times /\ clock' > now /\ now \in Nat /\ clock' \in Nat
        BY <1>1, <2>1, <2>2, <2>3, TimesAreNat DEF Networks
      <4>2. upNet'[NetOf[i]].updated = clock' \/ upNet'[NetOf[i]].updated = now
        BY <1>3, <2>1
      <4> QED BY <4>1, <4>2
    <3>5. /\ upNet[NetOf[i]].updated \in Nat /\ upNet'[NetOf[i]].updated \in Nat
          /\ memo[i].netUpdated \in Nat
      BY <2>1, TimesAreNat DEF Networks
    <3> QED BY <1>2, <3>1, <3>2, <3>3, <3>4, <3>5 DEF VerdictOK
  <2> QED BY <2>5, <2>6, <2>7 DEF RowOK
<1> QED BY <1>5, <1>6, <1>7, <1>8 DEF IInv

(* The networks of a cycle: the staged versions are upstream's.              *)
LEMMA FetchNetsStep ==
  ASSUME IInv, NEW m \in {"incremental", "full"}, FetchNets(m)
  PROVE  IInv'
<1>1. /\ TypeOK /\ TimesOK
      /\ upNet \in [Nets -> Networks] /\ clock \in Nat /\ rirNets = {} /\ gone = {}
  BY TimesAreNat DEF IInv, TypeOK, FetchNets, Networks
<1>2. /\ clock' = clock /\ up' = up /\ upNet' = upNet /\ listed' = listed /\ nix' = nix
      /\ net' = net /\ memo' = memo /\ place' = "nets" /\ mode' = m /\ scratchNix' = scratchNix
      /\ canStage' = canStage /\ pending' = pending /\ requests' = requests
      /\ prevOK' = prevOK /\ gone' = gone /\ rirNets' = rirNets /\ faults' = faults
  BY DEF FetchNets, upstream, committed, pass
<1>3. NoNet \in Networks /\ NoNet.updated = 0 /\ ~NoNet.deleted
  BY TimesAreNat DEF NoNet, Networks
<1>4. /\ scratchNet' \in [Nets -> Networks]
      /\ \A n \in Nets : scratchNet'[n] \in {upNet[n], NoNet}
  BY <1>1, <1>3 DEF FetchNets
<1>5. TypeOK'
  BY <1>1, <1>2, <1>4 DEF TypeOK, Networks
<1>6. TimesOK'
  <2>1. \A n \in Nets : scratchNet'[n].updated <= clock
    BY <1>1, <1>3, <1>4 DEF TimesOK
  <2> QED BY <1>1, <1>2, <2>1 DEF TimesOK, IsLive
<1>7. PlanOK'
  BY <1>1, <1>2 DEF PlanOK
<1>8. ASSUME NEW i \in Rows PROVE RowOK(i)'
  <2>1. RowOK(i) /\ NetOf[i] \in Nets /\ NixCutoff' = NixCutoff
    BY <1>2, CascadeAssumption DEF IInv, NixCutoff
  <2>2. LiveAfter(i, upNet[NetOf[i]]) /\ LiveAfter(i, NoNet)
    BY <1>3, <2>1 DEF RowOK, NetworkOK, LiveAfter
  <2>3. NetworkOK(i)'
    BY <1>2, <1>4, <2>1, <2>2 DEF RowOK, NetworkOK, LiveAfter, IsLive
  <2>4. HistoryOK(i)' /\ CacheOK(i)' /\ ScratchOK(i)' /\ VerdictOK(i)'
    BY <1>2, <2>1 DEF RowOK, HistoryOK, CacheOK, ScratchOK, VerdictOK, IsLive
  <2> QED BY <2>3, <2>4 DEF RowOK
<1> QED BY <1>5, <1>6, <1>7, <1>8 DEF IInv

(* The netixlans of a cycle: what a full cycle stages is upstream's row or   *)
(* the cached list's.                                                        *)
LEMMA FetchNetIxLansStep ==
  ASSUME IInv, FetchNetIxLans
  PROVE  IInv'
<1> DEFINE StagedRow == [live : BOOLEAN, updated : Times]
<1>1. /\ TypeOK /\ TimesOK /\ PlanOK
      /\ up \in [Rows -> [status : {"live", "deleted", "absent"}, updated : Times]]
      /\ listed \in [Rows -> Times] /\ clock \in Nat
      /\ gone = {} /\ rirNets = {}
  BY TimesAreNat DEF IInv, TypeOK, FetchNetIxLans
<1>2. /\ clock' = clock /\ up' = up /\ upNet' = upNet /\ nix' = nix
      /\ net' = net /\ memo' = memo /\ place' = "fetched" /\ mode' = mode
      /\ scratchNet' = scratchNet /\ canStage' = canStage /\ pending' = pending
      /\ requests' = requests /\ prevOK' = prevOK /\ gone' = gone /\ rirNets' = rirNets
      /\ faults' = faults
  BY DEF FetchNetIxLans, upstream, committed, pass
<1>3. /\ listed' \in {listed, LiveTimes} /\ listed' \in [Rows -> Times]
      /\ \A i \in Rows : LiveTimes[i] = IF IsLive(i) THEN up[i].updated ELSE 0
  BY <1>1, TimesAreNat DEF FetchNetIxLans, LiveTimes, IsLive
<1>4. PICK W \in SUBSET Rows :
        /\ \A i \in W : up[i].status # "absent"
        /\ scratchNix' = [i \in Rows |->
              IF i \in W THEN UpstreamRow(i)
              ELSE [live |-> mode = "full" /\ listed'[i] > 0,
                    updated |-> IF mode = "full" THEN listed'[i] ELSE 0]]
  <2>1. PICK tie \in BOOLEAN :
          LET since == IF mode = "full" THEN SnapshotWindowStart(NixCursor, NixCutoff')
                       ELSE NixCursor
          IN  scratchNix' = [i \in Rows |->
                  IF i \in Window(since, tie) THEN UpstreamRow(i)
                  ELSE [live |-> mode = "full" /\ listed'[i] > 0,
                        updated |-> IF mode = "full" THEN listed'[i] ELSE 0]]
    BY DEF FetchNetIxLans
  <2> DEFINE since == IF mode = "full" THEN SnapshotWindowStart(NixCursor, NixCutoff')
                      ELSE NixCursor
  <2>2. /\ Window(since, tie) \in SUBSET Rows
        /\ \A i \in Window(since, tie) : up[i].status # "absent"
    BY DEF Window
  <2> QED BY <2>1, <2>2
<1>5. ASSUME NEW i \in Rows
      PROVE  /\ scratchNix'[i] \in StagedRow
             /\ \/ /\ up[i].status # "absent" /\ scratchNix'[i].updated = up[i].updated
                   /\ scratchNix'[i].live => IsLive(i)
                   /\ IsLive(i) => scratchNix'[i].live
                \/ /\ scratchNix'[i].live /\ scratchNix'[i].updated = listed'[i]
                   /\ listed'[i] > 0
                \/ ~scratchNix'[i].live /\ scratchNix'[i].updated = 0
  <2>1. CASE i \in W
    <3>1. scratchNix'[i] = [live |-> up[i].status = "live", updated |-> up[i].updated]
      BY <1>4, <2>1 DEF UpstreamRow
    <3>2. up[i].updated \in Times /\ up[i].status # "absent"
      BY <1>1, <1>4, <2>1
    <3>3. CASE IsLive(i)
      <4>1. scratchNix'[i] = [live |-> TRUE, updated |-> up[i].updated]
        BY <3>1, <3>3 DEF IsLive
      <4> QED BY <3>2, <3>3, <4>1
    <3>4. CASE ~IsLive(i)
      <4>1. scratchNix'[i] = [live |-> FALSE, updated |-> up[i].updated]
        BY <3>1, <3>4 DEF IsLive
      <4> QED BY <3>2, <3>4, <4>1
    <3> QED BY <3>3, <3>4
  <2>2. CASE i \notin W /\ mode = "full" /\ listed'[i] > 0
    <3>1. scratchNix'[i] = [live |-> TRUE, updated |-> listed'[i]]
      BY <1>4, <2>2
    <3> QED BY <1>3, <2>2, <3>1
  <2>3. CASE i \notin W /\ ~(mode = "full" /\ listed'[i] > 0)
    <3>1. scratchNix'[i] = [live |-> FALSE, updated |-> 0]
      <4>1. listed'[i] \in Nat
        BY <1>3, TimesAreNat
      <4>2. CASE mode # "full"
        BY <1>4, <2>3, <4>2
      <4>3. CASE mode = "full" /\ ~(listed'[i] > 0) /\ listed'[i] = 0
        BY <1>4, <2>3, <4>3
      <4> QED BY <2>3, <4>1, <4>2, <4>3
    <3> QED BY <3>1, TimesAreNat
  <2> QED BY <2>1, <2>2, <2>3
<1>6. TypeOK'
  <2>1. scratchNix' \in [Rows -> StagedRow]
    BY <1>4, <1>5
  <2> QED BY <1>1, <1>2, <1>3, <2>1 DEF TypeOK
<1>7. ASSUME NEW i \in Rows
      PROVE  /\ RowOK(i) /\ up[i].updated \in Nat /\ nix[i].updated \in Nat
             /\ listed[i] \in Nat /\ listed'[i] \in Nat /\ scratchNix'[i].updated \in Nat
             /\ listed'[i] = listed[i] \/ listed'[i] = IF IsLive(i) THEN up[i].updated ELSE 0
             /\ up[i].updated <= clock /\ listed[i] <= clock
  BY <1>1, <1>3, <1>5, TimesAreNat DEF IInv, TypeOK, TimesOK
<1>8. TimesOK'
  <2>1. \A i \in Rows : listed'[i] <= clock /\ scratchNix'[i].updated <= clock
    BY <1>1, <1>5, <1>7
  <2> QED BY <1>1, <1>2, <2>1 DEF TimesOK, IsLive
<1>9. PlanOK'
  BY <1>1, <1>2 DEF PlanOK
<1>10. ASSUME NEW i \in Rows PROVE RowOK(i)'
  <2>1. HistoryOK(i)'
    BY <1>2, <1>5, <1>7 DEF RowOK, HistoryOK, IsLive
  <2>2. CacheOK(i)'
    <3>1. CASE listed' = listed
      <4>1. NixCutoff' = NixCutoff
        BY <3>1 DEF NixCutoff
      <4> QED BY <1>2, <1>5, <1>7, <3>1, <4>1 DEF RowOK, CacheOK
    <3>2. CASE listed' = LiveTimes
      BY <1>2, <1>3, <1>5, <1>7, <3>2 DEF RowOK, HistoryOK, CacheOK, IsLive
    <3> QED BY <1>3, <3>1, <3>2
  <2>3. ScratchOK(i)'
    BY <1>2, <1>5, <1>7 DEF RowOK, HistoryOK, ScratchOK, IsLive
  <2>4. NetworkOK(i)' /\ VerdictOK(i)'
    BY <1>2, <1>7 DEF RowOK, NetworkOK, LiveAfter, VerdictOK, IsLive
  <2> QED BY <2>1, <2>2, <2>3, <2>4 DEF RowOK
<1> QED BY <1>6, <1>8, <1>9, <1>10 DEF IInv

MemoEntry == [outcome : {"none", "live", "gone", "failed"}, updated : Times,
              netUpdated : Times, left : 0..Max({LiveTTL, GoneTTL, Backoff}),
              failures : 0..MaxFailures]

(* The memo entry of a row that has none.                                    *)
LEMMA NoEntryFacts ==
  /\ NoEntry \in MemoEntry /\ NoEntry.outcome = "none"
  /\ NoEntry.updated = 0 /\ NoEntry.netUpdated = 0
<1>1. 0 \in 0..MaxFailures /\ 0 \in 0..Max({LiveTTL, GoneTTL, Backoff})
  BY CascadeAssumption, MaxIsNat
<1> QED BY <1>1, TimesAreNat DEF NoEntry, MemoEntry

(* A verification starts from the memo: it plans the rows that an entry      *)
(* calls gone.                                                               *)
LEMMA BeginVerifyStep ==
  ASSUME IInv, BeginVerify
  PROVE  IInv'
<1>1. /\ TypeOK /\ TimesOK /\ PlanOK /\ clock \in Nat
      /\ memo \in [Rows -> MemoEntry]
  BY TimesAreNat DEF IInv, TypeOK, MemoEntry
<1>2. /\ clock' = clock /\ up' = up /\ upNet' = upNet /\ listed' = listed /\ nix' = nix
      /\ net' = net /\ place' = "verify" /\ scratchNet' = scratchNet
      /\ scratchNix' = scratchNix /\ requests' = 0 /\ prevOK' = FALSE /\ faults' = faults
      /\ canStage' \in BOOLEAN /\ mode' \in {mode, "startup"}
  BY DEF BeginVerify, upstream, committed
<1>3. /\ memo' \in [Rows -> MemoEntry]
      /\ \A i \in Rows : memo'[i] \in {memo[i], NoEntry}
  BY <1>1, NoEntryFacts DEF BeginVerify
<1>4. /\ pending' \subseteq Rows /\ gone' \subseteq Rows
      /\ \A i \in gone' : memo[i].outcome = "gone"
  BY DEF BeginVerify, Candidates
<1>5. /\ rirNets' \subseteq Nets
      /\ \A n \in rirNets' : ~net[n].deleted /\ scratchNet[n].deleted /\ scratchNet[n].rir
  <2>1. \/ rirNets' = {}
        \/ rirNets' = {n \in Nets : /\ scratchNet[n].deleted /\ scratchNet[n].rir
                                    /\ ~net[n].deleted}
    BY DEF BeginVerify
  <2> QED BY <2>1
<1>6. TypeOK'
  <2>1. 0 \in 0..MaxRequests
    BY CascadeAssumption
  <2> QED BY <1>1, <1>2, <1>3, <1>4, <1>5, <2>1 DEF TypeOK, MemoEntry
<1>7. TimesOK'
  <2>1. \A i \in Rows : memo'[i].updated <= clock /\ memo'[i].netUpdated <= clock
    BY <1>1, <1>3, NoEntryFacts DEF TimesOK
  <2> QED BY <1>1, <1>2, <2>1 DEF TimesOK, IsLive
<1>8. PlanOK'
  BY <1>2, <1>5 DEF PlanOK
<1>9. ASSUME NEW i \in Rows PROVE RowOK(i)'
  <2>1. RowOK(i) /\ NixCutoff' = NixCutoff
    BY <1>2 DEF IInv, NixCutoff
  <2>2. HistoryOK(i)' /\ CacheOK(i)' /\ ScratchOK(i)' /\ NetworkOK(i)'
    BY <1>2, <2>1 DEF RowOK, HistoryOK, CacheOK, ScratchOK, NetworkOK, LiveAfter, IsLive
  <2>3. VerdictOK(i)'
    BY <1>2, <1>3, <1>4, <2>1, NoEntryFacts DEF RowOK, VerdictOK, IsLive
  <2> QED BY <2>2, <2>3 DEF RowOK
<1> QED BY <1>6, <1>7, <1>8, <1>9 DEF IInv

(* An entry that is made now has a type, and the times of the stored rows.   *)
LEMMA EntryFacts ==
  ASSUME TypeOK, TimesOK, NEW i \in Rows, NEW outcome \in {"live", "gone", "failed"},
         NEW left \in {LiveTTL, GoneTTL, Backoff}, NEW failures \in 0..MaxFailures
  PROVE  LET e == Entry(i, outcome, left, failures)
         IN  /\ e \in MemoEntry /\ e.outcome = outcome
             /\ e.updated = nix[i].updated /\ e.netUpdated = net[NetOf[i]].updated
             /\ e.updated <= clock /\ e.netUpdated <= clock
<1>1. left \in 0..Max({LiveTTL, GoneTTL, Backoff})
  BY MaxIsNat, CascadeAssumption
<1>2. /\ nix[i].updated \in Times /\ net[NetOf[i]].updated \in Times
      /\ nix[i].updated <= clock /\ net[NetOf[i]].updated <= clock
  <2>1. NetOf[i] \in Nets /\ nix[i].updated \in 1..clock /\ clock \in Nat
    BY CascadeAssumption, TimesAreNat DEF TimesOK, TypeOK
  <2> QED BY <2>1 DEF TypeOK, TimesOK
<1> QED BY <1>1, <1>2 DEF Entry, MemoEntry

(* The failures of an entry stay within their bound.                         *)
LEMMA FailuresFacts ==
  ASSUME TypeOK, NEW i \in Rows
  PROVE  Min({FailuresOf(i) + 1, MaxFailures}) \in 0..MaxFailures
<1>1. FailuresOf(i) + 1 \in Nat /\ MaxFailures \in Nat
  BY CascadeAssumption DEF FailuresOf, TypeOK
<1> QED BY <1>1, PairBounds

(* What an answer changes: entries that are made now, rows that are planned  *)
(* because they are not live now, tombstones that are staged.                *)
LEMMA AnswerStep ==
  ASSUME IInv, VerifyChunk
  PROVE  /\ memo' \in [Rows -> MemoEntry]
         /\ \A i \in Rows : /\ memo'[i].updated <= clock /\ memo'[i].netUpdated <= clock
                            /\ \/ memo'[i] = memo[i]
                               \/ memo'[i].outcome \in {"none", "failed"}
                               \/ memo'[i].outcome = "gone" /\ ~IsLive(i)
                               \/ memo'[i].outcome = "live" /\ IsLive(i)
         /\ gone' \subseteq Rows /\ \A i \in gone' : i \in gone \/ ~IsLive(i)
         /\ pending' \subseteq Rows /\ prevOK' \in BOOLEAN /\ faults' \in 0..MaxFaults
         /\ scratchNix' \in [Rows -> [live : BOOLEAN, updated : Times]]
         /\ \A i \in Rows : \/ scratchNix'[i] = scratchNix[i]
                            \/ /\ ~scratchNix'[i].live /\ up[i].status = "deleted"
                               /\ scratchNix'[i].updated = up[i].updated
<1> DEFINE chunk == NextChunk
<1> DEFINE Answer(m) ==
      /\ m \in [Rows -> MemoEntry]
      /\ \A i \in Rows : /\ m[i].updated <= clock /\ m[i].netUpdated <= clock
                         /\ \/ m[i] = memo[i]
                            \/ m[i].outcome \in {"none", "failed"}
                            \/ m[i].outcome = "gone" /\ ~IsLive(i)
                            \/ m[i].outcome = "live" /\ IsLive(i)
<1>1. /\ TypeOK /\ TimesOK /\ clock \in Nat /\ memo \in [Rows -> MemoEntry]
      /\ pending \subseteq Rows /\ gone \subseteq Rows
      /\ scratchNix \in [Rows -> [live : BOOLEAN, updated : Times]]
      /\ up \in [Rows -> [status : {"live", "deleted", "absent"}, updated : Times]]
      /\ \A i \in Rows : memo[i].updated <= clock /\ memo[i].netUpdated <= clock
  BY TimesAreNat DEF IInv, TypeOK, MemoEntry, TimesOK
<1>2. chunk \subseteq pending
  BY DEF NextChunk
<1>3. MaxFaults \in Nat /\ faults \in 0..MaxFaults /\ 0 \in 0..MaxFailures
  BY CascadeAssumption, <1>1 DEF TypeOK
<1>4. CASE VerifySucceeds(chunk)
  <2>1. /\ \A i \in GoneVerdicts(chunk) : i \in chunk /\ ~IsLive(i)
        /\ \A i \in Staged(chunk) : i \in chunk /\ up[i].status = "deleted"
    BY DEF GoneVerdicts, Staged, IsLive
  <2>2. Answer(memo')
    <3>1. \A i \in Rows :
             \/ memo'[i] = memo[i] \/ memo'[i] = NoEntry
             \/ memo'[i] = Entry(i, "gone", GoneTTL, 0) /\ ~IsLive(i)
             \/ memo'[i] = Entry(i, "live", LiveTTL, 0) /\ IsLive(i)
      BY <1>4, <2>1 DEF VerifySucceeds, IsLive
    <3>2. \A i \in Rows :
             LET e == Entry(i, "gone", GoneTTL, 0)
             IN  /\ e \in MemoEntry /\ e.outcome = "gone"
                 /\ e.updated <= clock /\ e.netUpdated <= clock
      BY <1>1, <1>3, EntryFacts
    <3>3. \A i \in Rows :
             LET e == Entry(i, "live", LiveTTL, 0)
             IN  /\ e \in MemoEntry /\ e.outcome = "live"
                 /\ e.updated <= clock /\ e.netUpdated <= clock
      BY <1>1, <1>3, EntryFacts
    <3>4. \A i \in Rows : memo'[i] \in MemoEntry
      BY <1>1, <3>1, <3>2, <3>3, NoEntryFacts
    <3>5. memo' \in [Rows -> MemoEntry]
      BY <1>4, <3>4 DEF VerifySucceeds
    <3> QED BY <1>1, <3>1, <3>2, <3>3, <3>5, NoEntryFacts
  <2>3. gone' \subseteq Rows /\ \A i \in gone' : i \in gone \/ ~IsLive(i)
    BY <1>1, <1>2, <1>4, <2>1 DEF VerifySucceeds, IsLive
  <2>4. pending' \subseteq Rows /\ prevOK' \in BOOLEAN /\ faults' \in 0..MaxFaults
    BY <1>1, <1>3, <1>4 DEF VerifySucceeds
  <2>5. \A i \in Rows : \/ scratchNix'[i] = scratchNix[i]
                        \/ /\ up[i].status = "deleted"
                           /\ scratchNix'[i] = [live |-> FALSE, updated |-> up[i].updated]
    BY <1>4, <2>1 DEF VerifySucceeds
  <2>6. scratchNix' \in [Rows -> [live : BOOLEAN, updated : Times]]
    BY <1>1, <1>4 DEF VerifySucceeds
  <2> QED BY <2>2, <2>3, <2>4, <2>5, <2>6
<1>5. CASE VerifyFails(chunk)
  <2>1. \A i \in Rows :
           \/ memo'[i] = memo[i]
           \/ memo'[i] = Entry(i, "failed", Backoff, Min({FailuresOf(i) + 1, MaxFailures}))
    BY <1>5 DEF VerifyFails
  <2>2. \A i \in Rows :
           LET e == Entry(i, "failed", Backoff, Min({FailuresOf(i) + 1, MaxFailures}))
           IN  /\ e \in MemoEntry /\ e.outcome = "failed"
               /\ e.updated <= clock /\ e.netUpdated <= clock
    <3> SUFFICES ASSUME NEW i \in Rows
                 PROVE  LET e == Entry(i, "failed", Backoff, Min({FailuresOf(i) + 1, MaxFailures}))
                        IN  /\ e \in MemoEntry /\ e.outcome = "failed"
                            /\ e.updated <= clock /\ e.netUpdated <= clock
      OBVIOUS
    <3> DEFINE failures == Min({FailuresOf(i) + 1, MaxFailures})
    <3>1. failures \in 0..MaxFailures
      BY <1>1, FailuresFacts
    <3> HIDE DEF failures
    <3>2. LET e == Entry(i, "failed", Backoff, failures)
          IN  /\ e \in MemoEntry /\ e.outcome = "failed"
              /\ e.updated <= clock /\ e.netUpdated <= clock
      BY <1>1, <3>1, EntryFacts
    <3> QED BY <3>2 DEF failures
  <2>3. memo' \in [Rows -> MemoEntry]
    BY <1>1, <1>5, <2>1, <2>2 DEF VerifyFails
  <2>4. Answer(memo')
    <3>1. \A i \in Rows : \/ memo'[i] = memo[i]
                          \/ /\ memo'[i].outcome = "failed"
                             /\ memo'[i].updated <= clock /\ memo'[i].netUpdated <= clock
      BY <2>1, <2>2
    <3>2. \A i \in Rows : memo'[i].updated <= clock /\ memo'[i].netUpdated <= clock
      BY <1>1, <3>1
    <3>3. \A i \in Rows : memo'[i] = memo[i] \/ memo'[i].outcome \in {"none", "failed"}
      BY <3>1
    <3> QED BY <2>3, <3>2, <3>3
  <2>5. pending' \subseteq Rows /\ prevOK' \in BOOLEAN /\ faults' \in 0..MaxFaults
    <3>1. faults' \in 0..MaxFaults
      <4>1. UNCHANGED faults \/ (faults < MaxFaults /\ faults' = faults + 1)
        BY <1>5 DEF VerifyFails
      <4> QED BY <1>3, <4>1
    <3> QED BY <1>1, <1>5, <3>1 DEF VerifyFails
  <2>6. gone' = gone /\ scratchNix' = scratchNix
    BY <1>5 DEF VerifyFails
  <2> QED BY <1>1, <2>4, <2>5, <2>6
<1>6. CASE VerifyStops
  <2>1. /\ memo' = memo /\ gone' = gone /\ scratchNix' = scratchNix /\ pending' = {}
        /\ prevOK' = prevOK /\ faults' \in 0..MaxFaults
    BY <1>3, <1>6 DEF VerifyStops
  <2>2. prevOK \in BOOLEAN
    BY <1>1 DEF TypeOK
  <2> QED BY <1>1, <2>1, <2>2
<1> QED BY <1>4, <1>5, <1>6 DEF VerifyChunk

(* A chunk of the verification: what the answer says of a row, the memo and  *)
(* the plan say of the time of the answer.                                   *)
LEMMA VerifyChunkStep ==
  ASSUME IInv, VerifyChunk
  PROVE  IInv'
<1>1. /\ TypeOK /\ TimesOK /\ PlanOK /\ clock \in Nat
      /\ requests' \in 0..MaxRequests /\ place = "verify"
  <2>1. TypeOK /\ TimesOK /\ PlanOK
    BY DEF IInv
  <2>2. clock \in Nat /\ requests \in 0..MaxRequests /\ MaxRequests \in Nat
    BY <2>1, CascadeAssumption, TimesAreNat DEF TypeOK
  <2> QED BY <2>1, <2>2 DEF VerifyChunk
<1>2. /\ clock' = clock /\ up' = up /\ upNet' = upNet /\ listed' = listed /\ nix' = nix
      /\ net' = net /\ place' = place /\ mode' = mode /\ scratchNet' = scratchNet
      /\ canStage' = canStage /\ rirNets' = rirNets
  BY DEF VerifyChunk, upstream, committed
<1>3. TypeOK'
  BY <1>1, <1>2, AnswerStep DEF TypeOK, MemoEntry
<1>4. ASSUME NEW i \in Rows
      PROVE  /\ RowOK(i) /\ NixCutoff' = NixCutoff
             /\ up[i].updated <= clock /\ up[i].updated \in Nat /\ nix[i].updated \in Nat
             /\ scratchNix[i].updated <= clock /\ scratchNix'[i].updated \in Nat
             /\ listed[i] \in Nat
             /\ \/ scratchNix'[i] = scratchNix[i]
                \/ /\ ~scratchNix'[i].live /\ up[i].status = "deleted"
                   /\ scratchNix'[i].updated = up[i].updated
  <2>1. RowOK(i) /\ NixCutoff' = NixCutoff
    BY <1>2 DEF IInv, NixCutoff
  <2>2. /\ up[i].updated <= clock /\ up[i].updated \in Nat /\ nix[i].updated \in Nat
        /\ scratchNix[i].updated <= clock /\ listed[i] \in Nat
    BY <1>1, TimesAreNat DEF TimesOK, TypeOK
  <2>3. scratchNix'[i].updated \in Nat
    BY AnswerStep, TimesAreNat
  <2> QED BY <2>1, <2>2, <2>3, AnswerStep
<1>5. TimesOK'
  <2>1. \A i \in Rows : scratchNix'[i].updated <= clock
    BY <1>4
  <2> QED BY <1>1, <1>2, <2>1, AnswerStep DEF TimesOK, IsLive
<1>6. PlanOK'
  BY <1>1, <1>2 DEF PlanOK
<1>7. ASSUME NEW i \in Rows PROVE RowOK(i)'
  <2>1. HistoryOK(i)'
    BY <1>2, <1>4 DEF RowOK, HistoryOK
  <2>2. CacheOK(i)'
    BY <1>2, <1>4 DEF RowOK, HistoryOK, CacheOK
  <2>3. ScratchOK(i)'
    BY <1>2, <1>4 DEF RowOK, HistoryOK, ScratchOK, IsLive
  <2>4. NetworkOK(i)'
    BY <1>2, <1>4 DEF RowOK, NetworkOK, LiveAfter, IsLive
  <2>5. VerdictOK(i)'
    BY <1>2, <1>4, AnswerStep DEF RowOK, VerdictOK, IsLive
  <2> QED BY <2>1, <2>2, <2>3, <2>4, <2>5 DEF RowOK
<1> QED BY <1>3, <1>5, <1>6, <1>7 DEF IInv

(* The steps that change no row: the end of the pass, time, the startup.     *)
LEMMA QuietStep ==
  ASSUME IInv, EndVerify \/ SkipStartup \/ Tick
  PROVE  IInv'
<1>1. /\ TypeOK /\ TimesOK /\ PlanOK /\ memo \in [Rows -> MemoEntry]
      /\ 0 \in 0..MaxRequests /\ 0 \in 0..MaxFaults
  <2>1. 0 \in 0..MaxRequests /\ 0 \in 0..MaxFaults
    BY CascadeAssumption
  <2> QED BY <2>1 DEF IInv, TypeOK, MemoEntry
<1>2. /\ clock' = clock /\ up' = up /\ upNet' = upNet /\ listed' = listed /\ nix' = nix
      /\ net' = net /\ mode' = mode /\ scratchNet' = scratchNet
      /\ scratchNix' = scratchNix /\ gone' = gone /\ rirNets' = rirNets /\ faults' = faults
  BY DEF EndVerify, SkipStartup, Tick, upstream, committed, pass
<1>3. /\ place' \in {"idle", "planned"}
      /\ place' = "planned" \/ (gone = {} /\ rirNets = {})
      /\ canStage' \in BOOLEAN /\ pending' \subseteq Rows /\ requests' \in 0..MaxRequests
      /\ prevOK' \in BOOLEAN
  BY <1>1 DEF EndVerify, SkipStartup, Tick, pass, TypeOK
<1>4. /\ memo' \in [Rows -> MemoEntry]
      /\ \A i \in Rows : /\ memo'[i].outcome = memo[i].outcome
                         /\ memo'[i].updated = memo[i].updated
                         /\ memo'[i].netUpdated = memo[i].netUpdated
  <2>1. CASE memo' = memo
    BY <1>1, <2>1
  <2>2. CASE memo' = [i \in Rows |-> [memo[i] EXCEPT !.left = IF @ > 0 THEN @ - 1 ELSE 0]]
    <3>1. \A i \in Rows : (IF memo[i].left > 0 THEN memo[i].left - 1 ELSE 0)
                             \in 0..Max({LiveTTL, GoneTTL, Backoff})
      BY <1>1, MaxIsNat DEF MemoEntry
    <3> QED BY <1>1, <2>2, <3>1 DEF MemoEntry
  <2> QED BY <2>1, <2>2 DEF EndVerify, SkipStartup, Tick
<1>5. TypeOK'
  BY <1>1, <1>2, <1>3, <1>4 DEF TypeOK, MemoEntry
<1>6. TimesOK'
  BY <1>1, <1>2, <1>4 DEF TimesOK, IsLive
<1>7. PlanOK'
  BY <1>1, <1>2 DEF PlanOK
<1>8. ASSUME NEW i \in Rows PROVE RowOK(i)'
  BY <1>2, <1>4
  DEF IInv, RowOK, HistoryOK, CacheOK, ScratchOK, NetworkOK, LiveAfter, VerdictOK, IsLive,
      NixCutoff
<1> QED BY <1>5, <1>6, <1>7, <1>8 DEF IInv

(* What is left when a run ends: nothing staged, nothing planned.            *)
LEMMA DiscardFacts ==
  ASSUME DiscardRun
  PROVE  /\ scratchNet' \in [Nets -> Networks]
         /\ scratchNix' \in [Rows -> [live : BOOLEAN, updated : Times]]
         /\ \A n \in Nets : scratchNet'[n].updated = 0 /\ ~scratchNet'[n].deleted
         /\ \A i \in Rows : scratchNix'[i].updated = 0 /\ ~scratchNix'[i].live
         /\ gone' = {} /\ rirNets' = {} /\ pending' = {} /\ requests' = 0
         /\ requests' \in 0..MaxRequests
         /\ prevOK' = FALSE /\ canStage' = FALSE /\ mode' = "incremental"
<1>1. NoNet \in Networks /\ NoRow \in [live : BOOLEAN, updated : Times]
  BY TimesAreNat DEF NoNet, NoRow, Networks
<1>2. NoNet.updated = 0 /\ ~NoNet.deleted /\ NoRow.updated = 0 /\ ~NoRow.live
  BY DEF NoNet, NoRow
<1>3. 0 \in 0..MaxRequests
  BY CascadeAssumption
<1> QED BY <1>1, <1>2, <1>3 DEF DiscardRun

(* A run that fails and a crash keep the mirror; a crash empties the memo.   *)
LEMMA FailureStep ==
  ASSUME IInv, FailRun \/ Crash
  PROVE  IInv'
<1>1. TypeOK /\ TimesOK /\ memo \in [Rows -> MemoEntry] /\ clock \in Nat
  BY TimesAreNat DEF IInv, TypeOK, MemoEntry
<1>2. /\ clock' = clock /\ up' = up /\ upNet' = upNet /\ listed' = listed /\ nix' = nix
      /\ net' = net /\ place' \in {"boot", "idle"} /\ DiscardRun
  BY DEF FailRun, Crash, upstream, committed
<1>3. faults' \in 0..MaxFaults
  BY <1>1, CascadeAssumption DEF FailRun, Crash, TypeOK
<1>4. /\ memo' \in [Rows -> MemoEntry]
      /\ \A i \in Rows : memo'[i] \in {memo[i], NoEntry}
  BY <1>1, NoEntryFacts DEF FailRun, Crash
<1>5. TypeOK'
  BY <1>1, <1>2, <1>3, <1>4, DiscardFacts DEF TypeOK, MemoEntry, Networks
<1>6. TimesOK'
  <2>1. \A i \in Rows : memo'[i].updated <= clock /\ memo'[i].netUpdated <= clock
    BY <1>1, <1>4, NoEntryFacts DEF TimesOK
  <2>2. /\ \A i \in Rows : scratchNix'[i].updated <= clock
        /\ \A n \in Nets : scratchNet'[n].updated <= clock
    BY <1>1, <1>2, DiscardFacts
  <2> QED BY <1>1, <1>2, <2>1, <2>2 DEF TimesOK, IsLive
<1>7. PlanOK'
  BY <1>2, DiscardFacts DEF PlanOK
<1>8. ASSUME NEW i \in Rows PROVE RowOK(i)'
  <2>1. /\ RowOK(i) /\ NixCutoff' = NixCutoff /\ NetOf[i] \in Nets
        /\ up[i].updated \in Nat /\ listed[i] \in Nat
        /\ scratchNix'[i].updated = 0 /\ ~scratchNix'[i].live
        /\ ~scratchNet'[NetOf[i]].deleted /\ gone' = {}
    <3>1. RowOK(i) /\ NixCutoff' = NixCutoff /\ NetOf[i] \in Nets
      BY <1>2, CascadeAssumption DEF IInv, NixCutoff
    <3>2. up[i].updated \in Nat /\ listed[i] \in Nat
      BY <1>1, TimesAreNat DEF TypeOK
    <3> QED BY <1>2, <3>1, <3>2, DiscardFacts
  <2>2. HistoryOK(i)' /\ CacheOK(i)' /\ ScratchOK(i)'
    BY <1>2, <2>1 DEF RowOK, HistoryOK, CacheOK, ScratchOK, IsLive
  <2>3. NetworkOK(i)'
    BY <1>2, <2>1 DEF RowOK, NetworkOK, LiveAfter, IsLive
  <2>4. VerdictOK(i)'
    BY <1>2, <1>4, <2>1, NoEntryFacts DEF RowOK, VerdictOK, IsLive
  <2> QED BY <2>2, <2>3, <2>4 DEF RowOK
<1> QED BY <1>5, <1>6, <1>7, <1>8 DEF IInv

-----------------------------------------------------------------------------
(* The transaction.                                                          *)

(* What a commit stores of a network: the version before, or the staged one. *)
LEMMA CommitNetworks ==
  ASSUME TypeOK, Commit
  PROVE  \A n \in Nets : net'[n] \in {net[n], scratchNet[n]}
BY DEF Commit, UpsertedNets, TypeOK

(* What a commit stores of a netixlan: a version that is not older, and a    *)
(* tombstone only for a version that upstream does not serve live.           *)
LEMMA CommitRow ==
  ASSUME IInv, Commit, NEW i \in Rows
  PROVE  /\ nix'[i] \in [live : BOOLEAN, updated : Times]
         /\ nix'[i].updated \in 1..clock
         /\ nix'[i].updated \in {nix[i].updated, scratchNix[i].updated}
         /\ \/ nix'[i] = nix[i]
            \/ nix'[i].live /\ nix'[i].updated > nix[i].updated
            \/ /\ ~nix'[i].live /\ nix'[i].updated >= nix[i].updated
               /\ ~(IsLive(i) /\ up[i].updated = nix'[i].updated)
<1> DEFINE row == UpsertedNetIxLans[i]
<1> DEFINE network == net'[NetOf[i]]
<1>1. /\ TypeOK /\ TimesOK /\ PlanOK /\ RowOK(i)
      /\ nix[i] \in [live : BOOLEAN, updated : Times]
      /\ scratchNix[i] \in [live : BOOLEAN, updated : Times]
      /\ NetOf[i] \in Nets /\ clock \in Nat /\ NixCutoff \in Nat
      /\ network \in {net[NetOf[i]], scratchNet[NetOf[i]]}
      /\ net[NetOf[i]].updated \in Nat /\ scratchNet[NetOf[i]].updated \in Nat
  <2>1. TypeOK /\ TimesOK /\ PlanOK /\ RowOK(i) /\ NetOf[i] \in Nets
    BY CascadeAssumption DEF IInv
  <2> QED BY <2>1, CutoffFacts, CommitNetworks, TimesAreNat DEF TypeOK
<1>2. /\ nix[i].updated \in Nat /\ scratchNix[i].updated \in Nat /\ up[i].updated \in Nat
      /\ listed[i] \in Nat /\ Cursor0 \in Nat
      /\ nix[i].updated \in 1..clock /\ scratchNix[i].updated <= clock
  BY <1>1, TimesAreNat DEF TypeOK, TimesOK
<1>3. row = nix[i] \/ (row = scratchNix[i] /\ NetIxLanGatePasses(nix[i], scratchNix[i]))
  BY DEF UpsertedNetIxLans
<1>4. row = scratchNix[i] /\ NetIxLanGatePasses(nix[i], scratchNix[i]) =>
         /\ row.updated > 0
         /\ row.live => row.updated > nix[i].updated \/ row = nix[i]
         /\ ~row.live => /\ row.updated >= nix[i].updated
                         /\ ~(IsLive(i) /\ up[i].updated = row.updated)
  <2> SUFFICES ASSUME row = scratchNix[i], NetIxLanGatePasses(nix[i], scratchNix[i])
               PROVE  /\ row.updated > 0
                      /\ row.live => row.updated > nix[i].updated \/ row = nix[i]
                      /\ ~row.live => /\ row.updated >= nix[i].updated
                                      /\ ~(IsLive(i) /\ up[i].updated = row.updated)
    OBVIOUS
  <2>1. /\ scratchNix[i].updated > 0
        /\ \/ scratchNix[i].updated > nix[i].updated
           \/ scratchNix[i].updated = nix[i].updated
           \/ nix[i].updated < NixCutoff
        /\ nix[i].live \/ ~scratchNix[i].live \/ scratchNix[i].updated # nix[i].updated
    BY DEF NetIxLanGatePasses, GatePasses
  <2>2. CASE scratchNix[i].live
    <3>1. ~(scratchNix[i].updated < nix[i].updated)
      <4> SUFFICES ASSUME scratchNix[i].updated < nix[i].updated PROVE FALSE
        OBVIOUS
      <4>1. scratchNix[i].updated = listed[i] /\ listed[i] > 0
        BY <1>1, <2>2 DEF RowOK, ScratchOK
      <4>2. nix[i].updated >= NixCutoff
        BY <1>1, <4>1 DEF RowOK, CacheOK
      <4>3. nix[i].updated < NixCutoff
        BY <1>2, <2>1
      <4> QED BY <1>1, <1>2, <4>2, <4>3
    <3>2. CASE scratchNix[i].updated = nix[i].updated
      <4>1. nix[i].live
        BY <2>1, <2>2, <3>2
      <4>2. scratchNix[i] = nix[i]
        BY <1>1, <2>2, <3>2, <4>1
      <4> QED BY <2>1, <2>2, <4>2
    <3> QED BY <1>2, <2>1, <2>2, <3>1, <3>2
  <2>3. CASE ~scratchNix[i].live
    BY <1>1, <1>2, <2>1, <2>3 DEF RowOK, ScratchOK
  <2> QED BY <2>2, <2>3
<1>5. nix'[i] = IF Cascades(i, row, network) THEN [live |-> FALSE, updated |-> row.updated] ELSE row
  BY DEF Commit
<1>6. /\ row \in [live : BOOLEAN, updated : Times]
      /\ row.updated \in 1..clock /\ row.updated \in {nix[i].updated, scratchNix[i].updated}
      /\ row.updated >= nix[i].updated
  BY <1>1, <1>2, <1>3, <1>4
<1>7. CASE Cascades(i, row, network)
  <2>1. /\ row.live /\ network.deleted /\ row.updated <= network.updated
        /\ i \in gone \/ NetOf[i] \in rirNets
    BY <1>7 DEF Cascades
  <2>2. ~(IsLive(i) /\ up[i].updated = row.updated)
    <3> SUFFICES ASSUME IsLive(i), up[i].updated = row.updated PROVE FALSE
      OBVIOUS
    <3>1. up[i].updated <= Cursor0 /\ ~network.rir
      <4>1. LiveAfter(i, network)
        BY <1>1 DEF RowOK, NetworkOK
      <4> QED BY <1>1, <1>2, <2>1, <4>1 DEF LiveAfter
    <3>2. CASE i \in gone
      BY <1>1, <1>2, <3>1, <3>2 DEF RowOK, VerdictOK
    <3>3. CASE NetOf[i] \in rirNets
      BY <1>1, <2>1, <3>1, <3>3 DEF PlanOK
    <3> QED BY <2>1, <3>2, <3>3
  <2>3. nix'[i] = [live |-> FALSE, updated |-> row.updated]
    BY <1>5, <1>7
  <2> QED BY <1>6, <2>2, <2>3
<1>8. CASE ~Cascades(i, row, network)
  <2>1. nix'[i] = row
    BY <1>5, <1>8
  <2> QED BY <1>3, <1>4, <1>6, <2>1
<1> QED BY <1>7, <1>8

(* The commit: the rows of the fetch and the planned tombstones.             *)
LEMMA CommitStep ==
  ASSUME IInv, Commit
  PROVE  IInv'
<1>1. /\ TypeOK /\ TimesOK /\ clock \in Nat /\ DiscardRun
      /\ net \in [Nets -> Networks] /\ scratchNet \in [Nets -> Networks]
  BY TimesAreNat DEF IInv, TypeOK, Commit, Networks
<1>2. /\ clock' = clock /\ up' = up /\ upNet' = upNet /\ listed' = listed
      /\ memo' = memo /\ place' = "idle" /\ faults' = faults
  BY DEF Commit, upstream
<1>3. /\ net' \in [Nets -> Networks]
      /\ \A n \in Nets : net'[n] \in {net[n], scratchNet[n]}
  <2>1. net' = net \/ net' = [n \in Nets |-> IF GatePasses(net[n], scratchNet[n], 0)
                                              THEN scratchNet[n] ELSE net[n]]
    BY DEF Commit, UpsertedNets
  <2> QED BY <1>1, <2>1
<1>4. nix' \in [Rows -> [live : BOOLEAN, updated : Times]]
  <2>1. \A i \in Rows : nix'[i] \in [live : BOOLEAN, updated : Times]
    BY CommitRow
  <2> QED BY <2>1 DEF Commit
<1>5. TypeOK'
  BY <1>1, <1>2, <1>3, <1>4, DiscardFacts DEF TypeOK, Networks
<1>6. TimesOK'
  <2>1. /\ \A i \in Rows : nix'[i].updated \in 1..clock
        /\ \A n \in Nets : net'[n].updated <= clock
    BY <1>1, <1>3, CommitRow DEF TimesOK
  <2>2. /\ \A i \in Rows : scratchNix'[i].updated <= clock
        /\ \A n \in Nets : scratchNet'[n].updated <= clock
    BY <1>1, DiscardFacts
  <2> QED BY <1>1, <1>2, <2>1, <2>2 DEF TimesOK, IsLive
<1>7. PlanOK'
  BY <1>1, DiscardFacts DEF PlanOK
<1>8. ASSUME NEW i \in Rows PROVE RowOK(i)'
  <2>1. /\ RowOK(i) /\ NixCutoff' = NixCutoff /\ NetOf[i] \in Nets
        /\ up[i].updated \in Nat /\ listed[i] \in Nat
        /\ scratchNix'[i].updated = 0 /\ ~scratchNix'[i].live
        /\ ~scratchNet'[NetOf[i]].deleted /\ gone' = {}
        /\ nix'[i].updated \in {nix[i].updated, scratchNix[i].updated}
    <3>1. RowOK(i) /\ NixCutoff' = NixCutoff /\ NetOf[i] \in Nets
      BY <1>2, CascadeAssumption DEF IInv, NixCutoff
    <3>2. up[i].updated \in Nat /\ listed[i] \in Nat
      BY <1>1, TimesAreNat DEF TypeOK
    <3> QED BY <1>1, <3>1, <3>2, DiscardFacts, CommitRow
  <2>2. HistoryOK(i)' /\ CacheOK(i)' /\ ScratchOK(i)'
    BY <1>2, <2>1 DEF RowOK, HistoryOK, CacheOK, ScratchOK, IsLive
  <2>3. NetworkOK(i)'
    BY <1>2, <1>3, <2>1 DEF RowOK, NetworkOK, LiveAfter, IsLive
  <2>4. VerdictOK(i)'
    BY <1>2, <2>1 DEF RowOK, VerdictOK, IsLive
  <2> QED BY <2>2, <2>3, <2>4 DEF RowOK
<1> QED BY <1>5, <1>6, <1>7, <1>8 DEF IInv

-----------------------------------------------------------------------------
(* The inductive invariant: nothing is newer than upstream's clock, staged   *)
(* and cached rows are versions that upstream had, a verdict is about a time *)
(* when the row was not served live.                                         *)
THEOREM CascadeInvariant == Spec => []IInv
<1>1. ASSUME IInv, [Next]_vars PROVE IInv'
  <2>1. CASE \E n \in Nets : UpstreamChange(n)
    BY <1>1, <2>1, UpstreamStep
  <2>2. CASE \E m \in {"incremental", "full"} : FetchNets(m)
    BY <1>1, <2>2, FetchNetsStep
  <2>3. CASE FetchNetIxLans
    BY <1>1, <2>3, FetchNetIxLansStep
  <2>4. CASE BeginVerify
    BY <1>1, <2>4, BeginVerifyStep
  <2>5. CASE VerifyChunk
    BY <1>1, <2>5, VerifyChunkStep
  <2>6. CASE EndVerify \/ SkipStartup \/ Tick
    BY <1>1, <2>6, QuietStep
  <2>7. CASE Commit
    BY <1>1, <2>7, CommitStep
  <2>8. CASE FailRun \/ Crash
    BY <1>1, <2>8, FailureStep
  <2>9. CASE UNCHANGED vars
    <3>1. /\ UNCHANGED <<clock, up, upNet, listed, nix, net, memo, place, mode, scratchNet>>
          /\ UNCHANGED <<scratchNix, canStage, pending, requests, prevOK, gone, rirNets, faults>>
      BY <2>9 DEF vars, upstream, committed, pass
    <3>2. TypeOK' = TypeOK
      BY <3>1 DEF TypeOK
    <3>3. TimesOK' = TimesOK /\ PlanOK' = PlanOK
      BY <3>1 DEF TimesOK, PlanOK, IsLive
    <3>4. ASSUME NEW i \in Rows PROVE RowOK(i)' = RowOK(i)
      <4>1. HistoryOK(i)' = HistoryOK(i) /\ ScratchOK(i)' = ScratchOK(i)
        BY <3>1 DEF HistoryOK, ScratchOK, IsLive
      <4>2. CacheOK(i)' = CacheOK(i)
        BY <3>1 DEF CacheOK, NixCutoff
      <4>3. NetworkOK(i)' = NetworkOK(i) /\ VerdictOK(i)' = VerdictOK(i)
        BY <3>1 DEF NetworkOK, LiveAfter, VerdictOK, IsLive
      <4> QED BY <4>1, <4>2, <4>3 DEF RowOK
    <3> QED BY <1>1, <3>2, <3>3, <3>4 DEF IInv
  <2> QED BY <1>1, <2>1, <2>2, <2>3, <2>4, <2>5, <2>6, <2>7, <2>8, <2>9 DEF Next
<1> QED BY <1>1, CascadeInit, PTL DEF Spec

(* Every variable keeps its type, and no plan outlives the run that made it. *)
THEOREM CascadeTypes == Spec => []TypeOK
<1>1. IInv => TypeOK
  BY DEF IInv
<1> QED BY <1>1, CascadeInvariant, PTL

(* A verdict that is used again without a request is still upstream's answer *)
(* for the stored version, or the network has changed since.                 *)
THEOREM MemoHolds == Spec => []MemoTrue
<1>1. ASSUME IInv PROVE MemoTrue
  <2> SUFFICES ASSUME NEW i \in Rows, Honoured(i)
               PROVE  CASE memo[i].outcome = "gone" ->
                             ~(up[i].status = "live" /\ up[i].updated = nix[i].updated)
                        [] memo[i].outcome = "live" ->
                             \/ up[i].status = "live"
                             \/ upNet[NetOf[i]].updated > net[NetOf[i]].updated
                        [] OTHER -> TRUE
    BY DEF MemoTrue
  <2>1. /\ VerdictOK(i) /\ up[i].updated \in Nat /\ nix[i].updated \in Nat
        /\ memo[i].updated = nix[i].updated /\ memo[i].netUpdated = net[NetOf[i]].updated
    <3>1. RowOK(i) /\ TypeOK
      BY <1>1 DEF IInv
    <3> QED BY <3>1, TimesAreNat DEF RowOK, TypeOK, Honoured, EntryApplies
  <2>2. CASE memo[i].outcome = "gone"
    BY <2>1, <2>2 DEF VerdictOK, IsLive
  <2>3. CASE memo[i].outcome = "live"
    BY <2>1, <2>3 DEF VerdictOK, IsLive
  <2> QED BY <2>2, <2>3
<1> QED BY <1>1, CascadeInvariant, PTL

(* The cascade keeps what NetIxLanMirror promises: the worker never marks a  *)
(* row deleted while upstream serves that version of it live, and brings no  *)
(* tombstone back but by a newer live version.                               *)
THEOREM CascadeImplementsMirror == Spec => ImplementsMirror
<1>1. ASSUME IInv
      PROVE  LiveTimes \in [Rows -> Nat] /\ nix \in [Rows -> Mirror!Stored]
  BY <1>1, TimesAreNat DEF IInv, TypeOK, LiveTimes, Mirror!Stored
<1>2. ASSUME Init PROVE Mirror!Init
  BY <1>1, <1>2, CascadeInit DEF Mirror!Init
<1>3. ASSUME IInv, IInv', [Next]_vars
      PROVE  [Mirror!Change \/ Mirror!Commit]_<<LiveTimes, nix>>
  <2>1. LiveTimes' \in [Rows -> Nat] /\ nix' \in [Rows -> Mirror!Stored]
    BY <1>3, TimesAreNat DEF IInv, TypeOK, LiveTimes, Mirror!Stored
  <2>2. CASE \E n \in Nets : UpstreamChange(n)
    <3>1. nix' = nix
      BY <2>2 DEF UpstreamChange, committed
    <3> QED BY <2>1, <3>1 DEF Mirror!Change
  <2>3. CASE Commit
    <3>1. LiveTimes' = LiveTimes
      BY <2>3 DEF Commit, upstream, LiveTimes
    <3>2. \A i \in Rows : Mirror!Allowed(i, nix[i], nix'[i])
      <4> SUFFICES ASSUME NEW i \in Rows PROVE Mirror!Allowed(i, nix[i], nix'[i])
        OBVIOUS
      <4>1. \/ nix'[i] = nix[i]
            \/ nix'[i].live /\ nix'[i].updated > nix[i].updated
            \/ /\ ~nix'[i].live /\ nix'[i].updated >= nix[i].updated
               /\ ~(IsLive(i) /\ up[i].updated = nix'[i].updated)
        BY <1>3, <2>3, CommitRow
      <4>2. nix'[i].updated # 0
        <5>1. nix'[i].updated \in 1..clock /\ clock \in Nat
          BY <1>3, <2>3, CommitRow, TimesAreNat DEF IInv, TypeOK
        <5> QED BY <5>1
      <4>3. LiveTimes[i] = IF IsLive(i) THEN up[i].updated ELSE 0
        BY DEF LiveTimes, IsLive
      <4> QED BY <4>1, <4>2, <4>3 DEF Mirror!Allowed
    <3> QED BY <2>1, <3>1, <3>2 DEF Mirror!Commit
  <2>4. CASE \/ \E m \in {"incremental", "full"} : FetchNets(m)
             \/ FetchNetIxLans \/ BeginVerify \/ VerifyChunk \/ EndVerify
             \/ FailRun \/ Crash \/ SkipStartup \/ Tick \/ UNCHANGED vars
    <3>1. up' = up /\ nix' = nix
      BY <2>4
      DEF FetchNets, FetchNetIxLans, BeginVerify, VerifyChunk, EndVerify, FailRun, Crash,
          SkipStartup, Tick, vars, upstream, committed
    <3> QED BY <3>1 DEF LiveTimes
  <2> QED BY <1>3, <2>2, <2>3, <2>4 DEF Next
<1> QED BY <1>2, <1>3, CascadeInvariant, PTL DEF Spec, ImplementsMirror, Mirror!Spec
=============================================================================
