--------------------------- MODULE VersionedMirror ---------------------------
(* What the mirror of MirrorSync promises, apart from how a cycle keeps it.  *)
(* Upstream publishes versions of rows. A sync takes any rows at once to     *)
(* newer versions that upstream published, and purges old tombstones;        *)
(* nothing else changes the mirror.                                          *)
EXTENDS Integers

CONSTANTS
    Types,      \* the object types
    Rows,       \* the row ids of a type
    Purged,     \* the types whose old tombstones are purged
    Horizon,    \* age in seconds at which a tombstone is purged
    Instants    \* the instants at which an upstream row can change

VARIABLES
    now,        \* the upstream clock
    up,         \* the rows upstream stores
    had,        \* every version that upstream ever stored
    mirror      \* the rows that the mirror serves

Version == [updated : Nat, sub : Nat, live : BOOLEAN]
Absent == [updated |-> 0, sub |-> 0, live |-> FALSE]
First == [updated |-> 1, sub |-> 0, live |-> TRUE]

Newer(a, b) ==
    \/ a.updated > b.updated
    \/ a.updated = b.updated /\ a.sub > b.sub

Publish(t, r, time, live) ==
    /\ Newer(time, now)
    /\ now' = time
    /\ up' = [up EXCEPT ![t][r] = [updated |-> time.updated, sub |-> time.sub, live |-> live]]
    /\ had' = [had EXCEPT ![t][r] = @ \cup {up'[t][r]}]
    /\ UNCHANGED mirror

(* The sync knew the row as deleted, in no older version than the mirror's.  *)
OldTombstone(t, r) ==
    \E v \in had[t][r] : /\ ~v.live
                         /\ v.updated + Horizon <= now.updated
                         /\ ~Newer(mirror[t][r], v)

Follows(t, r, v) ==
    \/ v = mirror[t][r]
    \/ v \in had[t][r] /\ Newer(v, mirror[t][r])
    \/ v = Absent /\ t \in Purged /\ OldTombstone(t, r)

Sync ==
    /\ mirror' \in [Types -> [Rows -> Version]]
    /\ \A t \in Types, r \in Rows : Follows(t, r, mirror'[t][r])
    /\ UNCHANGED <<now, up, had>>

Init ==
    /\ now = [updated |-> 1, sub |-> 0]
    /\ up \in [Types -> [Rows -> {Absent, First}]]
    /\ had = [t \in Types |-> [r \in Rows |-> {up[t][r]}]]
    /\ mirror \in {up, [t \in Types |-> [r \in Rows |-> Absent]]}

Next ==
    \/ \E t \in Types, r \in Rows, time \in Instants, live \in BOOLEAN : Publish(t, r, time, live)
    \/ Sync

Spec == Init /\ [][Next]_<<now, up, had, mirror>>
=============================================================================
