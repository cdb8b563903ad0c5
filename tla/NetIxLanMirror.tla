--------------------------- MODULE NetIxLanMirror ---------------------------
(* What the mirror promises about the netixlans of deleted networks, apart   *)
(* from how the cascade and its verification keep the promise: upstream      *)
(* changes which version of a row it serves live, and a commit of the mirror *)
(* may store a newer live version, or a tombstone for a version that         *)
(* upstream does not serve live.                                             *)
EXTENDS Integers

CONSTANT Rows

VARIABLES
    served, \* the `updated` of the version that upstream serves live, or 0
    stored  \* the rows of the mirror

Stored == [live : BOOLEAN, updated : Nat]

Init ==
    /\ served \in [Rows -> Nat]
    /\ stored \in [Rows -> Stored]

Change ==
    /\ served' \in [Rows -> Nat]
    /\ UNCHANGED stored

(* The row that a commit may store in place of `old`.                        *)
Allowed(i, old, new) ==
    \/ new = old
    \/ new.live /\ new.updated > old.updated
    \/ ~new.live /\ new.updated >= old.updated /\ served[i] # new.updated

Commit ==
    /\ stored' \in [Rows -> Stored]
    /\ \A i \in Rows : Allowed(i, stored[i], stored'[i])
    /\ UNCHANGED served

Spec == Init /\ [][Change \/ Commit]_<<served, stored>>
=============================================================================
