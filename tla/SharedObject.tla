---------------------------- MODULE SharedObject ----------------------------
(***************************************************************************)
(* What RefBase (include/sutils/RefBase.h) promises those who refer to an  *)
(* object through sp<> and wp<>: it is there while somebody owns it, and   *)
(* with an extended lifetime while somebody holds it; what is gone stays   *)
(* gone.  There are no counters here, only who holds what.                 *)
(***************************************************************************)
CONSTANT Pointers

VARIABLES
    extended,   \* whether those who hold it weakly keep the object, too
    holders,    \* who refers to it, strongly or weakly
    owners,     \* who refers to it strongly
    ended,      \* whether it had owners and has none now
    alive,      \* whether the object is there
    counts      \* what became of its bookkeeping: "new", "used" or "freed"

vars == <<extended, holders, owners, ended, alive, counts>>

Init ==
    /\ extended \in BOOLEAN
    /\ holders = {} /\ owners = {}
    /\ ended = FALSE /\ alive = TRUE /\ counts = "new"

\* The first holder is the creator; the next ones learn of it from a holder.
Hold(p) ==
    /\ p \notin holders
    /\ counts = "new" \/ (counts = "used" /\ holders # {})
    /\ holders' = holders \cup {p}
    /\ counts' = "used"
    /\ UNCHANGED <<extended, owners, ended, alive>>

\* A holder becomes an owner of a living object, and of one whose last owner has
\* gone only if its lifetime is extended.
Own(p) ==
    /\ p \in holders \ owners /\ alive
    /\ ended => extended
    /\ owners' = owners \cup {p}
    /\ ended' = FALSE
    /\ UNCHANGED <<extended, holders, alive, counts>>

Disown(p) ==
    /\ p \in owners
    /\ owners' = owners \ {p}
    /\ ended' = (owners' = {})
    /\ UNCHANGED <<extended, holders, alive, counts>>

LetGo(p) ==
    /\ p \in holders \ owners
    /\ holders' = holders \ {p}
    /\ UNCHANGED <<extended, owners, ended, alive, counts>>

\* After its last owner the object goes, unless its lifetime is extended.
Delete ==
    /\ alive /\ ended /\ owners = {} /\ ~extended
    /\ alive' = FALSE
    /\ UNCHANGED <<extended, holders, owners, ended, counts>>

\* After the last holder everything has gone, and once.
Free ==
    /\ counts = "used" /\ holders = {}
    /\ ended /\ ~extended => ~alive
    /\ counts' = "freed" /\ alive' = FALSE
    /\ UNCHANGED <<extended, holders, owners, ended>>

Next ==
    \/ \E p \in Pointers : Hold(p) \/ Own(p) \/ Disown(p) \/ LetGo(p)
    \/ Delete \/ Free

Spec == Init /\ [][Next]_vars
=============================================================================
