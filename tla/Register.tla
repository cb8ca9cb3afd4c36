------------------------------ MODULE Register ------------------------------
(* What the rest of the server assumes of the store: one durable value.  An  *)
(* update takes effect at one instant or not at all, its caller is told which, *)
(* and no crash takes anything back.  A crash shows only as a caller who is    *)
(* never answered.                                                            *)
EXTENDS Integers

CONSTANT Updates  \* the updates that will be asked for

VARIABLES value,    \* the updates in effect
          spoilt,   \* somebody else has destroyed the value
          acked,    \* the updates whose callers were told so
          refused,  \* those whose callers were told they failed
          seen      \* what readers have been shown

vars == <<value, spoilt, acked, refused, seen>>

Init == value = {} /\ ~spoilt /\ acked = {} /\ refused = {} /\ seen = {}

Take(u) ==
  /\ u \notin value \union refused
  /\ value' = value \union {u}
  /\ UNCHANGED <<acked, refused, seen>>

Acknowledge(u) ==
  /\ u \in value
  /\ acked' = acked \union {u}
  /\ UNCHANGED <<value, refused, seen>>

Refuse(u) ==
  /\ u \notin value
  /\ refused' = refused \union {u}
  /\ UNCHANGED <<value, acked, seen>>

Look ==
  /\ seen' = seen \union value
  /\ UNCHANGED <<value, acked, refused>>

Spoil == spoilt' = TRUE /\ value' = {} /\ UNCHANGED <<acked, refused, seen>>

Next ==
  \/ /\ ~spoilt /\ UNCHANGED spoilt
     /\ Look \/ \E u \in Updates : Take(u) \/ Acknowledge(u) \/ Refuse(u)
  \/ Spoil

Spec == Init /\ [][Next]_vars
=============================================================================
