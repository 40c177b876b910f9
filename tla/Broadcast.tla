------------------------------ MODULE Broadcast ------------------------------
(***************************************************************************)
(* What the event hub promises a viewer, with no locks, channels or        *)
(* handlers in it: messages are numbered 1, 2, ... as they are published,  *)
(* a viewer that joins sees only messages published after it joined, and   *)
(* sees them in the order they were published.  Delivery is best effort:   *)
(* a reader may skip messages but never goes back.                         *)
(***************************************************************************)
EXTENDS Naturals

CONSTANT Readers

VARIABLES
  sent,     \* how many messages have been published
  joined,   \* the readers that are connected
  at        \* at[r]: the last message r has been given, or where it joined

bvars == <<sent, joined, at>>

Init ==
  /\ sent = 0
  /\ joined = {}
  /\ at = [r \in Readers |-> 0]

Publish ==
  /\ sent' = sent + 1
  /\ UNCHANGED <<joined, at>>

Join(r) ==
  /\ r \notin joined
  /\ joined' = joined \cup {r}
  /\ at' = [at EXCEPT ![r] = sent]
  /\ UNCHANGED sent

\* The next message given to r is newer than every one it was given before.
Give(r) ==
  /\ r \in joined
  /\ \E m \in (at[r] + 1)..sent : at' = [at EXCEPT ![r] = m]
  /\ UNCHANGED <<sent, joined>>

Leave(r) ==
  /\ r \in joined
  /\ joined' = joined \ {r}
  /\ at' = [at EXCEPT ![r] = 0]
  /\ UNCHANGED sent

Next == Publish \/ \E r \in Readers : Join(r) \/ Give(r) \/ Leave(r)

Spec == Init /\ [][Next]_bvars
==============================================================================
