----------------------------- MODULE CurrentKey -----------------------------
(***************************************************************************)
(* What the keyring promises whoever seals something: once there is a      *)
(* sub-MEK there always is a current one, it is one of the sub-MEKs, and   *)
(* it is never the one removed.  KeyTimeline implements it with dates and  *)
(* Keyring takes it as given.                                              *)
(***************************************************************************)
CONSTANTS Subs, None

VARIABLES keys, cur

Init == keys = {} /\ cur = None

\* Created or restored when there is none.
First(m) == keys = {} /\ keys' = {m} /\ cur' = m

\* Added, for now or for later.
Add(m) == keys # {} /\ m \notin keys /\ keys' = keys \cup {m} /\ cur' \in keys'

\* Another one is current: the owner's choice, new dates, or the clock.
Switch == keys # {} /\ cur' \in keys /\ UNCHANGED keys

\* Removed: not the current one.  (Which one is current may change: one of the others is
\* open-ended again when the removed one was.)
Remove(m) == m \in keys \ {cur} /\ keys' = keys \ {m} /\ cur' \in keys'

Next == Switch \/ \E m \in Subs : First(m) \/ Add(m) \/ Remove(m)

Spec == Init /\ [][Next]_<<keys, cur>>
=============================================================================
