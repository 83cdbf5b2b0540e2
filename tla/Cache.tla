------------------------------- MODULE Cache -------------------------------
(***************************************************************************)
(* What a user of a response cache is promised: it holds a set of keys, a  *)
(* key gets there only when it is stored, and a key that is there leaves   *)
(* again in the end.  When it leaves is not the user's concern.            *)
(*                                                                         *)
(* The network requests of Networking use the cache through these actions; *)
(* ExpiringCache, the code of ThreadSafeCache on top of its Timer, is      *)
(* shown to implement this specification.                                  *)
(***************************************************************************)
CONSTANTS Key

VARIABLES entries      \* the keys in the cache

Init == entries = {}

Store(k) == entries' = entries \union {k}

\* Some of the keys leave, k among them.
Drop(k) ==
  /\ k \in entries
  /\ entries' \in SUBSET (entries \ {k})

Next == \E k \in Key : Store(k) \/ Drop(k)

Spec == Init /\ [][Next]_entries /\ \A k \in Key : WF_entries(Drop(k))

=============================================================================
