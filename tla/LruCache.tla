------------------------------ MODULE LruCache ------------------------------
(***************************************************************************)
(* What the node and program caches of src/src/hashdb/database_cache.cpp   *)
(* promise, with the linked list and the hash map left out: the keys that  *)
(* are cached, in the order of their last use, cut where their records no  *)
(* longer fit.  The most recently used key is always kept.                 *)
(***************************************************************************)
EXTENDS Integers, Sequences

CONSTANTS Keys,      \* keys of the table the cache stands in front of
          Size,      \* bytes the record of a key takes
          MaxSize    \* bytes the cache may take

VARIABLE recent      \* cached keys, the most recently used one first

Cached(s) == {s[i] : i \in DOMAIN s}

SizeOf(s) ==
  LET upTo[n \in 0 .. Len(s)] == IF n = 0 THEN 0 ELSE upTo[n - 1] + Size[s[n]]
  IN  upTo[Len(s)]

\* The first n keys of s may stay: they fit, or there is only one.
MayStay(s, n) == n = 1 \/ SizeOf(SubSeq(s, 1, n)) <= MaxSize

\* The key at place p of s moves to its front.
ToFront(s, p) ==
  [i \in DOMAIN s |-> IF i = 1 THEN s[p] ELSE IF i <= p THEN s[i - 1] ELSE s[i]]

Init == recent = <<>>

IsCached(k) == k \in Cached(recent)

Touch(k) == \E p \in DOMAIN recent : recent[p] = k /\ recent' = ToFront(recent, p)

Insert(k) ==
  LET s == <<k>> \o recent IN
  /\ ~IsCached(k)
  /\ \E n \in DOMAIN s :
       /\ MayStay(s, n) /\ \A m \in DOMAIN s : m > n => ~MayStay(s, m)
       /\ recent' = SubSeq(s, 1, n)

\* A use of k that leaves it cached, whether it was or not.
Add(k) == Touch(k) \/ Insert(k)

Clear == recent' = <<>>

Next == (\E k \in Keys : Add(k)) \/ Clear

Spec == Init /\ [][Next]_recent
=============================================================================
