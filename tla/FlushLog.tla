------------------------------- MODULE FlushLog -------------------------------
(***************************************************************************)
(* What Database::flush() promises its callers, with every buffer, index   *)
(* and thread of the implementation left out.                              *)
(*                                                                         *)
(* Clients write items, name state roots over the items known so far and   *)
(* call flush(), which numbers everything written before it.  Some of the  *)
(* items reach the disk at any time.  The log acknowledges an identifier   *)
(* only when everything numbered by it is on disk, never takes an          *)
(* acknowledgement back while the process lives, and never exposes on disk *)
(* a root some of whose items are missing, not even across a crash.        *)
(***************************************************************************)
EXTENDS Integers

CONSTANTS Items,   \* keys of tree nodes and of programs
          Roots    \* names of the successive state roots, 1 .. n

VARIABLES last,       \* identifier returned by the latest flush()
          acked,      \* latest identifier reported as stored
          disk,       \* items in the database
          diskRoot,   \* state root in the database, 0 when none was stored
          stamp,      \* for an item written: the value of last at that time
          rootStamp,  \* the same for a root
          rootItems   \* items the tree of a root is made of

vars == <<last, acked, disk, diskRoot, stamp, rootStamp, rootItems>>

Unwritten == -1

Written(s) == {x \in DOMAIN s : s[x] # Unwritten}

\* Flush n covers what was written while last was below n.
CoveredBy(s, n) == {x \in DOMAIN s : s[x] # Unwritten /\ s[x] < n}

Init ==
  /\ last = 0
  /\ acked = 0
  /\ disk = {}
  /\ diskRoot = 0
  /\ stamp = [x \in Items |-> Unwritten]
  /\ rootStamp = [r \in Roots |-> Unwritten]
  /\ rootItems = [r \in Roots |-> {}]

Write(x) ==
  /\ stamp' = [stamp EXCEPT ![x] = IF @ = Unwritten THEN last ELSE @]
  /\ UNCHANGED <<last, acked, disk, diskRoot, rootStamp, rootItems>>

\* Roots are named in the order in which they are set.
SetRoot(r, known) ==
  /\ \A q \in Roots : q >= r => rootStamp[q] = Unwritten
  /\ diskRoot < r
  /\ known \subseteq Written(stamp) \cup disk
  /\ rootStamp' = [rootStamp EXCEPT ![r] = last]
  /\ rootItems' = [rootItems EXCEPT ![r] = known]
  /\ UNCHANGED <<last, acked, disk, diskRoot, stamp>>

Flush ==
  /\ last' = last + 1
  /\ UNCHANGED <<acked, disk, diskRoot, stamp, rootStamp, rootItems>>

\* A commit of the database: some items and, once its tree is complete, a root
\* at least as recent as the one on disk.
Persist(some, r) ==
  /\ some \subseteq Written(stamp)
  /\ disk' = disk \cup some
  /\ \/ r = diskRoot
     \/ /\ r \in Roots
        /\ rootStamp[r] # Unwritten
        /\ r > diskRoot
        /\ rootItems[r] \subseteq disk'
  /\ diskRoot' = r
  /\ UNCHANGED <<last, acked, stamp, rootStamp, rootItems>>

Acknowledge(n) ==
  /\ n \in acked .. last
  /\ CoveredBy(stamp, n) \subseteq disk
  /\ \A r \in CoveredBy(rootStamp, n) : diskRoot >= r
  /\ acked' = n
  /\ UNCHANGED <<last, disk, diskRoot, stamp, rootStamp, rootItems>>

\* A crash loses what was not stored; a new process numbers from 0 again.
Crash ==
  /\ last' = 0
  /\ acked' = 0
  /\ stamp' = [x \in Items |-> Unwritten]
  /\ rootStamp' = [r \in Roots |-> Unwritten]
  /\ rootItems' = [r \in Roots |-> IF r = diskRoot THEN rootItems[r] ELSE {}]
  /\ UNCHANGED <<disk, diskRoot>>

Next ==
  \/ \E x \in Items : Write(x)
  \/ \E r \in Roots, known \in SUBSET Items : SetRoot(r, known)
  \/ Flush
  \/ \E some \in SUBSET Items, r \in Roots \cup {0} : Persist(some, r)
  \/ \E n \in acked .. last : Acknowledge(n)
  \/ Crash

Spec == Init /\ [][Next]_vars
===============================================================================
