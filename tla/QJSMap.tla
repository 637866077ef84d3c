------------------------------- MODULE QJSMap -------------------------------
(***************************************************************************)
(* Map and Set of the QuickJS engine: records in a doubly linked list, in  *)
(* a hash table of buckets that grows, and locked by the iterators and the *)
(* forEach frames that stand on them. A record deleted while locked stays  *)
(* in the list, empty, until the last lock goes ("zombie record").         *)
(*                                                                         *)
(* Script runs between any two steps of a traversal: in the loop that uses *)
(* the iterator, in the callback of forEach. Keys and values are opaque;   *)
(* map_normalize_key and js_same_value_zero make equal keys one key here.  *)
(***************************************************************************)
EXTENDS Integers, Sequences, SequencesExt, FiniteSets

CONSTANTS
  Keys, Vals,
  BucketOf(_, _), \* map_hash_key(key) & (hash_size - 1)
  MaxSize,   \* bound of the model: the size of a table
  Slots,     \* storage for records; a freed one can be allocated again
  Iters,     \* iterator objects
  Frames,    \* activations of forEach
  Slack,     \* entries that js_realloc2 returns beyond those asked for
  None,      \* no record, no traversal
  Start      \* before the first record

ASSUME MapAssumption ==
  /\ MaxSize \in Nat \ {0} /\ \A k \in Keys, size \in 1..MaxSize : BucketOf(k, size) \in 0..size - 1
  /\ Slack \in Nat /\ Slots \subseteq Nat /\ Iters \cap Frames = {} /\ None \notin Keys
  /\ IsFiniteSet(Slots) /\ IsFiniteSet(Iters \cup Frames) /\ {None, Start} \cap Slots = {} /\ None # Start
  /\ None \notin Seq(Keys)

VARIABLES
  records,   \* s->records: the slots in list order
  rec,       \* rec[r]: the record in slot r
  table,     \* s->hash_table: a sequence of records per bucket, from 0
  count,     \* s->record_count
  threshold, \* s->record_count_threshold
  cur        \* cur[t]: it->cur_record or the locked record of forEach;
             \* Start before the first one; None when there is no traversal

vars == <<records, rec, table, count, threshold, cur>>

Travs == Iters \cup Frames
Blank == [key |-> None, val |-> None, empty |-> TRUE, rc |-> 0]

HashSize == Cardinality(DOMAIN table)

\* the records that map_delete_record emptied while they were locked, and free storage
Zombies == {r \in Slots : rec[r].empty}

\* a list without the elements of D, each of which list_del takes out
Without(list, D) ==
  LET kept   == {i \in DOMAIN list : list[i] \notin D}
      Nth(n) == CHOOSE i \in kept : Cardinality({j \in kept : j <= i}) = n
  IN  [n \in 1 .. Cardinality(kept) |-> list[Nth(n)]]

Following(r) ==
  LET i == CHOOSE i \in DOMAIN records : records[i] = r
  IN  SubSeq(records, i + 1, Len(records))

-----------------------------------------------------------------------------
(* Records.                                                                *)

\* map_find_record
Find(k) ==
  LET bucket == table[BucketOf(k, HashSize)]
      hits   == {i \in DOMAIN bucket : rec[bucket[i]].key = k}
  IN  IF hits = {} THEN None ELSE bucket[CHOOSE i \in hits : \A j \in hits : i <= j]

\* map_hash_resize: the records that are not empty are linked again, in order
Rehash(recs, rc, size) ==
  [b \in 0 .. size - 1 |->
     Without(recs, {r \in Slots : rc[r].empty \/ BucketOf(rc[r].key, size) # b})]

\* map_add_record; the allocation of a larger table may fail, then the old
\* one stays
AddRecord(k, v) ==
  \E r \in Slots \ ToSet(records) :
    LET nrec  == [rec EXCEPT ![r] = [key |-> k, val |-> v, empty |-> FALSE, rc |-> 1]]
        nrecs == Append(records, r)
        size  == (IF HashSize = 1 THEN 4 ELSE HashSize * 2) + Slack
        KeepTable == /\ table' = [table EXCEPT ![BucketOf(k, HashSize)] = Append(@, r)]
                     /\ UNCHANGED threshold
    IN  /\ \A x \in Slots \ ToSet(records) : r <= x
        /\ records' = nrecs /\ rec' = nrec /\ count' = count + 1
        /\ IF count + 1 < threshold THEN KeepTable
           ELSE \/ KeepTable
                \/ /\ size <= MaxSize
                   /\ table' = Rehash(nrecs, nrec, size)
                   /\ threshold' = size * 2

\* What map_delete_record leaves of a record: nothing, or a zombie with the
\* locks that are left.
Emptied(r) == [Blank EXCEPT !.rc = rec[r].rc - 1]

\* Fault: the zombie stays in its bucket
DeletedStillHashed(D) ==
  LET full  == D \ Zombies
      freed == {r \in full : rec[r].rc = 1}
  IN  /\ records' = Without(records, freed)
      /\ rec' = [r \in Slots |-> IF r \in full THEN Emptied(r) ELSE rec[r]]
      /\ table' = [b \in DOMAIN table |-> Without(table[b], freed)]
      /\ count' = count - Cardinality(full)

\* map_delete_record of each record in D: it leaves its bucket, and the list if
\* nobody stands on it
Deleted(D) ==
  LET full  == D \ Zombies
      freed == {r \in full : rec[r].rc = 1}
  IN  /\ records' = Without(records, freed)
      /\ rec' = [r \in Slots |-> IF r \in full THEN Emptied(r) ELSE rec[r]]
      /\ table' = [b \in DOMAIN table |-> Without(table[b], full)]
      /\ count' = count - Cardinality(full)

\* Traversal t goes on to `next`, a record or None: map_decref_record of the
\* record it stood on, which frees a zombie with its last lock, and a lock on
\* the next
Goes(t, next) ==
  LET left  == {r \in Slots : r = cur[t]}
      freed == {r \in left : rec[r].rc = 1}
      Locks(r) == rec[r].rc - (IF r \in left THEN 1 ELSE 0) + (IF r = next THEN 1 ELSE 0)
  IN  /\ records' = Without(records, freed)
      /\ rec' = [r \in Slots |-> IF r \in freed THEN Blank ELSE [rec[r] EXCEPT !.rc = Locks(r)]]
      /\ cur' = [cur EXCEPT ![t] = next]
      /\ UNCHANGED <<table, count, threshold>>

-----------------------------------------------------------------------------
(* The methods.                                                            *)

\* js_map_set, Map.prototype.set and Set.prototype.add
Set(k, v) ==
  /\ IF Find(k) = None THEN AddRecord(k, v)
     ELSE rec' = [rec EXCEPT ![Find(k)].val = v] /\ UNCHANGED <<records, table, count, threshold>>
  /\ UNCHANGED cur

\* js_map_delete
Delete(k) ==
  /\ Find(k) # None
  /\ Deleted({Find(k)})
  /\ UNCHANGED <<threshold, cur>>

\* js_map_clear
Clear ==
  /\ Deleted(ToSet(records))
  /\ UNCHANGED <<threshold, cur>>

-----------------------------------------------------------------------------
(* Traversals.                                                             *)

\* Fault: a traversal whose record was deleted begins again
AheadFromStart(t) ==
  IF cur[t] \in Slots /\ ~rec[cur[t]].empty THEN Following(cur[t]) ELSE records

\* the records a traversal has ahead of it, zombies included
Ahead(t) == IF cur[t] \in Slots THEN Following(cur[t]) ELSE records

\* leave the current record, skip the zombies, lock the next record; the
\* successor is read before the current record is released
Visit(t) ==
  LET ahead == Without(Ahead(t), Zombies)
  IN  Goes(t, IF ahead = <<>> THEN None ELSE Head(ahead))

\* js_create_map_iterator
NewIterator(t) ==
  /\ cur[t] = None
  /\ cur' = [cur EXCEPT ![t] = Start]
  /\ UNCHANGED <<records, rec, table, count, threshold>>

\* js_map_iterator_next
IterNext(t) == cur[t] # None /\ Visit(t)

\* js_map_iterator_finalizer, of an iterator that did not run to its end
DropIterator(t) == cur[t] # None /\ Goes(t, None)

\* js_map_forEach up to its first callback
ForEach(t) == cur[t] = None /\ Visit(t)

\* the callback returns; one that throws ends the loop
Returned(t) == cur[t] # None /\ Visit(t)

Threw(t) == cur[t] # None /\ Goes(t, None)

-----------------------------------------------------------------------------

Init ==
  /\ records = <<>> /\ rec = [r \in Slots |-> Blank]
  /\ table = [b \in {0} |-> <<>>] /\ count = 0 /\ threshold = 4
  /\ cur = [t \in Travs |-> None]

Next ==
  \/ \E k \in Keys, v \in Vals : Set(k, v)
  \/ \E k \in Keys : Delete(k)
  \/ Clear
  \/ \E t \in Iters : NewIterator(t) \/ IterNext(t) \/ DropIterator(t)
  \/ \E t \in Frames : ForEach(t) \/ Returned(t) \/ Threw(t)

Spec == Init /\ [][Next]_vars

-----------------------------------------------------------------------------
(* Properties.                                                             *)

TypeOK ==
  /\ records \in Seq(Slots)
  /\ rec \in [Slots -> [key : Keys \cup {None}, val : Vals \cup {None},
                        empty : BOOLEAN, rc : Nat]]
  /\ HashSize \in 1 .. MaxSize /\ table \in [0 .. HashSize - 1 -> Seq(Slots)]
  /\ count \in Nat /\ threshold \in Nat
  /\ cur \in [Travs -> Slots \cup {Start, None}]

\* The two structures agree: the bucket of its hash, and no other, holds each
\* record that is not empty, once; no zombie can be found; keys are unique;
\* record_count (Map.prototype.size) counts them.
TableMatchesList ==
  /\ \A b \in DOMAIN table : \A i \in DOMAIN table[b] :
       LET r == table[b][i]
       IN  /\ r \in ToSet(records) \ Zombies /\ BucketOf(rec[r].key, HashSize) = b
           /\ \A j \in DOMAIN table[b] : table[b][j] = r => j = i
  /\ \A r \in ToSet(records) \ Zombies : Find(rec[r].key) = r
  /\ count = Cardinality(ToSet(records) \ Zombies)

\* Locks are counted exactly: a record is in the list while it holds an entry
\* or a traversal stands on it, and not longer; no traversal stands on a
\* record that was freed ("assert(mr->empty)" in map_decref_record).
LocksExact ==
  \A r \in Slots :
    LET locks == Cardinality({t \in Travs : cur[t] = r})
    IN  /\ r \in ToSet(records) <=> (locks > 0 \/ ~rec[r].empty)
        /\ rec[r].rc = locks + (IF rec[r].empty THEN 0 ELSE 1)

\* What the map is, seen from script: the keys of the records that are not
\* empty, in the order of the list, their values, and the keys that a traversal
\* has ahead of it.
Entries(list) ==
  LET full == Without(list, Zombies)
  IN  [i \in DOMAIN full |-> rec[full[i]].key]

order == Entries(records)
value == [k \in {rec[r].key : r \in ToSet(records) \ Zombies} |-> rec[Find(k)].val]
todo  == [t \in Travs |-> IF cur[t] = None THEN None ELSE Entries(Ahead(t))]

Abstract == INSTANCE OrderedMap WITH Idle <- None

\* Whatever script does to the map in the middle of traversals, a traversal
\* visits each entry that is there when its turn comes, once and in order.
ImplementsOrderedMap == Abstract!Spec

\* The records, their table and their locks fit together.
RecordsSound == TypeOK /\ TableMatchesList /\ LocksExact
=============================================================================
