------------------------------ MODULE LRUCache ------------------------------
(* The cache of downloaded files of an invoker (lib/cache/cache.go with the getter
   and the remover of invoker/storage): a file is loaded in the background when it
   is first locked or got, and removed from the disk, the least recently used
   first, when the files exceed the bound and nobody has it locked.

   The key of a file has the epoch of the storage, so that resetting the cache is
   only a new epoch.  Each operator below is one section under the mutex.  A file is
   on the disk from its loading until its holder is removed: the getter writes it
   before, the remover deletes it in the section that removes the holder.      *)
EXTENDS Integers, Sequences

CONSTANTS File, SizeOf, SizeBound

ASSUME CacheAssumption == SizeOf \in [File -> Nat] /\ SizeBound \in Nat

VARIABLES
  holders,     \* valueHolders; file: the content of it, or why there is none
  recentRank,  \* the keys of loaded files, the least recently used first
  totalSize

cacheVars == <<holders, recentRank, totalSize>>

Key == Nat \X File

Loading == [is |-> "loading"]
Failed == [is |-> "error"]
Loaded(content) == [is |-> "file", content |-> content]

CacheTypeOK ==
  /\ DOMAIN holders \subseteq Key
  /\ \A k \in DOMAIN holders :
       /\ holders[k].locks \in Nat
       /\ holders[k].size \in Nat
       /\ \/ holders[k].file \in {Loading, Failed}
          \/ holders[k].file.is = "file" /\ holders[k].file.content \in Nat
  /\ recentRank \in Seq(Key)
  /\ totalSize \in Nat

CacheInit ==
  /\ holders = [k \in {} |-> 0]
  /\ recentRank = <<>>
  /\ totalSize = 0

\* f with x mapped to v.
With(f, x, v) == [y \in DOMAIN f \cup {x} |-> IF y = x THEN v ELSE f[y]]
Without(f, S) == [y \in DOMAIN f \ S |-> f[y]]

IsLoaded(k) == k \in DOMAIN holders /\ holders[k].file # Loading

\* itemUsed: k moves to the back of the list, or is put there.
Used(rank, k) ==
  IF \E i \in DOMAIN rank : rank[i] = k
  THEN LET i == CHOOSE n \in DOMAIN rank : rank[n] = k
       IN  SubSeq(rank, 1, i - 1) \o SubSeq(rank, i + 1, Len(rank)) \o <<k>>
  ELSE Append(rank, k)

\* The holders after k got one more lock, or one less.
Relocked(k, by) == [holders EXCEPT ![k].locks = @ + by]
Unlocked(k) == [holders EXCEPT ![k].locks = @ - 1]

\* lockAndGetHolder: an absent file starts to load.
LockHolder(k) ==
  holders' = IF k \in DOMAIN holders THEN Relocked(k, 1)
             ELSE With(holders, k, [file |-> Loading, locks |-> 1, size |-> 0])

\* (Mistake: the lock is not looked at.)
RemovesLocked(hs, k, total) == total > SizeBound

\* removeItemsIfNeeded removes a key it comes to.
Removes(hs, k, total) == total > SizeBound /\ hs[k].locks = 0

\* (Mistake: what failed to load has the size of the file too.)
SweptFullSize(hs, rank, total) ==
  LET after[i \in 0..Len(rank)] ==
        IF i = 0 THEN [size |-> total, kept |-> <<>>, removed |-> {}]
        ELSE LET before == after[i - 1]
                 k == rank[i]
             IN  IF Removes(hs, k, before.size)
                 THEN [size |-> before.size - SizeOf[k[2]], kept |-> before.kept,
                       removed |-> before.removed \cup {k}]
                 ELSE [size |-> before.size, kept |-> Append(before.kept, k),
                       removed |-> before.removed]
  IN  after[Len(rank)]

\* The loop of removeItemsIfNeeded, from the front of the list: the total size, the
\* list and what was removed after its first i keys, and then after all.
Swept(hs, rank, total) ==
  LET after[i \in 0..Len(rank)] ==
        IF i = 0 THEN [size |-> total, kept |-> <<>>, removed |-> {}]
        ELSE LET before == after[i - 1]
                 k == rank[i]
             IN  IF Removes(hs, k, before.size)
                 THEN [size |-> before.size - hs[k].size, kept |-> before.kept,
                       removed |-> before.removed \cup {k}]
                 ELSE [size |-> before.size, kept |-> Append(before.kept, k),
                       removed |-> before.removed]
  IN  after[Len(rank)]

\* removeItemsIfNeeded, with removeSingleItem and the remover cleanUpFile: what
\* becomes of the cache that an operation leaves.
RemoveItemsIfNeeded(hs, rank, total) ==
  LET swept == Swept(hs, rank, total)
  IN  /\ holders' = Without(hs, swept.removed)
      /\ recentRank' = swept.kept
      /\ totalSize' = swept.size

Lock(k) ==
  /\ LockHolder(k)
  /\ recentRank' = IF IsLoaded(k) THEN Used(recentRank, k) ELSE recentRank
  /\ UNCHANGED totalSize

\* (Mistake: the cache shrinks only when an item is loaded.)
UnlockOnly(k) ==
  /\ IF k \in DOMAIN holders /\ holders[k].locks > 0
     THEN holders' = Unlocked(k)
     ELSE UNCHANGED holders
  /\ UNCHANGED <<recentRank, totalSize>>

\* Its error, of an absent or unlocked item, is ignored by the callers.
Unlock(k) ==
  IF k \in DOMAIN holders /\ holders[k].locks > 0
  THEN RemoveItemsIfNeeded(Unlocked(k), recentRank, totalSize)
  ELSE UNCHANGED cacheVars

\* Get of a loaded file is one section; otherwise the caller waits with a lock.
GetLoaded(k) ==
  /\ IsLoaded(k)
  /\ recentRank' = Used(recentRank, k)
  /\ UNCHANGED <<holders, totalSize>>

GetAndWait(k) ==
  /\ ~IsLoaded(k)
  /\ LockHolder(k)
  /\ UNCHANGED <<recentRank, totalSize>>

\* (Mistake: the lock of the wait stays.)
GetAfterWaitKeepLock(k) ==
  /\ IsLoaded(k)
  /\ recentRank' = Used(recentRank, k)
  /\ UNCHANGED <<holders, totalSize>>

GetAfterWait(k) ==
  /\ IsLoaded(k)
  /\ holders' = Unlocked(k)
  /\ recentRank' = Used(recentRank, k)
  /\ UNCHANGED totalSize

\* loadAbsentValue, of what the getter returned.
LoadAs(k, file, size) ==
  /\ k \in DOMAIN holders /\ ~IsLoaded(k)
  /\ RemoveItemsIfNeeded([holders EXCEPT ![k].file = file, ![k].size = size],
                         Used(recentRank, k), totalSize + size)

LoadAbsentValue(k, content) == LoadAs(k, Loaded(content), SizeOf[k[2]])

\* An error is kept like a file, of size 0.
LoadError(k) == LoadAs(k, Failed, 0)

============================================================================
