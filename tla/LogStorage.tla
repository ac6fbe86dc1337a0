----------------------------- MODULE LogStorage -----------------------------
(***************************************************************************)
(* RocksDbLogStorage (crates/vraftls-raft/src/storage.rs): the durable     *)
(* column families CF_LOGS and CF_META, the in-memory log_cache and the    *)
(* in-memory copies of vote, committed and last_purged, driven by openraft *)
(* through append, truncate, purge, save_vote and save_committed, with     *)
(* process crashes and power losses at any point, and restart through     *)
(* new/load_metadata.                                                      *)
(*                                                                         *)
(* openraft calls the store one method at a time (&mut self), so the only *)
(* thing that interleaves with a method is a crash.  A process crash loses *)
(* the in-memory state and keeps every RocksDB write that returned.        *)
(* Every put_cf and delete_range_cf uses the default WriteOptions (no      *)
(* sync): the write is in RocksDB's log but not forced to disk, so a power *)
(* loss keeps the writes up to some point and loses the rest.  RocksDB     *)
(* makes older writes durable on its own, oldest first (WAL and OS         *)
(* writeback): Sync.  The model bounds the writes not yet durable by       *)
(* MaxPending: a write waits until there is room.                          *)
(*                                                                         *)
(* A crash inside append or truncate leaves the durable state of a shorter *)
(* append or of no truncate; purge is split at the one point where that   *)
(* is not so: after last_purged is persisted and before the entries are    *)
(* deleted.                                                                *)
(*                                                                         *)
(* Two method bodies do not compile as written: purge assigns the map that *)
(* split_off returns to the write guard, and try_get_log_entries uses the  *)
(* guard after drop(cache).  The model gives them their evident meaning:   *)
(* the cache keeps the entries above the purged index, and the reader      *)
(* takes each index from the cache, else from RocksDB, up to the first     *)
(* missing one.                                                            *)
(*                                                                         *)
(* An entry is abstracted to the term of its log id, and a log id to its   *)
(* index (0 stands for None); the serialised bytes are not modelled.       *)
(***************************************************************************)
EXTENDS Naturals, FiniteSets, Sequences, SequencesExt, Functions, TLC

CONSTANTS
  Terms,            \* terms of appended entries
  MaxIndex,         \* highest log index
  Votes,            \* votes openraft saves, ordered as openraft orders them
  MaxRestarts,      \* bound on crashes and power losses
  MaxPending,       \* most RocksDB writes not yet durable against power loss
  CommitBeyondLog   \* may committed run ahead of the local log (a follower
                    \* that installed a snapshot past its log's end)

ASSUME Votes \subseteq Nat \ {0} /\ CommitBeyondLog \in BOOLEAN
ASSUME MaxPending \in Nat

VARIABLES
  dbLogs,       \* CF_LOGS as the process reads it: index -> term
  dbMeta,       \* CF_META as the process reads it (0: key absent)
  synced,       \* [logs, meta]: what survives a power loss for certain
  pending,      \* [logs, meta] after each later write, oldest first
  cache,        \* log_cache: index -> term
  vote,         \* RocksDbLogStorage.vote
  committed,    \* RocksDbLogStorage.committed
  lastPurged,   \* RocksDbLogStorage.last_purged
  purging,      \* index of a purge between its meta write and its deletes
  restarts,     \* crashes so far
  flushed       \* history: the entries openraft was told are flushed and
                \* has not truncated or purged since

vars == <<dbLogs, dbMeta, synced, pending, cache, vote, committed,
          lastPurged, purging, restarts, flushed>>

NoMeta == [vote |-> 0, committed |-> 0, last_purged |-> 0]

(* RocksDbLogStorage::new on an empty directory: load_metadata finds no   *)
(* key.                                                                    *)
Init ==
  /\ dbLogs = <<>> /\ dbMeta = NoMeta
  /\ synced = [logs |-> <<>>, meta |-> NoMeta] /\ pending = <<>>
  /\ cache = <<>>
  /\ vote = 0 /\ committed = 0 /\ lastPurged = 0
  /\ purging = 0
  /\ restarts = 0
  /\ flushed = <<>>

-----------------------------------------------------------------------------
(* get_log_state: last_log_id is the last cache entry if the cache has     *)
(* one, else the last key of CF_LOGS, else last_purged.                    *)
GetLogState ==
  [last_purged |-> lastPurged,
   last_log |-> IF DOMAIN cache # {} THEN Max(DOMAIN cache)
                ELSE IF DOMAIN dbLogs # {} THEN Max(DOMAIN dbLogs)
                ELSE lastPurged]

(* try_get_log_entries(lo..hi): each index from the cache, else from       *)
(* load_entry, stopping at the first index found in neither.               *)
RECURSIVE ReadFrom(_, _)
ReadFrom(i, hi) ==
  CASE i >= hi                -> <<>>
    [] i \in DOMAIN cache     -> <<cache[i]>> \o ReadFrom(i + 1, hi)
    [] i \in DOMAIN dbLogs    -> <<dbLogs[i]>> \o ReadFrom(i + 1, hi)
    [] OTHER                  -> <<>>

Below(f, k) == Restrict(f, {i \in DOMAIN f : i < k})
Above(f, k) == Restrict(f, {i \in DOMAIN f : i > k})

(* A sequence of RocksDB writes (put_cf / delete_range_cf), given as the   *)
(* column families after each of them: the process reads the last, and    *)
(* the writes join the ones not yet durable.                               *)
Write(imgs) ==
  /\ Len(pending) + Len(imgs) <= MaxPending
  /\ dbLogs' = Last(imgs).logs
  /\ dbMeta' = Last(imgs).meta
  /\ pending' = pending \o imgs
  /\ UNCHANGED synced

Img(logs, meta) == [logs |-> logs, meta |-> meta]

-----------------------------------------------------------------------------
(* append: openraft hands n entries that continue get_log_state's last    *)
(* log id; each is save_entry'd (one put_cf each) and inserted into the    *)
(* cache, then log_io_completed reports them flushed.                      *)
AppendEntries(n, t) ==
  LET last == GetLogState.last_log
      new  == [i \in (last + 1)..(last + n) |-> t]
  IN /\ purging = 0
     /\ last + n <= MaxIndex
     /\ Write([j \in 1..n |->
          Img([i \in (last + 1)..(last + j) |-> t] @@ dbLogs, dbMeta)])
     /\ cache' = new @@ cache
     /\ flushed' = new @@ flushed
     /\ UNCHANGED <<vote, committed, lastPurged, purging, restarts>>

TruncateGuard(at) ==
  /\ purging = 0
  /\ at > committed /\ at > lastPurged /\ at <= GetLogState.last_log

(* Mutant of truncate: delete_range starting one past the truncated index.*)
TruncateFromNext(at) ==
  /\ TruncateGuard(at)
  /\ cache' = Below(cache, at)
  /\ Write(<<Img(Below(dbLogs, at + 1), dbMeta)>>)
  /\ flushed' = Below(flushed, at)
  /\ UNCHANGED <<vote, committed, lastPurged, purging, restarts>>

(* truncate(log_id): openraft removes a conflicting uncommitted suffix;    *)
(* the cache keeps the indices below it and delete_range removes it and    *)
(* everything after it from CF_LOGS.                                       *)
Truncate(at) ==
  /\ TruncateGuard(at)
  /\ cache' = Below(cache, at)
  /\ Write(<<Img(Below(dbLogs, at), dbMeta)>>)
  /\ flushed' = Below(flushed, at)
  /\ UNCHANGED <<vote, committed, lastPurged, purging, restarts>>

(* purge(log_id), first part: openraft purges applied (so committed) logs;*)
(* last_purged is set in memory, then put into CF_META.                    *)
PurgeBegin(through) ==
  /\ purging = 0
  /\ through > lastPurged /\ through <= committed
  /\ lastPurged' = through
  /\ Write(<<Img(dbLogs, [dbMeta EXCEPT !.last_purged = through])>>)
  /\ purging' = through
  /\ flushed' = Above(flushed, through)
  /\ UNCHANGED <<cache, vote, committed, restarts>>

(* Mutant of purge: the half of the cache that split_off returns dropped  *)
(* instead of kept.                                                        *)
PurgeEndWrongHalf ==
  /\ purging # 0
  /\ cache' = Below(cache, purging + 1)
  /\ Write(<<Img(Above(dbLogs, purging), dbMeta)>>)
  /\ purging' = 0
  /\ UNCHANGED <<vote, committed, lastPurged, restarts, flushed>>

(* purge(log_id), second part: the cache keeps the indices above it and   *)
(* delete_entries_before(index + 1) removes the rest from CF_LOGS.         *)
PurgeEnd ==
  /\ purging # 0
  /\ cache' = Above(cache, purging)
  /\ Write(<<Img(Above(dbLogs, purging), dbMeta)>>)
  /\ purging' = 0
  /\ UNCHANGED <<vote, committed, lastPurged, restarts, flushed>>

(* save_vote: memory first, then CF_META.                                  *)
SaveVote(v) ==
  /\ purging = 0
  /\ v > vote
  /\ vote' = v
  /\ Write(<<Img(dbLogs, [dbMeta EXCEPT !.vote = v])>>)
  /\ UNCHANGED <<cache, committed, lastPurged, purging, restarts, flushed>>

(* save_committed(Some(c)): memory first, then CF_META.  openraft's        *)
(* committed index only grows and stays within the log unless a snapshot   *)
(* carried the node past its log's end.                                    *)
SaveCommitted(c) ==
  /\ purging = 0
  /\ c > committed
  /\ c <= IF CommitBeyondLog THEN MaxIndex ELSE GetLogState.last_log
  /\ committed' = c
  /\ Write(<<Img(dbLogs, [dbMeta EXCEPT !.committed = c])>>)
  /\ UNCHANGED <<cache, vote, lastPurged, purging, restarts, flushed>>

(* RocksDB makes its oldest outstanding write durable.                     *)
Sync ==
  /\ pending # <<>>
  /\ synced' = Head(pending)
  /\ pending' = Tail(pending)
  /\ UNCHANGED <<dbLogs, dbMeta, cache, vote, committed, lastPurged, purging,
                 restarts, flushed>>

(* Mutant of load_metadata: the vote block reads KEY_COMMITTED (the three *)
(* load blocks are copies of one another).                                 *)
ReloadVoteFromCommitted(meta) ==
  /\ cache' = <<>>
  /\ vote' = meta.committed
  /\ committed' = meta.committed
  /\ lastPurged' = meta.last_purged
  /\ purging' = 0
  /\ restarts' = restarts + 1

(* RocksDbLogStorage::new after a crash: the cache starts empty and        *)
(* load_metadata copies each key of CF_META into memory; CF_LOGS is        *)
(* trusted as it is.                                                       *)
Reload(meta) ==
  /\ cache' = <<>>
  /\ vote' = meta.vote
  /\ committed' = meta.committed
  /\ lastPurged' = meta.last_purged
  /\ purging' = 0
  /\ restarts' = restarts + 1

(* The process crashes: every write RocksDB accepted is kept.              *)
Restart ==
  /\ restarts < MaxRestarts
  /\ Reload(dbMeta)
  /\ UNCHANGED <<dbLogs, dbMeta, synced, pending, flushed>>

(* The machine loses power: RocksDB recovers the durable writes and loses  *)
(* the outstanding ones (recovering some of them is Sync steps first).     *)
PowerLoss ==
  /\ restarts < MaxRestarts
  /\ dbLogs' = synced.logs /\ dbMeta' = synced.meta
  /\ pending' = <<>>
  /\ Reload(synced.meta)
  /\ UNCHANGED <<synced, flushed>>

Next ==
  \/ \E n \in 1..2, t \in Terms : AppendEntries(n, t)
  \/ \E at \in 1..MaxIndex : Truncate(at)
  \/ \E through \in 1..MaxIndex : PurgeBegin(through)
  \/ PurgeEnd
  \/ \E v \in Votes : SaveVote(v)
  \/ \E c \in 1..MaxIndex : SaveCommitted(c)
  \/ Sync
  \/ Restart
  \/ PowerLoss

(* Nothing is left to call once the log is full, committed and purged,  *)
(* and the votes and crashes are spent: configurations do not check      *)
(* deadlock, the end of a bounded run being no fault of the store.        *)
Spec == Init /\ [][Next]_vars

-----------------------------------------------------------------------------
TypeOK ==
  /\ DOMAIN dbLogs \subseteq 1..MaxIndex /\ DOMAIN cache \subseteq 1..MaxIndex
  /\ \A i \in DOMAIN dbLogs : dbLogs[i] \in Terms
  /\ \A i \in DOMAIN cache : cache[i] \in Terms
  /\ dbMeta \in [vote : Votes \cup {0}, committed : 0..MaxIndex,
                 last_purged : 0..MaxIndex]
  /\ vote \in Votes \cup {0}
  /\ committed \in 0..MaxIndex /\ lastPurged \in 0..MaxIndex
  /\ purging \in 0..MaxIndex /\ restarts \in 0..MaxRestarts
  /\ Len(pending) <= MaxPending
  /\ DOMAIN flushed \subseteq 1..MaxIndex

(* The column families read as a log: CF_META is authoritative for the    *)
(* metadata, and CF_LOGS for the entries above the purge marker.           *)
LogOf(img) == Above(img.logs, img.meta.last_purged)

LastOf(img) ==
  IF DOMAIN LogOf(img) = {} THEN img.meta.last_purged
  ELSE Max(DOMAIN LogOf(img))

DurableEntries == LogOf(synced)

AL == INSTANCE AbstractLog WITH
        entries <- DurableEntries, purged <- synced.meta.last_purged,
        avote <- synced.meta.vote, acommitted <- synced.meta.committed

(* Every behaviour of the store, crashes, power losses and half-done       *)
(* purges included, is a behaviour of the RaftLogStorage contract read off *)
(* what is on disk for certain: each write that becomes durable continues  *)
(* the log, removes exactly a suffix or a prefix, or sets a metadata cell, *)
(* and a restart or a power loss changes nothing of it.                    *)
AbstractSpec == AL!ASpec

(* Spec: "for any sequence of append/truncate/purge respecting the         *)
(* contract, get_log_state returns values consistent with the naive        *)
(* reference model", across crashes: between two calls, get_log_state     *)
(* (which prefers the cache), the reader above the purge marker, and the   *)
(* vote and committed that read_vote/read_committed return all agree with  *)
(* what the column families say.                                          *)
RefRead(lo) ==
  LET log     == LogOf(Img(dbLogs, dbMeta))
      present == {k \in lo..(MaxIndex + 1) : \A i \in lo..(k - 1) :
                    i \in DOMAIN log}
      k == Max(present)
  IN [j \in 1..(k - lo) |-> log[lo + j - 1]]

LogStateMatchesLog ==
  purging = 0 =>
    /\ GetLogState = [last_purged |-> dbMeta.last_purged,
                        last_log |-> LastOf(Img(dbLogs, dbMeta))]
    /\ vote = dbMeta.vote /\ committed = dbMeta.committed
    /\ \A lo \in (lastPurged + 1)..MaxIndex :
         ReadFrom(lo, MaxIndex + 1) = RefRead(lo)

(* openraft requires last_purged_log_id <= last_log_id of get_log_state   *)
(* (spec: "if the log is empty, last_log_id = last_purged_log_id").        *)
LastLogNotBelowPurged ==
  purging = 0 => GetLogState.last_purged <= GetLogState.last_log

(* Spec section 4.2: "Entries are written durably (at least one            *)
(* fsync-equivalent per call) before on_flush is signaled with success":   *)
(* an entry append reported flushed through log_io_completed, and that     *)
(* openraft has not truncated or purged since, is in CF_LOGS with the same *)
(* term, whatever crashed or lost power in between.                        *)
AckedEntriesDurable ==
  \A i \in DOMAIN flushed : i \in DOMAIN dbLogs /\ dbLogs[i] = flushed[i]

=============================================================================
