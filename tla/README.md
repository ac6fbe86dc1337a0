# TLA+ models of vraftls

This directory holds TLA+ models of vraftls, a language-server gateway that
keeps a virtual file system (VFS) replicated by Raft (openraft). TLC checks
each model. Every module is translated from the Rust sources under
`src/crates/`. `PROJECT.json` maps each definition to the lines it models and
lists the runs, the mutants that show each property can fail, the findings,
and the hazards.

## The system

| Part | Source | State | Operations |
|---|---|---|---|
| VFS | `vraftls-vfs/src/vfs.rs`, `file.rs`, `commands.rs` | `files` (id → file), `path_index` (path → id), `next_file_id`, broadcast channel | `apply` of `CreateFile`, `UpdateFile`, `DeleteFile`, `RenameFile`, `BatchWrite`, `InvalidateCache` |
| Paths | `vraftls-vfs/src/path.rs` | `VfsPath` = (client id, components, original) | `normalize`, `starts_with`, `join`, `parent`, ... |
| Raft state machine | `vraftls-raft/src/state_machine.rs` | the VFS, `last_applied_log`, `membership` | `apply`, `build_snapshot`, `install_snapshot`, `get_current_snapshot` |
| Raft log storage | `vraftls-raft/src/storage.rs` | RocksDB `logs` and `meta` column families, `log_cache`, in-memory vote / committed / last_purged | `append`, `truncate`, `purge`, `save_vote`, `save_committed`, `get_log_state`, `try_get_log_entries`, `new` |
| Raft network | `vraftls-raft/src/network.rs` | none | one HTTP POST per RPC |
| Analyzer proxy and pool | `vraftls-lsp/src/proxy.rs` | `pending` (id → reply slot), `next_id`, child stdin; pool map language → proxy | `request` (with a 30 s timeout), `notify`, reader task, `get_or_spawn`, `shutdown_all` |
| LSP gateway | `vraftls-lsp/src/gateway.rs` | `open_documents`, a local `Vfs`, the pool | `did_open`, `did_change`, `did_close`, `did_save`, request forwarding |
| Router | `vraftls-lsp/src/router.rs` | `group_leaders`, `file_cache` | `update_leader`, `route_for_file`, `route_workspace`, `cache_file_owner`, `invalidate_file` |
| Analysis cache | `vraftls-cache/src/hierarchy.rs`, `invalidation.rs` | moka L1 keyed by (file id, version); dependency graph (`dependents`, `dependencies`) | `get` / `insert` / `invalidate`; `add_dependency`, `remove_file`, `transitive_dependents` |
| Cluster | `vraftls-cluster/src/*` | membership, failure detector, discovery and metadata maps | plain map updates (nothing calls them) |

The parts interact as follows:

- The gateway turns editor events into VFS commands. In a cluster those commands are proposed to Raft.
- openraft appends each command to the log store, commits it, and hands it to `VfsStateMachine::apply`. That function runs `Vfs::apply` on every replica.
- A follower that lags behind receives a snapshot of another replica's state machine instead of the entries.
- Analyzer requests go through the pool to one child process per language.

## Modules

| Module | Models | Composes |
|---|---|---|
| `Vfs` | `Vfs::apply` and its handlers and `VfsPath::normalize`, written as pure operators over a record `[files, path_index, next_file_id, events]` that return `[st, resp]` | — |
| `VfsContract` | the VFS apply contract of spec §3 and §4.1: live files by id with (path, version, content), the ids ever minted, paths compared in normal form; one command is at most `MaxBatch` operations, each succeeding or changing nothing | — |
| `VfsGroup` | one group's VFS, driven one committed command at a time; it refines `VfsContract` | `Vfs`, `VfsContract` (INSTANCE … WITH) |
| `VfsStateMachine` | several replicas of one group sharing a committed log: `apply` in batches, `build_snapshot`, `install_snapshot` of another replica's last snapshot | `Vfs` |
| `AbstractLog` | the log-store contract openraft relies on (spec §4.2), with no cache and no crash | — |
| `LogStorage` | `RocksDbLogStorage`: CF_LOGS and CF_META with their unsynced writes, the cache, the in-memory metadata, crashes, power losses and restart; its durable state refines `AbstractLog` | `AbstractLog` (INSTANCE … WITH) |
| `LspProxy` | one `LanguageServerProxy`: concurrent `request()` callers, the reader task, the pending map, the stdin mutex and the 30 s timeout, with the analyzer process and its pipes as environment | — |
| `Gateway` | `LspGateway`'s document and request handlers as tower-lsp's `Server::serve` runs them, four at a time in one task, over the `open_documents` DashMap, the proxy's stdin mutex and pipe, and the analyzer | — |
| `DependencyGraph` | the cache's `DependencyGraph`: `add_dependency` and `remove_file` from concurrent tasks, split at their lock scopes; `transitive_dependents` as a recursive operator | — |
| `MC_*` | constants for TLC | the module they extend |

How the modules correspond to the code:

- **Vfs.** Each handler (`create_file`, `update_file`, ...) is one operator. Its early returns are its `IF` branches, in the code's order. Two orders matter:
  - `rename_file` checks the new path before the id;
  - `update_file` checks the id before the version.

  The broadcast channel is the history `events`; sending never changes control flow. A path is its sequence of `std::path` components. `VfsPath` equality is derived over the original text as well, so the model keys `path_index` by the original components, not by the normalised ones.
- **VfsStateMachine.** `Apply(r, k)` folds `ApplyEntry` over the next `k` committed entries. `last_applied_log` is set first, then the payload is dispatched.
  - `BuildSnapshot` lists the files in any order, because `all_file_ids()` iterates a DashMap.
  - `InstallSnapshot` replaces `last_applied_log` and `membership`, then folds `CreateFile` over the snapshot's files on the replica's existing VFS, exactly as the code does.
  - openraft keeps only the last snapshot a replica built, so the model keeps one per replica.
  - The snapshot a leader ships comes from `get_current_snapshot`. That function runs `build_snapshot` inline on openraft's state-machine worker, between two `apply` calls, so a shipped snapshot is atomic with respect to `apply`. openraft also spawns `build_snapshot` concurrently with `apply`; that build is torn, but only its meta returns to openraft and its data is never shipped, so it is not modelled.
- **LogStorage.** openraft calls the store one method at a time (`&mut self`), so only a crash interleaves with a method.
  - A crash inside `append` or `truncate` leaves the durable state of a shorter append or of no truncate, so those actions are atomic.
  - `purge` is split at its crash window: `PurgeBegin` persists `last_purged`, and `PurgeEnd` trims the cache and deletes the entries.
  - `Restart` is `new` plus `load_metadata`: an empty cache, and metadata copied from CF_META.
  - Every RocksDB write goes through `Write`. Writes use the default `WriteOptions`, with no sync. The process reads the newest state (`dbLogs`, `dbMeta`). `pending` holds the column families after each write that is not yet durable, and `synced` holds the durable ones.
  - `MaxPending` bounds the outstanding writes: a write waits until there is room. This keeps every behaviour in which RocksDB has made enough writes durable, which is all behaviours up to the bound.
  - `Sync` is RocksDB making its oldest outstanding write durable, in order, as its WAL does.
  - `PowerLoss` recovers `synced` and loses the rest. Recovering a prefix of the outstanding writes is the same as some `Sync` steps followed by a power loss. A process crash (`Restart`) keeps every write.
  - `flushed` is a history variable: the entries `log_io_completed` reported, minus those openraft truncated or purged since.
  - Two bodies do not compile as written. `purge` assigns a map to a write guard, and `try_get_log_entries` uses the guard after `drop`. The model gives them their evident meaning.

- **DependencyGraph.** Each lock scope is one action, since a scope is atomic under its tokio `RwLock` and callers interleave between scopes:
  - `add_dependency` is `AddDependents` then `AddDependencies`;
  - `remove_file` is `RemoveSnapshot` (the cloned `dependencies[file_id]`), `RemoveAsDependent`, `RemoveDependents`, `RemoveDependencies`.

  An absent `HashMap` key reads like an empty set, so the maps are total functions to sets. `transitive_dependents` takes one read lock for its whole traversal and changes nothing, so it is the operator `TransitiveDependents`: the code's explicit-stack search, written with `RECURSIVE`. `MC_DependencyGraph` has an `ASSUME` that TLC evaluates before every run of the module. It checks that the operator equals the transitive closure of the dependents relation (`Relation!TransitiveClosure`) from every file of every graph over three files. No code in the repository calls the graph yet.

- **LspProxy.** A caller of `request()` is a gateway handler. tower-lsp polls the handlers concurrently, and they interleave only at the awaits of `request`, so `request` is split at its awaits:
  - `Begin` is `fetch_add` of `next_id` and `pending.insert`;
  - `Lock` is `stdin.lock().await`;
  - `Write` is `write_all` and the guard's release. It blocks while the pipe is full and fails once the analyzer has exited, removing the slot;
  - `Receive` and `Timeout` are the two outcomes of `timeout(30 s, rx)`;
  - `Cancel` is tower-lsp dropping the handler future on `$/cancelRequest`. It releases the lock and leaves the slot.

  `ReadMsg` is one frame of `read_responses`: an integer id takes that slot, and anything else is a notification. `ReadEOF` is the task returning. A message carries a ghost `tag`, naming the call it answers, so that a property can tell a right delivery from a wrong one. The analyzer reads its stdin in order, answers in any order, may send requests of its own (with integer or string ids, by a constant) and may exit. `notify` and `shutdown` are not modelled.

- **Gateway.** `Server::serve` polls up to four handler futures inside one task, one at a time. `running` is the handler being polled, and it runs until an await is not ready. The awaits that suspend are the proxy's:
  - the stdin lock, which tokio hands over in FIFO order;
  - `write_all` on a full pipe;
  - a request's reply or its timeout.

  `get_or_spawn` never suspends, because `spawn` is synchronous, so the pool is not a variable and the model has one language. Each handler's first `open_documents` access is one action:
  - `did_open` inserts;
  - `did_change` is `get_mut`;
  - `did_close` removes;
  - `did_save` and the eight request handlers (which have one shape) are `get`.

  `get` and `get_mut` keep their shard lock (`guard`) until the handler ends. `Block` is an access whose shard lock a suspended handler holds. The thread blocks, and no handler of the task runs again. The editor sends a legal LSP stream per document. The analyzer reads its pipe in order and answers requests in any order.

## Runs

| Run | Config | Expect | Checks |
|---|---|---|---|
| `vfs_safety` | `MC_VfsGroup.cfg` | pass | `TypeOK`, `IndexConsistent`, `EventsReplayToState`, `ImplementsContract` (refinement) |
| `vfs_path_alias` | `MC_VfsGroup_alias.cfg` | violation | `NoAliasedFiles` |
| `sm_safety` | `MC_VfsStateMachine.cfg` | pass | `TypeOK`, `MembershipMatchesLog`, `VersionIdentifiesContent` |
| `sm_snapshot_divergence` | `MC_VfsStateMachine_divergence.cfg` | violation | `ReplicasAgree` |
| `log_storage` | `MC_LogStorage.cfg` | pass | `TypeOK`, `LogStateMatchesLog`, `AbstractSpec` (refinement) |
| `log_power_loss` | `MC_LogStorage_power_loss.cfg` | violation | `AckedEntriesDurable` |
| `log_purge_crash` | `MC_LogStorage_purge_crash.cfg` | violation | `LastLogNotBelowPurged` |
| `lsp_proxy` | `MC_LspProxy.cfg` | pass | `TypeOK`, `DeliveredIsOwnResponse`, `SlotsFreed` (liveness) |
| `lsp_proxy_id_collision` | `MC_LspProxy_id_collision.cfg` | violation | `DeliveredIsOwnResponse` |
| `gateway_docs` | `MC_Gateway.cfg` | pass | `AnalyzerInSync` |
| `gateway_deadlock` | `MC_Gateway_deadlock.cfg` | violation | `NoTaskBlocked` |
| `dep_graph_remove_race` | `MC_DependencyGraph.cfg` | violation | `DependentsBacked` |

What the runs show:

- **vfs_safety.** Every sequence of four commands keeps the following true:
  - `files` and `path_index` are mutual inverses;
  - replaying the change stream gives back every live file's path and version;
  - the group implements `VfsContract` (`ImplementsContract`). The mapping keeps `files` as they are and reads the used ids off the counter (`1..next_file_id-1`); `path_index` and the event history have no abstract counterpart. Each command is then at most two contract operations: update adds exactly one to the version, rename keeps version and content, and create mints an id never seen, so no file id is created twice, even after deletes. This holds whichever early return a handler takes and whichever op of a batch fails. The contract compares paths in normal form, so it holds here only because this run's paths have one spelling each; `vfs_path_alias` shows what happens when they do not. Of the mutants, only this property catches a rename that rebuilds the file with `VfsFile::new` (which starts it again at version 0): the index and the event stream stay consistent with such a file.
- **sm_safety.** With two replicas, a log of up to three entries (blank, membership, or one of six commands), apply batches of one or two, and any number of snapshot installs:
  - the stored membership is always the log's last membership up to `last_applied`;
  - on each replica a (file id, version) pair, which is the analysis cache key, never names two contents.
- **log_storage.** Up to two writes are outstanding, and there are up to two process crashes or power losses. This run checks two things:
  - The store refines `AbstractLog` through the mapping below, which reads the durable (`synced`) column families only. A `Sync` step is the abstract step, if any; the process's writes, a restart and a power loss are stutter steps. So what is on disk for certain only ever changes by appending, truncating a suffix, purging a prefix or setting a metadata cell, whatever crashes in between.
    - entries ← CF_LOGS above the persisted purge marker
    - purged, vote, committed ← CF_META
  - Between calls, `get_log_state` (which prefers the cache), the reader above the purge marker, and the in-memory vote and committed agree with the column families RocksDB serves. After a power loss these are whatever RocksDB recovered. This is spec §6's "log-store round-trip" law.

- **lsp_proxy.** Two callers make three calls between them. The analyzer answers out of order, sends one request of its own with a string id, and may crash at any point; callers time out or are cancelled at any await. Under these conditions:
  - a reply always reaches the call it answers. A late answer to a timed-out or cancelled call is never delivered to a later call, because ids are never reused;
  - while the analyzer runs and keeps reading and answering, the pending slot of every request that reached its stdin is eventually removed. This includes a call cancelled after its write, whose slot the reader removes when the late answer arrives.

- **gateway_docs.** There are six editor messages over two documents, four handlers in flight and a one-message pipe, so handlers queue on the stdin mutex and on the full pipe. Under these conditions, a document with nothing in flight is open in the analyzer exactly when it is open in the editor, at the editor's version. This holds because every handler makes its `open_documents` access and joins the stdin queue in its first poll, which tower-lsp runs in arrival order. It holds up to the point where the task blocks (finding 6).

### Findings

1. **Snapshot install diverges replicas** (`sm_snapshot_divergence`).
   - **Cause:** `install_snapshot` re-creates the files with `CreateFile` on the existing VFS, which does three things:
     - ids are renumbered from the local counter, in DashMap order;
     - versions restart at 0;
     - local files that the snapshot lacks are kept.
   - **Effect:** two replicas at the same `last_applied_log` hold different file tables. A later `UpdateFile{id}` then changes different files on each of them.
   - **Related invariant:** `VersionIdentifiesContent` holds only because each replica's counter keeps growing. It fails at once if the install rebuilds into a fresh VFS (the mutant `InstallSnapshotFreshVfs`).
2. **Path aliasing** (`vfs_path_alias`). `"/b.rs/../a.rs"` and `"/a.rs"` normalise alike but are different `VfsPath` keys, so both can be created.
3. **Crash inside purge** (`log_purge_crash`).
   - **Setup:** a follower that installed a snapshot past its log's end purges up to the snapshot.
   - **Crash:** the process crashes after `last_purged` is persisted and before the entries are deleted.
   - **Result:** the restarted store reports `last_log_id` below `last_purged_log_id`.
   - **Spec and openraft:** the spec says an empty log reports `last_log_id = last_purged_log_id`, and openraft requires `last_purged <= last_log`.
   - **Bounds:** the passing run `log_storage` keeps committed within the local log (`CommitBeyondLog = FALSE`). The violation run lets committed run ahead, as a snapshot install does.
4. **Acknowledged entries lost on power loss** (`log_power_loss`).
   - **Cause:** `append` signals `log_io_completed(Ok)` right after `put_cf` with `sync = false`.
   - **Effect:** one append of two entries, then a power loss, and both are gone although openraft counted them as persisted. A leader may already have counted this node's copy towards a commit.
   - **Spec:** §4.2 requires an fsync-equivalent before `on_flush`.

5. **Analyzer requests taken for responses** (`lsp_proxy_id_collision`). The reader routes every message with an integer id to the slot of that id and never looks for a `method` field. An analyzer's own request, such as `workspace/configuration` or `window/workDoneProgress/create`, completes the pending call with the same id. That call fails, and its real answer is dropped later.
6. **The gateway deadlocks on its own document map** (`gateway_deadlock`). `did_change` keeps its `get_mut` RefMut across the forward to the analyzer; `did_save` and every request handler keep their `get` Ref across theirs. tower-lsp runs all the handlers in one task. When one of them suspends while holding a guard, the next handler touching that shard blocks the thread on the shard lock, and the holder is never polled again. Two ways this happens:
   - a `did_change` while a completion on the same document waits for its reply, which is ordinary typing;
   - a second `did_change` while the first waits on a full pipe.

   TLC's trace is the second: `open u1` fills the one-message pipe, `change u1` suspends on it with the RefMut, and the next `u1` message blocks the thread.

7. **`remove_file` racing `add_dependency` leaves a removed file as a dependent** (`dep_graph_remove_race`).
   - **Cause:** `remove_file(d)` clones `dependencies[d]` under a read lock that it then releases. It cuts `d` out of `dependents` only for the files in that clone.
   - **Race:** an `add_dependency(d, f)` that runs after the clone and before the final `dependencies.remove(d)` puts `d` into `dependents[f]` and then loses its `dependencies` entry.
   - **Effect:** `transitive_dependents(f)` returns the removed file from then on, and no later `remove_file` can cut the edge, because it finds edges through `dependencies` only.
   - **Sequential use is fine:** with one caller the invariant holds (25k states with five calls).

Three more problems are hazards rather than runs:
- **Cancelled calls leak their slot** (`proxy.rs:198`). A call cancelled while it queues for the stdin lock never sends its request, so nothing ever answers it or removes its slot, even with a healthy analyzer. `SlotsFreed` leaves these calls out (the ghost set `unsent`); without that exclusion TLC finds the leak in eight steps. The leak grows the map but never misroutes a reply (`DeliveredIsOwnResponse`).
- **Reader exit leaves callers waiting** (`proxy.rs:136`). On EOF the reader returns without touching `pending`, so callers wait out the 30 s timeout. Spec §4.4 and §8 say every pending slot is completed with `LanguageServerNotRunning`. The timeout does end each wait, so nothing hangs for good; the fault is the 30 s latency, which the model does not measure, so no property states it.
- **No deadline on the write** (`proxy.rs:204`). The timeout wraps only the reply wait. An analyzer that stops reading fills its stdin pipe, the writer blocks in `write_all` while holding the stdin lock, and every later request queues behind it. Spec §5 promises a 30-second deadline for every analyzer request. A liveness property that every call returns holds only if the analyzer is assumed to keep reading, which is exactly what the code does not guarantee, and without that assumption TLC finds this blocked writer at once. The project therefore claims no such property; the run limit leaves no room for a violation run of its own.

## Bounds

| Run | Bounds |
|---|---|
| `vfs_safety` | 2 paths, 2 contents, ids 1..3, `MaxCommands = 4` |
| `sm_safety` | 2 replicas, `MaxLog = 3` (140k states) |
| `log_storage` | `MaxIndex = 3`, terms {1, 2}, 2 restarts or power losses, append batches of 1–2, `MaxPending = 2` (174k states, about 20 s; `MaxIndex = 4` takes over 3 minutes) |
| `lsp_proxy` | 2 callers, 3 calls, a stdin pipe of 1 message, 1 analyzer request, one crash (100k states, about 65 s) |
| `dep_graph_remove_race` | files {1, 2, 3}, 2 tasks, 2 calls each |
| `gateway_docs` | 2 documents on separate shards, 6 messages, `MaxConcurrency = 4` (tower-lsp's default), a one-message pipe (2.45M states, under 2 minutes) |

Why these bounds are enough:

- **vfs_safety.** Four commands are enough to reach every error branch and each pair of handlers: create, then rename onto the other path, then delete, then re-create. Ids 1..3 include an id that was never created. The contract lets a create mint any id in `1..2*MaxCommands`, which covers every value the counter can reach with two creates per batch. Checking the refinement searches, for each step, for up to two contract operations; this takes the run to about two minutes.
- **sm_safety.** A three-entry log lets one replica apply a prefix, build a snapshot, and the other install it while holding files of its own.
- **log_storage.** Three indices and two crashes cover the following: append, truncate, re-append, purge, a crash inside the purge, and a second purge over the entries the crash left. Two outstanding writes let a power loss drop a whole two-entry append, or a truncate together with the write before it.
- **dep_graph_remove_race.** The race needs one `add_dependency` and one `remove_file`. Three files let `transitive_dependents` follow chains.

- **lsp_proxy.** Three calls from two callers give a call that begins after another timed out, with the stale answer still in flight. A one-message pipe makes the second writer block while the first holds the lock. The violation run `lsp_proxy_id_collision` uses the same bounds.

- **gateway_docs.** Six messages are the fewest with which five handlers can be in flight, so the concurrency limit is exercised. They also allow open, change and close of one document interleaved with a request on the other.

The `VfsGroup`, `LogStorage`, `LspProxy` and `Gateway` runs do not check deadlock. For `Gateway` the stopped states include the blocked task, which `gateway_deadlock` reports as a violation. Their bounded command streams stop, and stopping is a legitimate final state. `VfsStateMachine` does check deadlock, because `BuildSnapshot` is always enabled.

There is one liveness property, `SlotsFreed` in `LspProxy`. It rests on this fairness:
- tokio runs every ready task, so there is weak fairness on each caller's write, receive and timeout, and on the reader;
- tokio's `Mutex` is FIFO, so there is strong fairness on each `Lock`;
- the 30 s timer fires, which is weak fairness on `Timeout`.

It also assumes a cooperative analyzer, one that reads its stdin and answers what it has read (`ServerFairness`). That is an assumption about the analyzer, not something the code guarantees: a cancelled call's slot is freed only when its answer arrives. `SlotsFreed` is a claim about the cooperative analyzer only. For that reason no property claims that every call returns (see the hazard at `proxy.rs:204`). Editor requests, cancellations and analyzer exits are never forced.

The other modules state safety only. Whether a replica's `apply` catches up with the committed log depends on openraft's state-machine worker, which is not in this repository.

## Not modelled yet, and the plan

The next modules, in order:

1. `LspProxy`, `Gateway` and `DependencyGraph` are done. The pool needs no module of its own: `get_or_spawn` does not suspend, so it cannot race.
2. **Gateway with a full `request`.** The gateway's requests are modelled up to the reply; the proxy's id routing is in `LspProxy` only. Composing the two would show the collision of finding 5 reaching an editor request.
3. **Cache L1 keyed by (id, version) composed with `VfsStateMachine`.** This would show the effect of finding 1 on cached analyses, which `VersionIdentifiesContent` now states on the VFS side.

Left out, and why:

- **Network:** stateless HTTP, with retries and loss being openraft's concern.
- **Cluster crate:** nothing calls it.
- **Router:** `LspGateway` builds an `LspRouter` and never calls it, so its maps never change.
- **Core types and configuration:** data only.
- **Binaries:** process wiring.
- **Checksums, timestamps, tracing:** they decide nothing.
- **The queries:** `get_file`, `get_file_by_path` and `get_content` are map lookups, and `list_directory` is a filter through `VfsPath::starts_with`; they change no state, and a property over them restates `IndexConsistent` or the definition of a prefix. Every file the code creates holds loaded content, so `get_content` never takes its "not loaded" branch. `find_files` is a substring test on the path text, and the model keeps paths as component sequences. Nothing in the repository calls any of the queries.
- **Path helpers** (`starts_with`, `join`, `parent`, `file_name`, `extension`, `to_path_buf`): nothing outside `path.rs` calls them except `language_id`, which only picks the analyzer. The `Gateway` model has one language.
- **Restart of a node's state machine:** the `Vfs` and `last_applied_log` live only in memory, and no snapshot is stored, while `purge` deletes log entries for good. After a restart following a purge, the files built by the purged entries are gone. What openraft then does is its startup code, which is not in this repository. It is listed as a hazard (`state_machine.rs:224`).
- **`LineEnding::detect` and the rest of `FileMetadata`:** nothing calls them. `detect` returns CRLF if the content contains `\r\n` anywhere, where spec §3 says detection prefers the first observed style. So for `"a\nb\r\n"` it returns CRLF, not LF. This is a one-line string test, not a model-checking question.
- **Analyzer restart and handshake:** `get_or_spawn` returns the cached proxy even after its analyzer has exited, so a crashed analyzer fails every later request and notification for the gateway's lifetime. This is a hazard (`proxy.rs:33`); `LspProxy` reaches that state through `ServerExit`. The proxy also never sends the analyzer `initialize`. That is a fixed message sequence, not an interleaving, so no model would add to reading the code.
