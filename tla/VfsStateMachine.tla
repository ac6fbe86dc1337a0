--------------------------- MODULE VfsStateMachine ---------------------------
(***************************************************************************)
(* The Raft state machine of one group (crates/vraftls-raft/src/           *)
(* state_machine.rs) on every replica of the group: each replica applies   *)
(* the committed log in order through VfsStateMachine::apply, builds       *)
(* snapshots with build_snapshot, and installs a snapshot received from    *)
(* another replica with install_snapshot.                                  *)
(*                                                                         *)
(* Consensus itself is openraft's: the model keeps only its output, the    *)
(* single committed log (log ids are the log indices; terms select no      *)
(* branch of this code).  openraft keeps the last snapshot a replica       *)
(* built and sends it to a follower that lags behind it; a replica may     *)
(* install another replica's last snapshot whenever that snapshot is ahead *)
(* of what it has applied.  The snapshot shipped is the one              *)
(* get_current_snapshot builds (build_snapshot run inline by openraft's    *)
(* state-machine worker, between two apply calls, so atomic with respect   *)
(* to apply); the build openraft spawns concurrently returns only its meta *)
(* and is not modelled.  build_snapshot enumerates the files with          *)
(* all_file_ids(), a DashMap iteration with no defined order: a snapshot   *)
(* lists the files in any order.                                           *)
(***************************************************************************)
EXTENDS Vfs

CONSTANTS
  Replicas,       \* the replicas of the group
  Commands,       \* VfsCommands that clients may propose
  Configs,        \* membership configurations that may be proposed
  NoConfig,       \* the configuration of StoredMembership::default()
  MaxLog,         \* bound on the length of the committed log
  MaxApplyBatch,  \* most entries openraft hands to one apply() call
  NoSnapshot      \* no snapshot built yet

ASSUME MaxLog \in Nat /\ MaxApplyBatch \in Nat \ {0}

VARIABLES
  log,          \* the committed log: a sequence of entries
  sm,           \* sm[r]: [vfs, last_applied, membership] of replica r
  snapshot,     \* snapshot[r]: the last snapshot r built, or NoSnapshot
  seen          \* history: every <<id, version, content>> r has held

vars == <<log, sm, snapshot, seen>>

Entries ==
       [kind : {"Blank"}]
  \cup [kind : {"Membership"}, config : Configs]
  \cup [kind : {"Normal"}, cmd : Commands]

(* VfsStateMachine::new: an empty Vfs, last_applied_log None (index 0)    *)
(* and the default membership.                                             *)
NewStateMachine ==
  [vfs |-> EmptyVfs, last_applied |-> 0,
   membership |-> [log_id |-> 0, config |-> NoConfig]]

FileTriples(v) ==
  {<<id, v.files[id].version, v.files[id].content>> : id \in DOMAIN v.files}

Init ==
  /\ log = <<>>
  /\ sm = [r \in Replicas |-> NewStateMachine]
  /\ snapshot = [r \in Replicas |-> NoSnapshot]
  /\ seen = [r \in Replicas |-> {}]

-----------------------------------------------------------------------------
(* A client proposal or membership change committed by openraft.          *)
Propose(e) ==
  /\ Len(log) < MaxLog
  /\ log' = Append(log, e)
  /\ UNCHANGED <<sm, snapshot, seen>>

(* Mutant of apply: a membership entry does not replace the stored        *)
(* membership.                                                             *)
ApplyEntryKeepMembership(st, i) ==
  LET e  == log[i]
      s1 == [st EXCEPT !.last_applied = i]
  IN CASE e.kind = "Normal" -> [s1 EXCEPT !.vfs = ApplyCommand(@, e.cmd).st]
       [] OTHER             -> s1

(* One entry of VfsStateMachine::apply: last_applied_log is set first,    *)
(* then the payload is dispatched.                                         *)
ApplyEntry(st, i) ==
  LET e  == log[i]
      s1 == [st EXCEPT !.last_applied = i]
  IN CASE e.kind = "Blank"      -> s1
       [] e.kind = "Normal"     -> [s1 EXCEPT !.vfs = ApplyCommand(@, e.cmd).st]
       [] e.kind = "Membership" -> [s1 EXCEPT !.membership =
                                        [log_id |-> i, config |-> e.config]]

(* VfsStateMachine::apply over the next k committed entries.               *)
Apply(r, k) ==
  LET first == sm[r].last_applied + 1
      st    == FoldLeft(ApplyEntry, sm[r], [j \in 1..k |-> first + j - 1])
  IN /\ sm[r].last_applied + k <= Len(log)
     /\ sm' = [sm EXCEPT ![r] = st]
     /\ seen' = [seen EXCEPT ![r] = @ \cup FileTriples(st.vfs)]
     /\ UNCHANGED <<log, snapshot>>

(* build_snapshot: last_applied_log and membership, then every file that  *)
(* all_file_ids() yields, in the map's iteration order.                    *)
SnapshotFile(v, id) ==
  [id |-> id, path |-> v.files[id].path, version |-> v.files[id].version,
   content |-> v.files[id].content]

BuildSnapshot(r) ==
  \E order \in SetToSeqs(DOMAIN sm[r].vfs.files) :
    /\ snapshot' = [snapshot EXCEPT ![r] =
         [last_applied |-> sm[r].last_applied,
          membership |-> sm[r].membership,
          files |-> [j \in DOMAIN order |-> SnapshotFile(sm[r].vfs, order[j])]]]
    /\ UNCHANGED <<log, sm, seen>>

(* install_snapshot: last_applied_log and membership are replaced, then   *)
(* each snapshot file is re-created with Vfs::apply(CreateFile) on the     *)
(* replica's current Vfs (content that is not Loaded would become "";      *)
(* every file this Vfs holds is Loaded).                                   *)
InstallFile(v, f) == CreateFileOp(v, f.path, f.content).st

(* Mutants of install_snapshot: the files rebuilt into a fresh Vfs (its   *)
(* counter back at 1), and last_applied_log left as it was.                *)
InstallSnapshotFreshVfs(r, snap) ==
  LET st == [vfs |-> FoldLeft(InstallFile, EmptyVfs, snap.files),
             last_applied |-> snap.last_applied,
             membership |-> snap.membership]
  IN /\ snap.last_applied > sm[r].last_applied
     /\ sm' = [sm EXCEPT ![r] = st]
     /\ seen' = [seen EXCEPT ![r] = @ \cup FileTriples(st.vfs)]
     /\ UNCHANGED <<log, snapshot>>

InstallSnapshotKeepApplied(r, snap) ==
  LET st == [vfs |-> FoldLeft(InstallFile, sm[r].vfs, snap.files),
             last_applied |-> sm[r].last_applied,
             membership |-> snap.membership]
  IN /\ snap.last_applied > sm[r].last_applied
     /\ sm' = [sm EXCEPT ![r] = st]
     /\ seen' = [seen EXCEPT ![r] = @ \cup FileTriples(st.vfs)]
     /\ UNCHANGED <<log, snapshot>>

InstallSnapshot(r, snap) ==
  LET st == [vfs |-> FoldLeft(InstallFile, sm[r].vfs, snap.files),
             last_applied |-> snap.last_applied,
             membership |-> snap.membership]
  IN /\ snap.last_applied > sm[r].last_applied
     /\ sm' = [sm EXCEPT ![r] = st]
     /\ seen' = [seen EXCEPT ![r] = @ \cup FileTriples(st.vfs)]
     /\ UNCHANGED <<log, snapshot>>

Next ==
  \/ \E e \in Entries : Propose(e)
  \/ \E r \in Replicas, k \in 1..MaxApplyBatch : Apply(r, k)
  \/ \E r \in Replicas : BuildSnapshot(r)
  \/ \E r, q \in Replicas :
       r # q /\ snapshot[q] # NoSnapshot /\ InstallSnapshot(r, snapshot[q])

Spec == Init /\ [][Next]_vars

-----------------------------------------------------------------------------
TypeOK ==
  /\ log \in Seq(Entries)
  /\ \A r \in Replicas :
       /\ sm[r].last_applied \in 0..Len(log)
       /\ sm[r].membership.log_id \in 0..sm[r].last_applied
       /\ sm[r].membership.config \in Configs \cup {NoConfig}
       /\ DOMAIN sm[r].vfs.files \subseteq 1..(sm[r].vfs.next_file_id - 1)

(* The configuration a replica stores is the one of the last membership   *)
(* entry at or before its last applied index, whether the replica got      *)
(* there by applying entries or by installing a snapshot of another        *)
(* replica.  openraft relies on applied_state() reporting it.              *)
LastMembership(n) ==
  LET ms == {i \in 1..n : log[i].kind = "Membership"}
  IN IF ms = {} THEN [log_id |-> 0, config |-> NoConfig]
     ELSE LET i == CHOOSE i \in ms : \A j \in ms : j <= i
          IN [log_id |-> i, config |-> log[i].config]

MembershipMatchesLog ==
  \A r \in Replicas : sm[r].membership = LastMembership(sm[r].last_applied)

(* The analysis cache is keyed by (file id, version) (vraftls-cache        *)
(* CacheKey): on one replica, a file id and version that it has ever held  *)
(* always denote the same content, across updates, deletes and snapshot    *)
(* installs.                                                               *)
VersionIdentifiesContent ==
  \A r \in Replicas : \A t1, t2 \in seen[r] :
    t1[1] = t2[1] /\ t1[2] = t2[2] => t1[3] = t2[3]

(* Spec invariant (iv) and the install contract: replicas that have       *)
(* applied the same committed prefix hold the same files (same ids, paths, *)
(* versions and contents), however each of them got there.                *)
ReplicasAgree ==
  \A r1, r2 \in Replicas :
    sm[r1].last_applied = sm[r2].last_applied
      => sm[r1].vfs.files = sm[r2].vfs.files

=============================================================================
