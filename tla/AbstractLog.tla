---------------------------- MODULE AbstractLog ----------------------------
(***************************************************************************)
(* What a Raft log store promises openraft (the RaftLogStorage contract of *)
(* spec section 4.2): a single-writer log of entries keyed by index, with  *)
(* truncate-suffix, purge-prefix and three metadata cells (vote,           *)
(* committed, last purged).  There is no cache and no crash here: a crash  *)
(* and restart of a correct store is invisible.  An entry is abstracted to *)
(* the term of its log id; index 0 stands for None.                        *)
(***************************************************************************)
EXTENDS Naturals, Functions, FiniteSets, TLC

CONSTANTS Terms, MaxIndex, Votes

VARIABLES
  entries,      \* index -> term, for the indices present
  purged,       \* index of the last purged log id (0: None)
  avote,        \* the last saved vote (0: None)
  acommitted    \* index of the last saved committed log id (0: None)

avars == <<entries, purged, avote, acommitted>>

LastIndex ==
  IF DOMAIN entries = {} THEN purged
  ELSE CHOOSE i \in DOMAIN entries : \A j \in DOMAIN entries : j <= i

AInit ==
  /\ entries = <<>>
  /\ purged = 0
  /\ avote = 0
  /\ acommitted = 0

(* append(entries): the new entries continue the log.                      *)
AAppend ==
  \E n \in 1..MaxIndex, t \in Terms :
    /\ LastIndex + n <= MaxIndex
    /\ entries' = entries @@ [i \in (LastIndex + 1)..(LastIndex + n) |-> t]
    /\ UNCHANGED <<purged, avote, acommitted>>

(* truncate(at): every index >= at goes; last purged is unchanged.         *)
ATruncate ==
  \E at \in (purged + 1)..LastIndex :
    /\ entries' = Restrict(entries, {i \in DOMAIN entries : i < at})
    /\ UNCHANGED <<purged, avote, acommitted>>

(* purge(through): the marker advances and every index <= through goes.    *)
APurge ==
  \E through \in (purged + 1)..MaxIndex :
    /\ purged' = through
    /\ entries' = Restrict(entries, {i \in DOMAIN entries : i > through})
    /\ UNCHANGED <<avote, acommitted>>

ASaveVote ==
  \E v \in Votes : avote' = v /\ UNCHANGED <<entries, purged, acommitted>>

ASaveCommitted ==
  \E c \in 0..MaxIndex :
    acommitted' = c /\ UNCHANGED <<entries, purged, avote>>

ANext == AAppend \/ ATruncate \/ APurge \/ ASaveVote \/ ASaveCommitted

ASpec == AInit /\ [][ANext]_avars

=============================================================================
