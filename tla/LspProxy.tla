------------------------------ MODULE LspProxy ------------------------------
(***************************************************************************)
(* One analyzer proxy (crates/vraftls-lsp/src/proxy.rs,                    *)
(* LanguageServerProxy): concurrent callers of request(), the reader task  *)
(* read_responses() that owns the analyzer's stdout, the shared pending    *)
(* map id -> oneshot sender, the stdin mutex and the 30 s timeout.         *)
(*                                                                         *)
(* The callers are gateway handlers that tower-lsp polls concurrently;     *)
(* they interleave at their awaits: the stdin lock, write_all and the      *)
(* reply wait.  tower-lsp drops a handler future when the editor sends     *)
(* $/cancelRequest, which abandons request() at whichever await it is on.  *)
(*                                                                         *)
(* The environment is the analyzer process and its two pipes: stdin holds  *)
(* at most PipeCap unread messages (write_all blocks, holding the stdin    *)
(* lock, while it is full); the analyzer reads them in order, answers the  *)
(* requests it has read in any order, may send requests of its own, and    *)
(* may exit, after which writes to stdin fail and the reader sees EOF once *)
(* stdout is drained.  A message is [kind, id, numeric, tag]: numeric says *)
(* whether its id is a JSON integer (as_i64() is Some), tag is a ghost     *)
(* naming the request a response answers (0 for the analyzer's requests). *)
(* Framing and JSON are left out: a frame is one message.  notify() takes  *)
(* the same stdin lock and expects nothing back; it is not modelled here.  *)
(***************************************************************************)
EXTENDS Naturals, Sequences, FiniteSets, Functions, TLC

CONSTANTS
  Callers,          \* concurrent gateway handlers using the proxy
  MaxRequests,      \* bound on the number of request() calls
  PipeCap,          \* unread messages the stdin pipe holds
  ServerIds,        \* ids the analyzer gives its own requests
  NumericServerIds, \* whether those ids are JSON integers
  MaxServerReqs,    \* bound on the analyzer's own requests
  NoMsg,            \* an empty oneshot slot
  NoHolder          \* nobody holds the stdin mutex

VARIABLES
  nextId,       \* AtomicI64 next_id
  pending,      \* DashMap id -> [caller, tag] (the sender of that call)
  holder,       \* holder of the stdin mutex
  pc,           \* pc[c]: "idle", "lock", "write" or "wait"
  myId,         \* myId[c]: the id of c's current request
  tag,          \* tag[c]: ghost, the serial number of c's current request
  inbox,        \* inbox[c]: what the oneshot of c's current request holds
  issued,       \* ghost: request() calls so far
  toServer,     \* stdin pipe: requests not yet read by the analyzer
  serverQueue,  \* requests the analyzer has read and not answered
  toClient,     \* stdout pipe: messages not yet read by the reader task
  serverUp,     \* the analyzer process is running
  readerUp,     \* the reader task is running
  sreqs,        \* analyzer-initiated requests so far
  unsent        \* ghost: ids of calls dropped before their write_all

vars == <<nextId, pending, holder, pc, myId, tag, inbox, issued, toServer,
          serverQueue, toClient, serverUp, readerUp, sreqs, unsent>>
callerVars == <<pc, myId, tag, inbox>>
serverVars == <<toServer, serverQueue, toClient, serverUp, sreqs>>

Busy == {"lock", "write", "wait"}

Msg(kind, id, numeric, t) ==
  [kind |-> kind, id |-> id, numeric |-> numeric, tag |-> t]

(* spawn: next_id = 1, empty pending map, reader task started.           *)
Init ==
  /\ nextId = 1
  /\ pending = <<>>
  /\ holder = NoHolder
  /\ pc = [c \in Callers |-> "idle"]
  /\ myId = [c \in Callers |-> 0]
  /\ tag = [c \in Callers |-> 0]
  /\ inbox = [c \in Callers |-> NoMsg]
  /\ issued = 0
  /\ toServer = <<>>
  /\ serverQueue = {}
  /\ toClient = <<>>
  /\ serverUp = TRUE
  /\ readerUp = TRUE
  /\ sreqs = 0
  /\ unsent = {}

Unslot(id) == Restrict(pending, DOMAIN pending \ {id})

-----------------------------------------------------------------------------
(* Mutant of request: next_id read with load() instead of fetch_add().    *)
BeginNoAdvance(c) ==
  /\ pc[c] = "idle" /\ issued < MaxRequests
  /\ pending' = (nextId :> [caller |-> c, tag |-> issued + 1]) @@ pending
  /\ myId' = [myId EXCEPT ![c] = nextId]
  /\ tag' = [tag EXCEPT ![c] = issued + 1]
  /\ inbox' = [inbox EXCEPT ![c] = NoMsg]
  /\ pc' = [pc EXCEPT ![c] = "lock"]
  /\ issued' = issued + 1
  /\ UNCHANGED <<nextId, holder, readerUp, unsent>> /\ UNCHANGED serverVars

(* request, up to the lock: id = next_id.fetch_add(1), a fresh oneshot    *)
(* channel, pending.insert(id, tx) (an insert replaces an equal key).      *)
Begin(c) ==
  /\ pc[c] = "idle" /\ issued < MaxRequests
  /\ pending' = (nextId :> [caller |-> c, tag |-> issued + 1]) @@ pending
  /\ myId' = [myId EXCEPT ![c] = nextId]
  /\ tag' = [tag EXCEPT ![c] = issued + 1]
  /\ inbox' = [inbox EXCEPT ![c] = NoMsg]
  /\ pc' = [pc EXCEPT ![c] = "lock"]
  /\ nextId' = nextId + 1
  /\ issued' = issued + 1
  /\ UNCHANGED <<holder, readerUp, unsent>> /\ UNCHANGED serverVars

(* self.stdin.lock().await                                                 *)
Lock(c) ==
  /\ pc[c] = "lock" /\ holder = NoHolder
  /\ holder' = c
  /\ pc' = [pc EXCEPT ![c] = "write"]
  /\ UNCHANGED <<nextId, pending, myId, tag, inbox, issued, readerUp, unsent>>
  /\ UNCHANGED serverVars

(* write_all of the framed request, then the guard is dropped.  It blocks *)
(* while the pipe is full; once the analyzer has exited it fails, and the  *)
(* slot is removed and request returns Err.  (stdin is Some from spawn on: *)
(* the None branch never runs.)                                            *)
Write(c) ==
  /\ pc[c] = "write"
  /\ \/ /\ serverUp /\ Len(toServer) < PipeCap
        /\ toServer' = Append(toServer, Msg("req", myId[c], TRUE, tag[c]))
        /\ pc' = [pc EXCEPT ![c] = "wait"]
        /\ UNCHANGED pending
     \/ /\ ~serverUp
        /\ pending' = Unslot(myId[c])
        /\ pc' = [pc EXCEPT ![c] = "idle"]
        /\ UNCHANGED toServer
  /\ holder' = NoHolder
  /\ UNCHANGED <<nextId, myId, tag, inbox, issued, readerUp, unsent>>
  /\ UNCHANGED <<serverQueue, toClient, serverUp, sreqs>>

(* timeout(30 s, rx) yields Ok(Ok(response)): request returns (the       *)
(* result or an error built from the message).                             *)
Receive(c) ==
  /\ pc[c] = "wait" /\ inbox[c] # NoMsg
  /\ pc' = [pc EXCEPT ![c] = "idle"]
  /\ UNCHANGED <<nextId, pending, holder, myId, tag, inbox, issued, readerUp,
                 unsent>>
  /\ UNCHANGED serverVars

(* The 30 s timer fires with the slot still empty: pending.remove(&id)    *)
(* and Err.                                                                *)
Timeout(c) ==
  /\ pc[c] = "wait" /\ inbox[c] = NoMsg
  /\ pending' = Unslot(myId[c])
  /\ pc' = [pc EXCEPT ![c] = "idle"]
  /\ UNCHANGED <<nextId, holder, myId, tag, inbox, issued, readerUp, unsent>>
  /\ UNCHANGED serverVars

(* The handler future is dropped at an await: the stdin guard, if held,   *)
(* is released; nothing removes the pending slot.                          *)
Cancel(c) ==
  /\ pc[c] \in Busy
  /\ holder' = IF holder = c THEN NoHolder ELSE holder
  /\ pc' = [pc EXCEPT ![c] = "idle"]
  /\ unsent' = IF pc[c] \in {"lock", "write"} THEN unsent \cup {myId[c]}
               ELSE unsent
  /\ UNCHANGED <<nextId, pending, myId, tag, inbox, issued, readerUp>>
  /\ UNCHANGED serverVars

-----------------------------------------------------------------------------
(* Mutant of read_responses: a frame whose receiver is already gone       *)
(* (tx.is_closed()) is skipped before the slot is removed.                 *)
ReadMsgKeepSlot ==
  /\ readerUp /\ toClient # <<>>
  /\ LET m == Head(toClient)
         live(s) == pc[s.caller] \in Busy /\ tag[s.caller] = s.tag
     IN IF m.numeric /\ m.id \in DOMAIN pending /\ live(pending[m.id])
        THEN /\ pending' = Unslot(m.id)
             /\ inbox' = [inbox EXCEPT ![pending[m.id].caller] = m]
        ELSE UNCHANGED <<pending, inbox>>
  /\ toClient' = Tail(toClient)
  /\ UNCHANGED <<nextId, holder, pc, myId, tag, issued, readerUp, unsent>>
  /\ UNCHANGED <<toServer, serverQueue, serverUp, sreqs>>

(* read_responses, one frame: a message whose id is an integer removes    *)
(* the slot of that id, if any, and sends the message on it (the send      *)
(* fails silently when the receiver is gone); anything else is logged as a *)
(* notification.                                                           *)
ReadMsg ==
  /\ readerUp /\ toClient # <<>>
  /\ LET m == Head(toClient)
         live(s) == pc[s.caller] \in Busy /\ tag[s.caller] = s.tag
     IN IF m.numeric /\ m.id \in DOMAIN pending
        THEN /\ pending' = Unslot(m.id)
             /\ inbox' = IF live(pending[m.id])
                         THEN [inbox EXCEPT ![pending[m.id].caller] = m]
                         ELSE inbox
        ELSE UNCHANGED <<pending, inbox>>
  /\ toClient' = Tail(toClient)
  /\ UNCHANGED <<nextId, holder, pc, myId, tag, issued, readerUp, unsent>>
  /\ UNCHANGED <<toServer, serverQueue, serverUp, sreqs>>

(* read_line returns Ok(0) (or an error): the task returns, leaving the   *)
(* pending map as it is.                                                   *)
ReadEOF ==
  /\ readerUp /\ ~serverUp /\ toClient = <<>>
  /\ readerUp' = FALSE
  /\ UNCHANGED <<nextId, pending, holder, issued, unsent>> /\ UNCHANGED callerVars
  /\ UNCHANGED serverVars

-----------------------------------------------------------------------------
(* The analyzer process; the proxy's state is not its to change.          *)
ProxyUnchanged ==
  UNCHANGED <<nextId, pending, holder, issued, readerUp, unsent>>
  /\ UNCHANGED callerVars

ServerRecv ==
  /\ serverUp /\ toServer # <<>>
  /\ serverQueue' = serverQueue \cup {Head(toServer)}
  /\ toServer' = Tail(toServer)
  /\ UNCHANGED <<toClient, serverUp, sreqs>>
  /\ ProxyUnchanged

ServerRespond ==
  /\ serverUp
  /\ \E m \in serverQueue :
       /\ toClient' = Append(toClient, Msg("resp", m.id, TRUE, m.tag))
       /\ serverQueue' = serverQueue \ {m}
  /\ UNCHANGED <<toServer, serverUp, sreqs>>
  /\ ProxyUnchanged

ServerRequest ==
  /\ serverUp /\ sreqs < MaxServerReqs
  /\ \E sid \in ServerIds :
       toClient' = Append(toClient, Msg("sreq", sid, NumericServerIds, 0))
  /\ sreqs' = sreqs + 1
  /\ UNCHANGED <<toServer, serverQueue, serverUp>>
  /\ ProxyUnchanged

(* Exit or crash: what stdin held and what was not answered is lost;      *)
(* what it wrote to stdout stays readable.                                 *)
ServerExit ==
  /\ serverUp
  /\ serverUp' = FALSE
  /\ toServer' = <<>>
  /\ serverQueue' = {}
  /\ UNCHANGED <<toClient, sreqs>>
  /\ ProxyUnchanged

Server == ServerRecv \/ ServerRespond \/ ServerRequest \/ ServerExit

CallerStep(c) ==
  Begin(c) \/ Lock(c) \/ Write(c) \/ Receive(c) \/ Timeout(c) \/ Cancel(c)

Next ==
  \/ \E c \in Callers : CallerStep(c)
  \/ ReadMsg \/ ReadEOF
  \/ Server

(* tokio runs every task that can make progress, the tokio Mutex grants   *)
(* the lock in FIFO order (strong fairness), and the timer fires.  The     *)
(* editor's requests and cancellations and the analyzer's exit are not     *)
(* forced.  ServerFairness is an assumption about the analyzer, not a      *)
(* guarantee of the code: a cooperative analyzer reads its stdin and       *)
(* answers what it has read; a hung one may do neither, and then a writer  *)
(* blocked in write_all waits with no deadline.  SlotsFreed is claimed of  *)
(* the cooperative analyzer only.                                          *)
ProxyFairness ==
  /\ \A c \in Callers :
       /\ SF_vars(Lock(c))
       /\ WF_vars(Write(c)) /\ WF_vars(Receive(c)) /\ WF_vars(Timeout(c))
  /\ WF_vars(ReadMsg) /\ WF_vars(ReadEOF)

ServerFairness == WF_vars(ServerRecv) /\ WF_vars(ServerRespond)

Spec == Init /\ [][Next]_vars /\ ProxyFairness /\ ServerFairness

-----------------------------------------------------------------------------
TypeOK ==
  /\ nextId \in Nat \ {0}
  /\ DOMAIN pending \subseteq 1..(nextId - 1)
  /\ holder \in Callers \cup {NoHolder}
  /\ pc \in [Callers -> {"idle"} \cup Busy]
  /\ issued \in 0..MaxRequests
  /\ Len(toServer) <= PipeCap
  /\ serverUp \in BOOLEAN /\ readerUp \in BOOLEAN
  /\ unsent \subseteq 1..(nextId - 1)

(* The reply a request() call receives is the analyzer's response to that *)
(* very call: the reader routes by id alone (proxy.rs read_responses), so  *)
(* this rests on ids being unique among live slots and on nothing else in  *)
(* stdout carrying one of them.                                            *)
DeliveredIsOwnResponse ==
  \A c \in Callers :
    pc[c] \in Busy /\ inbox[c] # NoMsg
      => inbox[c].kind = "resp" /\ inbox[c].tag = tag[c]

(* While the analyzer runs, the pending slot of every request that reached *)
(* its stdin is eventually removed, whether its caller received the answer, *)
(* timed out, or was cancelled by $/cancelRequest and left the slot behind *)
(* for the reader to remove when the answer arrives.  The slot of a call   *)
(* dropped before its write_all (unsent) is never answered and never      *)
(* removed: that leak is outside this property.                           *)
SlotsFreed ==
  \A i \in 1..MaxRequests :
    i \in DOMAIN pending
      ~> (i \notin DOMAIN pending \/ i \in unsent \/ ~serverUp)

=============================================================================
