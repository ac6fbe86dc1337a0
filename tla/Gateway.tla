------------------------------- MODULE Gateway -------------------------------
(***************************************************************************)
(* The LSP gateway's document handlers (crates/vraftls-lsp/src/gateway.rs, *)
(* LspGateway) over one analyzer proxy (proxy.rs), as tower-lsp runs them  *)
(* (crates/vraftls-gateway/src/main.rs: Server::serve).                    *)
(*                                                                         *)
(* Server::serve reads the editor's messages in order and runs up to       *)
(* MaxConcurrency handler futures with buffer_unordered, all inside the    *)
(* one serve task: one handler is polled at a time (running), and it runs  *)
(* until an await is not ready.  A message's handler is first polled when  *)
(* it is taken from the stream.  The awaits that can suspend are those of  *)
(* the proxy: the stdin mutex (tokio, FIFO hand-over), write_all (the pipe *)
(* holds PipeCap unread messages) and, for a request, the reply or its     *)
(* 30 s timeout.  get_or_spawn has no await that suspends (spawn is        *)
(* synchronous), and there is one language, so the pool always yields the  *)
(* same proxy and is not a variable.                                       *)
(*                                                                         *)
(* open_documents is a DashMap: each access takes its shard's RwLock, and  *)
(* get/get_mut keep it (guard) until the returned Ref is dropped, across   *)
(* the awaits of the forward.  A shard lock that is not free blocks the    *)
(* thread; its holder is a handler of the same task, which can then never  *)
(* be polled again: blocked.  Completion stands for every request handler  *)
(* (hover, definition, references, ...): they have the same shape.  The    *)
(* gateway's own Vfs write in did_open is read by none of these handlers   *)
(* and is left out.                                                        *)
(***************************************************************************)
EXTENDS Naturals, Sequences, FiniteSets, Functions, TLC

CONSTANTS
  Uris,            \* document URIs the editor uses
  ShardOf,         \* ShardOf[u]: the open_documents shard of u
  MaxConcurrency,  \* tower-lsp's max_concurrency (4)
  MaxMsgs,         \* bound on the editor's messages
  PipeCap          \* unread messages the analyzer's stdin pipe holds

Kinds == {"open", "change", "save", "close", "completion"}
Ids == 1..MaxMsgs

VARIABLES
  editorOpen,  \* editorOpen[u]: the editor has u open
  editorVer,   \* editorVer[u]: the version of u the editor last sent
  sent,        \* messages sent so far (their ids are 1..sent)
  incoming,    \* messages read from stdin by tower-lsp, not yet started
  hs,          \* hs[n]: the handler of message n, once started
  running,     \* the handler being polled (0: none)
  blocked,     \* the serve task's thread is blocked on a shard lock
  openDocs,    \* open_documents: uri -> version
  holder,      \* holder of the proxy's stdin mutex (0: none)
  lockQ,       \* waiters of the stdin mutex, in FIFO order
  pipe,        \* the analyzer's stdin pipe
  aOpen,       \* aOpen[u]: the analyzer has u open
  aVer,        \* aVer[u]: the version of u the analyzer has
  owed,        \* requests the analyzer has read and not answered
  answered     \* requests whose reply the reader task has delivered

vars == <<editorOpen, editorVer, sent, incoming, hs, running, blocked,
          openDocs, holder, lockQ, pipe, aOpen, aVer, owed, answered>>
editorVars == <<editorOpen, editorVer, sent>>
analyzerVars == <<aOpen, aVer, owed, answered>>

Msg(id, kind, u, v) == [id |-> id, kind |-> kind, uri |-> u, ver |-> v]

(* LspGateway::new: no open document; the analyzer knows none.            *)
Init ==
  /\ editorOpen = [u \in Uris |-> FALSE]
  /\ editorVer = [u \in Uris |-> 0]
  /\ sent = 0
  /\ incoming = <<>>
  /\ hs = <<>>
  /\ running = 0
  /\ blocked = FALSE
  /\ openDocs = <<>>
  /\ holder = 0
  /\ lockQ = <<>>
  /\ pipe = <<>>
  /\ aOpen = [u \in Uris |-> FALSE]
  /\ aVer = [u \in Uris |-> 0]
  /\ owed = {}
  /\ answered = {}

InFlight == {n \in DOMAIN hs : hs[n].pc # "done"}

(* A poll of handler n can happen: the thread is free, and n is the       *)
(* handler being polled or none is.                                        *)
Can(n) == ~blocked /\ running \in {0, n}

-----------------------------------------------------------------------------
(* The editor: LSP messages in a legal order for each document.           *)
EditorSend ==
  /\ sent < MaxMsgs
  /\ \E u \in Uris, k \in Kinds :
       /\ (k = "open") = ~editorOpen[u]
       /\ editorOpen' = [editorOpen EXCEPT ![u] = k # "close"]
       /\ editorVer' = IF k \in {"open", "change"}
                       THEN [editorVer EXCEPT ![u] = @ + 1] ELSE editorVer
       /\ incoming' = Append(incoming, Msg(sent + 1, k, u, editorVer'[u]))
  /\ sent' = sent + 1
  /\ UNCHANGED <<hs, running, blocked, openDocs, holder, lockQ, pipe>>
  /\ UNCHANGED analyzerVars

(* A handler of message m before its first poll.                          *)
NewHandler(m) ==
  [kind |-> m.kind, uri |-> m.uri, ver |-> m.ver, pc |-> "start",
   guard |-> "none"]

(* Server::serve: buffer_unordered takes the next message when fewer than *)
(* max_concurrency handlers are in flight, and polls its handler.          *)
Start ==
  /\ incoming # <<>> /\ running = 0 /\ ~blocked
  /\ Cardinality(InFlight) < MaxConcurrency
  /\ hs' = hs @@ (Head(incoming).id :> NewHandler(Head(incoming)))
  /\ running' = Head(incoming).id
  /\ incoming' = Tail(incoming)
  /\ UNCHANGED <<blocked, openDocs, holder, lockQ, pipe>>
  /\ UNCHANGED editorVars /\ UNCHANGED analyzerVars

-----------------------------------------------------------------------------
(* open_documents: insert, get_mut and remove need the shard's write lock, *)
(* get its read lock.  Another in-flight handler's guard on the shard may  *)
(* exclude it.                                                             *)
NeedsWrite(k) == k \in {"open", "change", "close"}

ShardBusy(n) ==
  \E k \in InFlight \ {n} :
    /\ hs[k].guard # "none"
    /\ ShardOf[hs[k].uri] = ShardOf[hs[n].uri]
    /\ NeedsWrite(hs[n].kind) \/ hs[k].guard = "write"

(* The first open_documents access of handler n finds its shard locked by *)
(* a suspended handler of the same task: the thread blocks for good.       *)
Block(n) ==
  /\ Can(n) /\ hs[n].pc = "start" /\ ShardBusy(n)
  /\ blocked' = TRUE
  /\ UNCHANGED <<hs, running, openDocs, holder, lockQ, pipe>>
  /\ UNCHANGED <<incoming>> /\ UNCHANGED editorVars
  /\ UNCHANGED analyzerVars

SetPc(n, pc) == hs' = [hs EXCEPT ![n].pc = pc]

Finish(n) == hs' = [hs EXCEPT ![n].pc = "done", ![n].guard = "none"]

DocStep(n) ==
  /\ Can(n) /\ hs[n].pc = "start" /\ ~ShardBusy(n)
  /\ UNCHANGED <<blocked, holder, lockQ, pipe>>
  /\ UNCHANGED <<incoming>> /\ UNCHANGED editorVars
  /\ UNCHANGED analyzerVars

(* did_open: the document is inserted, then forwarded.                    *)
DidOpen(n) ==
  /\ DocStep(n) /\ hs[n].kind = "open"
  /\ openDocs' = (hs[n].uri :> hs[n].ver) @@ openDocs
  /\ SetPc(n, "lock")
  /\ UNCHANGED running

(* did_change: get_mut; an unknown document is ignored; the version is    *)
(* set and the change forwarded with the RefMut still held.                *)
DidChange(n) ==
  /\ DocStep(n) /\ hs[n].kind = "change"
  /\ IF hs[n].uri \in DOMAIN openDocs
     THEN /\ openDocs' = [openDocs EXCEPT ![hs[n].uri] = hs[n].ver]
          /\ hs' = [hs EXCEPT ![n].pc = "lock", ![n].guard = "write"]
          /\ UNCHANGED running
     ELSE /\ Finish(n) /\ running' = 0 /\ UNCHANGED openDocs

(* Mutant of did_close: the document is removed but not forwarded.        *)
DidCloseNoForward(n) ==
  /\ DocStep(n) /\ hs[n].kind = "close"
  /\ openDocs' = Restrict(openDocs, DOMAIN openDocs \ {hs[n].uri})
  /\ Finish(n) /\ running' = 0

(* did_close: remove; forwarded only if the document was there.           *)
DidClose(n) ==
  /\ DocStep(n) /\ hs[n].kind = "close"
  /\ IF hs[n].uri \in DOMAIN openDocs
     THEN /\ openDocs' = Restrict(openDocs, DOMAIN openDocs \ {hs[n].uri})
          /\ SetPc(n, "lock") /\ UNCHANGED running
     ELSE /\ Finish(n) /\ running' = 0 /\ UNCHANGED openDocs

(* did_save and the request handlers: get; an unknown document ends the   *)
(* handler (Ok(None) for a request); else the Ref is held while the        *)
(* message is forwarded (and, for a request, its reply awaited).           *)
DidSaveOrRequest(n) ==
  /\ DocStep(n) /\ hs[n].kind \in {"save", "completion"}
  /\ IF hs[n].uri \in DOMAIN openDocs
     THEN hs' = [hs EXCEPT ![n].pc = "lock", ![n].guard = "read"]
          /\ UNCHANGED running
     ELSE Finish(n) /\ running' = 0
  /\ UNCHANGED openDocs

-----------------------------------------------------------------------------
(* The proxy's stdin.lock().await: taken if free and nobody queues, else  *)
(* the handler queues and yields.                                          *)
Lock(n) ==
  /\ Can(n) /\ hs[n].pc = "lock"
  /\ IF holder = 0 /\ lockQ = <<>>
     THEN holder' = n /\ SetPc(n, "write") /\ UNCHANGED <<lockQ, running>>
     ELSE /\ lockQ' = Append(lockQ, n) /\ SetPc(n, "lockwait")
          /\ running' = 0 /\ UNCHANGED holder
  /\ UNCHANGED <<blocked, openDocs, pipe>>
  /\ UNCHANGED <<incoming>> /\ UNCHANGED editorVars
  /\ UNCHANGED analyzerVars

(* write_all with the pipe full: the handler yields, keeping the lock.    *)
WriteWait(n) ==
  /\ running = n /\ ~blocked /\ hs[n].pc = "write" /\ Len(pipe) >= PipeCap
  /\ running' = 0
  /\ UNCHANGED <<hs, blocked, openDocs, holder, lockQ, pipe>>
  /\ UNCHANGED <<incoming>> /\ UNCHANGED editorVars
  /\ UNCHANGED analyzerVars

(* write_all completes and the guard is dropped, which hands the mutex to *)
(* the first waiter.  A notification's handler then ends, dropping its     *)
(* open_documents guard; a request's handler awaits its reply.             *)
Write(n) ==
  /\ Can(n) /\ hs[n].pc = "write" /\ Len(pipe) < PipeCap
  /\ pipe' = Append(pipe, Msg(n, hs[n].kind, hs[n].uri, hs[n].ver))
  /\ LET next == IF hs[n].kind = "completion"
                 THEN [hs EXCEPT ![n].pc = "reply"]
                 ELSE [hs EXCEPT ![n].pc = "done", ![n].guard = "none"]
     IN IF lockQ = <<>>
        THEN hs' = next /\ holder' = 0 /\ UNCHANGED lockQ
        ELSE /\ hs' = [next EXCEPT ![Head(lockQ)].pc = "write"]
             /\ holder' = Head(lockQ) /\ lockQ' = Tail(lockQ)
  /\ running' = 0
  /\ UNCHANGED <<blocked, openDocs>>
  /\ UNCHANGED <<incoming>> /\ UNCHANGED editorVars
  /\ UNCHANGED analyzerVars

(* timeout(30 s, rx) yields the reply, or the timer fires; either way the *)
(* handler returns and drops its Ref.                                      *)
Reply(n) ==
  /\ Can(n) /\ hs[n].pc = "reply" /\ n \in answered
  /\ Finish(n)
  /\ UNCHANGED <<running, blocked, openDocs, holder, lockQ, pipe>>
  /\ UNCHANGED <<incoming>> /\ UNCHANGED editorVars
  /\ UNCHANGED analyzerVars

Timeout(n) ==
  /\ Can(n) /\ hs[n].pc = "reply" /\ n \notin answered
  /\ Finish(n)
  /\ UNCHANGED <<running, blocked, openDocs, holder, lockQ, pipe>>
  /\ UNCHANGED <<incoming>> /\ UNCHANGED editorVars
  /\ UNCHANGED analyzerVars

-----------------------------------------------------------------------------
(* The analyzer reads its stdin in order and answers its requests in any  *)
(* order; the reader task delivers each answer to its slot.                *)
AnalyzerRead ==
  /\ pipe # <<>>
  /\ LET m == Head(pipe)
     IN /\ aOpen' = IF m.kind \in {"open", "close"}
                    THEN [aOpen EXCEPT ![m.uri] = m.kind = "open"] ELSE aOpen
        /\ aVer' = IF m.kind \in {"open", "change"}
                   THEN [aVer EXCEPT ![m.uri] = m.ver] ELSE aVer
        /\ owed' = IF m.kind = "completion"
                   THEN owed \cup {m.id}
                   ELSE owed
  /\ pipe' = Tail(pipe)
  /\ UNCHANGED <<answered, hs, running, blocked, openDocs, holder, lockQ>>
  /\ UNCHANGED <<incoming>> /\ UNCHANGED editorVars

AnalyzerAnswer ==
  /\ \E n \in owed : owed' = owed \ {n} /\ answered' = answered \cup {n}
  /\ UNCHANGED <<aOpen, aVer, hs, running, blocked, openDocs, holder, lockQ>>
  /\ UNCHANGED <<incoming, pipe>> /\ UNCHANGED editorVars

Handler(n) ==
  \/ Block(n) \/ DidOpen(n) \/ DidChange(n) \/ DidClose(n)
  \/ DidSaveOrRequest(n) \/ Lock(n) \/ WriteWait(n) \/ Write(n)
  \/ Reply(n) \/ Timeout(n)

Next ==
  \/ EditorSend \/ Start
  \/ \E n \in DOMAIN hs : Handler(n)
  \/ AnalyzerRead \/ AnalyzerAnswer

Spec == Init /\ [][Next]_vars

-----------------------------------------------------------------------------
(* A document with nothing of it in flight (no message queued, no handler *)
(* running, nothing unread in the analyzer's pipe) is open in the analyzer *)
(* iff it is open in the editor, at the editor's version: the gateway      *)
(* forwards did_open/did_change/did_close of one URI complete and in       *)
(* order (spec section 5, ordering guarantee iii), however tower-lsp        *)
(* interleaves its handlers.                                               *)
Settled(u) ==
  /\ \A i \in DOMAIN incoming : incoming[i].uri # u
  /\ \A n \in InFlight : hs[n].uri # u
  /\ \A i \in DOMAIN pipe : pipe[i].uri # u

AnalyzerInSync ==
  \A u \in Uris :
    Settled(u) =>
      /\ aOpen[u] = editorOpen[u]
      /\ editorOpen[u] => aVer[u] = editorVer[u]

(* The serve task's thread never blocks on an open_documents shard that a *)
(* suspended handler of the same task holds (gateway.rs keeps the DashMap  *)
(* Ref of get/get_mut across the analyzer round trip).                     *)
NoTaskBlocked == ~blocked

=============================================================================
