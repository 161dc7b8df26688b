----------------------------- MODULE SendQueue -----------------------------
(***************************************************************************)
(* The outgoing side of one websocket Connection (ws_client.hpp).  Any     *)
(* thread may call send(): it rearms the idle timer, builds the frame and, *)
(* under send_queue_mutex, appends it to send_queue; only the call that    *)
(* finds the queue empty starts an async_write.  The completion handler    *)
(* runs on the thread that polls the io_context (Main): on success it pops *)
(* the head and starts the next write, on error it empties the queue; the  *)
(* callbacks run after the mutex is released.                              *)
(*                                                                         *)
(* A frame is a member of Msgs, sent by at most one call.  The socket is   *)
(* the environment: a write it was given completes or fails, and a socket  *)
(* on which a write failed fails every later one.                          *)
(***************************************************************************)
EXTENDS SequencesExt

CONSTANTS
    Threads,       \* the threads that call send()
    Main,          \* the one of them that polls the io_context
    Msgs,          \* the frames
    CloseMsgs,     \* those built by send_close
    Callbacks,     \* those sent with a callback
    TimeoutIdle,   \* config.timeout_idle # 0
    None           \* no frame

ASSUME MainAssumption == Main \in Threads
ASSUME MsgsAssumption ==
    /\ CloseMsgs \subseteq Msgs
    /\ Callbacks \subseteq Msgs
    /\ None \notin Msgs
    /\ TimeoutIdle \in BOOLEAN

VARIABLES
    building,      \* thread -> the frame it builds in send(), or None
    queue,         \* send_queue
    writes,        \* frames whose async_write is in progress
    handlers,      \* completed writes whose handler has not run
    calling,       \* entries whose callback the running handler has still to call
    closed,        \* Connection::closed
    timer,         \* the idle timer is armed
    stopped,       \* handler_runner->stop() has been called
    broken,        \* the socket has failed a write
    wire,          \* history: frames written, in order
    accepted,      \* history: frames appended to send_queue, in order
    reports        \* history: callbacks called, in order

vars == <<building, queue, writes, handlers, calling, closed, timer, stopped,
          broken, wire, accepted, reports>>

connVars == <<closed, timer, stopped>>
sockVars == <<broken, wire>>

Init ==
    /\ building = [t \in Threads |-> None]
    /\ queue = <<>>
    /\ writes = {}
    /\ handlers = {}
    /\ calling = <<>>
    /\ closed = FALSE
    /\ timer = TimeoutIdle    \* connection_open() has armed it
    /\ stopped = FALSE
    /\ broken = FALSE
    /\ wire = <<>>
    /\ accepted = <<>>
    /\ reports = <<>>

----------------------------------------------------------------------------
(* send() *)

Unsent(m) == m \notin ToSet(accepted) /\ \A t \in Threads : building[t] # m

\* A handler of the io_context runs on Main, one at a time.
MainIdle == building[Main] = None /\ calling = <<>>

\* send(): cancel_timeout(); set_timeout(); the frame is built.
Prepare(t, m) ==
    /\ building[t] = None
    /\ Unsent(m)
    /\ building' = [building EXCEPT ![t] = m]
    /\ timer' = TimeoutIdle

Send(t, m) ==
    /\ m \notin CloseMsgs
    /\ Prepare(t, m)
    /\ UNCHANGED <<queue, writes, handlers, calling, closed, stopped,
                   sockVars, accepted, reports>>

AlreadyClosedIgnored == FALSE    \* mutant: the test of closed is dropped
AlreadyClosed == closed

\* send_close(): "Send close only once".  Only Main calls it: from the reader
\* and from the idle timer.
SendClose(m) ==
    /\ m \in CloseMsgs
    /\ ~AlreadyClosed
    /\ closed' = TRUE
    /\ Prepare(Main, m)
    /\ UNCHANGED <<queue, writes, handlers, calling, stopped, sockVars,
                   accepted, reports>>

\* send_from_queue(): the write it starts for the queue q.
SendNewest(q) == {Last(q)}       \* mutant: the write takes the newest entry
SendFromQueue(q) == {Head(q)}

StartsAlways(q) == TRUE          \* mutant: every send() starts a write
StartsWrite(q) == Len(q) = 1

\* The critical section of send().
Enqueue(t) ==
    LET m == building[t]
        q == Append(queue, m)
    IN /\ m # None
       /\ queue' = q
       /\ accepted' = Append(accepted, m)
       /\ writes' = IF StartsWrite(q) THEN writes \cup SendFromQueue(q)
                                      ELSE writes
       /\ building' = [building EXCEPT ![t] = None]
       /\ UNCHANGED <<handlers, calling, connVars, sockVars, reports>>

\* The reader answers a close frame or a protocol error, unless the runner was
\* stopped.
ReaderCloses(m) ==
    /\ ~stopped
    /\ MainIdle
    /\ SendClose(m)

\* The idle timer fires and Main runs its handler.  send_close does nothing
\* when the close frame was already sent.
IdleTimeout ==
    /\ timer
    /\ MainIdle
    /\ \/ \E m \in Msgs : SendClose(m)
       \/ /\ AlreadyClosed
          /\ timer' = FALSE
          /\ UNCHANGED <<building, queue, writes, handlers, calling, closed,
                         stopped, sockVars, accepted, reports>>

----------------------------------------------------------------------------
(* The socket *)

WriteDone(m) ==
    /\ m \in writes
    /\ ~broken
    /\ writes' = writes \ {m}
    /\ handlers' = handlers \cup {[msg |-> m, ok |-> TRUE]}
    /\ wire' = Append(wire, m)
    /\ UNCHANGED <<building, queue, calling, connVars, broken, accepted, reports>>

WriteFails(m) ==
    /\ m \in writes
    /\ writes' = writes \ {m}
    /\ handlers' = handlers \cup {[msg |-> m, ok |-> FALSE]}
    /\ broken' = TRUE
    /\ UNCHANGED <<building, queue, calling, connVars, wire, accepted, reports>>

----------------------------------------------------------------------------
(* The completion handler of the write *)

Report(m, ok) == [msg |-> m, ok |-> ok]

\* Success: erase the head (whichever frame that is) and start the next write.
NotPopped == queue               \* mutant: the entry is not erased
AllPopped == <<>>                \* mutant: success empties the queue
Popped == Tail(queue)

OnWriteOk(h) ==
    /\ h.ok
    /\ calling' = <<Report(Head(queue), TRUE)>>
    /\ queue' = Popped
    /\ writes' = IF Popped # <<>> THEN writes \cup SendFromQueue(Popped)
                                  ELSE writes

\* Error: "All handlers in the queue is called with ec".
NotCleared == queue              \* mutant: the failed queue is kept
Cleared == <<>>

OnWriteError(h) ==
    /\ ~h.ok
    /\ calling' = [i \in DOMAIN queue |-> Report(queue[i], FALSE)]
    /\ queue' = Cleared
    /\ UNCHANGED writes

\* continue_lock() fails once the runner was stopped: the handler returns
\* without touching the queue.
OnStopped ==
    /\ UNCHANGED <<queue, calling, writes>>

OnWrite(h) ==
    /\ h \in handlers
    /\ MainIdle
    /\ handlers' = handlers \ {h}
    /\ \/ ~stopped /\ OnWriteOk(h)
       \/ ~stopped /\ OnWriteError(h)
       \/ stopped /\ OnStopped
    /\ UNCHANGED <<building, connVars, sockVars, accepted, reports>>

CalledAnyway(m) == TRUE          \* mutant: an empty callback is called too
HasCallback(m) == m \in Callbacks

\* After lock.unlock() the handler calls the callbacks it took, leaving out the
\* frames without one.
Callback ==
    /\ calling # <<>>
    /\ building[Main] = None
    /\ reports' = IF HasCallback(Head(calling).msg)
                  THEN Append(reports, Head(calling)) ELSE reports
    /\ calling' = Tail(calling)
    /\ UNCHANGED <<building, queue, writes, handlers, connVars, sockVars, accepted>>

\* ~SocketClientBase(): handler_runner->stop() waits for a running handler.
Stop ==
    /\ ~stopped
    /\ MainIdle
    /\ stopped' = TRUE
    /\ UNCHANGED <<building, queue, writes, handlers, calling, closed, timer,
                   sockVars, accepted, reports>>

Next ==
    \/ \E t \in Threads, m \in Msgs : Send(t, m)
    \/ \E m \in Msgs : ReaderCloses(m)
    \/ \E t \in Threads : Enqueue(t)
    \/ IdleTimeout
    \/ \E m \in Msgs : WriteDone(m) \/ WriteFails(m)
    \/ \E h \in handlers : OnWrite(h)
    \/ Callback
    \/ Stop

\* A thread inside send() finishes it, the socket completes or fails what it
\* was given, and Main keeps polling: the loop of AiSoundTask never ends.
Fairness ==
    /\ \A t \in Threads : WF_vars(Enqueue(t))
    /\ WF_vars(\E m \in Msgs : WriteDone(m) \/ WriteFails(m))
    /\ WF_vars(\E h \in handlers : OnWrite(h))
    /\ WF_vars(Callback)

Spec == Init /\ [][Next]_vars

FairSpec == Spec /\ Fairness

----------------------------------------------------------------------------
(* Properties *)

\* Every variable keeps the type of the field or history it stands for.
TypeOK ==
    /\ building \in [Threads -> Msgs \cup {None}]
    /\ queue \in Seq(Msgs)
    /\ writes \subseteq Msgs
    /\ handlers \subseteq [msg : Msgs, ok : BOOLEAN]
    /\ calling \in Seq([msg : Msgs, ok : BOOLEAN])
    /\ closed \in BOOLEAN
    /\ timer \in BOOLEAN
    /\ stopped \in BOOLEAN
    /\ broken \in BOOLEAN
    /\ wire \in Seq(Msgs)
    /\ accepted \in Seq(Msgs)
    /\ reports \in Seq([msg : Callbacks, ok : BOOLEAN])

\* The frames whose write has been started and whose handler has not run.
Started == writes \cup {h.msg : h \in handlers}

\* asio forbids a second async_write on a stream that has one in progress, and
\* the write reads a buffer owned by the queue's first entry: what is being
\* written is one frame, the head of the queue.
OneWriteOfTheHead ==
    ~stopped =>
        /\ Started = (IF queue = <<>> THEN {} ELSE {Head(queue)})
        /\ Cardinality(writes) + Cardinality(handlers) =< 1

\* Threads race into send(), yet the peer receives the frames in the order in
\* which they entered the queue, with none skipped.
WireInOrder == IsPrefix(wire, accepted)

\* A callback is called at most once over its frame's life, whatever mix of
\* completions and failures happens, and tells the truth: success exactly for
\* a frame that was written.
CallbacksTellTheTruth ==
    LET log == reports \o calling
    IN /\ \A i, j \in DOMAIN log : i # j => log[i].msg # log[j].msg
       /\ \A i \in DOMAIN log : log[i].ok <=> log[i].msg \in ToSet(wire)

\* The close frame is sent once although the reader, a protocol error and the
\* idle timer may all ask for it.
CloseOnce ==
    \A i, j \in DOMAIN accepted :
        accepted[i] \in CloseMsgs /\ accepted[j] \in CloseMsgs => i = j

\* The callback of every frame that entered the queue is eventually called,
\* unless the client is destroyed first.
EveryCallbackCalled ==
    \A m \in Callbacks :
        m \in ToSet(accepted)
            ~> (stopped \/ \E i \in DOMAIN reports : reports[i].msg = m)

----------------------------------------------------------------------------
(* send() implements the channel: a frame leaves the channel when its write
   completes, before its handler pops it from the queue. *)

pending == IF queue # <<>> /\ Head(queue) \in ToSet(wire) THEN Tail(queue)
                                                         ELSE queue

Ch == INSTANCE Channel WITH up <- ~broken

\* Seen from outside, the queue, its writes in progress and its handlers are a
\* FIFO channel that stops delivering at its first failure.
ImplementsChannel == Ch!Spec

----------------------------------------------------------------------------
(* The inductive invariant behind the proofs *)

\* A write in progress and a handler that has not run belong to the head of the
\* queue, and there is at most one of them; a client that was not stopped never
\* leaves a nonempty queue without one.
HeadInv ==
    /\ \A m \in writes : queue # <<>> /\ m = Head(queue) /\ handlers = {}
    /\ \A h \in handlers : queue # <<>> /\ h.msg = Head(queue) /\ writes = {}
    /\ \A g, h \in handlers : g = h
    /\ ~stopped /\ queue # <<>> => writes # {} \/ handlers # {}

\* A frame enters the queue once.
FrameInv ==
    /\ IsInjective(queue)
    /\ ToSet(queue) \subseteq ToSet(accepted)
    /\ \A t \in Threads : building[t] \notin ToSet(accepted)
    /\ \A t, u \in Threads : t # u /\ building[t] = building[u] => building[t] = None
    /\ ToSet(wire) \subseteq ToSet(accepted)

\* Until the socket breaks, every frame is on the wire or pending; a frame that
\* is being written is not on the wire, and a handler agrees with the wire.
WireInv ==
    /\ ~broken => accepted = wire \o pending
    /\ broken => WireInOrder
    /\ \A m \in writes : m \notin ToSet(wire)
    /\ \A h \in handlers : IF h.ok THEN ~broken /\ h.msg \in ToSet(wire)
                                    ELSE broken /\ h.msg \notin ToSet(wire)
    /\ ToSet(pending) \cap ToSet(wire) = {}

\* send_close() has run at most once.
CloseInv ==
    LET entered == {i \in DOMAIN accepted : accepted[i] \in CloseMsgs}
        held == {t \in Threads : building[t] \in CloseMsgs}
    IN /\ ~closed => entered = {} /\ held = {}
       /\ entered # {} => held = {}
       /\ CloseOnce
       /\ \A t \in held : t = Main
=============================================================================
