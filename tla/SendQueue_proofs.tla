-------------------------- MODULE SendQueue_proofs --------------------------
(***************************************************************************)
(* The send queue for any number of threads and frames: type correctness,  *)
(* one write at a time and of the head, the order on the wire, the single  *)
(* close frame, what callbacks are told, and the refinement of Channel.    *)
(***************************************************************************)
EXTENDS SendQueue, SequenceFacts, FiniteSetTheorems

USE MainAssumption, MsgsAssumption

Handler == [msg : Msgs, ok : BOOLEAN]

----------------------------------------------------------------------------
(* Types *)

\* The entry [m, ok] is what the type of a handler says.
LEMMA HandlerType ==
    ASSUME NEW m \in Msgs, NEW ok \in BOOLEAN
    PROVE  Report(m, ok) \in Handler
  BY DEF Report, Handler

\* The initial state is well typed.
LEMMA InitType == Init => TypeOK /\ HeadInv
  <1>1. \A S : <<>> \in Seq(S)
    BY EmptySeq
  <1> QED BY <1>1 DEF Init, TypeOK, HeadInv

\* Every step keeps the types; that a handler never meets an empty queue is
\* what HeadInv adds.
LEMMA NextType == TypeOK /\ HeadInv /\ [Next]_vars => TypeOK'
  <1> SUFFICES ASSUME TypeOK, HeadInv, [Next]_vars
               PROVE  TypeOK'
    OBVIOUS
  <1> USE DEF TypeOK, connVars, sockVars
  <1>1. ASSUME NEW t \in Threads, NEW m \in Msgs, Send(t, m)
        PROVE  TypeOK'
    BY <1>1 DEF Send, Prepare
  <1>2. ASSUME NEW m \in Msgs, SendClose(m)
        PROVE  TypeOK'
    BY <1>2 DEF SendClose, Prepare
  <1>3. ASSUME NEW t \in Threads, Enqueue(t)
        PROVE  TypeOK'
    <2>1. building[t] \in Msgs
      BY <1>3 DEF Enqueue
    <2>2. /\ Append(queue, building[t]) \in Seq(Msgs)
          /\ Append(queue, building[t]) # <<>>
          /\ Append(accepted, building[t]) \in Seq(Msgs)
      BY <2>1, AppendProperties
    <2>3. writes' \subseteq Msgs
      BY <1>3, <2>2, HeadTailToSet DEF Enqueue, SendFromQueue
    <2> QED BY <1>3, <2>1, <2>2, <2>3 DEF Enqueue
  <1>4. ASSUME IdleTimeout
        PROVE  TypeOK'
    <2>1. CASE \E m \in Msgs : SendClose(m)
      BY <2>1, <1>2
    <2>2. CASE ~ \E m \in Msgs : SendClose(m)
      BY <2>2, <1>4 DEF IdleTimeout
    <2> QED BY <2>1, <2>2
  <1>5. ASSUME NEW m \in Msgs, WriteDone(m)
        PROVE  TypeOK'
    <2>1. Append(wire, m) \in Seq(Msgs)
      BY AppendProperties
    <2>2. Report(m, TRUE) \in [msg : Msgs, ok : BOOLEAN]
      BY HandlerType DEF Handler
    <2>3. handlers' \subseteq [msg : Msgs, ok : BOOLEAN]
      BY <1>5, <2>2 DEF WriteDone, Report
    <2> QED BY <1>5, <2>1, <2>3 DEF WriteDone
  <1>6. ASSUME NEW m \in Msgs, WriteFails(m)
        PROVE  TypeOK'
    <2>1. Report(m, FALSE) \in [msg : Msgs, ok : BOOLEAN]
      BY HandlerType DEF Handler
    <2>2. handlers' \subseteq [msg : Msgs, ok : BOOLEAN]
      BY <1>6, <2>1 DEF WriteFails, Report
    <2> QED BY <1>6, <2>2 DEF WriteFails
  <1>7. ASSUME NEW h \in handlers, OnWrite(h)
        PROVE  TypeOK'
    <2>1. queue # <<>>
      BY <1>7 DEF HeadInv
    <2>2. Head(queue) \in Msgs /\ Tail(queue) \in Seq(Msgs)
      BY <2>1, HeadTailToSet
    <2>3. /\ UNCHANGED <<building, closed, timer, stopped, broken, wire, accepted, reports>>
          /\ handlers' \subseteq handlers
      BY <1>7 DEF OnWrite
    <2>4. CASE OnWriteOk(h)
      <3>1. Report(Head(queue), TRUE) \in Handler
        BY <2>2, HandlerType
      <3>2. calling' \in Seq(Handler)
        BY <2>4, <3>1, SingletonIsSeq DEF OnWriteOk
      <3>3. queue' \in Seq(Msgs)
        BY <2>4, <2>2 DEF OnWriteOk, Popped
      <3>4. writes' \subseteq Msgs
        BY <2>4, <2>2, HeadTailToSet DEF OnWriteOk, Popped, SendFromQueue
      <3> QED BY <2>3, <3>2, <3>3, <3>4 DEF Handler
    <2>5. CASE OnWriteError(h)
      <3>1. queue \in [1 .. Len(queue) -> Msgs] /\ Len(queue) \in Nat
            /\ DOMAIN queue = 1 .. Len(queue)
        BY LenProperties
      <3>2. \A i \in 1 .. Len(queue) : Report(queue[i], FALSE) \in Handler
        BY <3>1, HandlerType
      <3>3. calling' \in [1 .. Len(queue) -> Handler]
        BY <2>5, <3>1, <3>2 DEF OnWriteError
      <3>4. calling' \in Seq(Handler)
        BY <3>3, <3>1, FunctionIsSeq
      <3>5. queue' \in Seq(Msgs) /\ writes' = writes
        BY <2>5, EmptySeq DEF OnWriteError, Cleared
      <3> QED BY <2>3, <3>4, <3>5 DEF Handler
    <2>6. CASE OnStopped
      BY <2>3, <2>6 DEF OnStopped
    <2> QED BY <1>7, <2>4, <2>5, <2>6 DEF OnWrite
  <1>8. ASSUME Callback
        PROVE  TypeOK'
    <2>1. Head(calling) \in Handler /\ Tail(calling) \in Seq(Handler)
      BY <1>8, HeadTailToSet DEF Callback, Handler
    <2>2. reports' \in Seq([msg : Callbacks, ok : BOOLEAN])
      <3>1. CASE Head(calling).msg \in Callbacks
        <4>1. Head(calling) \in [msg : Callbacks, ok : BOOLEAN]
          BY <2>1, <3>1 DEF Handler
        <4>2. Append(reports, Head(calling)) \in Seq([msg : Callbacks, ok : BOOLEAN])
          BY <4>1, AppendProperties
        <4> QED BY <1>8, <3>1, <4>2 DEF Callback, HasCallback
      <3>2. CASE Head(calling).msg \notin Callbacks
        BY <1>8, <3>2 DEF Callback, HasCallback
      <3> QED BY <3>1, <3>2
    <2> QED BY <1>8, <2>1, <2>2 DEF Callback, Handler
  <1>9. ASSUME Stop
        PROVE  TypeOK'
    BY <1>9 DEF Stop
  <1>10. CASE UNCHANGED vars
    BY <1>10 DEF vars
  <1> QED
    BY <1>1, <1>2, <1>3, <1>4, <1>5, <1>6, <1>7, <1>8, <1>9, <1>10
       DEF Next, ReaderCloses

----------------------------------------------------------------------------
(* One write at a time *)

\* Every step keeps at most one write, the one of the queue's head.
LEMMA NextHead == TypeOK /\ HeadInv /\ [Next]_vars => HeadInv'
  <1> SUFFICES ASSUME TypeOK, HeadInv, [Next]_vars
               PROVE  HeadInv'
    OBVIOUS
  <1>0. queue \in Seq(Msgs) /\ building \in [Threads -> Msgs \cup {None}]
    BY DEF TypeOK
  <1> USE DEF HeadInv, connVars, sockVars
  <1>1. ASSUME NEW t \in Threads, NEW m \in Msgs, Send(t, m)
        PROVE  HeadInv'
    BY <1>1 DEF Send
  <1>2. ASSUME NEW m \in Msgs, SendClose(m)
        PROVE  HeadInv'
    BY <1>2 DEF SendClose
  <1>3. ASSUME NEW t \in Threads, Enqueue(t)
        PROVE  HeadInv'
    <2> DEFINE m == building[t]
    <2>1. m \in Msgs
      BY <1>3, <1>0 DEF Enqueue
    <2>2. /\ queue' = Append(queue, m)
          /\ queue' # <<>>
          /\ Len(queue') = Len(queue) + 1
          /\ Head(queue') = IF queue = <<>> THEN m ELSE Head(queue)
      BY <1>3, <2>1, <1>0, AppendProperties, HeadTailAppend DEF Enqueue
    <2>3. UNCHANGED <<handlers, stopped>>
      BY <1>3 DEF Enqueue
    <2>4. CASE queue = <<>>
      <3>1. writes = {} /\ handlers = {}
        BY <2>4
      <3>2. writes' = {m}
        BY <1>3, <2>4, <2>2, <3>1, EmptySeq DEF Enqueue, StartsWrite, SendFromQueue
      <3> QED BY <2>2, <2>3, <2>4, <3>1, <3>2
    <2>5. CASE queue # <<>>
      <3>1. Len(queue') # 1
        BY <2>2, <2>5, <1>0, EmptySeq
      <3>2. writes' = writes
        BY <1>3, <3>1, <2>2 DEF Enqueue, StartsWrite
      <3> QED BY <2>2, <2>3, <2>5, <3>2
    <2> QED BY <2>4, <2>5
  <1>4. ASSUME IdleTimeout
        PROVE  HeadInv'
    <2>1. CASE \E m \in Msgs : SendClose(m)
      BY <2>1, <1>2
    <2>2. CASE ~ \E m \in Msgs : SendClose(m)
      BY <2>2, <1>4 DEF IdleTimeout
    <2> QED BY <2>1, <2>2
  <1>5. ASSUME NEW m \in Msgs, WriteDone(m)
        PROVE  HeadInv'
    <2>1. writes' = {} /\ handlers' = {[msg |-> m, ok |-> TRUE]}
      BY <1>5 DEF WriteDone
    <2>2. m = Head(queue) /\ queue # <<>> /\ UNCHANGED <<queue, stopped>>
      BY <1>5 DEF WriteDone
    <2> QED BY <2>1, <2>2
  <1>6. ASSUME NEW m \in Msgs, WriteFails(m)
        PROVE  HeadInv'
    <2>1. writes' = {} /\ handlers' = {[msg |-> m, ok |-> FALSE]}
      BY <1>6 DEF WriteFails
    <2>2. m = Head(queue) /\ queue # <<>> /\ UNCHANGED <<queue, stopped>>
      BY <1>6 DEF WriteFails
    <2> QED BY <2>1, <2>2
  <1>7. ASSUME NEW h \in handlers, OnWrite(h)
        PROVE  HeadInv'
    <2>1. queue # <<>> /\ writes = {} /\ handlers' = {} /\ stopped' = stopped
      BY <1>7 DEF OnWrite
    <2>2. CASE OnWriteOk(h)
      <3>1. Tail(queue) \in Seq(Msgs) /\ queue' = Tail(queue)
        BY <2>1, <2>2, <1>0, HeadTailToSet DEF OnWriteOk, Popped
      <3>2. writes' = IF queue' # <<>> THEN {Head(queue')} ELSE {}
        BY <2>1, <2>2 DEF OnWriteOk, Popped, SendFromQueue
      <3> QED BY <2>1, <3>2
    <2>3. CASE OnWriteError(h)
      BY <2>1, <2>3 DEF OnWriteError, Cleared
    <2>4. CASE stopped /\ OnStopped
      BY <2>1, <2>4 DEF OnStopped
    <2> QED BY <1>7, <2>2, <2>3, <2>4 DEF OnWrite
  <1>8. ASSUME Callback
        PROVE  HeadInv'
    BY <1>8 DEF Callback
  <1>9. ASSUME Stop
        PROVE  HeadInv'
    BY <1>9 DEF Stop
  <1>10. CASE UNCHANGED vars
    BY <1>10 DEF vars
  <1> QED
    BY <1>1, <1>2, <1>3, <1>4, <1>5, <1>6, <1>7, <1>8, <1>9, <1>10
       DEF Next, ReaderCloses

\* HeadInv is the safety property with its set spelled out.
LEMMA HeadImpliesOneWrite == TypeOK /\ HeadInv => OneWriteOfTheHead
  <1> SUFFICES ASSUME TypeOK, HeadInv, ~stopped
               PROVE  /\ Started = (IF queue = <<>> THEN {} ELSE {Head(queue)})
                      /\ Cardinality(writes) + Cardinality(handlers) =< 1
    BY DEF OneWriteOfTheHead
  <1> USE DEF HeadInv, Started
  <1>0. Cardinality({}) = 0 /\ \A x : Cardinality({x}) = 1
    BY FS_EmptySet, FS_Singleton
  <1>1. CASE writes # {}
    <2>1. handlers = {} /\ queue # <<>> /\ writes = {Head(queue)}
      BY <1>1
    <2>2. Started = {Head(queue)}
      BY <2>1
    <2> HIDE DEF Started
    <2>3. Cardinality(writes) = 1 /\ Cardinality(handlers) = 0
      BY <2>1, <1>0, Zenon
    <2> QED BY <2>1, <2>2, <2>3
  <1>2. CASE handlers # {}
    <2>1. PICK h : handlers = {h} /\ h.msg = Head(queue)
      BY <1>2
    <2>2. writes = {} /\ queue # <<>>
      BY <1>2
    <2>3. Started = {Head(queue)}
      BY <2>1, <2>2
    <2> HIDE DEF Started
    <2>4. Cardinality(writes) = 0 /\ Cardinality(handlers) = 1
      BY <2>1, <2>2, <1>0, Zenon
    <2> QED BY <2>2, <2>3, <2>4
  <1>3. CASE writes = {} /\ handlers = {}
    BY <1>3, <1>0
  <1> QED BY <1>1, <1>2, <1>3

\* Every variable of the send queue keeps its type (Connection's fields and the
\* histories of ws_client.hpp's send path).
THEOREM TypeCorrect == Spec => []TypeOK
  <1>1. TypeOK /\ HeadInv /\ [Next]_vars => (TypeOK /\ HeadInv)'
    BY NextType, NextHead
  <1> QED BY InitType, <1>1, PTL DEF Spec

\* At every moment one async_write at most is in progress on the socket, and its
\* buffer is the one that the head of send_queue owns.
THEOREM OneWriteCorrect == Spec => []OneWriteOfTheHead
  <1>1. TypeOK /\ HeadInv /\ [Next]_vars => (TypeOK /\ HeadInv)'
    BY NextType, NextHead
  <1> QED BY InitType, <1>1, HeadImpliesOneWrite, PTL DEF Spec

----------------------------------------------------------------------------
(* The order on the wire *)

IInv == TypeOK /\ HeadInv /\ FrameInv /\ WireInv

\* Every step keeps frames distinct: send() is entered once per frame.
LEMMA NextFrame == IInv /\ [Next]_vars => FrameInv'
  <1> SUFFICES ASSUME IInv, [Next]_vars
               PROVE  FrameInv'
    OBVIOUS
  <1>0. /\ queue \in Seq(Msgs) /\ accepted \in Seq(Msgs) /\ wire \in Seq(Msgs)
        /\ building \in [Threads -> Msgs \cup {None}]
        /\ None \notin ToSet(accepted)
    <2>1. accepted \in Seq(Msgs)
      BY DEF IInv, TypeOK
    <2>2. \A i \in DOMAIN accepted : accepted[i] \in Msgs
      BY <2>1, LenProperties, ElementOfSeq
    <2> QED BY <2>2 DEF IInv, TypeOK, ToSet
  <1> USE DEF FrameInv, connVars, sockVars
  <1>a. FrameInv
    BY DEF IInv
  <1>1. ASSUME NEW t \in Threads, NEW m \in Msgs, Prepare(t, m),
               UNCHANGED <<queue, accepted, wire>>
        PROVE  FrameInv'
    BY <1>1, <1>a, <1>0 DEF Prepare, Unsent
  <1>2. ASSUME NEW m \in Msgs, SendClose(m)
        PROVE  FrameInv'
    BY <1>1, <1>2 DEF SendClose
  <1>3. ASSUME NEW t \in Threads, Enqueue(t)
        PROVE  FrameInv'
    <2> DEFINE m == building[t]
    <2>1. /\ m \in Msgs
          /\ queue' = Append(queue, m)
          /\ accepted' = Append(accepted, m)
          /\ building' = [building EXCEPT ![t] = None]
          /\ UNCHANGED wire
      BY <1>3, <1>0 DEF Enqueue
    <2>2. /\ ToSet(queue') = ToSet(queue) \cup {m}
          /\ ToSet(accepted') = ToSet(accepted) \cup {m}
      BY <2>1, <1>0, AppendToSet
    <2>3. m \notin ToSet(accepted)
      BY <1>a
    <2>4. IsInjective(queue')
      BY <2>1, <2>3, <1>a, <1>0, InjectiveFacts
    <2> HIDE DEF m
    <2>5. \A u \in Threads : u # t => building[u] # m
      BY <2>1, <1>a DEF m
    <2>6. \A u \in Threads : building'[u] = IF u = t THEN None ELSE building[u]
      BY <2>1, <1>0
    <2>7. \A u \in Threads : building'[u] \notin ToSet(accepted')
      BY <2>1, <2>2, <2>5, <2>6, <1>a, <1>0
    <2>8. ASSUME NEW u \in Threads, NEW v \in Threads, u # v,
                 building'[u] = building'[v]
          PROVE  building'[u] = None
      BY <2>8, <2>6, <1>a
    <2> QED BY <2>1, <2>2, <2>4, <2>7, <2>8, <1>a
  <1>4. ASSUME IdleTimeout
        PROVE  FrameInv'
    <2>1. CASE \E m \in Msgs : SendClose(m)
      BY <2>1, <1>2
    <2>2. CASE ~ \E m \in Msgs : SendClose(m)
      BY <2>2, <1>4, <1>a DEF IdleTimeout
    <2> QED BY <2>1, <2>2
  <1>5. ASSUME NEW m \in Msgs, WriteDone(m)
        PROVE  FrameInv'
    <2>1. queue # <<>> /\ m = Head(queue)
      BY <1>5 DEF WriteDone, IInv, HeadInv
    <2>2. m \in ToSet(queue)
      BY <2>1, <1>0, HeadTailToSet
    <2>3. wire' = Append(wire, m) /\ UNCHANGED <<queue, accepted, building>>
      BY <1>5 DEF WriteDone
    <2>4. ToSet(wire') = ToSet(wire) \cup {m}
      BY <2>3, <1>0, AppendToSet
    <2> QED BY <2>2, <2>3, <2>4, <1>a
  <1>6. ASSUME NEW m \in Msgs, WriteFails(m)
        PROVE  FrameInv'
    BY <1>6, <1>a DEF WriteFails
  <1>7. ASSUME NEW h \in handlers, OnWrite(h)
        PROVE  FrameInv'
    <2>1. queue # <<>> /\ UNCHANGED <<accepted, building, wire>>
      BY <1>7 DEF OnWrite, IInv, HeadInv
    <2>2. CASE OnWriteOk(h)
      <3>1. queue' = Tail(queue)
        BY <2>2 DEF OnWriteOk, Popped
      <3>2. IsInjective(queue') /\ ToSet(queue') \subseteq ToSet(queue)
        BY <3>1, <2>1, <1>a, <1>0, HeadTailToSet, InjectiveFacts
      <3> QED BY <3>2, <2>1, <1>a
    <2>3. CASE OnWriteError(h)
      <3>1. queue' = <<>> /\ ToSet(queue') = {} /\ IsInjective(queue')
        BY <2>3, EmptySeq DEF OnWriteError, Cleared, ToSet, IsInjective
      <3> QED BY <3>1, <2>1, <1>a
    <2>4. CASE OnStopped
      BY <2>4, <2>1, <1>a DEF OnStopped
    <2> QED BY <1>7, <2>2, <2>3, <2>4 DEF OnWrite
  <1>8. CASE UNCHANGED <<building, queue, accepted, wire>>
    BY <1>8, <1>a
  <1> QED
    BY <1>1, <1>2, <1>3, <1>4, <1>5, <1>6, <1>7, <1>8
       DEF Next, ReaderCloses, Send, Callback, Stop, vars

\* What the queue of IInv looks like to the wire.
LEMMA IInvTypes ==
    IInv => /\ queue \in Seq(Msgs) /\ accepted \in Seq(Msgs) /\ wire \in Seq(Msgs)
            /\ pending \in Seq(Msgs)
            /\ handlers \subseteq Handler /\ broken \in BOOLEAN
            /\ building \in [Threads -> Msgs \cup {None}]
            /\ HeadInv /\ FrameInv /\ WireInv
  <1> SUFFICES ASSUME IInv
               PROVE  pending \in Seq(Msgs)
    BY DEF IInv, TypeOK, Handler
  <1>1. queue \in Seq(Msgs)
    BY DEF IInv, TypeOK
  <1> QED BY <1>1, HeadTailToSet DEF pending

\* send() appends to what is pending.
LEMMA PendingEnqueue ==
    ASSUME IInv, NEW t \in Threads, Enqueue(t)
    PROVE  /\ building[t] \in Msgs
           /\ building[t] \notin ToSet(accepted)
           /\ building[t] \notin ToSet(wire)
           /\ queue' = Append(queue, building[t])
           /\ accepted' = Append(accepted, building[t])
           /\ pending' = Append(pending, building[t])
           /\ UNCHANGED <<wire, broken, handlers>>
  <1> DEFINE m == building[t]
  <1>0. queue \in Seq(Msgs) /\ building \in [Threads -> Msgs \cup {None}]
    BY IInvTypes
  <1>1. /\ m \in Msgs
        /\ queue' = Append(queue, m)
        /\ accepted' = Append(accepted, m)
        /\ UNCHANGED <<wire, broken, handlers>>
    BY <1>0 DEF Enqueue, sockVars
  <1>2. m \notin ToSet(accepted) /\ m \notin ToSet(wire)
    BY IInvTypes DEF FrameInv
  <1> HIDE DEF m
  <1>3. /\ queue' # <<>>
        /\ Head(queue') = IF queue = <<>> THEN m ELSE Head(queue)
        /\ Tail(queue') = IF queue = <<>> THEN <<>> ELSE Append(Tail(queue), m)
    BY <1>0, <1>1, AppendProperties, HeadTailAppend
  <1>4. pending' = Append(pending, m)
    <2>1. CASE queue = <<>>
      BY <2>1, <1>1, <1>2, <1>3 DEF pending
    <2>2. CASE queue # <<>>
      BY <2>2, <1>1, <1>3 DEF pending
    <2> QED BY <2>1, <2>2
  <1> QED BY <1>1, <1>2, <1>4 DEF m

\* A write that completes moves the head of what is pending to the wire.
LEMMA PendingDone ==
    ASSUME IInv, NEW m \in Msgs, WriteDone(m)
    PROVE  /\ ~broken
           /\ queue # <<>> /\ m = Head(queue) /\ m \notin ToSet(wire)
           /\ pending = queue
           /\ pending' = Tail(queue)
           /\ wire' = Append(wire, m)
           /\ ToSet(wire') = ToSet(wire) \cup {m}
           /\ UNCHANGED <<queue, accepted, broken>>
  <1>1. /\ queue \in Seq(Msgs) /\ wire \in Seq(Msgs)
        /\ queue # <<>> /\ m = Head(queue) /\ m \notin ToSet(wire)
    BY IInvTypes DEF WriteDone, HeadInv, WireInv
  <1>2. /\ wire' = Append(wire, m) /\ ~broken
        /\ UNCHANGED <<queue, accepted, broken>>
    BY DEF WriteDone
  <1>3. ToSet(wire') = ToSet(wire) \cup {m}
    BY <1>1, <1>2, AppendToSet
  <1> QED BY <1>1, <1>2, <1>3 DEF pending

\* The handler of a completed write changes nothing that is pending.
LEMMA PendingOk ==
    ASSUME IInv, NEW h \in handlers, ~stopped, OnWriteOk(h), UNCHANGED wire
    PROVE  pending' = pending /\ queue' = Tail(queue) /\ queue # <<>>
  <1>1. /\ queue \in Seq(Msgs) /\ queue # <<>> /\ h.msg = Head(queue)
        /\ Head(queue) \in ToSet(wire)
    BY IInvTypes DEF OnWriteOk, HeadInv, WireInv
  <1>2. pending = Tail(queue) /\ queue' = Tail(queue)
    BY <1>1 DEF pending, OnWriteOk, Popped
  <1>3. ToSet(Tail(queue)) \cap ToSet(wire) = {}
    BY <1>2, IInvTypes DEF WireInv
  <1>4. Tail(queue) # <<>> => Head(Tail(queue)) \in ToSet(Tail(queue))
    BY <1>1, HeadTailToSet
  <1> QED BY <1>1, <1>2, <1>3, <1>4 DEF pending

\* Every step keeps the accounting: frames are on the wire or pending until the
\* socket breaks.
LEMMA NextWire == IInv /\ [Next]_vars => WireInv'
  <1> SUFFICES ASSUME IInv, [Next]_vars
               PROVE  WireInv'
    OBVIOUS
  <1>0. /\ queue \in Seq(Msgs) /\ accepted \in Seq(Msgs) /\ wire \in Seq(Msgs)
        /\ pending \in Seq(Msgs) /\ HeadInv /\ FrameInv /\ WireInv
    BY IInvTypes
  <1>1. CASE UNCHANGED <<queue, writes, handlers, broken, wire, accepted>>
    BY <1>0, <1>1 DEF WireInv, pending, WireInOrder
  <1>2. ASSUME NEW t \in Threads, Enqueue(t)
        PROVE  WireInv'
    <2> DEFINE m == building[t]
    <2>1. /\ m \in Msgs /\ m \notin ToSet(wire)
          /\ queue' = Append(queue, m)
          /\ accepted' = Append(accepted, m)
          /\ pending' = Append(pending, m)
          /\ UNCHANGED <<wire, broken, handlers>>
      BY <1>2, PendingEnqueue
    <2> HIDE DEF m
    <2>2. ASSUME ~broken
          PROVE  accepted' = wire \o pending'
      <3>1. accepted = wire \o pending
        BY <2>2, <1>0 DEF WireInv
      <3>2. Append(wire \o pending, m) = wire \o Append(pending, m)
        <4>1. wire \in Seq(Msgs) /\ pending \in Seq(Msgs) /\ m \in Msgs
          BY <2>1, <1>0
        <4> QED BY <4>1, SMT
      <3> QED BY <2>1, <3>1, <3>2, Zenon
    <2>3. broken => IsPrefix(wire, accepted')
      BY <2>1, <1>0, PrefixFacts DEF WireInv, WireInOrder
    <2>4. ToSet(pending') \cap ToSet(wire) = {}
      BY <2>1, <1>0, AppendToSet DEF WireInv
    <2>5. writes' \subseteq writes \cup {m}
      <3>1. CASE queue = <<>>
        BY <1>2, <3>1, <2>1, <1>0, HeadTailAppend DEF Enqueue, SendFromQueue
      <3>2. CASE queue # <<>>
        <4>1. Len(queue') # 1
          BY <2>1, <3>2, <1>0, AppendProperties, EmptySeq
        <4> QED BY <1>2, <4>1, <2>1 DEF Enqueue, StartsWrite, m
      <3> QED BY <3>1, <3>2
    <2> QED BY <2>1, <2>2, <2>3, <2>4, <2>5, <1>0 DEF WireInv, WireInOrder
  <1>3. ASSUME NEW m \in Msgs, WriteDone(m)
        PROVE  WireInv'
    <2>1. /\ ~broken
          /\ queue # <<>> /\ m = Head(queue) /\ m \notin ToSet(wire)
          /\ pending = queue
          /\ pending' = Tail(queue)
          /\ wire' = Append(wire, m)
          /\ ToSet(wire') = ToSet(wire) \cup {m}
          /\ UNCHANGED <<queue, accepted, broken>>
      BY <1>3, PendingDone
    <2>2. accepted' = wire' \o pending'
      <3>1. accepted = wire \o queue
        BY <2>1, <1>0 DEF WireInv
      <3>2. Append(wire, Head(queue)) \o Tail(queue) = wire \o queue
        BY <2>1, <1>0, ConcatMoveHead
      <3> QED BY <2>1, <3>1, <3>2, Zenon
    <2>3. writes' = {} /\ handlers' = {[msg |-> m, ok |-> TRUE]}
      BY <1>3, <1>0 DEF WriteDone, HeadInv
    <2>4. ToSet(pending') \cap ToSet(wire') = {}
      <3>1. ToSet(Tail(queue)) \subseteq ToSet(queue) /\ m \notin ToSet(Tail(queue))
        BY <2>1, <1>0, HeadTailToSet, InjectiveFacts DEF FrameInv
      <3> QED BY <3>1, <2>1, <1>0 DEF WireInv
    <2> QED BY <2>1, <2>2, <2>3, <2>4 DEF WireInv
  <1>4. ASSUME NEW m \in Msgs, WriteFails(m)
        PROVE  WireInv'
    <2>1. /\ broken'
          /\ UNCHANGED <<queue, wire, accepted, pending>>
      BY <1>4 DEF WriteFails, pending
    <2>2. writes' = {} /\ handlers' = {[msg |-> m, ok |-> FALSE]} /\ m \notin ToSet(wire)
      BY <1>4, <1>0 DEF WriteFails, HeadInv, WireInv
    <2>3. IsPrefix(wire, accepted)
      BY <1>0, PrefixFacts DEF WireInv, WireInOrder
    <2> QED BY <2>1, <2>2, <2>3, <1>0 DEF WireInv, WireInOrder
  <1>5. ASSUME NEW h \in handlers, OnWrite(h)
        PROVE  WireInv'
    <2>1. /\ queue # <<>> /\ writes = {} /\ handlers' = {}
          /\ UNCHANGED <<wire, accepted, broken>>
      BY <1>5, <1>0 DEF OnWrite, HeadInv, sockVars
    <2>2. CASE ~stopped /\ OnWriteOk(h)
      <3>1. pending' = pending /\ queue' = Tail(queue) /\ h \in handlers
        BY <1>5, <2>1, <2>2, PendingOk
      <3>2. writes' \subseteq ToSet(Tail(queue))
        BY <2>1, <2>2, <1>0, HeadTailToSet DEF OnWriteOk, Popped, SendFromQueue
      <3>3. ToSet(Tail(queue)) \cap ToSet(wire) = {}
        <4>1. Head(queue) \in ToSet(wire)
          BY <2>2, <1>5, <1>0 DEF OnWriteOk, WireInv, HeadInv
        <4>2. pending = Tail(queue)
          BY <4>1, <2>1 DEF pending
        <4> QED BY <4>2, <1>0 DEF WireInv
      <3> QED BY <3>1, <3>2, <3>3, <2>1, <1>0 DEF WireInv, WireInOrder
    <2>3. CASE ~stopped /\ OnWriteError(h)
      <3>1. broken
        BY <2>3, <1>5, <1>0 DEF OnWriteError, WireInv
      <3>2. queue' = <<>> /\ pending' = <<>> /\ writes' = {}
        BY <2>3, <2>1 DEF OnWriteError, Cleared, pending
      <3>3. ToSet(pending') = {}
        BY <3>2, EmptySeq DEF ToSet
      <3> QED BY <3>1, <3>2, <3>3, <2>1, <1>0 DEF WireInv, WireInOrder
    <2>4. CASE OnStopped
      <3>1. UNCHANGED <<queue, writes, pending>>
        BY <2>4, <2>1 DEF OnStopped, pending
      <3> QED BY <3>1, <2>1, <1>0 DEF WireInv, WireInOrder
    <2> QED BY <1>5, <2>2, <2>3, <2>4 DEF OnWrite
  <1> QED
    BY <1>1, <1>2, <1>3, <1>4, <1>5
       DEF Next, ReaderCloses, SendClose, IdleTimeout, Send, Callback, Stop, vars, sockVars

\* The inductive invariant.
LEMMA Inductive ==
    /\ Init => IInv
    /\ IInv /\ [Next]_vars => IInv'
    /\ IInv => WireInOrder
  <1>1. Init => IInv
    <2> SUFFICES ASSUME Init PROVE FrameInv /\ WireInv
      BY InitType DEF IInv
    <2>1. \A s : ToSet(<<>>) = {} /\ <<>> \o <<>> = <<>>
      BY EmptySeq, ConcatEmptySeq DEF ToSet
    <2>2. IsInjective(<<>>)
      BY DEF IsInjective
    <2> QED BY <2>1, <2>2 DEF Init, FrameInv, WireInv, pending
  <1>2. IInv /\ [Next]_vars => IInv'
    BY NextType, NextHead, NextFrame, NextWire DEF IInv
  <1>3. ASSUME IInv
        PROVE  WireInOrder
    <2>1. wire \in Seq(Msgs) /\ pending \in Seq(Msgs)
      BY <1>3, IInvTypes
    <2>2. CASE broken
      BY <1>3, <2>2 DEF IInv, WireInv
    <2>3. CASE ~broken
      <3>1. accepted = wire \o pending
        BY <1>3, <2>3 DEF IInv, WireInv
      <3>2. CASE Msgs = {}
        BY <2>1, <3>1, <3>2, PrefixFacts DEF WireInOrder
      <3>3. CASE Msgs # {}
        BY <2>1, <3>1, <3>3, PrefixFacts DEF WireInOrder
      <3> QED BY <3>2, <3>3
    <2> QED BY <2>2, <2>3
  <1> QED BY <1>1, <1>2, <1>3

\* Whatever the threads and the socket do, the peer receives the frames in the
\* order in which they entered send_queue.
THEOREM WireOrderCorrect == Spec => []WireInOrder
  BY Inductive, PTL DEF Spec

----------------------------------------------------------------------------
(* Refinement *)

\* The send queue implements the channel: its callers may reason with Channel's
\* pending frames and forget the mutex, the writes and their handlers.
THEOREM Refinement == Spec => ImplementsChannel
  <1>1. Init => Ch!Init
    BY DEF Init, Ch!Init, pending
  <1>2. IInv /\ [Next]_vars => [Ch!Next]_(Ch!chVars)
    <2> SUFFICES ASSUME IInv, [Next]_vars
                 PROVE  Ch!Next \/ UNCHANGED Ch!chVars
      BY DEF Ch!chVars
    <2>1. CASE UNCHANGED <<queue, wire, broken>>
      BY <2>1 DEF Ch!chVars, pending
    <2>2. ASSUME NEW t \in Threads, Enqueue(t)
          PROVE  Ch!Next
      BY <2>2, PendingEnqueue DEF Ch!Next, Ch!Accept
    <2>3. ASSUME NEW m \in Msgs, WriteDone(m)
          PROVE  Ch!Next
      BY <2>3, PendingDone DEF Ch!Next, Ch!Deliver
    <2>4. ASSUME NEW m \in Msgs, WriteFails(m)
          PROVE  Ch!Next
      <3>1. queue # <<>> /\ m = Head(queue) /\ m \notin ToSet(wire)
        BY <2>4, IInvTypes DEF WriteFails, HeadInv, WireInv
      <3>2. pending # <<>> /\ broken' /\ UNCHANGED <<pending, wire>>
        BY <2>4, <3>1 DEF WriteFails, pending
      <3> QED BY <3>2 DEF Ch!Next, Ch!Fail
    <2>5. ASSUME NEW h \in handlers, OnWrite(h)
          PROVE  Ch!Next \/ UNCHANGED Ch!chVars
      <3>1. UNCHANGED <<wire, broken>>
        BY <2>5 DEF OnWrite, sockVars
      <3>2. CASE ~stopped /\ OnWriteOk(h)
        BY <2>5, <3>1, <3>2, PendingOk DEF Ch!chVars
      <3>3. CASE ~stopped /\ OnWriteError(h)
        <4>1. broken
          BY <3>3, <2>5, IInvTypes DEF OnWriteError, WireInv
        <4>2. pending' = <<>>
          BY <3>3 DEF OnWriteError, Cleared, pending
        <4> QED BY <3>1, <4>1, <4>2 DEF Ch!Next, Ch!GiveUp
      <3>4. CASE OnStopped
        BY <3>1, <3>4 DEF OnStopped, Ch!chVars, pending
      <3> QED BY <2>5, <3>2, <3>3, <3>4 DEF OnWrite
    <2> QED
      BY <2>1, <2>2, <2>3, <2>4, <2>5
         DEF Next, ReaderCloses, SendClose, IdleTimeout, Send, Callback, Stop,
             vars, sockVars
  <1> QED BY <1>1, <1>2, Inductive, PTL DEF Spec, ImplementsChannel, Ch!Spec

----------------------------------------------------------------------------
(* The close frame *)

\* send_close() hands one close frame to send(): a second one would need the
\* test of closed to pass twice, and only Main makes it.
THEOREM CloseOnceCorrect == Spec => []CloseOnce
  <1> DEFINE J == TypeOK /\ HeadInv /\ CloseInv
  <1>1. Init => J
    BY InitType DEF Init, CloseInv, CloseOnce
  <1>2. J /\ [Next]_vars => CloseInv'
    <2> SUFFICES ASSUME J, [Next]_vars
                 PROVE  CloseInv'
      OBVIOUS
    <2>0. /\ accepted \in Seq(Msgs)
          /\ building \in [Threads -> Msgs \cup {None}] /\ CloseInv
      BY DEF TypeOK
    <2>1. CASE UNCHANGED <<building, closed, accepted>>
      BY <2>0, <2>1 DEF CloseInv, CloseOnce
    <2>2. ASSUME NEW t \in Threads, NEW m \in Msgs, Send(t, m)
          PROVE  CloseInv'
      BY <2>0, <2>2 DEF Send, Prepare, CloseInv, CloseOnce, connVars
    <2>3. ASSUME NEW m \in Msgs, SendClose(m)
          PROVE  CloseInv'
      BY <2>0, <2>3 DEF SendClose, Prepare, CloseInv, CloseOnce, AlreadyClosed
    <2>4. ASSUME NEW t \in Threads, Enqueue(t)
          PROVE  CloseInv'
      <3> DEFINE m == building[t]
      <3>1. /\ m \in Msgs /\ accepted' = Append(accepted, m)
            /\ building' = [building EXCEPT ![t] = None] /\ closed' = closed
        BY <2>0, <2>4 DEF Enqueue, connVars
      <3>2. /\ DOMAIN accepted = 1 .. Len(accepted) /\ Len(accepted) \in Nat
            /\ DOMAIN accepted' = 1 .. Len(accepted) + 1
            /\ \A i \in 1 .. Len(accepted) : accepted'[i] = accepted[i]
            /\ accepted'[Len(accepted) + 1] = m
        BY <2>0, <3>1, AppendProperties, LenProperties
      <3>3. \A u \in Threads : building'[u] = IF u = t THEN None ELSE building[u]
        BY <2>0, <3>1
      <3>4. CASE m \in CloseMsgs
        <4>1. t = Main /\ closed /\ \A i \in DOMAIN accepted : accepted[i] \notin CloseMsgs
          BY <2>0, <3>4 DEF CloseInv
        <4>2. \A u \in Threads : building'[u] \notin CloseMsgs
          BY <2>0, <3>3, <4>1 DEF CloseInv
        <4>3. CloseOnce'
          BY <3>2, <4>1 DEF CloseOnce
        <4> QED BY <3>1, <4>1, <4>2, <4>3 DEF CloseInv
      <3>5. CASE m \notin CloseMsgs
        <4>1. \A i \in DOMAIN accepted' :
                 accepted'[i] \in CloseMsgs
                    => i \in DOMAIN accepted /\ accepted'[i] = accepted[i]
          BY <3>2, <3>5
        <4>2. CloseOnce'
          BY <2>0, <4>1 DEF CloseInv, CloseOnce
        <4>3. \A u \in Threads : building'[u] \in CloseMsgs => building[u] \in CloseMsgs
          BY <3>3
        <4> HIDE DEF m
        <4> QED BY <2>0, <3>1, <4>1, <4>2, <4>3 DEF CloseInv
      <3> QED BY <3>4, <3>5
    <2>5. ASSUME IdleTimeout
          PROVE  CloseInv'
      <3>1. CASE \E m \in Msgs : SendClose(m)
        BY <3>1, <2>3
      <3>2. CASE ~ \E m \in Msgs : SendClose(m)
        BY <3>2, <2>5, <2>1 DEF IdleTimeout
      <3> QED BY <3>1, <3>2
    <2> QED
      BY <2>1, <2>2, <2>3, <2>4, <2>5
         DEF Next, ReaderCloses, WriteDone, WriteFails, OnWrite, Callback, Stop,
             vars, connVars
  <1>3. J /\ [Next]_vars => J'
    BY <1>2, NextType, NextHead
  <1>4. J => CloseOnce
    BY DEF CloseInv
  <1> QED BY <1>1, <1>3, <1>4, PTL DEF Spec
----------------------------------------------------------------------------
(* The callbacks *)

Distinct(s) == \A i, j \in DOMAIN s : s[i].msg = s[j].msg => i = j

\* A frame whose callback was called, or is about to be, has left the queue and
\* does not return to it; what the callback is told is final.
Final(r) ==
    /\ r.msg \in ToSet(accepted) \ ToSet(queue)
    /\ r.ok <=> r.msg \in ToSet(wire)

LogInv ==
    /\ Distinct(reports) /\ Distinct(calling)
    /\ \A r \in ToSet(reports), c \in ToSet(calling) : r.msg # c.msg
    /\ \A r \in ToSet(reports) \cup ToSet(calling) : Final(r)

\* A sequence over a set is one over a larger set.
LEMMA SeqOfMore ==
    ASSUME NEW S, NEW T, S \subseteq T, NEW s \in Seq(S)
    PROVE  s \in Seq(T)
  <1>1. Len(s) \in Nat /\ s \in [1 .. Len(s) -> S]
    BY LenProperties, SeqDef
  <1>2. s \in [1 .. Len(s) -> T]
    BY <1>1
  <1> QED BY <1>1, <1>2, FunctionIsSeq

\* A report can be appended when it is about a frame without one; the head of a
\* sequence of reports is about another frame than the rest.
LEMMA DistinctFacts ==
    ASSUME NEW S, NEW s \in Seq(S), NEW x \in S, Distinct(s)
    PROVE  /\ (\A r \in ToSet(s) : r.msg # x.msg) => Distinct(Append(s, x))
           /\ s # <<>> => /\ Distinct(Tail(s))
                          /\ \A r \in ToSet(Tail(s)) : r.msg # Head(s).msg
  <1>0. Len(s) \in Nat /\ DOMAIN s = 1 .. Len(s)
    BY LenProperties
  <1>1. ASSUME \A r \in ToSet(s) : r.msg # x.msg
        PROVE  Distinct(Append(s, x))
    <2>1. /\ DOMAIN Append(s, x) = 1 .. Len(s) + 1
          /\ \A i \in 1 .. Len(s) : Append(s, x)[i] = s[i]
          /\ Append(s, x)[Len(s) + 1] = x
      BY AppendProperties, LenProperties
    <2>2. \A i \in 1 .. Len(s) : s[i].msg # x.msg
      BY <1>0, <1>1 DEF ToSet
    <2> QED BY <1>0, <2>1, <2>2 DEF Distinct
  <1>2. ASSUME s # <<>>
        PROVE  /\ Distinct(Tail(s))
               /\ \A r \in ToSet(Tail(s)) : r.msg # Head(s).msg
    <2>1. /\ Len(Tail(s)) = Len(s) - 1
          /\ \A i \in 1 .. Len(Tail(s)) : Tail(s)[i] = s[i + 1]
          /\ Head(s) = s[1]
          /\ DOMAIN Tail(s) = 1 .. Len(Tail(s))
          /\ Len(s) >= 1
      BY <1>2, HeadTailProperties, LenProperties, EmptySeq
    <2>2. \A i \in 1 .. Len(Tail(s)) : i + 1 \in 1 .. Len(s) /\ i + 1 # 1
      BY <1>0, <2>1
    <2>3. Distinct(Tail(s))
      BY <1>0, <2>1, <2>2 DEF Distinct
    <2>4. \A i \in 1 .. Len(Tail(s)) : Tail(s)[i].msg # Head(s).msg
      BY <1>0, <2>1, <2>2 DEF Distinct
    <2> QED BY <2>1, <2>3, <2>4 DEF ToSet
  <1> QED BY <1>1, <1>2

\* The handler takes its reports from the queue, which it has left when they are
\* called, and a write in progress is of a frame in the queue.
LEMMA NextLog == IInv /\ LogInv /\ [Next]_vars => LogInv'
  <1> SUFFICES ASSUME IInv, LogInv, [Next]_vars
               PROVE  LogInv'
    OBVIOUS
  <1>0. /\ queue \in Seq(Msgs) /\ accepted \in Seq(Msgs) /\ wire \in Seq(Msgs)
        /\ HeadInv /\ FrameInv /\ WireInv /\ handlers \subseteq Handler
    BY IInvTypes
  <1>1. calling \in Seq(Handler) /\ reports \in Seq(Handler)
    <2>1. calling \in Seq(Handler) /\ reports \in Seq([msg : Callbacks, ok : BOOLEAN])
      BY DEF IInv, TypeOK, Handler
    <2>2. [msg : Callbacks, ok : BOOLEAN] \subseteq Handler
      BY DEF Handler
    <2> QED BY <2>1, <2>2, SeqOfMore
  <1>2. CASE UNCHANGED <<queue, accepted, wire, calling, reports>>
    BY <1>2 DEF LogInv, Final
  <1>3. ASSUME NEW t \in Threads, Enqueue(t)
        PROVE  LogInv'
    <2> DEFINE m == building[t]
    <2>0. /\ m \in Msgs /\ m \notin ToSet(accepted) /\ wire' = wire
          /\ queue' = Append(queue, m) /\ accepted' = Append(accepted, m)
      BY <1>3, PendingEnqueue
    <2>1. /\ ToSet(queue') = ToSet(queue) \cup {m}
          /\ ToSet(accepted') = ToSet(accepted) \cup {m}
      BY <1>0, <2>0, AppendToSet
    <2>2. UNCHANGED <<calling, reports>>
      BY <1>3 DEF Enqueue
    <2> HIDE DEF m
    <2> QED BY <2>0, <2>1, <2>2 DEF LogInv, Final
  <1>4. ASSUME NEW m \in Msgs, WriteDone(m)
        PROVE  LogInv'
    <2>1. /\ m = Head(queue) /\ queue # <<>> /\ ToSet(wire') = ToSet(wire) \cup {m}
          /\ UNCHANGED <<queue, accepted>>
      BY <1>4, PendingDone
    <2>2. m \in ToSet(queue)
      BY <1>0, <2>1, HeadTailToSet
    <2>3. UNCHANGED <<calling, reports>>
      BY <1>4 DEF WriteDone
    <2> QED BY <2>1, <2>2, <2>3 DEF LogInv, Final
  <1>5. ASSUME NEW h \in handlers, OnWrite(h)
        PROVE  LogInv'
    <2>1. /\ UNCHANGED <<accepted, wire, reports>> /\ calling = <<>>
          /\ queue # <<>> /\ h.msg = Head(queue)
      BY <1>0, <1>5 DEF OnWrite, MainIdle, HeadInv, sockVars
    <2>2. /\ Distinct(reports) /\ \A r \in ToSet(reports) : Final(r)
          /\ ToSet(queue) \subseteq ToSet(accepted)
      BY <1>0 DEF LogInv, FrameInv
    <2>3. /\ Head(queue) \in ToSet(queue) /\ Head(queue) \notin ToSet(Tail(queue))
          /\ ToSet(Tail(queue)) \subseteq ToSet(queue) /\ Head(queue) \in Msgs
      BY <1>0, <2>1, HeadTailToSet, InjectiveFacts DEF FrameInv
    <2>4. CASE ~stopped /\ OnWriteOk(h)
      <3>0. PICK c : c = Report(Head(queue), TRUE)
        OBVIOUS
      <3>1. calling' = <<c>> /\ queue' = Tail(queue)
        BY <2>4, <3>0 DEF OnWriteOk, Popped
      <3>2. c.msg = Head(queue) /\ c.ok
        BY <3>0 DEF Report
      <3>3. ToSet(calling') = {c} /\ Distinct(calling')
        BY <3>1 DEF ToSet, Distinct
      <3>4. Head(queue) \in ToSet(wire)
        BY <1>0, <2>1, <2>4 DEF OnWriteOk, WireInv
      <3>5. Final(c)'
        BY <2>1, <2>2, <2>3, <3>1, <3>2, <3>4 DEF Final
      <3>6. \A r \in ToSet(reports) : Final(r)' /\ r.msg # c.msg
        BY <2>1, <2>2, <2>3, <3>1, <3>2 DEF Final
      <3> QED BY <2>1, <2>2, <3>3, <3>5, <3>6 DEF LogInv
    <2>5. CASE ~stopped /\ OnWriteError(h)
      <3>1. /\ calling' = [i \in DOMAIN queue |-> Report(queue[i], FALSE)] /\ queue' = <<>>
        BY <2>5 DEF OnWriteError, Cleared
      <3>2. DOMAIN calling' = DOMAIN queue /\ ToSet(queue') = {}
        BY <3>1 DEF ToSet
      <3>3. \A i \in DOMAIN queue : calling'[i].msg = queue[i] /\ calling'[i].ok = FALSE
        BY <3>1 DEF Report
      <3>4. Distinct(calling')
        BY <1>0, <3>2, <3>3 DEF Distinct, FrameInv, IsInjective
      <3>5. \A c \in ToSet(calling') : c.msg \in ToSet(queue) /\ c.ok = FALSE
        BY <3>2, <3>3 DEF ToSet
      <3>6. \A m \in ToSet(queue) : m \notin ToSet(wire)
        <4>1. Head(queue) \notin ToSet(wire)
          BY <1>0, <2>1, <2>5 DEF OnWriteError, WireInv
        <4> QED BY <1>0, <4>1 DEF WireInv, pending
      <3>7. \A c \in ToSet(calling') : Final(c)'
        BY <2>1, <2>2, <3>2, <3>5, <3>6 DEF Final
      <3>8. \A r \in ToSet(reports) : Final(r)' /\ r.msg \notin ToSet(queue)
        BY <2>1, <2>2, <3>2 DEF Final
      <3> QED BY <2>1, <2>2, <3>4, <3>5, <3>7, <3>8 DEF LogInv
    <2>6. CASE OnStopped
      BY <1>2, <2>1, <2>6 DEF OnStopped
    <2> QED BY <1>5, <2>4, <2>5, <2>6 DEF OnWrite
  <1>6. CASE Callback
    <2> DEFINE c == Head(calling)
    <2>1. /\ calling # <<>> /\ calling' = Tail(calling) /\ UNCHANGED <<queue, accepted, wire>>
          /\ reports' = reports \/ reports' = Append(reports, c)
      BY <1>6 DEF Callback, sockVars
    <2>2. c \in Handler /\ ToSet(calling) = {c} \cup ToSet(calling')
      BY <1>1, <2>1, HeadTailToSet
    <2>3. Distinct(calling') /\ \A d \in ToSet(calling') : d.msg # c.msg
      BY <1>1, <2>1, <2>2, DistinctFacts DEF LogInv
    <2> HIDE DEF c
    <2>4. CASE reports' = reports
      BY <2>1, <2>2, <2>3, <2>4 DEF LogInv, Final
    <2>5. CASE reports' = Append(reports, c)
      <3>1. ToSet(reports') = ToSet(reports) \cup {c}
        BY <1>1, <2>2, <2>5, AppendToSet
      <3>2. \A r \in ToSet(reports) : r.msg # c.msg
        BY <2>2 DEF LogInv
      <3>3. Distinct(reports')
        BY <1>1, <2>2, <2>5, <3>2, DistinctFacts DEF LogInv
      <3> QED BY <2>1, <2>2, <2>3, <3>1, <3>3 DEF LogInv, Final
    <2> QED BY <2>1, <2>4, <2>5
  <1> QED
    BY <1>2, <1>3, <1>4, <1>5, <1>6
       DEF Next, Send, ReaderCloses, IdleTimeout, SendClose, Prepare, WriteFails, Stop,
           vars, connVars, sockVars

\* Every callback is called once at most and is told whether its frame was written,
\* for any frames, threads and failures.
THEOREM CallbacksCorrect == Spec => []CallbacksTellTheTruth
  <1>1. Init => LogInv
    <2>1. ToSet(<<>>) = {} /\ Distinct(<<>>)
      BY DEF ToSet, Distinct
    <2> QED BY <2>1 DEF Init, LogInv
  <1>2. ASSUME IInv, LogInv
        PROVE  CallbacksTellTheTruth
    <2> DEFINE log == reports \o calling
               n == Len(reports)
    <2>1. reports \in Seq([msg : Callbacks, ok : BOOLEAN]) /\ calling \in Seq(Handler)
      BY <1>2 DEF IInv, TypeOK, Handler
    <2>2. reports \in Seq(Handler)
      <3>1. [msg : Callbacks, ok : BOOLEAN] \subseteq Handler
        BY DEF Handler
      <3> QED BY <2>1, <3>1, SeqOfMore
    <2>3. /\ n \in Nat /\ Len(calling) \in Nat
          /\ DOMAIN reports = 1 .. n /\ DOMAIN calling = 1 .. Len(calling)
          /\ DOMAIN log = 1 .. n + Len(calling)
          /\ \A i \in 1 .. n + Len(calling) :
                log[i] = IF i <= n THEN reports[i] ELSE calling[i - n]
      BY <2>1, <2>2, ConcatProperties, LenProperties
    <2> HIDE DEF log, n
    <2>4. \A i \in DOMAIN log :
             \/ i \in DOMAIN reports /\ log[i] = reports[i]
             \/ i - n \in DOMAIN calling /\ i > n /\ log[i] = calling[i - n]
      BY <2>3
    <2>5. ASSUME NEW i \in DOMAIN log
          PROVE  log[i].ok <=> log[i].msg \in ToSet(wire)
      <3>1. log[i] \in ToSet(reports) \cup ToSet(calling)
        BY <2>4 DEF ToSet
      <3> QED BY <1>2, <3>1 DEF LogInv, Final
    <2>6. ASSUME NEW i \in DOMAIN log, NEW j \in DOMAIN log, i # j
          PROVE  log[i].msg # log[j].msg
      <3>0. i \in Nat /\ j \in Nat
        BY <2>3
      <3>1. CASE i \in DOMAIN reports /\ log[i] = reports[i] /\ j \in DOMAIN reports /\ log[j] = reports[j]
        BY <1>2, <2>6, <3>1 DEF LogInv, Distinct
      <3>2. CASE /\ i - n \in DOMAIN calling /\ log[i] = calling[i - n]
                 /\ j - n \in DOMAIN calling /\ log[j] = calling[j - n]
        <4>1. i - n # j - n
          BY <2>3, <2>6, <3>0
        <4> QED BY <1>2, <3>2, <4>1 DEF LogInv, Distinct
      <3>3. CASE log[i] \in ToSet(reports) /\ log[j] \in ToSet(calling)
        BY <1>2, <3>3 DEF LogInv
      <3>4. CASE log[j] \in ToSet(reports) /\ log[i] \in ToSet(calling)
        BY <1>2, <3>4 DEF LogInv
      <3>5. /\ i \in DOMAIN reports => reports[i] \in ToSet(reports)
            /\ j \in DOMAIN reports => reports[j] \in ToSet(reports)
            /\ i - n \in DOMAIN calling => calling[i - n] \in ToSet(calling)
            /\ j - n \in DOMAIN calling => calling[j - n] \in ToSet(calling)
        BY DEF ToSet
      <3> QED BY <2>4, <3>1, <3>2, <3>3, <3>4, <3>5
    <2> QED BY <2>5, <2>6 DEF CallbacksTellTheTruth, log
  <1>3. IInv /\ LogInv /\ [Next]_vars => (IInv /\ LogInv)'
    BY Inductive, NextLog
  <1> QED BY <1>1, <1>2, <1>3, Inductive, PTL DEF Spec

----------------------------------------------------------------------------
(* No callback is forgotten *)

Called(m) == \E r \in ToSet(reports) \cup ToSet(calling) : r.msg = m

KeptInv == \A m \in Callbacks \cap ToSet(accepted) : m \in ToSet(queue) \/ Called(m)

\* A frame with a callback that was accepted waits in the queue or its callback was
\* called or is about to be, never both, although a failed write empties the queue
\* while other threads append to it; and unless the client is destroyed, a frame
\* that waits has the socket or a handler working on the head of the queue.
CallbackNotForgotten ==
    /\ \A m \in Callbacks \cap ToSet(accepted) : m \in ToSet(queue) <=> ~Called(m)
    /\ ~stopped /\ queue # <<>> => Started = {Head(queue)}

\* A step that takes frames out of the queue has their callbacks called.
LEMMA NextKept == IInv /\ KeptInv /\ [Next]_vars => KeptInv'
  <1> SUFFICES ASSUME IInv, KeptInv, [Next]_vars
               PROVE  KeptInv'
    OBVIOUS
  <1>0. /\ queue \in Seq(Msgs) /\ accepted \in Seq(Msgs) /\ HeadInv /\ handlers \subseteq Handler
    BY IInvTypes
  <1>1. calling \in Seq(Handler) /\ reports \in Seq(Handler)
    <2>1. calling \in Seq(Handler) /\ reports \in Seq([msg : Callbacks, ok : BOOLEAN])
      BY DEF IInv, TypeOK, Handler
    <2>2. [msg : Callbacks, ok : BOOLEAN] \subseteq Handler
      BY DEF Handler
    <2> QED BY <2>1, <2>2, SeqOfMore
  <1>2. CASE UNCHANGED <<queue, accepted, calling, reports>>
    BY <1>2 DEF KeptInv, Called
  <1>3. ASSUME NEW t \in Threads, Enqueue(t)
        PROVE  KeptInv'
    <2> DEFINE m == building[t]
    <2>0. /\ m \in Msgs /\ queue' = Append(queue, m) /\ accepted' = Append(accepted, m)
      BY <1>3, PendingEnqueue
    <2>1. /\ ToSet(queue') = ToSet(queue) \cup {m}
          /\ ToSet(accepted') = ToSet(accepted) \cup {m}
      BY <1>0, <2>0, AppendToSet
    <2>2. UNCHANGED <<calling, reports>>
      BY <1>3 DEF Enqueue
    <2> HIDE DEF m
    <2> QED BY <2>1, <2>2 DEF KeptInv, Called
  <1>4. ASSUME NEW h \in handlers, OnWrite(h)
        PROVE  KeptInv'
    <2>1. /\ UNCHANGED <<accepted, reports>> /\ calling = <<>> /\ queue # <<>>
      BY <1>0, <1>4 DEF OnWrite, MainIdle, HeadInv
    <2>2. ToSet(calling) = {}
      BY <2>1 DEF ToSet
    <2>3. CASE ~stopped /\ OnWriteOk(h)
      <3>0. PICK c : c = Report(Head(queue), TRUE)
        OBVIOUS
      <3>1. calling' = <<c>> /\ queue' = Tail(queue) /\ c.msg = Head(queue)
        BY <2>3, <3>0 DEF OnWriteOk, Popped, Report
      <3>2. c \in ToSet(calling')
        BY <3>1 DEF ToSet
      <3>3. ToSet(queue) = {Head(queue)} \cup ToSet(queue')
        BY <1>0, <2>1, <3>1, HeadTailToSet
      <3> QED BY <2>1, <2>2, <3>1, <3>2, <3>3 DEF KeptInv, Called
    <2>4. CASE ~stopped /\ OnWriteError(h)
      <3>1. calling' = [i \in DOMAIN queue |-> Report(queue[i], FALSE)]
        BY <2>4 DEF OnWriteError
      <3>2. ASSUME NEW m \in ToSet(queue)
            PROVE  \E r \in ToSet(calling') : r.msg = m
        <4>1. PICK i \in DOMAIN queue : queue[i] = m
          BY <3>2 DEF ToSet
        <4>2. i \in DOMAIN calling' /\ calling'[i].msg = m
          BY <3>1, <4>1 DEF Report
        <4> QED BY <4>2 DEF ToSet
      <3> QED BY <2>1, <2>2, <3>2 DEF KeptInv, Called
    <2>5. CASE OnStopped
      BY <1>2, <2>1, <2>5 DEF OnStopped
    <2> QED BY <1>4, <2>3, <2>4, <2>5 DEF OnWrite
  <1>5. CASE Callback
    <2> DEFINE c == Head(calling)
    <2>1. /\ calling # <<>> /\ calling' = Tail(calling) /\ UNCHANGED <<queue, accepted>>
          /\ reports' = IF c.msg \in Callbacks THEN Append(reports, c) ELSE reports
      BY <1>5 DEF Callback, HasCallback
    <2>2. c \in Handler /\ ToSet(calling) = {c} \cup ToSet(calling')
      BY <1>1, <2>1, HeadTailToSet
    <2> HIDE DEF c
    <2>3. CASE c.msg \in Callbacks
      <3>1. ToSet(reports') = ToSet(reports) \cup {c}
        BY <1>1, <2>1, <2>2, <2>3, AppendToSet
      <3> QED BY <2>1, <2>2, <3>1 DEF KeptInv, Called
    <2>4. CASE c.msg \notin Callbacks
      BY <2>1, <2>2, <2>4 DEF KeptInv, Called
    <2> QED BY <2>3, <2>4
  <1> QED
    BY <1>2, <1>3, <1>4, <1>5
       DEF Next, Send, ReaderCloses, IdleTimeout, SendClose, Prepare, WriteDone, WriteFails,
           Stop, vars, connVars, sockVars

\* Every accepted frame's callback has its place, and a queue that is not empty has
\* somebody working on it, for any frames, threads and failures: what
\* EveryCallbackCalled needs besides fairness.
THEOREM NotForgottenCorrect == Spec => []CallbackNotForgotten
  <1>1. Init => LogInv /\ KeptInv
    <2>1. ToSet(<<>>) = {} /\ Distinct(<<>>)
      BY DEF ToSet, Distinct
    <2> QED BY <2>1 DEF Init, LogInv, KeptInv
  <1>2. ASSUME IInv, LogInv, KeptInv
        PROVE  CallbackNotForgotten
    <2>1. ASSUME NEW m \in Callbacks \cap ToSet(accepted)
          PROVE  m \in ToSet(queue) <=> ~Called(m)
      BY <1>2 DEF KeptInv, LogInv, Final, Called
    <2>2. OneWriteOfTheHead
      BY <1>2, HeadImpliesOneWrite DEF IInv
    <2> QED BY <2>1, <2>2 DEF CallbackNotForgotten, OneWriteOfTheHead
  <1>3. IInv /\ LogInv /\ KeptInv /\ [Next]_vars => (IInv /\ LogInv /\ KeptInv)'
    BY Inductive, NextLog, NextKept
  <1> QED BY <1>1, <1>2, <1>3, Inductive, PTL DEF Spec
=============================================================================
