---------------------------- MODULE ChannelProofs ----------------------------
(***************************************************************************)
(* Theorems about BoundedChannel for any finite sets of senders and        *)
(* receivers, any positive capacity and any number of calls, and about     *)
(* LogPipeline for any number of entries.  The pipeline is one client of   *)
(* the channel, so what is proved of the channel holds in it.              *)
(***************************************************************************)
EXTENDS LogPipeline, FiniteSetTheorems, SequenceTheorems, TLAPS

\* A thread that may be notified is one of the threads named and is asleep.
LEMMA NotifyOneType ==
    ASSUME NEW T, NEW woken \in NotifyOne(T)
    PROVE  woken \subseteq Asleep(T)
  BY DEF NotifyOne, Asleep

-----------------------------------------------------------------------------
(* Type correctness. *)

LEMMA InitTypeOK == Init => TypeOK
  <1> SUFFICES ASSUME Init
               PROVE  TypeOK
    OBVIOUS
  <1>1. queue \in Seq(Items) /\ delivered \in Seq(Items)
    BY DEF Init
  <1>2. Len(queue) <= Capacity
    BY ChannelAssumption DEF Init, CapacityAssumption
  <1>3. pc \in [Threads -> {"idle", "ready", "asleep"}]
    BY DEF Init
  <1>4. sent \in [Senders -> 0 .. MaxSends]
    BY ChannelAssumption DEF Init, BoundAssumption
  <1>5. \A s \in Senders : pc[s] = "idle"
    BY DEF Init, Threads
  <1>6. QED
    BY <1>1, <1>2, <1>3, <1>4, <1>5 DEF Init, TypeOK

LEMMA ItemType ==
    ASSUME TypeOK, NEW s \in Senders, pc[s] = "ready"
    PROVE  Item(s) \in Items
  <1>1. s \in Threads
    BY DEF Threads
  <1>2. sent[s] \in 1 .. MaxSends
    BY ChannelAssumption DEF TypeOK, BoundAssumption
  <1>3. QED
    BY <1>2 DEF Item, Items

LEMMA ReturnType ==
    ASSUME TypeOK, NEW t \in Threads, NEW woken, Return(t, woken)
    PROVE  /\ pc' \in [Threads -> {"idle", "ready", "asleep"}]
           /\ \A u \in Threads : pc'[u] # "idle" => (pc[u] # "idle" \/ u \in woken)
  BY DEF Return, TypeOK

LEMMA NextTypeOK == TypeOK /\ [Next]_vars => TypeOK'
  <1> SUFFICES ASSUME TypeOK, [Next]_vars
               PROVE  TypeOK'
    OBVIOUS
  <1> USE ChannelAssumption
        DEF CapacityAssumption, BoundAssumption, ThreadsAssumption, Threads
  <1>1. ASSUME NEW s \in Senders, CallSend(s)
        PROVE  TypeOK'
    BY <1>1 DEF CallSend, TypeOK
  <1>2. ASSUME NEW s \in Senders, SendWaits(s)
        PROVE  TypeOK'
    BY <1>2 DEF SendWaits, Wait, TypeOK
  <1>3. ASSUME NEW s \in Senders, SendDiscards(s)
        PROVE  TypeOK'
    <2>1. Item(s) \in Items
      BY <1>3, ItemType DEF SendDiscards
    <2>2. QED
      BY <1>3, <2>1 DEF SendDiscards, Return, TypeOK
  <1>4. ASSUME NEW s \in Senders, SendEnqueues(s)
        PROVE  TypeOK'
    <2>1. Item(s) \in Items
      BY <1>4, ItemType DEF SendEnqueues
    <2>2. queue' \in Seq(Items) /\ Len(queue') <= Capacity
      BY <1>4, <2>1 DEF SendEnqueues, TypeOK
    <2>3. pc' \in [Threads -> {"idle", "ready", "asleep"}]
      BY <1>4, ReturnType DEF SendEnqueues
    <2>4. \A u \in Senders : pc'[u] # "idle" => pc[u] # "idle"
      BY <1>4, ReturnType, NotifyOneType DEF SendEnqueues, Asleep
    <2>5. QED
      BY <1>4, <2>2, <2>3, <2>4 DEF SendEnqueues, TypeOK
  <1>5. ASSUME NEW r \in Receivers, CallReceive(r)
        PROVE  TypeOK'
    BY <1>5 DEF CallReceive, TypeOK
  <1>6. ASSUME NEW r \in Receivers, ReceiveWaits(r)
        PROVE  TypeOK'
    BY <1>6 DEF ReceiveWaits, Wait, TypeOK
  <1>7. ASSUME NEW r \in Receivers, ReceiveExhausted(r)
        PROVE  TypeOK'
    BY <1>7 DEF ReceiveExhausted, Return, TypeOK
  <1>8. ASSUME NEW r \in Receivers, ReceiveDequeues(r)
        PROVE  TypeOK'
    <2>1. queue' \in Seq(Items) /\ Len(queue') <= Capacity
      BY <1>8 DEF ReceiveDequeues, TypeOK
    <2>2. delivered' \in Seq(Items)
      BY <1>8 DEF ReceiveDequeues, TypeOK
    <2>3. pc' \in [Threads -> {"idle", "ready", "asleep"}]
      BY <1>8, ReturnType DEF ReceiveDequeues
    <2>4. \A u \in Senders : pc'[u] # "idle" => pc[u] # "idle"
      BY <1>8, ReturnType, NotifyOneType DEF ReceiveDequeues, Asleep
    <2>5. QED
      BY <1>8, <2>1, <2>2, <2>3, <2>4 DEF ReceiveDequeues, TypeOK
  <1>9. ASSUME NEW t \in Threads, SpuriousWakeup(t)
        PROVE  TypeOK'
    BY <1>9 DEF SpuriousWakeup, TypeOK
  <1>10. CASE Close
    BY <1>10 DEF Close, Asleep, TypeOK
  <1>11. CASE UNCHANGED vars
    BY <1>11 DEF vars, TypeOK
  <1>12. QED
    BY <1>1, <1>2, <1>3, <1>4, <1>5, <1>6, <1>7, <1>8, <1>9, <1>10, <1>11
    DEF Next, Send, Receive

\* Every reachable state is well typed and the queue never holds more than
\* Capacity items (Send waits for size() < capacity_ under the mutex).
THEOREM TypeCorrect == SafeSpec => []TypeOK
  BY InitTypeOK, NextTypeOK, PTL DEF SafeSpec

-----------------------------------------------------------------------------
(* No lost wakeup. *)

\* The number of ready threads of a finite set: how it changes.
LEMMA ReadyFinite ==
    ASSUME NEW T, IsFiniteSet(T)
    PROVE  IsFiniteSet(Ready(T)) /\ Cardinality(Ready(T)) \in Nat
  <1>1. Ready(T) \subseteq T
    BY DEF Ready
  <1>2. QED
    BY <1>1, FS_Subset, FS_CardinalityType

LEMMA ReadyGrows ==
    ASSUME NEW T, IsFiniteSet(T), Ready(T) \subseteq Ready(T)'
    PROVE  Cardinality(Ready(T)) <= Cardinality(Ready(T)')
  <1>1. Ready(T)' \subseteq T
    BY DEF Ready
  <1>2. IsFiniteSet(Ready(T)')
    BY <1>1, FS_Subset
  <1>3. QED
    BY <1>2, FS_Subset

LEMMA ReadyPlusOne ==
    ASSUME NEW T, IsFiniteSet(T), NEW t, t \notin Ready(T),
           Ready(T)' = Ready(T) \cup {t}
    PROVE  Cardinality(Ready(T)') = Cardinality(Ready(T)) + 1
  BY ReadyFinite, FS_AddElement

LEMMA ReadyMinusOne ==
    ASSUME NEW T, IsFiniteSet(T), NEW t, t \in Ready(T),
           Ready(T)' = Ready(T) \ {t}
    PROVE  Cardinality(Ready(T)') = Cardinality(Ready(T)) - 1
  BY ReadyFinite, FS_RemoveElement

LEMMA InitNoLostWakeup == Init => NoLostWakeup
  BY DEF Init, NoLostWakeup, Asleep, Threads

\* An action that only sends threads from asleep or idle to ready, and leaves
\* the queue alone, keeps the invariant.
LEMMA OnlyWakes ==
    ASSUME NoLostWakeup, TypeOK, UNCHANGED <<queue, closed>>,
           \A t \in Threads : pc'[t] = pc[t] \/ pc'[t] = "ready"
    PROVE  NoLostWakeup'
  <1>1. IsFiniteSet(Senders) /\ IsFiniteSet(Receivers)
    BY ChannelAssumption DEF ThreadsAssumption
  <1>2. /\ Ready(Senders) \subseteq Ready(Senders)'
        /\ Ready(Receivers) \subseteq Ready(Receivers)'
    BY DEF Ready, Threads
  <1>3. /\ Asleep(Senders)' \subseteq Asleep(Senders)
        /\ Asleep(Receivers)' \subseteq Asleep(Receivers)
        /\ Asleep(Threads)' \subseteq Asleep(Threads)
    BY DEF Asleep, Threads
  <1>4. /\ Cardinality(Ready(Senders)) \in Nat
        /\ Cardinality(Ready(Receivers)) \in Nat
    BY <1>1, ReadyFinite
  <1>5. /\ Cardinality(Ready(Senders)') \in Nat
        /\ Cardinality(Ready(Receivers)') \in Nat
    <2>1. Ready(Senders)' \subseteq Senders /\ Ready(Receivers)' \subseteq Receivers
      BY DEF Ready
    <2>2. QED
      BY <1>1, <2>1, FS_Subset, FS_CardinalityType
  <1>6. /\ Cardinality(Ready(Senders)) <= Cardinality(Ready(Senders)')
        /\ Cardinality(Ready(Receivers)) <= Cardinality(Ready(Receivers)')
    BY <1>1, <1>2, ReadyGrows
  <1>7. Len(queue) \in Nat /\ Capacity \in Nat
    BY ChannelAssumption DEF TypeOK, CapacityAssumption
  <1>8. QED
    BY <1>3, <1>4, <1>5, <1>6, <1>7 DEF NoLostWakeup

\* Thread t of S ends its call, having used up one item (slot) of the other
\* side, and notify_one wakes at most one thread of T.
LEMMA ReturnReady ==
    ASSUME TypeOK, NEW S, NEW T, S \cap T = {}, S \cup T \subseteq Threads,
           IsFiniteSet(S), IsFiniteSet(T),
           NEW t \in S, pc[t] = "ready",
           NEW woken \in NotifyOne(T), Return(t, woken)
    PROVE  /\ Asleep(S)' = Asleep(S)
           /\ Cardinality(Ready(S)') = Cardinality(Ready(S)) - 1
           /\ Asleep(T) = {} => Asleep(T)' = {}
           /\ Asleep(T) # {} =>
                 Cardinality(Ready(T)') = Cardinality(Ready(T)) + 1
  <1>1. woken \subseteq Asleep(T)
    BY NotifyOneType
  <1>2. \A u \in S : u # t => pc'[u] = pc[u]
    BY <1>1 DEF Return, Asleep
  <1>3. pc'[t] = "idle"
    BY DEF Return
  <1>4. Asleep(S)' = Asleep(S)
    BY <1>2, <1>3 DEF Asleep
  <1>5. Ready(S)' = Ready(S) \ {t} /\ t \in Ready(S)
    BY <1>2, <1>3 DEF Ready
  <1>6. Cardinality(Ready(S)') = Cardinality(Ready(S)) - 1
    BY <1>5, ReadyMinusOne
  <1>7. ASSUME Asleep(T) = {}
        PROVE  Asleep(T)' = {}
    BY <1>1, <1>7 DEF Return, Asleep
  <1>8. ASSUME Asleep(T) # {}
        PROVE  Cardinality(Ready(T)') = Cardinality(Ready(T)) + 1
    <2>1. PICK w \in Asleep(T) : woken = {w}
      BY <1>8 DEF NotifyOne
    <2>2. w \notin Ready(T)
      BY <2>1 DEF Asleep, Ready
    <2>3. Ready(T)' = Ready(T) \cup {w}
      BY <2>1 DEF Return, Asleep, Ready
    <2>4. QED
      BY <2>2, <2>3, ReadyPlusOne
  <1>9. QED
    BY <1>4, <1>6, <1>7, <1>8

LEMMA NextNoLostWakeup ==
    TypeOK /\ NoLostWakeup /\ [Next]_vars => NoLostWakeup'
  <1> SUFFICES ASSUME TypeOK, NoLostWakeup, [Next]_vars
               PROVE  NoLostWakeup'
    OBVIOUS
  <1> USE ChannelAssumption DEF CapacityAssumption
  <1>a. /\ IsFiniteSet(Senders) /\ IsFiniteSet(Receivers)
        /\ Senders \cap Receivers = {}
        /\ Senders \cup Receivers \subseteq Threads
        /\ Asleep(Threads) = Asleep(Senders) \cup Asleep(Receivers)
        /\ Asleep(Threads)' = Asleep(Senders)' \cup Asleep(Receivers)'
    BY DEF ThreadsAssumption, Threads, Asleep
  <1>b. /\ Cardinality(Ready(Senders)) \in Nat
        /\ Cardinality(Ready(Receivers)) \in Nat
        /\ Len(queue) \in Nat /\ Capacity \in Nat
    BY <1>a, ReadyFinite DEF TypeOK
  <1>1. ASSUME NEW s \in Senders, CallSend(s)
        PROVE  NoLostWakeup'
    BY <1>1, OnlyWakes DEF CallSend, TypeOK
  <1>2. ASSUME NEW s \in Senders, SendWaits(s)
        PROVE  NoLostWakeup'
    <2>1. /\ Asleep(Receivers)' = Asleep(Receivers)
          /\ Ready(Receivers)' = Ready(Receivers)
      BY <1>2, <1>a DEF SendWaits, Wait, Asleep, Ready, TypeOK
    <2>2. Cardinality(Ready(Senders)') \in Nat
      <3>1. Ready(Senders)' \subseteq Senders
        BY DEF Ready
      <3>2. QED
        BY <3>1, <1>a, FS_Subset, FS_CardinalityType
    <2>3. QED
      BY <1>2, <1>b, <2>1, <2>2 DEF SendWaits, NoLostWakeup
  <1>3. ASSUME NEW s \in Senders, SendDiscards(s)
        PROVE  NoLostWakeup'
    <2>1. Asleep(Threads) = {} /\ Asleep(Threads)' = {}
      BY <1>3 DEF SendDiscards, Return, Asleep, NoLostWakeup
    <2>2. QED
      BY <2>1, <1>a DEF NoLostWakeup
  <1>4. ASSUME NEW s \in Senders, SendEnqueues(s)
        PROVE  NoLostWakeup'
    <2>1. /\ Asleep(Senders)' = Asleep(Senders)
          /\ Cardinality(Ready(Senders)') = Cardinality(Ready(Senders)) - 1
          /\ Asleep(Receivers) = {} => Asleep(Receivers)' = {}
          /\ Asleep(Receivers) # {} =>
                Cardinality(Ready(Receivers)')
                    = Cardinality(Ready(Receivers)) + 1
      BY <1>4, <1>a, ReturnReady DEF SendEnqueues
    <2>2. Len(queue') = Len(queue) + 1
      BY <1>4 DEF SendEnqueues, TypeOK
    <2>3. ~closed'
      BY <1>4 DEF SendEnqueues
    <2>4. QED
      BY <1>b, <2>1, <2>2, <2>3 DEF NoLostWakeup
  <1>5. ASSUME NEW r \in Receivers, CallReceive(r)
        PROVE  NoLostWakeup'
    BY <1>5, OnlyWakes DEF CallReceive, TypeOK
  <1>6. ASSUME NEW r \in Receivers, ReceiveWaits(r)
        PROVE  NoLostWakeup'
    <2>1. /\ Asleep(Senders)' = Asleep(Senders)
          /\ Ready(Senders)' = Ready(Senders)
      BY <1>6, <1>a DEF ReceiveWaits, Wait, Asleep, Ready, TypeOK
    <2>2. Cardinality(Ready(Receivers)') \in Nat
      <3>1. Ready(Receivers)' \subseteq Receivers
        BY DEF Ready
      <3>2. QED
        BY <3>1, <1>a, FS_Subset, FS_CardinalityType
    <2>3. Len(queue') = 0
      BY <1>6 DEF ReceiveWaits
    <2>4. QED
      BY <1>6, <1>b, <2>1, <2>2, <2>3 DEF ReceiveWaits, NoLostWakeup
  <1>7. ASSUME NEW r \in Receivers, ReceiveExhausted(r)
        PROVE  NoLostWakeup'
    <2>1. Asleep(Threads) = {} /\ Asleep(Threads)' = {}
      BY <1>7 DEF ReceiveExhausted, Return, Asleep, NoLostWakeup
    <2>2. QED
      BY <2>1, <1>a DEF NoLostWakeup
  <1>8. ASSUME NEW r \in Receivers, ReceiveDequeues(r)
        PROVE  NoLostWakeup'
    <2>1. /\ Asleep(Receivers)' = Asleep(Receivers)
          /\ Cardinality(Ready(Receivers)')
                = Cardinality(Ready(Receivers)) - 1
          /\ Asleep(Senders) = {} => Asleep(Senders)' = {}
          /\ Asleep(Senders) # {} =>
                Cardinality(Ready(Senders)') = Cardinality(Ready(Senders)) + 1
      BY <1>8, <1>a, ReturnReady DEF ReceiveDequeues
    <2>2. Len(queue') = Len(queue) - 1
      BY <1>8 DEF ReceiveDequeues, TypeOK
    <2>3. closed => Asleep(Threads)' = {}
      BY <1>a, <2>1 DEF NoLostWakeup
    <2>4. QED
      BY <1>8, <1>b, <2>1, <2>2, <2>3 DEF ReceiveDequeues, NoLostWakeup
  <1>9. ASSUME NEW t \in Threads, SpuriousWakeup(t)
        PROVE  NoLostWakeup'
    BY <1>9, OnlyWakes DEF SpuriousWakeup, TypeOK
  <1>10. CASE Close
    <2>1. Asleep(Threads)' = {}
      BY <1>10 DEF Close, Asleep
    <2>2. QED
      BY <2>1, <1>a DEF NoLostWakeup
  <1>11. CASE UNCHANGED vars
    BY <1>11 DEF vars, NoLostWakeup, Asleep, Ready
  <1>12. QED
    BY <1>1, <1>2, <1>3, <1>4, <1>5, <1>6, <1>7, <1>8, <1>9, <1>10, <1>11
    DEF Next, Send, Receive, Threads

\* For any finite number of senders and receivers, notify_one suffices: no
\* thread sleeps on while an item or a slot is there that nobody is about to
\* take, and nobody sleeps once Close has run.
THEOREM NoWakeupIsLost == SafeSpec => []NoLostWakeup
  BY TypeCorrect, InitNoLostWakeup, NextNoLostWakeup, PTL DEF SafeSpec

-----------------------------------------------------------------------------
(* nullopt is final. *)

LEMMA NextExhaustedIsFinal ==
    ASSUME TypeOK, ExhaustedIsFinal, [Next]_vars
    PROVE  ExhaustedIsFinal'
  <1> USE DEF ExhaustedIsFinal
  <1>1. ASSUME NEW s \in Senders, CallSend(s) \/ Send(s)
        PROVE  ExhaustedIsFinal'
    BY <1>1 DEF CallSend, Send, SendWaits, SendDiscards, SendEnqueues
  <1>2. ASSUME NEW r \in Receivers, CallReceive(r) \/ Receive(r)
        PROVE  ExhaustedIsFinal'
    BY <1>2 DEF CallReceive, Receive, ReceiveWaits, ReceiveExhausted,
                ReceiveDequeues
  <1>3. ASSUME NEW t \in Threads, SpuriousWakeup(t)
        PROVE  ExhaustedIsFinal'
    BY <1>3 DEF SpuriousWakeup
  <1>4. CASE Close
    BY <1>4 DEF Close
  <1>5. CASE UNCHANGED vars
    BY <1>5 DEF vars
  <1>6. QED
    BY <1>1, <1>2, <1>3, <1>4, <1>5 DEF Next

\* Once a Receive has returned nullopt the channel stays closed and empty, so
\* a consumer that stops at the first nullopt misses nothing.
THEOREM ExhaustionIsFinal == SafeSpec => []ExhaustedIsFinal
  <1>1. Init => ExhaustedIsFinal
    BY DEF Init, ExhaustedIsFinal
  <1>2. QED
    BY <1>1, NextExhaustedIsFinal, TypeCorrect, PTL DEF SafeSpec

-----------------------------------------------------------------------------
(* Order, loss and duplication. *)

\* Receiving moves an item from the queue to the delivered ones.
LEMMA MoveHead ==
    ASSUME NEW S, NEW d \in Seq(S), NEW q \in Seq(S), q # <<>>
    PROVE  Append(d, Head(q)) \o Tail(q) = d \o q
  <1>1. q = <<Head(q)>> \o Tail(q)
    OBVIOUS
  <1>2. QED
    OBVIOUS

LEMMA AppendToConcat ==
    ASSUME NEW S, NEW d \in Seq(S), NEW q \in Seq(S), NEW x \in S
    PROVE  d \o Append(q, x) = Append(d \o q, x)
  OBVIOUS
\* A step that neither accepts nor drops an item and ends no Send keeps FIFO.
LEMMA FifoFrame ==
    ASSUME FifoPerSender,
           Accepted' = Accepted, dropped' = dropped, closed => closed',
           \A s \in Senders, n \in 1 .. MaxSends :
               Returned(s, n)' <=> Returned(s, n)
    PROVE  FifoPerSender'
  <1>1. InOrder' /\ DroppedIsSuffix' /\ (dropped' # {} => closed')
    BY DEF FifoPerSender, InOrder, DroppedIsSuffix
  <1>2. \A x : Kept(x)' <=> Kept(x)
    BY DEF Kept
  <1>3. Accounted'
    BY <1>2 DEF FifoPerSender, Accounted
  <1>4. QED
    BY <1>1, <1>3 DEF FifoPerSender

\* An accepted item of the sender s now in Send comes from an earlier call.
LEMMA AcceptedBefore ==
    ASSUME TypeOK, FifoPerSender, NEW s \in Senders, pc[s] = "ready",
           NEW i \in 1 .. Len(Accepted), Accepted[i][1] = s
    PROVE  Accepted[i][2] < sent[s]
  <1>1. Accepted \in Seq(Items)
    BY ConcatProperties DEF TypeOK, Accepted
  <1>2. PICK a \in Senders, n \in 1 .. MaxSends : Accepted[i] = <<a, n>>
    BY <1>1, ElementOfSeq DEF Items
  <1>3. a = s /\ Kept(<<s, n>>)
    BY <1>2 DEF Kept
  <1>4. Returned(s, n)
    BY <1>3 DEF FifoPerSender, Accounted
  <1>5. QED
    BY <1>2, <1>4 DEF Returned

LEMMA NextFifoPerSender ==
    TypeOK /\ FifoPerSender /\ [Next]_vars => FifoPerSender'
  <1> SUFFICES ASSUME TypeOK, FifoPerSender, [Next]_vars
               PROVE  FifoPerSender'
    OBVIOUS
  <1> USE ChannelAssumption DEF BoundAssumption
  <1>a. Accepted \in Seq(Items)
    BY ConcatProperties DEF TypeOK, Accepted
  <1>b. Senders \subseteq Threads /\ Receivers \cap Senders = {}
    BY DEF Threads, ThreadsAssumption
  <1>c. \A s \in Senders : sent[s] \in 0 .. MaxSends
    BY DEF TypeOK
  <1>1. ASSUME NEW s \in Senders, CallSend(s)
        PROVE  FifoPerSender'
    <2>1. \A u \in Senders, n \in 1 .. MaxSends :
              Returned(u, n)' <=> Returned(u, n)
      BY <1>1, <1>b, <1>c DEF CallSend, Returned, TypeOK
    <2>2. QED
      BY <1>1, <2>1, FifoFrame DEF CallSend, Accepted
  <1>2. ASSUME NEW s \in Senders, SendWaits(s)
        PROVE  FifoPerSender'
    <2>1. \A u \in Senders, n \in 1 .. MaxSends :
              Returned(u, n)' <=> Returned(u, n)
      BY <1>2, <1>b, <1>c DEF SendWaits, Wait, Returned, TypeOK
    <2>2. QED
      BY <1>2, <2>1, FifoFrame DEF SendWaits, Accepted
  <1>3. ASSUME NEW s \in Senders, SendDiscards(s)
        PROVE  FifoPerSender'
    <2>1. Accepted' = Accepted
      BY <1>3 DEF SendDiscards, Accepted
    <2>2. InOrder' /\ (dropped' # {} => closed')
      BY <1>3, <2>1 DEF SendDiscards, FifoPerSender, InOrder
    <2>3. DroppedIsSuffix'
      <3> SUFFICES ASSUME NEW i \in 1 .. Len(Accepted), NEW d \in dropped',
                          Accepted[i][1] = d[1]
                   PROVE  Accepted[i][2] < d[2]
        BY <2>1 DEF DroppedIsSuffix
      <3>1. CASE d \in dropped
        BY <3>1 DEF FifoPerSender, DroppedIsSuffix
      <3>2. CASE d = Item(s)
        BY <1>3, <3>2, AcceptedBefore DEF SendDiscards, Item
      <3>3. QED
        BY <1>3, <3>1, <3>2 DEF SendDiscards
    <2>4. \A x : Kept(x)' <=> Kept(x)
      BY <2>1 DEF Kept
    <2>5. Accounted'
      <3> SUFFICES ASSUME NEW u \in Senders, NEW n \in 1 .. MaxSends
                   PROVE  IF Returned(u, n)'
                          THEN Kept(<<u, n>>) # (<<u, n>> \in dropped')
                          ELSE ~Kept(<<u, n>>) /\ <<u, n>> \notin dropped'
        BY <2>4 DEF Accounted
      <3>1. IF Returned(u, n) THEN Kept(<<u, n>>) # (<<u, n>> \in dropped)
            ELSE ~Kept(<<u, n>>) /\ <<u, n>> \notin dropped
        BY DEF FifoPerSender, Accounted
      <3>2. CASE u = s /\ n = sent[s]
        <4>1. ~Returned(u, n) /\ Returned(u, n)'
          BY <1>3, <1>b, <1>c, <3>2 DEF SendDiscards, Return, Returned
        <4>2. <<u, n>> \in dropped'
          BY <1>3, <3>2 DEF SendDiscards, Item
        <4>3. QED
          BY <3>1, <4>1, <4>2
      <3>3. CASE ~(u = s /\ n = sent[s])
        <4>1. Returned(u, n)' <=> Returned(u, n)
          BY <1>3, <1>b, <1>c, <3>3 DEF SendDiscards, Return, Returned
        <4>2. <<u, n>> \in dropped' <=> <<u, n>> \in dropped
          BY <1>3, <3>3 DEF SendDiscards, Item
        <4>3. QED
          BY <3>1, <4>1, <4>2
      <3>4. QED
        BY <3>2, <3>3
    <2>6. QED
      BY <2>2, <2>3, <2>5 DEF FifoPerSender
  <1>4. ASSUME NEW s \in Senders, SendEnqueues(s)
        PROVE  FifoPerSender'
    <2>1. Item(s) \in Items
      BY <1>4, ItemType DEF SendEnqueues
    <2>2. Accepted' = Append(Accepted, Item(s))
      BY <1>4, <2>1, AppendToConcat DEF SendEnqueues, Accepted, TypeOK
    <2>3. dropped = {} /\ dropped' = {}
      BY <1>4 DEF SendEnqueues, FifoPerSender
    <2>4. /\ Len(Accepted') = Len(Accepted) + 1
          /\ Accepted'[Len(Accepted) + 1] = <<s, sent[s]>>
          /\ \A i \in 1 .. Len(Accepted) : Accepted'[i] = Accepted[i]
          /\ Len(Accepted) \in Nat
      BY <1>a, <2>1, <2>2, AppendProperties DEF Item
    <2>5. \A i \in 1 .. Len(Accepted) :
              Accepted[i][1] = s => Accepted[i][2] < sent[s]
      BY <1>4, AcceptedBefore DEF SendEnqueues
    <2>6. InOrder'
      <3> SUFFICES ASSUME NEW i \in 1 .. Len(Accepted'),
                          NEW j \in 1 .. Len(Accepted'),
                          i < j, Accepted'[i][1] = Accepted'[j][1]
                   PROVE  Accepted'[i][2] < Accepted'[j][2]
        BY DEF InOrder
      <3>1. i \in 1 .. Len(Accepted)
        BY <2>4
      <3>2. CASE j \in 1 .. Len(Accepted)
        BY <2>4, <3>1, <3>2 DEF FifoPerSender, InOrder
      <3>3. CASE j = Len(Accepted) + 1
        BY <2>4, <2>5, <3>1, <3>3
      <3>4. QED
        BY <2>4, <3>2, <3>3
    <2>7. \A x : Kept(x)' <=> (Kept(x) \/ x = <<s, sent[s]>>)
      <3> SUFFICES ASSUME NEW x
                   PROVE  Kept(x)' <=> (Kept(x) \/ x = <<s, sent[s]>>)
        OBVIOUS
      <3>1. 1 .. Len(Accepted') = (1 .. Len(Accepted)) \cup {Len(Accepted) + 1}
        BY <2>4
      <3>2. Kept(x)' <=> \E i \in 1 .. Len(Accepted') : Accepted'[i] = x
        BY DEF Kept
      <3>3. QED
        BY <2>4, <3>1, <3>2, Zenon DEF Kept
    <2>8. Accounted'
      <3> SUFFICES ASSUME NEW u \in Senders, NEW n \in 1 .. MaxSends
                   PROVE  IF Returned(u, n)' THEN Kept(<<u, n>>)'
                          ELSE ~Kept(<<u, n>>)'
        BY <2>3 DEF Accounted
      <3>1. Returned(u, n) <=> Kept(<<u, n>>)
        <4>1. IF Returned(u, n) THEN Kept(<<u, n>>) # (<<u, n>> \in dropped)
              ELSE ~Kept(<<u, n>>) /\ <<u, n>> \notin dropped
          BY DEF FifoPerSender, Accounted
        <4>2. <<u, n>> \notin dropped /\ Kept(<<u, n>>) \in BOOLEAN
          BY <2>3 DEF Kept
        <4>3. CASE Returned(u, n)
          BY <4>1, <4>2, <4>3
        <4>4. CASE ~Returned(u, n)
          BY <4>1, <4>4
        <4>5. QED
          BY <4>3, <4>4
      <3>2. \A v \in Senders : v # s => (pc'[v] = "idle" <=> pc[v] = "idle")
        BY <1>4, <1>b, NotifyOneType DEF SendEnqueues, Return, Asleep
      <3>3. pc'[s] = "idle" /\ pc[s] # "idle" /\ sent' = sent
        BY <1>4, <1>b DEF SendEnqueues, Return
      <3>4. CASE u = s /\ n = sent[s]
        BY <1>c, <2>7, <3>3, <3>4 DEF Returned
      <3>5. CASE ~(u = s /\ n = sent[s])
        <4>1. Returned(u, n)' <=> Returned(u, n)
          BY <1>c, <3>2, <3>3, <3>5 DEF Returned
        <4>2. Kept(<<u, n>>)' <=> Kept(<<u, n>>)
          BY <2>7, <3>5
        <4>3. QED
          BY <3>1, <4>1, <4>2
      <3>6. QED
        BY <3>4, <3>5
    <2>9. DroppedIsSuffix'
      BY <2>3 DEF DroppedIsSuffix
    <2>10. QED
      BY <2>3, <2>6, <2>8, <2>9 DEF FifoPerSender
  <1>5. ASSUME NEW r \in Receivers, CallReceive(r) \/ ReceiveWaits(r)
                                    \/ ReceiveExhausted(r)
        PROVE  FifoPerSender'
    <2>1. \A u \in Senders : pc'[u] = pc[u]
      BY <1>5, <1>b
      DEF CallReceive, ReceiveWaits, Wait, ReceiveExhausted, Return, TypeOK
    <2>2. UNCHANGED <<queue, closed, sent, delivered, dropped>>
      BY <1>5 DEF CallReceive, ReceiveWaits, ReceiveExhausted
    <2>3. \A u \in Senders, n \in 1 .. MaxSends :
              Returned(u, n)' <=> Returned(u, n)
      BY <2>1, <2>2 DEF Returned
    <2>4. QED
      BY <2>2, <2>3, FifoFrame DEF Accepted
  <1>6. ASSUME NEW r \in Receivers, ReceiveDequeues(r)
        PROVE  FifoPerSender'
    <2>1. \A u \in Senders : pc'[u] = "idle" <=> pc[u] = "idle"
      BY <1>6, <1>b, NotifyOneType DEF ReceiveDequeues, Return, Asleep
    <2>2. \A u \in Senders, n \in 1 .. MaxSends :
              Returned(u, n)' <=> Returned(u, n)
      BY <1>6, <2>1 DEF ReceiveDequeues, Returned
    <2>3. Accepted' = Accepted
      BY <1>6, MoveHead DEF ReceiveDequeues, Accepted, TypeOK
    <2>4. QED
      BY <1>6, <2>2, <2>3, FifoFrame DEF ReceiveDequeues
  <1>7. ASSUME NEW t \in Threads, SpuriousWakeup(t)
        PROVE  FifoPerSender'
    <2>1. \A u \in Senders, n \in 1 .. MaxSends :
              Returned(u, n)' <=> Returned(u, n)
      BY <1>7, <1>b DEF SpuriousWakeup, Returned, TypeOK
    <2>2. QED
      BY <1>7, <2>1, FifoFrame DEF SpuriousWakeup, Accepted
  <1>8. CASE Close
    <2>1. \A u \in Senders, n \in 1 .. MaxSends :
              Returned(u, n)' <=> Returned(u, n)
      BY <1>8, <1>b DEF Close, Asleep, Returned
    <2>2. QED
      BY <1>8, <2>1, FifoFrame DEF Close, Accepted
  <1>9. CASE UNCHANGED vars
    <2>1. \A u \in Senders, n \in 1 .. MaxSends :
              Returned(u, n)' <=> Returned(u, n)
      BY <1>9 DEF vars, Returned
    <2>2. QED
      BY <1>9, <2>1, FifoFrame DEF vars, Accepted
  <1>10. QED
    BY <1>1, <1>2, <1>3, <1>4, <1>5, <1>6, <1>7, <1>8, <1>9
    DEF Next, Send, Receive

LEMMA InitFifoPerSender == Init => FifoPerSender
  <1> SUFFICES ASSUME Init
               PROVE  FifoPerSender
    OBVIOUS
  <1>1. Accepted = <<>> /\ Len(Accepted) = 0 /\ dropped = {}
    BY DEF Init, Accepted
  <1>2. \A s \in Senders, n \in 1 .. MaxSends : ~Returned(s, n)
    BY ChannelAssumption DEF Init, Returned, BoundAssumption
  <1>3. \A x : ~Kept(x)
    BY <1>1 DEF Kept
  <1>4. Accounted
    BY <1>1, <1>2, <1>3 DEF Accounted
  <1>5. InOrder /\ DroppedIsSuffix
    BY <1>1 DEF InOrder, DroppedIsSuffix
  <1>6. QED
    BY <1>1, <1>4, <1>5 DEF FifoPerSender

\* No item is lost, duplicated or reordered within its sender, for any number
\* of senders, receivers and calls, blocking, spurious wakeups and a racing
\* Close included; items are dropped only once the channel is closed.
THEOREM NothingLost == SafeSpec => []FifoPerSender
  BY TypeCorrect, InitFifoPerSender, NextFifoPerSender, PTL DEF SafeSpec

-----------------------------------------------------------------------------
(* BoundedChannel implements FifoChannel, safety part. *)

Pending == {t \in Threads : pc[t] # "idle"}

LEMMA InitRefines == Init => Channel!Init
  BY DEF Init, Channel!Init

\* A woken thread was asleep, hence pending already: a call that returns
\* changes what is pending by the returning thread only.
LEMMA ReturnRefines ==
    ASSUME TypeOK, NEW t \in Threads, NEW T, NEW woken \in NotifyOne(T),
           Return(t, woken)
    PROVE  Pending' = Pending \ {t}
  <1>1. \A u \in woken : pc[u] = "asleep"
    BY NotifyOneType DEF Asleep
  <1>2. QED
    BY <1>1 DEF Return, Pending, TypeOK

LEMMA ReturnAloneRefines ==
    ASSUME TypeOK, NEW t \in Threads, Return(t, {})
    PROVE  Pending' = Pending \ {t}
  BY DEF Return, Pending, TypeOK

LEMMA NextRefines == TypeOK /\ [Next]_vars => [Channel!Next]_(Channel!vars)
  <1> SUFFICES ASSUME TypeOK, [Next]_vars
               PROVE  Channel!Next \/ UNCHANGED Channel!vars
    OBVIOUS
  <1> USE DEF Threads
  <1>1. ASSUME NEW s \in Senders, CallSend(s)
        PROVE  Channel!BeginSend(s)
    BY <1>1 DEF CallSend, TypeOK, Channel!BeginSend
  <1>2. ASSUME NEW s \in Senders, SendWaits(s)
        PROVE  UNCHANGED Channel!vars
    <2>1. Pending' = Pending
      BY <1>2 DEF SendWaits, Wait, Pending, TypeOK
    <2>2. QED
      BY <1>2, <2>1 DEF SendWaits, Pending, Channel!vars
  <1>3. ASSUME NEW s \in Senders, SendDiscards(s)
        PROVE  Channel!Drop(s)
    <2>1. Pending' = Pending \ {s} /\ s \in Pending
      BY <1>3, ReturnAloneRefines DEF SendDiscards, Pending
    <2>2. QED
      BY <1>3, <2>1 DEF SendDiscards, Pending, Item, Channel!Drop, Channel!Item
  <1>4. ASSUME NEW s \in Senders, SendEnqueues(s)
        PROVE  Channel!Accept(s)
    <2>1. Pending' = Pending \ {s} /\ s \in Pending
      BY <1>4, ReturnRefines DEF SendEnqueues, Pending
    <2>2. QED
      BY <1>4, <2>1 DEF SendEnqueues, Pending, Item, Channel!Accept,
                        Channel!Item
  <1>5. ASSUME NEW r \in Receivers, CallReceive(r)
        PROVE  Channel!BeginReceive(r)
    BY <1>5 DEF CallReceive, TypeOK, Channel!BeginReceive
  <1>6. ASSUME NEW r \in Receivers, ReceiveWaits(r)
        PROVE  UNCHANGED Channel!vars
    <2>1. Pending' = Pending
      BY <1>6 DEF ReceiveWaits, Wait, Pending, TypeOK
    <2>2. QED
      BY <1>6, <2>1 DEF ReceiveWaits, Pending, Channel!vars
  <1>7. ASSUME NEW r \in Receivers, ReceiveExhausted(r)
        PROVE  Channel!Exhaust(r)
    <2>1. Pending' = Pending \ {r} /\ r \in Pending
      BY <1>7, ReturnAloneRefines DEF ReceiveExhausted, Pending
    <2>2. QED
      BY <1>7, <2>1 DEF ReceiveExhausted, Pending, Channel!Exhaust
  <1>8. ASSUME NEW r \in Receivers, ReceiveDequeues(r)
        PROVE  Channel!Deliver(r)
    <2>1. Pending' = Pending \ {r} /\ r \in Pending
      BY <1>8, ReturnRefines DEF ReceiveDequeues, Pending
    <2>2. QED
      BY <1>8, <2>1 DEF ReceiveDequeues, Pending, Channel!Deliver
  <1>9. ASSUME NEW t \in Threads, SpuriousWakeup(t)
        PROVE  UNCHANGED Channel!vars
    <2>1. Pending' = Pending
      BY <1>9 DEF SpuriousWakeup, Pending, TypeOK
    <2>2. QED
      BY <1>9, <2>1 DEF SpuriousWakeup, Pending, Channel!vars
  <1>10. CASE Close
    <2>1. Pending' = Pending
      BY <1>10 DEF Close, Asleep, Pending, TypeOK
    <2>2. Channel!Shut
      BY <1>10, <2>1 DEF Close, Pending, Channel!Shut
    <2>3. QED
      BY <2>2 DEF Channel!Next
  <1>11. CASE UNCHANGED vars
    BY <1>11 DEF vars, Channel!vars
  <1>12. QED
    BY <1>1, <1>2, <1>3, <1>4, <1>5, <1>6, <1>7, <1>8, <1>9, <1>10, <1>11
    DEF Next, Send, Receive, Channel!Next

\* Every execution of the mutex-and-condition-variable protocol is, seen from
\* outside, an execution of FifoChannel: waiting, waking and notifying are
\* invisible to the callers.
THEOREM Refinement == SafeSpec => Channel!SafeSpec
  BY InitRefines, NextRefines, TypeCorrect, PTL
  DEF SafeSpec, Channel!SafeSpec

-----------------------------------------------------------------------------
(* The pipeline: NothingLostOnTheWay is the inductive invariant that ties   *)
(* the channel to its two threads.                                         *)

LEMMA TwoThreads ==
    /\ Main \in Senders /\ Dispatcher \in Receivers
    /\ Main \in Threads /\ Dispatcher \in Threads
    /\ Main # Dispatcher
  BY LogAssumption, ChannelAssumption DEF ThreadsAssumption, Threads

\* A step of the pipeline is a step of the channel, or leaves it alone.
LEMMA StepOfChannel == [LogNext]_logVars => [Next]_vars
  <1> USE TwoThreads
  <1>1. Log \/ Conclude => Next
    BY DEF Log, Conclude, Next
  <1>2. LogSends => Next
    BY DEF LogSends, Next
  <1>3. CloseLog => Next
    BY DEF CloseLog, Next
  <1>4. AskForEntry => Next
    BY DEF AskForEntry, Next
  <1>5. WaitForEntry \/ TakeEntry \/ Stop => Next
    BY DEF WaitForEntry, TakeEntry, Stop, Receive, Next
  <1>6. Wakeup => Next
    BY DEF Wakeup, Next
  <1>7. GiveUp \/ Concluded \/ JoinLog \/ WriteEntry => UNCHANGED vars
    BY DEF GiveUp, Concluded, JoinLog, WriteEntry
  <1>8. UNCHANGED logVars => UNCHANGED vars
    BY DEF logVars
  <1>9. QED
    BY <1>1, <1>2, <1>3, <1>4, <1>5, <1>6, <1>7, <1>8
    DEF LogNext, MainNext, Shutdown, DispatcherNext

\* main, LogProducer and LogDispatcher use the channel as any client may, so
\* every theorem above holds in the pipeline.
THEOREM UsesTheChannel == LogSafeSpec => SafeSpec
  <1>1. LogInit => Init
    BY DEF LogInit
  <1>2. QED
    BY <1>1, StepOfChannel, PTL DEF LogSafeSpec, SafeSpec

-----------------------------------------------------------------------------
(* The inductive invariant. *)

LEMMA InitNothingLost == LogInit => NothingLostOnTheWay
  <1> SUFFICES ASSUME LogInit
               PROVE  NothingLostOnTheWay
    OBVIOUS
  <1>1. TypeOK
    BY InitTypeOK DEF LogInit
  <1>2. pc[Main] = "idle" /\ sent[Main] = 0 /\ queue = <<>> /\ ~closed
    BY TwoThreads DEF LogInit, Init
  <1>3. LogTypeOK
    BY <1>1 DEF LogInit, LogTypeOK, AppStates, WriterStates
  <1>4. Logged(Sent) = <<>>
    BY <1>2 DEF Logged, Sent
  <1>5. QED
    BY <1>2, <1>3, <1>4 DEF LogInit, NothingLostOnTheWay

\* A step that touches neither main's calls nor the entries.
LEMMA SameEntries ==
    ASSUME NothingLostOnTheWay, UNCHANGED <<queue, held, written, sent>>,
           (pc'[Main] = "idle") <=> (pc[Main] = "idle")
    PROVE  ((written \o held) \o queue = Logged(Sent))'
  BY DEF NothingLostOnTheWay, Sent, Logged

\* One entry more.
LEMMA LoggedNext ==
    ASSUME NEW n \in Nat
    PROVE  Logged(n + 1) = Append(Logged(n), <<Main, n + 1>>)
  BY DEF Logged

LEMMA StepNothingLost ==
    NothingLostOnTheWay /\ [LogNext]_logVars => NothingLostOnTheWay'
  <1> SUFFICES ASSUME NothingLostOnTheWay, [LogNext]_logVars
               PROVE  NothingLostOnTheWay'
    OBVIOUS
  <1>1. TypeOK /\ TypeOK'
    BY StepOfChannel, NextTypeOK DEF NothingLostOnTheWay, LogTypeOK
  <1>2. sent[Main] \in Nat /\ pc[Main] \in {"idle", "ready", "asleep"}
    BY <1>1, TwoThreads DEF TypeOK
  <1> USE TwoThreads
  <1>3. CASE Log \/ Conclude
    <2>1. /\ pc[Main] = "idle" /\ sent' = [sent EXCEPT ![Main] = @ + 1]
          /\ pc' = [pc EXCEPT ![Main] = "ready"]
          /\ app = "running" /\ app' \in {"running", "concluding"}
          /\ UNCHANGED <<queue, closed, writer, held, written>>
      BY <1>3 DEF Log, Conclude, CallSend
    <2>2. sent'[Main] = sent[Main] + 1 /\ pc'[Main] = "ready"
          /\ pc'[Dispatcher] = pc[Dispatcher]
      BY <1>1, <2>1 DEF TypeOK
    <2>3. Sent' = Sent
      BY <1>2, <2>1, <2>2 DEF Sent
    <2>4. LogTypeOK'
      BY <1>1, <2>1 DEF NothingLostOnTheWay, LogTypeOK, AppStates
    <2>5. QED
      BY <2>1, <2>2, <2>3, <2>4 DEF NothingLostOnTheWay, Logged
  <1>4. CASE LogSends
    <2> USE DEF LogSends
    <2>1. pc[Main] = "ready" /\ UNCHANGED <<app, writer, held, written, closed>>
      BY <1>4 DEF Send, SendWaits, SendDiscards, SendEnqueues
    <2>2. ~closed
      BY <2>1 DEF NothingLostOnTheWay, LogTypeOK
    <2>3. CASE SendWaits(Main)
      <3>1. /\ pc' = [pc EXCEPT ![Main] = "asleep"]
            /\ UNCHANGED <<queue, sent, held, written>>
        BY <1>4, <2>3 DEF SendWaits, Wait
      <3>2. pc'[Main] # "idle" /\ pc'[Dispatcher] = pc[Dispatcher]
        BY <1>1, <3>1 DEF TypeOK
      <3>3. LogTypeOK'
        BY <1>1, <2>1 DEF NothingLostOnTheWay, LogTypeOK
      <3>4. QED
        BY <2>1, <3>1, <3>2, <3>3, SameEntries DEF NothingLostOnTheWay
    <2>4. CASE SendEnqueues(Main)
      <3>1. queue' = Append(queue, <<Main, sent[Main]>>) /\ sent' = sent
        BY <2>4 DEF SendEnqueues, Item
      <3>2. pc'[Main] = "idle"
        BY <2>4 DEF SendEnqueues, Return
      <3>3. writer # "receiving" => pc'[Dispatcher] = "idle"
        <4>1. PICK woken \in NotifyOne(Receivers) : Return(Main, woken)
          BY <2>4 DEF SendEnqueues
        <4>2. pc[Dispatcher] = "idle" => Dispatcher \notin woken
          BY NotifyOneType DEF Asleep
        <4>3. QED
          BY <4>1, <4>2 DEF Return, NothingLostOnTheWay
      <3>4. sent[Main] # 0 /\ Sent = sent[Main] - 1 /\ Sent' = Sent + 1
        BY <1>1, <1>2, <2>1, <3>1, <3>2 DEF Sent, TypeOK
      <3>5. Logged(Sent + 1) = Append(Logged(Sent), <<Main, sent[Main]>>)
        <4>1. Sent \in Nat /\ Sent + 1 = sent[Main]
          BY <1>2, <3>4
        <4>2. QED
          BY <4>1, LoggedNext
      <3>6. (written \o held) \o queue' = Logged(Sent')
        <4>1. /\ queue \in Seq(Items) /\ written \o held \in Seq(Items)
              /\ <<Main, sent[Main]>> \in Items
          BY <1>1, <2>1, ItemType DEF TypeOK, Item, NothingLostOnTheWay, LogTypeOK
        <4>2. (written \o held) \o queue'
                = Append((written \o held) \o queue, <<Main, sent[Main]>>)
          BY <3>1, <4>1, AppendToConcat
        <4>3. QED
          BY <3>4, <3>5, <4>2 DEF NothingLostOnTheWay
      <3>7. Logged(Sent') = Logged(Sent)'
        BY DEF Logged
      <3>8. LogTypeOK'
        BY <1>1, <2>1, <3>2 DEF NothingLostOnTheWay, LogTypeOK
      <3>9. writer = "stopped" => closed
        BY DEF NothingLostOnTheWay
      <3>10. QED
        BY <2>1, <2>2, <3>3, <3>6, <3>7, <3>8, <3>9 DEF NothingLostOnTheWay
    <2>5. QED
      BY <1>4, <2>2, <2>3, <2>4 DEF Send, SendDiscards
  <1>5. CASE GiveUp \/ Concluded
    <2>1. /\ pc[Main] = "idle" /\ app' = "closing" /\ app \notin {"joining", "exited"}
          /\ UNCHANGED <<vars, writer, held, written>>
      BY <1>5 DEF GiveUp, Concluded
    <2>2. UNCHANGED <<queue, closed, sent, pc>>
      BY <2>1 DEF vars
    <2>3. LogTypeOK'
      BY <1>1, <2>1, <2>2 DEF NothingLostOnTheWay, LogTypeOK, AppStates
    <2>4. QED
      BY <2>1, <2>2, <2>3, SameEntries DEF NothingLostOnTheWay
  <1>6. CASE CloseLog
    <2>1. /\ app = "closing" /\ app' = "joining" /\ closed'
          /\ UNCHANGED <<writer, held, written, queue, sent>>
          /\ pc' = [t \in Threads |->
                       IF t \in Asleep(Threads) THEN "ready" ELSE pc[t]]
      BY <1>6 DEF CloseLog, Close
    <2>2. pc[Main] = "idle"
      BY <2>1 DEF NothingLostOnTheWay, LogTypeOK
    <2>3. pc'[Main] = "idle" /\ (pc[Dispatcher] = "idle" => pc'[Dispatcher] = "idle")
      BY <2>1, <2>2 DEF Asleep
    <2>4. LogTypeOK'
      BY <1>1, <2>1, <2>3 DEF NothingLostOnTheWay, LogTypeOK, AppStates
    <2>5. QED
      BY <2>1, <2>2, <2>3, <2>4, SameEntries DEF NothingLostOnTheWay
  <1>7. CASE JoinLog
    <2>1. /\ app = "joining" /\ writer = "stopped" /\ app' = "exited"
          /\ UNCHANGED <<queue, closed, sent, pc, writer, held, written>>
      BY <1>7 DEF JoinLog, vars
    <2>2. LogTypeOK'
      BY <1>1, <2>1 DEF NothingLostOnTheWay, LogTypeOK, AppStates
    <2>3. QED
      BY <2>1, <2>2, SameEntries DEF NothingLostOnTheWay
  <1>8. CASE AskForEntry \/ WaitForEntry
    <2>1. /\ UNCHANGED <<queue, closed, sent, app, writer, held, written>>
          /\ writer = "receiving"
          /\ pc'[Main] = pc[Main]
      <3>1. CASE AskForEntry
        BY <1>1, <3>1 DEF AskForEntry, CallReceive, TypeOK
      <3>2. CASE WaitForEntry
        BY <1>1, <3>2 DEF WaitForEntry, ReceiveWaits, Wait, TypeOK,
             NothingLostOnTheWay, LogTypeOK, WriterStates
      <3>3. QED
        BY <1>8, <3>1, <3>2
    <2>2. LogTypeOK'
      BY <1>1, <2>1 DEF NothingLostOnTheWay, LogTypeOK
    <2>3. QED
      BY <2>1, <2>2, SameEntries DEF NothingLostOnTheWay
  <1>9. CASE TakeEntry
    <2>1. /\ pc[Dispatcher] = "ready" /\ queue # <<>> /\ queue' = Tail(queue)
          /\ held' = <<Head(queue)>> /\ writer' = "writing"
          /\ UNCHANGED <<closed, sent, app, written>>
      BY <1>9 DEF TakeEntry, ReceiveDequeues
    <2>2. writer = "receiving" /\ held = <<>>
      BY <2>1 DEF NothingLostOnTheWay, LogTypeOK, WriterStates
    <2>3. PICK woken \in NotifyOne(Senders) : Return(Dispatcher, woken)
      BY <1>9 DEF TakeEntry, ReceiveDequeues
    <2>4. pc'[Dispatcher] = "idle" /\ (pc[Main] = "idle" <=> pc'[Main] = "idle")
      BY <2>3, NotifyOneType DEF Return, Asleep
    <2>5. Head(queue) \in Items /\ held' \in Seq(Items) /\ Len(held') = 1
      BY <1>1, <2>1 DEF TypeOK
    <2>6. (written \o held') \o queue' = (written \o held) \o queue
      <3>1. written \in Seq(Items) /\ queue \in Seq(Items)
        BY <1>1 DEF TypeOK, NothingLostOnTheWay, LogTypeOK
      <3>2. written \o held' = Append(written, Head(queue))
        BY <2>1, <2>5, <3>1
      <3>3. written \o held = written
        BY <2>2, <3>1
      <3>4. QED
        BY <2>1, <3>1, <3>2, <3>3, MoveHead
    <2>7. Logged(Sent)' = Logged(Sent)
      BY <2>1, <2>4 DEF Logged, Sent
    <2>8. LogTypeOK'
      BY <1>1, <2>1, <2>4, <2>5 DEF NothingLostOnTheWay, LogTypeOK, WriterStates
    <2>9. app # "exited"
      BY <2>2 DEF NothingLostOnTheWay
    <2>10. QED
      BY <2>1, <2>4, <2>6, <2>7, <2>8, <2>9 DEF NothingLostOnTheWay
  <1>10. CASE WriteEntry
    <2>1. /\ writer = "writing" /\ writer' = "receiving" /\ held' = <<>>
          /\ written' = written \o held
          /\ UNCHANGED <<queue, closed, sent, pc, app>>
      BY <1>10 DEF WriteEntry, vars
    <2>2. written \in Seq(Items) /\ held \in Seq(Items)
      BY DEF NothingLostOnTheWay, LogTypeOK
    <2>3. written' \in Seq(Items) /\ written' \o held' = written \o held
      BY <2>1, <2>2
    <2>4. Logged(Sent)' = Logged(Sent)
      BY <2>1 DEF Logged, Sent
    <2>5. LogTypeOK'
      BY <1>1, <2>1, <2>3 DEF NothingLostOnTheWay, LogTypeOK, WriterStates
    <2>6. QED
      BY <2>1, <2>3, <2>4, <2>5 DEF NothingLostOnTheWay
  <1>11. CASE Stop
    <2>1. /\ pc[Dispatcher] = "ready" /\ queue = <<>> /\ closed
          /\ writer' = "stopped" /\ Return(Dispatcher, {})
          /\ UNCHANGED <<queue, closed, sent, app, held, written>>
      BY <1>11 DEF Stop, ReceiveExhausted
    <2>2. writer = "receiving" /\ held = <<>>
      BY <2>1 DEF NothingLostOnTheWay, LogTypeOK, WriterStates
    <2>3. pc'[Dispatcher] = "idle" /\ pc'[Main] = pc[Main]
      BY <2>1 DEF Return
    <2>4. LogTypeOK'
      BY <1>1, <2>1, <2>2, <2>3 DEF NothingLostOnTheWay, LogTypeOK, WriterStates
    <2>5. QED
      BY <2>1, <2>3, <2>4, SameEntries DEF NothingLostOnTheWay
  <1>12. CASE Wakeup
    <2>1. PICK t \in Threads : SpuriousWakeup(t)
      BY <1>12 DEF Wakeup
    <2>2. /\ UNCHANGED <<queue, closed, sent, app, writer, held, written>>
          /\ \A u \in Threads : pc'[u] = "idle" <=> pc[u] = "idle"
      BY <1>1, <1>12, <2>1 DEF Wakeup, SpuriousWakeup, TypeOK
    <2>3. LogTypeOK'
      BY <1>1, <2>2 DEF NothingLostOnTheWay, LogTypeOK
    <2>4. QED
      BY <2>2, <2>3, SameEntries DEF NothingLostOnTheWay
  <1>13. CASE UNCHANGED logVars
    <2>1. UNCHANGED <<queue, closed, sent, pc, app, writer, held, written>>
      BY <1>13 DEF logVars, vars
    <2>2. LogTypeOK'
      BY <1>1, <2>1 DEF NothingLostOnTheWay, LogTypeOK
    <2>3. QED
      BY <2>1, <2>2, SameEntries DEF NothingLostOnTheWay
  <1>14. QED
    BY <1>3, <1>4, <1>5, <1>6, <1>7, <1>8, <1>9, <1>10, <1>11, <1>12, <1>13
    DEF LogNext, MainNext, Shutdown, DispatcherNext

\* Between the terminal and main's last call of Log nothing is lost, doubled
\* or reordered, and nobody closes the channel under a sender.
THEOREM LogIsConveyed == LogSafeSpec => []NothingLostOnTheWay
  BY InitNothingLost, StepNothingLost, PTL DEF LogSafeSpec

-----------------------------------------------------------------------------
(* What follows from it. *)

\* When main returns, everything it logged is written, in order, and the log
\* thread is out of the channel.
THEOREM ExitIsClean == LogSafeSpec => []CleanExit
  <1>1. NothingLostOnTheWay => CleanExit
    <2> SUFFICES ASSUME NothingLostOnTheWay, app = "exited"
                 PROVE  /\ written = Logged(sent[Main])
                        /\ writer = "stopped"
                        /\ \A t \in Threads : pc[t] = "idle"
      BY DEF CleanExit
    <2>1. /\ writer = "stopped" /\ queue = <<>> /\ held = <<>>
          /\ written \in Seq(Items)
      BY DEF NothingLostOnTheWay, LogTypeOK
    <2>2. pc[Main] = "idle" /\ pc[Dispatcher] = "idle"
      BY <2>1 DEF NothingLostOnTheWay, LogTypeOK
    <2>3. Threads = {Main, Dispatcher}
      BY LogAssumption DEF Threads
    <2>4. (written \o held) \o queue = written
      BY <2>1
    <2>5. QED
      BY <2>1, <2>2, <2>3, <2>4 DEF NothingLostOnTheWay, Sent
  <1>2. QED
    BY <1>1, LogIsConveyed, PTL

\* A dispatcher that falls behind holds main up: capacity_ entries queued, one
\* being sent and one being written is all there can be.
THEOREM BackpressureHolds == LogSafeSpec => []InFlightBounded
  <1>1. NothingLostOnTheWay => InFlightBounded
    <2> SUFFICES ASSUME NothingLostOnTheWay
                 PROVE  sent[Main] - Len(written) <= Capacity + 2
      BY DEF InFlightBounded
    <2>1. /\ written \in Seq(Items) /\ held \in Seq(Items) /\ Len(held) <= 1
          /\ queue \in Seq(Items) /\ Len(queue) <= Capacity
          /\ sent[Main] \in Nat /\ Capacity \in Nat
          /\ pc[Main] # "idle" => sent[Main] > 0
      BY TwoThreads, ChannelAssumption
      DEF NothingLostOnTheWay, LogTypeOK, TypeOK, CapacityAssumption
    <2>2. Len((written \o held) \o queue) = Len(written) + Len(held) + Len(queue)
      BY <2>1
    <2>3. Sent \in Nat /\ sent[Main] <= Sent + 1
      BY <2>1 DEF Sent
    <2>4. Len(Logged(Sent)) = Sent
      BY <2>3 DEF Logged
    <2>5. QED
      BY <2>1, <2>2, <2>3, <2>4 DEF NothingLostOnTheWay
  <1>2. QED
    BY <1>1, LogIsConveyed, PTL
=============================================================================
