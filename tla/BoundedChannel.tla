--------------------------- MODULE BoundedChannel ---------------------------
(***************************************************************************)
(* BoundedChannel<T> (includes/concurrency/bounded_channel.h and .tcc): a  *)
(* queue, one mutex, and the condition variables not_full_ and not_empty_. *)
(*                                                                         *)
(* Every access to the shared state happens under mutex_, so the code      *)
(* between taking the mutex and giving it up (by returning, or by wait())  *)
(* is one action.  What interleaves is the order in which threads get the  *)
(* mutex, and that is where a condition-variable protocol goes wrong:      *)
(*   idle    outside the channel;                                          *)
(*   ready   in Send or Receive and competing for the mutex, either on     *)
(*           entry or because wait() is about to re-check its predicate;   *)
(*   asleep  blocked in wait() of its condition variable (senders in       *)
(*           not_full_, receivers in not_empty_).                          *)
(***************************************************************************)
EXTENDS Naturals, Sequences, FiniteSets

CONSTANTS Senders,    \* threads that call Send
          Receivers,  \* threads that call Receive
          Capacity,   \* capacity_
          MaxSends    \* bound: calls of Send per sender

ThreadsAssumption ==
    /\ IsFiniteSet(Senders)
    /\ IsFiniteSet(Receivers)
    /\ Senders \cap Receivers = {}

\* main.cc constructs the only channel with kLogMaxCount = 512.
CapacityAssumption == Capacity \in Nat \ {0}

BoundAssumption == MaxSends \in Nat

ASSUME ChannelAssumption ==
    ThreadsAssumption /\ CapacityAssumption /\ BoundAssumption

Threads == Senders \cup Receivers

VARIABLES queue,      \* queue_
          closed,     \* closed_
          pc,         \* pc[t]: where thread t is, see above
          sent,       \* sent[s]: calls of Send begun by s
          delivered,  \* history: items returned by Receive, in order
          dropped,    \* history: items whose Send found closed_ set
          exhausted   \* history: some Receive has returned nullopt

vars == <<queue, closed, pc, sent, delivered, dropped, exhausted>>

\* The item of the call of Send that s has in progress.
Item(s) == <<s, sent[s]>>

Asleep(T) == {t \in T : pc[t] = "asleep"}
Ready(T)  == {t \in T : pc[t] = "ready"}

Init ==
    /\ queue = <<>>
    /\ closed = FALSE
    /\ pc = [t \in Threads |-> "idle"]
    /\ sent = [s \in Senders |-> 0]
    /\ delivered = <<>>
    /\ dropped = {}
    /\ exhausted = FALSE

-----------------------------------------------------------------------------
(* Condition variables. *)

\* Slip: the notification is forgotten.
NotifyOneForgotten(T) == {{}}

\* The sets of threads notify_one may wake: one waiter of T, if there is any.
NotifyOne(T) ==
    IF Asleep(T) = {} THEN {{}} ELSE {{t} : t \in Asleep(T)}

\* Thread t leaves the channel and the threads of woken leave wait().
Return(t, woken) ==
    pc' = [u \in Threads |-> IF u = t THEN "idle"
                             ELSE IF u \in woken THEN "ready" ELSE pc[u]]

\* Thread t releases the mutex and blocks.
Wait(t) == pc' = [pc EXCEPT ![t] = "asleep"]

\* wait() may return without a notification.
SpuriousWakeup(t) ==
    /\ pc[t] = "asleep"
    /\ pc' = [pc EXCEPT ![t] = "ready"]
    /\ UNCHANGED <<queue, closed, sent, delivered, dropped, exhausted>>

-----------------------------------------------------------------------------
(* Send(item) *)

CallSend(s) ==
    /\ pc[s] = "idle"
    /\ sent[s] < MaxSends
    /\ sent' = [sent EXCEPT ![s] = @ + 1]
    /\ pc' = [pc EXCEPT ![s] = "ready"]
    /\ UNCHANGED <<queue, closed, delivered, dropped, exhausted>>

SendWaits(s) ==
    /\ pc[s] = "ready"
    /\ Len(queue) >= Capacity
    /\ ~closed
    /\ Wait(s)
    /\ UNCHANGED <<queue, closed, sent, delivered, dropped, exhausted>>

SendDiscards(s) ==
    /\ pc[s] = "ready"
    /\ closed
    /\ Return(s, {})
    /\ dropped' = dropped \cup {Item(s)}
    /\ UNCHANGED <<queue, closed, sent, delivered, exhausted>>

\* Slip: no test of closed_ after the wait.
SendEnqueuesWhenClosed(s) ==
    /\ pc[s] = "ready"
    /\ Len(queue) < Capacity
    /\ queue' = Append(queue, Item(s))
    /\ \E woken \in NotifyOne(Receivers) : Return(s, woken)
    /\ UNCHANGED <<closed, sent, delivered, dropped, exhausted>>

\* Slip: `if` instead of a predicate around the wait, so that a thread woken
\* for a slot that another sender has taken meanwhile pushes all the same.
SendEnqueuesUnchecked(s) ==
    /\ pc[s] = "ready"
    /\ ~closed
    /\ queue' = Append(queue, Item(s))
    /\ \E woken \in NotifyOne(Receivers) : Return(s, woken)
    /\ UNCHANGED <<closed, sent, delivered, dropped, exhausted>>

SendEnqueues(s) ==
    /\ pc[s] = "ready"
    /\ Len(queue) < Capacity
    /\ ~closed
    /\ queue' = Append(queue, Item(s))
    /\ \E woken \in NotifyOne(Receivers) : Return(s, woken)
    /\ UNCHANGED <<closed, sent, delivered, dropped, exhausted>>

Send(s) == SendWaits(s) \/ SendDiscards(s) \/ SendEnqueues(s)

-----------------------------------------------------------------------------
(* Receive() *)

CallReceive(r) ==
    /\ pc[r] = "idle"
    /\ pc' = [pc EXCEPT ![r] = "ready"]
    /\ UNCHANGED <<queue, closed, sent, delivered, dropped, exhausted>>

ReceiveWaits(r) ==
    /\ pc[r] = "ready"
    /\ queue = <<>>
    /\ ~closed
    /\ Wait(r)
    /\ UNCHANGED <<queue, closed, sent, delivered, dropped, exhausted>>

ReceiveExhausted(r) ==
    /\ pc[r] = "ready"
    /\ queue = <<>>
    /\ closed
    /\ exhausted' = TRUE
    /\ Return(r, {})
    /\ UNCHANGED <<queue, closed, sent, delivered, dropped>>

\* Slip: the newest item is taken (a stack or a swapped end of a deque).
ReceiveDequeuesNewest(r) ==
    /\ pc[r] = "ready"
    /\ queue # <<>>
    /\ delivered' = Append(delivered, queue[Len(queue)])
    /\ queue' = SubSeq(queue, 1, Len(queue) - 1)
    /\ \E woken \in NotifyOne(Senders) : Return(r, woken)
    /\ UNCHANGED <<closed, sent, dropped, exhausted>>

ReceiveDequeues(r) ==
    /\ pc[r] = "ready"
    /\ queue # <<>>
    /\ delivered' = Append(delivered, Head(queue))
    /\ queue' = Tail(queue)
    /\ \E woken \in NotifyOne(Senders) : Return(r, woken)
    /\ UNCHANGED <<closed, sent, dropped, exhausted>>

Receive(r) == ReceiveWaits(r) \/ ReceiveExhausted(r) \/ ReceiveDequeues(r)

-----------------------------------------------------------------------------
(* Close() *)

\* Slip: only one waiter of each condition variable is notified.
CloseNotifiesOne ==
    /\ closed' = TRUE
    /\ \E ws \in NotifyOne(Senders), wr \in NotifyOne(Receivers) :
          pc' = [t \in Threads |-> IF t \in ws \cup wr THEN "ready" ELSE pc[t]]
    /\ UNCHANGED <<queue, sent, delivered, dropped, exhausted>>

Close ==
    /\ closed' = TRUE
    /\ pc' = [t \in Threads |-> IF t \in Asleep(Threads) THEN "ready" ELSE pc[t]]
    /\ UNCHANGED <<queue, sent, delivered, dropped, exhausted>>

-----------------------------------------------------------------------------
Next ==
    \/ \E s \in Senders : CallSend(s) \/ Send(s)
    \/ \E r \in Receivers : CallReceive(r) \/ Receive(r)
    \/ \E t \in Threads : SpuriousWakeup(t)
    \/ Close

SafeSpec == Init /\ [][Next]_vars

\* The scheduler runs every runnable thread and the mutex starves nobody.
\* Whether a client calls at all is its own business, and wait() need not
\* wake spuriously.
Fairness ==
    /\ \A s \in Senders : WF_vars(Send(s))
    /\ \A r \in Receivers : WF_vars(Receive(r))

Spec == SafeSpec /\ Fairness

-----------------------------------------------------------------------------
(* Properties *)

Items == Senders \X (1 .. MaxSends)

\* The state is well typed and the queue never outgrows its capacity.
TypeOK ==
    /\ queue \in Seq(Items)
    /\ Len(queue) <= Capacity
    /\ closed \in BOOLEAN
    /\ pc \in [Threads -> {"idle", "ready", "asleep"}]
    /\ sent \in [Senders -> 0 .. MaxSends]
    /\ \A s \in Senders : pc[s] # "idle" => sent[s] > 0
    /\ delivered \in Seq(Items)
    /\ dropped \in SUBSET Items
    /\ exhausted \in BOOLEAN

\* While a receiver sleeps, every queued item has a receiver on its way to
\* it; while a sender sleeps, every free slot has a sender on its way to it;
\* and nobody sleeps in a closed channel.  This is what notify_one (rather
\* than notify_all) under the mutex has to guarantee with any number of
\* senders and receivers, and it is inductive.
NoLostWakeup ==
    /\ Asleep(Receivers) # {} => Len(queue) <= Cardinality(Ready(Receivers))
    /\ Asleep(Senders) # {} =>
          Capacity - Len(queue) <= Cardinality(Ready(Senders))
    /\ closed => Asleep(Threads) = {}

Accepted == delivered \o queue

\* Items of one sender are accepted in the order it sent them, each once.
InOrder ==
    \A i, j \in 1 .. Len(Accepted) :
        (i < j /\ Accepted[i][1] = Accepted[j][1])
            => Accepted[i][2] < Accepted[j][2]

\* The n-th call of Send by s is over; item x has been accepted.
Returned(s, n) == n < sent[s] \/ (n = sent[s] /\ pc[s] = "idle")
Kept(x) == \E i \in 1 .. Len(Accepted) : Accepted[i] = x

\* Every call of Send that has returned left its item in exactly one place:
\* accepted (delivered or queued) or dropped; no other call left a trace.
Accounted ==
    \A s \in Senders, n \in 1 .. MaxSends :
        IF Returned(s, n) THEN Kept(<<s, n>>) # (<<s, n>> \in dropped)
        ELSE ~Kept(<<s, n>>) /\ <<s, n>> \notin dropped

\* A sender whose item was dropped never gets a later item through, so what
\* the receivers see of each sender is a prefix of what it sent.
DroppedIsSuffix ==
    \A i \in 1 .. Len(Accepted), d \in dropped :
        Accepted[i][1] = d[1] => Accepted[i][2] < d[2]

\* No loss, duplication or reordering for any one sender, across blocking,
\* spurious wakeups and a close that races with blocked senders.
FifoPerSender ==
    /\ InOrder
    /\ Accounted
    /\ DroppedIsSuffix
    /\ dropped # {} => closed

\* nullopt means exhausted for good: once some Receive has returned it,
\* nothing is queued any more, although senders may still be inside Send.
ExhaustedIsFinal == exhausted => closed /\ queue = <<>>

Channel == INSTANCE FifoChannel
    WITH buf <- queue, shut <- closed, calls <- sent,
         pending <- {t \in Threads : pc[t] # "idle"}

\* The channel keeps the promise of FifoChannel, progress included: a lost
\* wakeup would leave an Accept or a Deliver enabled for ever.
ImplementsFifoChannel == Channel!Spec

\* Close() unblocks all waiters: every call in progress when the channel is
\* closed, or begun afterwards, returns.
CloseReleases ==
    \A t \in Threads : (closed /\ pc[t] # "idle") ~> pc[t] = "idle"
=============================================================================
