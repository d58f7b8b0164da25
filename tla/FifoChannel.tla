---------------------------- MODULE FifoChannel ----------------------------
(***************************************************************************)
(* What BoundedChannel<T> promises its callers, without mutexes, condition *)
(* variables or wakeups (includes/concurrency/bounded_channel.h):          *)
(*   - a call to Send ends by enqueueing its item, or by dropping it when  *)
(*     the channel is closed;                                              *)
(*   - a call to Receive ends with the oldest item, or with "no value"     *)
(*     when the channel is closed and drained;                             *)
(*   - calls that can end do not stay blocked for ever.                    *)
(* BoundedChannel.tla is shown to implement this module.                   *)
(***************************************************************************)
EXTENDS Naturals, Sequences

CONSTANTS Senders,    \* threads that call Send
          Receivers,  \* threads that call Receive
          Capacity,   \* capacity_
          MaxSends    \* bound: calls of Send per sender

VARIABLES buf,        \* accepted items not yet delivered, oldest first
          shut,       \* Close has been called
          pending,    \* threads whose Send or Receive has not returned
          calls,      \* calls[s]: calls of Send begun by s
          delivered,  \* items returned by Receive, in the order returned
          dropped,    \* items whose Send found the channel closed
          exhausted   \* some Receive has returned "no value"

vars == <<buf, shut, pending, calls, delivered, dropped, exhausted>>

\* The n-th item of sender s is <<s, n>>: items are told apart by origin.
Item(s) == <<s, calls[s]>>

Init ==
    /\ buf = <<>>
    /\ shut = FALSE
    /\ pending = {}
    /\ calls = [s \in Senders |-> 0]
    /\ delivered = <<>>
    /\ dropped = {}
    /\ exhausted = FALSE

BeginSend(s) ==
    /\ s \notin pending
    /\ calls[s] < MaxSends
    /\ calls' = [calls EXCEPT ![s] = @ + 1]
    /\ pending' = pending \cup {s}
    /\ UNCHANGED <<buf, shut, delivered, dropped, exhausted>>

BeginReceive(r) ==
    /\ r \notin pending
    /\ pending' = pending \cup {r}
    /\ UNCHANGED <<buf, shut, calls, delivered, dropped, exhausted>>

Accept(s) ==
    /\ s \in pending
    /\ ~shut
    /\ Len(buf) < Capacity
    /\ buf' = Append(buf, Item(s))
    /\ pending' = pending \ {s}
    /\ UNCHANGED <<shut, calls, delivered, dropped, exhausted>>

Drop(s) ==
    /\ s \in pending
    /\ shut
    /\ dropped' = dropped \cup {Item(s)}
    /\ pending' = pending \ {s}
    /\ UNCHANGED <<buf, shut, calls, delivered, exhausted>>

Deliver(r) ==
    /\ r \in pending
    /\ buf # <<>>
    /\ buf' = Tail(buf)
    /\ delivered' = Append(delivered, Head(buf))
    /\ pending' = pending \ {r}
    /\ UNCHANGED <<shut, calls, dropped, exhausted>>

Exhaust(r) ==
    /\ r \in pending
    /\ shut
    /\ buf = <<>>
    /\ exhausted' = TRUE
    /\ pending' = pending \ {r}
    /\ UNCHANGED <<buf, shut, calls, delivered, dropped>>

Shut ==
    /\ shut' = TRUE
    /\ UNCHANGED <<buf, pending, calls, delivered, dropped, exhausted>>

Next ==
    \/ \E s \in Senders : BeginSend(s) \/ Accept(s) \/ Drop(s)
    \/ \E r \in Receivers : BeginReceive(r) \/ Deliver(r) \/ Exhaust(r)
    \/ Shut

SafeSpec == Init /\ [][Next]_vars

(***************************************************************************)
(* No thread is promised an item or a slot of its own, since another       *)
(* thread may take it first; but while a slot (an item) and a blocked      *)
(* sender (receiver) coexist, SOME sender (receiver) gets through, and a   *)
(* closed channel lets every caller go.                                    *)
(***************************************************************************)
Progress ==
    /\ WF_vars(\E s \in Senders : Accept(s))
    /\ WF_vars(\E r \in Receivers : Deliver(r))
    /\ \A s \in Senders : WF_vars(Drop(s))
    /\ \A r \in Receivers : WF_vars(Exhaust(r))

Spec == SafeSpec /\ Progress
=============================================================================
