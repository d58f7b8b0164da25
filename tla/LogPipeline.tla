----------------------------- MODULE LogPipeline -----------------------------
(***************************************************************************)
(* Logging of one pipeline process (src/main.cc, services/logging): the    *)
(* main thread logs through LogProducer into the bounded channel, the log  *)
(* thread runs LogDispatcher::Run, and main ends, whatever happened, with  *)
(* the lambda shutdown: Close, join, return the exit code.                 *)
(*                                                                         *)
(* The channel is BoundedChannel itself.  Its two threads are given the    *)
(* loops the program runs around Send and Receive.                         *)
(***************************************************************************)
EXTENDS BoundedChannel

CONSTANTS Main,       \* the main thread, the only one that logs
          Dispatcher  \* log_thread

ASSUME LogAssumption ==
    /\ Senders = {Main}
    /\ Receivers = {Dispatcher}
    /\ MaxSends > 0

VARIABLES app,     \* what main is doing, see AppStates
          writer,  \* what the log thread is doing, see WriterStates
          held,    \* the entry the log thread has received: <<>> or <<entry>>
          written  \* history: the entries handed to spdlog

logVars == <<vars, app, writer, held, written>>

AppStates ==
    {"running",    \* in the try block
     "concluding", \* in the last Log before shutdown
     "closing",    \* about to call Close
     "joining",    \* in log_thread.join()
     "exited"}     \* past it: the channel may be destroyed

WriterStates == {"receiving", "writing", "stopped"}

LogInit ==
    /\ Init
    /\ app = "running"
    /\ writer = "receiving"
    /\ held = <<>>
    /\ written = <<>>

-----------------------------------------------------------------------------
(* The main thread. *)

\* Log, from anywhere in the try block.  One call is kept for the conclusion.
Log ==
    /\ app = "running"
    /\ sent[Main] < MaxSends - 1
    /\ CallSend(Main)
    /\ UNCHANGED <<app, writer, held, written>>

\* What DoLog does inside the channel.
LogSends ==
    /\ Send(Main)
    /\ UNCHANGED <<app, writer, held, written>>

\* No valid options, found after the first entry was logged: shutdown without
\* another word.
GiveUp ==
    /\ app = "running"
    /\ pc[Main] = "idle"
    /\ sent[Main] > 0
    /\ app' = "closing"
    /\ UNCHANGED <<vars, writer, held, written>>

\* Every other way out logs once more: the run succeeded, the run failed, the
\* prompt directory is invalid, or an exception reached main.
Conclude ==
    /\ app = "running"
    /\ CallSend(Main)
    /\ app' = "concluding"
    /\ UNCHANGED <<writer, held, written>>

Concluded ==
    /\ app = "concluding"
    /\ pc[Main] = "idle"
    /\ app' = "closing"
    /\ UNCHANGED <<vars, writer, held, written>>

\* Slip: shutdown joins the log thread without closing the channel.
CloseLogForgotten ==
    /\ app = "closing"
    /\ app' = "joining"
    /\ UNCHANGED <<vars, writer, held, written>>

CloseLog ==
    /\ app = "closing"
    /\ Close
    /\ app' = "joining"
    /\ UNCHANGED <<writer, held, written>>

\* Slip: the log thread is detached instead of joined.
JoinLogDetaches ==
    /\ app = "joining"
    /\ app' = "exited"
    /\ UNCHANGED <<vars, writer, held, written>>

JoinLog ==
    /\ app = "joining"
    /\ writer = "stopped"
    /\ app' = "exited"
    /\ UNCHANGED <<vars, writer, held, written>>

\* What is left to do once main has left the try block and said so.
Shutdown == Concluded \/ CloseLog \/ JoinLog

MainNext == Log \/ LogSends \/ GiveUp \/ Conclude \/ Shutdown

-----------------------------------------------------------------------------
(* The log thread: LogDispatcher::Run. *)

\* Slip: the log thread sleeps until shutdown and only then drains the channel.
AskForEntryOnceClosed ==
    /\ writer = "receiving"
    /\ closed
    /\ CallReceive(Dispatcher)
    /\ UNCHANGED <<app, writer, held, written>>

AskForEntry ==
    /\ writer = "receiving"
    /\ CallReceive(Dispatcher)
    /\ UNCHANGED <<app, writer, held, written>>

WaitForEntry ==
    /\ ReceiveWaits(Dispatcher)
    /\ UNCHANGED <<app, writer, held, written>>

TakeEntry ==
    /\ ReceiveDequeues(Dispatcher)
    /\ held' = <<Head(queue)>>
    /\ writer' = "writing"
    /\ UNCHANGED <<app, written>>

\* Slip: the entry in hand is skipped once the channel is closed.
WriteEntrySkipsWhenClosed ==
    /\ writer = "writing"
    /\ written' = IF closed THEN written ELSE written \o held
    /\ held' = <<>>
    /\ writer' = "receiving"
    /\ UNCHANGED <<vars, app>>

WriteEntry ==
    /\ writer = "writing"
    /\ written' = written \o held
    /\ held' = <<>>
    /\ writer' = "receiving"
    /\ UNCHANGED <<vars, app>>

Stop ==
    /\ ReceiveExhausted(Dispatcher)
    /\ writer' = "stopped"
    /\ UNCHANGED <<app, held, written>>

DispatcherNext ==
    AskForEntry \/ WaitForEntry \/ TakeEntry \/ WriteEntry \/ Stop

-----------------------------------------------------------------------------
Wakeup ==
    /\ \E t \in Threads : SpuriousWakeup(t)
    /\ UNCHANGED <<app, writer, held, written>>

LogNext == MainNext \/ DispatcherNext \/ Wakeup

LogSafeSpec == LogInit /\ [][LogNext]_logVars

\* Both threads are scheduled: main gets on with a Send it is in and, once it
\* has left the try block, with the straight line of shutdown.  Nothing is
\* assumed of main's own work: between two entries it may be at an inference
\* for as long as it likes, so nothing forces Log, GiveUp or Conclude.
LogSpec ==
    /\ LogSafeSpec
    /\ WF_logVars(LogSends)
    /\ WF_logVars(Shutdown)
    /\ WF_logVars(DispatcherNext)

-----------------------------------------------------------------------------
(* Properties *)

\* The state is well typed; the log thread holds an entry only to write it.
LogTypeOK ==
    /\ TypeOK
    /\ app \in AppStates
    /\ writer \in WriterStates
    /\ held \in Seq(Items) /\ Len(held) <= 1
    /\ (writer = "writing") <=> (held # <<>>)
    /\ written \in Seq(Items)
    /\ app \in {"closing", "joining", "exited"} => pc[Main] = "idle"

\* The entries main has got through: its calls of Send that are over.
Sent == IF pc[Main] = "idle" THEN sent[Main] ELSE sent[Main] - 1
Logged(n) == [i \in 1 .. n |-> <<Main, i>>]

\* What the two threads rely on.  From the terminal backwards, through the
\* dispatcher's hand and the queue, the entries are exactly those main has
\* logged, in order: none is dropped, because nobody closes the channel before
\* main has logged for the last time.  A dispatcher that has stopped found
\* the channel closed and left nothing in it.
NothingLostOnTheWay ==
    /\ LogTypeOK
    /\ (written \o held) \o queue = Logged(Sent)
    /\ closed => app \in {"joining", "exited"}
    /\ writer # "receiving" => pc[Dispatcher] = "idle"
    /\ writer = "stopped" => closed /\ queue = <<>>
    /\ app = "exited" => writer = "stopped"

\* When main returns, every entry logged, the concluding one included, has
\* been written, each once and in the order logged, and the log thread is out
\* of the channel, which is about to be destroyed.  Whatever Close finds
\* queued or in the dispatcher's hands is part of it.
CleanExit ==
    app = "exited" =>
        /\ written = Logged(sent[Main])
        /\ writer = "stopped"
        /\ \A t \in Threads : pc[t] = "idle"

\* Backpressure: a dispatcher that falls behind holds main up, so the entries
\* logged but not written never exceed the capacity by more than the one main
\* is sending and the one being written.
InFlightBounded == sent[Main] - Len(written) <= Capacity + 2

\* Everything logged is written in the end, also when main never logs again and
\* never shuts down: the dispatcher does not wait for Close, or for the channel
\* to fill up, to write what it was sent.
EveryEntryIsWritten ==
    \A n \in 1 .. MaxSends : (sent[Main] >= n) ~> (Len(written) >= n)

\* Main gets out once it has left the try block, whatever way it took: its last
\* Log cannot block for good, Close reaches a dispatcher asleep in the channel
\* and join cannot hang.
Terminates == (app # "running") ~> (app = "exited")
=============================================================================
