----------------------------- MODULE MainThread -----------------------------
(***************************************************************************)
(* Java::schedule_on_main_thread, src/java/main_thread.rs: threads queue   *)
(* tasks and post a message to the main looper; a hook on epoll_wait       *)
(* drains the queue each time the main thread is about to poll.            *)
(*                                                                         *)
(* Each task is scheduled by one call, whose thread may then wait for it.  *)
(* A callback that schedules further tasks takes the same steps: the mutex *)
(* is not held while callbacks run.  The looper and Gum are external:      *)
(* epoll_wait returns when a message is there, the main thread comes back  *)
(* to it, and a listener is not entered from within itself, so that an     *)
(* epoll_wait made by a callback does not drain.                           *)
(***************************************************************************)
EXTENDS Naturals, Sequences, FiniteSets

CONSTANTS
  Tasks,         \* calls of schedule_on_main_thread
  MaxFailures    \* bound on failed hook installations and wakeups

ASSUME NoneIsNoTask == "none" \notin Tasks
ASSUME MaxFailuresIsNat == MaxFailures \in Nat

VARIABLES
  hooked,    \* MainThreadInner.hooks is Some
  pending,   \* MainThreadInner.pending
  batch,     \* what the current drain has swapped out of the queue
  running,   \* the task whose callback the main thread runs
  main,      \* where the main thread is
  message,   \* is a message in the main looper's queue?
  pc,        \* where the scheduling thread of a task is
  status,    \* MainThreadTaskStatus
  asleep,    \* tasks whose waiter sleeps on MainThreadTaskState.changed
  answer,    \* what schedule_on_main_thread, then the wait, returned
  started,   \* tasks whose callback has been called
  failures

vars == <<hooked, pending, batch, running, main, message, pc, status, asleep, answer,
          started, failures>>

-----------------------------------------------------------------------------
Init ==
  /\ hooked = FALSE
  /\ pending = <<>> /\ batch = <<>> /\ running = "none"
  /\ main \in {"busy", "polling"}
  /\ message = FALSE
  /\ pc = [t \in Tasks |-> "idle"]
  /\ status = [t \in Tasks |-> "none"]
  /\ asleep = {}
  /\ answer = [t \in Tasks |-> "none"]
  /\ started = {}
  /\ failures = 0

Goto(t, l) == pc' = [pc EXCEPT ![t] = l]
Fail == failures < MaxFailures /\ failures' = failures + 1

\* mutant: the status is set without a notification
SetStatusSilently(t, s) ==
  /\ status' = [status EXCEPT ![t] = s]
  /\ UNCHANGED asleep

(* set_main_thread_task_status: whoever sets a status wakes the waiter,    *)
(* whatever the status was before.                                         *)
SetStatus(t, s) ==
  /\ status' = [status EXCEPT ![t] = s]
  /\ asleep' = asleep \ {t}

-----------------------------------------------------------------------------
(* schedule_on_main_thread_with_state.                                     *)
EnsureHook(t) ==
  /\ pc[t] = "idle"
  /\ hooked' = TRUE
  /\ status' = [status EXCEPT ![t] = "pending"]
  /\ Goto(t, "enqueue")
  /\ UNCHANGED <<pending, batch, running, main, message, asleep, answer, started, failures>>

EnsureHookFails(t) ==
  /\ pc[t] = "idle" /\ ~hooked /\ Fail
  /\ Goto(t, "done")
  /\ answer' = [answer EXCEPT ![t] = "error"]
  /\ UNCHANGED <<hooked, pending, batch, running, main, message, status, asleep, started>>

\* mutant: the newest task goes first
EnqueueFirst(t) ==
  /\ pc[t] = "enqueue"
  /\ pending' = <<t>> \o pending
  /\ Goto(t, "wake")
  /\ UNCHANGED <<hooked, batch, running, main, message, status, asleep, answer, started,
                 failures>>

Enqueue(t) ==
  /\ pc[t] = "enqueue"
  /\ pending' = Append(pending, t)
  /\ Goto(t, "wake")
  /\ UNCHANGED <<hooked, batch, running, main, message, status, asleep, answer, started,
                 failures>>

\* mutant: no message is sent to a main thread that is not polling
WakeMainIfPolling(t) ==
  /\ pc[t] = "wake"
  /\ message' = (message \/ main = "polling")
  /\ Goto(t, "scheduled")
  /\ answer' = [answer EXCEPT ![t] = "ok"]
  /\ UNCHANGED <<hooked, pending, batch, running, main, status, asleep, started, failures>>

\* wake_main_thread delivers the message
WakeMain(t) ==
  /\ pc[t] = "wake"
  /\ message' = TRUE
  /\ Goto(t, "scheduled")
  /\ answer' = [answer EXCEPT ![t] = "ok"]
  /\ UNCHANGED <<hooked, pending, batch, running, main, status, asleep, started, failures>>

\* it does not: the call fails and the task stays in the queue
WakeMainFails(t) ==
  /\ pc[t] = "wake" /\ Fail
  /\ SetStatus(t, "failed")
  /\ Goto(t, "done")
  /\ answer' = [answer EXCEPT ![t] = "error"]
  /\ UNCHANGED <<hooked, pending, batch, running, main, message, started>>

-----------------------------------------------------------------------------
(* wait_for_completion; timed_out covers a zero timeout.                   *)
Wait(t) ==
  /\ pc[t] \in {"scheduled", "waiting"} /\ t \notin asleep
  /\ IF status[t] = "pending"
     THEN /\ asleep' = asleep \cup {t}
          /\ Goto(t, "waiting")
          /\ UNCHANGED answer
     ELSE /\ Goto(t, "done")
          /\ answer' = [answer EXCEPT ![t] = status[t]]
          /\ UNCHANGED asleep
  /\ UNCHANGED <<hooked, pending, batch, running, main, message, status, started, failures>>

TimeOut(t) ==
  /\ pc[t] \in {"scheduled", "waiting"} /\ status[t] = "pending"
  /\ Goto(t, "done")
  /\ answer' = [answer EXCEPT ![t] = "timeout"]
  /\ asleep' = asleep \ {t}
  /\ UNCHANGED <<hooked, pending, batch, running, main, message, status, started, failures>>

-----------------------------------------------------------------------------
(* The main thread.  MainThreadPollListener::on_enter drains the queue     *)
(* when epoll_wait is called.                                              *)
Poll ==
  /\ main = "busy"
  /\ main' = IF hooked THEN "drain" ELSE "polling"
  /\ UNCHANGED <<hooked, pending, batch, running, message, pc, status, asleep, answer,
                 started, failures>>

Swap ==
  /\ main = "drain"
  /\ batch' = pending /\ pending' = <<>>
  /\ main' = "next"
  /\ UNCHANGED <<hooked, running, message, pc, status, asleep, answer, started, failures>>

\* a task that is no longer pending is skipped
Skip ==
  /\ main = "next" /\ batch # <<>> /\ status[Head(batch)] # "pending"
  /\ batch' = Tail(batch)
  /\ UNCHANGED <<hooked, pending, running, main, message, pc, status, asleep, answer,
                 started, failures>>

StartCallback ==
  /\ main = "next" /\ batch # <<>> /\ status[Head(batch)] = "pending"
  /\ running' = Head(batch)
  /\ batch' = Tail(batch)
  /\ started' = started \cup {running'}
  /\ main' = "callback"
  /\ UNCHANGED <<hooked, pending, message, pc, status, asleep, answer, failures>>

\* the callback returned, failed or panicked
EndCallback ==
  /\ main = "callback"
  /\ \E s \in {"completed", "failed"} : SetStatus(running, s)
  /\ running' = "none"
  /\ main' = "next"
  /\ UNCHANGED <<hooked, pending, batch, message, pc, answer, started, failures>>

EndDrain ==
  /\ main = "next" /\ batch = <<>>
  /\ main' = "polling"
  /\ UNCHANGED <<hooked, pending, batch, running, message, pc, status, asleep, answer,
                 started, failures>>

\* a message, or another event, ends epoll_wait and is handled
PollReturns ==
  /\ main = "polling"
  /\ main' = "busy"
  /\ message' = FALSE
  /\ UNCHANGED <<hooked, pending, batch, running, pc, status, asleep, answer, started,
                 failures>>

-----------------------------------------------------------------------------
Schedule(t) == \/ EnsureHook(t) \/ EnsureHookFails(t)
Scheduling(t) == Enqueue(t) \/ WakeMain(t) \/ WakeMainFails(t)
Drain == Poll \/ Swap \/ Skip \/ StartCallback \/ EndCallback \/ EndDrain

Next == \/ \E t \in Tasks : Schedule(t) \/ Scheduling(t) \/ Wait(t) \/ TimeOut(t)
        \/ Drain \/ PollReturns

Spec == Init /\ [][Next]_vars

(* A thread in the middle of scheduling or waiting is scheduled, callbacks *)
(* return, the main thread gets back to epoll_wait, and epoll_wait returns *)
(* when a message is there.  Nothing else need ever end it.                *)
FairSpec == /\ Spec
            /\ \A t \in Tasks : WF_vars(Scheduling(t))
                             /\ WF_vars(pc[t] = "waiting" /\ Wait(t))
            /\ WF_vars(Drain)
            /\ WF_vars(message /\ PollReturns)

-----------------------------------------------------------------------------
Line == batch \o pending

(* Callbacks run in the order in which their tasks were queued, also those *)
(* queued while a drain is under way: the line only loses its head or      *)
(* grows at its end.                                                       *)
DrainsInOrder ==
  [][\/ Line' = Line
     \/ Line # <<>> /\ Line' = Tail(Line)
     \/ \E t \in Tasks : Line' = Append(Line, t)]_vars

(* A task whose scheduling succeeded is run by the main thread, however    *)
(* its poll and the calls interleave: the message is sent after the task   *)
(* is queued and the hook is in place before both.                         *)
AcceptedTasksRun ==
  \A t \in Tasks : answer[t] = "ok" ~> status[t] \in {"completed", "failed"}

(* So a waiter whose timeout does not run out gets the final status.       *)
WaitersReturn == \A t \in Tasks : pc[t] = "waiting" ~> pc[t] = "done"

(* Scheduling that returns an error has not run the callback: wakeup       *)
(* failure "should make scheduling fail".                                  *)
ErrorMeansNotRun == \A t \in Tasks : answer[t] = "error" => t \notin started

=============================================================================
