----------------------------- MODULE AppPerform -----------------------------
(***************************************************************************)
(* Java::perform and Java::wait_for_app_loader: src/java/perform.rs and    *)
(* the callers in src/java/handle.rs.                                      *)
(*                                                                         *)
(* Callers run a callback, or wait, once the app's class loader is known.  *)
(* Until then a callback is queued and hooks on the app's startup methods  *)
(* are installed; the first of their callbacks, or of the callers' own     *)
(* attempts, that obtains a loader publishes it and drains the queue, once *)
(* per process.  The app's main thread runs through its startup meanwhile. *)
(*                                                                         *)
(* Each caller makes one call.  The startup methods and what               *)
(* currentApplication() returns are external; a callback of a hook is what *)
(* src/ makes of them.                                                     *)
(***************************************************************************)
EXTENDS Naturals, Sequences, FiniteSets

CONSTANTS
  Performers,    \* calls of Java::perform
  Waiters,       \* calls of Java::wait_for_app_loader with a timeout
  MaxFailures    \* bound on failed JNI lookups and hook installations

Callers == Performers \cup Waiters
Actors == Callers \cup {"main"}

ASSUME DisjointCallers == Performers \cap Waiters = {} /\ "main" \notin Callers
ASSUME NoneIsNoActor == "none" \notin Actors
ASSUME MaxFailuresIsNat == MaxFailures \in Nat

VARIABLES
  default,       \* AppPerformInner.default
  pending,       \* AppPerformInner.pending
  startup,       \* AppPerformInner.startup_drain
  installed,     \* AppPerformInner.hooks is Some
  lock,          \* who holds the AppPerformInner mutex across steps
  asleep,        \* waiters asleep on default_published
  pc, source,    \* an actor's place, and the source of the loader it brings
  batch,         \* callbacks a draining actor has swapped out of the queue
  status,        \* PerformStatus of a performer's callback
  answer,        \* what the call returned
  hooks,         \* startup methods that are hooked
  stage,         \* how far the main thread has brought the app
  intercepted,   \* did the main thread's current startup call enter a hook?
  bindHooked,    \* did handleBindApplication enter its hook?
  instrumented,  \* is the app started under instrumentation?
  overtaken,     \* history: was a drain under way when the bind hook asked?
  failures

state == <<default, pending, startup, installed>>
app == <<stage, intercepted, bindHooked, instrumented, overtaken>>
calls == <<batch, status, answer>>
vars == <<state, lock, asleep, pc, source, calls, hooks, app, failures>>

-----------------------------------------------------------------------------
Hookpoints == {"bind", "make", "package"}
Sources == {"Direct", "CurrentApplication", "Application", "LoadedApk"}
LoaderOf(src) == IF src = "LoadedApk" THEN "apk" ELSE "app"

Free == lock = "none"
Goto(a, l) == pc' = [pc EXCEPT ![a] = l]
Fail == failures < MaxFailures /\ failures' = failures + 1

\* where an actor goes after its attempt to drain
AfterDrain(a) == IF a = "main" THEN "idle"
                 ELSE IF a \in Performers THEN "done" ELSE "recheck"
Forget(a) == source' = [source EXCEPT ![a] = "Direct"]
Answered(a) == IF a \in Performers THEN [answer EXCEPT ![a] = "ok"] ELSE answer

Init ==
  /\ default = "none" /\ pending = <<>>
  /\ startup = [is |-> "waiting", late |-> FALSE]
  /\ installed = FALSE /\ lock = "none" /\ asleep = {}
  /\ pc = [a \in Actors |-> "idle"]
  /\ source = [a \in Actors |-> "Direct"]
  /\ batch = [a \in Actors |-> <<>>]
  /\ status = [p \in Performers |-> "none"]
  /\ answer = [c \in Callers |-> "none"]
  /\ hooks = {}
  /\ stage = "unbound" /\ intercepted = FALSE /\ bindHooked = FALSE
  /\ instrumented \in BOOLEAN /\ overtaken = FALSE
  /\ failures = 0

-----------------------------------------------------------------------------
(* The callers: perform_with_state and wait_for_app_loader_with_state.     *)

\* a published loader is used at once: the callback runs, the wait returns
Immediate(c) ==
  /\ status' \in IF c \in Performers
                 THEN {[status EXCEPT ![c] = s] : s \in {"completed", "failed"}}
                 ELSE {status}
  /\ answer' = [answer EXCEPT ![c] = "ok"]
  /\ Goto(c, "done")

\* the first look at the default loader
Start(c) ==
  /\ pc[c] = "idle" /\ Free
  /\ \/ /\ default # "none"
        /\ Immediate(c)
     \/ /\ default = "none"
        /\ status' = IF c \in Performers THEN [status EXCEPT ![c] = "pending"] ELSE status
        /\ Goto(c, "lookup")
        /\ UNCHANGED answer
  /\ UNCHANGED <<state, lock, asleep, source, batch, hooks, app, failures>>

\* app_loader_java_from_activity_thread finds an application
LookupFinds(c) ==
  /\ pc[c] = "lookup" /\ stage = "running"
  /\ Goto(c, "publish")
  /\ source' = [source EXCEPT ![c] = "Direct"]
  /\ UNCHANGED <<state, lock, asleep, calls, hooks, app, failures>>

\* it finds none yet
LookupUnavailable(c) ==
  /\ pc[c] = "lookup" /\ stage # "running"
  /\ Goto(c, "ensure")
  /\ UNCHANGED <<state, lock, asleep, source, calls, hooks, app, failures>>

\* any other error ends the call
LookupFails(c) ==
  /\ pc[c] = "lookup" /\ Fail
  /\ Goto(c, "done")
  /\ answer' = [answer EXCEPT ![c] = "error"]
  /\ UNCHANGED <<state, lock, asleep, source, batch, status, hooks, app>>

\* a caller that published the loader it looked up goes on with it
Proceed(c) ==
  /\ pc[c] = "now"
  /\ Immediate(c)
  /\ UNCHANGED <<state, lock, asleep, source, batch, hooks, app, failures>>

-----------------------------------------------------------------------------
(* ensure_hook: the mutex is held while the hooks are installed one by     *)
(* one, each active from its own installation on.                          *)
AfterEnsure(c) == IF c \in Performers THEN "enqueue" ELSE "begin"

EnsureStored(c) ==
  /\ pc[c] = "ensure" /\ Free /\ installed
  /\ Goto(c, AfterEnsure(c))
  /\ source' = [source EXCEPT ![c] = "CurrentApplication"]
  /\ UNCHANGED <<state, lock, asleep, calls, hooks, app, failures>>

EnsureStart(c) ==
  /\ pc[c] = "ensure" /\ Free /\ ~installed
  /\ lock' = c
  /\ Goto(c, "bind")
  /\ UNCHANGED <<state, asleep, source, calls, hooks, app, failures>>

NextHook(h) == CASE h = "bind" -> "make" [] h = "make" -> "package" [] h = "package" -> "store"

InstallHook(c, h) ==
  /\ pc[c] = h
  /\ \/ hooks' = hooks \cup {h} /\ UNCHANGED failures
     \/ UNCHANGED hooks /\ Fail
  /\ Goto(c, NextHook(h))
  /\ UNCHANGED <<state, lock, asleep, source, calls, app>>

Store(c) ==
  /\ pc[c] = "store" /\ hooks \cap {"make", "package"} # {}
  /\ installed' = TRUE
  /\ lock' = "none"
  /\ Goto(c, AfterEnsure(c))
  /\ source' = [source EXCEPT ![c] = "CurrentApplication"]
  /\ UNCHANGED <<default, pending, startup, asleep, calls, hooks, app, failures>>

\* neither hook that drains could be installed: the guard of the bind hook is
\* dropped, which waits for a callback of it until handleBindApplication, the
\* original it calls, returns; only then is the mutex released
EnsureFails(c) ==
  /\ pc[c] = "store" /\ hooks \cap {"make", "package"} = {}
  /\ bindHooked => stage = "running"
  /\ hooks' = {}
  /\ lock' = "none"
  /\ Goto(c, "done")
  /\ answer' = [answer EXCEPT ![c] = "error"]
  /\ UNCHANGED <<state, asleep, source, batch, status, app, failures>>

Enqueue(p) ==
  /\ pc[p] = "enqueue" /\ Free
  /\ pending' = Append(pending, p)
  /\ Goto(p, "begin")
  /\ UNCHANGED <<default, startup, installed, lock, asleep, source, calls, hooks, app, failures>>

-----------------------------------------------------------------------------
(* An attempt to drain, by a caller in drain_if_ready or by the main       *)
(* thread in the callback of a hook.                                       *)
\* mutants: a drain under way or done does not keep others out; a failed drain
\* leaves the one-shot drain claimed, or waits for the early hookpoint again
CanBeginAlways(s, src) == ~(src = "LoadedApk" /\ s.late)
FinishedClaimed(s, success) == IF success THEN [s EXCEPT !.is = "initialized"] ELSE s
FinishedForgets(s, success) ==
  [is |-> IF success THEN "initialized" ELSE "waiting", late |-> FALSE]

CanBegin(s, src) == s.is = "waiting" /\ ~(src = "LoadedApk" /\ s.late)
Finished(s, success) == [s EXCEPT !.is = IF success THEN "initialized" ELSE "waiting"]

Begin(a) ==
  /\ pc[a] = "begin" /\ Free
  /\ CanBegin(startup, source[a])
  /\ startup' = [startup EXCEPT !.is = "draining"]
  /\ Goto(a, "loader")
  /\ UNCHANGED <<default, pending, installed, lock, asleep, source, calls, hooks, app, failures>>

\* another drain is under way or done: nothing is drained
BeginRefused(a) ==
  /\ pc[a] = "begin" /\ Free
  /\ ~CanBegin(startup, source[a])
  /\ Goto(a, AfterDrain(a)) /\ Forget(a)
  /\ answer' = Answered(a)
  /\ UNCHANGED <<state, lock, asleep, batch, status, hooks, app, failures>>

LoaderFound(a) ==
  /\ pc[a] = "loader"
  /\ a = "main" \/ stage = "running"
  /\ Goto(a, "publish")
  /\ UNCHANGED <<state, lock, asleep, source, calls, hooks, app, failures>>

\* no application yet, or a failed lookup
LoaderMissing(a) ==
  /\ pc[a] = "loader"
  /\ \/ a # "main" /\ stage # "running" /\ UNCHANGED failures
     \/ Fail
  /\ Goto(a, "unready")
  /\ UNCHANGED <<state, lock, asleep, source, calls, hooks, app>>

\* publish_app_loader; notify_all follows after the mutex is released
Publish(a) ==
  /\ pc[a] = "publish" /\ Free
  /\ default' = LoaderOf(source[a])
  /\ Goto(a, IF default = LoaderOf(source[a])
             THEN IF source[a] = "Direct" THEN "now" ELSE "swap"
             ELSE "notify")
  /\ UNCHANGED <<pending, startup, installed, lock, asleep, source, calls, hooks, app, failures>>

\* mutant: the notification wakes nobody
NotifyNobody(a) ==
  /\ pc[a] = "notify"
  /\ Goto(a, IF source[a] = "Direct" THEN "now" ELSE "swap")
  /\ UNCHANGED <<state, lock, asleep, source, calls, hooks, app, failures>>

Notify(a) ==
  /\ pc[a] = "notify"
  /\ asleep' = {}
  /\ Goto(a, IF source[a] = "Direct" THEN "now" ELSE "swap")
  /\ UNCHANGED <<state, lock, source, calls, hooks, app, failures>>

PublishFails(a) ==
  /\ pc[a] = "publish" /\ Fail
  /\ IF source[a] = "Direct"
     THEN Goto(a, "done") /\ answer' = [answer EXCEPT ![a] = "error"]
     ELSE Goto(a, "unready") /\ UNCHANGED answer
  /\ UNCHANGED <<state, lock, asleep, source, batch, status, hooks, app>>

\* mutants: the queue is copied, not taken; or cleared without its callbacks
SwapCopies(a) ==
  /\ pc[a] = "swap" /\ Free
  /\ batch' = [batch EXCEPT ![a] = pending]
  /\ Goto(a, "run")
  /\ UNCHANGED <<state, lock, asleep, source, status, answer, hooks, app, failures>>
SwapForgets(a) ==
  /\ pc[a] = "swap" /\ Free
  /\ pending' = <<>>
  /\ Goto(a, "run")
  /\ UNCHANGED <<default, startup, installed, lock, asleep, source, calls, hooks, app, failures>>

\* drain_with_app_java takes the whole queue
Swap(a) ==
  /\ pc[a] = "swap" /\ Free
  /\ batch' = [batch EXCEPT ![a] = pending]
  /\ pending' = <<>>
  /\ Goto(a, "run")
  /\ UNCHANGED <<default, startup, installed, lock, asleep, source, status, answer, hooks,
                 app, failures>>

\* complete_perform: the callback returns, fails, panics or cannot attach
Run(a) ==
  /\ pc[a] = "run" /\ batch[a] # <<>>
  /\ \E s \in {"completed", "failed"} :
       status' = [status EXCEPT ![Head(batch[a])] = s]
  /\ batch' = [batch EXCEPT ![a] = Tail(@)]
  /\ UNCHANGED <<state, lock, asleep, pc, source, answer, hooks, app, failures>>

Finish(a) ==
  /\ Free
  /\ pc[a] = "unready" \/ (pc[a] = "run" /\ batch[a] = <<>>)
  /\ startup' = Finished(startup, pc[a] = "run")
  /\ Goto(a, AfterDrain(a)) /\ Forget(a)
  /\ answer' = Answered(a)
  /\ UNCHANGED <<default, pending, installed, lock, asleep, batch, status, hooks, app,
                 failures>>

-----------------------------------------------------------------------------
(* wait_for_default_loader.                                                *)
Wait(w) ==
  /\ pc[w] = "recheck" /\ Free
  /\ \/ /\ default # "none"
        /\ Goto(w, "done")
        /\ answer' = [answer EXCEPT ![w] = "ok"]
        /\ UNCHANGED asleep
     \/ /\ default = "none"
        /\ Goto(w, "waiting")
        /\ asleep' = asleep \cup {w}
        /\ UNCHANGED answer
  /\ UNCHANGED <<state, lock, source, batch, status, hooks, app, failures>>

Wake(w) ==
  /\ pc[w] = "waiting" /\ w \notin asleep
  /\ Goto(w, "recheck")
  /\ UNCHANGED <<state, lock, asleep, source, calls, hooks, app, failures>>

\* the deadline passes, between the immediate probes or in the wait
TimeOut(w) ==
  /\ \/ pc[w] = "ensure"
     \/ pc[w] \in {"recheck", "waiting"} /\ default = "none" /\ Free
  /\ Goto(w, "done")
  /\ answer' = [answer EXCEPT ![w] = "timeout"]
  /\ asleep' = asleep \ {w}
  /\ UNCHANGED <<state, lock, source, batch, status, hooks, app, failures>>

-----------------------------------------------------------------------------
(* The main thread starting the app; a call enters a hook that is active.  *)
Enter(from, to, h) ==
  /\ pc["main"] = "idle" /\ stage = from
  /\ stage' = to
  /\ intercepted' = (h \in hooks)
  /\ bindHooked' = (bindHooked \/ (h = "bind" /\ h \in hooks))
  /\ UNCHANGED <<state, lock, asleep, pc, source, calls, hooks, instrumented, overtaken,
                 failures>>

EnterBind == Enter("unbound", "binding", "bind")
EnterPackage == Enter("bound", "package", "package")
EnterMake == Enter("packaged", "make", "make")

\* the bind hook calls require_late_hookpoint, then the original
Bind ==
  /\ stage = "binding"
  /\ stage' = "bound"
  /\ IF intercepted /\ instrumented
     THEN /\ Free
          /\ startup' = IF startup.is = "waiting" THEN [startup EXCEPT !.late = TRUE]
                                                  ELSE startup
          /\ overtaken' = (startup.is = "draining")
     ELSE UNCHANGED <<startup, overtaken>>
  /\ UNCHANGED <<default, pending, installed, lock, asleep, pc, source, calls, hooks,
                 intercepted, bindHooked, instrumented, failures>>

\* the original has returned; a hooked call attempts to drain
Leave(from, to, src) ==
  /\ stage = from
  /\ stage' = to
  /\ intercepted' = FALSE
  /\ IF intercepted
     THEN Goto("main", "begin") /\ source' = [source EXCEPT !["main"] = src]
     ELSE UNCHANGED <<pc, source>>
  /\ UNCHANGED <<state, lock, asleep, calls, hooks, bindHooked, instrumented, overtaken,
                 failures>>

LeavePackage == Leave("package", "packaged", "LoadedApk")
LeaveMake == Leave("make", "made", "Application")

\* currentApplication() returns the application
Visible ==
  /\ pc["main"] = "idle" /\ stage = "made"
  /\ stage' = "running"
  /\ UNCHANGED <<state, lock, asleep, pc, source, calls, hooks, intercepted, bindHooked,
                 instrumented, overtaken, failures>>

-----------------------------------------------------------------------------
Ensure(c) == \/ EnsureStored(c) \/ EnsureStart(c) \/ Store(c) \/ EnsureFails(c)
             \/ \E h \in Hookpoints : InstallHook(c, h)
Continue(c) == \/ LookupFinds(c) \/ LookupUnavailable(c) \/ LookupFails(c) \/ Proceed(c)
               \/ Ensure(c) \/ (c \in Performers /\ Enqueue(c))
               \/ (c \in Waiters /\ (Wait(c) \/ Wake(c)))
Drain(a) == \/ Begin(a) \/ BeginRefused(a) \/ LoaderFound(a) \/ LoaderMissing(a)
            \/ Publish(a) \/ Notify(a) \/ PublishFails(a) \/ Swap(a) \/ Run(a) \/ Finish(a)
StartApp == \/ EnterBind \/ Bind \/ EnterPackage \/ LeavePackage \/ EnterMake \/ LeaveMake
            \/ Visible

Next == \/ \E c \in Callers : Start(c) \/ Continue(c)
        \/ \E w \in Waiters : TimeOut(w)
        \/ \E a \in Actors : Drain(a)
        \/ StartApp

Spec == Init /\ [][Next]_vars

(* Threads in the middle of a call or a drain are scheduled, and the app   *)
(* starts.  Nothing forces a call to be made, or a wait to time out.       *)
FairSpec == /\ Spec
            /\ \A c \in Callers : WF_vars(Continue(c))
            /\ \A a \in Actors : WF_vars(Drain(a))
            /\ WF_vars(StartApp)

-----------------------------------------------------------------------------
DrainPcs == {"loader", "publish", "notify", "swap", "run", "unready"}

Draining == {a \in Actors : pc[a] \in DrainPcs /\ source[a] # "Direct"}
Done(p) == status[p] \in {"completed", "failed"}
In(p, s) == {i \in DOMAIN s : s[i] = p}

(* At most one thread drains, and startup_drain tells when: callers and    *)
(* the hooks on the main thread exclude each other without holding the     *)
(* mutex while callbacks run.                                              *)
OneDrain ==
  Cardinality(Draining) = IF startup.is = "draining" THEN 1 ELSE 0

(* A callback runs at most once: it is queued or in one drain's batch only *)
(* as long as it has not run, and never twice.                             *)
RunsAtMostOnce ==
  \A p \in Performers :
    Cardinality(In(p, pending)) + Cardinality({a \in Actors : In(p, batch[a]) # {}})
      <= IF Done(p) THEN 0 ELSE 1

(* "handleBindApplication switches instrumented startup to the late        *)
(* make-application path": an instrumented start whose bind hook ran never *)
(* drains on the main thread with the loader of the package, whichever     *)
(* callers begin drains before and after it, and however often they fail   *)
(* and begin again.  The exception is a drain under way at the moment the  *)
(* hook asks: the request is dropped, and if that drain fails the early    *)
(* path is open.                                                           *)
LateDrainsLate ==
  instrumented /\ bindHooked /\ ~overtaken
    => ~("main" \in Draining /\ source["main"] = "LoadedApk")

(* Every drain ends, and one that takes the queue runs all of it.          *)
DrainsEnd == startup.is = "draining" ~> startup.is # "draining"
TakenCallbacksRun ==
  \A p \in Performers :
    (\E a \in Actors : pc[a] = "swap") /\ In(p, pending) # {} ~> Done(p)

(* A waiter whose timeout does not run out returns once a loader is        *)
(* published.                                                              *)
WaitersReturn ==
  \A w \in Waiters : pc[w] = "waiting" /\ default # "none" ~> pc[w] = "done"

(* perform's promise to a caller it returned to: the callback has run or   *)
(* is "queued to run automatically when Application appears".              *)
AcceptedCallbacksRun ==
  \A p \in Performers : answer[p] = "ok" ~> Done(p)

(* "Deferred setup returns UnsupportedFeature if neither make-application  *)
(* nor get-package-info hook coverage can be installed".                   *)
UnsupportedIsReturned ==
  \A c \in Callers :
    pc[c] = "store" /\ hooks \cap {"make", "package"} = {} ~> pc[c] = "done"

=============================================================================
