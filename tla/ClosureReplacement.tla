------------------------- MODULE ClosureReplacement -------------------------
(***************************************************************************)
(* The life of a closure-backed method hook, src/java/replacement/         *)
(* closure.rs: Java threads that branch through a hook's thunk into its    *)
(* Rust callback, the count of active invocations they keep, and the       *)
(* owner's revert() and drop(), which close the hook, wait on a condition  *)
(* variable until the count is zero, restore the ArtMethod and free the    *)
(* callback state and the thunk.                                           *)
(*                                                                         *)
(* Each element of Hooks stands for one ClosureMethodReplacement, from its *)
(* installation to the end of its guard.  A thread's call stack is the     *)
(* function frame[t] up to depth[t]: an invocation of a hook, or a revert  *)
(* or drop the thread is executing.  A callback may call hooked methods    *)
(* and, when NestedTeardown holds, operate on guards.                      *)
(*                                                                         *)
(* One action is one critical section of the ActiveInvocationState mutex,  *)
(* one ART restore, or one stretch of code between two of them.            *)
(***************************************************************************)
EXTENDS Naturals, FiniteSets

CONSTANTS
  Hooks,           \* installed replacements
  Threads,         \* threads attached to the VM
  MaxDepth,        \* bound on the nesting of one thread's frames
  MaxFailures,     \* bound on failed ART restores
  NestedTeardown   \* do callbacks revert or drop guards?

ASSUME ThreadsFinite == IsFiniteSet(Threads)
ASSUME NoneIsNoHook == "none" \notin Hooks
ASSUME BoundsAreNat ==
  /\ MaxDepth \in Nat \ {0}
  /\ MaxFailures \in Nat
ASSUME NestedTeardownIsBool == NestedTeardown \in BOOLEAN

VARIABLES
  frame,      \* frame[t][i]: the i-th frame of thread t, outermost first
  depth,      \* depth[t]: the number of frames of thread t
  closing,    \* ActiveInvocationCounts.closing
  total,      \* ActiveInvocationCounts.total
  perThread,  \* ActiveInvocationCounts.threads; an absent entry is 0
  asleep,     \* hooks whose tearing-down thread sleeps on `drained`
  guard,      \* the owner's view of the ART guard
  patched,    \* does the ArtMethod dispatch to the hook's thunk?
  memory,     \* the callback state and the thunk
  result,     \* what the last revert() of the guard returned
  failures    \* failed restores so far, bounded by MaxFailures

counts == <<closing, total, perThread, asleep>>
stack == <<frame, depth>>
owned == <<guard, patched, memory, result>>
vars == <<stack, counts, owned, failures>>

-----------------------------------------------------------------------------
(* Frames.  An invocation runs through the pcs of CallPcs, a teardown      *)
(* through those of TeardownPcs; `late` is what ActiveInvocationGuard      *)
(* captured of `closing`.                                                  *)
CallPcs == {"thunk", "entered", "callback", "leaving", "epilogue"}
TeardownPcs == {"closeWait", "restore", "inactive", "release"}

Level == 1..MaxDepth
Frame == [op : {"none", "call", "revert", "drop"},
          hook : Hooks \cup {"none"},
          pc : CallPcs \cup TeardownPcs \cup {"idle"},
          late : BOOLEAN]
NoFrame == [op |-> "none", hook |-> "none", pc |-> "idle", late |-> FALSE]

Running(t) == depth[t] > 0
Top(t) == frame[t][depth[t]]

\* t is in plain Java or Rust code and can call a hooked method
CanCall(t) == /\ depth[t] < MaxDepth
              /\ Running(t) => Top(t).pc = "callback"

\* t holds the guard of some hook in its own code, or in a callback
CanTearDown(t) == CanCall(t) /\ (Running(t) => NestedTeardown)

Push(t, f) == /\ depth' = [depth EXCEPT ![t] = @ + 1]
              /\ frame' = [frame EXCEPT ![t][depth[t] + 1] = f]
Pop(t) == /\ depth' = [depth EXCEPT ![t] = @ - 1]
          /\ frame' = [frame EXCEPT ![t][depth[t]] = NoFrame]
Goto(t, pc) == /\ frame' = [frame EXCEPT ![t][depth[t]].pc = pc]
               /\ UNCHANGED depth

\* revert(&mut self) and drop exclude each other: one teardown per guard
TearingDown(h) == \E t \in Threads, i \in Level :
                     /\ frame[t][i].hook = h
                     /\ frame[t][i].op \in {"revert", "drop"}

-----------------------------------------------------------------------------
Init ==
  /\ frame = [t \in Threads |-> [i \in Level |-> NoFrame]]
  /\ depth = [t \in Threads |-> 0]
  /\ closing = [h \in Hooks |-> FALSE]
  /\ total = [h \in Hooks |-> 0]
  /\ perThread = [h \in Hooks |-> [t \in Threads |-> 0]]
  /\ asleep = {}
  /\ guard = [h \in Hooks |-> "absent"]
  /\ patched = [h \in Hooks |-> FALSE]
  /\ memory = [h \in Hooks |-> "absent"]
  /\ result = [h \in Hooks |-> "none"]
  /\ failures = 0

(* replace_closure_method: state and thunk are allocated, then the         *)
(* ArtMethod is patched.  A failure before the patch frees both and leaves *)
(* no trace.                                                               *)
Install(h) ==
  /\ guard[h] = "absent"
  /\ guard' = [guard EXCEPT ![h] = "active"]
  /\ memory' = [memory EXCEPT ![h] = "live"]
  /\ patched' = [patched EXCEPT ![h] = TRUE]
  /\ UNCHANGED <<stack, counts, result, failures>>

-----------------------------------------------------------------------------
(* One invocation, ClosureReplacementState::invoke.                        *)

\* Java dispatches the hooked method: the thread is in the thunk, which has
\* loaded the state pointer but not yet reached enter().
Call(t, h) ==
  /\ CanCall(t)
  /\ patched[h]
  /\ Push(t, [op |-> "call", hook |-> h, pc |-> "thunk", late |-> FALSE])
  /\ UNCHANGED <<counts, owned, failures>>

\* mutant: the guard does not capture `closing`
EnterUnseen(t) ==
  /\ Running(t) /\ Top(t).pc = "thunk"
  /\ LET h == Top(t).hook IN
     /\ total' = [total EXCEPT ![h] = @ + 1]
     /\ perThread' = [perThread EXCEPT ![h][t] = @ + 1]
  /\ Goto(t, "entered")
  /\ UNCHANGED <<closing, asleep, owned, failures>>

\* ActiveInvocationState::enter
Enter(t) ==
  /\ Running(t) /\ Top(t).pc = "thunk"
  /\ LET h == Top(t).hook IN
     /\ total' = [total EXCEPT ![h] = @ + 1]
     /\ perThread' = [perThread EXCEPT ![h][t] = @ + 1]
     /\ frame' = [frame EXCEPT ![t][depth[t]].pc = "entered",
                               ![t][depth[t]].late = closing[h]]
  /\ UNCHANGED <<depth, closing, asleep, owned, failures>>

\* the guard did not see `closing` and the JNI local frame was pushed
BeginCallback(t) ==
  /\ Running(t) /\ Top(t).pc = "entered" /\ ~Top(t).late
  /\ Goto(t, "callback")
  /\ UNCHANGED <<counts, owned, failures>>

\* mutant: the early return forgets the guard instead of dropping it
ReturnUncounted(t) ==
  /\ Running(t) /\ Top(t).pc = "entered"
  /\ Goto(t, "epilogue")
  /\ UNCHANGED <<counts, owned, failures>>

\* early return of the default value: closing, or no local frame
ReturnDefault(t) ==
  /\ Running(t) /\ Top(t).pc = "entered"
  /\ Goto(t, "leaving")
  /\ UNCHANGED <<counts, owned, failures>>

\* the callback returned, failed or panicked, and any error handler ran
EndCallback(t) ==
  /\ Running(t) /\ Top(t).pc = "callback"
  /\ Goto(t, "leaving")
  /\ UNCHANGED <<counts, owned, failures>>

SaturatingDec(n) == IF n = 0 THEN 0 ELSE n - 1

\* mutants: the last invocation does not notify; the total loses the whole
\* share of the thread
LeaveSilently(t) ==
  /\ Running(t) /\ Top(t).pc = "leaving"
  /\ LET h == Top(t).hook IN
     /\ total' = [total EXCEPT ![h] = SaturatingDec(@)]
     /\ perThread' = [perThread EXCEPT ![h][t] = SaturatingDec(@)]
  /\ Goto(t, "epilogue")
  /\ UNCHANGED <<closing, asleep, owned, failures>>
LeaveWholeShare(t) ==
  /\ Running(t) /\ Top(t).pc = "leaving"
  /\ LET h == Top(t).hook IN
     /\ total' = [total EXCEPT ![h] = @ - perThread[h][t]]
     /\ perThread' = [perThread EXCEPT ![h][t] = SaturatingDec(@)]
     /\ asleep' = IF total'[h] = 0 THEN asleep \ {h} ELSE asleep
  /\ Goto(t, "epilogue")
  /\ UNCHANGED <<closing, owned, failures>>

\* Drop for ActiveInvocationGuard, with its notify_all
Leave(t) ==
  /\ Running(t) /\ Top(t).pc = "leaving"
  /\ LET h == Top(t).hook IN
     /\ total' = [total EXCEPT ![h] = SaturatingDec(@)]
     /\ perThread' = [perThread EXCEPT ![h][t] = SaturatingDec(@)]
     /\ asleep' = IF total'[h] = 0 THEN asleep \ {h} ELSE asleep
  /\ Goto(t, "epilogue")
  /\ UNCHANGED <<closing, owned, failures>>

\* the thunk's epilogue returns to ART
Return(t) ==
  /\ Running(t) /\ Top(t).pc = "epilogue"
  /\ Pop(t)
  /\ UNCHANGED <<counts, owned, failures>>

-----------------------------------------------------------------------------
(* Teardown, ClosureMethodReplacement::revert and Drop.                    *)

\* close_and_wait_until_inactive refuses the current thread's own invocation
\* before it touches `closing`
RevertBusy(t, h) ==
  /\ CanTearDown(t) /\ ~TearingDown(h)
  /\ guard[h] \in {"active", "restored"}
  /\ perThread[h][t] # 0
  /\ result' = [result EXCEPT ![h] = "busy"]
  /\ UNCHANGED <<stack, counts, guard, patched, memory, failures>>

\* a drop in the hook's own callback forgets state, thunk and ART guard
DropBusy(t, h) ==
  /\ CanTearDown(t) /\ ~TearingDown(h)
  /\ guard[h] \in {"active", "restored"}
  /\ perThread[h][t] # 0
  /\ guard' = [guard EXCEPT ![h] = "gone"]
  /\ memory' = [memory EXCEPT ![h] = "leaked"]
  /\ UNCHANGED <<stack, counts, patched, result, failures>>

\* mutants: the hook stays open; an own invocation is not looked for
CloseStaysOpen(t, h, op) ==
  /\ CanTearDown(t) /\ ~TearingDown(h)
  /\ guard[h] \in {"active", "restored"}
  /\ perThread[h][t] = 0
  /\ asleep' = IF total[h] = 0 THEN asleep ELSE asleep \cup {h}
  /\ Push(t, [op |-> op, hook |-> h, late |-> FALSE,
              pc |-> IF total[h] = 0 THEN "restore" ELSE "closeWait"])
  /\ UNCHANGED <<closing, total, perThread, owned, failures>>
CloseUnchecked(t, h, op) ==
  /\ CanTearDown(t) /\ ~TearingDown(h)
  /\ guard[h] \in {"active", "restored"}
  /\ closing' = [closing EXCEPT ![h] = TRUE]
  /\ asleep' = IF total[h] = 0 THEN asleep ELSE asleep \cup {h}
  /\ Push(t, [op |-> op, hook |-> h, late |-> FALSE,
              pc |-> IF total[h] = 0 THEN "restore" ELSE "closeWait"])
  /\ UNCHANGED <<total, perThread, owned, failures>>

\* the first critical section of close_and_wait_until_inactive
Close(t, h, op) ==
  /\ CanTearDown(t) /\ ~TearingDown(h)
  /\ guard[h] \in {"active", "restored"}
  /\ perThread[h][t] = 0
  /\ closing' = [closing EXCEPT ![h] = TRUE]
  /\ asleep' = IF total[h] = 0 THEN asleep ELSE asleep \cup {h}
  /\ Push(t, [op |-> op, hook |-> h, late |-> FALSE,
              pc |-> IF total[h] = 0 THEN "restore" ELSE "closeWait"])
  /\ UNCHANGED <<total, perThread, owned, failures>>

\* the wait loop of close_and_wait_until_inactive, after a notification
CloseWake(t) ==
  /\ Running(t) /\ Top(t).pc = "closeWait"
  /\ LET h == Top(t).hook IN
     /\ h \notin asleep
     /\ IF total[h] = 0
        THEN Goto(t, "restore") /\ UNCHANGED asleep
        ELSE asleep' = asleep \cup {h} /\ UNCHANGED stack
  /\ UNCHANGED <<closing, total, perThread, owned, failures>>

\* ArtMethodReplacementGuard::revert succeeds, or was done by an earlier
\* revert and is skipped
RestoreOk(t) ==
  /\ Running(t) /\ Top(t).pc = "restore"
  /\ LET h == Top(t).hook IN
     /\ guard' = [guard EXCEPT ![h] = "restored"]
     /\ patched' = [patched EXCEPT ![h] = FALSE]
  /\ Goto(t, "inactive")
  /\ UNCHANGED <<counts, memory, result, failures>>

\* mutant: a drop whose restore failed frees state and thunk all the same
RestoreFailsFrees(t) ==
  /\ Running(t) /\ Top(t).pc = "restore"
  /\ LET h == Top(t).hook IN
     /\ guard[h] = "active"
     /\ failures < MaxFailures /\ failures' = failures + 1
     /\ guard' = [guard EXCEPT ![h] = IF Top(t).op = "drop" THEN "gone" ELSE @]
     /\ memory' = [memory EXCEPT ![h] = IF Top(t).op = "drop" THEN "freed" ELSE @]
  /\ Pop(t)
  /\ UNCHANGED <<counts, patched, result>>

\* it fails: revert() puts the guard back, drop() leaks everything
RestoreFails(t) ==
  /\ Running(t) /\ Top(t).pc = "restore"
  /\ LET h == Top(t).hook IN
     /\ guard[h] = "active"
     /\ failures < MaxFailures /\ failures' = failures + 1
     /\ \/ /\ Top(t).op = "revert"
           /\ result' = [result EXCEPT ![h] = "failed"]
           /\ UNCHANGED <<guard, memory>>
        \/ /\ Top(t).op = "drop"
           /\ guard' = [guard EXCEPT ![h] = "gone"]
           /\ memory' = [memory EXCEPT ![h] = "leaked"]
           /\ UNCHANGED result
  /\ Pop(t)
  /\ UNCHANGED <<counts, patched>>

\* the wait loop of wait_until_inactive; not reached by an invoking thread
InactiveWait(t) ==
  /\ Running(t) /\ Top(t).pc = "inactive"
  /\ LET h == Top(t).hook IN
     /\ h \notin asleep
     /\ perThread[h][t] = 0 /\ total[h] # 0
     /\ asleep' = asleep \cup {h}
  /\ UNCHANGED <<stack, closing, total, perThread, owned, failures>>

\* wait_until_inactive returns: revert() is done, drop() goes on to free
Inactive(t) ==
  /\ Running(t) /\ Top(t).pc = "inactive"
  /\ LET h == Top(t).hook IN
     /\ h \notin asleep
     /\ perThread[h][t] # 0 \/ total[h] = 0
     /\ \/ /\ Top(t).op = "revert"
           /\ result' = [result EXCEPT ![h] = "ok"]
           /\ Pop(t)
        \/ /\ Top(t).op = "drop"
           /\ Goto(t, "release")
           /\ UNCHANGED result
  /\ UNCHANGED <<counts, guard, patched, memory, failures>>

\* the fields of ClosureMethodReplacement are dropped
Release(t) ==
  /\ Running(t) /\ Top(t).pc = "release"
  /\ LET h == Top(t).hook IN
     /\ guard' = [guard EXCEPT ![h] = "gone"]
     /\ memory' = [memory EXCEPT ![h] = "freed"]
  /\ Pop(t)
  /\ UNCHANGED <<counts, patched, result, failures>>

-----------------------------------------------------------------------------
\* steps a running thread takes on its own
Invoke(t) == \/ Enter(t) \/ BeginCallback(t) \/ ReturnDefault(t)
             \/ EndCallback(t) \/ Leave(t) \/ Return(t)
TearDown(t) == \/ CloseWake(t) \/ RestoreOk(t) \/ RestoreFails(t)
               \/ InactiveWait(t) \/ Inactive(t) \/ Release(t)

\* steps a thread may choose to take
Start(t, h) == \/ Call(t, h) \/ RevertBusy(t, h) \/ DropBusy(t, h)
               \/ Close(t, h, "revert") \/ Close(t, h, "drop")

Next == \/ \E h \in Hooks : Install(h)
        \/ \E t \in Threads : Invoke(t) \/ TearDown(t)
        \/ \E t \in Threads, h \in Hooks : Start(t, h)

Spec == Init /\ [][Next]_vars

(* Threads that are in the middle of an invocation or a teardown are       *)
(* scheduled.  A callback returns after finitely many operations: strong   *)
(* fairness at its place on the stack, since it can leave only between two *)
(* of them.  Nothing forces a call or a teardown to start, and nothing     *)
(* bounds how often a hooked method is called.                             *)
FairSpec == /\ Spec
            /\ \A t \in Threads :
                 /\ WF_vars(Invoke(t) \/ TearDown(t))
                 /\ \A i \in Level : SF_vars(depth[t] = i /\ EndCallback(t))

-----------------------------------------------------------------------------
TypeOK ==
  /\ frame \in [Threads -> [Level -> Frame]]
  /\ depth \in [Threads -> 0..MaxDepth]
  /\ closing \in [Hooks -> BOOLEAN]
  /\ total \in [Hooks -> Nat]
  /\ perThread \in [Hooks -> [Threads -> Nat]]
  /\ asleep \in SUBSET Hooks
  /\ guard \in [Hooks -> {"absent", "active", "restored", "gone"}]
  /\ patched \in [Hooks -> BOOLEAN]
  /\ memory \in [Hooks -> {"absent", "live", "freed", "leaked"}]
  /\ result \in [Hooks -> {"none", "busy", "failed", "ok"}]
  /\ failures \in Nat

\* the invocations of h between enter() and the drop of their guard
CountsFor(f, h) == f.hook = h /\ f.pc \in {"entered", "callback", "leaving"}
Counted(h) == {p \in Threads \X Level : CountsFor(frame[p[1]][p[2]], h)}
CountedOn(t, h) == {i \in Level : CountsFor(frame[t][i], h)}

\* those among them that were admitted: they saw the hook open
Admitted(h) == {p \in Counted(h) : ~frame[p[1]][p[2]].late}

\* the drain of h has ended: a teardown is past it, or has succeeded
Drained(h) ==
  \/ guard[h] = "restored"
  \/ memory[h] = "freed"
  \/ \E t \in Threads, i \in Level :
       /\ frame[t][i].hook = h
       /\ frame[t][i].pc \in {"restore", "inactive", "release"}

(* The counters are exact: `total` is the number of invocations of the     *)
(* hook between enter() and the drop of their guard, and each thread's     *)
(* entry is its own share, through any nesting of calls on one thread.     *)
CountsExact ==
  \A h \in Hooks :
    /\ total[h] = Cardinality(Counted(h))
    /\ \A t \in Threads :
         perThread[h][t] = Cardinality(CountedOn(t, h))

(* Once a teardown has drained the hook, no thread is in the callback and  *)
(* none can get there: it may be restored and freed although threads still *)
(* arrive through the thunk (close_and_wait_until_inactive sets `closing`  *)
(* under the same lock as the count).                                      *)
CallbackFence ==
  \A h \in Hooks : Drained(h) => Admitted(h) = {}

(* No wakeup is lost: a teardown sleeps on the condition variable only     *)
(* while an invocation is counted whose guard will notify it.              *)
NoLostWakeup ==
  \A h \in asleep : total[h] # 0

(* As long as ART dispatches the method to the thunk, thunk and callback   *)
(* state are mapped: a restore that failed, or a drop from inside the      *)
(* callback, leaks them instead of freeing.                                *)
PatchedMeansMapped ==
  \A h \in Hooks : patched[h] => memory[h] \in {"live", "leaked"}

(* A hook that is installed, owned and not being torn down admits          *)
(* invocations: JavaHookGuard::revert promises that the replacement stays  *)
(* active when restore reports an error.                                   *)
InstalledMeansOpen ==
  \A h \in Hooks :
    guard[h] = "active" /\ ~TearingDown(h) => ~closing[h]

(* The state of a hook is freed only when no invocation is counted in it:  *)
(* "guard teardown waits for other active callbacks to drain before        *)
(* restoring and freeing state".                                           *)
FreedMeansInactive ==
  \A h \in Hooks : memory[h] = "freed" => Counted(h) = {}

\* threads that wait for an invocation of another thread among them
Knot(S) ==
  \A t \in S :
    /\ Running(t) /\ Top(t).pc \in {"closeWait", "inactive"}
    /\ \E u \in S \ {t} : perThread[Top(t).hook][u] # 0
CyclicWait == \E S \in SUBSET Threads : S # {} /\ Knot(S)

\* a teardown of h waits while an invocation that came after it is counted
Overrun(h) ==
  /\ \E t \in Threads : /\ Running(t) /\ Top(t).hook = h
                        /\ Top(t).pc \in {"closeWait", "inactive"}
  /\ Counted(h) # Admitted(h)

(* A teardown ends, with two exceptions: callbacks that tear down each     *)
(* other's hooks wait in a cycle, or calls of a hook that is closed never  *)
(* cease.  Such a call only gets the default value, but enter() counts it, *)
(* and the drain may find it counted each time it wakes.  A teardown never *)
(* waits for the callback that it is in, and no wakeup passes it by.       *)
TeardownsEnd ==
  \A h \in Hooks : []<>(~TearingDown(h) \/ CyclicWait \/ \E g \in Hooks : Overrun(g))

-----------------------------------------------------------------------------
\* the refinement mapping to HookContract
Phase(h) ==
  IF guard[h] = "absent" THEN "absent"
  ELSE IF memory[h] = "freed" THEN "freed"
  ELSE IF guard[h] = "restored" THEN "restored"
  ELSE IF \E t \in Threads, i \in Level :
            frame[t][i].hook = h /\ frame[t][i].pc = "restore" THEN "quiet"
  ELSE IF closing[h] THEN "draining" ELSE "open"

Contract == INSTANCE HookContract WITH
  Invocations <- Threads \X Level,
  phase <- [h \in Hooks |-> Phase(h)],
  running <- [h \in Hooks |-> Admitted(h)]

(* The counters, the lock and the condition variable implement the         *)
(* contract of a hook: every step is one of its moves or changes nothing.  *)
ImplementsContract == Contract!Spec

=============================================================================
