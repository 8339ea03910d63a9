# A verification development for frida-rust-java-bridge

frida-rust-java-bridge lets a Rust agent inside an Android process use Java: find
classes, call members, replace methods by Rust closures, run callbacks once the app's
class loader exists, or on the app's main thread. This directory holds TLA+
specifications of its parts, TLC configurations that check them on small instances, and
TLAPS proofs of what matters most for every value of the constants. Paths below are
relative to the repository; `PROJECT.json` maps every definition to the lines it models
and lists the runs, the mutants each property is tested against, the hazards and the
findings.

## Inventory

| Component | State | Hard behaviour | Modelled by |
|---|---|---|---|
| Hook closure lifecycle, `src/java/replacement/{closure,trampoline,api}.rs` | active-invocation counters (`total`, `threads`, `closing`) under a mutex, condvar `drained`, callback state, thunk, guard | any Java thread enters while the owner tears down; nested and recursive calls; teardown from callbacks; failing restore | `ClosureReplacement`, `HookContract` |
| ART method replacement, `src/art/replacement.rs`, `replacement/*` | cloned `ArtMethod`, dispatch thunk, snapshot, the controller's two maps, listeners | suspension of all threads, a moving collector, two replacements of one method, partial failure; which calls reach callback or original | `ArtReplacement`, `ReplacementDispatch` |
| Hook context and original calls, `src/java/replacement/{context,original,returns,arguments,targets}.rs` | one invocation: local frame, pending exception, recorded error | errors and exceptions on every way out, references that outlive their frame, registers and stack of the trampoline | `HookInvocation`, `HookValues`, `HookTargets` |
| Deoptimization, `src/art/deoptimization.rs` | JDWP session, agent controls | check-then-act against replacements, half-started session | `Deoptimization` |
| Runnable-thread transition, `src/art/runnable_thread*` | the recompiled `ExceptionClear` | code that must keep its way through blocks found in any order | `RunnableTransition` |
| ART enumeration, `src/art/enumeration.rs` | raw global references under way, suspended threads, forged handle scope | failures and panics half-way, ownership | `Enumeration` |
| App-loader deferral, `src/java/perform.rs`, `handle.rs` | default loader, queue, `startup_drain`, installed hooks, condvar | callers race the app's startup; one-shot drain; errors under the mutex | `AppPerform` |
| Main-thread scheduler, `src/java/main_thread.rs` | queue, `epoll_wait` hook, task statuses with a condvar | enqueue and wakeup race the drain; timeouts | `MainThread` |
| Class cache and handles, `src/java/handle.rs`, `lookup.rs`, `mod.rs`, `loader.rs` | caches shared by clones of a handle, default loader | check-then-insert, default loader replaced | `ClassLookup` |
| References and attachment, `src/refs.rs`, `vm.rs`, `env/{mod,references}.rs` | local and global references, attachment of threads | nesting, ownership across threads | `JniScopes`, `CallTemporaries`, `JniReferences` |
| JNI environment and metadata, `src/env/*`, `src/metadata/*` | none of its own | choice of function by kind and type, preconditions of JNI | `JniAccess` |
| Members, overloads and arrays, `src/java/{members,class,object,array,dispatch,args,…}` | none | ranking, classes of one name in two loaders | `MemberSelection` |
| Signatures, queries, values, `src/{signature,method_query,coercion,value}.rs` | none | hand-written parser, glob, narrowing | `JavaTypes`, `Signatures`, `JavaValues` |
| Backend, layout, symbols, runtime discovery; self-tests, examples | probed once | reads of process memory | not modelled |

How they interact. `JavaMethod::replace` selects a member (`MemberSelection`,
`HookTargets`), builds a closure state and a thunk and hands the thunk to
`ArtBackend::replace_method` (`ArtReplacement`); Java threads reach the callback through
the dispatch thunk, the clone and the closure's thunk (`ReplacementDispatch`), are counted
(`ClosureReplacement`), and run the callback in a frame of its own (`HookInvocation`). A
`JavaHookGuard` owns both layers: its teardown closes and drains the closure layer, then
restores the ART layer, then frees memory. `perform` is a client of the hooks: it installs
three of them on startup methods and drains its queue from their callbacks, and publishes
the default loader that handles look classes up with (`ClassLookup`). Deoptimization shares
the controller's map and the runnable state with the replacements. The main-thread
scheduler uses Gum's interceptor directly.

What makes each correct:

* closure lifecycle: counters are exact; no callback starts after a drain; no teardown
  misses its wakeup or waits for itself; a teardown ends once calls of its hook cease;
  memory ART dispatches to is mapped;
* ART replacement: maps inverse to each other and naming mapped memory; no entrypoint into
  an unmapped thunk; a revert restores the method itself; clones hold the current class;
* dispatch: a call of a replaced method reaches its callback, and the original runs only
  for the callback that asks for it;
* invocation: the caller in Java gets the exception it is owed, handlers run without one,
  results and arguments are live and are what was passed;
* deoptimization: never of a replaced method; one debugger, with the published session;
* threads: attached as long as needed, resumed, made native again, handle scopes popped;
* references: none is deleted twice or while in use; each global one that an enumeration
  makes has an owner, but for two endings that lose some (see Observations);
* lookups: a handle with a loader finds what that loader finds;
* perform: one drain at a time; each callback at most once and with a loader; queued
  callbacks run; waiters return; errors are returned;
* main thread: accepted tasks run, in order, once; an error means the task did not run;
* functions: texts mean one type, values survive their way, JNI's preconditions hold for
  every access, calls by name follow the documented preferences of overloads.

## Modules

`X_proofs` extends `X` with its theorems, those of the modules `X` extends included
(`JavaHandle_proofs` those of `ClassLookup` and `Enumeration`); `MCX`
extends `X` with what TLC needs. `Bridge_proofs` extends `MCBridge` and has what is proved
about the modules it runs side by side (`ReplacementDispatch`, `HookValues`, the arrays of
`JniAccess`, `RunnableTransition`) and about the run itself; it builds on `Signatures_proofs`
and `JavaHandle_proofs`.

### Hooks

**`HookContract`** is the abstract specification of one hook: absent, open, draining,
quiet, restored, freed; invocations are admitted only while it is open, and it becomes
quiet only without running ones. A failed restore goes back to draining.

**`ClosureReplacement`** refines it. `frame[t]` up to `depth[t]` is the stack of thread
`t`: invocations of hooks and teardowns it executes, the last one running, so that
recursion, calls between hooks and teardowns from callbacks are all stacks. One action is
one critical section of the `ActiveInvocationState` mutex, one ART restore, or the code
between two of them. The pcs of an invocation are `thunk` (in machine code, before
`enter`), `entered` (guard taken, `closing` captured in `late`), `callback`, `leaving`
(guard not dropped yet), `epilogue` (back in machine code). A teardown is at `closeWait`
(the loop of `close_and_wait_until_inactive`), `restore`, `inactive`
(`wait_until_inactive`), `release` (fields being dropped). `asleep` holds the hooks whose
teardown sleeps on `drained`; since `revert(&mut self)` and `drop` exclude each other,
there is at most one per hook. The thunk is modelled because it is where a thread is
neither counted nor gone.

**`HookInvocation`** is what happens between `enter` and `leave` of one thread: nested
invocations, each with its JNI local frame, the errors the callback gets and keeps, and its
end by a value, an error or a panic. A wrapper's call takes an exception off the thread
into its error, `call_original` leaves it pending. An action is one call of the callback,
or one stage of `ClosureReplacementState::invoke`: record, tell the handler, throw, pop the
frame, convert the result.

**`HookValues`** computes the layout of arguments in registers, stack and frame
(`closure_replacement_layout`), reads them back as the context does, and gives the value
that Java gets. **`HookTargets`** says which member a hook is installed on and which one
`call_original` calls.

### ART

**`ArtReplacement`** models `replace_method` and its guard. `Prepare` takes the snapshot and
builds clone and thunk from it; `Patch`, `PatchFails` and `Rejected` are the suspended
section; `Restore`, `UnregisterRestored` and `Release` the revert and the drop.
`image[m]` says whose flags and entrypoints method `m` has. A collection is two steps,
`Move` (the class moves while threads run) and `SynchronizeHook` (the hook at its entry or
end copies the class to every registered clone).

**`Deoptimization`** extends it: requests that probe, look into the controller's map and ask
ART, directly or through a debugger that the first of them starts under the session lock. A
request is runnable from the look to its end, and a replacement needs all threads
suspended; `NeedsSuspension` states that exclusion, and it is what keeps the two apart.

**`ReplacementDispatch`** is a thread's stack of activations and the fragments of ART's
managed stack, as far as `find_active_replacement_frame` looks: the thunk, and the hooks on
`DoCall` and the quick trampolines, send a call to the clone unless the clone's own frame
is on top of the fragment that is linked. It includes the installation of those hooks and
the entrypoints that ART puts back by itself.

**`RunnableTransition`** collects the blocks of `ExceptionClear`, orders them, writes the copy
with the core replaced, and runs both the original and the copy. **`Enumeration`** models the
visits, promotion to raw global references, and the pass that hands them out, with a
failure, a stop or a panic of the callback at each step. Methods found by ART are grouped
by their loader; the fallback by reflection compares global references, and two of one
loader differ, so that its groups never merge (those of the boot loader, which is none, do).
`GroupsAreByLoader` is about ART's queries and the enumeration of classes only.

### Java and JNI

**`AppPerform`** models callers (`perform`, `wait_for_app_loader`) and the app's main
thread going through `handleBindApplication`, `getPackageInfo`, `makeApplication`. The mutex
is explicit only where the code holds it across steps (`ensure_hook`): `lock` is then the
caller, and every other critical section needs `Free`. What `AppPerform` uses of
`ClosureReplacement` is that dropping a guard waits for running callbacks (`EnsureFails`).

**`MainThread`** models schedulers with their waits, the queue, the drain on the main
thread, and the looper: `message` is set by `sendEmptyMessage` and ends `epoll_wait`.
Gum does not enter a listener from within itself, so a callback that polls does not drain;
were it to, tasks queued later could run before the rest of the batch.

**`ClassLookup`** has handles (a loader or none, and a cache shared by clones), the default
loader, and threads that look up in three steps: read the cache, ask the loader, insert.
**`JniScopes`** has native threads, their nested guards and local references, and global
references whose clones any thread drops. **`CallTemporaries`** has the strings one call
makes and who deletes them. **`JniReferences`** puts these two beside `HookInvocation`: all
that native code refers to in Java.

**`JavaTypes`**, **`Signatures`**, **`JavaValues`**, **`JniAccess`**, **`MemberSelection`** are
operators, like `HookValues`, since the code they model are functions. A text is a sequence
of tokens, a number one of the few the code tells apart, a class the sequence of what it and
its superclasses declare. `AndThen` is Rust's `?`. An access ends in a record of the JNI function, the member whose id it uses and
the values it passes, which is what the properties are about.

**`MCBridge`** puts the parts that share no state into one run: the variable `of` selects, once
for a behaviour, the part that moves, so that the state space is the sum and not the product
of the parts. For `"inputs"` a step draws an input of one function, the invariants of that
function are evaluated there, and the next step puts it back.

## Runs

| Run | Bounds | Distinct states | Shows |
|---|---|---|---|
| `closure` | 2 hooks, 2 threads, stacks of 2, calls without bound, 1 failed restore, teardown in callbacks | 93 thousand | the invariants of the lifecycle, refinement of `HookContract`, and that a teardown ends unless callbacks wait in a cycle or calls of a closed hook never cease |
| `closure_failed_revert` | 1 hook, 1 thread | violation | `InstalledMeansOpen` |
| `closure_late_entry` | 1 hook, 2 threads | violation | `FreedMeansInactive` |
| `deopt` | 2 methods, 2 replacements, 2 requests; symmetry | 548 thousand | maps, clones, entrypoints, memory; no replaced method deoptimized; one debugger |
| `dispatch_override` | 1 thread, 1 overridden method | violation | `CallOriginalReachesOriginal` |
| `bridge` | each part on its own, see below; symmetry | 310 thousand | dispatch, invocations, lookups, scopes, enumerations, temporaries, and every function on its inputs |
| `perform` | 2 performers, 1 waiter, 2 failures; symmetry | 388 thousand | drain exclusion, at most once, and no early drain in a start that was made late |
| `perform_liveness` | the same without failures and symmetry | 102 thousand | drains end, taken callbacks run, waiters return |
| `perform_lost` | 1 performer | violation | `AcceptedCallbacksRun` |
| `perform_unsupported` | 1 performer, 2 failures | violation | `UnsupportedIsReturned` |
| `main` | 3 tasks, 1 failure | 94 thousand | order, completion, waiting |
| `main_wake_failure` | 1 task, 1 failure | violation | `ErrorMeansNotRun` |

Why the bounds are enough. *closure*: the counters distinguish zero, one's own and others'
invocations, and two threads with stacks of two, on two hooks that tear each other down,
produce every combination; the invariants proved below need no bound. *deopt*: two
replacements let one be made, reverted and rejected while another is registered on the
same or the other method; two requests race for the debugger. *bridge*: one thread of
a dispatch is two activations more than the deepest look (`MaxDepth` is 4); three caches
for two loaders and a bare handle; guards of two and two global references with two clones;
a hook that calls a hook; three visits, of an app class, a plugin class and a boot class,
in any order and repeated. *perform*: hazards are pairs (a caller and the main thread, two
callers, a caller and a waiter). *main*: three tasks are the least where one is in the
batch, one in the queue and one being queued.

The sampled inputs of *bridge* are: all texts of up to four tokens, with broken ones; glob
patterns of three and values of four letters; every primitive at the limits of every
narrower type, and the floating-point values that rounding tells apart; parameter lists of
up to twenty values, which overflow both register files and the stack area; classes with
two members of a name, in every combination of kinds and parameter types, with and without an
inherited one; three overloads that take an object's class, its superclass and theirs,
`Object`, two array types and two widths of integers, in every order, so that two or three
of them tie; arguments that are null, strings, subclasses, arrays, numbers, and objects of a
class with the right name and another loader; code of five instructions with branches
forward and back. Each was extended until a plausible bug in each place, the mutants,
was found.

Deadlock checking is off where operations are bounded or every hook may end freed, so that
an instance may stop, and in `closure`, where a cycle of teardowns does stop the threads in
it, which `TeardownsEnd` is about; `bridge` and `dispatch_override` have it on. `MaxDepth`,
`MaxCalls` (of `HookInvocation`), `MaxFailures`, `MaxGuards`, `MaxLocals`, `MaxClones`,
`MaxVisits`, `MaxArguments`, `HookDepth` are the bounds of the models; each is a guard of the action it bounds and nothing else. `AttachMayFail` is `FALSE` in
`bridge`: with a failed attach of a quick hook and a retry, a replaced method may be called
without its callback, which no doc or test rules out; the hazard is listed.

Fairness. Threads in the middle of an operation are weakly fair, which the operating
system's scheduler justifies; nothing forces an operation to begin, a timeout to expire
or a spurious wakeup. `EndCallback` of `ClosureReplacement` is strongly fair at each place of
a thread's stack: a callback returns after finitely many operations, but it can do so only
between them. Nothing bounds how often a hooked method is called, so that `TeardownsEnd`
has to name the case in which calls keep a drain waiting. In
`MainThread` the poll ends when a message is there, and the main thread returns to it.

## Findings

Each is a violation run whose counterexample is a behaviour of the code.

1. **A failed revert disables the hook** (`closure_failed_revert`). `closing` is set before
   the restore and never reset. "If restore reports an error, the replacement stays
   active" (`api.rs:75-76`): ART still dispatches to it, and it returns defaults.
2. **A late entry reaches freed state** (`closure_late_entry`). A thread in the thunk before
   `enter` is not counted; the drain ends, state and thunk are freed, the thread goes on.
3. **A callback can be lost** (`perform_lost`). Queued after the startup drain took the
   queue, it is never drained, and its `PerformResult` stays pending.
4. **The error path of `ensure_hook` can hang** (`perform_unsupported`). The bind hook's
   guard is dropped while the mutex is held which its callback needs.
5. **A failed wakeup is reported for a task that ran** (`main_wake_failure`). The main thread
   may drain between the enqueue and the failure.
6. **The original of an overridden method is not reached** (`dispatch_override`).
   `call_original` looks the method up in the receiver's class and calls it virtually: for
   a hook on a superclass's method that an override reaches by `super`, the override runs.

Observations without a run. `ArtReplacement` takes the snapshot before threads are
suspended; it is right because preparing threads are in ART's runnable state and SuspendAll
waits for them. The constant `OvertakesPrepared` drops that assumption: then `ImageIsMapped`
and `UnregisteredIsOriginal` fail (a snapshot of a patched method is restored after its thunk
is unmapped), while the proved properties hold either way. `ReplacedIsNotDeoptimized` rests
on the runnable state in the same way: the code takes no lock for it.

Three exceptions that properties state by name are behaviours of the code which no doc or
test denies, or which one test expects:

* A teardown waits for as long as calls of its hook overlap (`TeardownsEnd`, `Overrun`).
  `enter` counts a call of a closed hook (`closure.rs:594`), and the drain waits for the
  total of all (`closure.rs:631`), while ART still dispatches to the thunk: a method that
  some thread is always in keeps `revert` and `drop` waiting.
* Global references are lost by a visit of loaders or of classes that fails half-way
  (`enumeration.rs:997-1007`, `1083-1096`) and by a callback of a heap enumeration that
  panics (`handle.rs:977`): the raw handles have no `Drop`. `HandlesAreOwned` is about all
  other endings (`LosesReferences`); enumerations of methods delete what they made.
* The bind hook's request for the late hookpoint is dropped while a drain is under way
  (`perform.rs:137-147`, tested at 982-1000). If that drain then fails, the early path is
  open, although `.agents/CURRENT_BEHAVIOR.md:86` says that `handleBindApplication` switches
  instrumented startup to the late path. `LateDrainsLate` is about every other start; its
  history variable `overtaken` marks this one.

What calls by name promise is less than Java's choice (`DispatchIsRight`): all superclasses
between an object's class and `Object` tie, as do all array types that accept an array, and
the first in the order of the metadata is called, even if the other one is closer.

## Proofs

TLAPS checks, for every value of the constants that satisfies the named assumptions:

* `ClosureReplacement_proofs`: `TypeCorrect`, `CountsAreExact`, `CallbackFenceHolds`,
  `WakeupsAreNotLost`, `PatchedStaysMapped`, `ImplementsHookContract`, `ContractIsKept`.
  Assumptions: `Threads` is finite, `"none"` is no hook, the bounds are naturals.
  `CountsExact` relates counters to the cardinality of a set of stack
  positions; it is inductive only with the shape of stacks: every frame below the top is
  at `callback`, positions above `depth[t]` hold `NoFrame`, a frame's operation and pc
  belong together. `CallbackFence` needs the exact counters, so that a total of zero means
  that no invocation is counted, and that `closing` is set in every hook that is being torn
  down, restored or freed, so that none is admitted from then on. `NoLostWakeup` is
  inductive with the shape of stacks: only `Leave` lowers the total, and it notifies at zero.
  `PatchedMeansMapped` needs the owner's side (`OwnerInv`): one frame at a time tears a hook
  down, only while it holds the guard, and memory and patch go with the guard's state.
  The refinement follows from these invariants step by step: the admitted invocations of
  the contract are the frames at `callback`, `Enter` and `Leave` are its moves, a teardown's
  steps move its phase, and all others stutter. `ContractIsKept` carries the contract's own
  invariant over. It needs no module of its own: the contract's `Next` preserves it, and
  the refinement makes every step one of these.
* `Deoptimization_proofs`, about `ArtReplacement` and `Deoptimization`, which extends it:
  `RegisteredStaysMapped`, `ClonesStayCurrent`, `OnlyRevertUnregisters`, for both values of
  `OvertakesPrepared`. The invariant says that a
  registered pair belongs to an active or restored guard, or to one leaked by a failed
  drop, whose target it is. `UnregisteredStaysOriginal` and `ImageStaysMapped` assume
  `~OvertakesPrepared`, and need it: the snapshot of a prepared replacement is then what its
  method holds, so that only originals are saved by a replacement that gets installed.
  `ReplacedStaysCompiled` assumes the same, and names that do not clash: `DeoptSpec` implies
  `Spec`, so the invariants of `ArtReplacement` carry over; the one added is that the subject
  of a request that looked has no record until the request ends. `DebuggerStartsOnce` is
  inductive with: until the JDWP thread takes the descriptor, the slot is the published
  session's, whatever a failed attempt left there before.
* `Bridge_proofs`, about `ReplacementDispatch`: `OriginalsRunUnderCallbacks` (assuming `~AttachMayFail`, as the
  run does) and `OriginalsAreReached` (without). The invariant is about every position of a
  stack: a managed activation that finds a clone's frame linked runs under that method's
  callback with nothing native between, so that thunk and hooks, which see only the linked
  frame, decide rightly; and a mapped method is patched, which attaches all hooks first.
* `MainThread_proofs`: `LineKeepsItsOrder`, from no assumption but the sets being sets. The
  invariant is that a batch is left over only within a drain.
* `AppPerform_proofs`: `OneDrainAtATime`, `LateStartsDrainLate` and `CallbacksRunAtMostOnce`,
  from disjoint callers. The invariant of the first is that a drain's pc goes with a source
  other than `Direct` (a caller that publishes what it looked up itself is at `publish`, but
  does not drain). The second adds that the main thread begins no drain inside a startup
  method, that a drain with the early loader found no request (`LateRefusesApk`), and that
  the request of the bind hook, once `handleBindApplication` has been left, is in
  `startup_drain` for good, or met a drain, or a drain has succeeded (`AskedInv`): no drain
  that begins, fails and begins again takes it back. `RunsAtMostOnce` is inductive with:
  a callback that is queued or in a batch is there once, in no other batch, and belongs to a
  performer that can no longer run it itself (`Before`), as it could until it queued it.
* `JavaHandle_proofs`, about `ClassLookup`: `LookupsStayInScope`. Assumptions: `"none"` is no
  loader, `Found` a function on loaders and names. The invariant is about caches: all
  handles, the default, and lookups under way that name one cache have one loader, a cache in
  use has been made, so that a fresh one belongs to nobody, and a cache of a handle with a
  loader holds what that loader finds. About `Enumeration`: `HandlesStayOwned`,
  `ThreadsAreRestored`, `GroupsStayByLoader`. Assumptions: `"none"` is no object, and
  `LoaderOf` gives each class of the app a loader or none. `HandlesAreOwned` is a sum of
  counts, an equation in every state but after the two endings that lose references; it is
  inductive once each phase of a call says which of the lists are empty.
  `GroupsAreByLoader` is inductive with: the groups found, those given and the one in a
  callback's hands are one list, whose classes are those seen that match, so that a class
  seen again is in a group already.
* `JniReferences_proofs`: `AttachmentsReturned`, `GlobalsStayLive`, `ExceptionsReachJava`,
  `HandlersRunClean`, `LocalsStayLive`. Assumptions: `"none"` is no
  global reference and no throwable, the bounds are naturals. `AttachmentsAreReturned` is
  inductive with: of a thread's guards exactly the outermost detaches, and only if nobody else
  attached the thread. `GlobalsAreLive` is inductive with: a reference that a thread drops has
  no clones left and is dropped by that thread alone. The three about invocations and
  temporaries rest on one statement for each stage of an invocation (`Fits`: what is pending,
  taken and owed there, and where the returned reference lives; the invocations below wait
  in a call) and one for a call's strings (live exactly while one of the two owners has them).

* `Bridge_proofs`, about the functions of `HookValues`, for all inputs and without assumptions:
  `LayoutIsTheStandards`, `ArgumentsAlwaysArrive`, `TakenIsAsDeclared`,
  `ArgumentsAlwaysSurvive`, `ReturnsAlwaysSurvive`, `ContainersAlwaysAgree`. They state the
  properties that `CallbacksGetTheirArguments` and `ValuesSurvive` evaluate on samples
  (`ArgumentsArrive`, `TakenAsDeclared`, `ArgumentSurvives`, `ReturnSurvives`,
  `ContainersAgree`) for parameter lists of any length, all types (any base, name and number
  of dimensions: `Types`) and all values (any number within its kind's limits, objects of any
  class: `Values`, `RustValues`). The layout is a loop, in the model a recursive function of
  the index, and is shown to be what the procedure call standard defines by counting
  (`PassedAt`): the free registers and the stack offset after `i` arguments are the capped
  numbers of arguments of either class and the number that were spilled (`FreeAfter`). The
  induction is over the set of the `i` for which this holds, which is `Nat` because a
  nonempty set of naturals has a least element (`LeastOf`, `Induction`). That no two
  arguments share a place, and hence that each slot gets the value that was passed for it,
  follows from the counts. Two things are taken as definitions and not shown: the
  standard itself, and subtyping, which these theorems use as a relation.

* `Bridge_proofs`, about the arrays of `JniAccess`: `ArraysAlwaysKeepTheirType`,
  `ArraysAreCreatedWithElements`, `RegionsAreAlwaysKept`, `BooleansAreAlwaysKept`, for arrays of
  any length, any index and start (negative ones and ones past the end too), any element.
  Elements are shown one index at a time: the array a loop of writes leaves is given in
  closed form (which elements are new, where it stopped), and the check of a class goes up the
  array's element type and not that of the wrapper.
* `Signatures_proofs`, about texts of any length: `DescriptorsAlwaysParse`,
  `MethodsAlwaysPrint`, `NamesAlwaysAgree`, `QueriesAreAlwaysRead`, `GlobsAlwaysMatch`. The
  first and the fourth are over any characters. The second and third assume `IsPlain`: none of
  the characters is a dot, the token `[]` or a whole word such as `int`, since descriptors
  separate by slashes and a dot in one would be printed as a slash. The last assumes
  `IsGlob`: no star in the value, which no Java name has, and not the mark that ends a value.
  A loop of the code is, in the model, a recursive function that is chosen; that there
  is one is shown once for all by `Recursion`, from functions defined up to `n`, and what it
  returns by induction over the set of the `n` for which the loop's invariant holds.
  For `ParseMethod` the invariant is that what was read is the descriptor of the arguments so
  far, and the place reached its end. For `glob_matches`, which returns to the last star only,
  it is `Held`: the pattern stands for the value just if what is behind that star stands for
  the rest of the value from the place tried, or a later one (`Tried`). An earlier star need
  not be tried again, because what follows it matched at its first place already. The loop
  ends because each turn raises a measure (`Come`: the place tried, then the place reached)
  that is bounded by the lengths, so that `GlobTurns` is enough.
* `Bridge_proofs`, about `RunnableTransition`: `CopiesAlwaysRunAsOriginal`,
  `CallbacksAlwaysRunOnce`. The first is for code of any length and any branches. It assumes
  `IsCode` (finitely many instructions, at addresses that are numbers, as are the targets) and
  `Ends` (nothing runs over the code's end, as nothing in a compiled function does). The loop
  that collects blocks ends because each turn takes an address off the list or adds a block
  that begins at an instruction of its own (`Takes`, `Adds`; `LoopIsSolved` is what the
  recursive function then returns), and it keeps that each target found is in a block or
  still pending (`Collects`). The blocks have one order by address with the entry's first
  (`SortedThereIs`); `FlattenPlaces` says where each instruction of each block then is. A block
  ends behind an instruction that goes elsewhere, or where the code ends, and by `Ends` such
  an instruction stands there too: whatever goes on is followed by its successor in the same
  block (`BlocksGoOn`). The second assumes no more than that the callback's
  answer is none of the marks of the model.
* `Bridge_proofs`, about the run: `ValuesAlwaysSurvive`, `CallbacksAlwaysGetTheirArguments`,
  `ElementsAlwaysKeepTheirType`, `TextsAlwaysMeanOneType`, `ThreadsAlwaysComeBack`. The
  inductive invariant is `InputsAreDrawn`: what a step draws is one of the inputs of its
  question. The rest is that each sampled input is one the theorems above are about and, for
  `ThreadsAlwaysComeBack`, that a step of the run is one of `Enumeration` or leaves it alone,
  which carries `ThreadsAreRestored` over.

Not proved, and only model-checked:

* liveness under fairness (`TeardownsEnd`, `DrainsEnd`, `TakenCallbacksRun`,
  `WaitersReturn`, `AcceptedTasksRun`), which is out of TLAPS's reach;
* `AccessesAreWellFormed` and `CallsFindTheirOverload`, about members. Members are filtered
  by `SelectSeq`, whose argument is an operator, which the provers cannot be given.

## Not modelled

* **Backend, layout and symbols, runtime discovery**: offsets and addresses read out of
  the process that runs. Nothing is kept between the reads, and a model would have to
  assume the binary it is to be compared with.
* **Machine code**: what Gum writes for thunks, trampolines and relocated instructions. The
  models have what the code is to do (`HookValues.Layout`, `RunnableTransition`), not its
  encoding. A stack pointer that is kept in the thread while a neutered store is running
  concerns code that this version never produces (`is_neutered_thread_store` is always
  false), and is left out.
* **Plain forwards**: constructors of strings and arrays, modifiers' text, `toString`, copying
  loops, conversions of one reference type into another, error texts, the capability report.
* **`revert_all_in_reverse`**: a loop over guards that keeps the first error.
* **Process-global state's `Drop`**: it never runs.
* **Self-tests and examples**: read for what they expect, not modelled.

## Plan

1. Proofs: the access that the selection of an overload ends in, with the filters of members
   as sets of indices.
2. A composition of closure and ART layers for one guard, with `revert_all_in_reverse`.
