------------------------ MODULE ReplacementDispatch ------------------------
(***************************************************************************)
(* How a call of a replaced method finds its callback, and a callback the  *)
(* original: art/replacement/dispatch.rs, hooks.rs and the translation of  *)
(* controller.rs, with the original calls of java/replacement/original.rs. *)
(*                                                                         *)
(* A replaced method's entrypoint is its dispatch thunk, and hooks on the  *)
(* interpreter's DoCall and on three quick trampolines see the calls that  *)
(* do not come through it.  Thunk and hooks decide the same way: they send *)
(* a call to the clone, whose native code is the callback, unless the      *)
(* quick frame on top of the thread's linked managed-stack fragment is the *)
(* clone's own: then the callback made the call, and it gets the original. *)
(*                                                                         *)
(* ART is external: which call opens a fragment of the managed stack, what *)
(* frame tops it, and the entrypoints ART puts back on its own.  A thread  *)
(* is a sequence of activations; "linked" is the frame on top of the       *)
(* fragment linked to the one the activation runs in.                      *)
(***************************************************************************)
EXTENDS Naturals, Sequences

CONSTANTS
  Threads, Methods,
  Overridden,     \* the methods some receivers' class overrides
  AttachMayFail,  \* may Gum's attach to a quick trampoline fail?
  MaxDepth        \* activations of a thread

ASSUME OverriddenAreMethods == Overridden \subseteq Methods
ASSUME AttachMayFailIsBool == AttachMayFail \in BOOLEAN
ASSUME MaxDepthIsNat == MaxDepth \in Nat
ASSUME FramesAreNoMethods == Methods \cap {"null", "native", "bridge", "none"} = {}

VARIABLES
  stack,      \* stack[t]: the activations of the thread, the running one last
  entry,      \* a method's quick entrypoint: its own, the thunk, a trampoline
  mapped,     \* ArtReplacementMappings.methods: the replaced methods
  hooks,      \* ArtReplacementController.hooks: DoCall is hooked
  addresses,  \* ArtQuickEntrypointHooks.addresses: trampolines seen
  attached    \* ArtQuickEntrypointHooks.hooks: trampolines hooked

vars == <<stack, entry, mapped, hooks, addresses, attached>>

Trampolines == <<"generic jni", "resolution", "to interpreter">>
TrampolineSet == {Trampolines[i] : i \in 1 .. 3}

\* GenericJniTag: ART tags the pointer to a native method's frame
Frame(f) == [frame |-> f, tag |-> IF f \in {"null", "bridge"} THEN 0 ELSE 1]
NullFrame == Frame("null")

Activation(body, m, mode, linked, receiver, by) ==
  [body |-> body, method |-> m, mode |-> mode, linked |-> linked,
   receiver |-> receiver, by |-> by]

\* an attached native thread calls in: no frame is linked yet
Base == Activation("thread", "none", "native", NullFrame, "base", "call")

Init ==
  /\ stack = [t \in Threads |-> <<Base>>]
  /\ entry = [m \in Methods |-> "own"]
  /\ mapped = {}
  /\ hooks = FALSE
  /\ addresses = {}
  /\ attached = {}

-----------------------------------------------------------------------------
(* The managed stack as the callee of the running activation a finds it.   *)
(* A call from native code opens a fragment that links the native frame.   *)
Linked(a) ==
  IF a.mode # "native" THEN a.linked
  ELSE IF a.body = "thread" THEN NullFrame
  ELSE Frame(IF a.body = "callback" THEN a.method ELSE "native")
ManagedStack(a) == [top |-> NullFrame, link |-> a.body # "thread", linkTop |-> Linked(a)]

\* mutant: the tag bits stay on the linked frame
FrameIsActiveTagged(m, s) ==
  s.top.frame = "null" /\ s.link /\ s.linkTop = [frame |-> m, tag |-> 0]

\* replacement_frame_is_active; the tag bits are masked
FrameIsActive(m, s) ==
  s.top.frame = "null" /\ s.link /\ s.linkTop.frame = m

\* the code of the thunk: it looks at the tag of the linked frame only
ThunkTakesOriginal(m, s) == s.top = NullFrame /\ s.link /\ s.linkTop.frame = m

\* translate_method_argument_for_thread: does the hook pass the clone on?
Translates(m, s) == m \in mapped /\ ~FrameIsActive(m, s)

Bridge == "to interpreter"
(* Whose code a call of m reaches from the activation a: the interpreter's *)
(* calls go through DoCall; a thunk that takes the original, and a method  *)
(* with one of ART's own stubs for entrypoint, go through a trampoline.    *)
Dispatch(m, a) ==
  LET s == ManagedStack(a)
      clone == \/ a.mode = "interpreted" /\ hooks /\ Translates(m, s)
               \/ entry[m] = "thunk" /\ ~ThunkTakesOriginal(m, s)
               \/ entry[m] # "own" /\ Bridge \in attached /\ Translates(m, s)
  IN IF clone THEN "callback" ELSE "original"

\* What the activation that m's code runs in finds linked: the interpreter
\* bridge opens a fragment over its own frame, a call from the interpreter
\* into compiled code one over a fragment without a quick frame.
LinkedIn(mode, a) ==
  IF mode = "interpreted" /\ a.mode # "interpreted" THEN Frame("bridge")
  ELSE IF mode = "compiled" /\ a.mode = "interpreted" THEN NullFrame
  ELSE Linked(a)

Top(t) == stack[t][Len(stack[t])]
Enter(t, body, m, mode, receiver, by) ==
  /\ Len(stack[t]) < MaxDepth
  /\ stack' = [stack EXCEPT ![t] =
       Append(@, Activation(body, m, mode, LinkedIn(mode, Top(t)), receiver, by))]
  /\ UNCHANGED <<entry, mapped, hooks, addresses, attached>>

Modes(body) == CASE body \in {"callback", "native"} -> {"native"}
                 [] body = "original" -> {"interpreted"}
                 [] OTHER -> {"compiled", "interpreted"}

-----------------------------------------------------------------------------
\* code that is no replaced method: Java code, or a native method of the app
CallOther(t, body) ==
  /\ body \in {"java", "native"}
  /\ Top(t).mode = "native" => body = "java"
  /\ \E mode \in Modes(body) : Enter(t, body, "none", mode, "base", "call")

\* an override, which may call its super method
CallOverride(t, m) ==
  /\ m \in Overridden
  /\ Top(t).body \in {"thread", "java", "native"}
  /\ \E mode \in Modes("override") : Enter(t, "override", m, mode, "derived", "call")

\* a call of a replaced method, through JNI or from Java
Call(t, m) ==
  /\ m \in mapped
  /\ LET a == Top(t)
         body == Dispatch(m, a)
         receiver == IF a.body = "override" THEN "derived" ELSE "base"
     IN /\ a.body = "override" => a.method = m
        /\ \E mode \in Modes(body) : Enter(t, body, m, mode, receiver, "call")

(* call_original: a static method by its class, a constructor nonvirtually *)
(* and an instance method by a virtual call, which the receiver's class    *)
(* resolves to its override.                                               *)
CallOriginal(t, m) ==
  /\ Top(t).body = "callback" /\ Top(t).method = m
  /\ LET body == IF Top(t).receiver = "derived" THEN "override" ELSE Dispatch(m, Top(t))
     IN \E mode \in Modes(body) :
          Enter(t, body, m, mode, Top(t).receiver, "original")

Return(t) ==
  /\ Len(stack[t]) > 1
  /\ stack' = [stack EXCEPT ![t] = SubSeq(@, 1, Len(@) - 1)]
  /\ UNCHANGED <<entry, mapped, hooks, addresses, attached>>

-----------------------------------------------------------------------------
(* replace_method                                                          *)
EnsureHooks ==
  /\ ~hooks
  /\ hooks' = TRUE
  /\ UNCHANGED <<stack, entry, mapped, addresses, attached>>

\* ensure_quick_entrypoint_hooks, under its mutex: an address seen before is
\* skipped, one that is new is recorded and then attached; the attach to the
\* n-th trampoline may fail, and ends the call
EnsureQuickHooks(n) ==
  LET upTo(k) == {Trampolines[i] : i \in 1 .. k} IN
  /\ hooks /\ addresses # TrampolineSet
  /\ n <= 3 => AttachMayFail /\ Trampolines[n] \notin addresses
  /\ addresses' = addresses \cup upTo(IF n <= 3 THEN n ELSE 3)
  /\ attached' = attached \cup (upTo(n - 1) \ addresses)
  /\ UNCHANGED <<stack, entry, mapped, hooks>>

\* mutant: the trampolines are left alone
PatchUnhooked(m) ==
  /\ hooks
  /\ m \notin mapped
  /\ mapped' = mapped \cup {m}
  /\ entry' = [entry EXCEPT ![m] = "thunk"]
  /\ UNCHANGED <<stack, hooks, addresses, attached>>

\* with the hooks ensured: register and patch, under SuspendAll
Patch(m) ==
  /\ hooks /\ addresses = TrampolineSet
  /\ m \notin mapped
  /\ mapped' = mapped \cup {m}
  /\ entry' = [entry EXCEPT ![m] = "thunk"]
  /\ UNCHANGED <<stack, hooks, addresses, attached>>

\* a guard reverts once its callback runs nowhere
Unpatch(m) ==
  /\ m \in mapped
  /\ \A t \in Threads : \A i \in DOMAIN stack[t] :
       ~ (stack[t][i].body = "callback" /\ stack[t][i].method = m)
  /\ mapped' = mapped \ {m}
  /\ entry' = [entry EXCEPT ![m] = "own"]
  /\ UNCHANGED <<stack, hooks, addresses, attached>>

\* external: ART puts one of its stubs back, over the thunk
ResetEntry(m) ==
  /\ entry[m] = "thunk"
  /\ entry' = [entry EXCEPT ![m] = "stub"]
  /\ UNCHANGED <<stack, mapped, hooks, addresses, attached>>

-----------------------------------------------------------------------------
Run(t) == \/ \E body \in {"java", "native"} : CallOther(t, body)
          \/ \E m \in Methods : CallOverride(t, m) \/ Call(t, m) \/ CallOriginal(t, m)
          \/ Return(t)
Next == \/ \E t \in Threads : Run(t)
        \/ EnsureHooks \/ \E n \in 1 .. 4 : EnsureQuickHooks(n)
        \/ \E m \in Methods : Patch(m) \/ Unpatch(m) \/ ResetEntry(m)
Spec == Init /\ [][Next]_vars

-----------------------------------------------------------------------------
\* the native frame an activation was called under, managed code between
CalledFrom(t, i) ==
  LET natives == {j \in 1 .. i - 1 : stack[t][j].mode = "native"}
  IN stack[t][CHOOSE j \in natives : \A k \in natives : k <= j]

(* A replaced method's own code runs only in managed code its callback     *)
(* called: no call gets past the callback otherwise, from whatever code,   *)
(* thread or entrypoint it comes, with whatever callbacks on the stack.    *)
OriginalRunsUnderItsCallback ==
  \A t \in Threads : \A i \in 2 .. Len(stack[t]) :
    stack[t][i].body = "original" =>
      LET c == CalledFrom(t, i) IN c.body = "callback" /\ c.method = stack[t][i].method

(* Thunk and hooks agree about a callback's own call, the tag on its frame *)
(* and the trampoline on the thunk's way included: call_original, on a     *)
(* receiver whose class does not override the method, enters the original  *)
(* and not the callback again.                                             *)
OriginalIsReached ==
  \A t \in Threads : \A i \in 2 .. Len(stack[t]) :
    LET a == stack[t][i] IN
      a.by = "original" /\ a.receiver = "base" => a.body = "original"

(* "Calls the replaced method's original implementation", whatever the     *)
(* receiver's class.                                                       *)
CallOriginalReachesOriginal ==
  \A t \in Threads : \A i \in 2 .. Len(stack[t]) :
    stack[t][i].by = "original" => stack[t][i].body = "original"

=============================================================================
