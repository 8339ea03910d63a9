---------------------------- MODULE HookInvocation ----------------------------
(***************************************************************************)
(* One invocation of a hook's callback, between Java's call and Java's     *)
(* return: java/replacement/closure.rs (ClosureReplacementState::invoke),  *)
(* original.rs, returns.rs, context.rs and env/exceptions.rs.              *)
(*                                                                         *)
(* The callback is the user's: it calls Java through wrappers and through  *)
(* call_original, keeps or drops the errors it gets, and ends with a       *)
(* value, an error or a panic.  The invocation gives it a JNI local frame, *)
(* records what failed, tells the error handler, and owes Java the         *)
(* exception.  A wrapper takes an exception off the thread and keeps it in *)
(* its error; call_original leaves it pending, its error does not hold it. *)
(*                                                                         *)
(* The variables are those of one thread; other threads share the guard's  *)
(* last_error only.  JNI is external: pending exceptions, local frames,    *)
(* and the Java code a call runs, which may call hooked methods itself.    *)
(***************************************************************************)
EXTENDS Naturals, Sequences

CONSTANTS
  Throwables,  \* Java exceptions
  HookDepth,   \* bounds the nested invocations of the thread
  MaxCalls     \* bounds the calls of one callback

ASSUME NoneIsNoThrowable == "none" \notin Throwables
ASSUME HookBoundsAreNat == HookDepth \in Nat /\ MaxCalls \in Nat

VARIABLES
  invocations,  \* the thread's invocations, the running one last
  pending,      \* its pending exception
  lastError     \* ClosureReplacementState.last_error

hookVars == <<invocations, pending, lastError>>

(* An error is Rust's, or reports a Java exception; "held" when it has a   *)
(* global reference to the throwable (Error::java_throwable).              *)
RustError == [java |-> "none", held |-> FALSE, of |-> "rust"]
JavaError(x, held, of) == [java |-> x, held |-> held, of |-> of]

Invocation ==
  [pc |-> "called", frame |-> FALSE, calls |-> 0, error |-> RustError, value |-> "default",
   taken |-> "none", \* the exception that is off the thread while the error is recorded
   owed |-> "none",  \* history: the exception the callback's end owes to Java
   clean |-> TRUE,   \* history: no call was made while an exception was pending
   over |-> FALSE,   \* history: an error that holds one was returned over another
   sound |-> TRUE]   \* history: NewGlobalRef and Throw have not failed

HookInit == invocations = <<>> /\ pending = "none" /\ lastError = "none"

Current == invocations[Len(invocations)]
Update(a) == invocations' = [invocations EXCEPT ![Len(invocations)] = a]
InAny(pcs) == IF invocations = <<>> THEN FALSE ELSE Current.pc \in pcs
At(pc) == InAny({pc})

-----------------------------------------------------------------------------
(* Java calls the hooked method: at the outset, or from code that a        *)
(* callback called.                                                        *)
Invoke ==
  /\ Len(invocations) < HookDepth
  /\ invocations # <<>> => InAny({"wrapper", "original"})
  /\ pending = "none"
  /\ invocations' = Append(invocations, Invocation)
  /\ UNCHANGED <<pending, lastError>>

\* the hook is closing: the default value, and nothing is touched
Refuse ==
  /\ At("called")
  /\ Update([Current EXCEPT !.pc = "returned"])
  /\ UNCHANGED <<pending, lastError>>

PushFrame ==
  /\ At("called")
  /\ Update([Current EXCEPT !.pc = "callback", !.frame = TRUE])
  /\ UNCHANGED <<pending, lastError>>

\* PushLocalFrame throws, its exception is taken and not lost
PushFrameFails(x) ==
  /\ At("called")
  /\ \E held \in BOOLEAN :
       Update([Current EXCEPT !.pc = "failed", !.error = JavaError(x, held, "wrapper"),
                              !.owed = x, !.sound = held])
  /\ UNCHANGED <<pending, lastError>>

-----------------------------------------------------------------------------
(* What the callback may do.                                               *)
BeginCall(pc) ==
  /\ At("callback") /\ Current.calls < MaxCalls
  /\ Update([Current EXCEPT !.pc = pc, !.calls = @ + 1, !.clean = @ /\ pending = "none"])
  /\ UNCHANGED <<pending, lastError>>

BeginWrapper == BeginCall("wrapper")
BeginOriginal == BeginCall("lookup")

\* external: Java code ends, by throwing, or by passing on or catching what
\* a hooked method it called left pending
JavaEnds ==
  /\ InAny({"wrapper", "original"})
  /\ Update([Current EXCEPT !.pc = IF @ = "wrapper" THEN "wrapper done" ELSE "original done"])
  /\ \/ pending' = pending
     \/ pending = "none" /\ pending' \in Throwables
     \/ pending' = "none" /\ Current.clean
  /\ UNCHANGED lastError

\* the callback keeps the error of the call, or drops it for the one it has
Keep(e, sound) == \E kept \in {e, Current.error} :
  Update([Current EXCEPT !.pc = "callback", !.error = kept,
                         !.sound = @ /\ (sound \/ kept # e)])

\* check_pending_exception: taken and kept as a global reference
WrapperReturns ==
  /\ At("wrapper done")
  /\ pending' = "none"
  /\ IF pending = "none" THEN Update([Current EXCEPT !.pc = "callback"])
     ELSE \E held \in BOOLEAN : Keep(JavaError(pending, held, "wrapper"), held)
  /\ UNCHANGED lastError

\* GetObjectClass and GetMethodID, check_pending_exception_raw: an exception
\* is cleared, and the error does not hold it
Lookup ==
  /\ At("lookup")
  /\ \E x \in Throwables \cup {"none"} :
       LET seen == IF pending = "none" THEN x ELSE pending IN
       /\ pending' = "none"
       /\ IF seen = "none" THEN Update([Current EXCEPT !.pc = "original"])
          ELSE Keep(JavaError(seen, FALSE, "lookup"), TRUE)
  /\ UNCHANGED lastError

\* mutant: the original's exception is cleared like that of a lookup
OriginalReturnsCleared ==
  /\ At("original done")
  /\ pending' = "none"
  /\ IF pending = "none" THEN Update([Current EXCEPT !.pc = "callback"])
     ELSE Keep(JavaError(pending, FALSE, "original"), TRUE)
  /\ UNCHANGED lastError

\* check_pending_exception_preserve_raw: taken, described, thrown again
OriginalReturns ==
  /\ At("original done")
  /\ IF pending = "none" THEN UNCHANGED pending /\ Update([Current EXCEPT !.pc = "callback"])
     ELSE \E thrown \in BOOLEAN :
            /\ pending' = IF thrown THEN pending ELSE "none"
            /\ Keep(JavaError(pending, FALSE, "original"), thrown)
  /\ UNCHANGED lastError

-----------------------------------------------------------------------------
(* How the callback ends.                                                  *)
End(pc, e, value, x) ==
  /\ At("callback")
  /\ Update([Current EXCEPT !.pc = pc, !.error = e, !.value = value, !.owed = x,
                            !.over = e.held /\ pending # "none"])
  /\ UNCHANGED <<pending, lastError>>

ReturnError ==
  /\ At("callback")
  /\ \E e \in {Current.error, RustError} :
       End("failed", e, "default", IF e.java = "none" THEN pending ELSE e.java)
Panic == End("failed", RustError, "default", pending)
\* a value without a reference, or of the wrong kind (validate_return)
ReturnPrimitive == \/ End("accepted", RustError, "default", pending)
                   \/ End("failed", RustError, "default", pending)
ReturnReference(v) == End("validate", RustError, v, pending)

\* validate_reference_return; a null needs no JNI call
Validate ==
  /\ At("validate")
  /\ IF pending # "none" /\ Current.value # "null"
     THEN /\ pending' = "none"
          /\ \E held \in BOOLEAN :
               Update([Current EXCEPT !.pc = "failed", !.value = "default",
                                      !.error = JavaError(pending, held, "wrapper"),
                                      !.sound = @ /\ held])
     ELSE /\ UNCHANGED pending
          /\ \/ Update([Current EXCEPT !.pc = "accepted"])
             \/ /\ Current.value # "null"
                /\ Update([Current EXCEPT !.pc = "failed", !.value = "default"])
  /\ UNCHANGED lastError

-----------------------------------------------------------------------------
\* mutant: the error is recorded before the exception is taken
RecordPending ==
  /\ At("failed")
  /\ lastError' = "callback"
  /\ Update([Current EXCEPT !.pc = "reporting",
                            !.taken = IF Current.error.held THEN Current.error.java ELSE pending])
  /\ UNCHANGED pending

\* record_error_preserving_java_exception, record_message_preserving_pending_
\* exception: nothing is pending while the handler runs
Record ==
  /\ At("failed")
  /\ lastError' = "callback"
  /\ Update([Current EXCEPT !.pc = "reporting",
                            !.taken = IF Current.error.held THEN Current.error.java ELSE pending])
  /\ pending' = IF Current.error.held THEN pending ELSE "none"

\* the handler returned or panicked; JavaThrowable::throw,
\* PendingJavaException::throw
Restore ==
  /\ At("reporting")
  /\ \E panicked, thrown \in BOOLEAN :
       /\ Current.taken = "none" => thrown
       /\ lastError' = IF ~thrown THEN "throw" ELSE IF panicked THEN "handler" ELSE lastError
       /\ pending' = IF Current.taken # "none" /\ thrown THEN Current.taken ELSE pending
       /\ Update([Current EXCEPT !.pc = "dropping", !.taken = "none", !.sound = @ /\ thrown])

\* mutant: the frame is popped without a survivor
PopNothing ==
  /\ InAny({"accepted", "dropping"})
  /\ Update([Current EXCEPT !.pc = "returned", !.frame = FALSE,
                            !.value = IF @ = "local" THEN "gone" ELSE @])
  /\ UNCHANGED <<pending, lastError>>

\* CallbackLocalFrame::pop_return, and Drop: an accepted reference survives
PopFrame ==
  /\ InAny({"accepted", "dropping"})
  /\ Update([Current EXCEPT !.pc = "returned", !.frame = FALSE,
                            !.value = IF Current.pc = "accepted" /\ @ \in {"local", "outer"} THEN "promoted"
                                  ELSE IF @ = "local" THEN "gone" ELSE @])
  /\ UNCHANGED <<pending, lastError>>

ReturnToJava ==
  /\ At("returned")
  /\ invocations' = SubSeq(invocations, 1, Len(invocations) - 1)
  /\ UNCHANGED <<pending, lastError>>

\* external: the thread's Java code handles what reached it
JavaHandles ==
  /\ invocations = <<>> /\ pending # "none"
  /\ pending' = "none"
  /\ UNCHANGED <<invocations, lastError>>

Callback == \/ BeginWrapper \/ BeginOriginal \/ WrapperReturns \/ Lookup \/ OriginalReturns
            \/ ReturnError \/ Panic \/ ReturnPrimitive
            \/ \E v \in {"null", "local", "outer"} : ReturnReference(v)
HookNext ==
  \/ Invoke \/ Refuse \/ PushFrame \/ \E x \in Throwables : PushFrameFails(x)
  \/ Callback \/ JavaEnds \/ Validate
  \/ Record \/ Restore \/ PopFrame \/ ReturnToJava \/ JavaHandles
HookSpec == HookInit /\ [][HookNext]_hookVars

-----------------------------------------------------------------------------
Ended == IF At("returned") THEN {Current} ELSE {}

(* What is pending when the callback ends is pending when Java gets        *)
(* control back, and so is the exception behind a returned error, through  *)
(* recording, handler, validation and frame: unless JNI itself fails, the  *)
(* callback called Java over a pending exception, or the error came from a *)
(* lookup.                                                                 *)
ExceptionReachesJava ==
  \A a \in Ended : a.sound /\ a.clean /\ a.error.of # "lookup" => pending = a.owed

(* The error handler may call Java: it never runs with an exception        *)
(* pending, unless the callback returned an error that holds one while the *)
(* original's was pending.                                                 *)
HandlerRunsClean == At("reporting") /\ ~Current.over => pending = "none"

(* A reference that Java gets is live in Java's frame, and no local frame  *)
(* is left behind, whichever way the callback ended.                       *)
ReturnsAreLive ==
  \A a \in Ended : ~a.frame /\ a.value \in {"default", "null", "promoted"}

=============================================================================
