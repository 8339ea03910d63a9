---------------------------- MODULE CallTemporaries ----------------------------
(***************************************************************************)
(* The Java strings that one call makes of its Rust strings (java/args and *)
(* java/conversion.rs): local references that somebody has to keep until   *)
(* JNI has used them, and to delete after.  A call of a wrapper works      *)
(* under a guard of its own (AttachedJavaCallArgs), as does the setting of *)
(* a field; a call of the original works in the callback's environment.    *)
(* What the arguments are is JavaValues' and MemberSelection's.            *)
(***************************************************************************)
EXTENDS Naturals, Sequences

CONSTANT MaxArguments  \* bounds the arguments of a call

ASSUME MaxArgumentsIsNat == MaxArguments \in Nat

VARIABLES
  javaCall,     \* the call, or the last one
  wasAttached,  \* the thread was attached before the call
  isAttached    \* it is attached

tempVars == <<javaCall, wasAttached, isAttached>>

(* The reference of each argument is "none", "live", "deleted", or         *)
(* "deleted twice"; prepared are the local_refs of PreparedJavaCallArgs or *)
(* of PreparedJavaFieldValue, held those of AttachedJavaCallArgs.          *)
CallOf(operation, arguments) ==
  [stage |-> "preparing", operation |-> operation, arguments |-> arguments, next |-> 1,
   refs |-> [i \in DOMAIN arguments |-> "none"], prepared |-> {}, held |-> {}]
Operations == {"wrapper", "field", "original"}
ArgumentLists == UNION {[1..n -> {"value", "string"}] : n \in 0..MaxArguments}

TempInit ==
  /\ javaCall = [CallOf("wrapper", <<>>) EXCEPT !.stage = "idle"]
  /\ wasAttached = FALSE /\ isAttached = FALSE

Stage(s) == javaCall.stage = s
Goes(s) == javaCall' = [javaCall EXCEPT !.stage = s]
KeepsThread == UNCHANGED <<wasAttached, isAttached>>

-----------------------------------------------------------------------------
\* external: others attach the thread, or detach it
Others ==
  /\ Stage("idle")
  /\ wasAttached' = ~wasAttached /\ isAttached' = ~isAttached
  /\ UNCHANGED javaCall

\* the thread is attached, if it has to be and can be
Start(operation, arguments) ==
  /\ Stage("idle")
  /\ operation = "original" => wasAttached
  /\ operation = "field" => Len(arguments) = 1
  /\ javaCall' = CallOf(operation, arguments)
  /\ isAttached' = TRUE
  /\ UNCHANGED wasAttached

\* push: a value is coerced, a string becomes a local reference
Prepare ==
  /\ Stage("preparing") /\ javaCall.next \in DOMAIN javaCall.arguments
  /\ javaCall' = IF javaCall.arguments[javaCall.next] = "value" THEN [javaCall EXCEPT !.next = @ + 1]
             ELSE [javaCall EXCEPT !.next = @ + 1, !.refs[javaCall.next] = "live",
                               !.prepared = @ \cup {javaCall.next}]
  /\ KeepsThread

\* another number is declared, an argument is refused, or NewStringUTF fails
PrepareFails ==
  /\ Stage("preparing")
  /\ javaCall.next = 1 \/ javaCall.next \in DOMAIN javaCall.arguments
  /\ Goes("dropping")
  /\ KeepsThread

\* into_parts leaves nothing for the Drop of PreparedJavaCallArgs
HandOver ==
  /\ Stage("preparing") /\ javaCall.next > Len(javaCall.arguments)
  /\ javaCall' = IF javaCall.operation # "wrapper" THEN [javaCall EXCEPT !.stage = "checking"]
             ELSE [javaCall EXCEPT !.stage = "checking", !.held = javaCall.prepared, !.prepared = {}]
  /\ KeepsThread

\* validate_reference_call_args, validate_reference_field_value, the lookup of the id
Check == Stage("checking") /\ (Goes("calling") \/ Goes("dropping")) /\ KeepsThread

\* external: the JNI function returns, with or without an exception
Called == Stage("calling") /\ Goes("dropping") /\ KeepsThread

\* Drop of PreparedJavaCallArgs and of AttachedJavaCallArgs, delete_local_ref
DeleteOne(i) ==
  /\ Stage("dropping") /\ i \in javaCall.prepared \cup javaCall.held
  /\ javaCall' = [javaCall EXCEPT !.refs[i] = IF @ = "live" THEN "deleted" ELSE "deleted twice",
                          !.prepared = @ \ {i}, !.held = @ \ {i}]
  /\ KeepsThread

\* the guard is dropped last
Finish ==
  /\ Stage("dropping") /\ javaCall.prepared \cup javaCall.held = {}
  /\ Goes("idle")
  /\ isAttached' = wasAttached
  /\ UNCHANGED wasAttached

TempNext ==
  \/ \E o \in Operations, as \in ArgumentLists : Start(o, as)
  \/ Others \/ Prepare \/ PrepareFails \/ HandOver \/ Check \/ Called
  \/ \E i \in 1..MaxArguments : DeleteOne(i)
  \/ Finish

TempSpec == TempInit /\ [][TempNext]_tempVars

-----------------------------------------------------------------------------
(* Whenever Java may look at the arguments, the string of each is live, on *)
(* an attached thread; when the call is over, however it went, every one   *)
(* that was made has been deleted, once, and the thread is as it was.      *)
TemporariesAreLive ==
  /\ javaCall.stage \in {"checking", "calling"} =>
       /\ isAttached
       /\ \A i \in DOMAIN javaCall.arguments : javaCall.arguments[i] = "string" => javaCall.refs[i] = "live"
  /\ Stage("idle") => isAttached = wasAttached /\ \A i \in DOMAIN javaCall.refs : javaCall.refs[i] # "live"
  /\ \A i \in DOMAIN javaCall.refs : javaCall.refs[i] # "deleted twice"

=============================================================================
