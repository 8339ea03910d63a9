------------------------------ MODULE HookTargets ------------------------------
(***************************************************************************)
(* What a hook replaces, and what its callback calls as the original       *)
(* (targets.rs, closure.rs and original.rs under java/replacement).        *)
(*                                                                         *)
(* A class is the sequence of what it and its superclasses declare, as in  *)
(* JniAccess.  An instance method is looked up in the class of the         *)
(* receiver, whatever class it was hooked in: see CallOriginalReaches-     *)
(* Original in ReplacementDispatch for what an override makes of it.       *)
(***************************************************************************)
EXTENDS MemberSelection, HookValues

Signature(m) == [arguments |-> m.arguments, returns |-> m.type]

-----------------------------------------------------------------------------
(* Installation.                                                           *)
\* replace_closure_trampoline_method: the member is looked up again
ResolveTarget(class, m) == CachedMethod(class, m.kind, m.name, Text(m))

\* replace_closure_method, replace_constructor_closure
ReplaceMethod(class, m) ==
  IF m.kind = "constructor" \/ ~SignatureFits(m.kind, Signature(m)) THEN Failed ELSE ResolveTarget(class, m)
ReplaceConstructor(class, m) ==
  IF ~SignatureFits("constructor", Signature(m)) THEN Failed ELSE ResolveTarget(class, m)

\* install_method_hook, which finds the class of a declared reference result
InstallMethodHook(class, m, missing) ==
  IF ~Admitted("method", m.kind, Signature(m)) \/ ReferenceReturnClass(m.type) \in missing THEN Failed
  ELSE ReplaceMethod(class, m)
\* install_constructor_hook
InstallConstructorHook(class, m) ==
  IF Admitted("constructor", m.kind, Signature(m)) THEN ReplaceConstructor(class, m) ELSE Failed

\* replace, of a class, a group or a bound group: the name has one overload
Replace(class, name, missing) ==
  AndThen(SelectMethodByName(class, name), LAMBDA m : InstallMethodHook(class, m, missing))
\* replace_with
ReplaceWith(class, name, types, missing) ==
  AndThen(SelectByTypes(class, "bound", name, types), LAMBDA m : InstallMethodHook(class, m, missing))
\* replace_constructor
ReplaceConstructorWith(class, types) ==
  AndThen(SelectByTypes(class, "constructor", "<init>", types), LAMBDA m :
    InstallConstructorHook(class, m))

-----------------------------------------------------------------------------
(* The original.  "object" stands for every reference, as in JNI.          *)
\* prepare_original_call_args_for_env: no reference is checked to be an instance
\* of its parameter type
OriginalArguments(arguments, s) ==
  PreparedArguments([i \in DOMAIN arguments |-> arguments[i].rust], s.arguments)

\* call_original_static_by_return, call_original_instance_by_return
CallStaticByReturn(id, values) == Parsed(Use("call static", Lane(id.type), id, values))
CallInstanceByReturn(id, values) == Parsed(Use("call", Lane(id.type), id, values))

\* call_original_static_method
CallOriginalStatic(class, m, arguments) ==
  LET values == OriginalArguments(arguments, Signature(m))
      id == Find(class, [m EXCEPT !.kind = "static"])
  IN IF values.ok /\ id.ok THEN CallStaticByReturn(id.value, values.value) ELSE Failed

\* call_original_instance_method
CallOriginalInstance(class, m, receiver, arguments) ==
  LET values == OriginalArguments(arguments, Signature(m))
      id == Find(class, [m EXCEPT !.kind = "instance"])
  IN IF receiver.rust.value.class # Null /\ values.ok /\ id.ok
     THEN CallInstanceByReturn(id.value, values.value) ELSE Failed

\* call_original_constructor_method
CallOriginalConstructor(class, m, receiver, arguments) ==
  LET values == OriginalArguments(arguments, Signature(m))
      id == Find(class, [m EXCEPT !.kind = "constructor", !.name = "<init>"])
  IN IF receiver.rust.value.class # Null /\ values.ok /\ m.type = Void /\ id.ok
     THEN Parsed(Use("call nonvirtual", "void", id.value, values.value)) ELSE Failed

\* external: what ART passes with a call, the class that declares a static method
Declares(class, m) == {i \in DOMAIN class : m \in Range(class[i])}
Declaring(class, m) ==
  LET level == CHOOSE i \in Declares(class, m) : \A j \in Declares(class, m) : i <= j
  IN SubSeq(class, level, Len(class))

\* ReplacementInvocation::call_original, of a member of the hooked class, with a
\* receiver of a class that extends it
CallOriginalOf(hooked, class, m, receiver, arguments) ==
  CASE m.kind = "static" -> CallOriginalStatic(Declaring(hooked, m), m, arguments)
    [] m.kind = "instance" -> CallOriginalInstance(class, m, receiver, arguments)
    [] m.kind = "constructor" -> CallOriginalConstructor(hooked, m, receiver, arguments)

-----------------------------------------------------------------------------
(* A hook replaces the member that was selected, the one that a call with  *)
(* the same types would call; by name alone it replaces the only overload. *)
HooksFindTheirTarget(class, name, missing) ==
  /\ \A m \in Range(MembersFor(class, "bound")) \cup Range(MembersFor(class, "constructor")) :
       LET target == IF m.kind = "constructor" THEN "constructor" ELSE "bound"
           hook == IF m.kind = "constructor" THEN ReplaceConstructorWith(class, m.arguments)
                   ELSE ReplaceWith(class, m.name, m.arguments, missing)
       IN /\ hook.ok => hook.value = m /\ SelectByTypes(class, target, m.name, m.arguments) = Parsed(m)
          /\ hook.ok <=> /\ SelectByTypes(class, target, m.name, m.arguments).ok
                         /\ m.kind = "constructor" \/ m.type \notin missing
  /\ LET hook == Replace(class, name, missing) IN
     hook.ok => {m \in Range(MembersFor(class, "bound")) : m.name = name} = {hook.value}

(* The call of the original is well formed, but for the classes of what it *)
(* is given: the id is that of a member of the same name, kind and types   *)
(* and is used with the function of its kind and type, and the callback    *)
(* can take the result as what is declared.  What Java passed is passed on *)
(* in any case, unless the class of the receiver hides the member behind   *)
(* one of another kind.                                                    *)
OriginalUse(use, m) ==
  /\ use.member = m
  /\ <<m.kind, use.operation>> \in
       {<<"constructor", "call nonvirtual">>, <<"instance", "call">>, <<"static", "call static">>}
  /\ use.lane = Lane(m.type)
  /\ Len(use.values) = Len(m.arguments)
  /\ \A i \in DOMAIN m.arguments :
       Read(ToJvalue(use.values[i]), m.arguments[i]) = Parsed(use.values[i])
       /\ Holds(use.values[i], m.arguments[i])
OriginalIsWellFormed(hooked, class, m, receiver, arguments) ==
  LET call == CallOriginalOf(hooked, class, m, receiver, arguments)
      passed == [i \in DOMAIN m.arguments |-> Typical(m.arguments[i])]
      hidden == \E i \in DOMAIN class : \E n \in Range(class[i]) :
                  n.kind # m.kind /\ [n EXCEPT !.kind = m.kind] = m
  IN /\ call.ok => OriginalUse(call.value, m)
     /\ IsObject(receiver) /\ ~hidden => CallOriginalOf(hooked, class, m, receiver, passed).ok
     /\ m.type # Void => ResultOfOriginal(Natural(m.type), Typical(m.type).rust.value, m.type).ok
=============================================================================
