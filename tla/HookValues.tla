------------------------------ MODULE HookValues ------------------------------
(***************************************************************************)
(* The values of a hook callback: its arguments, which travel from Java    *)
(* through the registers, the stack and the frame of the trampoline        *)
(* (java/replacement/closure.rs, trampoline.rs), what the callback takes   *)
(* of them (arguments.rs, context.rs), what it takes of the result of the  *)
(* original, and what it returns to Java (returns.rs, targets.rs).         *)
(***************************************************************************)
EXTENDS JavaValues, FiniteSets

-----------------------------------------------------------------------------
(* The trampoline.                                                         *)
FirstGeneral == 2      \* x0 is the environment, x1 the receiver or the class
Registers == 8
FrameHeader == 48      \* the six fields of ClosureInvocationFrame
SlotSize == 8
MaxFrame == 4096

\* ClosureValueLayout: the register class and the bytes that are stored and loaded
ValueLayout(t) ==
  CASE t = Void -> <<"none", 0>>
    [] t = Prim("float") -> <<"float", 4>>
    [] t = Prim("double") -> <<"float", 8>>
    [] t = Prim("long") \/ IsReference(t) -> <<"general", 8>>
    [] OTHER -> <<"general", 4>>
RegisterClass(t) == ValueLayout(t)[1]

\* mutant: a float register too many
LocationNineFloats(next, t) ==
  LET class == RegisterClass(t) IN
  IF next[class] < (IF class = "float" THEN Registers + 1 ELSE Registers)
  THEN <<class, next[class]>> ELSE <<"stack", next.stack>>
\* where an argument of type t goes if next is free
Location(next, t) ==
  LET class == RegisterClass(t) IN
  IF next[class] < Registers THEN <<class, next[class]>> ELSE <<"stack", next.stack>>
Advanced(next, t) ==
  LET class == Location(next, t)[1] IN
  [next EXCEPT ![class] = @ + IF class = "stack" THEN SlotSize ELSE 1]
\* what is free after i arguments: registers, and bytes of the stack
Free(types) ==
  LET free[i \in 0 .. Len(types)] ==
        IF i = 0 THEN [general |-> FirstGeneral, float |-> 0, stack |-> 0]
        ELSE Advanced(free[i - 1], types[i])
  IN free
\* closure_replacement_layout
Layout(types) ==
  LET free == Free(types) IN [i \in DOMAIN types |-> Location(free[i - 1], types[i])]

\* closure_invocation_frame_size, in multiples of 16
FrameSize(n) == ((FrameHeader + SlotSize * n + 15) \div 16) * 16
\* validate_closure_trampoline_layout
FrameFits(s) == FrameSize(Len(s.arguments)) <= MaxFrame
\* validate_closure_replacement_signature, validate_closure_signature_for_kind
SignatureFits(kind, s) == (kind = "constructor" => s.returns = Void) /\ FrameFits(s)
\* validate_hook_abi, validate_constructor_hook_abi, by what is being hooked
Admitted(operation, kind, s) ==
  (operation = "constructor") = (kind = "constructor") /\ SignatureFits(kind, s)

\* How ART calls a native method (the AAPCS64 procedure call standard): where
\* each argument is, a stack argument at its distance from the stack pointer.
PassedAt(types) ==
  LET alike(i) == {j \in 1 .. i - 1 : RegisterClass(types[j]) = RegisterClass(types[i])}
      register == [i \in DOMAIN types |->
                     Cardinality(alike(i)) + IF RegisterClass(types[i]) = "float" THEN 0 ELSE FirstGeneral]
      spilled(i) == {j \in 1 .. i - 1 : register[j] >= Registers}
  IN [i \in DOMAIN types |->
        IF register[i] >= Registers THEN <<"stack", SlotSize * Cardinality(spilled(i))>>
        ELSE <<RegisterClass(types[i]), register[i]>>]

\* write_closure_trampoline: below the stack pointer of the caller are the saved
\* frame pointer and return address and then the frame; an argument on the stack
\* is loaded relative to the new stack pointer
StackPointer(n) == 0 - 16 - FrameSize(n)
Slot(n, i) == StackPointer(n) + FrameHeader + SlotSize * (i - 1)
Loaded(n, location) ==
  IF location[1] = "stack"
  THEN <<"stack", StackPointer(n) + FrameSize(n) + 16 + location[2]>> ELSE location
\* store_register: a w or an s register writes four bytes, the others eight
StoredBytes(t, location) == IF location[1] = "stack" THEN SlotSize ELSE ValueLayout(t)[2]
Captured(types, values) ==
  LET n == Len(types)
      layout == Layout(types)
      passed == PassedAt(types)
      there(i) == {j \in 1 .. n : passed[j] = Loaded(n, layout[i])}
  IN [i \in 1 .. n |->
        IF there(i) = {} THEN ZeroJvalue
        ELSE [value |-> values[CHOOSE j \in there(i) : TRUE],
              bytes |-> StoredBytes(types[i], layout[i])]]

\* closure_arguments_from_jvalues, in dispatch_closure_invocation
CallbackArguments(types, values) ==
  LET slots == Captured(types, values) IN [i \in DOMAIN types |-> Read(slots[i], types[i])]

-----------------------------------------------------------------------------
(* Arguments.                                                              *)
\* local_object_for_type and local_object_with_class, local_array_for_type and
\* local_array_with_class: a view of what is an instance of the declared class
ObjectOfType(value, t) ==
  IF IsReference(t) /\ ~IsArray(t) /\ value.class # Null /\ Subtype(value.class, t)
  THEN Parsed(value) ELSE Failed
ArrayOfType(value, t) ==
  IF IsArray(t) /\ value.class # Null /\ Subtype(value.class, t) THEN Parsed(value) ELSE Failed

\* local_object_for_argument
ObjectForArgument(value, t) == ObjectOfType(value, t)

\* FromJavaValue
PrimitiveArgument(kind, value) == IF value.kind = kind THEN Parsed(value) ELSE Failed
\* FromJavaHookArgument of optional objects, arrays and strings
ObjectArgument(value, t) ==
  IF ~IsReference(t) \/ IsArray(t) THEN Failed
  ELSE IF value.class = Null THEN Parsed(value) ELSE ObjectForArgument(value, t)
ArrayArgument(value, t) ==
  IF ~IsArray(t) THEN Failed
  ELSE IF value.class = Null THEN Parsed(value) ELSE ArrayOfType(value, t)
StringArgument(value, t) ==
  IF value.kind # "object" THEN Failed
  ELSE IF value.class = Null THEN Parsed(value) ELSE ObjectForArgument(value, t)

\* JavaHookContext::arg
Argument(wanted, value, t) ==
  CASE wanted \in Prims -> PrimitiveArgument(wanted, value)
    [] wanted = "object" -> ObjectArgument(value, t)
    [] wanted = "array" -> ArrayArgument(value, t)
    [] wanted = "string" -> StringArgument(value, t)

\* arg_is_null
ArgumentIsNull(value, t) ==
  IF IsReference(t) /\ value.kind = "object" THEN Parsed(value.class = Null) ELSE Failed
\* raw_arg_object
RawArgumentObject(value) == IF value.kind = "object" THEN Parsed(value) ELSE Failed
\* arg_object: null whatever is declared
ArgObject(value, t) ==
  IF value.kind # "object" THEN Failed
  ELSE IF value.class = Null THEN Parsed(value) ELSE ObjectForArgument(value, t)
\* arg_array
ArgArray(value, t) ==
  IF ~IsArray(t) \/ value.kind # "object" THEN Failed
  ELSE IF value.class = Null THEN Parsed(value) ELSE ArrayOfType(value, t)

\* null_reference_argument
NullArgument(t) == IF IsReference(t) THEN Parsed("null") ELSE Failed
\* arg_value: the untyped view is an array view exactly for a declared array
ArgumentView(value, t) ==
  CASE value.kind = "void" -> Failed
    [] value.kind \in Prims -> Parsed(value.kind)
    [] value = Object(Null) -> NullArgument(t)
    [] OTHER -> LET view == IF IsArray(t) THEN ArrayOfType(value, t) ELSE ObjectForArgument(value, t)
                IN IF view.ok THEN Parsed(IF IsArray(t) THEN "array" ELSE "object") ELSE Failed
\* JavaHookArguments: the views of all, in order
ArgumentViews(values, types) == [i \in DOMAIN types |-> ArgumentView(values[i], types[i])]
\* JavaHookArguments as the arguments of the original: the raw values
PassedOn(values, types) ==
  PreparedArguments([i \in DOMAIN values |-> Rust("value", values[i])], types)

-----------------------------------------------------------------------------
(* What the callback takes of the result of the original.                  *)
\* FromJavaHookReturn of the primitives and of ()
PrimitiveOfOriginal(kind, value) == Extract(kind, value)
\* FromJavaHookReturn of optional strings, objects and arrays
StringOfOriginal(value, t) ==
  IF value.kind # "object" THEN Failed
  ELSE IF value.class = Null THEN Parsed(value) ELSE ObjectOfType(value, t)
ObjectOfOriginal(value, t) ==
  IF value.kind # "object" THEN Failed
  ELSE IF value.class = Null THEN Parsed(value) ELSE ObjectOfType(value, t)
ArrayOfOriginal(value, t) ==
  IF value.kind # "object" \/ ~IsArray(t) THEN Failed
  ELSE IF value.class = Null THEN Parsed(value) ELSE ArrayOfType(value, t)

\* JavaHookContext::call_original
ResultOfOriginal(wanted, value, t) ==
  CASE wanted \in Words -> PrimitiveOfOriginal(wanted, value)
    [] wanted = "object" -> ObjectOfOriginal(value, t)
    [] wanted = "array" -> ArrayOfOriginal(value, t)
    [] wanted = "string" -> StringOfOriginal(value, t)

-----------------------------------------------------------------------------
(* What a callback returns.                                                *)
\* coerce_for_return_type
CoercedReturn(value, t) == CoerceReturn(value, t)
\* validate_for_return_type: a token must be of the declared kind exactly
TokenReturn(value, t) ==
  IF (t = Void /\ value.kind = "void") \/ (t # Void /\ value.kind = KindOf(t))
  THEN Parsed(value) ELSE Failed
\* IntoJavaHookReturn of the primitives and of ()
PrimitiveReturn(value, t) == CoercedReturn(value, t)
\* string_hook_return: a new Java string
NewStringReturn(value, t) == IF AcceptsRustString(t) THEN CoercedReturn(value, t) ELSE Failed
\* IntoJavaHookReturn of strings, None for null
StringReturn(value, t) ==
  IF value.class = Null THEN CoercedReturn(value, t) ELSE NewStringReturn(value, t)
\* wrapper_hook_return: a new local reference to the object
NewReferenceReturn(value, t) == CoercedReturn(value, t)
\* IntoJavaHookReturn of objects and arrays, None for null
WrapperReturn(value, t) ==
  IF value.class = Null THEN CoercedReturn(value, t) ELSE NewReferenceReturn(value, t)

\* JavaHookContext::ret
HookReturn(returned, t) ==
  IF returned.shape = "token" THEN TokenReturn(returned.value, t)
  ELSE IF returned.shape \in {"string", "optional"} THEN StringReturn(returned.value, t)
  ELSE IF returned.value.kind = "object" THEN WrapperReturn(returned.value, t)
  ELSE PrimitiveReturn(returned.value, t)

\* resolve_reference_return_class: a class only for a declared reference
ReferenceReturnClass(t) == IF IsReference(t) THEN t ELSE Null
\* validate_reference_return
ValidReference(value, class) ==
  class # Null /\ value.kind = "object" /\ value.class # Null => Subtype(value.class, class)
\* install_method_hook
MethodReturn(returned, t) ==
  LET value == HookReturn(returned, t) IN
  IF value.ok /\ ValidReference(value.value, ReferenceReturnClass(t)) THEN value ELSE Failed
\* install_constructor_hook
ConstructorReturn(returned) ==
  LET value == HookReturn(returned, Void) IN
  IF value.ok THEN CoercedReturn(value.value, Void) ELSE Failed

\* ClosureReplacementState::validate_return
ReturnMatches(value, t) == Matches(value, t)
\* raw_return_to_jvalue
ReturnJvalue(value) == ToJvalue(value)
\* load_return_value: ART extends a small result itself
LoadReturn(jvalue, t) ==
  IF t = Void THEN Parsed(VoidValue)
  ELSE LET loaded == ValueLayout(t)[2] IN
       Read([jvalue EXCEPT !.bytes = IF @ < loaded THEN @ ELSE loaded], t)

\* what Java gets, if the callback does not fail
ReturnedToJava(returned, t) ==
  LET value == MethodReturn(returned, t) IN
  IF ~value.ok THEN Failed
  ELSE IF ~ReturnMatches(value.value, t) THEN Failed
  ELSE LoadReturn(ReturnJvalue(value.value), t)

-----------------------------------------------------------------------------
(* A Rust value that a callback may return is a value of the declared type *)
(* for Java, of the same number, and a literal whose number the type can   *)
(* hold is accepted; a constructor's callback returns nothing.             *)
ReturnSurvives(given, t) ==
  LET result == ReturnedToJava(given, t) IN
  /\ result.ok => Holds(result.value, t) /\ SameValue(given.value, result.value)
  /\ given.shape = "value" /\ Literal(given.value, t) => result.ok
  /\ ConstructorReturn(given).ok <=> given.value = VoidValue

(* The callback is given the values that Java passed, in their order,      *)
(* whatever registers and stack slots they came in, from slots that lie    *)
(* inside of the frame of the trampoline, it sees each as what it is       *)
(* declared to be, and when it passes them on, the original gets the same. *)
ArgumentsArrive(types, values) ==
  LET n == Len(types)
      seen(value, t) == IF value = Object(Null) THEN "null" ELSE Natural(t)
  IN
  Admitted("method", "static", [arguments |-> types, returns |-> Void]) =>
    /\ CallbackArguments(types, values) = [i \in 1 .. n |-> Parsed(values[i])]
    /\ \A i \in 1 .. n : Slot(n, i) + SlotSize <= -16
    /\ ArgumentViews(values, types) = [i \in 1 .. n |-> Parsed(seen(values[i], types[i]))]
    /\ PassedOn(values, types) = Parsed(values)

(* What is taken of an argument or of a result is what it is: never a      *)
(* number of another kind, never an array as an object or an object as an  *)
(* array, and a string is taken of a declared string; the untyped view is  *)
(* the one that the typed extraction of the declared type accepts, and     *)
(* what takes the result of the original takes it of a plain call too.     *)
TakenAsDeclared(value, t) ==
  LET natural == Natural(t)
      null == value = Object(Null)
      all == Prims \cup {"object", "array"}
  IN
  /\ \A wanted \in all :
       /\ Argument(wanted, value, t).ok <=> wanted = natural
       /\ Result(wanted, value, t).ok <=> wanted = natural \/ (null /\ wanted \notin Prims)
       /\ Argument(wanted, value, t).ok => Argument(wanted, value, t).value = value
       /\ ResultOfOriginal(wanted, value, t).ok => Result(wanted, value, t).ok
       /\ wanted = natural => ResultOfOriginal(wanted, value, t).ok
  /\ t = StringType => /\ Argument("string", value, t).ok /\ Result("string", value, t).ok
                       /\ ResultOfOriginal("string", value, t).ok
  /\ ArgumentView(value, t) = Parsed(IF null THEN "null" ELSE natural)
  /\ Required(Argument(natural, value, t)).ok <=> ~null
  /\ ArgumentIsNull(value, t) = IF IsReference(t) THEN Parsed(null) ELSE Failed
  /\ RawArgumentObject(value).ok <=> IsReference(t)
  /\ ArgObject(value, t).ok <=> natural = "object" \/ null
  /\ ArgArray(value, t).ok <=> natural = "array"
=============================================================================
