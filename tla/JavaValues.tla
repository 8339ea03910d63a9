------------------------------ MODULE JavaValues ------------------------------
(***************************************************************************)
(* The values that cross between Rust and Java: call arguments and field   *)
(* values (coercion.rs, java/conversion.rs, java/args), the union they     *)
(* cross in (value.rs) and results (java/returns.rs).                      *)
(*                                                                         *)
(* A value is its kind and the number it holds (a boolean 0 or 1), or the  *)
(* class of an object, or null.  A floating-point number is one of the few *)
(* the code tells apart: Third is a double between two floats, ThirdF the  *)
(* float it is rounded to, Huge is beyond the largest float.               *)
(***************************************************************************)
EXTENDS Integers, Sequences, JavaTypes

Null == [base |-> "null", name |-> <<>>, dims |-> 0]
Value(kind, v) == [kind |-> kind, v |-> v, class |-> Null]
Object(class) == [kind |-> "object", v |-> 0, class |-> class]
Half == 1
Third == 2
ThirdF == 3
Huge == 4
Infinity == 5
NaN == 6
VoidValue == Value("void", 0)

StringType == ObjectType(<<"java", "/", "lang", "/", "String">>)
CharSequenceType == ObjectType(<<"java", "/", "lang", "/", "CharSequence">>)
JavaLangObject == ObjectType(<<"java", "/", "lang", "/", "Object">>)
\* a class of the app, and the two it extends, one by way of the other
App == ObjectType(<<"App">>)
Parent == ObjectType(<<"Parent">>)
Ancestor == ObjectType(<<"Ancestor">>)
Extends ==
  {<<StringType, CharSequenceType>>, <<App, Parent>>, <<App, Ancestor>>, <<Parent, Ancestor>>}
IsArray(t) == t.dims > 0
Element(t) == [t EXCEPT !.dims = @ - 1]

\* what IsInstanceOf answers of an object of class c: reflexive, to Object, to
\* what c extends, and covariant in the elements of k dimensions
Subtype(c, t) ==
  \E k \in 0 .. c.dims :
    LET from == [c EXCEPT !.dims = @ - k]
        to == [t EXCEPT !.dims = @ - k]
    IN /\ k <= t.dims
       /\ k > 0 => IsReference(from) /\ IsReference(to)
       /\ \/ from = to
          \/ to = JavaLangObject /\ IsReference(from)
          \/ <<from, to>> \in Extends

-----------------------------------------------------------------------------
(* Coercion to a declared type.                                            *)
\* JavaValue::matches_type
Matches(value, t) ==
  IF value.kind = "object" THEN IsReference(t) ELSE t.dims = 0 /\ t.base = value.kind

Limits == [byte |-> <<-128, 127>>, char |-> <<0, 65535>>, short |-> <<-32768, 32767>>]
InLimits(kind, v) == v \in Limits[kind][1] .. Limits[kind][2]
\* the same with the range of a short for a char
NarrowCharAsShort(v, kind) ==
  IF InLimits(IF kind = "char" THEN "short" ELSE kind, v)
  THEN Parsed(Value(kind, IF v < 0 THEN v % 65536 ELSE v)) ELSE Failed
\* narrow_int_value
NarrowInt(v, kind) == IF InLimits(kind, v) THEN Parsed(Value(kind, v)) ELSE Failed

RoundedToFloat(v) == IF v = Third THEN ThirdF ELSE v
FitsFloat(v) == v \notin {NaN, Infinity, Huge}
\* double_to_float_value
DoubleToFloat(v) == IF FitsFloat(v) THEN Parsed(Value("float", RoundedToFloat(v))) ELSE Failed

\* coerce_java_value
Coerce(value, t) ==
  LET kind == value.kind IN
  CASE Matches(value, t) -> Parsed(value)
    [] kind = "int" /\ t.dims = 0 /\ t.base \in DOMAIN Limits -> NarrowInt(value.v, t.base)
    [] kind = "int" /\ t = Prim("long") -> Parsed(Value("long", value.v))
    [] kind = "float" /\ t = Prim("double") -> Parsed(Value("double", value.v))
    [] kind = "double" /\ t = Prim("float") -> DoubleToFloat(value.v)
    [] OTHER -> Failed

\* The callers' names for it, which differ in the error they make of a refusal.
CoerceCall(value, t) == Coerce(value, t)
CoerceField(value, t) == Coerce(value, t)
CoerceReturn(value, t) == Coerce(value, t)

-----------------------------------------------------------------------------
(* What Rust passes: a JavaValue or what turns into one, a callback-local  *)
(* view of an object or of nothing, a Rust string, which becomes a new     *)
(* Java string, or, only as what a hook returns, a token, an owned wrapper *)
(* or an optional string.                                                  *)
Rust(shape, value) == [shape |-> shape, value |-> value]
RustString == Rust("string", Object(StringType))

AcceptsRustString(t) == t \in {StringType, CharSequenceType, JavaLangObject}

\* prepare_call_value, prepare_call_reference, prepare_call_rust_string
PrepareCall(arg, t) ==
  IF arg.shape # "string" THEN CoerceCall(arg.value, t)
  ELSE IF AcceptsRustString(t) THEN Parsed(arg.value) ELSE Failed
\* prepare_field_value, prepare_field_reference, prepare_field_rust_string
PrepareField(arg, t) ==
  IF arg.shape # "string" THEN CoerceField(arg.value, t)
  ELSE IF AcceptsRustString(t) THEN Parsed(arg.value) ELSE Failed

\* JavaCallArg of a callback-local view: its reference, or null
ViewArgument(arg, t) == PrepareCall(Rust("value", arg.value), t)
\* JavaCallArg of the values and of the strings
CallArgument(arg, t) == IF arg.shape = "view" THEN ViewArgument(arg, t) ELSE PrepareCall(arg, t)
\* IntoJavaFieldValue
FieldArgument(arg, t) == PrepareField(arg, t)

\* prepare_call_args: as many as declared, each prepared for its type; the
\* strings made for the others are released when one is refused
PreparedArguments(arguments, types) ==
  LET prepared == [i \in DOMAIN types |-> CallArgument(arguments[i], types[i])] IN
  IF Len(arguments) = Len(types) /\ \A i \in DOMAIN types : prepared[i].ok
  THEN Parsed([i \in DOMAIN types |-> prepared[i].value])
  ELSE Failed

\* the arguments () and of one argument that is no list
NoArguments(types) == IF types = <<>> THEN Parsed(<<>>) ELSE Failed
OneArgument(argument, types) ==
  IF Len(types) # 1 THEN Failed
  ELSE LET prepared == CallArgument(argument, types[1]) IN
       IF prepared.ok THEN Parsed(<<prepared.value>>) ELSE Failed
\* a tuple of up to eight arguments
TupleArguments(arguments, types) ==
  IF Len(types) # Len(arguments) THEN Failed ELSE PreparedArguments(arguments, types)

\* into_java_overload_arg: what an overload is selected by, and called with after
OverloadArgument(argument) == IF argument.shape = "view" THEN Rust("value", argument.value) ELSE argument

-----------------------------------------------------------------------------
(* The union of JNI.  Its members share their first bytes, and what is     *)
(* beyond the bytes of the member written is not specified.                *)
Bytes == [boolean |-> 1, byte |-> 1, char |-> 2, short |-> 2, int |-> 4, long |-> 8,
          float |-> 4, double |-> 8, object |-> 8]
KindOf(t) == IF IsReference(t) THEN "object" ELSE t.base
ZeroJvalue == [value |-> Value("long", 0), bytes |-> 8]

\* JavaValue::to_jvalue; void is all zeroes
ToJvalue(value) ==
  IF value.kind = "void" THEN ZeroJvalue ELSE [value |-> value, bytes |-> Bytes[value.kind]]

\* java_value_from_jvalue: reading the member of type t makes sense only if that
\* is the member written, and if all its bytes arrived
Read(jvalue, t) ==
  IF jvalue.value.kind = KindOf(t) /\ jvalue.bytes >= Bytes[KindOf(t)]
  THEN Parsed(jvalue.value) ELSE Failed

-----------------------------------------------------------------------------
(* Results: what a Rust caller takes of what Java returned, which is an    *)
(* array view exactly when an array is declared (see JniAccess).           *)
\* java_value_extractors, into_void
Extract(kind, value) == IF value.kind = kind THEN Parsed(value) ELSE Failed
\* into_object, into_array
IntoObject(value, t) ==
  IF value.kind = "object" /\ (value.class = Null \/ ~IsArray(t)) THEN Parsed(value) ELSE Failed
IntoArray(value, t) ==
  IF value.kind = "object" /\ (value.class = Null \/ IsArray(t)) THEN Parsed(value) ELSE Failed
\* get_string copies the characters of what it takes for a string
IntoString(value, t) == IntoObject(value, t)
\* a wrapper that is not optional refuses null
Required(p) == IF p.ok /\ p.value = Object(Null) THEN Failed ELSE p

\* FromJavaReturn
Result(wanted, value, t) ==
  CASE wanted \in Words -> Extract(wanted, value)
    [] wanted = "object" -> IntoObject(value, t)
    [] wanted = "array" -> IntoArray(value, t)
    [] wanted = "string" -> IntoString(value, t)

-----------------------------------------------------------------------------
(* The same number, up to the rounding of a double to a float.             *)
SameValue(a, b) ==
  \/ a.v = b.v /\ a.class = b.class
  \/ a.kind = "double" /\ b.kind = "float" /\ FitsFloat(a.v) /\ b.v = RoundedToFloat(a.v)
Holds(value, t) == Matches(value, t) /\ (value.kind \in DOMAIN Limits => InLimits(value.kind, value.v))

\* Rust's default literals, i32 and f64, fit wherever Java can hold the number
Literal(value, t) ==
  /\ value.kind \in {"int", "double"}
  /\ IF value.kind = "int" THEN t.dims = 0 /\ t.base \in {"byte", "char", "short", "int", "long"}
                           ELSE t \in {Prim("float"), Prim("double")}
  /\ Holds(Value(t.base, value.v), t)
  /\ value.kind = "double" => FitsFloat(value.v) \/ t = Prim("double")

\* what an argument or a result of a declared type is taken as
Natural(t) == IF IsArray(t) THEN "array" ELSE t.base

(* A Rust value that is accepted as an argument is a value of the declared *)
(* type for Java, of the same number, as an argument as well as in a       *)
(* field, and a literal whose number the type can hold is accepted.        *)
ArgumentSurvives(given, t) ==
  LET argument == CallArgument(given, t) IN
  /\ argument.ok /\ t # Void => /\ Read(ToJvalue(argument.value), t) = argument
                                /\ Holds(argument.value, t)
                                /\ SameValue(given.value, argument.value)
  /\ FieldArgument(given, t) = argument
  /\ given.shape = "value" /\ Literal(given.value, t) => argument.ok

(* The same arguments are prepared alike, given as one, as a tuple or as a *)
(* list, and before or after an overload was selected by them.             *)
ContainersAgree(arguments, types) ==
  LET prepared == PreparedArguments(arguments, types) IN
  /\ arguments = <<>> => NoArguments(types) = prepared
  /\ Len(arguments) = 1 => OneArgument(arguments[1], types) = prepared
  /\ TupleArguments(arguments, types) = prepared
  /\ PreparedArguments([i \in DOMAIN arguments |-> OverloadArgument(arguments[i])], types) = prepared
=============================================================================
