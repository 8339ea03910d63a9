------------------------------- MODULE JniAccess -------------------------------
(***************************************************************************)
(* From a member to the JNI function that uses it: what reflection says of *)
(* the members of a class (metadata/reflection.rs), the lookup of an id by *)
(* name and descriptor (java/class.rs, env/members.rs), the checks of the  *)
(* kind, type and arguments of an id (env/ids.rs, signature.rs), the call  *)
(* and field functions (env/calls.rs, env/fields.rs, env/macros.rs), their *)
(* choice by the declared type (java/dispatch.rs), and the functions on    *)
(* arrays (env/arrays.rs).                                                 *)
(*                                                                         *)
(* A class is the sequence of what it and its superclasses declare, in the *)
(* order that the code sorts the metadata in.  An object whose class has   *)
(* the expected name but another loader is foreign: it is an instance of   *)
(* nothing but of the classes of the boot loader.  A type is missing when  *)
(* the loader of the holder does not find its class.                       *)
(***************************************************************************)
EXTENDS JavaValues, Signatures

Member(name, kind, arguments, type) ==
  [name |-> name, kind |-> kind, arguments |-> arguments, type |-> type]
Given(rust, foreign) == [rust |-> rust, foreign |-> foreign]
BootTypes == {StringType, CharSequenceType, JavaLangObject}

\* IsInstanceOf of the class that the loader of the holder finds
Instance(given, t) ==
  Subtype(given.rust.value.class, t) /\ (given.foreign => t \in BootTypes)
IsObject(given) == given.rust.value.kind = "object" /\ given.rust.value.class # Null

-----------------------------------------------------------------------------
(* Reflection.                                                             *)
\* Class.getName
ClassName(t) ==
  CASE t.dims > 0 -> Replaced(Descriptor(t), "/", ".")
    [] t.dims = 0 /\ t.base = "object" -> Replaced(t.name, "/", ".")
    [] t.dims = 0 /\ t.base # "object" -> <<t.base>>

\* Reflection::class_type
ClassType(name) ==
  LET d == ClassNameToDescriptor(name) IN IF d = <<"V">> THEN Void ELSE Parse(d).value

\* call_class_array, of getParameterTypes
ParameterTypesOf(m) == [i \in DOMAIN m.arguments |-> ClassType(ClassName(m.arguments[i]))]

\* method_metadata_from_reflection
MethodMetadata(m) ==
  Member(IF m.kind = "constructor" THEN "<init>" ELSE m.name, m.kind, ParameterTypesOf(m),
         IF m.kind = "constructor" THEN Void ELSE ClassType(ClassName(m.type)))

\* field_metadata_from_reflection
FieldMetadata(f) == Member(f.name, f.kind, <<>>, ClassType(ClassName(f.type)))

DeclaredMethods(class) == [i \in DOMAIN class[1] |-> MethodMetadata(class[1][i])]
DeclaredFields(class) == [i \in DOMAIN class[1] |-> FieldMetadata(class[1][i])]

Names(members) == {members[i].name : i \in DOMAIN members}
\* append_unshadowed_methods, append_unshadowed_fields: what a class declares
\* hides by its name everything that is inherited
Unshadowed(declared, inherited) ==
  declared \o SelectSeq(inherited, LAMBDA m : m.name \notin Names(declared))

\* the superclass is what comes after the class; of the last n classes
DeclaredMembers(class) == SelectSeq(DeclaredMethods(class), LAMBDA m : m.kind # "constructor")
VisibleMethods(class) ==
  LET visible[n \in 0 .. Len(class)] ==
        IF n = 0 THEN <<>>
        ELSE Unshadowed(DeclaredMembers(Suffix(class, Len(class) - n)), visible[n - 1])
  IN visible[Len(class)]
VisibleFields(class) ==
  LET visible[n \in 0 .. Len(class)] ==
        IF n = 0 THEN <<>>
        ELSE Unshadowed(DeclaredFields(Suffix(class, Len(class) - n)), visible[n - 1])
  IN visible[Len(class)]

-----------------------------------------------------------------------------
(* Ids: the member that the runtime found, and the kind and types it was   *)
(* asked for.                                                              *)
\* GetMethodID, GetFieldID and their static forms: the first class that declares
\* the name with the types, and only if it is static as asked
Find(class, wanted) ==
  LET asked(m) == [m EXCEPT !.kind = wanted.kind] = wanted
      at == IF wanted.kind = "constructor" THEN {1} \cap DOMAIN class ELSE DOMAIN class
      declares(i) == \E m \in Range(class[i]) : asked(m)
      first == CHOOSE i \in at : declares(i) /\ \A j \in at : declares(j) => i <= j
  IN IF ~\E i \in at : declares(i) \/ wanted \notin Range(class[first]) THEN Failed
     ELSE Parsed(wanted)

\* lookup_instance_method, lookup_static_method; lookup_constructor returns void
LookupMethod(class, kind, name, descriptor) ==
  AndThen(ParseMethod(descriptor), LAMBDA s :
    IF kind = "constructor" /\ s.returns # Void THEN Failed
    ELSE Find(class, Member(name, kind, s.arguments, s.returns)))

\* lookup_instance_field, lookup_static_field
LookupField(class, kind, name, descriptor) ==
  AndThen(Parse(descriptor), LAMBDA t : Find(class, Member(name, kind, <<>>, t)))

\* cached_method, cached_field: the cache, by kind, name and normalized
\* descriptor, keeps what the lookup would find again
CachedMethod(class, kind, name, descriptor) ==
  AndThen(ParseMethod(descriptor), LAMBDA s : LookupMethod(class, kind, name, MethodDescriptor(s)))
CachedField(class, kind, name, descriptor) ==
  AndThen(Parse(descriptor), LAMBDA t : LookupField(class, kind, name, Descriptor(t)))

-----------------------------------------------------------------------------
(* Calls and field accesses.  Of each operation, JNI has a function for    *)
(* each primitive, one for all references, and one for void.               *)
Lane(t) == IF IsReference(t) THEN "object" ELSE t.base
Use(operation, lane, id, values) ==
  [operation |-> operation, lane |-> lane, member |-> id, values |-> values]

\* ensure_return, ensure_type
EnsureType(t, lane) == IF lane = "object" THEN IsReference(t) ELSE t = Prim(lane)
\* MethodSignature::validate_arguments
ValidateArguments(types, values) ==
  Len(values) = Len(types) /\ \A i \in DOMAIN types : Matches(values[i], types[i])

\* Env::new_object
NewObjectA(id, values) ==
  IF id.kind # "constructor" \/ ~ValidateArguments(id.arguments, values) THEN Failed
  ELSE Parsed(Use("new", "object", id, values))

\* call_instance_*_method
InstanceCall(lane, id, values) ==
  IF id.kind # "instance" \/ ~EnsureType(id.type, lane) \/ ~ValidateArguments(id.arguments, values)
  THEN Failed ELSE Parsed(Use("call", lane, id, values))

\* call_static_*_method
StaticCall(lane, id, values) ==
  IF id.kind # "static" \/ ~EnsureType(id.type, lane) \/ ~ValidateArguments(id.arguments, values)
  THEN Failed ELSE Parsed(Use("call static", lane, id, values))

\* get_instance_*_field, set_instance_*_field, and of static fields
InstanceField(operation, lane, id, values) ==
  IF id.kind # "instance" \/ ~EnsureType(id.type, lane) THEN Failed
  ELSE Parsed(Use(operation, lane, id, values))
StaticField(operation, lane, id, values) ==
  IF id.kind # "static" \/ ~EnsureType(id.type, lane) THEN Failed
  ELSE Parsed(Use(operation, lane, id, values))

-----------------------------------------------------------------------------
(* The function for the declared type, or, to set a field, for the kind of *)
(* the value.                                                              *)
CallInstanceReturn(id, values) == InstanceCall(Lane(id.type), id, values)
CallStaticReturn(id, values) == StaticCall(Lane(id.type), id, values)
GetInstanceField(id) ==
  IF id.type = Void THEN Failed ELSE InstanceField("get", Lane(id.type), id, <<>>)
GetStaticField(id) ==
  IF id.type = Void THEN Failed ELSE StaticField("get static", Lane(id.type), id, <<>>)
SetInstanceField(id, value) ==
  IF ~Matches(value, id.type) THEN Failed ELSE InstanceField("set", value.kind, id, <<value>>)
SetStaticField(id, value) ==
  IF ~Matches(value, id.type) THEN Failed ELSE StaticField("set static", value.kind, id, <<value>>)

\* raw::Class: new_object, call_method, call_static, get_field, set_field, ...
RawNewObject(class, descriptor, values) ==
  AndThen(CachedMethod(class, "constructor", "<init>", descriptor), LAMBDA id : NewObjectA(id, values))
RawCallMethod(class, name, descriptor, values) ==
  AndThen(CachedMethod(class, "instance", name, descriptor), LAMBDA id : CallInstanceReturn(id, values))
RawCallStatic(class, name, descriptor, values) ==
  AndThen(CachedMethod(class, "static", name, descriptor), LAMBDA id : CallStaticReturn(id, values))
RawGetField(class, name, descriptor) ==
  AndThen(CachedField(class, "instance", name, descriptor), LAMBDA id : GetInstanceField(id))
RawSetField(class, name, descriptor, value) ==
  AndThen(CachedField(class, "instance", name, descriptor), LAMBDA id : SetInstanceField(id, value))
RawGetStaticField(class, name, descriptor) ==
  AndThen(CachedField(class, "static", name, descriptor), LAMBDA id : GetStaticField(id))
RawSetStaticField(class, name, descriptor, value) ==
  AndThen(CachedField(class, "static", name, descriptor), LAMBDA id : SetStaticField(id, value))

\* object_from_ref_with_declared, array_from_ref_with_declared: a result is
\* wrapped as its declared type when it is an instance of it
Returned(given, t, missing) ==
  LET value == given.rust.value IN
  IF Lane(t) # value.kind THEN Failed
  ELSE IF ~IsObject(given) THEN Parsed(value)
  ELSE IF t \in missing \/ ~Instance(given, t) THEN Failed
  ELSE Parsed(value)

-----------------------------------------------------------------------------
(* Arrays: the class of the array and its elements, from the first on.     *)
NewArray(class, elements) == [class |-> class, elements |-> elements]

\* validate_empty_primitive_array_region; JNI itself checks a region
InArray(array, start, length) == start >= 0 /\ start + length <= Len(array.elements)
EmptyRegion(array, start) == start \in 0 .. Len(array.elements)

\* get_primitive_array_region
GetRegion(array, start, length) ==
  IF length = 0 THEN IF EmptyRegion(array, start) THEN Parsed(<<>>) ELSE Failed
  ELSE IF ~InArray(array, start, length) THEN Failed
  ELSE Parsed(SubSeq(array.elements, start + 1, start + length))

\* set_primitive_array_region
SetRegion(array, start, values) ==
  IF values = <<>> THEN IF EmptyRegion(array, start) THEN Parsed(array) ELSE Failed
  ELSE IF ~InArray(array, start, Len(values)) THEN Failed
  ELSE Parsed([array EXCEPT !.elements =
         SubSeq(@, 1, start) \o values \o Suffix(@, start + Len(values))])

\* new_*_array: an array of as many elements, set from the first on
NewPrimitiveArray(element, values) ==
  LET zeroes == NewArray(ArrayOf(element), [i \in DOMAIN values |-> 0]) IN SetRegion(zeroes, 0, values)

\* get_object_array_element_nullable and set_object_array_element_raw, which
\* check the index and the array's own type; elements count from 1 here
GetElementAt(array, index) ==
  IF index \in DOMAIN array.elements THEN Parsed(array.elements[index]) ELSE Failed
SetElementAt(array, index, given) ==
  IF index \notin DOMAIN array.elements THEN Failed
  ELSE IF IsObject(given) /\ ~Instance(given, Element(array.class)) THEN Failed
  ELSE Parsed([array EXCEPT !.elements[index] = given])
=============================================================================
