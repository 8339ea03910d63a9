---------------------------- MODULE MemberSelection ----------------------------
(***************************************************************************)
(* How a call or a field access of the wrappers finds its member and what  *)
(* it hands to JNI: the selection of an overload by its types or by the    *)
(* arguments, the checks of receiver, arguments and result (members.rs,    *)
(* class.rs and object.rs under java), and the elements of arrays          *)
(* (java/array.rs).  The raw access by name and descriptor is JniAccess's. *)
(***************************************************************************)
EXTENDS JniAccess

-----------------------------------------------------------------------------
(* Selection.                                                              *)
\* the constructors come from declared_methods
MembersFor(class, target) ==
  IF target = "constructor" THEN DeclaredMethods(class) ELSE VisibleMethods(class)

\* dispatch_target_accepts
TargetAccepts(target, name, m) ==
  CASE target = "constructor" -> m.kind = "constructor"
    [] target = "static" -> m.kind = "static" /\ m.name = name
    [] target = "bound" -> m.kind # "constructor" /\ m.name = name

\* exactly one match, else not found or ambiguous
Only(members) == IF Len(members) = 1 THEN Parsed(members[1]) ELSE Failed

\* overload(types), constructor(types)
SelectByTypes(class, target, name, types) ==
  LET wanted(m) == IF target = "constructor" THEN m.kind = "constructor"
                   ELSE m.kind # "constructor" /\ m.name = name
  IN Only(SelectSeq(MembersFor(class, target), LAMBDA m : wanted(m) /\ m.arguments = types))
\* unambiguous, and field: by the name alone
SelectMethodByName(class, name) ==
  Only(SelectSeq(VisibleMethods(class), LAMBDA m : m.name = name))
SelectFieldByName(class, name) ==
  Only(SelectSeq(VisibleFields(class), LAMBDA m : m.name = name))

NoScore == 1000
\* rust_string_dispatch_score
StringScore(t) ==
  CASE t = StringType -> 0 [] t = CharSequenceType -> 1 [] t = JavaLangObject -> 2 [] OTHER -> NoScore

\* reference_dispatch_score: the descriptor of the class of the object first; a
\* type that the loader does not find fails the whole dispatch
Aborts == 2000
ReferenceScore(given, t, missing) ==
  LET class == given.rust.value.class IN
  CASE ~IsReference(t) -> NoScore
    [] IsReference(t) /\ class = t -> 0
    [] class # t /\ t = JavaLangObject -> 30
    [] class # t /\ t # JavaLangObject /\ IsReference(t) ->
         IF t \in missing THEN Aborts
         ELSE IF ~Instance(given, t) THEN NoScore
         ELSE IF IsArray(t) THEN 1 ELSE 10

\* dispatch_arg_score
ArgumentScore(given, t, missing) ==
  LET value == given.rust.value IN
  CASE given.rust.shape = "string" -> StringScore(t)
    [] given.rust.shape # "string" /\ value = Object(Null) -> IF IsReference(t) THEN 50 ELSE NoScore
    [] given.rust.shape # "string" /\ IsObject(given) -> ReferenceScore(given, t, missing)
    [] given.rust.shape # "string" /\ value.kind # "object" ->
         IF value.kind = t.base /\ ~IsArray(t) THEN 0
         ELSE IF Coerce(value, t).ok THEN 10 ELSE NoScore

\* a loop that has returned keeps what it returned
AndScore(sum, score) == IF sum >= NoScore THEN sum ELSE IF score >= NoScore THEN score ELSE sum + score
\* dispatch_score: argument by argument, up to the first that does not fit
Score(arguments, m, missing) ==
  LET score[i \in 0 .. Len(m.arguments)] ==
        IF i = 0 THEN 0
        ELSE AndScore(score[i - 1], ArgumentScore(arguments[i], m.arguments[i], missing))
  IN IF Len(arguments) # Len(m.arguments) THEN NoScore ELSE score[Len(m.arguments)]

\* mutant: of equal scores the last is taken
BestLast(members, scores) ==
  LET least == {i \in DOMAIN members : \A j \in DOMAIN members : scores[i] <= scores[j]}
      last == CHOOSE i \in least : \A j \in least : i >= j
  IN IF least = {} \/ (\E i \in DOMAIN members : scores[i] = Aborts) THEN Failed
     ELSE IF scores[last] < NoScore THEN Parsed(members[last]) ELSE Failed

\* select_method_by_dispatch_args: the least score, and among equals the first
Best(members, scores) ==
  LET least == {i \in DOMAIN members : \A j \in DOMAIN members : scores[i] <= scores[j]}
      first == CHOOSE i \in least : \A j \in least : i <= j
  IN IF least = {} \/ (\E i \in DOMAIN members : scores[i] = Aborts) THEN Failed
     ELSE IF scores[first] < NoScore THEN Parsed(members[first]) ELSE Failed
BestFor(members, arguments, missing) ==
  Best(members, [i \in DOMAIN members |-> Score(arguments, members[i], missing)])
SelectByArguments(class, target, name, arguments, missing) ==
  BestFor(SelectSeq(MembersFor(class, target), LAMBDA m : TargetAccepts(target, name, m)),
          arguments, missing)

-----------------------------------------------------------------------------
(* Access.                                                                 *)
\* mutant: the class of an object is compared by its name
AssignableByName(given, t, missing) ==
  IsObject(given) /\ IsReference(t) =>
    t \notin missing /\ Subtype(given.rust.value.class, t)

\* is_reference_value_assignable; a Rust string is checked like any object
Assignable(given, t, missing) ==
  IsObject(given) /\ IsReference(t) => t \notin missing /\ Instance(given, t)

\* AttachedJavaCallArgs and validate_reference_call_args
ArgumentsFor(arguments, types, missing) ==
  LET prepared == PreparedArguments([i \in DOMAIN arguments |-> arguments[i].rust], types) IN
  IF prepared.ok /\ \A i \in DOMAIN types : Assignable(arguments[i], types[i], missing)
  THEN prepared ELSE Failed

\* validate_selected_receiver
ReceiverFits(receiver, holder) == receiver.rust.value.class # Null /\ Instance(receiver, holder)

Text(m) == MethodDescriptor([arguments |-> m.arguments, returns |-> m.type])

\* JavaConstructor::new_object
NewObject(class, m, arguments, missing) ==
  AndThen(ArgumentsFor(arguments, m.arguments, missing), LAMBDA values :
    RawNewObject(class, Text(m), values))

CallStatic(class, m, arguments, missing) ==
  AndThen(ArgumentsFor(arguments, m.arguments, missing), LAMBDA values :
    RawCallStatic(class, m.name, Text(m), values))

\* JavaMethodReceiver for (), and for an object, which takes static methods too
CallOnClass(class, m, arguments, missing) ==
  IF m.kind = "static" THEN CallStatic(class, m, arguments, missing) ELSE Failed
CallOnObject(class, holder, m, receiver, arguments, missing) ==
  CASE m.kind = "static" -> CallStatic(class, m, arguments, missing)
    [] m.kind = "constructor" -> Failed
    [] m.kind = "instance" ->
         IF ~ReceiverFits(receiver, holder) THEN Failed
         ELSE AndThen(ArgumentsFor(arguments, m.arguments, missing), LAMBDA values :
                RawCallMethod(class, m.name, Text(m), values))

\* the call of what was selected
CallSelected(selected, class, holder, target, receiver, arguments, missing) ==
  LET m == selected.value IN
  CASE ~selected.ok -> Failed
    [] selected.ok /\ target = "constructor" -> NewObject(class, m, arguments, missing)
    [] selected.ok /\ target = "static" -> CallOnClass(class, m, arguments, missing)
    [] selected.ok /\ target = "bound" ->
         CallOnObject(class, holder, m, receiver, arguments, missing)

\* call, new_object, of a class, an object, a group and a bound group
CallByName(class, holder, target, name, receiver, arguments, missing) ==
  CallSelected(SelectByArguments(class, target, name, arguments, missing),
               class, holder, target, receiver, arguments, missing)
\* call_with, new_object_with
CallByTypes(class, holder, target, name, types, receiver, arguments, missing) ==
  CallSelected(SelectByTypes(class, target, name, types),
               class, holder, target, receiver, arguments, missing)

\* cast of an object, or of a callback-local view, to a class
Cast(given, holder) == IF Instance(given, holder) THEN Parsed(given.rust.value) ELSE Failed

\* bind_declared_return: an object is bound again to its declared class
BindDeclaredReturn(given, t, missing) ==
  IF t.dims = 0 /\ t.base = "object" THEN Returned(given, t, missing) ELSE Parsed(given.rust.value)
\* JavaMethod::call and JavaField::get, of what JNI returned
Taken(wanted, given, t, missing) ==
  IF ~Returned(given, t, missing).ok \/ ~BindDeclaredReturn(given, t, missing).ok THEN Failed
  ELSE Result(wanted, given.rust.value, t)

\* JavaField::get, JavaBoundFieldHandle::get
FieldGet(class, holder, f, on, receiver) ==
  CASE (on = "class") # (f.kind = "static") -> Failed
    [] on = "class" /\ f.kind = "static" -> RawGetStaticField(class, f.name, Descriptor(f.type))
    [] on = "object" /\ f.kind = "instance" ->
         IF ReceiverFits(receiver, holder) THEN RawGetField(class, f.name, Descriptor(f.type)) ELSE Failed

\* validate_reference_field_value
FieldValue(given, t, missing) ==
  LET value == FieldArgument(given.rust, t) IN
  IF value.ok /\ Assignable(given, t, missing) THEN value ELSE Failed

\* JavaField::set: JavaFieldReceiver for (), and for an object
SetOnClass(class, f, given, missing) ==
  LET value == FieldValue(given, f.type, missing) IN
  IF f.kind # "static" \/ ~value.ok THEN Failed
  ELSE RawSetStaticField(class, f.name, Descriptor(f.type), value.value)
SetOnObject(class, holder, f, receiver, given, missing) ==
  LET value == FieldValue(given, f.type, missing) IN
  IF f.kind # "instance" \/ ~ReceiverFits(receiver, holder) \/ ~value.ok THEN Failed
  ELSE RawSetField(class, f.name, Descriptor(f.type), value.value)

\* JavaBoundFieldHandle: a static field goes by the class
BoundGet(class, holder, f, receiver) ==
  FieldGet(class, holder, f, IF f.kind = "static" THEN "class" ELSE "object", receiver)
BoundSet(class, holder, f, receiver, given, missing) ==
  IF f.kind = "static" THEN SetOnClass(class, f, given, missing)
  ELSE SetOnObject(class, holder, f, receiver, given, missing)

-----------------------------------------------------------------------------
(* Arrays, seen by a wrapper as an array of the element type declared.     *)
\* mutant: only the declared element type is checked
SetElementDeclared(array, element, index, given) ==
  IF ~IsReference(element) \/ index \notin DOMAIN array.elements THEN Failed
  ELSE IF IsObject(given) /\ ~Instance(given, element) THEN Failed
  ELSE Parsed([array EXCEPT !.elements[index] = given])

\* set_array_object
SetElement(array, element, index, given) ==
  IF IsReference(element) THEN SetElementAt(array, index, given) ELSE Failed

\* get_array_object
GetElement(array, element, index, missing) ==
  LET read == GetElementAt(array, index) IN
  IF ~IsReference(element) \/ element \in missing \/ ~read.ok THEN Failed
  ELSE IF IsObject(read.value) /\ ~Instance(read.value, element) THEN Failed
  ELSE read

\* new_object_array: nulls first, then element by element
NewObjectArray(element, elements) ==
  LET nulls == NewArray(ArrayOf(element), [i \in DOMAIN elements |-> Given(Rust("value", Object(Null)), FALSE)])
      put[i \in 0 .. Len(elements)] ==
        IF i = 0 THEN Parsed(nulls)
        ELSE AndThen(put[i - 1], LAMBDA array : SetElementAt(array, i, elements[i]))
  IN put[Len(elements)]

\* get_booleans, set_booleans, and of the other primitives
SetBooleans(array, element, values) ==
  IF element # Prim("boolean") THEN Failed
  ELSE SetRegion(array, 0, [i \in DOMAIN values |-> IF values[i] THEN 1 ELSE 0])
GetBooleans(array, element) ==
  LET read == GetRegion(array, 0, Len(array.elements)) IN
  IF element # Prim("boolean") THEN Failed
  ELSE Parsed([i \in DOMAIN read.value |-> read.value[i] = 1])
SetPrimitives(array, element, kind, values) ==
  IF element # Prim(kind) THEN Failed ELSE SetRegion(array, 0, values)
GetPrimitives(array, element, kind) ==
  IF element # Prim(kind) THEN Failed ELSE GetRegion(array, 0, Len(array.elements))

-----------------------------------------------------------------------------
\* The values of the parameter types, the references instances of them.
Fits(arguments, values, types) ==
  /\ Len(values) = Len(types)
  /\ \A i \in DOMAIN types :
       /\ Read(ToJvalue(values[i]), types[i]) = Parsed(values[i]) /\ Holds(values[i], types[i])
       /\ IsReference(types[i]) /\ IsObject(arguments[i]) => Instance(arguments[i], types[i])

Typical(t) == Given(Rust("value", IF IsReference(t) THEN Object(t) ELSE Value(t.base, 0)), FALSE)

(* Whatever is called with whatever arguments: a call that reaches JNI     *)
(* satisfies its preconditions.  The id is that of the one member that was *)
(* selected and is used with the function of its kind and type, the        *)
(* receiver is an instance of the class that the id was looked up in, and  *)
(* the values are of the parameter types.  No check after the selection    *)
(* refuses what was selected, and its result is taken as what it is.  The  *)
(* same holds when the types of the one selected are named, and an object  *)
(* can be cast to the class exactly if it can be a receiver.               *)
UseIsWellFormed(use, m, holder, target, receiver, arguments, missing) ==
  /\ use.member = m
  /\ <<m.kind, use.operation>> \in
       {<<"constructor", "new">>, <<"instance", "call">>, <<"static", "call static">>}
  /\ use.lane = IF m.kind = "constructor" THEN "object" ELSE Lane(m.type)
  /\ m.kind = "instance" => ReceiverFits(receiver, holder)
  /\ m.kind = "constructor" <=> target = "constructor"
  /\ Fits(arguments, use.values, m.arguments)
  /\ m.type \in missing \/ Taken(Natural(m.type), Typical(m.type), m.type, missing).ok
CallOfSelected(selected, call, class, holder, target, name, receiver, arguments, missing) ==
  LET m == selected.value IN
  /\ call.ok => /\ selected.ok /\ m \in Range(MembersFor(class, target))
                /\ UseIsWellFormed(call.value, m, holder, target, receiver, arguments, missing)
  /\ selected.ok =>
       /\ call.ok <=> /\ ArgumentsFor(arguments, m.arguments, missing).ok
                      /\ m.kind = "instance" => ReceiverFits(receiver, holder)
       /\ SelectByTypes(class, target, name, m.arguments).ok =>
            CallByTypes(class, holder, target, name, m.arguments, receiver, arguments, missing) = call
  /\ IsObject(receiver) => (Cast(receiver, holder).ok <=> ReceiverFits(receiver, holder))
CallIsWellFormed(class, holder, target, name, receiver, arguments, missing) ==
  CallOfSelected(SelectByArguments(class, target, name, arguments, missing),
                 CallByName(class, holder, target, name, receiver, arguments, missing),
                 class, holder, target, name, receiver, arguments, missing)

(* As well for the access of a field; what was set can be read, and an     *)
(* object reaches every field that it sees.                                *)
FieldIsWellFormed(class, holder, name, on, receiver, given, missing) ==
  LET field == SelectFieldByName(class, name)
      f == field.value
      get == FieldGet(class, holder, f, on, receiver)
      set == IF on = "class" THEN SetOnClass(class, f, given, missing)
             ELSE SetOnObject(class, holder, f, receiver, given, missing)
      bound == BoundSet(class, holder, f, receiver, given, missing)
      back == [given EXCEPT !.rust = Rust("value", set.value.values[1])]
  IN /\ field.ok /\ get.ok =>
          /\ get.value.member = f /\ get.value.lane = Lane(f.type)
          /\ get.value.operation = IF f.kind = "static" THEN "get static" ELSE "get"
     /\ field.ok /\ set.ok =>
          /\ get.ok /\ bound = set
          /\ set.value.member = f /\ set.value.lane = Lane(f.type)
          /\ set.value.operation = IF f.kind = "static" THEN "set static" ELSE "set"
          /\ f.kind = "static" <=> on = "class"
          /\ on = "object" => ReceiverFits(receiver, holder)
          /\ Fits(<<given>>, set.value.values, <<f.type>>)
          /\ f.type \in missing \/ Taken(Natural(f.type), back, f.type, missing) = Parsed(set.value.values[1])
     /\ field.ok /\ ReceiverFits(receiver, holder) =>
          /\ BoundGet(class, holder, f, receiver).ok
          /\ bound.ok <=> FieldValue(given, f.type, missing).ok

(* The rule of the docs for calls by name, which is smaller than Java's.   *)
(* For one argument, a type is better than another: for a Rust string      *)
(* String before CharSequence before Object; for an object its own class   *)
(* before every other type and Object after every other; for a primitive   *)
(* value its own type before those it is coerced to.  Nothing else is: all *)
(* superclasses between an object's class and Object tie, all array types  *)
(* that take an array, and all reference types for null.                   *)
Better(given, t, u) ==
  /\ t # u
  /\ \/ given.rust.shape = "string" /\ Subtype(t, u)
     \/ /\ given.rust.shape # "string" /\ IsObject(given)
        /\ given.rust.value.class = t \/ u = JavaLangObject
     \/ given.rust.value.kind = t.base /\ ~IsReference(t)
Tied(m, n, arguments) ==
  \A i \in DOMAIN arguments : /\ ~Better(arguments[i], m.arguments[i], n.arguments[i])
                              /\ ~Better(arguments[i], n.arguments[i], m.arguments[i])
Dominates(m, n, arguments) ==
  /\ \A i \in DOMAIN arguments : ~Better(arguments[i], n.arguments[i], m.arguments[i])
  /\ \E i \in DOMAIN arguments : Better(arguments[i], m.arguments[i], n.arguments[i])

(* A call by name finds an overload exactly if there is one that accepts   *)
(* the arguments, and the one selected accepts them.  No other that does   *)
(* is better for one argument and not worse for any, and of those that tie *)
(* with it in every argument it is the first in the order of the metadata. *)
(* The types of the one selected name it as well.                          *)
Accepts(m, arguments) == ArgumentsFor(arguments, m.arguments, {}).ok
DispatchIsRight(class, target, name, arguments) ==
  LET selected == SelectByArguments(class, target, name, arguments, {})
      candidates == SelectSeq(MembersFor(class, target), LAMBDA m : TargetAccepts(target, name, m))
      accepting == {i \in DOMAIN candidates : Accepts(candidates[i], arguments)}
  IN (\A i \in DOMAIN arguments : ~arguments[i].foreign) =>
       /\ selected.ok <=> accepting # {}
       /\ selected.ok =>
            /\ SelectByTypes(class, target, name, selected.value.arguments) = selected
            /\ \E i \in accepting :
                 /\ candidates[i] = selected.value
                 /\ \A j \in accepting :
                      /\ ~Dominates(candidates[j], candidates[i], arguments)
                      /\ Tied(candidates[j], candidates[i], arguments) => i <= j

(* An array never holds, and a wrapper never yields, an element that is no *)
(* instance of its element type, however the wrapper was declared; what    *)
(* was stored is what is read, and the other elements stay.                *)
ArraysKeepTheirType(array, declared, index, given) ==
  LET set == SetElement(array, Element(declared), index, given)
      read == GetElement(set.value, Element(declared), index, {})
  IN Subtype(array.class, declared) /\ set.ok =>
       /\ IsObject(given) => Instance(given, Element(array.class))
       /\ read = Parsed(given)
       /\ \A j \in DOMAIN array.elements \ {index} : set.value.elements[j] = array.elements[j]

(* An array is created with all of the elements that are given, or not at  *)
(* all; an element that is no instance of the class keeps it from being.   *)
CreatedWithElements(element, elements) ==
  LET created == NewObjectArray(element, elements)
      fits == \A i \in DOMAIN elements : IsObject(elements[i]) => Instance(elements[i], element)
  IN /\ created.ok <=> fits
     /\ created.ok => \A i \in DOMAIN elements :
          GetElement(created.value, element, i, {}) = Parsed(elements[i])

(* A region is written where it starts, never past the end, the rest stays *)
(* and what was written is read; booleans likewise.                        *)
RegionsAreKept(array, start, values) ==
  LET set == SetRegion(array, start, values)
      within == start + Len(values) <= Len(array.elements)
      size == Len(array.elements)
  IN /\ set.ok <=> within
     /\ set.ok => /\ Len(set.value.elements) = size
                  /\ GetRegion(set.value, start, Len(values)) = Parsed(values)
                  /\ \A i \in (1 .. size) \ (start + 1 .. start + Len(values)) :
                       set.value.elements[i] = array.elements[i]
     /\ NewPrimitiveArray(Element(array.class), values) = Parsed(NewArray(array.class, values))
     /\ start = 0 =>
          /\ SetPrimitives(array, Element(array.class), Element(array.class).base, values) = set
          /\ within => GetPrimitives(set.value, Element(array.class), Element(array.class).base)
                         = Parsed(set.value.elements)
BooleansAreKept(array, values) ==
  LET set == SetBooleans(array, Prim("boolean"), values)
      read == GetBooleans(set.value, Prim("boolean"))
      before == GetBooleans(array, Prim("boolean"))
  IN /\ set.ok <=> Len(values) <= Len(array.elements)
     /\ set.ok => read = Parsed([i \in DOMAIN before.value |->
                                  IF i <= Len(values) THEN values[i] ELSE before.value[i]])
=============================================================================
