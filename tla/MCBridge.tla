------------------------------- MODULE MCBridge -------------------------------
(***************************************************************************)
(* The parts of the bridge that share no state, in one run for TLC: in     *)
(* each behaviour one of them moves, with the others at rest.  What is a   *)
(* function in the code is checked on sampled inputs: a step draws an      *)
(* input, the invariant about the part it is drawn for is evaluated on it, *)
(* and the next step puts it back.                                         *)
(***************************************************************************)
EXTENDS ReplacementDispatch, ClassLookup, JniReferences, Enumeration, RunnableTransition,
        HookTargets, TLC

VARIABLES
  of,    \* the part that moves, or the one that the input is for
  input

bridgeVars == <<vars, lookupVars, scopeVars, enumVars, hookVars, tempVars, of, input>>

\* the two loaders of an app and of its plugin find classes of their own
FoundHere == [l \in Loaders |-> [n \in ClassNames |-> l]]
\* classes a and b of the app, p of a plugin, and s of the boot loader
LoaderOfHere == [a |-> "app", b |-> "app", p |-> "plugin", s |-> "none"]

-----------------------------------------------------------------------------
(* Inputs.                                                                 *)
Tokens == {"I", "V", "[", "L", ";", "a", "/", "(", ")"}
TextInputs == BoundedSeq(Tokens, 4)
QueryInputs ==
  [class : BoundedSeq({"a", "*", "!"}, 2), method : BoundedSeq({"a", "/", "i"}, 3),
   modifiers : BoundedSeq(Modifiers, 2)]
GlobInputs == BoundedSeq({"*", "?", "a", "b"}, 3)
GlobValues == BoundedSeq({"a", "b"}, 4)

Numbers ==
  [boolean |-> {0, 1}, byte |-> {-128, 127}, char |-> {0, 65535}, short |-> {-32768, 32767},
   int |-> {-32769, -32768, -129, -128, -1, 0, 127, 128, 32767, 32768, 65535, 65536},
   long |-> {0}, float |-> {Half, ThirdF, Infinity, NaN},
   double |-> {Half, Third, Huge, Infinity, NaN}]
ReferenceTypes ==
  {StringType, CharSequenceType, JavaLangObject, App,
   ArrayOf(App), ArrayOf(JavaLangObject), ArrayOf(Prim("int"))}
ObjectClasses == (ReferenceTypes \ {CharSequenceType}) \cup {Null}
DeclaredTypes == {Prim(w) : w \in Prims} \cup ReferenceTypes
SomeValues == (UNION {{Value(k, v) : v \in Numbers[k]} : k \in Prims}) \cup
              {Object(c) : c \in ObjectClasses}
RustValues ==
  {Rust(shape, v) : shape \in {"value", "token"}, v \in SomeValues \cup {VoidValue}} \cup
  {Rust(shape, Object(c)) : shape \in {"view", "wrapper"}, c \in ObjectClasses}
ValueInputs ==
  [given : RustValues \cup {RustString, Rust("optional", Object(Null))}, type : DeclaredTypes \cup {Void}]

\* what a declared type may hold
TakenInputs ==
  {i \in [value : SomeValues, type : DeclaredTypes] :
     /\ Matches(i.value, i.type)
     /\ IsReference(i.type) => i.value.class = Null \/ Subtype(i.value.class, i.type)}

\* parameter lists that repeat one or two types, up to a frame's worth of them
ParameterTypes == {Prim("int"), Prim("long"), Prim("float"), Prim("double"), App}
ParameterInputs ==
  {[i \in 1 .. n |-> IF i % 2 = 1 THEN odd ELSE even] :
     n \in 1 .. 20, odd \in ParameterTypes, even \in ParameterTypes}
Passed(types) ==
  [i \in DOMAIN types |-> IF IsReference(types[i]) THEN Object(IF i % 3 = 0 THEN Null ELSE App)
                          ELSE Value(KindOf(types[i]), IF types[i] = Prim("int") THEN i ELSE 1)]

ObjectOf(class, foreign) == Given(Rust("value", Object(class)), foreign)
IntArgument(n) == Given(Rust("value", Value("int", n)), FALSE)
Strings == {Given(RustString, FALSE), ObjectOf(Null, FALSE), ObjectOf(StringType, FALSE)}
Arguments ==
  {<<>>} \cup {<<a, b>> : a \in Strings, b \in Strings} \cup
  {<<a>> : a \in Strings \cup {ObjectOf(App, FALSE), ObjectOf(App, TRUE),
                               ObjectOf(ArrayOf(StringType), FALSE), IntArgument(5), IntArgument(500),
                               Given(Rust("value", Value("double", Third)), FALSE)}}
Receivers == {ObjectOf(Null, FALSE), ObjectOf(App, FALSE), ObjectOf(App, TRUE),
              ObjectOf(StringType, FALSE)}
Missing == {{}, {App}, {StringType}}

OverloadTypes ==
  {<<>>, <<StringType, JavaLangObject>>, <<CharSequenceType, StringType>>} \cup
  {<<t>> : t \in {Prim("int"), Prim("byte"), Prim("double"), StringType, JavaLangObject, App,
                  ArrayOf(JavaLangObject)}}
\* an overload returns what its last parameter takes
Overloads(kinds) ==
  {Member("f", k, types, IF types = <<>> THEN Void ELSE Last(types)) : k \in kinds, types \in OverloadTypes}
Constructors == {Member("<init>", "constructor", <<t>>, Void) : t \in {App, JavaLangObject}}
\* a class never declares two members of one name, kind and type
Declarations ==
  {<<>>} \cup {<<m, n>> : m \in Overloads({"static"}), n \in Overloads({"instance"}) \cup Constructors}
         \cup {d \in {<<m, n>> : m \in Overloads({"instance"}), n \in Overloads({"instance"})} :
                 d[1] # d[2]}
Declared == {d \in Declarations : \A i, j \in DOMAIN d :
               i # j => d[i].kind = "constructor" \/ d[j].kind = "constructor"
                        \/ d[i].arguments # d[j].arguments}
Inherited == {<<>>, <<Member("f", "instance", <<App>>, Void)>>}
\* three overloads, the last one inherited, of which several may tie
TieTypes ==
  {<<Parent, Ancestor>>, <<Ancestor, Ancestor>>} \cup
  {<<t>> : t \in {App, Parent, Ancestor, JavaLangObject, Prim("byte"), Prim("long"),
                  ArrayOf(CharSequenceType), ArrayOf(JavaLangObject)}}
Tying == {types \in [1 .. 3 -> TieTypes] : IsInjective(types)}
TieClass(types) ==
  LET f(i) == Member("f", "instance", types[i], Void) IN <<<<f(1), f(2)>>, <<f(3)>>>>
TieArguments ==
  {<<ObjectOf(App, FALSE), ObjectOf(App, FALSE)>>} \cup
  {<<a>> : a \in {ObjectOf(App, FALSE), ObjectOf(ArrayOf(StringType), FALSE),
                  ObjectOf(Null, FALSE), IntArgument(5)}}
CallInputs ==
  [class : {<<d, i>> : d \in Declared, i \in Inherited}, arguments : Arguments,
   target : {"static", "bound", "constructor"}] \cup
  [class : {TieClass(types) : types \in Tying}, arguments : TieArguments, target : {"bound"}]

Fields == {Member("f", k, <<>>, t) : k \in {"static", "instance"},
             t \in {Prim("int"), Prim("byte"), StringType, App, ArrayOf(JavaLangObject)}}
FieldInputs ==
  [class : {<<d, i>> : d \in {<<>>} \cup {<<f>> : f \in Fields}, i \in {<<f>> : f \in Fields}},
   on : {"class", "object"}, receiver : Receivers,
   given : {a[1] : a \in {b \in Arguments : Len(b) = 1}}, missing : Missing]

Arrays == {NewArray(ArrayOf(t), <<ObjectOf(Null, FALSE), ObjectOf(Null, FALSE)>>) :
             t \in {App, JavaLangObject, StringType, ArrayOf(App)}}
ArrayInputs ==
  [array : Arrays, declared : {ArrayOf(t) : t \in ReferenceTypes}, index : 1 .. 3,
   given : {ObjectOf(c, f) : c \in ObjectClasses, f \in BOOLEAN}]

RegionInputs ==
  [array : {NewArray(ArrayOf(Prim("boolean")), a) : a \in BoundedSeq({0, 1}, 3)},
   start : 0 .. 4, values : BoundedSeq({0, 1}, 3)]

\* code of five instructions, with the next function behind it
CodeInsns ==
  {Branch(t) : t \in {1, 4}} \cup {BranchIf(t) : t \in {1, 3, 4}} \cup
  {Ret, Clear("x"), LoadSlot("x"), Blr("x"), Other}
CodeInputs == [start : CodeInsns \X CodeInsns, entry : {1, 3, 4}]
CodeEnds == {Branch(1), Branch(4), Ret, Jump}
RunInputs == [callback : {"ok", "error", "panics"}, reached : 0 .. 2]

Inputs(part) ==
  CASE part = "text" -> TextInputs
    [] part = "query" -> QueryInputs
    [] part = "glob" -> GlobInputs
    [] part = "value" -> ValueInputs
    [] part = "taken" -> TakenInputs
    [] part = "parameters" -> ParameterInputs
    [] part = "call" -> CallInputs
    [] part = "field" -> FieldInputs
    [] part = "array" -> ArrayInputs
    [] part = "region" -> RegionInputs
    [] part = "code" -> CodeInputs
    [] part = "run" -> RunInputs

Sampled == {"code", "run", "text", "query", "glob", "value", "taken", "parameters", "call", "field", "array", "region"}
Machines == {"dispatch", "hook", "lookup", "scopes", "enumeration", "temporaries"}

-----------------------------------------------------------------------------
BridgeInit ==
  /\ Init /\ LookupInit /\ ScopesInit /\ EnumInit /\ HookInit /\ TempInit
  /\ of \in Machines \cup {"inputs"}
  /\ input = <<>>

Draw ==
  /\ of = "inputs"
  /\ \E part \in Sampled : of' = part /\ input' \in Inputs(part)
  /\ UNCHANGED <<vars, lookupVars, scopeVars, enumVars, hookVars, tempVars>>

PutBack ==
  /\ of \in Sampled
  /\ of' = "inputs" /\ input' = <<>>
  /\ UNCHANGED <<vars, lookupVars, scopeVars, enumVars, hookVars, tempVars>>

BridgeNext ==
  \/ of = "dispatch" /\ Next /\ UNCHANGED <<lookupVars, scopeVars, enumVars, hookVars, tempVars, of, input>>
  \/ of = "lookup" /\ LookupNext /\ UNCHANGED <<vars, scopeVars, enumVars, hookVars, tempVars, of, input>>
  \/ of = "scopes" /\ ScopesNext /\ UNCHANGED <<vars, lookupVars, enumVars, hookVars, tempVars, of, input>>
  \/ of = "enumeration" /\ EnumNext
       /\ UNCHANGED <<vars, lookupVars, scopeVars, hookVars, tempVars, of, input>>
  \/ of = "hook" /\ HookNext /\ UNCHANGED <<vars, lookupVars, scopeVars, enumVars, tempVars, of, input>>
  \/ of = "temporaries" /\ TempNext
       /\ UNCHANGED <<vars, lookupVars, scopeVars, enumVars, hookVars, of, input>>
  \/ Draw \/ PutBack

BridgeSpec == BridgeInit /\ [][BridgeNext]_bridgeVars

Symmetry == Permutations(Threads) \cup Permutations(Lookers) \cup Permutations(Caches)

-----------------------------------------------------------------------------
(* What turns a thread runnable gives it back: the copied code takes the   *)
(* way of ART's own and calls back once, and an enumeration that begins    *)
(* with a handle scope ends without it: ThreadIsRestored,                  *)
(* CopyRunsAsOriginal and CallbackRunsOnce.                                *)
ThreadsComeBack ==
  /\ ThreadIsRestored
  /\ of = "code" =>
       \A third, fourth \in CodeInsns, last \in CodeEnds :
         LET code == input.start \o <<third, fourth, last>> IN
         \A next \in {4, 6} :
           Ends(code, next) => CopyRunsAsOriginal(code, input.entry, next)
  /\ of = "run" => CallbackRunsOnce(input.callback, input.reached)

(* A text that the parser of descriptors accepts means one type, which it  *)
(* is printed and named as, for methods as for types; a query means its    *)
(* parts, and a pattern in it matches exactly the names it stands for.     *)
TextsMeanOneType ==
  /\ of = "text" => ParsesDescriptors(input) /\ PrintsMethods(input) /\ NamesAgree(input)
  /\ of = "query" => QueriesAreRead(input.class, input.method, input.modifiers)
  /\ of = "glob" => \A v \in GlobValues : GlobMatches(input, v) <=> Stands(input, v)

(* A Rust value that Java accepts, or that is taken of Java, stays what it *)
(* is, for every declared type: ArgumentSurvives, ReturnSurvives and       *)
(* TakenAsDeclared.                                                        *)
ValuesSurvive ==
  /\ of = "value" => ArgumentSurvives(input.given, input.type) /\ ReturnSurvives(input.given, input.type)
  /\ of = "value" => ContainersAgree(<<input.given>>, <<input.type>>) /\ ContainersAgree(<<>>, <<input.type>>)
  /\ of = "taken" => TakenAsDeclared(input.value, input.type)

(* A callback gets its arguments from registers, stack and frame as Java   *)
(* passed them.                                                            *)
CallbacksGetTheirArguments == of = "parameters" => ArgumentsArrive(input, Passed(input))

(* Whatever is called or set with whatever, JNI's preconditions hold:      *)
(* CallIsWellFormed, OriginalIsWellFormed and FieldIsWellFormed.           *)
AccessesAreWellFormed ==
  /\ of = "call" =>
       \A r \in Receivers, missing \in Missing :
         CallIsWellFormed(input.class, App, input.target, "f", r, input.arguments, missing)
  /\ of = "call" /\ input.target = "bound" =>
       \A receiver \in {ObjectOf(Null, FALSE), ObjectOf(App, FALSE)}, from \in 1 .. 2 :
         LET hooked == SubSeq(input.class, from, 2) IN
         \A m \in Range(VisibleMethods(hooked)) :
           OriginalIsWellFormed(hooked, input.class, m, receiver, input.arguments)
  /\ of = "call" /\ input.target = "constructor" =>
       \A receiver \in Receivers : \A m \in Range(DeclaredMethods(input.class)) :
         m.kind = "constructor" =>
           OriginalIsWellFormed(input.class, input.class, m, receiver, input.arguments)
  /\ of = "field" =>
       FieldIsWellFormed(input.class, App, "f", input.on, input.receiver, input.given, input.missing)

(* A call by name runs the overload that the documented preferences and    *)
(* then the order of the metadata choose of those that accept it, and a    *)
(* hook replaces the overload that a call with the same types would run:   *)
(* DispatchIsRight and HooksFindTheirTarget.                               *)
CallsFindTheirOverload ==
  /\ of = "call" => DispatchIsRight(input.class, input.target, "f", input.arguments)
  /\ of = "call" /\ input.arguments = <<>> =>
       \A missing \in Missing : HooksFindTheirTarget(input.class, "f", missing)

(* Arrays hold and yield elements of their type only, and keep the rest.   *)
ElementsKeepTheirType ==
  /\ of = "array" => ArraysKeepTheirType(input.array, input.declared, input.index, input.given)
  /\ of = "array" => CreatedWithElements(Element(input.declared), <<input.given, ObjectOf(StringType, FALSE), input.given>>)
  /\ of = "region" => RegionsAreKept(input.array, input.start, input.values)
  /\ of = "region" => BooleansAreKept(input.array, [i \in DOMAIN input.values |-> input.values[i] = 1])

=============================================================================
