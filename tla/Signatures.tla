------------------------------ MODULE Signatures ------------------------------
(***************************************************************************)
(* The texts of the bridge: type and method descriptors (signature.rs),    *)
(* class names (java/lookup.rs, metadata/reflection.rs), and the queries   *)
(* of enumerate_methods (method_query.rs).                                 *)
(*                                                                         *)
(* A text is a sequence of tokens: a character that the code looks at, or  *)
(* a name that it copies.  A name is a sequence of its own, of segments    *)
(* and separators.                                                         *)
(***************************************************************************)
EXTENDS JavaTypes, Sequences, SequencesExt

ParsedTo(v, at) == [ok |-> TRUE, value |-> v, at |-> at]
Has(text, c) == \E i \in DOMAIN text : text[i] = c
Replaced(text, old, new) == [i \in DOMAIN text |-> IF text[i] = old THEN new ELSE text[i]]

-----------------------------------------------------------------------------
(* Descriptors.                                                            *)
Descriptor(t) ==
  [i \in 1 .. t.dims |-> "["] \o
  (IF t.base = "object" THEN <<"L">> \o t.name \o <<";">> ELSE <<Letters[t.base]>>)

MethodDescriptor(s) ==
  <<"(">> \o FlattenSeq([i \in DOMAIN s.arguments |-> Descriptor(s.arguments[i])])
  \o <<")">> \o Descriptor(s.returns)

\* Parser::parse_object: up to the first semicolon, whatever is in between
ParseObject(d, i) ==
  LET ends == {j \in i .. Len(d) : d[j] = ";"}
      end == CHOOSE j \in ends : \A k \in ends : j <= k
  IN IF ends = {} \/ (ends # {} /\ end = i) THEN Failed
     ELSE ParsedTo(ObjectType(SubSeq(d, i, end - 1)), end + 1)

\* the first letter after the brackets, of parse_type
ParseElement(d, i, allowVoid) ==
  IF i > Len(d) THEN Failed
  ELSE IF d[i] = "L" THEN ParseObject(d, i + 1)
  ELSE IF d[i] \in LetterSet /\ (d[i] = "V" => allowVoid) THEN ParsedTo(Prim(WordOf(d[i])), i + 1)
  ELSE Failed
AfterBrackets(d, i) ==
  CHOOSE j \in i .. Len(d) + 1 :
    /\ \A k \in i .. j - 1 : d[k] = "["
    /\ j <= Len(d) => d[j] # "["
ArrayOfParsed(element, n) ==
  IF element.ok THEN ParsedTo([element.value EXCEPT !.dims = n], element.at) ELSE Failed

\* Parser::parse_type, which calls itself for each bracket
ParseType(d, i, allowVoid) ==
  LET j == AfterBrackets(d, i) IN ArrayOfParsed(ParseElement(d, j, allowVoid /\ j = i), j - i)

\* JavaType::parse
Whole(d, p) == IF p.ok /\ p.at = Len(d) + 1 THEN Parsed(p.value) ELSE Failed
Parse(d) == Whole(d, ParseType(d, 1, FALSE))

\* MethodSignature::parse: a turn of its loop, which ends at the parenthesis, and
\* has used up the text after as many turns as there are characters
NextArgument(d, p) ==
  IF ~p.ok THEN Failed
  ELSE IF p.at > Len(d) THEN Failed
  ELSE IF d[p.at] = ")" THEN p
  ELSE LET t == ParseType(d, p.at, FALSE) IN
       IF t.ok THEN ParsedTo(Append(p.value, t.value), t.at) ELSE Failed
ParseArguments(d) ==
  LET turns[n \in Nat] == IF n = 0 THEN ParsedTo(<<>>, 2) ELSE NextArgument(d, turns[n - 1])
  IN turns[Len(d)]
ParseMethod(d) ==
  LET arguments == IF d # <<>> /\ d[1] = "(" THEN ParseArguments(d) ELSE Failed
      returns == IF arguments.ok THEN ParseType(d, arguments.at + 1, TRUE) ELSE Failed
      whole == Whole(d, returns)
  IN IF ~arguments.ok \/ ~whole.ok THEN Failed
     ELSE Parsed([arguments |-> arguments.value, returns |-> whole.value])

-----------------------------------------------------------------------------
(* Source-style names.                                                     *)
\* the brackets at the end; a name is trimmed
Brackets(text) ==
  CHOOSE n \in 0 .. Len(text) :
    /\ \A i \in Len(text) - n + 1 .. Len(text) : text[i] = "[]"
    /\ n = Len(text) \/ text[Len(text) - n] # "[]"

\* from_pretty_name
FromPrettyName(text) ==
  LET dims == Brackets(text)
      element == SubSeq(text, 1, Len(text) - dims)
      word == IF Len(element) = 1 THEN element[1] ELSE "name"
  IN CASE element = <<>> -> Failed
       [] word = "void" -> IF dims = 0 THEN Parsed(Void) ELSE Failed
       [] word \in Prims -> Parsed([Prim(word) EXCEPT !.dims = dims])
       [] OTHER -> Parsed([ObjectType(Replaced(element, ".", "/")) EXCEPT !.dims = dims])

\* MethodSignature::from_pretty_types
FromPrettyTypes(returns, arguments) ==
  LET types == [i \in DOMAIN arguments |-> FromPrettyName(arguments[i])]
      return == FromPrettyName(returns)
  IN IF return.ok /\ \A i \in DOMAIN types : types[i].ok
     THEN Parsed([arguments |-> [i \in DOMAIN types |-> types[i].value], returns |-> return.value])
     ELSE Failed

RejectVoid(p) == IF p.ok /\ p.value = Void THEN Failed ELSE p
LooksLikeDescriptor(text) == text # <<>> /\ text[1] \in LetterSet \cup {"L", "["}

\* JavaType::from_name, which tries the descriptor first
FromName(text) ==
  LET d == Parse(text) IN
  IF d.ok THEN Parsed([d.value EXCEPT !.name = Replaced(@, ".", "/")])
  ELSE IF LooksLikeDescriptor(text) THEN Failed
  ELSE RejectVoid(FromPrettyName(text))

-----------------------------------------------------------------------------
(* Names of classes.                                                       *)
\* class_name_to_descriptor, of Class.getName
ClassNameToDescriptor(name) ==
  IF Len(name) = 1 /\ name[1] \in Words THEN <<Letters[name[1]]>>
  ELSE IF name[1] = "[" THEN Replaced(name, ".", "/")
  ELSE <<"L">> \o Replaced(name, ".", "/") \o <<";">>

Stripped(text) ==
  IF Len(text) > 1 /\ text[1] = "L" /\ text[Len(text)] = ";"
  THEN SubSeq(text, 2, Len(text) - 1) ELSE text
ClassNameFromDescriptor(text) == Replaced(Stripped(text), "/", ".")

\* normalize_array_descriptor_for_loader: separators inside of an object type
InObject(text, i) ==
  \E j \in 1 .. i - 1 : text[j] = "L" /\ \A k \in j + 1 .. i - 1 : text[k] # ";"
ArrayForLoader(text) ==
  [i \in DOMAIN text |-> IF text[i] = "/" /\ InObject(text, i) THEN "." ELSE text[i]]

\* normalize_class_lookup_name
LookupName(text) ==
  LET array == text # <<>> /\ text[1] = "["
      stripped == IF array THEN text ELSE Stripped(text)
  IN [find |-> Replaced(stripped, ".", "/"), array |-> array,
      loader |-> IF array THEN ArrayForLoader(text) ELSE Replaced(stripped, "/", ".")]

-----------------------------------------------------------------------------
(* Method queries: class!method/modifiers.                                 *)
Modifiers == {"i", "s", "u"}
Before(text, c) == CHOOSE i \in 1 .. Len(text) : text[i] = c /\ \A j \in 1 .. i - 1 : text[j] # c
LastOf(text, c) ==
  CHOOSE i \in 1 .. Len(text) : text[i] = c /\ \A j \in i + 1 .. Len(text) : text[j] # c
From(text, i) == SubSeq(text, i, Len(text))

ParseMethodQuery(q) ==
  LET bang == Before(q, "!")
      rest == From(q, bang + 1)
      slash == LastOf(rest, "/")
      modified == Has(rest, "/") /\ Range(From(rest, slash + 1)) \subseteq Modifiers
      method == IF modified THEN SubSeq(rest, 1, slash - 1) ELSE rest
      modifiers == IF modified THEN From(rest, slash + 1) ELSE <<>>
  IN IF ~Has(q, "!") THEN Failed
     ELSE IF bang = 1 \/ method = <<>> THEN Failed
     ELSE Parsed([class |-> SubSeq(q, 1, bang - 1), method |-> method,
                  ignoreCase |-> Has(modifiers, "i"), signature |-> Has(modifiers, "s"),
                  skipSystem |-> Has(modifiers, "u")])

\* a turn of the loop of glob_matches, which goes back to the last star only
Cursor(p, v, star, starValue, lost) ==
  [p |-> p, v |-> v, star |-> star, starValue |-> starValue, lost |-> lost]
Peek(pattern, p) == IF p <= Len(pattern) THEN pattern[p] ELSE "end"
GlobTurn(pattern, value, g) ==
  LET c == Peek(pattern, g.p) IN
  IF g.lost \/ g.v > Len(value) THEN g
  ELSE IF c \in {"?", value[g.v]} THEN Cursor(g.p + 1, g.v + 1, g.star, g.starValue, FALSE)
  ELSE IF c = "*" THEN Cursor(g.p + 1, g.v, g.p, g.v, FALSE)
  ELSE IF g.star > 0 THEN Cursor(g.star + 1, g.starValue + 1, g.star, g.starValue + 1, FALSE)
  ELSE [g EXCEPT !.lost = TRUE]

\* the loop has ended after so many turns, and the rest may only be stars
GlobTurns(pattern, value) == (Len(value) + 2) * (Len(pattern) + Len(value) + 2)
AllStars(pattern, p) == \A i \in p .. Len(pattern) : pattern[i] = "*"
\* mutant: a star that fails is not tried again further on
GlobOnce(pattern, value) ==
  LET turns[n \in Nat] == IF n = 0 THEN Cursor(1, 1, 0, 0, FALSE)
                          ELSE GlobTurn(pattern, value, [turns[n - 1] EXCEPT !.star = 0])
      end == turns[GlobTurns(pattern, value)]
  IN ~end.lost /\ AllStars(pattern, end.p)
\* glob_matches
GlobMatches(pattern, value) ==
  LET turns[n \in Nat] == IF n = 0 THEN Cursor(1, 1, 0, 0, FALSE)
                          ELSE GlobTurn(pattern, value, turns[n - 1])
      end == turns[GlobTurns(pattern, value)]
  IN ~end.lost /\ AllStars(pattern, end.p)

-----------------------------------------------------------------------------
(* What a text means: the type it is the descriptor of, a name of a class  *)
(* being any text without a semicolon.                                     *)
Suffix(d, n) == SubSeq(d, n + 1, Len(d))
DescribesType(d, t) ==
  /\ t.dims <= Len(d)
  /\ \A i \in 1 .. t.dims : d[i] = "["
  /\ IF t.base = "object" THEN t.name # <<>> /\ ~Has(t.name, ";") ELSE t.base # "void"
  /\ Suffix(d, t.dims) = Descriptor([t EXCEPT !.dims = 0])

Subtexts(d) == {SubSeq(d, i, j) : i, j \in 1 .. Len(d)} \ {<<>>}
TypesIn(d) ==
  {[base |-> b, name |-> <<>>, dims |-> n] : b \in Words, n \in 0 .. Len(d)} \cup
  {[base |-> "object", name |-> name, dims |-> n] : name \in Subtexts(d), n \in 0 .. Len(d)}

(* The parser accepts a text exactly if it is the descriptor of a type,    *)
(* and returns that type, the only one.                                    *)
ParsesDescriptors(d) ==
  LET types == {t \in TypesIn(d) : DescribesType(d, t)} IN
  IF Parse(d).ok THEN types = {Parse(d).value} ELSE types = {}

PrettyName(t) ==
  (IF t.base = "object" THEN Replaced(t.name, "/", ".") ELSE <<t.base>>)
  \o [i \in 1 .. t.dims |-> "[]"]

(* A method descriptor that is accepted is printed again as it was, and    *)
(* the source-style names of its types give the same signature.            *)
PrintsMethods(d) ==
  LET s == ParseMethod(d).value
      types == s.arguments \o <<s.returns>>
  IN ParseMethod(d).ok =>
       /\ MethodDescriptor(s) = d
       /\ (\A i \in DOMAIN types : ~Has(types[i].name, "[")) =>
            FromPrettyTypes(PrettyName(s.returns), [i \in DOMAIN s.arguments |-> PrettyName(s.arguments[i])])
              = Parsed(s)

(* However a class is written, as a descriptor, with dots or with slashes, *)
(* the names handed to FindClass, to a loader and to the user are those of *)
(* one type; only a source-style name that begins like a descriptor is not *)
(* understood.                                                             *)
NamesAgree(d) ==
  LET t == Parse(d).value
      pretty == PrettyName(t)
      lookup == LookupName(d)
      object == t.base = "object" /\ t.dims = 0
  IN Parse(d).ok /\ ~Has(t.name, "[") =>
       /\ FromPrettyName(pretty) = Parsed(t)
       /\ FromName(d) = Parsed(t)
       /\ LooksLikeDescriptor(pretty) \/ FromName(pretty) = Parsed(t)
       /\ object => ClassNameFromDescriptor(d) = pretty
       /\ object => LookupName(pretty) = lookup \/ LooksLikeDescriptor(pretty)
       /\ IsReference(t) => /\ ClassNameToDescriptor(lookup.loader) = d
                            /\ lookup.find = IF lookup.array THEN d ELSE t.name

(* A query means the parts it is put together from, with or without        *)
(* modifiers, as long as the last part of the method's pattern does not    *)
(* look like modifiers itself.                                             *)
Query(class, method, suffix) == class \o <<"!">> \o method \o suffix
QueriesAreRead(class, method, modifiers) ==
  LET looksModified == Has(method, "/")
                       /\ Range(From(method, LastOf(method, "/") + 1)) \subseteq Modifiers
      flag(m) == Has(modifiers, m)
      meaning == [class |-> class, method |-> method, ignoreCase |-> flag("i"),
                  signature |-> flag("s"), skipSystem |-> flag("u")]
      expected == IF class = <<>> \/ method = <<>> THEN Failed ELSE Parsed(meaning)
  IN ~Has(class, "!") =>
       /\ ParseMethodQuery(Query(class, method, <<"/">> \o modifiers)) = expected
       /\ modifiers = <<>> /\ ~looksModified => ParseMethodQuery(Query(class, method, <<>>)) = expected

(* "*" stands for any text, "?" for any character: the characters of the   *)
(* pattern stand for parts of the value that make it up.                   *)
Stands(pattern, value) ==
  \E end \in [0 .. Len(pattern) -> 0 .. Len(value)] :
    /\ end[0] = 0 /\ end[Len(pattern)] = Len(value)
    /\ \A i \in 1 .. Len(pattern) :
         \/ pattern[i] = "*" /\ end[i - 1] <= end[i]
         \/ /\ pattern[i] # "*" /\ end[i] = end[i - 1] + 1
            /\ pattern[i] \in {"?", value[end[i]]}
=============================================================================
