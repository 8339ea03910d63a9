-------------------------- MODULE Signatures_proofs ---------------------------
(*****************************************************************************)
(* Proofs about the texts of the bridge, for texts of any length: descriptors*)
(* of types and methods, the names of classes, method queries and patterns.  *)
(* A text is over any characters S; where a lemma needs it, IsPlain(S) leaves*)
(* out the dot and the tokens of source-style names, which descriptors lack. *)
(*****************************************************************************)
EXTENDS Signatures, FiniteSetTheorems, WellFoundedInduction, TLAPS

-----------------------------------------------------------------------------
(* Induction over the natural numbers, of a set.                           *)
\* a set of natural numbers has a least element
LEMMA LeastOf ==
  ASSUME NEW T \in SUBSET Nat, T # {}
  PROVE  \E n \in T : \A m \in T : n <= m
<1> DEFINE R == OpToRel(<, Nat)
<1>1. IsWellFoundedOn(R, Nat)
  BY NatLessThanWellFounded
<1>2. \A m, n \in Nat : <<m, n>> \in R <=> m < n
  BY DEF OpToRel
<1> HIDE DEF R
<1>3. \E n \in T : \A m \in T : <<m, n>> \notin R
  BY <1>1, WFMin
<1>4. PICK n \in T : \A m \in T : <<m, n>> \notin R
  BY <1>3
<1>5. \A m \in T : ~(m < n)
  BY <1>2, <1>4
<1> QED
  BY <1>5

\* what holds of 0 and goes from a number to the next holds of all
LEMMA Induction ==
  ASSUME NEW S \in SUBSET Nat, 0 \in S, \A n \in S : n + 1 \in S
  PROVE  S = Nat
<1> SUFFICES ASSUME Nat \ S # {} PROVE FALSE
  OBVIOUS
<1>1. PICK n \in Nat \ S : \A m \in Nat \ S : n <= m
  BY LeastOf
<1>2. n - 1 \in Nat /\ n - 1 \notin Nat \ S
  BY <1>1
<1>3. n \in S
  BY <1>2
<1> QED
  BY <1>1, <1>3

\* a recursion over the natural numbers, whose steps are functions, has a solution
Recurs(T, base, F) == base \in T /\ F \in [Nat -> [T -> T]]
Solution(f, T, base, F) ==
  f \in [Nat -> T] /\ f[0] = base /\ \A n \in Nat : f[n + 1] = F[n + 1][f[n]]
LEMMA Recursion ==
  ASSUME NEW T, NEW base, NEW F, Recurs(T, base, F)
  PROVE  \E f : Solution(f, T, base, F)
<1> SUFFICES \E f \in [Nat -> T] : f[0] = base /\ \A n \in Nat : f[n + 1] = F[n + 1][f[n]]
  BY DEF Solution
<1> USE DEF Recurs
<1> DEFINE
      Solves(g, n) == /\ g \in [0 .. n -> T] /\ g[0] = base
                      /\ \A i \in 0 .. n - 1 : g[i + 1] = F[i + 1][g[i]]
      S == {n \in Nat : \E g : Solves(g, n)}
<1>1. 0 \in S
  <2>1. Solves([i \in 0 .. 0 |-> base], 0)
    OBVIOUS
  <2> QED
    BY <2>1
<1>2. ASSUME NEW n \in S PROVE n + 1 \in S
  <2>1. PICK g : Solves(g, n)
    OBVIOUS
  <2> DEFINE h == [i \in 0 .. n + 1 |-> IF i = n + 1 THEN F[n + 1][g[n]] ELSE g[i]]
  <2>2. g[n] \in T /\ F[n + 1][g[n]] \in T
    BY <2>1
  <2>3. h \in [0 .. n + 1 -> T] /\ h[0] = base
    BY <2>1, <2>2
  <2>4. ASSUME NEW i \in 0 .. n PROVE h[i + 1] = F[i + 1][h[i]]
    <3>1. CASE i = n
      <4>1. h[i + 1] = F[n + 1][g[n]] /\ h[i] = g[n]
        BY <3>1
      <4> QED
        BY <3>1, <4>1
    <3>2. CASE i \in 0 .. n - 1
      BY <2>1, <3>2
    <3> QED
      BY <3>1, <3>2
  <2> HIDE DEF h
  <2>5. Solves(h, n + 1)
    <3>1. (n + 1) - 1 = n
      OBVIOUS
    <3> QED
      BY <2>3, <2>4, <3>1
  <2> HIDE DEF Solves
  <2> QED
    BY <2>5
<1>3. S = Nat
  <2>1. S \in SUBSET Nat
    OBVIOUS
  <2> HIDE DEF S
  <2> QED
    BY <1>1, <1>2, <2>1, Induction
<1>4. ASSUME NEW g, NEW h, NEW m \in Nat, NEW n \in Nat, m <= n, Solves(g, m), Solves(h, n)
      PROVE  g[m] = h[m]
  <2> DEFINE Same == {i \in Nat : i <= m => g[i] = h[i]}
  <2>1. 0 \in Same
    BY <1>4
  <2>2. ASSUME NEW i \in Same PROVE i + 1 \in Same
    <3> SUFFICES ASSUME i + 1 <= m PROVE g[i + 1] = h[i + 1]
      OBVIOUS
    <3>1. i \in 0 .. m - 1 /\ i \in 0 .. n - 1 /\ g[i] = h[i]
      BY <1>4
    <3> QED
      BY <1>4, <3>1
  <2>3. Same = Nat
    <3>1. Same \in SUBSET Nat
      OBVIOUS
    <3> HIDE DEF Same
    <3> QED
      BY <2>1, <2>2, <3>1, Induction
  <2> QED
    BY <2>3
<1> DEFINE The(n) == CHOOSE g : Solves(g, n)
           f == [n \in Nat |-> The(n)[n]]
<1>5. ASSUME NEW n \in Nat PROVE Solves(The(n), n)
  <2>1. \E g : Solves(g, n)
    BY <1>3
  <2> HIDE DEF Solves
  <2> QED
    BY <2>1
<1>6. ASSUME NEW n \in Nat
      PROVE  f[n] \in T /\ f[n + 1] = F[n + 1][f[n]]
  <2>1. Solves(The(n), n) /\ Solves(The(n + 1), n + 1)
    <3> HIDE DEF Solves, The
    <3> QED
      BY <1>5
  <2> HIDE DEF The
  <2>2. The(n)[n] = The(n + 1)[n]
    <3>1. n + 1 \in Nat /\ n <= n + 1
      OBVIOUS
    <3> HIDE DEF Solves
    <3> QED
      BY <1>4, <2>1, <3>1
  <2>3. n \in 0 .. (n + 1) - 1 /\ The(n + 1)[n + 1] = F[n + 1][The(n + 1)[n]]
    BY <2>1
  <2> QED
    BY <2>1, <2>2, <2>3
<1>7. f[0] = base
  <2>1. Solves(The(0), 0)
    BY <1>5
  <2> QED
    BY <2>1
<1> HIDE DEF The
<1>8. f \in [Nat -> T]
  BY <1>6
<1> HIDE DEF f
<1> QED
  BY <1>6, <1>7, <1>8

\* induction up to a bound
LEMMA InductionTo ==
  ASSUME NEW n \in Nat, NEW S \in SUBSET Nat, 0 \in S, \A i \in S : i < n => i + 1 \in S
  PROVE  0 .. n \subseteq S
<1> DEFINE R == {i \in Nat : i <= n => i \in S}
<1>1. 0 \in R /\ \A i \in R : i + 1 \in R
  OBVIOUS
<1>2. R = Nat
  <2>1. R \in SUBSET Nat
    OBVIOUS
  <2> HIDE DEF R
  <2> QED
    BY <1>1, <2>1, Induction
<1> QED
  BY <1>2

-----------------------------------------------------------------------------
(* Sequences.                                                               *)
\* the part of a sequence between two places
LEMMA PartIs ==
  ASSUME NEW V, NEW s \in Seq(V), NEW m \in Nat, NEW n \in Nat, m <= n, n <= Len(s)
  PROVE  /\ SubSeq(s, m + 1, n) \in Seq(V) /\ Len(SubSeq(s, m + 1, n)) = n - m
         /\ \A i \in 1 .. n - m : SubSeq(s, m + 1, n)[i] = s[m + i]
OBVIOUS

LEMMA JoinIs ==
  ASSUME NEW V, NEW s \in Seq(V), NEW t \in Seq(V)
  PROVE  /\ s \o t \in Seq(V) /\ Len(s \o t) = Len(s) + Len(t)
         /\ \A i \in 1 .. Len(s) : (s \o t)[i] = s[i]
         /\ \A i \in 1 .. Len(t) : (s \o t)[Len(s) + i] = t[i]
OBVIOUS

LEMMA SameSequence ==
  ASSUME NEW V, NEW s \in Seq(V), NEW t \in Seq(V), Len(s) = Len(t),
         \A i \in 1 .. Len(s) : s[i] = t[i]
  PROVE  s = t
OBVIOUS

LEMMA PrimsAre ==
  /\ Prims = {"boolean", "byte", "char", "short", "int", "long", "float", "double"}
  /\ Words = Prims \cup {"void"}
  /\ "object" \notin Words
BY DEF Prims, Words, Letters

LEMMA VoidIs == Void.base = "void" /\ Void.dims = 0 /\ ~IsReference(Void)
BY DEF Void, Prim, IsReference

-----------------------------------------------------------------------------
(* Texts.                                                                  *)
\* the solver does not read this character
Semicolon == ";"
LEMMA DescriptorDef ==
  \A t : Descriptor(t) = [i \in 1 .. t.dims |-> "["] \o
    (IF t.base = "object" THEN <<"L">> \o t.name \o <<Semicolon>> ELSE <<Letters[t.base]>>)
BY Zenon DEF Descriptor, Semicolon
LEMMA ParseObjectDef ==
  \A d, i : ParseObject(d, i) =
    LET ends == {j \in i .. Len(d) : d[j] = Semicolon}
        end == CHOOSE j \in ends : \A k \in ends : j <= k
    IN IF ends = {} \/ (ends # {} /\ end = i) THEN Failed
       ELSE ParsedTo(ObjectType(SubSeq(d, i, end - 1)), end + 1)
BY Zenon DEF ParseObject, Semicolon
LEMMA StrippedDef ==
  \A text : Stripped(text) =
    IF Len(text) > 1 /\ text[1] = "L" /\ text[Len(text)] = Semicolon
    THEN SubSeq(text, 2, Len(text) - 1) ELSE text
BY Zenon DEF Stripped, Semicolon
LEMMA ClassNameToDescriptorDef ==
  \A name : ClassNameToDescriptor(name) =
    IF Len(name) = 1 /\ name[1] \in Words THEN <<Letters[name[1]]>>
    ELSE IF name[1] = "[" THEN Replaced(name, ".", "/")
    ELSE <<"L">> \o Replaced(name, ".", "/") \o <<Semicolon>>
BY Zenon DEF ClassNameToDescriptor, Semicolon
LEMMA DescribesTypeDef ==
  \A d, t : DescribesType(d, t) <=>
    /\ t.dims <= Len(d)
    /\ \A i \in 1 .. t.dims : d[i] = "["
    /\ IF t.base = "object" THEN t.name # <<>> /\ ~Has(t.name, Semicolon) ELSE t.base # "void"
    /\ Suffix(d, t.dims) = Descriptor([t EXCEPT !.dims = 0])
BY Zenon DEF DescribesType, Semicolon
LEMMA SemicolonIs ==
  /\ Semicolon \notin {"L", "(", ")", "[", "/", ".", "[]"} /\ Semicolon \notin LetterSet
  /\ Semicolon \notin Words
<1>1. Semicolon \notin {"L", "(", ")", "[", "/", ".", "[]"}
  BY Zenon DEF Semicolon
<1>2. Semicolon \notin {"Z", "B", "C", "S", "I", "J", "F", "D", "V"}
  BY Zenon DEF Semicolon
<1>3. LetterSet \subseteq {"Z", "B", "C", "S", "I", "J", "F", "D", "V"}
  BY DEF LetterSet, Words, Letters
<1>4. Semicolon \notin {"boolean", "byte", "char", "short", "int", "long", "float", "double", "void"}
  BY Zenon DEF Semicolon
<1>5. Words = {"boolean", "byte", "char", "short", "int", "long", "float", "double", "void"}
  BY PrimsAre
<1> QED
  BY <1>1, <1>2, <1>3, <1>4, <1>5, Zenon

LEMMA LettersAre ==
  /\ \A w \in Words : /\ Letters[w] \in LetterSet /\ WordOf(Letters[w]) = w
                      /\ Letters[w] = "V" <=> w = "void"
                      /\ Letters[w] \notin {"L", "[", "(", ")", "/", "."}
  /\ \A c \in LetterSet : WordOf(c) \in Words /\ Letters[WordOf(c)] = c
<1>1. /\ Words = {"boolean", "byte", "char", "short", "int", "long", "float", "double", "void"}
      /\ Letters["boolean"] = "Z" /\ Letters["byte"] = "B" /\ Letters["char"] = "C"
      /\ Letters["short"] = "S" /\ Letters["int"] = "I" /\ Letters["long"] = "J"
      /\ Letters["float"] = "F" /\ Letters["double"] = "D" /\ Letters["void"] = "V"
  BY DEF Words, Letters
<1>2. \A w, u \in Words : Letters[w] = Letters[u] => w = u
  BY <1>1
<1>3. ASSUME NEW w \in Words
      PROVE  Letters[w] \in LetterSet /\ WordOf(Letters[w]) = w
  <2>1. WordOf(Letters[w]) \in Words /\ Letters[WordOf(Letters[w])] = Letters[w]
    <3>1. \E u \in Words : Letters[u] = Letters[w]
      OBVIOUS
    <3> QED
      BY <3>1 DEF WordOf
  <2> QED
    BY <1>2, <2>1 DEF LetterSet
<1>4. \A w \in Words : /\ Letters[w] = "V" <=> w = "void"
                       /\ Letters[w] \notin {"L", "[", "(", ")", "/", "."}
  BY <1>1
<1>5. \A c \in LetterSet : WordOf(c) \in Words /\ Letters[WordOf(c)] = c
  BY <1>3 DEF LetterSet
<1> QED
  BY <1>3, <1>4, <1>5

\* the types that a text over some characters may be the descriptor of
NamesOver(S) == {name \in Seq(S) : name # <<>> /\ ~Has(name, Semicolon)}
TypesOver(S) ==
  [base : Prims, name : {<<>>}, dims : Nat] \cup [base : {"object"}, name : NamesOver(S), dims : Nat]

LEMMA RepeatedIs ==
  ASSUME NEW n \in Nat, NEW c, NEW A, c \in A
  PROVE  /\ [i \in 1 .. n |-> c] \in Seq(A) /\ Len([i \in 1 .. n |-> c]) = n
         /\ \A i \in 1 .. n : [j \in 1 .. n |-> c][i] = c
OBVIOUS

LEMMA SingleIs ==
  ASSUME NEW A, NEW c \in A PROVE <<c>> \in Seq(A) /\ Len(<<c>>) = 1 /\ <<c>>[1] = c
OBVIOUS

\* three texts in a row
LEMMA ThreeAre ==
  ASSUME NEW A, NEW a \in Seq(A), NEW b \in Seq(A), NEW c \in Seq(A)
  PROVE  LET d == a \o b \o c IN
         /\ d \in Seq(A) /\ Len(d) = Len(a) + Len(b) + Len(c)
         /\ \A i \in 1 .. Len(a) : d[i] = a[i]
         /\ \A i \in 1 .. Len(b) : d[Len(a) + i] = b[i]
         /\ \A i \in 1 .. Len(c) : d[Len(a) + Len(b) + i] = c[i]
<1> DEFINE ab == a \o b
           d == ab \o c
<1>1. /\ Len(a) \in Nat /\ Len(b) \in Nat /\ Len(c) \in Nat
      /\ ab \in Seq(A) /\ Len(ab) = Len(a) + Len(b)
      /\ \A i \in 1 .. Len(a) : ab[i] = a[i]
      /\ \A i \in 1 .. Len(b) : ab[Len(a) + i] = b[i]
  BY JoinIs
<1> HIDE DEF ab
<1>2. /\ d \in Seq(A) /\ Len(d) = Len(ab) + Len(c)
      /\ \A i \in 1 .. Len(ab) : d[i] = ab[i]
      /\ \A i \in 1 .. Len(c) : d[Len(ab) + i] = c[i]
  <2>1. ab \in Seq(A)
    BY <1>1
  <2> QED
    BY <2>1, JoinIs
<1> HIDE DEF d
<1>3. \A i \in 1 .. Len(a) : i \in 1 .. Len(ab)
  BY <1>1
<1>4. \A i \in 1 .. Len(b) : Len(a) + i \in 1 .. Len(ab)
  BY <1>1
<1>5. /\ d \in Seq(A) /\ Len(d) = Len(a) + Len(b) + Len(c)
      /\ \A i \in 1 .. Len(a) : d[i] = a[i]
      /\ \A i \in 1 .. Len(b) : d[Len(a) + i] = b[i]
      /\ \A i \in 1 .. Len(c) : d[Len(a) + Len(b) + i] = c[i]
  BY <1>1, <1>2, <1>3, <1>4
<1> QED
  BY <1>5 DEF d, ab

LEMMA SequencesOfMore ==
  ASSUME NEW S, NEW A, S \subseteq A, NEW s \in Seq(S)
  PROVE  s \in Seq(A)
OBVIOUS

\* the descriptor of an object and of a primitive type, letter by letter
LEMMA NamedTextIs ==
  ASSUME NEW A, "L" \in A, Semicolon \in A, NEW name \in Seq(A)
  PROVE  LET d == <<"L">> \o name \o <<Semicolon>> IN
         /\ d \in Seq(A) /\ Len(d) = Len(name) + 2
         /\ d[1] = "L" /\ d[Len(name) + 2] = Semicolon
         /\ \A i \in 1 .. Len(name) : d[1 + i] = name[i]
<1>1. PICK l, r : /\ l = <<"L">> /\ l \in Seq(A) /\ Len(l) = 1 /\ l[1] = "L"
                  /\ r = <<Semicolon>> /\ r \in Seq(A) /\ Len(r) = 1 /\ r[1] = Semicolon
  BY SingleIs
<1>2. PICK d : d = l \o name \o r
  OBVIOUS
<1>3. /\ d \in Seq(A) /\ Len(d) = Len(l) + Len(name) + Len(r)
      /\ \A i \in 1 .. Len(l) : d[i] = l[i]
      /\ \A i \in 1 .. Len(name) : d[Len(l) + i] = name[i]
      /\ \A i \in 1 .. Len(r) : d[Len(l) + Len(name) + i] = r[i]
  BY <1>1, <1>2, ThreeAre
<1>4. /\ d \in Seq(A) /\ Len(d) = Len(name) + 2
      /\ d[1] = "L" /\ d[Len(name) + 2] = Semicolon
      /\ \A i \in 1 .. Len(name) : d[1 + i] = name[i]
  <2>1. Len(name) \in Nat
    OBVIOUS
  <2> QED
    BY <1>1, <1>3, <2>1
<1> QED
  BY <1>1, <1>2, <1>4, Zenon

LEMMA ObjectTextIs ==
  ASSUME NEW A, {"[", "L", Semicolon} \subseteq A, NEW name \in Seq(A), NEW n \in Nat
  PROVE  LET d == [i \in 1 .. n |-> "["] \o (<<"L">> \o name \o <<Semicolon>>) IN
         /\ d \in Seq(A) /\ Len(d) = n + Len(name) + 2
         /\ \A i \in 1 .. n : d[i] = "["
         /\ d[n + 1] = "L" /\ d[Len(d)] = Semicolon
         /\ \A i \in 1 .. Len(name) : d[n + 1 + i] = name[i]
<1>1. PICK named : /\ named = <<"L">> \o name \o <<Semicolon>>
                   /\ named \in Seq(A) /\ Len(named) = Len(name) + 2
                   /\ named[1] = "L" /\ named[Len(name) + 2] = Semicolon
                   /\ \A i \in 1 .. Len(name) : named[1 + i] = name[i]
  <2>1. "L" \in A /\ Semicolon \in A
    OBVIOUS
  <2>2. PICK named : named = <<"L">> \o name \o <<Semicolon>>
    OBVIOUS
  <2>3. /\ named \in Seq(A) /\ Len(named) = Len(name) + 2
        /\ named[1] = "L" /\ named[Len(name) + 2] = Semicolon
        /\ \A i \in 1 .. Len(name) : named[1 + i] = name[i]
    BY <2>1, <2>2, NamedTextIs, Zenon
  <2> QED
    BY <2>2, <2>3, Zenon
<1>2. PICK brackets : /\ brackets = [i \in 1 .. n |-> "["]
                      /\ brackets \in Seq(A) /\ Len(brackets) = n
                      /\ \A i \in 1 .. n : brackets[i] = "["
  BY RepeatedIs
<1>3. PICK d : d = brackets \o named
  OBVIOUS
<1>4. /\ d \in Seq(A) /\ Len(d) = Len(brackets) + Len(named)
      /\ \A i \in 1 .. Len(brackets) : d[i] = brackets[i]
      /\ \A i \in 1 .. Len(named) : d[Len(brackets) + i] = named[i]
  BY <1>1, <1>2, <1>3, JoinIs
<1>5. /\ d \in Seq(A) /\ Len(d) = n + Len(name) + 2
      /\ \A i \in 1 .. n : d[i] = "["
      /\ d[n + 1] = "L" /\ d[Len(d)] = Semicolon
      /\ \A i \in 1 .. Len(name) : d[n + 1 + i] = name[i]
  <2>0. Len(name) \in Nat
    OBVIOUS
  <2>1. /\ 1 \in 1 .. Len(named) /\ Len(name) + 2 \in 1 .. Len(named)
        /\ \A i \in 1 .. Len(name) : 1 + i \in 1 .. Len(named)
    BY <1>1, <2>0
  <2>2. Len(d) = n + Len(name) + 2 /\ Len(d) = n + (Len(name) + 2) /\ \A i \in 1 .. Len(name) : n + 1 + i = n + (1 + i)
    BY <1>1, <1>2, <1>4, <2>0
  <2> QED
    BY <1>1, <1>2, <1>4, <2>1, <2>2
<1> QED
  BY <1>1, <1>2, <1>3, <1>5, Zenon

LEMMA LetterTextIs ==
  ASSUME NEW c, NEW n \in Nat
  PROVE  LET d == [i \in 1 .. n |-> "["] \o <<c>> IN
         /\ d \in Seq({"[", c}) /\ Len(d) = n + 1
         /\ \A i \in 1 .. n : d[i] = "["
         /\ d[n + 1] = c
<1> DEFINE A == {"[", c}
           brackets == [i \in 1 .. n |-> "["]
           d == brackets \o <<c>>
<1>1. brackets \in Seq(A) /\ Len(brackets) = n /\ \A i \in 1 .. n : brackets[i] = "["
  BY RepeatedIs
<1>2. <<c>> \in Seq(A) /\ Len(<<c>>) = 1 /\ <<c>>[1] = c
  BY SingleIs
<1> HIDE DEF A, brackets
<1>3. /\ d \in Seq(A) /\ Len(d) = Len(brackets) + Len(<<c>>)
      /\ \A i \in 1 .. Len(brackets) : d[i] = brackets[i]
      /\ \A i \in 1 .. Len(<<c>>) : d[Len(brackets) + i] = <<c>>[i]
  BY <1>1, <1>2, JoinIs
<1> HIDE DEF d
<1>4. /\ d \in Seq(A) /\ Len(d) = n + 1
      /\ \A i \in 1 .. n : d[i] = "["
      /\ d[n + 1] = c
  BY <1>1, <1>2, <1>3
<1> QED
  BY <1>4 DEF d, brackets, A

LEMMA TextTypesAre ==
  ASSUME NEW S, NEW t \in TypesOver(S) \cup {Void}
  PROVE  /\ t.dims \in Nat /\ t = [base |-> t.base, name |-> t.name, dims |-> t.dims]
         /\ t.base = "object" =>
              t.name \in Seq(S) /\ t.name \in NamesOver(S) /\ Len(t.name) > 0 /\ \A i \in 1 .. Len(t.name) : t.name[i] # Semicolon
         /\ t.base # "object" => t.base \in Words /\ t.name = <<>>
<1>1. t.dims \in Nat /\ t = [base |-> t.base, name |-> t.name, dims |-> t.dims]
  BY VoidIs DEF TypesOver, Void, Prim
<1>2. t.base # "object" => t.base \in Words /\ t.name = <<>>
  BY PrimsAre DEF TypesOver, Void, Prim
<1>3. t.base = "object" => t.name \in NamesOver(S)
  BY PrimsAre, VoidIs DEF TypesOver
<1>4. ASSUME NEW name \in NamesOver(S) PROVE name \in Seq(S) /\ Len(name) > 0 /\ \A i \in 1 .. Len(name) : name[i] # Semicolon
  <2>1. name \in Seq(S) /\ name # <<>> /\ ~\E i \in DOMAIN name : name[i] = Semicolon
    BY DEF NamesOver, Has
  <2>2. Len(name) \in Nat /\ Len(name) # 0 /\ DOMAIN name = 1 .. Len(name)
    BY <2>1
  <2> QED
    BY <2>1, <2>2
<1> QED
  BY <1>1, <1>2, <1>3, <1>4

\* the descriptor, letter by letter
LEMMA DescriptorIs ==
  ASSUME NEW S, NEW t \in TypesOver(S) \cup {Void}
  PROVE  LET d == Descriptor(t) IN
         /\ \A i \in 1 .. t.dims : d[i] = "["
         /\ t.base = "object" =>
              /\ d \in Seq(S \cup {"[", "L", Semicolon}) 
              /\ Len(d) = t.dims + Len(t.name) + 2
              /\ d[t.dims + 1] = "L" /\ d[Len(d)] = Semicolon
              /\ \A i \in 1 .. Len(t.name) : d[t.dims + 1 + i] = t.name[i]
         /\ t.base # "object" =>
              /\ d \in Seq({"[", Letters[t.base]}) /\ Len(d) = t.dims + 1
              /\ d[t.dims + 1] = Letters[t.base]
<1>1. CASE t.base = "object"
  <2>1. PICK name \in Seq(S), n \in Nat : name = t.name /\ n = t.dims
    BY <1>1, TextTypesAre
  <2>2. Descriptor(t) = [i \in 1 .. n |-> "["] \o (<<"L">> \o name \o <<Semicolon>>)
    BY <1>1, <2>1, DescriptorDef
  <2>3. PICK d : d = [i \in 1 .. n |-> "["] \o (<<"L">> \o name \o <<Semicolon>>)
    OBVIOUS
  <2>5. {"[", "L", Semicolon} \subseteq S \cup {"[", "L", Semicolon} /\ name \in Seq(S \cup {"[", "L", Semicolon})
    <3>1. S \subseteq S \cup {"[", "L", Semicolon}
      OBVIOUS
    <3> QED
      BY <3>1, SequencesOfMore
  <2>4. /\ d \in Seq(S \cup {"[", "L", Semicolon}) /\ Len(d) = n + Len(name) + 2
        /\ \A i \in 1 .. n : d[i] = "["
        /\ d[n + 1] = "L" /\ d[Len(d)] = Semicolon
        /\ \A i \in 1 .. Len(name) : d[n + 1 + i] = name[i]
    <3>1. PICK A : A = S \cup {"[", "L", Semicolon}
      OBVIOUS
    <3>2. {"[", "L", Semicolon} \subseteq A /\ name \in Seq(A)
      BY <2>5, <3>1
    <3> QED
      BY <2>3, <3>1, <3>2, ObjectTextIs
  <2> QED
    BY <1>1, <2>1, <2>2, <2>3, <2>4, ZenonT(60)
<1>2. CASE t.base # "object"
  <2>1. PICK c : \E n \in Nat : c = Letters[t.base] /\ n = t.dims
    BY TextTypesAre
  <2>6. PICK n \in Nat : c = Letters[t.base] /\ n = t.dims
    BY <2>1
  <2>2. Descriptor(t) = [i \in 1 .. n |-> "["] \o <<c>>
    BY <2>6, <1>2, <2>1, DescriptorDef
  <2>3. PICK d : d = [i \in 1 .. n |-> "["] \o <<c>>
    OBVIOUS
  <2>4. /\ d \in Seq({"[", c}) /\ Len(d) = n + 1
        /\ \A i \in 1 .. n : d[i] = "["
        /\ d[n + 1] = c
    BY <2>3, LetterTextIs, Zenon
  <2> QED
    BY <1>2, <2>6, <2>2, <2>3, <2>4, Zenon
<1> QED
  BY <1>1, <1>2

-----------------------------------------------------------------------------
(* The parser of types.                                                    *)
LEMMA AfterBracketsIs ==
  ASSUME NEW S, NEW d \in Seq(S), NEW i \in 1 .. Len(d) + 1
  PROVE  /\ AfterBrackets(d, i) \in i .. Len(d) + 1
         /\ \A k \in i .. AfterBrackets(d, i) - 1 : d[k] = "["
         /\ AfterBrackets(d, i) <= Len(d) => d[AfterBrackets(d, i)] # "["
         /\ \A j \in i .. Len(d) : (\A k \in i .. j - 1 : d[k] = "[") /\ d[j] # "[" => j = AfterBrackets(d, i)
<1> DEFINE n == Len(d)
           Good(j) == (\A k \in i .. j - 1 : d[k] = "[") /\ (j <= n => d[j] # "[")
           T == {j \in i .. n + 1 : j <= n => d[j] # "["}
<1>1. n \in Nat /\ i \in Nat /\ i >= 1 /\ i <= n + 1
  OBVIOUS
<1> HIDE DEF n
<1>2. T \in SUBSET Nat /\ n + 1 \in T
  BY <1>1
<1>3. PICK j \in T : \A m \in T : j <= m
  BY <1>2, LeastOf
<1>4. j \in i .. n + 1 /\ Good(j)
  <2>1. ASSUME NEW k \in i .. j - 1 PROVE d[k] = "["
    <3>1. k \in i .. n + 1 /\ k <= n /\ ~(j <= k)
      BY <1>1, <1>3
    <3> QED
      BY <1>3, <3>1
  <2> QED
    BY <1>3, <2>1
<1>5. AfterBrackets(d, i) = CHOOSE k \in i .. n + 1 : Good(k)
  BY DEF AfterBrackets, n
<1>6. AfterBrackets(d, i) \in i .. n + 1 /\ Good(AfterBrackets(d, i))
  <2> HIDE DEF Good
  <2> QED
    BY <1>4, <1>5
<1>7. ASSUME NEW a \in i .. n + 1, NEW b \in i .. n, Good(a), \A k \in i .. b - 1 : d[k] = "[", d[b] # "["
      PROVE  b = a
  <2>1. CASE a < b
    <3>1. a \in i .. b - 1 /\ a <= n
      BY <1>1, <2>1
    <3> QED
      BY <1>7, <3>1
  <2>2. CASE b < a
    <3>1. b \in i .. a - 1
      BY <1>1, <2>2
    <3> QED
      BY <1>7, <3>1
  <2> QED
    BY <1>1, <2>1, <2>2
<1> QED
  BY <1>6, <1>7 DEF n

LEMMA ParseObjectIs ==
  ASSUME NEW S, NEW d \in Seq(S), NEW i \in 1 .. Len(d) + 1
  PROVE  /\ ParseObject(d, i).ok => \E e \in i + 1 .. Len(d) : d[e] = Semicolon /\ \A k \in i .. e - 1 : d[k] # Semicolon
         /\ \A e \in i + 1 .. Len(d) : d[e] = Semicolon /\ (\A k \in i .. e - 1 : d[k] # Semicolon) =>
              ParseObject(d, i) = ParsedTo(ObjectType(SubSeq(d, i, e - 1)), e + 1)
<1> DEFINE ends == {j \in i .. Len(d) : d[j] = Semicolon}
           end == CHOOSE j \in ends : \A k \in ends : j <= k
<1>1. Len(d) \in Nat /\ i \in Nat /\ i >= 1
  OBVIOUS
<1>2. ParseObject(d, i) =
        IF ends = {} \/ (ends # {} /\ end = i) THEN Failed
        ELSE ParsedTo(ObjectType(SubSeq(d, i, end - 1)), end + 1)
  BY ParseObjectDef
<1>3. ends # {} => end \in ends /\ \A k \in ends : end <= k
  <2> SUFFICES ASSUME ends # {} PROVE \E j \in ends : \A k \in ends : j <= k
    OBVIOUS
  <2>1. ends \in SUBSET Nat
    BY <1>1
  <2> HIDE DEF ends
  <2> QED
    BY <2>1, LeastOf
<1> HIDE DEF end
<1>4. ASSUME ParseObject(d, i).ok
      PROVE  \E e \in i + 1 .. Len(d) : d[e] = Semicolon /\ \A k \in i .. e - 1 : d[k] # Semicolon
  <2>1. ends # {} /\ end # i
    BY <1>2, <1>4 DEF Failed
  <2>2. end \in i + 1 .. Len(d) /\ d[end] = Semicolon
    BY <1>1, <1>3, <2>1
  <2>3. ASSUME NEW k \in i .. end - 1 PROVE d[k] # Semicolon
    <3>1. k \in i .. Len(d) /\ ~(end <= k)
      BY <1>1, <2>2
    <3> QED
      BY <1>3, <2>1, <3>1
  <2> QED
    BY <2>2, <2>3
<1>5. ASSUME NEW e \in i + 1 .. Len(d), d[e] = Semicolon, \A k \in i .. e - 1 : d[k] # Semicolon
      PROVE  ParseObject(d, i) = ParsedTo(ObjectType(SubSeq(d, i, e - 1)), e + 1)
  <2>1. e \in ends
    BY <1>1, <1>5
  <2>2. ends # {} /\ end <= e /\ end \in ends
    BY <1>3, <2>1
  <2>3. ~(end < e)
    <3> SUFFICES ASSUME end < e PROVE FALSE
      OBVIOUS
    <3>1. end \in i .. e - 1 /\ d[end] = Semicolon
      BY <1>1, <2>2
    <3> QED
      BY <1>5, <3>1
  <2>4. end = e /\ e # i
    BY <1>1, <2>2, <2>3
  <2> QED
    BY <1>2, <2>2, <2>4
<1> QED
  BY <1>4, <1>5

\* the descriptor of a type stands in a text from some place on
StandsAt(d, i, t) ==
  /\ i + Len(Descriptor(t)) - 1 <= Len(d)
  /\ \A x \in 1 .. Len(Descriptor(t)) : d[i + x - 1] = Descriptor(t)[x]
Allowed(S, allowVoid) == IF allowVoid THEN TypesOver(S) \cup {Void} ELSE TypesOver(S)

LEMMA ObjectDescriptorIs ==
  ASSUME NEW S, NEW t \in TypesOver(S) \cup {Void}, t.base = "object"
  PROVE  /\ \A x \in 1 .. t.dims : Descriptor(t)[x] = "["
         /\ Len(Descriptor(t)) = t.dims + Len(t.name) + 2
         /\ Descriptor(t)[t.dims + 1] = "L" /\ Descriptor(t)[Len(Descriptor(t))] = Semicolon
         /\ \A x \in 1 .. Len(t.name) : Descriptor(t)[t.dims + 1 + x] = t.name[x]
<1>1. PICK d : d = Descriptor(t)
  OBVIOUS
<1>2. /\ \A x \in 1 .. t.dims : d[x] = "["
      /\ t.base = "object" =>
              /\ Len(d) = t.dims + Len(t.name) + 2
              /\ d[t.dims + 1] = "L" /\ d[Len(d)] = Semicolon
              /\ \A i \in 1 .. Len(t.name) : d[t.dims + 1 + i] = t.name[i]
  BY <1>1, DescriptorIs, Zenon
<1> QED
  BY <1>1, <1>2, Zenon

LEMMA ParseTypeFinds ==
  ASSUME NEW S, NEW d \in Seq(S), NEW i \in 1 .. Len(d) + 1, NEW allowVoid \in BOOLEAN,
         NEW t \in Allowed(S, allowVoid), StandsAt(d, i, t)
  PROVE  ParseType(d, i, allowVoid) = ParsedTo(t, i + Len(Descriptor(t)))
<1>1. t \in TypesOver(S) \cup {Void}
  BY DEF Allowed
<1>2. PICK n \in Nat : n = t.dims
  BY <1>1, TextTypesAre
<1>12. PICK D, name, base : D = Descriptor(t) /\ name = t.name /\ base = t.base
  OBVIOUS
<1> DEFINE j == AfterBrackets(d, i)
<1>3. Len(d) \in Nat /\ i \in Nat /\ i >= 1
  OBVIOUS
<1>4. /\ \A x \in 1 .. Len(D) : d[i + x - 1] = D[x] 
      /\ i + Len(D) - 1 <= Len(d)
  BY <1>12 DEF StandsAt
<1>5. /\ \A x \in 1 .. n : D[x] = "["
      /\ Len(D) \in Nat /\ Len(D) >= n + 1 /\ D[n + 1] # "["
  <2>1. CASE base = "object"
    <3>1. /\ \A x \in 1 .. n : D[x] = "[" 
          /\ Len(D) = n + Len(name) + 2 /\ D[n + 1] = "L" /\ Len(name) \in Nat
      <4>1. /\ \A x \in 1 .. n : D[x] = "["
            /\ Len(D) = n + Len(name) + 2 /\ D[n + 1] = "L"
        BY <1>1, <1>2, <1>12, <2>1, ObjectDescriptorIs, Zenon
      <4>2. name \in Seq(S)
        BY <1>1, <1>12, <2>1, TextTypesAre
      <4> QED
        BY <4>1, <4>2
    <3> QED
      BY <3>1
  <2>2. CASE base # "object"
    <3>1. /\ \A x \in 1 .. n : D[x] = "[" 
          /\ Len(D) = n + 1 /\ D[n + 1] = Letters[base] /\ base \in Words
      BY <1>1, <1>2, <1>12, <2>2, DescriptorIs, TextTypesAre
    <3> QED
      BY <3>1, LettersAre
  <2> QED
    BY <2>1, <2>2
<1>6. j = i + n
  <2>1. i + n \in i .. Len(d) /\ d[i + n] = D[n + 1]
    <3>1. n + 1 \in 1 .. Len(D) /\ i + (n + 1) - 1 = i + n
      BY <1>3, <1>5
    <3> QED
      BY <1>3, <1>4, <1>5, <3>1
  <2>2. ASSUME NEW k \in i .. (i + n) - 1 PROVE d[k] = "["
    <3>1. (k - i) + 1 \in 1 .. n /\ (k - i) + 1 \in 1 .. Len(D) /\ i + ((k - i) + 1) - 1 = k
      BY <1>3, <1>5
    <3> QED
      BY <1>4, <1>5, <3>1
  <2> HIDE DEF j
  <2> QED
    BY <1>5, <2>1, <2>2, AfterBracketsIs DEF j
<1>7. j <= Len(d) /\ d[j] = D[n + 1]
  <2>1. n + 1 \in 1 .. Len(D) /\ i + (n + 1) - 1 = i + n
    BY <1>3, <1>5
  <2> QED
    BY <1>3, <1>4, <1>5, <1>6, <2>1
<1> HIDE DEF j
<1>8. ParseType(d, i, allowVoid) = ArrayOfParsed(ParseElement(d, j, allowVoid /\ j = i), n)
  <2>1. j - i = n
    BY <1>3, <1>6
  <2> QED
    BY <2>1, Zenon DEF ParseType, j
<1>9. CASE base = "object"
  <2>1. /\ Len(D) = n + Len(name) + 2 /\ D[n + 1] = "L" /\ D[Len(D)] = Semicolon
        /\ \A x \in 1 .. Len(name) : D[n + 1 + x] = name[x]
        /\ name \in Seq(S) /\ Len(name) \in Nat /\ Len(name) > 0
        /\ \A x \in 1 .. Len(name) : name[x] # Semicolon
    <3>1. /\ Len(D) = n + Len(name) + 2 /\ D[n + 1] = "L" /\ D[Len(D)] = Semicolon
          /\ \A x \in 1 .. Len(name) : D[n + 1 + x] = name[x]
      BY <1>1, <1>2, <1>12, <1>9, ObjectDescriptorIs, Zenon
    <3>2. /\ name \in Seq(S) /\ Len(name) > 0
          /\ \A x \in 1 .. Len(name) : name[x] # Semicolon
      BY <1>1, <1>12, <1>9, TextTypesAre
    <3> QED
      BY <3>1, <3>2
  <2> DEFINE e == j + 1 + Len(name)
  <2>2. e \in (j + 1) + 1 .. Len(d) /\ d[e] = Semicolon /\ e + 1 = i + Len(D) /\ j + 1 \in 1 .. Len(d) + 1
    <3>1. Len(D) \in 1 .. Len(D) /\ i + Len(D) - 1 = e
      BY <1>3, <1>5, <1>6, <2>1
    <3> QED
      BY <1>3, <1>4, <1>5, <1>6, <2>1, <3>1
  <2>3. ASSUME NEW x \in 1 .. Len(name) PROVE d[j + x] = name[x]
    <3>1. n + 1 + x \in 1 .. Len(D) /\ i + (n + 1 + x) - 1 = j + x
      BY <1>3, <1>6, <2>1
    <3> QED
      BY <1>4, <2>1, <3>1
  <2>4. ASSUME NEW k \in j + 1 .. e - 1 PROVE d[k] # Semicolon
    <3>1. k - j \in 1 .. Len(name) /\ j + (k - j) = k
      BY <1>3, <1>6, <2>1
    <3> QED
      BY <2>1, <2>3, <3>1
  <2>5. ParseObject(d, j + 1) = ParsedTo(ObjectType(SubSeq(d, j + 1, e - 1)), e + 1)
    <3> HIDE DEF e
    <3> QED
      BY <2>2, <2>4, ParseObjectIs
  <2>6. SubSeq(d, j + 1, e - 1) = name
    <3> DEFINE part == SubSeq(d, j + 1, e - 1)
    <3>1. j \in Nat /\ e - 1 \in Nat /\ j <= e - 1 /\ e - 1 <= Len(d) /\ (e - 1) - j = Len(name)
      BY <1>3, <1>6, <2>1, <2>2
    <3>2. part \in Seq(S) /\ Len(part) = (e - 1) - j /\ \A x \in 1 .. (e - 1) - j : part[x] = d[j + x]
      <4> HIDE DEF e
      <4> QED
        BY <3>1, PartIs
    <3> HIDE DEF part, e
    <3>3. Len(part) = Len(name) /\ \A x \in 1 .. Len(part) : part[x] = name[x]
      BY <2>3, <3>1, <3>2
    <3>4. part = name
      BY <2>1, <3>2, <3>3, SameSequence
    <3> QED
      BY <3>4 DEF part
  <2>7. ParseElement(d, j, allowVoid /\ j = i) = ParsedTo(ObjectType(name), i + Len(D))
    <3>1. ~(j > Len(d)) /\ d[j] = "L"
      BY <1>3, <1>6, <1>7, <2>1
    <3> HIDE DEF e
    <3> QED
      BY <2>2, <2>5, <2>6, <3>1 DEF ParseElement
  <2>8. [ObjectType(name) EXCEPT !.dims = n] = t
    <3>1. t = [base |-> "object", name |-> name, dims |-> n]
      BY <1>1, <1>2, <1>12, <1>9, TextTypesAre
    <3> QED
      BY <3>1 DEF ObjectType
  <2>9. ArrayOfParsed(ParsedTo(ObjectType(name), i + Len(D)), n) = ParsedTo(t, i + Len(D))
    BY <2>8 DEF ArrayOfParsed, ParsedTo
  <2> QED
    BY <1>12, <1>8, <2>7, <2>9
<1>10. CASE base # "object"
  <2>1. /\ Len(D) = n + 1 /\ D[n + 1] = Letters[base] /\ base \in Words /\ name = <<>>
    BY <1>1, <1>2, <1>12, <1>10, DescriptorIs, TextTypesAre
  <2>2. base = "void" => allowVoid /\ n = 0
    <3>1. CASE t = Void
      <4>1. allowVoid
        <5>1. Void \notin TypesOver(S)
          BY VoidIs, PrimsAre DEF TypesOver
        <5> QED
          BY <3>1, <5>1 DEF Allowed
      <4> QED
        BY <1>2, <1>12, <3>1, <4>1, VoidIs
    <3>2. CASE t \in TypesOver(S)
      BY <1>2, <1>12, <3>2, PrimsAre DEF TypesOver
    <3> QED
      BY <1>1, <3>1, <3>2
  <2>3. ParseElement(d, j, allowVoid /\ j = i) = ParsedTo(Prim(base), j + 1)
    <3>1. ~(j > Len(d)) /\ d[j] = Letters[base] /\ d[j] # "L" /\ d[j] \in LetterSet /\ WordOf(d[j]) = base
      BY <1>3, <1>6, <1>7, <2>1, LettersAre
    <3>2. d[j] = "V" => allowVoid /\ j = i
      BY <1>3, <1>6, <2>1, <2>2, <3>1, LettersAre
    <3> QED
      BY <3>1, <3>2 DEF ParseElement
  <2>4. j + 1 = i + Len(D)
    BY <1>3, <1>6, <2>1
  <2>5. [Prim(base) EXCEPT !.dims = n] = t
    <3>1. t = [base |-> base, name |-> <<>>, dims |-> n]
      BY <1>1, <1>2, <1>12, <2>1, TextTypesAre
    <3> QED
      BY <3>1 DEF Prim
  <2>6. ArrayOfParsed(ParsedTo(Prim(base), j + 1), n) = ParsedTo(t, j + 1)
    BY <2>5 DEF ArrayOfParsed, ParsedTo
  <2> QED
    BY <1>12, <1>8, <2>3, <2>4, <2>6
<1> QED
  BY <1>9, <1>10

LEMMA ParseTypeMeans ==
  ASSUME NEW S, NEW d \in Seq(S), NEW i \in 1 .. Len(d) + 1, NEW allowVoid \in BOOLEAN,
         ParseType(d, i, allowVoid).ok
  PROVE  \E t \in Allowed(S, allowVoid) : StandsAt(d, i, t)
<1> DEFINE j == AfterBrackets(d, i)
           n == j - i
           element == ParseElement(d, j, allowVoid /\ j = i)
<1>1. Len(d) \in Nat /\ i \in Nat /\ i >= 1
  OBVIOUS
<1>2. /\ j \in i .. Len(d) + 1 /\ \A k \in i .. j - 1 : d[k] = "["
  BY AfterBracketsIs
<1>3. element.ok
  BY Zenon DEF ParseType, ArrayOfParsed, Failed
<1> HIDE DEF j
<1>4. j <= Len(d) /\ n \in Nat /\ j = i + n /\ j \in Nat
  <2>1. ~(j > Len(d))
    BY <1>3 DEF ParseElement, Failed
  <2> QED
    BY <1>1, <1>2, <2>1
<1>5. CASE d[j] = "L"
  <2>1. ParseObject(d, j + 1).ok
    BY <1>3, <1>4, <1>5 DEF ParseElement
  <2>2. j + 1 \in 1 .. Len(d) + 1
    BY <1>1, <1>4
  <2>3. PICK e \in (j + 1) + 1 .. Len(d) : d[e] = Semicolon /\ \A k \in j + 1 .. e - 1 : d[k] # Semicolon
    BY <2>1, <2>2, ParseObjectIs
  <2>4. PICK name : name = SubSeq(d, j + 1, e - 1)
    OBVIOUS
  <2>5. /\ name \in Seq(S) /\ Len(name) = (e - 1) - j /\ \A x \in 1 .. Len(name) : name[x] = d[j + x]
    <3>1. j \in Nat /\ e - 1 \in Nat /\ j <= e - 1 /\ e - 1 <= Len(d)
      BY <1>1, <1>4, <2>3
    <3> QED
      BY <2>4, <3>1, PartIs
  <2>6. name \in NamesOver(S)
    <3>1. Len(name) > 0 /\ name # <<>>
      BY <1>4, <2>3, <2>5
    <3>2. ASSUME NEW x \in DOMAIN name PROVE name[x] # Semicolon
      <4>1. x \in 1 .. Len(name)
        BY <2>5
      <4>2. j + x \in j + 1 .. e - 1
        BY <1>4, <2>3, <2>5, <4>1
      <4> QED
        BY <2>3, <2>5, <4>1, <4>2
    <3> QED
      BY <2>5, <3>1, <3>2 DEF NamesOver, Has
  <2>7. PICK t : t = [base |-> "object", name |-> name, dims |-> n]
    OBVIOUS
  <2>8. t \in TypesOver(S) /\ t \in TypesOver(S) \cup {Void} /\ t.base = "object" /\ t.dims = n /\ t.name = name
    BY <1>4, <2>6, <2>7 DEF TypesOver
  <2>9. PICK D : D = Descriptor(t)
    OBVIOUS
  <2>10. /\ \A x \in 1 .. n : D[x] = "["
         /\ Len(D) = n + Len(name) + 2
         /\ D[n + 1] = "L" /\ D[Len(D)] = Semicolon
         /\ \A x \in 1 .. Len(name) : D[n + 1 + x] = name[x]
    <3>1. /\ \A x \in 1 .. t.dims : D[x] = "["
          /\ Len(D) = t.dims + Len(t.name) + 2
          /\ D[t.dims + 1] = "L" /\ D[Len(D)] = Semicolon
          /\ \A x \in 1 .. Len(t.name) : D[t.dims + 1 + x] = t.name[x]
      BY <2>8, <2>9, ObjectDescriptorIs, SMTT(60)
    <3> HIDE DEF n
    <3> QED
      BY <2>8, <3>1, Zenon
  <2>11. Len(name) \in Nat /\ Len(D) \in Nat /\ i + Len(D) - 1 = e
    BY <1>1, <1>4, <2>3, <2>5, <2>10
  <2>12. ASSUME NEW x \in 1 .. Len(D) PROVE d[i + x - 1] = D[x]
    <3>1. CASE x \in 1 .. n
      <4>1. i + x - 1 \in i .. j - 1
        BY <1>1, <1>4, <3>1
      <4> QED
        BY <1>2, <2>10, <3>1, <4>1
    <3>2. CASE x = n + 1
      <4>1. i + x - 1 = j
        BY <1>1, <1>4, <3>2
      <4> QED
        BY <1>5, <2>10, <3>2, <4>1
    <3>3. CASE x > n + 1 /\ x < Len(D)
      <4>1. x - (n + 1) \in 1 .. Len(name) /\ n + 1 + (x - (n + 1)) = x /\ j + (x - (n + 1)) = i + x - 1
        BY <1>1, <1>4, <2>10, <2>11, <3>3
      <4> QED
        BY <2>5, <2>10, <4>1, SMTT(60)
    <3>4. CASE x = Len(D)
      BY <2>3, <2>10, <2>11, <3>4
    <3> QED
      BY <1>4, <2>11, <3>1, <3>2, <3>3, <3>4
  <2> QED
    BY <2>3, <2>8, <2>9, <2>11, <2>12 DEF StandsAt, Allowed
<1>6. CASE d[j] # "L"
  <2>1. d[j] \in LetterSet /\ (d[j] = "V" => allowVoid /\ j = i)
    BY <1>3, <1>4, <1>6 DEF ParseElement, Failed
  <2>2. PICK w \in Words : Letters[w] = d[j] /\ w = WordOf(d[j])
    BY <2>1, LettersAre
  <2>3. PICK t : t = [base |-> w, name |-> <<>>, dims |-> n]
    OBVIOUS
  <2>4. t \in Allowed(S, allowVoid) /\ t \in TypesOver(S) \cup {Void}
    <3>1. CASE w = "void"
      <4>1. d[j] = "V"
        BY <2>2, <3>1, LettersAre
      <4>2. allowVoid /\ n = 0
        BY <1>1, <1>4, <2>1, <4>1
      <4> QED
        BY <2>3, <3>1, <4>2 DEF Allowed, Void, Prim
    <3>2. CASE w # "void"
      <4>1. w \in Prims
        BY <3>2, PrimsAre
      <4> QED
        BY <1>4, <2>3, <4>1 DEF Allowed, TypesOver
    <3> QED
      BY <3>1, <3>2
  <2>5. PICK D : D = Descriptor(t)
    OBVIOUS
  <2>6. t.base = w /\ t.dims = n /\ w # "object"
    BY <2>3, PrimsAre
  <2>7. /\ \A x \in 1 .. n : D[x] = "["
        /\ Len(D) = n + 1 /\ D[n + 1] = d[j]
    <3>1. /\ \A x \in 1 .. t.dims : D[x] = "["
          /\ Len(D) = t.dims + 1 /\ D[t.dims + 1] = Letters[t.base]
      <4>1. t.base # "object"
        BY <2>6, PrimsAre
      <4> QED
        BY <2>4, <2>5, <4>1, DescriptorIs, Zenon
    <3> HIDE DEF n
    <3> QED
      BY <2>2, <2>6, <3>1, Zenon
  <2>8. ASSUME NEW x \in 1 .. Len(D) PROVE d[i + x - 1] = D[x]
    <3>1. CASE x \in 1 .. n
      <4>1. i + x - 1 \in i .. j - 1
        BY <1>1, <1>4, <3>1
      <4> QED
        BY <1>2, <2>7, <3>1, <4>1
    <3>2. CASE x = n + 1
      <4>1. i + x - 1 = j
        BY <1>1, <1>4, <3>2
      <4> QED
        BY <2>7, <3>2, <4>1
    <3> QED
      BY <1>4, <2>7, <3>1, <3>2
  <2>9. i + Len(D) - 1 <= Len(d)
    BY <1>1, <1>4, <2>7
  <2> QED
    BY <2>4, <2>5, <2>8, <2>9 DEF StandsAt
<1> QED
  BY <1>5, <1>6

\* what the parser returns, and where it stops
LEMMA ParseTypeGives ==
  ASSUME NEW S, NEW d \in Seq(S), NEW i \in 1 .. Len(d) + 1, NEW allowVoid \in BOOLEAN,
         ParseType(d, i, allowVoid).ok
  PROVE  \E t \in Allowed(S, allowVoid) :
           /\ StandsAt(d, i, t) /\ ParseType(d, i, allowVoid) = ParsedTo(t, i + Len(Descriptor(t)))
<1>1. PICK t \in Allowed(S, allowVoid) : StandsAt(d, i, t)
  BY ParseTypeMeans
<1> QED
  BY <1>1, ParseTypeFinds

LEMMA DescriptorLength ==
  ASSUME NEW S, NEW t \in TypesOver(S) \cup {Void}
  PROVE  Len(Descriptor(t)) \in Nat /\ Len(Descriptor(t)) >= 1 /\ DOMAIN Descriptor(t) = 1 .. Len(Descriptor(t))
<1>1. PICK D : D = Descriptor(t)
  OBVIOUS
<1>2. PICK A : D \in Seq(A)
  BY <1>1, DescriptorIs, Zenon
<1>3. Len(D) >= 1
  <2>1. CASE t.base = "object"
    <3>1. Len(D) = t.dims + Len(t.name) + 2
      BY <1>1, <2>1, ObjectDescriptorIs, Zenon
    <3>2. t.dims \in Nat /\ t.name \in Seq(S)
      BY <2>1, TextTypesAre
    <3> QED
      BY <3>1, <3>2
  <2>2. CASE t.base # "object"
    <3>1. Len(D) = t.dims + 1
      BY <1>1, <2>2, DescriptorIs, Zenon
    <3>2. t.dims \in Nat
      BY TextTypesAre
    <3> QED
      BY <3>1, <3>2
  <2> QED
    BY <2>1, <2>2
<1>4. Len(D) \in Nat /\ DOMAIN D = 1 .. Len(D)
  BY <1>2
<1> QED
  BY <1>1, <1>3, <1>4

LEMMA AnySequences ==
  ASSUME NEW A, NEW B, NEW s \in Seq(A), NEW t \in Seq(B), Len(s) = Len(t),
         \A i \in 1 .. Len(t) : s[i] = t[i]
  PROVE  s = t
OBVIOUS

LEMMA ParsedToIs ==
  \A v, at : ParsedTo(v, at).ok /\ ParsedTo(v, at).value = v /\ ParsedTo(v, at).at = at
BY DEF ParsedTo

\* JavaType::parse is the inverse of the descriptor
LEMMA ParseIs ==
  ASSUME NEW S, NEW d \in Seq(S)
  PROVE  /\ \A t \in TypesOver(S) : d = Descriptor(t) => Parse(d) = Parsed(t)
         /\ Parse(d).ok => \E t \in TypesOver(S) : d = Descriptor(t) /\ Parse(d) = Parsed(t)
<1>1. Len(d) \in Nat /\ 1 \in 1 .. Len(d) + 1 /\ DOMAIN d = 1 .. Len(d)
  OBVIOUS
<1>2. Allowed(S, FALSE) = TypesOver(S)
  BY DEF Allowed
<1>3. ASSUME NEW t \in TypesOver(S), d = Descriptor(t) PROVE Parse(d) = Parsed(t)
  <2>1. StandsAt(d, 1, t)
    <3>1. 1 + Len(d) - 1 <= Len(d) /\ \A x \in 1 .. Len(d) : 1 + x - 1 = x
      BY <1>1
    <3> QED
      BY <1>3, <3>1 DEF StandsAt
  <2>2. ParseType(d, 1, FALSE) = ParsedTo(t, 1 + Len(d))
    <3>1. t \in Allowed(S, FALSE) /\ FALSE \in BOOLEAN
      BY <1>2, <1>3
    <3>2. ParseType(d, 1, FALSE) = ParsedTo(t, 1 + Len(Descriptor(t)))
      BY <1>1, <2>1, <3>1, ParseTypeFinds
    <3> QED
      BY <1>3, <3>2
  <2>3. 1 + Len(d) = Len(d) + 1
    BY <1>1
  <2> QED
    <3>1. /\ ParsedTo(t, 1 + Len(d)).ok /\ ParsedTo(t, 1 + Len(d)).at = Len(d) + 1
          /\ ParsedTo(t, 1 + Len(d)).value = t
      BY <2>3 DEF ParsedTo
    <3> QED
      BY <2>2, <3>1, Zenon DEF Parse, Whole
<1>4. ASSUME Parse(d).ok
      PROVE  \E t \in TypesOver(S) : d = Descriptor(t)
  <2>1. ParseType(d, 1, FALSE).ok /\ ParseType(d, 1, FALSE).at = Len(d) + 1
    BY <1>4 DEF Parse, Whole, Failed
  <2>2. PICK t \in TypesOver(S) : StandsAt(d, 1, t) /\ ParseType(d, 1, FALSE) = ParsedTo(t, 1 + Len(Descriptor(t)))
    <3>1. FALSE \in BOOLEAN
      OBVIOUS
    <3>2. \E t \in Allowed(S, FALSE) :
           /\ StandsAt(d, 1, t) /\ ParseType(d, 1, FALSE) = ParsedTo(t, 1 + Len(Descriptor(t)))
      BY <1>1, <2>1, <3>1, ParseTypeGives, ZenonT(60)
    <3> QED
      BY <1>2, <3>2
  <2>3. PICK D : D = Descriptor(t)
    OBVIOUS
  <2>4. Len(D) \in Nat /\ 1 + Len(D) = Len(d) + 1 /\ \A x \in 1 .. Len(D) : d[1 + x - 1] = D[x]
    <3>1. Len(D) \in Nat
      BY <2>2, <2>3, DescriptorLength
    <3>2. 1 + Len(D) = Len(d) + 1
      <4>1. PICK at : at = 1 + Len(D)
        OBVIOUS
      <4>2. ParseType(d, 1, FALSE) = ParsedTo(t, at)
        BY <2>2, <2>3, <4>1, Zenon
      <4>3. ParseType(d, 1, FALSE).at = at
        <5>1. PICK p : p = ParseType(d, 1, FALSE)
          OBVIOUS
        <5>2. p = ParsedTo(t, at)
          BY <4>2, <5>1, Zenon
        <5>3. p.at = at
          BY <5>2 DEF ParsedTo
        <5> QED
          BY <5>1, <5>3, Zenon
      <4> QED
        BY <2>1, <4>1, <4>3, Zenon
    <3> QED
      BY <2>2, <2>3, <3>1, <3>2 DEF StandsAt
  <2>5. \E A : D \in Seq(A)
    BY <2>2, <2>3, DescriptorIs, Zenon
  <2>6. Len(D) = Len(d) /\ \A x \in 1 .. Len(D) : d[x] = D[x]
    BY <1>1, <2>4
  <2>7. d = D
    BY <2>5, <2>6, AnySequences
  <2> QED
    BY <2>2, <2>3, <2>7
<1> QED
  BY <1>3, <1>4

\* the brackets of a descriptor, and the descriptor without them
LEMMA DescriptorParts ==
  ASSUME NEW S, NEW t \in TypesOver(S) \cup {Void}
  PROVE  \E A : LET D == Descriptor(t)
                    D0 == Descriptor([t EXCEPT !.dims = 0]) IN
           /\ D \in Seq(A) /\ D0 \in Seq(A) /\ Len(D) = t.dims + Len(D0)
           /\ \A i \in 1 .. t.dims : D[i] = "["
           /\ \A i \in 1 .. Len(D0) : D[t.dims + i] = D0[i]
<1>1. PICK n \in Nat : n = t.dims
  BY TextTypesAre
<1>2. PICK u : u = [t EXCEPT !.dims = 0]
  OBVIOUS
<1>3. u.dims = 0 /\ u.base = t.base /\ u.name = t.name
  BY <1>2, TextTypesAre
<1>4. PICK X : X = IF t.base = "object" THEN <<"L">> \o t.name \o <<Semicolon>> ELSE <<Letters[t.base]>>
  OBVIOUS
<1>5. Descriptor(t) = [i \in 1 .. n |-> "["] \o X /\ Descriptor(u) = [i \in 1 .. 0 |-> "["] \o X
  BY <1>1, <1>3, <1>4, DescriptorDef, Zenon
<1>6. PICK A : "[" \in A /\ X \in Seq(A)
  <2>1. CASE t.base = "object"
    <3>1. PICK A : A = S \cup {"L", "[", Semicolon}
      OBVIOUS
    <3>2. "L" \in A /\ Semicolon \in A /\ "[" \in A /\ S \subseteq A
      BY <3>1
    <3>3. t.name \in Seq(A)
      BY <2>1, <3>2, TextTypesAre, SequencesOfMore
    <3>4. X \in Seq(A)
      BY <1>4, <2>1, <3>2, <3>3, NamedTextIs
    <3> QED
      BY <3>2, <3>4
  <2>2. CASE t.base # "object"
    <3>1. PICK A : A = {"[", Letters[t.base]}
      OBVIOUS
    <3>2. X \in Seq(A)
      BY <1>4, <2>2, <3>1, SingleIs
    <3> QED
      BY <3>1, <3>2
  <2> QED
    BY <2>1, <2>2
<1>7. PICK b, c : /\ b = [i \in 1 .. n |-> "["] /\ c = [i \in 1 .. 0 |-> "["]
                  /\ b \in Seq(A) /\ c \in Seq(A) /\ Len(b) = n /\ Len(c) = 0 /\ \A i \in 1 .. n : b[i] = "["
  <2>1. 0 \in Nat
    OBVIOUS
  <2>2. PICK b, c : b = [i \in 1 .. n |-> "["] /\ c = [i \in 1 .. 0 |-> "["]
    OBVIOUS
  <2>3. b \in Seq(A) /\ Len(b) = n /\ \A i \in 1 .. n : b[i] = "["
    BY <1>6, <2>2, RepeatedIs
  <2>4. c \in Seq(A) /\ Len(c) = 0
    BY <1>6, <2>1, <2>2, RepeatedIs
  <2> QED
    BY <2>2, <2>3, <2>4, Zenon
<1>8. PICK D, D0 : D = b \o X /\ D0 = c \o X
  OBVIOUS
<1>9. /\ D \in Seq(A) /\ Len(D) = n + Len(X)
      /\ \A i \in 1 .. n : D[i] = "["
      /\ \A i \in 1 .. Len(X) : D[n + i] = X[i]
  BY <1>6, <1>7, <1>8, JoinIs
<1>10. D0 \in Seq(A) /\ Len(D0) = Len(X) /\ \A i \in 1 .. Len(X) : D0[i] = X[i]
  <2>1. Len(X) \in Nat
    BY <1>6
  <2>2. D0 \in Seq(A) /\ Len(D0) = Len(c) + Len(X) /\ \A i \in 1 .. Len(X) : D0[Len(c) + i] = X[i]
    BY <1>6, <1>7, <1>8, JoinIs
  <2> QED
    BY <1>7, <2>1, <2>2
<1>11. /\ D \in Seq(A) /\ D0 \in Seq(A) /\ Len(D) = n + Len(D0)
       /\ \A i \in 1 .. n : D[i] = "["
       /\ \A i \in 1 .. Len(D0) : D[n + i] = D0[i]
  BY <1>9, <1>10
<1> QED
  BY <1>1, <1>2, <1>5, <1>7, <1>8, <1>11, Zenon

LEMMA DescribesIs ==
  ASSUME NEW S, NEW d \in Seq(S), NEW t \in TypesOver(S)
  PROVE  DescribesType(d, t) <=> d = Descriptor(t)
<1>1. PICK n \in Nat : n = t.dims
  BY TextTypesAre
<1>12. PICK D, D0 : D = Descriptor(t) /\ D0 = Descriptor([t EXCEPT !.dims = 0])
  OBVIOUS
<1>2. PICK A :
           /\ D \in Seq(A) /\ D0 \in Seq(A) /\ Len(D) = n + Len(D0)
           /\ \A i \in 1 .. n : D[i] = "["
           /\ \A i \in 1 .. Len(D0) : D[n + i] = D0[i]
  <2>1. t \in TypesOver(S) \cup {Void}
    OBVIOUS
  <2> QED
    BY <1>1, <1>12, <2>1, DescriptorParts, Zenon
<1>3. IF t.base = "object" THEN t.name # <<>> /\ ~Has(t.name, Semicolon) ELSE t.base # "void"
  <2>1. t.base = "object" => t.name \in NamesOver(S)
    BY TextTypesAre
  <2>2. t.base # "void"
    BY PrimsAre DEF TypesOver
  <2> QED
    BY <2>1, <2>2 DEF NamesOver
<1>4. DescribesType(d, t) <=> n <= Len(d) /\ (\A i \in 1 .. n : d[i] = "[") /\ Suffix(d, n) = D0
  BY <1>1, <1>12, <1>3, DescribesTypeDef, Zenon
<1>5. Len(d) \in Nat /\ Len(D0) \in Nat
  BY <1>2
<1>6. n <= Len(d) => /\ Suffix(d, n) \in Seq(S) /\ Len(Suffix(d, n)) = Len(d) - n
                     /\ \A i \in 1 .. Len(d) - n : Suffix(d, n)[i] = d[n + i]
  BY <1>5, PartIs DEF Suffix
<1>7. ASSUME DescribesType(d, t) PROVE d = D
  <2>1. Len(d) - n = Len(D0) /\ \A i \in 1 .. Len(d) - n : D0[i] = d[n + i]
    BY <1>4, <1>6, <1>7
  <2>2. ASSUME NEW i \in 1 .. Len(D) PROVE d[i] = D[i]
    <3>1. CASE i <= n
      BY <1>1, <1>2, <1>4, <1>7, <3>1
    <3>2. CASE i > n
      <4>1. i - n \in 1 .. Len(D0) /\ n + (i - n) = i /\ i - n \in 1 .. Len(d) - n
        BY <1>2, <1>5, <2>1, <3>2
      <4> QED
        BY <1>2, <2>1, <4>1
    <3> QED
      BY <1>2, <3>1, <3>2
  <2>3. Len(d) = Len(D)
    BY <1>2, <1>4, <1>5, <1>7, <2>1
  <2> QED
    BY <1>2, <2>2, <2>3, AnySequences
<1>8. ASSUME d = D PROVE DescribesType(d, t)
  <2>1. n <= Len(d) /\ Len(d) - n = Len(D0) /\ \A i \in 1 .. n : d[i] = "["
    BY <1>2, <1>5, <1>8
  <2>2. Len(Suffix(d, n)) = Len(D0) /\ Suffix(d, n) \in Seq(S)
    BY <1>6, <2>1
  <2>3. \A i \in 1 .. Len(D0) : Suffix(d, n)[i] = D0[i]
    BY <1>2, <1>6, <1>8, <2>1
  <2>4. Suffix(d, n) = D0
    <3>1. PICK s : s = Suffix(d, n)
      OBVIOUS
    <3>2. s \in Seq(S) /\ D0 \in Seq(A) /\ Len(s) = Len(D0) /\ \A i \in 1 .. Len(D0) : s[i] = D0[i]
      BY <1>2, <2>2, <2>3, <3>1
    <3> QED
      BY <3>1, <3>2, AnySequences
  <2> QED
    BY <1>4, <2>1, <2>4
<1> QED
  BY <1>12, <1>7, <1>8, Zenon

LEMMA TypesInAre ==
  ASSUME NEW S, NEW d \in Seq(S), NEW t
  PROVE  t \in TypesIn(d) /\ DescribesType(d, t) <=> t \in TypesOver(S) /\ d = Descriptor(t)
<1>1. Len(d) \in Nat
  OBVIOUS
<1>2. ASSUME t \in TypesIn(d), DescribesType(d, t) PROVE t \in TypesOver(S)
  <2>1. CASE t \in {[base |-> b, name |-> <<>>, dims |-> n] : b \in Words, n \in 0 .. Len(d)}
    <3>1. t.base # "object" /\ t.base \in Words
      BY <2>1, PrimsAre
    <3>2. t.base # "void"
      BY <1>2, <3>1, DescribesTypeDef, Zenon
    <3> QED
      BY <1>1, <2>1, <3>1, <3>2, PrimsAre DEF TypesOver
  <2>2. CASE t \in {[base |-> "object", name |-> name, dims |-> n] : name \in Subtexts(d), n \in 0 .. Len(d)}
    <3>1. PICK name \in Subtexts(d), n \in 0 .. Len(d) : t = [base |-> "object", name |-> name, dims |-> n]
      BY <2>2
    <3>2. PICK i \in 1 .. Len(d), j \in 1 .. Len(d) : name = SubSeq(d, i, j) /\ name # <<>>
      BY DEF Subtexts
    <3>3. name \in Seq(S)
      <4>1. CASE i <= j
        <5>1. i - 1 \in Nat /\ j \in Nat /\ i - 1 <= j /\ j <= Len(d) /\ (i - 1) + 1 = i
          BY <1>1, <4>1
        <5>2. SubSeq(d, (i - 1) + 1, j) \in Seq(S)
          BY <5>1, PartIs
        <5> QED
          BY <3>2, <5>1, <5>2
      <4>2. CASE j < i
        BY <3>2, <4>2
      <4> QED
        BY <4>1, <4>2
    <3>4. ~Has(name, Semicolon)
      <4>1. t.base = "object" /\ t.name = name
        BY <3>1
      <4> QED
        BY <1>2, <4>1, DescribesTypeDef, Zenon
    <3> QED
      BY <1>1, <3>1, <3>2, <3>3, <3>4 DEF TypesOver, NamesOver
  <2> QED
    BY <1>2, <2>1, <2>2 DEF TypesIn
<1>3. ASSUME t \in TypesOver(S), d = Descriptor(t) PROVE t \in TypesIn(d)
  <2>1. PICK n \in Nat : n = t.dims
    BY <1>3, TextTypesAre
  <2>0. t \in TypesOver(S) \cup {Void}
    BY <1>3
  <2>2. CASE t.base = "object"
    <3>1. PICK name : name = t.name
      OBVIOUS
    <3>2. Len(d) = n + Len(name) + 2 /\ \A x \in 1 .. Len(name) : d[n + 1 + x] = name[x]
      BY <1>3, <2>0, <2>1, <2>2, <3>1, ObjectDescriptorIs, Zenon
    <3>3. name \in Seq(S) /\ Len(name) > 0 /\ name # <<>> /\ Len(name) \in Nat
      BY <2>0, <2>2, <3>1, TextTypesAre
    <3>4. PICK part : part = SubSeq(d, (n + 1) + 1, n + 1 + Len(name))
      OBVIOUS
    <3>5. part \in Seq(S) /\ Len(part) = Len(name) /\ \A x \in 1 .. Len(name) : part[x] = d[n + 1 + x]
      <4>1. n + 1 \in Nat /\ n + 1 + Len(name) \in Nat /\ n + 1 <= n + 1 + Len(name) /\ n + 1 + Len(name) <= Len(d)
            /\ n + 1 + Len(name) - (n + 1) = Len(name)
        BY <3>2, <3>3
      <4> QED
        <5>1. PICK a \in Nat, b \in Nat : a = n + 1 /\ b = n + 1 + Len(name)
          BY <4>1
        <5>2. a <= b /\ b <= Len(d) /\ b - a = Len(name) /\ part = SubSeq(d, a + 1, b)
          BY <3>4, <4>1, <5>1
        <5>3. part \in Seq(S) /\ Len(part) = b - a /\ \A x \in 1 .. b - a : part[x] = d[a + x]
          BY <5>2, PartIs
        <5> QED
          BY <5>1, <5>2, <5>3
    <3>6. part = name
      BY <3>2, <3>3, <3>5, SameSequence
    <3>7. n + 1 + 1 \in 1 .. Len(d) /\ n + 1 + Len(name) \in 1 .. Len(d) /\ n \in 0 .. Len(d)
      BY <3>2, <3>3
    <3>8. name \in Subtexts(d)
      BY <3>3, <3>4, <3>6, <3>7 DEF Subtexts
    <3>9. t = [base |-> "object", name |-> name, dims |-> n]
      BY <2>0, <2>1, <2>2, <3>1, TextTypesAre
    <3> QED
      BY <3>7, <3>8, <3>9 DEF TypesIn
  <2>3. CASE t.base # "object"
    <3>1. Len(d) = n + 1
      BY <1>3, <2>0, <2>1, <2>3, DescriptorIs, Zenon
    <3>2. t.base \in Words /\ t = [base |-> t.base, name |-> <<>>, dims |-> n]
      BY <2>0, <2>1, <2>3, TextTypesAre
    <3>3. n \in 0 .. Len(d)
      BY <3>1
    <3> QED
      BY <3>2, <3>3 DEF TypesIn
  <2> QED
    BY <2>2, <2>3
<1>4. t \in TypesOver(S) => (DescribesType(d, t) <=> d = Descriptor(t))
  BY DescribesIs
<1> QED
  BY <1>2, <1>3, <1>4, Zenon

(* JavaType::parse accepts exactly the descriptors of types, for texts of  *)
(* any length over any characters, and no text is the descriptor of two.   *)
THEOREM DescriptorsAlwaysParse ==
  ASSUME NEW S, NEW d \in Seq(S)
  PROVE  ParsesDescriptors(d)
<1> DEFINE types == {t \in TypesIn(d) : DescribesType(d, t)}
<1>1. \A t : t \in types <=> t \in TypesOver(S) /\ d = Descriptor(t)
  BY TypesInAre, Zenon
<1>2. ASSUME NEW t \in types PROVE Parse(d).ok /\ Parse(d).value = t
  <2>1. Parse(d) = Parsed(t)
    BY <1>1, ParseIs, Zenon
  <2> QED
    BY <2>1 DEF Parsed
<1>3. Parse(d).ok => types # {}
  BY <1>1, ParseIs
<1> HIDE DEF types
<1>4. IF Parse(d).ok THEN types = {Parse(d).value} ELSE types = {}
  BY <1>2, <1>3
<1> QED
  BY <1>4 DEF types, ParsesDescriptors

\* the tokens of a JVM descriptor: neither dots nor what only source-style names hold
IsPlain(S) == S \cap ({".", "[]"} \cup Words) = {}

LEMMA WordsAreNot == {"[]", ".", "name", "L", "[", "/"} \cap Words = {}
BY DEF Words, Letters

Rewrites(r, A, s, old, new) ==
  /\ r \in Seq(A) /\ Len(r) = Len(s)
  /\ \A i \in 1 .. Len(s) : r[i] = IF s[i] = old THEN new ELSE s[i]
LEMMA ReplacedIs ==
  ASSUME NEW A, NEW old, NEW new \in A, NEW s \in Seq(A)
  PROVE  Rewrites(Replaced(s, old, new), A, s, old, new)
<1>0. PICK r : r = Replaced(s, old, new)
  OBVIOUS
<1>1. Len(s) \in Nat /\ DOMAIN s = 1 .. Len(s) /\ \A i \in 1 .. Len(s) : s[i] \in A
  OBVIOUS
<1>2. r = [i \in 1 .. Len(s) |-> IF s[i] = old THEN new ELSE s[i]]
  BY <1>0, <1>1 DEF Replaced
<1>4. r \in [1 .. Len(s) -> A] /\ \A i \in 1 .. Len(s) : r[i] = IF s[i] = old THEN new ELSE s[i]
  BY <1>1, <1>2
<1>5. ASSUME NEW n \in Nat, NEW f \in [1 .. n -> A] PROVE f \in Seq(A) /\ Len(f) = n
  OBVIOUS
<1>6. r \in Seq(A) /\ Len(r) = Len(s)
  BY <1>1, <1>4, <1>5
<1> QED
  BY <1>0, <1>4, <1>6 DEF Rewrites

LEMMA ReplacedBack ==
  ASSUME NEW S, NEW s \in Seq(S), NEW old, NEW new, new \notin S
  PROVE  Replaced(Replaced(s, old, new), new, old) = s
<1>1. PICK A : A = S \cup {old, new}
  OBVIOUS
<1>2. s \in Seq(A) /\ old \in A /\ new \in A
  <2>1. S \subseteq A
    BY <1>1
  <2> QED
    BY <1>1, <2>1, SequencesOfMore
<1>3. PICK r : r = Replaced(s, old, new)
  OBVIOUS
<1>4. r \in Seq(A) /\ Len(r) = Len(s) /\ \A i \in 1 .. Len(s) : r[i] = IF s[i] = old THEN new ELSE s[i]
  <2>1. Rewrites(Replaced(s, old, new), A, s, old, new)
    BY <1>2, ReplacedIs, Zenon
  <2> QED
    BY <1>3, <2>1 DEF Rewrites
<1>5. PICK b : b = Replaced(r, new, old)
  OBVIOUS
<1>6. b \in Seq(A) /\ Len(b) = Len(r) /\ \A i \in 1 .. Len(r) : b[i] = IF r[i] = new THEN old ELSE r[i]
  <2>1. Rewrites(Replaced(r, new, old), A, r, new, old)
    BY <1>2, <1>4, ReplacedIs, Zenon
  <2> QED
    BY <1>5, <2>1 DEF Rewrites
<1>7. \A i \in 1 .. Len(s) : b[i] = s[i]
  <2>1. \A i \in 1 .. Len(s) : s[i] # new
    OBVIOUS
  <2> QED
    BY <1>4, <1>6, <2>1
<1>8. b = s
  BY <1>4, <1>6, <1>7, AnySequences
<1> QED
  BY <1>3, <1>5, <1>8

LEMMA ReplacedNothing ==
  ASSUME NEW S, NEW s \in Seq(S), NEW old, NEW new, old \notin S
  PROVE  Replaced(s, old, new) = s
<1>1. PICK A : A = S \cup {old, new}
  OBVIOUS
<1>2. s \in Seq(A) /\ old \in A /\ new \in A
  <2>1. S \subseteq A
    BY <1>1
  <2> QED
    BY <1>1, <2>1, SequencesOfMore
<1>3. PICK r : r = Replaced(s, old, new)
  OBVIOUS
<1>4. r \in Seq(A) /\ Len(r) = Len(s) /\ \A i \in 1 .. Len(s) : r[i] = IF s[i] = old THEN new ELSE s[i]
  <2>1. Rewrites(Replaced(s, old, new), A, s, old, new)
    BY <1>2, ReplacedIs, Zenon
  <2> QED
    BY <1>3, <2>1 DEF Rewrites
<1>5. \A i \in 1 .. Len(s) : s[i] # old
  OBVIOUS
<1>6. r = s
  BY <1>4, <1>5, AnySequences
<1> QED
  BY <1>3, <1>6

ElementName(t) == IF t.base = "object" THEN Replaced(t.name, "/", ".") ELSE <<t.base>>
PrettyTokens(S) == S \cup {".", "[]"} \cup Words

\* the element type's name, and the brackets of a source-style name
IsPretty(p, E, n, A) ==
  /\ E \in Seq(A) /\ Len(E) >= 1 /\ \A i \in 1 .. Len(E) : E[i] # "[]"
  /\ p \in Seq(A) /\ Len(p) = Len(E) + n
  /\ \A i \in 1 .. Len(E) : p[i] = E[i]
  /\ \A i \in 1 .. n : p[Len(E) + i] = "[]"
LEMMA PrettyParts ==
  ASSUME NEW S, IsPlain(S), NEW t \in TypesOver(S) \cup {Void},
         NEW E, E = ElementName(t),
         NEW p, p = PrettyName(t), NEW A, A = PrettyTokens(S)
  PROVE  IsPretty(p, E, t.dims, A)
<1>1. A = S \cup {".", "[]"} \cup Words
  BY DEF PrettyTokens
<1>2. PICK n \in Nat : n = t.dims
  BY TextTypesAre
<1>3. "[]" \notin S /\ "[]" \notin Words
  BY WordsAreNot DEF IsPlain
<1>4. E \in Seq(A) /\ Len(E) >= 1 /\ \A i \in 1 .. Len(E) : E[i] # "[]"
  <2>1. CASE t.base = "object"
    <3>1. PICK name \in Seq(S) : name = t.name /\ Len(name) > 0
      BY <2>1, TextTypesAre
    <3>2. name \in Seq(A) /\ "." \in A
      <4>1. S \subseteq A /\ "." \in A
        BY <1>1
      <4> QED
        BY <4>1, SequencesOfMore
    <3>3. E = Replaced(name, "/", ".")
      BY <2>1, <3>1 DEF ElementName
    <3>4. E \in Seq(A) /\ Len(E) = Len(name) /\ \A i \in 1 .. Len(name) : E[i] = IF name[i] = "/" THEN "." ELSE name[i]
      <4>1. Rewrites(Replaced(name, "/", "."), A, name, "/", ".")
        BY <3>2, ReplacedIs, Zenon
      <4> QED
        BY <3>3, <4>1 DEF Rewrites
    <3>5. Len(name) \in Nat /\ \A i \in 1 .. Len(name) : name[i] \in S
      OBVIOUS
    <3> QED
      BY <1>3, <3>1, <3>4, <3>5
  <2>2. CASE t.base # "object"
    <3>1. E = <<t.base>> /\ t.base \in Words /\ t.base \in A
      BY <1>1, <2>2, TextTypesAre DEF ElementName
    <3>2. E \in Seq(A) /\ Len(E) = 1 /\ E[1] = t.base
      BY <3>1, SingleIs
    <3> QED
      BY <1>3, <3>1, <3>2
  <2> QED
    BY <2>1, <2>2
<1>5. PICK b : b = [i \in 1 .. n |-> "[]"] /\ b \in Seq(A) /\ Len(b) = n /\ \A i \in 1 .. n : b[i] = "[]"
  <2>1. "[]" \in A
    BY <1>1
  <2>2. PICK b : b = [i \in 1 .. n |-> "[]"]
    OBVIOUS
  <2> QED
    BY <2>1, <2>2, RepeatedIs
<1>6. PrettyName(t) = E \o b
  BY <1>2, <1>5, Zenon DEF PrettyName, ElementName
<1>7. p = E \o b
  BY <1>6
<1>8. /\ p \in Seq(A) /\ Len(p) = Len(E) + n
      /\ \A i \in 1 .. Len(E) : p[i] = E[i]
      /\ \A i \in 1 .. n : p[Len(E) + i] = "[]"
  BY <1>4, <1>5, <1>7, JoinIs
<1> QED
  BY <1>2, <1>4, <1>8 DEF IsPretty

LEMMA BracketsAre ==
  ASSUME NEW A, NEW p \in Seq(A), NEW k \in Nat, NEW n \in Nat, k >= 1, Len(p) = k + n, p[k] # "[]",
         \A i \in 1 .. n : p[k + i] = "[]"
  PROVE  Brackets(p) = n
<1> DEFINE Good(m) == /\ \A i \in Len(p) - m + 1 .. Len(p) : p[i] = "[]"
                      /\ m = Len(p) \/ p[Len(p) - m] # "[]"
<1>1. n \in 0 .. Len(p) /\ Good(n)
  <2>1. ASSUME NEW i \in Len(p) - n + 1 .. Len(p) PROVE p[i] = "[]"
    <3>1. i - k \in 1 .. n /\ k + (i - k) = i
      OBVIOUS
    <3> QED
      BY <3>1
  <2>2. Len(p) - n = k /\ n \in 0 .. Len(p)
    OBVIOUS
  <2> QED
    BY <2>1, <2>2
<1>2. ASSUME NEW m \in 0 .. Len(p), Good(m) PROVE m = n
  <2>1. CASE m < n
    <3>1. (n - m) \in 1 .. n /\ k + (n - m) = Len(p) - m /\ m # Len(p)
      BY <2>1
    <3> QED
      BY <1>2, <3>1
  <2>2. CASE m > n
    <3>1. k \in Len(p) - m + 1 .. Len(p)
      BY <2>2
    <3> QED
      BY <1>2, <3>1
  <2> QED
    BY <2>1, <2>2
<1>3. Brackets(p) = CHOOSE m \in 0 .. Len(p) : Good(m)
  BY DEF Brackets
<1> HIDE DEF Good
<1> QED
  BY <1>1, <1>2, <1>3

(* from_pretty_name reads the source-style name of a type as that type.    *)
LEMMA PrettyNamesAreRead ==
  ASSUME NEW S, IsPlain(S), NEW t \in TypesOver(S) \cup {Void}
  PROVE  FromPrettyName(PrettyName(t)) = Parsed(t)
<1>1. PICK n \in Nat : n = t.dims
  BY TextTypesAre
<1>2. PICK E : E = ElementName(t)
  OBVIOUS
<1>13. PICK A, p : A = PrettyTokens(S) /\ p = PrettyName(t)
  OBVIOUS
<1>3.    /\ p = PrettyName(t)
         /\ E \in Seq(A) /\ Len(E) >= 1 /\ \A i \in 1 .. Len(E) : E[i] # "[]"
         /\ p \in Seq(A) /\ Len(p) = Len(E) + n
         /\ \A i \in 1 .. Len(E) : p[i] = E[i]
         /\ \A i \in 1 .. n : p[Len(E) + i] = "[]"
  <2>1. IsPretty(p, E, t.dims, A)
    BY <1>2, <1>13, PrettyParts
  <2> QED
    BY <1>1, <1>13, <2>1 DEF IsPretty
<1>4. Len(E) \in Nat /\ p[Len(E)] # "[]"
  <2>1. Len(E) \in Nat
    BY <1>3
  <2>2. Len(E) \in 1 .. Len(E)
    BY <1>3, <2>1
  <2> QED
    BY <1>3, <2>1, <2>2
<1>5. Brackets(p) = n
  BY <1>3, <1>4, BracketsAre
<1>6. SubSeq(p, 1, Len(p) - n) = E
  <2>1. PICK part : part = SubSeq(p, 1, Len(p) - n)
    OBVIOUS
  <2>2. Len(p) - n = Len(E) /\ 0 \in Nat /\ 0 <= Len(E) /\ Len(E) <= Len(p) /\ 0 + 1 = 1 /\ Len(E) - 0 = Len(E)
    BY <1>3, <1>4
  <2>3. part = SubSeq(p, 0 + 1, Len(E))
    BY <2>1, <2>2
  <2>4. part \in Seq(A) /\ Len(part) = Len(E) - 0 /\ \A i \in 1 .. Len(E) - 0 : part[i] = p[0 + i]
    BY <1>3, <1>4, <2>2, <2>3, PartIs
  <2>5. Len(part) = Len(E) /\ \A i \in 1 .. Len(E) : part[i] = E[i]
    BY <1>3, <1>4, <2>4
  <2>6. part = E
    BY <1>3, <2>4, <2>5, SameSequence
  <2> QED
    BY <2>1, <2>6
<1>7. E # <<>>
  BY <1>3
<1> DEFINE word == IF Len(E) = 1 THEN E[1] ELSE "name"
<1>8. FromPrettyName(p) =
        CASE E = <<>> -> Failed
          [] word = "void" -> IF n = 0 THEN Parsed(Void) ELSE Failed
          [] word \in Prims -> Parsed([Prim(word) EXCEPT !.dims = n])
          [] OTHER -> Parsed([ObjectType(Replaced(E, ".", "/")) EXCEPT !.dims = n])
  BY <1>5, <1>6, Zenon DEF FromPrettyName
<1>9. CASE t.base = "object"
  <2>1. PICK name \in Seq(S) : name = t.name
    BY <1>9, TextTypesAre
  <2>2. "." \notin S
    BY DEF IsPlain
  <2>3. E = Replaced(name, "/", ".") /\ Replaced(E, ".", "/") = name
    BY <1>2, <1>9, <2>1, <2>2, ReplacedBack DEF ElementName
  <2>4. word \notin Words
    <3>1. PICK B : B = S \cup {"."}
      OBVIOUS
    <3>2. E \in Seq(B)
      <4>1. S \subseteq B /\ "." \in B
        BY <3>1
      <4>2. name \in Seq(B)
        BY <4>1, SequencesOfMore
      <4> QED
        <5>1. Rewrites(Replaced(name, "/", "."), B, name, "/", ".")
          BY <4>1, <4>2, ReplacedIs, Zenon
        <5> QED
          BY <2>3, <5>1 DEF Rewrites
    <3>3. E[1] \in B
      BY <1>3, <3>2
    <3>4. B \cap Words = {} /\ "name" \notin Words
      BY <3>1, WordsAreNot DEF IsPlain
    <3> QED
      BY <3>3, <3>4
  <2>5. word # "void" /\ word \notin Prims
    BY <2>4, PrimsAre
  <2>6. t = [ObjectType(name) EXCEPT !.dims = n]
    BY <1>1, <1>9, <2>1, TextTypesAre DEF ObjectType
  <2> HIDE DEF word
  <2>7. FromPrettyName(p) = Parsed([ObjectType(Replaced(E, ".", "/")) EXCEPT !.dims = n])
    BY <1>7, <1>8, <2>5
  <2> QED
    BY <1>3, <2>3, <2>6, <2>7
<1>10. CASE t.base # "object"
  <2>1. t.base \in Words /\ t = [base |-> t.base, name |-> <<>>, dims |-> n]
    BY <1>1, <1>10, TextTypesAre
  <2>2. E = <<t.base>>
    BY <1>2, <1>10 DEF ElementName
  <2>3. word = t.base
    BY <2>2
  <2> HIDE DEF word
  <2>4. CASE t.base = "void"
    <3>1. t = Void /\ n = 0
      <4>1. t \notin TypesOver(S)
        BY <2>4, PrimsAre DEF TypesOver
      <4>2. t = Void
        BY <4>1
      <4> QED
        BY <1>1, <4>2, VoidIs
    <3> QED
      BY <1>3, <1>7, <1>8, <2>3, <2>4, <3>1, PrimsAre
  <2>5. CASE t.base # "void"
    <3>1. t.base \in Prims /\ word # "void"
      BY <2>1, <2>3, <2>5, PrimsAre
    <3>2. FromPrettyName(p) = Parsed([Prim(t.base) EXCEPT !.dims = n])
      BY <1>7, <1>8, <2>3, <3>1
    <3>3. [Prim(t.base) EXCEPT !.dims = n] = t
      BY <2>1 DEF Prim
    <3> QED
      BY <1>3, <3>2, <3>3
  <2> QED
    BY <2>4, <2>5
<1> QED
  BY <1>9, <1>10

LEMMA SequencesAre ==
  ASSUME NEW B, NEW n \in Nat, NEW f \in [1 .. n -> B] PROVE f \in Seq(B) /\ Len(f) = n
OBVIOUS

LEMMA ReplacedOnce ==
  ASSUME NEW S, NEW s \in Seq(S), NEW old, NEW new, old # new
  PROVE  Replaced(Replaced(s, old, new), old, new) = Replaced(s, old, new)
<1>1. PICK A, B : A = S \cup {new} /\ B = A \ {old}
  OBVIOUS
<1>2. new \in A /\ s \in Seq(A)
  <2>1. S \subseteq A /\ new \in A
    BY <1>1
  <2> QED
    BY <2>1, SequencesOfMore
<1>3. PICK r : r = Replaced(s, old, new)
  OBVIOUS
<1>4. r \in Seq(A) /\ Len(r) = Len(s) /\ \A i \in 1 .. Len(s) : r[i] = IF s[i] = old THEN new ELSE s[i]
  <2>1. Rewrites(Replaced(s, old, new), A, s, old, new)
    BY <1>2, ReplacedIs, Zenon
  <2> QED
    BY <1>3, <2>1 DEF Rewrites
<1>5. \A i \in 1 .. Len(r) : r[i] \in B
  <2>1. \A i \in 1 .. Len(r) : r[i] \in A
    BY <1>4
  <2> QED
    BY <1>1, <1>4, <2>1
<1>6. r \in Seq(B)
  <2>1. Len(r) \in Nat
    BY <1>4
  <2>2. PICK n \in Nat : n = Len(r)
    BY <2>1
  <2>3. r \in [1 .. n -> B]
    BY <1>4, <1>5, <2>2
  <2> QED
    BY <2>3, <2>2, SequencesAre
<1>7. old \notin B
  BY <1>1
<1>8. Replaced(r, old, new) = r
  BY <1>6, <1>7, ReplacedNothing
<1> QED
  BY <1>3, <1>8

\* what the parser accepts looks like a descriptor
LEMMA ParsedLooksLikeDescriptor ==
  ASSUME NEW S, NEW d \in Seq(S), Parse(d).ok
  PROVE  LooksLikeDescriptor(d)
<1>1. PICK t \in TypesOver(S) : d = Descriptor(t)
  BY ParseIs
<1>2. t \in TypesOver(S) \cup {Void}
  OBVIOUS
<1>3. PICK n \in Nat : n = t.dims
  BY <1>2, TextTypesAre
<1>4. d # <<>>
  BY <1>1, <1>2, DescriptorLength
<1>5. (\A i \in 1 .. n : d[i] = "[") /\ d[n + 1] \in LetterSet \cup {"L"}
  <2>1. CASE t.base = "object"
    <3>1. (\A i \in 1 .. n : d[i] = "[") /\ d[n + 1] = "L"
      BY <1>1, <1>2, <1>3, <2>1, ObjectDescriptorIs, Zenon
    <3> QED
      BY <3>1
  <2>2. CASE t.base # "object"
    <3>1. (\A i \in 1 .. n : d[i] = "[") /\ d[n + 1] = Letters[t.base]
      BY <1>1, <1>2, <1>3, <2>2, DescriptorIs, Zenon
    <3>2. t.base \in Words
      BY <1>2, <2>2, TextTypesAre
    <3> QED
      BY <3>1, <3>2, LettersAre
  <2> QED
    BY <2>1, <2>2
<1>6. d[1] \in LetterSet \cup {"L", "["}
  <2>1. CASE n = 0
    <3>1. n + 1 = 1
      BY <2>1
    <3> QED
      BY <1>5, <3>1
  <2>2. CASE n # 0
    <3>1. 1 \in 1 .. n
      BY <2>2
    <3> QED
      BY <1>5, <3>1
  <2> QED
    BY <2>1, <2>2
<1> QED
  BY <1>4, <1>6 DEF LooksLikeDescriptor

\* the texts of an object type that is no array
LEMMA PlainObjectTexts ==
  ASSUME NEW S, IsPlain(S), NEW t \in TypesOver(S), t.base = "object", t.dims = 0,
         NEW d \in Seq(S), d = Descriptor(t)
  PROVE  /\ t.name \in Seq(S) /\ Len(t.name) >= 1
         /\ PrettyName(t) = Replaced(t.name, "/", ".")
         /\ Stripped(d) = t.name /\ d # <<>> /\ d[1] = "L"
         /\ d = <<"L">> \o t.name \o <<Semicolon>>
<1>0. t \in TypesOver(S) \cup {Void}
  OBVIOUS
<1>1. PICK name \in Seq(S) : name = t.name /\ Len(name) >= 1
  BY <1>0, TextTypesAre
<1>2. Len(name) \in Nat
  OBVIOUS
<1>3. PrettyName(t) = Replaced(name, "/", ".")
  <2>1. PICK E, p, A : E = ElementName(t) /\ p = PrettyName(t) /\ A = PrettyTokens(S)
    OBVIOUS
  <2>2. /\ E \in Seq(A) /\ p \in Seq(A) /\ Len(p) = Len(E) + t.dims
        /\ \A i \in 1 .. Len(E) : p[i] = E[i]
    <3>1. IsPretty(p, E, t.dims, A)
      BY <1>0, <2>1, PrettyParts
    <3> QED
      BY <3>1 DEF IsPretty
  <2>3. Len(p) = Len(E)
    <3>1. Len(E) \in Nat
      BY <2>2
    <3> QED
      BY <2>2, <3>1
  <2>4. p = E
    BY <2>2, <2>3, AnySequences
  <2> QED
    BY <1>1, <2>1, <2>4 DEF ElementName
<1>4. /\ Len(d) = Len(name) + 2 /\ d[1] = "L" /\ d[Len(d)] = Semicolon
      /\ \A x \in 1 .. Len(name) : d[1 + x] = name[x]
  <2>1. /\ Len(d) = 0 + Len(name) + 2 /\ d[0 + 1] = "L" /\ d[Len(d)] = Semicolon
        /\ \A x \in 1 .. Len(name) : d[0 + 1 + x] = name[x]
    BY <1>0, <1>1, ObjectDescriptorIs, SMTT(60)
  <2> QED
    BY <1>2, <2>1
<1>5. Stripped(d) = name
  <2>1. PICK part : part = SubSeq(d, 1 + 1, Len(d) - 1)
    OBVIOUS
  <2>2. 1 \in Nat /\ Len(d) - 1 \in Nat /\ 1 <= Len(d) - 1 /\ Len(d) - 1 <= Len(d) /\ (Len(d) - 1) - 1 = Len(name) /\ 1 + 1 = 2
    BY <1>1, <1>2, <1>4
  <2>3. PICK m \in Nat : m = Len(d) - 1
    BY <2>2
  <2>4. part \in Seq(S) /\ Len(part) = m - 1 /\ \A x \in 1 .. m - 1 : part[x] = d[1 + x]
    BY <2>1, <2>2, <2>3, PartIs
  <2>5. Len(part) = Len(name) /\ \A x \in 1 .. Len(name) : part[x] = name[x]
    BY <1>4, <2>2, <2>3, <2>4
  <2>6. part = name
    BY <2>4, <2>5, SameSequence
  <2>7. Len(d) > 1
    BY <1>1, <1>2, <1>4
  <2> QED
    BY <1>4, <2>1, <2>2, <2>6, <2>7, StrippedDef, Zenon
<1>6. d = <<"L">> \o name \o <<Semicolon>>
  <2>1. PICK A : A = S \cup {"L", Semicolon}
    OBVIOUS
  <2>2. name \in Seq(A) /\ "L" \in A /\ Semicolon \in A
    <3>1. S \subseteq A
      BY <2>1
    <3> QED
      BY <2>1, <3>1, SequencesOfMore
  <2>3. PICK e : e = <<"L">> \o name \o <<Semicolon>>
    OBVIOUS
  <2>4. /\ e \in Seq(A) /\ Len(e) = Len(name) + 2
        /\ e[1] = "L" /\ e[Len(name) + 2] = Semicolon
        /\ \A i \in 1 .. Len(name) : e[1 + i] = name[i]
    BY <2>2, <2>3, NamedTextIs
  <2>5. ASSUME NEW i \in 1 .. Len(e) PROVE d[i] = e[i]
    <3>1. CASE i = 1
      BY <1>4, <2>4, <3>1
    <3>2. CASE i = Len(name) + 2
      BY <1>4, <2>4, <3>2
    <3>3. CASE i # 1 /\ i # Len(name) + 2
      <4>1. i - 1 \in 1 .. Len(name) /\ 1 + (i - 1) = i
        BY <1>2, <2>4, <3>3
      <4> QED
        BY <1>4, <2>4, <4>1
    <3> QED
      BY <3>1, <3>2, <3>3
  <2>6. d = e
    BY <1>4, <2>4, <2>5, AnySequences
  <2> QED
    BY <2>3, <2>6
<1>7. d # <<>>
  BY <1>1, <1>2, <1>4
<1> QED
  BY <1>1, <1>3, <1>4, <1>5, <1>6, <1>7, Zenon

LEMMA NameIsPlain ==
  ASSUME NEW S, IsPlain(S), NEW t \in TypesOver(S)
  PROVE  /\ t # Void /\ t.name \in Seq(S) /\ "." \notin S
         /\ [t EXCEPT !.name = Replaced(@, ".", "/")] = t
<1>0. t \in TypesOver(S) \cup {Void}
  OBVIOUS
<1>1. t # Void
  BY PrimsAre, VoidIs DEF TypesOver
<1>2. t.name \in Seq(S)
  <2>1. <<>> \in Seq(S)
    OBVIOUS
  <2> QED
    BY <1>0, <2>1, TextTypesAre
<1>3. "." \notin S
  BY DEF IsPlain
<1>4. PICK name : name = t.name
  OBVIOUS
<1>5. Replaced(name, ".", "/") = name
  BY <1>2, <1>3, <1>4, ReplacedNothing
<1>6. t = [base |-> t.base, name |-> t.name, dims |-> t.dims]
  BY <1>0, TextTypesAre
<1>7. [t EXCEPT !.name = Replaced(@, ".", "/")] = t
  BY <1>4, <1>5, <1>6
<1> QED
  BY <1>1, <1>2, <1>3, <1>7

\* a name that does not look like a descriptor is looked up as it is
LEMMA PrettyLookup ==
  ASSUME NEW p, p # <<>>, p[1] \notin {"L", "["}
  PROVE  LookupName(p) = [find |-> Replaced(p, ".", "/"), array |-> FALSE, loader |-> Replaced(p, "/", ".")]
<1>1. Stripped(p) = p
  BY StrippedDef, Zenon
<1>2. ~(p # <<>> /\ p[1] = "[")
  OBVIOUS
<1> QED
  BY <1>1, <1>2, Zenon DEF LookupName

LEMMA ObjectNamesAgree ==
  ASSUME NEW S, IsPlain(S), NEW t \in TypesOver(S), t.base = "object", t.dims = 0,
         NEW d \in Seq(S), d = Descriptor(t), ~Has(t.name, "[")
  PROVE  LET pretty == PrettyName(t)
             lookup == LookupName(d) IN
         /\ ClassNameFromDescriptor(d) = pretty
         /\ LookupName(pretty) = lookup \/ LooksLikeDescriptor(pretty)
         /\ ClassNameToDescriptor(lookup.loader) = d
         /\ lookup.array = FALSE /\ lookup.find = t.name
<1>1. PICK name \in Seq(S) : name = t.name
  BY PlainObjectTexts
<1>2. /\ Len(name) >= 1 /\ PrettyName(t) = Replaced(name, "/", ".")
      /\ Stripped(d) = name /\ d # <<>> /\ d[1] = "L"
      /\ d = <<"L">> \o name \o <<Semicolon>>
  <2>1. d = <<"L">> \o t.name \o <<Semicolon>>
    BY PlainObjectTexts, Zenon
  <2>2. /\ Len(t.name) >= 1 /\ PrettyName(t) = Replaced(t.name, "/", ".")
        /\ Stripped(d) = t.name /\ d # <<>> /\ d[1] = "L"
    BY PlainObjectTexts
  <2> QED
    BY <1>1, <2>1, <2>2, Zenon
<1>3. PICK E : E = Replaced(name, "/", ".")
  OBVIOUS
<1>4. "." \notin S
  BY NameIsPlain
<1>5. Replaced(E, ".", "/") = name /\ Replaced(name, ".", "/") = name
  BY <1>3, <1>4, ReplacedBack, ReplacedNothing
<1>6. Replaced(E, "/", ".") = E
  <2>1. "/" # "."
    OBVIOUS
  <2> QED
    BY <1>3, <2>1, ReplacedOnce, Zenon
<1>7. E # <<>> /\ Len(E) \in Nat /\ E[1] \in (S \cup {"."}) /\ E[1] # "["
  <2>1. PICK A : A = S \cup {"."}
    OBVIOUS
  <2>2. name \in Seq(A) /\ "." \in A
    <3>1. S \subseteq A
      BY <2>1
    <3> QED
      BY <2>1, <3>1, SequencesOfMore
  <2>3. E \in Seq(A) /\ Len(E) = Len(name) /\ \A i \in 1 .. Len(name) : E[i] = IF name[i] = "/" THEN "." ELSE name[i]
    <3>1. Rewrites(Replaced(name, "/", "."), A, name, "/", ".")
      BY <2>2, ReplacedIs, Zenon
    <3> QED
      BY <1>3, <3>1 DEF Rewrites
  <2>4. Len(name) \in Nat /\ 1 \in 1 .. Len(name) /\ 1 \in DOMAIN name
    BY <1>2
  <2>5. name[1] # "["
    BY <1>1, <2>4 DEF Has
  <2>6. E[1] \in A
    BY <2>3, <2>4
  <2> QED
    BY <2>1, <2>3, <2>4, <2>5, <2>6
<1>8. LookupName(d) = [find |-> name, array |-> FALSE, loader |-> E]
  <2>1. ~(d # <<>> /\ d[1] = "[")
    BY <1>2
  <2> QED
    BY <1>2, <1>3, <1>5, <2>1, Zenon DEF LookupName
<1>9. LookupName(E) = LookupName(d) \/ LooksLikeDescriptor(E)
  <2>1. CASE E[1] \in {"L", "["}
    BY <1>7, <2>1 DEF LooksLikeDescriptor
  <2>2. CASE E[1] \notin {"L", "["}
    BY <1>5, <1>6, <1>7, <1>8, <2>2, PrettyLookup, Zenon
  <2> QED
    BY <2>1, <2>2
<1>10. ClassNameToDescriptor(E) = d
  <2>1. E[1] \notin Words
    BY <1>7, WordsAreNot DEF IsPlain
  <2>2. ~(Len(E) = 1 /\ E[1] \in Words) /\ E[1] # "["
    BY <1>7, <2>1
  <2> QED
    BY <1>2, <1>5, <2>2, ClassNameToDescriptorDef, Zenon
<1>11. ClassNameFromDescriptor(d) = E
  BY <1>2, <1>3, Zenon DEF ClassNameFromDescriptor
<1>12. PICK l : l = LookupName(d)
  OBVIOUS
<1>13. l.loader = E /\ l.array = FALSE /\ l.find = name
  BY <1>8, <1>12
<1> QED
  BY <1>1, <1>2, <1>3, <1>9, <1>10, <1>11, <1>12, <1>13, Zenon

LEMMA ArrayNamesAgree ==
  ASSUME NEW S, IsPlain(S), NEW t \in TypesOver(S), t.dims > 0, NEW d \in Seq(S), d = Descriptor(t)
  PROVE  LET lookup == LookupName(d) IN
         /\ ClassNameToDescriptor(lookup.loader) = d
         /\ lookup.array = TRUE /\ lookup.find = d
<1>0. t \in TypesOver(S) \cup {Void}
  OBVIOUS
<1>1. PICK n \in Nat : n = t.dims /\ n > 0
  BY <1>0, TextTypesAre
<1>2. Len(d) \in Nat /\ DOMAIN d = 1 .. Len(d)
  OBVIOUS
<1>3. Len(d) >= 2 /\ d[1] = "["
  <2>1. PICK D0 : D0 = Descriptor([t EXCEPT !.dims = 0])
    OBVIOUS
  <2>2. Len(d) = n + Len(D0) /\ \A i \in 1 .. n : d[i] = "["
    BY <1>0, <1>1, <2>1, DescriptorParts, Zenon
  <2>3. Len(D0) \in Nat /\ Len(D0) >= 1
    <3>1. [t EXCEPT !.dims = 0] \in TypesOver(S)
      BY DEF TypesOver
    <3> QED
      BY <2>1, <3>1, DescriptorLength
  <2> QED
    BY <1>1, <2>2, <2>3
<1>4. "." \notin S /\ \A i \in 1 .. Len(d) : d[i] # "."
  <2>1. "." \notin S
    BY NameIsPlain
  <2> QED
    BY <2>1
<1>5. PICK l : l = ArrayForLoader(d)
  OBVIOUS
<1>6. l = [i \in 1 .. Len(d) |-> IF d[i] = "/" /\ InObject(d, i) THEN "." ELSE d[i]]
  BY <1>2, <1>5 DEF ArrayForLoader
<1>7. PICK A : A = S \cup {".", "/"}
  OBVIOUS
<1>8. l \in Seq(A) /\ Len(l) = Len(d)
  <2>1. \A i \in 1 .. Len(d) : d[i] \in A
    BY <1>7
  <2>2. l \in [1 .. Len(d) -> A]
    BY <1>6, <1>7, <2>1
  <2> QED
    BY <1>2, <2>2, SequencesAre
<1>9. PICK r : r = Replaced(l, ".", "/")
  OBVIOUS
<1>10. r = d
  <2>1. "/" \in A
    BY <1>7
  <2>2. Rewrites(Replaced(l, ".", "/"), A, l, ".", "/")
    BY <1>8, <2>1, ReplacedIs, Zenon
  <2>3. r \in Seq(A) /\ Len(r) = Len(l) /\ \A i \in 1 .. Len(l) : r[i] = IF l[i] = "." THEN "/" ELSE l[i]
    BY <1>9, <2>2 DEF Rewrites
  <2>4. ASSUME NEW i \in 1 .. Len(d) PROVE r[i] = d[i]
    BY <1>4, <1>6, <1>8, <2>3
  <2> QED
    BY <1>8, <2>3, <2>4, AnySequences
<1>11. l[1] = "["
  BY <1>3, <1>6
<1>12. ClassNameToDescriptor(l) = d
  <2>1. Len(l) # 1
    BY <1>2, <1>3, <1>8
  <2> QED
    BY <1>9, <1>10, <1>11, <2>1, ClassNameToDescriptorDef, Zenon
<1>13. LookupName(d) = [find |-> d, array |-> TRUE, loader |-> l]
  <2>1. (d # <<>> /\ d[1] = "[") = TRUE
    BY <1>2, <1>3
  <2>2. Replaced(d, ".", "/") = d
    BY <1>4, ReplacedNothing
  <2> QED
    BY <1>5, <2>1, <2>2, Zenon DEF LookupName
<1>14. PICK k : k = LookupName(d)
  OBVIOUS
<1>15. k.loader = l /\ k.array = TRUE /\ k.find = d
  BY <1>13, <1>14
<1> QED
  BY <1>12, <1>14, <1>15, Zenon

(* However a class is written, the names handed to FindClass, to a loader  *)
(* and to the user are those of one type, for names of any length over any *)
(* characters but dots: the four conversions of class names, which each    *)
(* look at brackets, separators and the letter L, are inverse to another.  *)
THEOREM NamesAlwaysAgree ==
  ASSUME NEW S, IsPlain(S), NEW d \in Seq(S)
  PROVE  NamesAgree(d)
<1> SUFFICES ASSUME Parse(d).ok, ~Has(Parse(d).value.name, "[") PROVE NamesAgree(d)
  BY Zenon DEF NamesAgree
<1>1. PICK t \in TypesOver(S) : d = Descriptor(t) /\ Parse(d) = Parsed(t)
  BY ParseIs
<1>2. Parse(d).value = t /\ t \in TypesOver(S) \cup {Void}
  BY <1>1 DEF Parsed
<1>3. PICK pretty, lookup : pretty = PrettyName(t) /\ lookup = LookupName(d)
  OBVIOUS
<1>4. FromPrettyName(pretty) = Parsed(t)
  BY <1>2, <1>3, PrettyNamesAreRead
<1>5. FromName(d) = Parsed(t)
  <2>1. [t EXCEPT !.name = Replaced(@, ".", "/")] = t
    BY NameIsPlain
  <2> QED
    BY <1>2, <2>1, Zenon DEF FromName
<1>6. LooksLikeDescriptor(pretty) \/ FromName(pretty) = Parsed(t)
  <2> SUFFICES ASSUME ~LooksLikeDescriptor(pretty) PROVE FromName(pretty) = Parsed(t)
    OBVIOUS
  <2>1. \E A : pretty \in Seq(A)
    <3>1. PICK E, A : E = ElementName(t) /\ A = PrettyTokens(S)
      OBVIOUS
    <3>2. IsPretty(pretty, E, t.dims, A)
      BY <1>2, <1>3, <3>1, PrettyParts
    <3> QED
      BY <3>2 DEF IsPretty
  <2>2. ~Parse(pretty).ok
    BY <2>1, ParsedLooksLikeDescriptor
  <2>3. RejectVoid(Parsed(t)) = Parsed(t)
    <3>1. Parsed(t).value # Void
      BY NameIsPlain DEF Parsed
    <3> QED
      BY <3>1 DEF RejectVoid
  <2> QED
    BY <1>4, <2>2, <2>3, Zenon DEF FromName
<1>7. t.dims \in Nat /\ (IsReference(t) <=> t.dims > 0 \/ t.base = "object")
  BY <1>2, TextTypesAre DEF IsReference
<1>8. CASE t.base = "object" /\ t.dims = 0
  <2>1. /\ ClassNameFromDescriptor(d) = pretty
        /\ LookupName(pretty) = lookup \/ LooksLikeDescriptor(pretty)
        /\ ClassNameToDescriptor(lookup.loader) = d
        /\ lookup.array = FALSE /\ lookup.find = t.name
    BY <1>1, <1>2, <1>3, <1>8, ObjectNamesAgree, Zenon
  <2> QED
    BY <1>2, <1>3, <1>4, <1>5, <1>6, <1>8, <2>1, Zenon DEF NamesAgree
<1>9. CASE t.dims > 0
  <2>1. /\ ClassNameToDescriptor(lookup.loader) = d
        /\ lookup.array = TRUE /\ lookup.find = d
    BY <1>1, <1>3, <1>9, ArrayNamesAgree, Zenon
  <2>2. t.dims # 0
    BY <1>7, <1>9
  <2> QED
    BY <1>2, <1>3, <1>4, <1>5, <1>6, <2>1, <2>2, Zenon DEF NamesAgree
<1>10. CASE t.base # "object" /\ t.dims = 0
  <2>1. ~IsReference(t)
    BY <1>7, <1>10
  <2> QED
    BY <1>2, <1>3, <1>4, <1>5, <1>6, <1>10, <2>1, Zenon DEF NamesAgree
<1> QED
  BY <1>7, <1>8, <1>9, <1>10

Flatten(s) == CHOOSE f : f = [i \in 1 .. Len(s) |-> IF i = 1 THEN s[i] ELSE f[i - 1] \o s[i]]
LEMMA FlattenDef == \A s : FlattenSeq(s) = IF Len(s) = 0 THEN s ELSE Flatten(s)[Len(s)]
BY Zenon DEF FlattenSeq, Flatten

\* the function that FlattenSeq chooses exists, and joins one text after the other
Joins(f, s, T) ==
  /\ f[1] = s[1]
  /\ \A i \in 1 .. Len(s) : f[i] \in T
  /\ \A i \in 1 .. Len(s) - 1 : f[i + 1] = f[i] \o s[i + 1]

LEMMA JoinRecurs ==
  ASSUME NEW T, \A p, q \in T : p \o q \in T,
         NEW s, NEW n \in Nat, n > 0, \A i \in 1 .. n : s[i] \in T
  PROVE  Recurs(T, s[1], [m \in Nat |-> [p \in T |-> IF m + 1 \in 1 .. n THEN p \o s[m + 1] ELSE p]])
<1>2. \A p, q \in T : p \o q \in T
  OBVIOUS
<1>3. s[1] \in T /\ \A i \in 1 .. n : s[i] \in T
  OBVIOUS
<1>4. \A m \in Nat : \A p \in T : (IF m + 1 \in 1 .. n THEN p \o s[m + 1] ELSE p) \in T
  BY <1>2, <1>3
<1>5. [m \in Nat |-> [p \in T |-> IF m + 1 \in 1 .. n THEN p \o s[m + 1] ELSE p]] \in [Nat -> [T -> T]]
  BY <1>4
<1> QED
  BY <1>3, <1>5, Zenon DEF Recurs

LEMMA FlattenJoins ==
  ASSUME NEW A, NEW s, NEW n \in Nat, n > 0, Len(s) = n, \A i \in 1 .. n : s[i] \in Seq(A)
  PROVE  Joins(Flatten(s), s, Seq(A))
<1>1. PICK T : T = Seq(A)
  OBVIOUS
<1>2. PICK F : F = [m \in Nat |-> [p \in T |-> IF m + 1 \in 1 .. n THEN p \o s[m + 1] ELSE p]]
  OBVIOUS
<1>3. Recurs(T, s[1], F)
  <2>1. Recurs(T, s[1], [m \in Nat |-> [p \in T |-> IF m + 1 \in 1 .. n THEN p \o s[m + 1] ELSE p]])
    <3>1. (\A i \in 1 .. n : s[i] \in T) /\ (\A p, q \in T : p \o q \in T)
      BY <1>1
    <3> HIDE <1>1
    <3> QED
      BY <3>1, JoinRecurs
  <2> QED
    BY <1>2, <2>1, Zenon
<1>4. PICK g : Solution(g, T, s[1], F)
  BY <1>3, Recursion, Zenon
<1>5. g[0] = s[1] /\ \A m \in Nat : g[m] \in T /\ g[m + 1] = F[m + 1][g[m]]
  BY <1>4 DEF Solution
<1>6. \A m \in Nat : m + 2 <= n => g[m + 1] = g[m] \o s[m + 2]
  <2> TAKE m \in Nat
  <2> HAVE m + 2 <= n
  <2>1. (m + 1) + 1 \in 1 .. n /\ (m + 1) + 1 = m + 2 /\ m + 1 \in Nat
    OBVIOUS
  <2>2. g[m] \in T /\ g[m + 1] = F[m + 1][g[m]]
    BY <1>5
  <2>3. F[m + 1][g[m]] = g[m] \o s[(m + 1) + 1]
    BY <1>2, <2>1, <2>2
  <2> QED
    BY <2>1, <2>2, <2>3
<1>7. PICK h : h = [i \in 1 .. n |-> g[i - 1]]
  OBVIOUS
<1>8. h = [i \in 1 .. n |-> IF i = 1 THEN s[i] ELSE h[i - 1] \o s[i]]
  <2>1. ASSUME NEW i \in 1 .. n PROVE h[i] = IF i = 1 THEN s[i] ELSE h[i - 1] \o s[i]
    <3>1. CASE i = 1
      BY <1>5, <1>7, <3>1
    <3>2. CASE i # 1
      <4>1. i - 2 \in Nat /\ (i - 2) + 2 <= n /\ (i - 2) + 1 = i - 1 /\ (i - 2) + 2 = i /\ i - 1 \in 1 .. n /\ (i - 1) - 1 = i - 2
        BY <3>2
      <4>2. g[i - 1] = g[i - 2] \o s[i]
        BY <1>6, <4>1
      <4>3. h[i] = g[i - 1] /\ h[i - 1] = g[i - 2]
        BY <1>7, <4>1
      <4> QED
        BY <3>2, <4>2, <4>3
    <3> QED
      BY <3>1, <3>2
  <2> QED
    BY <1>7, <2>1
<1>9. PICK f : f = Flatten(s)
  OBVIOUS
<1>10. f = [i \in 1 .. n |-> IF i = 1 THEN s[i] ELSE f[i - 1] \o s[i]]
  BY <1>8, <1>9, Zenon DEF Flatten
<1>11. f[1] = s[1] /\ \A i \in 1 .. n - 1 : f[i + 1] = f[i] \o s[i + 1]
  <2>1. 1 \in 1 .. n /\ \A i \in 1 .. n - 1 : i + 1 \in 1 .. n /\ i + 1 # 1 /\ (i + 1) - 1 = i
    OBVIOUS
  <2> QED
    BY <1>10, <2>1
<1>12. \A i \in 1 .. n : f[i] \in T
  <2> DEFINE Good == {i \in Nat : i \in 1 .. n => f[i] \in T}
  <2>1. 0 \in Good
    OBVIOUS
  <2>2. ASSUME NEW i \in Good, i < n PROVE i + 1 \in Good
    <3>1. CASE i = 0
      <4>1. s[1] \in T
        BY <1>5
      <4> QED
        BY <1>11, <3>1, <4>1
    <3>2. CASE i # 0
      <4>1. i \in 1 .. n - 1 /\ i \in 1 .. n /\ i + 1 \in 1 .. n
        BY <2>2, <3>2
      <4>2. f[i] \in T /\ s[i + 1] \in T
        BY <1>1, <4>1
      <4>3. f[i] \o s[i + 1] \in T
        BY <1>1, <4>2
      <4>4. f[i + 1] = f[i] \o s[i + 1]
        BY <1>11, <4>1, Zenon
      <4>5. f[i + 1] \in T /\ i + 1 \in Nat
        BY <4>3, <4>4
      <4> QED
        BY <4>5
    <3> QED
      BY <3>1, <3>2
  <2>3. Good \in SUBSET Nat
    OBVIOUS
  <2> HIDE DEF Good
  <2>4. 0 .. n \subseteq Good
    BY <2>1, <2>2, <2>3, InductionTo
  <2> QED
    BY <2>4 DEF Good
<1> QED
  BY <1>1, <1>9, <1>11, <1>12 DEF Joins

\* one text more at the end
IsLonger(t, s, n, T) ==
  /\ Len(s) = n /\ Len(t) = n + 1
  /\ \A i \in 1 .. n + 1 : t[i] \in T
  /\ \A i \in 1 .. n : s[i] = t[i]
  /\ n = 0 => s = <<>>
LEMMA FlattenMore ==
  ASSUME NEW A, NEW n \in Nat, NEW s, NEW t, IsLonger(t, s, n, Seq(A))
  PROVE  FlattenSeq(s) \in Seq(A) /\ FlattenSeq(t) = FlattenSeq(s) \o t[n + 1]
<1>0. /\ Len(s) = n /\ Len(t) = n + 1
      /\ \A i \in 1 .. n + 1 : t[i] \in Seq(A)
      /\ \A i \in 1 .. n : s[i] = t[i]
      /\ n = 0 => s = <<>>
  BY DEF IsLonger
<1>1. PICK T : T = Seq(A)
  OBVIOUS
<1>2. PICK g : g = Flatten(t)
  OBVIOUS
<1>3. n + 1 \in Nat /\ n + 1 > 0 /\ \A i \in 1 .. n : i \in 1 .. n + 1
  OBVIOUS
<1>4. FlattenSeq(t) = g[n + 1]
  BY <1>0, <1>2, <1>3, FlattenDef
<1>5. Joins(g, t, T)
  BY <1>0, <1>1, <1>2, <1>3, FlattenJoins, Zenon
<1>6. g[1] = t[1] /\ \A i \in 1 .. n : g[i + 1] = g[i] \o t[i + 1]
  <2>1. (n + 1) - 1 = n
    OBVIOUS
  <2> QED
    BY <1>0, <1>5, <2>1 DEF Joins
<1>7. CASE n = 0
  <2>1. FlattenSeq(s) = <<>>
    BY <1>0, <1>7, FlattenDef
  <2>2. t[1] \in Seq(A)
    BY <1>0, <1>7
  <2>3. <<>> \in Seq(A) /\ <<>> \o t[1] = t[1]
    BY <1>0, <2>2
  <2> QED
    BY <1>0, <1>4, <1>6, <1>7, <2>1, <2>3
<1>8. CASE n > 0
  <2>1. PICK f : f = Flatten(s)
    OBVIOUS
  <2>2. \A i \in 1 .. n : s[i] \in T
    BY <1>0, <1>1, <1>3
  <2>3. Joins(f, s, T)
    BY <1>0, <1>1, <1>8, <2>1, <2>2, FlattenJoins, Zenon
  <2>4. f[1] = s[1] /\ f[n] \in T /\ \A i \in 1 .. n - 1 : f[i + 1] = f[i] \o s[i + 1]
    <3>1. f[1] = s[1] /\ (\A i \in 1 .. n : f[i] \in T) /\ \A i \in 1 .. n - 1 : f[i + 1] = f[i] \o s[i + 1]
      BY <1>0, <2>3, Zenon DEF Joins
    <3>2. n \in 1 .. n
      BY <1>0, <1>8
    <3> QED
      BY <1>0, <3>1, <3>2, Zenon
  <2>5. FlattenSeq(s) = f[n]
    BY <1>0, <1>8, <2>1, FlattenDef
  <2> DEFINE Same == {i \in Nat : i \in 1 .. n => f[i] = g[i]}
  <2>6. 0 \in Same
    OBVIOUS
  <2>7. ASSUME NEW i \in Same, i < n PROVE i + 1 \in Same
    <3>1. CASE i = 0
      BY <1>0, <1>6, <1>8, <2>4, <3>1
    <3>2. CASE i # 0
      <4>1. i \in 1 .. n - 1 /\ i \in 1 .. n /\ i + 1 \in 1 .. n
        BY <1>0, <2>7, <3>2
      <4>2. f[i + 1] = f[i] \o s[i + 1] /\ g[i + 1] = g[i] \o t[i + 1]
        BY <1>0, <1>6, <2>4, <4>1, Zenon
      <4>3. f[i] = g[i] /\ s[i + 1] = t[i + 1]
        BY <1>0, <4>1
      <4>4. f[i + 1] = g[i + 1] /\ i + 1 \in Nat
        BY <1>0, <4>2, <4>3
      <4> QED
        BY <1>0, <4>4
    <3> QED
      BY <1>0, <3>1, <3>2
  <2>8. Same \in SUBSET Nat
    OBVIOUS
  <2> HIDE DEF Same
  <2>9. 0 .. n \subseteq Same
    BY <1>0, <2>6, <2>7, <2>8, InductionTo
  <2>10. f[n] = g[n]
    BY <1>0, <1>8, <2>9 DEF Same
  <2>11. g[n + 1] = g[n] \o t[n + 1]
    <3>1. n \in 1 .. n
      BY <1>0, <1>8
    <3> QED
      BY <1>0, <1>6, <3>1, Zenon
  <2> QED
    BY <1>0, <1>1, <1>4, <2>4, <2>5, <2>10, <2>11
<1> QED
  BY <1>0, <1>7, <1>8

-----------------------------------------------------------------------------
(* Method descriptors.                                                     *)
Texts(v) == [i \in DOMAIN v |-> Descriptor(v[i])]
TextOf(v) == FlattenSeq(Texts(v))
Alphabet(S) == S \cup {"[", "L", Semicolon} \cup LetterSet

LEMMA DescriptorIn ==
  ASSUME NEW S, NEW t \in TypesOver(S) \cup {Void}
  PROVE  Descriptor(t) \in Seq(Alphabet(S))
<1>1. PICK A, D : A = Alphabet(S) /\ D = Descriptor(t)
  OBVIOUS
<1>2. CASE t.base = "object"
  <2>1. PICK B : B = S \cup {"[", "L", Semicolon}
    OBVIOUS
  <2>2. D \in Seq(B)
    BY <1>1, <1>2, <2>1, DescriptorIs, Zenon
  <2>3. B \subseteq A
    BY <1>1, <2>1 DEF Alphabet
  <2> QED
    BY <1>1, <2>2, <2>3, SequencesOfMore
<1>3. CASE t.base # "object"
  <2>1. PICK B : B = {"[", Letters[t.base]}
    OBVIOUS
  <2>2. D \in Seq(B)
    BY <1>1, <1>3, <2>1, DescriptorIs, Zenon
  <2>3. B \subseteq A
    BY <1>1, <1>3, <2>1, TextTypesAre, LettersAre DEF Alphabet
  <2> QED
    BY <1>1, <2>2, <2>3, SequencesOfMore
<1> QED
  BY <1>2, <1>3

LEMMA TextOfMore ==
  ASSUME NEW S, NEW v \in Seq(TypesOver(S)), NEW t \in TypesOver(S)
  PROVE  TextOf(v) \in Seq(Alphabet(S)) /\ TextOf(Append(v, t)) = TextOf(v) \o Descriptor(t)
<1>1. PICK n \in Nat : n = Len(v) /\ DOMAIN v = 1 .. n
  OBVIOUS
<1>2. PICK w : w = Append(v, t)
  OBVIOUS
<1>3. /\ w \in Seq(TypesOver(S)) /\ Len(w) = n + 1 /\ DOMAIN w = 1 .. n + 1
      /\ w[n + 1] = t /\ \A i \in 1 .. n : w[i] = v[i]
  BY <1>1, <1>2
<1>4. PICK a, b : a = Texts(v) /\ b = Texts(w)
  OBVIOUS
<1>5. a = [i \in 1 .. n |-> Descriptor(v[i])] /\ b = [i \in 1 .. n + 1 |-> Descriptor(w[i])]
  BY <1>1, <1>3, <1>4 DEF Texts
<1>6. PICK A : A = Alphabet(S)
  OBVIOUS
<1>7. ASSUME NEW i \in 1 .. n + 1 PROVE b[i] \in Seq(A)
  <2>1. w[i] \in TypesOver(S) \cup {Void}
    BY <1>3
  <2> QED
    BY <1>5, <1>6, <2>1, DescriptorIn
<1>8. /\ Len(a) = n /\ Len(b) = n + 1
      /\ \A i \in 1 .. n : a[i] = b[i]
      /\ n = 0 => a = <<>>
      /\ b[n + 1] = Descriptor(t)
  <2>1. \A i \in 1 .. n : i \in 1 .. n + 1 /\ a[i] = b[i]
    BY <1>3, <1>5
  <2>2. n = 0 => a = <<>>
    BY <1>5
  <2>3. Len(a) = n /\ Len(b) = n + 1
    BY <1>5
  <2>4. b[n + 1] = Descriptor(t)
    BY <1>3, <1>5
  <2> QED
    BY <2>1, <2>2, <2>3, <2>4
<1>9. FlattenSeq(a) \in Seq(A) /\ FlattenSeq(b) = FlattenSeq(a) \o b[n + 1]
  <2>1. \A i \in 1 .. n + 1 : b[i] \in Seq(A)
    BY <1>7
  <2>2. Len(a) = n /\ Len(b) = n + 1 /\ (\A i \in 1 .. n : a[i] = b[i]) /\ (n = 0 => a = <<>>)
    BY <1>8, Zenon
  <2>3. IsLonger(b, a, n, Seq(A))
    BY <2>1, <2>2, Zenon DEF IsLonger
  <2> QED
    BY <2>3, FlattenMore
<1> QED
  BY <1>2, <1>4, <1>6, <1>8, <1>9, Zenon DEF TextOf

LEMMA TextOfNone == TextOf(<<>>) = <<>>
<1>1. Texts(<<>>) = <<>>
  BY DEF Texts
<1> QED
  BY <1>1, FlattenDef DEF TextOf

\* what a turn of the loop of MethodSignature::parse may leave: nothing, or the
\* types whose descriptors stand between the parenthesis and the cursor
Reads(d, v, at) ==
  Len(TextOf(v)) = at - 2 /\ \A x \in 1 .. at - 2 : TextOf(v)[x] = d[x + 1]
Turned(S, d) ==
  {Failed} \cup
  {p \in {ParsedTo(v, at) : v \in Seq(TypesOver(S)), at \in 2 .. Len(d) + 1} : Reads(d, p.value, p.at)}

LEMMA TurnedFailed == \A S, d : ~Failed.ok /\ Failed \in Turned(S, d)
BY DEF Failed, Turned
LEMMA TurnedIs ==
  ASSUME NEW S, NEW d, NEW p \in Turned(S, d), p.ok
  PROVE  \E v \in Seq(TypesOver(S)), at \in 2 .. Len(d) + 1 :
           p = ParsedTo(v, at) /\ p.value = v /\ p.at = at /\ Reads(d, v, at)
<1>1. PICK V : V = Seq(TypesOver(S))
  OBVIOUS
<1>2. p \in {ParsedTo(v, at) : v \in V, at \in 2 .. Len(d) + 1} /\ Reads(d, p.value, p.at)
  BY <1>1 DEF Turned, Failed
<1>3. PICK v \in V, at \in 2 .. Len(d) + 1 : p = ParsedTo(v, at)
  BY <1>2
<1>4. p.value = v /\ p.at = at
  BY <1>3 DEF ParsedTo
<1> QED
  BY <1>1, <1>2, <1>3, <1>4
LEMMA TurnedHas ==
  ASSUME NEW S, NEW d, NEW v \in Seq(TypesOver(S)), NEW at \in 2 .. Len(d) + 1, Reads(d, v, at)
  PROVE  ParsedTo(v, at) \in Turned(S, d)
<1>1. PICK V : V = Seq(TypesOver(S))
  OBVIOUS
<1>2. PICK p : p = ParsedTo(v, at)
  OBVIOUS
<1>3. p.value = v /\ p.at = at
  BY <1>2 DEF ParsedTo
<1>4. p \in {ParsedTo(w, n) : w \in V, n \in 2 .. Len(d) + 1} /\ Reads(d, p.value, p.at)
  BY <1>1, <1>2, <1>3
<1> QED
  BY <1>1, <1>2, <1>4 DEF Turned

LEMMA TurnKeeps ==
  ASSUME NEW S, NEW d \in Seq(S), NEW p \in Turned(S, d), NEW q, q = NextArgument(d, p)
  PROVE  /\ q \in Turned(S, d)
         /\ q.ok => p.ok /\ p.at <= Len(d) /\ ((q = p /\ d[p.at] = ")") \/ q.at > p.at)
<1>0. ~Failed.ok /\ Failed \in Turned(S, d) /\ Len(d) \in Nat
  BY TurnedFailed
<1>1. CASE q = Failed
  BY <1>0, <1>1
<1>2. CASE q # Failed
  <2>1. p.ok
    BY <1>2 DEF NextArgument
  <2>2. PICK v \in Seq(TypesOver(S)), at \in 2 .. Len(d) + 1 :
                p = ParsedTo(v, at) /\ p.value = v /\ p.at = at /\ Reads(d, v, at)
    BY <2>1, TurnedIs
  <2>3. ~(at > Len(d)) /\ at <= Len(d)
    <3>1. ~(at > Len(d))
      BY <1>2, <2>1, <2>2, Zenon DEF NextArgument
    <3> QED
      BY <1>0, <3>1
  <2>4. CASE d[at] = ")"
    <3>1. q = p
      BY <2>1, <2>2, <2>3, <2>4, Zenon DEF NextArgument
    <3> QED
      BY <2>1, <2>2, <2>3, <2>4, <3>1
  <2>5. CASE d[at] # ")"
    <3>1. PICK r : r = ParseType(d, at, FALSE)
      OBVIOUS
    <3>2. r.ok /\ q = ParsedTo(Append(v, r.value), r.at)
      BY <1>2, <2>1, <2>2, <2>3, <2>5, <3>1, Zenon DEF NextArgument
    <3>3. \E t \in TypesOver(S) : StandsAt(d, at, t) /\ r = ParsedTo(t, at + Len(Descriptor(t)))
      <4>1. FALSE \in BOOLEAN /\ Allowed(S, FALSE) = TypesOver(S) /\ at \in 1 .. Len(d) + 1
        BY <1>0 DEF Allowed
      <4>2. \E t \in Allowed(S, FALSE) : StandsAt(d, at, t) /\ ParseType(d, at, FALSE) = ParsedTo(t, at + Len(Descriptor(t)))
        BY <3>1, <3>2, <4>1, ParseTypeGives
      <4> QED
        BY <3>1, <4>1, <4>2
    <3>4. PICK t \in TypesOver(S) : StandsAt(d, at, t) /\ r = ParsedTo(t, at + Len(Descriptor(t)))
      BY <3>3
    <3>5. PICK D : D = Descriptor(t)
      OBVIOUS
    <3>6. q = ParsedTo(Append(v, t), at + Len(D)) /\ q.at = at + Len(D)
      <4>1. r.value = t /\ r.at = at + Len(D)
        BY <3>4, <3>5 DEF ParsedTo
      <4> QED
        BY <3>2, <4>1 DEF ParsedTo
    <3>7. /\ Len(D) \in Nat /\ Len(D) >= 1
      BY <3>5, DescriptorLength
    <3>8. at + Len(D) - 1 <= Len(d) /\ \A x \in 1 .. Len(D) : d[at + x - 1] = D[x]
      BY <3>4, <3>5 DEF StandsAt
    <3>9. PICK X : X = TextOf(v)
      OBVIOUS
    <3>10. X \in Seq(Alphabet(S)) /\ TextOf(Append(v, t)) = X \o D
      BY <3>5, <3>9, TextOfMore
    <3>11. PICK Y : Y = X \o D
      OBVIOUS
    <3>12. /\ Len(Y) = Len(X) + Len(D)
           /\ \A i \in 1 .. Len(X) : Y[i] = X[i]
           /\ \A i \in 1 .. Len(D) : Y[Len(X) + i] = D[i]
      <4>1. PICK A : A = Alphabet(S)
        OBVIOUS
      <4>2. X \in Seq(A) /\ D \in Seq(A)
        BY <3>5, <3>10, <4>1, DescriptorIn
      <4> QED
        BY <3>11, <4>2, JoinIs
    <3>13. Len(X) = at - 2 /\ \A x \in 1 .. at - 2 : X[x] = d[x + 1]
      BY <2>2, <3>9 DEF Reads
    <3>14. Len(Y) = (at + Len(D)) - 2
      BY <3>7, <3>12, <3>13
    <3>15. ASSUME NEW x \in 1 .. (at + Len(D)) - 2 PROVE Y[x] = d[x + 1]
      <4>1. CASE x <= at - 2
        BY <3>12, <3>13, <4>1
      <4>2. CASE x > at - 2
        <5>1. PICK k : k = x - (at - 2)
          OBVIOUS
        <5>2. k \in 1 .. Len(D) /\ Len(X) + k = x /\ at + k - 1 = x + 1
          BY <3>7, <3>13, <4>2, <5>1
        <5>3. Y[Len(X) + k] = D[k] /\ d[at + k - 1] = D[k]
          BY <3>8, <3>12, <5>2, Zenon
        <5> QED
          BY <5>2, <5>3, Zenon
      <4> QED
        BY <3>7, <4>1, <4>2
    <3>16. at + Len(D) \in 2 .. Len(d) + 1 /\ at + Len(D) > at
      BY <1>0, <3>7, <3>8
    <3>17. Append(v, t) \in Seq(TypesOver(S))
      OBVIOUS
    <3>18. q \in Turned(S, d)
      <4>1. PICK w, end : w = Append(v, t) /\ end = at + Len(D)
        OBVIOUS
      <4>2. /\ w \in Seq(TypesOver(S)) /\ end \in 2 .. Len(d) + 1 /\ q = ParsedTo(w, end)
        BY <3>6, <3>16, <3>17, <4>1
      <4>3. TextOf(w) = Y
        BY <3>10, <3>11, <4>1
      <4>4. Reads(d, w, end)
        BY <3>14, <3>15, <4>1, <4>3, Zenon DEF Reads
      <4> QED
        BY <4>2, <4>4, TurnedHas
    <3> QED
      BY <2>1, <2>2, <2>3, <3>6, <3>16, <3>18
  <2> QED
    BY <2>4, <2>5
<1> QED
  BY <1>1, <1>2

Turns(d) == CHOOSE f : f = [n \in Nat |-> IF n = 0 THEN ParsedTo(<<>>, 2) ELSE NextArgument(d, f[n - 1])]
LEMMA ParseArgumentsDef == \A d : ParseArguments(d) = Turns(d)[Len(d)]
BY Zenon DEF ParseArguments, Turns

LEMMA EmptyIsSequence == \A T : <<>> \in Seq(T)
OBVIOUS
LEMMA TurnsRecur ==
  ASSUME NEW S, NEW d \in Seq(S), d # <<>>
  PROVE  Recurs(Turned(S, d), ParsedTo(<<>>, 2), [n \in Nat |-> [p \in Turned(S, d) |-> NextArgument(d, p)]])
<1>1. PICK T : T = Turned(S, d)
  OBVIOUS
<1>2. \A p \in T : NextArgument(d, p) \in T
  BY <1>1, TurnKeeps
<1>3. ParsedTo(<<>>, 2) \in T
  <2>1. <<>> \in Seq(TypesOver(S)) /\ 2 \in 2 .. Len(d) + 1
    <3>1. Len(d) \in Nat /\ Len(d) # 0
      OBVIOUS
    <3>2. <<>> \in Seq(TypesOver(S))
      BY EmptyIsSequence, Zenon
    <3> QED
      BY <3>1, <3>2
  <2>2. Reads(d, <<>>, 2)
    <3>1. Len(<<>>) = 2 - 2 /\ 1 .. 2 - 2 = {}
      OBVIOUS
    <3> QED
      BY <3>1, TextOfNone DEF Reads
  <2> QED
    BY <1>1, <2>1, <2>2, TurnedHas
<1>4. [n \in Nat |-> [p \in T |-> NextArgument(d, p)]] \in [Nat -> [T -> T]]
  BY <1>2
<1> QED
  BY <1>1, <1>3, <1>4, Zenon DEF Recurs

LEMMA TurnsAre ==
  ASSUME NEW S, NEW d \in Seq(S), d # <<>>
  PROVE  Turns(d) = [n \in Nat |-> IF n = 0 THEN ParsedTo(<<>>, 2) ELSE NextArgument(d, Turns(d)[n - 1])]
<1>1. PICK T, base : T = Turned(S, d) /\ base = ParsedTo(<<>>, 2)
  OBVIOUS
<1>2. PICK F : F = [n \in Nat |-> [p \in T |-> NextArgument(d, p)]]
  OBVIOUS
<1>3. Recurs(T, base, F)
  BY <1>1, <1>2, TurnsRecur, Zenon
<1>4. PICK g : Solution(g, T, base, F)
  BY <1>3, Recursion, Zenon
<1>5. g \in [Nat -> T] /\ g[0] = base /\ \A n \in Nat : g[n + 1] = F[n + 1][g[n]]
  BY <1>4 DEF Solution
<1>6. \A n \in Nat : g[n + 1] = NextArgument(d, g[n])
  <2> TAKE n \in Nat
  <2>1. g[n] \in T /\ n + 1 \in Nat
    BY <1>5
  <2>2. g[n + 1] = F[n + 1][g[n]]
    BY <1>5
  <2>3. F[n + 1][g[n]] = NextArgument(d, g[n])
    BY <1>2, <2>1
  <2> QED
    BY <2>2, <2>3
<1>7. \A n \in Nat : g[n] = IF n = 0 THEN base ELSE NextArgument(d, g[n - 1])
  <2> TAKE n \in Nat
  <2>1. CASE n = 0
    BY <1>5, <2>1
  <2>2. CASE n # 0
    <3>1. n - 1 \in Nat /\ (n - 1) + 1 = n
      BY <2>2
    <3>2. g[(n - 1) + 1] = NextArgument(d, g[n - 1])
      BY <1>6, <3>1
    <3> QED
      BY <2>2, <3>1, <3>2
  <2> QED
    BY <2>1, <2>2
<1>8. g = [n \in Nat |-> IF n = 0 THEN base ELSE NextArgument(d, g[n - 1])]
  BY <1>5, <1>7
<1>9. g = [n \in Nat |-> IF n = 0 THEN ParsedTo(<<>>, 2) ELSE NextArgument(d, g[n - 1])]
  BY <1>1, <1>8, Zenon
<1> QED
  BY <1>9, Zenon DEF Turns

\* the loop stops at the parenthesis that ends the arguments, or fails
LEMMA ParseArgumentsGives ==
  ASSUME NEW S, NEW d \in Seq(S), d # <<>>, ParseArguments(d).ok
  PROVE  \E v \in Seq(TypesOver(S)), at \in 2 .. Len(d) :
           ParseArguments(d) = ParsedTo(v, at) /\ Reads(d, v, at) /\ d[at] = ")"
<1>0. Len(d) \in Nat
  OBVIOUS
<1>1. PICK f, T : f = Turns(d) /\ T = Turned(S, d)
  OBVIOUS
<1>2. f = [n \in Nat |-> IF n = 0 THEN ParsedTo(<<>>, 2) ELSE NextArgument(d, f[n - 1])]
  BY <1>1, TurnsAre, Zenon
<1>3. f[0] = ParsedTo(<<>>, 2) /\ \A n \in Nat : f[n + 1] = NextArgument(d, f[n])
  <2>1. \A n \in Nat : n + 1 \in Nat /\ n + 1 # 0 /\ (n + 1) - 1 = n
    OBVIOUS
  <2>2. f[0] = ParsedTo(<<>>, 2)
    BY <1>2
  <2> QED
    BY <1>2, <2>1, <2>2
<1> DEFINE Stops(p) == p.at <= Len(d) /\ d[p.at] = ")"
           Goes(n) == f[n] \in T /\ (f[n].ok => f[n].at >= n + 2 \/ Stops(f[n]))
           Good == {n \in Nat : Goes(n)}
<1>4. 0 \in Good
  <2>1. Recurs(T, ParsedTo(<<>>, 2), [n \in Nat |-> [p \in T |-> NextArgument(d, p)]])
    BY <1>1, TurnsRecur, Zenon
  <2>2. f[0] \in T
    BY <1>3, <2>1 DEF Recurs
  <2>3. f[0].at >= 0 + 2
    BY <1>3 DEF ParsedTo
  <2> QED
    BY <2>2, <2>3
<1>5. ASSUME NEW n \in Good PROVE n + 1 \in Good
  <2>1. PICK p, q : p = f[n] /\ q = f[n + 1]
    OBVIOUS
  <2>2. n \in Nat /\ q = NextArgument(d, p) /\ p \in T /\ (p.ok => p.at >= n + 2 \/ Stops(p))
    BY <1>3, <2>1
  <2> HIDE DEF Stops
  <2>3. q \in T /\ (q.ok => p.ok /\ p.at <= Len(d) /\ ((q = p /\ d[p.at] = ")") \/ q.at > p.at))
    BY <1>1, <2>2, TurnKeeps
  <2>4. ASSUME q.ok PROVE q.at >= (n + 1) + 2 \/ Stops(q)
    <3>1. CASE q = p /\ d[p.at] = ")"
      BY <2>3, <2>4, <3>1 DEF Stops
    <3>2. CASE q.at > p.at /\ p.at >= n + 2
      <4>1. q.at \in Nat /\ p.at \in Nat
        <5>1. \E v \in Seq(TypesOver(S)), at \in 2 .. Len(d) + 1 : q.at = at
          BY <1>1, <2>3, <2>4, TurnedIs
        <5>2. \E v \in Seq(TypesOver(S)), at \in 2 .. Len(d) + 1 : p.at = at
          BY <1>1, <2>2, <2>3, <2>4, TurnedIs
        <5> QED
          BY <1>0, <5>1, <5>2
      <4> QED
        BY <2>2, <3>2, <4>1
    <3>3. CASE Stops(p)
      <4>1. q = p
        <5>1. p.ok /\ ~(p.at > Len(d)) /\ d[p.at] = ")"
          <6>1. p.ok /\ p.at <= Len(d) /\ d[p.at] = ")"
            BY <2>3, <2>4, <3>3 DEF Stops
          <6>2. p.at \in Nat
            <7>1. \E v \in Seq(TypesOver(S)), at \in 2 .. Len(d) + 1 : p.at = at
              BY <1>1, <2>2, <2>3, <2>4, TurnedIs
            <7> QED
              BY <1>0, <7>1
          <6> QED
            BY <1>0, <6>1, <6>2
        <5> QED
          BY <2>2, <5>1, Zenon DEF NextArgument
      <4> QED
        BY <3>3, <4>1
    <3> QED
      BY <2>2, <2>3, <2>4, <3>1, <3>2, <3>3
  <2>5. n + 1 \in Nat
    BY <2>2
  <2> QED
    BY <2>1, <2>3, <2>4, <2>5
<1>6. Good \in SUBSET Nat
  OBVIOUS
<1> HIDE DEF Good
<1>7. Good = Nat
  BY <1>4, <1>5, <1>6, Induction
<1>8. Goes(Len(d))
  BY <1>0, <1>7 DEF Good
<1>9. PICK p : p = ParseArguments(d)
  OBVIOUS
<1>10. p = f[Len(d)] /\ p.ok
  BY <1>1, <1>9, ParseArgumentsDef
<1>11. p \in T /\ (p.at >= Len(d) + 2 \/ Stops(p))
  BY <1>8, <1>10
<1>12. PICK v \in Seq(TypesOver(S)), at \in 2 .. Len(d) + 1 :
           p = ParsedTo(v, at) /\ p.value = v /\ p.at = at /\ Reads(d, v, at)
  BY <1>1, <1>10, <1>11, TurnedIs
<1>13. at <= Len(d) /\ d[at] = ")"
  BY <1>0, <1>11, <1>12
<1>14. at \in 2 .. Len(d)
  BY <1>0, <1>13
<1> QED
  BY <1>9, <1>12, <1>13, <1>14, Zenon

\* a parenthesis, the arguments, a parenthesis, the result
IsMethodText(d, X, D, at) ==
  /\ Len(d) = at + Len(D) /\ Len(X) = at - 2 /\ d[1] = "(" /\ d[at] = ")"
  /\ \A x \in 1 .. at - 2 : X[x] = d[x + 1]
  /\ \A x \in 1 .. Len(D) : d[at + x] = D[x]
LEMMA MethodText ==
  ASSUME NEW A, NEW X \in Seq(A), NEW D \in Seq(A), NEW S, NEW d \in Seq(S), NEW at \in 2 .. Len(d),
         IsMethodText(d, X, D, at)
  PROVE  <<"(">> \o X \o <<")">> \o D = d
<1> USE DEF IsMethodText
<1>0. Len(D) \in Nat /\ at \in Nat /\ at >= 2
  OBVIOUS
<1>1. PICK B : B = A \cup {"(", ")"}
  OBVIOUS
<1>2. X \in Seq(B) /\ D \in Seq(B) /\ "(" \in B /\ ")" \in B
  <2>1. A \subseteq B
    BY <1>1
  <2> QED
    BY <1>1, <2>1, SequencesOfMore
<1>3. PICK l, r : /\ l = <<"(">> /\ l \in Seq(B) /\ Len(l) = 1 /\ l[1] = "("
                  /\ r = <<")">> /\ r \in Seq(B) /\ Len(r) = 1 /\ r[1] = ")"
  BY <1>2, SingleIs, ZenonT(60)
<1>4. PICK h : h = l \o X \o r
  OBVIOUS
<1>5. /\ h \in Seq(B) /\ Len(h) = Len(l) + Len(X) + Len(r)
      /\ \A i \in 1 .. Len(l) : h[i] = l[i]
      /\ \A i \in 1 .. Len(X) : h[Len(l) + i] = X[i]
      /\ \A i \in 1 .. Len(r) : h[Len(l) + Len(X) + i] = r[i]
  BY <1>2, <1>3, <1>4, ThreeAre, SMTT(60)
<1>6. /\ Len(h) = at /\ h[1] = "(" /\ h[at] = ")"
      /\ \A i \in 1 .. at - 2 : h[1 + i] = X[i]
  <2>1. 1 + (at - 2) + 1 = at
    BY <1>0
  <2> QED
    BY <1>0, <1>3, <1>5, <2>1
<1>7. PICK e : e = h \o D
  OBVIOUS
<1>8. /\ e \in Seq(B) /\ Len(e) = at + Len(D)
      /\ \A i \in 1 .. at : e[i] = h[i]
      /\ \A i \in 1 .. Len(D) : e[at + i] = D[i]
  <2>1. /\ e \in Seq(B) /\ Len(e) = Len(h) + Len(D)
        /\ \A i \in 1 .. Len(h) : e[i] = h[i]
        /\ \A i \in 1 .. Len(D) : e[Len(h) + i] = D[i]
    <3>1. h \in Seq(B) /\ D \in Seq(B)
      BY <1>2, <1>5
    <3> QED
      BY <1>7, <3>1, JoinIs
  <2> QED
    BY <1>6, <2>1, Zenon
<1>9. ASSUME NEW i \in 1 .. Len(d) PROVE e[i] = d[i]
  <2>1. CASE i = 1
    <3>1. 1 \in 1 .. at
      BY <1>0
    <3> QED
      BY <1>6, <1>8, <2>1, <3>1
  <2>2. CASE i = at
    <3>1. at \in 1 .. at
      BY <1>0
    <3> QED
      BY <1>6, <1>8, <2>2, <3>1
  <2>3. CASE i > 1 /\ i < at
    <3>1. PICK k : k = i - 1
      OBVIOUS
    <3>2. k \in 1 .. at - 2 /\ 1 + k = i /\ k + 1 = i /\ i \in 1 .. at
      BY <1>0, <2>3, <3>1
    <3>3. X[k] = d[k + 1] /\ h[1 + k] = X[k] /\ e[i] = h[i]
      BY <1>6, <1>8, <3>2, Zenon
    <3> QED
      BY <3>2, <3>3, Zenon
  <2>4. CASE i > at
    <3>1. PICK k : k = i - at
      OBVIOUS
    <3>2. k \in 1 .. Len(D) /\ at + k = i
      BY <1>0, <2>4, <3>1
    <3>3. e[at + k] = D[k] /\ d[at + k] = D[k]
      BY <1>8, <3>2, Zenon
    <3> QED
      BY <3>2, <3>3, Zenon
  <2> QED
    BY <1>0, <2>1, <2>2, <2>3, <2>4
<1>10. e = d
  <2>1. Len(e) = Len(d)
    BY <1>8
  <2> QED
    BY <1>8, <1>9, <2>1, AnySequences
<1> QED
  BY <1>3, <1>4, <1>7, <1>10, Zenon

LEMMA ParseMethodGives ==
  ASSUME NEW S, NEW d \in Seq(S), ParseMethod(d).ok
  PROVE  \E v \in Seq(TypesOver(S)), t \in TypesOver(S) \cup {Void} :
           /\ ParseMethod(d).value = [arguments |-> v, returns |-> t]
           /\ MethodDescriptor([arguments |-> v, returns |-> t]) = d
<1>0. Len(d) \in Nat
  OBVIOUS
<1>1. PICK p : p = IF d # <<>> /\ d[1] = "(" THEN ParseArguments(d) ELSE Failed
  OBVIOUS
<1>2. PICK q : q = IF p.ok THEN ParseType(d, p.at + 1, TRUE) ELSE Failed
  OBVIOUS
<1>3. PICK w : w = Whole(d, q)
  OBVIOUS
<1>4. ParseMethod(d) = IF ~p.ok \/ ~w.ok THEN Failed ELSE Parsed([arguments |-> p.value, returns |-> w.value])
  BY <1>1, <1>2, <1>3, Zenon DEF ParseMethod
<1>5. p.ok /\ w.ok /\ ParseMethod(d).value = [arguments |-> p.value, returns |-> w.value]
  BY <1>4 DEF Failed, Parsed
<1>6. q.ok /\ q.at = Len(d) + 1 /\ w.value = q.value
  BY <1>3, <1>5 DEF Whole, Failed, Parsed
<1>7. d # <<>> /\ d[1] = "(" /\ p = ParseArguments(d)
  BY <1>1, <1>5 DEF Failed
<1>8. PICK v \in Seq(TypesOver(S)), at \in 2 .. Len(d) : p = ParsedTo(v, at) /\ Reads(d, v, at) /\ d[at] = ")"
  BY <1>5, <1>7, ParseArgumentsGives
<1>9. p.value = v /\ p.at = at
  BY <1>8 DEF ParsedTo
<1>10. q = ParseType(d, at + 1, TRUE)
  BY <1>2, <1>5, <1>9
<1>11. PICK t \in TypesOver(S) \cup {Void} : StandsAt(d, at + 1, t) /\ q = ParsedTo(t, (at + 1) + Len(Descriptor(t)))
  <2>1. TRUE \in BOOLEAN /\ Allowed(S, TRUE) = TypesOver(S) \cup {Void} /\ at + 1 \in 1 .. Len(d) + 1
    BY <1>0 DEF Allowed
  <2>2. \E t \in Allowed(S, TRUE) : StandsAt(d, at + 1, t) /\ ParseType(d, at + 1, TRUE) = ParsedTo(t, (at + 1) + Len(Descriptor(t)))
    BY <1>6, <1>10, <2>1, ParseTypeGives
  <2> QED
    BY <1>10, <2>1, <2>2
<1>12. PICK D, A, X : D = Descriptor(t) /\ A = Alphabet(S) /\ X = TextOf(v)
  OBVIOUS
<1>13. q.value = t /\ q.at = (at + 1) + Len(D)
  BY <1>11, <1>12 DEF ParsedTo
<1>14. D \in Seq(A) /\ X \in Seq(A)
  <2>1. Prim("int") \in TypesOver(S)
    BY PrimsAre DEF TypesOver, Prim
  <2>2. X \in Seq(A)
    BY <1>12, <2>1, TextOfMore
  <2> QED
    BY <1>12, <2>2, DescriptorIn
<1>15. Len(D) \in Nat /\ Len(d) = at + Len(D)
  <2>1. Len(D) \in Nat
    BY <1>12, DescriptorLength
  <2> QED
    BY <1>0, <1>6, <1>13, <2>1
<1>16. ASSUME NEW x \in 1 .. Len(D) PROVE d[at + x] = D[x]
  <2>1. (at + 1) + x - 1 = at + x
    OBVIOUS
  <2>2. d[(at + 1) + x - 1] = D[x]
    BY <1>11, <1>12 DEF StandsAt
  <2> QED
    BY <2>1, <2>2
<1>17. Len(X) = at - 2 /\ \A x \in 1 .. at - 2 : X[x] = d[x + 1]
  BY <1>8, <1>12 DEF Reads
<1>18. <<"(">> \o X \o <<")">> \o D = d
  <2>1. \A x \in 1 .. Len(D) : d[at + x] = D[x]
    BY <1>16
  <2>2. Len(d) = at + Len(D) /\ Len(X) = at - 2 /\ d[1] = "(" /\ d[at] = ")" /\ \A x \in 1 .. at - 2 : X[x] = d[x + 1]
    BY <1>7, <1>8, <1>15, <1>17, Zenon
  <2>3. IsMethodText(d, X, D, at)
    BY <2>1, <2>2, Zenon DEF IsMethodText
  <2> QED
    BY <1>14, <2>3, MethodText
<1>19. PICK s : s = [arguments |-> v, returns |-> t]
  OBVIOUS
<1>20. s.arguments = v /\ s.returns = t
  BY <1>19
<1>21. MethodDescriptor(s) = d
  <2>1. MethodDescriptor(s) = <<"(">> \o TextOf(s.arguments) \o <<")">> \o Descriptor(s.returns)
    BY Zenon DEF MethodDescriptor, TextOf, Texts
  <2> QED
    BY <1>12, <1>18, <1>20, <2>1, Zenon
<1>22. ParseMethod(d).value = s
  BY <1>5, <1>6, <1>9, <1>13, <1>19
<1> QED
  BY <1>8, <1>11, <1>19, <1>21, <1>22, Zenon

LEMMA SignaturesAreRead ==
  ASSUME NEW S, IsPlain(S), NEW v \in Seq(TypesOver(S)), NEW t \in TypesOver(S) \cup {Void}
  PROVE  FromPrettyTypes(PrettyName(t), [i \in DOMAIN v |-> PrettyName(v[i])])
           = Parsed([arguments |-> v, returns |-> t])
<1>1. PICK n \in Nat : n = Len(v) /\ DOMAIN v = 1 .. n
  OBVIOUS
<1>2. PICK arguments : arguments = [i \in 1 .. n |-> PrettyName(v[i])]
  OBVIOUS
<1>3. DOMAIN arguments = 1 .. n /\ \A i \in 1 .. n : arguments[i] = PrettyName(v[i])
  BY <1>2
<1>4. \A i \in 1 .. n : FromPrettyName(arguments[i]) = Parsed(v[i])
  <2> TAKE i \in 1 .. n
  <2>1. v[i] \in TypesOver(S) \cup {Void}
    BY <1>1
  <2> QED
    BY <1>3, <2>1, PrettyNamesAreRead
<1>5. FromPrettyName(PrettyName(t)) = Parsed(t)
  BY PrettyNamesAreRead
<1>6. PICK types : types = [i \in 1 .. n |-> FromPrettyName(arguments[i])]
  OBVIOUS
<1>7. DOMAIN types = 1 .. n /\ \A i \in 1 .. n : types[i] = Parsed(v[i]) /\ types[i].ok /\ types[i].value = v[i]
  BY <1>4, <1>6 DEF Parsed
<1>8. [i \in DOMAIN types |-> types[i].value] = v
  <2>1. PICK u : u = [i \in 1 .. n |-> types[i].value]
    OBVIOUS
  <2>2. u = [i \in 1 .. n |-> v[i]]
    BY <1>7, <2>1
  <2>3. v = [i \in 1 .. n |-> v[i]]
    BY <1>1
  <2>4. u = v
    BY <2>2, <2>3
  <2> QED
    BY <1>7, <2>1, <2>4, Zenon
<1>9. Parsed(t).ok /\ Parsed(t).value = t
  BY DEF Parsed
<1>10. FromPrettyTypes(PrettyName(t), arguments) = Parsed([arguments |-> v, returns |-> t])
  <2>1. PICK return : return = FromPrettyName(PrettyName(t))
    OBVIOUS
  <2>2. return.ok /\ return.value = t
    BY <1>5, <1>9, <2>1
  <2>3. \A i \in DOMAIN types : types[i].ok
    BY <1>7
  <2>4. FromPrettyTypes(PrettyName(t), arguments) =
          IF return.ok /\ \A i \in DOMAIN types : types[i].ok
          THEN Parsed([arguments |-> [i \in DOMAIN types |-> types[i].value], returns |-> return.value])
          ELSE Failed
    <3>1. types = [i \in DOMAIN arguments |-> FromPrettyName(arguments[i])]
      BY <1>3, <1>6, Zenon
    <3> QED
      BY <2>1, <3>1, Zenon DEF FromPrettyTypes
  <2> QED
    BY <1>8, <2>2, <2>3, <2>4, Zenon
<1> QED
  BY <1>1, <1>2, <1>10, Zenon

(* A method descriptor that MethodSignature::parse accepts is printed      *)
(* again as it was, and the source-style names of its types give the same  *)
(* signature, for any number of arguments and texts without dots.          *)
THEOREM MethodsAlwaysPrint ==
  ASSUME NEW S, IsPlain(S), NEW d \in Seq(S)
  PROVE  PrintsMethods(d)
<1> SUFFICES ASSUME ParseMethod(d).ok PROVE PrintsMethods(d)
  BY Zenon DEF PrintsMethods
<1>1. PICK v \in Seq(TypesOver(S)), t \in TypesOver(S) \cup {Void} :
           /\ ParseMethod(d).value = [arguments |-> v, returns |-> t]
           /\ MethodDescriptor([arguments |-> v, returns |-> t]) = d
  BY ParseMethodGives
<1>2. PICK s : s = [arguments |-> v, returns |-> t]
  OBVIOUS
<1>3. s.arguments = v /\ s.returns = t
  BY <1>2
<1>4. FromPrettyTypes(PrettyName(t), [i \in DOMAIN v |-> PrettyName(v[i])]) = Parsed(s)
  BY <1>2, SignaturesAreRead
<1>5. ParseMethod(d).value = s /\ MethodDescriptor(s) = d
  BY <1>1, <1>2
<1> QED
  BY <1>3, <1>4, <1>5, Zenon DEF PrintsMethods

-----------------------------------------------------------------------------
(* Method queries.                                                         *)
LEMMA JoinedTwice ==
  ASSUME NEW A, NEW a \in Seq(A), NEW b \in Seq(A), NEW c \in Seq(A)
  PROVE  a \o b \o c = a \o (b \o c)
OBVIOUS

LEMMA SplitsAgain ==
  ASSUME NEW A, NEW a \in Seq(A), NEW b \in Seq(A), NEW q, q = a \o b
  PROVE  q \in Seq(A) /\ SubSeq(q, 1, Len(a)) = a /\ SubSeq(q, Len(a) + 1, Len(q)) = b
<1>1. PICK m \in Nat, n \in Nat : m = Len(a) /\ n = Len(b)
  OBVIOUS
<1>2. /\ q \in Seq(A) /\ Len(q) = Len(a) + Len(b)
      /\ \A i \in 1 .. Len(a) : q[i] = a[i]
      /\ \A i \in 1 .. Len(b) : q[Len(a) + i] = b[i]
  BY JoinIs
<1>3. /\ Len(q) = m + n
      /\ \A i \in 1 .. m : q[i] = a[i]
      /\ \A i \in 1 .. n : q[m + i] = b[i]
  BY <1>1, <1>2
<1>4. PICK l : l = SubSeq(q, 0 + 1, m)
  OBVIOUS
<1>5. l \in Seq(A) /\ Len(l) = m - 0 /\ \A i \in 1 .. m - 0 : l[i] = q[0 + i]
  <2>1. 0 \in Nat /\ 0 <= m /\ m <= Len(q)
    BY <1>3
  <2> QED
    BY <1>2, <1>4, <2>1, PartIs
<1>6. l = a
  <2>1. Len(l) = Len(a) /\ \A i \in 1 .. Len(a) : l[i] = a[i]
    BY <1>1, <1>3, <1>5
  <2> QED
    BY <1>5, <2>1, AnySequences
<1>7. PICK k \in Nat : k = Len(q) /\ k = m + n
  BY <1>3
<1>8. PICK r : r = SubSeq(q, m + 1, k)
  OBVIOUS
<1>9. r \in Seq(A) /\ Len(r) = k - m /\ \A i \in 1 .. k - m : r[i] = q[m + i]
  <2>1. m <= k /\ k <= Len(q)
    BY <1>7
  <2> QED
    BY <1>2, <1>8, <2>1, PartIs
<1>10. r = b
  <2>1. k - m = n
    BY <1>7
  <2>2. Len(r) = Len(b) /\ \A i \in 1 .. Len(b) : r[i] = b[i]
    BY <1>1, <1>3, <1>9, <2>1
  <2> QED
    BY <1>9, <2>2, AnySequences
<1>11. 0 + 1 = 1
  OBVIOUS
<1> QED
  BY <1>1, <1>2, <1>4, <1>6, <1>7, <1>8, <1>10, <1>11, Zenon

LEMMA BeforeIs ==
  ASSUME NEW s, NEW c, Len(s) \in Nat, NEW k \in 1 .. Len(s), s[k] = c, \A j \in 1 .. k - 1 : s[j] # c
  PROVE  Before(s, c) = k
<1>1. ASSUME NEW i \in 1 .. Len(s), s[i] = c, \A j \in 1 .. i - 1 : s[j] # c PROVE i = k
  <2>1. CASE i < k
    BY <1>1, <2>1
  <2>2. CASE i > k
    BY <1>1, <2>2
  <2> QED
    BY <2>1, <2>2
<1> QED
  BY <1>1 DEF Before

LEMMA LastIs ==
  ASSUME NEW s, NEW c, Len(s) \in Nat, NEW k \in 1 .. Len(s), s[k] = c, \A j \in k + 1 .. Len(s) : s[j] # c
  PROVE  LastOf(s, c) = k
<1>1. ASSUME NEW i \in 1 .. Len(s), s[i] = c, \A j \in i + 1 .. Len(s) : s[j] # c PROVE i = k
  <2>1. CASE i < k
    BY <1>1, <2>1
  <2>2. CASE i > k
    BY <1>1, <2>2
  <2> QED
    BY <2>1, <2>2
<1> QED
  BY <1>1 DEF LastOf

\* the class of a query, and what is behind the exclamation mark
LEMMA ClassIsRead ==
  ASSUME NEW A, "!" \in A, NEW class \in Seq(A), NEW rest \in Seq(A), ~Has(class, "!"),
         NEW q, q = class \o <<"!">> \o rest
  PROVE  /\ Has(q, "!") /\ Before(q, "!") = Len(class) + 1
         /\ SubSeq(q, 1, Before(q, "!") - 1) = class
         /\ From(q, Before(q, "!") + 1) = rest
<1>1. PICK mark : mark = <<"!">> /\ mark \in Seq(A) /\ Len(mark) = 1 /\ mark[1] = "!"
  BY SingleIs
<1>2. PICK n \in Nat : n = Len(class)
  OBVIOUS
<1>3. PICK a : a = class \o mark
  OBVIOUS
<1>4. a \in Seq(A) /\ Len(a) = n + 1
  BY <1>1, <1>2, <1>3, JoinIs
<1>5. PICK b : b = mark \o rest
  OBVIOUS
<1>6. b \in Seq(A)
  BY <1>1, <1>5, JoinIs
<1>7. q = a \o rest /\ q = class \o b
  BY <1>1, <1>3, <1>5, JoinedTwice
<1>8. SubSeq(q, 1, n) = class /\ q \in Seq(A)
  BY <1>2, <1>6, <1>7, SplitsAgain
<1>9. SubSeq(q, (n + 1) + 1, Len(q)) = rest
  <2>1. SubSeq(q, Len(a) + 1, Len(q)) = rest
    <3>1. PICK p : p = a \o rest
      OBVIOUS
    <3>2. SubSeq(p, Len(a) + 1, Len(p)) = rest
      BY <1>4, <3>1, SplitsAgain
    <3> QED
      BY <1>7, <3>1, <3>2, Zenon
  <2> QED
    BY <1>4, <2>1, Zenon
<1>10. /\ Len(q) = Len(class) + Len(mark) + Len(rest)
       /\ \A i \in 1 .. Len(class) : q[i] = class[i]
       /\ \A i \in 1 .. Len(mark) : q[Len(class) + i] = mark[i]
  BY <1>1, ThreeAre
<1>11. Len(rest) \in Nat /\ Len(q) \in Nat /\ n + 1 \in 1 .. Len(q) /\ q[n + 1] = "!" /\ DOMAIN q = 1 .. Len(q)
  <2>1. Len(rest) \in Nat
    OBVIOUS
  <2>2. 1 \in 1 .. Len(mark)
    BY <1>1
  <2>3. q[n + 1] = "!"
    BY <1>1, <1>2, <1>10, <2>2
  <2> QED
    BY <1>1, <1>2, <1>8, <1>10, <2>1, <2>3
<1>12. \A j \in 1 .. (n + 1) - 1 : q[j] # "!"
  <2>1. \A j \in 1 .. Len(class) : class[j] # "!"
    <3>1. DOMAIN class = 1 .. Len(class)
      OBVIOUS
    <3> QED
      BY <3>1 DEF Has
  <2>2. (n + 1) - 1 = Len(class)
    BY <1>2
  <2> QED
    BY <1>10, <2>1, <2>2
<1>13. PICK k : k = n + 1
  OBVIOUS
<1>14. Before(q, "!") = k
  BY <1>11, <1>12, <1>13, BeforeIs
<1>15. k - 1 = n
  BY <1>13
<1>16. Has(q, "!")
  BY <1>11 DEF Has
<1> QED
  BY <1>2, <1>8, <1>9, <1>13, <1>14, <1>15, <1>16, Zenon DEF From

\* the method's pattern and its modifiers
LEMMA ModifiersAreRead ==
  ASSUME NEW A, "/" \in A, NEW method \in Seq(A), NEW modifiers \in Seq(A),
         \A i \in 1 .. Len(modifiers) : modifiers[i] \in Modifiers,
         NEW rest, rest = method \o (<<"/">> \o modifiers)
  PROVE  /\ Has(rest, "/") /\ From(rest, LastOf(rest, "/") + 1) = modifiers
         /\ Range(modifiers) \subseteq Modifiers
         /\ SubSeq(rest, 1, LastOf(rest, "/") - 1) = method
<1>1. PICK mark : mark = <<"/">> /\ mark \in Seq(A) /\ Len(mark) = 1 /\ mark[1] = "/"
  BY SingleIs
<1>2. PICK n \in Nat, m \in Nat : n = Len(method) /\ m = Len(modifiers)
  OBVIOUS
<1>3. PICK a : a = method \o mark
  OBVIOUS
<1>4. a \in Seq(A) /\ Len(a) = n + 1
  BY <1>1, <1>2, <1>3, JoinIs
<1>5. PICK b : b = mark \o modifiers
  OBVIOUS
<1>6. b \in Seq(A)
  BY <1>1, <1>5, JoinIs
<1>7. rest = method \o b
  BY <1>1, <1>5
<1>8. rest = a \o modifiers
  BY <1>1, <1>3, <1>5, <1>7, JoinedTwice
<1>9. SubSeq(rest, 1, n) = method /\ rest \in Seq(A)
  BY <1>2, <1>6, <1>7, SplitsAgain
<1>10. SubSeq(rest, (n + 1) + 1, Len(rest)) = modifiers
  BY <1>4, <1>8, SplitsAgain
<1>11. PICK r : r = method \o mark \o modifiers
  OBVIOUS
<1>12. r = rest
  BY <1>3, <1>8, <1>11
<1>13. /\ Len(r) = Len(method) + Len(mark) + Len(modifiers)
       /\ \A i \in 1 .. Len(mark) : r[Len(method) + i] = mark[i]
       /\ \A i \in 1 .. Len(modifiers) : r[Len(method) + Len(mark) + i] = modifiers[i]
  BY <1>1, <1>11, ThreeAre
<1>14. /\ Len(rest) = n + 1 + m
       /\ rest[n + 1] = "/"
       /\ \A i \in 1 .. m : rest[n + 1 + i] = modifiers[i]
  <2>1. 1 \in 1 .. Len(mark)
    BY <1>1
  <2> QED
    BY <1>1, <1>2, <1>12, <1>13, <2>1
<1>15. ASSUME NEW j \in (n + 1) + 1 .. Len(rest) PROVE rest[j] # "/"
  <2>1. PICK k : k = j - (n + 1)
    OBVIOUS
  <2>2. k \in 1 .. m /\ n + 1 + k = j
    BY <1>14, <2>1
  <2>3. rest[j] = modifiers[k] /\ modifiers[k] \in Modifiers
    BY <1>2, <1>14, <2>2
  <2> QED
    BY <2>3 DEF Modifiers
<1>16. PICK k : k = n + 1
  OBVIOUS
<1>17. LastOf(rest, "/") = k
  <2>1. Len(rest) \in Nat /\ k \in 1 .. Len(rest) /\ rest[k] = "/"
    BY <1>14, <1>16
  <2> QED
    BY <1>15, <1>16, <2>1, LastIs
<1>18. Has(rest, "/")
  <2>1. k \in DOMAIN rest
    BY <1>9, <1>14, <1>16
  <2> QED
    BY <1>14, <1>16, <2>1 DEF Has
<1>19. Range(modifiers) \subseteq Modifiers
  <2>1. DOMAIN modifiers = 1 .. Len(modifiers)
    OBVIOUS
  <2> QED
    BY <2>1 DEF Range
<1>20. k - 1 = n
  BY <1>16
<1> QED
  BY <1>9, <1>10, <1>16, <1>17, <1>18, <1>19, <1>20, Zenon DEF From

\* what is behind the exclamation mark, with modifiers or without
QueryMeaning(class, method, modifiers) ==
  IF class = <<>> \/ method = <<>> THEN Failed
  ELSE Parsed([class |-> class, method |-> method,
               ignoreCase |-> Has(modifiers, "i"), signature |-> Has(modifiers, "s"),
               skipSystem |-> Has(modifiers, "u")])
LEMMA ParseMethodQueryDef ==
  ASSUME NEW q, NEW class, NEW rest, NEW method, NEW modifiers,
         Has(q, "!"), Before(q, "!") = 1 <=> class = <<>>,
         SubSeq(q, 1, Before(q, "!") - 1) = class, From(q, Before(q, "!") + 1) = rest,
         IF Has(rest, "/") /\ Range(From(rest, LastOf(rest, "/") + 1)) \subseteq Modifiers
         THEN method = SubSeq(rest, 1, LastOf(rest, "/") - 1) /\ modifiers = From(rest, LastOf(rest, "/") + 1)
         ELSE method = rest /\ modifiers = <<>>
  PROVE  ParseMethodQuery(q) = QueryMeaning(class, method, modifiers)
<1> DEFINE modified == Has(rest, "/") /\ Range(From(rest, LastOf(rest, "/") + 1)) \subseteq Modifiers
<1>1. method = (IF modified THEN SubSeq(rest, 1, LastOf(rest, "/") - 1) ELSE rest)
  BY Zenon
<1>2. modifiers = (IF modified THEN From(rest, LastOf(rest, "/") + 1) ELSE <<>>)
  BY Zenon
<1>3. ParseMethodQuery(q) =
        IF ~Has(q, "!") THEN Failed
        ELSE IF Before(q, "!") = 1 \/ method = <<>> THEN Failed
        ELSE Parsed([class |-> SubSeq(q, 1, Before(q, "!") - 1), method |-> method,
                     ignoreCase |-> Has(modifiers, "i"), signature |-> Has(modifiers, "s"),
                     skipSystem |-> Has(modifiers, "u")])
  BY <1>1, <1>2, Zenon DEF ParseMethodQuery
<1> QED
  BY <1>3, Zenon DEF QueryMeaning

(* A query of enumerate_methods means the parts it is put together from,   *)
(* for classes and patterns of any length over any characters: an          *)
(* exclamation mark in the method's pattern does not move the end of the   *)
(* class, and a slash in it is not taken for the one before modifiers.     *)
THEOREM QueriesAreAlwaysRead ==
  ASSUME NEW S, NEW class \in Seq(S), NEW method \in Seq(S), NEW modifiers \in Seq(Modifiers)
  PROVE  QueriesAreRead(class, method, modifiers)
<1>1. PICK A : A = S \cup {"!", "/"} \cup Modifiers
  OBVIOUS
<1>2. "!" \in A /\ "/" \in A /\ class \in Seq(A) /\ method \in Seq(A) /\ modifiers \in Seq(A)
  <2>1. S \subseteq A /\ Modifiers \subseteq A /\ "!" \in A /\ "/" \in A
    BY <1>1
  <2> QED
    BY <2>1, SequencesOfMore
<1>3. PICK slash : slash = <<"/">> \o modifiers /\ slash \in Seq(A)
  <2>1. <<"/">> \in Seq(A)
    BY <1>2, SingleIs
  <2> QED
    BY <1>2, <2>1, JoinIs
<1>4. Len(class) + 1 = 1 <=> class = <<>>
  <2>1. Len(class) \in Nat
    OBVIOUS
  <2> QED
    BY <2>1
<1> SUFFICES ASSUME ~Has(class, "!")
             PROVE  /\ ParseMethodQuery(Query(class, method, slash)) = QueryMeaning(class, method, modifiers)
                    /\ modifiers = <<>> /\ ~(Has(method, "/") /\ Range(From(method, LastOf(method, "/") + 1)) \subseteq Modifiers) =>
                         ParseMethodQuery(Query(class, method, <<>>)) = QueryMeaning(class, method, modifiers)
  BY <1>3, Zenon DEF QueriesAreRead, QueryMeaning
<1>5. ASSUME NEW rest \in Seq(A), NEW q, q = class \o <<"!">> \o rest
      PROVE  /\ Has(q, "!") /\ (Before(q, "!") = 1 <=> class = <<>>)
             /\ SubSeq(q, 1, Before(q, "!") - 1) = class /\ From(q, Before(q, "!") + 1) = rest
  <2>1. /\ Has(q, "!") /\ Before(q, "!") = Len(class) + 1
        /\ SubSeq(q, 1, Before(q, "!") - 1) = class /\ From(q, Before(q, "!") + 1) = rest
    BY <1>2, <1>5, ClassIsRead, Zenon
  <2> QED
    BY <1>4, <2>1, Zenon
<1>6. \A suffix \in Seq(A) : Query(class, method, suffix) = class \o <<"!">> \o (method \o suffix) /\ method \o suffix \in Seq(A)
  <2> TAKE suffix \in Seq(A)
  <2>1. PICK a : a = class \o <<"!">> /\ a \in Seq(A)
    <3>1. <<"!">> \in Seq(A)
      BY <1>2, SingleIs
    <3> QED
      BY <1>2, <3>1, JoinIs
  <2>2. a \o method \o suffix = a \o (method \o suffix)
    BY <1>2, <2>1, JoinedTwice, SMTT(60)
  <2>3. method \o suffix \in Seq(A)
    BY <1>2, JoinIs
  <2> QED
    BY <2>1, <2>2, <2>3, Zenon DEF Query
<1>7. ParseMethodQuery(Query(class, method, slash)) = QueryMeaning(class, method, modifiers)
  <2>0. PICK rest \in Seq(A) : rest = method \o slash
    BY <1>2, <1>3, JoinIs
  <2>1. PICK q : rest = method \o slash /\ q = Query(class, method, slash) /\ q = class \o <<"!">> \o rest
    BY <1>3, <1>6, <2>0
  <2>2. \A i \in 1 .. Len(modifiers) : modifiers[i] \in Modifiers
    OBVIOUS
  <2>3. rest = method \o (<<"/">> \o modifiers)
    BY <1>3, <2>1
  <2>4. /\ Has(rest, "/") /\ From(rest, LastOf(rest, "/") + 1) = modifiers
        /\ Range(modifiers) \subseteq Modifiers
        /\ SubSeq(rest, 1, LastOf(rest, "/") - 1) = method
    BY <1>2, <2>2, <2>3, ModifiersAreRead, ZenonT(60)
  <2>5. /\ Has(q, "!") /\ (Before(q, "!") = 1 <=> class = <<>>)
        /\ SubSeq(q, 1, Before(q, "!") - 1) = class /\ From(q, Before(q, "!") + 1) = rest
    BY <1>5, <2>1
  <2>6. ParseMethodQuery(q) = QueryMeaning(class, method, modifiers)
    BY <2>4, <2>5, ParseMethodQueryDef, Zenon
  <2> QED
    BY <2>1, <2>6
<1>8. ASSUME modifiers = <<>>, ~(Has(method, "/") /\ Range(From(method, LastOf(method, "/") + 1)) \subseteq Modifiers)
      PROVE  ParseMethodQuery(Query(class, method, <<>>)) = QueryMeaning(class, method, modifiers)
  <2>1. <<>> \in Seq(A) /\ method \o <<>> = method
    OBVIOUS
  <2>2. PICK q : q = Query(class, method, <<>>) /\ q = class \o <<"!">> \o method
    BY <1>6, <2>1, Zenon
  <2>3. /\ Has(q, "!") /\ (Before(q, "!") = 1 <=> class = <<>>)
        /\ SubSeq(q, 1, Before(q, "!") - 1) = class /\ From(q, Before(q, "!") + 1) = method
    BY <1>2, <1>5, <2>2
  <2>4. ParseMethodQuery(q) = QueryMeaning(class, method, modifiers)
    BY <1>8, <2>3, ParseMethodQueryDef, Zenon
  <2> QED
    BY <2>2, <2>4
<1> QED
  BY <1>7, <1>8

-----------------------------------------------------------------------------
(* Patterns.                                                               *)
\* no character of the value is a star, nor the mark of the pattern's end
IsGlob(pat, val) ==
  /\ Len(pat) \in Nat /\ Len(val) \in Nat
  /\ \A i \in 1 .. Len(val) : val[i] # "*" /\ val[i] # "end"

\* the end of the part of the value that a character of the pattern stands for
Step(pat, val, e, i) ==
  \/ pat[i] = "*" /\ e[i - 1] <= e[i]
  \/ pat[i] # "*" /\ e[i] = e[i - 1] + 1 /\ pat[i] \in {"?", val[e[i]]}
\* the rest of the pattern from p on stands for the rest of the value from u on
FitsFrom(pat, val, p, u) ==
  \E e \in [p - 1 .. Len(pat) -> 0 .. Len(val)] :
    /\ e[p - 1] = u - 1 /\ e[Len(pat)] = Len(val)
    /\ \A i \in p .. Len(pat) : Step(pat, val, e, i)

LEMMA FitsWhole ==
  ASSUME NEW pat, NEW val, IsGlob(pat, val)
  PROVE  Stands(pat, val) <=> FitsFrom(pat, val, 1, 1)
<1>1. 1 - 1 = 0
  OBVIOUS
<1> QED
  BY <1>1 DEF Stands, FitsFrom, Step

LEMMA FitsEnd ==
  ASSUME NEW pat, NEW val, IsGlob(pat, val), NEW u \in 1 .. Len(val) + 1
  PROVE  FitsFrom(pat, val, Len(pat) + 1, u) <=> u = Len(val) + 1
<1>1. PICK m \in Nat, k \in Nat : m = Len(pat) /\ k = Len(val)
  BY DEF IsGlob
<1>2. FitsFrom(pat, val, m + 1, u) <=>
        \E e \in [m .. m -> 0 .. k] : e[m] = u - 1 /\ e[m] = k
  <2>1. (m + 1) - 1 = m /\ m + 1 .. m = {}
    OBVIOUS
  <2> QED
    BY <1>1, <2>1, Zenon DEF FitsFrom
<1>3. ASSUME u = k + 1 PROVE \E e \in [m .. m -> 0 .. k] : e[m] = u - 1 /\ e[m] = k
  <2>1. PICK e : e = [i \in m .. m |-> k]
    OBVIOUS
  <2>2. e \in [m .. m -> 0 .. k] /\ e[m] = k
    BY <2>1
  <2> QED
    BY <1>3, <2>2
<1>4. ASSUME NEW e, e[m] = u - 1, e[m] = k PROVE u = k + 1
  BY <1>1, <1>4
<1>5. FitsFrom(pat, val, m + 1, u) <=> u = k + 1
  BY <1>2, <1>3, <1>4, Zenon
<1> QED
  BY <1>1, <1>5, Zenon

LEMMA FitsStar ==
  ASSUME NEW pat, NEW val, IsGlob(pat, val), NEW p \in 1 .. Len(pat), NEW u \in 1 .. Len(val) + 1,
         pat[p] = "*"
  PROVE  FitsFrom(pat, val, p, u) <=> \E w \in u .. Len(val) + 1 : FitsFrom(pat, val, p + 1, w)
<1>1. PICK m \in Nat, k \in Nat : m = Len(pat) /\ k = Len(val)
  BY DEF IsGlob
<1>2. ASSUME NEW e \in [p - 1 .. m -> 0 .. k], e[p - 1] = u - 1, e[m] = k,
             \A i \in p .. m : Step(pat, val, e, i)
      PROVE  \E w \in u .. k + 1 : FitsFrom(pat, val, p + 1, w)
  <2>1. PICK f : f = [i \in p .. m |-> e[i]]
    OBVIOUS
  <2>2. p \in p .. m /\ m \in p .. m /\ p \in p - 1 .. m /\ (p + 1) - 1 = p
    BY <1>1
  <2>3. e[p] \in 0 .. k /\ e[p - 1] <= e[p]
    BY <1>2, <2>2 DEF Step
  <2>4. PICK w : w = e[p] + 1
    OBVIOUS
  <2>5. w \in u .. k + 1 /\ f[p] = w - 1 /\ f[m] = k
    BY <1>1, <1>2, <2>1, <2>2, <2>3, <2>4
  <2>6. f \in [p .. m -> 0 .. k]
    BY <1>2, <2>1
  <2>7. ASSUME NEW i \in p + 1 .. m PROVE Step(pat, val, f, i)
    <3>1. i \in p .. m /\ i - 1 \in p .. m
      BY <1>1
    <3>2. f[i] = e[i] /\ f[i - 1] = e[i - 1] /\ Step(pat, val, e, i)
      BY <1>2, <2>1, <3>1
    <3> QED
      BY <3>2 DEF Step
  <2>8. FitsFrom(pat, val, p + 1, w)
    BY <1>1, <2>2, <2>5, <2>6, <2>7, Zenon DEF FitsFrom
  <2> QED
    BY <2>5, <2>8
<1>3. ASSUME NEW w \in u .. k + 1, NEW e \in [p .. m -> 0 .. k], e[p] = w - 1, e[m] = k,
             \A i \in p + 1 .. m : Step(pat, val, e, i)
      PROVE  FitsFrom(pat, val, p, u)
  <2>1. PICK f : f = [i \in p - 1 .. m |-> IF i = p - 1 THEN u - 1 ELSE e[i]]
    OBVIOUS
  <2>2. /\ p - 1 \in p - 1 .. m /\ m \in p - 1 .. m /\ m # p - 1
        /\ \A i \in p .. m : i # p - 1 /\ i \in p - 1 .. m
        /\ u - 1 \in 0 .. k /\ p \in p .. m
    BY <1>1
  <2>3. f[p - 1] = u - 1 /\ \A i \in p .. m : f[i] = e[i]
    BY <2>1, <2>2
  <2>4. f \in [p - 1 .. m -> 0 .. k]
    BY <1>3, <2>1, <2>2
  <2>5. f[m] = k
    BY <1>1, <1>3, <2>1, <2>2
  <2>6. ASSUME NEW i \in p .. m PROVE Step(pat, val, f, i)
    <3>1. CASE i = p
      <4>1. f[p] = w - 1 /\ f[p - 1] <= f[p]
        BY <1>1, <1>3, <2>2, <2>3
      <4> QED
        BY <3>1, <4>1 DEF Step
    <3>2. CASE i # p
      <4>1. i \in p + 1 .. m /\ i - 1 \in p .. m
        BY <1>1, <3>2
      <4>2. f[i] = e[i] /\ f[i - 1] = e[i - 1] /\ Step(pat, val, e, i)
        BY <1>3, <2>3, <4>1
      <4> QED
        BY <4>2 DEF Step
    <3> QED
      BY <3>1, <3>2
  <2> QED
    BY <1>1, <2>3, <2>4, <2>5, <2>6, Zenon DEF FitsFrom
<1>4. (p + 1) - 1 = p
  OBVIOUS
<1>5. FitsFrom(pat, val, p, u) => \E w \in u .. k + 1 : FitsFrom(pat, val, p + 1, w)
  BY <1>1, <1>2 DEF FitsFrom
<1>6. ASSUME NEW w \in u .. k + 1, FitsFrom(pat, val, p + 1, w) PROVE FitsFrom(pat, val, p, u)
  <2>1. \E e \in [p .. m -> 0 .. k] : e[p] = w - 1 /\ e[m] = k /\ \A i \in p + 1 .. m : Step(pat, val, e, i)
    BY <1>1, <1>4, <1>6, Zenon DEF FitsFrom
  <2> QED
    BY <1>3, <2>1
<1> QED
  BY <1>1, <1>5, <1>6

LEMMA FitsLetter ==
  ASSUME NEW pat, NEW val, IsGlob(pat, val), NEW p \in 1 .. Len(pat), NEW u \in 1 .. Len(val) + 1,
         pat[p] # "*"
  PROVE  FitsFrom(pat, val, p, u) <=> u <= Len(val) /\ pat[p] \in {"?", val[u]} /\ FitsFrom(pat, val, p + 1, u + 1)
<1>1. PICK m \in Nat, k \in Nat : m = Len(pat) /\ k = Len(val)
  BY DEF IsGlob
<1>2. ASSUME NEW e \in [p - 1 .. m -> 0 .. k], e[p - 1] = u - 1, e[m] = k,
             \A i \in p .. m : Step(pat, val, e, i)
      PROVE  u <= k /\ pat[p] \in {"?", val[u]} /\ FitsFrom(pat, val, p + 1, u + 1)
  <2>1. PICK f : f = [i \in p .. m |-> e[i]]
    OBVIOUS
  <2>2. p \in p .. m /\ m \in p .. m /\ p \in p - 1 .. m /\ (p + 1) - 1 = p /\ (u + 1) - 1 = u /\ (u - 1) + 1 = u
    BY <1>1
  <2>3. e[p] \in 0 .. k /\ e[p] = e[p - 1] + 1 /\ pat[p] \in {"?", val[e[p]]}
    BY <1>2, <2>2 DEF Step
  <2>4. e[p] = u /\ u <= k /\ pat[p] \in {"?", val[u]}
    BY <1>2, <2>2, <2>3
  <2>5. f[p] = (u + 1) - 1 /\ f[m] = k
    BY <1>1, <1>2, <2>1, <2>2, <2>4
  <2>6. f \in [p .. m -> 0 .. k]
    BY <1>2, <2>1
  <2>7. ASSUME NEW i \in p + 1 .. m PROVE Step(pat, val, f, i)
    <3>1. i \in p .. m /\ i - 1 \in p .. m
      BY <1>1
    <3>2. f[i] = e[i] /\ f[i - 1] = e[i - 1] /\ Step(pat, val, e, i)
      BY <1>2, <2>1, <3>1
    <3> QED
      BY <3>2 DEF Step
  <2>8. FitsFrom(pat, val, p + 1, u + 1)
    BY <1>1, <2>2, <2>5, <2>6, <2>7, Zenon DEF FitsFrom
  <2> QED
    BY <2>4, <2>8
<1>3. ASSUME u <= k, pat[p] \in {"?", val[u]}, NEW e \in [p .. m -> 0 .. k], e[p] = u, e[m] = k,
             \A i \in p + 1 .. m : Step(pat, val, e, i)
      PROVE  FitsFrom(pat, val, p, u)
  <2>1. PICK f : f = [i \in p - 1 .. m |-> IF i = p - 1 THEN u - 1 ELSE e[i]]
    OBVIOUS
  <2>2. /\ p - 1 \in p - 1 .. m /\ m \in p - 1 .. m /\ m # p - 1
        /\ \A i \in p .. m : i # p - 1 /\ i \in p - 1 .. m
        /\ u - 1 \in 0 .. k /\ p \in p .. m
    BY <1>1, <1>3
  <2>3. f[p - 1] = u - 1 /\ \A i \in p .. m : f[i] = e[i]
    BY <2>1, <2>2
  <2>4. f \in [p - 1 .. m -> 0 .. k]
    BY <1>3, <2>1, <2>2
  <2>5. f[m] = k
    BY <1>1, <1>3, <2>1, <2>2
  <2>6. ASSUME NEW i \in p .. m PROVE Step(pat, val, f, i)
    <3>1. CASE i = p
      <4>1. f[p] = u /\ f[p] = f[p - 1] + 1
        BY <1>1, <1>3, <2>2, <2>3
      <4> QED
        BY <1>3, <3>1, <4>1 DEF Step
    <3>2. CASE i # p
      <4>1. i \in p + 1 .. m /\ i - 1 \in p .. m
        BY <1>1, <3>2
      <4>2. f[i] = e[i] /\ f[i - 1] = e[i - 1] /\ Step(pat, val, e, i)
        BY <1>3, <2>3, <4>1
      <4> QED
        BY <4>2 DEF Step
    <3> QED
      BY <3>1, <3>2
  <2> QED
    BY <1>1, <2>3, <2>4, <2>5, <2>6, Zenon DEF FitsFrom
<1>4. (p + 1) - 1 = p /\ (u + 1) - 1 = u
  OBVIOUS
<1>5. FitsFrom(pat, val, p, u) => u <= k /\ pat[p] \in {"?", val[u]} /\ FitsFrom(pat, val, p + 1, u + 1)
  BY <1>1, <1>2 DEF FitsFrom
<1>6. ASSUME u <= k, pat[p] \in {"?", val[u]}, FitsFrom(pat, val, p + 1, u + 1) PROVE FitsFrom(pat, val, p, u)
  <2>1. \E e \in [p .. m -> 0 .. k] : e[p] = u /\ e[m] = k /\ \A i \in p + 1 .. m : Step(pat, val, e, i)
    BY <1>1, <1>4, <1>6, Zenon DEF FitsFrom
  <2> QED
    BY <1>3, <1>6, <2>1
<1> QED
  BY <1>1, <1>5, <1>6

\* n characters of the pattern from s on stand for those of the value from u on, each for itself
LiteralPart(pat, val, s, u, n) ==
  \A j \in 0 .. n - 1 : pat[s + j] # "*" /\ pat[s + j] \in {"?", val[u + j]}

LEMMA FitsOn ==
  ASSUME NEW pat, NEW val, IsGlob(pat, val), NEW s \in 1 .. Len(pat) + 1, NEW n \in Nat, s + n <= Len(pat) + 1,
         NEW w \in 1 .. Len(val) + 1, FitsFrom(pat, val, s, w), \A j \in 0 .. n - 1 : pat[s + j] # "*"
  PROVE  w + n <= Len(val) + 1 /\ FitsFrom(pat, val, s + n, w + n)
<1>1. PICK m \in Nat, k \in Nat : m = Len(pat) /\ k = Len(val)
  BY DEF IsGlob
<1> DEFINE Good == {i \in Nat : w + i <= k + 1 /\ FitsFrom(pat, val, s + i, w + i)}
<1>2. 0 \in Good
  <2>1. s + 0 = s /\ w + 0 = w /\ w + 0 <= k + 1
    BY <1>1
  <2> QED
    BY <2>1
<1>3. ASSUME NEW i \in Good, i < n PROVE i + 1 \in Good
  <2>1. i \in Nat /\ w + i <= k + 1 /\ FitsFrom(pat, val, s + i, w + i)
    OBVIOUS
  <2> HIDE DEF Good
  <2>2. PICK p \in 1 .. m, u \in 1 .. k + 1 : p = s + i /\ u = w + i /\ p + 1 = s + (i + 1) /\ u + 1 = w + (i + 1)
    <3>1. s + i \in 1 .. m /\ w + i \in 1 .. k + 1
      BY <1>1, <1>3, <2>1
    <3>2. (s + i) + 1 = s + (i + 1) /\ (w + i) + 1 = w + (i + 1)
      BY <2>1, <1>1
    <3> QED
      BY <3>1, <3>2
  <2>3. i \in 0 .. n - 1
    BY <1>3, <2>1
  <2>4. pat[p] # "*"
    BY <2>2, <2>3
  <2>5. FitsFrom(pat, val, p, u)
    BY <2>1, <2>2
  <2>6. p \in 1 .. Len(pat) /\ u \in 1 .. Len(val) + 1
    BY <1>1
  <2>7. u <= Len(val) /\ FitsFrom(pat, val, p + 1, u + 1)
    BY <2>4, <2>5, <2>6, FitsLetter, Zenon
  <2>8. i + 1 \in Nat /\ w + (i + 1) <= k + 1
    BY <1>1, <2>1, <2>2, <2>7
  <2> QED
    BY <2>2, <2>7, <2>8, Zenon DEF Good
<1>4. Good \in SUBSET Nat
  OBVIOUS
<1> HIDE DEF Good
<1>5. n \in Good
  <2>1. 0 .. n \subseteq Good
    BY <1>2, <1>3, <1>4, InductionTo
  <2>2. n \in 0 .. n
    OBVIOUS
  <2> QED
    BY <2>1, <2>2
<1> QED
  BY <1>1, <1>5 DEF Good

LEMMA FitsBack ==
  ASSUME NEW pat, NEW val, IsGlob(pat, val), NEW s \in 1 .. Len(pat) + 1, NEW n \in Nat, s + n <= Len(pat) + 1,
         NEW w \in 1 .. Len(val) + 1, w + n <= Len(val) + 1, LiteralPart(pat, val, s, w, n),
         FitsFrom(pat, val, s + n, w + n)
  PROVE  FitsFrom(pat, val, s, w)
<1>1. PICK m \in Nat, k \in Nat : m = Len(pat) /\ k = Len(val)
  BY DEF IsGlob
<1> DEFINE Good == {i \in Nat : FitsFrom(pat, val, s + (n - i), w + (n - i))}
<1>2. 0 \in Good
  <2>1. n - 0 = n
    OBVIOUS
  <2> QED
    BY <2>1
<1>3. ASSUME NEW i \in Good, i < n PROVE i + 1 \in Good
  <2>1. i \in Nat /\ FitsFrom(pat, val, s + (n - i), w + (n - i))
    OBVIOUS
  <2> HIDE DEF Good
  <2>2. PICK j \in 0 .. n - 1 : j = n - (i + 1) /\ j + 1 = n - i
    <3>1. n - (i + 1) \in 0 .. n - 1 /\ (n - (i + 1)) + 1 = n - i
      BY <1>3, <2>1
    <3> QED
      BY <3>1
  <2>3. PICK p \in 1 .. m, u \in 1 .. k : p = s + j /\ u = w + j /\ p + 1 = s + (n - i) /\ u + 1 = w + (n - i)
    <3>1. s + j \in 1 .. m /\ w + j \in 1 .. k
      BY <1>1, <2>2, SMTT(60)
    <3>2. (s + j) + 1 = s + (n - i) /\ (w + j) + 1 = w + (n - i)
      BY <1>1, <2>1, <2>2
    <3> QED
      BY <3>1, <3>2
  <2>4. pat[p] # "*" /\ pat[p] \in {"?", val[u]}
    BY <2>2, <2>3 DEF LiteralPart
  <2>5. FitsFrom(pat, val, p + 1, u + 1)
    BY <2>1, <2>3
  <2>6. p \in 1 .. Len(pat) /\ u \in 1 .. Len(val) + 1 /\ u <= Len(val)
    BY <1>1
  <2>7. FitsFrom(pat, val, p, u)
    BY <2>4, <2>5, <2>6, FitsLetter, Zenon
  <2>8. i + 1 \in Nat
    BY <2>1
  <2> QED
    BY <2>2, <2>3, <2>7, <2>8, Zenon DEF Good
<1>4. Good \in SUBSET Nat
  OBVIOUS
<1> HIDE DEF Good
<1>5. n \in Good
  <2>1. 0 .. n \subseteq Good
    BY <1>2, <1>3, <1>4, InductionTo
  <2>2. n \in 0 .. n
    OBVIOUS
  <2> QED
    BY <2>1, <2>2
<1>6. s + (n - n) = s /\ w + (n - n) = w
  BY <1>1
<1> QED
  BY <1>5, <1>6 DEF Good

LEMMA FitsNothing ==
  ASSUME NEW pat, NEW val, IsGlob(pat, val), NEW p \in 1 .. Len(pat) + 1
  PROVE  FitsFrom(pat, val, p, Len(val) + 1) <=> AllStars(pat, p)
<1>1. PICK m \in Nat, k \in Nat : m = Len(pat) /\ k = Len(val)
  BY DEF IsGlob
<1> DEFINE Good == {i \in Nat : FitsFrom(pat, val, (m + 1) - i, k + 1) <=> AllStars(pat, (m + 1) - i)}
<1>2. 0 \in Good
  <2>1. (m + 1) - 0 = m + 1 /\ m + 1 .. m = {} /\ k + 1 \in 1 .. k + 1
    OBVIOUS
  <2>2. AllStars(pat, m + 1)
    BY <1>1, <2>1 DEF AllStars
  <2>3. FitsFrom(pat, val, m + 1, k + 1)
    BY <1>1, <2>1, FitsEnd
  <2> QED
    BY <2>1, <2>2, <2>3
<1>3. ASSUME NEW i \in Good, i < m PROVE i + 1 \in Good
  <2>1. i \in Nat /\ (FitsFrom(pat, val, (m + 1) - i, k + 1) <=> AllStars(pat, (m + 1) - i))
    OBVIOUS
  <2> HIDE DEF Good
  <2>2. PICK q \in 1 .. m : q = (m + 1) - (i + 1) /\ q + 1 = (m + 1) - i
    <3>1. (m + 1) - (i + 1) \in 1 .. m /\ ((m + 1) - (i + 1)) + 1 = (m + 1) - i
      BY <1>3, <2>1
    <3> QED
      BY <3>1
  <2>3. AllStars(pat, q) <=> pat[q] = "*" /\ AllStars(pat, q + 1)
    <3>1. q .. m = {q} \cup (q + 1 .. m)
      OBVIOUS
    <3> QED
      BY <1>1, <3>1 DEF AllStars
  <2>4. FitsFrom(pat, val, q + 1, k + 1) <=> AllStars(pat, q + 1)
    BY <2>1, <2>2
  <2>5. q \in 1 .. Len(pat) /\ k + 1 \in 1 .. Len(val) + 1 /\ ~(k + 1 <= Len(val)) /\ k + 1 .. Len(val) + 1 = {k + 1}
    BY <1>1
  <2>6. FitsFrom(pat, val, q, k + 1) <=> pat[q] = "*" /\ FitsFrom(pat, val, q + 1, k + 1)
    <3>1. CASE pat[q] = "*"
      <4>1. FitsFrom(pat, val, q, k + 1) <=> \E w \in k + 1 .. Len(val) + 1 : FitsFrom(pat, val, q + 1, w)
        BY <2>5, <3>1, FitsStar, Zenon
      <4> QED
        BY <2>5, <3>1, <4>1
    <3>2. CASE pat[q] # "*"
      <4>1. ~FitsFrom(pat, val, q, k + 1)
        BY <2>5, <3>2, FitsLetter, Zenon
      <4> QED
        BY <3>2, <4>1
    <3> QED
      BY <3>1, <3>2
  <2>7. i + 1 \in Nat
    BY <2>1
  <2>8. FitsFrom(pat, val, q, k + 1) <=> AllStars(pat, q)
    BY <2>3, <2>4, <2>6
  <2> QED
    BY <2>2, <2>7, <2>8, Zenon DEF Good
<1>4. Good \in SUBSET Nat
  OBVIOUS
<1> HIDE DEF Good
<1>5. 0 .. m \subseteq Good
  BY <1>2, <1>3, <1>4, InductionTo
<1>6. PICK i \in 0 .. m : (m + 1) - i = p
  <2>1. (m + 1) - p \in 0 .. m /\ (m + 1) - ((m + 1) - p) = p
    BY <1>1
  <2> QED
    BY <2>1
<1>7. i \in Good
  BY <1>5, <1>6
<1> QED
  BY <1>1, <1>6, <1>7 DEF Good

\* from p and v on: after a star, the pattern behind it stands for the rest of the value from
\* some place on that has not been refuted, and so far for the part up to v
Tried(pat, val, p, v, star, w) ==
  /\ star < p /\ 1 <= w /\ w <= v /\ p - (star + 1) = v - w
  /\ LiteralPart(pat, val, star + 1, w, v - w)
  /\ Stands(pat, val) <=> \E u \in w .. Len(val) + 1 : FitsFrom(pat, val, star + 1, u)
Held(pat, val, p, v, star, w) ==
  IF star = 0 THEN w = 0 /\ (Stands(pat, val) <=> FitsFrom(pat, val, p, v))
  ELSE Tried(pat, val, p, v, star, w)

LEMMA LiteralMore ==
  ASSUME NEW pat, NEW val, NEW s \in Nat, NEW u \in Nat, NEW n \in Nat,
         LiteralPart(pat, val, s, u, n), pat[s + n] # "*", pat[s + n] \in {"?", val[u + n]}
  PROVE  LiteralPart(pat, val, s, u, n + 1)
<1>1. (n + 1) - 1 = n /\ 0 .. n = (0 .. n - 1) \cup {n}
  OBVIOUS
<1> QED
  BY <1>1 DEF LiteralPart

LEMMA LetterHeld ==
  ASSUME NEW pat, NEW val, IsGlob(pat, val), NEW p \in 1 .. Len(pat), NEW v \in 1 .. Len(val),
         NEW star \in 0 .. Len(pat), NEW w \in 0 .. Len(val) + 1, Held(pat, val, p, v, star, w),
         pat[p] \in {"?", val[v]}
  PROVE  Held(pat, val, p + 1, v + 1, star, w)
<1>1. PICK m \in Nat, k \in Nat : m = Len(pat) /\ k = Len(val)
  BY DEF IsGlob
<1>2. pat[p] # "*"
  BY DEF IsGlob
<1>3. CASE star = 0
  <2>1. v \in 1 .. Len(val) + 1 /\ v <= Len(val)
    BY <1>1
  <2>2. FitsFrom(pat, val, p, v) <=> FitsFrom(pat, val, p + 1, v + 1)
    BY <1>2, <2>1, FitsLetter, Zenon
  <2> QED
    BY <1>3, <2>2 DEF Held
<1>4. CASE star # 0
  <2>1. /\ star < p /\ 1 <= w /\ w <= v /\ p - (star + 1) = v - w
        /\ LiteralPart(pat, val, star + 1, w, v - w)
        /\ Stands(pat, val) <=> \E u \in w .. Len(val) + 1 : FitsFrom(pat, val, star + 1, u)
    BY <1>4 DEF Held, Tried
  <2>2. PICK n \in Nat, s \in Nat : n = v - w /\ s = star + 1 /\ s + n = p /\ w + n = v /\ n + 1 = (v + 1) - w /\ w \in Nat
    <3>1. v - w \in Nat /\ star + 1 \in Nat /\ (star + 1) + (v - w) = p /\ w + (v - w) = v /\ (v - w) + 1 = (v + 1) - w /\ w \in Nat
      BY <1>1, <2>1
    <3> QED
      BY <3>1
  <2>3. LiteralPart(pat, val, s, w, n + 1)
    <3>1. LiteralPart(pat, val, s, w, n) /\ pat[s + n] # "*" /\ pat[s + n] \in {"?", val[w + n]}
      BY <1>2, <2>1, <2>2
    <3> QED
      BY <2>2, <3>1, LiteralMore, Zenon
  <2>4. star < p + 1 /\ w <= v + 1 /\ (p + 1) - (star + 1) = (v + 1) - w
    BY <1>1, <2>1
  <2>5. LiteralPart(pat, val, star + 1, w, (v + 1) - w)
    BY <2>2, <2>3
  <2>6. Tried(pat, val, p + 1, v + 1, star, w)
    BY <2>1, <2>4, <2>5 DEF Tried
  <2> QED
    BY <1>4, <2>6 DEF Held
<1> QED
  BY <1>3, <1>4

\* before the character at p and v, the pattern stands for the value if the rest does, and
\* what is left of it behind the last star can only fit if the rest does
LEMMA TriedFits ==
  ASSUME NEW pat, NEW val, IsGlob(pat, val), NEW p \in 1 .. Len(pat) + 1, NEW v \in 1 .. Len(val) + 1,
         NEW star \in 1 .. Len(pat), NEW w \in 0 .. Len(val) + 1, Tried(pat, val, p, v, star, w)
  PROVE  /\ FitsFrom(pat, val, p, v) => FitsFrom(pat, val, star + 1, w)
         /\ \A u \in w .. Len(val) + 1 : FitsFrom(pat, val, star + 1, u) =>
              u + (v - w) \in v .. Len(val) + 1 /\ FitsFrom(pat, val, p, u + (v - w))
<1>1. PICK m \in Nat, k \in Nat : m = Len(pat) /\ k = Len(val)
  BY DEF IsGlob
<1>2. /\ star < p /\ 1 <= w /\ w <= v /\ p - (star + 1) = v - w
      /\ LiteralPart(pat, val, star + 1, w, v - w)
  BY DEF Tried
<1>3. PICK n \in Nat, s \in 1 .. m + 1 : n = v - w /\ s = star + 1 /\ s + n = p /\ w + n = v /\ w \in 1 .. k + 1
  <2>1. v - w \in Nat /\ star + 1 \in 1 .. m + 1 /\ (star + 1) + (v - w) = p /\ w + (v - w) = v /\ w \in 1 .. k + 1
    BY <1>1, <1>2
  <2> QED
    BY <2>1
<1>4. s \in 1 .. Len(pat) + 1 /\ s + n <= Len(pat) + 1 /\ w \in 1 .. Len(val) + 1 /\ w + n <= Len(val) + 1
  BY <1>1, <1>3
<1>5. LiteralPart(pat, val, s, w, n)
  BY <1>2, <1>3
<1>6. FitsFrom(pat, val, p, v) => FitsFrom(pat, val, s, w)
  <2>1. FitsFrom(pat, val, s + n, w + n) => FitsFrom(pat, val, s, w)
    BY <1>4, <1>5, FitsBack, Zenon
  <2> QED
    BY <1>3, <2>1
<1>7. ASSUME NEW u \in w .. Len(val) + 1, FitsFrom(pat, val, s, u)
      PROVE  u + n \in v .. Len(val) + 1 /\ FitsFrom(pat, val, p, u + n)
  <2>1. \A j \in 0 .. n - 1 : pat[s + j] # "*"
    BY <1>5 DEF LiteralPart
  <2>2. u \in 1 .. Len(val) + 1
    BY <1>1, <1>3
  <2>3. u + n <= Len(val) + 1 /\ FitsFrom(pat, val, s + n, u + n)
    BY <1>4, <1>7, <2>1, <2>2, FitsOn, Zenon
  <2>4. u + n \in v .. Len(val) + 1
    BY <1>1, <1>3, <2>2, <2>3
  <2> QED
    BY <1>3, <2>3, <2>4
<1> QED
  BY <1>3, <1>6, <1>7

LEMMA StarHeld ==
  ASSUME NEW pat, NEW val, IsGlob(pat, val), NEW p \in 1 .. Len(pat), NEW v \in 1 .. Len(val),
         NEW star \in 0 .. Len(pat), NEW w \in 0 .. Len(val) + 1, Held(pat, val, p, v, star, w),
         pat[p] = "*"
  PROVE  Held(pat, val, p + 1, v, p, v)
<1>1. PICK m \in Nat, k \in Nat : m = Len(pat) /\ k = Len(val)
  BY DEF IsGlob
<1>2. p \in 1 .. Len(pat) + 1 /\ v \in 1 .. Len(val) + 1 /\ v <= Len(val) + 1
  BY <1>1
<1>3. FitsFrom(pat, val, p, v) <=> \E u \in v .. Len(val) + 1 : FitsFrom(pat, val, p + 1, u)
  BY <1>2, FitsStar, Zenon
<1>4. Stands(pat, val) <=> \E u \in v .. Len(val) + 1 : FitsFrom(pat, val, p + 1, u)
  <2>1. CASE star = 0
    BY <1>3, <2>1 DEF Held
  <2>2. CASE star # 0
    <3>1. Tried(pat, val, p, v, star, w) /\ star \in 1 .. Len(pat)
      BY <1>1, <2>2 DEF Held
    <3>2. /\ FitsFrom(pat, val, p, v) => FitsFrom(pat, val, star + 1, w)
          /\ \A u \in w .. Len(val) + 1 : FitsFrom(pat, val, star + 1, u) =>
              u + (v - w) \in v .. Len(val) + 1 /\ FitsFrom(pat, val, p, u + (v - w))
      BY <1>2, <3>1, TriedFits, Zenon
    <3>3. Stands(pat, val) <=> \E u \in w .. Len(val) + 1 : FitsFrom(pat, val, star + 1, u)
      BY <3>1 DEF Tried
    <3>4. w \in w .. Len(val) + 1
      BY <1>1
    <3>5. ASSUME Stands(pat, val) PROVE \E u \in v .. Len(val) + 1 : FitsFrom(pat, val, p + 1, u)
      <4>1. PICK u \in w .. Len(val) + 1 : FitsFrom(pat, val, star + 1, u)
        BY <3>3, <3>5
      <4>2. PICK x \in v .. Len(val) + 1 : FitsFrom(pat, val, p, x)
        BY <3>2, <4>1
      <4>3. x \in 1 .. Len(val) + 1
        BY <1>1, <4>2
      <4>4. PICK y \in x .. Len(val) + 1 : FitsFrom(pat, val, p + 1, y)
        <5>1. \E y \in x .. Len(val) + 1 : FitsFrom(pat, val, p + 1, y)
          BY <4>2, <4>3, FitsStar, Zenon
        <5> QED
          BY <5>1
      <4>5. y \in v .. Len(val) + 1
        BY <1>1, <4>3
      <4> QED
        BY <4>4, <4>5
    <3> QED
      BY <1>3, <3>2, <3>3, <3>4, <3>5
  <2> QED
    BY <2>1, <2>2
<1>5. p < p + 1 /\ 1 <= v /\ v <= v /\ (p + 1) - (p + 1) = v - v /\ v - v = 0 /\ 0 .. 0 - 1 = {} /\ p # 0
  BY <1>1
<1>6. LiteralPart(pat, val, p + 1, v, v - v)
  BY <1>5 DEF LiteralPart
<1>7. Tried(pat, val, p + 1, v, p, v)
  BY <1>4, <1>5, <1>6, Zenon DEF Tried
<1> QED
  BY <1>5, <1>7 DEF Held

\* a character that is none of these fits nothing
LEMMA FitsNot ==
  ASSUME NEW pat, NEW val, IsGlob(pat, val), NEW p \in 1 .. Len(pat) + 1, NEW v \in 1 .. Len(val),
         Peek(pat, p) \notin {"?", val[v], "*"}
  PROVE  ~FitsFrom(pat, val, p, v)
<1>1. PICK m \in Nat, k \in Nat : m = Len(pat) /\ k = Len(val)
  BY DEF IsGlob
<1>2. v \in 1 .. Len(val) + 1
  BY <1>1
<1>3. CASE p = Len(pat) + 1
  <2>1. v # Len(val) + 1
    BY <1>1
  <2> QED
    BY <1>2, <1>3, <2>1, FitsEnd
<1>4. CASE p # Len(pat) + 1
  <2>1. p \in 1 .. Len(pat)
    BY <1>1, <1>4
  <2>2. Peek(pat, p) = pat[p]
    BY <2>1 DEF Peek
  <2>3. pat[p] # "*" /\ ~(pat[p] \in {"?", val[v]})
    BY <2>2
  <2> QED
    BY <1>2, <2>1, <2>3, FitsLetter, Zenon
<1> QED
  BY <1>3, <1>4

LEMMA LostHeld ==
  ASSUME NEW pat, NEW val, IsGlob(pat, val), NEW p \in 1 .. Len(pat) + 1, NEW v \in 1 .. Len(val),
         NEW star \in 0 .. Len(pat), NEW w \in 0 .. Len(val) + 1, Held(pat, val, p, v, star, w),
         Peek(pat, p) \notin {"?", val[v], "*"}
  PROVE  IF star = 0 THEN ~Stands(pat, val)
         ELSE w <= Len(val) /\ Held(pat, val, star + 1, w + 1, star, w + 1)
<1>1. PICK m \in Nat, k \in Nat : m = Len(pat) /\ k = Len(val)
  BY DEF IsGlob
<1>2. ~FitsFrom(pat, val, p, v)
  BY FitsNot
<1>3. CASE star = 0
  BY <1>2, <1>3 DEF Held
<1>4. CASE star # 0
  <2>1. Tried(pat, val, p, v, star, w) /\ star \in 1 .. Len(pat) /\ v \in 1 .. Len(val) + 1
    BY <1>1, <1>4 DEF Held
  <2>2. \A u \in w .. Len(val) + 1 : FitsFrom(pat, val, star + 1, u) =>
              u + (v - w) \in v .. Len(val) + 1 /\ FitsFrom(pat, val, p, u + (v - w))
    BY <2>1, TriedFits, Zenon
  <2>3. 1 <= w /\ w <= v /\ (Stands(pat, val) <=> \E u \in w .. Len(val) + 1 : FitsFrom(pat, val, star + 1, u))
    BY <2>1 DEF Tried
  <2>4. w \in w .. Len(val) + 1 /\ w + (v - w) = v /\ w <= Len(val)
        /\ w .. Len(val) + 1 = {w} \cup (w + 1 .. Len(val) + 1)
    BY <1>1, <2>3
  <2>5. ~FitsFrom(pat, val, star + 1, w)
    BY <1>2, <2>2, <2>4
  <2>6. Stands(pat, val) <=> \E u \in w + 1 .. Len(val) + 1 : FitsFrom(pat, val, star + 1, u)
    BY <2>3, <2>4, <2>5
  <2>7. /\ star < star + 1 /\ 1 <= w + 1 /\ w + 1 <= w + 1 /\ (star + 1) - (star + 1) = (w + 1) - (w + 1)
        /\ (w + 1) - (w + 1) = 0 /\ 0 .. 0 - 1 = {}
    BY <1>1, <2>3
  <2>8. LiteralPart(pat, val, star + 1, w + 1, (w + 1) - (w + 1))
    BY <2>7 DEF LiteralPart
  <2>9. Tried(pat, val, star + 1, w + 1, star, w + 1)
    BY <2>6, <2>7, <2>8, Zenon DEF Tried
  <2> QED
    BY <1>4, <2>4, <2>9 DEF Held
<1> QED
  BY <1>3, <1>4

LEMMA EndHeld ==
  ASSUME NEW pat, NEW val, IsGlob(pat, val), NEW p \in 1 .. Len(pat) + 1,
         NEW star \in 0 .. Len(pat), NEW w \in 0 .. Len(val) + 1, Held(pat, val, p, Len(val) + 1, star, w)
  PROVE  Stands(pat, val) <=> AllStars(pat, p)
<1>1. PICK m \in Nat, k \in Nat : m = Len(pat) /\ k = Len(val)
  BY DEF IsGlob
<1>2. FitsFrom(pat, val, p, Len(val) + 1) <=> AllStars(pat, p)
  BY FitsNothing
<1>3. CASE star = 0
  BY <1>2, <1>3 DEF Held
<1>4. CASE star # 0
  <2>1. PICK v \in 1 .. Len(val) + 1 : v = Len(val) + 1
    BY <1>1
  <2>2. Tried(pat, val, p, v, star, w) /\ star \in 1 .. Len(pat)
    BY <1>1, <1>4, <2>1 DEF Held
  <2>3. /\ FitsFrom(pat, val, p, v) => FitsFrom(pat, val, star + 1, w)
        /\ \A u \in w .. Len(val) + 1 : FitsFrom(pat, val, star + 1, u) =>
              u + (v - w) \in v .. Len(val) + 1 /\ FitsFrom(pat, val, p, u + (v - w))
    BY <2>2, TriedFits, Zenon
  <2>4. Stands(pat, val) <=> \E u \in w .. Len(val) + 1 : FitsFrom(pat, val, star + 1, u)
    BY <2>2 DEF Tried
  <2>5. w \in w .. Len(val) + 1 /\ v .. Len(val) + 1 = {v}
    BY <1>1, <2>1
  <2>6. ASSUME Stands(pat, val) PROVE FitsFrom(pat, val, p, v)
    <3>1. PICK u \in w .. Len(val) + 1 : FitsFrom(pat, val, star + 1, u)
      BY <2>4, <2>6
    <3>2. u + (v - w) \in v .. Len(val) + 1 /\ FitsFrom(pat, val, p, u + (v - w))
      BY <2>3, <3>1
    <3> QED
      BY <2>5, <3>2
  <2> QED
    BY <1>2, <2>1, <2>3, <2>4, <2>5, <2>6
<1> QED
  BY <1>3, <1>4

Keeps(pat, val, g) == IF g.lost THEN ~Stands(pat, val) ELSE Held(pat, val, g.p, g.v, g.star, g.starValue)
Cursors(pat, val) ==
  {g \in [p : 1 .. Len(pat) + 1, v : 1 .. Len(val) + 1, star : 0 .. Len(pat),
          starValue : 0 .. Len(val) + 1, lost : BOOLEAN] : Keeps(pat, val, g)}
\* how far the loop has come; a star that is tried again counts more than all that follows it
Wide(pat, val) == Len(pat) + Len(val) + 2
Come(pat, val, g) == g.starValue * Wide(pat, val) + (g.p + g.v)
LoopEnded(val, g) == g.lost \/ g.v = Len(val) + 1

LEMMA CursorsHave ==
  ASSUME NEW pat, NEW val, NEW p \in 1 .. Len(pat) + 1, NEW v \in 1 .. Len(val) + 1,
         NEW star \in 0 .. Len(pat), NEW w \in 0 .. Len(val) + 1, Held(pat, val, p, v, star, w)
  PROVE  Cursor(p, v, star, w, FALSE) \in Cursors(pat, val)
<1>1. PICK g : g = Cursor(p, v, star, w, FALSE)
  OBVIOUS
<1>2. g.p = p /\ g.v = v /\ g.star = star /\ g.starValue = w /\ g.lost = FALSE
  BY <1>1 DEF Cursor
<1>3. g \in [p : 1 .. Len(pat) + 1, v : 1 .. Len(val) + 1, star : 0 .. Len(pat),
             starValue : 0 .. Len(val) + 1, lost : BOOLEAN]
  BY <1>1 DEF Cursor
<1>4. Keeps(pat, val, g)
  BY <1>2 DEF Keeps
<1> QED
  BY <1>1, <1>3, <1>4 DEF Cursors

LEMMA Scaled ==
  ASSUME NEW a \in Nat, NEW W \in Nat
  PROVE  a * W \in Nat /\ (a + 1) * W = a * W + W
OBVIOUS
LEMMA ScaledMore ==
  ASSUME NEW a \in Nat, NEW b \in Nat, NEW W \in Nat, a <= b
  PROVE  a * W <= b * W
<1>1. PICK c \in Nat : b = a + c
  <2>1. b - a \in Nat /\ b = a + (b - a)
    OBVIOUS
  <2> QED
    BY <2>1
<1>2. c * W \in Nat /\ (a + c) * W = a * W + c * W /\ a * W \in Nat
  OBVIOUS
<1> QED
  BY <1>1, <1>2

LEMMA GlobTurnKeeps ==
  ASSUME NEW pat, NEW val, IsGlob(pat, val), NEW g \in Cursors(pat, val)
  PROVE  /\ GlobTurn(pat, val, g) \in Cursors(pat, val)
         /\ LoopEnded(val, g) => GlobTurn(pat, val, g) = g
         /\ LoopEnded(val, GlobTurn(pat, val, g)) \/ Come(pat, val, GlobTurn(pat, val, g)) >= Come(pat, val, g) + 1
<1>1. PICK m \in Nat, k \in Nat : m = Len(pat) /\ k = Len(val)
  BY DEF IsGlob
<1>2. PICK p \in 1 .. m + 1, v \in 1 .. k + 1, star \in 0 .. m, w \in 0 .. k + 1, lost \in BOOLEAN :
        p = g.p /\ v = g.v /\ star = g.star /\ w = g.starValue /\ lost = g.lost
  BY <1>1 DEF Cursors
<1>3. Keeps(pat, val, g) /\ g \in [p : 1 .. m + 1, v : 1 .. k + 1, star : 0 .. m, starValue : 0 .. k + 1, lost : BOOLEAN]
  BY <1>1 DEF Cursors
<1>4. PICK h : h = GlobTurn(pat, val, g)
  OBVIOUS
<1>5. PICK c : c = Peek(pat, p)
  OBVIOUS
<1>6. PICK W \in Nat : W = m + k + 2 /\ W = Wide(pat, val)
  BY <1>1 DEF Wide
<1> DEFINE Goal == /\ h \in Cursors(pat, val)
                   /\ LoopEnded(val, g) => h = g
                   /\ LoopEnded(val, h) \/ Come(pat, val, h) >= Come(pat, val, g) + 1
<1> SUFFICES Goal
  BY <1>4
<1>7. CASE lost \/ v > k
  <2>1. h = g
    BY <1>1, <1>2, <1>4, <1>7, Zenon DEF GlobTurn
  <2>2. LoopEnded(val, g)
    BY <1>1, <1>2, <1>7 DEF LoopEnded
  <2> QED
    BY <2>1, <2>2
<1>8. CASE ~(lost \/ v > k)
  <2>1. /\ Held(pat, val, p, v, star, w) /\ v \in 1 .. k /\ ~lost
        /\ ~(g.lost \/ g.v > Len(val))
    BY <1>1, <1>2, <1>3, <1>8 DEF Keeps
  <2>2. ~LoopEnded(val, g) /\ Come(pat, val, g) = w * W + (p + v)
    BY <1>1, <1>2, <1>6, <2>1 DEF LoopEnded, Come
  <2>3. p <= m => c = pat[p]
    BY <1>1, <1>5 DEF Peek
  <2>4. ~(p <= m) => c = "end"
    BY <1>1, <1>5 DEF Peek
  <2>5. /\ c = Peek(pat, g.p) /\ v = g.v
        /\ p \in 1 .. Len(pat) + 1 /\ v \in 1 .. Len(val) /\ star \in 0 .. Len(pat)
        /\ w \in 0 .. Len(val) + 1
    BY <1>1, <1>2, <1>5, <2>1
  <2>6. w * W \in Nat /\ (w + 1) * W = w * W + W
    BY Scaled
  <2>7. ASSUME NEW p1 \in 1 .. m + 1, NEW v1 \in 1 .. k + 1, NEW s1 \in 0 .. m, NEW w1 \in 0 .. k + 1,
               Held(pat, val, p1, v1, s1, w1), h = Cursor(p1, v1, s1, w1, FALSE),
               w1 * W + (p1 + v1) >= w * W + (p + v) + 1
        PROVE  Goal
    <3>1. /\ p1 \in 1 .. Len(pat) + 1 /\ v1 \in 1 .. Len(val) + 1 /\ s1 \in 0 .. Len(pat)
          /\ w1 \in 0 .. Len(val) + 1
      BY <1>1
    <3>2. h \in Cursors(pat, val)
      BY <2>7, <3>1, CursorsHave
    <3>3. h.starValue = w1 /\ h.p = p1 /\ h.v = v1
      BY <2>7 DEF Cursor
    <3>4. Come(pat, val, h) = w1 * W + (p1 + v1)
      BY <1>6, <3>3 DEF Come
    <3> QED
      BY <2>2, <2>7, <3>2, <3>4
  <2>8. CASE c \in {"?", val[v]}
    <3>1. c # "end"
      BY <1>1, <2>5, <2>8 DEF IsGlob
    <3>2. p \in 1 .. Len(pat) /\ p \in 1 .. m /\ pat[p] \in {"?", val[v]}
      BY <1>1, <2>3, <2>4, <2>8, <3>1
    <3>3. Held(pat, val, p + 1, v + 1, star, w)
      BY <2>1, <2>5, <3>2, LetterHeld
    <3>4. h = Cursor(p + 1, v + 1, star, w, FALSE)
      BY <1>2, <1>4, <2>1, <2>5, <2>8, Zenon DEF GlobTurn
    <3>5. p + 1 \in 1 .. m + 1 /\ v + 1 \in 1 .. k + 1 /\ w * W + ((p + 1) + (v + 1)) >= w * W + (p + v) + 1
      BY <2>1, <2>6, <3>2
    <3> QED
      BY <2>7, <3>3, <3>4, <3>5
  <2>9. CASE c \notin {"?", val[v]} /\ c = "*"
    <3>1. p \in 1 .. Len(pat) /\ p \in 1 .. m /\ pat[p] = "*"
      BY <1>1, <2>3, <2>4, <2>9
    <3>2. Held(pat, val, p + 1, v, p, v)
      BY <2>1, <2>5, <3>1, StarHeld
    <3>3. h = Cursor(p + 1, v, p, v, FALSE)
      BY <1>2, <1>4, <2>1, <2>5, <2>9, Zenon DEF GlobTurn
    <3>4. w <= v
      BY <2>1 DEF Held, Tried
    <3>5. w * W <= v * W /\ v * W \in Nat
      BY <2>1, <3>4, ScaledMore, Scaled
    <3>6. p + 1 \in 1 .. m + 1 /\ p \in 0 .. m /\ v \in 0 .. k + 1 /\ v * W + ((p + 1) + v) >= w * W + (p + v) + 1
      BY <2>1, <2>6, <3>1, <3>5
    <3> QED
      BY <2>7, <3>2, <3>3, <3>6
  <2>10. CASE c \notin {"?", val[v], "*"} /\ star > 0
    <3>1. w <= k /\ Held(pat, val, star + 1, w + 1, star, w + 1)
      <4>1. star # 0
        BY <2>10
      <4>2. w <= Len(val) /\ Held(pat, val, star + 1, w + 1, star, w + 1)
        BY <1>5, <2>1, <2>5, <2>10, <4>1, LostHeld
      <4> QED
        BY <1>1, <4>2
    <3>2. h = Cursor(star + 1, w + 1, star, w + 1, FALSE)
      <4>1. ~(c \in {"?", val[v]}) /\ c # "*" /\ g.star > 0
        BY <1>2, <2>10
      <4> QED
        BY <1>2, <1>4, <2>1, <2>5, <4>1, Zenon DEF GlobTurn
    <3>3. star + 1 \in 1 .. m + 1 /\ w + 1 \in 1 .. k + 1 /\ w + 1 \in 0 .. k + 1
      BY <3>1
    <3>4. (w + 1) * W + ((star + 1) + (w + 1)) >= w * W + (p + v) + 1
      BY <1>6, <2>1, <2>6
    <3> QED
      BY <2>7, <3>1, <3>2, <3>3, <3>4
  <2>11. CASE c \notin {"?", val[v], "*"} /\ ~(star > 0)
    <3>1. ~Stands(pat, val)
      <4>1. star = 0
        BY <2>11
      <4> QED
        BY <1>5, <2>1, <2>5, <2>11, <4>1, LostHeld
    <3>2. h = [g EXCEPT !.lost = TRUE]
      <4>1. ~(c \in {"?", val[v]}) /\ c # "*" /\ ~(g.star > 0)
        BY <1>2, <2>11
      <4> QED
        BY <1>2, <1>4, <2>1, <2>5, <4>1, Zenon DEF GlobTurn
    <3>3. h.lost = TRUE
          /\ h \in [p : 1 .. m + 1, v : 1 .. k + 1, star : 0 .. m, starValue : 0 .. k + 1, lost : BOOLEAN]
      BY <1>3, <3>2
    <3>4. Keeps(pat, val, h)
      BY <3>1, <3>3 DEF Keeps
    <3>5. h \in Cursors(pat, val) /\ LoopEnded(val, h)
      BY <1>1, <3>3, <3>4 DEF Cursors, LoopEnded
    <3> QED
      BY <2>2, <3>5
  <2> QED
    BY <2>8, <2>9, <2>10, <2>11
<1> QED
  BY <1>7, <1>8

GlobLoop(pat, val) ==
  CHOOSE f : f = [n \in Nat |-> IF n = 0 THEN Cursor(1, 1, 0, 0, FALSE) ELSE GlobTurn(pat, val, f[n - 1])]
LEMMA GlobMatchesDef ==
  \A pat, val : GlobMatches(pat, val) <=>
    LET end == GlobLoop(pat, val)[GlobTurns(pat, val)] IN ~end.lost /\ AllStars(pat, end.p)
BY Zenon DEF GlobMatches, GlobLoop

IsLoop(f, pat, val) ==
  /\ f \in [Nat -> Cursors(pat, val)]
  /\ f[0] = Cursor(1, 1, 0, 0, FALSE)
  /\ \A n \in Nat : f[n + 1] = GlobTurn(pat, val, f[n])
LEMMA GlobLoopIs ==
  ASSUME NEW pat, NEW val, IsGlob(pat, val)
  PROVE  IsLoop(GlobLoop(pat, val), pat, val)
<1>1. PICK T, base : T = Cursors(pat, val) /\ base = Cursor(1, 1, 0, 0, FALSE)
  OBVIOUS
<1>2. PICK F : F = [n \in Nat |-> [g \in T |-> GlobTurn(pat, val, g)]]
  OBVIOUS
<1>3. Recurs(T, base, F)
  <2>1. base \in T
    <3>1. 1 \in 1 .. Len(pat) + 1 /\ 1 \in 1 .. Len(val) + 1 /\ 0 \in 0 .. Len(pat) /\ 0 \in 0 .. Len(val) + 1
      BY DEF IsGlob
    <3>2. Held(pat, val, 1, 1, 0, 0)
      BY FitsWhole DEF Held
    <3> QED
      BY <1>1, <3>1, <3>2, CursorsHave
  <2>2. \A g \in T : GlobTurn(pat, val, g) \in T
    BY <1>1, GlobTurnKeeps
  <2>3. F \in [Nat -> [T -> T]]
    BY <1>2, <2>2
  <2> QED
    BY <2>1, <2>3 DEF Recurs
<1>4. PICK g : Solution(g, T, base, F)
  BY <1>3, Recursion, Zenon
<1>5. g \in [Nat -> T] /\ g[0] = base /\ \A n \in Nat : g[n + 1] = F[n + 1][g[n]]
  BY <1>4 DEF Solution
<1>6. \A n \in Nat : g[n + 1] = GlobTurn(pat, val, g[n])
  <2> TAKE n \in Nat
  <2>1. g[n] \in T /\ n + 1 \in Nat
    BY <1>5
  <2>2. g[n + 1] = F[n + 1][g[n]]
    BY <1>5
  <2>3. F[n + 1][g[n]] = GlobTurn(pat, val, g[n])
    BY <1>2, <2>1
  <2> QED
    BY <2>2, <2>3
<1> DEFINE Solves(f) == f = [n \in Nat |-> IF n = 0 THEN base ELSE GlobTurn(pat, val, f[n - 1])]
<1>7. Solves(g)
  <2>1. \A n \in Nat : g[n] = IF n = 0 THEN base ELSE GlobTurn(pat, val, g[n - 1])
    <3> TAKE n \in Nat
    <3>1. CASE n = 0
      BY <1>5, <3>1
    <3>2. CASE n # 0
      <4>1. n - 1 \in Nat /\ (n - 1) + 1 = n
        BY <3>2
      <4>2. g[(n - 1) + 1] = GlobTurn(pat, val, g[n - 1])
        BY <1>6, <4>1
      <4> QED
        BY <3>2, <4>1, <4>2
    <3> QED
      BY <3>1, <3>2
  <2> QED
    BY <1>5, <2>1
<1>8. PICK f : f = GlobLoop(pat, val)
  OBVIOUS
<1>9. Solves(f)
  <2>1. f = CHOOSE h : Solves(h)
    BY <1>1, <1>8, Zenon DEF GlobLoop
  <2> HIDE DEF Solves
  <2> QED
    BY <1>7, <2>1, Zenon
<1>10. f[0] = base /\ \A n \in Nat : f[n + 1] = GlobTurn(pat, val, f[n])
  <2>1. \A n \in Nat : n + 1 \in Nat /\ n + 1 # 0 /\ (n + 1) - 1 = n
    OBVIOUS
  <2>2. f[0] = base
    BY <1>9
  <2>3. \A n \in Nat : f[n + 1] = GlobTurn(pat, val, f[n])
    BY <1>9, <2>1
  <2> QED
    BY <2>2, <2>3
<1>11. f \in [Nat -> T]
  <2> DEFINE Good == {n \in Nat : f[n] \in T}
  <2>1. 0 \in Good
    BY <1>5, <1>10
  <2>2. ASSUME NEW n \in Good PROVE n + 1 \in Good
    <3>1. f[n] \in T /\ n \in Nat /\ f[n + 1] = GlobTurn(pat, val, f[n])
      BY <1>10
    <3>2. GlobTurn(pat, val, f[n]) \in T
      BY <1>1, <3>1, GlobTurnKeeps
    <3> QED
      BY <3>1, <3>2
  <2>3. Good \in SUBSET Nat
    OBVIOUS
  <2>4. Good = Nat
    <3> HIDE DEF Good
    <3> QED
      BY <2>1, <2>2, <2>3, Induction
  <2>5. \A n \in Nat : f[n] \in T
    BY <2>4
  <2>6. f = [n \in Nat |-> f[n]]
    BY <1>9
  <2> QED
    BY <2>5, <2>6
<1> QED
  BY <1>1, <1>8, <1>10, <1>11 DEF IsLoop

(* glob_matches, which on a mismatch goes back to its last star only,      *)
(* finds out in so many turns whether a pattern of any length stands for a *)
(* value of any length, in which no character is a star.                   *)
THEOREM GlobsAlwaysMatch ==
  ASSUME NEW pat, NEW val, IsGlob(pat, val)
  PROVE  GlobMatches(pat, val) <=> Stands(pat, val)
<1>1. PICK m \in Nat, k \in Nat : m = Len(pat) /\ k = Len(val)
  BY DEF IsGlob
<1>2. PICK T : T = Cursors(pat, val)
  OBVIOUS
<1>3. PICK f \in [Nat -> T] :
        /\ f = GlobLoop(pat, val) /\ f[0] = Cursor(1, 1, 0, 0, FALSE)
        /\ \A n \in Nat : f[n + 1] = GlobTurn(pat, val, f[n])
  <2>1. PICK f : f = GlobLoop(pat, val)
    OBVIOUS
  <2>2. IsLoop(f, pat, val)
    BY <2>1, GlobLoopIs
  <2> QED
    BY <1>2, <2>1, <2>2 DEF IsLoop
<1>4. PICK W \in Nat : W = m + k + 2 /\ W = Wide(pat, val)
  BY <1>1 DEF Wide
<1> DEFINE Good == {n \in Nat : LoopEnded(val, f[n]) \/ Come(pat, val, f[n]) >= n}
<1>5. \A g \in T : Come(pat, val, g) \in Nat
  <2> TAKE g \in T
  <2>1. g.starValue \in Nat /\ g.p \in Nat /\ g.v \in Nat
    <3>1. g \in [p : 1 .. m + 1, v : 1 .. k + 1, star : 0 .. m, starValue : 0 .. k + 1, lost : BOOLEAN]
      BY <1>1, <1>2 DEF Cursors
    <3> QED
      BY <3>1
  <2>2. g.starValue * W \in Nat
    BY <2>1, Scaled
  <2> QED
    BY <1>4, <2>1, <2>2 DEF Come
<1>6. 0 \in Good
  <2>1. Come(pat, val, f[0]) \in Nat
    BY <1>3, <1>5
  <2> QED
    BY <2>1
<1>7. ASSUME NEW n \in Good PROVE n + 1 \in Good
  <2>1. PICK g \in T, h \in T : g = f[n] /\ h = f[n + 1]
    BY <1>3
  <2>2. h = GlobTurn(pat, val, g) /\ (LoopEnded(val, g) \/ Come(pat, val, g) >= n) /\ n \in Nat
    BY <1>3, <2>1
  <2>3. LoopEnded(val, g) => h = g
    BY <1>2, <2>2, GlobTurnKeeps
  <2>4. LoopEnded(val, h) \/ Come(pat, val, h) >= Come(pat, val, g) + 1
    BY <1>2, <2>2, GlobTurnKeeps
  <2>5. Come(pat, val, g) \in Nat /\ Come(pat, val, h) \in Nat
    BY <1>5
  <2>6. LoopEnded(val, h) \/ Come(pat, val, h) >= n + 1
    BY <2>2, <2>3, <2>4, <2>5
  <2>7. n + 1 \in Nat
    BY <2>2
  <2> QED
    BY <2>1, <2>6, <2>7, Zenon
<1>8. Good \in SUBSET Nat
  OBVIOUS
<1> HIDE DEF Good
<1>9. Good = Nat
  BY <1>6, <1>7, <1>8, Induction
<1>10. PICK n \in Nat : n = GlobTurns(pat, val) /\ n = (k + 2) * W
  <2>1. k + 2 \in Nat /\ GlobTurns(pat, val) = (k + 2) * W
    BY <1>1, <1>4 DEF GlobTurns
  <2>2. (k + 2) * W \in Nat
    BY <2>1, Scaled
  <2> QED
    BY <2>1, <2>2
<1>11. PICK end \in T : end = f[n]
  BY <1>3
<1>12. /\ end \in [p : 1 .. m + 1, v : 1 .. k + 1, star : 0 .. m, starValue : 0 .. k + 1, lost : BOOLEAN]
       /\ Keeps(pat, val, end)
  BY <1>1, <1>2 DEF Cursors
<1>13. LoopEnded(val, end)
  <2>1. LoopEnded(val, end) \/ Come(pat, val, end) >= n
    BY <1>9, <1>11 DEF Good
  <2>2. PICK p \in 1 .. m + 1, v \in 1 .. k + 1, w \in 0 .. k + 1 : p = end.p /\ v = end.v /\ w = end.starValue
    BY <1>12
  <2>3. Come(pat, val, end) = w * W + (p + v)
    BY <1>4, <2>2 DEF Come
  <2>4. w * W <= (k + 1) * W /\ (k + 1) * W \in Nat /\ w * W \in Nat
    <3>1. w \in Nat /\ k + 1 \in Nat /\ w <= k + 1
      OBVIOUS
    <3> QED
      BY <3>1, ScaledMore, Scaled
  <2>5. (k + 2) * W = (k + 1) * W + W
    <3>1. k + 1 \in Nat /\ (k + 1) + 1 = k + 2
      OBVIOUS
    <3> QED
      BY <3>1, Scaled
  <2>6. ASSUME w * W + (p + v) >= n PROVE v = k + 1
    BY <1>4, <1>10, <2>4, <2>5, <2>6
  <2> QED
    BY <1>1, <2>1, <2>2, <2>3, <2>6 DEF LoopEnded
<1>14. GlobMatches(pat, val) <=> ~end.lost /\ AllStars(pat, end.p)
  BY <1>3, <1>10, <1>11, GlobMatchesDef, Zenon
<1>15. CASE end.lost
  BY <1>12, <1>14, <1>15 DEF Keeps
<1>16. CASE ~end.lost
  <2>1. Held(pat, val, end.p, Len(val) + 1, end.star, end.starValue)
    BY <1>1, <1>12, <1>13, <1>16 DEF Keeps, LoopEnded
  <2>2. end.p \in 1 .. Len(pat) + 1 /\ end.star \in 0 .. Len(pat) /\ end.starValue \in 0 .. Len(val) + 1
    BY <1>1, <1>12
  <2>3. Stands(pat, val) <=> AllStars(pat, end.p)
    BY <2>1, <2>2, EndHeld, Zenon
  <2> QED
    BY <1>14, <1>16, <2>3
<1> QED
  BY <1>15, <1>16
=============================================================================
