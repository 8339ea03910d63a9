---------------------------- MODULE Bridge_proofs -----------------------------
(*****************************************************************************)
(* Proofs about the parts of the bridge that MCBridge runs side by side: the *)
(* thunk of a replacement, for every set of threads and methods and stacks of*)
(* any depth; the values of a hook callback and of arrays, for every         *)
(* parameter list, value and type; the copy of the code that turns a thread  *)
(* runnable, for any code; and the invariants of the run itself.             *)
(*****************************************************************************)
EXTENDS MCBridge, Signatures_proofs, JavaHandle_proofs

\* what names and texts are made of; the provers do not know that these are strings
Characters ==
  STRING \cup {"java", "/", "lang", "String", "CharSequence", "Object", "App", "Parent", "Ancestor",
              "[", "]", "[]", "(", ")", "L", ";", ".", "V", "Z", "B", "C", "S", "I", "J", "F", "D"} \cup Words
\* the types of a value, and of a result
Types ==
  [base : Prims, name : {<<>>}, dims : Nat] \cup
  [base : {"object"}, name : Seq(Characters), dims : Nat]
\* where an argument goes, and where it may go next
Classes == {"general", "float"}
FreePlaces == [general : Nat, float : Nat, stack : Nat]

-----------------------------------------------------------------------------
(* Types.                                                                   *)
LEMMA TypeFacts ==
  ASSUME NEW t \in Types
  PROVE  /\ t # Void
         /\ t.dims \in Nat
         /\ IsReference(t) <=> t.base = "object" \/ IsArray(t)
         /\ ~IsReference(t) => t.base \in Prims /\ t = Prim(t.base)
         /\ t.base \in Prims \cup {"object"}
<1>1. CASE t \in [base : Prims, name : {<<>>}, dims : Nat]
  BY <1>1, PrimsAre DEF IsReference, IsArray, Prim, Void
<1>2. CASE t \in [base : {"object"}, name : Seq(Characters), dims : Nat]
  BY <1>2, PrimsAre DEF IsReference, IsArray, Prim, Void
<1> QED
  BY <1>1, <1>2 DEF Types

LEMMA LayoutFacts ==
  ASSUME NEW t \in Types
  PROVE  /\ RegisterClass(t) \in Classes
         /\ ValueLayout(t)[2] \in {4, 8}
         /\ KindOf(t) \in Prims \cup {"object"}
         /\ Bytes[KindOf(t)] <= ValueLayout(t)[2]
<1>1. CASE IsReference(t)
  BY <1>1, PrimsAre, TypeFacts DEF RegisterClass, ValueLayout, KindOf, Bytes, Classes, Prim, IsReference, IsArray, Void
<1>2. CASE ~IsReference(t)
  BY <1>2, PrimsAre, TypeFacts DEF RegisterClass, ValueLayout, KindOf, Bytes, Classes, Prim, Void
<1> QED
  BY <1>1, <1>2

-----------------------------------------------------------------------------
(* What the layout of a parameter list is.                                 *)
LEMMA LocationIs ==
  ASSUME NEW next \in FreePlaces, NEW t \in Types
  PROVE  /\ Location(next, t) \in (Classes \cup {"stack"}) \X Nat
         /\ Advanced(next, t) \in FreePlaces
         /\ RegisterClass(t) = "general" /\ next.general < Registers =>
              /\ Location(next, t) = <<"general", next.general>>
              /\ Advanced(next, t) =
                   [general |-> next.general + 1, float |-> next.float, stack |-> next.stack]
         /\ RegisterClass(t) = "float" /\ next.float < Registers =>
              /\ Location(next, t) = <<"float", next.float>>
              /\ Advanced(next, t) =
                   [general |-> next.general, float |-> next.float + 1, stack |-> next.stack]
         /\ (\/ RegisterClass(t) = "general" /\ next.general >= Registers
             \/ RegisterClass(t) = "float" /\ next.float >= Registers) =>
              /\ Location(next, t) = <<"stack", next.stack>>
              /\ Advanced(next, t) =
                   [general |-> next.general, float |-> next.float, stack |-> next.stack + SlotSize]
<1>1. RegisterClass(t) \in {"general", "float"}
  BY LayoutFacts DEF Classes
<1>2. CASE RegisterClass(t) = "general"
  <2>1. /\ next.general < Registers => Location(next, t) = <<"general", next.general>>
        /\ next.general >= Registers => Location(next, t) = <<"stack", next.stack>>
    BY <1>2 DEF Location, FreePlaces, Registers
  <2>2. /\ next.general < Registers => Advanced(next, t) = [next EXCEPT !.general = @ + 1]
        /\ next.general >= Registers => Advanced(next, t) = [next EXCEPT !.stack = @ + SlotSize]
    <3>1. ASSUME Location(next, t)[1] = "general"
          PROVE  Advanced(next, t) = [next EXCEPT !["general"] = @ + IF "general" = "stack" THEN SlotSize ELSE 1]
      BY <3>1, Zenon DEF Advanced
    <3>2. ASSUME Location(next, t)[1] = "stack"
          PROVE  Advanced(next, t) = [next EXCEPT !["stack"] = @ + IF "stack" = "stack" THEN SlotSize ELSE 1]
      BY <3>2, Zenon DEF Advanced
    <3>3. /\ next.general < Registers => Location(next, t)[1] = "general"
          /\ next.general >= Registers => Location(next, t)[1] = "stack"
      BY <2>1
    <3> QED
      BY <3>1, <3>2, <3>3
  <2> QED
    BY <1>2, <2>1, <2>2 DEF FreePlaces, Registers, SlotSize, Classes
<1>3. CASE RegisterClass(t) = "float"
  <2>1. /\ next.float < Registers => Location(next, t) = <<"float", next.float>>
        /\ next.float >= Registers => Location(next, t) = <<"stack", next.stack>>
    BY <1>3 DEF Location, FreePlaces, Registers
  <2>2. /\ next.float < Registers => Advanced(next, t) = [next EXCEPT !.float = @ + 1]
        /\ next.float >= Registers => Advanced(next, t) = [next EXCEPT !.stack = @ + SlotSize]
    <3>1. ASSUME Location(next, t)[1] = "float"
          PROVE  Advanced(next, t) = [next EXCEPT !["float"] = @ + IF "float" = "stack" THEN SlotSize ELSE 1]
      BY <3>1, Zenon DEF Advanced
    <3>2. ASSUME Location(next, t)[1] = "stack"
          PROVE  Advanced(next, t) = [next EXCEPT !["stack"] = @ + IF "stack" = "stack" THEN SlotSize ELSE 1]
      BY <3>2, Zenon DEF Advanced
    <3>3. /\ next.float < Registers => Location(next, t)[1] = "float"
          /\ next.float >= Registers => Location(next, t)[1] = "stack"
      BY <2>1
    <3> QED
      BY <3>1, <3>2, <3>3
  <2> QED
    BY <1>3, <2>1, <2>2 DEF FreePlaces, Registers, SlotSize, Classes
<1> QED
  BY <1>1, <1>2, <1>3

FirstFree == [general |-> FirstGeneral, float |-> 0, stack |-> 0]

\* the recursion has a solution
LEMMA FreeIs ==
  ASSUME NEW types \in Seq(Types)
  PROVE  /\ Free(types)[0] = FirstFree
         /\ \A i \in 1 .. Len(types) : Free(types)[i] = Advanced(Free(types)[i - 1], types[i])
<1> DEFINE
      Body(g, n) == [i \in 0 .. n |-> IF i = 0 THEN FirstFree ELSE Advanced(g[i - 1], types[i])]
      S == {n \in Nat : \E g : g = Body(g, n)}
<1>1. 0 \in S
  <2>1. [i \in 0 .. 0 |-> FirstFree] = Body([i \in 0 .. 0 |-> FirstFree], 0)
    OBVIOUS
  <2> QED
    BY <2>1
<1>2. ASSUME NEW n \in S PROVE n + 1 \in S
  <2>1. PICK g : g = Body(g, n)
    OBVIOUS
  <2> DEFINE h == [i \in 0 .. n + 1 |-> IF i = n + 1 THEN Advanced(g[n], types[n + 1]) ELSE g[i]]
  <2>2. ASSUME NEW i \in 0 .. n + 1
        PROVE  h[i] = IF i = 0 THEN FirstFree ELSE Advanced(h[i - 1], types[i])
    <3>1. CASE i = n + 1
      BY <3>1
    <3>2. CASE i \in 0 .. n
      <4>1. g[i] = IF i = 0 THEN FirstFree ELSE Advanced(g[i - 1], types[i])
        BY <2>1, <3>2
      <4> QED
        BY <3>2, <4>1
    <3> QED
      BY <3>1, <3>2
  <2>3. h = Body(h, n + 1)
    BY <2>2
  <2> QED
    BY <2>3
<1>3. Len(types) \in S
  <2>1. S \in SUBSET Nat
    OBVIOUS
  <2> HIDE DEF S
  <2>2. S = Nat
    BY <1>1, <1>2, <2>1, Induction
  <2> QED
    BY <2>2
<1>4. PICK g : g = Body(g, Len(types))
  BY <1>3
<1>5. Free(types) = CHOOSE f : f = Body(f, Len(types))
  BY DEF Free, FirstFree
<1>6. Free(types) = Body(Free(types), Len(types))
  BY <1>4, <1>5
<1> QED
  BY <1>6

\* numbers of the first i arguments
Alike(types, class, i) == {j \in 1 .. i : RegisterClass(types[j]) = class}
First(class) == IF class = "float" THEN 0 ELSE FirstGeneral
Register(types, i) ==
  Cardinality(Alike(types, RegisterClass(types[i]), i - 1)) + First(RegisterClass(types[i]))
Spilled(types, i) == {j \in 1 .. i : Register(types, j) >= Registers}
Capped(n) == IF n < Registers THEN n ELSE Registers

\* one more
LEMMA OneMore ==
  ASSUME NEW i \in Nat, NEW A \in SUBSET (1 .. i)
  PROVE  /\ IsFiniteSet(A) /\ Cardinality(A) \in Nat
         /\ Cardinality(A \cup {i + 1}) = Cardinality(A) + 1
<1>1. IsFiniteSet(1 .. i)
  BY FS_Interval
<1>2. IsFiniteSet(A)
  BY <1>1, FS_Subset
<1>3. i + 1 \notin A
  OBVIOUS
<1> QED
  BY <1>2, <1>3, FS_AddElement, FS_CardinalityType

\* the standard's locations, by these numbers
LEMMA PassedAtIs ==
  ASSUME NEW types \in Seq(Types)
  PROVE  PassedAt(types) =
           [i \in 1 .. Len(types) |->
              IF Register(types, i) >= Registers
              THEN <<"stack", SlotSize * Cardinality(Spilled(types, i - 1))>>
              ELSE <<RegisterClass(types[i]), Register(types, i)>>]
<1> DEFINE register == [i \in DOMAIN types |->
             Cardinality({j \in 1 .. i - 1 : RegisterClass(types[j]) = RegisterClass(types[i])})
             + IF RegisterClass(types[i]) = "float" THEN 0 ELSE FirstGeneral]
<1>1. DOMAIN types = 1 .. Len(types)
  OBVIOUS
<1>2. \A i \in 1 .. Len(types) : register[i] = Register(types, i)
  BY <1>1 DEF Register, Alike, First
<1> HIDE DEF register
<1>3. ASSUME NEW i \in 1 .. Len(types)
      PROVE  {j \in 1 .. i - 1 : register[j] >= Registers} = Spilled(types, i - 1)
  <2>1. \A j \in 1 .. i - 1 : register[j] = Register(types, j)
    BY <1>2
  <2> QED
    BY <2>1 DEF Spilled
<1>4. PassedAt(types) = [i \in DOMAIN types |->
         IF register[i] >= Registers
         THEN <<"stack", SlotSize * Cardinality({j \in 1 .. i - 1 : register[j] >= Registers})>>
         ELSE <<RegisterClass(types[i]), register[i]>>]
  BY DEF PassedAt, register
<1> QED
  BY <1>1, <1>2, <1>3, <1>4

LEMMA CountsGrow ==
  ASSUME NEW types \in Seq(Types), NEW i \in Nat, i + 1 <= Len(types)
  PROVE  /\ types[i + 1] \in Types
         /\ Register(types, i + 1) =
              Cardinality(Alike(types, RegisterClass(types[i + 1]), i)) + First(RegisterClass(types[i + 1]))
         /\ \A class \in Classes :
              /\ Cardinality(Alike(types, class, i)) \in Nat
              /\ Cardinality(Alike(types, class, i + 1)) =
                   IF class = RegisterClass(types[i + 1]) THEN Cardinality(Alike(types, class, i)) + 1
                   ELSE Cardinality(Alike(types, class, i))
         /\ Cardinality(Spilled(types, i)) \in Nat
         /\ Cardinality(Spilled(types, i + 1)) =
              IF Register(types, i + 1) >= Registers THEN Cardinality(Spilled(types, i)) + 1
              ELSE Cardinality(Spilled(types, i))
<1>1. types[i + 1] \in Types
  OBVIOUS
<1>2. Register(types, i + 1) =
        Cardinality(Alike(types, RegisterClass(types[i + 1]), i)) + First(RegisterClass(types[i + 1]))
  BY DEF Register
<1>3. ASSUME NEW class \in Classes
      PROVE  /\ Cardinality(Alike(types, class, i)) \in Nat
             /\ Cardinality(Alike(types, class, i + 1)) =
                  IF class = RegisterClass(types[i + 1]) THEN Cardinality(Alike(types, class, i)) + 1
                  ELSE Cardinality(Alike(types, class, i))
  <2>1. Alike(types, class, i + 1) =
          IF class = RegisterClass(types[i + 1]) THEN Alike(types, class, i) \cup {i + 1}
          ELSE Alike(types, class, i)
    BY DEF Alike
  <2>2. Alike(types, class, i) \in SUBSET (1 .. i)
    BY DEF Alike
  <2> QED
    BY <2>1, <2>2, OneMore
<1>4. /\ Cardinality(Spilled(types, i)) \in Nat
      /\ Cardinality(Spilled(types, i + 1)) =
           IF Register(types, i + 1) >= Registers THEN Cardinality(Spilled(types, i)) + 1
           ELSE Cardinality(Spilled(types, i))
  <2>1. Spilled(types, i + 1) =
          IF Register(types, i + 1) >= Registers THEN Spilled(types, i) \cup {i + 1}
          ELSE Spilled(types, i)
    BY DEF Spilled
  <2>2. Spilled(types, i) \in SUBSET (1 .. i)
    BY DEF Spilled
  <2> QED
    BY <2>1, <2>2, OneMore
<1> QED
  BY <1>1, <1>2, <1>3, <1>4


\* what is free after so many arguments in each class, and on the stack
FreeOf(general, float, spilled) ==
  [general |-> Capped(general + FirstGeneral), float |-> Capped(float), stack |-> SlotSize * spilled]
Own(t, general, float) == IF RegisterClass(t) = "general" THEN general + FirstGeneral ELSE float

LEMMA PlaceOfNext ==
  ASSUME NEW t \in Types, NEW general \in Nat, NEW float \in Nat, NEW spilled \in Nat
  PROVE  /\ FreeOf(general, float, spilled) \in FreePlaces
         /\ Location(FreeOf(general, float, spilled), t) =
              IF Own(t, general, float) >= Registers THEN <<"stack", SlotSize * spilled>>
              ELSE <<RegisterClass(t), Own(t, general, float)>>
         /\ Advanced(FreeOf(general, float, spilled), t) =
              FreeOf(IF RegisterClass(t) = "general" THEN general + 1 ELSE general,
                     IF RegisterClass(t) = "float" THEN float + 1 ELSE float,
                     IF Own(t, general, float) >= Registers THEN spilled + 1 ELSE spilled)
<1> PICK free : free = FreeOf(general, float, spilled)
  OBVIOUS
<1>1. RegisterClass(t) \in {"general", "float"}
  BY LayoutFacts DEF Classes
<1>2. /\ free \in FreePlaces
      /\ free.general = Capped(general + FirstGeneral)
      /\ free.float = Capped(float)
      /\ free.stack = SlotSize * spilled
  BY DEF FreeOf, FreePlaces, Capped, Registers, FirstGeneral, SlotSize
<1>3. CASE RegisterClass(t) = "general"
  <2>1. CASE general + FirstGeneral < Registers
    <3>1. free.general = general + FirstGeneral /\ free.general < Registers
      BY <1>2, <2>1 DEF Capped
    <3>2. /\ Location(free, t) = <<"general", free.general>>
          /\ Advanced(free, t) = [general |-> free.general + 1, float |-> free.float, stack |-> free.stack]
      BY <1>2, <1>3, <3>1, LocationIs
    <3>3. Capped(general + 1 + FirstGeneral) = general + FirstGeneral + 1
      BY <2>1 DEF Capped, Registers, FirstGeneral
    <3> QED
      BY <1>2, <1>3, <2>1, <3>1, <3>2, <3>3 DEF FreeOf, Own, Registers, FirstGeneral
  <2>2. CASE general + FirstGeneral >= Registers
    <3>1. free.general = Registers
      BY <1>2, <2>2 DEF Capped, Registers, FirstGeneral
    <3>2. /\ Location(free, t) = <<"stack", free.stack>>
          /\ Advanced(free, t) = [general |-> free.general, float |-> free.float, stack |-> free.stack + SlotSize]
      BY <1>2, <1>3, <3>1, LocationIs DEF Registers
    <3>3. Capped(general + 1 + FirstGeneral) = Registers
      BY <2>2 DEF Capped, Registers, FirstGeneral
    <3> QED
      BY <1>2, <1>3, <2>2, <3>1, <3>2, <3>3 DEF FreeOf, Own, Registers, FirstGeneral, SlotSize
  <2> QED
    BY <2>1, <2>2 DEF Registers, FirstGeneral
<1>4. CASE RegisterClass(t) = "float"
  <2>1. CASE float < Registers
    <3>1. free.float = float /\ free.float < Registers
      BY <1>2, <2>1 DEF Capped
    <3>2. /\ Location(free, t) = <<"float", free.float>>
          /\ Advanced(free, t) = [general |-> free.general, float |-> free.float + 1, stack |-> free.stack]
      BY <1>2, <1>4, <3>1, LocationIs
    <3>3. Capped(float + 1) = float + 1
      BY <2>1 DEF Capped, Registers
    <3> QED
      BY <1>2, <1>4, <2>1, <3>1, <3>2, <3>3 DEF FreeOf, Own, Registers
  <2>2. CASE float >= Registers
    <3>1. free.float = Registers
      BY <1>2, <2>2 DEF Capped, Registers
    <3>2. /\ Location(free, t) = <<"stack", free.stack>>
          /\ Advanced(free, t) = [general |-> free.general, float |-> free.float, stack |-> free.stack + SlotSize]
      BY <1>2, <1>4, <3>1, LocationIs DEF Registers
    <3>3. Capped(float + 1) = Registers
      BY <2>2 DEF Capped, Registers
    <3> QED
      BY <1>2, <1>4, <2>2, <3>1, <3>2, <3>3 DEF FreeOf, Own, Registers, SlotSize
  <2> QED
    BY <2>1, <2>2 DEF Registers
<1> QED
  BY <1>1, <1>2, <1>3, <1>4

FreeAfter(types, i) ==
  FreeOf(Cardinality(Alike(types, "general", i)), Cardinality(Alike(types, "float", i)),
         Cardinality(Spilled(types, i)))

LEMMA NextIsPlaced ==
  ASSUME NEW types \in Seq(Types), NEW i \in Nat, i + 1 <= Len(types)
  PROVE  /\ Location(FreeAfter(types, i), types[i + 1]) = PassedAt(types)[i + 1]
         /\ Advanced(FreeAfter(types, i), types[i + 1]) = FreeAfter(types, i + 1)
<1> DEFINE
      t == types[i + 1]
      general == Cardinality(Alike(types, "general", i))
      float == Cardinality(Alike(types, "float", i))
      spilled == Cardinality(Spilled(types, i))
<1>1. t \in Types /\ RegisterClass(t) \in {"general", "float"}
  BY CountsGrow, LayoutFacts DEF Classes
<1>2. general \in Nat /\ float \in Nat /\ spilled \in Nat
  BY CountsGrow DEF Classes
<1>3. Register(types, i + 1) = Own(t, general, float)
  BY <1>1, <1>2, CountsGrow DEF Own, First
<1>4. PassedAt(types)[i + 1] =
        IF Register(types, i + 1) >= Registers THEN <<"stack", SlotSize * spilled>>
        ELSE <<RegisterClass(t), Register(types, i + 1)>>
  <2>1. i + 1 \in 1 .. Len(types) /\ (i + 1) - 1 = i
    OBVIOUS
  <2> QED
    BY <2>1, PassedAtIs
<1>5. /\ Cardinality(Alike(types, "general", i + 1)) = IF RegisterClass(t) = "general" THEN general + 1 ELSE general
      /\ Cardinality(Alike(types, "float", i + 1)) = IF RegisterClass(t) = "float" THEN float + 1 ELSE float
      /\ Cardinality(Spilled(types, i + 1)) =
           IF Register(types, i + 1) >= Registers THEN spilled + 1 ELSE spilled
  BY CountsGrow DEF Classes
<1>6. FreeAfter(types, i) = FreeOf(general, float, spilled)
  BY DEF FreeAfter
<1>7. FreeAfter(types, i + 1) =
        FreeOf(IF RegisterClass(t) = "general" THEN general + 1 ELSE general,
               IF RegisterClass(t) = "float" THEN float + 1 ELSE float,
               IF Own(t, general, float) >= Registers THEN spilled + 1 ELSE spilled)
  BY <1>3, <1>5 DEF FreeAfter
<1> HIDE DEF t, general, float, spilled
<1>8. /\ Location(FreeOf(general, float, spilled), t) = PassedAt(types)[i + 1]
      /\ Advanced(FreeOf(general, float, spilled), t) = FreeAfter(types, i + 1)
  <2>1. /\ Location(FreeOf(general, float, spilled), t) =
             IF Own(t, general, float) >= Registers THEN <<"stack", SlotSize * spilled>>
             ELSE <<RegisterClass(t), Own(t, general, float)>>
        /\ Advanced(FreeOf(general, float, spilled), t) =
             FreeOf(IF RegisterClass(t) = "general" THEN general + 1 ELSE general,
                    IF RegisterClass(t) = "float" THEN float + 1 ELSE float,
                    IF Own(t, general, float) >= Registers THEN spilled + 1 ELSE spilled)
    BY <1>1, <1>2, PlaceOfNext
  <2>2. Location(FreeOf(general, float, spilled), t) = PassedAt(types)[i + 1]
    BY <1>3, <1>4, <2>1
  <2>3. Advanced(FreeOf(general, float, spilled), t) = FreeAfter(types, i + 1)
    BY <1>7, <2>1
  <2> QED
    BY <2>2, <2>3
<1> QED
  BY <1>6, <1>8 DEF t

\* The layout is the standard's.
THEOREM LayoutIsTheStandards ==
  ASSUME NEW types \in Seq(Types)
  PROVE  Layout(types) = PassedAt(types)
<1> DEFINE
      n == Len(types)
      S == {i \in Nat : i <= n => Free(types)[i] = FreeAfter(types, i)}
<1>1. 0 \in S
  <2>1. /\ \A class \in Classes : Cardinality(Alike(types, class, 0)) = 0
        /\ Cardinality(Spilled(types, 0)) = 0
    BY FS_EmptySet DEF Alike, Spilled
  <2>2. FreeAfter(types, 0) = FreeOf(0, 0, 0)
    BY <2>1 DEF FreeAfter, Classes
  <2>3. FreeOf(0, 0, 0) = FirstFree
    BY DEF FreeOf, FirstFree, Capped, Registers, FirstGeneral, SlotSize
  <2> QED
    BY <2>2, <2>3, FreeIs
<1>2. ASSUME NEW i \in S PROVE i + 1 \in S
  <2> SUFFICES ASSUME i + 1 <= n PROVE Free(types)[i + 1] = FreeAfter(types, i + 1)
    OBVIOUS
  <2>1. Free(types)[i] = FreeAfter(types, i)
    OBVIOUS
  <2>2. i + 1 \in 1 .. n /\ (i + 1) - 1 = i
    OBVIOUS
  <2>3. Free(types)[i + 1] = Advanced(Free(types)[i], types[i + 1])
    BY <2>2, FreeIs
  <2> QED
    BY <2>1, <2>3, NextIsPlaced
<1>3. ASSUME NEW i \in 0 .. n PROVE Free(types)[i] = FreeAfter(types, i)
  <2>1. S \in SUBSET Nat
    OBVIOUS
  <2> HIDE DEF S
  <2>2. S = Nat
    BY <1>1, <1>2, <2>1, Induction
  <2>3. i \in S
    BY <2>2
  <2> QED
    BY <2>3 DEF S
<1>4. ASSUME NEW i \in 1 .. n PROVE Location(Free(types)[i - 1], types[i]) = PassedAt(types)[i]
  <2>1. i - 1 \in Nat /\ (i - 1) + 1 = i /\ i - 1 \in 0 .. n
    OBVIOUS
  <2>2. Location(FreeAfter(types, i - 1), types[(i - 1) + 1]) = PassedAt(types)[(i - 1) + 1]
    BY <2>1, NextIsPlaced
  <2> QED
    BY <2>1, <2>2, <1>3
<1>5. Layout(types) = [i \in 1 .. n |-> Location(Free(types)[i - 1], types[i])]
  BY DEF Layout
<1>6. PassedAt(types) = [i \in 1 .. n |-> PassedAt(types)[i]]
  BY PassedAtIs
<1> QED
  BY <1>4, <1>5, <1>6

-----------------------------------------------------------------------------
(* What the callback is given.                                             *)
\* a smaller set, and one more
LEMMA MoreAbove ==
  ASSUME NEW i \in Nat, NEW j \in Nat, NEW A \in SUBSET (1 .. i),
         NEW B \in SUBSET (1 .. j), A \cup {i + 1} \subseteq B
  PROVE  Cardinality(A) \in Nat /\ Cardinality(B) \in Nat /\ Cardinality(A) < Cardinality(B)
<1>1. Cardinality(A) \in Nat /\ Cardinality(A \cup {i + 1}) = Cardinality(A) + 1
  BY OneMore
<1>2. IsFiniteSet(B) /\ Cardinality(B) \in Nat
  BY OneMore
<1>3. Cardinality(A \cup {i + 1}) <= Cardinality(B)
  BY <1>2, FS_Subset
<1> QED
  BY <1>1, <1>2, <1>3

\* no two arguments are in one place
LEMMA PlacesDiffer ==
  ASSUME NEW types \in Seq(Types), NEW i \in 1 .. Len(types), NEW j \in 1 .. Len(types), i < j
  PROVE  PassedAt(types)[i] # PassedAt(types)[j]
<1>1. /\ PassedAt(types)[i] = IF Register(types, i) >= Registers
                              THEN <<"stack", SlotSize * Cardinality(Spilled(types, i - 1))>>
                              ELSE <<RegisterClass(types[i]), Register(types, i)>>
      /\ PassedAt(types)[j] = IF Register(types, j) >= Registers
                              THEN <<"stack", SlotSize * Cardinality(Spilled(types, j - 1))>>
                              ELSE <<RegisterClass(types[j]), Register(types, j)>>
  BY PassedAtIs
<1>2. RegisterClass(types[i]) \in Classes /\ RegisterClass(types[j]) \in Classes
  BY LayoutFacts
<1> /\ i - 1 \in Nat /\ j - 1 \in Nat /\ (i - 1) + 1 = i
  OBVIOUS
<1>3. CASE Register(types, i) >= Registers /\ Register(types, j) >= Registers
  <2>1. Spilled(types, i - 1) \cup {i} \subseteq Spilled(types, j - 1)
    BY <1>3 DEF Spilled
  <2>2. Spilled(types, i - 1) \in SUBSET (1 .. i - 1) /\ Spilled(types, j - 1) \in SUBSET (1 .. j - 1)
    BY DEF Spilled
  <2>3. /\ Cardinality(Spilled(types, i - 1)) \in Nat /\ Cardinality(Spilled(types, j - 1)) \in Nat
        /\ Cardinality(Spilled(types, i - 1)) < Cardinality(Spilled(types, j - 1))
    BY <2>1, <2>2, MoreAbove
  <2>4. SlotSize * Cardinality(Spilled(types, i - 1)) # SlotSize * Cardinality(Spilled(types, j - 1))
    BY <2>3 DEF SlotSize
  <2> QED
    BY <1>1, <1>3, <2>4
<1>4. CASE RegisterClass(types[i]) = RegisterClass(types[j])
           /\ ~(Register(types, i) >= Registers) /\ ~(Register(types, j) >= Registers)
  <2> DEFINE class == RegisterClass(types[i])
  <2>1. Alike(types, class, i - 1) \cup {i} \subseteq Alike(types, class, j - 1)
    BY <1>4 DEF Alike
  <2>2. Alike(types, class, i - 1) \in SUBSET (1 .. i - 1) /\ Alike(types, class, j - 1) \in SUBSET (1 .. j - 1)
    BY DEF Alike
  <2>3. /\ Cardinality(Alike(types, class, i - 1)) \in Nat /\ Cardinality(Alike(types, class, j - 1)) \in Nat
        /\ Cardinality(Alike(types, class, i - 1)) < Cardinality(Alike(types, class, j - 1))
    BY <2>1, <2>2, MoreAbove
  <2>4. First(class) \in Nat
    BY DEF First, FirstGeneral
  <2>5. Register(types, i) # Register(types, j)
    BY <1>4, <2>3, <2>4 DEF Register
  <2> QED
    BY <1>1, <1>4, <2>5
<1>5. CASE (Register(types, i) >= Registers) # (Register(types, j) >= Registers)
  BY <1>1, <1>2, <1>5 DEF Classes
<1>6. CASE RegisterClass(types[i]) # RegisterClass(types[j])
           /\ ~(Register(types, i) >= Registers) /\ ~(Register(types, j) >= Registers)
  BY <1>1, <1>6
<1> QED
  BY <1>3, <1>4, <1>5, <1>6

LEMMA FrameFacts ==
  ASSUME NEW n \in Nat
  PROVE  /\ FrameSize(n) \in Nat
         /\ FrameSize(n) >= FrameHeader + SlotSize * n
         /\ \A i \in 1 .. n : Slot(n, i) + SlotSize <= -16
<1>1. /\ FrameSize(n) \in Nat
      /\ FrameSize(n) >= FrameHeader + SlotSize * n
  BY DEF FrameSize, FrameHeader, SlotSize
<1>2. ASSUME NEW i \in 1 .. n PROVE Slot(n, i) + SlotSize <= -16
  BY <1>1 DEF Slot, StackPointer, FrameHeader, SlotSize
<1> QED
  BY <1>1, <1>2

\* an argument on the stack is loaded from where it is
LEMMA LoadedIs ==
  ASSUME NEW types \in Seq(Types), NEW i \in 1 .. Len(types)
  PROVE  Loaded(Len(types), PassedAt(types)[i]) = PassedAt(types)[i]
<1>1. CASE Register(types, i) >= Registers
  <2>1. PassedAt(types)[i] = <<"stack", SlotSize * Cardinality(Spilled(types, i - 1))>>
    BY <1>1, PassedAtIs
  <2>2. Cardinality(Spilled(types, i - 1)) \in Nat
    <3>1. Spilled(types, i - 1) \in SUBSET (1 .. i - 1) /\ i - 1 \in Nat
      BY DEF Spilled
    <3> QED
      BY <3>1, OneMore
  <2>3. SlotSize * Cardinality(Spilled(types, i - 1)) \in Nat
    BY <2>2 DEF SlotSize
  <2>4. Len(types) \in Nat /\ FrameSize(Len(types)) \in Nat
    BY FrameFacts
  <2> QED
    BY <2>1, <2>3, <2>4 DEF Loaded, StackPointer
<1>2. CASE ~(Register(types, i) >= Registers)
  <2>1. PassedAt(types)[i] = <<RegisterClass(types[i]), Register(types, i)>>
    BY <1>2, PassedAtIs
  <2>2. RegisterClass(types[i]) # "stack"
    BY LayoutFacts DEF Classes
  <2> QED
    BY <2>1, <2>2 DEF Loaded
<1> QED
  BY <1>1, <1>2

LEMMA CapturedIs ==
  ASSUME NEW types \in Seq(Types), NEW values
  PROVE  Captured(types, values) =
           [i \in 1 .. Len(types) |->
              [value |-> values[i], bytes |-> StoredBytes(types[i], PassedAt(types)[i])]]
<1> DEFINE
      n == Len(types)
      passed == PassedAt(types)
      there(i) == {j \in 1 .. n : passed[j] = Loaded(n, passed[i])}
<1>1. ASSUME NEW i \in 1 .. n PROVE there(i) = {i}
  <2>1. \A j \in 1 .. n : passed[j] = passed[i] => j = i
    BY PlacesDiffer
  <2>2. Loaded(n, passed[i]) = passed[i]
    BY LoadedIs
  <2> QED
    BY <2>1, <2>2
<1>2. ASSUME NEW i \in 1 .. n PROVE there(i) # {} /\ (CHOOSE j \in there(i) : TRUE) = i
  BY <1>1
<1>3. Captured(types, values) =
        [i \in 1 .. n |-> IF there(i) = {} THEN ZeroJvalue
                          ELSE [value |-> values[CHOOSE j \in there(i) : TRUE],
                                bytes |-> StoredBytes(types[i], passed[i])]]
  BY LayoutIsTheStandards DEF Captured
<1> HIDE DEF there
<1> QED
  BY <1>2, <1>3

\* the values of Java
Values == {Value(k, v) : k \in Prims, v \in Int} \cup {Object(c) : c \in Types \cup {Null}}
\* that one of type t may be
Passable(value, t) ==
  /\ value \in Values /\ Matches(value, t)
  /\ IsReference(t) => value.class = Null \/ Subtype(value.class, t)

LEMMA PassableFacts ==
  ASSUME NEW t \in Types, NEW value, Passable(value, t)
  PROVE  /\ IsReference(t) => /\ value = Object(value.class)
                              /\ value.kind = "object" /\ KindOf(t) = "object"
                              /\ value = Object(Null) <=> value.class = Null
                              /\ value.class = Null \/ Subtype(value.class, t)
         /\ ~IsReference(t) => /\ value.kind = t.base /\ KindOf(t) = t.base /\ t.base \in Prims
                               /\ t = Prim(t.base) /\ value.class = Null
                               /\ value # Object(Null) /\ value.kind # "object" /\ value.kind # "void"
         /\ value.kind = KindOf(t)
<1>1. CASE IsReference(t)
  <2>1. value.kind = "object"
    BY <1>1, PrimsAre, TypeFacts DEF Passable, Matches, IsReference, Values, Value, Object
  <2>2. PICK c \in Types \cup {Null} : value = Object(c)
    BY <2>1, PrimsAre DEF Passable, Values, Value
  <2> QED
    BY <1>1, <2>1, <2>2 DEF Passable, Object, KindOf
<1>2. CASE ~IsReference(t)
  <2>1. value.kind = t.base /\ t.base \in Prims /\ t = Prim(t.base)
    BY <1>2, TypeFacts DEF Passable, Matches
  <2>2. PICK k \in Prims, v \in Int : value = Value(k, v)
    BY <2>1, PrimsAre DEF Passable, Values, Object
  <2>3. Object(Null).kind = "object"
    BY DEF Object
  <2>4. value.class = Null
    BY <2>2 DEF Value
  <2> QED
    BY <1>2, <2>1, <2>3, <2>4, PrimsAre DEF KindOf
<1> QED
  BY <1>1, <1>2

LEMMA ViewIs ==
  ASSUME NEW t \in Types, NEW value, Passable(value, t)
  PROVE  ArgumentView(value, t) = Parsed(IF value = Object(Null) THEN "null" ELSE Natural(t))
<1>1. CASE IsReference(t)
  <2>1. value.kind = "object" /\ "object" \notin Prims
    BY <1>1, PassableFacts, PrimsAre
  <2>2. CASE value.class = Null
    BY <1>1, <2>1, <2>2, PassableFacts DEF ArgumentView, NullArgument, Parsed
  <2>3. CASE value.class # Null
    <3>1. value # Object(Null) /\ Subtype(value.class, t)
      BY <1>1, <2>3, PassableFacts
    <3>2. t.base = "object" \/ IsArray(t)
      BY <1>1, TypeFacts
    <3>3. CASE IsArray(t)
      BY <1>1, <2>1, <2>3, <3>1, <3>3
         DEF ArgumentView, ArrayOfType, Natural, Parsed
    <3>4. CASE ~IsArray(t)
      BY <1>1, <2>1, <2>3, <3>1, <3>2, <3>4
         DEF ArgumentView, ObjectForArgument, ObjectOfType, Natural, Parsed
    <3> QED
      BY <3>3, <3>4
  <2> QED
    BY <2>2, <2>3
<1>2. CASE ~IsReference(t)
  <2>1. /\ value.kind = t.base /\ t.base \in Prims /\ value # Object(Null) /\ value.kind # "void"
        /\ ~IsArray(t)
    BY <1>2, PassableFacts, TypeFacts
  <2> QED
    BY <2>1 DEF ArgumentView, Natural
<1> QED
  BY <1>1, <1>2

\* what is of the declared type is taken as it is
LEMMA CoerceMatching ==
  ASSUME NEW t, NEW value, Matches(value, t)
  PROVE  Coerce(value, t) = Parsed(value)
<1>1. ~(value.kind = "int" /\ t.dims = 0 /\ t.base \in DOMAIN Limits)
  BY DEF Matches, Limits
<1>2. /\ ~(value.kind = "int" /\ t = Prim("long"))
      /\ ~(value.kind = "float" /\ t = Prim("double"))
      /\ ~(value.kind = "double" /\ t = Prim("float"))
  BY DEF Matches, Prim
<1> QED
  BY <1>1, <1>2 DEF Coerce

\* The callback is given what Java passed, whatever it is passed.
THEOREM ArgumentsAlwaysArrive ==
  ASSUME NEW types \in Seq(Types), NEW values \in Seq(Values), Len(values) = Len(types),
         \A i \in 1 .. Len(types) : Passable(values[i], types[i])
  PROVE  ArgumentsArrive(types, values)
<1> DEFINE n == Len(types)
<1>1. DOMAIN types = 1 .. n /\ DOMAIN values = 1 .. n /\ n \in Nat
  OBVIOUS
<1>2. \A i \in 1 .. n : types[i] \in Types
  OBVIOUS
<1>3. CallbackArguments(types, values) = [i \in 1 .. n |-> Parsed(values[i])]
  <2>1. ASSUME NEW i \in 1 .. n
        PROVE  Read(Captured(types, values)[i], types[i]) = Parsed(values[i])
    <3>1. Captured(types, values)[i] =
            [value |-> values[i], bytes |-> StoredBytes(types[i], PassedAt(types)[i])]
      BY CapturedIs
    <3>2. StoredBytes(types[i], PassedAt(types)[i]) \in {SlotSize, ValueLayout(types[i])[2]}
      BY DEF StoredBytes
    <3>3. Bytes[KindOf(types[i])] <= StoredBytes(types[i], PassedAt(types)[i])
      <4>1. Bytes[KindOf(types[i])] <= ValueLayout(types[i])[2] /\ ValueLayout(types[i])[2] \in {4, 8}
        BY <1>2, LayoutFacts
      <4>2. Bytes[KindOf(types[i])] \in Nat
        BY <1>2, LayoutFacts, PrimsAre DEF Bytes
      <4> QED
        BY <3>2, <4>1, <4>2 DEF SlotSize
    <3>4. values[i].kind = KindOf(types[i])
      BY <1>2, PassableFacts
    <3> QED
      BY <3>1, <3>3, <3>4 DEF Read
  <2> QED
    BY <1>1, <2>1 DEF CallbackArguments
<1>4. \A i \in 1 .. n : Slot(n, i) + SlotSize <= -16
  BY <1>1, FrameFacts
<1>5. ArgumentViews(values, types) =
        [i \in 1 .. n |-> Parsed(IF values[i] = Object(Null) THEN "null" ELSE Natural(types[i]))]
  BY <1>1, <1>2, ViewIs DEF ArgumentViews
<1>6. PassedOn(values, types) = Parsed(values)
  <2> DEFINE arguments == [i \in DOMAIN values |-> Rust("value", values[i])]
  <2>1. Len(arguments) = Len(types)
    BY <1>1
  <2>2. ASSUME NEW i \in 1 .. n PROVE CallArgument(arguments[i], types[i]) = Parsed(values[i])
    <3>1. Matches(values[i], types[i])
      BY DEF Passable
    <3> QED
      BY <1>1, <3>1, CoerceMatching DEF CallArgument, PrepareCall, CoerceCall, Rust
  <2> HIDE DEF arguments
  <2>3. \A i \in 1 .. n : Parsed(values[i]).ok /\ Parsed(values[i]).value = values[i]
    BY DEF Parsed
  <2>4. PreparedArguments(arguments, types) = Parsed([i \in 1 .. n |-> values[i]])
    BY <1>1, <2>1, <2>2, <2>3 DEF PreparedArguments
  <2>5. values = [i \in 1 .. n |-> values[i]]
    BY <1>1
  <2> QED
    BY <2>4, <2>5 DEF PassedOn, arguments
<1> QED
  BY <1>3, <1>4, <1>5, <1>6 DEF ArgumentsArrive

-----------------------------------------------------------------------------
(* What is taken of an argument and of a result.                           *)
LEMMA Outcomes ==
  Failed.ok = FALSE /\ \A v : Parsed(v).ok = TRUE /\ Parsed(v).value = v
BY DEF Failed, Parsed

LEMMA ExtractorsAre ==
  ASSUME NEW value, NEW t
  PROVE  /\ \A wanted \in Prims :
              /\ Argument(wanted, value, t) = PrimitiveArgument(wanted, value)
              /\ Result(wanted, value, t) = Extract(wanted, value)
              /\ ResultOfOriginal(wanted, value, t) = Extract(wanted, value)
         /\ Argument("object", value, t) = ObjectArgument(value, t)
         /\ Result("object", value, t) = IntoObject(value, t)
         /\ ResultOfOriginal("object", value, t) = ObjectOfOriginal(value, t)
         /\ Argument("array", value, t) = ArrayArgument(value, t)
         /\ Result("array", value, t) = IntoArray(value, t)
         /\ ResultOfOriginal("array", value, t) = ArrayOfOriginal(value, t)
         /\ Argument("string", value, t) = StringArgument(value, t)
         /\ Result("string", value, t) = IntoString(value, t)
         /\ ResultOfOriginal("string", value, t) = StringOfOriginal(value, t)
<1>1. /\ {"object", "array", "string"} \cap Words = {} /\ Prims \subseteq Words
      /\ {"object", "array", "string"} \cap Prims = {}
  BY PrimsAre
<1> QED
  BY <1>1 DEF Argument, Result, ResultOfOriginal, PrimitiveOfOriginal

\* of a primitive
LEMMA PrimitiveIsTaken ==
  ASSUME NEW t \in Types, NEW value, Passable(value, t), ~IsReference(t)
  PROVE  TakenAsDeclared(value, t)
<1>1. /\ value.kind = t.base /\ t.base \in Prims /\ t = Prim(t.base) /\ value.class = Null
      /\ value # Object(Null) /\ value.kind # "object" /\ ~IsArray(t) /\ Natural(t) = t.base
  BY PassableFacts, TypeFacts DEF Natural
<1>2. t.base # "object" /\ t.base # "array" /\ t # StringType
  BY <1>1, PrimsAre DEF Prim, StringType, ObjectType
<1>3. ASSUME NEW wanted \in Prims \cup {"object", "array"}
      PROVE  /\ Argument(wanted, value, t) = IF wanted = t.base THEN Parsed(value) ELSE Failed
             /\ Result(wanted, value, t) = IF wanted = t.base THEN Parsed(value) ELSE Failed
             /\ ResultOfOriginal(wanted, value, t) = IF wanted = t.base THEN Parsed(value) ELSE Failed
  <2>1. CASE wanted \in Prims
    BY <1>1, <2>1, ExtractorsAre DEF PrimitiveArgument, Extract
  <2>2. CASE wanted = "object"
    BY <1>1, <1>2, <2>2, ExtractorsAre DEF ObjectArgument, IntoObject, ObjectOfOriginal
  <2>3. CASE wanted = "array"
    BY <1>1, <1>2, <2>3, ExtractorsAre DEF ArrayArgument, IntoArray, ArrayOfOriginal
  <2> QED
    BY <2>1, <2>2, <2>3
<1>4. ArgumentView(value, t) = Parsed(t.base)
  BY <1>1, ViewIs
<1>5. Required(Argument(t.base, value, t)) = Parsed(value)
  BY <1>1, <1>3, Outcomes DEF Required
<1>6. /\ ArgumentIsNull(value, t) = Failed
      /\ RawArgumentObject(value) = Failed /\ ArgObject(value, t) = Failed /\ ArgArray(value, t) = Failed
  BY <1>1 DEF ArgumentIsNull, RawArgumentObject, ArgObject, ArgArray
<1> QED
  BY <1>1, <1>2, <1>3, <1>4, <1>5, <1>6, Outcomes DEF TakenAsDeclared

\* of a reference
LEMMA ReferenceIsTaken ==
  ASSUME NEW t \in Types, NEW value, Passable(value, t), IsReference(t)
  PROVE  TakenAsDeclared(value, t)
<1> DEFINE null == value.class = Null
<1>1. /\ value.kind = "object"
      /\ value = Object(Null) <=> null
      /\ value.class = Null \/ Subtype(value.class, t)
      /\ Natural(t) = IF IsArray(t) THEN "array" ELSE "object"
  BY PassableFacts, TypeFacts DEF Natural
<1>2. "object" \notin Prims /\ "array" \notin Prims
  BY PrimsAre
<1>3. ASSUME NEW wanted \in Prims
      PROVE  /\ Argument(wanted, value, t) = Failed
             /\ Result(wanted, value, t) = Failed
             /\ ResultOfOriginal(wanted, value, t) = Failed
  BY <1>1, <1>2, ExtractorsAre DEF PrimitiveArgument, Extract
<1>4. /\ ObjectOfType(value, t) = IF ~IsArray(t) /\ ~null THEN Parsed(value) ELSE Failed
      /\ ArrayOfType(value, t) = IF IsArray(t) /\ ~null THEN Parsed(value) ELSE Failed
  BY <1>1 DEF ObjectOfType, ArrayOfType
<1>5. /\ Argument("object", value, t) = IF IsArray(t) THEN Failed ELSE Parsed(value)
      /\ Argument("array", value, t) = IF IsArray(t) THEN Parsed(value) ELSE Failed
      /\ Argument("string", value, t) = IF null \/ ~IsArray(t) THEN Parsed(value) ELSE Failed
  BY <1>1, <1>4, ExtractorsAre DEF ObjectArgument, ArrayArgument, StringArgument, ObjectForArgument
<1>6. /\ Result("object", value, t) = IF null \/ ~IsArray(t) THEN Parsed(value) ELSE Failed
      /\ Result("array", value, t) = IF null \/ IsArray(t) THEN Parsed(value) ELSE Failed
      /\ Result("string", value, t) = IF null \/ ~IsArray(t) THEN Parsed(value) ELSE Failed
  BY <1>1, ExtractorsAre DEF IntoObject, IntoArray, IntoString
<1>7. /\ ResultOfOriginal("object", value, t) = IF null \/ ~IsArray(t) THEN Parsed(value) ELSE Failed
      /\ ResultOfOriginal("array", value, t) = IF IsArray(t) THEN Parsed(value) ELSE Failed
      /\ ResultOfOriginal("string", value, t) = IF null \/ ~IsArray(t) THEN Parsed(value) ELSE Failed
  BY <1>1, <1>4, ExtractorsAre DEF ObjectOfOriginal, ArrayOfOriginal, StringOfOriginal
<1>8. t = StringType => ~IsArray(t)
  BY DEF StringType, ObjectType, IsArray
<1>9. ArgumentView(value, t) = Parsed(IF null THEN "null" ELSE Natural(t))
  BY <1>1, ViewIs
<1>10. Required(Argument(Natural(t), value, t)) = IF null THEN Failed ELSE Parsed(value)
  BY <1>1, <1>5, Outcomes DEF Required
<1>11. /\ ArgumentIsNull(value, t) = Parsed(value = Object(Null))
       /\ RawArgumentObject(value) = Parsed(value)
       /\ ArgObject(value, t) = IF null \/ ~IsArray(t) THEN Parsed(value) ELSE Failed
       /\ ArgArray(value, t) = IF IsArray(t) THEN Parsed(value) ELSE Failed
  <2>1. (value.class = Null) = (value = Object(Null))
    BY <1>1
  <2> QED
    BY <1>1, <1>4, <2>1 DEF ArgumentIsNull, RawArgumentObject, ArgObject, ArgArray, ObjectForArgument
<1>12. ASSUME NEW wanted \in Prims \cup {"object", "array"}
       PROVE  /\ Argument(wanted, value, t).ok <=> wanted = Natural(t)
              /\ Result(wanted, value, t).ok <=> wanted = Natural(t) \/ (value = Object(Null) /\ wanted \notin Prims)
              /\ Argument(wanted, value, t).ok => Argument(wanted, value, t).value = value
              /\ ResultOfOriginal(wanted, value, t).ok => Result(wanted, value, t).ok
              /\ wanted = Natural(t) => ResultOfOriginal(wanted, value, t).ok
  <2>1. CASE wanted \in Prims
    BY <1>1, <1>2, <1>3, <2>1, Outcomes
  <2>2. CASE wanted = "object"
    BY <1>1, <1>2, <1>5, <1>6, <1>7, <2>2, Outcomes
  <2>3. CASE wanted = "array"
    BY <1>1, <1>2, <1>5, <1>6, <1>7, <2>3, Outcomes
  <2> QED
    BY <2>1, <2>2, <2>3
<1>13. t = StringType => /\ Argument("string", value, t).ok /\ Result("string", value, t).ok
                         /\ ResultOfOriginal("string", value, t).ok
  BY <1>5, <1>6, <1>7, <1>8, Outcomes
<1>14. ArgumentView(value, t) = Parsed(IF value = Object(Null) THEN "null" ELSE Natural(t))
  BY <1>1, <1>9
<1>15. /\ Required(Argument(Natural(t), value, t)).ok <=> ~(value = Object(Null))
       /\ RawArgumentObject(value).ok <=> IsReference(t)
       /\ ArgObject(value, t).ok <=> Natural(t) = "object" \/ value = Object(Null)
       /\ ArgArray(value, t).ok <=> Natural(t) = "array"
  BY <1>1, <1>10, <1>11, Outcomes
<1> QED
  BY <1>11, <1>12, <1>13, <1>14, <1>15 DEF TakenAsDeclared

\* What is taken of an argument or of a result is what it is declared to be.
THEOREM TakenIsAsDeclared ==
  ASSUME NEW t \in Types, NEW value, Passable(value, t)
  PROVE  TakenAsDeclared(value, t)
BY PrimitiveIsTaken, ReferenceIsTaken

-----------------------------------------------------------------------------
(* What Rust passes to Java, as an argument, in a field or as a result.    *)
\* the values of Rust, a number in the limits of its kind, and what is passed of them
LimitedValues ==
  {value \in Values : value.kind \in DOMAIN Limits => InLimits(value.kind, value.v)} \cup {VoidValue}
Givens ==
  {Rust(shape, value) : shape \in {"value", "token"}, value \in LimitedValues} \cup
  {Rust(shape, Object(c)) : shape \in {"view", "wrapper"}, c \in Types \cup {Null}} \cup
  {RustString, Rust("optional", Object(Null))}

LEMMA LimitsAre == DOMAIN Limits = {"byte", "char", "short"}
BY DEF Limits

LEMMA VoidFacts ==
  /\ Void.base = "void" /\ Void.dims = 0 /\ ~IsReference(Void)
  /\ VoidValue.kind = "void" /\ VoidValue.class = Null
BY DEF Void, Prim, VoidValue, Value, IsReference

LEMMA RustValueFacts ==
  ASSUME NEW value \in LimitedValues
  PROVE  /\ value.kind \in DOMAIN Limits => InLimits(value.kind, value.v)
         /\ value.kind # "object" => value.class = Null
         /\ value.kind = "void" <=> value = VoidValue
         /\ value.kind = "object" => \E c \in Types \cup {Null} : value = Object(c)
         /\ value.kind \in Words \cup {"object"}
<1>1. CASE value = VoidValue
  BY <1>1, VoidFacts, LimitsAre, PrimsAre
<1>2. CASE value \in Values
  <2>1. value.kind \in DOMAIN Limits => InLimits(value.kind, value.v)
    BY <1>2, VoidFacts, LimitsAre DEF LimitedValues
  <2>2. CASE \E k \in Prims, v \in Int : value = Value(k, v)
    <3>1. PICK k \in Prims, v \in Int : value = Value(k, v)
      BY <2>2
    <3>2. value.kind = k /\ value.class = Null
      BY <3>1 DEF Value
    <3> QED
      BY <2>1, <3>2, PrimsAre, VoidFacts
  <2>3. CASE \E c \in Types \cup {Null} : value = Object(c)
    <3>1. value.kind = "object"
      BY <2>3 DEF Object
    <3> QED
      BY <2>1, <2>3, <3>1, VoidFacts
  <2> QED
    BY <1>2, <2>2, <2>3 DEF Values
<1> QED
  BY <1>1, <1>2 DEF LimitedValues

LEMMA CoerceIs ==
  ASSUME NEW t, NEW value, ~Matches(value, t)
  PROVE  /\ value.kind = "int" /\ t.dims = 0 /\ t.base \in DOMAIN Limits =>
              Coerce(value, t) = NarrowInt(value.v, t.base)
         /\ value.kind = "int" /\ t = Prim("long") => Coerce(value, t) = Parsed(Value("long", value.v))
         /\ value.kind = "float" /\ t = Prim("double") => Coerce(value, t) = Parsed(Value("double", value.v))
         /\ value.kind = "double" /\ t = Prim("float") => Coerce(value, t) = DoubleToFloat(value.v)
         /\ \/ Coerce(value, t) = Failed
            \/ value.kind = "int" /\ t.dims = 0 /\ t.base \in DOMAIN Limits
            \/ value.kind = "int" /\ t = Prim("long")
            \/ value.kind = "float" /\ t = Prim("double")
            \/ value.kind = "double" /\ t = Prim("float")
<1>1. /\ Prim("long").base \notin DOMAIN Limits
      /\ Prim("long") # Prim("double") /\ Prim("long") # Prim("float") /\ Prim("double") # Prim("float")
  BY LimitsAre DEF Prim
<1> QED
  BY <1>1 DEF Coerce

\* what is accepted is of the declared type, and the same
LEMMA CoercionKeeps ==
  ASSUME NEW t \in Types \cup {Void}, NEW value \in LimitedValues, Coerce(value, t).ok
  PROVE  /\ Coerce(value, t) = Parsed(Coerce(value, t).value)
         /\ Holds(Coerce(value, t).value, t)
         /\ SameValue(value, Coerce(value, t).value)
         /\ Coerce(value, t).value.kind = KindOf(t)
         /\ value.kind = "object" => Coerce(value, t).value = value
<1>1. /\ \A w \in Words : Prim(w).base = w /\ Prim(w).dims = 0 /\ ~IsReference(Prim(w))
      /\ \A k, v : Value(k, v).kind = k /\ Value(k, v).v = v /\ Value(k, v).class = Null
      /\ DOMAIN Limits \subseteq Words
  BY PrimsAre, LimitsAre DEF Prim, Value, IsReference
<1>2. CASE Matches(value, t)
  <2>1. Coerce(value, t) = Parsed(value) /\ Coerce(value, t).value = value
    BY <1>2, CoerceMatching, Outcomes
  <2>2. Holds(value, t)
    BY <1>2, RustValueFacts DEF Holds
  <2>3. value.kind = KindOf(t)
    BY <1>2, PrimsAre DEF Matches, KindOf, IsReference
  <2> QED
    BY <2>1, <2>2, <2>3 DEF SameValue
<1>3. CASE ~Matches(value, t) /\ value.kind = "int" /\ t.dims = 0 /\ t.base \in DOMAIN Limits
  <2>1. Coerce(value, t) = NarrowInt(value.v, t.base)
    BY <1>3, CoerceIs
  <2>2. InLimits(t.base, value.v) /\ Coerce(value, t) = Parsed(Value(t.base, value.v))
    BY <2>1, Outcomes DEF NarrowInt
  <2>3. t.base # "object" /\ ~IsReference(t) /\ KindOf(t) = t.base
    BY <1>3, LimitsAre DEF IsReference, KindOf
  <2>4. value.class = Null
    BY <1>3, RustValueFacts
  <2> QED
    BY <1>1, <1>3, <2>2, <2>3, <2>4, Outcomes DEF Holds, Matches, SameValue
<1>4. CASE ~Matches(value, t) /\ value.kind = "int" /\ t = Prim("long")
  <2>1. Coerce(value, t) = Parsed(Value("long", value.v)) /\ value.class = Null
    BY <1>4, CoerceIs, RustValueFacts
  <2>2. t.base = "long" /\ t.dims = 0 /\ KindOf(t) = "long"
    BY <1>1, <1>4, PrimsAre DEF KindOf
  <2> QED
    BY <1>1, <1>4, <2>1, <2>2, LimitsAre, Outcomes DEF Holds, Matches, SameValue
<1>5. CASE ~Matches(value, t) /\ value.kind = "float" /\ t = Prim("double")
  <2>1. Coerce(value, t) = Parsed(Value("double", value.v)) /\ value.class = Null
    BY <1>5, CoerceIs, RustValueFacts
  <2>2. t.base = "double" /\ t.dims = 0 /\ KindOf(t) = "double"
    BY <1>1, <1>5, PrimsAre DEF KindOf
  <2> QED
    BY <1>1, <1>5, <2>1, <2>2, LimitsAre, Outcomes DEF Holds, Matches, SameValue
<1>6. CASE ~Matches(value, t) /\ value.kind = "double" /\ t = Prim("float")
  <2>1. Coerce(value, t) = DoubleToFloat(value.v) /\ value.class = Null
    BY <1>6, CoerceIs, RustValueFacts
  <2>2. FitsFloat(value.v) /\ Coerce(value, t) = Parsed(Value("float", RoundedToFloat(value.v)))
    BY <2>1, Outcomes DEF DoubleToFloat
  <2>3. t.base = "float" /\ t.dims = 0 /\ KindOf(t) = "float"
    BY <1>1, <1>6, PrimsAre DEF KindOf
  <2> QED
    BY <1>1, <1>6, <2>2, <2>3, LimitsAre, Outcomes DEF Holds, Matches, SameValue
<1> QED
  BY <1>2, <1>3, <1>4, <1>5, <1>6, CoerceIs, Outcomes

\* a literal whose number the type can hold is accepted
LEMMA LiteralsAreAccepted ==
  ASSUME NEW t \in Types \cup {Void}, NEW value \in LimitedValues, Literal(value, t)
  PROVE  Coerce(value, t).ok /\ ~IsReference(t) /\ t # Void /\ value.kind \in {"int", "double"}
<1>1. t # Void /\ ~IsReference(t) /\ t.dims = 0
  BY VoidFacts DEF Literal, Prim, IsReference
<1>2. CASE value.kind = "int"
  <2>1. t.base \in {"byte", "char", "short", "int", "long"}
    BY <1>2 DEF Literal
  <2>2. CASE t.base = "int"
    <3>1. Matches(value, t)
      BY <1>1, <1>2, <2>2 DEF Matches
    <3> QED
      BY <1>1, <1>2, <3>1, CoerceMatching, Outcomes
  <2>3. CASE t.base = "long"
    <3>1. t = Prim("long")
      BY <1>1, <2>3, TypeFacts
    <3>2. ~Matches(value, t)
      BY <1>2, <2>3 DEF Matches
    <3> QED
      BY <1>1, <1>2, <3>1, <3>2, CoerceIs, Outcomes
  <2>4. CASE t.base \in DOMAIN Limits
    <3>1. ~Matches(value, t)
      BY <1>2, <2>4, LimitsAre DEF Matches
    <3>2. InLimits(t.base, value.v)
      BY <2>4 DEF Literal, Holds, Value
    <3> QED
      BY <1>1, <1>2, <2>4, <3>1, <3>2, CoerceIs, Outcomes DEF NarrowInt
  <2> QED
    BY <2>1, <2>2, <2>3, <2>4, LimitsAre
<1>3. CASE value.kind = "double"
  <2>1. t \in {Prim("float"), Prim("double")} /\ (FitsFloat(value.v) \/ t = Prim("double"))
    BY <1>3 DEF Literal
  <2>2. CASE t = Prim("double")
    <3>1. Matches(value, t)
      BY <1>3, <2>2 DEF Matches, Prim
    <3> QED
      BY <1>1, <1>3, <3>1, CoerceMatching, Outcomes
  <2>3. CASE t = Prim("float") /\ FitsFloat(value.v)
    <3>1. ~Matches(value, t)
      BY <1>3, <2>3 DEF Matches, Prim
    <3> QED
      BY <1>1, <1>3, <2>3, <3>1, CoerceIs, Outcomes DEF DoubleToFloat
  <2> QED
    BY <2>1, <2>2, <2>3
<1> QED
  BY <1>2, <1>3 DEF Literal

LEMMA GivenFacts ==
  ASSUME NEW offered \in Givens
  PROVE  /\ offered.shape \in {"value", "token"} => offered.value \in LimitedValues
         /\ offered.shape \in {"view", "wrapper"} => offered.value \in LimitedValues /\ offered.value.kind = "object"
         /\ offered.shape = "string" => offered.value = Object(StringType)
         /\ offered.shape = "optional" => offered.value = Object(Null) /\ offered.value \in LimitedValues
         /\ offered.shape \in {"value", "token", "view", "wrapper", "string", "optional"}
<1>1. \A c \in Types \cup {Null} : Object(c) \in LimitedValues /\ Object(c).kind = "object"
  <2>1. \A c : Object(c).kind = "object"
    BY DEF Object
  <2> QED
    BY <2>1, LimitsAre DEF LimitedValues, Values
<1> QED
  BY <1>1 DEF Givens, Rust, RustString

\* what is accepted is read back as it is
LEMMA ReadBack ==
  ASSUME NEW t \in Types, NEW value, value.kind = KindOf(t)
  PROVE  /\ Read(ToJvalue(value), t) = Parsed(value)
         /\ LoadReturn(ToJvalue(value), t) = Parsed(value)
<1>1. KindOf(t) # "void" /\ KindOf(t) \in Prims \cup {"object"} /\ t # Void
  BY LayoutFacts, PrimsAre, TypeFacts
<1>2. ToJvalue(value) = [value |-> value, bytes |-> Bytes[KindOf(t)]]
  BY <1>1 DEF ToJvalue
<1>3. /\ Bytes[KindOf(t)] \in Nat /\ ValueLayout(t)[2] \in Nat
      /\ Bytes[KindOf(t)] <= ValueLayout(t)[2]
  BY <1>1, LayoutFacts, PrimsAre DEF Bytes
<1>4. Read(ToJvalue(value), t) = Parsed(value)
  BY <1>2, <1>3 DEF Read
<1>5. LoadReturn(ToJvalue(value), t) = Parsed(value)
  BY <1>1, <1>2, <1>3 DEF LoadReturn, Read
<1> QED
  BY <1>4, <1>5

\* A Rust value that is accepted as an argument or in a field stays what it is.
THEOREM ArgumentsAlwaysSurvive ==
  ASSUME NEW offered \in Givens, NEW t \in Types \cup {Void}
  PROVE  ArgumentSurvives(offered, t)
<1>1. CASE offered.shape = "string"
  <2>1. offered.value = Object(StringType)
    BY <1>1, GivenFacts
  <2>2. /\ CallArgument(offered, t) = IF AcceptsRustString(t) THEN Parsed(Object(StringType)) ELSE Failed
        /\ FieldArgument(offered, t) = CallArgument(offered, t)
    BY <1>1, <2>1 DEF CallArgument, PrepareCall, FieldArgument, PrepareField
  <2>3. ASSUME AcceptsRustString(t), t # Void
        PROVE  /\ Read(ToJvalue(Object(StringType)), t) = Parsed(Object(StringType))
               /\ Holds(Object(StringType), t)
    <3>1. t \in Types /\ IsReference(t) /\ KindOf(t) = "object"
      BY <2>3 DEF AcceptsRustString, StringType, CharSequenceType, JavaLangObject, ObjectType, IsReference, KindOf
    <3>2. Object(StringType).kind = "object"
      BY DEF Object
    <3> QED
      BY <3>1, <3>2, ReadBack, LimitsAre DEF Holds, Matches
  <2> QED
    BY <1>1, <2>1, <2>2, <2>3, Outcomes DEF ArgumentSurvives, SameValue
<1>2. CASE offered.shape # "string"
  <2>1. offered.value \in LimitedValues
    BY <1>2, GivenFacts
  <2>2. CallArgument(offered, t) = Coerce(offered.value, t) /\ FieldArgument(offered, t) = Coerce(offered.value, t)
    BY <1>2 DEF CallArgument, ViewArgument, Rust, PrepareCall, CoerceCall, FieldArgument, PrepareField, CoerceField
  <2>3. ASSUME Coerce(offered.value, t).ok, t # Void
        PROVE  /\ Read(ToJvalue(Coerce(offered.value, t).value), t) = Coerce(offered.value, t)
               /\ Holds(Coerce(offered.value, t).value, t)
               /\ SameValue(offered.value, Coerce(offered.value, t).value)
    BY <2>1, <2>3, CoercionKeeps, ReadBack
  <2> QED
    BY <2>1, <2>2, <2>3, LiteralsAreAccepted DEF ArgumentSurvives
<1> QED
  BY <1>1, <1>2

\* what a callback returns is a token as it is, or coerced
LEMMA HookReturnIs ==
  ASSUME NEW offered \in Givens, NEW t \in Types \cup {Void}
  PROVE  /\ offered.shape = "token" => HookReturn(offered, t) = TokenReturn(offered.value, t)
         /\ offered.shape \in {"value", "view", "wrapper", "optional"} =>
              HookReturn(offered, t) = Coerce(offered.value, t)
         /\ offered.shape = "string" =>
              HookReturn(offered, t) = IF AcceptsRustString(t) THEN Parsed(offered.value) ELSE Failed
<1>1. CASE offered.shape = "string"
  <2>1. offered.value = Object(StringType) /\ offered.value.kind = "object" /\ offered.value.class # Null
    BY <1>1, GivenFacts DEF Object, StringType, ObjectType, Null
  <2>2. AcceptsRustString(t) => Matches(offered.value, t)
    BY <2>1 DEF AcceptsRustString, StringType, CharSequenceType, JavaLangObject, ObjectType, Matches, IsReference
  <2>3. AcceptsRustString(t) => Coerce(offered.value, t) = Parsed(offered.value)
    BY <2>2, CoerceMatching
  <2> QED
    BY <1>1, <2>1, <2>3 DEF HookReturn, StringReturn, NewStringReturn, CoercedReturn, CoerceReturn
<1>2. CASE offered.shape = "optional"
  <2>1. offered.value.class = Null
    BY <1>2, GivenFacts DEF Object
  <2> QED
    BY <1>2, <2>1 DEF HookReturn, StringReturn, CoercedReturn, CoerceReturn
<1>3. CASE offered.shape \in {"value", "view", "wrapper"}
  BY <1>3 DEF HookReturn, WrapperReturn, NewReferenceReturn, PrimitiveReturn, CoercedReturn, CoerceReturn
<1>4. CASE offered.shape = "token"
  BY <1>4 DEF HookReturn
<1> QED
  BY <1>1, <1>2, <1>3, <1>4, GivenFacts

\* what a callback may return is of the declared type, and the same
LEMMA ReturnKeeps ==
  ASSUME NEW offered \in Givens, NEW t \in Types \cup {Void}, HookReturn(offered, t).ok
  PROVE  LET value == HookReturn(offered, t).value IN
         /\ SameValue(offered.value, value)
         /\ Matches(value, t) => Holds(value, t)
         /\ value.kind = "void" => value = VoidValue
         /\ t # Void => value.kind = KindOf(t)
<1>1. CASE offered.shape = "token"
  <2>1. /\ HookReturn(offered, t).value = offered.value /\ offered.value \in LimitedValues
        /\ t # Void => offered.value.kind = KindOf(t)
    BY <1>1, HookReturnIs, GivenFacts, Outcomes DEF TokenReturn
  <2> QED
    BY <2>1, RustValueFacts DEF SameValue, Holds
<1>2. CASE offered.shape \in {"value", "view", "wrapper", "optional"}
  <2>1. HookReturn(offered, t) = Coerce(offered.value, t) /\ offered.value \in LimitedValues
    BY <1>2, HookReturnIs, GivenFacts
  <2>2. /\ Holds(Coerce(offered.value, t).value, t)
        /\ SameValue(offered.value, Coerce(offered.value, t).value)
        /\ Coerce(offered.value, t).value.kind = KindOf(t)
    BY <2>1, CoercionKeeps
  <2>3. ASSUME Coerce(offered.value, t).value.kind = "void" PROVE Coerce(offered.value, t).value = VoidValue
    <3>1. t = Void
      BY <2>2, <2>3, LayoutFacts, PrimsAre
    <3>2. Coerce(offered.value, Void) = Failed \/ Matches(offered.value, Void)
      BY <3>1, CoerceIs, VoidFacts, LimitsAre DEF Prim
    <3>3. Matches(offered.value, Void)
      BY <2>1, <3>1, <3>2, Outcomes
    <3>4. offered.value.kind = "void"
      BY <3>3, VoidFacts DEF Matches
    <3> QED
      BY <2>1, <3>1, <3>3, <3>4, CoerceMatching, RustValueFacts, Outcomes
  <2> QED
    BY <2>1, <2>2, <2>3
<1>3. CASE offered.shape = "string"
  <2>1. AcceptsRustString(t) /\ HookReturn(offered, t).value = Object(StringType) /\ offered.value = Object(StringType)
    BY <1>3, HookReturnIs, GivenFacts, Outcomes
  <2>2. Object(StringType).kind = "object"
    BY DEF Object
  <2>3. KindOf(t) = "object"
    BY <2>1 DEF AcceptsRustString, StringType, CharSequenceType, JavaLangObject, ObjectType, IsReference, KindOf
  <2> QED
    BY <2>1, <2>2, <2>3, LimitsAre DEF SameValue, Holds
<1> QED
  BY <1>1, <1>2, <1>3, GivenFacts

\* a constructor's callback returns nothing
LEMMA ConstructorsReturnNothing ==
  ASSUME NEW offered \in Givens
  PROVE  ConstructorReturn(offered).ok <=> offered.value = VoidValue
<1>1. ASSUME NEW value
      PROVE  IF value.kind = "void" THEN Coerce(value, Void) = Parsed(value)
             ELSE Coerce(value, Void) = Failed
  <2>1. Matches(value, Void) <=> value.kind = "void"
    BY VoidFacts DEF Matches
  <2>2. Void # Prim("long") /\ Void # Prim("double") /\ Void # Prim("float") /\ Void.base \notin DOMAIN Limits
    BY VoidFacts, LimitsAre DEF Prim
  <2> QED
    BY <2>1, <2>2, CoerceMatching, CoerceIs
<1>2. CASE offered.shape = "string"
  <2>1. ~AcceptsRustString(Void)
    BY VoidFacts DEF AcceptsRustString, StringType, CharSequenceType, JavaLangObject, ObjectType
  <2>2. offered.value # VoidValue
    BY <1>2, GivenFacts, VoidFacts DEF Object
  <2> QED
    BY <1>2, <2>1, <2>2, HookReturnIs, Outcomes DEF ConstructorReturn
<1>3. CASE offered.shape # "string"
  <2>1. offered.value \in LimitedValues
    BY <1>3, GivenFacts
  <2>2. HookReturn(offered, Void) = IF offered.value.kind = "void" THEN Parsed(offered.value) ELSE Failed
    <3>1. CASE offered.shape = "token"
      BY <3>1, HookReturnIs DEF TokenReturn
    <3>2. CASE offered.shape \in {"value", "view", "wrapper", "optional"}
      BY <1>1, <3>2, HookReturnIs
    <3> QED
      BY <1>3, <3>1, <3>2, GivenFacts
  <2>3. offered.value.kind = "void" <=> offered.value = VoidValue
    BY <2>1, RustValueFacts
  <2> QED
    BY <1>1, <2>2, <2>3, Outcomes DEF ConstructorReturn, CoercedReturn, CoerceReturn
<1> QED
  BY <1>2, <1>3

\* What a callback returns and Java accepts stays what it is.
THEOREM ReturnsAlwaysSurvive ==
  ASSUME NEW offered \in Givens, NEW t \in Types \cup {Void}
  PROVE  ReturnSurvives(offered, t)
<1> DEFINE value == HookReturn(offered, t).value
<1>1. ASSUME ReturnedToJava(offered, t).ok
      PROVE  /\ Holds(ReturnedToJava(offered, t).value, t)
             /\ SameValue(offered.value, ReturnedToJava(offered, t).value)
  <2>1. /\ MethodReturn(offered, t).ok /\ MethodReturn(offered, t) = HookReturn(offered, t)
        /\ Matches(value, t)
        /\ ReturnedToJava(offered, t) = LoadReturn(ToJvalue(value), t)
    BY <1>1, Outcomes DEF ReturnedToJava, MethodReturn, ReturnMatches, ReturnJvalue
  <2>2. /\ SameValue(offered.value, value) /\ Holds(value, t)
        /\ value.kind = "void" => value = VoidValue
        /\ t # Void => value.kind = KindOf(t)
    BY <2>1, ReturnKeeps
  <2>3. CASE t = Void
    <3>1. value = VoidValue
      BY <2>1, <2>2, <2>3, VoidFacts DEF Matches
    <3> QED
      BY <2>1, <2>2, <2>3, <3>1, Outcomes DEF LoadReturn
  <2>4. CASE t # Void
    BY <2>1, <2>2, <2>4, ReadBack, Outcomes
  <2> QED
    BY <2>3, <2>4
<1>2. ASSUME offered.shape = "value", Literal(offered.value, t)
      PROVE  ReturnedToJava(offered, t).ok
  <2>1. offered.value \in LimitedValues /\ HookReturn(offered, t) = Coerce(offered.value, t)
    BY <1>2, GivenFacts, HookReturnIs
  <2>2. HookReturn(offered, t).ok /\ ~IsReference(t) /\ t # Void
    BY <1>2, <2>1, LiteralsAreAccepted
  <2>3. Matches(value, t) /\ value.kind = KindOf(t)
    BY <2>1, <2>2, CoercionKeeps DEF Holds
  <2>4. MethodReturn(offered, t) = HookReturn(offered, t)
    BY <2>2 DEF MethodReturn, ReferenceReturnClass, ValidReference
  <2>5. ReturnedToJava(offered, t) = LoadReturn(ToJvalue(value), t)
    BY <2>2, <2>3, <2>4 DEF ReturnedToJava, ReturnMatches, ReturnJvalue
  <2> QED
    BY <2>2, <2>3, <2>5, ReadBack, Outcomes
<1> QED
  BY <1>1, <1>2, ConstructorsReturnNothing DEF ReturnSurvives

\* The same arguments are prepared alike, in whatever they are given.
THEOREM ContainersAlwaysAgree ==
  ASSUME NEW arguments \in Seq(Givens), NEW types \in Seq(Types \cup {Void})
  PROVE  ContainersAgree(arguments, types)
<1>1. arguments = <<>> => NoArguments(types) = PreparedArguments(arguments, types)
  <2> SUFFICES ASSUME arguments = <<>>
               PROVE  NoArguments(types) = PreparedArguments(arguments, types)
    OBVIOUS
  <2>1. CASE types = <<>>
    <3>1. Len(arguments) = Len(types) /\ DOMAIN types = {}
      BY <2>1
    <3>2. PreparedArguments(arguments, types) = Parsed([i \in DOMAIN types |-> CallArgument(arguments[i], types[i]).value])
      BY <3>1 DEF PreparedArguments
    <3>3. [i \in DOMAIN types |-> CallArgument(arguments[i], types[i]).value] = <<>>
      BY <3>1
    <3> QED
      BY <2>1, <3>2, <3>3 DEF NoArguments
  <2>2. CASE types # <<>>
    <3>1. Len(arguments) # Len(types)
      BY <2>2
    <3> QED
      BY <2>2, <3>1 DEF NoArguments, PreparedArguments
  <2> QED
    BY <2>1, <2>2
<1>2. Len(arguments) = 1 => OneArgument(arguments[1], types) = PreparedArguments(arguments, types)
  <2> SUFFICES ASSUME Len(arguments) = 1
               PROVE  OneArgument(arguments[1], types) = PreparedArguments(arguments, types)
    OBVIOUS
  <2>1. CASE Len(types) = 1
    <3>1. DOMAIN types = {1}
      BY <2>1
    <3>2. [i \in DOMAIN types |-> CallArgument(arguments[i], types[i]).value] =
            <<CallArgument(arguments[1], types[1]).value>>
      BY <3>1
    <3>3. PreparedArguments(arguments, types) =
            IF CallArgument(arguments[1], types[1]).ok
            THEN Parsed([i \in DOMAIN types |-> CallArgument(arguments[i], types[i]).value]) ELSE Failed
      BY <2>1, <3>1 DEF PreparedArguments
    <3> QED
      BY <2>1, <3>2, <3>3 DEF OneArgument
  <2>2. CASE Len(types) # 1
    BY <2>2 DEF OneArgument, PreparedArguments
  <2> QED
    BY <2>1, <2>2
<1>3. TupleArguments(arguments, types) = PreparedArguments(arguments, types)
  BY DEF TupleArguments, PreparedArguments
<1>4. PreparedArguments([i \in DOMAIN arguments |-> OverloadArgument(arguments[i])], types)
        = PreparedArguments(arguments, types)
  <2> DEFINE overloaded == [i \in DOMAIN arguments |-> OverloadArgument(arguments[i])]
  <2>1. Len(overloaded) = Len(arguments) /\ DOMAIN overloaded = 1 .. Len(arguments)
    OBVIOUS
  <2>2. ASSUME NEW argument, NEW t PROVE CallArgument(OverloadArgument(argument), t) = CallArgument(argument, t)
    BY DEF CallArgument, OverloadArgument, ViewArgument, Rust
  <2>3. CASE Len(arguments) # Len(types)
    BY <2>1, <2>3 DEF PreparedArguments
  <2>4. CASE Len(arguments) = Len(types)
    <3>1. DOMAIN types = 1 .. Len(arguments) /\ DOMAIN arguments = 1 .. Len(arguments)
      BY <2>4
    <3>2. \A i \in DOMAIN types : CallArgument(overloaded[i], types[i]) = CallArgument(arguments[i], types[i])
      BY <2>2, <3>1
    <3> HIDE DEF overloaded
    <3>3. PreparedArguments(overloaded, types) = PreparedArguments(arguments, types)
      BY <2>1, <2>4, <3>2 DEF PreparedArguments
    <3> QED
      BY <3>3 DEF overloaded
  <2> QED
    BY <2>3, <2>4
<1> QED
  BY <1>1, <1>2, <1>3, <1>4 DEF ContainersAgree

-----------------------------------------------------------------------------
(* The run: what it draws are inputs that the theorems are about.           *)
InputsAreDrawn == of \in Machines \cup {"inputs"} \/ (of \in Sampled /\ input \in Inputs(of))

LEMMA DrawnInputs == BridgeSpec => []InputsAreDrawn
<1>1. BridgeInit => InputsAreDrawn
  BY DEF BridgeInit, InputsAreDrawn
<1>2. InputsAreDrawn /\ [BridgeNext]_bridgeVars => InputsAreDrawn'
  <2> SUFFICES ASSUME InputsAreDrawn, [BridgeNext]_bridgeVars PROVE InputsAreDrawn'
    OBVIOUS
  <2>1. CASE of' = of /\ input' = input
    BY <2>1, Zenon DEF InputsAreDrawn
  <2>2. CASE Draw
    BY <2>2, Zenon DEF Draw, InputsAreDrawn
  <2>3. CASE PutBack
    BY <2>3 DEF PutBack, InputsAreDrawn
  <2> QED
    BY <2>1, <2>2, <2>3 DEF BridgeNext, bridgeVars
<1> QED
  BY <1>1, <1>2, PTL DEF BridgeSpec

LEMMA PartsDiffer == 
  ASSUME InputsAreDrawn, NEW part \in Sampled, of = part
  PROVE input \in Inputs(part)
BY Zenon DEF InputsAreDrawn, Sampled, Machines

LEMMA ReferenceTypesAre == ReferenceTypes \subseteq Types /\ \A t \in ReferenceTypes : IsReference(t)
<1>1. ASSUME NEW name \in Seq(Characters), NEW dims \in Nat
      PROVE  [base |-> "object", name |-> name, dims |-> dims] \in Types
  BY DEF Types
<1>2. ASSUME NEW t \in {StringType, CharSequenceType, JavaLangObject, App, ArrayOf(App), ArrayOf(JavaLangObject)}
      PROVE  t \in Types /\ t.base = "object"
  <2>1. /\ <<"java", "/", "lang", "/", "String">> \in Seq(Characters)
        /\ <<"java", "/", "lang", "/", "CharSequence">> \in Seq(Characters)
        /\ <<"java", "/", "lang", "/", "Object">> \in Seq(Characters)
        /\ <<"App">> \in Seq(Characters)
    <3>1. {"java", "/", "lang", "String", "CharSequence", "Object", "App"} \subseteq Characters
      BY DEF Characters
    <3>2. ASSUME NEW S, NEW a \in S, NEW b \in S, NEW c \in S, NEW d \in S, NEW e \in S
          PROVE  <<a, b, c, d, e>> \in Seq(S) /\ <<a>> \in Seq(S)
      OBVIOUS
    <3> QED
      BY <3>1, <3>2
  <2>2. PICK name \in Seq(Characters), dims \in Nat : t = [base |-> "object", name |-> name, dims |-> dims]
    <3>1. CASE t \in {StringType, CharSequenceType, JavaLangObject, App}
      BY <2>1, <3>1 DEF StringType, CharSequenceType, JavaLangObject, App, ObjectType
    <3>2. CASE t \in {ArrayOf(App), ArrayOf(JavaLangObject)}
      <4>1. ASSUME NEW name PROVE ArrayOf(ObjectType(name)) = [base |-> "object", name |-> name, dims |-> 1]
        BY DEF ArrayOf, ObjectType
      <4> QED
        BY <2>1, <3>2, <4>1 DEF JavaLangObject, App
    <3> QED
      BY <1>2, <3>1, <3>2
  <2> QED
    BY <1>1, <2>2
<1>3. ArrayOf(Prim("int")) \in Types /\ IsReference(ArrayOf(Prim("int")))
  BY PrimsAre DEF Types, ArrayOf, Prim, IsReference
<1> QED
  BY <1>2, <1>3 DEF ReferenceTypes, IsReference

LEMMA DeclaredTypesAre == DeclaredTypes \subseteq Types
BY ReferenceTypesAre DEF Types, DeclaredTypes, Prim

LEMMA NumbersAre == \A k \in Prims : \A v \in Numbers[k] : v \in Int /\ (k \in DOMAIN Limits => InLimits(k, v))
BY PrimsAre DEF Numbers, Limits, InLimits, Half, Third, ThirdF, Huge, Infinity, NaN

LEMMA SomeValuesAre == SomeValues \subseteq LimitedValues \cap Values
<1>1. ASSUME NEW k \in Prims, NEW v \in Numbers[k] PROVE Value(k, v) \in LimitedValues \cap Values
  <2>1. Value(k, v) \in Values
    BY NumbersAre DEF Values
  <2>2. Value(k, v).kind = k /\ Value(k, v).v = v
    BY DEF Value
  <2> QED
    BY <2>1, <2>2, NumbersAre DEF LimitedValues
<1>2. ASSUME NEW c \in ObjectClasses PROVE Object(c) \in LimitedValues \cap Values
  <2>1. c \in Types \cup {Null}
    BY ReferenceTypesAre DEF ObjectClasses
  <2>2. Object(c) \in Values
    BY <2>1 DEF Values
  <2>3. Object(c).kind = "object"
    BY DEF Object
  <2> QED
    BY <2>2, <2>3, LimitsAre DEF LimitedValues
<1>3. ASSUME NEW value \in SomeValues
      PROVE  (\E k \in Prims : \E v \in Numbers[k] : value = Value(k, v)) \/ \E c \in ObjectClasses : value = Object(c)
  <2>1. CASE value \in UNION {{Value(k, v) : v \in Numbers[k]} : k \in Prims}
    BY <2>1
  <2>2. CASE value \in {Object(c) : c \in ObjectClasses}
    BY <2>2
  <2> QED
    BY <2>1, <2>2 DEF SomeValues
<1> QED
  BY <1>1, <1>2, <1>3

LEMMA RustValuesAre ==
  RustValues \cup {RustString, Rust("optional", Object(Null))} \subseteq Givens
<1>1. ASSUME NEW shape \in {"value", "token"}, NEW v \in SomeValues \cup {VoidValue}
      PROVE  Rust(shape, v) \in Givens
  <2>1. v \in LimitedValues
    BY SomeValuesAre DEF LimitedValues
  <2> QED
    BY <2>1 DEF Givens
<1>2. ASSUME NEW shape \in {"view", "wrapper"}, NEW c \in ObjectClasses
      PROVE  Rust(shape, Object(c)) \in Givens
  <2>1. c \in Types \cup {Null}
    BY ReferenceTypesAre DEF ObjectClasses
  <2> QED
    BY <2>1 DEF Givens
<1> QED
  BY <1>1, <1>2 DEF RustValues, Givens

(* Whatever is sampled of Rust's values and of declared types, a number or  *)
(* object that crosses to Java or back stays what it is, or is refused.    *)
THEOREM ValuesAlwaysSurvive == BridgeSpec => []ValuesSurvive
<1>1. ASSUME InputsAreDrawn, of = "value"
      PROVE  /\ ArgumentSurvives(input.given, input.type)
             /\ ReturnSurvives(input.given, input.type)
             /\ ContainersAgree(<<input.given>>, <<input.type>>)
             /\ ContainersAgree(<<>>, <<input.type>>)
  <2>1. input \in ValueInputs
    <3>1. input \in Inputs("value")
      BY <1>1, PartsDiffer DEF Sampled
    <3> QED
      BY <3>1 DEF Inputs
  <2>2. input.given \in Givens /\ input.type \in Types \cup {Void}
    BY <2>1, RustValuesAre, DeclaredTypesAre DEF ValueInputs
  <2>3. <<input.given>> \in Seq(Givens) /\ <<>> \in Seq(Givens) /\ <<input.type>> \in Seq(Types \cup {Void})
    BY <2>2
  <2> QED
    BY <2>2, <2>3, ArgumentsAlwaysSurvive, ReturnsAlwaysSurvive, ContainersAlwaysAgree
<1>2. ASSUME InputsAreDrawn, of = "taken" PROVE TakenAsDeclared(input.value, input.type)
  <2>1. input \in TakenInputs
    <3>1. input \in Inputs("taken")
      BY <1>2, PartsDiffer DEF Sampled
    <3> QED
      BY <3>1 DEF Inputs
  <2>2. input.type \in Types /\ Passable(input.value, input.type)
    BY <2>1, SomeValuesAre, DeclaredTypesAre DEF TakenInputs, Passable
  <2> QED
    BY <2>2, TakenIsAsDeclared
<1>3. InputsAreDrawn => ValuesSurvive
  BY <1>1, <1>2 DEF ValuesSurvive
<1> QED
  BY <1>3, DrawnInputs, PTL

LEMMA ParameterInputsAre ==
  ASSUME NEW types \in ParameterInputs
  PROVE  /\ types \in Seq(Types)
         /\ Passed(types) \in Seq(Values) /\ Len(Passed(types)) = Len(types)
         /\ \A i \in 1 .. Len(types) : Passable(Passed(types)[i], types[i])
<1>1. ParameterTypes \subseteq Types
  BY ReferenceTypesAre DEF ParameterTypes, ReferenceTypes, Types, Prim, Prims, Words, Letters
<1>2. PICK n \in 1 .. 20 : types \in [1 .. n -> ParameterTypes]
  BY DEF ParameterInputs
<1>3. types \in Seq(ParameterTypes) /\ types \in Seq(Types) /\ Len(types) = n /\ DOMAIN types = 1 .. n
  BY <1>1, <1>2
<1>4. ASSUME NEW i \in 1 .. n
      PROVE  Passed(types)[i] \in Values /\ Passable(Passed(types)[i], types[i])
  <2>1. types[i] \in Types /\ types[i] \in ParameterTypes
    BY <1>1, <1>2
  <2>2. Passed(types)[i] = IF IsReference(types[i]) THEN Object(IF i % 3 = 0 THEN Null ELSE App)
                           ELSE Value(KindOf(types[i]), IF types[i] = Prim("int") THEN i ELSE 1)
    BY <1>3 DEF Passed
  <2>3. CASE IsReference(types[i])
    <3>1. types[i] = App
      BY <2>1, <2>3 DEF ParameterTypes, IsReference, Prim
    <3>2. PICK c \in {Null, App} : Passed(types)[i] = Object(c)
      BY <2>2, <2>3
    <3>3. Object(c) \in Values
      BY ReferenceTypesAre DEF Values, ReferenceTypes
    <3>4. Object(c).kind = "object" /\ Object(c).class = c
      BY DEF Object
    <3>5. Subtype(App, App)
      <4>1. App.dims = 0
        BY DEF App, ObjectType
      <4> QED
        BY <4>1 DEF Subtype, App, ObjectType
    <3> QED
      BY <2>3, <3>1, <3>2, <3>3, <3>4, <3>5 DEF Passable, Matches
  <2>4. CASE ~IsReference(types[i])
    <3>1. PICK v \in Int : Passed(types)[i] = Value(types[i].base, v)
      BY <2>2, <2>4 DEF KindOf
    <3>2. types[i].base \in Prims /\ types[i] = Prim(types[i].base)
      BY <2>1, <2>4, TypeFacts
    <3>3. types[i].dims = 0 /\ types[i].base # "object"
      BY <2>4, <3>2, PrimsAre DEF Prim
    <3>4. Value(types[i].base, v) \in Values /\ Value(types[i].base, v).kind = types[i].base
      BY <3>2 DEF Values, Value
    <3> QED
      BY <2>4, <3>1, <3>3, <3>4 DEF Passable, Matches
  <2> QED
    BY <2>3, <2>4
<1>5. Passed(types) = [i \in 1 .. n |-> Passed(types)[i]]
  BY <1>3 DEF Passed
<1>6. Passed(types) \in [1 .. n -> Values]
  BY <1>4, <1>5
<1> QED
  BY <1>3, <1>4, <1>6

(* A callback finds each argument of a sampled parameter list where the    *)
(* thunk left it, in a register, on the stack or in the frame.             *)
THEOREM CallbacksAlwaysGetTheirArguments == BridgeSpec => []CallbacksGetTheirArguments
<1>1. ASSUME InputsAreDrawn, of = "parameters" PROVE ArgumentsArrive(input, Passed(input))
  <2>1. input \in ParameterInputs
    <3>1. input \in Inputs("parameters")
      BY <1>1, PartsDiffer DEF Sampled
    <3> QED
      BY <3>1 DEF Inputs
  <2> QED
    BY <2>1, ParameterInputsAre, ArgumentsAlwaysArrive
<1>2. InputsAreDrawn => CallbacksGetTheirArguments
  BY <1>1 DEF CallbacksGetTheirArguments
<1> QED
  BY <1>2, DrawnInputs, PTL

-----------------------------------------------------------------------------
(* Arrays.                                                                  *)
-----------------------------------------------------------------------------
(* Types.                                                                  *)
LEMMA NamedTypes ==
  /\ StringType.base = "object" /\ StringType.dims = 0
  /\ CharSequenceType.base = "object" /\ CharSequenceType.dims = 0
  /\ JavaLangObject.base = "object" /\ JavaLangObject.dims = 0
  /\ {StringType, CharSequenceType, JavaLangObject} \subseteq Types
<1>1. \A name : ObjectType(name).base = "object" /\ ObjectType(name).dims = 0
  BY DEF ObjectType
<1>2. {StringType, CharSequenceType, JavaLangObject} \subseteq Types
  BY ReferenceTypesAre DEF ReferenceTypes
<1> QED
  BY <1>1, <1>2 DEF StringType, CharSequenceType, JavaLangObject

\* the names of what is extended
NamesExtend(m, n) ==
  \/ m = StringType.name /\ n = CharSequenceType.name
  \/ m = App.name /\ n \in {Parent.name, Ancestor.name}
  \/ m = Parent.name /\ n = Ancestor.name

LEMMA NamesDiffer ==
  /\ \A k, l, m : NamesExtend(k, l) /\ NamesExtend(l, m) => NamesExtend(k, m)
  /\ \A m, n : NamesExtend(m, n) => m # JavaLangObject.name /\ n # JavaLangObject.name
  /\ \A n : NamesExtend(StringType.name, n) => n = CharSequenceType.name
  /\ \A n : ~NamesExtend(CharSequenceType.name, n)
<1>1. ASSUME NEW a, NEW b, a # b
      PROVE  /\ <<"java", "/", "lang", "/", a>> # <<"java", "/", "lang", "/", b>>
             /\ <<a>> # <<b>>
  <2>1. <<"java", "/", "lang", "/", a>>[5] # <<"java", "/", "lang", "/", b>>[5] /\ <<a>>[1] # <<b>>[1]
    BY <1>1
  <2> QED
    BY <2>1, Zenon
<1>2. ASSUME NEW a, NEW b PROVE <<"java", "/", "lang", "/", a>> # <<b>>
  <2>1. Len(<<"java", "/", "lang", "/", a>>) # Len(<<b>>)
    OBVIOUS
  <2> QED
    BY <2>1, Zenon
<1>3. \A name : ObjectType(name).name = name
  BY DEF ObjectType
<1>4. /\ StringType.name = <<"java", "/", "lang", "/", "String">>
      /\ CharSequenceType.name = <<"java", "/", "lang", "/", "CharSequence">>
      /\ JavaLangObject.name = <<"java", "/", "lang", "/", "Object">>
      /\ App.name = <<"App">> /\ Parent.name = <<"Parent">> /\ Ancestor.name = <<"Ancestor">>
  BY <1>3, Zenon DEF StringType, CharSequenceType, JavaLangObject, App, Parent, Ancestor
<1>5. /\ "String" # "CharSequence" /\ "String" # "Object" /\ "CharSequence" # "Object"
      /\ "App" # "Parent" /\ "App" # "Ancestor" /\ "Parent" # "Ancestor"
  OBVIOUS
<1>6. /\ StringType.name # CharSequenceType.name /\ StringType.name # JavaLangObject.name
      /\ CharSequenceType.name # JavaLangObject.name
  BY <1>1, <1>4, <1>5
<1>7. /\ App.name # Parent.name /\ App.name # Ancestor.name /\ Parent.name # Ancestor.name
  BY <1>1, <1>4, <1>5
<1>8. \A n \in {App.name, Parent.name, Ancestor.name} :
        n # StringType.name /\ n # CharSequenceType.name /\ n # JavaLangObject.name
  BY <1>2, <1>4
<1> QED
  BY <1>6, <1>7, <1>8 DEF NamesExtend

LEMMA TypeIs ==
  ASSUME NEW t \in Types
  PROVE  /\ t = [base |-> t.base, name |-> t.name, dims |-> t.dims]
         /\ t.base \in Prims \cup {"object"} /\ t.dims \in Nat
         /\ IsReference(t) <=> t.dims > 0 \/ t.base = "object"
         /\ \A u \in Types : t = u <=> t.base = u.base /\ t.name = u.name /\ t.dims = u.dims
         /\ \A n \in Nat : [t EXCEPT !.dims = n] \in Types
BY DEF Types, IsReference

\* what an instance is one of
LEMMA SubtypeIs ==
  ASSUME NEW c \in Types, NEW t \in Types
  PROVE  Subtype(c, t) <=>
           \/ c = t
           \/ /\ t.base = "object" /\ t.name = JavaLangObject.name
              /\ t.dims < c.dims \/ (t.dims = c.dims /\ c.base = "object")
           \/ /\ c.base = "object" /\ t.base = "object" /\ c.dims = t.dims
              /\ NamesExtend(c.name, t.name)
<1> DEFINE
      FromPart(k) == [base |-> c.base, name |-> c.name, dims |-> c.dims - k]
      ToPart(k) == [base |-> t.base, name |-> t.name, dims |-> t.dims - k]
      Within(k) == /\ k <= t.dims
                   /\ k > 0 => IsReference(FromPart(k)) /\ IsReference(ToPart(k))
                   /\ \/ FromPart(k) = ToPart(k)
                      \/ ToPart(k) = JavaLangObject /\ IsReference(FromPart(k))
                      \/ <<FromPart(k), ToPart(k)>> \in Extends
<1>1. c.dims \in Nat /\ t.dims \in Nat
  BY TypeIs
<1>2. Subtype(c, t) <=> \E k \in 0 .. c.dims : Within(k)
  <2>1. \A k : [c EXCEPT !.dims = @ - k] = FromPart(k) /\ [t EXCEPT !.dims = @ - k] = ToPart(k)
    BY DEF Types
  <2> DEFINE Via(k, from, to) ==
               /\ k <= t.dims
               /\ k > 0 => IsReference(from) /\ IsReference(to)
               /\ \/ from = to
                  \/ to = JavaLangObject /\ IsReference(from)
                  \/ <<from, to>> \in Extends
  <2>2. Subtype(c, t) <=> \E k \in 0 .. c.dims : Via(k, [c EXCEPT !.dims = @ - k], [t EXCEPT !.dims = @ - k])
    BY DEF Subtype
  <2>3. \A k : Via(k, [c EXCEPT !.dims = @ - k], [t EXCEPT !.dims = @ - k]) <=> Within(k)
    <3> HIDE DEF FromPart, ToPart, Via
    <3>1. \A k : Via(k, [c EXCEPT !.dims = @ - k], [t EXCEPT !.dims = @ - k]) <=> Via(k, FromPart(k), ToPart(k))
      BY <2>1, Zenon
    <3> QED
      BY <3>1 DEF Via
  <2> HIDE DEF Via, Within
  <2> QED
    BY <2>2, <2>3
<1>3. ASSUME NEW k \in 0 .. c.dims
      PROVE  /\ FromPart(k) = ToPart(k) <=> c = t
             /\ ToPart(k) = JavaLangObject <=> t.base = "object" /\ t.name = JavaLangObject.name /\ t.dims = k
             /\ <<FromPart(k), ToPart(k)>> \in Extends
                  <=> /\ c.base = "object" /\ t.base = "object" /\ c.dims = k /\ t.dims = k
                      /\ NamesExtend(c.name, t.name)
             /\ IsReference(FromPart(k)) <=> c.dims > k \/ c.base = "object"
             /\ IsReference(ToPart(k)) <=> t.dims > k \/ t.base = "object"
  <2>1. ASSUME NEW u \in {StringType, CharSequenceType, App, Parent, Ancestor}
        PROVE  /\ FromPart(k) = u <=> c.base = "object" /\ c.name = u.name /\ c.dims = k
               /\ ToPart(k) = u <=> t.base = "object" /\ t.name = u.name /\ t.dims = k
    <3>1. PICK name : u = ObjectType(name)
      BY DEF StringType, CharSequenceType, App, Parent, Ancestor
    <3> QED
      BY <1>1, <3>1, TypeIs DEF ObjectType
  <2>2. <<FromPart(k), ToPart(k)>> \in Extends
          <=> /\ c.base = "object" /\ t.base = "object" /\ c.dims = k /\ t.dims = k
              /\ NamesExtend(c.name, t.name)
    <3> HIDE DEF FromPart, ToPart
    <3> QED
      BY <2>1 DEF Extends, NamesExtend
  <2> QED
    BY <1>1, <2>2, TypeIs, NamedTypes DEF IsReference
<1> HIDE DEF FromPart, ToPart
<1>4. ASSUME NEW k \in 0 .. c.dims, Within(k)
      PROVE  \/ c = t
             \/ /\ t.base = "object" /\ t.name = JavaLangObject.name
                /\ t.dims < c.dims \/ (t.dims = c.dims /\ c.base = "object")
             \/ /\ c.base = "object" /\ t.base = "object" /\ c.dims = t.dims
                /\ NamesExtend(c.name, t.name)
  BY <1>1, <1>3, <1>4
<1>5. c = t => Within(0)
  BY <1>1, <1>3
<1>6. ASSUME t.base = "object", t.name = JavaLangObject.name,
             t.dims < c.dims \/ (t.dims = c.dims /\ c.base = "object")
      PROVE  t.dims \in 0 .. c.dims /\ Within(t.dims)
  BY <1>1, <1>3, <1>6
<1>7. ASSUME c.base = "object", t.base = "object", c.dims = t.dims, NamesExtend(c.name, t.name)
      PROVE  t.dims \in 0 .. c.dims /\ Within(t.dims)
  BY <1>1, <1>3, <1>7
<1>8. 0 \in 0 .. c.dims
  BY <1>1
<1> HIDE DEF Within
<1> QED
  BY <1>2, <1>4, <1>5, <1>6, <1>7, <1>8

\* an instance of a type is one of its supertypes, and so are the elements
LEMMA SubtypesChain ==
  ASSUME NEW a \in Types, NEW b \in Types, NEW c \in Types, Subtype(a, b), Subtype(b, c)
  PROVE  Subtype(a, c)
BY SubtypeIs, TypeIs, NamesDiffer

LEMMA ElementIs ==
  ASSUME NEW t \in Types, IsArray(t)
  PROVE  /\ Element(t) \in Types /\ ArrayOf(Element(t)) = t
         /\ Element(t).base = t.base /\ Element(t).name = t.name /\ Element(t).dims = t.dims - 1
<1>1. /\ t = [base |-> t.base, name |-> t.name, dims |-> t.dims]
      /\ t.dims \in Nat /\ t.dims - 1 \in Nat
  BY TypeIs DEF IsArray
<1>2. Element(t) = [base |-> t.base, name |-> t.name, dims |-> t.dims - 1]
  BY <1>1 DEF Element
<1>3. Element(t) \in Types
  <2>1. [t EXCEPT !.dims = t.dims - 1] \in Types
    BY <1>1, TypeIs
  <2> QED
    BY <2>1 DEF Element
<1> QED
  BY <1>1, <1>2, <1>3 DEF ArrayOf

LEMMA ElementsFollow ==
  ASSUME NEW a \in Types, NEW b \in Types, IsArray(a), IsArray(b), Subtype(a, b), IsReference(Element(b))
  PROVE  Subtype(Element(a), Element(b)) /\ IsReference(Element(a))
<1>1. /\ a.dims \in Nat /\ a.dims > 0 /\ b.dims \in Nat /\ b.dims > 0
  BY TypeIs DEF IsArray
<1> QED
  BY <1>1, ElementIs, SubtypeIs, TypeIs, NamesDiffer

LEMMA BootTypesUp ==
  ASSUME NEW a \in BootTypes, NEW b \in Types, Subtype(a, b)
  PROVE  b \in BootTypes
<1>1. a \in Types /\ a.dims = 0 /\ a.base = "object"
  BY NamedTypes DEF BootTypes
<1> QED
  BY <1>1, SubtypeIs, TypeIs, NamedTypes, NamesDiffer DEF BootTypes

LEMMA InstancesUp ==
  ASSUME NEW offered, offered.rust.value.class \in Types, NEW a \in Types, NEW b \in Types,
         Instance(offered, a), Subtype(a, b)
  PROVE  Instance(offered, b)
BY SubtypesChain, BootTypesUp DEF Instance

-----------------------------------------------------------------------------
(* Arrays.                                                                 *)
\* what is stored in an array, and arrays of what they may hold
Passables == [rust : Givens, foreign : BOOLEAN]
ArraysOf(T) == [class : {t \in Types : IsArray(t)}, elements : Seq(T)]

LEMMA ObjectsAre ==
  ASSUME NEW offered \in Passables, IsObject(offered)
  PROVE  offered.rust.value.class \in Types /\ offered.rust.value = Object(offered.rust.value.class)
<1>1. ASSUME NEW value \in LimitedValues, value.kind = "object"
      PROVE  value.class \in Types \cup {Null} /\ value = Object(value.class)
  <2>1. value # VoidValue
    BY <1>1 DEF VoidValue, Value
  <2>2. value \in Values
    BY <2>1 DEF LimitedValues
  <2>3. ~\E k \in Prims, v \in Int : value = Value(k, v)
    BY <1>1, PrimsAre DEF Value
  <2> QED
    BY <2>2, <2>3 DEF Values, Object
<1>2. offered.rust \in Givens /\ offered.rust.value.kind = "object" /\ offered.rust.value.class # Null
  BY DEF Passables, IsObject
<1>3. offered.rust.value \in LimitedValues \/ offered.rust.value = Object(StringType)
  BY <1>2, GivenFacts
<1>4. StringType \in Types /\ Object(StringType).class = StringType
  BY NamedTypes DEF Object
<1> QED
  BY <1>1, <1>2, <1>3, <1>4

LEMMA ElementIsSet ==
  ASSUME NEW T, NEW array \in ArraysOf(T), NEW index \in DOMAIN array.elements, NEW offered \in T
  PROVE  LET set == [array EXCEPT !.elements[index] = offered] IN
         /\ set \in ArraysOf(T) /\ set.class = array.class
         /\ DOMAIN set.elements = DOMAIN array.elements
         /\ set.elements[index] = offered
         /\ \A j \in DOMAIN array.elements \ {index} : set.elements[j] = array.elements[j]
<1> DEFINE elements == [array.elements EXCEPT ![index] = offered]
<1>1. /\ [array EXCEPT !.elements[index] = offered] = [class |-> array.class, elements |-> elements]
      /\ array.elements \in Seq(T) /\ array.class \in {t \in Types : IsArray(t)}
  BY DEF ArraysOf
<1>2. /\ elements \in Seq(T) /\ DOMAIN elements = DOMAIN array.elements
      /\ elements[index] = offered
      /\ \A j \in DOMAIN array.elements \ {index} : elements[j] = array.elements[j]
  BY <1>1
<1> HIDE DEF elements
<1> QED
  BY <1>1, <1>2 DEF ArraysOf

\* An array holds, and a wrapper yields, instances of its element type only,
\* whatever array type the wrapper was declared with.
THEOREM ArraysAlwaysKeepTheirType ==
  ASSUME NEW array \in ArraysOf(Passables), NEW declared \in Types, IsArray(declared),
         NEW index \in Nat, NEW offered \in Passables
  PROVE  ArraysKeepTheirType(array, declared, index, offered)
<1> DEFINE set == SetElement(array, Element(declared), index, offered)
           changed == [array EXCEPT !.elements[index] = offered]
<1>1. array.class \in Types /\ IsArray(array.class) /\ array.elements \in Seq(Passables)
  BY DEF ArraysOf
<1> SUFFICES ASSUME Subtype(array.class, declared), set.ok
             PROVE  /\ IsObject(offered) => Instance(offered, Element(array.class))
                    /\ GetElement(set.value, Element(declared), index, {}) = Parsed(offered)
                    /\ \A j \in DOMAIN array.elements \ {index} : set.value.elements[j] = array.elements[j]
  BY DEF ArraysKeepTheirType
<1>2. /\ IsReference(Element(declared)) /\ index \in DOMAIN array.elements
      /\ IsObject(offered) => Instance(offered, Element(array.class))
      /\ set = Parsed(changed)
  BY DEF SetElement, SetElementAt, Failed
<1>3. set.value = changed
  BY <1>2 DEF Parsed
<1>4. /\ DOMAIN changed.elements = DOMAIN array.elements /\ changed.elements[index] = offered
      /\ \A j \in DOMAIN array.elements \ {index} : changed.elements[j] = array.elements[j]
  BY <1>2, ElementIsSet
<1>5. IsObject(offered) => Instance(offered, Element(declared))
  <2> SUFFICES ASSUME IsObject(offered) PROVE Instance(offered, Element(declared))
    OBVIOUS
  <2>1. Subtype(Element(array.class), Element(declared))
    BY <1>1, <1>2, ElementsFollow
  <2>2. Element(array.class) \in Types /\ Element(declared) \in Types /\ offered.rust.value.class \in Types
    BY <1>1, ElementIs, ObjectsAre
  <2> QED
    BY <1>2, <2>1, <2>2, InstancesUp
<1>6. GetElementAt(changed, index) = Parsed(offered)
  BY <1>2, <1>4 DEF GetElementAt
<1>7. GetElement(changed, Element(declared), index, {}) = Parsed(offered)
  BY <1>2, <1>5, <1>6 DEF GetElement, Parsed
<1> QED
  BY <1>2, <1>3, <1>4, <1>7

\* what an element has to be, and the steps of an array's creation
FitsIn(offered, element) == IsObject(offered) => Instance(offered, element)
Nulls(element, elements) ==
  NewArray(ArrayOf(element), [i \in DOMAIN elements |-> Given(Rust("value", Object(Null)), FALSE)])
Put(so, i, elements) == AndThen(so, LAMBDA array : SetElementAt(array, i, elements[i]))
Puts(element, elements) == CHOOSE put : put = [i \in 0 .. Len(elements) |->
  IF i = 0 THEN Parsed(Nulls(element, elements)) ELSE Put(put[i - 1], i, elements)]

LEMMA NullsAre ==
  ASSUME NEW element \in Types, NEW elements \in Seq(Passables)
  PROVE  /\ Nulls(element, elements) \in ArraysOf(Passables)
         /\ Nulls(element, elements).class = ArrayOf(element)
         /\ DOMAIN Nulls(element, elements).elements = 1 .. Len(elements)
<1>1. ArrayOf(element) \in Types /\ IsArray(ArrayOf(element))
  <2>1. element.dims \in Nat /\ [element EXCEPT !.dims = element.dims + 1] \in Types
    BY TypeIs
  <2>2. [element EXCEPT !.dims = element.dims + 1].dims = element.dims + 1
    BY TypeIs
  <2> QED
    BY <2>1, <2>2 DEF ArrayOf, IsArray
<1>2. Given(Rust("value", Object(Null)), FALSE) \in Passables
  <2>1. Object(Null) \in Values
    <3>1. ASSUME NEW c \in Types \cup {Null} PROVE Object(c) \in Values
      BY DEF Values
    <3> QED
      BY <3>1
  <2>2. Object(Null) \in LimitedValues
    <3>1. Object(Null).kind = "object"
      BY DEF Object
    <3> QED
      BY <2>1, <3>1, LimitsAre DEF LimitedValues
  <2> QED
    BY <2>2 DEF Passables, Given, Givens
<1>3. /\ [i \in DOMAIN elements |-> Given(Rust("value", Object(Null)), FALSE)] \in Seq(Passables)
      /\ DOMAIN elements = 1 .. Len(elements)
  <2>1. ASSUME NEW P, NEW x \in P, NEW n \in Nat PROVE [i \in 1 .. n |-> x] \in Seq(P)
    OBVIOUS
  <2>2. Len(elements) \in Nat /\ DOMAIN elements = 1 .. Len(elements)
    OBVIOUS
  <2> QED
    BY <1>2, <2>1, <2>2
<1> QED
  BY <1>1, <1>3 DEF Nulls, NewArray, ArraysOf

LEMMA PutIs ==
  ASSUME NEW array \in ArraysOf(Passables), NEW elements \in Seq(Passables), NEW i \in 1 .. Len(elements),
         DOMAIN array.elements = 1 .. Len(elements)
  PROVE  Put(Parsed(array), i, elements) =
           IF FitsIn(elements[i], Element(array.class)) THEN Parsed([array EXCEPT !.elements[i] = elements[i]])
           ELSE Failed
BY DEF Put, AndThen, Parsed, SetElementAt, FitsIn

\* what is left of an array's creation after a step
Created == {Failed} \cup {Parsed(a) : a \in ArraysOf(Passables)}

LEMMA PutIsCreated ==
  ASSUME NEW x \in Created, NEW elements, NEW i \in Nat, elements[i] \in Passables
  PROVE  Put(x, i, elements) \in Created
<1>1. CASE x = Failed
  BY <1>1 DEF Put, AndThen, Failed, Created
<1>2. ASSUME NEW a \in ArraysOf(Passables), x = Parsed(a) PROVE Put(x, i, elements) \in Created
  <2>1. Put(x, i, elements) = SetElementAt(a, i, elements[i])
    BY <1>2 DEF Put, AndThen, Parsed
  <2>2. CASE i \in DOMAIN a.elements
    BY <2>1, <2>2, ElementIsSet DEF SetElementAt, Created
  <2>3. CASE i \notin DOMAIN a.elements
    BY <2>1, <2>3 DEF SetElementAt, Created
  <2> QED
    BY <2>2, <2>3
<1> QED
  BY <1>1, <1>2 DEF Created

LEMMA PutsAre ==
  ASSUME NEW element, NEW elements, Len(elements) \in Nat,
         Parsed(Nulls(element, elements)) \in Created,
         \A i \in 1 .. Len(elements) : elements[i] \in Passables
  PROVE  /\ Puts(element, elements)[0] = Parsed(Nulls(element, elements))
         /\ \A i \in 1 .. Len(elements) :
              Puts(element, elements)[i] = Put(Puts(element, elements)[i - 1], i, elements)
<1> DEFINE n == Len(elements)
           Adding == [i \in Nat |-> [x \in Created |-> IF i \in 1 .. n THEN Put(x, i, elements) ELSE Failed]]
           Body(put) == [i \in 0 .. n |->
             IF i = 0 THEN Parsed(Nulls(element, elements)) ELSE Put(put[i - 1], i, elements)]
<1>1. Recurs(Created, Parsed(Nulls(element, elements)), Adding)
  <2>1. Failed \in Created
    BY DEF Created
  <2>2. Adding \in [Nat -> [Created -> Created]]
    BY <2>1, PutIsCreated
  <2> HIDE DEF Adding
  <2> QED
    BY <2>2 DEF Recurs
<1>2. PICK f \in [Nat -> Created] :
        f[0] = Parsed(Nulls(element, elements)) /\ \A i \in Nat : f[i + 1] = Adding[i + 1][f[i]]
  <2> HIDE DEF Adding
  <2>1. PICK f : Solution(f, Created, Parsed(Nulls(element, elements)), Adding)
    BY <1>1, Recursion
  <2> QED
    BY <2>1 DEF Solution
<1>3. ASSUME NEW i \in 1 .. n PROVE f[i] = Put(f[i - 1], i, elements)
  <2>1. i - 1 \in Nat /\ (i - 1) + 1 = i /\ i \in Nat
    OBVIOUS
  <2>2. f[i] = Adding[i][f[i - 1]] /\ f[i - 1] \in Created
    BY <1>2, <2>1
  <2> QED
    BY <2>1, <2>2
<1> DEFINE g == [i \in 0 .. n |-> f[i]]
<1>4. g = Body(g)
  <2>1. ASSUME NEW i \in 0 .. n
        PROVE  f[i] = IF i = 0 THEN Parsed(Nulls(element, elements)) ELSE Put(g[i - 1], i, elements)
    <3>1. i # 0 => i \in 1 .. n /\ i - 1 \in 0 .. n
      OBVIOUS
    <3> QED
      BY <1>2, <1>3, <3>1
  <2> QED
    BY <2>1
<1>5. Puts(element, elements) = Body(Puts(element, elements))
  <2> HIDE DEF g
  <2> QED
    BY <1>4 DEF Puts
<1> QED
  BY <1>5, SMTT(60)

LEMMA ArrayOfIs ==
  ASSUME NEW element \in Types
  PROVE  ArrayOf(element) \in Types /\ IsArray(ArrayOf(element)) /\ Element(ArrayOf(element)) = element
<1>1. /\ element = [base |-> element.base, name |-> element.name, dims |-> element.dims]
      /\ element.dims \in Nat /\ [element EXCEPT !.dims = element.dims + 1] \in Types
  BY TypeIs
<1>2. ArrayOf(element) = [base |-> element.base, name |-> element.name, dims |-> element.dims + 1]
  BY <1>1 DEF ArrayOf
<1>3. ArrayOf(element) \in Types
  BY <1>1, <1>2
<1>4. Element(ArrayOf(element)) = [base |-> element.base, name |-> element.name, dims |-> (element.dims + 1) - 1]
  BY <1>2 DEF Element
<1>5. (element.dims + 1) - 1 = element.dims
  BY <1>1
<1> QED
  BY <1>1, <1>2, <1>3, <1>4, <1>5 DEF IsArray

\* the array after so many elements were put
Holding(array, element, elements, i) ==
  /\ array \in ArraysOf(Passables)
  /\ array.class = ArrayOf(element)
  /\ DOMAIN array.elements = 1 .. Len(elements)
  /\ \A j \in 1 .. i : array.elements[j] = elements[j]
FitUpTo(element, elements, i) == \A j \in 1 .. i : FitsIn(elements[j], element)

LEMMA PutsHold ==
  ASSUME NEW element \in Types, NEW elements \in Seq(Passables), NEW i \in 0 .. Len(elements)
  PROVE  IF FitUpTo(element, elements, i)
         THEN \E array : Puts(element, elements)[i] = Parsed(array) /\ Holding(array, element, elements, i)
         ELSE Puts(element, elements)[i] = Failed
<1> DEFINE P(k) == IF FitUpTo(element, elements, k)
                   THEN \E array : Puts(element, elements)[k] = Parsed(array) /\ Holding(array, element, elements, k)
                   ELSE Puts(element, elements)[k] = Failed
           n == Len(elements)
           S == {k \in Nat : k <= n => P(k)}
<1>1. n \in Nat /\ \A k \in 1 .. n : elements[k] \in Passables
  OBVIOUS
<1>2. /\ Puts(element, elements)[0] = Parsed(Nulls(element, elements))
      /\ \A k \in 1 .. n : Puts(element, elements)[k] = Put(Puts(element, elements)[k - 1], k, elements)
  <2>1. Parsed(Nulls(element, elements)) \in Created
    BY NullsAre DEF Created
  <2> QED
    BY <1>1, <2>1, PutsAre
<1>3. P(0)
  <2>1. Holding(Nulls(element, elements), element, elements, 0) /\ FitUpTo(element, elements, 0)
    BY NullsAre DEF Holding, FitUpTo
  <2> QED
    BY <1>2, <2>1
<1>4. ASSUME NEW k \in Nat, k + 1 <= n, P(k) PROVE P(k + 1)
  <2>1. k + 1 \in 1 .. n /\ (k + 1) - 1 = k /\ elements[k + 1] \in Passables
    BY <1>1, <1>4
  <2>2. Puts(element, elements)[k + 1] = Put(Puts(element, elements)[k], k + 1, elements)
    BY <1>2, <2>1
  <2>3. FitUpTo(element, elements, k + 1) <=> (FitUpTo(element, elements, k) /\ FitsIn(elements[k + 1], element))
    BY <2>1 DEF FitUpTo
  <2>4. CASE ~FitUpTo(element, elements, k)
    <3>1. Put(Failed, k + 1, elements) = Failed
      BY DEF Put, AndThen, Failed
    <3> QED
      BY <1>4, <2>2, <2>3, <2>4, <3>1
  <2>5. CASE FitUpTo(element, elements, k)
    <3>1. PICK array : Puts(element, elements)[k] = Parsed(array) /\ Holding(array, element, elements, k)
      BY <1>4, <2>5
    <3> DEFINE changed == [array EXCEPT !.elements[k + 1] = elements[k + 1]]
    <3>2. Puts(element, elements)[k + 1] =
            IF FitsIn(elements[k + 1], element) THEN Parsed(changed) ELSE Failed
      BY <2>1, <2>2, <3>1, PutIs, ArrayOfIs DEF Holding
    <3>3. /\ changed \in ArraysOf(Passables) /\ changed.class = ArrayOf(element)
          /\ DOMAIN changed.elements = 1 .. n /\ changed.elements[k + 1] = elements[k + 1]
          /\ \A j \in (1 .. n) \ {k + 1} : changed.elements[j] = array.elements[j]
      <4>1. /\ array \in ArraysOf(Passables) /\ DOMAIN array.elements = 1 .. n
            /\ array.class = ArrayOf(element) /\ k + 1 \in DOMAIN array.elements
        BY <2>1, <3>1 DEF Holding
      <4>2. /\ changed \in ArraysOf(Passables) /\ changed.class = array.class
            /\ DOMAIN changed.elements = DOMAIN array.elements
            /\ changed.elements[k + 1] = elements[k + 1]
            /\ \A j \in DOMAIN array.elements \ {k + 1} : changed.elements[j] = array.elements[j]
        BY <2>1, <4>1, ElementIsSet, SMTT(60)
      <4> HIDE DEF changed, n
      <4> QED
        BY <4>1, <4>2
    <3> HIDE DEF changed
    <3>4. Holding(changed, element, elements, k + 1)
      <4>1. ASSUME NEW j \in 1 .. k + 1 PROVE changed.elements[j] = elements[j]
        <5>1. CASE j = k + 1
          BY <3>3, <5>1
        <5>2. CASE j # k + 1
          <6>1. j \in 1 .. k /\ j \in (1 .. n) \ {k + 1}
            BY <1>1, <1>4, <5>2
          <6>2. changed.elements[j] = array.elements[j]
            BY <3>3, <6>1
          <6> QED
            BY <3>1, <6>1, <6>2 DEF Holding
        <5> QED
          BY <5>1, <5>2
      <4> QED
        BY <3>3, <4>1 DEF Holding
    <3> QED
      BY <2>3, <2>5, <3>2, <3>4
  <2> QED
    BY <2>4, <2>5
<1>5. S = Nat
  <2>1. 0 \in S
    BY <1>3
  <2>2. ASSUME NEW k \in S PROVE k + 1 \in S
    <3> HIDE DEF P, n
    <3> QED
      BY <1>1, <1>4
  <2>3. S \in SUBSET Nat
    OBVIOUS
  <2> HIDE DEF S
  <2> QED
    BY <2>1, <2>2, <2>3, Induction
<1>6. i \in Nat /\ i <= n
  OBVIOUS
<1>7. P(i)
  <2> HIDE DEF P, n
  <2> QED
    BY <1>5, <1>6
<1> QED
  BY <1>7

\* An array is created with all of the elements that are given, or not at all.
THEOREM ArraysAreCreatedWithElements ==
  ASSUME NEW element \in Types, IsReference(element), NEW elements \in Seq(Passables)
  PROVE  CreatedWithElements(element, elements)
<1> DEFINE n == Len(elements)
           created == NewObjectArray(element, elements)
           fits == \A i \in DOMAIN elements : IsObject(elements[i]) => Instance(elements[i], element)
<1>1. created = Puts(element, elements)[n]
  BY DEF NewObjectArray, Puts, Nulls, Put
<1>2. n \in Nat /\ n \in 0 .. n /\ DOMAIN elements = 1 .. n
  OBVIOUS
<1>3. fits <=> FitUpTo(element, elements, n)
  BY <1>2 DEF FitUpTo, FitsIn
<1>4. CASE ~fits
  <2>1. created = Failed
    BY <1>1, <1>2, <1>3, <1>4, PutsHold
  <2>2. ~created.ok
    BY <2>1 DEF Failed
  <2> QED
    BY <1>4, <2>2 DEF CreatedWithElements
<1>5. CASE fits
  <2>1. PICK array : created = Parsed(array) /\ Holding(array, element, elements, n)
    BY <1>1, <1>2, <1>3, <1>5, PutsHold
  <2>2. created.ok /\ created.value = array
    BY <2>1 DEF Parsed
  <2>3. ASSUME NEW i \in DOMAIN elements
        PROVE  GetElement(array, element, i, {}) = Parsed(elements[i])
    <3>1. GetElementAt(array, i) = Parsed(elements[i])
      BY <1>2, <2>1 DEF GetElementAt, Holding
    <3>2. IsObject(elements[i]) => Instance(elements[i], element)
      BY <1>5
    <3> QED
      BY <3>1, <3>2 DEF GetElement, Parsed
  <2> HIDE DEF created, fits
  <2>4. created.ok => \A i \in DOMAIN elements : GetElement(created.value, element, i, {}) = Parsed(elements[i])
    BY <2>2, <2>3
  <2> QED
    BY <1>5, <2>2, <2>4 DEF CreatedWithElements, created, fits
<1> QED
  BY <1>4, <1>5

-----------------------------------------------------------------------------
(* Regions.                                                                *)
LEMMA SpliceIs ==
  ASSUME NEW V, NEW s \in Seq(V), NEW values \in Seq(V), NEW start \in Nat, start + Len(values) <= Len(s)
  PROVE  LET r == SubSeq(s, 1, start) \o values \o Suffix(s, start + Len(values)) IN
         /\ r \in Seq(V) /\ Len(r) = Len(s)
         /\ \A i \in 1 .. Len(values) : r[start + i] = values[i]
         /\ \A i \in (1 .. Len(s)) \ (start + 1 .. start + Len(values)) : r[i] = s[i]
<1> DEFINE k == Len(values)
           a == SubSeq(s, 1, start)
           b == Suffix(s, start + k)
           ab == a \o values
           r == ab \o b
<1>1. k \in Nat /\ Len(s) \in Nat /\ start + k \in Nat
  OBVIOUS
<1>2. a \in Seq(V) /\ Len(a) = start /\ \A i \in 1 .. start : a[i] = s[i]
  <2>1. 0 \in Nat /\ 0 <= start /\ start <= Len(s) /\ 0 + 1 = 1 /\ start - 0 = start
    BY <1>1
  <2> QED
    BY <2>1, PartIs
<1>3. /\ b \in Seq(V) /\ Len(b) = Len(s) - (start + k)
      /\ \A i \in 1 .. Len(s) - (start + k) : b[i] = s[start + k + i]
  <2>1. Len(s) <= Len(s)
    BY <1>1
  <2> QED
    BY <1>1, <2>1, PartIs DEF Suffix
<1> HIDE DEF a, b, k
<1>4. /\ ab \in Seq(V) /\ Len(ab) = start + k
      /\ \A i \in 1 .. start : ab[i] = s[i]
      /\ \A i \in 1 .. k : ab[start + i] = values[i]
  <2>1. /\ ab \in Seq(V) /\ Len(ab) = Len(a) + Len(values)
        /\ \A i \in 1 .. Len(a) : ab[i] = a[i]
        /\ \A i \in 1 .. Len(values) : ab[Len(a) + i] = values[i]
    <3>1. a \in Seq(V)
      BY <1>2
    <3> QED
      BY <3>1, JoinIs
  <2> HIDE DEF ab
  <2> QED
    BY <1>2, <2>1 DEF k
<1> HIDE DEF ab
<1>5. /\ r \in Seq(V) /\ Len(r) = Len(s)
      /\ \A i \in 1 .. start + k : r[i] = ab[i]
      /\ \A i \in 1 .. Len(s) - (start + k) : r[start + k + i] = s[start + k + i]
  <2>1. /\ r \in Seq(V) /\ Len(r) = Len(ab) + Len(b)
        /\ \A i \in 1 .. Len(ab) : r[i] = ab[i]
        /\ \A i \in 1 .. Len(b) : r[Len(ab) + i] = b[i]
    <3>1. ab \in Seq(V) /\ b \in Seq(V)
      BY <1>3, <1>4
    <3> QED
      BY <3>1, JoinIs
  <2> HIDE DEF r
  <2>2. Len(ab) = start + k /\ Len(b) = Len(s) - (start + k)
    BY <1>3, <1>4
  <2>3. \A i \in 1 .. Len(s) - (start + k) : r[start + k + i] = s[start + k + i]
    BY <1>1, <1>3, <2>1, <2>2
  <2> QED
    BY <1>1, <2>1, <2>2, <2>3
<1> HIDE DEF r
<1>6. ASSUME NEW i \in 1 .. k PROVE r[start + i] = values[i]
  <2>1. PICK j \in 1 .. start + k : j = start + i
    <3>1. start + i \in 1 .. start + k
      BY <1>1
    <3> QED
      BY <3>1
  <2>2. r[j] = ab[j] /\ ab[start + i] = values[i]
    BY <1>4, <1>5
  <2> QED
    BY <2>1, <2>2
<1>7. ASSUME NEW i \in (1 .. Len(s)) \ (start + 1 .. start + k) PROVE r[i] = s[i]
  <2>1. CASE i <= start
    BY <1>1, <1>4, <1>5, <2>1
  <2>2. CASE i > start
    <3>1. i - (start + k) \in 1 .. Len(s) - (start + k) /\ start + k + (i - (start + k)) = i
      BY <1>1, <2>2
    <3> QED
      BY <1>5, <3>1
  <2> QED
    BY <1>1, <2>1, <2>2
<1> QED
  BY <1>5, <1>6, <1>7 DEF r, ab, a, b, k

LEMMA RegionIsSet ==
  ASSUME NEW V, NEW array \in ArraysOf(V), NEW start \in Nat, NEW values \in Seq(V)
  PROVE  IF start + Len(values) <= Len(array.elements)
         THEN \E elements \in Seq(V) :
                /\ SetRegion(array, start, values) = Parsed([class |-> array.class, elements |-> elements])
                /\ Len(elements) = Len(array.elements)
                /\ \A i \in 1 .. Len(values) : elements[start + i] = values[i]
                /\ \A i \in (1 .. Len(array.elements)) \ (start + 1 .. start + Len(values)) :
                     elements[i] = array.elements[i]
         ELSE SetRegion(array, start, values) = Failed
<1> DEFINE spliced == SubSeq(array.elements, 1, start) \o values \o Suffix(array.elements, start + Len(values))
<1>1. /\ array = [class |-> array.class, elements |-> array.elements]
      /\ array.elements \in Seq(V) /\ Len(array.elements) \in Nat /\ Len(values) \in Nat
  BY DEF ArraysOf
<1>2. values = <<>> <=> Len(values) = 0
  OBVIOUS
<1>3. CASE start + Len(values) > Len(array.elements)
  BY <1>1, <1>2, <1>3 DEF SetRegion, EmptyRegion, InArray
<1>4. CASE start + Len(values) <= Len(array.elements) /\ values = <<>>
  <2>1. SetRegion(array, start, values) = Parsed(array)
    BY <1>1, <1>2, <1>4 DEF SetRegion, EmptyRegion
  <2> QED
    BY <1>1, <1>2, <1>4, <2>1
<1>5. CASE start + Len(values) <= Len(array.elements) /\ values # <<>>
  <2>1. SetRegion(array, start, values) = Parsed([class |-> array.class, elements |-> spliced])
    <3>1. InArray(array, start, Len(values))
      BY <1>5 DEF InArray
    <3>2. SetRegion(array, start, values) = Parsed([array EXCEPT !.elements = spliced])
      BY <1>5, <3>1 DEF SetRegion
    <3>3. [array EXCEPT !.elements = spliced] = [class |-> array.class, elements |-> spliced]
      <4>1. ASSUME NEW x PROVE [array EXCEPT !.elements = x] = [class |-> array.class, elements |-> x]
        BY <1>1
      <4> QED
        BY <4>1
    <3> HIDE DEF spliced
    <3> QED
      BY <3>2, <3>3
  <2>2. /\ spliced \in Seq(V) /\ Len(spliced) = Len(array.elements)
        /\ \A i \in 1 .. Len(values) : spliced[start + i] = values[i]
        /\ \A i \in (1 .. Len(array.elements)) \ (start + 1 .. start + Len(values)) :
             spliced[i] = array.elements[i]
    BY <1>1, <1>5, SpliceIs, SMTT(60)
  <2> HIDE DEF spliced
  <2> QED
    BY <1>5, <2>1, <2>2
<1>6. (start + Len(values) > Len(array.elements)) <=> ~(start + Len(values) <= Len(array.elements))
  BY <1>1
<1> QED
  BY <1>3, <1>4, <1>5, <1>6

LEMMA RegionIsGot ==
  ASSUME NEW V, NEW array \in ArraysOf(V), NEW start \in Nat, NEW values \in Seq(V),
         start + Len(values) <= Len(array.elements),
         \A i \in 1 .. Len(values) : array.elements[start + i] = values[i]
  PROVE  GetRegion(array, start, Len(values)) = Parsed(values)
<1>1. array.elements \in Seq(V) /\ Len(array.elements) \in Nat /\ Len(values) \in Nat
  BY DEF ArraysOf
<1>2. CASE Len(values) = 0
  <2>1. values = <<>>
    BY <1>2
  <2> QED
    BY <1>1, <1>2, <2>1 DEF GetRegion, EmptyRegion
<1>3. CASE Len(values) # 0
  <2> DEFINE part == SubSeq(array.elements, start + 1, start + Len(values))
  <2>1. GetRegion(array, start, Len(values)) = Parsed(part)
    BY <1>1, <1>3 DEF GetRegion, InArray
  <2>2. /\ part \in Seq(V) /\ Len(part) = (start + Len(values)) - start
        /\ \A i \in 1 .. (start + Len(values)) - start : part[i] = array.elements[start + i]
    <3>1. start + Len(values) \in Nat /\ start <= start + Len(values)
      BY <1>1
    <3> QED
      BY <1>1, <3>1, PartIs
  <2>3. (start + Len(values)) - start = Len(values)
    BY <1>1
  <2> HIDE DEF part
  <2>4. part = values
    <3>1. Len(part) = Len(values) /\ \A i \in 1 .. Len(part) : part[i] = values[i]
      BY <2>2, <2>3
    <3> QED
      BY <2>2, <3>1, SameSequence
  <2> QED
    BY <2>1, <2>4
<1> QED
  BY <1>2, <1>3

\* A region is written where it starts, never past the end, the rest stays and
\* what was written is read.
THEOREM RegionsAreAlwaysKept ==
  ASSUME NEW V, 0 \in V, NEW array \in ArraysOf(V), NEW w \in Prims, Element(array.class) = Prim(w),
         NEW start \in Nat, NEW values \in Seq(V)
  PROVE  RegionsAreKept(array, start, values)
<1> DEFINE set == SetRegion(array, start, values)
           within == start + Len(values) <= Len(array.elements)
           size == Len(array.elements)
           element == Element(array.class)
<1>1. array.elements \in Seq(V) /\ size \in Nat /\ Len(values) \in Nat /\ array.class \in Types /\ IsArray(array.class)
  BY DEF ArraysOf
<1>2. set.ok <=> within
  BY RegionIsSet DEF Parsed, Failed
<1>3. ASSUME set.ok
      PROVE  /\ Len(set.value.elements) = size
             /\ GetRegion(set.value, start, Len(values)) = Parsed(values)
             /\ \A i \in (1 .. size) \ (start + 1 .. start + Len(values)) :
                  set.value.elements[i] = array.elements[i]
             /\ set.value \in ArraysOf(V) /\ set.value.class = array.class
  <2>1. PICK elements \in Seq(V) :
                /\ SetRegion(array, start, values) = Parsed([class |-> array.class, elements |-> elements])
                /\ Len(elements) = Len(array.elements)
                /\ \A i \in 1 .. Len(values) : elements[start + i] = values[i]
                /\ \A i \in (1 .. Len(array.elements)) \ (start + 1 .. start + Len(values)) :
                     elements[i] = array.elements[i]
    BY <1>2, <1>3, RegionIsSet
  <2>2. PICK written : written = [class |-> array.class, elements |-> elements]
    OBVIOUS
  <2>3. written \in ArraysOf(V) /\ written.elements = elements /\ written.class = array.class
    BY <1>1, <2>2 DEF ArraysOf
  <2>4. set.value = written
    BY <2>1, <2>2 DEF Parsed
  <2>5. GetRegion(written, start, Len(values)) = Parsed(values)
    BY <1>2, <1>3, <2>1, <2>3, RegionIsGot
  <2> QED
    BY <2>1, <2>3, <2>4, <2>5, Zenon
<1>4. NewPrimitiveArray(element, values) = Parsed(NewArray(array.class, values))
  <2> DEFINE zeroes == NewArray(ArrayOf(element), [i \in DOMAIN values |-> 0])
  <2>1. /\ zeroes \in ArraysOf(V) /\ zeroes.class = array.class
        /\ Len(zeroes.elements) = Len(values)
    <3>1. ArrayOf(element) = array.class
      BY <1>1, ElementIs
    <3>2. [i \in DOMAIN values |-> 0] \in Seq(V) /\ Len([i \in DOMAIN values |-> 0]) = Len(values)
      OBVIOUS
    <3> HIDE DEF element
    <3> QED
      BY <1>1, <3>1, <3>2 DEF ArraysOf, NewArray
  <2> HIDE DEF zeroes
  <2>2. 0 \in Nat /\ 0 + Len(values) <= Len(zeroes.elements)
    BY <1>1, <2>1
  <2>3. PICK elements \in Seq(V) :
                /\ SetRegion(zeroes, 0, values) = Parsed([class |-> zeroes.class, elements |-> elements])
                /\ Len(elements) = Len(zeroes.elements)
                /\ \A i \in 1 .. Len(values) : elements[0 + i] = values[i]
    BY <2>1, <2>2, RegionIsSet
  <2>4. elements = values
    <3>1. Len(elements) = Len(values) /\ \A i \in 1 .. Len(elements) : elements[i] = values[i]
      BY <1>1, <2>1, <2>3
    <3> QED
      BY <3>1, SameSequence
  <2> QED
    BY <2>1, <2>3, <2>4 DEF NewPrimitiveArray, NewArray, zeroes
<1>5. ASSUME start = 0
      PROVE  /\ SetPrimitives(array, element, element.base, values) = set
             /\ within => GetPrimitives(set.value, element, element.base) = Parsed(set.value.elements)
  <2>1. element = Prim(element.base)
    BY DEF Prim
  <2>2. ASSUME within
        PROVE  GetRegion(set.value, 0, Len(set.value.elements)) = Parsed(set.value.elements)
    <3>1. PICK written : written = set.value
      OBVIOUS
    <3>2. written \in ArraysOf(V) /\ written.elements \in Seq(V)
      BY <1>2, <1>3, <2>2, <3>1 DEF ArraysOf
    <3>3. GetRegion(written, 0, Len(written.elements)) = Parsed(written.elements)
      <4>1. /\ 0 \in Nat /\ 0 + Len(written.elements) <= Len(written.elements)
            /\ \A i \in 1 .. Len(written.elements) : written.elements[0 + i] = written.elements[i]
        BY <3>2
      <4> QED
        BY <3>2, <4>1, RegionIsGot
    <3> HIDE DEF set
    <3> QED
      BY <3>1, <3>3
  <2> HIDE DEF element, within
  <2> QED
    BY <1>5, <2>1, <2>2 DEF SetPrimitives, GetPrimitives
<1> HIDE DEF within, element
<1> QED
  BY <1>2, <1>3, <1>4, <1>5, Zenon DEF RegionsAreKept, within, element

LEMMA AllIsGot ==
  ASSUME NEW V, NEW array \in ArraysOf(V)
  PROVE  /\ GetRegion(array, 0, Len(array.elements)) = Parsed(array.elements)
         /\ GetBooleans(array, Prim("boolean")) =
              Parsed([i \in DOMAIN array.elements |-> array.elements[i] = 1])
<1>1. array.elements \in Seq(V) /\ Len(array.elements) \in Nat
  BY DEF ArraysOf
<1>2. GetRegion(array, 0, Len(array.elements)) = Parsed(array.elements)
  <2>1. /\ 0 \in Nat /\ 0 + Len(array.elements) <= Len(array.elements)
        /\ \A i \in 1 .. Len(array.elements) : array.elements[0 + i] = array.elements[i]
    BY <1>1
  <2> QED
    BY <1>1, <2>1, RegionIsGot
<1>3. GetRegion(array, 0, Len(array.elements)).value = array.elements
  BY <1>2 DEF Parsed
<1> QED
  BY <1>2, <1>3, Zenon DEF GetBooleans

\* Booleans are written from the first on, as many as there is place for or none.
THEOREM BooleansAreAlwaysKept ==
  ASSUME NEW array \in ArraysOf({0, 1}), NEW values \in Seq(BOOLEAN)
  PROVE  BooleansAreKept(array, values)
<1> DEFINE numbers == [i \in DOMAIN values |-> IF values[i] THEN 1 ELSE 0]
           set == SetBooleans(array, Prim("boolean"), values)
           before == GetBooleans(array, Prim("boolean"))
           new == [i \in DOMAIN before.value |-> IF i <= Len(values) THEN values[i] ELSE before.value[i]]
<1>1. /\ array.elements \in Seq({0, 1}) /\ Len(array.elements) \in Nat /\ Len(values) \in Nat
      /\ DOMAIN array.elements = 1 .. Len(array.elements) /\ DOMAIN values = 1 .. Len(values)
  BY DEF ArraysOf
<1>2. numbers \in Seq({0, 1}) /\ Len(numbers) = Len(values)
  <2>1. ASSUME NEW n \in Nat, NEW f \in [1 .. n -> {0, 1}] PROVE f \in Seq({0, 1}) /\ Len(f) = n
    OBVIOUS
  <2>2. numbers \in [1 .. Len(values) -> {0, 1}]
    BY <1>1
  <2> HIDE DEF numbers
  <2> QED
    BY <1>1, <2>1, <2>2
<1>3. \A i \in 1 .. Len(values) : (numbers[i] = 1) = values[i]
  <2> SUFFICES ASSUME NEW i \in 1 .. Len(values) PROVE (numbers[i] = 1) = values[i]
    OBVIOUS
  <2>1. numbers[i] = (IF values[i] THEN 1 ELSE 0) /\ values[i] \in BOOLEAN
    BY <1>1
  <2> HIDE DEF numbers
  <2> QED
    BY <2>1
<1>4. set = SetRegion(array, 0, numbers)
  BY DEF SetBooleans
<1>5. before.value = [i \in DOMAIN array.elements |-> array.elements[i] = 1]
  <2>1. \A x : Parsed(x).value = x
    BY DEF Parsed
  <2> QED
    BY <2>1, AllIsGot, Zenon
<1> HIDE DEF numbers, set, before
<1>6. CASE Len(values) > Len(array.elements)
  <2>1. ~(0 + Len(numbers) <= Len(array.elements)) /\ 0 \in Nat
    BY <1>1, <1>2, <1>6
  <2>2. set = Failed
    BY <1>2, <1>4, <2>1, RegionIsSet
  <2> QED
    BY <1>1, <1>6, <2>2 DEF BooleansAreKept, Failed, set
<1>7. CASE Len(values) <= Len(array.elements)
  <2>1. 0 + Len(numbers) <= Len(array.elements) /\ 0 \in Nat
    BY <1>1, <1>2, <1>7
  <2>2. PICK elements \in Seq({0, 1}) :
                /\ set = Parsed([class |-> array.class, elements |-> elements])
                /\ Len(elements) = Len(array.elements)
                /\ \A i \in 1 .. Len(numbers) : elements[0 + i] = numbers[i]
                /\ \A i \in (1 .. Len(array.elements)) \ (0 + 1 .. 0 + Len(numbers)) :
                     elements[i] = array.elements[i]
    BY <1>2, <1>4, <2>1, RegionIsSet
  <2>3. PICK written : written = [class |-> array.class, elements |-> elements]
    OBVIOUS
  <2>4. written \in ArraysOf({0, 1}) /\ written.elements = elements
    BY <2>3 DEF ArraysOf
  <2>5. GetBooleans(written, Prim("boolean")) = Parsed([i \in DOMAIN elements |-> elements[i] = 1])
    BY <2>4, AllIsGot
  <2>6. [i \in DOMAIN elements |-> elements[i] = 1] = new
    <3>1. DOMAIN elements = DOMAIN before.value
      BY <1>1, <1>5, <2>2
    <3>2. ASSUME NEW i \in DOMAIN elements
          PROVE  (elements[i] = 1) = IF i <= Len(values) THEN values[i] ELSE before.value[i]
      <4>1. i \in 1 .. Len(array.elements) /\ DOMAIN elements = 1 .. Len(array.elements)
        BY <2>2
      <4>2. CASE i <= Len(values)
        <5>1. i \in 1 .. Len(numbers) /\ 0 + i = i /\ i \in 1 .. Len(values)
          BY <1>1, <1>2, <4>1, <4>2
        <5> QED
          BY <1>3, <2>2, <4>2, <5>1
      <4>3. CASE ~(i <= Len(values))
        <5>1. i \in (1 .. Len(array.elements)) \ (0 + 1 .. 0 + Len(numbers))
          BY <1>1, <1>2, <4>1, <4>3
        <5> QED
          BY <1>1, <1>5, <2>2, <4>1, <4>3, <5>1
      <4> QED
        BY <4>2, <4>3
    <3> QED
      BY <3>1, <3>2
  <2>7. set.ok /\ set.value = written
    BY <2>2, <2>3 DEF Parsed
  <2> HIDE DEF new
  <2>8. GetBooleans(set.value, Prim("boolean")) = Parsed(new)
    BY <2>5, <2>6, <2>7
  <2> QED
    BY <1>7, <2>7, <2>8 DEF BooleansAreKept, set, new, before
<1> QED
  BY <1>1, <1>6, <1>7

LEMMA BoundedAreSequences ==
  ASSUME NEW S, NEW n \in Nat PROVE BoundedSeq(S, n) \subseteq Seq(S)
<1>1. ASSUME NEW m \in 0 .. n, NEW f \in [1 .. m -> S] PROVE f \in Seq(S)
  OBVIOUS
<1> QED
  BY <1>1 DEF BoundedSeq, SeqOf

LEMMA ShortSequencesAre ==
  ASSUME NEW S, NEW a \in S, NEW b \in S, NEW c \in S
  PROVE  <<a>> \in Seq(S) /\ <<a, b>> \in Seq(S) /\ <<a, b, c>> \in Seq(S)
OBVIOUS

LEMMA ObjectsOfAre ==
  ASSUME NEW c \in ObjectClasses \cup {StringType}, NEW foreign \in BOOLEAN
  PROVE  ObjectOf(c, foreign) \in Passables
<1>1. Object(c) \in SomeValues
  <2>1. c \in ObjectClasses
    <3>1. StringType \in ReferenceTypes /\ StringType # CharSequenceType
      BY NamesDiffer DEF ReferenceTypes, NamesExtend
    <3> QED
      BY <3>1 DEF ObjectClasses
  <2> QED
    BY <2>1 DEF SomeValues
<1>2. Rust("value", Object(c)) \in Givens
  BY <1>1, RustValuesAre DEF RustValues
<1> QED
  BY <1>2 DEF ObjectOf, Given, Passables

(* Arrays of the run hold and yield elements of their type only, and keep  *)
(* the elements and the parts of regions that are not written.             *)
THEOREM ElementsAlwaysKeepTheirType == BridgeSpec => []ElementsKeepTheirType
<1>1. ASSUME InputsAreDrawn, of = "array"
      PROVE  /\ ArraysKeepTheirType(input.array, input.declared, input.index, input.given)
             /\ CreatedWithElements(Element(input.declared), <<input.given, ObjectOf(StringType, FALSE), input.given>>)
  <2>1. input \in ArrayInputs
    <3>1. input \in Inputs("array")
      BY <1>1, PartsDiffer DEF Sampled
    <3> QED
      BY <3>1 DEF Inputs
  <2>2. input.given \in Passables /\ ObjectOf(StringType, FALSE) \in Passables
    <3>1. \E c \in ObjectClasses, f \in BOOLEAN : input.given = ObjectOf(c, f)
      BY <2>1 DEF ArrayInputs
    <3> QED
      BY <3>1, ObjectsOfAre
  <2>3. /\ input.declared \in Types /\ IsArray(input.declared)
        /\ Element(input.declared) \in Types /\ IsReference(Element(input.declared))
    <3>1. PICK t \in ReferenceTypes : input.declared = ArrayOf(t)
      BY <2>1 DEF ArrayInputs
    <3> QED
      BY <3>1, ReferenceTypesAre, ArrayOfIs
  <2>4. input.index \in Nat
    BY <2>1 DEF ArrayInputs
  <2>5. input.array \in ArraysOf(Passables)
    <3>1. PICK t \in {App, JavaLangObject, StringType, ArrayOf(App)} :
            input.array = NewArray(ArrayOf(t), <<ObjectOf(Null, FALSE), ObjectOf(Null, FALSE)>>)
      BY <2>1 DEF ArrayInputs, Arrays
    <3>2. ArrayOf(t) \in Types /\ IsArray(ArrayOf(t))
      BY <3>1, ReferenceTypesAre, ArrayOfIs DEF ReferenceTypes
    <3>3. ObjectOf(Null, FALSE) \in Passables
      BY ObjectsOfAre DEF ObjectClasses
    <3>4. <<ObjectOf(Null, FALSE), ObjectOf(Null, FALSE)>> \in Seq(Passables)
      BY <3>3, ShortSequencesAre
    <3>5. ASSUME NEW c \in {u \in Types : IsArray(u)}, NEW e \in Seq(Passables)
          PROVE  NewArray(c, e) \in ArraysOf(Passables)
      BY DEF NewArray, ArraysOf
    <3> QED
      BY <3>1, <3>2, <3>4, <3>5
  <2>6. <<input.given, ObjectOf(StringType, FALSE), input.given>> \in Seq(Passables)
    BY <2>2, ShortSequencesAre
  <2> QED
    BY <2>2, <2>3, <2>4, <2>5, <2>6, ArraysAlwaysKeepTheirType, ArraysAreCreatedWithElements
<1>2. ASSUME InputsAreDrawn, of = "region"
      PROVE  /\ RegionsAreKept(input.array, input.start, input.values)
             /\ BooleansAreKept(input.array, [i \in DOMAIN input.values |-> input.values[i] = 1])
  <2>1. input \in RegionInputs
    <3>1. input \in Inputs("region")
      BY <1>2, PartsDiffer DEF Sampled
    <3> QED
      BY <3>1 DEF Inputs
  <2>2. BoundedSeq({0, 1}, 3) \subseteq Seq({0, 1})
    BY BoundedAreSequences
  <2>3. input.start \in Nat /\ input.values \in Seq({0, 1})
    BY <2>1, <2>2 DEF RegionInputs
  <2>4. input.array \in ArraysOf({0, 1}) /\ Element(input.array.class) = Prim("boolean")
    <3>1. PICK a \in Seq({0, 1}) : input.array = NewArray(ArrayOf(Prim("boolean")), a)
      BY <2>1, <2>2 DEF RegionInputs
    <3>2. Prim("boolean") \in Types
      BY PrimsAre DEF Prim, Types
    <3>3. /\ ArrayOf(Prim("boolean")) \in Types /\ IsArray(ArrayOf(Prim("boolean")))
          /\ Element(ArrayOf(Prim("boolean"))) = Prim("boolean")
      BY <3>2, ArrayOfIs
    <3> QED
      BY <3>1, <3>3 DEF NewArray, ArraysOf
  <2>5. [i \in DOMAIN input.values |-> input.values[i] = 1] \in Seq(BOOLEAN)
    <3>1. ASSUME NEW values \in Seq({0, 1}) PROVE [i \in DOMAIN values |-> values[i] = 1] \in Seq(BOOLEAN)
      <4>1. ASSUME NEW n \in Nat, NEW f \in [1 .. n -> BOOLEAN] PROVE f \in Seq(BOOLEAN)
        OBVIOUS
      <4>2. [i \in DOMAIN values |-> values[i] = 1] \in [1 .. Len(values) -> BOOLEAN] /\ Len(values) \in Nat
        OBVIOUS
      <4> QED
        BY <4>1, <4>2
    <3> QED
      BY <2>3, <3>1
  <2>6. "boolean" \in Prims /\ 0 \in {0, 1}
    BY PrimsAre
  <2> QED
    BY <2>3, <2>4, <2>5, <2>6, RegionsAreAlwaysKept, BooleansAreAlwaysKept
<1>3. InputsAreDrawn => ElementsKeepTheirType
  BY <1>1, <1>2 DEF ElementsKeepTheirType
<1> QED
  BY <1>3, DrawnInputs, PTL

-----------------------------------------------------------------------------
(* The thunk.  What thunk and hooks look at, the frame linked to the       *)
(* caller's fragment, tells whose call it is: a managed activation that    *)
(* finds a clone's frame linked runs under the callback of that method,    *)
(* with no native code between.                                            *)
NativeBodies == {"thread", "native", "callback"}
ManagedBodies == {"java", "override", "original"}
Activations ==
  [body : NativeBodies \cup ManagedBodies, method : Methods \cup {"none"},
   mode : {"native", "compiled", "interpreted"},
   linked : [frame : Methods \cup {"null", "native", "bridge"}, tag : {0, 1}],
   receiver : {"base", "derived"}, by : {"call", "original"}]

\* the last native frame below position i of the stack s is m's callback
RunsUnder(s, i, m) ==
  \E j \in 1 .. i - 1 :
    /\ s[j].body = "callback" /\ s[j].method = m
    /\ \A k \in j + 1 .. i - 1 : s[k].mode # "native"

\* what holds of the activation at position i
Sound(s, i) ==
  LET a == s[i] IN
  /\ a.mode = "native" <=> a.body \in NativeBodies
  /\ a.body = "callback" => a.method \in Methods
  /\ a.mode # "native" /\ a.linked.frame \in Methods => RunsUnder(s, i, a.linked.frame)
  /\ a.body = "original" => AttachMayFail \/ RunsUnder(s, i, a.method)
  /\ a.by = "original" /\ a.receiver = "base" => a.body = "original"

StackInv(s) == /\ s \in Seq(Activations) /\ Len(s) >= 1
               /\ \A i \in 1 .. Len(s) : Sound(s, i)

\* a mapped method is patched, which takes all the hooks
HooksInv ==
  /\ mapped \subseteq Methods
  /\ entry \in [Methods -> {"own", "thunk", "stub"}]
  /\ \A m \in mapped : entry[m] # "own" /\ hooks /\ addresses = TrampolineSet
  /\ AttachMayFail \/ attached = addresses

DispatchInv == /\ DOMAIN stack = Threads /\ \A t \in Threads : StackInv(stack[t])
               /\ HooksInv

-----------------------------------------------------------------------------
LEMMA LinkedFrame ==
  ASSUME NEW s, StackInv(s), Linked(s[Len(s)]).frame \in Methods, NEW b
  PROVE  RunsUnder(Append(s, b), Len(s) + 1, Linked(s[Len(s)]).frame)
<1> DEFINE n == Len(s)
           a == s[n]
           z == Append(s, b)
<1>1. /\ n \in Nat /\ n >= 1 /\ Sound(s, n) /\ a \in Activations
      /\ \A i \in 1 .. n : z[i] = s[i]
  BY DEF StackInv
<1>2. CASE a.mode = "native"
  <2>1. a.body = "callback" /\ Linked(a).frame = a.method
    BY <1>2, FramesAreNoMethods DEF Linked, NullFrame, Frame
  <2> QED
    BY <1>1, <2>1 DEF RunsUnder
<1>3. CASE a.mode # "native"
  <2>1. Linked(a) = a.linked
    BY <1>3 DEF Linked
  <2>2. PICK j \in 1 .. n - 1 :
          /\ s[j].body = "callback" /\ s[j].method = a.linked.frame
          /\ \A k \in j + 1 .. n - 1 : s[k].mode # "native"
    BY <1>1, <1>3, <2>1 DEF Sound, RunsUnder
  <2>3. /\ j \in 1 .. (n + 1) - 1
        /\ z[j].body = "callback" /\ z[j].method = a.linked.frame
    BY <1>1, <2>2
  <2>4. \A k \in j + 1 .. (n + 1) - 1 : z[k].mode # "native"
    <3> SUFFICES ASSUME NEW k \in j + 1 .. (n + 1) - 1 PROVE z[k].mode # "native"
      OBVIOUS
    <3>1. CASE k = n
      BY <1>1, <1>3, <3>1
    <3>2. CASE k # n
      BY <1>1, <2>2, <3>2
    <3> QED
      BY <3>1, <3>2
  <2> QED
    BY <2>1, <2>3, <2>4 DEF RunsUnder
<1> QED
  BY <1>2, <1>3

\* positions below one that both stacks agree on
LEMMA SoundBelow ==
  ASSUME NEW s, NEW z, NEW i \in Nat, \A k \in 1 .. i : z[k] = s[k], i >= 1, Sound(s, i)
  PROVE  Sound(z, i)
<1>1. \A m : RunsUnder(z, i, m) <=> RunsUnder(s, i, m)
  BY DEF RunsUnder
<1>2. z[i] = s[i]
  OBVIOUS
<1> QED
  BY <1>1, <1>2 DEF Sound

LEMMA PushKeepsStack ==
  ASSUME NEW s, StackInv(s), NEW b \in Activations,
         b.mode = "native" <=> b.body \in NativeBodies,
         b.body = "callback" => b.method \in Methods,
         b.mode # "native" /\ b.linked.frame \in Methods => b.linked = Linked(s[Len(s)]),
         b.body = "original" =>
           AttachMayFail \/ (b.method \in Methods /\ Linked(s[Len(s)]).frame = b.method),
         b.by = "original" /\ b.receiver = "base" => b.body = "original"
  PROVE  StackInv(Append(s, b))
<1> DEFINE n == Len(s)
           z == Append(s, b)
<1>1. /\ n \in Nat /\ n >= 1 /\ \A i \in 1 .. n : z[i] = s[i] /\ Sound(s, i)
      /\ z \in Seq(Activations) /\ Len(z) = n + 1 /\ z[n + 1] = b
  BY DEF StackInv
<1>2. ASSUME NEW i \in 1 .. n PROVE Sound(z, i)
  <2>1. i \in Nat /\ i >= 1 /\ Sound(s, i) /\ \A k \in 1 .. i : z[k] = s[k]
    BY <1>1
  <2> QED
    BY <2>1, SoundBelow
<1>3. Linked(s[n]).frame \in Methods => RunsUnder(z, n + 1, Linked(s[n]).frame)
  BY LinkedFrame
<1>4. Sound(z, n + 1)
  BY <1>1, <1>3 DEF Sound
<1> QED
  BY <1>1, <1>2, <1>4 DEF StackInv

LEMMA PopKeepsStack ==
  ASSUME NEW s, StackInv(s), Len(s) > 1
  PROVE  StackInv(SubSeq(s, 1, Len(s) - 1))
<1> DEFINE n == Len(s) - 1
           z == SubSeq(s, 1, n)
<1>1. s \in Seq(Activations) /\ n \in Nat /\ n >= 1
  BY DEF StackInv
<1>2. z \in Seq(Activations) /\ Len(z) = n /\ \A i \in 1 .. n : z[i] = s[i]
  BY <1>1
<1>3. ASSUME NEW i \in 1 .. n PROVE Sound(z, i)
  <2>1. i \in Nat /\ i >= 1 /\ Sound(s, i) /\ \A k \in 1 .. i : z[k] = s[k]
    BY <1>1, <1>2 DEF StackInv
  <2> QED
    BY <2>1, SoundBelow
<1> QED
  BY <1>1, <1>2, <1>3 DEF StackInv

\* a mapped method's own code is reached only through its clone's frame
LEMMA OriginalTakesItsFrame ==
  ASSUME HooksInv, ~AttachMayFail, NEW m \in mapped, NEW a, Dispatch(m, a) = "original"
  PROVE  Linked(a).frame = m
<1>1. entry[m] # "own" /\ attached = TrampolineSet
  BY DEF HooksInv
<1>3. Bridge \in TrampolineSet
  <2>1. Trampolines[3] = Bridge
    BY DEF Bridge, Trampolines
  <2> QED
    BY <2>1 DEF TrampolineSet
<1>2. ~Translates(m, ManagedStack(a))
  BY <1>1, <1>3 DEF Dispatch
<1> QED
  BY <1>2 DEF Translates, FrameIsActive, ManagedStack

\* the callback's own call finds its frame linked
LEMMA CallbackReachesOriginal ==
  ASSUME NEW a, a.body = "callback", a.mode = "native"
  PROVE  Dispatch(a.method, a) = "original"
<1>1. ManagedStack(a) = [top |-> NullFrame, link |-> TRUE, linkTop |-> Frame(a.method)]
  BY DEF ManagedStack, Linked
<1>2. ThunkTakesOriginal(a.method, ManagedStack(a)) /\ FrameIsActive(a.method, ManagedStack(a))
  BY <1>1 DEF ThunkTakesOriginal, FrameIsActive, NullFrame, Frame
<1> QED
  BY <1>2 DEF Dispatch, Translates

-----------------------------------------------------------------------------
LEMMA EnterKeepsStacks ==
  ASSUME DispatchInv, NEW t \in Threads, NEW body \in {"java", "native", "override", "callback", "original"},
         NEW m \in Methods \cup {"none"}, NEW mode \in Modes(body),
         NEW receiver \in {"base", "derived"}, NEW by \in {"call", "original"},
         Enter(t, body, m, mode, receiver, by),
         body \in {"callback", "original"} => m \in Methods,
         body = "original" => AttachMayFail \/ Linked(Top(t)).frame = m,
         by = "original" /\ receiver = "base" => body = "original"
  PROVE  DispatchInv'
<1> DEFINE s == stack[t]
           a == Top(t)
           b == Activation(body, m, mode, LinkedIn(mode, a), receiver, by)
<1>1. StackInv(s) /\ a = s[Len(s)] /\ a \in Activations
  BY DEF DispatchInv, StackInv, Top
<1>2. /\ Linked(a) \in [frame : Methods \cup {"null", "native", "bridge"}, tag : {0, 1}]
      /\ LinkedIn(mode, a) \in [frame : Methods \cup {"null", "native", "bridge"}, tag : {0, 1}]
      /\ LinkedIn(mode, a).frame \in Methods => LinkedIn(mode, a) = Linked(a)
  <2>1. a.linked \in [frame : Methods \cup {"null", "native", "bridge"}, tag : {0, 1}]
    BY <1>1 DEF Activations
  <2>2. Sound(s, Len(s))
    BY <1>1 DEF StackInv
  <2>3. a.body = "callback" => a.method \in Methods
    BY <1>1, <2>2 DEF Sound
  <2>4. Linked(a) \in [frame : Methods \cup {"null", "native", "bridge"}, tag : {0, 1}]
    BY <2>1, <2>3 DEF Linked, Frame, NullFrame
  <2> QED
    BY <2>4, FramesAreNoMethods DEF LinkedIn, Frame, NullFrame
<1>3. /\ mode \in {"native", "compiled", "interpreted"}
      /\ mode = "native" <=> body \in NativeBodies
  BY DEF Modes, NativeBodies
<1>4. /\ b \in Activations
      /\ b.body = body /\ b.method = m /\ b.mode = mode /\ b.by = by /\ b.receiver = receiver
      /\ b.linked = LinkedIn(mode, a)
  BY <1>2, <1>3 DEF Activation, Activations, NativeBodies, ManagedBodies
<1>5. StackInv(Append(s, b))
  BY <1>1, <1>2, <1>3, <1>4, PushKeepsStack
<1>6. stack' = [stack EXCEPT ![t] = Append(s, b)]
      /\ UNCHANGED <<entry, mapped, hooks, addresses, attached>>
  BY DEF Enter
<1> QED
  BY <1>5, <1>6 DEF DispatchInv, HooksInv

LEMMA RunKeepsInv ==
  ASSUME DispatchInv, NEW t \in Threads, Run(t)
  PROVE  DispatchInv'
<1>0. /\ Top(t) \in Activations /\ mapped \subseteq Methods
      /\ Top(t).mode = "native" <=> Top(t).body \in NativeBodies
  <2>1. Top(t) \in Activations /\ Sound(stack[t], Len(stack[t]))
    BY DEF DispatchInv, StackInv, Top
  <2> QED
    BY <2>1 DEF Sound, Top, DispatchInv, HooksInv
<1>1. ASSUME NEW body \in {"java", "native"}, CallOther(t, body)
      PROVE  DispatchInv'
  BY <1>1, EnterKeepsStacks DEF CallOther
<1>2. ASSUME NEW m \in Methods, CallOverride(t, m)
      PROVE  DispatchInv'
  BY <1>2, EnterKeepsStacks DEF CallOverride
<1>3. ASSUME NEW m \in Methods, Call(t, m)
      PROVE  DispatchInv'
  <2> DEFINE body == Dispatch(m, Top(t))
             receiver == IF Top(t).body = "override" THEN "derived" ELSE "base"
  <2>1. body \in {"callback", "original"} /\ receiver \in {"base", "derived"}
    BY DEF Dispatch
  <2>2. m \in mapped /\ \E mode \in Modes(body) : Enter(t, body, m, mode, receiver, "call")
    BY <1>3 DEF Call
  <2>3. body = "original" => AttachMayFail \/ Linked(Top(t)).frame = m
    BY <2>2, OriginalTakesItsFrame DEF DispatchInv
  <2> QED
    BY <2>1, <2>2, <2>3, EnterKeepsStacks
<1>4. ASSUME NEW m \in Methods, CallOriginal(t, m)
      PROVE  DispatchInv'
  <2> DEFINE body == IF Top(t).receiver = "derived" THEN "override" ELSE Dispatch(m, Top(t))
  <2>1. /\ Top(t).body = "callback" /\ Top(t).method = m /\ Top(t).receiver \in {"base", "derived"}
        /\ \E mode \in Modes(body) : Enter(t, body, m, mode, Top(t).receiver, "original")
    BY <1>0, <1>4 DEF CallOriginal, Activations
  <2>2. Top(t).mode = "native" /\ Dispatch(m, Top(t)) = "original" /\ Linked(Top(t)).frame = m
    BY <1>0, <2>1, CallbackReachesOriginal DEF NativeBodies, Linked, Frame
  <2>3. /\ body \in {"override", "original"}
        /\ Top(t).receiver = "base" => body = "original"
    BY <2>1, <2>2
  <2> QED
    BY <2>1, <2>2, <2>3, EnterKeepsStacks
<1>5. CASE Return(t)
  <2>1. StackInv(SubSeq(stack[t], 1, Len(stack[t]) - 1))
    BY <1>5, PopKeepsStack DEF Return, DispatchInv
  <2> QED
    BY <1>5, <2>1 DEF Return, DispatchInv, HooksInv
<1> QED
  BY <1>1, <1>2, <1>3, <1>4, <1>5 DEF Run

LEMMA HooksStep ==
  ASSUME DispatchInv,
         \/ EnsureHooks \/ \E n \in 1 .. 4 : EnsureQuickHooks(n)
         \/ \E m \in Methods : Patch(m) \/ Unpatch(m) \/ ResetEntry(m)
         \/ UNCHANGED vars
  PROVE  DispatchInv'
<1> USE DEF DispatchInv, HooksInv
<1>1. CASE EnsureHooks
  BY <1>1 DEF EnsureHooks
<1>2. ASSUME NEW n \in 1 .. 4, EnsureQuickHooks(n)
      PROVE  DispatchInv'
  <2>1. UNCHANGED <<stack, entry, mapped, hooks>> /\ addresses # TrampolineSet
    BY <1>2 DEF EnsureQuickHooks
  <2>2. AttachMayFail \/ attached' = addresses'
    <3>1. CASE n <= 3
      BY <1>2, <3>1 DEF EnsureQuickHooks
    <3>2. CASE n = 4
      BY <1>2, <3>2 DEF EnsureQuickHooks
    <3> QED
      BY <3>1, <3>2
  <2> QED
    BY <2>1, <2>2
<1>3. ASSUME NEW m \in Methods, Patch(m) \/ Unpatch(m) \/ ResetEntry(m)
      PROVE  DispatchInv'
  BY <1>3 DEF Patch, Unpatch, ResetEntry
<1>4. CASE UNCHANGED vars
  BY <1>4 DEF vars
<1> QED
  BY <1>1, <1>2, <1>3, <1>4

LEMMA InitDispatch == Init => DispatchInv
<1> SUFFICES ASSUME Init PROVE DispatchInv
  OBVIOUS
<1>1. HooksInv
  BY DEF Init, HooksInv
<1>2. Base \in Activations
  BY DEF Base, Activation, Activations, NativeBodies, ManagedBodies, NullFrame, Frame
<1>3. StackInv(<<Base>>)
  BY <1>2 DEF StackInv, Sound, Base, Activation, NativeBodies
<1> QED
  BY <1>1, <1>3 DEF Init, DispatchInv

LEMMA DispatchInvariant == Spec => []DispatchInv
<1>1. DispatchInv /\ [Next]_vars => DispatchInv'
  BY RunKeepsInv, HooksStep DEF Next
<1> QED
  BY <1>1, InitDispatch, PTL DEF Spec

-----------------------------------------------------------------------------
LEMMA CalledFromCallback ==
  ASSUME NEW t \in Threads, StackInv(stack[t]), NEW i \in 2 .. Len(stack[t]), NEW m,
         RunsUnder(stack[t], i, m)
  PROVE  CalledFrom(t, i).body = "callback" /\ CalledFrom(t, i).method = m
<1> DEFINE s == stack[t]
           natives == {j \in 1 .. i - 1 : s[j].mode = "native"}
<1>1. PICK j \in 1 .. i - 1 :
        /\ s[j].body = "callback" /\ s[j].method = m
        /\ \A k \in j + 1 .. i - 1 : s[k].mode # "native"
  BY DEF RunsUnder
<1>2. s[j].mode = "native" /\ Len(s) \in Nat
  BY <1>1 DEF StackInv, Sound, NativeBodies
<1>3. j \in natives /\ \A k \in natives : k <= j
  BY <1>1, <1>2
<1>4. \A c \in natives : (\A k \in natives : k <= c) => c = j
  BY <1>3
<1>5. (CHOOSE c \in natives : \A k \in natives : k <= c) = j
  BY <1>3, <1>4
<1> QED
  BY <1>1, <1>5 DEF CalledFrom

(* If no attach to a trampoline fails, a replaced method's own code runs   *)
(* only in managed code its callback called, for any threads, methods and  *)
(* depth of the stacks: whatever entrypoint ART puts back, thunk or hook   *)
(* finds the frame that tells the callback's calls from all others.        *)
THEOREM OriginalsRunUnderCallbacks ==
  ASSUME ~AttachMayFail
  PROVE  Spec => []OriginalRunsUnderItsCallback
<1>1. DispatchInv => OriginalRunsUnderItsCallback
  <2> SUFFICES ASSUME DispatchInv, NEW t \in Threads, NEW i \in 2 .. Len(stack[t]),
                      stack[t][i].body = "original"
               PROVE  LET c == CalledFrom(t, i) IN
                      c.body = "callback" /\ c.method = stack[t][i].method
    BY DEF OriginalRunsUnderItsCallback
  <2>1. StackInv(stack[t]) /\ RunsUnder(stack[t], i, stack[t][i].method)
    BY DEF DispatchInv, StackInv, Sound
  <2> QED
    BY <2>1, CalledFromCallback
<1> QED
  BY <1>1, DispatchInvariant, PTL

(* Whether or not an attach fails, call_original reaches the original when *)
(* the receiver's class does not override it: thunk and hooks agree about  *)
(* the frame of the callback that makes the call.                          *)
THEOREM OriginalsAreReached == Spec => []OriginalIsReached
<1>1. DispatchInv => OriginalIsReached
  BY DEF DispatchInv, StackInv, Sound, OriginalIsReached
<1> QED
  BY <1>1, DispatchInvariant, PTL

-----------------------------------------------------------------------------
(* Texts.                                                                   *)
LEMMA TokensArePlain == IsPlain(Tokens)
<1>1. PICK s : s = Semicolon
  OBVIOUS
<1>2. Tokens = {"I", "V", "[", "L", "a", "/", "(", ")"} \cup {s}
  BY <1>1, Zenon DEF Tokens, Semicolon
<1>3. s \notin {".", "[]"} \cup Words
  <2>1. Semicolon \notin {".", "[]"} \cup {"boolean", "byte", "char", "short", "int", "long", "float", "double", "void"}
    BY Zenon DEF Semicolon
  <2>2. Words = {"boolean", "byte", "char", "short", "int", "long", "float", "double", "void"}
    BY PrimsAre
  <2> QED
    BY <1>1, <2>1, <2>2, Zenon
<1>4. {"I", "V", "[", "L", "a", "/", "(", ")"} \cap ({".", "[]"} \cup Words) = {}
  BY PrimsAre
<1> QED
  BY <1>2, <1>3, <1>4 DEF IsPlain

(* A text, query or pattern that is sampled has one meaning, which is the  *)
(* one that parsers, printers, lookups and matching give it.               *)
THEOREM TextsAlwaysMeanOneType == BridgeSpec => []TextsMeanOneType
<1>1. ASSUME InputsAreDrawn, of = "text"
      PROVE  ParsesDescriptors(input) /\ PrintsMethods(input) /\ NamesAgree(input)
  <2>1. input \in TextInputs
    <3>1. input \in Inputs("text")
      BY <1>1, PartsDiffer DEF Sampled
    <3> QED
      BY <3>1 DEF Inputs
  <2>2. PICK A : A = Tokens
    OBVIOUS
  <2>3. IsPlain(A) /\ input \in BoundedSeq(A, 4)
    BY <2>1, <2>2, TokensArePlain, Zenon DEF TextInputs
  <2>4. BoundedSeq(A, 4) \subseteq Seq(A)
    BY BoundedAreSequences
  <2>5. input \in Seq(A)
    BY <2>3, <2>4
  <2> QED
    BY <2>3, <2>5, DescriptorsAlwaysParse, MethodsAlwaysPrint, NamesAlwaysAgree
<1>2. ASSUME InputsAreDrawn, of = "query"
      PROVE  QueriesAreRead(input.class, input.method, input.modifiers)
  <2>1. input \in QueryInputs
    <3>1. input \in Inputs("query")
      BY <1>2, PartsDiffer DEF Sampled
    <3> QED
      BY <3>1 DEF Inputs
  <2>2. PICK A : A = {"a", "*", "!"} \cup {"a", "/", "i"}
    OBVIOUS
  <2>3. /\ BoundedSeq({"a", "*", "!"}, 2) \subseteq Seq({"a", "*", "!"})
        /\ BoundedSeq({"a", "/", "i"}, 3) \subseteq Seq({"a", "/", "i"})
        /\ BoundedSeq(Modifiers, 2) \subseteq Seq(Modifiers)
    BY BoundedAreSequences
  <2>4. /\ input.class \in Seq({"a", "*", "!"}) /\ input.method \in Seq({"a", "/", "i"})
        /\ input.modifiers \in Seq(Modifiers)
    BY <2>1, <2>3 DEF QueryInputs
  <2>5. {"a", "*", "!"} \subseteq A /\ {"a", "/", "i"} \subseteq A
    BY <2>2
  <2>6. input.class \in Seq(A) /\ input.method \in Seq(A)
    BY <2>4, <2>5, SequencesOfMore, SMTT(60)
  <2> QED
    BY <2>4, <2>6, QueriesAreAlwaysRead
<1>3. ASSUME InputsAreDrawn, of = "glob", NEW v \in GlobValues
      PROVE  GlobMatches(input, v) <=> Stands(input, v)
  <2>1. input \in GlobInputs
    <3>1. input \in Inputs("glob")
      BY <1>3, PartsDiffer DEF Sampled
    <3> QED
      BY <3>1 DEF Inputs
  <2>2. /\ BoundedSeq({"*", "?", "a", "b"}, 3) \subseteq Seq({"*", "?", "a", "b"})
        /\ BoundedSeq({"a", "b"}, 4) \subseteq Seq({"a", "b"})
    BY BoundedAreSequences
  <2>3. input \in Seq({"*", "?", "a", "b"}) /\ v \in Seq({"a", "b"})
    BY <2>1, <2>2 DEF GlobInputs, GlobValues
  <2>4. IsGlob(input, v)
    <3>1. Len(input) \in Nat /\ Len(v) \in Nat /\ \A i \in 1 .. Len(v) : v[i] \in {"a", "b"}
      BY <2>3
    <3> QED
      BY <3>1 DEF IsGlob
  <2> QED
    BY <2>4, GlobsAlwaysMatch
<1>4. InputsAreDrawn => TextsMeanOneType
  BY <1>1, <1>2, <1>3 DEF TextsMeanOneType
<1> QED
  BY <1>4, DrawnInputs, PTL

-----------------------------------------------------------------------------
(* Finite sets.                                                            *)
LEMMA ImageIsFinite ==
  ASSUME NEW D, IsFiniteSet(D), NEW T, NEW f \in [D -> T]
  PROVE  IsFiniteSet({f[x] : x \in D})
<1>1. PICK R : R = {f[x] : x \in D}
  OBVIOUS
<1>2. f \in Surjection(D, R)
  BY <1>1 DEF Surjection
<1>3. IsFiniteSet(R)
  BY <1>2, FS_Surjection
<1> QED
  BY <1>1, <1>3

\* a finite set of numbers has a least one
LEMMA MinIs ==
  ASSUME NEW D \in SUBSET Int, IsFiniteSet(D), D # {}
  PROVE  Min(D) \in D
<1> DEFINE Having == {n \in Nat : \A E \in SUBSET Int :
                        IsFiniteSet(E) /\ Cardinality(E) = n + 1 => \E x \in E : \A y \in E : x <= y}
<1>1. 0 \in Having
  <2> SUFFICES ASSUME NEW E \in SUBSET Int, IsFiniteSet(E), Cardinality(E) = 0 + 1
               PROVE  \E x \in E : \A y \in E : x <= y
    OBVIOUS
  <2>1. PICK x : E = {x}
    <3>1. Cardinality(E) = 1
      OBVIOUS
    <3>2. \A S : IsFiniteSet(S) => (Cardinality(S) = 1 <=> \E x : S = {x})
      BY FS_Singleton
    <3> QED
      BY <3>1, <3>2
  <2> QED
    BY <2>1
<1>2. ASSUME NEW n \in Having PROVE n + 1 \in Having
  <2> SUFFICES ASSUME NEW E \in SUBSET Int, IsFiniteSet(E), Cardinality(E) = (n + 1) + 1
               PROVE  \E x \in E : \A y \in E : x <= y
    OBVIOUS
  <2>1. PICK z : z \in E
    BY FS_EmptySet
  <2>2. IsFiniteSet(E \ {z}) /\ Cardinality(E \ {z}) = n + 1 /\ E \ {z} \in SUBSET Int
    BY <2>1, FS_RemoveElement
  <2>3. PICK x \in E \ {z} : \A y \in E \ {z} : x <= y
    BY <2>2
  <2>4. x \in Int /\ z \in Int
    BY <2>1, <2>3
  <2> QED
    BY <2>1, <2>3, <2>4
<1>3. Having = Nat
  <2>1. Having \in SUBSET Nat
    OBVIOUS
  <2> HIDE DEF Having
  <2> QED
    BY <1>1, <1>2, <2>1, Induction
<1>4. PICK n \in Nat : Cardinality(D) = n + 1
  <2>1. Cardinality(D) \in Nat /\ Cardinality(D) # 0
    BY FS_CardinalityType, FS_EmptySet
  <2> QED
    BY <2>1
<1>5. \E x \in D : \A y \in D : x <= y
  BY <1>3, <1>4
<1> QED
  BY <1>5 DEF Min

\* a loop that ends wherever it may get to: the recursion has a solution
Loops(f, W, E, G) ==
  f \in [W -> W] /\ \A w \in W : f[w] = IF w \in E THEN w ELSE f[G[w]]
LEMMA LoopIsSolved ==
  ASSUME NEW W, NEW E, NEW G \in [W -> W]
  PROVE  \E f : Loops(f, W, E, G)
<1> DEFINE Chain(s, n) == /\ s \in [0 .. n -> W]
                          /\ \A i \in 0 .. n - 1 : s[i] \notin E /\ s[i + 1] = G[s[i]]
                          /\ s[n] \in E
           Reaches(w) == {v \in W : \E n \in Nat : \E s : Chain(s, n) /\ s[0] = w /\ s[n] = v}
           f == [w \in W |-> IF Reaches(w) = {} THEN CHOOSE v \in W : TRUE ELSE CHOOSE v \in Reaches(w) : TRUE]
<1>1. ASSUME NEW w \in W, w \in E PROVE Reaches(w) = {w}
  <2>1. w \in Reaches(w)
    <3>1. PICK s : s = [i \in 0 .. 0 |-> w]
      OBVIOUS
    <3>2. Chain(s, 0) /\ s[0] = w
      BY <1>1, <3>1
    <3> HIDE DEF Chain
    <3> QED
      BY <3>2
  <2>2. ASSUME NEW v \in Reaches(w) PROVE v = w
    <3>1. PICK n \in Nat : \E s : Chain(s, n) /\ s[0] = w /\ s[n] = v
      BY <2>2
    <3>2. PICK s : Chain(s, n) /\ s[0] = w /\ s[n] = v
      BY <3>1
    <3>3. n = 0
      <4> SUFFICES ASSUME n # 0 PROVE FALSE
        OBVIOUS
      <4>1. 0 \in 0 .. n - 1
        OBVIOUS
      <4> QED
        BY <1>1, <3>2, <4>1
    <3> QED
      BY <3>2, <3>3
  <2> HIDE DEF Reaches
  <2> QED
    BY <2>1, <2>2
<1>2. ASSUME NEW w \in W, w \notin E PROVE Reaches(w) = Reaches(G[w])
  <2>1. ASSUME NEW v \in Reaches(w) PROVE v \in Reaches(G[w])
    <3>1. PICK n \in Nat : \E s : Chain(s, n) /\ s[0] = w /\ s[n] = v
      BY <2>1
    <3>2. PICK s : Chain(s, n) /\ s[0] = w /\ s[n] = v
      BY <3>1
    <3>3. n # 0
      BY <1>2, <3>2
    <3>4. PICK t : t = [i \in 0 .. n - 1 |-> s[i + 1]]
      OBVIOUS
    <3>5. Chain(t, n - 1) /\ t[0] = G[w] /\ t[n - 1] = v
      BY <3>2, <3>3, <3>4
    <3>6. n - 1 \in Nat /\ v \in W
      BY <2>1, <3>3
    <3> HIDE DEF Chain
    <3> QED
      BY <3>5, <3>6
  <2>2. ASSUME NEW v \in Reaches(G[w]) PROVE v \in Reaches(w)
    <3>1. PICK n \in Nat : \E s : Chain(s, n) /\ s[0] = G[w] /\ s[n] = v
      BY <2>2
    <3>2. PICK s : Chain(s, n) /\ s[0] = G[w] /\ s[n] = v
      BY <3>1
    <3>3. PICK t : t = [i \in 0 .. n + 1 |-> IF i = 0 THEN w ELSE s[i - 1]]
      OBVIOUS
    <3>4. Chain(t, n + 1) /\ t[0] = w /\ t[n + 1] = v
      <4>1. t \in [0 .. n + 1 -> W]
        BY <3>2, <3>3
      <4>2. ASSUME NEW i \in 0 .. n PROVE t[i] \notin E /\ t[i + 1] = G[t[i]]
        <5>1. CASE i = 0
          BY <1>2, <3>2, <3>3, <5>1
        <5>2. CASE i # 0
          <6>1. i - 1 \in 0 .. n - 1 /\ (i - 1) + 1 = i /\ i + 1 \in 0 .. n + 1 /\ (i + 1) - 1 = i
            BY <5>2
          <6> QED
            BY <3>2, <3>3, <5>2, <6>1
        <5> QED
          BY <5>1, <5>2
      <4>3. t[n + 1] = s[n] /\ t[0] = w
        BY <3>3
      <4> QED
        BY <3>2, <4>1, <4>2, <4>3
    <3>5. v \in W /\ n + 1 \in Nat
      BY <2>2
    <3> HIDE DEF Chain
    <3> QED
      BY <3>4, <3>5
  <2> HIDE DEF Reaches
  <2> QED
    BY <2>1, <2>2
<1>3. \A w \in W : Reaches(w) \subseteq W
  OBVIOUS
<1> HIDE DEF Reaches
<1>4. f \in [W -> W]
  <2> SUFFICES ASSUME NEW w \in W PROVE f[w] \in W
    OBVIOUS
  <2>1. CASE Reaches(w) = {}
    BY <2>1
  <2>2. CASE Reaches(w) # {}
    BY <1>3, <2>2
  <2> QED
    BY <2>1, <2>2
<1>5. ASSUME NEW w \in W PROVE f[w] = IF w \in E THEN w ELSE f[G[w]]
  <2>1. CASE w \in E
    BY <1>1, <2>1
  <2>2. CASE w \notin E
    <3>1. G[w] \in W /\ Reaches(w) = Reaches(G[w])
      BY <1>2, <2>2
    <3> QED
      BY <2>2, <3>1
  <2> QED
    BY <2>1, <2>2
<1> HIDE DEF f
<1> QED
  BY <1>4, <1>5 DEF Loops

-----------------------------------------------------------------------------
(* Blocks of code that has to do with the recompiler: finitely many        *)
(* instructions, at addresses that are numbers, as are their targets.      *)
IsCode(code) ==
  /\ IsFiniteSet(DOMAIN code) /\ DOMAIN code \subseteq Int
  /\ \A a \in DOMAIN code : HasTarget(code[a]) => code[a].target \in Int

StopsAt(code, next, begin, end) ==
  end \notin DOMAIN code \/ end = next \/ (end > begin /\ EndsBlock(code[end - 1]))
IsBlockEnd(code, next, begin, end) ==
  /\ end \in Int /\ end >= begin
  /\ StopsAt(code, next, begin, end)
  /\ \A a \in begin .. end - 1 : a \in DOMAIN code /\ ~StopsAt(code, next, begin, a)

LEMMA BlocksEnd ==
  ASSUME NEW code, IsCode(code), NEW next \in Int, NEW begin \in DOMAIN code
  PROVE  IsBlockEnd(code, next, begin, BlockEnd(code, next, begin))
<1> DEFINE Stops == {n \in Nat : StopsAt(code, next, begin, begin + n)}
<1>0. begin \in Int /\ IsFiniteSet(DOMAIN code)
  BY DEF IsCode
<1>1. Stops # {}
  <2>1. PICK k \in Nat : k = Cardinality(DOMAIN code)
    BY <1>0, FS_CardinalityType
  <2>2. PICK e \in begin .. begin + k : e \notin DOMAIN code
    <3> SUFFICES ASSUME begin .. begin + k \in SUBSET DOMAIN code PROVE FALSE
      OBVIOUS
    <3>1. Cardinality(begin .. begin + k) <= k
      BY <1>0, <2>1, FS_Subset
    <3>2. Cardinality(begin .. begin + k) = (begin + k) - begin + 1
      <4>1. begin + k \in Int /\ ~(begin > begin + k)
        BY <1>0
      <4> QED
        BY <1>0, <4>1, FS_Interval
    <3> QED
      BY <1>0, <3>1, <3>2
  <2>3. e - begin \in Nat /\ begin + (e - begin) = e
    BY <1>0
  <2> QED
    BY <2>2, <2>3 DEF StopsAt
<1>2. PICK n \in Stops : \A m \in Stops : n <= m
  <2>1. Stops \in SUBSET Nat
    OBVIOUS
  <2> HIDE DEF Stops
  <2> QED
    BY <1>1, <2>1, LeastOf
<1>3. PICK e \in Int : e = begin + n /\ n \in Nat
  BY <1>0
<1>4. IsBlockEnd(code, next, begin, e)
  <2>1. ASSUME NEW a \in begin .. e - 1 PROVE a \in DOMAIN code /\ ~StopsAt(code, next, begin, a)
    <3>1. a - begin \in Nat /\ begin + (a - begin) = a /\ ~(n <= a - begin)
      BY <1>0, <1>3
    <3>2. ~StopsAt(code, next, begin, a)
      BY <1>2, <3>1
    <3> QED
      BY <3>2 DEF StopsAt
  <2> QED
    BY <1>0, <1>2, <1>3, <2>1 DEF IsBlockEnd
<1>5. e \in {begin} \cup {a + 1 : a \in DOMAIN code}
  <2> SUFFICES ASSUME e # begin PROVE \E a \in DOMAIN code : e = a + 1
    OBVIOUS
  <2>1. e - 1 \in begin .. e - 1 /\ e = (e - 1) + 1
    BY <1>0, <1>3
  <2>2. e - 1 \in DOMAIN code
    BY <1>4, <2>1 DEF IsBlockEnd
  <2> QED
    BY <2>1, <2>2
<1> DEFINE Is(end) == /\ end >= begin
                      /\ end \notin DOMAIN code \/ end = next \/ (end > begin /\ EndsBlock(code[end - 1]))
                      /\ \A a \in begin .. end - 1 :
                           /\ a \in DOMAIN code /\ a # next
                           /\ a > begin => ~EndsBlock(code[a - 1])
<1>6. BlockEnd(code, next, begin) = CHOOSE end \in {begin} \cup {a + 1 : a \in DOMAIN code} : Is(end)
  BY Zenon DEF BlockEnd
<1>7. Is(e)
  BY <1>4 DEF IsBlockEnd, StopsAt
<1>8. \A end \in {begin} \cup {a + 1 : a \in DOMAIN code} : end \in Int
  BY <1>0 DEF IsCode
<1>9. ASSUME NEW end \in Int, Is(end) PROVE IsBlockEnd(code, next, begin, end)
  BY <1>9 DEF IsBlockEnd, StopsAt
<1> HIDE DEF Is
<1>10. PICK f : f = BlockEnd(code, next, begin) /\ f \in {begin} \cup {a + 1 : a \in DOMAIN code} /\ Is(f)
  BY <1>5, <1>6, <1>7
<1> QED
  BY <1>8, <1>9, <1>10

\* a block that was collected
IsBlock(code, next, b) ==
  /\ b \in [begin : Int, end : Int]
  /\ b.begin \in DOMAIN code /\ b.end = BlockEnd(code, next, b.begin) /\ b.end # b.begin

LEMMA BlockIs ==
  ASSUME NEW code, IsCode(code), NEW next \in Int, NEW b, IsBlock(code, next, b)
  PROVE  /\ b \in [begin : Int, end : Int] /\ b.end > b.begin
         /\ IsBlockEnd(code, next, b.begin, b.end)
         /\ \A a \in b.begin .. b.end - 1 : a \in DOMAIN code
<1>1. IsBlockEnd(code, next, b.begin, b.end)
  BY BlocksEnd DEF IsBlock
<1> QED
  BY <1>1 DEF IsBlock, IsBlockEnd

\* two blocks that begin at one address are one
LEMMA BlocksDiffer ==
  ASSUME NEW code, NEW next, NEW b, NEW c, IsBlock(code, next, b), IsBlock(code, next, c), b.begin = c.begin
  PROVE  b = c
BY DEF IsBlock

(* Code that ends does not run out of a block that was collected.          *)
LEMMA BlocksGoOn ==
  ASSUME NEW code, IsCode(code), NEW next \in Int, Ends(code, next), NEW b, IsBlock(code, next, b),
         NEW a \in b.begin .. b.end - 1, ~EndsBlock(code[a])
  PROVE  a < b.end - 1
<1>1. b.begin \in Int /\ b.end \in Int /\ a \in DOMAIN code
  BY BlockIs
<1>2. SUFFICES ASSUME a = b.end - 1 PROVE FALSE
  BY <1>1
<1>3. a + 1 = b.end /\ b.end - 1 = a
  BY <1>1, <1>2
<1>4. StopsAt(code, next, b.begin, b.end)
  BY BlockIs DEF IsBlockEnd
<1>5. b.end \notin DOMAIN code \/ b.end = next
  BY <1>3, <1>4 DEF StopsAt
<1> QED
  BY <1>1, <1>3, <1>5 DEF Ends

LEMMA TargetsAre ==
  ASSUME NEW code, IsCode(code), NEW next \in Int, NEW b, IsBlock(code, next, b)
  PROVE  /\ TargetsIn(code, b.begin, b.end) \subseteq Int
         /\ IsFiniteSet(TargetsIn(code, b.begin, b.end))
<1>1. PICK D : D = {a \in b.begin .. b.end - 1 : HasTarget(code[a])}
  OBVIOUS
<1>2. D \subseteq DOMAIN code
  BY <1>1, BlockIs
<1>3. IsFiniteSet(D)
  BY <1>2, FS_Subset DEF IsCode
<1>4. PICK f : f = [a \in D |-> code[a].target]
  OBVIOUS
<1>5. f \in [D -> Int]
  BY <1>1, <1>2, <1>4 DEF IsCode
<1>6. TargetsIn(code, b.begin, b.end) = {f[a] : a \in D}
  BY <1>1, <1>4 DEF TargetsIn
<1>7. IsFiniteSet({f[a] : a \in D})
  BY <1>3, <1>5, ImageIsFinite
<1>8. {f[a] : a \in D} \subseteq Int
  BY <1>5
<1> QED
  BY <1>6, <1>7, <1>8

-----------------------------------------------------------------------------
(* The loop that collects blocks.                                          *)
Worklists == [pending : SUBSET Int, blocks : SUBSET [begin : Int, end : Int], targets : SUBSET Int]
Nothing == [pending |-> {}, blocks |-> {}, targets |-> {}]
Covers(blocks, a) == \E b \in blocks : a \in b.begin .. b.end - 1

Collects(code, origin, next, w) ==
  /\ w \in Worklists /\ IsFiniteSet(w.pending)
  /\ \A b \in w.blocks : IsBlock(code, next, b) /\ TargetsIn(code, b.begin, b.end) \subseteq w.targets
  /\ \A t \in w.targets : t \in w.pending \/ Covers(w.blocks, t)
  /\ (\E b \in w.blocks : b.begin = origin) \/ (w.blocks = {} /\ w.pending = {origin})

Begins(w) == {b.begin : b \in w.blocks}

\* a turn fails, or takes an address off, or adds a block that begins elsewhere
Takes(w, v) == v.blocks = w.blocks /\ \E a \in w.pending : v.pending = w.pending \ {a}
Adds(code, w, v) == \E a \in DOMAIN code : a \notin Begins(w) /\ Begins(v) = Begins(w) \cup {a}

LEMMA CollectNextStays ==
  ASSUME NEW code, IsCode(code), NEW next \in Int, NEW w \in Worklists
  PROVE  CollectNext(code, next, w) \in Worklists
<1>1. PICK begin : begin = Min(w.pending)
  OBVIOUS
<1>2. PICK rest : rest = w.pending \ {begin}
  OBVIOUS
<1>3. PICK end : end = BlockEnd(code, next, begin)
  OBVIOUS
<1>4. PICK targeted : targeted = TargetsIn(code, begin, end)
  OBVIOUS
<1>5. rest \subseteq Int /\ w.blocks \subseteq [begin : Int, end : Int] /\ w.targets \subseteq Int
  BY <1>2 DEF Worklists
<1>6. CollectNext(code, next, w) =
        IF \E b \in w.blocks : begin \in b.begin .. b.end - 1 THEN [w EXCEPT !.pending = rest]
        ELSE IF begin \notin DOMAIN code \/ end = begin THEN Nothing
        ELSE [pending |-> rest \cup targeted, blocks |-> w.blocks \cup {[begin |-> begin, end |-> end]},
              targets |-> w.targets \cup targeted]
  BY <1>1, <1>2, <1>3, <1>4, Zenon DEF CollectNext, Nothing
<1>7. [w EXCEPT !.pending = rest] \in Worklists
  BY <1>5 DEF Worklists
<1>8. Nothing \in Worklists
  BY DEF Nothing, Worklists
<1>9. ASSUME begin \in DOMAIN code, end # begin
      PROVE  [pending |-> rest \cup targeted, blocks |-> w.blocks \cup {[begin |-> begin, end |-> end]},
              targets |-> w.targets \cup targeted] \in Worklists
  <2>1. begin \in Int /\ end \in Int
    BY <1>3, <1>9, BlocksEnd DEF IsCode, IsBlockEnd
  <2>2. PICK b : b = [begin |-> begin, end |-> end]
    OBVIOUS
  <2>3. IsBlock(code, next, b) /\ b.begin = begin /\ b.end = end
    BY <1>3, <1>9, <2>1, <2>2 DEF IsBlock
  <2>4. targeted \subseteq Int
    BY <1>4, <2>3, TargetsAre
  <2>5. rest \cup targeted \subseteq Int /\ w.targets \cup targeted \subseteq Int
    BY <1>5, <2>4
  <2>6. w.blocks \cup {[begin |-> begin, end |-> end]} \subseteq [begin : Int, end : Int]
    BY <1>5, <2>1
  <2> QED
    BY <2>5, <2>6 DEF Worklists
<1> QED
  BY <1>6, <1>7, <1>8, <1>9, Zenon

LEMMA CollectNextKeeps ==
  ASSUME NEW code, IsCode(code), NEW origin \in Int, NEW next \in Int,
         NEW w, Collects(code, origin, next, w), w.pending # {},
         NEW v, v = CollectNext(code, next, w)
  PROVE  v = Nothing \/ (Collects(code, origin, next, v) /\ (Takes(w, v) \/ Adds(code, w, v)))
<1>1. PICK begin : begin = Min(w.pending)
  OBVIOUS
<1>2. PICK rest : rest = w.pending \ {begin}
  OBVIOUS
<1>3. PICK end : end = BlockEnd(code, next, begin)
  OBVIOUS
<1>4. PICK targeted : targeted = TargetsIn(code, begin, end)
  OBVIOUS
<1>5. /\ w \in Worklists /\ IsFiniteSet(w.pending) /\ w.pending \subseteq Int
      /\ \A b \in w.blocks : IsBlock(code, next, b) /\ TargetsIn(code, b.begin, b.end) \subseteq w.targets
      /\ \A t \in w.targets : t \in w.pending \/ Covers(w.blocks, t)
      /\ (\E b \in w.blocks : b.begin = origin) \/ (w.blocks = {} /\ w.pending = {origin})
  BY DEF Collects, Worklists
<1>6. begin \in w.pending /\ begin \in Int
  BY <1>1, <1>5, MinIs
<1>7. IsFiniteSet(rest)
  BY <1>2, <1>5, FS_RemoveElement
<1>8. v = IF \E b \in w.blocks : begin \in b.begin .. b.end - 1 THEN [w EXCEPT !.pending = rest]
          ELSE IF begin \notin DOMAIN code \/ end = begin THEN Nothing
          ELSE [pending |-> rest \cup targeted, blocks |-> w.blocks \cup {[begin |-> begin, end |-> end]},
                targets |-> w.targets \cup targeted]
  BY <1>1, <1>2, <1>3, <1>4, Zenon DEF CollectNext, Nothing
<1>9. v \in Worklists
  BY <1>5, CollectNextStays
<1>10. CASE Covers(w.blocks, begin)
  <2>1. v = [w EXCEPT !.pending = rest]
    BY <1>8, <1>10 DEF Covers
  <2>2. v.pending = rest /\ v.blocks = w.blocks /\ v.targets = w.targets
    BY <1>5, <2>1 DEF Worklists
  <2>3. \A t \in v.targets : t \in v.pending \/ Covers(v.blocks, t)
    BY <1>2, <1>5, <1>10, <2>2
  <2>4. \E b \in v.blocks : b.begin = origin
    BY <1>5, <1>10, <2>2 DEF Covers
  <2>5. Collects(code, origin, next, v)
    BY <1>5, <1>7, <1>9, <2>2, <2>3, <2>4 DEF Collects
  <2>6. Takes(w, v)
    BY <1>2, <1>6, <2>2 DEF Takes
  <2> QED
    BY <2>5, <2>6
<1>11. CASE ~Covers(w.blocks, begin) /\ (begin \notin DOMAIN code \/ end = begin)
  BY <1>8, <1>11 DEF Covers
<1>12. CASE ~Covers(w.blocks, begin) /\ begin \in DOMAIN code /\ end # begin
  <2>1. PICK b : b = [begin |-> begin, end |-> end]
    OBVIOUS
  <2>2. b.begin = begin /\ b.end = end
    BY <2>1
  <2>3. v.pending = rest \cup targeted /\ v.blocks = w.blocks \cup {b} /\ v.targets = w.targets \cup targeted
    BY <1>8, <1>12, <2>1 DEF Covers
  <2>4. IsBlock(code, next, b)
    <3>1. end \in Int
      BY <1>3, <1>12, BlocksEnd DEF IsBlockEnd
    <3> QED
      BY <1>3, <1>6, <1>12, <2>1, <2>2, <3>1 DEF IsBlock
  <2>5. IsFiniteSet(targeted) /\ targeted = TargetsIn(code, b.begin, b.end)
    BY <1>4, <2>2, <2>4, TargetsAre
  <2>6. IsFiniteSet(v.pending)
    <3>1. IsFiniteSet(rest \cup targeted)
      BY <1>7, <2>5, FS_Union
    <3> QED
      BY <2>3, <3>1
  <2>7. begin \in b.begin .. b.end - 1
    <3>1. b.end > b.begin /\ b.begin \in Int /\ b.end \in Int
      BY <2>4, BlockIs
    <3> QED
      BY <2>2, <3>1
  <2>8. ASSUME NEW t \in v.targets PROVE t \in v.pending \/ Covers(v.blocks, t)
    <3>1. CASE t \in targeted
      BY <2>3, <3>1
    <3>2. CASE t \in w.targets /\ t = begin
      BY <2>3, <2>7, <3>2 DEF Covers
    <3>3. CASE t \in w.targets /\ t # begin
      <4>1. t \in w.pending \/ Covers(w.blocks, t)
        BY <1>5, <3>3
      <4> QED
        BY <1>2, <2>3, <3>3, <4>1 DEF Covers
    <3> QED
      BY <2>3, <3>1, <3>2, <3>3
  <2>9. \E c \in v.blocks : c.begin = origin
    BY <1>5, <1>6, <2>2, <2>3
  <2>10. \A c \in v.blocks : IsBlock(code, next, c) /\ TargetsIn(code, c.begin, c.end) \subseteq v.targets
    BY <1>5, <2>3, <2>4, <2>5
  <2>11. Collects(code, origin, next, v)
    BY <1>9, <2>6, <2>8, <2>9, <2>10 DEF Collects
  <2>12. begin \notin Begins(w)
    <3> SUFFICES ASSUME NEW c \in w.blocks, c.begin = begin PROVE FALSE
      BY DEF Begins
    <3>1. c.end > c.begin /\ c.begin \in Int /\ c.end \in Int
      BY <1>5, BlockIs
    <3>2. begin \in c.begin .. c.end - 1
      BY <3>1
    <3> QED
      BY <1>12, <3>2 DEF Covers
  <2>13. Begins(v) = Begins(w) \cup {begin}
    BY <2>2, <2>3 DEF Begins
  <2> QED
    BY <1>12, <2>11, <2>12, <2>13 DEF Adds
<1> QED
  BY <1>10, <1>11, <1>12

-----------------------------------------------------------------------------
\* what the loop has when nothing is pending
HasCollected(code, origin, next, w) ==
  w = Nothing \/ (Collects(code, origin, next, w) /\ w.pending = {})

CollectFrom(code, next) ==
  CHOOSE collect : collect =
    [w \in [pending : SUBSET Int, blocks : SUBSET [begin : Int, end : Int], targets : SUBSET Int] |->
       IF w.pending = {} THEN w ELSE collect[CollectNext(code, next, w)]]
LEMMA CollectBlocksDef ==
  \A code, origin, next : CollectBlocks(code, origin, next) =
    CollectFrom(code, next)[[pending |-> {origin}, blocks |-> {}, targets |-> {}]]
BY Zenon DEF CollectBlocks, CollectFrom

LEMMA CollectIs ==
  ASSUME NEW code, IsCode(code), NEW next \in Int
  PROVE  \A w \in Worklists : CollectFrom(code, next)[w] =
           IF w.pending = {} THEN w ELSE CollectFrom(code, next)[CollectNext(code, next, w)]
<1>1. PICK G : G = [w \in Worklists |-> CollectNext(code, next, w)]
  OBVIOUS
<1>2. G \in [Worklists -> Worklists]
  BY <1>1, CollectNextStays
<1>3. PICK E : E = {w \in Worklists : w.pending = {}}
  OBVIOUS
<1>4. PICK f : Loops(f, Worklists, E, G)
  BY <1>2, LoopIsSolved
<1>5. f = [w \in Worklists |-> IF w.pending = {} THEN w ELSE f[CollectNext(code, next, w)]]
  <2>1. ASSUME NEW w \in Worklists PROVE f[w] = IF w.pending = {} THEN w ELSE f[CollectNext(code, next, w)]
    BY <1>1, <1>3, <1>4 DEF Loops
  <2> QED
    BY <1>4, <2>1 DEF Loops
<1>6. PICK c : c = CollectFrom(code, next)
  OBVIOUS
<1>7. c = [w \in Worklists |-> IF w.pending = {} THEN w ELSE c[CollectNext(code, next, w)]]
  BY <1>5, <1>6, Zenon DEF CollectFrom, Worklists
<1> HIDE <1>5
<1> QED
  BY <1>6, <1>7

(* The loop ends: an address is taken off, or one more block is there, of  *)
(* which there are no more than instructions.                              *)
LEMMA BlocksAreCollected ==
  ASSUME NEW code, IsCode(code), NEW origin \in Int, NEW next \in Int
  PROVE  HasCollected(code, origin, next, CollectBlocks(code, origin, next))
<1> DEFINE f == CollectFrom(code, next)
           Left(w) == Cardinality(DOMAIN code \ Begins(w))
           Stopped(w) == HasCollected(code, origin, next, f[w])
           Outer == {n \in Nat : \A w \in Worklists : Collects(code, origin, next, w) /\ Left(w) <= n => Stopped(w)}
<1>1. ASSUME NEW w \in Worklists PROVE IsFiniteSet(DOMAIN code \ Begins(w)) /\ Left(w) \in Nat
  BY FS_Difference, FS_CardinalityType DEF IsCode
<1>2. ASSUME NEW w \in Worklists, Collects(code, origin, next, w), w.pending = {} PROVE Stopped(w)
  <2>1. f[w] = w
    BY <1>2, CollectIs
  <2> QED
    BY <1>2, <2>1 DEF HasCollected
<1>3. Nothing \in Worklists /\ Stopped(Nothing)
  <2>1. Nothing \in Worklists /\ Nothing.pending = {}
    BY DEF Nothing, Worklists
  <2>2. f[Nothing] = Nothing
    BY <2>1, CollectIs
  <2> QED
    BY <2>1, <2>2 DEF HasCollected
<1>4. ASSUME NEW n \in Nat, \A w \in Worklists : Collects(code, origin, next, w) /\ Left(w) < n => Stopped(w)
      PROVE  \A w \in Worklists : Collects(code, origin, next, w) /\ Left(w) = n => Stopped(w)
  <2> DEFINE Inner == {m \in Nat : \A w \in Worklists :
                         Collects(code, origin, next, w) /\ Left(w) = n /\ Cardinality(w.pending) = m => Stopped(w)}
  <2>1. 0 \in Inner
    <3> SUFFICES ASSUME NEW w \in Worklists, Collects(code, origin, next, w), Cardinality(w.pending) = 0
                 PROVE  Stopped(w)
      OBVIOUS
    <3>1. w.pending = {}
      BY FS_EmptySet DEF Collects
    <3> HIDE DEF Stopped
    <3> QED
      BY <1>2, <3>1
  <2>2. ASSUME NEW m \in Inner PROVE m + 1 \in Inner
    <3> SUFFICES ASSUME NEW w \in Worklists, Collects(code, origin, next, w), Left(w) = n,
                        Cardinality(w.pending) = m + 1
                 PROVE  Stopped(w)
      OBVIOUS
    <3>1. PICK v : v = CollectNext(code, next, w)
      OBVIOUS
    <3>2. v \in Worklists /\ IsFiniteSet(w.pending)
      BY <3>1, CollectNextStays DEF Collects
    <3>3. w.pending # {}
      <4>1. m \in Nat /\ m + 1 # 0
        OBVIOUS
      <4> QED
        BY <4>1, FS_EmptySet
    <3>4. f[w] = f[v]
      BY <3>1, <3>3, CollectIs
    <3>5. v = Nothing \/ (Collects(code, origin, next, v) /\ (Takes(w, v) \/ Adds(code, w, v)))
      BY <3>1, <3>3, CollectNextKeeps
    <3>6. ASSUME Collects(code, origin, next, v), Takes(w, v) PROVE Stopped(v)
      <4>1. Left(v) = n
        BY <3>6 DEF Takes, Begins
      <4>2. PICK a \in w.pending : v.pending = w.pending \ {a}
        BY <3>6 DEF Takes
      <4>3. Cardinality(v.pending) = m
        <5>1. Cardinality(v.pending) = Cardinality(w.pending) - 1
          BY <3>2, <4>2, FS_RemoveElement, ZenonT(60)
        <5> QED
          BY <5>1
      <4> HIDE DEF Stopped, Left
      <4> QED
        BY <3>2, <3>6, <4>1, <4>3
    <3>7. ASSUME Collects(code, origin, next, v), Adds(code, w, v) PROVE Stopped(v)
      <4>1. PICK a \in DOMAIN code : a \notin Begins(w) /\ Begins(v) = Begins(w) \cup {a}
        BY <3>7 DEF Adds
      <4>2. DOMAIN code \ Begins(v) = (DOMAIN code \ Begins(w)) \ {a} /\ a \in DOMAIN code \ Begins(w)
        BY <4>1
      <4>3. Left(v) = Left(w) - 1
        BY <1>1, <4>2, FS_RemoveElement, ZenonT(60)
      <4>4. Left(v) < n
        BY <4>3
      <4> HIDE DEF Stopped, Left
      <4> QED
        BY <1>4, <3>2, <3>7, <4>4
    <3>8. Stopped(v) => Stopped(w)
      BY <3>4
    <3> HIDE DEF Stopped
    <3> QED
      BY <1>3, <3>5, <3>6, <3>7, <3>8
  <2>3. Inner = Nat
    <3>1. Inner \in SUBSET Nat
      OBVIOUS
    <3> HIDE DEF Inner
    <3> QED
      BY <2>1, <2>2, <3>1, Induction
  <2> HIDE DEF Stopped, Left
  <2> SUFFICES ASSUME NEW w \in Worklists, Collects(code, origin, next, w), Left(w) = n PROVE Stopped(w)
    OBVIOUS
  <2>4. Cardinality(w.pending) \in Inner
    BY <2>3, FS_CardinalityType DEF Collects
  <2> QED
    BY <2>4
<1>5. Outer = Nat
  <2>1. 0 \in Outer
    <3> HIDE DEF Stopped
    <3> SUFFICES ASSUME NEW w \in Worklists, Collects(code, origin, next, w), Left(w) <= 0 PROVE Stopped(w)
      OBVIOUS
    <3>1. \A x \in Worklists : Left(x) \in Nat
      BY <1>1
    <3> HIDE DEF Left
    <3>2. Left(w) = 0 /\ \A x \in Worklists : ~(Left(x) < 0)
      BY <3>1
    <3> QED
      BY <1>4, <3>2
  <2>2. ASSUME NEW n \in Outer PROVE n + 1 \in Outer
    <3> HIDE DEF Stopped
    <3> SUFFICES ASSUME NEW w \in Worklists, Collects(code, origin, next, w), Left(w) <= n + 1 PROVE Stopped(w)
      OBVIOUS
    <3>1. \A x \in Worklists : Left(x) \in Nat
      BY <1>1
    <3>2. \A x \in Worklists : Collects(code, origin, next, x) /\ Left(x) <= n => Stopped(x)
      OBVIOUS
    <3> HIDE DEF Left
    <3>3. \A x \in Worklists : Collects(code, origin, next, x) /\ Left(x) < n + 1 => Stopped(x)
      BY <3>1, <3>2
    <3>4. \A x \in Worklists : Collects(code, origin, next, x) /\ Left(x) = n + 1 => Stopped(x)
      <4>1. n + 1 \in Nat
        OBVIOUS
      <4> QED
        BY <1>4, <3>3, <4>1
    <3> QED
      BY <3>1, <3>3, <3>4
  <2>3. Outer \in SUBSET Nat
    OBVIOUS
  <2> HIDE DEF Outer
  <2> QED
    BY <2>1, <2>2, <2>3, Induction
<1>6. PICK w : w = [pending |-> {origin}, blocks |-> {}, targets |-> {}]
  OBVIOUS
<1>7. w \in Worklists /\ Collects(code, origin, next, w)
  <2>1. IsFiniteSet({origin})
    BY FS_Singleton
  <2> QED
    BY <1>6, <2>1 DEF Worklists, Collects
<1>8. Stopped(w)
  <2>1. Left(w) \in Nat /\ Left(w) <= Left(w)
    BY <1>1, <1>7
  <2> HIDE DEF Stopped, Left
  <2> QED
    BY <1>5, <1>7, <2>1
<1> QED
  BY <1>6, <1>8, CollectBlocksDef

-----------------------------------------------------------------------------
(* The order of the blocks.                                                *)
IsOrder(R, S) ==
  /\ \A a, b \in S : a # b => <<a, b>> \in R \/ <<b, a>> \in R
  /\ \A a, b, c \in S : <<a, b>> \in R /\ <<b, c>> \in R => <<a, c>> \in R

LEMMA LastInOrder ==
  ASSUME NEW S, NEW R, IsOrder(R, S), NEW T \in SUBSET S, IsFiniteSet(T), T # {}
  PROVE  \E m \in T : \A x \in T \ {m} : <<x, m>> \in R
<1> DEFINE Having == {n \in Nat : \A E \in SUBSET S :
                        IsFiniteSet(E) /\ Cardinality(E) = n + 1 => \E m \in E : \A x \in E \ {m} : <<x, m>> \in R}
<1>1. 0 \in Having
  <2> SUFFICES ASSUME NEW E \in SUBSET S, IsFiniteSet(E), Cardinality(E) = 0 + 1
               PROVE  \E m \in E : \A x \in E \ {m} : <<x, m>> \in R
    OBVIOUS
  <2>1. PICK m : E = {m}
    <3>1. Cardinality(E) = 1
      OBVIOUS
    <3>2. \A U : IsFiniteSet(U) => (Cardinality(U) = 1 <=> \E x : U = {x})
      BY FS_Singleton
    <3> QED
      BY <3>1, <3>2
  <2> QED
    BY <2>1
<1>2. ASSUME NEW n \in Having PROVE n + 1 \in Having
  <2> SUFFICES ASSUME NEW E \in SUBSET S, IsFiniteSet(E), Cardinality(E) = (n + 1) + 1
               PROVE  \E m \in E : \A x \in E \ {m} : <<x, m>> \in R
    OBVIOUS
  <2>1. PICK z : z \in E
    BY FS_EmptySet
  <2>2. IsFiniteSet(E \ {z}) /\ Cardinality(E \ {z}) = n + 1 /\ E \ {z} \in SUBSET S
    BY <2>1, FS_RemoveElement
  <2>3. PICK m \in E \ {z} : \A x \in (E \ {z}) \ {m} : <<x, m>> \in R
    BY <2>2
  <2>4. z \in S /\ m \in S /\ m # z /\ (\A x \in E : x \in S)
    BY <2>1, <2>3
  <2>5. CASE <<z, m>> \in R
    BY <2>3, <2>5
  <2>6. CASE <<m, z>> \in R
    <3>1. ASSUME NEW x \in E \ {z} PROVE <<x, z>> \in R
      <4>1. CASE x = m
        BY <2>6, <4>1
      <4>2. CASE x # m
        <5>1. <<x, m>> \in R /\ x \in S
          BY <2>3, <2>4, <4>2
        <5> QED
          BY <2>4, <2>6, <5>1 DEF IsOrder
      <4> QED
        BY <4>1, <4>2
    <3> QED
      BY <2>1, <3>1
  <2> QED
    BY <2>4, <2>5, <2>6 DEF IsOrder
<1>3. Having = Nat
  <2>1. Having \in SUBSET Nat
    OBVIOUS
  <2> HIDE DEF Having
  <2> QED
    BY <1>1, <1>2, <2>1, Induction
<1>4. PICK n \in Nat : Cardinality(T) = n + 1
  <2>1. Cardinality(T) \in Nat /\ Cardinality(T) # 0
    BY FS_CardinalityType, FS_EmptySet
  <2> QED
    BY <2>1
<1> QED
  BY <1>3, <1>4

\* a finite set can be sorted
SortedBy(s, n, S, R) ==
  s \in [1 .. n -> S] /\ \A i, j \in 1 .. n : i < j => s[i] # s[j] /\ <<s[i], s[j]>> \in R
LEMMA SortedThereIs ==
  ASSUME NEW S, IsFiniteSet(S), NEW R, IsOrder(R, S)
  PROVE  \E s : SortedBy(s, Cardinality(S), S, R)
<1> DEFINE Having == {n \in Nat : \A E \in SUBSET S :
                        IsFiniteSet(E) /\ Cardinality(E) = n => \E s : SortedBy(s, n, E, R)}
<1>1. 0 \in Having
  <2> SUFFICES ASSUME NEW E \in SUBSET S PROVE \E s : SortedBy(s, 0, E, R)
    OBVIOUS
  <2>1. PICK s : s = [i \in 1 .. 0 |-> i]
    OBVIOUS
  <2>2. SortedBy(s, 0, E, R)
    BY <2>1 DEF SortedBy
  <2> QED
    BY <2>2
<1>2. ASSUME NEW n \in Having PROVE n + 1 \in Having
  <2> SUFFICES ASSUME NEW E \in SUBSET S, IsFiniteSet(E), Cardinality(E) = n + 1
               PROVE  \E s : SortedBy(s, n + 1, E, R)
    OBVIOUS
  <2>1. E # {}
    <3>1. n + 1 # 0
      OBVIOUS
    <3> QED
      BY <3>1, FS_EmptySet
  <2>2. PICK m \in E : \A x \in E \ {m} : <<x, m>> \in R
    BY <2>1, LastInOrder
  <2>3. IsFiniteSet(E \ {m}) /\ Cardinality(E \ {m}) = n /\ E \ {m} \in SUBSET S
    BY <2>2, FS_RemoveElement
  <2>4. PICK s : SortedBy(s, n, E \ {m}, R)
    BY <2>3
  <2>5. PICK t : t = [i \in 1 .. n + 1 |-> IF i = n + 1 THEN m ELSE s[i]]
    OBVIOUS
  <2>6. ASSUME NEW i \in 1 .. n + 1, i # n + 1 PROVE i \in 1 .. n /\ t[i] = s[i] /\ s[i] \in E \ {m}
    <3>1. i \in 1 .. n
      BY <2>6
    <3> QED
      BY <2>4, <2>5, <2>6, <3>1 DEF SortedBy
  <2>7. n + 1 \in 1 .. n + 1 /\ t[n + 1] = m
    BY <2>5
  <2>8. t \in [1 .. n + 1 -> E]
    BY <2>2, <2>5, <2>6
  <2>9. ASSUME NEW i \in 1 .. n + 1, NEW j \in 1 .. n + 1, i < j PROVE t[i] # t[j] /\ <<t[i], t[j]>> \in R
    <3>1. i # n + 1
      BY <2>9
    <3>2. t[i] = s[i] /\ s[i] \in E \ {m} /\ i \in 1 .. n
      BY <2>6, <3>1
    <3>3. CASE j = n + 1
      BY <2>2, <2>7, <3>2, <3>3
    <3>4. CASE j # n + 1
      <4>1. t[j] = s[j] /\ j \in 1 .. n
        BY <2>6, <3>4
      <4> QED
        BY <2>4, <2>9, <3>2, <4>1 DEF SortedBy
    <3> QED
      BY <3>3, <3>4
  <2>10. SortedBy(t, n + 1, E, R)
    BY <2>8, <2>9 DEF SortedBy
  <2> QED
    BY <2>10
<1>3. Having = Nat
  <2>1. Having \in SUBSET Nat
    OBVIOUS
  <2> HIDE DEF Having
  <2> QED
    BY <1>1, <1>2, <2>1, Induction
<1> QED
  BY <1>3, FS_CardinalityType

\* the blocks are all there, and the entry's is the first
IsOrdered(s, blocks, origin) ==
  /\ Len(s) = Cardinality(blocks) /\ Len(s) \in Nat /\ DOMAIN s = 1 .. Len(s)
  /\ \A i \in 1 .. Len(s) : s[i] \in blocks
  /\ \A b \in blocks : \E i \in 1 .. Len(s) : s[i] = b
  /\ (\E b \in blocks : b.begin = origin) => Len(s) >= 1 /\ s[1].begin = origin

LEMMA OrderedIs ==
  ASSUME NEW blocks, IsFiniteSet(blocks), NEW origin \in Int, \A b \in blocks : b.begin \in Int,
         \A b, c \in blocks : b.begin = c.begin => b = c
  PROVE  IsOrdered(Ordered(blocks, origin), blocks, origin)
<1>1. PICK R : R = {p \in blocks \X blocks : Precedes(p[1], p[2], origin)}
  OBVIOUS
<1>2. \A a, b \in blocks : <<a, b>> \in R <=> Precedes(a, b, origin)
  BY <1>1
<1>3. IsOrder(R, blocks)
  BY <1>2 DEF IsOrder, Precedes
<1>4. PICK n \in Nat : n = Cardinality(blocks)
  BY FS_CardinalityType
<1>5. PICK s : SortedBy(s, n, blocks, R)
  BY <1>3, <1>4, SortedThereIs
<1>6. SetToSeqs(blocks) = {f \in [1 .. n -> blocks] : \A i, j \in 1 .. n : i # j => f[i] # f[j]}
  BY <1>4, Zenon DEF SetToSeqs
<1>7. s \in SetToSeqs(blocks) /\ \A i, j \in DOMAIN s : i < j => Precedes(s[i], s[j], origin)
  <2>1. s \in [1 .. n -> blocks] /\ DOMAIN s = 1 .. n
    BY <1>5 DEF SortedBy
  <2>2. ASSUME NEW i \in 1 .. n, NEW j \in 1 .. n, i # j PROVE s[i] # s[j]
    <3>1. i < j \/ j < i
      BY <2>2
    <3> QED
      BY <1>5, <3>1 DEF SortedBy
  <2>3. ASSUME NEW i \in 1 .. n, NEW j \in 1 .. n, i < j PROVE Precedes(s[i], s[j], origin)
    BY <1>2, <1>5, <2>1, <2>3 DEF SortedBy
  <2> QED
    BY <1>6, <2>1, <2>2, <2>3
<1>8. PICK t : t = Ordered(blocks, origin)
  OBVIOUS
<1>9. t \in SetToSeqs(blocks) /\ \A i, j \in DOMAIN t : i < j => Precedes(t[i], t[j], origin)
  BY <1>7, <1>8, Zenon DEF Ordered
<1>10. t \in [1 .. n -> blocks] /\ DOMAIN t = 1 .. n /\ \A i, j \in 1 .. n : i # j => t[i] # t[j]
  BY <1>6, <1>9
<1>11. Len(t) = n
  BY <1>10
<1>12. \A b \in blocks : \E i \in 1 .. n : t[i] = b
  <2>1. t \in Injection(1 .. n, blocks)
    BY <1>10 DEF Injection, IsInjective
  <2>2. Cardinality(1 .. n) = n
    BY FS_Interval
  <2>3. t \in Surjection(1 .. n, blocks)
    BY <1>4, <2>1, <2>2, FS_Injection
  <2> QED
    BY <2>3 DEF Surjection
<1>13. ASSUME NEW b \in blocks, b.begin = origin PROVE n >= 1 /\ t[1].begin = origin
  <2>1. PICK i \in 1 .. n : t[i] = b
    BY <1>12
  <2>2. CASE i = 1
    BY <1>13, <2>1, <2>2
  <2>3. CASE i # 1
    <3>1. 1 \in DOMAIN t /\ i \in DOMAIN t /\ 1 < i
      BY <1>10, <2>3
    <3>2. Precedes(t[1], t[i], origin)
      BY <1>9, <3>1
    <3> QED
      BY <1>13, <2>1, <3>2 DEF Precedes
  <2> QED
    BY <2>2, <2>3
<1> QED
  BY <1>4, <1>8, <1>10, <1>11, <1>12, <1>13 DEF IsOrdered

-----------------------------------------------------------------------------
(* Texts one after the other: where each of them is.                       *)
ArePlaced(flat, m, s, o) ==
  /\ \A i \in 1 .. m : /\ o[i] + Len(s[i]) <= Len(flat)
                       /\ \A k \in 1 .. Len(s[i]) : flat[o[i] + k] = s[i][k]
  /\ \A j \in 1 .. Len(flat) : \E i \in 1 .. m : \E k \in 1 .. Len(s[i]) : j = o[i] + k

\* the next text begins where those before it end
Follows(f, s, o, i) ==
  /\ Len(f[i]) \in Nat /\ Len(s[i + 1]) \in Nat
  /\ o[i + 1] = Len(f[i]) /\ Len(f[i + 1]) = Len(f[i]) + Len(s[i + 1])
  /\ \A k \in 1 .. Len(f[i]) : f[i + 1][k] = f[i][k]
  /\ \A k \in 1 .. Len(s[i + 1]) : f[i + 1][Len(f[i]) + k] = s[i + 1][k]

LEMMA FlattenPlaces ==
  ASSUME NEW A, NEW s, NEW n \in Nat, n > 0, Len(s) = n, \A i \in 1 .. n : s[i] \in Seq(A)
  PROVE  \E o \in [1 .. n -> Nat] :
           /\ FlattenSeq(s) \in Seq(A) /\ o[1] = 0
           /\ ArePlaced(FlattenSeq(s), n, s, o)
<1>1. PICK f : f = Flatten(s)
  OBVIOUS
<1>2. /\ f[1] = s[1]
      /\ \A i \in 1 .. n : f[i] \in Seq(A)
      /\ \A i \in 1 .. n - 1 : f[i + 1] = f[i] \o s[i + 1]
  BY <1>1, FlattenJoins DEF Joins
<1>3. FlattenSeq(s) = f[n]
  BY <1>1, FlattenDef
<1>4. PICK o : o = [i \in 1 .. n |-> Len(f[i]) - Len(s[i])]
  OBVIOUS
<1>5. ASSUME NEW i \in 1 .. n - 1 PROVE Follows(f, s, o, i)
  <2>1. i \in 1 .. n /\ i + 1 \in 1 .. n
    OBVIOUS
  <2>2. PICK p \in Seq(A), q \in Seq(A), r \in Seq(A) : p = f[i] /\ q = s[i + 1] /\ r = f[i + 1]
    BY <1>2, <2>1
  <2>3. r = p \o q
    BY <1>2, <2>2
  <2>4. /\ Len(r) = Len(p) + Len(q)
        /\ \A k \in 1 .. Len(p) : r[k] = p[k]
        /\ \A k \in 1 .. Len(q) : r[Len(p) + k] = q[k]
    BY <2>3, JoinIs
  <2>5. Len(p) \in Nat /\ Len(q) \in Nat
    OBVIOUS
  <2>6. o[i + 1] = Len(r) - Len(q)
    BY <1>4, <2>1, <2>2
  <2>7. o[i + 1] = Len(p)
    BY <2>4, <2>5, <2>6
  <2> QED
    BY <2>2, <2>4, <2>5, <2>7, Zenon DEF Follows
<1>6. 1 \in 1 .. n /\ o[1] = 0 /\ Len(s[1]) \in Nat
  <2>1. 1 \in 1 .. n /\ Len(s[1]) \in Nat
    OBVIOUS
  <2> QED
    BY <1>2, <1>4, <2>1
<1>7. o \in [1 .. n -> Nat]
  <2>1. ASSUME NEW i \in 1 .. n PROVE o[i] \in Nat
    <3>1. CASE i = 1
      BY <1>6, <3>1
    <3>2. CASE i # 1
      <4>1. i - 1 \in 1 .. n - 1 /\ (i - 1) + 1 = i
        BY <3>2
      <4>2. Follows(f, s, o, i - 1)
        BY <1>5, <4>1
      <4> QED
        BY <4>1, <4>2 DEF Follows
    <3> QED
      BY <3>1, <3>2
  <2> QED
    BY <1>4, <2>1
<1> DEFINE Placed == {m \in Nat : m + 1 <= n => ArePlaced(f[m + 1], m + 1, s, o)}
<1>8. 0 \in Placed
  <2>1. ArePlaced(f[1], 1, s, o)
    <3>1. \A i \in 1 .. 1 : i = 1
      OBVIOUS
    <3>2. \A k \in 1 .. Len(s[1]) : 0 + k = k
      BY <1>6
    <3> QED
      BY <1>2, <1>6, <3>1, <3>2 DEF ArePlaced
  <2> QED
    BY <2>1
<1>9. ASSUME NEW m \in Placed PROVE m + 1 \in Placed
  <2> SUFFICES ASSUME (m + 1) + 1 <= n PROVE ArePlaced(f[(m + 1) + 1], (m + 1) + 1, s, o)
    OBVIOUS
  <2>1. PICK p \in 1 .. n - 1 : p = m + 1
    OBVIOUS
  <2>2. ArePlaced(f[p], p, s, o)
    BY <2>1
  <2> SUFFICES ArePlaced(f[p + 1], p + 1, s, o)
    BY <2>1
  <2> HIDE DEF Placed
  <2>3. PICK g, h, t, x, y : g = f[p] /\ h = f[p + 1] /\ t = s[p + 1] /\ x = Len(g) /\ y = Len(t)
    OBVIOUS
  <2>4. /\ x \in Nat /\ y \in Nat /\ o[p + 1] = x /\ Len(h) = x + y
        /\ \A k \in 1 .. x : h[k] = g[k]
        /\ \A k \in 1 .. y : h[x + k] = t[k]
    <3>1. Follows(f, s, o, p)
      BY <1>5
    <3> QED
      BY <2>3, <3>1, Zenon DEF Follows
  <2>5. ArePlaced(g, p, s, o)
    BY <2>2, <2>3
  <2>6. ASSUME NEW i \in 1 .. p + 1
        PROVE  o[i] + Len(s[i]) <= Len(h) /\ \A k \in 1 .. Len(s[i]) : h[o[i] + k] = s[i][k]
    <3>1. CASE i = p + 1
      <4>1. s[i] = t /\ Len(s[i]) = y /\ o[i] = x
        BY <2>3, <2>4, <3>1
      <4> QED
        BY <2>4, <4>1
    <3>2. CASE i # p + 1
      <4>1. i \in 1 .. p /\ i \in 1 .. n
        BY <3>2
      <4>2. PICK u \in Nat, v \in Nat : u = o[i] /\ v = Len(s[i])
        BY <1>7, <4>1
      <4>3. u + v <= x /\ \A k \in 1 .. v : g[u + k] = s[i][k]
        BY <2>3, <2>5, <4>1, <4>2 DEF ArePlaced
      <4>4. \A k \in 1 .. v : u + k \in 1 .. x
        BY <2>4, <4>3
      <4>5. \A k \in 1 .. v : h[u + k] = s[i][k]
        BY <2>4, <4>3, <4>4
      <4> QED
        BY <2>4, <4>2, <4>3, <4>5
    <3> QED
      BY <3>1, <3>2
  <2>7. ASSUME NEW j \in 1 .. Len(h)
        PROVE  \E i \in 1 .. p + 1 : \E k \in 1 .. Len(s[i]) : j = o[i] + k
    <3>1. CASE j <= x
      <4>1. j \in 1 .. x
        BY <2>4, <3>1
      <4>2. \E i \in 1 .. p : \E k \in 1 .. Len(s[i]) : j = o[i] + k
        BY <2>3, <2>5, <4>1 DEF ArePlaced
      <4>3. 1 .. p \subseteq 1 .. p + 1
        OBVIOUS
      <4> QED
        BY <4>2, <4>3
    <3>2. CASE j > x
      <4>1. j - x \in 1 .. y /\ j = x + (j - x)
        BY <2>4, <3>2
      <4>2. p + 1 \in 1 .. p + 1 /\ Len(s[p + 1]) = y
        BY <2>3
      <4> QED
        BY <2>4, <4>1, <4>2
    <3> QED
      BY <2>4, <3>1, <3>2
  <2>8. ArePlaced(h, p + 1, s, o)
    BY <2>6, <2>7 DEF ArePlaced
  <2> QED
    BY <2>3, <2>8
<1>10. \A m \in Nat : m + 1 <= n => ArePlaced(f[m + 1], m + 1, s, o)
  <2>1. Placed \in SUBSET Nat
    OBVIOUS
  <2>2. Placed = Nat
    <3> HIDE DEF Placed
    <3> QED
      BY <1>8, <1>9, <2>1, Induction
  <2> QED
    BY <2>2
<1> HIDE DEF Placed
<1>11. ArePlaced(f[n], n, s, o)
  <2>1. n - 1 \in Nat /\ (n - 1) + 1 = n /\ (n - 1) + 1 <= n
    OBVIOUS
  <2>2. ArePlaced(f[(n - 1) + 1], (n - 1) + 1, s, o)
    BY <1>10, <2>1
  <2> QED
    BY <2>1, <2>2
<1>12. f[n] \in Seq(A)
  BY <1>2
<1> QED
  BY <1>3, <1>6, <1>7, <1>11, <1>12

-----------------------------------------------------------------------------
(* The copy.                                                               *)
LEMMA CollectedBlocks ==
  ASSUME NEW code, IsCode(code), NEW origin \in Int, NEW next \in Int, NEW w, Collects(code, origin, next, w),
         w.pending = {}
  PROVE  /\ IsFiniteSet(w.blocks)
         /\ \A b \in w.blocks : IsBlock(code, next, b) /\ b.begin \in Int
         /\ \A b, c \in w.blocks : b.begin = c.begin => b = c
         /\ \E b \in w.blocks : b.begin = origin
         /\ \A b \in w.blocks : TargetsIn(code, b.begin, b.end) \subseteq w.targets
         /\ \A t \in w.targets : Covers(w.blocks, t)
<1>1. \A b \in w.blocks : IsBlock(code, next, b)
  BY DEF Collects
<1>2. \A b \in w.blocks : b.begin \in Int /\ b.begin \in DOMAIN code
  BY <1>1 DEF IsBlock
<1>3. \A b, c \in w.blocks : b.begin = c.begin => b = c
  BY <1>1, BlocksDiffer
<1>4. PICK f : f = [b \in w.blocks |-> b.begin]
  OBVIOUS
<1>5. f \in Injection(w.blocks, DOMAIN code)
  BY <1>2, <1>3, <1>4 DEF Injection, IsInjective
<1>6. IsFiniteSet(w.blocks)
  BY <1>5, FS_Injection DEF IsCode
<1>7. w.blocks # {} \/ w.pending = {origin}
  BY DEF Collects
<1> QED
  BY <1>1, <1>2, <1>3, <1>6, <1>7 DEF Collects

\* where a block of so many is copied to
Addresses(b) == [k \in 1 .. b.end - b.begin |-> b.begin + k - 1]
Copied(out, blocks, s, n, o) ==
  /\ n >= 1 /\ \A i \in 1 .. n : s[i] \in blocks
  /\ \A b \in blocks : \E i \in 1 .. n : s[i] = b
  /\ o \in [1 .. n -> Nat] /\ o[1] = 0
  /\ \A i \in 1 .. n : /\ o[i] + (s[i].end - s[i].begin) <= Len(out)
                       /\ \A k \in 1 .. s[i].end - s[i].begin : out[o[i] + k].at = s[i].begin + k - 1
  /\ \A j \in 1 .. Len(out) : \E i \in 1 .. n : \E k \in 1 .. s[i].end - s[i].begin : j = o[i] + k

LEMMA AddressesAre ==
  ASSUME NEW s, NEW n \in Nat, n >= 1, Len(s) = n, DOMAIN s = 1 .. n,
         \A i \in 1 .. n : s[i].begin \in Int /\ s[i].end \in Int /\ s[i].end > s[i].begin
  PROVE  \E o \in [1 .. n -> Nat] :
           /\ AddressesOf(s) \in Seq(Int) /\ o[1] = 0
           /\ ArePlaced(AddressesOf(s), n, [i \in 1 .. n |-> Addresses(s[i])], o)
<1>1. PICK t : t = [i \in 1 .. n |-> Addresses(s[i])]
  OBVIOUS
<1>2. ASSUME NEW i \in 1 .. n PROVE t[i] \in Seq(Int)
  <2>1. PICK m \in Nat, b \in Int : b = s[i].begin /\ m = s[i].end - s[i].begin
    OBVIOUS
  <2>2. t[i] = [k \in 1 .. m |-> b + k - 1]
    BY <1>1, <2>1 DEF Addresses
  <2> QED
    BY <2>2
<1>3. AddressesOf(s) = FlattenSeq(t)
  BY <1>1, Zenon DEF AddressesOf, Addresses
<1>4. Len(t) = n /\ n > 0
  BY <1>1
<1>5. \E o \in [1 .. n -> Nat] : FlattenSeq(t) \in Seq(Int) /\ o[1] = 0 /\ ArePlaced(FlattenSeq(t), n, t, o)
  BY <1>2, <1>4, FlattenPlaces
<1> QED
  BY <1>1, <1>3, <1>5

IsWritten(out, code, laid, targets) ==
  /\ Len(out) = Len(laid) /\ Len(laid) \in Nat /\ DOMAIN out = 1 .. Len(laid)
  /\ \A i \in 1 .. Len(laid) :
       /\ out[i].at = laid[i]
       /\ out[i].label = (laid[i] \in targets)
       /\ \E slot : out[i].does = Writes(code[laid[i]], slot)
LEMMA WrittenIs ==
  ASSUME NEW code, NEW laid \in Seq(Int), NEW targets, NEW out, out = Written(code, laid, targets)
  PROVE  IsWritten(out, code, laid, targets)
<1>1. PICK slot : out = [i \in DOMAIN laid |->
         [at |-> laid[i], does |-> Writes(code[laid[i]], slot[i - 1]), label |-> laid[i] \in targets]]
  BY Zenon DEF Written
<1>2. DOMAIN laid = 1 .. Len(laid) /\ Len(laid) \in Nat
  OBVIOUS
<1>3. out = [i \in 1 .. Len(laid) |->
         [at |-> laid[i], does |-> Writes(code[laid[i]], slot[i - 1]), label |-> laid[i] \in targets]]
  BY <1>1, <1>2
<1>4. DOMAIN out = 1 .. Len(laid) /\ Len(out) = Len(laid)
  BY <1>2, <1>3
<1>6. ASSUME NEW i \in 1 .. Len(laid)
      PROVE  /\ out[i].at = laid[i]
             /\ out[i].label = (laid[i] \in targets)
             /\ out[i].does = Writes(code[laid[i]], slot[i - 1])
  <2>1. out[i] = [at |-> laid[i], does |-> Writes(code[laid[i]], slot[i - 1]), label |-> laid[i] \in targets]
    BY <1>3
  <2> QED
    BY <2>1
<1> QED
  BY <1>2, <1>4, <1>6 DEF IsWritten

LEMMA WritesAre ==
  ASSUME NEW insn, NEW slot, NEW does, does = Writes(insn, slot)
  PROVE  /\ insn.kind = "clear" => does = "callback"
         /\ does \in {"callback", "wrapped"} => insn.kind \in {"clear", "blr"}
<1>1. insn.kind = "clear" => ~HasTarget(insn)
  BY DEF HasTarget
<1>2. does = IF HasTarget(insn) THEN "label" ELSE IF insn.kind = "clear" THEN "callback"
             ELSE IF insn.kind = "blr" /\ insn.reg = slot THEN "wrapped" ELSE "same"
  BY <1>1 DEF Writes, HasTarget
<1> QED
  BY <1>1, <1>2

IsCopy(out, code, origin, next, w, s, n, o) ==
  /\ Collects(code, origin, next, w) /\ w.pending = {}
  /\ n \in Nat /\ IsOrdered(s, w.blocks, origin) /\ Len(s) = n
  /\ Copied(out, w.blocks, s, n, o)
  /\ DOMAIN out = 1 .. Len(out) /\ Len(out) \in Nat
  /\ \A i \in 1 .. Len(out) :
       /\ out[i].label = (out[i].at \in w.targets)
       /\ \E slot : out[i].does = Writes(code[out[i].at], slot)
LEMMA CopyIs ==
  ASSUME NEW code, IsCode(code), NEW origin \in Int, NEW next \in Int,
         NEW out, out = Transition(code, origin, next), out # Unsupported
  PROVE  \E w, s, n, o : IsCopy(out, code, origin, next, w, s, n, o)
<1>1. PICK w : w = CollectBlocks(code, origin, next)
  OBVIOUS
<1>2. PICK s : s = Ordered(w.blocks, origin)
  OBVIOUS
<1>3. PICK laid : laid = AddressesOf(s)
  OBVIOUS
<1>4. out = Written(code, laid, w.targets) /\ w.blocks # {}
  BY <1>1, <1>2, <1>3, Zenon DEF Transition
<1>5. Collects(code, origin, next, w) /\ w.pending = {}
  <2>1. w = Nothing \/ (Collects(code, origin, next, w) /\ w.pending = {})
    BY <1>1, BlocksAreCollected DEF HasCollected
  <2> QED
    BY <1>4, <2>1 DEF Nothing
<1>6. /\ IsFiniteSet(w.blocks)
      /\ \A b \in w.blocks : IsBlock(code, next, b) /\ b.begin \in Int
      /\ \A b, c \in w.blocks : b.begin = c.begin => b = c
      /\ \E b \in w.blocks : b.begin = origin
  BY <1>5, CollectedBlocks
<1>7. IsOrdered(s, w.blocks, origin)
  BY <1>2, <1>6, OrderedIs
<1>8. PICK n \in Nat : n = Len(s) /\ n >= 1
  BY <1>6, <1>7 DEF IsOrdered
<1>9. /\ DOMAIN s = 1 .. n /\ \A i \in 1 .. n : s[i] \in w.blocks
      /\ \A b \in w.blocks : \E i \in 1 .. n : s[i] = b
  BY <1>7, <1>8 DEF IsOrdered
<1>10. \A i \in 1 .. n : s[i].begin \in Int /\ s[i].end \in Int /\ s[i].end > s[i].begin
  <2>1. ASSUME NEW b \in w.blocks PROVE b.begin \in Int /\ b.end \in Int /\ b.end > b.begin
    <3>1. b \in [begin : Int, end : Int] /\ b.end > b.begin
      BY <1>6, BlockIs
    <3> QED
      BY <3>1
  <2> QED
    BY <1>9, <2>1
<1>11. PICK o \in [1 .. n -> Nat] :
          /\ laid \in Seq(Int) /\ o[1] = 0
          /\ ArePlaced(laid, n, [i \in 1 .. n |-> Addresses(s[i])], o)
  BY <1>3, <1>8, <1>9, <1>10, AddressesAre
<1>12. /\ Len(out) = Len(laid) /\ DOMAIN out = 1 .. Len(laid) /\ Len(laid) \in Nat
       /\ \A i \in 1 .. Len(laid) :
            /\ out[i].at = laid[i]
            /\ out[i].label = (laid[i] \in w.targets)
            /\ \E slot : out[i].does = Writes(code[laid[i]], slot)
  <2>1. IsWritten(out, code, laid, w.targets)
    BY <1>4, <1>11, WrittenIs
  <2> QED
    BY <2>1 DEF IsWritten
<1>13. PICK t : t = [i \in 1 .. n |-> Addresses(s[i])]
  OBVIOUS
<1>14. ASSUME NEW i \in 1 .. n
       PROVE  /\ Len(t[i]) = s[i].end - s[i].begin /\ s[i].end - s[i].begin \in Nat
              /\ \A k \in 1 .. s[i].end - s[i].begin : t[i][k] = s[i].begin + k - 1
  <2>1. PICK m \in Nat, b \in Int : b = s[i].begin /\ m = s[i].end - s[i].begin
    BY <1>10, SMTT(60)
  <2>2. t[i] = [k \in 1 .. m |-> b + k - 1]
    BY <1>13, <2>1 DEF Addresses
  <2> QED
    BY <2>1, <2>2
<1>15. Copied(out, w.blocks, s, n, o)
  <2>1. ASSUME NEW i \in 1 .. n
        PROVE  /\ o[i] + (s[i].end - s[i].begin) <= Len(out)
               /\ \A k \in 1 .. s[i].end - s[i].begin : out[o[i] + k].at = s[i].begin + k - 1
    <3>1. PICK m \in Nat, b \in Int, p \in Nat : b = s[i].begin /\ m = s[i].end - s[i].begin /\ p = o[i]
      BY <1>10, SMTT(60)
    <3>2. Len(t[i]) = m /\ \A k \in 1 .. m : t[i][k] = b + k - 1
      BY <1>14, <3>1
    <3>3. p + m <= Len(laid) /\ \A k \in 1 .. m : laid[p + k] = t[i][k]
      BY <1>11, <1>13, <3>1, <3>2 DEF ArePlaced
    <3>4. \A k \in 1 .. m : p + k \in 1 .. Len(laid)
      BY <1>12, <3>3
    <3>5. \A k \in 1 .. m : out[p + k].at = b + k - 1
      BY <1>12, <3>2, <3>3, <3>4
    <3> QED
      BY <1>12, <3>1, <3>3, <3>5
  <2>2. ASSUME NEW j \in 1 .. Len(out)
        PROVE  \E i \in 1 .. n : \E k \in 1 .. s[i].end - s[i].begin : j = o[i] + k
    <3>1. PICK i \in 1 .. n : \E k \in 1 .. Len(t[i]) : j = o[i] + k
      BY <1>11, <1>12, <1>13 DEF ArePlaced
    <3> QED
      BY <1>14, <3>1
  <2> QED
    BY <1>8, <1>9, <1>11, <2>1, <2>2 DEF Copied
<1>16. \A i \in 1 .. Len(out) :
          /\ out[i].label = (out[i].at \in w.targets)
          /\ \E slot : out[i].does = Writes(code[out[i].at], slot)
  BY <1>12
<1>17. IsCopy(out, code, origin, next, w, s, n, o)
  BY <1>5, <1>7, <1>8, <1>12, <1>15, <1>16 DEF IsCopy
<1> QED
  BY <1>17

(* The code that turns a thread runnable takes the way of ART's own, for   *)
(* code of any length, whatever jumps where, that does not run over its    *)
(* end: the blocks found in any order, behind or before the entry, are all *)
(* there, the entry's first, and each branch finds its target.             *)
THEOREM CopiesAlwaysRunAsOriginal ==
  ASSUME NEW code, IsCode(code), NEW origin \in Int, NEW next \in Int, Ends(code, next)
  PROVE  CopyRunsAsOriginal(code, origin, next)
<1> DEFINE out == Transition(code, origin, next)
<1> SUFFICES ASSUME out # Unsupported
             PROVE  /\ out[1].at = origin
                    /\ \E i \in DOMAIN out : IsCore(out[i])
                    /\ \A i \in DOMAIN out :
                         LET insn == code[out[i].at] IN
                         /\ ~EndsBlock(insn) => i < Len(out) /\ out[i + 1].at = out[i].at + 1
                         /\ HasTarget(insn) => \E j \in DOMAIN out : out[j].label /\ out[j].at = insn.target
                         /\ insn.kind = "clear" => out[i].does = "callback"
                         /\ IsCore(out[i]) => insn.kind \in {"clear", "blr"}
  BY DEF CopyRunsAsOriginal
<1>1. out = Transition(code, origin, next)
  OBVIOUS
<1>7. \E i \in DOMAIN out : IsCore(out[i])
  BY Zenon DEF Transition
<1> HIDE DEF out
<1>0. PICK w, s, n, o : IsCopy(out, code, origin, next, w, s, n, o)
  BY <1>1, CopyIs
<1>2.    /\ Collects(code, origin, next, w) /\ w.pending = {}
         /\ n \in Nat /\ IsOrdered(s, w.blocks, origin) /\ Len(s) = n
         /\ Copied(out, w.blocks, s, n, o)
         /\ DOMAIN out = 1 .. Len(out) /\ Len(out) \in Nat
         /\ \A i \in 1 .. Len(out) :
              /\ out[i].label = (out[i].at \in w.targets)
              /\ \E slot : out[i].does = Writes(code[out[i].at], slot)
  BY <1>0 DEF IsCopy
<1>3. /\ \A b \in w.blocks : IsBlock(code, next, b) /\ b.begin \in Int
      /\ \E b \in w.blocks : b.begin = origin
      /\ \A b \in w.blocks : TargetsIn(code, b.begin, b.end) \subseteq w.targets
      /\ \A t \in w.targets : Covers(w.blocks, t)
  BY <1>2, CollectedBlocks
<1>4. /\ n >= 1 /\ \A i \in 1 .. n : s[i] \in w.blocks
      /\ \A b \in w.blocks : \E i \in 1 .. n : s[i] = b
      /\ o \in [1 .. n -> Nat] /\ o[1] = 0
      /\ \A i \in 1 .. n : /\ o[i] + (s[i].end - s[i].begin) <= Len(out)
                           /\ \A k \in 1 .. s[i].end - s[i].begin : out[o[i] + k].at = s[i].begin + k - 1
      /\ \A j \in 1 .. Len(out) : \E i \in 1 .. n : \E k \in 1 .. s[i].end - s[i].begin : j = o[i] + k
  BY <1>2 DEF Copied
<1>5. \A i \in 1 .. n : s[i].begin \in Int /\ s[i].end \in Int /\ s[i].end > s[i].begin
  <2> TAKE i \in 1 .. n
  <2>1. PICK b \in w.blocks : b = s[i]
    BY <1>4
  <2>2. b \in [begin : Int, end : Int] /\ b.end > b.begin
    BY <1>3, BlockIs
  <2> QED
    BY <2>1, <2>2
<1>6. out[1].at = origin
  <2>1. s[1].begin = origin /\ 1 \in 1 .. n
    BY <1>2, <1>3, <1>4 DEF IsOrdered
  <2>2. 1 \in 1 .. s[1].end - s[1].begin /\ s[1].begin \in Int
    BY <1>5, <2>1
  <2>3. out[0 + 1].at = s[1].begin + 1 - 1
    BY <1>4, <2>1, <2>2, SMTT(60)
  <2> QED
    BY <2>1, <2>2, <2>3
<1>8. ASSUME NEW j \in 1 .. Len(out), NEW insn, insn = code[out[j].at]
      PROVE  /\ ~EndsBlock(insn) => j < Len(out) /\ out[j + 1].at = out[j].at + 1
             /\ HasTarget(insn) => \E i \in DOMAIN out : out[i].label /\ out[i].at = insn.target
             /\ insn.kind = "clear" => out[j].does = "callback"
             /\ IsCore(out[j]) => insn.kind \in {"clear", "blr"}
  <2>1. PICK i \in 1 .. n : \E k \in 1 .. s[i].end - s[i].begin : j = o[i] + k
    BY <1>4
  <2>3. PICK b \in w.blocks : b = s[i]
    BY <1>4
  <2>2. PICK k \in 1 .. b.end - b.begin : j = o[i] + k
    BY <2>1, <2>3
  <2>4. PICK p \in Int, q \in Int, r \in Nat, l \in Nat :
           p = b.begin /\ q = b.end /\ r = o[i] /\ l = Len(out) /\ q > p /\ r + (q - p) <= l
    BY <1>2, <1>4, <1>5, <2>3
  <2>5. IsBlock(code, next, b) /\ \A m \in 1 .. q - p : out[r + m].at = p + m - 1
    BY <1>3, <1>4, <2>3, <2>4
  <2>10. k \in 1 .. q - p /\ j = r + k
    BY <2>2, <2>4
  <2>11. PICK a \in p .. q - 1 : a = out[j].at /\ a = p + k - 1
    <3>1. p \in Int /\ q \in Int /\ k \in 1 .. q - p
      BY <2>4, <2>10
    <3>2. k \in Int /\ k >= 1 /\ k <= q - p
      BY <3>1
    <3>3. p + k - 1 \in p .. q - 1
      BY <3>1, <3>2
    <3>4. out[j].at = p + k - 1
      BY <2>5, <2>10
    <3> QED
      BY <3>3, <3>4
  <2>6. ASSUME ~EndsBlock(insn) PROVE j < Len(out) /\ out[j + 1].at = out[j].at + 1
    <3>1. a < q - 1
      BY <1>8, <2>4, <2>5, <2>6, <2>11, BlocksGoOn
    <3>2. k + 1 \in 1 .. q - p /\ k \in Int
      BY <2>10, <2>11, <3>1
    <3>3. out[r + (k + 1)].at = p + (k + 1) - 1
      BY <2>5, <3>2
    <3>4. r + (k + 1) = j + 1 /\ p + (k + 1) - 1 = a + 1
      BY <2>10, <2>11, <3>2
    <3>5. j < l
      <4>1. k + 1 <= q - p /\ r + (q - p) <= l
        BY <2>4, <3>2
      <4> QED
        BY <2>10, <3>2, <4>1
    <3> QED
      BY <2>4, <2>11, <3>3, <3>4, <3>5
  <2>7. ASSUME HasTarget(insn) PROVE \E m \in DOMAIN out : out[m].label /\ out[m].at = insn.target
    <3>1. PICK t : t = insn.target
      OBVIOUS
    <3>2. t \in w.targets
      <4>1. t \in TargetsIn(code, b.begin, b.end)
        BY <1>8, <2>4, <2>7, <2>11, <3>1 DEF TargetsIn
      <4> QED
        BY <1>3, <4>1
    <3>3. PICK c \in w.blocks : t \in c.begin .. c.end - 1
      BY <1>3, <3>2 DEF Covers
    <3>4. PICK h \in 1 .. n : s[h] = c
      BY <1>4
    <3>5. PICK e \in Int, f \in Int, g \in Nat :
             /\ e = c.begin /\ f = c.end /\ g = o[h] /\ g + (f - e) <= l
             /\ \A m \in 1 .. f - e : out[g + m].at = e + m - 1
      <4>1. c.begin \in Int /\ c.end \in Int /\ o[h] \in Nat
        BY <1>4, <1>5, <3>4
      <4>2. /\ o[h] + (c.end - c.begin) <= Len(out)
            /\ \A m \in 1 .. c.end - c.begin : out[o[h] + m].at = c.begin + m - 1
        BY <1>4, <3>4
      <4> QED
        BY <2>4, <4>1, <4>2, ZenonT(60)
    <3>6. t \in e .. f - 1
      BY <3>3, <3>5
    <3>7. PICK m \in 1 .. f - e : m = t - e + 1
      BY <3>6
    <3>8. g + m \in 1 .. l /\ e + m - 1 = t
      <4>1. e \in Int /\ f \in Int /\ g \in Nat /\ g + (f - e) <= l
        BY <3>5
      <4>2. m \in Int /\ m >= 1 /\ m <= f - e
        BY <4>1
      <4>3. t \in Int
        BY <3>6, <4>1
      <4>4. g + m <= l /\ g + m >= 1 /\ g + m \in Int
        BY <2>4, <4>1, <4>2
      <4>5. e + m - 1 = t
        BY <3>7, <4>1, <4>2, <4>3
      <4> QED
        BY <2>4, <4>4, <4>5
    <3>9. out[g + m].at = t
      BY <3>5, <3>8
    <3>10. out[g + m].label = TRUE
      BY <1>2, <2>4, <3>2, <3>8, <3>9
    <3> QED
      BY <1>2, <2>4, <3>1, <3>8, <3>9, <3>10
  <2>8. PICK slot : out[j].does = Writes(insn, slot)
    BY <1>2, <1>8
  <2>9. /\ insn.kind = "clear" => out[j].does = "callback"
        /\ IsCore(out[j]) => insn.kind \in {"clear", "blr"}
    BY <2>8, WritesAre DEF IsCore
  <2> QED
    BY <2>6, <2>7, <2>9
<1> QED
  BY <1>2, <1>6, <1>7, <1>8

-----------------------------------------------------------------------------
(* The callback.                                                           *)
Runs(callback) ==
  CHOOSE run : run = [n \in Nat |->
    IF n = 0 THEN [slot |-> CallbackSlot(TRUE, callback), ran |-> <<>>, result |-> "not reached"]
    ELSE Complete(run[n - 1])]
LEMMA RunTransitionDef ==
  \A slot, callback, reached : RunTransition(slot, callback, reached) =
    LET ended == IF slot # EmptySlot THEN [slot |-> slot, ran |-> <<>>, result |-> "refused"]
                 ELSE Runs(callback)[reached]
    IN [ended EXCEPT !.slot = EndRun(slot, ended)]
BY Zenon DEF RunTransition, Runs

\* the callback is taken once, however often the core is reached
Begun(callback) == [slot |-> CallbackSlot(TRUE, callback), ran |-> <<>>, result |-> "not reached"]
Ran(callback) ==
  [slot |-> CallbackSlot(TRUE, "none"), ran |-> <<callback>>,
   result |-> IF callback = "panics" THEN "not reached" ELSE callback]

LEMMA CompleteIs ==
  ASSUME NEW callback, callback # "none"
  PROVE  Complete(Begun(callback)) = Ran(callback) /\ Complete(Ran(callback)) = Ran(callback)
<1>1. PICK b : b = Begun(callback)
  OBVIOUS
<1>2. /\ b = [slot |-> [active |-> TRUE, callback |-> callback], ran |-> <<>>, result |-> "not reached"]
      /\ b.slot.callback = callback /\ b.slot = [active |-> TRUE, callback |-> callback]
      /\ b.ran = <<>> /\ b.result = "not reached"
  BY <1>1 DEF Begun, CallbackSlot
<1>3. Complete(b) = [b EXCEPT !.slot.callback = "none", !.ran = Append(@, callback),
                              !.result = IF callback = "panics" THEN @ ELSE callback]
  BY <1>2 DEF Complete
<1>4. Append(<<>>, callback) = <<callback>>
  OBVIOUS
<1>5. Complete(b) = [slot |-> [active |-> TRUE, callback |-> "none"], ran |-> <<callback>>,
                     result |-> IF callback = "panics" THEN "not reached" ELSE callback]
  BY <1>2, <1>3, <1>4
<1>6. Ran(callback).slot.callback = "none"
  BY DEF Ran, CallbackSlot
<1> QED
  BY <1>1, <1>5, <1>6 DEF Ran, CallbackSlot, Complete

LEMMA RunsAre ==
  ASSUME NEW callback, callback # "none", NEW n \in Nat
  PROVE  Runs(callback)[n] = IF n = 0 THEN Begun(callback) ELSE Ran(callback)
<1>1. PICK f : f = [m \in Nat |-> IF m = 0 THEN Begun(callback) ELSE Ran(callback)]
  OBVIOUS
<1>2. f = [m \in Nat |-> IF m = 0 THEN Begun(callback) ELSE Complete(f[m - 1])]
  <2>1. ASSUME NEW m \in Nat, m # 0 PROVE Complete(f[m - 1]) = Ran(callback)
    <3>1. m - 1 \in Nat /\ f[m - 1] = IF m - 1 = 0 THEN Begun(callback) ELSE Ran(callback)
      BY <1>1, <2>1
    <3> QED
      BY <3>1, CompleteIs
  <2> QED
    BY <1>1, <2>1
<1>3. PICK g : g = Runs(callback)
  OBVIOUS
<1>4. g = [m \in Nat |-> IF m = 0 THEN Begun(callback) ELSE Complete(g[m - 1])]
  BY <1>2, <1>3, Zenon DEF Runs, Begun
<1> DEFINE Same == {m \in Nat : g[m] = f[m]}
<1>5. 0 \in Same
  BY <1>1, <1>4
<1>6. ASSUME NEW m \in Same PROVE m + 1 \in Same
  <2>1. m \in Nat /\ m + 1 \in Nat /\ m + 1 # 0 /\ (m + 1) - 1 = m /\ g[m] = f[m]
    OBVIOUS
  <2>2. g[m + 1] = Complete(g[m]) /\ f[m + 1] = Complete(f[m])
    <3> HIDE DEF Same
    <3> QED
      BY <1>2, <1>4, <2>1
  <2> QED
    BY <2>1, <2>2
<1>7. Same = Nat
  <2>1. Same \in SUBSET Nat
    OBVIOUS
  <2> HIDE DEF Same
  <2> QED
    BY <1>5, <1>6, <2>1, Induction
<1>8. g[n] = f[n]
  BY <1>7
<1> QED
  BY <1>1, <1>3, <1>8

LEMMA Positive == \A n \in Nat : (n > 0) <=> (n # 0)
OBVIOUS

(* A callback runs once or, if ART's code never gets to its core, not at   *)
(* all, however often it gets there; a run within a run is refused and     *)
(* leaves the slot to the one around it.                                   *)
THEOREM CallbacksAlwaysRunOnce ==
  ASSUME NEW callback, callback \notin {"none", "not reached", "refused"}, NEW reached \in Nat
  PROVE  CallbackRunsOnce(callback, reached)
<1>1. PICK outer, inner : /\ outer = RunTransition(EmptySlot, callback, reached)
                          /\ inner = RunTransition(CallbackSlot(TRUE, "none"), callback, reached)
  OBVIOUS
<1>2. PICK ended : ended = IF reached = 0 THEN Begun(callback) ELSE Ran(callback)
  OBVIOUS
<1>3. Runs(callback)[reached] = ended
  BY <1>2, RunsAre
<1>4. outer = [ended EXCEPT !.slot = EndRun(EmptySlot, ended)]
  BY <1>1, <1>3, RunTransitionDef
<1>5. /\ ended = [slot |-> ended.slot, ran |-> ended.ran, result |-> ended.result]
      /\ ended.ran = IF reached = 0 THEN <<>> ELSE <<callback>>
      /\ ended.result = IF reached = 0 \/ callback = "panics" THEN "not reached" ELSE callback
  BY <1>2 DEF Begun, Ran
<1>6. EndRun(EmptySlot, ended) = EmptySlot
  BY DEF EndRun
<1>7. outer.slot = EmptySlot /\ outer.ran = ended.ran /\ outer.result = ended.result
  BY <1>4, <1>5, <1>6
<1>8. CallbackSlot(TRUE, "none") # EmptySlot
  <2>1. CallbackSlot(TRUE, "none").active = TRUE /\ EmptySlot.active = FALSE
    BY DEF CallbackSlot, EmptySlot
  <2> QED
    BY <2>1
<1>9. PICK refused : refused = [slot |-> CallbackSlot(TRUE, "none"), ran |-> <<>>, result |-> "refused"]
  OBVIOUS
<1>10. inner = [refused EXCEPT !.slot = EndRun(CallbackSlot(TRUE, "none"), refused)]
  BY <1>1, <1>8, <1>9, RunTransitionDef
<1>11. EndRun(CallbackSlot(TRUE, "none"), refused) = CallbackSlot(TRUE, "none")
  BY <1>9 DEF EndRun
<1>12. inner.ran = <<>> /\ inner.slot = CallbackSlot(TRUE, "none")
  BY <1>9, <1>10, <1>11
<1>13. (outer.result = callback) <=> (reached > 0 /\ callback # "panics")
  <2>1. (reached > 0) <=> (reached # 0)
    BY Positive
  <2>2. callback # "not reached"
    OBVIOUS
  <2> QED
    BY <1>5, <1>7, <2>1, <2>2, Zenon
<1>14. Len(outer.ran) = IF reached > 0 THEN 1 ELSE 0
  <2>1. Len(<<>>) = 0 /\ Len(<<callback>>) = 1
    OBVIOUS
  <2>2. (reached > 0) <=> (reached # 0)
    BY Positive
  <2> QED
    BY <1>5, <1>7, <2>1, <2>2, Zenon
<1> QED
  BY <1>1, <1>7, <1>12, <1>13, <1>14, Zenon DEF CallbackRunsOnce

-----------------------------------------------------------------------------
(* What turns a thread runnable, sampled.                                  *)
LEMMA SequencesAreCode ==
  ASSUME NEW S, \A insn \in S : insn.target \in Int, NEW code \in Seq(S)
  PROVE  IsCode(code)
<1>1. PICK n \in Nat : n = Len(code)
  OBVIOUS
<1>2. DOMAIN code = 1 .. n /\ \A i \in 1 .. n : code[i] \in S
  BY <1>1
<1>3. IsFiniteSet(1 .. n)
  <2>1. 1 \in Int /\ n \in Int
    OBVIOUS
  <2> QED
    BY <2>1, FS_Interval, Zenon
<1>4. 1 .. n \subseteq Int
  OBVIOUS
<1> QED
  BY <1>2, <1>3, <1>4, Zenon DEF IsCode

LEMMA PairsAndTriples ==
  ASSUME NEW S, NEW start \in S \X S, NEW a \in S, NEW b \in S, NEW c \in S
  PROVE  start \o <<a, b, c>> \in Seq(S)
<1>1. PICK x \in S, y \in S : start = <<x, y>>
  OBVIOUS
<1>2. <<x, y>> \in Seq(S)
  OBVIOUS
<1>3. <<a, b, c>> \in Seq(S)
  OBVIOUS
<1> QED
  BY <1>1, <1>2, <1>3, ConcatProperties

LEMMA SampledCodeIsCode ==
  ASSUME NEW start \in CodeInsns \X CodeInsns, NEW third \in CodeInsns, NEW fourth \in CodeInsns,
         NEW last \in CodeEnds
  PROVE  IsCode(start \o <<third, fourth, last>>)
<1>1. PICK S : S = CodeInsns \cup CodeEnds
  OBVIOUS
<1>2. \A insn \in S : insn.target \in Int
  BY <1>1 DEF CodeInsns, CodeEnds, Branch, BranchIf, Ret, Clear, LoadSlot, Blr, Jump, Other, Insn
<1>3. start \in S \X S /\ third \in S /\ fourth \in S /\ last \in S
  BY <1>1
<1> QED
  BY <1>2, <1>3, PairsAndTriples, SequencesAreCode

LEMMA BridgeEnumerates == BridgeSpec => EnumSpec
<1>1. BridgeInit => EnumInit
  BY DEF BridgeInit
<1>2. [BridgeNext]_bridgeVars => [EnumNext]_enumVars
  BY DEF BridgeNext, Draw, PutBack, bridgeVars, enumVars
<1> QED
  BY <1>1, <1>2, PTL DEF BridgeSpec, EnumSpec

(* An enumeration gives the thread back as it found it, the code that is   *)
(* sampled is copied to run as the original does, and a callback that is   *)
(* sampled runs once.                                                      *)
THEOREM ThreadsAlwaysComeBack == BridgeSpec => []ThreadsComeBack
<1>1. ASSUME InputsAreDrawn, of = "code", NEW third \in CodeInsns, NEW fourth \in CodeInsns,
             NEW last \in CodeEnds, NEW next \in {4, 6}, Ends(input.start \o <<third, fourth, last>>, next)
      PROVE  CopyRunsAsOriginal(input.start \o <<third, fourth, last>>, input.entry, next)
  <2>1. input \in CodeInputs
    BY <1>1, PartsDiffer, Zenon DEF Sampled, Inputs
  <2>2. input.start \in CodeInsns \X CodeInsns /\ input.entry \in Int /\ next \in Int
    BY <2>1 DEF CodeInputs
  <2> QED
    BY <1>1, <2>2, SampledCodeIsCode, CopiesAlwaysRunAsOriginal
<1>2. ASSUME InputsAreDrawn, of = "run" PROVE CallbackRunsOnce(input.callback, input.reached)
  <2>1. input \in RunInputs
    BY <1>2, PartsDiffer, Zenon DEF Sampled, Inputs
  <2>2. PICK c \in {"ok", "error", "panics"}, r \in 0 .. 2 : c = input.callback /\ r = input.reached
    BY <2>1 DEF RunInputs
  <2>3. c \notin {"none", "not reached", "refused"}
    OBVIOUS
  <2>4. r \in Nat
    OBVIOUS
  <2>5. CallbackRunsOnce(c, r)
    BY <2>3, <2>4, CallbacksAlwaysRunOnce
  <2> QED
    BY <2>2, <2>5
<1>3. InputsAreDrawn /\ ThreadIsRestored => ThreadsComeBack
  BY <1>1, <1>2, Zenon DEF ThreadsComeBack
<1> QED
  BY <1>3, DrawnInputs, BridgeEnumerates, ThreadsAreRestored, PTL

=============================================================================
