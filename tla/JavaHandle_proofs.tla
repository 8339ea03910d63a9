-------------------------- MODULE JavaHandle_proofs --------------------------
(***************************************************************************)
(* Proofs about what callers do with the Java handle: its lookups          *)
(* (ClassLookup), for every set of threads, loaders, names and caches, and *)
(* its enumerations (Enumeration), for every set of loaders, classes and   *)
(* objects and any number of visits.                                       *)
(*                                                                         *)
(* That a lookup stays in scope is not inductive.  One that finds its      *)
(* class in the cache is right because of what the cache holds, and the    *)
(* cache is right because only handles of one loader ever write to it.     *)
(*                                                                         *)
(* References are counted: what an enumeration found and gave, and what    *)
(* callbacks retained, add up to what there is but after the two endings   *)
(* that lose references (HandlesAreOwned), which is inductive once it is   *)
(* said when nothing is found or given (Phases).  A class joins the group of its loader or starts one, and the *)
(* classes that are grouped are those seen that match (GroupInv), so that  *)
(* a class seen again is in a group already.                               *)
(***************************************************************************)
EXTENDS ClassLookup, Enumeration, FiniteSetTheorems, SequenceTheorems, TLAPS

-----------------------------------------------------------------------------
(* Lookups.                                                                *)
Known == {"none"} \cup {Found[l][n] : l \in Loaders, n \in ClassNames}
AnyHandle == [loader : Loaders \cup {"none"}, classes : Caches]
UnderWay ==
  [pc : {"looking", "inserting", "found"}, handle : AnyHandle, name : ClassNames,
   context : Loaders, class : Known]

LookupTypeOK ==
  /\ handles \subseteq AnyHandle
  /\ default = NoDefault \/ default \in [loader : Loaders, classes : Caches]
  /\ made \subseteq Caches
  /\ cache \in [Caches -> [ClassNames -> Known]]
  /\ lookup \in [Lookers -> {Idle} \cup UnderWay]

\* somebody holds the handle: a caller, the default, or a lookup
HandleHeld(h) ==
  \/ h \in handles
  \/ h = default /\ default # NoDefault
  \/ \E t \in Lookers : lookup[t] # Idle /\ lookup[t].handle = h

HeldAreMade == \A h \in AnyHandle : HandleHeld(h) => h.classes \in made

(* A cache belongs to one loader, whichever handles share it.              *)
CachesAreOfOneLoader ==
  \A g, h \in AnyHandle : HandleHeld(g) /\ HandleHeld(h) /\ g.classes = h.classes => g.loader = h.loader

(* It holds what that loader finds, and nothing as long as nobody has it.  *)
CachesHoldTheirLoaders ==
  /\ \A h \in AnyHandle, n \in ClassNames :
       HandleHeld(h) /\ h.loader # "none" => cache[h.classes][n] \in {"none", Found[h.loader][n]}
  /\ \A c \in Caches \ made, n \in ClassNames : cache[c][n] = "none"

LookupsFollowTheirLoaders ==
  \A t \in Lookers :
    lookup[t] # Idle /\ lookup[t].pc # "looking" /\ lookup[t].handle.loader # "none" =>
      lookup[t].class = Found[lookup[t].handle.loader][lookup[t].name]

LookupInv ==
  LookupTypeOK /\ HeldAreMade /\ CachesAreOfOneLoader /\ CachesHoldTheirLoaders
  /\ LookupsFollowTheirLoaders

-----------------------------------------------------------------------------
LEMMA InitLookup == LookupInit => LookupInv
<1> SUFFICES ASSUME LookupInit PROVE LookupInv
  OBVIOUS
<1> USE DEF LookupInit
<1>1. LookupTypeOK
  BY DEF LookupTypeOK, Known
<1>2. \A h \in AnyHandle : ~HandleHeld(h)
  BY DEF HandleHeld
<1>3. \A c \in Caches, n \in ClassNames : cache[c][n] = "none"
  OBVIOUS
<1>4. LookupsFollowTheirLoaders
  BY DEF LookupsFollowTheirLoaders
<1> QED
  BY <1>1, <1>2, <1>3, <1>4
  DEF LookupInv, HeldAreMade, CachesAreOfOneLoader, CachesHoldTheirLoaders

(* Nothing new is held when a handle is made of the default's, or a lookup *)
(* starts on a handle that was held.                                       *)
LEMMA NothingNewIsHeld ==
  ASSUME LookupInv, LookupTypeOK', UNCHANGED <<made, cache>>,
         \A h \in AnyHandle : HandleHeld(h)' => HandleHeld(h), LookupsFollowTheirLoaders'
  PROVE  LookupInv'
BY DEF LookupInv, HeldAreMade, CachesAreOfOneLoader, CachesHoldTheirLoaders

(* A handle on a cache of its own joins those that are held.               *)
LEMMA OneMoreIsHeld ==
  ASSUME LookupInv, NEW c \in Caches, NEW l \in Loaders \cup {"none"}, MakeCache(c),
         LookupTypeOK', UNCHANGED <<cache, lookup>>,
         \A h \in AnyHandle : HandleHeld(h)' => HandleHeld(h) \/ h = Handle(l, c)
  PROVE  LookupInv'
<1> USE DEF LookupInv
<1>1. \A h \in AnyHandle : HandleHeld(h) => h.classes \in made /\ h.classes # c
  BY DEF HeldAreMade, MakeCache
<1>2. HeldAreMade'
  BY <1>1 DEF HeldAreMade, MakeCache, Handle
<1>3. CachesAreOfOneLoader'
  BY <1>1 DEF CachesAreOfOneLoader, Handle
<1>4. CachesHoldTheirLoaders'
  <2>1. \A n \in ClassNames : cache[c][n] = "none"
    BY DEF CachesHoldTheirLoaders, MakeCache
  <2>2. ASSUME NEW h \in AnyHandle, NEW n \in ClassNames, HandleHeld(h)', h.loader # "none"
        PROVE  cache'[h.classes][n] \in {"none", Found[h.loader][n]}
    BY <2>1, <2>2 DEF CachesHoldTheirLoaders, Handle
  <2> QED
    BY <2>2 DEF CachesHoldTheirLoaders, MakeCache
<1>5. LookupsFollowTheirLoaders'
  BY DEF LookupsFollowTheirLoaders
<1> QED
  BY <1>2, <1>3, <1>4, <1>5

LEMMA BeginKeeps ==
  ASSUME LookupInv, NEW t \in Lookers, NEW h \in AnyHandle, NEW n \in ClassNames,
         NEW context \in Loaders, HandleHeld(h), Begin(t, h, n, context)
  PROVE  LookupInv'
<1> USE DEF LookupInv, Begin
<1> DEFINE look == Looking(IF cache[h.classes][n] = "none" THEN "looking" ELSE "found",
                           h, n, context, cache[h.classes][n])
<1>1. look \in UnderWay /\ look # Idle /\ look.handle = h /\ look.name = n
      /\ look.class = cache[h.classes][n]
      /\ (look.pc # "looking" => look.class # "none")
  BY DEF LookupTypeOK, AnyHandle, Looking, UnderWay, Idle
<1>2. lookup' = [lookup EXCEPT ![t] = look]
  OBVIOUS
<1> HIDE DEF look
<1>3. LookupTypeOK'
  BY <1>1, <1>2 DEF LookupTypeOK
<1>4. \A g \in AnyHandle : HandleHeld(g)' => HandleHeld(g)
  BY <1>1, <1>2 DEF HandleHeld, LookupTypeOK
<1>5. LookupsFollowTheirLoaders'
  <2> SUFFICES ASSUME NEW u \in Lookers, lookup'[u] # Idle, lookup'[u].pc # "looking",
                      lookup'[u].handle.loader # "none"
               PROVE  lookup'[u].class = Found[lookup'[u].handle.loader][lookup'[u].name]
    BY DEF LookupsFollowTheirLoaders
  <2>1. CASE u = t
    <3>1. lookup'[u] = look
      BY <1>2, <2>1 DEF LookupTypeOK
    <3> QED
      BY <1>1, <3>1 DEF CachesHoldTheirLoaders
  <2>2. CASE u # t
    BY <1>2, <2>2 DEF LookupsFollowTheirLoaders, LookupTypeOK
  <2> QED
    BY <2>1, <2>2
<1> QED
  BY <1>3, <1>4, <1>5, NothingNewIsHeld

LEMMA LookKeeps ==
  ASSUME LookupInv, NEW t \in Lookers, Look(t)
  PROVE  LookupInv'
<1> USE DEF LookupInv
<1> DEFINE by == IF lookup[t].handle.loader = "none" THEN lookup[t].context
                 ELSE lookup[t].handle.loader
           class == Found[by][lookup[t].name]
           after == IF class = "none" THEN Idle
                    ELSE [lookup[t] EXCEPT !.pc = "inserting", !.class = class]
<1>1. lookup[t] \in UnderWay /\ lookup[t] # Idle
  BY DEF Look, LookupTypeOK, Idle, UnderWay
<1>2. class \in Known
  BY <1>1 DEF UnderWay, AnyHandle, Known
<1>3. lookup' = [lookup EXCEPT ![t] = after]
  BY DEF Look
<1>4. after = Idle \/ (after \in UnderWay /\ after.handle = lookup[t].handle
                       /\ after.name = lookup[t].name /\ after.class = class)
  BY <1>1, <1>2 DEF UnderWay
<1>5. lookup[t].handle.loader # "none" => class = Found[lookup[t].handle.loader][lookup[t].name]
  OBVIOUS
<1> HIDE DEF by, class, after
<1>6. LookupTypeOK'
  BY <1>3, <1>4 DEF LookupTypeOK, Look
<1>7. \A g \in AnyHandle : HandleHeld(g)' => HandleHeld(g)
  BY <1>1, <1>3, <1>4 DEF HandleHeld, LookupTypeOK, Look
<1>8. LookupsFollowTheirLoaders'
  <2> SUFFICES ASSUME NEW u \in Lookers, lookup'[u] # Idle, lookup'[u].pc # "looking",
                      lookup'[u].handle.loader # "none"
               PROVE  lookup'[u].class = Found[lookup'[u].handle.loader][lookup'[u].name]
    BY DEF LookupsFollowTheirLoaders
  <2>1. CASE u = t
    <3>1. lookup'[u] = after
      BY <1>3, <2>1 DEF LookupTypeOK
    <3> QED
      BY <1>4, <1>5, <3>1
  <2>2. CASE u # t
    BY <1>3, <2>2 DEF LookupsFollowTheirLoaders, LookupTypeOK
  <2> QED
    BY <2>1, <2>2
<1> QED
  BY <1>6, <1>7, <1>8, NothingNewIsHeld DEF Look

LEMMA InsertKeeps ==
  ASSUME LookupInv, NEW t \in Lookers, Insert(t)
  PROVE  LookupInv'
<1> USE DEF LookupInv
<1> DEFINE look == lookup[t]
           after == [look EXCEPT !.pc = "found"]
<1>1. look \in UnderWay /\ look # Idle /\ look.pc = "inserting"
  BY DEF Insert, LookupTypeOK, Idle, UnderWay
<1>2. look.handle \in AnyHandle /\ look.handle.classes \in Caches
      /\ look.name \in ClassNames /\ look.class \in Known
  BY <1>1 DEF UnderWay, AnyHandle
<1>3. after \in UnderWay /\ after.handle = look.handle
      /\ after.name = look.name /\ after.class = look.class
  BY <1>1 DEF UnderWay
<1>4. lookup' = [lookup EXCEPT ![t] = after]
  BY DEF Insert
<1>5. cache' = [cache EXCEPT ![look.handle.classes] = [@ EXCEPT ![look.name] = look.class]]
  BY DEF Insert
<1>6. HandleHeld(look.handle)
  BY <1>1 DEF HandleHeld
<1>7. look.handle.loader # "none" => look.class = Found[look.handle.loader][look.name]
  BY <1>1 DEF LookupsFollowTheirLoaders
<1> HIDE DEF look, after
<1>8. LookupTypeOK'
  <2>1. cache \in [Caches -> [ClassNames -> Known]]
    BY DEF LookupTypeOK
  <2>2. cache' \in [Caches -> [ClassNames -> Known]]
    BY <1>2, <1>5, <2>1
  <2>3. lookup' \in [Lookers -> {Idle} \cup UnderWay]
    BY <1>3, <1>4 DEF LookupTypeOK
  <2> QED
    BY <2>2, <2>3 DEF LookupTypeOK, Insert
<1>9. \A g \in AnyHandle : HandleHeld(g)' => HandleHeld(g)
  BY <1>1, <1>3, <1>4 DEF HandleHeld, LookupTypeOK, Insert, look
<1>10. HeldAreMade' /\ CachesAreOfOneLoader'
  BY <1>9 DEF HeldAreMade, CachesAreOfOneLoader, Insert
<1>11. CachesHoldTheirLoaders'
  <2>1. ASSUME NEW h \in AnyHandle, NEW n \in ClassNames, HandleHeld(h), h.loader # "none"
        PROVE  cache'[h.classes][n] \in {"none", Found[h.loader][n]}
    <3>1. h.classes \in Caches
      BY DEF AnyHandle
    <3>2. CASE h.classes = look.handle.classes /\ n = look.name
      <4>1. h.loader = look.handle.loader
        BY <1>2, <1>6, <2>1, <3>2 DEF CachesAreOfOneLoader
      <4>2. cache'[h.classes][n] = look.class
        BY <1>2, <1>5, <3>1, <3>2 DEF LookupTypeOK
      <4> QED
        BY <1>7, <2>1, <3>2, <4>1, <4>2
    <3>3. CASE ~(h.classes = look.handle.classes /\ n = look.name)
      <4>1. cache'[h.classes][n] = cache[h.classes][n]
        BY <1>2, <1>5, <3>1, <3>3 DEF LookupTypeOK
      <4> QED
        BY <2>1, <4>1 DEF CachesHoldTheirLoaders
    <3> QED
      BY <3>2, <3>3
  <2>2. ASSUME NEW c \in Caches \ made, NEW n \in ClassNames
        PROVE  cache'[c][n] = "none"
    <3>1. c # look.handle.classes
      BY <1>2, <1>6 DEF HeldAreMade
    <3> QED
      BY <1>2, <1>5, <3>1 DEF LookupTypeOK, CachesHoldTheirLoaders
  <2> QED
    BY <1>9, <2>1, <2>2 DEF CachesHoldTheirLoaders, Insert
<1>12. LookupsFollowTheirLoaders'
  <2> SUFFICES ASSUME NEW u \in Lookers, lookup'[u] # Idle, lookup'[u].pc # "looking",
                      lookup'[u].handle.loader # "none"
               PROVE  lookup'[u].class = Found[lookup'[u].handle.loader][lookup'[u].name]
    BY DEF LookupsFollowTheirLoaders
  <2>1. CASE u = t
    <3>1. lookup'[u] = after
      BY <1>4, <2>1 DEF LookupTypeOK
    <3> QED
      BY <1>3, <1>7, <3>1
  <2>2. CASE u # t
    BY <1>4, <2>2 DEF LookupsFollowTheirLoaders, LookupTypeOK
  <2> QED
    BY <2>1, <2>2
<1> QED
  BY <1>8, <1>10, <1>11, <1>12

LEMMA LookupReturnKeeps ==
  ASSUME LookupInv, NEW t \in Lookers, ReturnClass(t)
  PROVE  LookupInv'
<1> USE DEF LookupInv, ReturnClass
<1>1. LookupTypeOK'
  BY DEF LookupTypeOK
<1>2. \A g \in AnyHandle : HandleHeld(g)' => HandleHeld(g)
  BY DEF HandleHeld, LookupTypeOK
<1>3. LookupsFollowTheirLoaders'
  BY DEF LookupsFollowTheirLoaders, LookupTypeOK
<1> QED
  BY <1>1, <1>2, <1>3, NothingNewIsHeld

LEMMA LookupStep == LookupInv /\ [LookupNext]_lookupVars => LookupInv'
<1> SUFFICES ASSUME LookupInv, [LookupNext]_lookupVars PROVE LookupInv'
  OBVIOUS
<1>0. LookupTypeOK
  BY DEF LookupInv
<1>1. ASSUME NEW c \in Caches, Obtain(c) PROVE LookupInv'
  <2>1. Handle("none", c) \in AnyHandle
    BY DEF Handle, AnyHandle
  <2>2. LookupTypeOK'
    BY <1>0, <1>1, <2>1 DEF LookupTypeOK, Obtain, MakeCache
  <2>3. \A h \in AnyHandle : HandleHeld(h)' => HandleHeld(h) \/ h = Handle("none", c)
    BY <1>1 DEF HandleHeld, Obtain
  <2> QED
    BY <1>1, <2>2, <2>3, OneMoreIsHeld DEF Obtain
<1>2. ASSUME NEW c \in Caches, NEW l \in Loaders, Publish(l, c) PROVE LookupInv'
  <2>1. LookupTypeOK'
    BY <1>0, <1>2 DEF LookupTypeOK, Publish, MakeCache, Handle
  <2>2. \A h \in AnyHandle : HandleHeld(h)' => HandleHeld(h) \/ h = Handle(l, c)
    BY <1>2 DEF HandleHeld, Publish
  <2> QED
    BY <1>2, <2>1, <2>2, OneMoreIsHeld DEF Publish
<1>3. ASSUME NEW c \in Caches, NEW l \in Loaders, NEW h \in handles, WithLoader(h, l, c)
      PROVE  LookupInv'
  <2>1. Handle(l, c) \in AnyHandle
    BY DEF Handle, AnyHandle
  <2>2. LookupTypeOK'
    BY <1>0, <1>3, <2>1 DEF LookupTypeOK, WithLoader, MakeCache
  <2>3. \A g \in AnyHandle : HandleHeld(g)' => HandleHeld(g) \/ g = Handle(l, c)
    BY <1>3 DEF HandleHeld, WithLoader
  <2> QED
    BY <1>3, <2>2, <2>3, OneMoreIsHeld DEF WithLoader
<1>4. CASE DefaultJava
  <2>1. LookupTypeOK'
    BY <1>0, <1>4 DEF LookupTypeOK, DefaultJava, AnyHandle
  <2>2. \A h \in AnyHandle : HandleHeld(h)' => HandleHeld(h)
    BY <1>4 DEF HandleHeld, DefaultJava
  <2>3. LookupsFollowTheirLoaders'
    BY <1>4 DEF LookupInv, LookupsFollowTheirLoaders, DefaultJava
  <2> QED
    BY <1>4, <2>1, <2>2, <2>3, NothingNewIsHeld DEF DefaultJava
<1>5. ASSUME NEW t \in Lookers, NEW h \in handles, NEW n \in ClassNames,
             NEW context \in Loaders, FindClass(t, h, n, context)
      PROVE  LookupInv'
  <2>1. h \in AnyHandle /\ HandleHeld(h)
    BY <1>0 DEF LookupTypeOK, HandleHeld
  <2> QED
    BY <1>5, <2>1, BeginKeeps DEF FindClass
<1>6. ASSUME NEW t \in Lookers, NEW h \in handles, NEW n \in ClassNames,
             NEW context \in Loaders, UseClass(t, h, n, context)
      PROVE  LookupInv'
  <2>1. default \in AnyHandle /\ HandleHeld(default)
    BY <1>0, <1>6 DEF LookupTypeOK, HandleHeld, UseClass, AnyHandle
  <2> QED
    BY <1>6, <2>1, BeginKeeps DEF UseClass
<1>7. CASE UNCHANGED lookupVars
  BY <1>7 DEF lookupVars, LookupInv, LookupTypeOK, HeldAreMade, CachesAreOfOneLoader,
              CachesHoldTheirLoaders, LookupsFollowTheirLoaders, HandleHeld
<1> QED
  BY <1>1, <1>2, <1>3, <1>4, <1>5, <1>6, <1>7, LookKeeps, InsertKeeps, LookupReturnKeeps
  DEF LookupNext

(* A handle with a loader finds what its loader finds, whatever was looked *)
(* up before and whichever loaders were published meanwhile: find_class    *)
(* and the caches that clones of a handle share, in java/handle.rs.        *)
THEOREM LookupsStayInScope == LookupSpec => []ScopedLookupsStayInScope
<1>1. LookupInv => ScopedLookupsStayInScope
  BY DEF LookupInv, LookupsFollowTheirLoaders, ScopedLookupsStayInScope, Idle
<1> QED
  BY <1>1, InitLookup, LookupStep, PTL DEF LookupSpec

-----------------------------------------------------------------------------
(* Enumerations.                                                           *)

-----------------------------------------------------------------------------
(* How many references a list has.                                         *)
Indices(s, o) == {i \in DOMAIN s : s[i].ref = o}

LEMMA ReferencesAreCounted ==
  ASSUME NEW S, NEW s \in Seq(S), NEW o
  PROVE  /\ IsFiniteSet(Indices(s, o)) /\ References(s, o) = Cardinality(Indices(s, o))
         /\ References(s, o) \in Nat
<1>1. DOMAIN s = 1 .. Len(s) /\ Len(s) \in Nat
  OBVIOUS
<1>2. IsFiniteSet(1 .. Len(s))
  BY <1>1, FS_Interval
<1>3. Indices(s, o) \in SUBSET (1 .. Len(s))
  BY <1>1 DEF Indices
<1>4. IsFiniteSet(Indices(s, o))
  BY <1>2, <1>3, FS_Subset
<1> QED
  BY <1>4, FS_CardinalityType DEF References, Indices

LEMMA NoReferences == \A o : References(<<>>, o) = 0
<1>1. \A o : {i \in DOMAIN <<>> : <<>>[i].ref = o} = {}
  OBVIOUS
<1> QED
  BY <1>1, FS_EmptySet DEF References

LEMMA SameReferences ==
  ASSUME NEW s, NEW t, NEW o, DOMAIN t = DOMAIN s, \A i \in DOMAIN s : t[i].ref = s[i].ref
  PROVE  References(t, o) = References(s, o)
<1>1. Indices(s, o) = Indices(t, o)
  BY DEF Indices
<1> QED
  BY <1>1 DEF References, Indices

LEMMA AppendedReferences ==
  ASSUME NEW S, NEW s \in Seq(S), NEW x \in S, NEW o
  PROVE  References(Append(s, x), o) = References(s, o) + (IF x.ref = o THEN 1 ELSE 0)
<1> DEFINE n == Len(s)
           t == Append(s, x)
<1>1. /\ n \in Nat /\ t \in Seq(S) /\ DOMAIN s = 1..n /\ DOMAIN t = 1..(n + 1)
      /\ t[n + 1] = x /\ \A i \in 1..n : t[i] = s[i]
  OBVIOUS
<1>2. n + 1 \notin 1..n /\ 1..(n + 1) = (1..n) \cup {n + 1}
  BY <1>1
<1> HIDE DEF t, n
<1>3. Indices(t, o) = IF x.ref = o THEN Indices(s, o) \cup {n + 1} ELSE Indices(s, o)
  BY <1>1, <1>2 DEF Indices
<1>4. n + 1 \notin Indices(s, o)
  BY <1>1, <1>2 DEF Indices
<1>5. /\ IsFiniteSet(Indices(s, o)) /\ References(s, o) = Cardinality(Indices(s, o))
      /\ References(t, o) = Cardinality(Indices(t, o)) /\ References(s, o) \in Nat
  BY <1>1, ReferencesAreCounted
<1>6. Cardinality(Indices(s, o) \cup {n + 1}) = Cardinality(Indices(s, o)) + 1
  BY <1>4, <1>5, FS_AddElement
<1> QED
  BY <1>3, <1>5, <1>6 DEF t

\* numbering a list from k + 1 instead of 1
LEMMA ShiftedIndices ==
  ASSUME NEW S, IsFiniteSet(S), S \subseteq Int, NEW k \in Int
  PROVE  LET T == {i + k : i \in S} IN IsFiniteSet(T) /\ Cardinality(T) = Cardinality(S)
<1> DEFINE T == {i + k : i \in S}
           f == [i \in S |-> i + k]
<1>1. f \in [S -> T]
  OBVIOUS
<1>2. \A i, j \in S : f[i] = f[j] => i = j
  OBVIOUS
<1>3. \A y \in T : \E i \in S : f[i] = y
  OBVIOUS
<1>4. f \in Bijection(S, T)
  BY <1>1, <1>2, <1>3 DEF Bijection, Injection, Surjection, IsInjective
<1>5. ExistsBijection(S, T)
  BY <1>4 DEF ExistsBijection
<1> QED
  BY <1>5, FS_Bijection

LEMMA JoinedReferences ==
  ASSUME NEW S, NEW s \in Seq(S), NEW t \in Seq(S), NEW o
  PROVE  References(s \o t, o) = References(s, o) + References(t, o)
<1> DEFINE n == Len(s)
           m == Len(t)
           st == s \o t
           shifted == {i + n : i \in Indices(t, o)}
<1>1. /\ n \in Nat /\ m \in Nat /\ DOMAIN s = 1..n /\ DOMAIN t = 1..m
      /\ st \in Seq(S) /\ DOMAIN st = 1..(n + m)
      /\ \A i \in 1..n : st[i] = s[i]
      /\ \A i \in 1..m : st[i + n] = t[i]
  OBVIOUS
<1> HIDE DEF n, m, st
<1>2. Indices(st, o) = Indices(s, o) \cup shifted
  <2>1. ASSUME NEW i \in Indices(st, o) PROVE i \in Indices(s, o) \cup shifted
    <3>1. i \in 1..(n + m) /\ st[i].ref = o
      BY <1>1 DEF Indices
    <3>2. CASE i <= n
      BY <1>1, <3>1, <3>2 DEF Indices
    <3>3. CASE ~(i <= n)
      <4>1. i - n \in 1..m /\ (i - n) + n = i
        BY <1>1, <3>1, <3>3
      <4>2. i - n \in Indices(t, o)
        BY <1>1, <3>1, <4>1 DEF Indices
      <4> QED
        BY <4>1, <4>2
    <3> QED
      BY <3>2, <3>3
  <2>2. ASSUME NEW i \in Indices(s, o) PROVE i \in Indices(st, o)
    BY <1>1 DEF Indices
  <2>3. ASSUME NEW i \in Indices(t, o) PROVE i + n \in Indices(st, o)
    BY <1>1 DEF Indices
  <2> QED
    BY <2>1, <2>2, <2>3
<1>3. Indices(s, o) \cap shifted = {}
  BY <1>1 DEF Indices
<1>4. /\ IsFiniteSet(Indices(s, o)) /\ References(s, o) = Cardinality(Indices(s, o))
      /\ IsFiniteSet(Indices(t, o)) /\ References(t, o) = Cardinality(Indices(t, o))
      /\ References(st, o) = Cardinality(Indices(st, o))
      /\ References(s, o) \in Nat /\ References(t, o) \in Nat
  BY <1>1, ReferencesAreCounted
<1>5. Indices(t, o) \subseteq Int /\ n \in Int
  BY <1>1 DEF Indices
<1>6. IsFiniteSet(shifted) /\ Cardinality(shifted) = Cardinality(Indices(t, o))
  BY <1>4, <1>5, ShiftedIndices, Zenon
<1> HIDE DEF shifted
<1>7. Cardinality(Indices(s, o) \cup shifted) = Cardinality(Indices(s, o)) + Cardinality(shifted) - 0
  BY <1>3, <1>4, <1>6, FS_Union, FS_EmptySet
<1> QED
  BY <1>2, <1>4, <1>6, <1>7 DEF st

LEMMA HeadReferences ==
  ASSUME NEW S, NEW s \in Seq(S), s # <<>>, NEW o
  PROVE  /\ Tail(s) \in Seq(S) /\ Head(s) \in S
         /\ References(s, o) = References(Tail(s), o) + (IF Head(s).ref = o THEN 1 ELSE 0)
<1>1. Tail(s) \in Seq(S) /\ Head(s) \in S /\ <<Head(s)>> \in Seq(S) /\ s = <<Head(s)>> \o Tail(s)
  OBVIOUS
<1>2. References(s, o) = References(<<Head(s)>>, o) + References(Tail(s), o)
  BY <1>1, JoinedReferences, ZenonT(60)
<1>3. References(<<Head(s)>>, o) = IF Head(s).ref = o THEN 1 ELSE 0
  <2>1. <<Head(s)>> = Append(<<>>, Head(s)) /\ <<>> \in Seq(S)
    BY <1>1
  <2>2. References(Append(<<>>, Head(s)), o) = References(<<>>, o) + IF Head(s).ref = o THEN 1 ELSE 0
    BY <1>1, <2>1, AppendedReferences
  <2> QED
    BY <2>1, <2>2, NoReferences
<1>4. References(Tail(s), o) \in Nat
  BY <1>1, ReferencesAreCounted
<1> QED
  BY <1>1, <1>2, <1>3, <1>4

-----------------------------------------------------------------------------
Items == [ref : Objects \cup {"none"}, classes : Seq(AppClasses)]
Counts == [Objects -> Nat]
ClassKinds == {"classes", "methods", "reflection"}
Kinds == ClassKinds \cup {"loaders", "heap", "instances"}

EnumTypeOK ==
  /\ refs \in Counts /\ kept \in Counts
  /\ found \in Seq(Items) /\ given \in Seq(Items)
  /\ call.pc \in {"idle", "visiting", "delivering"}
  /\ call.pc = "visiting" =>
       /\ call \in [kind : Kinds, pc : {"visiting"}, todo : Seq(Objects), seen : SUBSET Objects]
       /\ call.kind \in ClassKinds => call.todo \in Seq(AppClasses)

(* A call starts with nothing found, and gives nothing before the visit    *)
(* ends.                                                                   *)
Phases ==
  /\ call.pc = "idle" => found = <<>>
  /\ call.pc = "visiting" => given = <<>>

EnumInv == EnumTypeOK /\ Phases /\ HandlesAreOwned /\ ThreadIsRestored

-----------------------------------------------------------------------------
LEMMA InitEnumInv == EnumInit => EnumInv
<1> SUFFICES ASSUME EnumInit PROVE EnumInv
  OBVIOUS
<1>1. None \in Counts /\ \A o \in Objects : None[o] = 0
  BY DEF None, Counts
<1>2. /\ refs = None /\ kept = None /\ found = <<>> /\ given = <<>>
      /\ call.pc = "idle" /\ ~suspended /\ ~forged
  BY DEF EnumInit
<1>3. HandlesAreOwned
  BY <1>1, <1>2, NoReferences DEF HandlesAreOwned, Owners
<1>4. <<>> \in Seq(Items)
  OBVIOUS
<1> QED
  BY <1>1, <1>2, <1>3, <1>4 DEF EnumInv, EnumTypeOK, Phases, ThreadIsRestored

(* What is owned, in numbers.                                              *)
LEMMA OwnedNow ==
  ASSUME EnumInv, NEW o \in Objects
  PROVE  /\ References(found, o) \in Nat /\ References(given, o) \in Nat
         /\ kept[o] \in Nat /\ refs[o] \in Nat
         /\ refs[o] >= References(found, o) + References(given, o) + kept[o]
         /\ call.pc # "idle" => refs[o] = References(found, o) + References(given, o) + kept[o]
<1>1. /\ References(found, o) \in Nat /\ References(given, o) \in Nat
      /\ kept[o] \in Nat /\ refs[o] \in Nat
  BY ReferencesAreCounted DEF EnumInv, EnumTypeOK, Counts
<1>2. /\ refs[o] = Owners(o) \/ refs[o] > Owners(o)
      /\ call.pc # "idle" => refs[o] = Owners(o)
  BY DEF EnumInv, HandlesAreOwned, LosesReferences
<1>3. Owners(o) = References(found, o) + References(given, o) + kept[o] /\ Owners(o) \in Nat
  BY <1>1 DEF Owners
<1> QED
  BY <1>1, <1>2, <1>3

\* a call under way has lost none, and what leaves the counts alone loses none
LEMMA OwnedStill ==
  ASSUME EnumInv, call.pc # "idle", UNCHANGED <<refs, found, given, kept>>
  PROVE  HandlesAreOwned'
<1>1. ASSUME NEW o \in Objects PROVE refs'[o] = Owners(o)'
  BY <1>1 DEF EnumInv, HandlesAreOwned, LosesReferences, Owners
<1> QED
  BY <1>1 DEF HandlesAreOwned

LEMMA OwnedNext ==
  ASSUME found' \in Seq(Items), given' \in Seq(Items), kept' \in Counts,
         NEW f, refs' = [o \in Objects |-> f[o]],
         \A o \in Objects : f[o] = References(found', o) + References(given', o) + kept'[o]
  PROVE  HandlesAreOwned' /\ refs' \in Counts
<1>1. \A o \in Objects : /\ References(found', o) \in Nat /\ References(given', o) \in Nat
                         /\ kept'[o] \in Nat
  BY ReferencesAreCounted DEF Counts
<1>2. ASSUME NEW o \in Objects PROVE refs'[o] = f[o] /\ f[o] \in Nat
  <2>1. refs'[o] = f[o]
    OBVIOUS
  <2>2. f[o] = References(found', o) + References(given', o) + kept'[o]
    OBVIOUS
  <2>3. /\ References(found', o) \in Nat /\ References(given', o) \in Nat
        /\ kept'[o] \in Nat
    BY <1>1
  <2>4. f[o] \in Nat
    BY <2>2, <2>3
  <2> QED
    BY <2>1, <2>4
<1> QED
  BY <1>2 DEF HandlesAreOwned, Owners, Counts

More(c, o) == [c EXCEPT ![o] = @ + 1]
LEMMA CountsOneMore ==
  ASSUME NEW c \in Counts, NEW o
  PROVE  /\ More(c, o) \in Counts /\ More(c, o) = [p \in Objects |-> More(c, o)[p]]
         /\ \A p \in Objects : More(c, o)[p] = c[p] + (IF o = p THEN 1 ELSE 0)
<1> DEFINE d == More(c, o)
<1>1. \A p \in Objects : c[p] \in Nat
  BY DEF Counts
<1>2. o \in Objects => c[o] + 1 \in Nat
  BY <1>1
<1>3. /\ d \in Counts
      /\ o \in Objects => d[o] = c[o] + 1
      /\ \A p \in Objects : p # o => d[p] = c[p]
  BY <1>2 DEF Counts, More
<1>4. d = [p \in Objects |-> d[p]]
  BY <1>3 DEF Counts
<1>5. ASSUME NEW p \in Objects PROVE d[p] = c[p] + (IF o = p THEN 1 ELSE 0)
  BY <1>1, <1>3
<1> QED
  BY <1>3, <1>4, <1>5

Less(c, o) == [c EXCEPT ![o] = @ - 1]
LEMMA OneLess ==
  ASSUME NEW c \in Counts, NEW o, o \in Objects => c[o] > 0
  PROVE  /\ Less(c, o) \in Counts /\ Less(c, o) = [p \in Objects |-> Less(c, o)[p]]
         /\ \A p \in Objects : Less(c, o)[p] = c[p] - (IF o = p THEN 1 ELSE 0)
<1> DEFINE d == Less(c, o)
<1>1. \A p \in Objects : c[p] \in Nat
  BY DEF Counts
<1>2. o \in Objects => c[o] - 1 \in Nat
  BY <1>1
<1>3. /\ d \in Counts
      /\ o \in Objects => d[o] = c[o] - 1
      /\ \A p \in Objects : p # o => d[p] = c[p]
  BY <1>2 DEF Counts, Less
<1>4. d = [p \in Objects |-> d[p]]
  BY <1>3 DEF Counts
<1>5. ASSUME NEW p \in Objects PROVE d[p] = c[p] - (IF o = p THEN 1 ELSE 0)
  BY <1>1, <1>3
<1> QED
  BY <1>3, <1>4, <1>5

(* A visit or a callback leaves what it does not change, and the phase.    *)
LEMMA Promoted ==
  ASSUME EnumInv, call.pc # "idle", NEW o \in Objects, Promote(o), UNCHANGED <<given, kept>>
  PROVE  HandlesAreOwned' /\ refs' \in Counts /\ found' \in Seq(Items)
<1>1. Item(o, <<>>) \in Items /\ Item(o, <<>>).ref = o
  BY DEF Item, Items
<1>2. found \in Seq(Items) /\ given \in Seq(Items) /\ kept \in Counts /\ refs \in Counts
  BY DEF EnumInv, EnumTypeOK
<1>3. found' = Append(found, Item(o, <<>>)) /\ found' \in Seq(Items)
  BY <1>1, <1>2 DEF Promote
<1> DEFINE f == More(refs, o)
<1>4. refs' = [p \in Objects |-> f[p]] /\ \A p \in Objects : f[p] = refs[p] + (IF o = p THEN 1 ELSE 0)
  <2>1. refs' = More(refs, o)
    BY DEF Promote, More
  <2> QED
    BY <1>2, <2>1, CountsOneMore
<1>5. ASSUME NEW p \in Objects
      PROVE  f[p] = References(found', p) + References(given, p) + kept[p]
  <2>1. References(found', p) = References(found, p) + (IF o = p THEN 1 ELSE 0)
    BY <1>1, <1>2, <1>3, AppendedReferences
  <2>2. /\ References(found, p) \in Nat /\ References(given, p) \in Nat /\ kept[p] \in Nat
        /\ refs[p] = References(found, p) + References(given, p) + kept[p]
    BY OwnedNow
  <2> HIDE DEF f
  <2> QED
    BY <1>4, <2>1, <2>2
<1> HIDE DEF f
<1> QED
  BY <1>2, <1>3, <1>4, <1>5, OwnedNext

LEMMA Collected ==
  ASSUME EnumInv, call.pc # "idle", NEW kind, NEW class \in AppClasses, Collect(kind, class),
         UNCHANGED <<given, kept>>
  PROVE  HandlesAreOwned' /\ refs' \in Counts /\ found' \in Seq(Items)
<1> DEFINE loader == LoaderOf[class]
           group == {i \in DOMAIN found : InGroup(kind, i, loader)}
<1>1. found \in Seq(Items) /\ given \in Seq(Items) /\ kept \in Counts /\ refs \in Counts
  BY DEF EnumInv, EnumTypeOK
<1>2. loader \in Objects \cup {"none"}
  BY ClassesHaveLoaders DEF Objects
<1>3. CASE group # {}
  <2> DEFINE i == CHOOSE k \in group : TRUE
  <2>1. i \in DOMAIN found
    BY <1>3
  <2>2. found' = [found EXCEPT ![i].classes = Append(@, class)] /\ refs' = refs
    BY <1>3 DEF Collect
  <2> HIDE DEF i
  <2>3. found[i] \in Items /\ found[i].classes \in Seq(AppClasses)
    <3>1. found[i] \in Items
      BY <1>1, <2>1
    <3> QED
      BY <3>1 DEF Items
  <2>4. Append(found[i].classes, class) \in Seq(AppClasses)
    BY <2>3
  <2> DEFINE x == [found[i] EXCEPT !.classes = Append(@, class)]
  <2>5. x \in Items /\ x.ref = found[i].ref
    BY <2>3, <2>4 DEF Items
  <2>6. found' = [found EXCEPT ![i] = x]
    BY <2>2
  <2> HIDE DEF x
  <2>7. /\ found' \in Seq(Items) /\ DOMAIN found' = DOMAIN found
        /\ \A k \in DOMAIN found : found'[k].ref = found[k].ref
    BY <1>1, <2>1, <2>5, <2>6
  <2>8. ASSUME NEW p \in Objects
        PROVE  refs[p] = References(found', p) + References(given, p) + kept[p]
    BY <2>7, SameReferences, OwnedNow
  <2>9. refs' = [p \in Objects |-> refs[p]]
    BY <1>1, <2>2 DEF Counts
  <2> QED
    BY <1>1, <2>7, <2>8, <2>9, OwnedNext
<1>4. CASE group = {}
  <2>1. /\ found' = Append(found, Item(loader, <<class>>))
        /\ refs' = IF loader = "none" THEN refs ELSE More(refs, loader)
    BY <1>4 DEF Collect, More
  <2>2. <<class>> \in Seq(AppClasses)
    OBVIOUS
  <2> HIDE DEF loader
  <2>3. Item(loader, <<class>>) \in Items /\ Item(loader, <<class>>).ref = loader
    BY <1>2, <2>2 DEF Item, Items
  <2>4. found' \in Seq(Items)
    BY <1>1, <2>1, <2>3
  <2> DEFINE f == IF loader = "none" THEN refs ELSE More(refs, loader)
  <2>5. /\ refs' = [p \in Objects |-> f[p]]
        /\ \A p \in Objects : f[p] = refs[p] + (IF loader = p THEN 1 ELSE 0)
    <3>1. CASE loader = "none"
      <4>1. \A p \in Objects : refs[p] \in Nat /\ loader # p
        BY <1>1, <3>1, NoneIsNoObject DEF Counts
      <4> QED
        BY <1>1, <2>1, <3>1, <4>1 DEF Counts
    <3>2. CASE loader # "none"
      BY <1>1, <1>2, <2>1, <3>2, CountsOneMore
    <3> QED
      BY <3>1, <3>2
  <2>6. ASSUME NEW p \in Objects
        PROVE  f[p] = References(found', p) + References(given, p) + kept[p]
    <3>1. References(found', p) = References(found, p) + (IF loader = p THEN 1 ELSE 0)
      BY <1>1, <2>1, <2>3, AppendedReferences
    <3>2. /\ References(found, p) \in Nat /\ References(given, p) \in Nat /\ kept[p] \in Nat
            /\ refs[p] = References(found, p) + References(given, p) + kept[p]
      BY OwnedNow
    <3> HIDE DEF f
    <3> QED
      BY <2>5, <3>1, <3>2
  <2> HIDE DEF f
  <2> QED
    BY <1>1, <2>4, <2>5, <2>6, OwnedNext
<1> QED
  BY <1>3, <1>4

-----------------------------------------------------------------------------
(* What a call takes away when it ends, with what was given or without.    *)
LEMMA WhatIsTaken ==
  ASSUME EnumInv, call.pc # "idle",
         found' \in Seq(Items), given' \in Seq(Items), kept' \in Counts, NEW s \in Seq(Items), refs' = Without(s),
         \A o \in Objects :
           References(found, o) + References(given, o) + kept[o]
             = References(found', o) + References(given', o) + kept'[o] + References(s, o)
  PROVE  HandlesAreOwned' /\ refs' \in Counts
<1> DEFINE f == [o \in Objects |-> refs[o] - References(s, o)]
<1>1. refs' = [o \in Objects |-> f[o]]
  BY DEF Without
<1>2. ASSUME NEW o \in Objects
      PROVE  f[o] = References(found', o) + References(given', o) + kept'[o]
  <2>1. /\ References(found', o) \in Nat /\ References(given', o) \in Nat
        /\ kept'[o] \in Nat /\ References(s, o) \in Nat
    BY ReferencesAreCounted DEF Counts
  <2>2. refs[o] = References(found', o) + References(given', o) + kept'[o] + References(s, o)
    BY OwnedNow
  <2>3. f[o] = refs[o] - References(s, o)
    OBVIOUS
  <2> HIDE DEF f
  <2> QED
    BY <2>1, <2>2, <2>3
<1> HIDE DEF f
<1> QED
  BY <1>1, <1>2, OwnedNext

LEMMA EnumerateKeeps ==
  ASSUME EnumInv, NEW kind \in Kinds, NEW todo \in Seq(Objects), Enumerate(kind, todo),
         kind \in ClassKinds => todo \in Seq(AppClasses)
  PROVE  EnumTypeOK' /\ Phases' /\ HandlesAreOwned'
<1>1. /\ found = <<>> /\ given = <<>> /\ found' = found /\ given' = given /\ kept' = kept
      /\ refs' = kept /\ found' \in Seq(Items) /\ given' \in Seq(Items) /\ kept' \in Counts
  BY DEF Enumerate, EnumInv, EnumTypeOK, Phases
<1>2. ASSUME NEW o \in Objects
      PROVE  kept[o] = References(found', o) + References(given', o) + kept'[o]
  BY <1>1, NoReferences DEF Counts
<1>3. refs' = [o \in Objects |-> kept[o]]
  BY <1>1 DEF Counts
<1>5. HandlesAreOwned' /\ refs' \in Counts
  BY <1>1, <1>2, <1>3, OwnedNext
<1>6. /\ call' = [kind |-> kind, pc |-> "visiting", todo |-> todo, seen |-> {}]
      /\ call'.pc = "visiting" /\ call'.kind = kind /\ call'.todo = todo
  BY DEF Enumerate, Visiting
<1>7. call' \in [kind : Kinds, pc : {"visiting"}, todo : Seq(Objects), seen : SUBSET Objects]
  BY <1>6
<1>8. EnumTypeOK'
  BY <1>1, <1>5, <1>6, <1>7 DEF EnumTypeOK
<1> QED
  BY <1>1, <1>5, <1>6, <1>8 DEF Phases

\* the visit goes on
LEMMA EnumAdvanced ==
  ASSUME EnumInv, NEW o, NEW kinds, o \in Coming(kinds), Advance(o)
  PROVE  /\ call'.pc = "visiting" /\ call'.kind = call.kind /\ call.pc = "visiting"
         /\ call.kind \in kinds /\ call'.seen = call.seen \cup {o} /\ o \in Objects
         /\ call' \in [kind : Kinds, pc : {"visiting"}, todo : Seq(Objects), seen : SUBSET Objects]
         /\ call.kind \in ClassKinds => o \in AppClasses /\ call'.todo \in Seq(AppClasses)
<1>1. call.pc = "visiting" /\ call.kind \in kinds /\ call.todo # <<>> /\ o = Head(call.todo)
  BY DEF Coming
<1>2. /\ call \in [kind : Kinds, pc : {"visiting"}, todo : Seq(Objects), seen : SUBSET Objects]
      /\ call.kind \in ClassKinds => call.todo \in Seq(AppClasses)
  BY <1>1 DEF EnumInv, EnumTypeOK
<1>3. /\ o \in Objects /\ Tail(call.todo) \in Seq(Objects)
      /\ call.kind \in ClassKinds => o \in AppClasses /\ Tail(call.todo) \in Seq(AppClasses)
  BY <1>1, <1>2
<1>4. call' = [call EXCEPT !.todo = Tail(call.todo), !.seen = call.seen \cup {o}]
  BY <1>2 DEF Advance
<1>5. /\ call'.pc = "visiting" /\ call'.kind = call.kind /\ call'.seen = call.seen \cup {o}
      /\ call'.todo = Tail(call.todo)
  BY <1>2, <1>4
<1>6. call' \in [kind : Kinds, pc : {"visiting"}, todo : Seq(Objects), seen : SUBSET Objects]
  BY <1>2, <1>3, <1>4
<1> QED
  BY <1>1, <1>3, <1>5, <1>6

LEMMA VisitKeeps ==
  ASSUME EnumInv, NEW o \in Objects,
         VisitClassLoader(o) \/ VisitClass(o) \/ VisitQueried(o) \/ VisitInstance(o)
  PROVE  EnumInv'
<1>1. /\ UNCHANGED <<given, kept, suspended, forged>> /\ Advance(o)
      /\ \E kinds : o \in Coming(kinds)
  BY DEF VisitClassLoader, VisitClass, VisitQueried, VisitInstance
<1>2. /\ call'.pc = "visiting" /\ call.pc = "visiting" /\ call'.kind = call.kind
      /\ call' \in [kind : Kinds, pc : {"visiting"}, todo : Seq(Objects), seen : SUBSET Objects]
      /\ call.kind \in ClassKinds => o \in AppClasses /\ call'.todo \in Seq(AppClasses)
  BY <1>1, EnumAdvanced
<1>3. \/ UNCHANGED <<refs, found>> \/ Promote(o)
      \/ call.kind \in ClassKinds /\ Collect(call.kind, o)
  BY <1>1, EnumAdvanced DEF VisitClassLoader, VisitClass, VisitQueried, VisitInstance, ClassKinds, Coming
<1>4. HandlesAreOwned' /\ refs' \in Counts /\ found' \in Seq(Items)
  <2>1. CASE UNCHANGED <<refs, found>>
    BY <1>1, <1>2, <2>1, OwnedStill DEF EnumInv, EnumTypeOK
  <2> QED
    BY <1>1, <1>2, <1>3, <2>1, Promoted, Collected
<1>5. EnumTypeOK'
  BY <1>1, <1>2, <1>4 DEF EnumInv, EnumTypeOK
<1> QED
  BY <1>1, <1>2, <1>4, <1>5 DEF EnumInv, Phases, ThreadIsRestored

LEMMA VisitEnding ==
  ASSUME EnumInv, VisitUnreferenced \/ VisitFails \/ VisitEnds
  PROVE  EnumInv'
<1>1. /\ refs \in Counts /\ kept \in Counts
      /\ found \in Seq(Items) /\ given \in Seq(Items)
      /\ call.pc = "visiting" /\ given = <<>> /\ <<>> \in Seq(Items)
  BY DEF EnumInv, EnumTypeOK, Phases, VisitUnreferenced, VisitFails, VisitEnds
<1>2. CASE VisitUnreferenced
  <2>1. /\ call' = [call EXCEPT !.todo = Tail(call.todo)] /\ call.todo # <<>>
        /\ call \in [kind : Kinds, pc : {"visiting"}, todo : Seq(Objects), seen : SUBSET Objects]
        /\ call.kind \in ClassKinds => call.todo \in Seq(AppClasses)
    BY <1>1, <1>2 DEF VisitUnreferenced, EnumInv, EnumTypeOK
  <2>2. /\ Tail(call.todo) \in Seq(Objects)
        /\ call.kind \in ClassKinds => Tail(call.todo) \in Seq(AppClasses)
    BY <2>1
  <2>3. /\ call' \in [kind : Kinds, pc : {"visiting"}, todo : Seq(Objects), seen : SUBSET Objects]
        /\ call'.kind = call.kind /\ call'.pc = "visiting" /\ call'.todo = Tail(call.todo)
    BY <2>1, <2>2
  <2>4. EnumTypeOK'
    BY <1>1, <1>2, <2>2, <2>3 DEF VisitUnreferenced, EnumTypeOK
  <2> QED
    BY <1>1, <1>2, <2>3, <2>4 DEF VisitUnreferenced, EnumInv, Phases, HandlesAreOwned, Owners, LosesReferences, ThreadIsRestored
<1>3. CASE VisitFails
  <2>1. /\ call'.pc = "idle" /\ found' = <<>> /\ given' = given /\ kept' = kept
        /\ ~suspended' /\ ~forged'
    BY <1>3 DEF VisitFails, Over, RestoreThread
  <2>2. HandlesAreOwned' /\ refs' \in Counts
    <3>1. CASE Forgets(call.kind)
      <4>1. refs' = refs /\ LosesReferences'
        BY <1>3, <3>1 DEF VisitFails, DeleteFound, Forgets, Over, LosesReferences
      <4>2. ASSUME NEW o \in Objects PROVE refs'[o] >= Owners(o)'
        <5>1. Owners(o)' = References(<<>>, o) + References(given, o) + kept[o]
          BY <2>1 DEF Owners
        <5>2. /\ References(<<>>, o) = 0 /\ refs'[o] = refs[o]
              /\ References(found, o) \in Nat /\ References(given, o) \in Nat /\ kept[o] \in Nat
              /\ refs[o] >= References(found, o) + References(given, o) + kept[o]
              /\ refs[o] \in Nat
          BY <4>1, OwnedNow, NoReferences
        <5> QED
          BY <5>1, <5>2
      <4>3. \A o \in Objects : refs'[o] \in Nat /\ Owners(o)' \in Nat
        BY <1>1, <2>1, <4>1, OwnedNow, NoReferences DEF Owners
      <4> QED
        BY <1>1, <4>1, <4>2, <4>3 DEF HandlesAreOwned
    <3>2. CASE ~Forgets(call.kind)
      <4>1. refs' = Without(found)
        BY <1>3, <3>2 DEF VisitFails, DeleteFound
      <4>2. ASSUME NEW o \in Objects
            PROVE  References(found, o) + References(given, o) + kept[o]
                   = References(found', o) + References(given', o) + kept'[o]
                       + References(found, o)
        BY <2>1, <4>1, OwnedNow, NoReferences
      <4> QED
        BY <1>1, <2>1, <4>1, <4>2, WhatIsTaken
    <3> QED
      BY <3>1, <3>2
  <2>3. EnumTypeOK'
    BY <1>1, <2>1, <2>2 DEF EnumTypeOK
  <2> QED
    BY <2>1, <2>2, <2>3 DEF EnumInv, Phases, ThreadIsRestored
<1>4. CASE VisitEnds
  <2>1. call'.pc = "delivering" /\ ~suspended' /\ ~forged'
        /\ UNCHANGED <<refs, found, given, kept>>
    BY <1>4 DEF VisitEnds, RestoreThread
  <2>2. EnumTypeOK'
    BY <1>1, <2>1 DEF EnumTypeOK
  <2> QED
    BY <1>1, <2>1, <2>2 DEF EnumInv, Phases, HandlesAreOwned, Owners, LosesReferences, ThreadIsRestored
<1> QED
  BY <1>2, <1>3, <1>4

-----------------------------------------------------------------------------
LEMMA GivingKeeps ==
  ASSUME EnumInv, Give \/ GiveFails \/ Delivered \/ DropGiven
  PROVE  EnumInv'
<1>1. /\ refs \in Counts /\ kept \in Counts
      /\ found \in Seq(Items) /\ given \in Seq(Items) /\ <<>> \in Seq(Items)
      /\ call.pc # "visiting" /\ ~suspended /\ ~forged /\ ~suspended' /\ ~forged'
  BY DEF EnumInv, EnumTypeOK, ThreadIsRestored, Give, GiveFails, Delivered, DropGiven
<1>2. CASE Give
  <2>1. /\ call' = call /\ call.pc = "delivering" /\ found # <<>> /\ given' = Append(given, Head(found))
        /\ found' = Tail(found) /\ UNCHANGED <<refs, kept>>
    BY <1>2 DEF Give
  <2>2. Head(found) \in Items /\ found' \in Seq(Items) /\ given' \in Seq(Items)
    BY <1>1, <2>1
  <2>3. ASSUME NEW o \in Objects
        PROVE  refs[o] = References(found', o) + References(given', o) + kept'[o]
    <3>1. References(found, o) = References(found', o) + (IF Head(found).ref = o THEN 1 ELSE 0)
      BY <1>1, <2>1, HeadReferences
    <3>2. References(given', o) = References(given, o) + (IF Head(found).ref = o THEN 1 ELSE 0)
      BY <1>1, <2>1, <2>2, AppendedReferences
    <3>3. References(found', o) \in Nat /\ References(given', o) \in Nat
      BY <2>2, ReferencesAreCounted
    <3>4. /\ refs[o] = References(found, o) + References(given, o) + kept[o]
          /\ References(given, o) \in Nat /\ kept[o] \in Nat /\ kept' = kept
      BY <2>1, OwnedNow
    <3> QED
      BY <3>1, <3>2, <3>3, <3>4
  <2>4. HandlesAreOwned'
    BY <2>1, <2>3 DEF HandlesAreOwned, Owners
  <2>5. EnumTypeOK'
    BY <1>1, <2>1, <2>2 DEF EnumTypeOK
  <2> QED
    BY <1>1, <2>1, <2>4, <2>5 DEF EnumInv, Phases, ThreadIsRestored
<1>3. CASE GiveFails
  <2>1. /\ call.pc # "idle" /\ call'.pc = "idle" /\ refs' = Without(given \o found) /\ given' = <<>> /\ found' = <<>>
        /\ kept' = kept
    BY <1>3 DEF GiveFails, Over
  <2>2. given \o found \in Seq(Items)
    BY <1>1
  <2>3. ASSUME NEW o \in Objects
        PROVE  References(found, o) + References(given, o) + kept[o]
               = References(found', o) + References(given', o) + kept'[o]
                   + References(given \o found, o)
    <3>1. References(given \o found, o) = References(given, o) + References(found, o)
      BY <1>1, JoinedReferences
    <3> QED
      BY <2>1, <3>1, OwnedNow, NoReferences
  <2>4. HandlesAreOwned' /\ refs' \in Counts
    BY <1>1, <2>1, <2>2, <2>3, WhatIsTaken
  <2>5. EnumTypeOK'
    BY <1>1, <2>1, <2>4 DEF EnumTypeOK
  <2> QED
    BY <1>1, <2>1, <2>4, <2>5 DEF EnumInv, Phases, ThreadIsRestored
<1>4. CASE Delivered
  <2>1. /\ call'.pc = "idle" /\ found = <<>> /\ UNCHANGED <<refs, found, given, kept>>
    BY <1>4 DEF Delivered, Over
  <2>2. EnumTypeOK'
    BY <1>1, <2>1 DEF EnumTypeOK
  <2>3. HandlesAreOwned'
    BY <1>4, <2>1, OwnedStill DEF Delivered
  <2> QED
    BY <1>1, <2>1, <2>2, <2>3 DEF EnumInv, Phases, ThreadIsRestored
<1>5. CASE DropGiven
  <2>1. /\ call' = call /\ call.pc = "idle" /\ refs' = Without(given) /\ given' = <<>>
        /\ found' = found /\ kept' = kept
    BY <1>5 DEF DropGiven
  <2>2. ASSUME NEW o \in Objects
        PROVE  /\ refs'[o] = refs[o] - References(given, o) /\ refs'[o] \in Nat
               /\ Owners(o)' = Owners(o) - References(given, o) /\ Owners(o) \in Nat
               /\ refs[o] \in Nat /\ References(given, o) \in Nat
    BY <2>1, OwnedNow, NoReferences DEF Without, Owners
  <2>3. HandlesAreOwned' /\ refs' \in Counts
    <3>1. \A o \in Objects : refs[o] = Owners(o) \/ (LosesReferences /\ refs[o] > Owners(o))
      BY DEF EnumInv, HandlesAreOwned
    <3>2. LosesReferences' <=> LosesReferences
      BY <2>1 DEF LosesReferences
    <3>3. HandlesAreOwned'
      BY <2>2, <3>1, <3>2 DEF HandlesAreOwned
    <3>4. refs' = [o \in Objects |-> refs[o] - References(given, o)]
      BY <2>1 DEF Without
    <3> QED
      BY <2>2, <3>3, <3>4 DEF Counts
  <2>4. EnumTypeOK'
    BY <1>1, <2>1, <2>3 DEF EnumTypeOK
  <2> QED
    BY <1>1, <2>1, <2>3, <2>4 DEF EnumInv, Phases, ThreadIsRestored
<1> QED
  BY <1>2, <1>3, <1>4, <1>5

(* A callback has a reference of its own: the one that leaves the list.    *)
LEMMA HandedOut ==
  ASSUME EnumInv, found # <<>>, call.pc # "idle"
  PROVE  /\ Tail(found) \in Seq(Items) /\ found \in Seq(Items)
         /\ \A o \in Objects :
              /\ References(Tail(found), o) \in Nat
              /\ References(found, o)
                   = References(Tail(found), o) + (IF Head(found).ref = o THEN 1 ELSE 0)
         /\ Head(found).ref \in Objects => refs[Head(found).ref] > 0
<1>1. found \in Seq(Items)
  BY DEF EnumInv, EnumTypeOK
<1>2. ASSUME NEW o \in Objects
      PROVE  /\ References(Tail(found), o) \in Nat
             /\ References(found, o)
                  = References(Tail(found), o) + (IF Head(found).ref = o THEN 1 ELSE 0)
  BY <1>1, HeadReferences, ReferencesAreCounted
<1>3. ASSUME Head(found).ref \in Objects PROVE refs[Head(found).ref] > 0
  <2> DEFINE o == Head(found).ref
  <2>1. References(found, o) = References(Tail(found), o) + 1 /\ References(Tail(found), o) \in Nat
    BY <1>2, <1>3
  <2>2. /\ References(given, o) \in Nat /\ kept[o] \in Nat
        /\ refs[o] = References(found, o) + References(given, o) + kept[o]
    BY <1>3, OwnedNow
  <2> HIDE DEF o
  <2>3. refs[o] > 0
    BY <2>1, <2>2
  <2> QED
    BY <2>3 DEF o
<1>4. Tail(found) \in Seq(Items)
  BY <1>1
<1> QED
  BY <1>1, <1>2, <1>3, <1>4

LEMMA CallbackKeeps ==
  ASSUME EnumInv, found # <<>>, call.pc # "idle", NEW retain \in BOOLEAN, AfterCallback(retain)
  PROVE  /\ refs' \in Counts /\ kept' \in Counts
         /\ refs' = [o \in Objects |-> refs'[o]]
         /\ \A o \in Objects :
              refs'[o] = References(Tail(found), o) + References(given, o) + kept'[o]
<1> DEFINE h == Head(found).ref
<1>1. refs \in Counts /\ kept \in Counts
  BY DEF EnumInv, EnumTypeOK
<1>2. h \in Objects => refs[h] > 0
  BY HandedOut
<1>3. /\ refs' = IF retain THEN refs ELSE Less(refs, h)
      /\ kept' = IF retain THEN More(kept, h) ELSE kept
  BY DEF AfterCallback, Less, More
<1>4. ASSUME NEW o \in Objects
      PROVE  References(found, o) = References(Tail(found), o) + (IF h = o THEN 1 ELSE 0)
  BY HandedOut
<1> HIDE DEF h
<1>5. CASE retain
  <2>1. /\ kept' \in Counts /\ refs' = refs /\ refs' = [o \in Objects |-> refs'[o]]
        /\ \A o \in Objects : kept'[o] = kept[o] + (IF h = o THEN 1 ELSE 0)
    BY <1>1, <1>3, <1>5, CountsOneMore DEF Counts
  <2>2. ASSUME NEW o \in Objects
        PROVE  refs'[o] = References(Tail(found), o) + References(given, o) + kept'[o]
    <3>1. /\ References(Tail(found), o) \in Nat
          /\ References(found, o) = References(Tail(found), o) + (IF h = o THEN 1 ELSE 0)
          /\ kept'[o] = kept[o] + (IF h = o THEN 1 ELSE 0)
      BY <1>4, <2>1, HandedOut
    <3>2. /\ References(given, o) \in Nat /\ kept[o] \in Nat
          /\ refs[o] = References(found, o) + References(given, o) + kept[o]
      BY OwnedNow
    <3> QED
      BY <2>1, <3>1, <3>2
  <2> QED
    BY <1>1, <2>1, <2>2
<1>6. CASE ~retain
  <2>1. /\ kept' = kept /\ refs' \in Counts /\ refs' = [o \in Objects |-> refs'[o]]
        /\ \A o \in Objects : refs'[o] = refs[o] - (IF h = o THEN 1 ELSE 0)
    BY <1>1, <1>2, <1>3, <1>6, OneLess
  <2>2. ASSUME NEW o \in Objects
        PROVE  refs'[o] = References(Tail(found), o) + References(given, o) + kept'[o]
    <3>1. /\ References(Tail(found), o) \in Nat
          /\ References(found, o) = References(Tail(found), o) + (IF h = o THEN 1 ELSE 0)
          /\ refs'[o] = refs[o] - (IF h = o THEN 1 ELSE 0)
      BY <1>4, <2>1, HandedOut
    <3>2. /\ References(given, o) \in Nat /\ kept[o] \in Nat
          /\ refs[o] = References(found, o) + References(given, o) + kept[o]
      BY OwnedNow
    <3> QED
      BY <2>1, <3>1, <3>2
  <2> QED
    BY <1>1, <2>1, <2>2
<1> QED
  BY <1>5, <1>6

LEMMA DeliveringKeeps ==
  ASSUME EnumInv, \/ \E retain \in BOOLEAN : Deliver(retain) \/ DeliverLast(retain)
                  \/ DeliverPanics
  PROVE  EnumInv'
<1>1. /\ refs \in Counts /\ kept \in Counts
      /\ found \in Seq(Items) /\ given \in Seq(Items) /\ <<>> \in Seq(Items)
      /\ call.pc = "delivering" /\ found # <<>>
      /\ ~suspended' /\ ~forged' /\ given' = given
  <2>1. /\ call.pc = "delivering" /\ found # <<>> /\ given' = given
        /\ UNCHANGED <<suspended, forged>>
    BY DEF Deliver, DeliverLast, DeliverPanics
  <2> QED
    BY <2>1 DEF EnumInv, EnumTypeOK, Phases, ThreadIsRestored
<1>2. ASSUME NEW retain \in BOOLEAN, Deliver(retain) PROVE EnumInv'
  <2>1. call' = call /\ found' = Tail(found) /\ AfterCallback(retain)
    BY <1>2 DEF Deliver
  <2>2. /\ refs' \in Counts /\ kept' \in Counts
        /\ \A o \in Objects :
             refs'[o] = References(Tail(found), o) + References(given, o) + kept'[o]
    BY <1>1, <2>1, CallbackKeeps
  <2>3. HandlesAreOwned'
    BY <1>1, <2>1, <2>2 DEF HandlesAreOwned, Owners
  <2>4. EnumTypeOK'
    BY <1>1, <2>1, <2>2, HandedOut DEF EnumTypeOK
  <2> QED
    BY <1>1, <2>1, <2>3, <2>4 DEF EnumInv, Phases, ThreadIsRestored
<1>3. ASSUME NEW retain \in BOOLEAN, DeliverLast(retain) PROVE EnumInv'
  <2> DEFINE h == Head(found).ref
             rest == Without(found)
  <2>1. /\ call'.pc = "idle" /\ found' = <<>>
        /\ kept' = IF retain THEN More(kept, h) ELSE kept
        /\ refs' = IF retain THEN More(rest, h) ELSE rest
    BY <1>3 DEF DeliverLast, Over, More
  <2>2. \A o \in Objects :
          /\ rest[o] = References(given, o) + kept[o]
          /\ rest[o] \in Nat /\ kept[o] \in Nat /\ References(given, o) \in Nat
    <3>1. ASSUME NEW o \in Objects
          PROVE  rest[o] = References(given, o) + kept[o] /\ rest[o] \in Nat
      <4>1. rest[o] = refs[o] - References(found, o)
        BY DEF Without
      <4>2. /\ refs[o] = References(found, o) + References(given, o) + kept[o]
            /\ References(found, o) \in Nat /\ References(given, o) \in Nat /\ kept[o] \in Nat
        BY <1>1, OwnedNow
      <4> HIDE DEF rest
      <4> QED
        BY <4>1, <4>2
    <3> QED
      BY <3>1, OwnedNow
  <2>3. rest \in Counts /\ rest = [o \in Objects |-> rest[o]]
    BY <2>2 DEF Counts, Without
  <2> HIDE DEF rest, h
  <2>4. /\ kept' \in Counts /\ refs' \in Counts
        /\ \A o \in Objects : kept'[o] = kept[o] + (IF retain /\ h = o THEN 1 ELSE 0)
        /\ \A o \in Objects : refs'[o] = rest[o] + (IF retain /\ h = o THEN 1 ELSE 0)
    <3>1. CASE retain
      BY <1>1, <2>1, <2>3, <3>1, CountsOneMore
    <3>2. CASE ~retain
      BY <1>1, <2>1, <2>2, <2>3, <3>2
    <3> QED
      BY <3>1, <3>2
  <2>5. HandlesAreOwned'
    <3>1. ASSUME NEW o \in Objects
          PROVE  refs'[o] = References(found', o) + References(given', o) + kept'[o]
      BY <1>1, <2>1, <2>2, <2>4, NoReferences, SMTT(60)
    <3> QED
      BY <3>1 DEF HandlesAreOwned, Owners
  <2>6. EnumTypeOK'
    BY <1>1, <2>1, <2>4 DEF EnumTypeOK
  <2> QED
    BY <1>1, <2>1, <2>5, <2>6 DEF EnumInv, Phases, ThreadIsRestored
<1>4. CASE DeliverPanics
  <2>1. call'.pc = "idle" /\ found' = <<>> /\ AfterCallback(FALSE) /\ LosesReferences'
    BY <1>4 DEF DeliverPanics, Over, LosesReferences
  <2>2. /\ refs' \in Counts /\ kept' \in Counts
        /\ \A o \in Objects :
             refs'[o] = References(Tail(found), o) + References(given, o) + kept'[o]
    BY <1>1, <2>1, CallbackKeeps
  <2>4. HandlesAreOwned'
    <3>1. ASSUME NEW o \in Objects
          PROVE  refs'[o] >= Owners(o)' /\ refs'[o] \in Nat /\ Owners(o)' \in Nat
      <4>1. /\ References(given, o) \in Nat /\ kept'[o] \in Nat
            /\ References(Tail(found), o) \in Nat
        BY <1>1, <2>2, OwnedNow, HandedOut DEF Counts
      <4> QED
        BY <1>1, <2>1, <2>2, <4>1, NoReferences DEF Owners
    <3> QED
      BY <2>1, <3>1 DEF HandlesAreOwned
  <2>5. EnumTypeOK'
    BY <1>1, <2>1, <2>2 DEF EnumTypeOK
  <2> QED
    BY <1>1, <2>1, <2>4, <2>5 DEF EnumInv, Phases, ThreadIsRestored
<1> QED
  BY <1>2, <1>3, <1>4

LEMMA DropKeeps ==
  ASSUME EnumInv, NEW h \in Instances, DropKept(h)
  PROVE  EnumInv'
<1>1. /\ refs \in Counts /\ kept \in Counts /\ h \in Objects /\ kept[h] > 0
      /\ kept' = Less(kept, h) /\ refs' = Less(refs, h)
      /\ UNCHANGED <<call, found, given, suspended, forged>>
  BY DEF EnumInv, EnumTypeOK, Objects, DropKept, Less
<1>2. refs[h] > 0
  BY <1>1, OwnedNow
<1>3. /\ kept' \in Counts
      /\ \A o \in Objects : kept'[o] = kept[o] - (IF h = o THEN 1 ELSE 0)
  BY <1>1, OneLess DEF EnumInv, EnumTypeOK
<1>4. /\ refs' \in Counts
      /\ \A o \in Objects : refs'[o] = refs[o] - (IF h = o THEN 1 ELSE 0)
  BY <1>1, <1>2, OneLess
<1>5. HandlesAreOwned'
  <2>1. ASSUME NEW o \in Objects
        PROVE  refs'[o] - Owners(o)' = refs[o] - Owners(o)
               /\ {refs[o], refs'[o], Owners(o), Owners(o)'} \subseteq Int
    BY <1>1, <1>3, <1>4, OwnedNow DEF Owners, Counts
  <2>2. LosesReferences' <=> LosesReferences
    BY <1>1 DEF LosesReferences
  <2>3. \A o \in Objects : refs[o] = Owners(o) \/ (LosesReferences /\ refs[o] > Owners(o))
    BY DEF EnumInv, HandlesAreOwned
  <2> QED
    BY <2>1, <2>2, <2>3 DEF HandlesAreOwned
<1> QED
  BY <1>1, <1>3, <1>4, <1>5 DEF EnumInv, EnumTypeOK, Phases, ThreadIsRestored

-----------------------------------------------------------------------------
LEMMA VisitsAreSequences ==
  ASSUME NEW S, NEW T, S \subseteq T, NEW todo \in BoundedSeq(S, MaxVisits)
  PROVE  todo \in Seq(S) /\ todo \in Seq(T)
<1>1. PICK n \in 0..MaxVisits : todo \in [1..n -> S]
  BY DEF BoundedSeq, SeqOf
<1>2. n \in Nat /\ todo \in [1..n -> T]
  BY <1>1
<1> QED
  BY <1>1, <1>2, SeqDef

LEMMA StartKeeps ==
  ASSUME EnumInv,
         \/ \E todo \in BoundedSeq(AppLoaders, MaxVisits) : EnumerateLoaders(todo)
         \/ \E todo \in BoundedSeq(AppClasses, MaxVisits) :
              EnumerateClasses(todo) \/ EnumerateMethods(todo) \/ EnumerateWithReflection(todo)
         \/ \E todo \in BoundedSeq(Instances, MaxVisits) : VisitObjects(todo) \/ GetInstances(todo)
  PROVE  EnumInv' /\ call'.pc = "visiting" /\ found' = <<>> /\ given' = <<>> /\ call'.seen = {}
<1>1. PICK kind \in Kinds, todo \in Seq(Objects) :
        /\ Enumerate(kind, todo)
        /\ kind \in ClassKinds => todo \in Seq(AppClasses)
  <2>1. AppLoaders \subseteq Objects /\ AppClasses \subseteq Objects /\ Instances \subseteq Objects
    BY DEF Objects
  <2>2. ASSUME NEW todo \in BoundedSeq(AppLoaders, MaxVisits), EnumerateLoaders(todo)
        PROVE  Enumerate("loaders", todo) /\ todo \in Seq(Objects)
    BY <2>1, <2>2, VisitsAreSequences DEF EnumerateLoaders
  <2>3. ASSUME NEW todo \in BoundedSeq(AppClasses, MaxVisits),
               EnumerateClasses(todo) \/ EnumerateMethods(todo) \/ EnumerateWithReflection(todo)
        PROVE  /\ Enumerate("classes", todo) \/ Enumerate("methods", todo) \/ Enumerate("reflection", todo)
               /\ todo \in Seq(Objects) /\ todo \in Seq(AppClasses)
    BY <2>1, <2>3, VisitsAreSequences DEF EnumerateClasses, EnumerateMethods, EnumerateWithReflection
  <2>4. ASSUME NEW todo \in BoundedSeq(Instances, MaxVisits), VisitObjects(todo) \/ GetInstances(todo)
        PROVE  /\ Enumerate("heap", todo) \/ Enumerate("instances", todo)
               /\ todo \in Seq(Objects)
    BY <2>1, <2>4, VisitsAreSequences DEF VisitObjects, GetInstances
  <2> QED
    BY <2>2, <2>3, <2>4 DEF Kinds, ClassKinds
<1>2. EnumTypeOK' /\ Phases' /\ HandlesAreOwned'
  BY <1>1, EnumerateKeeps
<1>3. call'.pc = "visiting" /\ found' = <<>> /\ given' = <<>> /\ call'.seen = {}
  BY <1>1 DEF Enumerate, Visiting, EnumInv, Phases
<1> QED
  BY <1>2, <1>3 DEF EnumInv, ThreadIsRestored

LEMMA EnumStep == EnumInv /\ [EnumNext]_enumVars => EnumInv'
<1> SUFFICES ASSUME EnumInv, [EnumNext]_enumVars PROVE EnumInv'
  OBVIOUS
<1>1. CASE UNCHANGED enumVars
  BY <1>1 DEF enumVars, EnumInv, EnumTypeOK, Phases, HandlesAreOwned, Owners, LosesReferences, ThreadIsRestored
<1> QED
  BY <1>1, StartKeeps, VisitKeeps, VisitEnding, GivingKeeps, DeliveringKeeps, DropKeeps DEF EnumNext

LEMMA EnumInvHolds == EnumSpec => []EnumInv
BY InitEnumInv, EnumStep, PTL DEF EnumSpec

(* Every reference that an enumeration made has exactly one owner on every *)
(* path through visits, callbacks and failures but two: none is deleted    *)
(* twice, and references are lost only when a visit of loaders or classes  *)
(* fails or a callback panics.                                             *)
THEOREM HandlesStayOwned == EnumSpec => []HandlesAreOwned
<1>1. EnumInv => HandlesAreOwned
  BY DEF EnumInv
<1> QED
  BY <1>1, EnumInvHolds, PTL

(* No caller and no callback runs under a suspension or a forged scope.    *)
THEOREM ThreadsAreRestored == EnumSpec => []ThreadIsRestored
<1>1. EnumInv => ThreadIsRestored
  BY DEF EnumInv
<1> QED
  BY <1>1, EnumInvHolds, PTL

-----------------------------------------------------------------------------
(* The groups of a list, and what the visit has made of them so far.       *)
Grouped(s) ==
  /\ \A i, j \in DOMAIN s : i # j => s[i].ref # s[j].ref
  /\ \A i \in DOMAIN s :
       IsInjective(s[i].classes) /\ \A c \in ToSet(s[i].classes) : LoaderOf[c] = s[i].ref

AllClasses(s) == UNION {ToSet(s[i].classes) : i \in DOMAIN s}

GroupInv ==
  call.pc # "idle" /\ call.kind \in {"classes", "methods"} =>
    /\ Grouped(given \o found)
    /\ call.pc = "visiting" /\ call.kind = "classes" =>
         \A i \in DOMAIN found : found[i].ref \in call.seen
    /\ call.pc = "visiting" /\ call.kind = "methods" =>
         AllClasses(found) = call.seen \cap Matching

LEMMA InAllClasses ==
  \A s, c : c \in AllClasses(s) <=> \E i \in DOMAIN s : c \in ToSet(s[i].classes)
BY DEF AllClasses

LEMMA MovedHead ==
  ASSUME NEW S, NEW s \in Seq(S), NEW t \in Seq(S), t # <<>>
  PROVE  Append(s, Head(t)) \o Tail(t) = s \o t
<1> DEFINE h == Head(t)
           r == Tail(t)
<1>1. h \in S /\ r \in Seq(S) /\ <<h>> \in Seq(S) /\ t = <<h>> \o r /\ Append(s, h) = s \o <<h>>
  OBVIOUS
<1> HIDE DEF h, r
<1>2. (s \o <<h>>) \o r = s \o (<<h>> \o r)
  BY <1>1, ConcatAssociative
<1> QED
  BY <1>1, <1>2 DEF h, r

LEMMA GroupsOfVisit ==
  ASSUME EnumInv, call.pc = "visiting"
  PROVE  given \o found = found /\ found \in Seq(Items) /\ given = <<>>
<1>1. given = <<>> /\ found \in Seq(Items)
  BY DEF EnumInv, EnumTypeOK, Phases
<1> QED
  BY <1>1, ConcatEmptySeq

\* a class that was not seen is a reference of its own
LEMMA ClassGrouped ==
  ASSUME NEW s \in Seq(Items), NEW o \in Objects, Grouped(s), \A i \in DOMAIN s : s[i].ref # o
  PROVE  Grouped(Append(s, Item(o, <<>>)))
<1> DEFINE t == Append(s, Item(o, <<>>))
           n == Len(s)
<1>1. /\ n \in Nat /\ DOMAIN s = 1..n /\ DOMAIN t = 1..(n + 1)
      /\ \A i \in 1..n : t[i] = s[i] /\ t[n + 1] = Item(o, <<>>)
  OBVIOUS
<1>2. Item(o, <<>>).ref = o /\ Item(o, <<>>).classes = <<>>
  BY DEF Item
<1>3. IsInjective(<<>>) /\ ToSet(<<>>) = {}
  BY DEF IsInjective, ToSet
<1>4. t[n + 1] = Item(o, <<>>)
  BY <1>1
<1> HIDE DEF t, n
<1>5. \A i \in 1..(n + 1) : i \in 1..n \/ i = n + 1
  BY <1>1
<1>6. ASSUME NEW i \in DOMAIN t, NEW j \in DOMAIN t, i # j PROVE t[i].ref # t[j].ref
  BY <1>1, <1>2, <1>4, <1>5, <1>6 DEF Grouped
<1>7. ASSUME NEW i \in DOMAIN t
      PROVE  IsInjective(t[i].classes) /\ \A c \in ToSet(t[i].classes) : LoaderOf[c] = t[i].ref
  BY <1>1, <1>2, <1>3, <1>4, <1>5 DEF Grouped
<1>8. Grouped(t)
  BY <1>6, <1>7 DEF Grouped
<1> QED
  BY <1>8 DEF t

LEMMA AppendedClass ==
  ASSUME NEW cs \in Seq(AppClasses), NEW c \in AppClasses, IsInjective(cs), c \notin ToSet(cs)
  PROVE  IsInjective(Append(cs, c)) /\ ToSet(Append(cs, c)) = ToSet(cs) \cup {c}
<1> DEFINE ds == Append(cs, c)
           n == Len(cs)
<1>1. /\ n \in Nat /\ DOMAIN cs = 1..n /\ DOMAIN ds = 1..(n + 1)
      /\ ds[n + 1] = c /\ \A i \in 1..n : ds[i] = cs[i]
  OBVIOUS
<1> HIDE DEF ds, n
<1>2. \A i \in 1..(n + 1) : i \in 1..n \/ i = n + 1
  BY <1>1
<1>3. n + 1 \in 1..(n + 1) /\ \A i \in 1..n : i \in 1..(n + 1)
  BY <1>1
<1>4. \A i \in 1..n : cs[i] # c
  BY <1>1 DEF ToSet
<1>5. IsInjective(ds)
  BY <1>1, <1>2, <1>4 DEF IsInjective
<1>6. ToSet(ds) = ToSet(cs) \cup {c}
  BY <1>1, <1>2, <1>3 DEF ToSet
<1> QED
  BY <1>5, <1>6 DEF ds

\* a class that was not seen joins the one group of its loader, or starts it
LEMMA MethodsGrouped ==
  ASSUME found \in Seq(Items), Grouped(found), NEW c \in AppClasses, Collect("methods", c),
         \A i \in DOMAIN found : c \notin ToSet(found[i].classes)
  PROVE  /\ Grouped(found')
         /\ AllClasses(found') = AllClasses(found) \cup {c}
<1> DEFINE loader == LoaderOf[c]
           group == {i \in DOMAIN found : InGroup("methods", i, loader)}
<1>1. group = {i \in DOMAIN found : found[i].ref = loader}
  BY DEF InGroup
<1>2. CASE group # {}
  <2> DEFINE k == CHOOSE i \in group : TRUE
  <2>1. k \in DOMAIN found /\ found[k].ref = loader
    BY <1>1, <1>2
  <2>2. found' = [found EXCEPT ![k].classes = Append(@, c)]
    BY <1>2 DEF Collect
  <2> HIDE DEF k
  <2>3. found[k] \in Items
    BY <2>1
  <2>4. found[k].classes \in Seq(AppClasses) /\ IsInjective(found[k].classes)
    BY <2>1, <2>3 DEF Items, Grouped
  <2> DEFINE cs == Append(found[k].classes, c)
             x == [found[k] EXCEPT !.classes = cs]
  <2>5. IsInjective(cs) /\ ToSet(cs) = ToSet(found[k].classes) \cup {c}
    BY <2>1, <2>4, AppendedClass
  <2>6. x.ref = found[k].ref /\ x.classes = cs
    BY <2>3 DEF Items
  <2>7. found' = [found EXCEPT ![k] = x]
    BY <2>2
  <2> HIDE DEF cs, x
  <2>8. /\ DOMAIN found' = DOMAIN found /\ found'[k] = x
        /\ \A i \in DOMAIN found : i # k => found'[i] = found[i]
    BY <2>1, <2>7
  <2>9. ASSUME NEW i \in DOMAIN found, NEW j \in DOMAIN found, i # j
        PROVE  found'[i].ref # found'[j].ref
    BY <2>1, <2>6, <2>8, <2>9 DEF Grouped
  <2>10. ASSUME NEW i \in DOMAIN found
         PROVE  /\ IsInjective(found'[i].classes)
                /\ \A d \in ToSet(found'[i].classes) : LoaderOf[d] = found'[i].ref
    BY <2>1, <2>5, <2>6, <2>8 DEF Grouped
  <2>11. Grouped(found')
    BY <2>8, <2>9, <2>10 DEF Grouped
  <2>12. \A i \in DOMAIN found : ToSet(found'[i].classes)
           = IF i = k THEN ToSet(found[i].classes) \cup {c} ELSE ToSet(found[i].classes)
    BY <2>5, <2>6, <2>8
  <2>13. \A d : (\E i \in DOMAIN found' : d \in ToSet(found'[i].classes))
                 <=> (\E i \in DOMAIN found : d \in ToSet(found[i].classes)) \/ d = c
    BY <2>1, <2>8, <2>12
  <2> QED
    BY <2>11, <2>13, InAllClasses
<1>3. CASE group = {}
  <2> DEFINE n == Len(found)
             x == Item(loader, <<c>>)
  <2>1. found' = Append(found, x)
    BY <1>3 DEF Collect
  <2>2. x.ref = loader /\ x.classes = <<c>>
    BY DEF Item
  <2>3. IsInjective(<<c>>) /\ ToSet(<<c>>) = {c}
    BY DEF IsInjective, ToSet
  <2>4. /\ n \in Nat /\ DOMAIN found = 1..n /\ DOMAIN found' = 1..(n + 1)
        /\ found'[n + 1] = x /\ \A i \in 1..n : found'[i] = found[i]
    BY <2>1
  <2>5. \A i \in 1..n : found[i].ref # loader
    BY <1>1, <1>3, <2>4
  <2> HIDE DEF n, x
  <2>6. \A i \in 1..(n + 1) : i \in 1..n \/ i = n + 1
    BY <2>4
  <2>7. n + 1 \in 1..(n + 1) /\ n + 1 \notin 1..n /\ \A i \in 1..n : i \in 1..(n + 1)
    BY <2>4
  <2>8. ASSUME NEW i \in DOMAIN found', NEW j \in DOMAIN found', i # j
        PROVE  found'[i].ref # found'[j].ref
    BY <2>2, <2>4, <2>5, <2>6, <2>8 DEF Grouped
  <2>9. ASSUME NEW i \in DOMAIN found'
        PROVE  /\ IsInjective(found'[i].classes)
               /\ \A d \in ToSet(found'[i].classes) : LoaderOf[d] = found'[i].ref
    BY <2>2, <2>3, <2>4, <2>6 DEF Grouped
  <2>10. Grouped(found')
    BY <2>8, <2>9 DEF Grouped
  <2>11. /\ ToSet(found'[n + 1].classes) = {c}
         /\ \A i \in 1..n : ToSet(found'[i].classes) = ToSet(found[i].classes)
    BY <2>2, <2>3, <2>4
  <2>12. \A d : (\E i \in DOMAIN found' : d \in ToSet(found'[i].classes))
                 <=> (\E i \in DOMAIN found : d \in ToSet(found[i].classes)) \/ d = c
    BY <2>4, <2>6, <2>7, <2>11
  <2> QED
    BY <2>10, <2>12, InAllClasses
<1> QED
  BY <1>2, <1>3

LEMMA VisitGroups ==
  ASSUME EnumInv, GroupInv, NEW o \in Objects,
         VisitClassLoader(o) \/ VisitClass(o) \/ VisitQueried(o) \/ VisitInstance(o)
  PROVE  GroupInv'
<1> SUFFICES ASSUME call'.pc # "idle", call'.kind \in {"classes", "methods"}
             PROVE  GroupInv'
  BY DEF GroupInv
<1>1. Advance(o) /\ given' = given /\ \E kinds : o \in Coming(kinds)
  BY DEF VisitClassLoader, VisitClass, VisitQueried, VisitInstance
<1>2. /\ call'.pc = "visiting" /\ call.pc = "visiting" /\ call'.kind = call.kind
      /\ call'.seen = call.seen \cup {o}
      /\ o \in AppClasses
  BY <1>1, EnumAdvanced DEF ClassKinds
<1>3. given \o found = found /\ found \in Seq(Items) /\ given = <<>>
  BY <1>2, GroupsOfVisit
<1>4. found' \in Seq(Items) /\ given' \o found' = found'
  <2>1. EnumInv'
    BY VisitKeeps
  <2>2. found' \in Seq(Items)
    BY <2>1 DEF EnumInv, EnumTypeOK
  <2> QED
    BY <1>1, <1>3, <2>2, ConcatEmptySeq
<1>5. Grouped(found)
  BY <1>2, <1>3 DEF GroupInv
<1>6. CASE call.kind = "classes"
  <2>1. VisitClass(o)
    BY <1>6 DEF VisitClassLoader, VisitQueried, VisitInstance, Coming
  <2>2. \A i \in DOMAIN found : found[i].ref \in call.seen
    BY <1>2, <1>6 DEF GroupInv
  <2>3. Grouped(found') /\ \A i \in DOMAIN found' : found'[i].ref \in call'.seen
    <3>1. CASE o \in call.seen
      BY <1>2, <1>5, <2>1, <2>2, <3>1 DEF VisitClass, Grouped
    <3>2. CASE o \notin call.seen
      <4>1. found' = Append(found, Item(o, <<>>))
        BY <2>1, <3>2 DEF VisitClass, Promote
      <4>2. Grouped(found')
        BY <1>3, <1>5, <2>2, <3>2, <4>1, ClassGrouped
      <4>3. \A i \in DOMAIN found' : found'[i].ref \in call.seen \cup {o}
        <5>1. Item(o, <<>>).ref = o
          BY DEF Item
        <5>2. \A i \in DOMAIN found' :
                (i \in DOMAIN found /\ found'[i] = found[i]) \/ found'[i] = Item(o, <<>>)
          BY <1>3, <4>1
        <5> QED
          BY <2>2, <5>1, <5>2
      <4> QED
        BY <1>2, <4>2, <4>3
    <3> QED
      BY <3>1, <3>2
  <2> QED
    BY <1>2, <1>4, <1>6, <2>3 DEF GroupInv
<1>7. CASE call.kind = "methods"
  <2>1. VisitQueried(o)
    BY <1>7 DEF VisitClassLoader, VisitClass, VisitInstance, Coming
  <2>2. AllClasses(found) = call.seen \cap Matching
    BY <1>2, <1>7 DEF GroupInv
  <2>3. Grouped(found') /\ AllClasses(found') = call'.seen \cap Matching
    <3>1. CASE o \in call.seen \/ o \notin Matching
      <4>1. found' = found
        BY <2>1, <3>1 DEF VisitQueried
      <4>2. call'.seen \cap Matching = call.seen \cap Matching
        BY <1>2, <3>1
      <4> QED
        BY <1>5, <2>2, <4>1, <4>2
    <3>2. CASE ~(o \in call.seen \/ o \notin Matching)
      <4>1. Collect("methods", o)
        BY <1>7, <2>1, <3>2 DEF VisitQueried
      <4>2. \A i \in DOMAIN found : o \notin ToSet(found[i].classes)
        BY <2>2, <3>2, InAllClasses
      <4>3. Grouped(found') /\ AllClasses(found') = AllClasses(found) \cup {o}
        BY <1>2, <1>3, <1>5, <4>1, <4>2, MethodsGrouped
      <4> QED
        BY <1>2, <2>2, <3>2, <4>3
    <3> QED
      BY <3>1, <3>2
  <2> QED
    BY <1>2, <1>4, <1>7, <2>3 DEF GroupInv
<1> QED
  BY <1>2, <1>6, <1>7

LEMMA GroupStep ==
  ASSUME EnumInv, GroupInv, [EnumNext]_enumVars
  PROVE  GroupInv'
<1>1. CASE UNCHANGED enumVars
  BY <1>1 DEF enumVars, GroupInv, Grouped
<1>2. ASSUME call'.pc = "visiting" /\ found' = <<>> /\ given' = <<>> /\ call'.seen = {}
      PROVE  GroupInv'
  <2>1. given' \o found' = <<>>
    BY <1>2
  <2>2. Grouped(<<>>) /\ DOMAIN <<>> = {}
    BY DEF Grouped
  <2>3. AllClasses(<<>>) = {}
    BY <2>2, InAllClasses
  <2> QED
    BY <1>2, <2>1, <2>2, <2>3 DEF GroupInv
<1>3. CASE VisitUnreferenced
  <2>1. call'.kind = "heap"
    <3>1. call.pc = "visiting" /\ call.kind = "heap" /\ call' = [call EXCEPT !.todo = Tail(@)]
      BY <1>3 DEF VisitUnreferenced
    <3>2. call \in [kind : Kinds, pc : {"visiting"}, todo : Seq(Objects), seen : SUBSET Objects]
      BY <3>1 DEF EnumInv, EnumTypeOK
    <3> QED
      BY <3>1, <3>2
  <2> QED
    BY <2>1 DEF GroupInv
<1>4. CASE VisitFails \/ GiveFails \/ Delivered \/ DeliverPanics
            \/ \E retain \in BOOLEAN : DeliverLast(retain)
  <2>1. \E how : call' = Over(how)
    BY <1>4 DEF VisitFails, GiveFails, Delivered, DeliverPanics, DeliverLast
  <2>2. call'.pc = "idle"
    BY <2>1 DEF Over
  <2> QED
    BY <2>2 DEF GroupInv
<1>5. CASE VisitEnds
  <2>1. /\ call.pc = "visiting" /\ call'.pc = "delivering" /\ call'.kind = call.kind
        /\ found' = found /\ given' = given
    BY <1>5 DEF VisitEnds
  <2>2. call.kind \in {"classes", "methods"} => Grouped(given \o found)
    BY <2>1 DEF GroupInv
  <2>3. given' \o found' = given \o found
    BY <2>1
  <2> QED
    BY <2>1, <2>2, <2>3 DEF GroupInv
<1>6. CASE Give
  <2>1. /\ call' = call /\ call.pc = "delivering" /\ found # <<>>
        /\ given' = Append(given, Head(found)) /\ found' = Tail(found)
    BY <1>6 DEF Give
  <2>2. given' \o found' = given \o found
    BY <2>1, MovedHead DEF EnumInv, EnumTypeOK
  <2>3. call.kind \in {"classes", "methods"} => Grouped(given' \o found')
    BY <2>1, <2>2 DEF GroupInv
  <2> QED
    BY <2>1, <2>3 DEF GroupInv
<1>7. ASSUME NEW retain \in BOOLEAN, Deliver(retain)
      PROVE  GroupInv'
  BY <1>7 DEF Deliver, GroupInv
<1>8. CASE DropGiven
  BY <1>8 DEF DropGiven, GroupInv
<1>9. ASSUME NEW o \in Instances, DropKept(o)
      PROVE  GroupInv'
  BY <1>9 DEF DropKept, GroupInv, Grouped
<1> QED
  BY <1>1, <1>2, <1>3, <1>4, <1>5, <1>6, <1>7, <1>8, <1>9, StartKeeps, VisitGroups DEF EnumNext

(* The groups are those of the loaders, one for each, and have each class  *)
(* that matches once.                                                      *)
THEOREM GroupsStayByLoader == EnumSpec => []GroupsAreByLoader
<1>1. EnumInit => GroupInv
  BY DEF EnumInit, GroupInv
<1>2. EnumInv /\ GroupInv => GroupsAreByLoader
  <2> DEFINE groups == given \o found
             classes == [i \in DOMAIN groups |-> groups[i].classes]
  <2> SUFFICES ASSUME EnumInv, GroupInv, call.pc # "idle", call.kind \in {"classes", "methods"}
               PROVE  /\ \A i, j \in DOMAIN groups : i # j => groups[i].ref # groups[j].ref
                      /\ \A i \in DOMAIN groups :
                           /\ IsInjective(classes[i])
                           /\ \A c \in ToSet(classes[i]) : LoaderOf[c] = groups[i].ref
                      /\ call.kind = "methods" /\ call.pc = "visiting" =>
                           UNION {ToSet(classes[i]) : i \in DOMAIN groups} = call.seen \cap Matching
    BY DEF GroupsAreByLoader
  <2>1. Grouped(groups)
    BY DEF GroupInv
  <2>2. \A i \in DOMAIN groups : classes[i] = groups[i].classes
    OBVIOUS
  <2>3. ASSUME call.kind = "methods", call.pc = "visiting"
        PROVE  UNION {ToSet(classes[i]) : i \in DOMAIN groups} = call.seen \cap Matching
    <3>1. groups = found
      BY <2>3, GroupsOfVisit
    <3>2. AllClasses(found) = call.seen \cap Matching
      BY <2>3 DEF GroupInv
    <3>3. {ToSet(classes[i]) : i \in DOMAIN groups} = {ToSet(found[i].classes) : i \in DOMAIN found}
      BY <2>2, <3>1
    <3> QED
      BY <3>2, <3>3 DEF AllClasses
  <2> HIDE DEF groups, classes
  <2> QED
    BY <2>1, <2>2, <2>3 DEF Grouped
<1> QED
  BY <1>1, <1>2, GroupStep, EnumInvHolds, PTL DEF EnumSpec
=============================================================================
