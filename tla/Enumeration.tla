------------------------------ MODULE Enumeration ------------------------------
(***************************************************************************)
(* Enumerations of loaders, classes, methods and instances: art/           *)
(* enumeration.rs, and the callers in java/handle.rs that hand out what    *)
(* they found.                                                             *)
(*                                                                         *)
(* An enumeration makes a thread runnable and lets ART visit what there    *)
(* is, and promotes what it wants to raw global references, which nothing  *)
(* deletes on its own.  A second pass turns them into owned references, or *)
(* gives them to a callback one by one.  Each pass may fail half-way.      *)
(* While loaders are visited all threads are suspended; a visit through    *)
(* GetInstances runs under a handle scope forged by the bridge.            *)
(*                                                                         *)
(* ART is external: what it visits, in which order, and whether it visits  *)
(* a class again, is chosen freely when a call starts.                     *)
(***************************************************************************)
EXTENDS Naturals, FiniteSets, Sequences, SequencesExt

CONSTANTS
  AppLoaders,  \* class loaders but for the boot loader, which is no object
  AppClasses,
  LoaderOf,    \* the loader of each class, "none" for the boot loader
  Matching,    \* the classes with a method that the query asks for
  Instances,   \* objects on the heap
  OfClass,     \* those whose class is exactly the one asked for
  MaxVisits    \* bounds the visits of a call

VARIABLES
  call,       \* the enumeration under way, or the last one and how it ended
  refs,       \* how many global references of the bridge each object has, but
              \* for those that calls before the last one lost
  found,      \* the raw references that the call made, with their classes
  given,      \* the references that the caller got, and owns
  kept,       \* how many references the callbacks retained
  suspended,  \* all threads are suspended
  forged      \* the top handle scope of the thread is the bridge's

enumVars == <<call, refs, found, given, kept, suspended, forged>>

Objects == AppLoaders \cup AppClasses \cup Instances
ASSUME NoneIsNoObject == "none" \notin Objects
ASSUME ClassesHaveLoaders == LoaderOf \in [AppClasses -> AppLoaders \cup {"none"}]

Item(ref, classes) == [ref |-> ref, classes |-> classes]
References(items, o) == Cardinality({i \in DOMAIN items : items[i].ref = o})
Without(items) == [o \in Objects |-> refs[o] - References(items, o)]
None == [o \in Objects |-> 0]

Over(how) == [kind |-> call.kind, pc |-> "idle", how |-> how]
Visiting(kind, todo) == [kind |-> kind, pc |-> "visiting", todo |-> todo, seen |-> {}]

EnumInit ==
  /\ call = [kind |-> "none", pc |-> "idle", how |-> "delivered"]
  /\ refs = None /\ kept = None
  /\ found = <<>> /\ given = <<>>
  /\ suspended = FALSE /\ forged = FALSE

-----------------------------------------------------------------------------
\* the count starts from what callbacks retained: references that the call
\* before lost stay for ever, and no step depends on their number
Enumerate(kind, todo) ==
  /\ call.pc = "idle" /\ given = <<>>
  /\ call' = Visiting(kind, todo)
  /\ refs' = kept
  /\ UNCHANGED <<found, given, kept>>

\* enumerate_class_loader_handles: all threads are suspended for the visit
EnumerateLoaders(todo) ==
  IsInjective(todo) /\ Enumerate("loaders", todo) /\ suspended' = TRUE /\ UNCHANGED forged
\* enumerate_loaded_class_handles
EnumerateClasses(todo) == Enumerate("classes", todo) /\ UNCHANGED <<suspended, forged>>
\* ArtBackend::enumerate_methods
EnumerateMethods(todo) == Enumerate("methods", todo) /\ UNCHANGED <<suspended, forged>>
\* Java::enumerate_methods_with_reflection
EnumerateWithReflection(todo) == Enumerate("reflection", todo) /\ UNCHANGED <<suspended, forged>>
\* choose_instances_with_visit_objects
VisitObjects(todo) == IsInjective(todo) /\ Enumerate("heap", todo) /\ UNCHANGED <<suspended, forged>>
\* choose_instances_with_get_instances: under a handle scope of its own
GetInstances(todo) ==
  IsInjective(todo) /\ Enumerate("instances", todo) /\ forged' = TRUE /\ UNCHANGED suspended

\* on_visit_class_loader and the loop over the loaders; ArtClassProcessor::promote;
\* ArtHeapInstanceProcessor::visit; new_global_ref_raw of an instance
Promote(o) ==
  /\ refs' = [refs EXCEPT ![o] = @ + 1]
  /\ found' = Append(found, Item(o, <<>>))

\* mutant: references to loaders are compared as in the query by reflection
InGroupOfReference(kind, i, loader) == found[i].ref = loader /\ loader = "none"

\* find_or_add_group compares keys of loaders; find_method_query_group compares
\* global references, and two references to one loader differ
InGroup(kind, i, loader) ==
  /\ found[i].ref = loader
  /\ kind = "methods" \/ loader = "none"

\* collect_class, or enumerate_methods_with_reflection
Collect(kind, class) ==
  LET loader == LoaderOf[class]
      group == {i \in DOMAIN found : InGroup(kind, i, loader)}
  IN IF group # {}
     THEN /\ found' = [found EXCEPT ![CHOOSE i \in group : TRUE].classes = Append(@, class)]
          /\ UNCHANGED refs
     ELSE /\ found' = Append(found, Item(loader, <<class>>))
          /\ refs' = IF loader = "none" THEN refs ELSE [refs EXCEPT ![loader] = @ + 1]

Advance(o) == call' = [call EXCEPT !.todo = Tail(@), !.seen = @ \cup {o}]
Coming(kinds) == IF call.pc = "visiting" /\ call.kind \in kinds /\ call.todo # <<>>
                 THEN {Head(call.todo)} ELSE {}

\* on_visit_class_loader
VisitClassLoader(o) ==
  /\ o \in Coming({"loaders"})
  /\ Advance(o) /\ Promote(o)
  /\ UNCHANGED <<given, kept, suspended, forged>>

\* ArtClassProcessor::visit: a class once
VisitClass(o) ==
  /\ o \in Coming({"classes"})
  /\ Advance(o)
  /\ IF o \in call.seen THEN UNCHANGED <<refs, found>> ELSE Promote(o)
  /\ UNCHANGED <<given, kept, suspended, forged>>

\* ArtMethodQueryProcessor::visit, and the loop over the loaded classes
VisitQueried(o) ==
  /\ o \in Coming({"methods", "reflection"})
  /\ Advance(o)
  /\ IF o \in call.seen \/ o \notin Matching THEN UNCHANGED <<refs, found>> ELSE Collect(call.kind, o)
  /\ UNCHANGED <<given, kept, suspended, forged>>

\* ArtHeapInstanceProcessor::visit, and the vector of GetInstances
VisitInstance(o) ==
  /\ o \in Coming({"heap", "instances"})
  /\ Advance(o)
  /\ IF o \in OfClass THEN Promote(o) ELSE UNCHANGED <<refs, found>>
  /\ UNCHANGED <<given, kept, suspended, forged>>

\* a visit of the heap passes over an object that cannot be referenced
VisitUnreferenced ==
  /\ call.pc = "visiting" /\ call.kind = "heap" /\ call.todo # <<>>
  /\ call' = [call EXCEPT !.todo = Tail(@)]
  /\ UNCHANGED <<refs, found, given, kept, suspended, forged>>

\* mutant: an enumeration of methods forgets the references that it made
DeleteFoundNever == UNCHANGED refs

\* the enumerations of loaders and of classes do forget them
Forgets(kind) == kind \in {"loaders", "classes"}
DeleteFound == refs' = IF Forgets(call.kind) THEN refs ELSE Without(found)

\* Drop for SuspendedAllThreads and for FakeVariableSizedHandleScope
RestoreThread(failed) == suspended' = FALSE /\ forged' = FALSE

\* an object cannot be referenced, or a class not be described
VisitFails ==
  /\ call.pc = "visiting" /\ (call.kind # "heap" \/ found = <<>>)
  /\ call' = Over("visit failed") /\ found' = <<>>
  /\ DeleteFound
  /\ RestoreThread(TRUE)
  /\ UNCHANGED <<given, kept>>

VisitEnds ==
  /\ call.pc = "visiting" /\ call.todo = <<>>
  /\ call' = [kind |-> call.kind, pc |-> "delivering"]
  /\ RestoreThread(FALSE)
  /\ UNCHANGED <<refs, found, given, kept>>

-----------------------------------------------------------------------------
\* class_loader_refs_from_art_handles, raw_classes_from_art_handles, and
\* method_query_groups_from_art_groups
Give ==
  /\ call.pc = "delivering" /\ call.kind \notin {"heap", "instances"} /\ found # <<>>
  /\ given' = Append(given, Head(found))
  /\ found' = Tail(found)
  /\ UNCHANGED <<call, refs, kept, suspended, forged>>

\* validate_class_loader fails: what was given is dropped, what was not is deleted
GiveFails ==
  /\ call.pc = "delivering" /\ call.kind \in {"loaders", "methods"}
  /\ found # <<>> /\ Head(found).ref # "none"
  /\ call' = Over("refused")
  /\ refs' = Without(given \o found)
  /\ given' = <<>> /\ found' = <<>>
  /\ UNCHANGED <<kept, suspended, forged>>

\* a callback retains an object again only after the reference was dropped
MayRetain(o, retain) == retain => kept[o] = 0

\* what a callback and the drop of its object leave of the references to it
AfterCallback(retain) ==
  LET o == Head(found).ref IN
  /\ MayRetain(o, retain)
  /\ refs' = IF retain THEN refs ELSE [refs EXCEPT ![o] = @ - 1]
  /\ kept' = IF retain THEN [kept EXCEPT ![o] = @ + 1] ELSE kept

\* deliver_heap_instance_handles
Deliver(retain) ==
  /\ call.pc = "delivering" /\ call.kind \in {"heap", "instances"} /\ found # <<>>
  /\ AfterCallback(retain)
  /\ found' = Tail(found)
  /\ UNCHANGED <<call, given, suspended, forged>>

\* the callback stops, or fails
DeliverLast(retain) ==
  LET o == Head(found).ref IN
  /\ call.pc = "delivering" /\ call.kind \in {"heap", "instances"} /\ found # <<>>
  /\ MayRetain(o, retain)
  /\ kept' = IF retain THEN [kept EXCEPT ![o] = @ + 1] ELSE kept
  /\ refs' = IF retain THEN [Without(found) EXCEPT ![o] = @ + 1] ELSE Without(found)
  /\ call' = Over("stopped") /\ found' = <<>>
  /\ UNCHANGED <<given, suspended, forged>>

\* the callback panics: the handles that are left are no owned references
DeliverPanics ==
  /\ call.pc = "delivering" /\ call.kind \in {"heap", "instances"} /\ found # <<>>
  /\ AfterCallback(FALSE)
  /\ call' = Over("panicked") /\ found' = <<>>
  /\ UNCHANGED <<given, suspended, forged>>

Delivered ==
  /\ call.pc = "delivering" /\ found = <<>>
  /\ call' = Over("delivered")
  /\ UNCHANGED <<refs, found, given, kept, suspended, forged>>

\* Drop of the owned references
DropGiven ==
  /\ call.pc = "idle" /\ given # <<>>
  /\ refs' = Without(given)
  /\ given' = <<>>
  /\ UNCHANGED <<call, found, kept, suspended, forged>>

DropKept(o) ==
  /\ kept[o] > 0
  /\ kept' = [kept EXCEPT ![o] = @ - 1]
  /\ refs' = [refs EXCEPT ![o] = @ - 1]
  /\ UNCHANGED <<call, found, given, suspended, forged>>

EnumNext ==
  \/ \E todo \in BoundedSeq(AppLoaders, MaxVisits) : EnumerateLoaders(todo)
  \/ \E todo \in BoundedSeq(AppClasses, MaxVisits) :
       EnumerateClasses(todo) \/ EnumerateMethods(todo) \/ EnumerateWithReflection(todo)
  \/ \E todo \in BoundedSeq(Instances, MaxVisits) : VisitObjects(todo) \/ GetInstances(todo)
  \/ \E o \in Objects : VisitClassLoader(o) \/ VisitClass(o) \/ VisitQueried(o) \/ VisitInstance(o)
  \/ VisitUnreferenced \/ VisitFails \/ VisitEnds
  \/ Give \/ GiveFails \/ Delivered
  \/ \E retain \in BOOLEAN : Deliver(retain) \/ DeliverLast(retain)
  \/ DeliverPanics
  \/ DropGiven
  \/ \E o \in Instances : DropKept(o)

EnumSpec == EnumInit /\ [][EnumNext]_enumVars

-----------------------------------------------------------------------------
\* what of an object's references is held by the call, by its caller, and by
\* callbacks that retained it
Owners(o) == References(found, o) + References(given, o) + kept[o]

(* Every global reference that an enumeration made has one owner, who will *)
(* delete it: the call, its caller, or a callback that retained it; none   *)
(* is deleted twice.  Two endings alone lose references that nobody will   *)
(* delete, as the raw handles have no Drop: a visit of loaders or classes  *)
(* that fails half-way, and a callback of a heap enumeration that panics.  *)
(* No visit for methods or for objects, no refused loader, and no callback *)
(* that fails or stops loses any.                                          *)
LosesReferences ==
  /\ call.pc = "idle"
  /\ call.how = "panicked" \/ (call.how = "visit failed" /\ call.kind \in {"loaders", "classes"})
HandlesAreOwned ==
  \A o \in Objects : refs[o] = Owners(o) \/ (LosesReferences /\ refs[o] > Owners(o))

(* Callers and their callbacks run while no thread is suspended and with   *)
(* the thread's own handle scope, whether the visit succeeded or failed.   *)
ThreadIsRestored == call.pc # "visiting" => ~suspended /\ ~forged

(* "Methods matching a query, grouped by class loader": a query through    *)
(* ART gives each class with a match once, in the one group of its loader, *)
(* however often ART visits it; an enumeration gives each class once.      *)
GroupsAreByLoader ==
  LET groups == given \o found
      classes == [i \in DOMAIN groups |-> groups[i].classes]
  IN call.pc # "idle" /\ call.kind \in {"classes", "methods"} =>
       /\ \A i, j \in DOMAIN groups : i # j => groups[i].ref # groups[j].ref
       /\ \A i \in DOMAIN groups :
            IsInjective(classes[i]) /\ \A c \in ToSet(classes[i]) : LoaderOf[c] = groups[i].ref
       /\ call.kind = "methods" /\ call.pc = "visiting" =>
            UNION {ToSet(classes[i]) : i \in DOMAIN groups} = call.seen \cap Matching

=============================================================================
