------------------------------ MODULE ClassLookup ------------------------------
(***************************************************************************)
(* Handles of the bridge and the classes they find: Java of java/handle.rs *)
(* and java/mod.rs, find_class_with_loader of java/lookup.rs, and the      *)
(* default loader of java/perform.rs.                                      *)
(*                                                                         *)
(* A handle is a loader, or none for a bare handle, and a cache of classes *)
(* that its clones share.  A lookup reads the cache under its mutex, asks  *)
(* the loader or FindClass without it, and inserts.  The cache is keyed by *)
(* the name alone.  Many threads look up names while handles are made and  *)
(* a default loader, with a cache of its own, is published or replaced.    *)
(*                                                                         *)
(* Loaders are external: what each finds under a name is Found, after the  *)
(* name of the class was validated.  A FindClass asks the loader of the    *)
(* native context that it is called from: the class of the hooked method   *)
(* in a callback, the system loader on a native thread.                    *)
(***************************************************************************)
EXTENDS Naturals

CONSTANTS
  Lookers,   \* threads
  Loaders,
  ClassNames,
  Caches,    \* the class caches there may be
  Found      \* Found[l][n]: the class that loader l finds under n, or "none"

ASSUME LoadersAreNotNone == "none" \notin Loaders
ASSUME FoundIsFunction == DOMAIN Found = Loaders /\ \A l \in Loaders : DOMAIN Found[l] = ClassNames

VARIABLES
  handles,  \* the handles there are, clones being one
  default,  \* AppPerformInner.default: the handle it makes, or NoDefault
  made,     \* the caches there are
  cache,    \* their contents
  lookup    \* what each thread is looking up, and where it stands

lookupVars == <<handles, default, made, cache, lookup>>

Handle(loader, classes) == [loader |-> loader, classes |-> classes]
NoDefault == Handle("none", "none")

\* LoadedClassCache::default
MakeCache(c) == c \notin made /\ made' = made \cup {c}

Idle == [pc |-> "idle"]
Looking(pc, h, n, context, class) ==
  [pc |-> pc, handle |-> h, name |-> n, context |-> context, class |-> class]

LookupInit ==
  /\ handles = {}
  /\ default = NoDefault
  /\ made = {}
  /\ cache = [c \in Caches |-> [n \in ClassNames |-> "none"]]
  /\ lookup = [t \in Lookers |-> Idle]

-----------------------------------------------------------------------------
\* Java::new: a bare handle
Obtain(c) ==
  /\ MakeCache(c)
  /\ handles' = handles \cup {Handle("none", c)}
  /\ UNCHANGED <<default, cache, lookup>>

\* mutant: the new handle goes on with the cache of the old one
WithLoaderShared(h, l, c) ==
  /\ h \in handles /\ MakeCache(c)
  /\ handles' = handles \cup {Handle(l, h.classes)}
  /\ UNCHANGED <<default, cache, lookup>>

WithLoader(h, l, c) ==
  /\ h \in handles /\ MakeCache(c)
  /\ handles' = handles \cup {Handle(l, c)}
  /\ UNCHANGED <<default, cache, lookup>>

\* publish_app_loader: the same loader again changes nothing
Publish(l, c) ==
  /\ default.loader # l
  /\ MakeCache(c)
  /\ default' = Handle(l, c)
  /\ UNCHANGED <<handles, cache, lookup>>

\* default_java: a handle on the default and its cache
DefaultJava ==
  /\ default # NoDefault
  /\ handles' = handles \cup {default}
  /\ UNCHANGED <<default, made, cache, lookup>>

-----------------------------------------------------------------------------
\* find_class, up to the look into the cache
Begin(t, h, n, context) ==
  LET class == cache[h.classes][n] IN
  /\ lookup[t] = Idle
  /\ lookup' = [lookup EXCEPT ![t] =
       Looking(IF class = "none" THEN "looking" ELSE "found", h, n, context, class)]
  /\ UNCHANGED <<handles, default, made, cache>>

FindClass(t, h, n, context) == h \in handles /\ Begin(t, h, n, context)

\* use_class: a bare handle gives way to the default, once there is one
UseClass(t, h, n, context) ==
  /\ h \in handles
  /\ h.loader = "none" /\ default # NoDefault
  /\ Begin(t, default, n, context)

\* find_class_with_loader, or FindClass; either may throw
Look(t) ==
  LET look == lookup[t]
      by == IF look.handle.loader = "none" THEN look.context ELSE look.handle.loader
      class == Found[by][look.name]
  IN /\ look.pc = "looking"
     /\ lookup' = [lookup EXCEPT ![t] =
          IF class = "none" THEN Idle ELSE [look EXCEPT !.pc = "inserting", !.class = class]]
     /\ UNCHANGED <<handles, default, made, cache>>

Insert(t) ==
  LET look == lookup[t] IN
  /\ look.pc = "inserting"
  /\ cache' = [cache EXCEPT ![look.handle.classes] = [@ EXCEPT ![look.name] = look.class]]
  /\ lookup' = [lookup EXCEPT ![t] = [look EXCEPT !.pc = "found"]]
  /\ UNCHANGED <<handles, default, made>>

ReturnClass(t) ==
  /\ lookup[t].pc = "found"
  /\ lookup' = [lookup EXCEPT ![t] = Idle]
  /\ UNCHANGED <<handles, default, made, cache>>

LookupNext ==
  \/ \E c \in Caches :
       \/ Obtain(c)
       \/ \E l \in Loaders : Publish(l, c) \/ \E h \in handles : WithLoader(h, l, c)
  \/ DefaultJava
  \/ \E t \in Lookers :
       \/ \E h \in handles, n \in ClassNames, context \in Loaders :
            FindClass(t, h, n, context) \/ UseClass(t, h, n, context)
       \/ Look(t) \/ Insert(t) \/ ReturnClass(t)

LookupSpec == LookupInit /\ [][LookupNext]_lookupVars

-----------------------------------------------------------------------------
(* A handle with a loader finds what its loader finds, whatever was looked *)
(* up before, by whatever thread, through whatever handle, and whichever   *)
(* loaders were published meanwhile.                                       *)
ScopedLookupsStayInScope ==
  \A t \in Lookers :
    LET look == lookup[t] IN
    look.pc = "found" /\ look.handle.loader # "none" =>
      look.class = Found[look.handle.loader][look.name]

=============================================================================
