--------------------------- MODULE ArtReplacement ---------------------------
(***************************************************************************)
(* Replacing ArtMethods: src/art/replacement.rs and its controller, guard  *)
(* and method modules.                                                     *)
(*                                                                         *)
(* replace_method snapshots the target, builds a clone and a dispatch      *)
(* thunk from the snapshot, and only then suspends all threads, registers  *)
(* the pair in the controller's two maps and patches the target.  revert   *)
(* restores the snapshot under suspension and unregisters the pair after   *)
(* the threads run again.  A moving collection changes the declaring class *)
(* of a target; the clone is no method the collector knows, and hooks on   *)
(* the collector copy the class over.                                      *)
(*                                                                         *)
(* Each element of Replacements is one call of replace_method and the      *)
(* guard it returns.  ART's SuspendAll is external: it is modelled as the  *)
(* exclusion the code relies on, so a suspended section is one step.       *)
(***************************************************************************)
EXTENDS Naturals, FiniteSets

CONSTANTS
  Methods,        \* target ArtMethods
  Replacements,   \* calls of replace_method
  OvertakesPrepared
    \* may a SuspendAll return while another thread stands before its own
    \* SuspendAll, with a snapshot it has already taken?

ASSUME NoneIsNoName == "none" \notin Methods \cup Replacements
ASSUME OriginalIsNoReplacement == "original" \notin Replacements
ASSUME OvertakesPreparedIsBool == OvertakesPrepared \in BOOLEAN

VARIABLES
  stage,         \* how far the call and its guard have come
  target,        \* the ArtMethod a replacement is for
  saved,         \* ArtMethodReplacementGuard.original, the snapshot
  memory,        \* the cloned ArtMethod and the dispatch thunk
  image,         \* flags and entrypoints of a method: whose they are
  methods,       \* ArtReplacementMappings.methods
  replacements,  \* ArtReplacementMappings.replacements
  current,       \* does the clone hold its target's declaring class?
  moved          \* has a collection moved a class its hook has not seen?

maps == <<methods, replacements>>
vars == <<stage, target, saved, memory, image, maps, current, moved>>

Stages == {"absent", "prepared", "active", "restored", "reverted", "gone"}
Images == {"original"} \cup Replacements

-----------------------------------------------------------------------------
Init ==
  /\ stage = [r \in Replacements |-> "absent"]
  /\ target = [r \in Replacements |-> "none"]
  /\ saved = [r \in Replacements |-> "original"]
  /\ memory = [r \in Replacements |-> "absent"]
  /\ image = [m \in Methods |-> "original"]
  /\ methods = [m \in Methods |-> "none"]
  /\ replacements = [r \in Replacements |-> "none"]
  /\ current = [r \in Replacements |-> FALSE]
  /\ moved = FALSE

(* SuspendAll returns to the thread of r once no other thread runs: those  *)
(* that prepare a replacement are in the runnable state.                   *)
SuspendAllFor(r) ==
  OvertakesPrepared \/ \A q \in Replacements \ {r} : stage[q] # "prepared"

\* snapshot_art_method, clone_replacement_art_method and the thunk
Prepare(r, m) ==
  /\ stage[r] = "absent"
  /\ stage' = [stage EXCEPT ![r] = "prepared"]
  /\ target' = [target EXCEPT ![r] = m]
  /\ saved' = [saved EXCEPT ![r] = image[m]]
  /\ memory' = [memory EXCEPT ![r] = "live"]
  /\ current' = [current EXCEPT ![r] = TRUE]
  /\ UNCHANGED <<image, maps, moved>>

-----------------------------------------------------------------------------
(* The controller's maps.                                                  *)
\* mutant: only the replacement's own entry is looked for
CanRegisterTwice(r, m) == replacements[r] = "none"

CanRegister(r, m) == methods[m] = "none" /\ replacements[r] = "none"
Register(r, m) ==
  /\ methods' = [methods EXCEPT ![m] = r]
  /\ replacements' = [replacements EXCEPT ![r] = m]
\* mutant: the second map keeps its entry
UnregisterHalf(m) ==
  /\ methods' = [methods EXCEPT ![m] = "none"]
  /\ UNCHANGED replacements

Unregister(m) ==
  /\ methods' = [methods EXCEPT ![m] = "none"]
  /\ replacements' = [r \in Replacements |->
                        IF r = methods[m] THEN "none" ELSE replacements[r]]

\* synchronize_replacement_methods: every registered clone gets the class
Synchronized(records) ==
  [r \in Replacements |->
     current[r] \/ \E m \in Methods : records[m] = r /\ target[r] = m]

\* an error inside the suspended section drops the clone and the thunk
Discard(r) ==
  /\ stage' = [stage EXCEPT ![r] = "gone"]
  /\ memory' = [memory EXCEPT ![r] = "freed"]

-----------------------------------------------------------------------------
\* mutant: the error path unregisters the method although it registered nothing
RejectedUnregisters(r) ==
  /\ stage[r] = "prepared" /\ SuspendAllFor(r)
  /\ ~CanRegister(r, target[r])
  /\ Unregister(target[r])
  /\ Discard(r)
  /\ UNCHANGED <<target, saved, image, current, moved>>

\* register refuses a target that has an active replacement
Rejected(r) ==
  /\ stage[r] = "prepared" /\ SuspendAllFor(r)
  /\ ~CanRegister(r, target[r])
  /\ Discard(r)
  /\ UNCHANGED <<target, saved, image, maps, current, moved>>

\* mutant: the class is not copied again once the pair is registered
PatchUnsynchronized(r) ==
  /\ stage[r] = "prepared" /\ SuspendAllFor(r)
  /\ CanRegister(r, target[r])
  /\ Register(r, target[r])
  /\ image' = [image EXCEPT ![target[r]] = r]
  /\ stage' = [stage EXCEPT ![r] = "active"]
  /\ UNCHANGED <<target, saved, memory, current, moved>>

\* register, patch_art_method_verified, synchronize, under one suspension
Patch(r) ==
  /\ stage[r] = "prepared" /\ SuspendAllFor(r)
  /\ CanRegister(r, target[r])
  /\ Register(r, target[r])
  /\ image' = [image EXCEPT ![target[r]] = r]
  /\ current' = Synchronized(methods')
  /\ stage' = [stage EXCEPT ![r] = "active"]
  /\ UNCHANGED <<target, saved, memory, moved>>

\* mutant: the snapshot is not written back
PatchFailsUndone(r) ==
  /\ stage[r] = "prepared" /\ SuspendAllFor(r)
  /\ CanRegister(r, target[r])
  /\ image' = [image EXCEPT ![target[r]] = r]
  /\ Discard(r)
  /\ UNCHANGED <<target, saved, maps, current, moved>>

\* the patch does not verify: the snapshot is written back, the pair that was
\* just registered is removed
PatchFails(r) ==
  /\ stage[r] = "prepared" /\ SuspendAllFor(r)
  /\ CanRegister(r, target[r])
  /\ image' = [image EXCEPT ![target[r]] = saved[r]]
  /\ Discard(r)
  /\ UNCHANGED <<target, saved, maps, current, moved>>

\* the first half of revert: restore_method, verified
Restore(r) ==
  /\ stage[r] = "active" /\ SuspendAllFor(r)
  /\ image' = [image EXCEPT ![target[r]] = saved[r]]
  /\ stage' = [stage EXCEPT ![r] = "restored"]
  /\ UNCHANGED <<target, saved, memory, maps, current, moved>>

\* restore_method fails: before it wrote the snapshot, or verifying it.  The
\* guard stays as it was when revert was called, and leaks when drop was.
RestoreFails(r) ==
  /\ stage[r] = "active" /\ SuspendAllFor(r)
  /\ image' \in {image, [image EXCEPT ![target[r]] = saved[r]]}
  /\ \/ UNCHANGED <<stage, memory>>
     \/ /\ stage' = [stage EXCEPT ![r] = "gone"]
        /\ memory' = [memory EXCEPT ![r] = "leaked"]
  /\ UNCHANGED <<target, saved, maps, current, moved>>

\* the second half of revert, with all threads running
UnregisterRestored(r) ==
  /\ stage[r] = "restored"
  /\ Unregister(target[r])
  /\ stage' = [stage EXCEPT ![r] = "reverted"]
  /\ UNCHANGED <<target, saved, memory, image, current, moved>>

\* the guard is dropped after its revert: clone and thunk are unmapped
Release(r) ==
  /\ stage[r] = "reverted"
  /\ Discard(r)
  /\ UNCHANGED <<target, saved, image, maps, current, moved>>

-----------------------------------------------------------------------------
(* A moving collection is external.  The declaring class of m moves while  *)
(* threads run, and before the collection ends a hook on its entry or      *)
(* leave calls synchronize_replacement_methods.                            *)
Move(m) ==
  /\ moved' = TRUE
  /\ current' = [r \in Replacements |-> current[r] /\ target[r] # m]
  /\ UNCHANGED <<stage, target, saved, memory, image, maps>>

SynchronizeHook ==
  /\ moved
  /\ moved' = FALSE
  /\ current' = Synchronized(methods)
  /\ UNCHANGED <<stage, target, saved, memory, image, maps>>

-----------------------------------------------------------------------------
Replace(r) == \/ \E m \in Methods : Prepare(r, m)
              \/ Rejected(r) \/ Patch(r) \/ PatchFails(r)
Revert(r) == Restore(r) \/ RestoreFails(r) \/ UnregisterRestored(r) \/ Release(r)
Next == \/ \E r \in Replacements : Replace(r) \/ Revert(r)
        \/ \E m \in Methods : Move(m)
        \/ SynchronizeHook

Spec == Init /\ [][Next]_vars

-----------------------------------------------------------------------------
TypeOK ==
  /\ stage \in [Replacements -> Stages]
  /\ target \in [Replacements -> Methods \cup {"none"}]
  /\ saved \in [Replacements -> Images]
  /\ memory \in [Replacements -> {"absent", "live", "freed", "leaked"}]
  /\ image \in [Methods -> Images]
  /\ methods \in [Methods -> Replacements \cup {"none"}]
  /\ replacements \in [Replacements -> Methods \cup {"none"}]
  /\ current \in [Replacements -> BOOLEAN]
  /\ moved \in BOOLEAN

(* The controller's two maps are inverse to each other, and what they name *)
(* is mapped memory: translation and GetOatQuickMethodHeader look clones   *)
(* and thunks up there from any thread.                                    *)
RegisteredIsMapped ==
  /\ \A m \in Methods, r \in Replacements : methods[m] = r <=> replacements[r] = m
  /\ \A r \in Replacements : replacements[r] # "none" => memory[r] \in {"live", "leaked"}

(* Outside a moving collection every clone ART can be sent to holds the    *)
(* declaring class of its target, also one whose replacement was being     *)
(* built while the class moved.                                            *)
ClonesAreCurrent ==
  ~moved => \A r \in Replacements : replacements[r] # "none" => current[r]

(* A method's pair leaves the maps only for the revert of its own guard,   *)
(* after a restore that verified; nothing replaces it before: a second     *)
(* replacement of the method is rejected.                                  *)
OnlyItsRevertUnregisters ==
  [][\A m \in Methods :
       methods[m] # "none" /\ methods'[m] # methods[m]
         => methods'[m] = "none" /\ stage[methods[m]] = "restored"]_vars

(* The entrypoint of a method never points into an unmapped thunk: clone   *)
(* and thunk memory that ART may still reference is not freed.             *)
ImageIsMapped ==
  \A m \in Methods : image[m] \in Replacements => memory[image[m]] # "freed"

(* A method no guard replaces has its own flags and entrypoints back, and  *)
(* a patched one is known to the controller: a revert restores the method  *)
(* itself, never an earlier replacement of it.                             *)
UnregisteredIsOriginal ==
  \A m \in Methods : image[m] \in {"original", methods[m]}

=============================================================================
