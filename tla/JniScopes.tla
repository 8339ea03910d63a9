------------------------------ MODULE JniScopes ------------------------------
(***************************************************************************)
(* Attachments and references: Vm of vm.rs, AttachedEnv of env/mod.rs, and *)
(* LocalRef and GlobalRef of refs.rs and env/references.rs.                *)
(*                                                                         *)
(* A native thread works with the VM under a guard.  The guard of a thread *)
(* that was attached before, by others or by a guard around it, borrows    *)
(* the attachment; the guard of a thread that was not attaches it and      *)
(* detaches it when dropped.  Guards of a thread are scopes of the code:   *)
(* the last one made is the first one dropped, its local references before *)
(* it.  A global reference is shared by its clones on any thread, and the  *)
(* drop of the last one deletes it under a guard of its own.               *)
(***************************************************************************)
EXTENDS Naturals, Sequences

CONSTANTS
  Natives,    \* native threads
  Globals,    \* the global references there may be
  MaxGuards,  \* bounds the guards of a thread
  MaxLocals,  \* bounds the local references of a guard
  MaxClones   \* bounds the clones of a global reference

ASSUME NoneIsNoGlobal == "none" \notin Globals
ASSUME BoundsAreNumbers == MaxGuards \in Nat /\ MaxLocals \in Nat /\ MaxClones \in Nat

VARIABLES
  inVm,      \* the thread is attached to the VM
  others,    \* somebody else attached it, and has not detached it
  guards,    \* the guards of each thread, the innermost first
  clones,    \* how many clones of each global reference there are
  global,    \* "free", "live", "deleted", or "leaked"
  dropping   \* the reference whose last clone the thread drops, or "none"

scopeVars == <<inVm, others, guards, clones, global, dropping>>

Guard(detach) == [detach |-> detach, locals |-> 0]
Innermost(t) == Head(guards[t])
CanGuard(t) == Len(guards[t]) < MaxGuards

ScopesInit ==
  /\ inVm = [t \in Natives |-> FALSE]
  /\ others = [t \in Natives |-> FALSE]
  /\ guards = [t \in Natives |-> <<>>]
  /\ clones = [g \in Globals |-> 0]
  /\ global = [g \in Globals |-> "free"]
  /\ dropping = [t \in Natives |-> "none"]

-----------------------------------------------------------------------------
\* the application, or another library, around the code of the bridge
OthersAttach(t) ==
  /\ ~inVm[t] /\ dropping[t] = "none"
  /\ inVm' = [inVm EXCEPT ![t] = TRUE]
  /\ others' = [others EXCEPT ![t] = TRUE]
  /\ UNCHANGED <<guards, clones, global, dropping>>

OthersDetach(t) ==
  /\ others[t] /\ guards[t] = <<>> /\ dropping[t] = "none"
  /\ inVm' = [inVm EXCEPT ![t] = FALSE]
  /\ others' = [others EXCEPT ![t] = FALSE]
  /\ UNCHANGED <<guards, clones, global, dropping>>

\* mutant: a guard detaches the thread whoever attached it
OwnGuard(t) == <<Guard(TRUE)>> \o guards[t]

\* attach_current_thread
NewGuards(t) == <<Guard(~inVm[t])>> \o guards[t]

AttachCurrentThread(t) ==
  /\ CanGuard(t) /\ dropping[t] = "none"
  /\ inVm' = [inVm EXCEPT ![t] = TRUE]
  /\ guards' = [guards EXCEPT ![t] = NewGuards(t)]
  /\ UNCHANGED <<others, clones, global, dropping>>

NewLocalRef(t) ==
  /\ guards[t] # <<>> /\ dropping[t] = "none"
  /\ Innermost(t).locals < MaxLocals
  /\ guards' = [guards EXCEPT ![t][1].locals = @ + 1]
  /\ UNCHANGED <<inVm, others, clones, global, dropping>>

DropLocalRef(t) ==
  /\ guards[t] # <<>> /\ dropping[t] = "none"
  /\ Innermost(t).locals > 0
  /\ guards' = [guards EXCEPT ![t][1].locals = @ - 1]
  /\ UNCHANGED <<inVm, others, clones, global, dropping>>

\* Drop for AttachedEnv
DropGuard(t) ==
  /\ guards[t] # <<>> /\ dropping[t] = "none"
  /\ Innermost(t).locals = 0
  /\ inVm' = [inVm EXCEPT ![t] = @ /\ ~Innermost(t).detach]
  /\ guards' = [guards EXCEPT ![t] = Tail(@)]
  /\ UNCHANGED <<others, clones, global, dropping>>

-----------------------------------------------------------------------------
\* new_global_ref, of a local reference
NewGlobalRef(t, g) ==
  /\ guards[t] # <<>> /\ dropping[t] = "none"
  /\ Innermost(t).locals > 0
  /\ global[g] = "free"
  /\ global' = [global EXCEPT ![g] = "live"]
  /\ clones' = [clones EXCEPT ![g] = 1]
  /\ UNCHANGED <<inVm, others, guards, dropping>>

CloneGlobal(g) ==
  /\ clones[g] \in 1..MaxClones - 1
  /\ clones' = [clones EXCEPT ![g] = @ + 1]
  /\ UNCHANGED <<inVm, others, guards, global, dropping>>

\* into_raw: the caller has the reference now
IntoRaw(g) ==
  /\ clones[g] = 1
  /\ clones' = [clones EXCEPT ![g] = 0]
  /\ global' = [global EXCEPT ![g] = "leaked"]
  /\ UNCHANGED <<inVm, others, guards, dropping>>

\* mutant: each clone deletes the reference
DropEachClone(t, g) ==
  /\ clones[g] > 0 /\ dropping[t] = "none" /\ CanGuard(t)
  /\ clones' = [clones EXCEPT ![g] = @ - 1]
  /\ dropping' = [dropping EXCEPT ![t] = g]
  /\ UNCHANGED <<inVm, others, guards, global>>

\* Drop for GlobalRef, in the last clone
DropClone(t, g) ==
  /\ clones[g] > 0 /\ dropping[t] = "none" /\ CanGuard(t)
  /\ clones' = [clones EXCEPT ![g] = @ - 1]
  /\ dropping' = IF clones[g] = 1 THEN [dropping EXCEPT ![t] = g] ELSE dropping
  /\ UNCHANGED <<inVm, others, guards, global>>

\* delete_global_ref_best_effort: deletes, then drops the guard it made
DeleteGlobal(t) ==
  /\ dropping[t] # "none"
  /\ global' = [global EXCEPT ![dropping[t]] = "deleted"]
  /\ guards' = [guards EXCEPT ![t] = NewGuards(t)]
  /\ inVm' = [inVm EXCEPT ![t] = TRUE]
  /\ dropping' = [dropping EXCEPT ![t] = "none"]
  /\ UNCHANGED <<others, clones>>

\* the thread cannot be attached: the error is dropped, and the reference stays
DeleteFails(t) ==
  /\ dropping[t] # "none" /\ ~inVm[t]
  /\ global' = [global EXCEPT ![dropping[t]] = "leaked"]
  /\ dropping' = [dropping EXCEPT ![t] = "none"]
  /\ UNCHANGED <<inVm, others, guards, clones>>

ScopesNext ==
  \/ \E t \in Natives :
       \/ OthersAttach(t) \/ OthersDetach(t)
       \/ AttachCurrentThread(t) \/ DropGuard(t)
       \/ NewLocalRef(t) \/ DropLocalRef(t)
       \/ DeleteGlobal(t) \/ DeleteFails(t)
       \/ \E g \in Globals : NewGlobalRef(t, g) \/ DropClone(t, g)
  \/ \E g \in Globals : CloneGlobal(g) \/ IntoRaw(g)

ScopesSpec == ScopesInit /\ [][ScopesNext]_scopeVars

-----------------------------------------------------------------------------
(* A thread is attached exactly while somebody needs it to be: whoever     *)
(* attached it outside the bridge, or a guard.  No drop, of a guard or of  *)
(* a reference anywhere, detaches a thread under the feet of the code      *)
(* around it, and none leaves it attached.                                 *)
AttachmentsAreReturned ==
  \A t \in Natives : inVm[t] <=> others[t] \/ guards[t] # <<>>

(* A global reference is live while a clone or its last drop holds it, and *)
(* deleted by one drop, once.                                              *)
GlobalsAreLive ==
  \A g \in Globals :
    LET drops == {t \in Natives : dropping[t] = g} IN
    /\ clones[g] > 0 \/ drops # {} => global[g] = "live"
    /\ global[g] = "live" => clones[g] > 0 \/ \E t \in drops : drops = {t}

=============================================================================
