------------------------ MODULE Deoptimization_proofs ------------------------
(***************************************************************************)
(* Proofs about ArtReplacement for every set of methods and replacements,  *)
(* whether or not a suspension may overtake a prepared replacement: what   *)
(* the controller's maps hold does not depend on the snapshots; and about  *)
(* Deoptimization, which extends it, for every set of requests: the        *)
(* runnable state in which a request stays from its look into the          *)
(* controller's map to its demand of ART keeps replacements out, although  *)
(* the two share no lock.                                                  *)
(***************************************************************************)
EXTENDS Deoptimization, TLAPS

(* The two maps mirror each other and the targets of the replacements.     *)
MapsAgree ==
  /\ \A m \in Methods, r \in Replacements : methods[m] = r <=> replacements[r] = m
  /\ \A r \in Replacements : replacements[r] # "none" => target[r] = replacements[r]

(* A guard that has not unregistered owns its method's record, with mapped *)
(* memory; a record without such a guard belongs to one that leaked.       *)
GuardsOwnRecords ==
  /\ \A r \in Replacements : stage[r] # "absent" => target[r] \in Methods
  /\ \A r \in Replacements : stage[r] = "prepared" => memory[r] = "live"
  /\ \A r \in Replacements : stage[r] \in {"active", "restored"}
       => methods[target[r]] = r /\ memory[r] = "live"
  /\ \A r \in Replacements : replacements[r] # "none"
       => \/ stage[r] \in {"active", "restored"}
          \/ stage[r] = "gone" /\ memory[r] = "leaked"

MapsInv == TypeOK /\ MapsAgree /\ GuardsOwnRecords /\ ClonesAreCurrent

-----------------------------------------------------------------------------
LEMMA InitMaps == Init => MapsInv
<1> SUFFICES ASSUME Init PROVE MapsInv
  OBVIOUS
<1> USE DEF Init
<1>1. TypeOK
  BY DEF TypeOK, Stages, Images
<1>2. MapsAgree /\ ClonesAreCurrent
  BY NoneIsNoName DEF MapsAgree, ClonesAreCurrent
<1>3. GuardsOwnRecords
  BY DEF GuardsOwnRecords
<1> QED
  BY <1>1, <1>2, <1>3 DEF MapsInv

LEMMA TypeStep == MapsInv /\ [Next]_vars => TypeOK'
<1> SUFFICES ASSUME MapsInv, [Next]_vars PROVE TypeOK'
  OBVIOUS
<1> USE DEF MapsInv, TypeOK, Stages, Images
<1>1. ASSUME NEW r \in Replacements, NEW m \in Methods, Prepare(r, m) PROVE TypeOK'
  BY <1>1 DEF Prepare, maps
<1>2. ASSUME NEW r \in Replacements, Rejected(r) PROVE TypeOK'
  BY <1>2 DEF Rejected, Discard, maps
<1>3. ASSUME NEW r \in Replacements, Patch(r) PROVE TypeOK'
  <2>1. target[r] \in Methods
    BY <1>3 DEF Patch, GuardsOwnRecords
  <2>2. methods' \in [Methods -> Replacements \cup {"none"}]
    BY <1>3, <2>1 DEF Patch, Register
  <2>3. replacements' \in [Replacements -> Methods \cup {"none"}]
    BY <1>3, <2>1 DEF Patch, Register
  <2> QED
    BY <1>3, <2>1, <2>2, <2>3 DEF Patch, Synchronized
<1>4. ASSUME NEW r \in Replacements, PatchFails(r) PROVE TypeOK'
  BY <1>4 DEF PatchFails, Discard, maps
<1>5. ASSUME NEW r \in Replacements, Restore(r) PROVE TypeOK'
  BY <1>5 DEF Restore, maps
<1>6. ASSUME NEW r \in Replacements, RestoreFails(r) PROVE TypeOK'
  <2>1. image' \in [Methods -> Images]
    BY <1>6 DEF RestoreFails
  <2> QED
    BY <1>6, <2>1 DEF RestoreFails, maps
<1>7. ASSUME NEW r \in Replacements, UnregisterRestored(r) PROVE TypeOK'
  BY <1>7 DEF UnregisterRestored, Unregister
<1>8. ASSUME NEW r \in Replacements, Release(r) PROVE TypeOK'
  BY <1>8 DEF Release, Discard, maps
<1>9. ASSUME NEW m \in Methods, Move(m) PROVE TypeOK'
  BY <1>9 DEF Move, maps
<1>10. CASE SynchronizeHook
  BY <1>10 DEF SynchronizeHook, Synchronized, maps
<1>11. CASE UNCHANGED vars
  BY <1>11 DEF vars, maps
<1> QED
  BY <1>1, <1>2, <1>3, <1>4, <1>5, <1>6, <1>7, <1>8, <1>9, <1>10, <1>11
  DEF Next, Replace, Revert

LEMMA MapsStep == MapsInv /\ [Next]_vars => MapsAgree' /\ GuardsOwnRecords'
<1> SUFFICES ASSUME MapsInv, [Next]_vars PROVE MapsAgree' /\ GuardsOwnRecords'
  OBVIOUS
<1> DEFINE Goal == MapsAgree /\ GuardsOwnRecords
<1> USE NoneIsNoName DEF MapsInv, TypeOK, MapsAgree, GuardsOwnRecords, Stages
<1>1. ASSUME NEW r \in Replacements, NEW m \in Methods, Prepare(r, m) PROVE Goal'
  BY <1>1 DEF Prepare, maps
<1>2. ASSUME NEW r \in Replacements, Rejected(r) PROVE Goal'
  BY <1>2 DEF Rejected, Discard, maps
<1>3. ASSUME NEW r \in Replacements, Patch(r) PROVE Goal'
  <2>1. /\ target[r] \in Methods /\ methods[target[r]] = "none" /\ replacements[r] = "none"
        /\ stage[r] = "prepared"
    BY <1>3 DEF Patch, CanRegister
  <2>2. /\ \A m \in Methods : methods'[m] = IF m = target[r] THEN r ELSE methods[m]
        /\ \A q \in Replacements :
             replacements'[q] = IF q = r THEN target[r] ELSE replacements[q]
        /\ \A q \in Replacements : stage'[q] = IF q = r THEN "active" ELSE stage[q]
        /\ target' = target /\ memory' = memory
    BY <1>3 DEF Patch, Register
  <2>3. memory[r] = "live"
    BY <2>1
  <2>4. MapsAgree'
    BY <2>1, <2>2
  <2>5. GuardsOwnRecords'
    BY <2>1, <2>2, <2>3
  <2> QED
    BY <2>4, <2>5
<1>4. ASSUME NEW r \in Replacements, PatchFails(r) PROVE Goal'
  BY <1>4 DEF PatchFails, Discard, maps
<1>5. ASSUME NEW r \in Replacements, Restore(r) PROVE Goal'
  BY <1>5 DEF Restore, maps
<1>6. ASSUME NEW r \in Replacements, RestoreFails(r) PROVE Goal'
  BY <1>6 DEF RestoreFails, maps
<1>7. ASSUME NEW r \in Replacements, UnregisterRestored(r) PROVE Goal'
  BY <1>7 DEF UnregisterRestored, Unregister
<1>8. ASSUME NEW r \in Replacements, Release(r) PROVE Goal'
  BY <1>8 DEF Release, Discard, maps
<1>9. ASSUME NEW m \in Methods, Move(m) PROVE Goal'
  BY <1>9 DEF Move, maps
<1>10. CASE SynchronizeHook
  BY <1>10 DEF SynchronizeHook, maps
<1>11. CASE UNCHANGED vars
  BY <1>11 DEF vars, maps
<1> QED
  BY <1>1, <1>2, <1>3, <1>4, <1>5, <1>6, <1>7, <1>8, <1>9, <1>10, <1>11
  DEF Next, Replace, Revert

LEMMA CurrentStep == MapsInv /\ [Next]_vars => ClonesAreCurrent'
<1> SUFFICES ASSUME MapsInv, [Next]_vars PROVE ClonesAreCurrent'
  OBVIOUS
<1> USE NoneIsNoName DEF MapsInv, TypeOK, MapsAgree, ClonesAreCurrent
<1>1. ASSUME NEW r \in Replacements, NEW m \in Methods, Prepare(r, m) PROVE ClonesAreCurrent'
  BY <1>1 DEF Prepare, maps
<1>2. ASSUME NEW r \in Replacements, Patch(r) PROVE ClonesAreCurrent'
  <2>1. \A q \in Replacements : replacements'[q] # "none" => q = r \/ replacements[q] # "none"
    BY <1>2 DEF Patch, Register
  <2>2. target[r] \in Methods /\ methods'[target[r]] = r
    BY <1>2 DEF Patch, Register, GuardsOwnRecords, Stages
  <2> QED
    BY <1>2, <2>1, <2>2 DEF Patch, Synchronized
<1>3. ASSUME NEW r \in Replacements, UnregisterRestored(r) PROVE ClonesAreCurrent'
  BY <1>3 DEF UnregisterRestored, Unregister
<1>4. CASE SynchronizeHook
  <2>1. \A q \in Replacements : replacements[q] # "none"
          => \E m \in Methods : methods[m] = q /\ target[q] = m
    OBVIOUS
  <2> QED
    BY <1>4, <2>1 DEF SynchronizeHook, Synchronized, maps
<1>5. ASSUME NEW m \in Methods, Move(m) PROVE ClonesAreCurrent'
  BY <1>5 DEF Move
<1>6. ASSUME UNCHANGED <<replacements, current, moved>> PROVE ClonesAreCurrent'
  BY <1>6
<1> QED
  BY <1>1, <1>2, <1>3, <1>4, <1>5, <1>6
  DEF Next, Replace, Revert, Rejected, PatchFails, Restore, RestoreFails, Release, vars, maps

LEMMA MapsInvStep == MapsInv /\ [Next]_vars => MapsInv'
  BY TypeStep, MapsStep, CurrentStep DEF MapsInv

LEMMA MapsInvariant == Spec => []MapsInv
  BY InitMaps, MapsInvStep, PTL DEF Spec

-----------------------------------------------------------------------------
(* The controller's maps are inverse to each other and name only mapped    *)
(* clones and thunks, in every state: what a translation from any thread   *)
(* finds there can be executed.                                            *)
THEOREM RegisteredStaysMapped == Spec => []RegisteredIsMapped
<1>1. MapsInv => RegisteredIsMapped
  BY DEF MapsInv, MapsAgree, GuardsOwnRecords, RegisteredIsMapped
<1> QED
  BY <1>1, MapsInvariant, PTL

(* Between collections every registered clone holds the declaring class of *)
(* its target, whenever its class moved while it was being built.          *)
THEOREM ClonesStayCurrent == Spec => []ClonesAreCurrent
<1>1. MapsInv => ClonesAreCurrent
  BY DEF MapsInv
<1> QED
  BY <1>1, MapsInvariant, PTL

(* A record is removed only by the revert of its own guard, after the      *)
(* restore, and never overwritten.                                         *)
THEOREM OnlyRevertUnregisters == Spec => OnlyItsRevertUnregisters
<1> DEFINE A == \A m \in Methods :
                  methods[m] # "none" /\ methods'[m] # methods[m]
                    => methods'[m] = "none" /\ stage[methods[m]] = "restored"
<1>1. MapsInv /\ [Next]_vars => [A]_vars
  <2> SUFFICES ASSUME MapsInv, [Next]_vars PROVE A \/ UNCHANGED methods
    BY DEF A
  <2>1. ASSUME NEW r \in Replacements, Patch(r) PROVE A
    BY <2>1 DEF Patch, CanRegister, Register, MapsInv, TypeOK
  <2>2. ASSUME NEW r \in Replacements, UnregisterRestored(r) PROVE A
    BY <2>2 DEF UnregisterRestored, Unregister, MapsInv, TypeOK, GuardsOwnRecords
  <2> QED
    BY <2>1, <2>2
    DEF Next, Replace, Revert, Prepare, Rejected, PatchFails, Restore, RestoreFails, Release,
        Move, SynchronizeHook, vars, maps
<1> QED
  BY <1>1, MapsInvariant, PTL DEF Spec, OnlyItsRevertUnregisters

-----------------------------------------------------------------------------
(* What a suspension that waits for prepared replacements adds: a snapshot *)
(* is still what the method holds when it is used, so that only originals  *)
(* are ever saved by a replacement that gets installed.                    *)
SnapshotsAreOriginal ==
  /\ UnregisteredIsOriginal
  /\ \A r \in Replacements :
       /\ stage[r] = "prepared" => saved[r] = image[target[r]]
       /\ stage[r] = "active" => saved[r] = "original"
       /\ stage[r] = "restored" => image[target[r]] = "original"

LEMMA InitSnapshots == Init => SnapshotsAreOriginal
  BY DEF Init, SnapshotsAreOriginal, UnregisteredIsOriginal

LEMMA SnapshotsStep ==
  ASSUME ~OvertakesPrepared, MapsInv, SnapshotsAreOriginal, [Next]_vars
  PROVE  SnapshotsAreOriginal'
<1> USE NoneIsNoName, OriginalIsNoReplacement
    DEF MapsInv, TypeOK, MapsAgree, GuardsOwnRecords, SnapshotsAreOriginal,
        UnregisteredIsOriginal, Stages, Images
<1>1. ASSUME NEW r \in Replacements, NEW m \in Methods, Prepare(r, m)
      PROVE SnapshotsAreOriginal'
  BY <1>1 DEF Prepare, maps
<1>2. ASSUME NEW r \in Replacements, Rejected(r) PROVE SnapshotsAreOriginal'
  BY <1>2 DEF Rejected, Discard, maps
<1>3. ASSUME NEW r \in Replacements, Patch(r) PROVE SnapshotsAreOriginal'
  <2>1. /\ target[r] \in Methods /\ stage[r] = "prepared" /\ methods[target[r]] = "none"
        /\ \A q \in Replacements \ {r} : stage[q] # "prepared"
    BY <1>3 DEF Patch, CanRegister, SuspendAllFor
  <2>2. image[target[r]] = "original" /\ saved[r] = "original"
    BY <2>1
  <2>3. /\ \A m \in Methods : methods'[m] = IF m = target[r] THEN r ELSE methods[m]
        /\ \A m \in Methods : image'[m] = IF m = target[r] THEN r ELSE image[m]
        /\ \A q \in Replacements : stage'[q] = IF q = r THEN "active" ELSE stage[q]
        /\ target' = target /\ saved' = saved
    BY <1>3 DEF Patch, Register
  <2>4. \A q \in Replacements : stage[q] = "restored" => target[q] # target[r]
    BY <2>1
  <2> QED
    BY <2>1, <2>2, <2>3, <2>4
<1>4. ASSUME NEW r \in Replacements, PatchFails(r) PROVE SnapshotsAreOriginal'
  <2>1. /\ stage[r] = "prepared" /\ saved[r] = image[target[r]] /\ target[r] \in Methods
    BY <1>4 DEF PatchFails
  <2>2. image' = image
    BY <1>4, <2>1 DEF PatchFails
  <2> QED
    BY <1>4, <2>2 DEF PatchFails, Discard, maps
<1>5. ASSUME NEW r \in Replacements, Restore(r) \/ RestoreFails(r)
      PROVE SnapshotsAreOriginal'
  <2>1. /\ stage[r] = "active" /\ target[r] \in Methods /\ methods[target[r]] = r
        /\ saved[r] = "original"
        /\ \A q \in Replacements \ {r} : stage[q] # "prepared"
        /\ methods' = methods /\ target' = target /\ saved' = saved
    BY <1>5 DEF Restore, RestoreFails, SuspendAllFor, maps
  <2>2. /\ \A m \in Methods : image'[m] = image[m] \/ image'[m] = "original"
        /\ stage'[r] = "restored" => image'[target[r]] = "original"
        /\ \A q \in Replacements \ {r} : stage'[q] = stage[q]
        /\ stage'[r] \in {"active", "restored", "gone"}
    BY <1>5, <2>1 DEF Restore, RestoreFails
  <2> QED
    BY <2>1, <2>2
<1>6. ASSUME NEW r \in Replacements, UnregisterRestored(r) PROVE SnapshotsAreOriginal'
  BY <1>6 DEF UnregisterRestored, Unregister
<1>7. ASSUME NEW r \in Replacements, Release(r) PROVE SnapshotsAreOriginal'
  BY <1>7 DEF Release, Discard, maps
<1>8. ASSUME UNCHANGED <<stage, target, saved, image, methods>> PROVE SnapshotsAreOriginal'
  BY <1>8
<1> QED
  BY <1>1, <1>2, <1>3, <1>4, <1>5, <1>6, <1>7, <1>8
  DEF Next, Replace, Revert, Move, SynchronizeHook, vars, maps

LEMMA SnapshotsInvariant ==
  ASSUME ~OvertakesPrepared PROVE Spec => []SnapshotsAreOriginal
<1>1. MapsInv /\ SnapshotsAreOriginal /\ [Next]_vars => SnapshotsAreOriginal'
  BY SnapshotsStep
<1> QED
  BY InitSnapshots, <1>1, MapsInvariant, PTL DEF Spec

(* A method that no guard replaces has its own flags and entrypoints, as   *)
(* long as SuspendAll waits for the threads that prepare replacements.     *)
THEOREM UnregisteredStaysOriginal ==
  ASSUME ~OvertakesPrepared PROVE Spec => []UnregisteredIsOriginal
<1>1. SnapshotsAreOriginal => UnregisteredIsOriginal
  BY DEF SnapshotsAreOriginal
<1> QED
  BY <1>1, SnapshotsInvariant, PTL

(* Under the same condition no entrypoint leads into unmapped memory: the  *)
(* image of a method is its own or that of a registered replacement, whose *)
(* clone and thunk are mapped.                                             *)
THEOREM ImageStaysMapped ==
  ASSUME ~OvertakesPrepared PROVE Spec => []ImageIsMapped
<1>1. MapsInv /\ SnapshotsAreOriginal => ImageIsMapped
  BY NoneIsNoName, OriginalIsNoReplacement
  DEF MapsInv, MapsAgree, GuardsOwnRecords, TypeOK, Stages, SnapshotsAreOriginal,
      UnregisteredIsOriginal, ImageIsMapped
<1> QED
  BY <1>1, MapsInvariant, SnapshotsInvariant, PTL

-----------------------------------------------------------------------------
(* Deoptimization leaves what the replacements do as it is, and only takes *)
(* suspensions away from them: whatever holds of ArtReplacement holds.     *)
LEMMA ReplacementsUndisturbed == DeoptSpec => Spec
<1>1. DeoptInit => Init
  BY DEF DeoptInit
<1>2. [DeoptNext]_allVars => [Next]_vars
  BY DEF DeoptNext, allVars
<1> QED
  BY <1>1, <1>2, PTL DEF DeoptSpec, Spec

-----------------------------------------------------------------------------
Places == {"idle", "probed", "refused", "ready", "waiting", "locked", "started", "active",
           "done"}
Selected == {"ready", "waiting", "locked", "started", "active"}

(* A method that was selected stays without a replacement until the        *)
(* request has ended.                                                      *)
SelectedAreOriginal ==
  /\ at \in [Requests -> Places]
  /\ subject \in [Requests -> Subjects \cup {"none"}]
  /\ \A d \in Requests :
       /\ at[d] # "idle" => subject[d] \in Subjects
       /\ at[d] \in Selected =>
            subject[d] # "boot image" /\ (subject[d] \in Methods => methods[subject[d]] = "none")

LEMMA InitSelected == DeoptInit => SelectedAreOriginal
  BY DEF DeoptInit, SelectedAreOriginal, Places, Selected

(* A step of the replacements.                                             *)
LEMMA ReplacementKeepsSelected ==
  ASSUME MapsInv, SelectedAreOriginal, Next, UNCHANGED deoptVars,
         NeedsSuspension => \A d \in Requests : ~Runnable(d)
  PROVE  SelectedAreOriginal'
<1>1. at' = at /\ subject' = subject
  BY DEF deoptVars
<1>2. ASSUME NEW d \in Requests, at[d] \in Selected, subject[d] \in Methods
      PROVE  methods'[subject[d]] = "none"
  <2>1. methods[subject[d]] = "none" /\ ~NeedsSuspension
    BY <1>2 DEF SelectedAreOriginal, Selected, Runnable
  <2>2. ASSUME NEW r \in Replacements PROVE ~Patch(r)
    BY <2>1, <2>2 DEF Patch, NeedsSuspension, MapsInv, TypeOK
  <2>3. ASSUME NEW r \in Replacements, UnregisterRestored(r)
        PROVE  methods'[subject[d]] = "none"
    BY <1>2, <2>1, <2>3 DEF UnregisterRestored, Unregister, MapsInv, TypeOK
  <2>4. CASE UNCHANGED methods
    BY <2>1, <2>4
  <2> QED
    BY <2>2, <2>3, <2>4
    DEF Next, Replace, Revert, Prepare, Rejected, PatchFails, Restore, RestoreFails, Release,
        Move, SynchronizeHook, maps
<1> QED
  BY <1>1, <1>2 DEF SelectedAreOriginal

(* A step of a request.                                                    *)
LEMMA RequestKeepsSelected ==
  ASSUME SelectedAreOriginal, UNCHANGED vars, NEW d \in Requests, Deoptimize(d)
  PROVE  SelectedAreOriginal'
<1>1. methods' = methods
  BY DEF vars, maps
<1> USE SubjectsAreNoMethods DEF SelectedAreOriginal, Places, Selected, Subjects, Go
<1>2. ASSUME NEW s \in Subjects, Probe(d, s) PROVE SelectedAreOriginal'
  BY <1>1, <1>2 DEF Probe
<1>3. CASE Select(d)
  BY <1>1, <1>3 DEF Select
<1>4. CASE BootImage(d) \/ Instrument(d) \/ FindStarted(d) \/ Lock(d) \/ FindStartedLocked(d)
  BY <1>1, <1>4 DEF BootImage, Instrument, FindStarted, Lock, FindStartedLocked
<1>5. CASE StartSession(d) \/ SessionFails(d) \/ StartDebugger(d) \/ GoActive(d) \/ Request(d)
  BY <1>1, <1>5 DEF StartSession, SessionFails, StartDebugger, GoActive, Request
<1> QED
  BY <1>2, <1>3, <1>4, <1>5 DEF Deoptimize

LEMMA SelectedStep == MapsInv /\ SelectedAreOriginal /\ [DeoptNext]_allVars => SelectedAreOriginal'
<1> SUFFICES ASSUME MapsInv, SelectedAreOriginal, [DeoptNext]_allVars PROVE SelectedAreOriginal'
  OBVIOUS
<1>1. CASE /\ Next
           /\ NeedsSuspension => \A d \in Requests : ~Runnable(d)
           /\ UNCHANGED deoptVars
  BY <1>1, ReplacementKeepsSelected
<1>2. ASSUME NEW d \in Requests, Deoptimize(d), UNCHANGED vars PROVE SelectedAreOriginal'
  BY <1>2, RequestKeepsSelected
<1>3. CASE (Accept \/ TakeClientFd) /\ UNCHANGED vars
  BY <1>3 DEF Accept, TakeClientFd, vars, maps, SelectedAreOriginal
<1>4. CASE UNCHANGED allVars
  BY <1>4 DEF allVars, deoptVars, vars, maps, SelectedAreOriginal
<1> QED
  BY <1>1, <1>2, <1>3, <1>4 DEF DeoptNext

(* ART is never asked to deoptimize a method whose entrypoint belongs to a *)
(* replacement, as long as SuspendAll waits for runnable threads.          *)
THEOREM ReplacedStaysCompiled ==
  ASSUME ~OvertakesPrepared PROVE DeoptSpec => ReplacedIsNotDeoptimized
<1> DEFINE A == \A m \in Methods : m \in deoptimized' \ deoptimized => image[m] = "original"
<1>1. MapsInv /\ UnregisteredIsOriginal /\ SelectedAreOriginal /\ [DeoptNext]_allVars => [A]_allVars
  <2> SUFFICES ASSUME MapsInv, UnregisteredIsOriginal, SelectedAreOriginal, DeoptNext,
                      NEW m \in Methods, m \in deoptimized' \ deoptimized
               PROVE  image[m] = "original"
    OBVIOUS
  <2>1. deoptimized' # deoptimized
    OBVIOUS
  <2>2. PICK d \in Requests : BootImage(d) \/ Instrument(d) \/ Request(d)
    BY <2>1
    DEF DeoptNext, deoptVars, Deoptimize, Probe, Select, FindStarted, Lock, FindStartedLocked,
        StartSession, SessionFails, StartDebugger, GoActive, Accept, TakeClientFd
  <2>3. m # "boot image"
    BY SubjectsAreNoMethods
  <2>4. at[d] \in Selected /\ subject[d] = m
    <3>1. BootImage(d) => deoptimized' = deoptimized \cup {"boot image"}
      BY DEF BootImage
    <3>2. ~BootImage(d)
      BY <2>3, <3>1
    <3>3. CASE Instrument(d)
      BY <3>3 DEF Instrument, Selected
    <3>4. CASE Request(d)
      BY <3>4 DEF Request, Selected
    <3> QED
      BY <2>2, <3>2, <3>3, <3>4
  <2>5. methods[m] = "none"
    BY <2>4 DEF SelectedAreOriginal
  <2> QED
    BY <2>5, NoneIsNoName DEF UnregisteredIsOriginal, MapsInv, TypeOK, Images
<1>2. DeoptSpec => []SelectedAreOriginal
  BY InitSelected, SelectedStep, ReplacementsUndisturbed, MapsInvariant, PTL DEF DeoptSpec
<1> QED
  BY <1>1, <1>2, ReplacementsUndisturbed, MapsInvariant, UnregisteredStaysOriginal, PTL
  DEF DeoptSpec, ReplacedIsNotDeoptimized

-----------------------------------------------------------------------------
(* Until the JDWP thread takes the descriptor, the slot is that of the     *)
(* published session; the thread exists only once the debugger is started. *)
DebuggerInv ==
  /\ session \in Requests \cup {"none"}
  /\ ~started => jdwp = "absent"
  /\ session # "none" /\ (~started \/ jdwp \in {"accepting", "receiving"}) => slot = session
  /\ jdwp \in {"accepting", "receiving"} => session # "none"
  /\ jdwp \in Requests \cup {"failed"} => jdwp = session

LEMMA InitDebugger == DeoptInit => DebuggerInv
  BY RequestsAreNoNames DEF DeoptInit, DebuggerInv

LEMMA DebuggerStep == DebuggerInv /\ [DeoptNext]_allVars => DebuggerInv'
<1> SUFFICES ASSUME DebuggerInv, [DeoptNext]_allVars PROVE DebuggerInv'
  OBVIOUS
<1> USE RequestsAreNoNames DEF DebuggerInv
<1>1. ASSUME UNCHANGED <<started, session, slot, jdwp>> PROVE DebuggerInv'
  BY <1>1
<1>2. ASSUME NEW d \in Requests, StartSession(d) \/ SessionFails(d) PROVE DebuggerInv'
  BY <1>2 DEF StartSession, SessionFails
<1>3. ASSUME NEW d \in Requests, StartDebugger(d) PROVE DebuggerInv'
  BY <1>3 DEF StartDebugger
<1>4. CASE Accept \/ TakeClientFd
  BY <1>4 DEF Accept, TakeClientFd
<1>5. ASSUME NEW d \in Requests, Deoptimize(d), ~StartSession(d), ~SessionFails(d), ~StartDebugger(d)
      PROVE  UNCHANGED <<started, session, slot, jdwp>>
  BY <1>5 DEF Deoptimize, Probe, BootImage, Select, Instrument, FindStarted, Lock,
              FindStartedLocked, GoActive, Request, debugger
<1> QED
  BY <1>1, <1>2, <1>3, <1>4, <1>5 DEF DeoptNext, allVars, deoptVars, debugger

(* The debugger is started once, although every request looks for it       *)
(* before it takes the session lock, and the JDWP thread gets the          *)
(* descriptor of the published session, although an attempt that failed    *)
(* leaves its own in the same slot.                                        *)
THEOREM DebuggerStartsOnce == DeoptSpec => OneDebugger
<1> DEFINE A == /\ jdwp # "accepting" /\ jdwp' = "accepting" => ~started
                /\ jdwp' \in Requests \cup {"failed"} => jdwp' = session'
<1>1. DebuggerInv /\ DebuggerInv' /\ [DeoptNext]_allVars => [A]_allVars
  <2> SUFFICES ASSUME DebuggerInv, DebuggerInv', DeoptNext PROVE A
    OBVIOUS
  <2>1. jdwp' \in Requests \cup {"failed"} => jdwp' = session'
    BY DEF DebuggerInv
  <2>2. ASSUME jdwp # "accepting", jdwp' = "accepting" PROVE ~started
    <3>1. ASSUME NEW d \in Requests, StartDebugger(d) PROVE ~started
      BY <3>1 DEF StartDebugger
    <3>2. ASSUME NEW d \in Requests, Deoptimize(d), ~StartDebugger(d) PROVE jdwp' = jdwp
      BY <3>2 DEF Deoptimize, Probe, BootImage, Select, Instrument, FindStarted, Lock,
                  FindStartedLocked, StartSession, SessionFails, GoActive, Request, debugger
    <3>3. ~TakeClientFd
      BY <2>2, RequestsAreNoNames DEF TakeClientFd, DebuggerInv
    <3> QED
      BY <2>2, <3>1, <3>2, <3>3 DEF DeoptNext, Accept, deoptVars, debugger
  <2> QED
    BY <2>1, <2>2
<1> QED
  BY InitDebugger, DebuggerStep, <1>1, PTL DEF DeoptSpec, OneDebugger

=============================================================================
