---------------------- MODULE ClosureReplacement_proofs ----------------------
(***************************************************************************)
(* Proofs about ClosureReplacement for every set of hooks and threads,     *)
(* every nesting depth and every number of calls and failed restores.      *)
(***************************************************************************)
EXTENDS ClosureReplacement, FiniteSetTheorems, TLAPS

(* Slots above a thread's depth are empty; the others hold a call or a     *)
(* teardown of a hook, and only a callback has frames above it.            *)
StackShape ==
  \A t \in Threads : \A i \in Level :
    /\ i > depth[t] => frame[t][i] = NoFrame
    /\ i <= depth[t] =>
         /\ frame[t][i].hook \in Hooks
         /\ \/ frame[t][i].op = "call" /\ frame[t][i].pc \in CallPcs
            \/ frame[t][i].op \in {"revert", "drop"} /\ frame[t][i].pc \in TeardownPcs
    /\ i < depth[t] => frame[t][i].pc = "callback"

TypeInv == TypeOK /\ StackShape

-----------------------------------------------------------------------------
LEMMA FrameIsRecord ==
  ASSUME NEW f \in Frame, NEW pc \in CallPcs \cup TeardownPcs, NEW b \in BOOLEAN
  PROVE  /\ [f EXCEPT !.pc = pc] \in Frame
         /\ [f EXCEPT !.pc = pc, !.late = b] \in Frame
         /\ NoFrame \in Frame
  BY DEF Frame, NoFrame

(* Writing one slot of a well-typed stack leaves it well typed.            *)
LEMMA SlotWrite ==
  ASSUME frame \in [Threads -> [Level -> Frame]],
         NEW t \in Threads, NEW d \in Level, NEW f \in Frame,
         frame' = [frame EXCEPT ![t][d] = f]
  PROVE  /\ frame' \in [Threads -> [Level -> Frame]]
         /\ \A u \in Threads, i \in Level :
              frame'[u][i] = IF u = t /\ i = d THEN f ELSE frame[u][i]
  OBVIOUS

(* A frame that may stand at a used slot.                                  *)
GoodFrame(f) ==
  /\ f \in Frame
  /\ f.hook \in Hooks
  /\ \/ f.op = "call" /\ f.pc \in CallPcs
     \/ f.op \in {"revert", "drop"} /\ f.pc \in TeardownPcs

StackInv == /\ frame \in [Threads -> [Level -> Frame]]
            /\ depth \in [Threads -> 0..MaxDepth]
            /\ StackShape

(* The current frame of a running thread is a frame at a used slot.        *)
LEMMA TopIsGood ==
  ASSUME StackInv, NEW t \in Threads, Running(t)
  PROVE  depth[t] \in Level /\ GoodFrame(Top(t))
  BY BoundsAreNat DEF StackInv, StackShape, Running, Top, GoodFrame, Level

LEMMA PushKeepsStack ==
  ASSUME StackInv, NEW t \in Threads, CanCall(t),
         NEW f, GoodFrame(f), Push(t, f)
  PROVE  /\ StackInv'
         /\ depth[t] + 1 \in Level
         /\ frame[t][depth[t] + 1] = NoFrame
         /\ frame' = [frame EXCEPT ![t][depth[t] + 1] = f]
<1> DEFINE d == depth[t] + 1
<1>1. d \in Level /\ depth[t] \in Nat /\ d \in Nat
  BY BoundsAreNat DEF StackInv, CanCall, Level
<1>2. frame[t][d] = NoFrame
  BY <1>1 DEF StackInv, StackShape
<1>3. frame' \in [Threads -> [Level -> Frame]] /\ \A u \in Threads, i \in Level :
          frame'[u][i] = IF u = t /\ i = d THEN f ELSE frame[u][i]
  BY <1>1, SlotWrite DEF StackInv, Push, GoodFrame
<1>4. depth' \in [Threads -> 0..MaxDepth] /\ \A u \in Threads :
          depth'[u] = IF u = t THEN d ELSE depth[u]
  BY <1>1, BoundsAreNat DEF StackInv, Push, CanCall, Level
<1>5. d > 1 => frame[t][d - 1].pc = "callback"
  BY <1>1 DEF CanCall, Running, Top
<1>6. StackShape'
  <2> SUFFICES ASSUME NEW u \in Threads, NEW i \in Level
               PROVE  /\ i > depth'[u] => frame'[u][i] = NoFrame
                      /\ i <= depth'[u] =>
                           /\ frame'[u][i].hook \in Hooks
                           /\ \/ frame'[u][i].op = "call" /\ frame'[u][i].pc \in CallPcs
                              \/ /\ frame'[u][i].op \in {"revert", "drop"}
                                 /\ frame'[u][i].pc \in TeardownPcs
                      /\ i < depth'[u] => frame'[u][i].pc = "callback"
    BY DEF StackShape
  <2>1. CASE u # t
    BY <2>1, <1>3, <1>4 DEF StackInv, StackShape
  <2>2. CASE u = t /\ i = d
    BY <2>2, <1>1, <1>3, <1>4 DEF GoodFrame
  <2>3. CASE u = t /\ i # d
    <3>1. frame'[u][i] = frame[t][i] /\ depth'[u] = d
      BY <2>3, <1>3, <1>4
    <3>2. i \in Nat /\ i >= 1
      BY BoundsAreNat DEF Level
    <3>3. i < d => i <= depth[t] /\ (i < depth[t] \/ (i = d - 1 /\ d > 1))
      BY <1>1, <3>2
    <3>4. i > d => i > depth[t]
      BY <1>1, <3>2
    <3> QED
      BY <2>3, <1>1, <1>5, <3>1, <3>2, <3>3, <3>4 DEF StackInv, StackShape
  <2> QED
    BY <2>1, <2>2, <2>3
<1> QED
  BY <1>1, <1>2, <1>3, <1>4, <1>6 DEF StackInv, Push

LEMMA PopKeepsStack ==
  ASSUME StackInv, NEW t \in Threads, Running(t), Pop(t)
  PROVE  StackInv'
<1> DEFINE d == depth[t]
<1>1. d \in Level /\ d \in Nat /\ d > 0
  BY TopIsGood, BoundsAreNat DEF Level, Running
<1>2. NoFrame \in Frame
  BY DEF Frame, NoFrame
<1>3. frame' \in [Threads -> [Level -> Frame]] /\ \A u \in Threads, i \in Level :
          frame'[u][i] = IF u = t /\ i = d THEN NoFrame ELSE frame[u][i]
  BY <1>1, <1>2, SlotWrite DEF StackInv, Pop
<1>4. depth' \in [Threads -> 0..MaxDepth] /\ \A u \in Threads :
          depth'[u] = IF u = t THEN d - 1 ELSE depth[u]
  BY <1>1, BoundsAreNat DEF StackInv, Pop, Level
<1>5. StackShape'
  BY <1>1, <1>3, <1>4, BoundsAreNat DEF StackInv, StackShape, Level
<1> QED
  BY <1>3, <1>4, <1>5 DEF StackInv

(* The current frame is replaced by one of the same operation.             *)
LEMMA ChangeKeepsStack ==
  ASSUME StackInv, NEW t \in Threads, Running(t),
         NEW f, GoodFrame(f),
         frame' = [frame EXCEPT ![t][depth[t]] = f], depth' = depth
  PROVE  StackInv'
<1> DEFINE d == depth[t]
<1>1. d \in Level /\ d \in Nat /\ d > 0
  BY TopIsGood, BoundsAreNat DEF Level, Running
<1>3. frame' \in [Threads -> [Level -> Frame]] /\ \A u \in Threads, i \in Level :
          frame'[u][i] = IF u = t /\ i = d THEN f ELSE frame[u][i]
  BY <1>1, SlotWrite DEF StackInv, GoodFrame
<1>5. StackShape'
  BY <1>1, <1>3, BoundsAreNat DEF StackInv, StackShape, Level, GoodFrame
<1> QED
  BY <1>3, <1>5 DEF StackInv

\* the frame that Goto writes
At(f, pc) == [f EXCEPT !.pc = pc]

SameKind(f, pc) == \/ f.op = "call" /\ pc \in CallPcs
                   \/ f.op \in {"revert", "drop"} /\ pc \in TeardownPcs

LEMMA GotoKeepsStack ==
  ASSUME StackInv, NEW t \in Threads, Running(t),
         NEW pc, SameKind(Top(t), pc), Goto(t, pc)
  PROVE  /\ StackInv'
         /\ frame' = [frame EXCEPT ![t][depth[t]] = At(Top(t), pc)]
<1>1. frame' = [frame EXCEPT ![t][depth[t]] = At(Top(t), pc)]
  BY TopIsGood DEF Goto, At, Top, StackInv
<1>2. GoodFrame(At(Top(t), pc))
  <2> DEFINE f == Top(t)
  <2>1. f \in Frame /\ f.hook \in Hooks
    BY TopIsGood DEF GoodFrame
  <2>2. pc \in CallPcs \cup TeardownPcs
    BY DEF SameKind
  <2>3. At(f, pc) \in Frame
    BY <2>1, <2>2, FrameIsRecord DEF At
  <2>4. At(f, pc).hook = f.hook /\ At(f, pc).op = f.op /\ At(f, pc).pc = pc
    BY <2>1 DEF At, Frame
  <2> QED
    BY <2>1, <2>3, <2>4 DEF GoodFrame, SameKind
<1> QED
  BY <1>1, <1>2, ChangeKeepsStack DEF Goto

\* the frame that Enter writes
EnteredFrame(f) == [f EXCEPT !.pc = "entered", !.late = closing[f.hook]]

LEMMA EnterKeepsStack ==
  ASSUME TypeInv, NEW t \in Threads, Enter(t)
  PROVE  /\ StackInv'
         /\ frame' = [frame EXCEPT ![t][depth[t]] = EnteredFrame(Top(t))]
<1> DEFINE f == Top(t)
           d == depth[t]
           h == f.hook
<1>1. StackInv /\ Running(t) /\ f.pc = "thunk"
  BY DEF TypeInv, TypeOK, StackInv, Enter
<1>2. d \in Level /\ GoodFrame(f) /\ f.op = "call"
  BY <1>1, TopIsGood DEF GoodFrame, TeardownPcs
<1>3. frame' = [frame EXCEPT ![t][d] = EnteredFrame(f)]
  BY <1>1, <1>2 DEF Enter, EnteredFrame, Top, StackInv
<1>4. closing[h] \in BOOLEAN
  BY <1>2 DEF TypeInv, TypeOK, GoodFrame
<1>5. GoodFrame(EnteredFrame(f))
  BY <1>2, <1>4, FrameIsRecord DEF GoodFrame, EnteredFrame, Frame, CallPcs
<1> QED
  BY <1>1, <1>3, <1>5, ChangeKeepsStack DEF Enter

-----------------------------------------------------------------------------
(* What the actions do to the stack, in one place.                         *)
LEMMA StackStep ==
  ASSUME TypeInv, [Next]_vars
  PROVE  StackInv'
<1>0. StackInv
  BY DEF TypeInv, TypeOK, StackInv
<1>1. ASSUME NEW h \in Hooks, Install(h)
      PROVE  StackInv'
  BY <1>0, <1>1 DEF Install, stack, StackInv, StackShape
<1>2. ASSUME NEW t \in Threads, NEW h \in Hooks, Call(t, h)
      PROVE  StackInv'
  <2> DEFINE f == [op |-> "call", hook |-> h, pc |-> "thunk", late |-> FALSE]
  <2>1. GoodFrame(f)
    BY DEF GoodFrame, Frame, CallPcs
  <2> QED
    BY <1>0, <1>2, <2>1, PushKeepsStack DEF Call
<1>3. ASSUME NEW t \in Threads, Enter(t)
      PROVE  StackInv'
  BY <1>3, EnterKeepsStack
<1>4. ASSUME NEW t \in Threads,
             BeginCallback(t) \/ ReturnDefault(t) \/ EndCallback(t) \/ Leave(t)
      PROVE  StackInv'
  <2>1. PICK pc \in {"callback", "leaving", "epilogue"} : Goto(t, pc)
    BY <1>4 DEF BeginCallback, ReturnDefault, EndCallback, Leave
  <2>2. Running(t) /\ Top(t).pc \in CallPcs
    BY <1>4 DEF BeginCallback, ReturnDefault, EndCallback, Leave, CallPcs
  <2>3. SameKind(Top(t), pc)
    BY <1>0, <2>2, TopIsGood DEF GoodFrame, SameKind, CallPcs, TeardownPcs
  <2> QED
    BY <1>0, <2>1, <2>2, <2>3, GotoKeepsStack
<1>5. ASSUME NEW t \in Threads, Return(t) \/ RestoreFails(t) \/ Release(t)
      PROVE  StackInv'
  BY <1>0, <1>5, PopKeepsStack DEF Return, RestoreFails, Release
<1>6. ASSUME NEW t \in Threads, NEW h \in Hooks,
             RevertBusy(t, h) \/ DropBusy(t, h)
      PROVE  StackInv'
  BY <1>0, <1>6 DEF RevertBusy, DropBusy, stack, StackInv, StackShape
<1>7. ASSUME NEW t \in Threads, NEW h \in Hooks, NEW op \in {"revert", "drop"},
             Close(t, h, op)
      PROVE  StackInv'
  <2> DEFINE f == [op |-> op, hook |-> h, late |-> FALSE,
                   pc |-> IF total[h] = 0 THEN "restore" ELSE "closeWait"]
  <2>1. GoodFrame(f)
    BY DEF GoodFrame, Frame, TeardownPcs
  <2>2. CanCall(t) /\ Push(t, f)
    BY <1>7 DEF Close, CanTearDown
  <2> QED
    BY <1>0, <2>1, <2>2, PushKeepsStack
<1>8. ASSUME NEW t \in Threads, CloseWake(t) \/ RestoreOk(t) \/ Inactive(t)
      PROVE  StackInv'
  <2>1. Running(t) /\ Top(t).pc \in {"closeWait", "restore", "inactive"}
    BY <1>8 DEF CloseWake, RestoreOk, Inactive
  <2>2. Top(t).op \in {"revert", "drop"}
    BY <1>0, <2>1, TopIsGood DEF GoodFrame, CallPcs
  <2>3. \A pc \in {"restore", "inactive", "release"} : SameKind(Top(t), pc)
    BY <2>2 DEF SameKind, TeardownPcs
  <2>4. \/ \E pc \in {"restore", "inactive", "release"} : Goto(t, pc)
        \/ Pop(t)
        \/ UNCHANGED stack
    BY <1>8 DEF CloseWake, RestoreOk, Inactive
  <2>5. CASE UNCHANGED stack
    BY <1>0, <2>5 DEF stack, StackInv, StackShape
  <2>6. CASE Pop(t)
    BY <1>0, <2>1, <2>6, PopKeepsStack
  <2>7. CASE \E pc \in {"restore", "inactive", "release"} : Goto(t, pc)
    BY <1>0, <2>1, <2>3, <2>7, GotoKeepsStack
  <2> QED
    BY <2>4, <2>5, <2>6, <2>7
<1>9. ASSUME NEW t \in Threads, InactiveWait(t)
      PROVE  StackInv'
  BY <1>0, <1>9 DEF InactiveWait, stack, StackInv, StackShape
<1>10. CASE UNCHANGED vars
  BY <1>0, <1>10 DEF vars, stack, StackInv, StackShape
<1> QED
  BY <1>1, <1>2, <1>3, <1>4, <1>5, <1>6, <1>7, <1>8, <1>9, <1>10
     DEF Next, Invoke, TearDown, Start

-----------------------------------------------------------------------------
(* Type correctness.                                                       *)
LEMMA InitTypeInv == Init => TypeInv
  BY BoundsAreNat DEF Init, TypeInv, TypeOK, StackShape, Level, Frame, NoFrame

\* all the variables but the stack
DataOK ==
  /\ closing \in [Hooks -> BOOLEAN]
  /\ total \in [Hooks -> Nat]
  /\ perThread \in [Hooks -> [Threads -> Nat]]
  /\ asleep \in SUBSET Hooks
  /\ guard \in [Hooks -> {"absent", "active", "restored", "gone"}]
  /\ patched \in [Hooks -> BOOLEAN]
  /\ memory \in [Hooks -> {"absent", "live", "freed", "leaked"}]
  /\ result \in [Hooks -> {"none", "busy", "failed", "ok"}]
  /\ failures \in Nat

LEMMA DataStep ==
  ASSUME TypeInv, [Next]_vars
  PROVE  DataOK'
<1>0. DataOK /\ StackInv
  BY DEF TypeInv, TypeOK, StackInv, DataOK
<1>a. \A t \in Threads : Running(t) => Top(t).hook \in Hooks
  BY <1>0, TopIsGood DEF GoodFrame
<1>1. ASSUME NEW h \in Hooks, Install(h)
      PROVE  DataOK'
  BY <1>0, <1>1 DEF Install, DataOK, counts
<1>2. ASSUME NEW t \in Threads, NEW h \in Hooks, Call(t, h)
      PROVE  DataOK'
  BY <1>0, <1>2 DEF Call, DataOK, counts, owned
<1>3. ASSUME NEW t \in Threads, Enter(t)
      PROVE  DataOK'
  BY <1>0, <1>a, <1>3 DEF Enter, DataOK, owned
<1>4. ASSUME NEW t \in Threads,
             BeginCallback(t) \/ ReturnDefault(t) \/ EndCallback(t) \/ Return(t)
      PROVE  DataOK'
  BY <1>0, <1>4 DEF BeginCallback, ReturnDefault, EndCallback, Return,
                    DataOK, counts, owned
<1>5. ASSUME NEW t \in Threads, Leave(t)
      PROVE  DataOK'
  <2> DEFINE h == Top(t).hook
  <2>1. \A n \in Nat : SaturatingDec(n) \in Nat
    BY DEF SaturatingDec
  <2>2. h \in Hooks
    BY <1>a, <1>5 DEF Leave
  <2>3. total[h] \in Nat /\ perThread[h][t] \in Nat
    BY <1>0, <2>2 DEF DataOK
  <2>4. total' \in [Hooks -> Nat]
    BY <1>0, <1>5, <2>1, <2>2, <2>3 DEF Leave, DataOK
  <2>5. perThread' \in [Hooks -> [Threads -> Nat]]
    BY <1>0, <1>5, <2>1, <2>2, <2>3 DEF Leave, DataOK
  <2>6. asleep' \in SUBSET Hooks
    BY <1>0, <1>5 DEF Leave, DataOK
  <2> QED
    BY <1>0, <1>5, <2>4, <2>5, <2>6 DEF Leave, DataOK, owned
<1>6. ASSUME NEW t \in Threads, NEW h \in Hooks, RevertBusy(t, h) \/ DropBusy(t, h)
      PROVE  DataOK'
  BY <1>0, <1>6 DEF RevertBusy, DropBusy, DataOK, counts
<1>7. ASSUME NEW t \in Threads, NEW h \in Hooks, NEW op \in {"revert", "drop"},
             Close(t, h, op)
      PROVE  DataOK'
  BY <1>0, <1>7 DEF Close, DataOK, owned
<1>8. ASSUME NEW t \in Threads, CloseWake(t) \/ InactiveWait(t)
      PROVE  DataOK'
  BY <1>0, <1>a, <1>8 DEF CloseWake, InactiveWait, DataOK, owned
<1>9. ASSUME NEW t \in Threads, RestoreOk(t)
      PROVE  DataOK'
  BY <1>0, <1>a, <1>9 DEF RestoreOk, DataOK, counts
<1>10. ASSUME NEW t \in Threads, RestoreFails(t)
       PROVE  DataOK'
  <2> DEFINE h == Top(t).hook
  <2>0. h \in Hooks
    BY <1>a, <1>10 DEF RestoreFails
  <2>1. failures' \in Nat
    BY <1>0, <1>10, <2>0 DEF RestoreFails, DataOK
  <2>2. \/ result' = [result EXCEPT ![h] = "failed"] /\ UNCHANGED <<guard, memory>>
        \/ /\ guard' = [guard EXCEPT ![h] = "gone"]
           /\ memory' = [memory EXCEPT ![h] = "leaked"]
           /\ UNCHANGED result
    BY <1>10 DEF RestoreFails
  <2>3. /\ result' \in [Hooks -> {"none", "busy", "failed", "ok"}]
        /\ guard' \in [Hooks -> {"absent", "active", "restored", "gone"}]
        /\ memory' \in [Hooks -> {"absent", "live", "freed", "leaked"}]
    BY <1>0, <2>2 DEF DataOK
  <2>4. UNCHANGED <<counts, patched>>
    BY <1>10 DEF RestoreFails
  <2> QED
    BY <1>0, <2>1, <2>3, <2>4 DEF DataOK, counts
<1>11. ASSUME NEW t \in Threads, Inactive(t)
       PROVE  DataOK'
  BY <1>0, <1>a, <1>11 DEF Inactive, DataOK, counts
<1>12. ASSUME NEW t \in Threads, Release(t)
       PROVE  DataOK'
  BY <1>0, <1>a, <1>12 DEF Release, DataOK, counts
<1>13. CASE UNCHANGED vars
  BY <1>0, <1>13 DEF vars, counts, owned, DataOK
<1> QED
  BY <1>1, <1>2, <1>3, <1>4, <1>5, <1>6, <1>7, <1>8, <1>9, <1>10, <1>11, <1>12, <1>13
     DEF Next, Invoke, TearDown, Start

LEMMA TypeInvStep == TypeInv /\ [Next]_vars => TypeInv'
  BY StackStep, DataStep DEF TypeInv, TypeOK, StackInv, DataOK

(* Every variable keeps its type, and every stack its shape, in every      *)
(* behaviour of replacement, invocation and teardown.                      *)
THEOREM TypeCorrect == Spec => []TypeOK
<1>1. Spec => []TypeInv
  BY InitTypeInv, TypeInvStep, PTL DEF Spec
<1>2. TypeInv => TypeOK
  BY DEF TypeInv
<1> QED
  BY <1>1, <1>2, PTL

-----------------------------------------------------------------------------
(* The counters of active invocations.                                     *)
LEMMA CountedIsFinite ==
  ASSUME NEW h
  PROVE  /\ IsFiniteSet(Counted(h))
         /\ \A t : IsFiniteSet(CountedOn(t, h))
<1>1. IsFiniteSet(Level)
  BY FS_Interval, BoundsAreNat DEF Level
<1>2. IsFiniteSet(Threads \X Level)
  BY <1>1, ThreadsFinite, FS_Product
<1>3. Counted(h) \subseteq Threads \X Level
  BY DEF Counted
<1>4. \A t : CountedOn(t, h) \subseteq Level
  BY DEF CountedOn
<1> QED
  BY <1>1, <1>2, <1>3, <1>4, FS_Subset

(* Writing a slot adds it to the counted slots or removes it from them.    *)
SlotEffect(t, d, f, h) ==
  /\ Counted(h)' = IF CountsFor(f, h) THEN Counted(h) \cup {<<t, d>>}
                                      ELSE Counted(h) \ {<<t, d>>}
  /\ \A u \in Threads : CountedOn(u, h)' =
       IF u # t THEN CountedOn(u, h)
       ELSE IF CountsFor(f, h) THEN CountedOn(t, h) \cup {d}
                               ELSE CountedOn(t, h) \ {d}

LEMMA SlotCounts ==
  ASSUME StackInv, NEW t \in Threads, NEW d \in Level, NEW f \in Frame,
         frame' = [frame EXCEPT ![t][d] = f], NEW h
  PROVE  SlotEffect(t, d, f, h)
<1>1. \A u \in Threads, i \in Level :
        frame'[u][i] = IF u = t /\ i = d THEN f ELSE frame[u][i]
  BY SlotWrite DEF StackInv
<1>2. Counted(h)' = {p \in Threads \X Level : CountsFor(frame'[p[1]][p[2]], h)}
  BY DEF Counted, CountsFor
<1>3. \A u : CountedOn(u, h)' = {i \in Level : CountsFor(frame'[u][i], h)}
  BY DEF CountedOn, CountsFor
<1>4. \A p \in Threads \X Level :
        CountsFor(frame'[p[1]][p[2]], h) <=>
          IF p = <<t, d>> THEN CountsFor(f, h) ELSE CountsFor(frame[p[1]][p[2]], h)
  <2> TAKE p \in Threads \X Level
  <2>1. PICK u \in Threads, i \in Level : p = <<u, i>>
    OBVIOUS
  <2> QED
    BY <1>1, <2>1
<1>5. Counted(h)' = IF CountsFor(f, h) THEN Counted(h) \cup {<<t, d>>}
                                      ELSE Counted(h) \ {<<t, d>>}
  BY <1>2, <1>4 DEF Counted
<1>6. ASSUME NEW u \in Threads
      PROVE  CountedOn(u, h)' =
               IF u # t THEN CountedOn(u, h)
               ELSE IF CountsFor(f, h) THEN CountedOn(t, h) \cup {d}
                                       ELSE CountedOn(t, h) \ {d}
  BY <1>1, <1>3 DEF CountedOn
<1> QED
  BY <1>5, <1>6 DEF SlotEffect

(* A step that changes neither the counters nor what a slot counts for     *)
(* keeps the counters exact.                                               *)
LEMMA UncountedWrite ==
  ASSUME TypeInv, CountsExact, NEW t \in Threads, NEW d \in Level, NEW f \in Frame,
         frame' = [frame EXCEPT ![t][d] = f],
         \A h \in Hooks : CountsFor(f, h) <=> CountsFor(frame[t][d], h),
         UNCHANGED <<total, perThread>>
  PROVE  CountsExact'
<1>1. StackInv
  BY DEF TypeInv, TypeOK, StackInv
<1>2. ASSUME NEW h \in Hooks
      PROVE  Counted(h)' = Counted(h) /\ \A u \in Threads : CountedOn(u, h)' = CountedOn(u, h)
  <2>1. <<t, d>> \in Counted(h) <=> CountsFor(frame[t][d], h)
    BY DEF Counted
  <2>2. d \in CountedOn(t, h) <=> CountsFor(frame[t][d], h)
    BY DEF CountedOn
  <2>3. SlotEffect(t, d, f, h)
    BY <1>1, SlotCounts
  <2>4. CountsFor(f, h) <=> CountsFor(frame[t][d], h)
    OBVIOUS
  <2>5. Counted(h)' = Counted(h)
    BY <2>1, <2>3, <2>4 DEF SlotEffect
  <2>6. \A u \in Threads : CountedOn(u, h)' = CountedOn(u, h)
    BY <2>2, <2>3, <2>4 DEF SlotEffect
  <2> QED
    BY <2>5, <2>6
<1> QED
  BY <1>2 DEF CountsExact

LEMMA EnterCounts ==
  ASSUME TypeInv, CountsExact, NEW t \in Threads, Enter(t)
  PROVE  CountsExact'
<1> DEFINE f == EnteredFrame(Top(t))
           d == depth[t]
           h0 == Top(t).hook
<1>1. StackInv /\ Running(t) /\ Top(t).pc = "thunk"
  BY DEF TypeInv, TypeOK, StackInv, Enter
<1>2. d \in Level /\ GoodFrame(Top(t)) /\ h0 \in Hooks /\ closing[h0] \in BOOLEAN
  BY <1>1, TopIsGood DEF GoodFrame, TypeInv, TypeOK
<1>3. frame' = [frame EXCEPT ![t][d] = f]
  BY EnterKeepsStack
<1>4. f \in Frame /\ f.hook = h0 /\ f.pc = "entered"
  BY <1>2, FrameIsRecord, ZenonT(60) DEF GoodFrame, EnteredFrame, Frame, CallPcs
<1>5. \A h : SlotEffect(t, d, f, h)
  BY <1>1, <1>2, <1>3, <1>4, SlotCounts
<1>6. ASSUME NEW h \in Hooks
      PROVE  /\ total'[h] = Cardinality(Counted(h)')
             /\ \A u \in Threads : perThread'[h][u] = Cardinality(CountedOn(u, h)')
  <2>1. <<t, d>> \notin Counted(h) /\ d \notin CountedOn(t, h)
    BY <1>1 DEF Counted, CountedOn, CountsFor, Top
  <2>2. CountsFor(f, h) <=> h = h0
    BY <1>4 DEF CountsFor
  <2>3. SlotEffect(t, d, f, h)
    BY <1>5
  <2>4. CASE h # h0
    <3>1. Counted(h)' = Counted(h) /\ \A u \in Threads : CountedOn(u, h)' = CountedOn(u, h)
      BY <2>1, <2>2, <2>3, <2>4 DEF SlotEffect
    <3>2. total'[h] = total[h] /\ perThread'[h] = perThread[h]
      BY <1>2, <2>4 DEF Enter, TypeInv, TypeOK
    <3> QED
      BY <3>1, <3>2 DEF CountsExact
  <2>5. CASE h = h0
    <3>1. /\ Counted(h)' = Counted(h) \cup {<<t, d>>}
          /\ CountedOn(t, h)' = CountedOn(t, h) \cup {d}
          /\ \A u \in Threads : u # t => CountedOn(u, h)' = CountedOn(u, h)
      BY <2>2, <2>3, <2>5 DEF SlotEffect
    <3>2. /\ total'[h] = total[h] + 1
          /\ perThread'[h][t] = perThread[h][t] + 1
          /\ \A u \in Threads : u # t => perThread'[h][u] = perThread[h][u]
      BY <1>2, <2>5 DEF Enter, TypeInv, TypeOK
    <3>3. Cardinality(Counted(h) \cup {<<t, d>>}) = Cardinality(Counted(h)) + 1
      BY <2>1, CountedIsFinite, FS_AddElement
    <3>4. Cardinality(CountedOn(t, h) \cup {d}) = Cardinality(CountedOn(t, h)) + 1
      BY <2>1, CountedIsFinite, FS_AddElement
    <3> QED
      BY <3>1, <3>2, <3>3, <3>4 DEF CountsExact
  <2> QED
    BY <2>4, <2>5
<1> QED
  BY <1>6 DEF CountsExact

LEMMA LeaveCounts ==
  ASSUME TypeInv, CountsExact, NEW t \in Threads, Leave(t)
  PROVE  CountsExact'
<1> DEFINE f == At(Top(t), "epilogue")
           d == depth[t]
           h0 == Top(t).hook
<1>1. StackInv /\ Running(t) /\ Top(t).pc = "leaving" /\ Goto(t, "epilogue")
  BY DEF TypeInv, TypeOK, StackInv, Leave
<1>2. d \in Level /\ GoodFrame(Top(t)) /\ h0 \in Hooks
  BY <1>1, TopIsGood DEF GoodFrame
<1>3. SameKind(Top(t), "epilogue")
  BY <1>1, <1>2 DEF GoodFrame, SameKind, CallPcs, TeardownPcs
<1>4. frame' = [frame EXCEPT ![t][d] = f]
  BY <1>1, <1>3, GotoKeepsStack
<1>5. f \in Frame /\ f.pc = "epilogue"
  BY <1>2, FrameIsRecord DEF GoodFrame, At, Frame, CallPcs
<1>6. \A h : SlotEffect(t, d, f, h)
  BY <1>1, <1>2, <1>4, <1>5, SlotCounts
<1>7. ASSUME NEW h \in Hooks
      PROVE  /\ total'[h] = Cardinality(Counted(h)')
             /\ \A u \in Threads : perThread'[h][u] = Cardinality(CountedOn(u, h)')
  <2>1. /\ Counted(h)' = Counted(h) \ {<<t, d>>}
        /\ CountedOn(t, h)' = CountedOn(t, h) \ {d}
        /\ \A u \in Threads : u # t => CountedOn(u, h)' = CountedOn(u, h)
    <3>1. ~CountsFor(f, h)
      BY <1>5 DEF CountsFor
    <3>2. SlotEffect(t, d, f, h)
      BY <1>6
    <3> QED
      BY <3>1, <3>2 DEF SlotEffect
  <2>2. CASE h # h0
    <3>1. <<t, d>> \notin Counted(h) /\ d \notin CountedOn(t, h)
      BY <2>2 DEF Counted, CountedOn, CountsFor, Top
    <3>2. total'[h] = total[h] /\ perThread'[h] = perThread[h]
      BY <1>2, <2>2 DEF Leave, TypeInv, TypeOK
    <3>3. Counted(h)' = Counted(h) /\ \A u \in Threads : CountedOn(u, h)' = CountedOn(u, h)
      BY <2>1, <3>1
    <3> QED
      BY <3>2, <3>3 DEF CountsExact
  <2>3. CASE h = h0
    <3>1. <<t, d>> \in Counted(h) /\ d \in CountedOn(t, h)
      BY <1>1, <1>2, <2>3 DEF Counted, CountedOn, CountsFor, Top
    <3>2. /\ Cardinality(Counted(h) \ {<<t, d>>}) = Cardinality(Counted(h)) - 1
          /\ Cardinality(CountedOn(t, h) \ {d}) = Cardinality(CountedOn(t, h)) - 1
      BY <3>1, CountedIsFinite, FS_RemoveElement
    <3>3. Cardinality(Counted(h)) # 0 /\ Cardinality(CountedOn(t, h)) # 0
      BY <3>1, CountedIsFinite, FS_EmptySet
    <3>4. /\ total'[h] = SaturatingDec(total[h])
          /\ perThread'[h][t] = SaturatingDec(perThread[h][t])
          /\ \A u \in Threads : u # t => perThread'[h][u] = perThread[h][u]
      BY <1>2, <2>3 DEF Leave, TypeInv, TypeOK
    <3> QED
      BY <2>1, <3>2, <3>3, <3>4 DEF CountsExact, SaturatingDec
  <2> QED
    BY <2>2, <2>3
<1> QED
  BY <1>7 DEF CountsExact

(* A push or pop of a frame that is not counted, and a change of pc that   *)
(* does not cross the boundary of the counted pcs.                         *)
LEMMA PushCounts ==
  ASSUME TypeInv, CountsExact, NEW t \in Threads, CanCall(t),
         NEW f, GoodFrame(f), f.pc \in {"thunk", "restore", "closeWait"}, Push(t, f),
         UNCHANGED <<total, perThread>>
  PROVE  CountsExact'
<1>1. StackInv
  BY DEF TypeInv, TypeOK, StackInv
<1>2. /\ depth[t] + 1 \in Level
      /\ frame[t][depth[t] + 1] = NoFrame
      /\ frame' = [frame EXCEPT ![t][depth[t] + 1] = f]
  BY <1>1, PushKeepsStack
<1>3. \A h \in Hooks : CountsFor(f, h) <=> CountsFor(frame[t][depth[t] + 1], h)
  BY <1>2 DEF CountsFor, NoFrame
<1>4. f \in Frame
  BY DEF GoodFrame
<1> QED
  BY <1>2, <1>3, <1>4, UncountedWrite

LEMMA PopCounts ==
  ASSUME TypeInv, CountsExact, NEW t \in Threads, Running(t), Pop(t),
         Top(t).pc \notin {"entered", "callback", "leaving"},
         UNCHANGED <<total, perThread>>
  PROVE  CountsExact'
<1>1. StackInv
  BY DEF TypeInv, TypeOK, StackInv
<1>2. depth[t] \in Level
  BY <1>1, TopIsGood
<1>3. NoFrame \in Frame
  BY DEF Frame, NoFrame
<1>4. \A h \in Hooks : CountsFor(NoFrame, h) <=> CountsFor(frame[t][depth[t]], h)
  BY DEF CountsFor, NoFrame, Top
<1> QED
  BY <1>2, <1>3, <1>4, UncountedWrite DEF Pop

LEMMA GotoCounts ==
  ASSUME TypeInv, CountsExact, NEW t \in Threads, Running(t),
         NEW pc, SameKind(Top(t), pc), Goto(t, pc),
         pc \in {"entered", "callback", "leaving"}
           <=> Top(t).pc \in {"entered", "callback", "leaving"},
         UNCHANGED <<total, perThread>>
  PROVE  CountsExact'
<1> DEFINE f == At(Top(t), pc)
<1>1. StackInv
  BY DEF TypeInv, TypeOK, StackInv
<1>2. depth[t] \in Level /\ GoodFrame(Top(t))
  BY <1>1, TopIsGood
<1>3. frame' = [frame EXCEPT ![t][depth[t]] = f]
  BY <1>1, GotoKeepsStack
<1>4. pc \in CallPcs \cup TeardownPcs
  BY DEF SameKind
<1>5. f \in Frame /\ f.pc = pc /\ f.hook = Top(t).hook
  BY <1>2, <1>4, FrameIsRecord DEF GoodFrame, At, Frame
<1>6. \A h \in Hooks : CountsFor(f, h) <=> CountsFor(frame[t][depth[t]], h)
  BY <1>5 DEF CountsFor, Top
<1> QED
  BY <1>2, <1>3, <1>5, <1>6, UncountedWrite

LEMMA SameStackCounts ==
  ASSUME CountsExact, UNCHANGED frame, UNCHANGED <<total, perThread>>
  PROVE  CountsExact'
  BY DEF CountsExact, Counted, CountedOn

LEMMA CountsStep ==
  ASSUME TypeInv, CountsExact, [Next]_vars
  PROVE  CountsExact'
<1>0. StackInv
  BY DEF TypeInv, TypeOK, StackInv
<1>1. ASSUME NEW h \in Hooks, Install(h)
      PROVE  CountsExact'
  BY <1>1, SameStackCounts DEF Install, stack, counts
<1>2. ASSUME NEW t \in Threads, NEW h \in Hooks, Call(t, h)
      PROVE  CountsExact'
  <2> DEFINE f == [op |-> "call", hook |-> h, pc |-> "thunk", late |-> FALSE]
  <2>1. GoodFrame(f)
    BY DEF GoodFrame, Frame, CallPcs
  <2>2. CanCall(t) /\ Push(t, f) /\ UNCHANGED <<total, perThread>>
    BY <1>2 DEF Call, counts
  <2> QED
    BY <2>1, <2>2, PushCounts
<1>3. ASSUME NEW t \in Threads, Enter(t)
      PROVE  CountsExact'
  BY <1>3, EnterCounts
<1>4. ASSUME NEW t \in Threads, BeginCallback(t) \/ ReturnDefault(t) \/ EndCallback(t)
      PROVE  CountsExact'
  <2>1. PICK pc \in {"callback", "leaving"} : Goto(t, pc)
    BY <1>4 DEF BeginCallback, ReturnDefault, EndCallback
  <2>2. /\ Running(t)
        /\ Top(t).pc \in {"entered", "callback"}
        /\ UNCHANGED <<total, perThread>>
    BY <1>4 DEF BeginCallback, ReturnDefault, EndCallback, counts
  <2>3. SameKind(Top(t), pc)
    BY <1>0, <2>2, TopIsGood DEF GoodFrame, SameKind, CallPcs, TeardownPcs
  <2> QED
    BY <2>1, <2>2, <2>3, GotoCounts
<1>5. ASSUME NEW t \in Threads, Leave(t)
      PROVE  CountsExact'
  BY <1>5, LeaveCounts
<1>6. ASSUME NEW t \in Threads, Return(t) \/ RestoreFails(t) \/ Release(t)
      PROVE  CountsExact'
  <2>1. /\ Running(t) /\ Pop(t)
        /\ Top(t).pc \in {"epilogue", "restore", "release"}
        /\ UNCHANGED <<total, perThread>>
    BY <1>6 DEF Return, RestoreFails, Release, counts
  <2> QED
    BY <2>1, PopCounts
<1>7. ASSUME NEW t \in Threads, NEW h \in Hooks, RevertBusy(t, h) \/ DropBusy(t, h)
      PROVE  CountsExact'
  BY <1>7, SameStackCounts DEF RevertBusy, DropBusy, stack, counts
<1>8. ASSUME NEW t \in Threads, NEW h \in Hooks, NEW op \in {"revert", "drop"},
             Close(t, h, op)
      PROVE  CountsExact'
  <2> DEFINE f == [op |-> op, hook |-> h, late |-> FALSE,
                   pc |-> IF total[h] = 0 THEN "restore" ELSE "closeWait"]
  <2>1. GoodFrame(f)
    BY DEF GoodFrame, Frame, TeardownPcs
  <2>2. CanCall(t) /\ Push(t, f) /\ UNCHANGED <<total, perThread>>
    BY <1>8 DEF Close, CanTearDown
  <2>3. f.pc \in {"restore", "closeWait"}
    OBVIOUS
  <2> QED
    BY <2>1, <2>2, <2>3, PushCounts
<1>9. ASSUME NEW t \in Threads, CloseWake(t) \/ RestoreOk(t) \/ Inactive(t)
      PROVE  CountsExact'
  <2>1. /\ Running(t) /\ Top(t).pc \in {"closeWait", "restore", "inactive"}
        /\ UNCHANGED <<total, perThread>>
    BY <1>9 DEF CloseWake, RestoreOk, Inactive, counts
  <2>2. \A pc \in {"restore", "inactive", "release"} : SameKind(Top(t), pc)
    BY <1>0, <2>1, TopIsGood DEF GoodFrame, SameKind, CallPcs, TeardownPcs
  <2>3. \/ \E pc \in {"restore", "inactive", "release"} : Goto(t, pc)
        \/ Pop(t)
        \/ UNCHANGED frame
    BY <1>9 DEF CloseWake, RestoreOk, Inactive, stack
  <2> QED
    BY <2>1, <2>2, <2>3, GotoCounts, PopCounts, SameStackCounts
<1>10. ASSUME NEW t \in Threads, InactiveWait(t)
       PROVE  CountsExact'
  BY <1>10, SameStackCounts DEF InactiveWait, stack
<1>11. CASE UNCHANGED vars
  BY <1>11, SameStackCounts DEF vars, stack, counts
<1> QED
  BY <1>1, <1>2, <1>3, <1>4, <1>5, <1>6, <1>7, <1>8, <1>9, <1>10, <1>11
     DEF Next, Invoke, TearDown, Start

LEMMA InitCounts == Init => CountsExact
<1> SUFFICES ASSUME Init, NEW h \in Hooks
             PROVE  /\ total[h] = Cardinality(Counted(h))
                    /\ \A t \in Threads :
                         perThread[h][t] = Cardinality(CountedOn(t, h))
  BY DEF CountsExact
<1>1. Counted(h) = {} /\ \A t \in Threads : CountedOn(t, h) = {}
  BY DEF Init, Counted, CountedOn, CountsFor, NoFrame
<1>2. total[h] = 0 /\ \A t \in Threads : perThread[h][t] = 0
  BY DEF Init
<1> QED
  BY <1>1, <1>2, FS_EmptySet

(* The counters of active invocations are exact, whatever the nesting of   *)
(* calls and teardowns and the number of threads.                          *)
THEOREM CountsAreExact == Spec => []CountsExact
<1>1. Init => TypeInv /\ CountsExact
  BY InitTypeInv, InitCounts
<1>2. TypeInv /\ CountsExact /\ [Next]_vars => (TypeInv /\ CountsExact)'
  BY TypeInvStep, CountsStep
<1> QED
  BY <1>1, <1>2, PTL DEF Spec

-----------------------------------------------------------------------------
(* The fence between a drained hook and its callback.  It rests on the     *)
(* counters being exact, so that total = 0 means that no invocation is     *)
(* counted, and on `closing` being set in every hook that is being torn    *)
(* down, restored or freed, so that none is admitted from then on.         *)
ClosedInv ==
  \A h \in Hooks :
    TearingDown(h) \/ guard[h] = "restored" \/ memory[h] = "freed" => closing[h]

FenceInv == TypeInv /\ CountsExact /\ ClosedInv /\ CallbackFence

DrainedPcs == {"restore", "inactive", "release"}
Admits(f, h) == CountsFor(f, h) /\ ~f.late

LEMMA AdmittedEmpty ==
  ASSUME NEW h
  PROVE  Admitted(h) = {} <=> \A u \in Threads, i \in Level : ~Admits(frame[u][i], h)
<1>1. \A u \in Threads, i \in Level :
        <<u, i>> \in Admitted(h) <=> Admits(frame[u][i], h)
  BY DEF Admitted, Counted, Admits
<1>2. ASSUME Admitted(h) # {}
      PROVE  \E u \in Threads, i \in Level : Admits(frame[u][i], h)
  <2>1. PICK p \in Admitted(h) : TRUE
    BY <1>2
  <2>2. PICK u \in Threads, i \in Level : p = <<u, i>>
    BY <2>1 DEF Admitted, Counted
  <2> QED
    BY <1>1, <2>1, <2>2
<1>3. ASSUME Admitted(h) = {}, NEW u \in Threads, NEW i \in Level
      PROVE  ~Admits(frame[u][i], h)
  BY <1>1, <1>3
<1> QED
  BY <1>2, <1>3

LEMMA AdmittedEmptyPrimed ==
  ASSUME NEW h, \A u \in Threads, i \in Level : ~Admits(frame'[u][i], h)
  PROVE  Admitted(h)' = {}
<1>1. SUFFICES ASSUME NEW p \in Admitted(h)'
              PROVE  FALSE
  OBVIOUS
<1>2. p \in Threads \X Level /\ Admits(frame'[p[1]][p[2]], h)
  BY <1>1 DEF Admitted, Counted, Admits, CountsFor
<1>3. p[1] \in Threads /\ p[2] \in Level
  BY <1>2
<1> QED
  BY <1>2, <1>3

LEMMA DrainedIsClosed ==
  ASSUME FenceInv, NEW h \in Hooks, Drained(h)
  PROVE  closing[h] /\ \A u \in Threads, i \in Level : ~Admits(frame[u][i], h)
<1>1. ASSUME NEW u \in Threads, NEW i \in Level,
             frame[u][i].hook = h, frame[u][i].pc \in DrainedPcs
      PROVE  TearingDown(h)
  <2>1. i \in Nat /\ depth[u] \in Nat
    BY BoundsAreNat DEF Level, FenceInv, TypeInv, TypeOK
  <2>2. frame[u][i].pc # "idle"
    BY <1>1 DEF DrainedPcs
  <2>3. i <= depth[u]
    BY <2>1, <2>2 DEF FenceInv, TypeInv, StackShape, NoFrame
  <2>4. frame[u][i].op \in {"revert", "drop"}
    BY <1>1, <2>3 DEF FenceInv, TypeInv, StackShape, DrainedPcs, CallPcs
  <2> QED
    BY <1>1, <2>4 DEF TearingDown
<1>2. closing[h]
  BY <1>1 DEF Drained, DrainedPcs, FenceInv, ClosedInv
<1>3. Admitted(h) = {}
  BY DEF FenceInv, CallbackFence
<1> QED
  BY <1>2, <1>3, AdmittedEmpty

(* A slot write keeps the fence when it neither drains a hook nor admits   *)
(* an invocation to a drained one.                                         *)
LEMMA FenceWrite ==
  ASSUME FenceInv, NEW t \in Threads, NEW d \in Level, NEW f \in Frame,
         frame' = [frame EXCEPT ![t][d] = f],
         f.pc \in DrainedPcs =>
           frame[t][d].pc \in DrainedPcs /\ frame[t][d].hook = f.hook,
         \A h \in Hooks : Drained(h) /\ Admits(f, h) => Admits(frame[t][d], h),
         \A h \in Hooks : guard'[h] = "restored" \/ memory'[h] = "freed" => Drained(h)
  PROVE  CallbackFence'
<1>1. \A u \in Threads, i \in Level :
        frame'[u][i] = IF u = t /\ i = d THEN f ELSE frame[u][i]
  BY SlotWrite DEF FenceInv, TypeInv, TypeOK
<1>2. ASSUME NEW h \in Hooks, Drained(h)'
      PROVE  Admitted(h)' = {}
  <2>1. Drained(h)
    BY <1>1, <1>2 DEF Drained, DrainedPcs
  <2>2. \A u \in Threads, i \in Level : ~Admits(frame[u][i], h)
    BY <2>1, DrainedIsClosed
  <2>3. \A u \in Threads, i \in Level : ~Admits(frame'[u][i], h)
    BY <1>1, <2>1, <2>2
  <2> QED
    BY <2>3, AdmittedEmptyPrimed
<1> QED
  BY <1>2 DEF CallbackFence

\* the same for steps that leave the stack alone
LEMMA FenceSameStack ==
  ASSUME FenceInv, UNCHANGED frame,
         \A h \in Hooks : guard'[h] = "restored" \/ memory'[h] = "freed" => Drained(h)
  PROVE  CallbackFence'
<1> SUFFICES ASSUME NEW h \in Hooks, Drained(h)'
             PROVE  \A u \in Threads, i \in Level : ~Admits(frame'[u][i], h)
  BY AdmittedEmptyPrimed DEF CallbackFence
<1>1. Drained(h)
  BY DEF Drained
<1> QED
  BY <1>1, DrainedIsClosed

\* a teardown that finds total = 0 drains its hook: nothing is counted in it
LEMMA FenceDrain ==
  ASSUME FenceInv, NEW t \in Threads, NEW d \in Level, NEW f \in Frame, f.hook \in Hooks,
         frame' = [frame EXCEPT ![t][d] = f],
         f.pc \in {"restore", "closeWait"},
         f.pc = "restore" => total[f.hook] = 0,
         UNCHANGED <<guard, memory>>
  PROVE  CallbackFence'
<1>1. \A u \in Threads, i \in Level :
        frame'[u][i] = IF u = t /\ i = d THEN f ELSE frame[u][i]
  BY SlotWrite DEF FenceInv, TypeInv, TypeOK
<1> SUFFICES ASSUME NEW h \in Hooks, Drained(h)'
             PROVE  \A u \in Threads, i \in Level : ~Admits(frame'[u][i], h)
  BY AdmittedEmptyPrimed DEF CallbackFence
<1>2. Drained(h) \/ (f.hook = h /\ total[h] = 0)
  BY <1>1 DEF Drained
<1>3. \A u \in Threads, i \in Level : ~Admits(frame[u][i], h)
  <2>1. CASE Drained(h)
    BY <2>1, DrainedIsClosed
  <2>2. CASE total[h] = 0
    <3>1. Cardinality(Counted(h)) = 0
      BY <2>2 DEF FenceInv, CountsExact
    <3>2. Counted(h) = {}
      BY <3>1, CountedIsFinite, FS_EmptySet
    <3>3. \A u \in Threads, i \in Level : <<u, i>> \notin Counted(h)
      BY <3>2
    <3> QED
      BY <3>3 DEF Counted, Admits
  <2> QED
    BY <1>2, <2>1, <2>2
<1> QED
  BY <1>1, <1>3 DEF Admits, CountsFor

LEMMA FenceStep ==
  ASSUME FenceInv, [Next]_vars
  PROVE  CallbackFence'
<1>0. StackInv
  BY DEF FenceInv, TypeInv, TypeOK, StackInv
<1>a. \A h \in Hooks : guard[h] = "restored" \/ memory[h] = "freed" => Drained(h)
  BY DEF Drained
<1>b. ASSUME NEW t \in Threads, Running(t), Top(t).pc \in DrainedPcs
      PROVE  Drained(Top(t).hook) /\ Top(t).hook \in Hooks
  BY <1>0, <1>b, TopIsGood DEF Drained, DrainedPcs, Top, GoodFrame
<1>c. /\ NoFrame \in Frame
      /\ NoFrame.pc \notin DrainedPcs
      /\ \A h \in Hooks : ~Admits(NoFrame, h)
  BY DEF NoFrame, Frame, DrainedPcs, Admits, CountsFor
<1>1. ASSUME NEW h \in Hooks, Install(h)
      PROVE  CallbackFence'
  BY <1>1, <1>a, FenceSameStack DEF Install, stack, FenceInv, TypeInv, TypeOK
<1>2. ASSUME NEW t \in Threads, NEW h \in Hooks, Call(t, h)
      PROVE  CallbackFence'
  <2> DEFINE f == [op |-> "call", hook |-> h, pc |-> "thunk", late |-> FALSE]
  <2>1. GoodFrame(f) /\ CanCall(t) /\ Push(t, f) /\ UNCHANGED <<guard, memory>>
    BY <1>2 DEF Call, GoodFrame, Frame, CallPcs, owned
  <2>2. depth[t] + 1 \in Level /\ frame' = [frame EXCEPT ![t][depth[t] + 1] = f]
    BY <1>0, <2>1, PushKeepsStack
  <2>3. f \in Frame /\ f.pc \notin DrainedPcs /\ \A k \in Hooks : ~Admits(f, k)
    BY <2>1 DEF GoodFrame, DrainedPcs, Admits, CountsFor
  <2> QED
    BY <1>a, <2>1, <2>2, <2>3, FenceWrite
<1>3. ASSUME NEW t \in Threads, Enter(t)
      PROVE  CallbackFence'
  <2> DEFINE f == EnteredFrame(Top(t))
  <2>1. Running(t) /\ UNCHANGED <<guard, memory>> /\ Top(t).pc = "thunk"
    BY <1>3 DEF Enter, owned
  <2>2. depth[t] \in Level /\ GoodFrame(Top(t))
    BY <1>0, <2>1, TopIsGood
  <2>3. frame' = [frame EXCEPT ![t][depth[t]] = f]
    BY <1>3, EnterKeepsStack DEF FenceInv
  <2>4. closing[Top(t).hook] \in BOOLEAN
    BY <2>2 DEF GoodFrame, FenceInv, TypeInv, TypeOK
  <2>5. f \in Frame /\ f.pc = "entered" /\ f.hook = Top(t).hook /\ f.late = closing[f.hook]
    BY <2>2, <2>4, FrameIsRecord, ZenonT(60) DEF GoodFrame, EnteredFrame, Frame, CallPcs
  <2>6. \A h \in Hooks : Drained(h) => ~Admits(f, h)
    BY <2>5, DrainedIsClosed DEF Admits, CountsFor
  <2>7. f.pc \notin DrainedPcs
    BY <2>5 DEF DrainedPcs
  <2> QED
    BY <1>a, <2>1, <2>2, <2>3, <2>5, <2>6, <2>7, FenceWrite
<1>4. ASSUME NEW t \in Threads,
             BeginCallback(t) \/ ReturnDefault(t) \/ EndCallback(t) \/ Leave(t)
      PROVE  CallbackFence'
  <2>1. PICK pc \in {"callback", "leaving", "epilogue"} : Goto(t, pc)
    BY <1>4 DEF BeginCallback, ReturnDefault, EndCallback, Leave
  <2>2. /\ Running(t) /\ UNCHANGED <<guard, memory>>
        /\ Top(t).pc \in {"entered", "callback", "leaving"}
    BY <1>4 DEF BeginCallback, ReturnDefault, EndCallback, Leave, owned
  <2>3. depth[t] \in Level /\ GoodFrame(Top(t))
    BY <1>0, <2>2, TopIsGood
  <2>4. SameKind(Top(t), pc)
    BY <2>2, <2>3 DEF GoodFrame, SameKind, CallPcs, TeardownPcs
  <2> DEFINE f == At(Top(t), pc)
  <2>5. frame' = [frame EXCEPT ![t][depth[t]] = f]
    BY <1>0, <2>1, <2>2, <2>4, GotoKeepsStack
  <2>6. f \in Frame /\ f.pc = pc /\ f.hook = Top(t).hook /\ f.late = Top(t).late
    BY <2>3, FrameIsRecord, ZenonT(60) DEF GoodFrame, At, Frame, CallPcs
  <2>7. \A h \in Hooks : Admits(f, h) => Admits(frame[t][depth[t]], h)
    BY <2>2, <2>6 DEF Admits, CountsFor, Top
  <2>8. f.pc \notin DrainedPcs
    BY <2>6 DEF DrainedPcs
  <2> QED
    BY <1>a, <2>2, <2>3, <2>5, <2>6, <2>7, <2>8, FenceWrite
<1>5. ASSUME NEW t \in Threads, Return(t) \/ RestoreFails(t) \/ Release(t)
      PROVE  CallbackFence'
  <2>1. Running(t) /\ frame' = [frame EXCEPT ![t][depth[t]] = NoFrame]
    BY <1>5 DEF Return, RestoreFails, Release, Pop
  <2>2. depth[t] \in Level
    BY <1>0, <2>1, TopIsGood
  <2>3. \A h \in Hooks : guard'[h] = "restored" \/ memory'[h] = "freed" => Drained(h)
    <3>1. CASE Return(t)
      BY <1>a, <3>1 DEF Return, owned
    <3>2. CASE RestoreFails(t)
      BY <1>a, <3>2 DEF RestoreFails, FenceInv, TypeInv, TypeOK
    <3>3. CASE Release(t)
      BY <1>a, <1>b, <3>3 DEF Release, DrainedPcs, FenceInv, TypeInv, TypeOK
    <3> QED
      BY <1>5, <3>1, <3>2, <3>3
  <2> QED
    BY <1>c, <2>1, <2>2, <2>3, FenceWrite
<1>6. ASSUME NEW t \in Threads, NEW h \in Hooks, RevertBusy(t, h) \/ DropBusy(t, h)
      PROVE  CallbackFence'
  <2>1. UNCHANGED frame
    BY <1>6 DEF RevertBusy, DropBusy, stack
  <2>2. \A k \in Hooks : guard'[k] = "restored" \/ memory'[k] = "freed" => Drained(k)
    BY <1>a, <1>6 DEF RevertBusy, DropBusy, FenceInv, TypeInv, TypeOK
  <2> QED
    BY <2>1, <2>2, FenceSameStack
<1>7. ASSUME NEW t \in Threads, NEW h \in Hooks, NEW op \in {"revert", "drop"},
             Close(t, h, op)
      PROVE  CallbackFence'
  <2> DEFINE f == [op |-> op, hook |-> h, late |-> FALSE,
                   pc |-> IF total[h] = 0 THEN "restore" ELSE "closeWait"]
  <2>1. GoodFrame(f)
    BY DEF GoodFrame, Frame, TeardownPcs
  <2>2. CanCall(t) /\ Push(t, f) /\ UNCHANGED <<guard, memory>>
    BY <1>7 DEF Close, CanTearDown, owned
  <2>3. depth[t] + 1 \in Level /\ frame' = [frame EXCEPT ![t][depth[t] + 1] = f]
    BY <1>0, <2>1, <2>2, PushKeepsStack
  <2>4. f \in Frame /\ f.hook \in Hooks
    BY <2>1 DEF GoodFrame
  <2>5. f.pc \in {"restore", "closeWait"} /\ (f.pc = "restore" => total[f.hook] = 0)
    OBVIOUS
  <2> QED
    BY <2>2, <2>3, <2>4, <2>5, FenceDrain
<1>8. ASSUME NEW t \in Threads, CloseWake(t)
      PROVE  CallbackFence'
  <2>1. CASE UNCHANGED frame
    <3>1. UNCHANGED <<guard, memory>>
      BY <1>8 DEF CloseWake, owned
    <3> QED
      BY <1>a, <2>1, <3>1, FenceSameStack
  <2>2. CASE Goto(t, "restore") /\ total[Top(t).hook] = 0
    <3> DEFINE f == At(Top(t), "restore")
    <3>1. /\ Running(t) /\ Top(t).pc = "closeWait" /\ UNCHANGED <<guard, memory>>
      BY <1>8 DEF CloseWake, owned
    <3>2. depth[t] \in Level /\ GoodFrame(Top(t))
      BY <1>0, <3>1, TopIsGood
    <3>3. SameKind(Top(t), "restore")
      BY <3>1, <3>2 DEF GoodFrame, SameKind, CallPcs, TeardownPcs
    <3>4. frame' = [frame EXCEPT ![t][depth[t]] = f]
      BY <1>0, <2>2, <3>1, <3>3, GotoKeepsStack
    <3>5. f \in Frame /\ f.pc = "restore" /\ f.hook = Top(t).hook /\ f.hook \in Hooks
      BY <3>2, FrameIsRecord, ZenonT(60) DEF GoodFrame, At, Frame, TeardownPcs
    <3> QED
      BY <2>2, <3>1, <3>2, <3>4, <3>5, FenceDrain
  <2> QED
    BY <1>8, <2>1, <2>2 DEF CloseWake, stack
<1>9. ASSUME NEW t \in Threads, NEW pc \in {"inactive", "release"}, Goto(t, pc),
             Running(t), Top(t).pc \in {"restore", "inactive"},
             \A h \in Hooks : guard'[h] = "restored" \/ memory'[h] = "freed" => Drained(h)
      PROVE  CallbackFence'
  <2> DEFINE f == At(Top(t), pc)
  <2>1. depth[t] \in Level /\ GoodFrame(Top(t))
    BY <1>0, <1>9, TopIsGood
  <2>2. SameKind(Top(t), pc)
    BY <1>9, <2>1 DEF GoodFrame, SameKind, CallPcs, TeardownPcs
  <2>3. frame' = [frame EXCEPT ![t][depth[t]] = f]
    BY <1>0, <1>9, <2>2, GotoKeepsStack
  <2>4. f \in Frame /\ f.pc = pc /\ f.hook = Top(t).hook
    BY <2>1, FrameIsRecord, ZenonT(60) DEF GoodFrame, At, Frame, TeardownPcs
  <2>5. frame[t][depth[t]].pc \in DrainedPcs /\ frame[t][depth[t]].hook = f.hook
    BY <1>9, <2>4 DEF DrainedPcs, Top
  <2>6. \A h \in Hooks : ~Admits(f, h)
    BY <1>9, <2>4 DEF Admits, CountsFor
  <2> QED
    BY <1>9, <2>1, <2>3, <2>4, <2>5, <2>6, FenceWrite
<1>10. ASSUME NEW t \in Threads, RestoreOk(t)
       PROVE  CallbackFence'
  <2>1. Running(t) /\ Top(t).pc = "restore" /\ Goto(t, "inactive")
    BY <1>10 DEF RestoreOk
  <2>2. \A h \in Hooks : guard'[h] = "restored" \/ memory'[h] = "freed" => Drained(h)
    BY <1>a, <1>b, <1>10, <2>1 DEF RestoreOk, DrainedPcs, FenceInv, TypeInv, TypeOK
  <2> QED
    BY <1>9, <2>1, <2>2
<1>11. ASSUME NEW t \in Threads, Inactive(t)
       PROVE  CallbackFence'
  <2>1. /\ Running(t) /\ Top(t).pc = "inactive" /\ UNCHANGED <<guard, memory>>
        /\ Goto(t, "release") \/ Pop(t)
    BY <1>11 DEF Inactive
  <2>2. CASE Goto(t, "release")
    BY <1>9, <1>a, <2>1, <2>2
  <2>3. CASE Pop(t)
    <3>1. depth[t] \in Level /\ frame' = [frame EXCEPT ![t][depth[t]] = NoFrame]
      BY <1>0, <2>1, <2>3, TopIsGood DEF Pop
    <3> QED
      BY <1>a, <1>c, <2>1, <3>1, FenceWrite
  <2> QED
    BY <2>1, <2>2, <2>3
<1>12. ASSUME NEW t \in Threads, InactiveWait(t)
       PROVE  CallbackFence'
  BY <1>12, <1>a, FenceSameStack DEF InactiveWait, stack, owned
<1>13. CASE UNCHANGED vars
  BY <1>13, <1>a, FenceSameStack DEF vars, stack, owned
<1> QED
  BY <1>1, <1>2, <1>3, <1>4, <1>5, <1>6, <1>7, <1>8, <1>10, <1>11, <1>12, <1>13
     DEF Next, Invoke, TearDown, Start

(* `closing` is set before a teardown gets its frame and never reset.      *)
Closes(h) == TearingDown(h) \/ guard[h] = "restored" \/ memory[h] = "freed"

LEMMA ClosedWrite ==
  ASSUME FenceInv, NEW t \in Threads, NEW d \in Level, NEW f \in Frame,
         frame' = [frame EXCEPT ![t][d] = f],
         \A h \in Hooks : closing[h] => closing'[h],
         f.op \in {"revert", "drop"} /\ f.hook \in Hooks => closing'[f.hook],
         \A h \in Hooks : guard'[h] = "restored" \/ memory'[h] = "freed" => closing'[h]
  PROVE  ClosedInv'
<1>1. \A u \in Threads, i \in Level :
        frame'[u][i] = IF u = t /\ i = d THEN f ELSE frame[u][i]
  BY SlotWrite DEF FenceInv, TypeInv, TypeOK
<1>2. ASSUME NEW h \in Hooks, TearingDown(h)'
      PROVE  closing'[h]
  <2>1. TearingDown(h) \/ (f.hook = h /\ f.op \in {"revert", "drop"})
    BY <1>1, <1>2 DEF TearingDown
  <2>2. TearingDown(h) => closing[h]
    BY DEF FenceInv, ClosedInv
  <2> QED
    BY <2>1, <2>2
<1> QED
  BY <1>2 DEF ClosedInv

LEMMA ClosedSameStack ==
  ASSUME FenceInv, UNCHANGED <<frame, closing>>,
         \A h \in Hooks : guard'[h] = "restored" \/ memory'[h] = "freed" => closing[h]
  PROVE  ClosedInv'
  BY DEF FenceInv, ClosedInv, TearingDown

LEMMA ClosedStep ==
  ASSUME FenceInv, [Next]_vars
  PROVE  ClosedInv'
<1>0. StackInv
  BY DEF FenceInv, TypeInv, TypeOK, StackInv
<1>a. \A h \in Hooks : Closes(h) => closing[h]
  BY DEF Closes, FenceInv, ClosedInv
<1>b. ASSUME NEW t \in Threads, Running(t), Top(t).op \in {"revert", "drop"}
      PROVE  closing[Top(t).hook]
  <2>1. depth[t] \in Level /\ Top(t).hook \in Hooks
    BY <1>0, <1>b, TopIsGood DEF GoodFrame
  <2> QED
    BY <1>a, <1>b, <2>1 DEF Closes, TearingDown, Top
<1>c. ASSUME NEW t \in Threads, NEW d \in Level, NEW f \in Frame,
             frame' = [frame EXCEPT ![t][d] = f], UNCHANGED closing,
             f.op \in {"call", "none"}
                \/ (Running(t) /\ f.op = Top(t).op /\ f.hook = Top(t).hook),
             \A h \in Hooks : guard'[h] = "restored" \/ memory'[h] = "freed" => closing[h]
      PROVE  ClosedInv'
  <2>1. f.op \in {"revert", "drop"} /\ f.hook \in Hooks => closing[f.hook]
    BY <1>b, <1>c
  <2> QED
    BY <1>c, <2>1, ClosedWrite
<1>d. \A h \in Hooks : guard[h] = "restored" \/ memory[h] = "freed" => closing[h]
  BY <1>a DEF Closes
<1>e. NoFrame \in Frame /\ NoFrame.op = "none"
  BY DEF NoFrame, Frame
<1>1. ASSUME NEW h \in Hooks, Install(h)
      PROVE  ClosedInv'
  BY <1>1, <1>d, ClosedSameStack DEF Install, stack, counts, FenceInv, TypeInv, TypeOK
<1>2. ASSUME NEW t \in Threads, NEW h \in Hooks, Call(t, h)
      PROVE  ClosedInv'
  <2> DEFINE f == [op |-> "call", hook |-> h, pc |-> "thunk", late |-> FALSE]
  <2>1. GoodFrame(f) /\ CanCall(t) /\ Push(t, f) /\ UNCHANGED <<closing, guard, memory>>
    BY <1>2 DEF Call, GoodFrame, Frame, CallPcs, owned, counts
  <2>2. depth[t] + 1 \in Level /\ frame' = [frame EXCEPT ![t][depth[t] + 1] = f]
    BY <1>0, <2>1, PushKeepsStack
  <2>3. f \in Frame /\ f.op \in {"call", "none"}
    BY <2>1 DEF GoodFrame
  <2> QED
    BY <1>c, <1>d, <2>1, <2>2, <2>3
<1>3. ASSUME NEW t \in Threads, Enter(t)
      PROVE  ClosedInv'
  <2> DEFINE f == EnteredFrame(Top(t))
  <2>1. Running(t) /\ UNCHANGED <<closing, guard, memory>>
    BY <1>3 DEF Enter, owned
  <2>2. depth[t] \in Level /\ GoodFrame(Top(t))
    BY <1>0, <2>1, TopIsGood
  <2>3. frame' = [frame EXCEPT ![t][depth[t]] = f]
    BY <1>3, EnterKeepsStack DEF FenceInv
  <2>4. closing[Top(t).hook] \in BOOLEAN
    BY <2>2 DEF GoodFrame, FenceInv, TypeInv, TypeOK
  <2>5. f \in Frame /\ f.op = Top(t).op /\ f.hook = Top(t).hook
    BY <2>2, <2>4, FrameIsRecord, ZenonT(60) DEF GoodFrame, EnteredFrame, Frame, CallPcs
  <2> QED
    BY <1>c, <1>d, <2>1, <2>2, <2>3, <2>5
<1>4. ASSUME NEW t \in Threads, NEW pc, Running(t), SameKind(Top(t), pc), Goto(t, pc),
             UNCHANGED closing,
             \A h \in Hooks : guard'[h] = "restored" \/ memory'[h] = "freed" => closing[h]
      PROVE  ClosedInv'
  <2> DEFINE f == At(Top(t), pc)
  <2>1. depth[t] \in Level /\ GoodFrame(Top(t))
    BY <1>0, <1>4, TopIsGood
  <2>2. frame' = [frame EXCEPT ![t][depth[t]] = f]
    BY <1>0, <1>4, GotoKeepsStack
  <2>3. pc \in CallPcs \cup TeardownPcs
    BY <1>4 DEF SameKind
  <2>4. f \in Frame /\ f.op = Top(t).op /\ f.hook = Top(t).hook
    BY <2>1, <2>3, FrameIsRecord, ZenonT(60) DEF GoodFrame, At, Frame
  <2> QED
    BY <1>c, <1>4, <2>1, <2>2, <2>4
<1>5. ASSUME NEW t \in Threads, Running(t), Pop(t), UNCHANGED closing,
             \A h \in Hooks : guard'[h] = "restored" \/ memory'[h] = "freed" => closing[h]
      PROVE  ClosedInv'
  <2>1. depth[t] \in Level /\ frame' = [frame EXCEPT ![t][depth[t]] = NoFrame]
    BY <1>0, <1>5, TopIsGood DEF Pop
  <2> QED
    BY <1>c, <1>e, <1>5, <2>1
<1>6. ASSUME NEW t \in Threads,
             BeginCallback(t) \/ ReturnDefault(t) \/ EndCallback(t) \/ Leave(t)
      PROVE  ClosedInv'
  <2>1. PICK pc \in {"callback", "leaving", "epilogue"} : Goto(t, pc)
    BY <1>6 DEF BeginCallback, ReturnDefault, EndCallback, Leave
  <2>2. /\ Running(t) /\ UNCHANGED <<closing, guard, memory>>
        /\ Top(t).pc \in {"entered", "callback", "leaving"}
    BY <1>6 DEF BeginCallback, ReturnDefault, EndCallback, Leave, owned, counts
  <2>3. SameKind(Top(t), pc)
    BY <1>0, <2>2, TopIsGood DEF GoodFrame, SameKind, CallPcs, TeardownPcs
  <2> QED
    BY <1>4, <1>d, <2>1, <2>2, <2>3
<1>7. ASSUME NEW t \in Threads, Return(t) \/ RestoreFails(t) \/ Release(t)
      PROVE  ClosedInv'
  <2>1. Running(t) /\ Pop(t) /\ UNCHANGED closing
    BY <1>7 DEF Return, RestoreFails, Release, counts
  <2>2. \A h \in Hooks : guard'[h] = "restored" \/ memory'[h] = "freed" => closing[h]
    <3>1. CASE Return(t)
      BY <1>d, <3>1 DEF Return, owned
    <3>2. CASE RestoreFails(t)
      BY <1>d, <3>2 DEF RestoreFails, FenceInv, TypeInv, TypeOK
    <3>3. CASE Release(t)
      <4>1. Top(t).op \in {"revert", "drop"}
        BY <1>0, <3>3, TopIsGood DEF Release, GoodFrame, CallPcs
      <4> QED
        BY <1>b, <1>d, <2>1, <3>3, <4>1 DEF Release, FenceInv, TypeInv, TypeOK
    <3> QED
      BY <1>7, <3>1, <3>2, <3>3
  <2> QED
    BY <1>5, <2>1, <2>2
<1>8. ASSUME NEW t \in Threads, NEW h \in Hooks, RevertBusy(t, h) \/ DropBusy(t, h)
      PROVE  ClosedInv'
  <2>1. UNCHANGED <<frame, closing>>
    BY <1>8 DEF RevertBusy, DropBusy, stack, counts
  <2>2. \A k \in Hooks : guard'[k] = "restored" \/ memory'[k] = "freed" => closing[k]
    BY <1>d, <1>8 DEF RevertBusy, DropBusy, FenceInv, TypeInv, TypeOK
  <2> QED
    BY <2>1, <2>2, ClosedSameStack
<1>9. ASSUME NEW t \in Threads, NEW h \in Hooks, NEW op \in {"revert", "drop"},
             Close(t, h, op)
      PROVE  ClosedInv'
  <2> DEFINE f == [op |-> op, hook |-> h, late |-> FALSE,
                   pc |-> IF total[h] = 0 THEN "restore" ELSE "closeWait"]
  <2>1. GoodFrame(f)
    BY DEF GoodFrame, Frame, TeardownPcs
  <2>2. CanCall(t) /\ Push(t, f) /\ UNCHANGED <<guard, memory>>
    BY <1>9 DEF Close, CanTearDown, owned
  <2>3. depth[t] + 1 \in Level /\ frame' = [frame EXCEPT ![t][depth[t] + 1] = f]
    BY <1>0, <2>1, <2>2, PushKeepsStack
  <2>4. f \in Frame /\ f.hook = h
    BY <2>1 DEF GoodFrame
  <2>5. closing'[h] /\ \A k \in Hooks : closing[k] => closing'[k]
    BY <1>9 DEF Close, FenceInv, TypeInv, TypeOK
  <2> QED
    BY <1>d, <2>2, <2>3, <2>4, <2>5, ClosedWrite
<1>10. ASSUME NEW t \in Threads, CloseWake(t) \/ RestoreOk(t) \/ Inactive(t) \/ InactiveWait(t)
       PROVE  ClosedInv'
  <2>1. /\ Running(t) /\ Top(t).pc \in {"closeWait", "restore", "inactive"}
        /\ UNCHANGED closing
    BY <1>10 DEF CloseWake, RestoreOk, Inactive, InactiveWait, counts
  <2>2. GoodFrame(Top(t)) /\ Top(t).op \in {"revert", "drop"} /\ Top(t).pc \in TeardownPcs
    BY <1>0, <2>1, TopIsGood DEF GoodFrame, CallPcs
  <2>3. \A pc \in {"restore", "inactive", "release"} : SameKind(Top(t), pc)
    BY <2>1, <2>2 DEF SameKind, CallPcs, TeardownPcs
  <2>4. \A h \in Hooks : guard'[h] = "restored" \/ memory'[h] = "freed" => closing[h]
    <3>1. CASE RestoreOk(t)
      BY <1>b, <1>d, <2>1, <2>2, <3>1 DEF RestoreOk, FenceInv, TypeInv, TypeOK
    <3>2. CASE CloseWake(t) \/ Inactive(t) \/ InactiveWait(t)
      BY <1>d, <3>2 DEF CloseWake, Inactive, InactiveWait, owned
    <3> QED
      BY <1>10, <3>1, <3>2
  <2>5. \/ \E pc \in {"restore", "inactive", "release"} : Goto(t, pc)
        \/ Pop(t)
        \/ UNCHANGED frame
    BY <1>10 DEF CloseWake, RestoreOk, Inactive, InactiveWait, stack
  <2> QED
    BY <1>4, <1>5, <2>1, <2>3, <2>4, <2>5, ClosedSameStack
<1>11. CASE UNCHANGED vars
  BY <1>11, <1>d, ClosedSameStack DEF vars, stack, counts, owned
<1> QED
  BY <1>1, <1>2, <1>3, <1>6, <1>7, <1>8, <1>9, <1>10, <1>11
     DEF Next, Invoke, TearDown, Start

LEMMA InitFence == Init => FenceInv
<1> SUFFICES ASSUME Init
             PROVE  \A h \in Hooks : ~TearingDown(h) /\ ~Drained(h) /\ guard[h] = "absent" /\ memory[h] = "absent"
  BY InitTypeInv, InitCounts DEF FenceInv, ClosedInv, CallbackFence
<1> QED
  BY DEF Init, NoFrame, TearingDown, Drained

(* Once a hook is drained no thread is in its callback or can get there,   *)
(* for any number of threads and hooks and any nesting: what revert() and  *)
(* drop() rely on when they restore the method and free the callback.      *)
THEOREM CallbackFenceHolds == Spec => []CallbackFence
<1>1. Init => FenceInv
  BY InitFence
<1>2. FenceInv /\ [Next]_vars => FenceInv'
  BY TypeInvStep, CountsStep, ClosedStep, FenceStep DEF FenceInv
<1>3. FenceInv => CallbackFence
  BY DEF FenceInv
<1> QED
  BY <1>1, <1>2, <1>3, PTL DEF Spec

-----------------------------------------------------------------------------
(* A teardown goes to sleep under the lock after it has seen total # 0,    *)
(* and the guard that brings total to 0 wakes it before the lock is free.  *)
LEMMA WakeupStep ==
  ASSUME TypeInv, NoLostWakeup, [Next]_vars
  PROVE  NoLostWakeup'
<1>0. StackInv
  BY DEF TypeInv, TypeOK, StackInv
<1>1. ASSUME NEW t \in Threads, Running(t)
      PROVE  Top(t).hook \in Hooks
  BY <1>0, <1>1, TopIsGood DEF GoodFrame
<1>2. ASSUME NEW t \in Threads, Enter(t)
      PROVE  NoLostWakeup'
  BY <1>1, <1>2 DEF Enter, NoLostWakeup, TypeInv, TypeOK
<1>3. ASSUME NEW t \in Threads, Leave(t)
      PROVE  NoLostWakeup'
  BY <1>1, <1>3 DEF Leave, NoLostWakeup, TypeInv, TypeOK
<1>4. ASSUME NEW t \in Threads, CloseWake(t) \/ InactiveWait(t)
      PROVE  NoLostWakeup'
  BY <1>1, <1>4 DEF CloseWake, InactiveWait, NoLostWakeup
<1>5. ASSUME NEW t \in Threads, NEW h \in Hooks, NEW op \in {"revert", "drop"},
             Close(t, h, op)
      PROVE  NoLostWakeup'
  BY <1>5 DEF Close, NoLostWakeup
<1>6. CASE UNCHANGED <<total, asleep>>
  BY <1>6 DEF NoLostWakeup
<1>7. ASSUME NEW t \in Threads,
             \/ BeginCallback(t) \/ ReturnDefault(t) \/ EndCallback(t) \/ Return(t)
             \/ RestoreOk(t) \/ RestoreFails(t) \/ Inactive(t) \/ Release(t)
      PROVE  UNCHANGED <<total, asleep>>
  BY <1>7 DEF BeginCallback, ReturnDefault, EndCallback, Return, RestoreOk, RestoreFails,
              Inactive, Release, counts
<1>8. ASSUME NEW t \in Threads, NEW h \in Hooks,
             Install(h) \/ Call(t, h) \/ RevertBusy(t, h) \/ DropBusy(t, h)
      PROVE  UNCHANGED <<total, asleep>>
  BY <1>8 DEF Install, Call, RevertBusy, DropBusy, counts
<1>9. ASSUME NEW h \in Hooks, Install(h)
      PROVE  UNCHANGED <<total, asleep>>
  BY <1>9 DEF Install, counts
<1>10. CASE UNCHANGED vars
  BY <1>6, <1>10 DEF vars, counts
<1> QED
  BY <1>2, <1>3, <1>4, <1>5, <1>6, <1>7, <1>8, <1>9, <1>10 DEF Next, Invoke, TearDown, Start

(* No wakeup of a teardown is lost, for any number of hooks and threads:   *)
(* the condition variable of ActiveInvocationState is used soundly.        *)
THEOREM WakeupsAreNotLost == Spec => []NoLostWakeup
<1>1. Init => TypeInv /\ NoLostWakeup
  BY InitTypeInv DEF Init, NoLostWakeup
<1>2. TypeInv /\ NoLostWakeup /\ [Next]_vars => (TypeInv /\ NoLostWakeup)'
  BY TypeInvStep, WakeupStep
<1> QED
  BY <1>1, <1>2, PTL DEF Spec

-----------------------------------------------------------------------------
(* The owner's side.  A guard is torn down by one frame at a time, which   *)
(* holds the guard, and memory and patch go with what the guard is.        *)
TearsDown(f, h) == f.hook = h /\ f.op \in {"revert", "drop"}

SoleTeardown ==
  \A h \in Hooks, t, u \in Threads, i, j \in Level :
    TearsDown(frame[t][i], h) /\ TearsDown(frame[u][j], h) => t = u /\ i = j

TeardownsHoldGuards ==
  \A h \in Hooks, t \in Threads, i \in Level :
    TearsDown(frame[t][i], h) =>
      /\ guard[h] \in {"active", "restored"}
      /\ frame[t][i].pc \in {"inactive", "release"} => guard[h] = "restored"

FramesAreOfInstalled ==
  \A h \in Hooks, t \in Threads, i \in Level :
    frame[t][i].hook = h => guard[h] # "absent"

CallbacksAreAdmitted ==
  \A t \in Threads, i \in Level : frame[t][i].pc = "callback" => ~frame[t][i].late

GuardsMatch ==
  \A h \in Hooks :
    /\ guard[h] = "absent" => memory[h] = "absent" /\ ~patched[h] /\ ~closing[h]
    /\ guard[h] = "active" => memory[h] = "live" /\ patched[h]
    /\ guard[h] = "restored" => memory[h] = "live" /\ ~patched[h]
    /\ guard[h] = "gone" => \/ memory[h] = "freed" /\ ~patched[h]
                            \/ memory[h] = "leaked"

FramesMatch == /\ SoleTeardown /\ TeardownsHoldGuards
               /\ FramesAreOfInstalled /\ CallbacksAreAdmitted
OwnerInv == FramesMatch /\ GuardsMatch

\* one slot of a stack is written
Wrote(t, d, f) == /\ d \in Level /\ f \in Frame
                  /\ frame' = [frame EXCEPT ![t][d] = f]

LEMMA WroteSlot ==
  ASSUME TypeInv, NEW t \in Threads, NEW d, NEW f, Wrote(t, d, f)
  PROVE  \A u \in Threads, i \in Level :
           frame'[u][i] = IF u = t /\ i = d THEN f ELSE frame[u][i]
  BY SlotWrite DEF Wrote, TypeInv, TypeOK

LEMMA EmptyFrame ==
  /\ NoFrame \in Frame
  /\ NoFrame.pc = "idle" /\ NoFrame.op = "none" /\ NoFrame.hook \notin Hooks
  BY NoneIsNoHook DEF NoFrame, Frame

LEMMA RunningTop ==
  ASSUME TypeInv, NEW t \in Threads, Running(t)
  PROVE  /\ depth[t] \in Level /\ Top(t) = frame[t][depth[t]]
         /\ Top(t) \in Frame /\ Top(t).hook \in Hooks
         /\ Top(t).pc \in TeardownPcs => TearsDown(Top(t), Top(t).hook)
         /\ Top(t).pc \in CallPcs => Top(t).op = "call"
<1>1. StackInv
  BY DEF TypeInv, TypeOK, StackInv
<1> QED
  BY <1>1, TopIsGood DEF GoodFrame, Top, TearsDown, CallPcs, TeardownPcs

\* what Goto writes
LEMMA GotoWrites ==
  ASSUME TypeInv, NEW t \in Threads, Running(t), NEW pc, SameKind(Top(t), pc), Goto(t, pc)
  PROVE  LET f == At(Top(t), pc) IN
         /\ Wrote(t, depth[t], f)
         /\ f.hook = Top(t).hook /\ f.op = Top(t).op /\ f.late = Top(t).late /\ f.pc = pc
<1>1. StackInv
  BY DEF TypeInv, TypeOK, StackInv
<1>2. frame' = [frame EXCEPT ![t][depth[t]] = At(Top(t), pc)]
  BY <1>1, GotoKeepsStack
<1>3. pc \in CallPcs \cup TeardownPcs
  BY DEF SameKind
<1>4. At(Top(t), pc) \in Frame
  BY <1>3, RunningTop, FrameIsRecord DEF At
<1> QED
  BY <1>2, <1>3, <1>4, RunningTop DEF Wrote, At, Frame

LEMMA PopWrites ==
  ASSUME TypeInv, NEW t \in Threads, Running(t), Pop(t)
  PROVE  Wrote(t, depth[t], NoFrame)
  BY RunningTop, EmptyFrame DEF Pop, Wrote

\* what a call and the beginning of a teardown write
CallFrame(h) == [op |-> "call", hook |-> h, pc |-> "thunk", late |-> FALSE]
CloseFrame(h, op) == [op |-> op, hook |-> h, late |-> FALSE,
                      pc |-> IF total[h] = 0 THEN "restore" ELSE "closeWait"]

LEMMA PushWrites ==
  ASSUME TypeInv, NEW t \in Threads, CanCall(t), NEW f, GoodFrame(f), Push(t, f)
  PROVE  Wrote(t, depth[t] + 1, f) /\ frame[t][depth[t] + 1] = NoFrame
<1>1. StackInv
  BY DEF TypeInv, TypeOK, StackInv
<1> QED
  BY <1>1, PushKeepsStack DEF Wrote, GoodFrame

LEMMA CallWrites ==
  ASSUME TypeInv, NEW t \in Threads, NEW h \in Hooks, Call(t, h)
  PROVE  Wrote(t, depth[t] + 1, CallFrame(h)) /\ frame[t][depth[t] + 1] = NoFrame
<1>1. GoodFrame(CallFrame(h))
  BY DEF GoodFrame, CallFrame, Frame, CallPcs
<1> QED
  BY <1>1, PushWrites DEF Call, CallFrame

LEMMA CloseWrites ==
  ASSUME TypeInv, NEW t \in Threads, NEW h \in Hooks, NEW op \in {"revert", "drop"},
         Close(t, h, op)
  PROVE  Wrote(t, depth[t] + 1, CloseFrame(h, op)) /\ frame[t][depth[t] + 1] = NoFrame
<1>1. GoodFrame(CloseFrame(h, op))
  BY DEF GoodFrame, CloseFrame, Frame, TeardownPcs
<1> QED
  BY <1>1, PushWrites DEF Close, CanTearDown, CloseFrame

LEMMA EnterWrites ==
  ASSUME TypeInv, NEW t \in Threads, Enter(t)
  PROVE  LET f == EnteredFrame(Top(t)) IN
         /\ Wrote(t, depth[t], f)
         /\ f.hook = Top(t).hook /\ f.op = "call" /\ f.pc = "entered"
         /\ f.late = closing[f.hook]
<1>1. /\ Running(t) /\ Top(t).pc = "thunk"
      /\ frame' = [frame EXCEPT ![t][depth[t]] = EnteredFrame(Top(t))]
  BY EnterKeepsStack DEF Enter
<1>2. closing[Top(t).hook] \in BOOLEAN
  BY <1>1, RunningTop DEF TypeInv, TypeOK
<1>3. EnteredFrame(Top(t)) \in Frame
  BY <1>1, <1>2, RunningTop, FrameIsRecord DEF EnteredFrame, CallPcs
<1> QED
  BY <1>1, <1>2, <1>3, RunningTop DEF Wrote, EnteredFrame, Frame, CallPcs

-----------------------------------------------------------------------------
(* A write keeps the frames and the guards in step when a teardown is      *)
(* begun only where there is none, and a guard changed only by the frame   *)
(* that tears it down.                                                     *)
LEMMA FramesWrite ==
  ASSUME TypeInv, FramesMatch, NEW t \in Threads, NEW d, NEW f, Wrote(t, d, f),
         \A h \in Hooks : TearsDown(f, h) =>
           /\ TearsDown(frame[t][d], h) \/ ~TearingDown(h)
           /\ guard'[h] \in {"active", "restored"}
           /\ f.pc \in {"inactive", "release"} => guard'[h] = "restored",
         \A h \in Hooks : guard'[h] = guard[h] \/
           (TearsDown(frame[t][d], h) /\ guard'[h] # "absent"),
         \A h \in Hooks : f.hook = h => guard'[h] # "absent",
         f.pc = "callback" => ~f.late
  PROVE  FramesMatch'
<1>0. \A u \in Threads, i \in Level :
        frame'[u][i] = IF u = t /\ i = d THEN f ELSE frame[u][i]
  BY WroteSlot
<1>1. d \in Level /\ \A u \in Threads, i \in Level :
        frame'[u][i] = IF u = t /\ i = d THEN f ELSE frame[u][i]
  BY <1>0 DEF Wrote
<1>2. SoleTeardown'
  <2> SUFFICES ASSUME NEW h \in Hooks, NEW u \in Threads, NEW v \in Threads,
                      NEW i \in Level, NEW j \in Level,
                      TearsDown(frame'[u][i], h), TearsDown(frame'[v][j], h)
               PROVE  u = v /\ i = j
    BY DEF SoleTeardown, TearsDown
  <2>1. ASSUME NEW w \in Threads, NEW k \in Level, TearsDown(frame[w][k], h)
        PROVE  TearingDown(h)
    BY <2>1 DEF TearsDown, TearingDown
  <2>2. \A w \in Threads, k \in Level :
          TearsDown(frame[t][d], h) /\ TearsDown(frame[w][k], h) => w = t /\ k = d
    BY <1>1 DEF FramesMatch, SoleTeardown
  <2>3. CASE u = t /\ i = d
    BY <1>1, <2>1, <2>2, <2>3
  <2>4. CASE v = t /\ j = d
    BY <1>1, <2>1, <2>2, <2>4
  <2>5. CASE ~(u = t /\ i = d) /\ ~(v = t /\ j = d)
    BY <1>1, <2>5 DEF FramesMatch, SoleTeardown
  <2> QED
    BY <2>3, <2>4, <2>5
<1>3. TeardownsHoldGuards'
  <2> SUFFICES ASSUME NEW h \in Hooks, NEW u \in Threads, NEW i \in Level,
                      TearsDown(frame'[u][i], h)
               PROVE  /\ guard'[h] \in {"active", "restored"}
                      /\ frame'[u][i].pc \in {"inactive", "release"} => guard'[h] = "restored"
    BY DEF TeardownsHoldGuards, TearsDown
  <2>1. CASE u = t /\ i = d
    BY <1>1, <2>1
  <2>2. CASE ~(u = t /\ i = d)
    <3>1. TearsDown(frame[u][i], h) /\ frame'[u][i] = frame[u][i]
      BY <1>1, <2>2
    <3>2. ~TearsDown(frame[t][d], h)
      BY <1>1, <2>2, <3>1 DEF FramesMatch, SoleTeardown
    <3> QED
      BY <3>1, <3>2 DEF FramesMatch, TeardownsHoldGuards
  <2> QED
    BY <2>1, <2>2
<1>4. FramesAreOfInstalled'
  BY <1>1 DEF FramesMatch, FramesAreOfInstalled
<1>5. CallbacksAreAdmitted'
  BY <1>1 DEF FramesMatch, CallbacksAreAdmitted
<1> QED
  BY <1>2, <1>3, <1>4, <1>5 DEF FramesMatch

\* the same for steps that leave the stack alone
LEMMA FramesSameStack ==
  ASSUME FramesMatch, UNCHANGED frame,
         \A h \in Hooks : \/ guard'[h] = guard[h]
                          \/ guard'[h] # "absent" /\ ~TearingDown(h)
  PROVE  FramesMatch'
<1>1. \A h \in Hooks, t \in Threads, i \in Level :
        TearsDown(frame[t][i], h) => TearingDown(h)
  BY DEF TearsDown, TearingDown
<1>2. SoleTeardown' /\ CallbacksAreAdmitted'
  BY DEF FramesMatch, SoleTeardown, TearsDown, CallbacksAreAdmitted
<1>3. TeardownsHoldGuards'
  BY <1>1 DEF FramesMatch, TeardownsHoldGuards, TearsDown
<1>4. FramesAreOfInstalled'
  BY DEF FramesMatch, FramesAreOfInstalled
<1> QED
  BY <1>2, <1>3, <1>4 DEF FramesMatch

LEMMA FramesStep ==
  ASSUME TypeInv, OwnerInv, [Next]_vars
  PROVE  FramesMatch'
<1>0. FramesMatch
  BY DEF OwnerInv
<1>a. \A f : f.op = "call" => \A h : ~TearsDown(f, h)
  BY DEF TearsDown
<1>b. ASSUME NEW t \in Threads, Running(t)
      PROVE  /\ guard[Top(t).hook] # "absent"
             /\ Top(t).pc \in TeardownPcs => guard[Top(t).hook] \in {"active", "restored"}
             /\ Top(t).pc \in {"inactive", "release"} => guard[Top(t).hook] = "restored"
  BY <1>0, <1>b, RunningTop
     DEF FramesMatch, FramesAreOfInstalled, TeardownsHoldGuards, TeardownPcs
<1>1. ASSUME NEW h \in Hooks, Install(h)
      PROVE  FramesMatch'
  <2>1. UNCHANGED frame /\ guard' = [guard EXCEPT ![h] = "active"] /\ guard[h] = "absent"
    BY <1>1 DEF Install, stack
  <2>2. ~TearingDown(h)
    BY <1>0, <2>1 DEF FramesMatch, FramesAreOfInstalled, TearingDown
  <2> QED
    BY <1>0, <2>1, <2>2, FramesSameStack DEF TypeInv, TypeOK
<1>2. ASSUME NEW t \in Threads, NEW h \in Hooks, Call(t, h)
      PROVE  FramesMatch'
  <2>1. Wrote(t, depth[t] + 1, CallFrame(h)) /\ UNCHANGED guard /\ guard[h] # "absent"
    BY <1>2, CallWrites DEF Call, owned, OwnerInv, GuardsMatch
  <2>2. CallFrame(h).op = "call" /\ CallFrame(h).hook = h /\ CallFrame(h).pc = "thunk"
    BY DEF CallFrame
  <2> QED
    BY <1>0, <1>a, <2>1, <2>2, FramesWrite
<1>3. ASSUME NEW t \in Threads, Enter(t)
      PROVE  FramesMatch'
  <2> DEFINE f == EnteredFrame(Top(t))
  <2>1. /\ Wrote(t, depth[t], f) /\ f.hook = Top(t).hook /\ f.op = "call" /\ f.pc = "entered"
        /\ UNCHANGED guard /\ Running(t)
    BY <1>3, EnterWrites DEF Enter, owned
  <2>2. guard[f.hook] # "absent"
    BY <1>b, <2>1
  <2> QED
    BY <1>0, <1>a, <2>1, <2>2, FramesWrite
<1>4. ASSUME NEW t \in Threads,
             BeginCallback(t) \/ ReturnDefault(t) \/ EndCallback(t) \/ Leave(t)
      PROVE  FramesMatch'
  <2>1. PICK pc \in {"callback", "leaving", "epilogue"} :
          Goto(t, pc) /\ (pc = "callback" => ~Top(t).late)
    BY <1>4 DEF BeginCallback, ReturnDefault, EndCallback, Leave
  <2>2. /\ Running(t) /\ UNCHANGED guard
        /\ Top(t).pc \in {"entered", "callback", "leaving"}
    BY <1>4 DEF BeginCallback, ReturnDefault, EndCallback, Leave, owned
  <2>3. Top(t).op = "call" /\ SameKind(Top(t), pc)
    BY <2>2, RunningTop DEF SameKind, CallPcs
  <2> DEFINE f == At(Top(t), pc)
  <2>4. /\ Wrote(t, depth[t], f)
        /\ f.hook = Top(t).hook /\ f.op = "call" /\ f.late = Top(t).late /\ f.pc = pc
    BY <2>1, <2>2, <2>3, GotoWrites
  <2>5. guard[f.hook] # "absent"
    BY <1>b, <2>2, <2>4
  <2> QED
    BY <1>0, <1>a, <2>1, <2>2, <2>4, <2>5, FramesWrite
<1>5. ASSUME NEW t \in Threads, Return(t) \/ RestoreFails(t) \/ Release(t)
      PROVE  FramesMatch'
  <2>1. Running(t) /\ Pop(t)
    BY <1>5 DEF Return, RestoreFails, Release
  <2>2. Wrote(t, depth[t], NoFrame)
    BY <2>1, PopWrites
  <2>3. \A h \in Hooks : guard'[h] = guard[h] \/ (TearsDown(frame[t][depth[t]], h) /\ guard'[h] # "absent")
    <3>1. CASE Return(t)
      BY <3>1 DEF Return, owned
    <3>2. CASE RestoreFails(t) \/ Release(t)
      <4>1. Top(t).pc \in TeardownPcs
        BY <3>2 DEF RestoreFails, Release, TeardownPcs
      <4>2. UNCHANGED guard \/ guard' = [guard EXCEPT ![Top(t).hook] = "gone"]
        BY <3>2 DEF RestoreFails, Release
      <4> QED
        BY <2>1, <4>1, <4>2, RunningTop DEF TypeInv, TypeOK
    <3> QED
      BY <1>5, <3>1, <3>2
  <2>4. NoFrame.pc # "callback" /\ \A h \in Hooks : NoFrame.hook # h /\ ~TearsDown(NoFrame, h)
    BY EmptyFrame DEF TearsDown
  <2> QED
    BY <1>0, <2>2, <2>3, <2>4, FramesWrite
<1>6. ASSUME NEW t \in Threads, NEW h \in Hooks, RevertBusy(t, h) \/ DropBusy(t, h)
      PROVE  FramesMatch'
  <2>1. /\ UNCHANGED frame /\ ~TearingDown(h)
        /\ UNCHANGED guard \/ guard' = [guard EXCEPT ![h] = "gone"]
    BY <1>6 DEF RevertBusy, DropBusy, stack
  <2> QED
    BY <1>0, <2>1, FramesSameStack DEF TypeInv, TypeOK
<1>7. ASSUME NEW t \in Threads, NEW h \in Hooks, NEW op \in {"revert", "drop"},
             Close(t, h, op)
      PROVE  FramesMatch'
  <2> DEFINE f == CloseFrame(h, op)
  <2>1. /\ Wrote(t, depth[t] + 1, f) /\ UNCHANGED guard
        /\ guard[h] \in {"active", "restored"} /\ ~TearingDown(h)
    BY <1>7, CloseWrites DEF Close, owned
  <2>2. f.hook = h /\ f.pc \in {"restore", "closeWait"}
    BY DEF CloseFrame
  <2>3. \A k : TearsDown(f, k) => k = h
    BY <2>2 DEF TearsDown
  <2> QED
    BY <1>0, <2>1, <2>2, <2>3, FramesWrite
<1>8. ASSUME NEW t \in Threads, NEW pc \in TeardownPcs, Running(t), Goto(t, pc),
             Top(t).pc \in TeardownPcs,
             guard'[Top(t).hook] \in {"active", "restored"},
             pc \in {"inactive", "release"} => guard'[Top(t).hook] = "restored",
             \A h \in Hooks : guard'[h] = guard[h] \/ h = Top(t).hook
      PROVE  FramesMatch'
  <2> DEFINE f == At(Top(t), pc)
  <2>1. TearsDown(Top(t), Top(t).hook) /\ SameKind(Top(t), pc)
    BY <1>8, RunningTop DEF TearsDown, SameKind
  <2>2. Wrote(t, depth[t], f) /\ f.hook = Top(t).hook /\ f.op = Top(t).op /\ f.pc = pc
    BY <1>8, <2>1, GotoWrites
  <2>3. \A h : TearsDown(f, h) <=> h = Top(t).hook
    BY <2>1, <2>2 DEF TearsDown
  <2>4. pc # "callback"
    BY DEF TeardownPcs
  <2>5. \A h \in Hooks : guard'[h] = guard[h] \/
          (TearsDown(frame[t][depth[t]], h) /\ guard'[h] # "absent")
    BY <1>8, <2>1, RunningTop
  <2>6. \A h \in Hooks : TearsDown(f, h) => TearsDown(frame[t][depth[t]], h)
    BY <1>8, <2>1, <2>3, RunningTop
  <2>7. \A h \in Hooks : f.hook = h => guard'[h] # "absent"
    BY <1>8, <2>2
  <2>8. \A h \in Hooks : TearsDown(f, h) =>
           /\ TearsDown(frame[t][depth[t]], h) \/ ~TearingDown(h)
           /\ guard'[h] \in {"active", "restored"}
           /\ f.pc \in {"inactive", "release"} => guard'[h] = "restored"
    BY <1>8, <2>2, <2>3, <2>6
  <2> QED
    BY <1>0, <2>2, <2>4, <2>5, <2>7, <2>8, FramesWrite
<1>9. ASSUME NEW t \in Threads, CloseWake(t) \/ RestoreOk(t) \/ Inactive(t) \/ InactiveWait(t)
      PROVE  FramesMatch'
  <2>1. Running(t) /\ Top(t).pc \in TeardownPcs /\ Top(t).hook \in Hooks
    BY <1>9, RunningTop DEF CloseWake, RestoreOk, Inactive, InactiveWait, TeardownPcs
  <2>2. CASE RestoreOk(t)
    <3>1. Goto(t, "inactive") /\ guard' = [guard EXCEPT ![Top(t).hook] = "restored"]
      BY <2>2 DEF RestoreOk
    <3>2. guard'[Top(t).hook] = "restored" /\ \A h \in Hooks : guard'[h] = guard[h] \/ h = Top(t).hook
      BY <2>1, <3>1 DEF TypeInv, TypeOK
    <3>3. "inactive" \in TeardownPcs
      BY DEF TeardownPcs
    <3> QED
      BY <1>8, <2>1, <3>1, <3>2, <3>3
  <2>3. CASE Inactive(t) /\ Pop(t)
    <3>1. UNCHANGED guard /\ Wrote(t, depth[t], NoFrame)
      BY <2>1, <2>3, PopWrites DEF Inactive
    <3>2. NoFrame.pc # "callback" /\ \A h \in Hooks : NoFrame.hook # h /\ ~TearsDown(NoFrame, h)
      BY EmptyFrame DEF TearsDown
    <3> QED
      BY <1>0, <3>1, <3>2, FramesWrite
  <2>4. CASE Inactive(t) /\ Goto(t, "release")
    <3>1. UNCHANGED guard /\ guard[Top(t).hook] = "restored"
      BY <1>b, <2>1, <2>4 DEF Inactive
    <3>2. "release" \in TeardownPcs
      BY DEF TeardownPcs
    <3> QED
      BY <1>8, <2>1, <2>4, <3>1, <3>2
  <2>5. CASE CloseWake(t) /\ Goto(t, "restore")
    <3>1. UNCHANGED guard
      BY <2>5 DEF CloseWake, owned
    <3>2. "restore" \in TeardownPcs
      BY DEF TeardownPcs
    <3> QED
      BY <1>8, <1>b, <2>1, <2>5, <3>1, <3>2
  <2>6. CASE UNCHANGED <<frame, guard>>
    BY <1>0, <2>6, FramesSameStack
  <2> QED
    BY <1>9, <2>2, <2>3, <2>4, <2>5, <2>6 DEF CloseWake, Inactive, InactiveWait, stack, owned
<1>10. CASE UNCHANGED vars
  BY <1>0, <1>10, FramesSameStack DEF vars, stack, owned
<1> QED
  BY <1>1, <1>2, <1>3, <1>4, <1>5, <1>6, <1>7, <1>9, <1>10
     DEF Next, Invoke, TearDown, Start

LEMMA GuardsStep ==
  ASSUME TypeInv, OwnerInv, [Next]_vars
  PROVE  GuardsMatch'
<1> USE DEF GuardsMatch
<1>0. GuardsMatch /\ FramesMatch
  BY DEF OwnerInv
<1>a. ASSUME NEW t \in Threads, Running(t)
      PROVE  /\ Top(t).hook \in Hooks
             /\ Top(t).pc \in TeardownPcs => guard[Top(t).hook] \in {"active", "restored"}
             /\ Top(t).pc \in {"inactive", "release"} => guard[Top(t).hook] = "restored"
  BY <1>0, <1>a, RunningTop DEF FramesMatch, TeardownsHoldGuards, TeardownPcs
<1>1. ASSUME NEW h \in Hooks, Install(h)
      PROVE  GuardsMatch'
  BY <1>0, <1>1 DEF Install, counts, TypeInv, TypeOK
<1>2. CASE UNCHANGED <<guard, memory, patched, closing>>
  BY <1>0, <1>2
<1>3. ASSUME NEW t \in Threads, NEW h \in Hooks, NEW op \in {"revert", "drop"},
             Close(t, h, op)
      PROVE  GuardsMatch'
  BY <1>0, <1>3 DEF Close, owned, TypeInv, TypeOK
<1>4. ASSUME NEW t \in Threads, NEW h \in Hooks, DropBusy(t, h)
      PROVE  GuardsMatch'
  BY <1>0, <1>4 DEF DropBusy, counts, TypeInv, TypeOK
<1>5. ASSUME NEW t \in Threads, RestoreOk(t)
      PROVE  GuardsMatch'
  <2>1. Top(t).hook \in Hooks /\ guard[Top(t).hook] \in {"active", "restored"}
    BY <1>a, <1>5 DEF RestoreOk, TeardownPcs
  <2> QED
    BY <1>0, <1>5, <2>1 DEF RestoreOk, counts, TypeInv, TypeOK
<1>6. ASSUME NEW t \in Threads, RestoreFails(t)
      PROVE  GuardsMatch'
  <2>1. Top(t).hook \in Hooks
    BY <1>a, <1>6 DEF RestoreFails
  <2>2. /\ UNCHANGED <<patched, closing>>
        /\ \/ UNCHANGED <<guard, memory>>
           \/ /\ guard' = [guard EXCEPT ![Top(t).hook] = "gone"]
              /\ memory' = [memory EXCEPT ![Top(t).hook] = "leaked"]
    BY <1>6 DEF RestoreFails, counts
  <2> QED
    BY <1>0, <2>1, <2>2 DEF TypeInv, TypeOK
<1>7. ASSUME NEW t \in Threads, Release(t)
      PROVE  GuardsMatch'
  <2>1. Top(t).hook \in Hooks /\ guard[Top(t).hook] = "restored"
    BY <1>a, <1>7 DEF Release
  <2> QED
    BY <1>0, <1>7, <2>1 DEF Release, counts, TypeInv, TypeOK
<1>8. ASSUME NEW t \in Threads, NEW h \in Hooks,
             \/ Enter(t) \/ BeginCallback(t) \/ ReturnDefault(t) \/ EndCallback(t)
             \/ Leave(t) \/ Return(t) \/ CloseWake(t) \/ InactiveWait(t) \/ Inactive(t)
             \/ Call(t, h) \/ RevertBusy(t, h)
      PROVE  UNCHANGED <<guard, memory, patched, closing>>
  BY <1>8 DEF Enter, BeginCallback, ReturnDefault, EndCallback, Leave, Return, CloseWake,
              InactiveWait, Inactive, Call, RevertBusy, counts, owned
<1>9. ASSUME NEW t \in Threads, Invoke(t) \/ CloseWake(t) \/ InactiveWait(t) \/ Inactive(t)
      PROVE  UNCHANGED <<guard, memory, patched, closing>>
  BY <1>9 DEF Invoke, Enter, BeginCallback, ReturnDefault, EndCallback, Leave, Return,
              CloseWake, InactiveWait, Inactive, counts, owned
<1>10. CASE UNCHANGED vars
  BY <1>2, <1>10 DEF vars, counts, owned
<1> QED
  BY <1>1, <1>2, <1>3, <1>4, <1>5, <1>6, <1>7, <1>8, <1>9, <1>10
     DEF Next, TearDown, Start

LEMMA InitOwner == Init => OwnerInv
  BY EmptyFrame DEF Init, OwnerInv, FramesMatch, GuardsMatch, SoleTeardown,
     TeardownsHoldGuards, FramesAreOfInstalled, CallbacksAreAdmitted, TearsDown

LEMMA OwnerInvariant == Spec => [](FenceInv /\ OwnerInv)
<1>1. Init => FenceInv /\ OwnerInv
  BY InitFence, InitOwner
<1>2. FenceInv /\ OwnerInv /\ [Next]_vars => (FenceInv /\ OwnerInv)'
  BY TypeInvStep, CountsStep, ClosedStep, FenceStep, FramesStep, GuardsStep
     DEF FenceInv, OwnerInv
<1> QED
  BY <1>1, <1>2, PTL DEF Spec

(* While ART dispatches a method to its thunk, thunk and callback state    *)
(* are mapped, through every failed restore and every drop from inside of  *)
(* the callback, for any number of hooks and threads.                      *)
THEOREM PatchedStaysMapped == Spec => []PatchedMeansMapped
<1>1. TypeInv /\ OwnerInv => PatchedMeansMapped
  BY DEF TypeInv, TypeOK, OwnerInv, GuardsMatch, PatchedMeansMapped
<1> QED
  BY <1>1, OwnerInvariant, PTL DEF FenceInv

-----------------------------------------------------------------------------
(* The refinement.  A hook is quiet in the contract's sense while a frame  *)
(* stands between its drain and its restore.                               *)
AtRestore(f, h) == f.hook = h /\ f.pc = "restore"
Quiet(h) == \E t \in Threads, i \in Level : AtRestore(frame[t][i], h)

PhaseIs(g, m, quiet, closed) ==
  IF g = "absent" THEN "absent"
  ELSE IF m = "freed" THEN "freed"
  ELSE IF g = "restored" THEN "restored"
  ELSE IF quiet THEN "quiet"
  ELSE IF closed THEN "draining" ELSE "open"

LEMMA PhaseOfHook ==
  ASSUME NEW h
  PROVE  /\ Phase(h) = PhaseIs(guard[h], memory[h], Quiet(h), closing[h])
         /\ Phase(h)' = PhaseIs(guard'[h], memory'[h], Quiet(h)', closing'[h])
  BY DEF Phase, PhaseIs, Quiet, AtRestore

\* what a write does to the callbacks and to the quiet hooks
LEMMA AdmittedWrite ==
  ASSUME TypeInv, NEW t \in Threads, NEW d, NEW f, Wrote(t, d, f), NEW h
  PROVE  Admitted(h)' = IF Admits(f, h) THEN Admitted(h) \cup {<<t, d>>}
                                        ELSE Admitted(h) \ {<<t, d>>}
<1>1. /\ d \in Level
      /\ \A u \in Threads, i \in Level :
           frame'[u][i] = IF u = t /\ i = d THEN f ELSE frame[u][i]
  <2>1. \A u \in Threads, i \in Level :
           frame'[u][i] = IF u = t /\ i = d THEN f ELSE frame[u][i]
    BY WroteSlot
  <2> QED
    BY <2>1 DEF Wrote
<1>2. Admitted(h) = {p \in Threads \X Level : Admits(frame[p[1]][p[2]], h)}
  BY DEF Admitted, Counted, Admits
<1>3. Admitted(h)' = {p \in Threads \X Level : Admits(frame'[p[1]][p[2]], h)}
  BY DEF Admitted, Counted, Admits, CountsFor
<1>4. \A p \in Threads \X Level :
        Admits(frame'[p[1]][p[2]], h) <=>
          IF p = <<t, d>> THEN Admits(f, h) ELSE Admits(frame[p[1]][p[2]], h)
  <2> TAKE p \in Threads \X Level
  <2>1. PICK u \in Threads, i \in Level : p = <<u, i>>
    OBVIOUS
  <2> QED
    BY <1>1, <2>1
<1> QED
  BY <1>1, <1>2, <1>3, <1>4

LEMMA QuietWrite ==
  ASSUME TypeInv, NEW t \in Threads, NEW d, NEW f, Wrote(t, d, f), NEW h
  PROVE  /\ AtRestore(f, h) => Quiet(h)'
         /\ ~AtRestore(f, h) /\ ~AtRestore(frame[t][d], h) => Quiet(h)' = Quiet(h)
<1>1. /\ d \in Level
      /\ \A u \in Threads, i \in Level :
           frame'[u][i] = IF u = t /\ i = d THEN f ELSE frame[u][i]
  <2>1. \A u \in Threads, i \in Level :
           frame'[u][i] = IF u = t /\ i = d THEN f ELSE frame[u][i]
    BY WroteSlot
  <2> QED
    BY <2>1 DEF Wrote
<1> QED
  BY <1>1 DEF Quiet, AtRestore

\* a quiet hook is being torn down
LEMMA QuietTearsDown ==
  ASSUME TypeInv, NEW h \in Hooks, NEW t \in Threads, NEW i \in Level,
         AtRestore(frame[t][i], h)
  PROVE  TearsDown(frame[t][i], h) /\ TearingDown(h)
<1>1. i \in Nat /\ depth[t] \in Nat
  BY BoundsAreNat DEF Level, TypeInv, TypeOK
<1>2. frame[t][i].pc = "restore" /\ frame[t][i].hook = h
  BY DEF AtRestore
<1>3. i <= depth[t]
  BY <1>1, <1>2 DEF TypeInv, StackShape, NoFrame
<1>4. frame[t][i].op \in {"revert", "drop"}
  BY <1>2, <1>3 DEF TypeInv, StackShape, CallPcs
<1> QED
  BY <1>2, <1>4 DEF TearsDown, TearingDown

\* when the one frame that tears a hook down leaves, nothing is quiet
LEMMA QuietEnds ==
  ASSUME TypeInv, OwnerInv, NEW t \in Threads, NEW d, NEW f, Wrote(t, d, f),
         NEW h \in Hooks, TearsDown(frame[t][d], h), ~AtRestore(f, h)
  PROVE  ~Quiet(h)'
<1>1. /\ d \in Level
      /\ \A u \in Threads, i \in Level :
           frame'[u][i] = IF u = t /\ i = d THEN f ELSE frame[u][i]
  <2>1. \A u \in Threads, i \in Level :
           frame'[u][i] = IF u = t /\ i = d THEN f ELSE frame[u][i]
    BY WroteSlot
  <2> QED
    BY <2>1 DEF Wrote
<1>2. ASSUME NEW u \in Threads, NEW i \in Level, AtRestore(frame'[u][i], h)
      PROVE  FALSE
  <2>1. ~(u = t /\ i = d) /\ AtRestore(frame[u][i], h)
    BY <1>1, <1>2
  <2>2. TearsDown(frame[u][i], h)
    BY <2>1, QuietTearsDown
  <2> QED
    BY <1>1, <2>1, <2>2 DEF OwnerInv, FramesMatch, SoleTeardown
<1> QED
  BY <1>2 DEF Quiet, AtRestore

-----------------------------------------------------------------------------
\* a hook as the contract sees it
SameHook(h) == Phase(h)' = Phase(h) /\ Admitted(h)' = Admitted(h)
OthersStay(h) == \A k \in Hooks \ {h} : SameHook(k)
ContractStep == [Contract!Next]_Contract!vars

LEMMA ContractStutters ==
  ASSUME \A h \in Hooks : SameHook(h)
  PROVE  ContractStep
  BY DEF SameHook, ContractStep, Contract!vars

LEMMA ContractMoves ==
  ASSUME NEW h \in Hooks, OthersStay(h), Admitted(h)' = Admitted(h),
         \/ Phase(h)' = Phase(h)
         \/ Phase(h) = "absent" /\ Phase(h)' = "open"
         \/ Phase(h) = "open" /\ Phase(h)' = "draining"
         \/ Phase(h) \in {"open", "draining"} /\ Phase(h)' = "quiet" /\ Admitted(h) = {}
         \/ Phase(h) = "quiet" /\ Phase(h)' \in {"draining", "restored"}
         \/ Phase(h) = "restored" /\ Phase(h)' = "freed"
  PROVE  ContractStep
<1> DEFINE phase == [k \in Hooks |-> Phase(k)]
           running == [k \in Hooks |-> Admitted(k)]
<1>1. running' = running
  BY DEF OthersStay, SameHook
<1>2. phase' = [phase EXCEPT ![h] = Phase(h)']
  BY DEF OthersStay, SameHook
<1>3. CASE Phase(h)' = Phase(h)
  BY <1>3, ContractStutters DEF OthersStay, SameHook
<1>4. ASSUME NEW from, NEW to, Phase(h) \in from, Phase(h)' = to
      PROVE  Contract!Move(h, from, to)
  BY <1>1, <1>2, <1>4 DEF Contract!Move
<1>5. ASSUME \/ Contract!Install(h) \/ Contract!Close(h) \/ Contract!Quiesce(h)
             \/ Contract!RestoreFails(h) \/ Contract!Restore(h) \/ Contract!Free(h)
      PROVE  ContractStep
  BY <1>5 DEF ContractStep, Contract!Next
<1>6. CASE Phase(h) = "absent" /\ Phase(h)' = "open"
  BY <1>4, <1>5, <1>6 DEF Contract!Install
<1>7. CASE Phase(h) = "open" /\ Phase(h)' = "draining"
  BY <1>4, <1>5, <1>7 DEF Contract!Close
<1>8. CASE Phase(h) \in {"open", "draining"} /\ Phase(h)' = "quiet" /\ Admitted(h) = {}
  BY <1>4, <1>5, <1>8 DEF Contract!Quiesce
<1>9. CASE Phase(h) = "quiet" /\ Phase(h)' = "draining"
  BY <1>4, <1>5, <1>9 DEF Contract!RestoreFails
<1>10. CASE Phase(h) = "quiet" /\ Phase(h)' = "restored"
  BY <1>4, <1>5, <1>10 DEF Contract!Restore
<1>11. CASE Phase(h) = "restored" /\ Phase(h)' = "freed"
  BY <1>4, <1>5, <1>11 DEF Contract!Free
<1> QED
  BY <1>3, <1>6, <1>7, <1>8, <1>9, <1>10, <1>11

LEMMA ContractRuns ==
  ASSUME NEW h \in Hooks, OthersStay(h), Phase(h)' = Phase(h),
         NEW i \in Threads \X Level,
         \/ Admitted(h)' = Admitted(h) \cup {i} /\ i \notin Admitted(h) /\ Phase(h) = "open"
         \/ Admitted(h)' = Admitted(h) \ {i}
  PROVE  ContractStep
<1> DEFINE phase == [k \in Hooks |-> Phase(k)]
           running == [k \in Hooks |-> Admitted(k)]
<1>1. phase' = phase
  BY DEF OthersStay, SameHook
<1>2. running' = [running EXCEPT ![h] = Admitted(h)']
  BY DEF OthersStay, SameHook
<1>3. CASE Admitted(h)' = Admitted(h) \cup {i} /\ i \notin Admitted(h) /\ Phase(h) = "open"
  <2>1. Contract!Admit(h, i)
    BY <1>1, <1>2, <1>3 DEF Contract!Admit
  <2> QED
    BY <2>1 DEF ContractStep, Contract!Next
<1>4. CASE Admitted(h)' = Admitted(h) \ {i} /\ i \in Admitted(h)
  <2>1. Contract!Retire(h, i)
    BY <1>1, <1>2, <1>4 DEF Contract!Retire
  <2> QED
    BY <2>1 DEF ContractStep, Contract!Next
<1>5. CASE Admitted(h)' = Admitted(h)
  BY <1>5, ContractStutters DEF OthersStay, SameHook
<1> QED
  BY <1>3, <1>4, <1>5

LEMMA OthersStayWrite ==
  ASSUME TypeInv, NEW t \in Threads, NEW d, NEW f, Wrote(t, d, f), NEW h,
         f.hook = h \/ f.hook \notin Hooks,
         frame[t][d].hook = h \/ frame[t][d].hook \notin Hooks,
         \A k \in Hooks \ {h} :
           guard'[k] = guard[k] /\ memory'[k] = memory[k] /\ closing'[k] = closing[k]
  PROVE  OthersStay(h)
<1> SUFFICES ASSUME NEW k \in Hooks \ {h} PROVE SameHook(k)
  BY DEF OthersStay
<1>1. ~AtRestore(f, k) /\ ~AtRestore(frame[t][d], k) /\ ~Admits(f, k) /\ ~Admits(frame[t][d], k)
  BY DEF AtRestore, Admits, CountsFor
<1>2. Quiet(k)' = Quiet(k)
  BY <1>1, QuietWrite
<1>3. Admitted(k)' = Admitted(k) \ {<<t, d>>}
  BY <1>1, AdmittedWrite
<1>4. <<t, d>> \notin Admitted(k)
  BY <1>1 DEF Admitted, Counted, Admits
<1> QED
  BY <1>2, <1>3, <1>4, PhaseOfHook DEF SameHook

LEMMA SameStackStays ==
  ASSUME UNCHANGED frame, NEW h,
         guard'[h] = guard[h], memory'[h] = memory[h], closing'[h] = closing[h]
  PROVE  SameHook(h)
<1>1. Quiet(h)' = Quiet(h) /\ Admitted(h)' = Admitted(h)
  BY DEF Quiet, AtRestore, Admitted, Counted, CountsFor
<1> QED
  BY <1>1, PhaseOfHook DEF SameHook

LEMMA NotCounted ==
  ASSUME TypeInv, NEW t \in Threads, NEW d, NEW f, Wrote(t, d, f), NEW h,
         ~Admits(f, h), ~Admits(frame[t][d], h)
  PROVE  Admitted(h)' = Admitted(h)
<1>1. Admitted(h)' = Admitted(h) \ {<<t, d>>}
  BY AdmittedWrite
<1>2. <<t, d>> \notin Admitted(h)
  BY DEF Admitted, Counted, Admits
<1> QED
  BY <1>1, <1>2

(* A thread that holds a guard in a callback of the hook itself is an      *)
(* admitted invocation of it: its frames are all callbacks.                *)
LEMMA OwnIsAdmitted ==
  ASSUME FenceInv, OwnerInv, NEW t \in Threads, NEW h \in Hooks,
         CanTearDown(t), perThread[h][t] # 0
  PROVE  Admitted(h) # {}
<1>1. Cardinality(CountedOn(t, h)) # 0
  BY DEF FenceInv, CountsExact
<1>2. PICK i \in Level : CountsFor(frame[t][i], h)
  BY <1>1, FS_EmptySet DEF CountedOn
<1>3. i \in Nat /\ i >= 1 /\ depth[t] \in Nat
  BY BoundsAreNat DEF Level, FenceInv, TypeInv, TypeOK
<1>4. i <= depth[t]
  BY <1>2, <1>3 DEF FenceInv, TypeInv, StackShape, NoFrame, CountsFor
<1>5. frame[t][i].pc = "callback"
  BY <1>3, <1>4 DEF FenceInv, TypeInv, StackShape, CanTearDown, CanCall, Running, Top
<1>6. ~frame[t][i].late
  BY <1>5 DEF OwnerInv, FramesMatch, CallbacksAreAdmitted
<1>7. <<t, i>> \in Admitted(h)
  BY <1>2, <1>6 DEF Admitted, Counted
<1> QED
  BY <1>7

LEMMA ContractStepHolds ==
  ASSUME FenceInv, OwnerInv, CallbackFence', [Next]_vars
  PROVE  ContractStep
<1>0. TypeInv /\ FramesMatch /\ GuardsMatch
  BY DEF FenceInv, OwnerInv
<1>a. \A h \in Hooks : Quiet(h) => TearingDown(h) /\ guard[h] \in {"active", "restored"}
  <2> SUFFICES ASSUME NEW h \in Hooks, NEW u \in Threads, NEW i \in Level, AtRestore(frame[u][i], h)
               PROVE  TearingDown(h) /\ guard[h] \in {"active", "restored"}
    BY DEF Quiet
  <2>1. TearsDown(frame[u][i], h) /\ TearingDown(h)
    BY <1>0, QuietTearsDown
  <2> QED
    BY <1>0, <2>1 DEF FramesMatch, TeardownsHoldGuards
<1>b. ASSUME NEW t \in Threads, Running(t), Top(t).pc \in TeardownPcs,
             NEW h \in Hooks, h = Top(t).hook
      PROVE  /\ TearsDown(frame[t][depth[t]], h) /\ closing[h]
             /\ ~Admits(frame[t][depth[t]], h) /\ frame[t][depth[t]] = Top(t)
             /\ guard[h] \in {"active", "restored"} /\ memory[h] = "live"
             /\ Top(t).pc \in {"inactive", "release"} => guard[h] = "restored"
             /\ Top(t).pc = "restore" => Quiet(h)
             /\ Top(t).pc # "restore" => ~Quiet(h)
  <2>1. /\ depth[t] \in Level /\ Top(t) = frame[t][depth[t]]
        /\ TearsDown(frame[t][depth[t]], h)
    BY <1>0, <1>b, RunningTop
  <2>2. closing[h] /\ ~Admits(frame[t][depth[t]], h)
    BY <1>b, <2>1 DEF FenceInv, ClosedInv, TearsDown, TearingDown, Admits, CountsFor, TeardownPcs
  <2>3. /\ guard[h] \in {"active", "restored"}
        /\ Top(t).pc \in {"inactive", "release"} => guard[h] = "restored"
    BY <1>0, <2>1 DEF FramesMatch, TeardownsHoldGuards
  <2>4. memory[h] = "live"
    BY <1>0, <2>3 DEF GuardsMatch
  <2>5. Top(t).pc = "restore" => Quiet(h)
    BY <1>b, <2>1 DEF Quiet, AtRestore
  <2>6. ASSUME Quiet(h) PROVE Top(t).pc = "restore"
    <3>1. PICK u \in Threads, i \in Level : AtRestore(frame[u][i], h)
      BY <2>6 DEF Quiet
    <3>2. TearsDown(frame[u][i], h)
      BY <1>0, <2>1, <3>1, QuietTearsDown
    <3>3. u = t /\ i = depth[t]
      BY <1>0, <2>1, <3>2 DEF FramesMatch, SoleTeardown
    <3> QED
      BY <1>b, <2>1, <3>1, <3>3 DEF AtRestore
  <2> QED
    BY <2>1, <2>2, <2>3, <2>4, <2>5, <2>6
<1>c. /\ NoFrame.hook \notin Hooks
      /\ \A h \in Hooks : ~Admits(NoFrame, h) /\ ~AtRestore(NoFrame, h)
  BY EmptyFrame DEF Admits, CountsFor, AtRestore
<1>1. ASSUME NEW h \in Hooks, Install(h)
      PROVE  ContractStep
  <2>1. /\ UNCHANGED <<frame, closing>> /\ guard[h] = "absent"
        /\ guard' = [guard EXCEPT ![h] = "active"]
        /\ memory' = [memory EXCEPT ![h] = "live"]
    BY <1>1 DEF Install, stack, counts
  <2>2. OthersStay(h)
    BY <1>0, <2>1, SameStackStays DEF OthersStay, TypeInv, TypeOK
  <2>3. ~Quiet(h) /\ ~closing[h]
    BY <1>0, <1>a, <2>1 DEF GuardsMatch
  <2>4. ~Quiet(h)' /\ Admitted(h)' = Admitted(h)
    BY <2>1, <2>3 DEF Quiet, AtRestore, Admitted, Counted, CountsFor
  <2>6. guard'[h] = "active" /\ memory'[h] = "live" /\ closing'[h] = closing[h]
    BY <1>0, <2>1 DEF TypeInv, TypeOK
  <2>5. Phase(h) = "absent" /\ Phase(h)' = "open"
    BY <2>1, <2>3, <2>4, <2>6, PhaseOfHook DEF PhaseIs
  <2> QED
    BY <2>2, <2>4, <2>5, ContractMoves
<1>2. ASSUME NEW t \in Threads, NEW h \in Hooks, Call(t, h)
      PROVE  ContractStep
  <2> DEFINE d == depth[t] + 1
             f == CallFrame(h)
  <2>1. /\ Wrote(t, d, f) /\ frame[t][d] = NoFrame
        /\ UNCHANGED <<guard, memory, closing>>
    BY <1>0, <1>2, CallWrites DEF Call, owned, counts
  <2>2. f.hook = h /\ ~Admits(f, h) /\ ~AtRestore(f, h)
    BY DEF CallFrame, Admits, CountsFor, AtRestore
  <2>3. OthersStay(h)
    BY <1>0, <1>c, <2>1, <2>2, OthersStayWrite
  <2>4. Admitted(h)' = Admitted(h)
    BY <1>0, <1>c, <2>1, <2>2, NotCounted
  <2>5. Quiet(h)' = Quiet(h)
    BY <1>0, <1>c, <2>1, <2>2, QuietWrite
  <2> QED
    BY <2>1, <2>3, <2>4, <2>5, PhaseOfHook, ContractMoves
<1>3. ASSUME NEW t \in Threads, Enter(t)
      PROVE  ContractStep
  <2> DEFINE d == depth[t]
             f == EnteredFrame(Top(t))
  <2>0. PICK h \in Hooks : h = Top(t).hook
    BY <1>0, <1>3, RunningTop DEF Enter
  <2>1. /\ Wrote(t, d, f) /\ f.hook = h /\ f.pc = "entered" /\ f.late = closing[h]
        /\ Running(t) /\ Top(t).pc = "thunk" /\ UNCHANGED <<guard, memory, closing>>
    BY <1>0, <1>3, <2>0, EnterWrites DEF Enter, owned
  <2>2. d \in Level /\ frame[t][d] = Top(t)
    BY <1>0, <2>1, RunningTop
  <2>3. OthersStay(h)
    BY <1>0, <2>0, <2>1, <2>2, OthersStayWrite
  <2>4. ~AtRestore(f, h) /\ ~AtRestore(frame[t][d], h) /\ ~Admits(frame[t][d], h)
    BY <2>1, <2>2 DEF AtRestore, Admits, CountsFor
  <2>5. Quiet(h)' = Quiet(h)
    BY <1>0, <2>1, <2>4, QuietWrite
  <2>6. Phase(h)' = Phase(h)
    BY <2>1, <2>5, PhaseOfHook
  <2>7. <<t, d>> \notin Admitted(h) /\ <<t, d>> \in Threads \X Level
    BY <2>2, <2>4 DEF Admitted, Counted, Admits
  <2>8. CASE closing[h]
    <3>1. Admitted(h)' = Admitted(h) \ {<<t, d>>}
      BY <1>0, <2>1, <2>8, AdmittedWrite DEF Admits
    <3> QED
      BY <2>2, <2>3, <2>6, <2>7, <3>1, ContractRuns
  <2>9. CASE ~closing[h]
    <3>1. Admitted(h)' = Admitted(h) \cup {<<t, d>>}
      BY <1>0, <2>1, <2>9, AdmittedWrite DEF Admits, CountsFor
    <3>2. guard[h] # "absent"
      BY <1>0, <2>0, <2>2 DEF FramesMatch, FramesAreOfInstalled
    <3>3. ~TearingDown(h) /\ guard[h] # "restored" /\ memory[h] # "freed"
      BY <2>2, <2>9 DEF FenceInv, ClosedInv
    <3>4. Phase(h) = "open"
      BY <1>a, <2>2, <2>9, <3>2, <3>3, PhaseOfHook DEF PhaseIs
    <3> QED
      BY <2>2, <2>3, <2>6, <2>7, <3>1, <3>4, ContractRuns
  <2> QED
    BY <2>8, <2>9
<1>4. ASSUME NEW t \in Threads, Running(t), NEW f, Wrote(t, depth[t], f),
             NEW h \in Hooks, h = Top(t).hook,
             f.hook = h \/ f = NoFrame,
             \A k \in Hooks : ~AtRestore(f, k),
             Top(t).pc \in CallPcs, UNCHANGED <<guard, memory, closing>>,
             Admits(f, h) => Admits(Top(t), h)
      PROVE  ContractStep
  <2> DEFINE d == depth[t]
  <2>1. d \in Level /\ frame[t][d] = Top(t)
    BY <1>0, <1>4, RunningTop
  <2>2. OthersStay(h)
    BY <1>0, <1>c, <1>4, <2>1, OthersStayWrite
  <2>3. ~AtRestore(frame[t][d], h)
    BY <1>4, <2>1 DEF AtRestore, CallPcs
  <2>4. Quiet(h)' = Quiet(h)
    BY <1>0, <1>4, <2>1, <2>3, QuietWrite
  <2>5. Phase(h)' = Phase(h)
    BY <1>4, <2>4, PhaseOfHook
  <2>6. CASE Admits(f, h)
    <3>1. Admitted(h)' = Admitted(h) \cup {<<t, d>>}
      BY <1>0, <1>4, <2>6, AdmittedWrite
    <3>2. <<t, d>> \in Admitted(h)
      BY <1>4, <2>1, <2>6 DEF Admitted, Counted, Admits
    <3> QED
      BY <2>1, <2>2, <2>5, <3>1, <3>2, ContractMoves
  <2>7. CASE ~Admits(f, h)
    <3>1. Admitted(h)' = Admitted(h) \ {<<t, d>>}
      BY <1>0, <1>4, <2>7, AdmittedWrite
    <3>2. <<t, d>> \in Threads \X Level
      BY <2>1
    <3> QED
      BY <2>1, <2>2, <2>5, <3>1, <3>2, ContractRuns
  <2> QED
    BY <2>6, <2>7
<1>5. ASSUME NEW t \in Threads,
             BeginCallback(t) \/ ReturnDefault(t) \/ EndCallback(t) \/ Leave(t)
      PROVE  ContractStep
  <2>1. PICK pc \in {"callback", "leaving", "epilogue"} : Goto(t, pc)
    BY <1>5 DEF BeginCallback, ReturnDefault, EndCallback, Leave
  <2>2. /\ Running(t) /\ UNCHANGED <<guard, memory, closing>>
        /\ Top(t).pc \in {"entered", "callback", "leaving"}
    BY <1>5 DEF BeginCallback, ReturnDefault, EndCallback, Leave, owned, counts
  <2>3. Top(t).pc \in CallPcs /\ SameKind(Top(t), pc)
    BY <1>0, <2>2, RunningTop DEF SameKind, CallPcs
  <2> DEFINE f == At(Top(t), pc)
  <2>4. /\ Wrote(t, depth[t], f)
        /\ f.hook = Top(t).hook /\ f.late = Top(t).late /\ f.pc = pc
    BY <1>0, <2>1, <2>2, <2>3, GotoWrites
  <2>5. /\ \A h \in Hooks : ~AtRestore(f, h)
        /\ Admits(f, Top(t).hook) => Admits(Top(t), Top(t).hook)
    BY <2>2, <2>4 DEF AtRestore, Admits, CountsFor
  <2> QED
    BY <1>0, <1>4, <2>2, <2>3, <2>4, <2>5, RunningTop
<1>6. ASSUME NEW t \in Threads, Return(t)
      PROVE  ContractStep
  <2>1. /\ Running(t) /\ Pop(t) /\ UNCHANGED <<guard, memory, closing>>
        /\ Top(t).pc \in CallPcs
    BY <1>6 DEF Return, owned, counts, CallPcs
  <2>2. Wrote(t, depth[t], NoFrame) /\ Top(t).hook \in Hooks
    BY <1>0, <2>1, PopWrites, RunningTop
  <2> QED
    BY <1>4, <1>c, <2>1, <2>2
<1>7. ASSUME NEW t \in Threads, Running(t), Top(t).pc \in TeardownPcs,
             NEW h \in Hooks, h = Top(t).hook, NEW f, Wrote(t, depth[t], f),
             f.hook = h \/ f = NoFrame, ~Admits(f, h),
             UNCHANGED closing,
             \A k \in Hooks \ {h} : guard'[k] = guard[k] /\ memory'[k] = memory[k]
      PROVE  OthersStay(h) /\ Admitted(h)' = Admitted(h)
  <2>1. OthersStay(h)
    BY <1>0, <1>b, <1>c, <1>7, OthersStayWrite
  <2>2. Admitted(h)' = Admitted(h)
    BY <1>0, <1>b, <1>7, NotCounted
  <2> QED
    BY <2>1, <2>2
<1>8. ASSUME NEW t \in Threads, RestoreFails(t)
      PROVE  ContractStep
  <2>0. PICK h \in Hooks : h = Top(t).hook
    BY <1>0, <1>8, RunningTop DEF RestoreFails
  <2>1. /\ Running(t) /\ Pop(t) /\ Top(t).pc = "restore" /\ UNCHANGED closing
        /\ guard[h] = "active"
        /\ \/ UNCHANGED <<guard, memory>>
           \/ /\ guard' = [guard EXCEPT ![h] = "gone"]
              /\ memory' = [memory EXCEPT ![h] = "leaked"]
    BY <1>8, <2>0 DEF RestoreFails, counts
  <2>2. /\ Wrote(t, depth[t], NoFrame) /\ Top(t).pc \in TeardownPcs
        /\ \A k \in Hooks \ {h} : guard'[k] = guard[k] /\ memory'[k] = memory[k]
    BY <1>0, <2>1, PopWrites DEF TeardownPcs, TypeInv, TypeOK
  <2>3. OthersStay(h) /\ Admitted(h)' = Admitted(h)
    BY <1>b, <1>c, <1>7, <2>0, <2>1, <2>2
  <2>4. ~Quiet(h)'
    BY <1>0, <1>b, <1>c, <2>0, <2>1, <2>2, QuietEnds DEF OwnerInv
  <2>5. Phase(h) = "quiet"
    BY <1>b, <2>0, <2>1, <2>2, PhaseOfHook DEF PhaseIs
  <2>6. guard'[h] \in {"active", "gone"} /\ memory'[h] \in {"live", "leaked"} /\ closing'[h]
    BY <1>0, <1>b, <2>0, <2>1, <2>2, SMTT(60) DEF TypeInv, TypeOK
  <2>7. Phase(h)' = "draining"
    BY <2>4, <2>6, PhaseOfHook DEF PhaseIs
  <2> QED
    BY <1>b, <2>0, <2>1, <2>2, <2>3, <2>5, <2>7, ContractMoves
<1>9. ASSUME NEW t \in Threads, Release(t)
      PROVE  ContractStep
  <2>0. PICK h \in Hooks : h = Top(t).hook
    BY <1>0, <1>9, RunningTop DEF Release
  <2>1. /\ Running(t) /\ Pop(t) /\ Top(t).pc = "release" /\ UNCHANGED closing
        /\ guard' = [guard EXCEPT ![h] = "gone"]
        /\ memory' = [memory EXCEPT ![h] = "freed"]
    BY <1>9, <2>0 DEF Release, counts
  <2>2. /\ Wrote(t, depth[t], NoFrame) /\ Top(t).pc \in TeardownPcs /\ h \in Hooks
        /\ \A k \in Hooks \ {h} : guard'[k] = guard[k] /\ memory'[k] = memory[k]
    BY <1>0, <2>1, PopWrites, RunningTop DEF TeardownPcs, TypeInv, TypeOK
  <2>3. OthersStay(h) /\ Admitted(h)' = Admitted(h)
    BY <1>c, <1>7, <2>0, <2>1, <2>2
  <2>4. Phase(h) = "restored"
    BY <1>b, <2>0, <2>1, <2>2, PhaseOfHook DEF PhaseIs
  <2>5. guard'[h] = "gone" /\ memory'[h] = "freed"
    BY <1>0, <2>1, <2>2 DEF TypeInv, TypeOK
  <2>6. Phase(h)' = "freed"
    BY <2>5, PhaseOfHook DEF PhaseIs
  <2> QED
    BY <2>2, <2>3, <2>4, <2>6, ContractMoves
<1>10. ASSUME NEW t \in Threads, NEW h \in Hooks, DropBusy(t, h)
       PROVE  ContractStep
  <2>1. /\ UNCHANGED <<frame, closing>> /\ ~TearingDown(h)
        /\ CanTearDown(t) /\ perThread[h][t] # 0 /\ guard[h] \in {"active", "restored"}
        /\ guard' = [guard EXCEPT ![h] = "gone"]
        /\ memory' = [memory EXCEPT ![h] = "leaked"]
    BY <1>10 DEF DropBusy, stack, counts
  <2>2. guard[h] = "active" /\ memory[h] = "live"
    <3>1. Admitted(h) # {}
      BY <2>1, OwnIsAdmitted
    <3> QED
      BY <1>0, <2>1, <3>1 DEF FenceInv, CallbackFence, Drained, GuardsMatch
  <2>3. OthersStay(h)
    BY <1>0, <2>1, SameStackStays DEF OthersStay, TypeInv, TypeOK
  <2>4. ~Quiet(h)' /\ ~Quiet(h) /\ Admitted(h)' = Admitted(h)
    BY <1>a, <2>1 DEF Quiet, AtRestore, Admitted, Counted, CountsFor
  <2>5. guard'[h] = "gone" /\ memory'[h] = "leaked" /\ closing'[h] = closing[h]
    BY <1>0, <2>1 DEF TypeInv, TypeOK
  <2>6. Phase(h)' = Phase(h)
    BY <2>2, <2>4, <2>5, PhaseOfHook DEF PhaseIs
  <2> QED
    BY <2>3, <2>4, <2>6, ContractMoves
<1>11. ASSUME NEW t \in Threads, NEW h \in Hooks, NEW op \in {"revert", "drop"},
              Close(t, h, op)
       PROVE  ContractStep
  <2> DEFINE d == depth[t] + 1
             f == CloseFrame(h, op)
  <2>1. /\ Wrote(t, d, f) /\ frame[t][d] = NoFrame /\ UNCHANGED <<guard, memory>>
        /\ ~TearingDown(h) /\ guard[h] \in {"active", "restored"}
        /\ closing' = [closing EXCEPT ![h] = TRUE]
    BY <1>0, <1>11, CloseWrites DEF Close, owned
  <2>2. /\ f.hook = h /\ ~Admits(f, h)
        /\ AtRestore(f, h) <=> total[h] = 0
    BY DEF CloseFrame, Admits, CountsFor, AtRestore
  <2>3. closing'[h] /\ \A k \in Hooks \ {h} : closing'[k] = closing[k]
    BY <1>0, <2>1 DEF TypeInv, TypeOK
  <2>4. OthersStay(h)
    BY <1>0, <1>c, <2>1, <2>2, <2>3, OthersStayWrite
  <2>5. Admitted(h)' = Admitted(h)
    BY <1>0, <1>c, <2>1, <2>2, NotCounted
  <2>6. ~Quiet(h) /\ memory[h] = "live"
    BY <1>0, <1>a, <2>1 DEF GuardsMatch
  <2>7. CASE guard[h] = "restored"
    <3>1. Phase(h) = "restored" /\ Phase(h)' = "restored"
      BY <2>1, <2>6, <2>7, PhaseOfHook DEF PhaseIs
    <3> QED
      BY <2>4, <2>5, <3>1, ContractMoves
  <2>8. CASE guard[h] = "active" /\ total[h] = 0
    <3>1. Quiet(h)'
      BY <1>0, <2>1, <2>2, <2>8, QuietWrite
    <3>2. Drained(h)'
      BY <3>1 DEF Quiet, AtRestore, Drained
    <3>3. Admitted(h) = {}
      BY <2>5, <3>2 DEF CallbackFence
    <3>4. Phase(h) \in {"open", "draining"} /\ Phase(h)' = "quiet"
      BY <2>1, <2>6, <2>8, <3>1, PhaseOfHook DEF PhaseIs
    <3> QED
      BY <2>4, <2>5, <3>3, <3>4, ContractMoves
  <2>9. CASE guard[h] = "active" /\ total[h] # 0
    <3>1. ~Quiet(h)'
      BY <1>0, <1>c, <2>1, <2>2, <2>6, <2>9, QuietWrite
    <3>2. Phase(h) \in {"open", "draining"} /\ Phase(h)' = "draining"
      BY <2>1, <2>3, <2>6, <2>9, <3>1, PhaseOfHook DEF PhaseIs
    <3> QED
      BY <2>4, <2>5, <3>2, ContractMoves
  <2> QED
    BY <2>1, <2>7, <2>8, <2>9
<1>12. ASSUME NEW t \in Threads, NEW pc \in TeardownPcs, Running(t), Goto(t, pc),
              Top(t).pc \in TeardownPcs
       PROVE  /\ SameKind(Top(t), pc)
              /\ Wrote(t, depth[t], At(Top(t), pc))
              /\ At(Top(t), pc).hook = Top(t).hook /\ At(Top(t), pc).pc = pc
              /\ ~Admits(At(Top(t), pc), Top(t).hook)
  <2>1. SameKind(Top(t), pc)
    BY <1>0, <1>12, RunningTop DEF SameKind, TearsDown
  <2>2. /\ Wrote(t, depth[t], At(Top(t), pc))
        /\ At(Top(t), pc).hook = Top(t).hook /\ At(Top(t), pc).pc = pc
    BY <1>0, <1>12, <2>1, GotoWrites
  <2> QED
    BY <2>1, <2>2 DEF Admits, CountsFor, TeardownPcs
<1>13. ASSUME NEW t \in Threads, CloseWake(t), Goto(t, "restore")
       PROVE  ContractStep
  <2> DEFINE f == At(Top(t), "restore")
  <2>0. PICK h \in Hooks : h = Top(t).hook
    BY <1>0, <1>13, RunningTop DEF CloseWake
  <2>1. /\ Running(t) /\ Top(t).pc = "closeWait" /\ UNCHANGED <<guard, memory, closing>>
        /\ Top(t).pc \in TeardownPcs /\ "restore" \in TeardownPcs
    BY <1>13, <2>0 DEF CloseWake, owned, TeardownPcs
  <2>2. Wrote(t, depth[t], f) /\ f.hook = h /\ f.pc = "restore" /\ ~Admits(f, h)
    BY <1>12, <1>13, <2>0, <2>1
  <2>3. OthersStay(h) /\ Admitted(h)' = Admitted(h) /\ h \in Hooks
    BY <1>7, <1>b, <2>0, <2>1, <2>2
  <2>4. Quiet(h)'
    BY <1>0, <2>2, QuietWrite DEF AtRestore
  <2>5. Admitted(h) = {}
    <3>1. Drained(h)'
      BY <2>4 DEF Quiet, AtRestore, Drained
    <3> QED
      BY <2>3, <3>1 DEF CallbackFence
  <2>6. ~Quiet(h) /\ closing[h] /\ guard[h] \in {"active", "restored"} /\ memory[h] = "live"
    BY <1>b, <2>0, <2>1
  <2>7. \/ Phase(h) = "draining" /\ Phase(h)' = "quiet"
        \/ Phase(h)' = Phase(h)
    BY <2>1, <2>4, <2>6, PhaseOfHook DEF PhaseIs
  <2> QED
    BY <2>3, <2>5, <2>7, ContractMoves
<1>14. ASSUME NEW t \in Threads, RestoreOk(t)
       PROVE  ContractStep
  <2> DEFINE f == At(Top(t), "inactive")
  <2>0. PICK h \in Hooks : h = Top(t).hook
    BY <1>0, <1>14, RunningTop DEF RestoreOk
  <2>1. /\ Running(t) /\ Top(t).pc = "restore" /\ UNCHANGED <<memory, closing>>
        /\ Goto(t, "inactive") /\ guard' = [guard EXCEPT ![h] = "restored"]
        /\ Top(t).pc \in TeardownPcs /\ "inactive" \in TeardownPcs
    BY <1>14, <2>0 DEF RestoreOk, counts, TeardownPcs
  <2>2. Wrote(t, depth[t], f) /\ f.hook = h /\ ~Admits(f, h)
    BY <1>12, <2>0, <2>1
  <2>3. h \in Hooks /\ guard'[h] = "restored" /\ \A k \in Hooks \ {h} : guard'[k] = guard[k]
    BY <1>0, <1>b, <2>0, <2>1 DEF TypeInv, TypeOK
  <2>4. OthersStay(h) /\ Admitted(h)' = Admitted(h)
    BY <1>7, <2>0, <2>1, <2>2, <2>3
  <2>5. Quiet(h) /\ guard[h] \in {"active", "restored"} /\ memory[h] = "live"
    BY <1>b, <2>0, <2>1
  <2>6. Phase(h) \in {"quiet", "restored"} /\ Phase(h)' = "restored"
    BY <2>1, <2>3, <2>5, PhaseOfHook DEF PhaseIs
  <2> QED
    BY <2>3, <2>4, <2>6, ContractMoves
<1>15. ASSUME NEW t \in Threads, Inactive(t)
       PROVE  ContractStep
  <2>0. PICK h \in Hooks : h = Top(t).hook
    BY <1>0, <1>15, RunningTop DEF Inactive
  <2>1. /\ Running(t) /\ Top(t).pc = "inactive" /\ UNCHANGED <<guard, memory, closing>>
        /\ Goto(t, "release") \/ Pop(t)
        /\ Top(t).pc \in TeardownPcs /\ "release" \in TeardownPcs
    BY <1>15, <2>0 DEF Inactive, counts, TeardownPcs
  <2>2. PICK f : Wrote(t, depth[t], f) /\ (f.hook = h \/ f = NoFrame) /\ ~Admits(f, h)
    BY <1>0, <1>b, <1>c, <1>12, <2>0, <2>1, PopWrites
  <2>3. OthersStay(h) /\ Admitted(h)' = Admitted(h)
    BY <1>7, <2>0, <2>1, <2>2
  <2>4. h \in Hooks /\ guard[h] = "restored" /\ memory[h] = "live"
    BY <1>b, <2>0, <2>1
  <2>5. Phase(h) = "restored" /\ Phase(h)' = "restored"
    BY <2>1, <2>4, PhaseOfHook DEF PhaseIs
  <2> QED
    BY <2>3, <2>4, <2>5, ContractMoves
<1>16. CASE UNCHANGED <<frame, guard, memory, closing>>
  BY <1>16, SameStackStays, ContractStutters
<1>17. ASSUME NEW t \in Threads, CloseWake(t)
       PROVE  Goto(t, "restore") \/ UNCHANGED <<frame, guard, memory, closing>>
  BY <1>17 DEF CloseWake, stack, owned
<1>18. ASSUME NEW t \in Threads, InactiveWait(t)
       PROVE  UNCHANGED <<frame, guard, memory, closing>>
  BY <1>18 DEF InactiveWait, stack, owned
<1>19. ASSUME NEW t \in Threads, NEW h \in Hooks, RevertBusy(t, h)
       PROVE  UNCHANGED <<frame, guard, memory, closing>>
  BY <1>19 DEF RevertBusy, stack, counts
<1>20. UNCHANGED vars => UNCHANGED <<frame, guard, memory, closing>>
  BY DEF vars, stack, counts, owned
<1> QED
  BY <1>1, <1>2, <1>3, <1>5, <1>6, <1>8, <1>9, <1>10, <1>11, <1>13, <1>14, <1>15, <1>16,
     <1>17, <1>18, <1>19, <1>20 DEF Next, Invoke, TearDown, Start

LEMMA InitContract == Init => Contract!Init
<1> SUFFICES ASSUME Init PROVE Contract!Init
  OBVIOUS
<1>1. \A h \in Hooks : Phase(h) = "absent"
  BY DEF Init, Phase
<1>2. \A h \in Hooks : Admitted(h) = {}
  BY DEF Init, Admitted, Counted, CountsFor, NoFrame
<1> QED
  BY <1>1, <1>2 DEF Contract!Init

(* The counters, the lock and the condition variable implement the         *)
(* contract of a hook, for any number of hooks and threads: every step of  *)
(* an invocation or a teardown is one of the contract's moves or changes   *)
(* nothing it shows.                                                       *)
THEOREM ImplementsHookContract == Spec => ImplementsContract
<1>1. FenceInv /\ OwnerInv /\ FenceInv' /\ [Next]_vars => ContractStep
  BY ContractStepHolds DEF FenceInv
<1>2. Spec => [](FenceInv /\ OwnerInv)
  BY OwnerInvariant
<1> QED
  BY <1>1, <1>2, InitContract, PTL DEF Spec, ImplementsContract, Contract!Spec, ContractStep

-----------------------------------------------------------------------------
(* What the contract is for, from its own moves alone: admission needs an  *)
(* open hook, and a failed restore does not reopen it.                     *)
ContractInv == Contract!TypeOK /\ Contract!NoCallbackAfterDrain

LEMMA ContractInvariant == Contract!Spec => []ContractInv
<1> USE DEF ContractInv, Contract!TypeOK, Contract!NoCallbackAfterDrain, Contract!Phases
<1>1. Contract!Init => ContractInv
  BY DEF Contract!Init
<1>2. ContractInv /\ [Contract!Next]_Contract!vars => ContractInv'
  <2> SUFFICES ASSUME ContractInv, [Contract!Next]_Contract!vars PROVE ContractInv'
    OBVIOUS
  <2>1. ASSUME NEW h \in Hooks,
               \/ Contract!Install(h) \/ Contract!Close(h) \/ Contract!Quiesce(h)
               \/ Contract!RestoreFails(h) \/ Contract!Restore(h) \/ Contract!Free(h)
        PROVE  ContractInv'
    BY <2>1 DEF Contract!Install, Contract!Close, Contract!Quiesce, Contract!RestoreFails,
                Contract!Restore, Contract!Free, Contract!Move
  <2>2. ASSUME NEW h \in Hooks, NEW i \in Threads \X Level, Contract!Admit(h, i)
        PROVE  ContractInv'
    <3>1. Phase(h) = "open" /\ \A k \in Hooks : Phase(k)' = Phase(k)
      BY <2>2 DEF Contract!Admit
    <3>2. \A k \in Hooks :
            Admitted(k)' = IF k = h THEN Admitted(h) \cup {i} ELSE Admitted(k)
      BY <2>2 DEF Contract!Admit
    <3>3. Contract!TypeOK'
      BY <3>1, <3>2
    <3>4. Contract!NoCallbackAfterDrain'
      BY <3>1, <3>2
    <3> QED
      BY <3>3, <3>4
  <2>4. ASSUME NEW h \in Hooks, NEW i \in Threads \X Level, Contract!Retire(h, i)
        PROVE  ContractInv'
    BY <2>4, ZenonT(60) DEF Contract!Retire
  <2>3. CASE UNCHANGED Contract!vars
    BY <2>3 DEF Contract!vars
  <2> QED
    BY <2>1, <2>2, <2>3, <2>4 DEF Contract!Next
<1> QED
  BY <1>1, <1>2, PTL DEF Contract!Spec

(* So no callback of the implementation runs in a hook that its contract   *)
(* shows as quiet, restored or freed: the point of the contract carries    *)
(* over by refinement, whatever threads, stacks and counters do.           *)
THEOREM ContractIsKept == Spec => []Contract!NoCallbackAfterDrain
<1>1. ContractInv => Contract!NoCallbackAfterDrain
  BY DEF ContractInv
<1> QED
  BY <1>1, ImplementsHookContract, ContractInvariant, PTL DEF ImplementsContract

=============================================================================
