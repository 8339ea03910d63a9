-------------------------- MODULE MainThread_proofs --------------------------
(***************************************************************************)
(* A proof about MainThread for every set of tasks: a drain takes the      *)
(* queue only when the last batch has been worked off, so that batch and   *)
(* queue together are one line, whoever queues meanwhile.                  *)
(***************************************************************************)
EXTENDS MainThread, TLAPS

LineInv ==
  /\ batch \in Seq(Tasks) /\ pending \in Seq(Tasks)
  /\ main \notin {"next", "callback"} => batch = <<>>

(* Sequences.                                                              *)
LEMMA AppendedToTheLine ==
  ASSUME NEW T, NEW b \in Seq(T), NEW p \in Seq(T), NEW t \in T
  PROVE  b \o Append(p, t) = Append(b \o p, t)
OBVIOUS

LEMMA HeadLeavesTheLine ==
  ASSUME NEW T, NEW b \in Seq(T), NEW p \in Seq(T), b # <<>>
  PROVE  Tail(b) \in Seq(T) /\ b \o p # <<>> /\ Tail(b) \o p = Tail(b \o p)
<1>1. Len(b) \in Nat /\ Len(b) # 0 /\ Len(p) \in Nat
  OBVIOUS
<1>2. Tail(b) \in Seq(T) /\ Len(Tail(b)) = Len(b) - 1
  BY <1>1
<1>3. b \o p \in Seq(T) /\ Len(b \o p) = Len(b) + Len(p)
  OBVIOUS
<1>4. b \o p # <<>>
  BY <1>1, <1>3
<1>5. Tail(b \o p) \in Seq(T) /\ Len(Tail(b \o p)) = Len(b) + Len(p) - 1
  BY <1>1, <1>3
<1>6. Tail(b) \o p \in Seq(T) /\ Len(Tail(b) \o p) = Len(b) - 1 + Len(p)
  BY <1>2
<1>7. ASSUME NEW i \in 1 .. Len(b) + Len(p) - 1 PROVE (Tail(b) \o p)[i] = Tail(b \o p)[i]
  <2>1. Tail(b \o p)[i] = (b \o p)[i + 1]
    BY <1>1, <1>3
  <2>2. CASE i <= Len(b) - 1
    <3>1. (Tail(b) \o p)[i] = Tail(b)[i]
      BY <1>1, <1>2, <2>2
    <3>2. Tail(b)[i] = b[i + 1] /\ (b \o p)[i + 1] = b[i + 1]
      BY <1>1, <2>2
    <3> QED
      BY <2>1, <3>1, <3>2
  <2>3. CASE i > Len(b) - 1
    <3>1. (Tail(b) \o p)[i] = p[i - (Len(b) - 1)]
      BY <1>1, <1>2, <2>3
    <3>2. (b \o p)[i + 1] = p[i + 1 - Len(b)]
      BY <1>1, <2>3
    <3> QED
      BY <1>1, <2>1, <3>1, <3>2
  <2> QED
    BY <1>1, <2>2, <2>3
<1> QED
  BY <1>1, <1>2, <1>4, <1>5, <1>6, <1>7

-----------------------------------------------------------------------------
LEMMA InitLine == Init => LineInv
  BY DEF Init, LineInv

(* What the steps of the queue and the drain do to batch and queue.        *)
LEMMA LineStep == LineInv /\ [Next]_vars => LineInv'
<1> SUFFICES ASSUME LineInv, [Next]_vars PROVE LineInv'
  OBVIOUS
<1> USE DEF LineInv
<1>1. ASSUME NEW t \in Tasks, Enqueue(t) PROVE LineInv'
  BY <1>1 DEF Enqueue
<1>2. CASE Poll
  BY <1>2 DEF Poll
<1>3. CASE Swap
  BY <1>3 DEF Swap
<1>4. CASE Skip \/ StartCallback
  BY <1>4, HeadLeavesTheLine DEF Skip, StartCallback
<1>5. CASE EndCallback
  BY <1>5 DEF EndCallback
<1>6. CASE EndDrain \/ PollReturns
  BY <1>6 DEF EndDrain, PollReturns
<1>7. CASE UNCHANGED <<batch, pending, main>>
  BY <1>7
<1> QED
  BY <1>1, <1>2, <1>3, <1>4, <1>5, <1>6, <1>7
  DEF Next, Schedule, Scheduling, Drain, EnsureHook, EnsureHookFails, WakeMain, WakeMainFails,
      Wait, TimeOut, vars

(* The line of the tasks that were queued and not yet looked at loses only *)
(* its head and grows only at its end, whatever drains, callbacks and      *)
(* schedulers do in between.                                               *)
THEOREM LineKeepsItsOrder == Spec => DrainsInOrder
<1> DEFINE A == \/ Line' = Line
                \/ Line # <<>> /\ Line' = Tail(Line)
                \/ \E t \in Tasks : Line' = Append(Line, t)
<1>1. LineInv /\ [Next]_vars => [A]_vars
  <2> SUFFICES ASSUME LineInv, [Next]_vars PROVE A
    OBVIOUS
  <2> USE DEF Line, LineInv
  <2>1. ASSUME NEW t \in Tasks, Enqueue(t) PROVE A
    <3>1. batch' = batch /\ pending' = Append(pending, t)
      BY <2>1 DEF Enqueue
    <3>2. Line' = Append(Line, t)
      BY <3>1, AppendedToTheLine
    <3> QED
      BY <3>2
  <2>2. CASE Swap
    <3>1. batch = <<>> /\ batch' = pending /\ pending' = <<>>
      BY <2>2 DEF Swap
    <3>2. Line' = pending /\ Line = pending
      BY <3>1
    <3> QED
      BY <3>2
  <2>3. CASE Skip \/ StartCallback
    <3>1. batch # <<>> /\ batch' = Tail(batch) /\ pending' = pending
      BY <2>3 DEF Skip, StartCallback
    <3>2. Line # <<>> /\ Line' = Tail(Line)
      BY <3>1, HeadLeavesTheLine
    <3> QED
      BY <3>2
  <2>4. CASE UNCHANGED <<batch, pending>>
    BY <2>4
  <2> QED
    BY <2>1, <2>2, <2>3, <2>4
    DEF Next, Schedule, Scheduling, Drain, EnsureHook, EnsureHookFails, WakeMain,
        WakeMainFails, Wait, TimeOut, Poll, EndCallback, EndDrain, PollReturns, vars
<1>2. Spec => []LineInv
  BY InitLine, LineStep, PTL DEF Spec
<1> QED
  BY <1>1, <1>2, PTL DEF Spec, DrainsInOrder

=============================================================================
