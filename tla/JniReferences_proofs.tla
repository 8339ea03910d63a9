------------------------- MODULE JniReferences_proofs -------------------------
(***************************************************************************)
(* Proofs about JniReferences: JniScopes for every set of threads and      *)
(* global references, any nesting of guards, and any number of clones;     *)
(* HookInvocation for every set of throwables, any nesting of invocations, *)
(* and any number of calls; CallTemporaries for any number of arguments.   *)
(*                                                                         *)
(* A thread is attached as long as somebody needs it, because of all its   *)
(* guards only the outermost may detach it, and only if nobody else had    *)
(* attached it; a global reference is deleted once, because the drop of    *)
(* its last clone is in one thread's hands.                                *)
(*                                                                         *)
(* Java gets the exception a callback owes it because at every point that  *)
(* exception is in one of three places: pending, in the error, or taken    *)
(* off the thread for the handler (HookInv).  A callback's error from the  *)
(* original does not hold its exception, and then that exception is still  *)
(* pending: the callback cannot have called Java since without doing it    *)
(* over a pending exception.  The strings of a call are live exactly while *)
(* one of its two owners has them (TempInv).                               *)
(***************************************************************************)
EXTENDS JniReferences, SequenceTheorems, TLAPS

Guards == [detach : BOOLEAN, locals : Nat]

ScopesTypeOK ==
  /\ inVm \in [Natives -> BOOLEAN] /\ others \in [Natives -> BOOLEAN]
  /\ guards \in [Natives -> Seq(Guards)]
  /\ clones \in [Globals -> Nat]
  /\ global \in [Globals -> {"free", "live", "deleted", "leaked"}]
  /\ dropping \in [Natives -> Globals \cup {"none"}]

OnlyOutermostDetaches ==
  \A t \in Natives : \A i \in 1 .. Len(guards[t]) :
    guards[t][i].detach <=> i = Len(guards[t]) /\ ~others[t]

AttachmentInv == AttachmentsAreReturned /\ OnlyOutermostDetaches

(* Clones and the drop of the last one exclude each other, and one thread  *)
(* at most drops.                                                          *)
OwnersAreExact ==
  \A g \in Globals :
    /\ clones[g] > 0 => global[g] = "live"
    /\ \A t \in Natives : dropping[t] = g => global[g] = "live" /\ clones[g] = 0
    /\ \A t, u \in Natives : dropping[t] = g /\ dropping[u] = g => t = u
    /\ global[g] = "live" => clones[g] > 0 \/ \E t \in Natives : dropping[t] = g

ScopesInv == ScopesTypeOK /\ AttachmentInv /\ OwnersAreExact

-----------------------------------------------------------------------------
(* Sequences of guards, the innermost first.                               *)
LEMMA GuardAdded ==
  ASSUME NEW s \in Seq(Guards), NEW x \in Guards
  PROVE  /\ <<x>> \o s \in Seq(Guards) /\ <<x>> \o s # <<>>
         /\ Len(<<x>> \o s) = Len(s) + 1
         /\ (<<x>> \o s)[1] = x
         /\ \A i \in 1 .. Len(s) : (<<x>> \o s)[i + 1] = s[i]
OBVIOUS

LEMMA GuardDropped ==
  ASSUME NEW s \in Seq(Guards), s # <<>>
  PROVE  /\ Tail(s) \in Seq(Guards) /\ Len(Tail(s)) = Len(s) - 1
         /\ \A i \in 1 .. Len(Tail(s)) : Tail(s)[i] = s[i + 1]
         /\ (Tail(s) = <<>>) = (Len(s) = 1)
         /\ Head(s) = s[1] /\ s[1] \in Guards
<1>1. Len(s) \in Nat /\ Len(s) # 0 /\ 1 \in 1 .. Len(s)
  OBVIOUS
<1>2. Head(s) = s[1] /\ s[1] \in Guards
  BY <1>1
<1>3. Tail(s) \in Seq(Guards) /\ Len(Tail(s)) = Len(s) - 1
  BY <1>1
<1>4. \A i \in 1 .. Len(Tail(s)) : Tail(s)[i] = s[i + 1]
  BY <1>1
<1>5. Tail(s) = <<>> <=> Len(Tail(s)) = 0
  <2>1. \A q \in Seq(Guards) : q = <<>> <=> Len(q) = 0
    OBVIOUS
  <2> QED
    BY <1>3, <2>1, Zenon
<1> QED
  BY <1>1, <1>2, <1>3, <1>4, <1>5

WithLocals(s, n) == [s EXCEPT ![1] = [s[1] EXCEPT !.locals = n]]

LEMMA LocalsChanged ==
  ASSUME NEW s \in Seq(Guards), s # <<>>, NEW n \in Nat
  PROVE  /\ WithLocals(s, n) \in Seq(Guards) /\ WithLocals(s, n) # <<>>
         /\ Len(WithLocals(s, n)) = Len(s)
         /\ \A i \in 1 .. Len(s) : WithLocals(s, n)[i].detach = s[i].detach
<1> DEFINE r == WithLocals(s, n)
<1>1. s[1] \in Guards /\ 1 \in 1 .. Len(s) /\ Len(s) \in Nat /\ DOMAIN s = 1 .. Len(s)
  OBVIOUS
<1> DEFINE x == [s[1] EXCEPT !.locals = n]
<1>2. x \in Guards /\ x.detach = s[1].detach
  BY <1>1 DEF Guards
<1>3. r = [s EXCEPT ![1] = x]
  BY DEF WithLocals
<1> HIDE DEF x, r
<1>4. r \in Seq(Guards) /\ Len(r) = Len(s)
  BY <1>1, <1>2, <1>3
<1>5. \A i \in 1 .. Len(s) : r[i] = IF i = 1 THEN x ELSE s[i]
  BY <1>1, <1>3
<1> QED
  <2>1. \A i \in 1 .. Len(s) : r[i].detach = s[i].detach
    BY <1>1, <1>2, <1>5
  <2>2. r # <<>>
    BY <1>1, <1>4
  <2> QED
    BY <1>4, <2>1, <2>2 DEF r

-----------------------------------------------------------------------------
LEMMA InitScopes == ScopesInit => ScopesInv
<1> SUFFICES ASSUME ScopesInit PROVE ScopesInv
  OBVIOUS
<1> USE DEF ScopesInit
<1>1. ScopesTypeOK
  BY DEF ScopesTypeOK
<1>2. AttachmentInv
  BY DEF AttachmentInv, AttachmentsAreReturned, OnlyOutermostDetaches
<1>3. OwnersAreExact
  BY NoneIsNoGlobal DEF OwnersAreExact
<1> QED
  BY <1>1, <1>2, <1>3 DEF ScopesInv

(* A new guard, in AttachCurrentThread and DeleteGlobal.                   *)
LEMMA NewGuardKeeps ==
  ASSUME ScopesTypeOK, AttachmentInv, NEW t \in Natives,
         inVm' = [inVm EXCEPT ![t] = TRUE], guards' = [guards EXCEPT ![t] = NewGuards(t)],
         UNCHANGED others
  PROVE  guards' \in [Natives -> Seq(Guards)] /\ AttachmentInv'
<1> DEFINE x == Guard(~inVm[t])
<1>1. x \in Guards /\ x.detach = ~inVm[t] /\ guards[t] \in Seq(Guards) /\ Len(guards[t]) \in Nat
  BY DEF Guard, Guards, ScopesTypeOK
<1>2. NewGuards(t) = <<x>> \o guards[t]
  BY DEF NewGuards
<1> HIDE DEF x
<1>3. /\ NewGuards(t) \in Seq(Guards) /\ NewGuards(t) # <<>>
      /\ Len(NewGuards(t)) = Len(guards[t]) + 1
      /\ NewGuards(t)[1] = x
      /\ \A i \in 1 .. Len(guards[t]) : NewGuards(t)[i + 1] = guards[t][i]
  BY <1>1, <1>2, GuardAdded
<1>4. guards' \in [Natives -> Seq(Guards)] /\ guards'[t] = NewGuards(t)
      /\ \A u \in Natives \ {t} : guards'[u] = guards[u]
  BY <1>3 DEF ScopesTypeOK
<1>5. AttachmentsAreReturned'
  BY <1>3, <1>4 DEF AttachmentsAreReturned, AttachmentInv, ScopesTypeOK
<1>6. OnlyOutermostDetaches'
  <2>1. ASSUME NEW i \in 1 .. Len(guards'[t])
        PROVE  guards'[t][i].detach <=> i = Len(guards'[t]) /\ ~others'[t]
    <3>1. CASE i = 1
      <4>1. guards[t] = <<>> <=> Len(guards[t]) = 0
        BY <1>1
      <4>2. inVm[t] <=> others[t] \/ Len(guards[t]) # 0
        BY <4>1 DEF AttachmentInv, AttachmentsAreReturned
      <4>3. i = Len(guards'[t]) <=> Len(guards[t]) = 0
        BY <1>1, <1>3, <1>4, <3>1, SMTT(60)
      <4>4. guards'[t][i].detach <=> ~inVm[t]
        BY <1>1, <1>3, <1>4, <3>1
      <4> QED
        BY <4>2, <4>3, <4>4
    <3>2. CASE i # 1
      <4>1. i - 1 \in 1 .. Len(guards[t]) /\ guards'[t][i] = guards[t][i - 1]
        <5>1. i \in Nat /\ i >= 1 /\ i <= Len(guards[t]) + 1
          BY <1>1, <1>3, <1>4
        <5>2. i - 1 \in 1 .. Len(guards[t]) /\ (i - 1) + 1 = i
          BY <1>1, <3>2, <5>1
        <5>3. NewGuards(t)[(i - 1) + 1] = guards[t][i - 1]
          BY <1>3, <5>2
        <5> QED
          BY <1>4, <5>2, <5>3
      <4>2. guards[t][i - 1].detach <=> i - 1 = Len(guards[t]) /\ ~others[t]
        BY <4>1 DEF AttachmentInv, OnlyOutermostDetaches
      <4> QED
        BY <1>1, <1>3, <1>4, <4>1, <4>2
    <3> QED
      BY <3>1, <3>2
  <2> QED
    BY <1>4, <2>1 DEF OnlyOutermostDetaches, AttachmentInv
<1> QED
  BY <1>4, <1>5, <1>6 DEF AttachmentInv

LEMMA DropGuardKeeps ==
  ASSUME ScopesTypeOK, AttachmentInv, NEW t \in Natives, DropGuard(t)
  PROVE  guards' \in [Natives -> Seq(Guards)] /\ inVm' \in [Natives -> BOOLEAN] /\ AttachmentInv'
<1>1. guards[t] \in Seq(Guards) /\ guards[t] # <<>> /\ Len(guards[t]) \in Nat /\ Len(guards[t]) > 0
  BY DEF DropGuard, ScopesTypeOK
<1>2. /\ Tail(guards[t]) \in Seq(Guards) /\ Len(Tail(guards[t])) = Len(guards[t]) - 1
      /\ \A i \in 1 .. Len(Tail(guards[t])) : Tail(guards[t])[i] = guards[t][i + 1]
      /\ (Tail(guards[t]) = <<>>) = (Len(guards[t]) = 1)
      /\ Head(guards[t]) = guards[t][1] /\ guards[t][1] \in Guards
  BY <1>1, GuardDropped
<1>3. guards[t][1].detach <=> 1 = Len(guards[t]) /\ ~others[t]
  <2>1. 1 \in 1 .. Len(guards[t])
    BY <1>1
  <2> QED
    BY <2>1 DEF AttachmentInv, OnlyOutermostDetaches
<1>4. guards' \in [Natives -> Seq(Guards)] /\ guards'[t] = Tail(guards[t])
      /\ \A u \in Natives \ {t} : guards'[u] = guards[u]
  BY <1>2 DEF DropGuard, ScopesTypeOK
<1>5. inVm' = [inVm EXCEPT ![t] = inVm[t] /\ ~guards[t][1].detach] /\ others' = others
  BY <1>2 DEF DropGuard, Innermost
<1>6. guards[t][1].detach \in BOOLEAN
  BY <1>2 DEF Guards
<1>7. inVm' \in [Natives -> BOOLEAN]
  BY <1>5, <1>6 DEF ScopesTypeOK
<1>8. AttachmentsAreReturned'
  <2>1. inVm[t]
    BY <1>1 DEF AttachmentInv, AttachmentsAreReturned
  <2>2. inVm'[t] <=> ~guards[t][1].detach
    BY <1>5, <1>6, <2>1 DEF ScopesTypeOK
  <2>3. inVm'[t] <=> others'[t] \/ guards'[t] # <<>>
    BY <1>2, <1>3, <1>4, <1>5, <2>2
  <2>4. \A u \in Natives \ {t} : inVm'[u] = inVm[u]
    BY <1>5 DEF ScopesTypeOK
  <2> QED
    BY <1>4, <1>5, <2>3, <2>4 DEF AttachmentInv, AttachmentsAreReturned
<1>9. OnlyOutermostDetaches'
  <2>1. ASSUME NEW i \in 1 .. Len(guards'[t])
        PROVE  guards'[t][i].detach <=> i = Len(guards'[t]) /\ ~others'[t]
    <3>1. i + 1 \in 1 .. Len(guards[t]) /\ guards'[t][i] = guards[t][i + 1]
      BY <1>1, <1>2, <1>4
    <3>2. guards[t][i + 1].detach <=> i + 1 = Len(guards[t]) /\ ~others[t]
      BY <3>1 DEF AttachmentInv, OnlyOutermostDetaches
    <3> QED
      BY <1>1, <1>2, <1>4, <1>5, <3>1, <3>2
  <2> QED
    BY <1>4, <1>5, <2>1, ZenonT(60) DEF OnlyOutermostDetaches, AttachmentInv
<1> QED
  BY <1>4, <1>7, <1>8, <1>9 DEF AttachmentInv

(* The count of local references is nobody else's business.                *)
LEMMA LocalsKeep ==
  ASSUME ScopesTypeOK, AttachmentInv, NEW t \in Natives, NEW n \in Nat, guards[t] # <<>>,
         guards' = [guards EXCEPT ![t] = WithLocals(guards[t], n)],
         UNCHANGED <<inVm, others>>
  PROVE  guards' \in [Natives -> Seq(Guards)] /\ AttachmentInv'
<1> DEFINE r == WithLocals(guards[t], n)
<1>1. guards[t] \in Seq(Guards)
  BY DEF ScopesTypeOK
<1>2. /\ r \in Seq(Guards) /\ r # <<>> /\ Len(r) = Len(guards[t])
      /\ \A i \in 1 .. Len(guards[t]) : r[i].detach = guards[t][i].detach
  BY <1>1, LocalsChanged
<1>3. guards' = [guards EXCEPT ![t] = r]
  OBVIOUS
<1> HIDE DEF r
<1>4. guards' \in [Natives -> Seq(Guards)] /\ guards'[t] = r
      /\ \A u \in Natives \ {t} : guards'[u] = guards[u]
  BY <1>2, <1>3 DEF ScopesTypeOK
<1>5. AttachmentsAreReturned'
  BY <1>2, <1>4 DEF AttachmentInv, AttachmentsAreReturned
<1>6. OnlyOutermostDetaches'
  BY <1>2, <1>4 DEF AttachmentInv, OnlyOutermostDetaches
<1> QED
  BY <1>4, <1>5, <1>6 DEF AttachmentInv

(* Attachments and guards, step by step; the references leave them alone.  *)
LEMMA AttachmentStep ==
  ScopesInv /\ [ScopesNext]_scopeVars =>
    /\ inVm' \in [Natives -> BOOLEAN] /\ others' \in [Natives -> BOOLEAN]
    /\ guards' \in [Natives -> Seq(Guards)]
    /\ AttachmentInv'
<1> DEFINE Goal == /\ inVm' \in [Natives -> BOOLEAN] /\ others' \in [Natives -> BOOLEAN]
                   /\ guards' \in [Natives -> Seq(Guards)] /\ AttachmentInv'
<1> SUFFICES ASSUME ScopesInv, [ScopesNext]_scopeVars PROVE Goal
  OBVIOUS
<1> USE DEF ScopesInv
<1>1. ASSUME UNCHANGED <<inVm, others, guards>> PROVE Goal
  BY <1>1 DEF ScopesTypeOK, AttachmentInv, AttachmentsAreReturned, OnlyOutermostDetaches
<1>2. ASSUME NEW t \in Natives, OthersAttach(t) \/ OthersDetach(t) PROVE Goal
  <2>1. guards[t] = <<>> /\ Len(guards[t]) = 0
    BY <1>2 DEF OthersAttach, OthersDetach, AttachmentInv, AttachmentsAreReturned
  <2>2. inVm' \in [Natives -> BOOLEAN] /\ others' \in [Natives -> BOOLEAN] /\ guards' = guards
        /\ inVm'[t] = others'[t]
        /\ \A u \in Natives \ {t} : inVm'[u] = inVm[u] /\ others'[u] = others[u]
    BY <1>2 DEF OthersAttach, OthersDetach, ScopesTypeOK
  <2>3. AttachmentsAreReturned'
    BY <2>1, <2>2 DEF AttachmentInv, AttachmentsAreReturned
  <2>4. OnlyOutermostDetaches'
    BY <2>1, <2>2 DEF AttachmentInv, OnlyOutermostDetaches
  <2> QED
    BY <2>2, <2>3, <2>4 DEF AttachmentInv, ScopesTypeOK
<1>3. ASSUME NEW t \in Natives, AttachCurrentThread(t) \/ DeleteGlobal(t) PROVE Goal
  <2>1. inVm' = [inVm EXCEPT ![t] = TRUE] /\ guards' = [guards EXCEPT ![t] = NewGuards(t)]
        /\ others' = others
    BY <1>3 DEF AttachCurrentThread, DeleteGlobal
  <2>2. inVm' \in [Natives -> BOOLEAN] /\ others' \in [Natives -> BOOLEAN]
    BY <2>1 DEF ScopesTypeOK
  <2> QED
    BY <2>1, <2>2, NewGuardKeeps
<1>4. ASSUME NEW t \in Natives, DropGuard(t) PROVE Goal
  BY <1>4, DropGuardKeeps DEF DropGuard, ScopesTypeOK
<1>5. ASSUME NEW t \in Natives, NewLocalRef(t) \/ DropLocalRef(t) PROVE Goal
  <2>1. guards[t] # <<>> /\ guards[t][1].locals \in Nat /\ Innermost(t) = guards[t][1]
    <3>1. guards[t] # <<>> /\ guards[t] \in Seq(Guards)
      BY <1>5 DEF NewLocalRef, DropLocalRef, ScopesTypeOK
    <3>2. guards[t][1] \in Guards /\ Head(guards[t]) = guards[t][1]
      BY <3>1, GuardDropped
    <3> QED
      BY <3>1, <3>2 DEF Innermost, Guards
  <2>2. PICK n \in Nat : guards' = [guards EXCEPT ![t][1].locals = n]
    <3>1. CASE NewLocalRef(t)
      <4>1. guards' = [guards EXCEPT ![t][1].locals = guards[t][1].locals + 1]
        BY <3>1 DEF NewLocalRef
      <4>2. guards[t][1].locals + 1 \in Nat
        BY <2>1
      <4> QED
        BY <4>1, <4>2
    <3>2. CASE DropLocalRef(t)
      <4>1. guards' = [guards EXCEPT ![t][1].locals = guards[t][1].locals - 1]
        BY <3>2 DEF DropLocalRef
      <4>2. guards[t][1].locals > 0
        BY <2>1, <3>2 DEF DropLocalRef
      <4>3. guards[t][1].locals - 1 \in Nat
        BY <2>1, <4>2
      <4> QED
        BY <4>1, <4>3
    <3> QED
      BY <1>5, <3>1, <3>2
  <2>3. guards' = [guards EXCEPT ![t] = WithLocals(guards[t], n)]
    BY <2>2 DEF WithLocals
  <2>4. UNCHANGED <<inVm, others>>
    BY <1>5 DEF NewLocalRef, DropLocalRef
  <2> QED
    BY <2>1, <2>3, <2>4, LocalsKeep DEF ScopesTypeOK
<1>6. ASSUME NEW t \in Natives, DeleteFails(t) PROVE Goal
  BY <1>1, <1>6 DEF DeleteFails
<1>7. ASSUME NEW t \in Natives, NEW g \in Globals, NewGlobalRef(t, g) \/ DropClone(t, g) PROVE Goal
  BY <1>1, <1>7 DEF NewGlobalRef, DropClone
<1>8. ASSUME NEW g \in Globals, CloneGlobal(g) \/ IntoRaw(g) PROVE Goal
  BY <1>1, <1>8 DEF CloneGlobal, IntoRaw
<1>9. CASE UNCHANGED scopeVars
  BY <1>1, <1>9 DEF scopeVars
<1> HIDE DEF Goal
<1> QED
  BY <1>2, <1>3, <1>4, <1>5, <1>6, <1>7, <1>8, <1>9 DEF ScopesNext

(* Global references, step by step; guards leave them alone.               *)
LEMMA OwnersStep ==
  ScopesInv /\ [ScopesNext]_scopeVars =>
    /\ clones' \in [Globals -> Nat]
    /\ global' \in [Globals -> {"free", "live", "deleted", "leaked"}]
    /\ dropping' \in [Natives -> Globals \cup {"none"}]
    /\ OwnersAreExact'
<1> DEFINE Goal == /\ clones' \in [Globals -> Nat]
                   /\ global' \in [Globals -> {"free", "live", "deleted", "leaked"}]
                   /\ dropping' \in [Natives -> Globals \cup {"none"}]
                   /\ OwnersAreExact'
<1> SUFFICES ASSUME ScopesInv, [ScopesNext]_scopeVars PROVE Goal
  OBVIOUS
<1>0. /\ clones \in [Globals -> Nat]
      /\ global \in [Globals -> {"free", "live", "deleted", "leaked"}]
      /\ dropping \in [Natives -> Globals \cup {"none"}]
      /\ OwnersAreExact
  BY DEF ScopesInv, ScopesTypeOK
<1>1. ASSUME UNCHANGED <<clones, global, dropping>> PROVE Goal
  BY <1>0, <1>1 DEF OwnersAreExact
<1>2. ASSUME NEW t \in Natives,
             OthersAttach(t) \/ OthersDetach(t) \/ AttachCurrentThread(t) \/ DropGuard(t)
             \/ NewLocalRef(t) \/ DropLocalRef(t)
      PROVE  Goal
  BY <1>1, <1>2 DEF OthersAttach, OthersDetach, AttachCurrentThread, DropGuard, NewLocalRef, DropLocalRef
<1>3. ASSUME NEW t \in Natives, DeleteGlobal(t) \/ DeleteFails(t) PROVE Goal
  <2>1. dropping[t] \in Globals
    BY <1>0, <1>3 DEF DeleteGlobal, DeleteFails
  <2>2. dropping' = [dropping EXCEPT ![t] = "none"] /\ clones' = clones
    BY <1>3 DEF DeleteGlobal, DeleteFails
  <2>3. \/ global' = [global EXCEPT ![dropping[t]] = "deleted"]
        \/ global' = [global EXCEPT ![dropping[t]] = "leaked"]
    BY <1>3 DEF DeleteGlobal, DeleteFails
  <2>4. clones[dropping[t]] = 0 /\ \A u \in Natives \ {t} : dropping[u] # dropping[t]
    BY <1>0, <2>1 DEF OwnersAreExact
  <2> QED
    BY <1>0, <2>1, <2>2, <2>3, <2>4, NoneIsNoGlobal DEF OwnersAreExact
<1>4. ASSUME NEW t \in Natives, NEW g \in Globals, NewGlobalRef(t, g) PROVE Goal
  <2>1. clones[g] = 0 /\ \A u \in Natives : dropping[u] # g
    BY <1>0, <1>4 DEF NewGlobalRef, OwnersAreExact
  <2> QED
    BY <1>0, <1>4, <2>1 DEF NewGlobalRef, OwnersAreExact
<1>5. ASSUME NEW t \in Natives, NEW g \in Globals, DropClone(t, g) PROVE Goal
  <2>1. clones[g] \in Nat /\ clones[g] > 0 /\ dropping[t] = "none" /\ global[g] = "live"
        /\ \A u \in Natives : dropping[u] # g
    BY <1>0, <1>5 DEF DropClone, OwnersAreExact
  <2>2. clones' = [clones EXCEPT ![g] = clones[g] - 1] /\ global' = global
    BY <1>5 DEF DropClone
  <2>3. CASE clones[g] = 1
    <3>1. dropping' = [dropping EXCEPT ![t] = g]
      BY <1>5, <2>3 DEF DropClone
    <3>2. \A u \in Natives : dropping'[u] = IF u = t THEN g ELSE dropping[u]
      BY <1>0, <3>1
    <3>3. \A h \in Globals : clones'[h] = IF h = g THEN 0 ELSE clones[h]
      BY <1>0, <2>2, <2>3
    <3>4. OwnersAreExact'
      BY <1>0, <2>1, <2>2, <3>2, <3>3, NoneIsNoGlobal DEF OwnersAreExact
    <3> QED
      BY <1>0, <2>1, <2>2, <3>1, <3>4
  <2>4. CASE clones[g] # 1
    <3>1. dropping' = dropping
      BY <1>5, <2>4 DEF DropClone
    <3> QED
      BY <1>0, <2>1, <2>2, <2>4, <3>1 DEF OwnersAreExact
  <2> QED
    BY <2>3, <2>4
<1>6. ASSUME NEW g \in Globals, CloneGlobal(g) PROVE Goal
  <2>1. clones[g] \in Nat /\ clones[g] > 0
    BY <1>0, <1>6, BoundsAreNumbers DEF CloneGlobal
  <2> QED
    BY <1>0, <1>6, <2>1 DEF CloneGlobal, OwnersAreExact
<1>7. ASSUME NEW g \in Globals, IntoRaw(g) PROVE Goal
  BY <1>0, <1>7 DEF IntoRaw, OwnersAreExact
<1>8. CASE UNCHANGED scopeVars
  BY <1>1, <1>8 DEF scopeVars
<1> HIDE DEF Goal
<1> QED
  BY <1>2, <1>3, <1>4, <1>5, <1>6, <1>7, <1>8 DEF ScopesNext

LEMMA ScopesStep == ScopesInv /\ [ScopesNext]_scopeVars => ScopesInv'
BY AttachmentStep, OwnersStep DEF ScopesInv, ScopesTypeOK

LEMMA ScopesInvariant == ScopesSpec => []ScopesInv
BY InitScopes, ScopesStep, PTL DEF ScopesSpec

(* No drop of a guard or of a reference detaches a thread that somebody    *)
(* needs attached, and none leaves it attached: Vm::attach_current_thread  *)
(* and Drop for AttachedEnv.                                               *)
THEOREM AttachmentsReturned == ScopesSpec => []AttachmentsAreReturned
<1>1. ScopesInv => AttachmentsAreReturned
  BY DEF ScopesInv, AttachmentInv
<1> QED
  BY <1>1, ScopesInvariant, PTL

(* A global reference is live while somebody has it, and one drop deletes  *)
(* it: GlobalRef and its clones in refs.rs.                                *)
THEOREM GlobalsStayLive == ScopesSpec => []GlobalsAreLive
<1>1. ScopesInv => GlobalsAreLive
  <2> SUFFICES ASSUME ScopesInv, NEW g \in Globals
               PROVE  LET drops == {t \in Natives : dropping[t] = g} IN
                      /\ clones[g] > 0 \/ drops # {} => global[g] = "live"
                      /\ global[g] = "live" => clones[g] > 0 \/ \E t \in drops : drops = {t}
    BY DEF GlobalsAreLive
  <2> QED
    BY DEF ScopesInv, OwnersAreExact
<1> QED
  BY <1>1, ScopesInvariant, PTL

-----------------------------------------------------------------------------
(* An invocation, and what ends without owing Java anything: a call over a *)
(* pending exception, a JNI failure, or the error of a lookup.             *)
Names == Throwables \cup {"none"}
Errors == [java : Names, held : BOOLEAN, of : {"rust", "wrapper", "lookup", "original"}]
CallingPcs == {"wrapper", "wrapper done", "lookup", "original", "original done"}
Values == {"default", "null", "local", "outer", "promoted", "gone"}
Invoked ==
  [pc : CallingPcs \cup {"called", "callback", "validate", "accepted", "failed", "reporting",
                         "dropping", "returned"},
   frame : BOOLEAN, calls : Nat, error : Errors, value : Values, taken : Names, owed : Names,
   clean : BOOLEAN, over : BOOLEAN, sound : BOOLEAN]

Excused(a) == ~a.sound \/ ~a.clean \/ a.error.of = "lookup"

\* an error holds an exception, or had it from where it is still pending
ErrorFits(a) ==
  /\ IF a.error.of = "rust" THEN a.error = RustError ELSE a.error.java # "none"
  /\ a.sound /\ a.error.of = "wrapper" => a.error.held

(* How an invocation and the pending exception p fit: the exception owed   *)
(* is pending, in the error, or taken off the thread for the handler.      *)
Fits(a, p) ==
  /\ ErrorFits(a)
  /\ a.pc = "called" =>
       a = Invocation /\ p = "none"
  /\ a.pc = "callback" /\ a.error.of = "original" /\ a.sound /\ a.clean => p = a.error.java
  /\ a.pc \in CallingPcs /\ a.error.of = "original" => ~a.sound \/ ~a.clean
  /\ a.pc = "validate" =>
       /\ a.error = RustError /\ ~a.over /\ a.owed = p
       /\ a.value \in {"null", "local", "outer"}
  /\ a.pc = "accepted" => /\ a.owed = p
                          /\ a.value \in {"default", "null", "local", "outer"}
  /\ a.pc \in {"failed", "reporting", "dropping"} => a.value = "default"
  /\ a.pc = "failed" =>
       /\ a.error.held => a.over \/ p = "none"
       /\ Excused(a) \/ a.owed = IF a.error.held THEN a.error.java ELSE p
  /\ a.pc = "reporting" =>
       /\ a.over \/ p = "none"
       /\ Excused(a) \/ (a.taken = a.owed /\ (a.taken = "none" => p = "none"))
  /\ a.pc = "dropping" => Excused(a) \/ p = a.owed
  /\ a.pc = "returned" => /\ ~a.frame /\ a.value \in {"default", "null", "promoted"}
                          /\ Excused(a) \/ p = a.owed

\* the invocations below wait in a call of theirs
HookInv ==
  /\ invocations \in Seq(Invoked) /\ pending \in Names
  /\ invocations # <<>> => Fits(Current, pending)
  /\ \A i \in 1 .. Len(invocations) - 1 :
       invocations[i].pc \in {"wrapper", "original"} /\ Fits(invocations[i], "none")

\* a call's strings: those prepared, and those handed over, are live
References == UNION {[1..n -> {"none", "live", "deleted"}] : n \in 0..MaxArguments}
Calls ==
  [stage : {"idle", "preparing", "checking", "calling", "dropping"}, operation : Operations,
   arguments : ArgumentLists, next : Nat \ {0},
   refs : References,
   prepared : SUBSET Nat, held : SUBSET Nat]
Strings(c) == {i \in DOMAIN c.arguments : c.arguments[i] = "string"}
CallFits(c) ==
  /\ DOMAIN c.refs = DOMAIN c.arguments
  /\ c.prepared \subseteq Strings(c) /\ c.held \subseteq Strings(c)
  /\ \A i \in DOMAIN c.refs : c.refs[i] = "live" <=> i \in c.prepared \cup c.held
  /\ c.stage = "preparing" => c.prepared = {i \in Strings(c) : i < c.next} /\ c.held = {}
  /\ c.stage \in {"checking", "calling"} => c.prepared \cup c.held = Strings(c)
  /\ c.stage = "idle" => c.prepared \cup c.held = {}
TempInv ==
  /\ javaCall \in Calls /\ CallFits(javaCall)
  /\ wasAttached \in BOOLEAN /\ isAttached = (wasAttached \/ ~Stage("idle"))

-----------------------------------------------------------------------------
LEMMA CurrentFits ==
  ASSUME HookInv, invocations # <<>>
  PROVE  /\ Len(invocations) \in Nat /\ Len(invocations) >= 1
         /\ Current \in Invoked /\ Fits(Current, pending)
  BY DEF HookInv, Current

LEMMA UpdateFits ==
  ASSUME HookInv, invocations # <<>>, NEW b \in Invoked, Update(b),
         pending' \in Names, Fits(b, pending')
  PROVE  HookInv'
<1> DEFINE n == Len(invocations)
<1>1. /\ n \in Nat /\ n >= 1
      /\ invocations' \in Seq(Invoked) /\ Len(invocations') = n
      /\ \A i \in 1 .. n : invocations'[i] = IF i = n THEN b ELSE invocations[i]
  BY DEF HookInv, Update
<1>2. Current' = b
  BY <1>1 DEF Current
<1>3. \A i \in 1 .. Len(invocations') - 1 : invocations'[i] = invocations[i]
  BY <1>1
<1> QED
  BY <1>1, <1>2, <1>3 DEF HookInv

\* an invocation that waits fits whatever is pending
LEMMA WaitingFits ==
  ASSUME NEW a, a.pc \in {"wrapper", "original"}, NEW p, Fits(a, p), NEW q
  PROVE  Fits(a, q)
  BY DEF Fits

LEMMA InvokeFits ==
  ASSUME HookInv, Invoke
  PROVE  HookInv'
<1> DEFINE n == Len(invocations)
<1>1. n \in Nat /\ pending = "none" /\ pending' = pending
      /\ invocations' = Append(invocations, Invocation)
  BY DEF Invoke, HookInv
<1>2. Invocation \in Invoked
  BY DEF Invocation, Invoked, Errors, RustError, Names, Values
<1>3. /\ invocations' \in Seq(Invoked) /\ Len(invocations') = n + 1
      /\ \A i \in 1 .. n : invocations'[i] = invocations[i]
      /\ invocations'[n + 1] = Invocation
  BY <1>1, <1>2 DEF HookInv
<1>4. Fits(Invocation, "none")
  BY DEF Fits, ErrorFits, Invocation, RustError, CallingPcs
<1>5. ASSUME NEW i \in 1 .. n
      PROVE  invocations[i].pc \in {"wrapper", "original"} /\ Fits(invocations[i], "none")
  <2>1. CASE i = n
    <3>1. invocations # <<>> /\ Current = invocations[i]
      BY <1>1, <1>5, <2>1 DEF Current
    <3>2. Current.pc \in {"wrapper", "original"}
      BY <3>1 DEF Invoke, InAny
    <3> QED
      BY <3>1, <3>2, CurrentFits, WaitingFits
  <2>2. CASE i # n
    BY <1>1, <2>2 DEF HookInv
  <2> QED
    BY <2>1, <2>2
<1> QED
  BY <1>1, <1>3, <1>4, <1>5 DEF HookInv, Current

LEMMA FrontOfSequence ==
  ASSUME NEW S, NEW s \in Seq(S), Len(s) >= 1, NEW z, z = SubSeq(s, 1, Len(s) - 1)
  PROVE  /\ z \in Seq(S) /\ Len(z) = Len(s) - 1
         /\ \A i \in 1 .. Len(s) - 1 : z[i] = s[i]
<1>1. /\ 1 \in Int /\ Len(s) - 1 \in Int
      /\ \A i \in 1 .. Len(s) - 1 : s[i] \in S
  OBVIOUS
<1>2. /\ z \in Seq(S) /\ Len(z) = IF 1 <= Len(s) - 1 THEN (Len(s) - 1) - 1 + 1 ELSE 0
      /\ \A i \in 1 .. (Len(s) - 1) - 1 + 1 : z[i] = s[1 + i - 1]
  BY <1>1, SubSeqProperties
<1>3. Len(z) = Len(s) - 1
  <2>1. \A n \in Nat : n >= 1 => n - 1 = IF 1 <= n - 1 THEN (n - 1) - 1 + 1 ELSE 0
    OBVIOUS
  <2>2. Len(s) \in Nat
    OBVIOUS
  <2> QED
    BY <1>2, <2>1, <2>2, Zenon
<1>4. ASSUME NEW i \in 1 .. Len(s) - 1 PROVE z[i] = s[i]
  <2>1. i \in 1 .. (Len(s) - 1) - 1 + 1 /\ 1 + i - 1 = i
    BY <1>1
  <2> QED
    BY <1>2, <2>1
<1> QED
  BY <1>2, <1>3, <1>4

LEMMA ReturnFits ==
  ASSUME HookInv, ReturnToJava
  PROVE  HookInv'
<1> DEFINE n == Len(invocations)
<1>1. n \in Nat /\ n >= 1 /\ pending' = pending
      /\ invocations' = SubSeq(invocations, 1, n - 1)
  BY CurrentFits DEF ReturnToJava, At, InAny
<1>2. /\ invocations' \in Seq(Invoked) /\ Len(invocations') = n - 1
      /\ \A i \in 1 .. n - 1 : invocations'[i] = invocations[i]
  BY <1>1, FrontOfSequence DEF HookInv
<1>3. ASSUME invocations' # <<>> PROVE Fits(Current', pending')
  <2>1. n - 1 \in 1 .. n - 1 /\ Current' = invocations[n - 1]
    BY <1>1, <1>2, <1>3 DEF Current
  <2>2. Fits(Current', "none") /\ Current'.pc \in {"wrapper", "original"}
    BY <2>1 DEF HookInv
  <2> QED
    BY <2>2, WaitingFits
<1>4. \A i \in 1 .. Len(invocations') - 1 :
        invocations'[i].pc \in {"wrapper", "original"} /\ Fits(invocations'[i], "none")
  BY <1>1, <1>2 DEF HookInv
<1> QED
  BY <1>1, <1>2, <1>3, <1>4 DEF HookInv

-----------------------------------------------------------------------------
\* what happens before and after the callback
LEMMA FrameFits ==
  ASSUME HookInv, Refuse \/ PushFrame \/ PopFrame \/ \E x \in Throwables : PushFrameFails(x)
  PROVE  HookInv'
<1>1. invocations # <<>> /\ Current.pc \in {"called", "accepted", "dropping"}
  BY DEF Refuse, PushFrame, PushFrameFails, PopFrame, At, InAny
<1>2. Current \in Invoked /\ Fits(Current, pending) /\ pending \in Names
  BY <1>1, CurrentFits DEF HookInv
<1>3. CASE Refuse
  <2> DEFINE b == [Current EXCEPT !.pc = "returned"]
  <2>1. Update(b) /\ pending' = pending /\ Current.pc = "called"
    BY <1>3 DEF Refuse, At, InAny
  <2>2. b \in Invoked
    BY <1>2 DEF Invoked
  <2>3. Fits(b, pending)
    <3>1. /\ b.pc = "returned" /\ b.error = RustError /\ ~b.frame
          /\ b.value = "default" /\ b.owed = "none" /\ pending = "none"
      BY <1>2, <2>1 DEF Fits, Invocation, Invoked
    <3> QED
      BY <3>1 DEF Fits, ErrorFits, RustError, CallingPcs
  <2> QED
    BY <1>1, <1>2, <2>1, <2>2, <2>3, UpdateFits
<1>4. CASE PushFrame
  <2> DEFINE b == [Current EXCEPT !.pc = "callback", !.frame = TRUE]
  <2>1. Update(b) /\ pending' = pending /\ Current.pc = "called"
    BY <1>4 DEF PushFrame, At, InAny
  <2>2. b \in Invoked
    BY <1>2 DEF Invoked
  <2>3. Fits(b, pending)
    <3>1. b.pc = "callback" /\ b.error = RustError
      BY <1>2, <2>1 DEF Fits, Invocation, Invoked
    <3> QED
      BY <3>1 DEF Fits, ErrorFits, RustError, CallingPcs
  <2> QED
    BY <1>1, <1>2, <2>1, <2>2, <2>3, UpdateFits
<1>5. ASSUME NEW x \in Throwables, PushFrameFails(x)
      PROVE  HookInv'
  <2>1. PICK held \in BOOLEAN :
          Update([Current EXCEPT !.pc = "failed", !.error = JavaError(x, held, "wrapper"),
                                 !.owed = x, !.sound = held])
    BY <1>5 DEF PushFrameFails
  <2> DEFINE b == [Current EXCEPT !.pc = "failed", !.error = JavaError(x, held, "wrapper"),
                                  !.owed = x, !.sound = held]
  <2>2. pending' = pending /\ Current.pc = "called" /\ x # "none"
    BY <1>5, NoneIsNoThrowable DEF PushFrameFails, At, InAny
  <2>3. b \in Invoked
    BY <1>2 DEF Invoked, JavaError, Errors, Names
  <2>4. Fits(b, pending)
    <3>1. /\ b.pc = "failed" /\ b.error = JavaError(x, held, "wrapper") /\ b.value = "default"
          /\ b.owed = x /\ b.sound = held /\ pending = "none"
      BY <1>2, <2>2 DEF Fits, Invocation, Invoked
    <3>2. b.error.java = x /\ b.error.held = held /\ b.error.of = "wrapper"
      BY <3>1 DEF JavaError
    <3> QED
      BY <2>2, <3>1, <3>2 DEF Fits, ErrorFits, CallingPcs, Excused
  <2> QED
    BY <1>1, <1>2, <2>1, <2>2, <2>3, <2>4, UpdateFits
<1>6. CASE PopFrame
  <2> DEFINE value == IF Current.pc = "accepted" /\ Current.value \in {"local", "outer"} THEN "promoted"
                      ELSE IF Current.value = "local" THEN "gone" ELSE Current.value
             b == [Current EXCEPT !.pc = "returned", !.frame = FALSE, !.value = value]
  <2>1. Update(b) /\ pending' = pending /\ Current.pc \in {"accepted", "dropping"}
    BY <1>2, <1>6 DEF PopFrame, InAny, Invoked
  <2>2. b \in Invoked
    BY <1>2 DEF Invoked, Values
  <2>3. Fits(b, pending)
    BY <1>2, <2>1 DEF Fits, ErrorFits, CallingPcs, Invoked, Excused
  <2> QED
    BY <1>1, <1>2, <2>1, <2>2, <2>3, UpdateFits
<1> QED
  BY <1>3, <1>4, <1>5, <1>6

-----------------------------------------------------------------------------
\* what the callback does
LEMMA CallbackFits ==
  ASSUME NEW a, a.pc = "callback", ErrorFits(a), NEW p,
         a.error.of = "original" /\ a.sound /\ a.clean => p = a.error.java
  PROVE  Fits(a, p)
  BY DEF Fits, CallingPcs

LEMMA InCall ==
  ASSUME HookInv, NEW pcs, InAny(pcs)
  PROVE  /\ invocations # <<>> /\ Current.pc \in pcs /\ Current \in Invoked
         /\ Fits(Current, pending) /\ ErrorFits(Current) /\ pending \in Names
  BY CurrentFits DEF InAny, Fits, HookInv

LEMMA KeepFits ==
  ASSUME HookInv, InAny(CallingPcs), NEW e \in Errors, NEW sound \in BOOLEAN,
         Keep(e, sound), pending' \in Names,
         e.of # "rust", e.java # "none",
         e.of = "wrapper" /\ sound => e.held,
         e.of = "original" /\ sound => pending' = e.java
  PROVE  HookInv'
<1>1. PICK kept \in {e, Current.error} :
        Update([Current EXCEPT !.pc = "callback", !.error = kept,
                               !.sound = @ /\ (sound \/ kept # e)])
  BY DEF Keep
<1> DEFINE b == [Current EXCEPT !.pc = "callback", !.error = kept,
                                !.sound = @ /\ (sound \/ kept # e)]
<1>2. /\ invocations # <<>> /\ Current.pc \in CallingPcs /\ Current \in Invoked
      /\ Fits(Current, pending) /\ ErrorFits(Current)
  BY InCall
<1>3. kept \in Errors
  BY <1>2 DEF Invoked
<1>4. b \in Invoked
  BY <1>2, <1>3 DEF Invoked
<1>5. /\ b.pc = "callback" /\ b.error = kept /\ b.clean = Current.clean
      /\ b.sound <=> Current.sound /\ (sound \/ kept # e)
  BY <1>2 DEF Invoked
<1>6. ErrorFits(b)
  <2>1. CASE kept = e
    BY <1>5, <2>1 DEF ErrorFits
  <2>2. CASE kept = Current.error
    BY <1>2, <1>5, <2>2 DEF ErrorFits
  <2> QED
    BY <2>1, <2>2
<1>7. b.error.of = "original" /\ b.sound /\ b.clean => pending' = b.error.java
  <2>1. CASE kept = e
    BY <1>5, <2>1
  <2>2. CASE kept = Current.error
    BY <1>2, <1>5, <2>2 DEF Fits
  <2> QED
    BY <2>1, <2>2
<1>8. Fits(b, pending')
  BY <1>5, <1>6, <1>7, CallbackFits
<1> QED
  BY <1>1, <1>2, <1>4, <1>8, UpdateFits

LEMMA BeginFits ==
  ASSUME HookInv, NEW pc \in {"wrapper", "lookup"}, BeginCall(pc)
  PROVE  HookInv'
<1> DEFINE b == [Current EXCEPT !.pc = pc, !.calls = @ + 1, !.clean = @ /\ pending = "none"]
<1>1. Update(b) /\ pending' = pending /\ InAny({"callback"})
  BY DEF BeginCall, At
<1>2. /\ invocations # <<>> /\ Current.pc = "callback" /\ Current \in Invoked
      /\ Fits(Current, pending) /\ ErrorFits(Current) /\ pending \in Names
  BY <1>1, InCall
<1>3. b \in Invoked
  <2>1. ASSUME NEW c \in BOOLEAN
        PROVE  [Current EXCEPT !.pc = pc, !.calls = @ + 1, !.clean = c] \in Invoked
    <3>1. Current.calls + 1 \in Nat
      BY <1>2 DEF Invoked
    <3> QED
      BY <1>2, <3>1 DEF Invoked, CallingPcs
  <2>2. (Current.clean /\ pending = "none") \in BOOLEAN
    OBVIOUS
  <2> QED
    BY <2>1, <2>2
<1>4. /\ b.pc = pc /\ b.error = Current.error /\ b.sound = Current.sound
      /\ b.clean <=> Current.clean /\ pending = "none"
  BY <1>2 DEF Invoked
<1>5. ErrorFits(b)
  BY <1>2, <1>4 DEF ErrorFits
<1>6. b.error.of = "original" => ~b.sound \/ ~b.clean
  <2> SUFFICES ASSUME b.error.of = "original", b.sound, b.clean PROVE FALSE
    OBVIOUS
  <2>1. pending = b.error.java /\ pending = "none"
    BY <1>2, <1>4 DEF Fits
  <2> QED
    BY <1>2, <1>4, <2>1 DEF ErrorFits
<1>7. Fits(b, pending)
  BY <1>4, <1>5, <1>6 DEF Fits
<1> QED
  BY <1>1, <1>2, <1>3, <1>7, UpdateFits

LEMMA JavaEndsFits ==
  ASSUME HookInv, JavaEnds
  PROVE  HookInv'
<1> DEFINE b == [Current EXCEPT !.pc = IF @ = "wrapper" THEN "wrapper done" ELSE "original done"]
<1>1. Update(b) /\ InAny({"wrapper", "original"})
  BY DEF JavaEnds
<1>2. /\ invocations # <<>> /\ Current.pc \in {"wrapper", "original"} /\ Current \in Invoked
      /\ Fits(Current, pending) /\ ErrorFits(Current) /\ pending \in Names
  BY <1>1, InCall
<1>3. pending' \in Names
  BY <1>2 DEF JavaEnds, Names
<1>4. b \in Invoked
  BY <1>2 DEF Invoked, CallingPcs
<1>5. /\ b.pc \in {"wrapper done", "original done"} /\ b.error = Current.error
      /\ b.sound = Current.sound /\ b.clean = Current.clean
  BY <1>2 DEF Invoked
<1>6. ErrorFits(b) /\ b.error.of = "original" => ~b.sound \/ ~b.clean
  BY <1>2, <1>5 DEF ErrorFits, Fits, CallingPcs
<1>7. Fits(b, pending')
  BY <1>2, <1>5, <1>6 DEF Fits, ErrorFits
<1> QED
  BY <1>1, <1>2, <1>3, <1>4, <1>7, UpdateFits

\* a call without an exception goes on, or returns to the callback
LEMMA GoesOn ==
  ASSUME HookInv, InAny(CallingPcs), pending' \in Names, NEW pc \in {"callback", "original"},
         Update([Current EXCEPT !.pc = pc])
  PROVE  HookInv'
<1> DEFINE b == [Current EXCEPT !.pc = pc]
<1>1. /\ invocations # <<>> /\ Current.pc \in CallingPcs /\ Current \in Invoked
      /\ Fits(Current, pending) /\ ErrorFits(Current)
  BY InCall
<1>2. b \in Invoked
  BY <1>1 DEF Invoked, CallingPcs
<1>3. /\ b.pc = pc /\ b.error = Current.error
      /\ b.sound = Current.sound /\ b.clean = Current.clean
  BY <1>1 DEF Invoked
<1>4. ErrorFits(b) /\ (b.error.of = "original" => ~b.sound \/ ~b.clean)
  BY <1>1, <1>3 DEF ErrorFits, Fits
<1>5. Fits(b, pending')
  BY <1>3, <1>4 DEF Fits
<1> QED
  BY <1>1, <1>2, <1>5, UpdateFits

LEMMA CallsFit ==
  ASSUME HookInv, WrapperReturns \/ Lookup \/ OriginalReturns
  PROVE  HookInv'
<1>0. pending \in Names /\ "none" \in Names
  BY DEF HookInv, Names
<1>1. ASSUME NEW x \in Names, NEW held \in BOOLEAN, NEW of \in {"wrapper", "lookup", "original"}
      PROVE  /\ JavaError(x, held, of) \in Errors
             /\ JavaError(x, held, of).java = x /\ JavaError(x, held, of).held = held
             /\ JavaError(x, held, of).of = of
  BY <1>1 DEF JavaError, Errors
<1>2. CASE WrapperReturns
  <2>1. InAny(CallingPcs) /\ pending' = "none"
    BY <1>2 DEF WrapperReturns, At, InAny, CallingPcs
  <2>2. CASE pending = "none"
    BY <1>0, <1>2, <2>1, <2>2, GoesOn DEF WrapperReturns
  <2>3. CASE pending # "none"
    <3>1. PICK held \in BOOLEAN : Keep(JavaError(pending, held, "wrapper"), held)
      BY <1>2, <2>3 DEF WrapperReturns
    <3> QED
      BY <1>0, <1>1, <2>1, <2>3, <3>1, KeepFits
  <2> QED
    BY <2>2, <2>3
<1>3. CASE Lookup
  <2>1. InAny(CallingPcs) /\ pending' = "none"
    BY <1>3 DEF Lookup, At, InAny, CallingPcs
  <2>2. PICK seen \in Names :
          IF seen = "none" THEN Update([Current EXCEPT !.pc = "original"])
          ELSE Keep(JavaError(seen, FALSE, "lookup"), TRUE)
    BY <1>0, <1>3 DEF Lookup, Names
  <2>3. CASE seen = "none"
    BY <1>0, <2>1, <2>2, <2>3, GoesOn
  <2>4. CASE seen # "none"
    <3>1. PICK e \in Errors : e.of = "lookup" /\ e.java = seen /\ Keep(e, TRUE)
      BY <1>1, <2>2, <2>4
    <3> QED
      BY <1>0, <2>1, <2>4, <3>1, KeepFits
  <2> QED
    BY <2>3, <2>4
<1>4. CASE OriginalReturns
  <2>1. InAny(CallingPcs)
    BY <1>4 DEF OriginalReturns, At, InAny, CallingPcs
  <2>2. CASE pending = "none"
    BY <1>0, <1>4, <2>1, <2>2, GoesOn DEF OriginalReturns
  <2>3. CASE pending # "none"
    <3>1. PICK thrown \in BOOLEAN :
            /\ pending' = IF thrown THEN pending ELSE "none"
            /\ Keep(JavaError(pending, FALSE, "original"), thrown)
      BY <1>4, <2>3 DEF OriginalReturns
    <3>2. PICK e \in Errors : e.of = "original" /\ e.java = pending /\ Keep(e, thrown)
      BY <1>0, <1>1, <3>1
    <3> QED
      BY <1>0, <2>1, <2>3, <3>1, <3>2, KeepFits
  <2> QED
    BY <2>2, <2>3
<1> QED
  BY <1>2, <1>3, <1>4

-----------------------------------------------------------------------------
\* how the callback ends
LEMMA EndFits ==
  ASSUME HookInv, NEW pc \in {"failed", "accepted", "validate"},
         NEW e \in {Current.error, RustError}, NEW value \in {"default", "null", "local", "outer"},
         NEW x \in Names, End(pc, e, value, x),
         pc = "failed" => value = "default" /\ x = IF e.java = "none" THEN pending ELSE e.java,
         pc # "failed" => e = RustError /\ x = pending,
         pc = "validate" => value # "default"
  PROVE  HookInv'
<1> DEFINE b == [Current EXCEPT !.pc = pc, !.error = e, !.value = value, !.owed = x,
                                !.over = e.held /\ pending # "none"]
<1>1. Update(b) /\ pending' = pending /\ InAny({"callback"})
  BY DEF End, At
<1>2. /\ invocations # <<>> /\ Current.pc = "callback" /\ Current \in Invoked
      /\ Fits(Current, pending) /\ ErrorFits(Current) /\ pending \in Names
  BY <1>1, InCall
<1>3. e \in Errors
  <2>1. RustError \in Errors
    BY DEF RustError, Errors, Names
  <2>2. Current.error \in Errors
    BY <1>2 DEF Invoked
  <2> QED
    BY <2>1, <2>2
<1>4. b \in Invoked
  <2>1. ASSUME NEW c \in BOOLEAN
        PROVE  [Current EXCEPT !.pc = pc, !.error = e, !.value = value, !.owed = x,
                               !.over = c] \in Invoked
    BY <1>2, <1>3 DEF Invoked, Values
  <2>2. (e.held /\ pending # "none") \in BOOLEAN
    BY <1>3 DEF Errors
  <2> QED
    BY <2>1, <2>2
<1>5. /\ b.pc = pc /\ b.error = e /\ b.value = value /\ b.owed = x
      /\ b.sound = Current.sound /\ b.clean = Current.clean
      /\ b.over <=> e.held /\ pending # "none"
  BY <1>2 DEF Invoked
<1>6. ErrorFits(b)
  <2>1. CASE e = RustError
    BY <1>5, <2>1 DEF ErrorFits, RustError
  <2>2. CASE e = Current.error
    BY <1>2, <1>5, <2>2 DEF ErrorFits
  <2> QED
    BY <2>1, <2>2
<1>7. CASE pc = "failed"
  <2>1. e.of = "original" /\ b.sound /\ b.clean => pending = e.java
    BY <1>2, <1>5 DEF Fits, RustError
  <2>2. e.of \in {"rust", "wrapper", "lookup", "original"} /\ e.held \in BOOLEAN
    BY <1>3 DEF Errors
  <2>3. /\ e.of = "rust" => e.java = "none" /\ ~e.held
        /\ e.of # "rust" => e.java # "none"
        /\ b.sound /\ e.of = "wrapper" => e.held
    BY <1>5, <1>6 DEF ErrorFits, RustError
  <2>4. Excused(b) \/ b.owed = IF e.held THEN e.java ELSE pending
    BY <1>5, <1>7, <2>1, <2>2, <2>3 DEF Excused
  <2>5. Fits(b, pending)
    BY <1>5, <1>6, <1>7, <2>4 DEF Fits, CallingPcs
  <2> QED
    BY <1>1, <1>2, <1>4, <2>5, UpdateFits
<1>8. CASE pc \in {"accepted", "validate"}
  <2>1. ~b.over /\ b.error = RustError /\ b.owed = pending
    BY <1>5, <1>8 DEF RustError
  <2>2. Fits(b, pending)
    BY <1>5, <1>6, <1>8, <2>1 DEF Fits, CallingPcs
  <2> QED
    BY <1>1, <1>2, <1>4, <2>2, UpdateFits
<1> QED
  BY <1>7, <1>8

LEMMA EndingFits ==
  ASSUME HookInv, ReturnError \/ Panic \/ ReturnPrimitive
                    \/ \E v \in {"null", "local", "outer"} : ReturnReference(v)
  PROVE  HookInv'
<1>1. pending \in Names /\ RustError.java = "none" /\ ~RustError.held
  BY DEF HookInv, RustError
<1>2. CASE ReturnError
  <2>1. PICK e \in {Current.error, RustError} :
          End("failed", e, "default", IF e.java = "none" THEN pending ELSE e.java)
    BY <1>2 DEF ReturnError
  <2>2. e.java \in Names
    <3>1. Current \in Invoked
      BY <1>2, InCall DEF ReturnError, At
    <3> QED
      BY <3>1 DEF Invoked, Errors, RustError, Names
  <2> DEFINE x == IF e.java = "none" THEN pending ELSE e.java
  <2>3. x \in Names
    BY <1>1, <2>2
  <2> QED
    BY <2>1, <2>3, EndFits
<1>3. CASE Panic
  BY <1>1, <1>3, EndFits DEF Panic
<1>4. CASE ReturnPrimitive
  BY <1>1, <1>4, EndFits DEF ReturnPrimitive
<1>5. ASSUME NEW v \in {"null", "local", "outer"}, ReturnReference(v) PROVE HookInv'
  BY <1>1, <1>5, EndFits DEF ReturnReference
<1> QED
  BY <1>2, <1>3, <1>4, <1>5

LEMMA ValidateFits ==
  ASSUME HookInv, Validate
  PROVE  HookInv'
<1>1. /\ invocations # <<>> /\ Current.pc = "validate" /\ Current \in Invoked
      /\ Fits(Current, pending) /\ pending \in Names
  <2>1. InAny({"validate"})
    BY DEF Validate, At
  <2> QED
    BY <2>1, InCall
<1>2. /\ Current.error = RustError /\ ~Current.over /\ Current.owed = pending
      /\ Current.value \in {"null", "local", "outer"}
  BY <1>1 DEF Fits
<1>3. CASE pending # "none" /\ Current.value # "null"
  <2>1. PICK held \in BOOLEAN :
          Update([Current EXCEPT !.pc = "failed", !.value = "default",
                                 !.error = JavaError(pending, held, "wrapper"),
                                 !.sound = @ /\ held])
    BY <1>3 DEF Validate
  <2> DEFINE sound == Current.sound /\ held
             b == [Current EXCEPT !.pc = "failed", !.value = "default",
                                  !.error = JavaError(pending, held, "wrapper"), !.sound = sound]
  <2>2. Update(b) /\ pending' = "none" /\ pending' \in Names
    BY <1>3, <2>1 DEF Validate, Names
  <2>3. b \in Invoked
    BY <1>1 DEF Invoked, JavaError, Errors, Values
  <2>4. /\ b.pc = "failed" /\ b.value = "default" /\ b.owed = pending
        /\ b.error = JavaError(pending, held, "wrapper") /\ b.sound => held
    BY <1>1, <1>2 DEF Invoked
  <2>5. b.error.java = pending /\ b.error.held = held /\ b.error.of = "wrapper"
    BY <2>4 DEF JavaError
  <2>6. Fits(b, "none")
    BY <1>3, <2>4, <2>5 DEF Fits, ErrorFits, CallingPcs, Excused
  <2> QED
    BY <1>1, <2>2, <2>3, <2>6, UpdateFits
<1>4. CASE ~(pending # "none" /\ Current.value # "null")
  <2>1. pending' = pending
    BY <1>4 DEF Validate
  <2>2. CASE Update([Current EXCEPT !.pc = "accepted"])
    <3> DEFINE b == [Current EXCEPT !.pc = "accepted"]
    <3>1. b \in Invoked
      BY <1>1 DEF Invoked
    <3>2. /\ b.pc = "accepted" /\ b.owed = pending /\ b.error = RustError
          /\ b.value \in {"null", "local", "outer"}
      BY <1>1, <1>2 DEF Invoked
    <3>3. Fits(b, pending)
      BY <3>2 DEF Fits, ErrorFits, CallingPcs, RustError
    <3> QED
      BY <1>1, <2>1, <2>2, <3>1, <3>3, UpdateFits
  <2>3. CASE Update([Current EXCEPT !.pc = "failed", !.value = "default"])
    <3> DEFINE b == [Current EXCEPT !.pc = "failed", !.value = "default"]
    <3>1. b \in Invoked
      BY <1>1 DEF Invoked, Values
    <3>2. b.pc = "failed" /\ b.owed = pending /\ b.error = RustError /\ b.value = "default"
      BY <1>1, <1>2 DEF Invoked
    <3>3. Fits(b, pending)
      BY <3>2 DEF Fits, ErrorFits, CallingPcs, RustError
    <3> QED
      BY <1>1, <2>1, <2>3, <3>1, <3>3, UpdateFits
  <2> QED
    BY <1>4, <2>2, <2>3 DEF Validate
<1> QED
  BY <1>3, <1>4

LEMMA RecordFits ==
  ASSUME HookInv, Record
  PROVE  HookInv'
<1>1. /\ invocations # <<>> /\ Current.pc = "failed" /\ Current \in Invoked
      /\ Fits(Current, pending) /\ ErrorFits(Current) /\ pending \in Names
  BY InCall DEF Record, At
<1> DEFINE taken == IF Current.error.held THEN Current.error.java ELSE pending
           b == [Current EXCEPT !.pc = "reporting", !.taken = taken]
<1>2. /\ Update(b)
      /\ pending' = IF Current.error.held THEN pending ELSE "none"
      /\ pending' \in Names /\ taken \in Names
  BY <1>1 DEF Record, Names, Invoked, Errors
<1>3. b \in Invoked
  BY <1>1, <1>2 DEF Invoked
<1>4. /\ b.pc = "reporting" /\ b.taken = taken /\ b.error = Current.error
      /\ b.sound = Current.sound /\ b.clean = Current.clean /\ b.over = Current.over
      /\ b.owed = Current.owed /\ b.value = "default"
  BY <1>1 DEF Invoked, Fits
<1>5. ErrorFits(b)
  BY <1>1, <1>4 DEF ErrorFits
<1>6. b.over \/ pending' = "none"
  BY <1>1, <1>2, <1>4 DEF Fits
<1>7. Excused(b) \/ (b.taken = b.owed /\ (b.taken = "none" => pending' = "none"))
  <2>1. Excused(b) <=> Excused(Current)
    BY <1>4 DEF Excused
  <2>2. Current.error.held => Current.error.java # "none"
    BY <1>1 DEF ErrorFits, RustError
  <2>3. Excused(Current) \/ Current.owed = taken
    BY <1>1 DEF Fits
  <2> QED
    BY <1>2, <1>4, <2>1, <2>2, <2>3
<1>8. Fits(b, pending')
  BY <1>4, <1>5, <1>6, <1>7 DEF Fits, CallingPcs
<1> QED
  BY <1>1, <1>2, <1>3, <1>8, UpdateFits

LEMMA RestoreFits ==
  ASSUME HookInv, Restore
  PROVE  HookInv'
<1>1. /\ invocations # <<>> /\ Current.pc = "reporting" /\ Current \in Invoked
      /\ Fits(Current, pending) /\ ErrorFits(Current) /\ pending \in Names
  BY InCall DEF Restore, At
<1>2. PICK thrown \in BOOLEAN :
        /\ Current.taken = "none" => thrown
        /\ pending' = IF Current.taken # "none" /\ thrown THEN Current.taken ELSE pending
        /\ Update([Current EXCEPT !.pc = "dropping", !.taken = "none", !.sound = @ /\ thrown])
  BY DEF Restore
<1> DEFINE sound == Current.sound /\ thrown
           b == [Current EXCEPT !.pc = "dropping", !.taken = "none", !.sound = sound]
<1>3. b \in Invoked /\ pending' \in Names
  BY <1>1, <1>2 DEF Invoked, Names
<1>4. /\ b.pc = "dropping" /\ b.error = Current.error /\ b.owed = Current.owed
      /\ b.clean = Current.clean /\ b.value = "default"
      /\ b.sound <=> Current.sound /\ thrown
  BY <1>1 DEF Invoked, Fits
<1>5. ErrorFits(b)
  BY <1>1, <1>4 DEF ErrorFits
<1>6. Excused(b) \/ pending' = b.owed
  <2> SUFFICES ASSUME ~Excused(b) PROVE pending' = b.owed
    OBVIOUS
  <2>1. thrown /\ ~Excused(Current)
    BY <1>4 DEF Excused
  <2>2. Current.taken = Current.owed /\ (Current.taken = "none" => pending = "none")
    BY <1>1, <2>1 DEF Fits
  <2> QED
    BY <1>2, <1>4, <2>1, <2>2
<1>7. Fits(b, pending')
  BY <1>4, <1>5, <1>6 DEF Fits, CallingPcs
<1> QED
  BY <1>1, <1>2, <1>3, <1>7, UpdateFits

-----------------------------------------------------------------------------
LEMMA HookInvHolds == HookSpec => []HookInv
<1>1. HookInit => HookInv
  <2> SUFFICES ASSUME HookInit PROVE HookInv
    OBVIOUS
  <2>1. invocations = <<>> /\ Len(invocations) = 0
    BY DEF HookInit
  <2>2. invocations \in Seq(Invoked) /\ 1 .. Len(invocations) - 1 = {}
    BY <2>1
  <2> QED
    BY <2>1, <2>2 DEF HookInit, HookInv, Names
<1>2. HookInv /\ [HookNext]_hookVars => HookInv'
  <2> SUFFICES ASSUME HookInv, [HookNext]_hookVars PROVE HookInv'
    OBVIOUS
  <2>1. CASE JavaHandles
    <3>1. invocations = <<>> /\ invocations' = invocations /\ pending' = "none"
      BY <2>1 DEF JavaHandles
    <3> QED
      BY <3>1 DEF HookInv, Names
  <2>2. CASE UNCHANGED hookVars
    BY <2>2 DEF hookVars, HookInv, Current
  <2>3. CASE Callback
    BY <2>3, BeginFits, CallsFit, EndingFits DEF Callback, BeginWrapper, BeginOriginal
  <2>4. CASE Refuse \/ PushFrame \/ PopFrame \/ \E x \in Throwables : PushFrameFails(x)
    BY <2>4, FrameFits
  <2> QED
    BY <2>1, <2>2, <2>3, <2>4, InvokeFits, JavaEndsFits, ValidateFits, RecordFits, RestoreFits,
       ReturnFits DEF HookNext
<1> QED
  BY <1>1, <1>2, PTL DEF HookSpec

(* Java gets the exception that its hook's callback left pending or        *)
(* returned, whatever recording the error and running the handler took.    *)
THEOREM ExceptionsReachJava == HookSpec => []ExceptionReachesJava
<1>1. HookInv => ExceptionReachesJava
  <2> SUFFICES ASSUME HookInv, At("returned")
               PROVE  Current.sound /\ Current.clean /\ Current.error.of # "lookup"
                        => pending = Current.owed
    BY DEF ExceptionReachesJava, Ended
  <2>1. Fits(Current, pending) /\ Current.pc = "returned"
    BY InCall DEF At
  <2> QED
    BY <2>1 DEF Fits, Excused
<1> QED
  BY <1>1, HookInvHolds, PTL

(* The error handler runs with no exception pending, unless the callback   *)
(* returned an error that holds one over another.                          *)
THEOREM HandlersRunClean == HookSpec => []HandlerRunsClean
<1>1. HookInv => HandlerRunsClean
  <2> SUFFICES ASSUME HookInv, At("reporting"), ~Current.over PROVE pending = "none"
    BY DEF HandlerRunsClean
  <2>1. Fits(Current, pending) /\ Current.pc = "reporting"
    BY InCall DEF At
  <2> QED
    BY <2>1 DEF Fits
<1> QED
  BY <1>1, HookInvHolds, PTL

-----------------------------------------------------------------------------
LEMMA ArgumentsAreSequences ==
  ASSUME NEW as \in ArgumentLists
  PROVE  \E n \in 0..MaxArguments :
           DOMAIN as = 1..n /\ Len(as) = n /\ as \in [1..n -> {"value", "string"}]
<1>1. PICK n \in 0..MaxArguments : as \in [1..n -> {"value", "string"}]
  BY DEF ArgumentLists
<1>2. n \in Nat
  BY MaxArgumentsIsNat
<1>3. as \in Seq({"value", "string"})
  BY <1>1, <1>2, SeqDef
<1>4. Len(as) = n
  BY <1>1, <1>2, <1>3, LenProperties
<1> QED
  BY <1>1, <1>4

LEMMA TempInitFits == TempInit => TempInv
<1> SUFFICES ASSUME TempInit PROVE TempInv
  OBVIOUS
<1> DEFINE c == [stage |-> "idle", operation |-> "wrapper", arguments |-> <<>>, next |-> 1,
                 refs |-> [i \in {} |-> "none"], prepared |-> {}, held |-> {}]
<1>1. DOMAIN <<>> = {}
  OBVIOUS
<1>2. javaCall = c
  BY <1>1 DEF TempInit, CallOf
<1>3. /\ 0 \in 0..MaxArguments /\ 1..0 = {}
      /\ <<>> \in [1..0 -> {"value", "string"}]
      /\ [i \in {} |-> "none"] \in [1..0 -> {"none", "live", "deleted"}]
  BY MaxArgumentsIsNat
<1>4. <<>> \in ArgumentLists
  BY <1>3 DEF ArgumentLists
<1>5. javaCall \in Calls
  <2>1. [i \in {} |-> "none"] \in References
    BY <1>3 DEF References
  <2> QED
    BY <1>2, <1>4, <2>1 DEF Calls, Operations
<1>6. CallFits(javaCall)
  BY <1>1, <1>2 DEF CallFits, Strings
<1> QED
  BY <1>2, <1>5, <1>6 DEF TempInit, TempInv, Stage

LEMMA StartFits ==
  ASSUME TempInv, NEW o \in Operations, NEW as \in ArgumentLists, Start(o, as)
  PROVE  TempInv'
<1> DEFINE c == CallOf(o, as)
<1>1. javaCall' = c /\ isAttached' = TRUE /\ wasAttached' = wasAttached
  BY DEF Start
<1>2. PICK n \in 0..MaxArguments : DOMAIN as = 1..n
  BY ArgumentsAreSequences
<1>3. /\ c.stage = "preparing" /\ c.arguments = as /\ c.next = 1
      /\ c.refs = [i \in 1..n |-> "none"] /\ c.prepared = {} /\ c.held = {}
  BY <1>2 DEF CallOf
<1>4. c \in Calls
  <2>1. [i \in DOMAIN as |-> "none"] \in [1..n -> {"none", "live", "deleted"}]
    BY <1>2
  <2>2. [i \in DOMAIN as |-> "none"] \in References
    BY <2>1 DEF References
  <2>3. ASSUME NEW refs \in References, NEW next \in Nat \ {0}
        PROVE  [stage |-> "preparing", operation |-> o, arguments |-> as, next |-> next,
                refs |-> refs, prepared |-> {}, held |-> {}] \in Calls
    BY DEF Calls
  <2>4. c = [stage |-> "preparing", operation |-> o, arguments |-> as, next |-> 1,
             refs |-> [i \in DOMAIN as |-> "none"], prepared |-> {}, held |-> {}]
    BY DEF CallOf
  <2>5. 1 \in Nat \ {0}
    OBVIOUS
  <2> HIDE DEF c
  <2> QED
    BY <2>2, <2>3, <2>4, <2>5
<1>5. CallFits(c)
  <2>1. DOMAIN c.refs = 1..n /\ \A i \in 1..n : c.refs[i] = "none"
    BY <1>3
  <2>2. {i \in Strings(c) : i < c.next} = {}
    <3>1. \A i \in 1..n : ~(i < 1)
      OBVIOUS
    <3> QED
      BY <1>2, <1>3, <3>1 DEF Strings
  <2> QED
    BY <1>2, <1>3, <2>1, <2>2 DEF CallFits
<1> QED
  BY <1>1, <1>3, <1>4, <1>5 DEF TempInv, Stage

\* a step of the call from stage to stage, which leaves the thread attached
LEMMA StepFits ==
  ASSUME TempInv, KeepsThread, ~Stage("idle"), NEW c \in Calls, javaCall' = c,
         c.stage # "idle", CallFits(c)
  PROVE  TempInv'
  BY DEF TempInv, KeepsThread, Stage

LEMMA GoesFits ==
  ASSUME TempInv, NEW t \in {"calling", "dropping", "idle"}, Goes(t),
         t = "calling" => Stage("checking"),
         t = "idle" => javaCall.prepared \cup javaCall.held = {}
  PROVE  javaCall' \in Calls /\ CallFits(javaCall') /\ javaCall'.stage = t
<1> DEFINE c == [javaCall EXCEPT !.stage = t]
<1>1. javaCall' = c /\ javaCall \in Calls /\ CallFits(javaCall)
  BY DEF Goes, TempInv
<1>2. c \in Calls
  BY <1>1 DEF Calls
<1>3. /\ c.stage = t /\ c.arguments = javaCall.arguments /\ c.refs = javaCall.refs
      /\ c.prepared = javaCall.prepared /\ c.held = javaCall.held
  BY <1>1 DEF Calls
<1>4. Strings(c) = Strings(javaCall)
  BY <1>3 DEF Strings
<1>5. CallFits(c)
  BY <1>1, <1>3, <1>4 DEF CallFits, Stage
<1> QED
  BY <1>1, <1>2, <1>3, <1>5

LEMMA PrepareFits ==
  ASSUME TempInv, Prepare
  PROVE  TempInv'
<1> DEFINE k == javaCall.next
<1>1. /\ javaCall \in Calls /\ CallFits(javaCall) /\ javaCall.stage = "preparing" /\ KeepsThread
      /\ k \in DOMAIN javaCall.arguments
  BY DEF TempInv, Prepare, Stage
<1>2. PICK n \in 0..MaxArguments : DOMAIN javaCall.arguments = 1..n /\ n \in Nat
  BY <1>1, ArgumentsAreSequences, MaxArgumentsIsNat DEF Calls
<1>3. k \in 1..n /\ DOMAIN javaCall.refs = 1..n
  BY <1>1, <1>2 DEF CallFits
<1>4. javaCall.refs \in [1..n -> {"none", "live", "deleted"}]
  BY <1>1, <1>3 DEF Calls, References
<1>5. CASE javaCall.arguments[k] = "value"
  <2> DEFINE c == [javaCall EXCEPT !.next = @ + 1]
  <2>1. javaCall' = c
    BY <1>5 DEF Prepare
  <2>2. c \in Calls
    BY <1>1, <1>3 DEF Calls
  <2>3. /\ c.stage = "preparing" /\ c.arguments = javaCall.arguments /\ c.refs = javaCall.refs
        /\ c.prepared = javaCall.prepared /\ c.held = javaCall.held /\ c.next = k + 1
    BY <1>1 DEF Calls
  <2>4. Strings(c) = Strings(javaCall) /\ k \notin Strings(c)
    BY <1>5, <2>3 DEF Strings
  <2>5. {i \in Strings(c) : i < k} = {i \in Strings(c) : i < k + 1}
    <3>1. \A i \in 1..n : i # k => (i < k <=> i < k + 1)
      BY <1>3
    <3>2. Strings(c) \subseteq 1..n
      BY <1>2, <2>3 DEF Strings
    <3> QED
      BY <2>4, <3>1, <3>2
  <2>6. CallFits(c)
    BY <1>1, <2>3, <2>4, <2>5 DEF CallFits
  <2> QED
    BY <1>1, <2>1, <2>2, <2>3, <2>6, StepFits DEF Stage
<1>6. CASE javaCall.arguments[k] # "value"
  <2> DEFINE c == [javaCall EXCEPT !.next = @ + 1, !.refs[k] = "live", !.prepared = @ \cup {k}]
  <2>1. javaCall' = c
    BY <1>6 DEF Prepare
  <2>2. /\ c.stage = "preparing" /\ c.arguments = javaCall.arguments
        /\ c.refs = [javaCall.refs EXCEPT ![k] = "live"]
        /\ c.prepared = javaCall.prepared \cup {k} /\ c.held = javaCall.held /\ c.next = k + 1
    BY <1>1 DEF Calls
  <2>3. c.refs \in [1..n -> {"none", "live", "deleted"}]
    BY <1>4, <2>2
  <2>4. c \in Calls
    <3>1. c.refs \in References
      BY <2>3 DEF References
    <3>2. PICK next \in Nat \ {0} : next = k + 1
      BY <1>3
    <3>3. c = [javaCall EXCEPT !.next = next, !.refs = c.refs, !.prepared = @ \cup {k}]
      BY <1>1, <3>2 DEF Calls
    <3>4. javaCall.prepared \cup {k} \in SUBSET Nat
      BY <1>1, <1>3 DEF Calls
    <3> HIDE DEF c
    <3> QED
      BY <1>1, <3>1, <3>2, <3>3, <3>4 DEF Calls
  <2>5. Strings(c) = Strings(javaCall) /\ k \in Strings(c) /\ Strings(c) \subseteq 1..n
    BY <1>1, <1>2, <1>6, <2>2, ArgumentsAreSequences DEF Strings, Calls
  <2>6. c.prepared = {i \in Strings(c) : i < k + 1} /\ c.held = {}
    <3>1. \A i \in 1..n : i < k + 1 <=> i < k \/ i = k
      BY <1>3
    <3>2. javaCall.prepared = {i \in Strings(c) : i < k} /\ javaCall.held = {}
      BY <1>1, <2>5 DEF CallFits
    <3> QED
      BY <2>2, <2>5, <3>1, <3>2
  <2>7. \A i \in 1..n : c.refs[i] = "live" <=> i \in c.prepared \cup c.held
    BY <1>1, <1>3, <1>4, <2>2 DEF CallFits
  <2>8. CallFits(c)
    BY <1>1, <1>2, <2>2, <2>3, <2>5, <2>6, <2>7 DEF CallFits
  <2> QED
    BY <1>1, <2>1, <2>2, <2>4, <2>8, StepFits DEF Stage
<1> QED
  BY <1>5, <1>6

LEMMA HandOverFits ==
  ASSUME TempInv, HandOver
  PROVE  TempInv'
<1>1. /\ javaCall \in Calls /\ CallFits(javaCall) /\ javaCall.stage = "preparing" /\ KeepsThread
      /\ javaCall.next > Len(javaCall.arguments)
  BY DEF TempInv, HandOver, Stage
<1>2. javaCall.prepared = Strings(javaCall) /\ javaCall.held = {}
  <2>1. PICK n \in 0..MaxArguments :
          DOMAIN javaCall.arguments = 1..n /\ Len(javaCall.arguments) = n /\ n \in Nat
    BY <1>1, ArgumentsAreSequences, MaxArgumentsIsNat DEF Calls
  <2>2. javaCall.next \in Nat
    BY <1>1 DEF Calls
  <2>3. \A i \in Strings(javaCall) : i < javaCall.next
    BY <1>1, <2>1, <2>2 DEF Strings
  <2> QED
    BY <1>1, <2>3 DEF CallFits
<1>3. PICK prepared, held \in {javaCall.prepared, javaCall.held} :
        /\ prepared \cup held = Strings(javaCall)
        /\ javaCall' = [javaCall EXCEPT !.stage = "checking", !.prepared = prepared, !.held = held]
  <2>1. CASE javaCall.operation # "wrapper"
    <3>1. javaCall' = [javaCall EXCEPT !.stage = "checking"]
      BY <2>1 DEF HandOver
    <3>2. javaCall' = [javaCall EXCEPT !.stage = "checking", !.prepared = javaCall.prepared,
                                       !.held = javaCall.held]
      BY <1>1, <3>1 DEF Calls
    <3> QED
      BY <1>2, <3>2
  <2>2. CASE javaCall.operation = "wrapper"
    <3>1. javaCall' = [javaCall EXCEPT !.stage = "checking", !.held = javaCall.prepared, !.prepared = {}]
      BY <2>2 DEF HandOver
    <3>2. javaCall' = [javaCall EXCEPT !.stage = "checking", !.prepared = javaCall.held,
                                       !.held = javaCall.prepared]
      BY <1>1, <1>2, <3>1 DEF Calls
    <3> QED
      BY <1>2, <3>2
  <2> QED
    BY <2>1, <2>2
<1> DEFINE c == [javaCall EXCEPT !.stage = "checking", !.prepared = prepared, !.held = held]
<1>4. c \in Calls
  BY <1>1 DEF Calls
<1>5. /\ c.stage = "checking" /\ c.arguments = javaCall.arguments /\ c.refs = javaCall.refs
      /\ c.prepared = prepared /\ c.held = held
  BY <1>1 DEF Calls
<1>6. Strings(c) = Strings(javaCall)
  BY <1>5 DEF Strings
<1>7. prepared \cup held = javaCall.prepared \cup javaCall.held
  BY <1>2, <1>3
<1>8. CallFits(c)
  BY <1>1, <1>3, <1>5, <1>6, <1>7 DEF CallFits
<1> QED
  BY <1>1, <1>3, <1>4, <1>5, <1>8, StepFits DEF Stage

LEMMA DeleteFits ==
  ASSUME TempInv, NEW k \in 1..MaxArguments, DeleteOne(k)
  PROVE  TempInv'
<1>1. /\ javaCall \in Calls /\ CallFits(javaCall) /\ javaCall.stage = "dropping" /\ KeepsThread
      /\ k \in javaCall.prepared \cup javaCall.held
  BY DEF TempInv, DeleteOne, Stage
<1>2. k \in DOMAIN javaCall.refs /\ javaCall.refs[k] = "live"
  BY <1>1 DEF CallFits, Strings
<1> DEFINE c == [javaCall EXCEPT !.refs[k] = "deleted",
                                 !.prepared = @ \ {k}, !.held = @ \ {k}]
<1>3. javaCall' = c
  BY <1>2 DEF DeleteOne
<1>4. /\ c.stage = "dropping" /\ c.arguments = javaCall.arguments
      /\ c.refs = [javaCall.refs EXCEPT ![k] = "deleted"]
      /\ c.prepared = javaCall.prepared \ {k} /\ c.held = javaCall.held \ {k}
  BY <1>1 DEF Calls
<1>5. c \in Calls
  <2>1. PICK n \in 0..MaxArguments : javaCall.refs \in [1..n -> {"none", "live", "deleted"}]
    BY <1>1 DEF Calls, References
  <2>2. c.refs \in References
    BY <1>4, <2>1 DEF References
  <2>3. c = [javaCall EXCEPT !.refs = c.refs, !.prepared = @ \ {k}, !.held = @ \ {k}]
    BY <1>1 DEF Calls
  <2> HIDE DEF c
  <2> QED
    BY <1>1, <2>2, <2>3 DEF Calls
<1>6. Strings(c) = Strings(javaCall) /\ DOMAIN c.refs = DOMAIN javaCall.refs
  BY <1>4 DEF Strings
<1>7. \A i \in DOMAIN c.refs : c.refs[i] = "live" <=> i \in c.prepared \cup c.held
  BY <1>1, <1>2, <1>4, <1>6 DEF CallFits
<1>8. CallFits(c)
  BY <1>1, <1>4, <1>6, <1>7 DEF CallFits
<1> QED
  BY <1>1, <1>3, <1>4, <1>5, <1>8, StepFits DEF Stage

LEMMA TempInvHolds == TempSpec => []TempInv
<1>1. TempInv /\ [TempNext]_tempVars => TempInv'
  <2> SUFFICES ASSUME TempInv, [TempNext]_tempVars PROVE TempInv'
    OBVIOUS
  <2>1. CASE Others
    BY <2>1 DEF Others, TempInv, Stage
  <2>2. CASE PrepareFails \/ Check \/ Called
    <3>1. PICK t \in {"calling", "dropping"} :
            Goes(t) /\ KeepsThread /\ ~Stage("idle") /\ (t = "calling" => Stage("checking"))
      BY <2>2 DEF PrepareFails, Check, Called, Stage
    <3>2. javaCall' \in Calls /\ CallFits(javaCall') /\ javaCall'.stage = t
      BY <3>1, GoesFits
    <3> QED
      BY <3>1, <3>2, StepFits
  <2>3. CASE Finish
    <3>1. javaCall' \in Calls /\ CallFits(javaCall') /\ javaCall'.stage = "idle"
      BY <2>3, GoesFits DEF Finish
    <3> QED
      BY <2>3, <3>1 DEF Finish, TempInv, Stage
  <2>4. CASE UNCHANGED tempVars
    BY <2>4 DEF tempVars, TempInv, Stage
  <2> QED
    BY <2>1, <2>2, <2>3, <2>4, StartFits, PrepareFits, HandOverFits, DeleteFits DEF TempNext
<1> QED
  BY <1>1, TempInitFits, PTL DEF TempSpec

(* The reference a hook returns is live in its caller's frame, and the     *)
(* strings of a call are while Java may look at them: none is left, none   *)
(* is deleted twice.                                                       *)
THEOREM LocalsStayLive == HookSpec /\ TempSpec => []LocalsAreLive
<1>1. HookInv => ReturnsAreLive
  <2> SUFFICES ASSUME HookInv, At("returned")
               PROVE  ~Current.frame /\ Current.value \in {"default", "null", "promoted"}
    BY DEF ReturnsAreLive, Ended
  <2>1. Fits(Current, pending) /\ Current.pc = "returned"
    BY InCall DEF At
  <2> QED
    BY <2>1 DEF Fits
<1>2. TempInv => TemporariesAreLive
  <2> SUFFICES ASSUME TempInv PROVE TemporariesAreLive
    OBVIOUS
  <2>1. javaCall \in Calls /\ CallFits(javaCall)
    BY DEF TempInv
  <2>2. ASSUME javaCall.stage \in {"checking", "calling"}
        PROVE  isAttached /\ \A i \in DOMAIN javaCall.arguments :
                                javaCall.arguments[i] = "string" => javaCall.refs[i] = "live"
    BY <2>1, <2>2 DEF TempInv, CallFits, Strings, Stage
  <2>3. Stage("idle") => isAttached = wasAttached
                         /\ \A i \in DOMAIN javaCall.refs : javaCall.refs[i] # "live"
    BY <2>1 DEF TempInv, CallFits, Stage
  <2>4. \A i \in DOMAIN javaCall.refs : javaCall.refs[i] # "deleted twice"
    <3>1. PICK n \in 0..MaxArguments : javaCall.refs \in [1..n -> {"none", "live", "deleted"}]
      BY <2>1 DEF Calls, References
    <3> QED
      BY <3>1
  <2> QED
    BY <2>2, <2>3, <2>4 DEF TemporariesAreLive
<1> QED
  BY <1>1, <1>2, HookInvHolds, TempInvHolds, PTL DEF LocalsAreLive
=============================================================================
