-------------------------- MODULE AppPerform_proofs --------------------------
(***************************************************************************)
(* Proofs about AppPerform for every set of performers and waiters, any    *)
(* failures, and both kinds of start: startup_drain excludes all drains    *)
(* but one, although its mutex is free while a drain is under way, and so  *)
(* a callback that is queued runs at most once.                            *)
(***************************************************************************)
EXTENDS AppPerform, FiniteSetTheorems, TLAPS

Pcs == {"idle", "lookup", "publish", "notify", "now", "ensure", "bind", "make", "package",
        "store", "enqueue", "begin", "loader", "swap", "run", "unready", "recheck", "waiting",
        "done"}
Startups == [is : {"waiting", "draining", "initialized"}, late : BOOLEAN]

DrainTypeOK ==
  /\ pc \in [Actors -> Pcs] /\ source \in [Actors -> Sources] /\ startup \in Startups

(* The state of the one-shot drain says whether somebody drains, and the   *)
(* main thread brings a startup method's loader only after that method.    *)
OneDrainInv ==
  /\ \A a \in Actors :
       pc[a] \in {"enqueue", "begin", "loader", "swap", "run", "unready"} => source[a] # "Direct"
  /\ \A a, b \in Draining : a = b
  /\ startup.is = "draining" <=> Draining # {}
  /\ stage \in {"binding", "package", "make"} => pc["main"] = "idle"

(* The guard of begin, as far as a drain under way keeps it.               *)
LateRefusesApk ==
  startup.late /\ "main" \in Draining => source["main"] # "LoadedApk"

DrainInv == DrainTypeOK /\ OneDrainInv /\ LateRefusesApk

LEMMA ActorsThereAre == Callers \subseteq Actors /\ Performers \subseteq Actors
                        /\ Waiters \subseteq Actors /\ "main" \in Actors
                        /\ \A c \in Callers : c # "main"
  BY DisjointCallers DEF Actors, Callers

LEMMA InitDrain == Init => DrainInv
  BY DEF Init, DrainInv, DrainTypeOK, OneDrainInv, LateRefusesApk, Draining, DrainPcs, Pcs,
         Sources, Startups

(* A step of one actor that neither begins nor ends a drain.               *)
LEMMA OrdinaryStep ==
  ASSUME DrainInv, NEW a \in Actors,
         NEW l \in Pcs, NEW s \in Sources,
         pc' = [pc EXCEPT ![a] = l], source' = [source EXCEPT ![a] = s],
         UNCHANGED startup,
         l \in {"enqueue", "begin", "loader", "swap", "run", "unready"} => s # "Direct",
         l \in DrainPcs /\ s # "Direct" <=> a \in Draining,
         l \in DrainPcs => s = source[a] \/ s = "Direct",
         stage' \in {"binding", "package", "make"} => stage' = stage /\ a # "main"
  PROVE  DrainInv'
<1> USE DEF DrainInv
<1>1. DrainTypeOK'
  BY DEF DrainTypeOK
<1>2. /\ pc'[a] = l /\ source'[a] = s
      /\ \A b \in Actors \ {a} : pc'[b] = pc[b] /\ source'[b] = source[b]
  BY DEF DrainTypeOK
<1>3. Draining' = Draining
  <2>1. a \in Draining' <=> a \in Draining
    BY <1>2 DEF Draining
  <2>2. \A b \in Actors \ {a} : b \in Draining' <=> b \in Draining
    BY <1>2 DEF Draining
  <2> QED
    BY <2>1, <2>2 DEF Draining
<1>4. OneDrainInv'
  BY <1>2, <1>3, ActorsThereAre DEF OneDrainInv
<1>5. LateRefusesApk'
  <2>1. CASE a = "main"
    BY <1>2, <1>3, <2>1, ActorsThereAre DEF LateRefusesApk, Draining
  <2>2. CASE a # "main"
    BY <1>2, <1>3, <2>2, ActorsThereAre DEF LateRefusesApk
  <2> QED
    BY <2>1, <2>2
<1> QED
  BY <1>1, <1>4, <1>5

(* What the steps above have in common when the source stays.              *)
LEMMA Going ==
  ASSUME DrainInv, NEW a \in Actors, NEW l \in Pcs,
         pc' = [pc EXCEPT ![a] = l], UNCHANGED <<source, startup, stage>>,
         l \in {"enqueue", "begin", "loader", "swap", "run", "unready"} => source[a] # "Direct",
         l \in DrainPcs /\ source[a] # "Direct" <=> a \in Draining,
         a = "main" => stage \notin {"binding", "package", "make"}
  PROVE  DrainInv'
<1>1. source' = [source EXCEPT ![a] = source[a]] /\ source[a] \in Sources
  BY DEF DrainInv, DrainTypeOK
<1> QED
  BY <1>1, OrdinaryStep

LEMMA CallerStep ==
  ASSUME DrainInv, NEW c \in Callers, Start(c) \/ Continue(c)
  PROVE  DrainInv'
<1> USE ActorsThereAre DEF Draining, DrainPcs, Pcs, Goto, Immediate
<1>1. CASE Start(c)
  <2>1. PICK l \in {"done", "lookup"} : pc' = [pc EXCEPT ![c] = l]
    BY <1>1 DEF Start
  <2> QED
    BY <1>1, <2>1, Going DEF Start, state, app
<1>2. CASE LookupFinds(c)
  BY <1>2, OrdinaryStep DEF LookupFinds, state, app, Sources
<1>3. CASE LookupUnavailable(c) \/ LookupFails(c) \/ Proceed(c)
  <2>1. PICK l \in {"done", "ensure"} : pc' = [pc EXCEPT ![c] = l]
    BY <1>3 DEF LookupUnavailable, LookupFails, Proceed
  <2>2. pc[c] \in {"lookup", "now"} /\ UNCHANGED <<source, startup, stage>>
    BY <1>3 DEF LookupUnavailable, LookupFails, Proceed, state, app
  <2> QED
    BY <2>1, <2>2, Going
<1>4. CASE EnsureStored(c) \/ Store(c)
  <2>1. /\ pc' = [pc EXCEPT ![c] = AfterEnsure(c)]
        /\ source' = [source EXCEPT ![c] = "CurrentApplication"]
        /\ pc[c] \in {"ensure", "store"} /\ UNCHANGED <<startup, stage>>
    BY <1>4 DEF EnsureStored, Store, state, app
  <2>2. AfterEnsure(c) \in {"enqueue", "begin"}
    BY DEF AfterEnsure
  <2> QED
    BY <2>1, <2>2, OrdinaryStep DEF Sources
<1>5. CASE EnsureStart(c) \/ EnsureFails(c)
  <2>1. PICK l \in {"bind", "done"} : pc' = [pc EXCEPT ![c] = l]
    BY <1>5 DEF EnsureStart, EnsureFails
  <2>2. pc[c] \in {"ensure", "store"} /\ UNCHANGED <<source, startup, stage>>
    BY <1>5 DEF EnsureStart, EnsureFails, state, app
  <2> QED
    BY <2>1, <2>2, Going
<1>6. CASE Enqueue(c)
  <2>1. /\ pc' = [pc EXCEPT ![c] = "begin"] /\ pc[c] = "enqueue"
        /\ UNCHANGED <<source, startup, stage>>
    BY <1>6 DEF Enqueue, app
  <2>2. source[c] # "Direct"
    BY <2>1 DEF DrainInv, OneDrainInv
  <2> QED
    BY <2>1, <2>2, Going
<1>7. ASSUME NEW h \in Hookpoints, InstallHook(c, h) PROVE DrainInv'
  <2>1. /\ pc' = [pc EXCEPT ![c] = NextHook(h)] /\ pc[c] = h
        /\ UNCHANGED <<source, startup, stage>>
    BY <1>7 DEF InstallHook, state, app
  <2>2. h \in {"bind", "make", "package"} /\ NextHook(h) \in {"make", "package", "store"}
    BY DEF Hookpoints, NextHook
  <2> QED
    BY <2>1, <2>2, Going
<1>8. CASE c \in Waiters /\ (Wait(c) \/ Wake(c))
  <2>1. PICK l \in {"done", "waiting", "recheck"} : pc' = [pc EXCEPT ![c] = l]
    BY <1>8 DEF Wait, Wake
  <2>2. pc[c] \in {"recheck", "waiting"} /\ UNCHANGED <<source, startup, stage>>
    BY <1>8 DEF Wait, Wake, state, app
  <2> QED
    BY <2>1, <2>2, Going
<1> QED
  BY <1>1, <1>2, <1>3, <1>4, <1>5, <1>6, <1>7, <1>8 DEF Continue, Ensure

LEMMA DrainStep ==
  ASSUME DrainInv, NEW a \in Actors, Drain(a)
  PROVE  DrainInv'
<1> USE ActorsThereAre DEF Draining, DrainPcs, Pcs, Goto, DrainInv, DrainTypeOK
<1>0. a = "main" /\ pc[a] # "idle" => stage \notin {"binding", "package", "make"}
  BY DEF OneDrainInv
<1>1. CASE Begin(a)
  <2>1. /\ pc[a] = "begin" /\ source[a] # "Direct" /\ pc' = [pc EXCEPT ![a] = "loader"]
        /\ source' = source /\ stage' = stage
        /\ startup.is = "waiting" /\ ~(source[a] = "LoadedApk" /\ startup.late)
        /\ startup' = [startup EXCEPT !.is = "draining"]
    BY <1>1 DEF Begin, CanBegin, OneDrainInv, app
  <2>2. startup' \in Startups /\ startup'.is = "draining" /\ startup'.late = startup.late
    BY <2>1 DEF Startups
  <2>3. Draining = {}
    BY <2>1 DEF OneDrainInv
  <2>4. Draining' = {a}
    BY <2>1, <2>3
  <2>5. OneDrainInv'
    BY <1>0, <2>1, <2>2, <2>4 DEF OneDrainInv
  <2>6. LateRefusesApk'
    BY <2>1, <2>2, <2>4 DEF LateRefusesApk
  <2> QED
    BY <2>1, <2>2, <2>5, <2>6
<1>2. CASE BeginRefused(a)
  <2>1. /\ pc' = [pc EXCEPT ![a] = AfterDrain(a)] /\ source' = [source EXCEPT ![a] = "Direct"]
        /\ pc[a] = "begin" /\ UNCHANGED <<startup, stage>>
    BY <1>2 DEF BeginRefused, Forget, state, app
  <2>2. AfterDrain(a) \in {"idle", "done", "recheck"}
    BY DEF AfterDrain
  <2> QED
    BY <1>0, <2>1, <2>2, OrdinaryStep DEF Sources
<1>3. CASE LoaderFound(a) \/ LoaderMissing(a)
  <2>1. PICK l \in {"publish", "unready"} : pc' = [pc EXCEPT ![a] = l]
    BY <1>3 DEF LoaderFound, LoaderMissing
  <2>2. pc[a] = "loader" /\ source[a] # "Direct" /\ UNCHANGED <<source, startup, stage>>
    BY <1>3 DEF LoaderFound, LoaderMissing, OneDrainInv, state, app
  <2> QED
    BY <1>0, <2>1, <2>2, Going
<1>4. CASE Publish(a) \/ Notify(a)
  <2>1. PICK l \in {"now", "swap", "notify"} :
          /\ pc' = [pc EXCEPT ![a] = l]
          /\ l = "now" => source[a] = "Direct"
          /\ l = "swap" => source[a] # "Direct"
    BY <1>4 DEF Publish, Notify
  <2>2. pc[a] \in {"publish", "notify"} /\ UNCHANGED <<source, startup, stage>>
    BY <1>4 DEF Publish, Notify, state, app
  <2> QED
    BY <1>0, <2>1, <2>2, Going
<1>5. CASE PublishFails(a)
  <2>1. PICK l \in {"done", "unready"} :
          pc' = [pc EXCEPT ![a] = l] /\ (l = "done" <=> source[a] = "Direct")
    BY <1>5 DEF PublishFails
  <2>2. pc[a] = "publish" /\ UNCHANGED <<source, startup, stage>>
    BY <1>5 DEF PublishFails, state, app
  <2> QED
    BY <1>0, <2>1, <2>2, Going
<1>6. CASE Swap(a)
  <2>1. /\ pc[a] = "swap" /\ pc' = [pc EXCEPT ![a] = "run"]
        /\ UNCHANGED <<source, startup, stage>>
    BY <1>6 DEF Swap, app
  <2> QED
    BY <1>0, <2>1, Going DEF OneDrainInv
<1>7. CASE Run(a)
  <2>1. UNCHANGED <<pc, source, startup, stage>>
    BY <1>7 DEF Run, state, app
  <2> QED
    BY <2>1 DEF OneDrainInv, LateRefusesApk
<1>8. CASE Finish(a)
  <2>1. /\ pc[a] \in {"run", "unready"} /\ source[a] # "Direct"
        /\ pc' = [pc EXCEPT ![a] = AfterDrain(a)] /\ source' = [source EXCEPT ![a] = "Direct"]
        /\ startup' = [startup EXCEPT !.is = IF pc[a] = "run" THEN "initialized" ELSE "waiting"]
        /\ stage' = stage
    BY <1>8 DEF Finish, Finished, Forget, OneDrainInv, app
  <2>2. AfterDrain(a) \in {"idle", "done", "recheck"}
    BY DEF AfterDrain
  <2>3. startup' \in Startups /\ startup'.is # "draining"
    BY <2>1 DEF Startups
  <2>4. \A b \in Draining : b = a
    BY <2>1 DEF OneDrainInv
  <2>5. Draining' = {}
    BY <2>1, <2>2, <2>4
  <2>6. DrainTypeOK'
    BY <2>1, <2>2, <2>3 DEF Sources
  <2>7. OneDrainInv'
    BY <1>0, <2>1, <2>2, <2>3, <2>5 DEF OneDrainInv
  <2>8. LateRefusesApk'
    BY <2>5 DEF LateRefusesApk
  <2> QED
    BY <2>6, <2>7, <2>8
<1> QED
  BY <1>1, <1>2, <1>3, <1>4, <1>5, <1>6, <1>7, <1>8 DEF Drain

LEMMA StartAppStep ==
  ASSUME DrainInv, StartApp
  PROVE  DrainInv'
<1> USE ActorsThereAre DEF Draining, DrainPcs, Pcs, Goto, DrainInv, DrainTypeOK
<1>1. CASE EnterBind \/ EnterPackage \/ EnterMake \/ Visible
  <2>1. pc["main"] = "idle" /\ UNCHANGED <<pc, source, startup>>
    BY <1>1 DEF EnterBind, EnterPackage, EnterMake, Enter, Visible, state
  <2> QED
    BY <2>1 DEF OneDrainInv, LateRefusesApk
<1>2. CASE Bind
  <2>1. /\ stage = "binding" /\ stage' = "bound" /\ UNCHANGED <<pc, source>>
        /\ startup' \in Startups /\ startup'.is = startup.is
    BY <1>2 DEF Bind, Startups
  <2>2. "main" \notin Draining'
    BY <2>1 DEF OneDrainInv
  <2> QED
    BY <2>1, <2>2 DEF OneDrainInv, LateRefusesApk
<1>3. CASE LeavePackage \/ LeaveMake
  <2>1. /\ stage \in {"package", "make"} /\ stage' \in {"packaged", "made"}
        /\ UNCHANGED startup /\ pc["main"] = "idle"
        /\ \/ UNCHANGED <<pc, source>>
           \/ \E s \in {"LoadedApk", "Application"} :
                /\ pc' = [pc EXCEPT !["main"] = "begin"]
                /\ source' = [source EXCEPT !["main"] = s]
    BY <1>3 DEF LeavePackage, LeaveMake, Leave, OneDrainInv, state
  <2>2. CASE UNCHANGED <<pc, source>>
    BY <2>1, <2>2 DEF OneDrainInv, LateRefusesApk
  <2>3. ASSUME NEW s \in {"LoadedApk", "Application"},
               pc' = [pc EXCEPT !["main"] = "begin"], source' = [source EXCEPT !["main"] = s]
        PROVE  DrainInv'
    BY <2>1, <2>3, OrdinaryStep DEF Sources
  <2> QED
    BY <2>1, <2>2, <2>3
<1> QED
  BY <1>1, <1>2, <1>3 DEF StartApp

LEMMA DrainInvStep == DrainInv /\ [Next]_vars => DrainInv'
<1> SUFFICES ASSUME DrainInv, [Next]_vars PROVE DrainInv'
  OBVIOUS
<1>1. ASSUME NEW w \in Waiters, TimeOut(w) PROVE DrainInv'
  <2>1. /\ pc' = [pc EXCEPT ![w] = "done"] /\ pc[w] \in {"ensure", "recheck", "waiting"}
        /\ UNCHANGED <<source, startup, stage>>
    BY <1>1 DEF TimeOut, Goto, state, app
  <2> QED
    BY <2>1, ActorsThereAre, Going DEF Draining, DrainPcs, Pcs, Callers
<1>2. CASE UNCHANGED vars
  BY <1>2
  DEF vars, state, app, DrainInv, DrainTypeOK, OneDrainInv, LateRefusesApk, Draining
<1> QED
  BY <1>1, <1>2, CallerStep, DrainStep, StartAppStep DEF Next

LEMMA DrainInvariant == Spec => []DrainInv
  BY InitDrain, DrainInvStep, PTL DEF Spec

-----------------------------------------------------------------------------
(* At most one actor drains, and startup_drain tells whether one does: a   *)
(* caller, and the hooks on the main thread, never drain side by side.     *)
THEOREM OneDrainAtATime == Spec => []OneDrain
<1>1. DrainInv => OneDrain
  <2> SUFFICES ASSUME DrainInv PROVE OneDrain
    OBVIOUS
  <2>1. CASE Draining = {}
    BY <2>1, FS_EmptySet DEF OneDrain, DrainInv, OneDrainInv
  <2>2. ASSUME NEW a \in Draining PROVE OneDrain
    <3>1. Draining = {a} /\ startup.is = "draining"
      BY <2>2 DEF DrainInv, OneDrainInv
    <3>2. Cardinality({a}) = 1
      BY FS_Singleton
    <3> QED
      BY <3>1, <3>2 DEF OneDrain
  <2> QED
    BY <2>1, <2>2
<1> QED
  BY <1>1, DrainInvariant, PTL

-----------------------------------------------------------------------------
(* The request of the bind hook is kept: once handleBindApplication has    *)
(* been through its hook in an instrumented start, startup_drain waits for *)
(* the late hookpoint, or a drain was under way then, or one succeeded.    *)
AskedInv ==
  /\ stage = "unbound" => ~bindHooked /\ pc["main"] = "idle"
  /\ stage = "binding" /\ bindHooked => intercepted
  /\ stage \notin {"unbound", "binding"} /\ bindHooked /\ instrumented
       => startup.late \/ overtaken \/ startup.is = "initialized"

\* no step of a caller or of a drain takes the request back
LEMMA RequestIsKept ==
  ASSUME AskedInv, UNCHANGED app, startup.late => startup'.late,
         startup.is = "initialized" => startup'.is = "initialized",
         stage = "unbound" => pc'["main"] = "idle"
  PROVE  AskedInv'
  BY DEF AskedInv, app

LEMMA AskedStep == DrainInv /\ AskedInv /\ [Next]_vars => AskedInv'
<1> SUFFICES ASSUME DrainInv, AskedInv, [Next]_vars PROVE AskedInv'
  OBVIOUS
<1> USE ActorsThereAre DEF DrainInv, DrainTypeOK, Goto
<1>1. ASSUME NEW c \in Callers, Start(c) \/ Continue(c) \/ (c \in Waiters /\ TimeOut(c))
      PROVE  AskedInv'
  <2>1. UNCHANGED <<startup, app>>
    BY <1>1 DEF Start, Continue, LookupFinds, LookupUnavailable, LookupFails, Proceed, Ensure,
                EnsureStored, EnsureStart, InstallHook, Store, EnsureFails, Enqueue, Wait, Wake,
                TimeOut, state
  <2>2. \E l : pc' = [pc EXCEPT ![c] = l]
    BY <1>1 DEF Start, Continue, LookupFinds, LookupUnavailable, LookupFails, Proceed, Ensure,
                EnsureStored, EnsureStart, InstallHook, Store, EnsureFails, Enqueue, Wait, Wake,
                TimeOut, Immediate
  <2>3. pc'["main"] = pc["main"]
    BY <2>2
  <2> QED
    BY <2>1, <2>3, RequestIsKept DEF AskedInv
<1>2. ASSUME NEW a \in Actors, Drain(a) PROVE AskedInv'
  <2>1. UNCHANGED app
    BY <1>2 DEF Drain, Begin, BeginRefused, LoaderFound, LoaderMissing, Publish, Notify,
                PublishFails, Swap, Run, Finish
  <2>2. startup'.late = startup.late /\ (startup.is = "initialized" => startup' = startup)
    <3>1. CASE Begin(a)
      BY <3>1 DEF Begin, CanBegin, Startups
    <3>2. CASE Finish(a)
      <4>1. a \in Draining
        BY <3>2 DEF Finish, Draining, DrainPcs, OneDrainInv
      <4>2. startup.is = "draining"
        BY <4>1 DEF OneDrainInv
      <4> QED
        BY <3>2, <4>2 DEF Finish, Finished, Startups
    <3>3. CASE ~Begin(a) /\ ~Finish(a)
      BY <1>2, <3>3 DEF Drain, BeginRefused, LoaderFound, LoaderMissing, Publish, Notify,
                        PublishFails, Swap, Run, state
    <3> QED
      BY <3>1, <3>2, <3>3
  <2>3. pc[a] # "idle" /\ \E f : pc' = [pc EXCEPT ![a] = f]
    <3>1. CASE Run(a)
      BY <3>1 DEF Run
    <3> QED
      BY <1>2, <3>1 DEF Drain, Begin, BeginRefused, LoaderFound, LoaderMissing, Publish, Notify,
                        PublishFails, Swap, Finish
  <2>4. a # "main" => pc'["main"] = pc["main"]
    BY <2>3
  <2> QED
    BY <2>1, <2>2, <2>3, <2>4, RequestIsKept DEF AskedInv
<1>3. CASE StartApp
  <2>1. CASE EnterBind
    BY <2>1 DEF EnterBind, Enter, AskedInv, state
  <2>2. CASE Bind
    BY <2>2 DEF Bind, AskedInv, Startups
  <2>3. CASE EnterPackage \/ EnterMake \/ LeavePackage \/ LeaveMake \/ Visible
    <3>1. /\ stage \notin {"unbound", "binding"} /\ stage' \notin {"unbound", "binding"}
          /\ UNCHANGED <<startup, instrumented, overtaken>> /\ (bindHooked' => bindHooked)
      <4>1. CASE EnterPackage
        BY <4>1 DEF EnterPackage, Enter, state
      <4>2. CASE EnterMake
        BY <4>2 DEF EnterMake, Enter, state
      <4>3. CASE LeavePackage \/ LeaveMake
        BY <4>3 DEF LeavePackage, LeaveMake, Leave, state
      <4>4. CASE Visible
        BY <4>4 DEF Visible, state
      <4> QED
        BY <2>3, <4>1, <4>2, <4>3, <4>4
    <3> QED
      BY <3>1 DEF AskedInv
  <2> QED
    BY <1>3, <2>1, <2>2, <2>3 DEF StartApp
<1>4. CASE UNCHANGED vars
  BY <1>4, RequestIsKept DEF vars, state, AskedInv
<1> QED
  BY <1>1, <1>2, <1>3, <1>4 DEF Next, Callers

(* What the bind hook of an instrumented start asks for holds for good,    *)
(* whatever drains fail and begin again: the main thread does not drain    *)
(* with the loader of the package, unless a drain was under way when the   *)
(* hook asked.                                                             *)
THEOREM LateStartsDrainLate == Spec => []LateDrainsLate
<1>1. Init => AskedInv
  BY ActorsThereAre DEF Init, AskedInv
<1>2. Spec => []AskedInv
  BY <1>1, AskedStep, DrainInvariant, PTL DEF Spec
<1>3. DrainInv /\ AskedInv => LateDrainsLate
  <2> SUFFICES ASSUME DrainInv, AskedInv, instrumented, bindHooked, ~overtaken,
                      "main" \in Draining, source["main"] = "LoadedApk"
               PROVE  FALSE
    BY DEF LateDrainsLate
  <2>1. stage \notin {"unbound", "binding"}
    BY DEF DrainInv, OneDrainInv, AskedInv, Draining, DrainPcs
  <2>2. startup.is = "draining" /\ ~startup.late
    BY DEF DrainInv, OneDrainInv, LateRefusesApk
  <2> QED
    BY <2>1, <2>2 DEF AskedInv
<1> QED
  BY <1>2, <1>3, DrainInvariant, PTL

-----------------------------------------------------------------------------
(* A performer that has not queued its callback, and may still run it      *)
(* itself.                                                                 *)
BeforePcs == {"idle", "lookup", "now", "ensure", "bind", "make", "package", "store", "enqueue"}
Before(p) == pc[p] \in BeforePcs \/ (pc[p] \in {"publish", "notify"} /\ source[p] = "Direct")

Once(s) == \A i, j \in DOMAIN s : s[i] = s[j] => i = j
Has(s, p) == In(p, s) # {}

(* A callback is queued, or in one batch, and there once; it has neither   *)
(* run nor can its performer still run it.                                 *)
QueueTypeOK ==
  /\ pending \in Seq(Performers) /\ batch \in [Actors -> Seq(Performers)]
  /\ status \in [Performers -> {"none", "pending", "completed", "failed"}]
QueueInv ==
  /\ Once(pending) /\ \A a \in Actors : Once(batch[a])
  /\ \A p \in Performers :
       /\ \A a \in Actors : ~(Has(pending, p) /\ Has(batch[a], p))
       /\ \A a, b \in Actors : Has(batch[a], p) /\ Has(batch[b], p) => a = b
       /\ Has(pending, p) => ~Done(p) /\ ~Before(p)
       /\ \A a \in Actors : Has(batch[a], p) => ~Done(p) /\ ~Before(p)
       /\ Before(p) => ~Done(p)
CallbackInv == QueueTypeOK /\ QueueInv

LEMMA InitCallbacks == Init => CallbackInv
<1> SUFFICES ASSUME Init PROVE CallbackInv
  OBVIOUS
<1>1. Once(<<>>) /\ \A p : ~Has(<<>>, p)
  BY DEF Once, Has, In
<1>2. <<>> \in Seq(Performers)
  OBVIOUS
<1>3. pending = <<>> /\ \A a \in Actors : batch[a] = <<>>
  BY DEF Init
<1>4. QueueTypeOK
  BY <1>2 DEF Init, QueueTypeOK
<1>5. \A p \in Performers : ~Done(p)
  BY DEF Init, Done
<1> QED
  BY <1>1, <1>3, <1>4, <1>5 DEF QueueInv, CallbackInv

\* a step that leaves the callbacks where they are
LEMMA QuietStep ==
  ASSUME CallbackInv, UNCHANGED <<pending, batch, status>>,
         \A p \in Performers : Before(p)' => Before(p)
  PROVE  CallbackInv'
<1>1. /\ pending' = pending /\ batch' = batch
      /\ \A p \in Performers : Done(p)' <=> Done(p)
  BY DEF Done
<1>2. QueueInv'
  BY <1>1 DEF CallbackInv, QueueInv, Once, Has, In
<1>3. QueueTypeOK'
  BY DEF CallbackInv, QueueTypeOK
<1> QED
  BY <1>2, <1>3 DEF CallbackInv

\* one actor goes on
LEMMA GoingOn ==
  ASSUME DrainInv, NEW a \in Actors, NEW l, NEW s,
         pc' = [pc EXCEPT ![a] = l],
         source' = [source EXCEPT ![a] = s],
         a \in Performers => (l \in BeforePcs \/ (l \in {"publish", "notify"} /\ s = "Direct")
                                => Before(a))
  PROVE  \A p \in Performers : Before(p)' => Before(p)
<1>1. /\ pc'[a] = l /\ source'[a] = s
      /\ \A b \in Actors \ {a} : pc'[b] = pc[b] /\ source'[b] = source[b]
  BY DEF DrainInv, DrainTypeOK
<1> SUFFICES ASSUME NEW p \in Performers, Before(p)' PROVE Before(p)
  OBVIOUS
<1>2. CASE p = a
  BY <1>1, <1>2 DEF Before
<1>3. CASE p # a
  BY <1>1, <1>3, ActorsThereAre DEF Before
<1> QED
  BY <1>2, <1>3

LEMMA GoingOnHere ==
  ASSUME DrainInv, NEW a \in Actors, NEW l, pc' = [pc EXCEPT ![a] = l], source' = source,
         a \in Performers => (l \in BeforePcs \/ (l \in {"publish", "notify"} /\ source[a] = "Direct")
                                => Before(a))
  PROVE  \A p \in Performers : Before(p)' => Before(p)
<1>1. source' = [source EXCEPT ![a] = source[a]]
  BY DEF DrainInv, DrainTypeOK
<1> QED
  BY <1>1, GoingOn

-----------------------------------------------------------------------------
\* a performer that has not queued its callback runs it, or is told to wait
LEMMA OwnStatus ==
  ASSUME CallbackInv, NEW c \in Performers, NEW s \in {"pending", "completed", "failed"},
         status' = [status EXCEPT ![c] = s], UNCHANGED <<pending, batch>>, Before(c),
         \A p \in Performers : Before(p)' => Before(p),
         s # "pending" => ~Before(c)'
  PROVE  CallbackInv'
<1>1. QueueTypeOK'
  BY DEF CallbackInv, QueueTypeOK
<1>2. /\ \A p \in Performers : p # c => (Done(p)' <=> Done(p))
      /\ Done(c)' <=> s # "pending"
  BY DEF CallbackInv, QueueTypeOK, Done
<1>3. ~Has(pending, c) /\ \A a \in Actors : ~Has(batch[a], c)
  BY DEF CallbackInv, QueueInv
<1>4. pending' = pending /\ batch' = batch
  OBVIOUS
<1>5. QueueInv'
  BY <1>2, <1>3, <1>4 DEF CallbackInv, QueueInv, Once, Has, In
<1> QED
  BY <1>1, <1>5 DEF CallbackInv

LEMMA EnqueueKeeps ==
  ASSUME DrainInv, CallbackInv, NEW c \in Performers, Enqueue(c)
  PROVE  CallbackInv'
<1>1. /\ pc[c] = "enqueue" /\ pending' = Append(pending, c) /\ pc' = [pc EXCEPT ![c] = "begin"]
      /\ UNCHANGED <<source, batch, status>>
  BY DEF Enqueue, Goto, calls
<1>2. c \in Actors
  BY ActorsThereAre
<1>3. \A p \in Performers : Before(p)' => Before(p)
  BY <1>1, <1>2, GoingOnHere DEF BeforePcs
<1>4. Before(c) /\ ~Before(c)'
  BY <1>1, <1>2 DEF Before, BeforePcs, DrainInv, DrainTypeOK
<1>5. pending \in Seq(Performers)
  BY DEF CallbackInv, QueueTypeOK
<1> DEFINE n == Len(pending)
<1>6. /\ n \in Nat /\ DOMAIN pending = 1..n /\ DOMAIN pending' = 1..(n + 1)
      /\ pending'[n + 1] = c /\ \A i \in 1..n : pending'[i] = pending[i]
      /\ pending' \in Seq(Performers)
  BY <1>1, <1>5
<1> HIDE DEF n
<1>7. \A i \in 1..(n + 1) : i \in 1..n \/ i = n + 1
  BY <1>6
<1>8. ~Has(pending, c) /\ ~Done(c) /\ \A a \in Actors : ~Has(batch[a], c)
  BY <1>4 DEF CallbackInv, QueueInv
<1>9. Once(pending')
  <2>1. \A i \in 1..n : pending[i] # c
    BY <1>6, <1>8 DEF Has, In
  <2> QED
    BY <1>6, <1>7, <2>1 DEF CallbackInv, QueueInv, Once
<1>10. \A p \in Performers : Has(pending', p) => p = c \/ Has(pending, p)
  BY <1>6, <1>7 DEF Has, In
<1>11. \A p \in Performers : Done(p)' <=> Done(p)
  BY <1>1 DEF Done
<1>12. QueueInv'
  BY <1>1, <1>3, <1>4, <1>8, <1>9, <1>10, <1>11 DEF CallbackInv, QueueInv, Has, In
<1>13. QueueTypeOK'
  BY <1>1, <1>6 DEF CallbackInv, QueueTypeOK
<1> QED
  BY <1>12, <1>13 DEF CallbackInv

LEMMA SwapKeeps ==
  ASSUME DrainInv, CallbackInv, NEW a \in Actors, Swap(a)
  PROVE  CallbackInv'
<1>1. /\ pc[a] = "swap" /\ batch' = [batch EXCEPT ![a] = pending] /\ pending' = <<>>
      /\ pc' = [pc EXCEPT ![a] = "run"] /\ UNCHANGED <<source, status>>
  BY DEF Swap, Goto
<1>2. \A p \in Performers : Before(p)' => Before(p)
  BY <1>1, GoingOnHere DEF BeforePcs
<1>3. QueueTypeOK'
  BY <1>1 DEF CallbackInv, QueueTypeOK
<1>4. batch'[a] = pending /\ \A b \in Actors : b # a => batch'[b] = batch[b]
  BY <1>1 DEF CallbackInv, QueueTypeOK
<1>5. Once(<<>>) /\ \A p : ~Has(<<>>, p)
  BY DEF Once, Has, In
<1>6. \A p \in Performers : Done(p)' <=> Done(p)
  BY <1>1 DEF Done
<1>7. /\ Once(pending') /\ \A b \in Actors : Once(batch'[b])
      /\ \A p \in Performers : ~Has(pending', p)
  BY <1>1, <1>4, <1>5 DEF CallbackInv, QueueInv
<1>8. \A p \in Performers, b \in Actors :
        Has(batch'[b], p) <=> IF b = a THEN Has(pending, p) ELSE Has(batch[b], p)
  BY <1>4
<1>9. QueueInv'
  <2>1. ASSUME NEW p \in Performers, NEW b \in Actors, NEW d \in Actors,
               Has(batch'[b], p), Has(batch'[d], p)
        PROVE  b = d
    BY <1>8, <2>1 DEF CallbackInv, QueueInv
  <2>2. ASSUME NEW p \in Performers, NEW b \in Actors, Has(batch'[b], p)
        PROVE  ~Done(p)' /\ ~Before(p)'
    BY <1>2, <1>6, <1>8, <2>2 DEF CallbackInv, QueueInv
  <2>3. \A p \in Performers : Before(p)' => ~Done(p)'
    BY <1>2, <1>6 DEF CallbackInv, QueueInv
  <2> QED
    BY <1>7, <2>1, <2>2, <2>3 DEF QueueInv, Once, Has, In
<1> QED
  BY <1>3, <1>9 DEF CallbackInv

LEMMA RunKeeps ==
  ASSUME DrainInv, CallbackInv, NEW a \in Actors, Run(a)
  PROVE  CallbackInv'
<1> DEFINE h == Head(batch[a])
<1>1. PICK s \in {"completed", "failed"} :
        /\ batch[a] # <<>> /\ status' = [status EXCEPT ![h] = s]
        /\ batch' = [batch EXCEPT ![a] = Tail(@)]
        /\ UNCHANGED <<pending, pc, source>>
  BY DEF Run, state
<1>2. /\ batch[a] \in Seq(Performers) /\ h \in Performers /\ Tail(batch[a]) \in Seq(Performers)
  BY <1>1 DEF CallbackInv, QueueTypeOK
<1>3. QueueTypeOK'
  BY <1>1, <1>2 DEF CallbackInv, QueueTypeOK
<1>4. batch'[a] = Tail(batch[a]) /\ \A b \in Actors : b # a => batch'[b] = batch[b]
  BY <1>1 DEF CallbackInv, QueueTypeOK
<1> DEFINE n == Len(batch[a])
           t == Tail(batch[a])
<1>5. /\ n \in Nat /\ n >= 1 /\ DOMAIN batch[a] = 1..n /\ DOMAIN t = 1..(n - 1)
      /\ h = batch[a][1] /\ \A i \in 1..(n - 1) : t[i] = batch[a][i + 1]
  BY <1>1, <1>2
<1> HIDE DEF n, t, h
<1>6. 1 \in 1..n /\ \A i \in 1..(n - 1) : i + 1 \in 1..n /\ i + 1 # 1
  BY <1>5
<1>7. Once(batch[a])
  BY DEF CallbackInv, QueueInv
<1>8. Once(t)
  <2> SUFFICES ASSUME NEW i \in 1..(n - 1), NEW j \in 1..(n - 1), t[i] = t[j] PROVE i = j
    BY <1>5 DEF Once
  <2>1. i + 1 = j + 1
    BY <1>5, <1>6, <1>7 DEF Once
  <2> QED
    BY <1>5, <2>1
<1>9. ~Has(t, h) /\ Has(batch[a], h) /\ \A p : Has(t, p) => Has(batch[a], p)
  <2>1. ASSUME NEW i \in 1..(n - 1) PROVE t[i] # h
    <3>1. i + 1 \in DOMAIN batch[a] /\ 1 \in DOMAIN batch[a] /\ i + 1 # 1
      BY <1>5, <1>6
    <3>2. batch[a][i + 1] # batch[a][1]
      BY <1>7, <3>1 DEF Once
    <3> QED
      BY <1>5, <3>2
  <2>2. Has(batch[a], h)
    BY <1>5, <1>6 DEF Has, In
  <2>3. ASSUME NEW p, Has(t, p) PROVE Has(batch[a], p)
    <3>1. PICK i \in 1..(n - 1) : t[i] = p
      BY <1>5, <2>3 DEF Has, In
    <3>2. i + 1 \in DOMAIN batch[a] /\ batch[a][i + 1] = p
      BY <1>5, <1>6, <3>1
    <3> QED
      BY <3>2 DEF Has, In
  <2> QED
    BY <1>5, <2>1, <2>2, <2>3 DEF Has, In
<1>10. \A p \in Performers, b \in Actors :
         Has(batch'[b], p) => Has(batch[b], p) /\ p # h
  <2> SUFFICES ASSUME NEW p \in Performers, NEW b \in Actors, Has(batch'[b], p)
               PROVE  Has(batch[b], p) /\ p # h
    OBVIOUS
  <2>1. CASE b = a
    BY <1>4, <1>9, <2>1 DEF t
  <2>2. CASE b # a
    BY <1>4, <1>9, <2>2 DEF CallbackInv, QueueInv
  <2> QED
    BY <2>1, <2>2
<1>11. ~Has(pending, h) /\ ~Before(h)
  BY <1>2, <1>9 DEF CallbackInv, QueueInv
<1>12. \A p \in Performers : p # h => (Done(p)' <=> Done(p))
  BY <1>1, <1>2 DEF CallbackInv, QueueTypeOK, Done
<1>13. \A p \in Performers : Before(p)' <=> Before(p)
  BY <1>1 DEF Before
<1>14. Once(pending') /\ \A b \in Actors : Once(batch'[b])
  BY <1>1, <1>4, <1>8 DEF CallbackInv, QueueInv, t
<1>15. QueueInv'
  <2>1. ASSUME NEW p \in Performers, NEW b \in Actors, Has(batch'[b], p)
        PROVE  ~Done(p)' /\ ~Before(p)' /\ ~Has(pending', p)
    BY <1>1, <1>10, <1>12, <1>13, <2>1 DEF CallbackInv, QueueInv
  <2>2. ASSUME NEW p \in Performers, Has(pending', p)
        PROVE  ~Done(p)' /\ ~Before(p)'
    BY <1>1, <1>11, <1>12, <1>13, <2>2 DEF CallbackInv, QueueInv
  <2>3. \A p \in Performers, b, d \in Actors : Has(batch'[b], p) /\ Has(batch'[d], p) => b = d
    BY <1>10 DEF CallbackInv, QueueInv
  <2>4. \A p \in Performers : Before(p)' => ~Done(p)'
    BY <1>11, <1>12, <1>13 DEF CallbackInv, QueueInv
  <2> QED
    BY <1>14, <2>1, <2>2, <2>3, <2>4 DEF QueueInv, Once, Has, In
<1> QED
  BY <1>3, <1>15 DEF CallbackInv

LEMMA CallerKeepsCallbacks ==
  ASSUME DrainInv, CallbackInv, NEW c \in Callers, Start(c) \/ Continue(c)
  PROVE  CallbackInv'
<1> USE ActorsThereAre DEF BeforePcs, Goto
<1>1. CASE Start(c) \/ Proceed(c)
  <2>1. /\ UNCHANGED <<pending, batch, source>> /\ pc[c] \in {"idle", "now"}
        /\ \/ /\ Immediate(c)
           \/ /\ pc' = [pc EXCEPT ![c] = "lookup"]
              /\ status' = IF c \in Performers THEN [status EXCEPT ![c] = "pending"] ELSE status
    BY <1>1 DEF Start, Proceed, state
  <2>2. PICK l \in {"done", "lookup"} : pc' = [pc EXCEPT ![c] = l] /\ (l = "done" <=> Immediate(c))
    BY <2>1 DEF Immediate
  <2>3. Before(c) /\ \A p \in Performers : Before(p)' => Before(p)
    BY <2>1, <2>2, GoingOnHere DEF Before
  <2>4. CASE c \in Performers
    <3>1. PICK s \in {"pending", "completed", "failed"} :
            status' = [status EXCEPT ![c] = s] /\ (s # "pending" => l = "done")
      BY <2>1, <2>2, <2>4 DEF Immediate
    <3>2. l = "done" => ~Before(c)'
      BY <2>2 DEF Before, DrainInv, DrainTypeOK
    <3> QED
      BY <2>1, <2>3, <2>4, <3>1, <3>2, OwnStatus
  <2>5. CASE c \notin Performers
    BY <2>1, <2>2, <2>3, <2>5, QuietStep DEF Immediate
  <2> QED
    BY <2>4, <2>5
<1>2. CASE LookupFinds(c)
  <2>1. /\ pc' = [pc EXCEPT ![c] = "publish"] /\ source' = [source EXCEPT ![c] = "Direct"]
        /\ pc[c] = "lookup" /\ UNCHANGED <<pending, batch, status>>
    BY <1>2 DEF LookupFinds, state, calls
  <2> QED
    BY <2>1, GoingOn, QuietStep DEF Before
<1>3. CASE EnsureStored(c) \/ Store(c)
  <2>1. /\ pc' = [pc EXCEPT ![c] = AfterEnsure(c)]
        /\ source' = [source EXCEPT ![c] = "CurrentApplication"]
        /\ pc[c] \in {"ensure", "store"} /\ UNCHANGED <<pending, batch, status>>
    BY <1>3 DEF EnsureStored, Store, state, calls
  <2> QED
    BY <2>1, GoingOn, QuietStep DEF Before
<1>4. CASE LookupUnavailable(c) \/ LookupFails(c) \/ EnsureStart(c) \/ EnsureFails(c)
  <2>1. PICK l : pc' = [pc EXCEPT ![c] = l]
    BY <1>4 DEF LookupUnavailable, LookupFails, EnsureStart, EnsureFails
  <2>2. pc[c] \in {"lookup", "ensure", "store"} /\ UNCHANGED <<source, pending, batch, status>>
    BY <1>4 DEF LookupUnavailable, LookupFails, EnsureStart, EnsureFails, state, calls
  <2> QED
    BY <2>1, <2>2, GoingOnHere, QuietStep DEF Before
<1>5. ASSUME NEW h \in Hookpoints, InstallHook(c, h) PROVE CallbackInv'
  <2>1. /\ pc' = [pc EXCEPT ![c] = NextHook(h)] /\ pc[c] = h
        /\ UNCHANGED <<source, pending, batch, status>>
    BY <1>5 DEF InstallHook, state, calls
  <2> QED
    BY <2>1, GoingOnHere, QuietStep DEF Before, Hookpoints
<1>6. CASE c \in Performers /\ Enqueue(c)
  BY <1>6, EnqueueKeeps
<1>7. CASE c \in Waiters /\ (Wait(c) \/ Wake(c))
  <2>1. PICK l : pc' = [pc EXCEPT ![c] = l]
    BY <1>7 DEF Wait, Wake
  <2>2. UNCHANGED <<source, pending, batch, status>> /\ c \notin Performers
    BY <1>7, DisjointCallers DEF Wait, Wake, state, calls
  <2> QED
    BY <2>1, <2>2, GoingOnHere, QuietStep
<1> QED
  BY <1>1, <1>2, <1>3, <1>4, <1>5, <1>6, <1>7 DEF Continue, Ensure

LEMMA DrainKeepsCallbacks ==
  ASSUME DrainInv, CallbackInv, NEW a \in Actors, Drain(a)
  PROVE  CallbackInv'
<1> USE DEF BeforePcs, Goto
<1>1. CASE Begin(a) \/ LoaderFound(a) \/ LoaderMissing(a)
  <2>1. PICK l \in {"loader", "publish", "unready"} : pc' = [pc EXCEPT ![a] = l]
    BY <1>1 DEF Begin, LoaderFound, LoaderMissing
  <2>2. /\ UNCHANGED <<source, pending, batch, status>> /\ source[a] # "Direct"
    BY <1>1 DEF Begin, LoaderFound, LoaderMissing, state, calls, DrainInv, OneDrainInv
  <2> QED
    BY <2>1, <2>2, GoingOnHere, QuietStep
<1>2. CASE BeginRefused(a) \/ Finish(a)
  <2>1. /\ pc' = [pc EXCEPT ![a] = AfterDrain(a)] /\ source' = [source EXCEPT ![a] = "Direct"]
        /\ UNCHANGED <<pending, batch, status>>
    BY <1>2 DEF BeginRefused, Finish, Forget, state, calls
  <2>2. a \in Performers => AfterDrain(a) = "done"
    BY DisjointCallers DEF AfterDrain, Callers
  <2> QED
    BY <2>1, <2>2, GoingOn, QuietStep
<1>3. CASE Publish(a) \/ Notify(a) \/ PublishFails(a)
  <2>1. PICK l \in {"now", "swap", "notify", "done", "unready"} :
          pc' = [pc EXCEPT ![a] = l] /\ (l \in {"now", "notify"} => source[a] = "Direct" \/ l = "notify")
    BY <1>3 DEF Publish, Notify, PublishFails
  <2>2. pc[a] \in {"publish", "notify"} /\ UNCHANGED <<source, pending, batch, status>>
    BY <1>3 DEF Publish, Notify, PublishFails, state, calls
  <2> QED
    BY <2>1, <2>2, GoingOnHere, QuietStep DEF Before
<1> QED
  BY <1>1, <1>2, <1>3, SwapKeeps, RunKeeps DEF Drain

LEMMA CallbackStep == DrainInv /\ CallbackInv /\ [Next]_vars => CallbackInv'
<1> SUFFICES ASSUME DrainInv, CallbackInv, [Next]_vars PROVE CallbackInv'
  OBVIOUS
<1>1. ASSUME NEW w \in Waiters, TimeOut(w) PROVE CallbackInv'
  <2>1. /\ pc' = [pc EXCEPT ![w] = "done"] /\ UNCHANGED <<source, pending, batch, status>>
    BY <1>1 DEF TimeOut, Goto, state
  <2> QED
    BY <2>1, ActorsThereAre, GoingOnHere, QuietStep DEF BeforePcs
<1>2. CASE StartApp
  <2>1. UNCHANGED <<pending, batch, status>>
    BY <1>2 DEF StartApp, EnterBind, EnterPackage, EnterMake, Enter, Bind, LeavePackage, LeaveMake,
                Leave, Visible, state, calls
  <2>2. CASE UNCHANGED <<pc, source>>
    BY <2>1, <2>2, QuietStep DEF Before
  <2>3. CASE ~UNCHANGED <<pc, source>>
    <3>1. PICK s : pc' = [pc EXCEPT !["main"] = "begin"] /\ source' = [source EXCEPT !["main"] = s]
      BY <1>2, <2>3 DEF StartApp, EnterBind, EnterPackage, EnterMake, Enter, Bind, LeavePackage,
                        LeaveMake, Leave, Visible, Goto
    <3> QED
      BY <2>1, <3>1, ActorsThereAre, GoingOn, QuietStep DEF BeforePcs
  <2> QED
    BY <2>2, <2>3
<1>3. CASE UNCHANGED vars
  BY <1>3, QuietStep DEF vars, state, calls, Before
<1> QED
  BY <1>1, <1>2, <1>3, CallerKeepsCallbacks, DrainKeepsCallbacks DEF Next

LEMMA CallbackInvariant == Spec => []CallbackInv
  BY InitCallbacks, CallbackStep, DrainInvariant, PTL DEF Spec

(* No callback runs twice or is run by two drains, whoever drains, and a   *)
(* callback its own caller runs is never queued as well.                   *)
THEOREM CallbacksRunAtMostOnce == Spec => []RunsAtMostOnce
<1>1. ASSUME CallbackInv, NEW p \in Performers
      PROVE  Cardinality(In(p, pending)) + Cardinality({a \in Actors : In(p, batch[a]) # {}})
               <= IF Done(p) THEN 0 ELSE 1
  <2> DEFINE queued == In(p, pending)
             held == {a \in Actors : In(p, batch[a]) # {}}
  <2>1. queued = {} \/ \E i : queued = {i}
    BY <1>1 DEF CallbackInv, QueueInv, Once, In
  <2>2. held = {} \/ \E a : held = {a}
    BY <1>1 DEF CallbackInv, QueueInv, Has
  <2>3. queued = {} \/ held = {}
    BY <1>1 DEF CallbackInv, QueueInv, Has
  <2>4. Done(p) => queued = {} /\ held = {}
    BY <1>1 DEF CallbackInv, QueueInv, Has
  <2> HIDE DEF queued, held
  <2>5. /\ queued = {} => Cardinality(queued) = 0
        /\ held = {} => Cardinality(held) = 0
    BY FS_EmptySet
  <2>6. /\ queued # {} => Cardinality(queued) = 1
        /\ held # {} => Cardinality(held) = 1
    BY <2>1, <2>2, FS_Singleton
  <2>7. Cardinality(queued) + Cardinality(held) <= IF Done(p) THEN 0 ELSE 1
    BY <2>3, <2>4, <2>5, <2>6
  <2> QED
    BY <2>7 DEF queued, held
<1>2. CallbackInv => RunsAtMostOnce
  BY <1>1 DEF RunsAtMostOnce
<1> QED
  BY <1>2, CallbackInvariant, PTL
=============================================================================
