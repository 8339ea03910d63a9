---------------------------- MODULE HookContract ----------------------------
(***************************************************************************)
(* What a method hook promises its owner, without threads' stacks,         *)
(* counters, locks or condition variables: invocations of the callback are *)
(* admitted while the hook is open; closing it stops admission; only a     *)
(* hook without running callbacks is restored, and only a restored one is  *)
(* freed.  A restore that fails leaves the hook closed, to be tried again  *)
(* or abandoned.  ClosureReplacement implements this contract.             *)
(***************************************************************************)
CONSTANTS Hooks,        \* installed replacements
          Invocations   \* names of running callbacks

VARIABLES phase,    \* phase[h]: where the hook is in its life
          running   \* running[h]: the admitted invocations of its callback

vars == <<phase, running>>

Phases == {"absent", "open", "draining", "quiet", "restored", "freed"}

TypeOK == /\ phase \in [Hooks -> Phases]
          /\ running \in [Hooks -> SUBSET Invocations]

Init == /\ phase = [h \in Hooks |-> "absent"]
        /\ running = [h \in Hooks |-> {}]

Move(h, from, to) == /\ phase[h] \in from
                     /\ phase' = [phase EXCEPT ![h] = to]
                     /\ UNCHANGED running

Install(h) == Move(h, {"absent"}, "open")
Close(h) == Move(h, {"open"}, "draining")
Quiesce(h) == running[h] = {} /\ Move(h, {"open", "draining"}, "quiet")
RestoreFails(h) == Move(h, {"quiet"}, "draining")
Restore(h) == Move(h, {"quiet"}, "restored")
Free(h) == Move(h, {"restored"}, "freed")

Admit(h, i) == /\ phase[h] = "open"
               /\ i \notin running[h]
               /\ running' = [running EXCEPT ![h] = @ \cup {i}]
               /\ UNCHANGED phase

Retire(h, i) == /\ i \in running[h]
                /\ running' = [running EXCEPT ![h] = @ \ {i}]
                /\ UNCHANGED phase

Next == \E h \in Hooks :
          \/ Install(h) \/ Close(h) \/ Quiesce(h)
          \/ RestoreFails(h) \/ Restore(h) \/ Free(h)
          \/ \E i \in Invocations : Admit(h, i) \/ Retire(h, i)

Spec == Init /\ [][Next]_vars

(* The contract's point: no callback runs in a hook that is quiet,         *)
(* restored or freed.                                                      *)
NoCallbackAfterDrain ==
  \A h \in Hooks : phase[h] \in {"quiet", "restored", "freed"} => running[h] = {}

=============================================================================
