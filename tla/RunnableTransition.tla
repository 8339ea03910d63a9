-------------------------- MODULE RunnableTransition --------------------------
(***************************************************************************)
(* art/runnable_thread.rs: the code that turns a thread runnable.          *)
(*                                                                         *)
(* ART's ExceptionClear is copied, instruction by instruction, with its    *)
(* core replaced by a call of the bridge: the store that clears the        *)
(* exception of the thread, or the call through the JNI table by which     *)
(* CheckJNI reaches it.  What runs before the core makes the thread        *)
(* runnable and what runs after it makes it native again, so the copy has  *)
(* to take the original's way, into blocks that were found in any order,   *)
(* behind or before the entry.                                             *)
(*                                                                         *)
(* An address is a number, and code a function on some of them; Gum's      *)
(* relocator, external, keeps what an instruction does at another address. *)
(***************************************************************************)
EXTENDS Integers, FiniteSets, Sequences, SequencesExt

-----------------------------------------------------------------------------
(* Instructions, as decode_arm64 tells them apart.  The loads and stores   *)
(* of a register that concern nobody are "other", as are calls.            *)
Insn(kind, target, reg) == [kind |-> kind, target |-> target, reg |-> reg]
Branch(t) == Insn("b", t, "none")
\* b.cond, cbz, cbnz, tbz or tbnz
BranchIf(t) == Insn("branch", t, "none")
Ret == Insn("ret", 0, "none")
\* str xzr, [reg, #exception_offset]
Clear(reg) == Insn("clear", 0, reg)
\* ldr reg, [_, #ENV_EXCEPTION_CLEAR * 8]
LoadSlot(reg) == Insn("load", 0, reg)
Blr(reg) == Insn("blr", 0, reg)
\* br, which ends what Gum reads
Jump == Insn("jump", 0, "none")
Other == Insn("other", 0, "none")

HasTarget(insn) == insn.kind \in {"b", "branch"}
EndsBlock(insn) == insn.kind \in {"b", "ret", "jump"}

-----------------------------------------------------------------------------
(* collect_arm64_blocks                                                    *)
\* where the block ends that begins there: before the next function or what
\* cannot be read, or behind an instruction that goes elsewhere
BlockEnd(code, next, begin) ==
  CHOOSE end \in {begin} \cup {a + 1 : a \in DOMAIN code} :
    /\ end >= begin
    /\ end \notin DOMAIN code \/ end = next \/ (end > begin /\ EndsBlock(code[end - 1]))
    /\ \A a \in begin .. end - 1 :
         /\ a \in DOMAIN code /\ a # next
         /\ a > begin => ~EndsBlock(code[a - 1])

TargetsIn(code, begin, end) == {code[a].target : a \in {b \in begin .. end - 1 : HasTarget(code[b])}}

\* the block of the first address that is still pending
CollectNext(code, next, w) ==
  LET begin == Min(w.pending)
      rest == w.pending \ {begin}
      end == BlockEnd(code, next, begin)
      found == TargetsIn(code, begin, end)
  IN IF \E b \in w.blocks : begin \in b.begin .. b.end - 1 THEN [w EXCEPT !.pending = rest]
     ELSE IF begin \notin DOMAIN code \/ end = begin THEN [pending |-> {}, blocks |-> {}, targets |-> {}]
     ELSE [pending |-> rest \cup found, blocks |-> w.blocks \cup {[begin |-> begin, end |-> end]},
           targets |-> w.targets \cup found]

\* the loop, until nothing is pending
CollectBlocks(code, entry, next) ==
  LET collect[w \in [pending : SUBSET Int, blocks : SUBSET [begin : Int, end : Int], targets : SUBSET Int]] ==
        IF w.pending = {} THEN w ELSE collect[CollectNext(code, next, w)]
  IN collect[[pending |-> {entry}, blocks |-> {}, targets |-> {}]]

-----------------------------------------------------------------------------
(* write_thread_transition                                                 *)
\* mutant: the blocks are written as they lie
OrderedByAddress(blocks, entry) ==
  CHOOSE s \in SetToSeqs(blocks) : \A i, j \in DOMAIN s : i < j => s[i].begin < s[j].begin

\* by address, but the entry's first: the code is entered at its beginning
Precedes(a, b, entry) == b.begin # entry /\ (a.begin = entry \/ a.begin < b.begin)
Ordered(blocks, entry) ==
  CHOOSE s \in SetToSeqs(blocks) : \A i, j \in DOMAIN s : i < j => Precedes(s[i], s[j], entry)

AddressesOf(blocks) == FlattenSeq([i \in DOMAIN blocks |->
  [k \in 1 .. blocks[i].end - blocks[i].begin |-> blocks[i].begin + k - 1]])

(* What is written for an instruction: "same", relocated; "label", a       *)
(* branch to a label; "callback" with x0 taken from a register and put     *)
(* back, or "wrapped" with the thread loaded from the JNIEnv, in place of  *)
(* the core.  The register of a slot that was loaded is remembered in the  *)
(* order of writing.                                                       *)
Writes(insn, slot) ==
  CASE HasTarget(insn) -> "label"
    [] insn.kind = "clear" -> "callback"
    [] insn.kind = "blr" /\ insn.reg = slot -> "wrapped"
    [] OTHER -> "same"

SlotAfter(insn, slot) ==
  IF insn.kind = "load" THEN insn.reg ELSE IF Writes(insn, slot) = "wrapped" THEN "none" ELSE slot

Written(code, addresses, targets) ==
  LET slot[i \in Nat] == IF i = 0 THEN "none" ELSE SlotAfter(code[addresses[i]], slot[i - 1])
  IN [i \in DOMAIN addresses |->
        [at |-> addresses[i], does |-> Writes(code[addresses[i]], slot[i - 1]), label |-> addresses[i] \in targets]]

IsCore(item) == item.does \in {"callback", "wrapped"}
Unsupported == <<>>
Transition(code, entry, next) ==
  LET collected == CollectBlocks(code, entry, next)
      written == Written(code, AddressesOf(Ordered(collected.blocks, entry)), collected.targets)
  IN IF collected.blocks = {} \/ ~ \E i \in DOMAIN written : IsCore(written[i])
     THEN Unsupported ELSE written

-----------------------------------------------------------------------------
(* RunnableThreadTransition::run, and the slot of the thread that the code *)
(* finds the callback in.                                                  *)
CallbackSlot(active, callback) == [active |-> active, callback |-> callback]
EmptySlot == CallbackSlot(FALSE, "none")

\* on_runnable_thread_transition_complete: takes the callback, if there is one
Complete(run) ==
  IF run.slot.callback = "none" THEN run
  ELSE [run EXCEPT !.slot.callback = "none", !.ran = Append(@, run.slot.callback),
                   !.result = IF run.slot.callback = "panics" THEN @ ELSE run.slot.callback]

\* Drop for RunnableCallbackGuard, which a refused run has not got
EndRun(slot, run) == IF run.result = "refused" THEN slot ELSE EmptySlot

\* the code reaches its core so many times
RunTransition(slot, callback, reached) ==
  LET run[n \in Nat] == IF n = 0 THEN [slot |-> CallbackSlot(TRUE, callback), ran |-> <<>>, result |-> "not reached"]
                        ELSE Complete(run[n - 1])
      ended == IF slot # EmptySlot THEN [slot |-> slot, ran |-> <<>>, result |-> "refused"]
               ELSE run[reached]
  IN [ended EXCEPT !.slot = EndRun(slot, ended)]

-----------------------------------------------------------------------------
(* Code that the recompiler has to do with: it ends where the next         *)
(* function begins, and nothing runs over its end.                         *)
Ends(code, next) ==
  \A a \in DOMAIN code : a + 1 \notin DOMAIN code \/ a + 1 = next => EndsBlock(code[a])

(* The copy takes the original's way: it is entered at its entry, goes on  *)
(* where the original goes on, and finds every branch's target, block by   *)
(* block; no store that clears the exception is left, and nothing but the  *)
(* core is replaced, which is there.                                       *)
CopyRunsAsOriginal(code, entry, next) ==
  LET out == Transition(code, entry, next) IN
  out # Unsupported =>
    /\ out[1].at = entry
    /\ \E i \in DOMAIN out : IsCore(out[i])
    /\ \A i \in DOMAIN out :
         LET insn == code[out[i].at] IN
         /\ ~EndsBlock(insn) => i < Len(out) /\ out[i + 1].at = out[i].at + 1
         /\ HasTarget(insn) => \E j \in DOMAIN out : out[j].label /\ out[j].at = insn.target
         /\ insn.kind = "clear" => out[i].does = "callback"
         /\ IsCore(out[i]) => insn.kind \in {"clear", "blr"}

(* A callback runs once, on a thread that is in no other transition, and   *)
(* its answer is the run's; a run within a run is refused and leaves the   *)
(* slot to the one around it, which leaves it empty.                       *)
CallbackRunsOnce(callback, reached) ==
  LET outer == RunTransition(EmptySlot, callback, reached)
      inner == RunTransition(CallbackSlot(TRUE, "none"), callback, reached)
  IN /\ outer.slot = EmptySlot
     /\ outer.result = callback <=> reached > 0 /\ callback # "panics"
     /\ Len(outer.ran) = IF reached > 0 THEN 1 ELSE 0
     /\ inner.ran = <<>> /\ inner.slot = CallbackSlot(TRUE, "none")

=============================================================================
