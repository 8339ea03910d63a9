---------------------------- MODULE JniReferences ----------------------------
(***************************************************************************)
(* Everything the bridge refers to in Java while native code runs: the     *)
(* attachments and global references of JniScopes, the exceptions and the  *)
(* returned reference of an invocation, and the temporaries of a call.     *)
(* The three keep no state in common.                                      *)
(***************************************************************************)
EXTENDS JniScopes, HookInvocation, CallTemporaries

(* Java is given live references only: what a hook returns, in the frame   *)
(* of its caller, and the strings of a call, until they are deleted.       *)
LocalsAreLive == ReturnsAreLive /\ TemporariesAreLive

=============================================================================
