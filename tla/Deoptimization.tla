--------------------------- MODULE Deoptimization ---------------------------
(***************************************************************************)
(* Deoptimization, src/art/deoptimization.rs, beside ArtReplacement.       *)
(*                                                                         *)
(* A request probes the layout, turns its thread runnable and stays so     *)
(* until it returns: deoptimize_method looks for an active replacement in  *)
(* the controller's map and then asks ART to deoptimize the method, with   *)
(* no lock of its own.  From API 30 ART's Instrumentation does it; before, *)
(* the request goes to the debugger, which the first request starts: a     *)
(* session of two socket pairs and two hooks that give the JDWP thread     *)
(* the client's end, published in a OnceLock under the session lock.       *)
(* ART's side is external: the debugger's registry and active flag, and    *)
(* the JDWP thread that accepts a connection once.                         *)
(***************************************************************************)
EXTENDS ArtReplacement

CONSTANT Requests  \* calls of deoptimize_everything, _boot_image and _method

ASSUME SubjectsAreNoMethods == Methods \cap {"everything", "boot image"} = {}
ASSUME RequestsAreNoNames ==
  Requests \cap {"none", "absent", "foreign", "accepting", "receiving", "failed"} = {}

VARIABLES
  route,        \* Instrumentation from API 30, Dbg before
  at,           \* where the request stands
  subject,      \* the method it is for, "everything" or "boot image"
  deoptimized,  \* what ART has been asked to deoptimize
  started,      \* Dbg::gRegistry is set
  active,       \* Dbg::gDebuggerActive
  session,      \* ART_JDWP_SESSION: the request whose session was published
  lock,         \* holder of ART_JDWP_SESSION_LOCK
  slot,         \* JDWP_RECEIVE_CLIENT_FD: whose socket pair it names
  jdwp          \* the JDWP thread, and whose client end it was given

debugger == <<started, active, session, lock, slot, jdwp>>
deoptVars == <<route, at, subject, deoptimized, debugger>>
allVars == <<vars, deoptVars>>

Subjects == Methods \cup {"everything", "boot image"}
DeoptInit ==
  /\ Init
  /\ route \in {"instrumentation", "dbg"}
  /\ at = [d \in Requests |-> "idle"]
  /\ subject = [d \in Requests |-> "none"]
  /\ deoptimized = {}
  /\ started \in BOOLEAN
  /\ active \in {FALSE, started}
  /\ session = "none"
  /\ lock = "none"
  /\ slot = "none"
  /\ jdwp = IF started THEN "foreign" ELSE "absent"

(* with_runnable_art_thread: a request runs in the runnable state.          *)
Runnable(d) == at[d] \notin {"idle", "done", "refused"}

Go(d, place) == at' = [at EXCEPT ![d] = place]

-----------------------------------------------------------------------------
\* detect_deoptimization_layout, attach, and the transition of the thread:
\* what one of them lacks refuses the request
Probe(d, s) ==
  /\ at[d] = "idle"
  /\ \E place \in {"probed", "refused"} : Go(d, place)
  /\ subject' = [subject EXCEPT ![d] = s]
  /\ UNCHANGED <<route, deoptimized, debugger>>

BootImage(d) ==
  /\ at[d] = "probed" /\ subject[d] = "boot image"
  /\ deoptimized' = deoptimized \cup {"boot image"}
  /\ Go(d, "done")
  /\ UNCHANGED <<route, subject, debugger>>

\* mutant: a method is not looked up in the controller
AnyMethodIsSelected(d) ==
  /\ at[d] = "probed" /\ subject[d] # "boot image"
  /\ Go(d, "ready")
  /\ UNCHANGED <<route, subject, deoptimized, debugger>>

\* a method with an active replacement is refused
Select(d) ==
  /\ at[d] = "probed" /\ subject[d] # "boot image"
  /\ Go(d, IF subject[d] \in Methods /\ methods[subject[d]] # "none"
           THEN "refused" ELSE "ready")
  /\ UNCHANGED <<route, subject, deoptimized, debugger>>

\* request_instrumentation_deoptimization
Instrument(d) ==
  /\ at[d] = "ready" /\ route = "instrumentation"
  /\ deoptimized' = deoptimized \cup {subject[d]}
  /\ Go(d, "done")
  /\ UNCHANGED <<route, subject, debugger>>

-----------------------------------------------------------------------------
(* ensure_jdwp_ready                                                       *)
FindStarted(d) ==
  /\ at[d] = "ready" /\ route = "dbg"
  /\ Go(d, IF started THEN "started" ELSE "waiting")
  /\ UNCHANGED <<route, subject, deoptimized, debugger>>

Lock(d) ==
  /\ at[d] = "waiting" /\ lock = "none"
  /\ lock' = d
  /\ Go(d, "locked")
  /\ UNCHANGED <<route, subject, deoptimized, started, active, session, slot, jdwp>>

\* it looks again: the debugger has been started while it waited
FindStartedLocked(d) ==
  /\ at[d] = "locked" /\ started
  /\ lock' = "none"
  /\ Go(d, "started")
  /\ UNCHANGED <<route, subject, deoptimized, started, active, session, slot, jdwp>>

\* ArtJdwpSession::start: socket pairs, slot, both hooks, handshake thread
StartSession(d) ==
  /\ at[d] = "locked" /\ ~started /\ session = "none"
  /\ slot' = d
  /\ session' = d
  /\ UNCHANGED <<route, at, subject, deoptimized, started, active, lock, jdwp>>

\* no socket pair, or a hook fails: the slot keeps the leaked descriptor
SessionFails(d) ==
  /\ at[d] = "locked" /\ ~started /\ session = "none"
  /\ slot' \in {slot, d}
  /\ lock' = "none"
  /\ Go(d, "refused")
  /\ UNCHANGED <<route, subject, deoptimized, started, active, session, jdwp>>

\* mutant: the registry is not read again under the lock
StartDebuggerUnchecked(d) ==
  /\ at[d] = "locked" /\ session # "none"
  /\ started' = TRUE
  /\ jdwp' = "accepting"
  /\ lock' = "none"
  /\ Go(d, "started")
  /\ UNCHANGED <<route, subject, deoptimized, active, session, slot>>

\* SetJdwpAllowed, ConfigureJdwp, StartDebugger or StartJdwp
StartDebugger(d) ==
  /\ at[d] = "locked" /\ ~started /\ session # "none"
  /\ started' = TRUE
  /\ jdwp' = "accepting"
  /\ lock' = "none"
  /\ Go(d, "started")
  /\ UNCHANGED <<route, subject, deoptimized, active, session, slot>>

\* is_debugger_active, else Dbg::GoActive
GoActive(d) ==
  /\ at[d] = "started"
  /\ active' = TRUE
  /\ Go(d, "active")
  /\ UNCHANGED <<route, subject, deoptimized, started, session, lock, slot, jdwp>>

\* Dbg::RequestDeoptimization and Dbg::ManageDeoptimization
Request(d) ==
  /\ at[d] = "active"
  /\ deoptimized' = deoptimized \cup {subject[d]}
  /\ Go(d, "done")
  /\ UNCHANGED <<route, subject, debugger>>

-----------------------------------------------------------------------------
(* The JDWP thread, external: JdwpAdbState::Accept runs with its hook, and *)
(* then ReceiveClientFd, replaced by take_jdwp_receive_client_fd.          *)
Accept ==
  /\ jdwp = "accepting"
  /\ jdwp' = "receiving"
  /\ UNCHANGED <<route, at, subject, deoptimized, started, active, session, lock, slot>>

TakeClientFd ==
  /\ jdwp = "receiving"
  /\ jdwp' = IF slot = "none" THEN "failed" ELSE slot
  /\ slot' = "none"
  /\ UNCHANGED <<route, at, subject, deoptimized, started, active, session, lock>>

-----------------------------------------------------------------------------
Deoptimize(d) ==
  \/ \E s \in Subjects : Probe(d, s)
  \/ BootImage(d) \/ Select(d) \/ Instrument(d)
  \/ FindStarted(d) \/ Lock(d) \/ FindStartedLocked(d)
  \/ StartSession(d) \/ SessionFails(d) \/ StartDebugger(d)
  \/ GoActive(d) \/ Request(d)

(* A step of ArtReplacement under SuspendAll waits for runnable requests.   *)
NeedsSuspension ==
  \/ image' # image
  \/ \E r \in Replacements : stage[r] \in {"prepared", "active"} /\ stage'[r] # stage[r]

DeoptNext ==
  \/ /\ Next
     /\ NeedsSuspension => \A d \in Requests : ~Runnable(d)
     /\ UNCHANGED deoptVars
  \/ /\ (\E d \in Requests : Deoptimize(d)) \/ Accept \/ TakeClientFd
     /\ UNCHANGED vars

DeoptSpec == DeoptInit /\ [][DeoptNext]_allVars

-----------------------------------------------------------------------------
(* ART is never asked to deoptimize a method whose entrypoint is a         *)
(* replacement's thunk: nothing but the runnable state keeps a replacement *)
(* out between the look into the controller's map and the request.         *)
ReplacedIsNotDeoptimized ==
  [][\A m \in Methods :
       m \in deoptimized' \ deoptimized => image[m] = "original"]_allVars

(* The debugger is started at most once, however many requests find it     *)
(* stopped, and the JDWP thread is given the client end of the session     *)
(* that was published, never none and never one of a failed attempt.       *)
OneDebugger ==
  [][/\ jdwp # "accepting" /\ jdwp' = "accepting" => ~started
     /\ jdwp' \in Requests \cup {"failed"} => jdwp' = session']_allVars

=============================================================================
