------------------------------ MODULE JITState ------------------------------
(***************************************************************************)
(* The pure transition logic of the StikDebug handoff                      *)
(* (app/JuiceJITState.h): the phases of one session, the events the        *)
(* coordinator delivers on the main queue, and the action it must take.    *)
(*                                                                         *)
(* A state is a record with (at least) the fields phase and                *)
(* runtimeAcknowledged.  nowMS >= deadlineMS is passed in as `late`: every *)
(* use of the deadline in the code is this one comparison or its negation. *)
(***************************************************************************)

(* The phases in which the session still owns a decision about its child. *)
PendingPhases ==
    {"Opening", "Attaching", "Starting", "OpeningAuthorized", "Authorized"}

(* JuiceJITTransition never leaves these. *)
TerminalPhases == {"Ready", "Cancelled", "Failed"}

Phases == PendingPhases \cup TerminalPhases

Events == {"Tick", "OpenAccepted", "OpenRejected",
           "Debugged", "RuntimeAck", "Cancel"}

Actions == {"NoAction", "Resume", "Stop"}

JITPending(state) == state.phase \in PendingPhases

AcceptedIsAuthorized(phase, event) ==   \* mutant: attaching counts as debugged
    CASE event = "OpenAccepted" /\ phase \in {"Opening", "OpeningAuthorized"}
             -> "Authorized"
      [] event = "Debugged" /\ phase = "Opening" -> "OpeningAuthorized"
      [] event = "Debugged" /\ phase = "Attaching" -> "Authorized"
      [] OTHER -> phase

(* The phase after the handoff observations of one event: URL acceptance and
   debugger status are remembered in whichever order they arrive. *)
ObservedPhase(phase, event) ==
    CASE event = "OpenAccepted" /\ phase = "Opening" -> "Attaching"
      [] event = "OpenAccepted" /\ phase = "OpeningAuthorized" -> "Authorized"
      [] event = "Debugged" /\ phase = "Opening" -> "OpeningAuthorized"
      [] event = "Debugged" /\ phase = "Attaching" -> "Authorized"
      [] OTHER -> phase

Observe(state, event) ==
    [state EXCEPT !.phase = ObservedPhase(@, event),
                  !.runtimeAcknowledged = @ \/ event = "RuntimeAck"]

Outcome(state, action) == [state |-> state, action |-> action]

(* Readiness and our own SIGCONT: only in the foreground, only once the URL
   handoff and the debugger have both been observed. *)
Advance(state, foreground) ==
    IF ~foreground \/ state.phase \notin {"Authorized", "Starting"}
    THEN Outcome(state, "NoAction")
    ELSE IF state.runtimeAcknowledged
         THEN Outcome([state EXCEPT !.phase = "Ready"], "NoAction")
         ELSE Outcome([state EXCEPT !.phase = "Starting"],
                      IF state.phase = "Authorized" THEN "Resume" ELSE "NoAction")

TransitionNoDeadline(state, event, late, ownsChild, foreground) ==   \* mutant
    IF state.phase \in TerminalPhases
    THEN Outcome(state, "NoAction")
    ELSE IF ~ownsChild \/ event = "Cancel"
    THEN Outcome([state EXCEPT !.phase = "Cancelled"], "NoAction")
    ELSE IF event = "OpenRejected"
    THEN Outcome([state EXCEPT !.phase = "Failed"], "Stop")
    ELSE Advance(Observe(state, event), foreground)

JITTransition(state, event, late, ownsChild, foreground) ==
    IF state.phase \in TerminalPhases
    THEN Outcome(state, "NoAction")
    ELSE IF ~ownsChild \/ event = "Cancel"
    THEN Outcome([state EXCEPT !.phase = "Cancelled"], "NoAction")
    ELSE IF late \/ event = "OpenRejected"
    THEN Outcome([state EXCEPT !.phase = "Failed"], "Stop")
    ELSE Advance(Observe(state, event), foreground)
=============================================================================
