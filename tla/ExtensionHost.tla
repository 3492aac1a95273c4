--------------------------- MODULE ExtensionHost ---------------------------
(***************************************************************************)
(* The debug sessions of a VS Code window as the extension host sees them, *)
(* and what its event handlers (extension/debug-session-events.ts) do with *)
(* them: the composition of the rebuild on save, the sidebar panel and the *)
(* terminal panel, which share nothing but the handlers of a session's     *)
(* start, platform, output and end.                                        *)
(*                                                                         *)
(* A behaviour exercises one of the three in full, chosen in Init as its   *)
(* focus: the others only take part in the session events.                 *)
(***************************************************************************)
EXTENDS Naturals, Sequences, FiniteSets, SequencesExt

CONSTANTS Session, Source, None, MaxSaves, Platform, MaxSerial,
          MaxBuffer, MaxEscape, MaxSent,
          Simple,      \* the platform whose terminal is in the sidebar
          MaxAlive     \* focus -> sessions alive at once

VARIABLES life, active,
          saved, wanted, timer, inFlight, pending, wire, read, failedAt, diagUri, shown,
          status, current, platform, ui, serial, loaded, view, page,
          panel, buffer, carry, unsent, flushTimer, refresh, display, stream,
          announced,         \* sessions whose start VS Code has reported
          launch,            \* Session -> building | platform | ready
          sessionPlatforms,  \* Session -> platform of its terminal output, or None
          focus              \* rebuild | panel | terminal

Rebuild == INSTANCE AutoRebuild
Panel == INSTANCE PlatformView
Terminal == INSTANCE TerminalPanel

ASSUME HostAssumption ==
  /\ None \notin Session \cup Source \cup Platform
  /\ Simple \in Platform /\ Panel!IdlePage \notin Platform
  /\ MaxSaves \in Nat /\ MaxSent \in Nat
  /\ MaxSerial \in Nat \ {0} /\ MaxBuffer \in Nat \ {0}
  /\ MaxEscape \in Nat /\ MaxEscape >= 2
  /\ MaxAlive \in [{"rebuild", "panel", "terminal"} -> Nat]

rebuildVars == <<saved, wanted, timer, inFlight, pending, wire, read, failedAt, diagUri, shown>>
viewVars == <<status, current, platform, ui, serial, loaded, view, page>>
terminalVars == <<panel, buffer, carry, unsent, flushTimer, refresh, display, stream>>
sessionVars == <<life, announced, launch, sessionPlatforms>>
vars == <<sessionVars, active, focus, rebuildVars, viewVars, terminalVars>>

Init ==
  /\ life = [s \in Session |-> "new"]
  /\ active = None
  /\ announced = {}
  /\ launch = [s \in Session |-> "building"]
  /\ sessionPlatforms = [s \in Session |-> None]
  /\ focus \in {"rebuild", "panel", "terminal"}
  /\ Rebuild!RebuildInit /\ Panel!ViewInit /\ Terminal!TerminalInit

Alive == {s \in Session : life[s] \in {"live", "ended"}}

-----------------------------------------------------------------------------
\* The debug adapters and VS Code: a session begins, launches and ends.

BeginSession(s) ==
  /\ life[s] = "new"
  /\ Cardinality(Alive) < MaxAlive[focus]
  /\ life' = [life EXCEPT ![s] = "live"]
  /\ UNCHANGED <<active, announced, launch, sessionPlatforms, focus,
                 rebuildVars, viewVars, terminalVars>>

(* The launch is complete.  VS Code reports the start of a session before  *)
(* what it sends after the launch response, but perhaps after what it sent *)
(* before (tests/extension/debug-session-events.test.ts:383).              *)
LaunchCompletes(s) ==
  /\ life[s] = "live" /\ launch[s] = "platform" /\ s \in announced
  /\ launch' = [launch EXCEPT ![s] = "ready"]
  /\ UNCHANGED <<life, active, announced, sessionPlatforms, focus,
                 rebuildVars, viewVars, terminalVars>>

(* The user stops the session, or its launch failed: a ROM or the program  *)
(* did not assemble, and the adapter says so and terminates.               *)
EndSession(s) ==
  /\ life[s] = "live"
  /\ life' = [life EXCEPT ![s] = "ended"]
  /\ UNCHANGED <<active, announced, launch, sessionPlatforms, focus,
                 rebuildVars, viewVars, terminalVars>>

(* The focused session of the window.                                      *)
ActiveChanges ==
  /\ focus = "rebuild"
  /\ active' \in Alive \cup {None}
  /\ active' # active
  /\ UNCHANGED <<sessionVars, focus, rebuildVars, viewVars, terminalVars>>

-----------------------------------------------------------------------------
\* The handlers of the session events.

HandleDebugSessionStarted(s) ==
  /\ focus # "rebuild" /\ s \in Alive /\ s \notin announced /\ launch[s] # "ready"
  /\ announced' = announced \cup {s}
  /\ sessionPlatforms' = [sessionPlatforms EXCEPT ![s] = None]
  /\ Panel!OnStarted
  /\ Terminal!Clear
  /\ UNCHANGED <<life, active, launch, focus, rebuildVars>>

HandleDebugSessionTerminated(s) ==
  /\ life[s] = "ended" /\ ~Rebuild!ServedAnswers(s)
  /\ life' = [life EXCEPT ![s] = "gone"]
  /\ sessionPlatforms' = [sessionPlatforms EXCEPT ![s] = None]
  /\ Panel!OnSessionTerminated(s)
  /\ Rebuild!OnTerminated(s)
  /\ UNCHANGED <<active, announced, launch, focus, terminalVars>>

HandlePlatformEvent(s) ==
  /\ focus # "rebuild"
  /\ life[s] = "live" /\ launch[s] = "building"
  /\ launch' = [launch EXCEPT ![s] = "platform"]
  /\ \E p \in Platform :
       /\ sessionPlatforms' = [sessionPlatforms EXCEPT ![s] = p]
       /\ Panel!SetPlatform(s, p)
  /\ UNCHANGED <<life, active, announced, focus, rebuildVars, terminalVars>>

Running(s) == life[s] = "live" /\ launch[s] = "ready"

HandleSessionStatusEvent(s) ==
  /\ focus = "panel" /\ Running(s)
  /\ \E st \in {"running", "paused"} : Panel!SetSessionStatus(st)
  /\ UNCHANGED <<sessionVars, active, focus, rebuildVars, terminalVars>>

HandleUpdateEvent(s) ==
  /\ focus = "panel" /\ Running(s)
  /\ \E p \in Platform \ {Simple} : Panel!Update(s, p)
  /\ UNCHANGED <<sessionVars, active, focus, rebuildVars, terminalVars>>

HandleSerialEvent(s) ==
  /\ focus = "panel" /\ Running(s)
  /\ \E p \in Platform \ {Simple} : Panel!AppendSerial(s, p)
  /\ UNCHANGED <<sessionVars, active, focus, rebuildVars, terminalVars>>

(* Output of a program's terminal: to the sidebar for the simple platform, *)
(* otherwise to the terminal panel, opened when there is none.             *)
HandleTerminalOutputEvent(s) ==
  /\ Running(s)
  /\ IF sessionPlatforms[s] = Simple
       THEN /\ focus = "panel"
            /\ Panel!AppendSerial(s, Simple)
            /\ UNCHANGED terminalVars
       ELSE /\ focus = "terminal"
            /\ \E c \in Terminal!Char : Terminal!AppendOutput(c)
            /\ UNCHANGED viewVars
  /\ UNCHANGED <<sessionVars, active, focus, rebuildVars>>

Save ==
  /\ focus = "rebuild" /\ Rebuild!Save
  /\ UNCHANGED <<sessionVars, active, focus, viewVars, terminalVars>>

TimerFires(s) ==
  /\ focus = "rebuild" /\ Rebuild!TimerFires(s)
  /\ UNCHANGED <<sessionVars, active, focus, viewVars, terminalVars>>

AdapterAnswers(s) ==
  /\ focus = "rebuild" /\ Rebuild!AdapterAnswers(s)
  /\ UNCHANGED <<sessionVars, active, focus, viewVars, terminalVars>>

ReceiveAnswer(s) ==
  /\ focus = "rebuild" /\ Rebuild!ReceiveAnswer(s)
  /\ UNCHANGED <<sessionVars, active, focus, viewVars, terminalVars>>

PanelStep ==
  /\ focus = "panel"
  /\ Panel!ViewNext
  /\ UNCHANGED <<sessionVars, active, focus, rebuildVars, terminalVars>>

TerminalStep ==
  /\ focus = "terminal"
  /\ Terminal!TerminalNext
  /\ UNCHANGED <<sessionVars, active, focus, rebuildVars, viewVars>>

SessionStep(s) ==
  \/ BeginSession(s) \/ LaunchCompletes(s) \/ EndSession(s)
  \/ HandleDebugSessionStarted(s) \/ HandleDebugSessionTerminated(s)
  \/ HandlePlatformEvent(s) \/ HandleSessionStatusEvent(s) \/ HandleUpdateEvent(s)
  \/ HandleSerialEvent(s) \/ HandleTerminalOutputEvent(s)
  \/ TimerFires(s) \/ AdapterAnswers(s) \/ ReceiveAnswer(s)

Next ==
  \/ ActiveChanges \/ Save \/ PanelStep \/ TerminalStep
  \/ \E s \in Session : SessionStep(s)

Spec == Init /\ [][Next]_vars

(* Timers fire and adapters answer; nobody need save, or end a session.    *)
Fairness == \A s \in Session :
  WF_vars(TimerFires(s)) /\ WF_vars(AdapterAnswers(s)) /\ WF_vars(ReceiveAnswer(s))

FairSpec == Spec /\ Fairness

-----------------------------------------------------------------------------
\* What the three components promise, under the sessions' events.

TypeOK ==
  /\ life \in [Session -> {"new", "live", "ended", "gone"}]
  /\ active \in Session \cup {None}
  /\ announced \subseteq Session
  /\ launch \in [Session -> {"building", "platform", "ready"}]
  /\ sessionPlatforms \in [Session -> Platform \cup {None}]
  /\ Rebuild!RebuildTypeOK /\ Panel!ViewTypeOK /\ Terminal!TerminalTypeOK

\* These are stated, and commented, in the components' modules.
RebuildsFollowSaves == Rebuild!OneRebuildAtATime /\ Rebuild!NoSaveForgotten
DiagnosticsAreCurrent == Rebuild!DiagnosticsAreCurrent
SavesAreBuilt == Rebuild!SavesAreBuilt
PageShowsHostState == Panel!PageShowsHostState
TerminalShowsText == Terminal!PanelShowsBuffer /\ Terminal!BufferIsTheText

(* With one session at a time, what the panel keeps and shows comes from   *)
(* the session that is alive: nothing of an earlier one survives its end   *)
(* or the next one's start, however its last events, the start and the     *)
(* platform event fall (debug-session-events.ts:92-110, 113-150).          *)
PanelFollowsItsSession ==
  /\ \A p \in Platform : ui[p] \in Alive \cup {None} /\ ToSet(serial[p]) \subseteq Alive
  /\ page.ui \in Alive \cup {None} /\ ToSet(page.serial) \subseteq Alive

(* The Run and Build buttons are disabled only while a session is starting *)
(* (docs/codebase/part5/13-the-webview-panels.md:51).                      *)
RunDisabledOnlyWhileStarting == Panel!RunDisabled => Alive # {}
=============================================================================
