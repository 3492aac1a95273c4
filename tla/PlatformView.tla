---------------------------- MODULE PlatformView ----------------------------
(***************************************************************************)
(* The sidebar panel (extension/platform-view-provider.ts and the modules  *)
(* it is made of): what the extension host keeps for each platform, the    *)
(* session it follows, and the page in the webview, which VS Code destroys *)
(* whenever the panel is hidden and the provider must then rebuild.        *)
(*                                                                         *)
(* Display updates are abstracted to the session they came from, serial    *)
(* text to a sequence of characters, each named by the session that sent   *)
(* it.  Messages to a visible page are delivered in order at once.         *)
(***************************************************************************)
EXTENDS Naturals, Sequences, SequencesExt

CONSTANTS Session,
          Platform,     \* platforms with a panel
          None,
          MaxSerial     \* maxChars of a serial buffer, host and page alike

VARIABLES status,       \* sessionState.sessionStatus
          current,      \* sessionState.currentSession, or None
          platform,     \* currentPlatform, or None
          ui,           \* Platform -> session whose update the uiState holds, or None
          serial,       \* Platform -> serialBuffer.text
          loaded,       \* no | loading | yes: the registry's platform modules
          view,         \* none | hidden | visible
          page          \* what the webview displays

viewVars == <<status, current, platform, ui, serial, loaded, view, page>>

Status == {"not running", "starting", "running", "paused"}

\* A page fresh from its HTML: the Run button starts as not running.
FreshPage(html) == [html |-> html, status |-> "not running", ui |-> None, serial |-> <<>>]
BlankPage == FreshPage(None)
IdlePage == "idle"      \* the TEC-1G page shown while no platform is known

AppendSerialUncut(text, char) == Append(text, char)

AppendSerialText(text, char) ==
  LET next == Append(text, char) IN
    IF Len(next) > MaxSerial THEN Tail(next) ELSE next

ViewInit ==
  /\ status = "not running" /\ current = None /\ platform = None
  /\ ui = [p \in Platform |-> None]
  /\ serial = [p \in Platform |-> <<>>]
  /\ loaded = "no" /\ view = "none" /\ page = BlankPage

\* A message changes a page that is on screen; a hidden one hears nothing.
Posted(changed) == IF view = "visible" THEN changed ELSE page

Bundle(p) == loaded = "yes" /\ p # None

SerialInitNever(p) == <<>>

SerialInit(p) == serial[p]

(* The page renderCurrentView leaves: the platform's HTML, then the        *)
(* status, the display, the serial text, each in a message.                *)
RenderedPage(p, st, displays) ==
  [html |-> p, status |-> st, ui |-> displays[p], serial |-> SerialInit(p)]

Rendered(p, st, displays, rehydrate, state) ==
  IF state = "yes" /\ p # None THEN RenderedPage(p, st, displays)
  ELSE IF rehydrate \/ page.html = None
         THEN [FreshPage(IdlePage) EXCEPT !.status = IF p = None THEN @ ELSE st]
         ELSE page

RenderCurrentView(p, st, displays) ==
  page' = Posted(Rendered(p, st, displays, TRUE, loaded))

-----------------------------------------------------------------------------
\* What the handlers of session events call.

(* setSessionStatus: not filtered by session.                              *)
StatusShown(st, on) == IF platform # None THEN [on EXCEPT !.status = st] ELSE on

SetSessionStatus(st) ==
  /\ status' = st
  /\ page' = Posted(StatusShown(st, page))
  /\ UNCHANGED <<current, platform, ui, serial, loaded, view>>

ClearedPageKeepsSerial(on) == IF Bundle(platform) THEN [on EXCEPT !.ui = None] ELSE on

ClearedPage(on) == IF Bundle(platform) THEN [on EXCEPT !.ui = None, !.serial = <<>>] ELSE on

NoDisplays == [p \in Platform |-> None]
NoSerial == [p \in Platform |-> <<>>]

\* The started event: status starting, everything cleared.
OnStarted ==
  /\ status' = "starting"
  /\ ui' = NoDisplays /\ serial' = NoSerial
  /\ page' = Posted(ClearedPage(StatusShown("starting", page)))
  /\ UNCHANGED <<current, platform, loaded, view>>

\* The platform event: follow this session and show its platform.
SetPlatform(s, p) ==
  /\ platform' = p
  /\ current' = s
  /\ RenderCurrentView(p, status, ui)
  /\ UNCHANGED <<status, ui, serial, loaded, view>>

Accepts(s) == current = None \/ current = s

Update(s, p) ==
  /\ IF Accepts(s) /\ platform = p /\ Bundle(p)
       THEN /\ ui' = [ui EXCEPT ![p] = s]
            /\ page' = Posted([page EXCEPT !.ui = s])
       ELSE UNCHANGED <<ui, page>>
  /\ UNCHANGED <<status, current, platform, serial, loaded, view>>

AppendSerial(s, p) ==
  /\ IF Accepts(s) /\ Bundle(p)
       THEN /\ serial' = [serial EXCEPT ![p] = AppendSerialText(@, s)]
            /\ page' = IF platform = p
                         THEN Posted([page EXCEPT !.serial =
                                IF Len(@) < MaxSerial THEN Append(@, s) ELSE Append(Tail(@), s)])
                         ELSE page
       ELSE UNCHANGED <<serial, page>>
  /\ UNCHANGED <<status, current, platform, ui, loaded, view>>

Follows(s) == current = s

OnSessionTerminated(s) ==
  IF Follows(s)
    THEN /\ current' = None
         /\ status' = "not running"
         /\ ui' = NoDisplays /\ serial' = NoSerial
         /\ page' = Posted(ClearedPage(StatusShown("not running", page)))
         /\ UNCHANGED <<platform, loaded, view>>
    ELSE UNCHANGED viewVars

-----------------------------------------------------------------------------
\* What the user and VS Code do to the panel.

ResolveWebviewView ==
  /\ view = "none"
  /\ view' = "visible"
  /\ loaded' = IF loaded = "no" THEN "loading" ELSE loaded
  /\ page' = IF loaded = "yes" THEN Rendered(platform, status, ui, FALSE, loaded) ELSE BlankPage
  /\ UNCHANGED <<status, current, platform, ui, serial>>

\* preloadAll has resolved; a view that was hidden meanwhile is rendered when shown.
ModulesLoaded ==
  /\ loaded = "loading"
  /\ loaded' = "yes"
  /\ page' = Posted(Rendered(platform, status, ui, FALSE, "yes"))
  /\ UNCHANGED <<status, current, platform, ui, serial, view>>

Hide ==
  /\ view = "visible"
  /\ view' = "hidden" /\ page' = BlankPage
  /\ UNCHANGED <<status, current, platform, ui, serial, loaded>>

Show ==
  /\ view = "hidden"
  /\ view' = "visible"
  /\ page' = Rendered(platform, status, ui, TRUE, loaded)
  /\ UNCHANGED <<status, current, platform, ui, serial, loaded>>

DisposeView ==
  /\ view # "none"
  /\ view' = "none" /\ page' = BlankPage
  /\ UNCHANGED <<status, current, platform, ui, serial, loaded>>

\* The Clear button of the page: the page clears itself and tells the host.
ClearSerial ==
  /\ view = "visible" /\ page.html \in Platform
  /\ page' = [page EXCEPT !.serial = <<>>]
  /\ serial' = [serial EXCEPT ![platform] = <<>>]
  /\ UNCHANGED <<status, current, platform, ui, loaded, view>>

\* The platform selector of a workspace without a project.
SelectPlatform(p) ==
  /\ view = "visible" /\ page.html # None
  /\ platform' = p
  /\ page' = Rendered(p, status, ui, TRUE, loaded)
  /\ UNCHANGED <<status, current, ui, serial, loaded, view>>

ViewNext ==
  \/ ResolveWebviewView \/ ModulesLoaded \/ Hide \/ Show \/ DisposeView \/ ClearSerial
  \/ \E p \in Platform : SelectPlatform(p)

-----------------------------------------------------------------------------

ViewTypeOK ==
  /\ status \in Status
  /\ current \in Session \cup {None}
  /\ platform \in Platform \cup {None}
  /\ ui \in [Platform -> Session \cup {None}]
  /\ \A p \in Platform : serial[p] \in Seq(Session) /\ Len(serial[p]) <= MaxSerial
  /\ loaded \in {"no", "loading", "yes"} /\ view \in {"none", "hidden", "visible"}
  /\ page.html \in Platform \cup {None, IdlePage} /\ page.status \in Status
  /\ page.ui \in Session \cup {None} /\ page.serial \in Seq(Session)

(* A page on screen shows what the host keeps for the platform: however    *)
(* the panel is hidden, shown, disposed, cleared and retargeted between    *)
(* the session's messages, nothing is lost, repeated or left behind        *)
(* (platform-view-provider.ts:264-280, 296-338, runtime controller).       *)
PageShowsHostState ==
  view = "visible" /\ page.html \in Platform =>
    /\ page.html = platform
    /\ page.status = status
    /\ page.ui = ui[platform]
    /\ page.serial = serial[platform]

(* The page's Run button ignores clicks (webview/common/session-status.ts). *)
RunDisabled == view = "visible" /\ page.html # None /\ page.status = "starting"
=============================================================================
