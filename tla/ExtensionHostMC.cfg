\* Two sessions in one window: saves racing rebuilds and ends, a panel hidden
\* and shown under a session's events, a terminal fed a character at a time.
SPECIFICATION FairSpec
CONSTANTS
  Session = {s1, s2}
  Source = {"main", "lib"}
  None = None
  MaxSaves = 3
  Platform = {"simple", "tec1g"}
  Simple = "simple"
  MaxSerial = 2
  MaxBuffer = 2
  MaxEscape = 3
  MaxSent = 4
  MaxAlive <- MCMaxAlive
INVARIANTS
  TypeOK
  RebuildsFollowSaves
  DiagnosticsAreCurrent
  PageShowsHostState
  PanelFollowsItsSession
  TerminalShowsText
PROPERTIES
  SavesAreBuilt
CHECK_DEADLOCK FALSE
