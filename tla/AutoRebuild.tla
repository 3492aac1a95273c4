---------------------------- MODULE AutoRebuild ----------------------------
(***************************************************************************)
(* Rebuild on save (extension/auto-rebuild.ts): a save of a source file    *)
(* arms a debounce timer of the active session; when it fires the          *)
(* extension host asks the session's adapter for a warm rebuild and waits. *)
(* A save whose timer fires meanwhile is remembered and rebuilt once more. *)
(*                                                                         *)
(* The sessions themselves come from the composition: life[s] is what the  *)
(* adapter and VS Code make of session s, and OnTerminated is what the     *)
(* handler of VS Code's termination event does to this state.              *)
(***************************************************************************)
EXTENDS Naturals, Sequences, FiniteSets

CONSTANTS Session,    \* debug session ids
          Source,     \* source files an assembler error can point at
          None,       \* no session, no file
          MaxSaves    \* bound: saves in a behaviour

VARIABLES life,       \* Session -> new | live | ended (adapter gone) | gone (handler ran)
          active,     \* vscode.debug.activeDebugSession, or None
          saved,      \* saves so far: the version of the sources on disk
          wanted,     \* Session -> version the last save asked this session for
          timer,      \* sessions in rebuildTimers
          inFlight,   \* rebuildInFlight
          pending,    \* rebuildPending
          wire,       \* Session -> requests sent and not yet answered
          read,       \* Session -> version its adapter last compiled
          failedAt,   \* Session -> file its last warm rebuild's result pointed at
          diagUri,    \* rebuildDiagnosticUris: Session -> file
          shown       \* the diagnostic collection: file -> session whose error it shows

rebuildVars == <<saved, wanted, timer, inFlight, pending, wire, read, failedAt, diagUri, shown>>

\* A request on its way to the adapter, and one the adapter has answered.
Asked == [phase |-> "asked"]
Answered(outcome, uri) == [phase |-> "answered", outcome |-> outcome, uri |-> uri]

\* ok: assembled; fail: assembly failed, perhaps at a known place; reject: an
\* error response, or no adapter left to answer.
Answer == {Answered("ok", None), Answered("fail", None), Answered("reject", None)}
            \cup {Answered("fail", u) : u \in Source}

RebuildInit ==
  /\ saved = 0
  /\ wanted = [s \in Session |-> 0]
  /\ timer = {}
  /\ inFlight = {}
  /\ pending = {}
  /\ wire = [s \in Session |-> <<>>]
  /\ read = [s \in Session |-> 0]
  /\ failedAt = [s \in Session |-> None]
  /\ diagUri = [s \in Session |-> None]
  /\ shown = [u \in Source |-> None]

ClearedKeepsTable(s) ==
  [shown |-> shown, diagUri |-> [diagUri EXCEPT ![s] = None]]

(* The diagnostics after session s's entry is cleared, as a pair of the    *)
(* collection and the table of files.                                      *)
Cleared(s) ==
  [shown |-> IF diagUri[s] = None THEN shown ELSE [shown EXCEPT ![diagUri[s]] = None],
   diagUri |-> [diagUri EXCEPT ![s] = None]]

ClearRebuildDiagnostics(s) ==
  LET c == Cleared(s) IN shown' = c.shown /\ diagUri' = c.diagUri

ApplyRebuildDiagnostics(s, u) ==
  LET c == Cleared(s) IN
    IF u = None THEN shown' = c.shown /\ diagUri' = c.diagUri
                ELSE /\ shown' = [c.shown EXCEPT ![u] = s]
                     /\ diagUri' = [c.diagUri EXCEPT ![s] = u]

(***************************************************************************)
(* Saving an eligible file while s is the active session (re)arms its      *)
(* timer; without an active session only the file changes.                 *)
(***************************************************************************)
Save ==
  /\ saved < MaxSaves
  /\ saved' = saved + 1
  /\ IF active = None
       THEN UNCHANGED <<wanted, timer>>
       ELSE /\ wanted' = [wanted EXCEPT ![active] = saved + 1]
            /\ timer' = timer \cup {active}
  /\ UNCHANGED <<inFlight, pending, wire, read, failedAt, diagUri, shown>>

StartsPendingNever(s, flying) == FALSE

(* What runWarmRebuild does up to its await: with a request in flight it   *)
(* only notes that another is due.                                         *)
StartsPending(s, flying) == s \in flying

RunWarmRebuild(s, flying, due, sent) ==
  IF StartsPending(s, flying)
    THEN /\ pending' = due \cup {s}
         /\ inFlight' = flying
         /\ wire' = [wire EXCEPT ![s] = sent]
    ELSE /\ pending' = due
         /\ inFlight' = flying \cup {s}
         /\ wire' = [wire EXCEPT ![s] = Append(sent, Asked)]

TimerFires(s) ==
  /\ s \in timer
  /\ timer' = timer \ {s}
  /\ RunWarmRebuild(s, inFlight, pending, wire[s])
  /\ UNCHANGED <<saved, wanted, read, failedAt, diagUri, shown>>

(* The adapter serves the oldest request it has not answered: a live one   *)
(* reads the sources and answers, one that has ended cannot.               *)
Unanswered(s) == {i \in DOMAIN wire[s] : wire[s][i].phase = "asked"}

AdapterAnswers(s) ==
  \E i \in Unanswered(s) : \E a \in Answer :
    /\ \A j \in Unanswered(s) : i <= j
    /\ life[s] # "live" => a.outcome = "reject"
    /\ wire' = [wire EXCEPT ![s][i] = a]
    /\ read' = IF life[s] = "live" THEN [read EXCEPT ![s] = saved] ELSE read
    /\ UNCHANGED <<saved, wanted, timer, inFlight, pending, failedAt, diagUri, shown>>

RerunLost(s) == FALSE

(* After the finally block: the request is no longer in flight, and if a   *)
(* rebuild is due it starts at once.                                       *)
Rerun(s) == s \in pending

FinishWarmRebuild(s, sent) ==
  IF Rerun(s)
    THEN RunWarmRebuild(s, inFlight \ {s}, pending \ {s}, sent)
    ELSE /\ inFlight' = inFlight \ {s}
         /\ pending' = pending \ {s}
         /\ wire' = [wire EXCEPT ![s] = sent]

(***************************************************************************)
(* The answer reaches runWarmRebuild.  The answers of a session arrive     *)
(* before the event that it terminated, except the rejection of what it    *)
(* never served.                                                           *)
(***************************************************************************)
ReceiveAnswer(s) ==
  /\ wire[s] # <<>>
  /\ LET a == Head(wire[s]) IN
       /\ a.phase = "answered"
       /\ CASE a.outcome = "ok"     -> ClearRebuildDiagnostics(s)
            [] a.outcome = "fail"   -> ApplyRebuildDiagnostics(s, a.uri)
            [] a.outcome = "reject" -> UNCHANGED <<shown, diagUri>>
       /\ failedAt' = IF a.outcome = "reject" THEN failedAt
                                              ELSE [failedAt EXCEPT ![s] = a.uri]
  /\ FinishWarmRebuild(s, Tail(wire[s]))
  /\ UNCHANGED <<saved, wanted, timer, read>>

(* The part of the termination handler that is about rebuilds.             *)
OnTerminated(s) ==
  /\ timer' = timer \ {s}
  /\ pending' = pending \ {s}
  /\ inFlight' = inFlight \ {s}
  /\ ClearRebuildDiagnostics(s)
  /\ UNCHANGED <<saved, wanted, wire, read, failedAt>>

(* The answers still to be received before VS Code reports the end of s.   *)
ServedAnswers(s) == \E i \in DOMAIN wire[s] :
  wire[s][i].phase = "answered" /\ wire[s][i].outcome # "reject"

RebuildNext ==
  \/ Save
  \/ \E s \in Session : TimerFires(s) \/ AdapterAnswers(s) \/ ReceiveAnswer(s)

RebuildFairness == \A s \in Session :
  WF_rebuildVars(TimerFires(s)) /\ WF_rebuildVars(AdapterAnswers(s)) /\ WF_rebuildVars(ReceiveAnswer(s))

-----------------------------------------------------------------------------

Registered(s) == life[s] \in {"live", "ended"}

RebuildTypeOK ==
  /\ saved \in 0..MaxSaves
  /\ wanted \in [Session -> 0..MaxSaves]
  /\ read \in [Session -> 0..MaxSaves]
  /\ timer \subseteq Session /\ inFlight \subseteq Session /\ pending \subseteq Session
  /\ wire \in [Session -> Seq(Answer \cup {Asked})]
  /\ failedAt \in [Session -> Source \cup {None}]
  /\ diagUri \in [Session -> Source \cup {None}]
  /\ shown \in [Source -> Session \cup {None}]

(* A session the host knows has at most one rebuild request outstanding,   *)
(* and rebuildInFlight says whether it has: the adapter may rely on warm   *)
(* rebuilds never overlapping (auto-rebuild.ts:67, 72, 95).                *)
OneRebuildAtATime == \A s \in Session : Registered(s) =>
  /\ Len(wire[s]) <= 1
  /\ s \in inFlight <=> wire[s] # <<>>
  /\ s \in pending => s \in inFlight

(* No save is forgotten: while the sources a live session last compiled    *)
(* are older than its last save, a timer, a request the adapter has not    *)
(* served or a remembered rerun will compile them again                    *)
(* (auto-rebuild.ts:67-69, 95-98, 128-137).                                *)
NoSaveForgotten == \A s \in Session :
  life[s] = "live" /\ read[s] < wanted[s] =>
    \/ s \in timer
    \/ s \in pending
    \/ Unanswered(s) # {}

(* A diagnostic is shown only for a session the host still knows, at the   *)
(* place its last answered rebuild failed; sessions that fail in the same  *)
(* file, terminations and late answers leave no stale one                  *)
(* (auto-rebuild.ts:24-34, debug-session-events.ts:136-140).               *)
DiagnosticsAreCurrent == \A u \in Source : shown[u] # None =>
  /\ Registered(shown[u])
  /\ failedAt[shown[u]] = u
  /\ diagUri[shown[u]] = u

(* What a session was last asked for is compiled, or the session ends.     *)
SavesAreBuilt == \A s \in Session :
  (life[s] = "live" /\ read[s] < wanted[s]) ~> (life[s] # "live" \/ read[s] >= wanted[s])
=============================================================================
