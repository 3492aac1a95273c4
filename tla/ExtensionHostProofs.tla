------------------------- MODULE ExtensionHostProofs -------------------------
(***************************************************************************)
(* Proofs about the extension host under the events of any number of       *)
(* sessions, for every set of sessions, sources and platforms and every    *)
(* limit: the rebuild on save (at most one of a session at a time, no save *)
(* forgotten, no diagnostic that is out of date), the sidebar (its page    *)
(* shows what the host keeps, nothing of an ended session survives in it), *)
(* the terminal panel (it shows its buffer), and type correctness.         *)
(***************************************************************************)
EXTENDS ExtensionHost, SequenceTheorems, FiniteSetTheorems, TLAPS

-----------------------------------------------------------------------------
\* The rebuild on save.

(* What the host knows of the sessions themselves.                         *)
SessionTypeOK ==
  /\ life \in [Session -> {"new", "live", "ended", "gone"}]
  /\ active \in Session \cup {None}

(* A session that has not begun has asked for nothing.                     *)
NewInv == \A s \in Session : life[s] = "new" =>
  /\ active # s
  /\ s \notin timer /\ s \notin inFlight /\ s \notin pending
  /\ wire[s] = <<>>
  /\ wanted[s] = 0

(* Nobody has asked for sources that are not saved yet.                    *)
WantedInv == \A s \in Session : wanted[s] <= saved

(* After the end of a session only rejections come back.                   *)
GoneInv == \A s \in Session : life[s] = "gone" => ~Rebuild!ServedAnswers(s)

RebuildInv ==
  /\ SessionTypeOK /\ Rebuild!RebuildTypeOK
  /\ NewInv /\ WantedInv /\ GoneInv
  /\ Rebuild!OneRebuildAtATime /\ Rebuild!NoSaveForgotten
  /\ Rebuild!DiagnosticsAreCurrent

-----------------------------------------------------------------------------
(* No rebuild is wanted at first.                                          *)
LEMMA RebuildInitInv == Init => RebuildInv
<1> SUFFICES ASSUME Init PROVE RebuildInv
  OBVIOUS
<1>1. Rebuild!RebuildTypeOK
  BY HostAssumption DEF Init, Rebuild!RebuildInit, Rebuild!RebuildTypeOK
<1>2. NewInv /\ WantedInv /\ GoneInv
  BY HostAssumption DEF Init, Rebuild!RebuildInit, NewInv, WantedInv, GoneInv, Rebuild!ServedAnswers
<1>3. Rebuild!OneRebuildAtATime /\ Rebuild!NoSaveForgotten /\ Rebuild!DiagnosticsAreCurrent
  BY DEF Init, Rebuild!RebuildInit, Rebuild!OneRebuildAtATime, Rebuild!NoSaveForgotten,
         Rebuild!DiagnosticsAreCurrent, Rebuild!Registered
<1>4. SessionTypeOK
  BY DEF Init, SessionTypeOK
<1> QED
  BY <1>1, <1>2, <1>3, <1>4 DEF RebuildInv

(* A save wants a rebuild of the active session, and of no other.          *)
LEMMA SaveStep ==
  ASSUME RebuildInv, Save PROVE RebuildInv'
<1> USE DEF RebuildInv
<1>1. /\ saved' = saved + 1 /\ saved < MaxSaves
      /\ UNCHANGED <<inFlight, pending, wire, read, failedAt, diagUri, shown, life, active>>
  BY DEF Save, Rebuild!Save, sessionVars
<1>2. CASE active = None
  <2>1. UNCHANGED <<wanted, timer>>
    BY <1>2 DEF Save, Rebuild!Save
  <2> QED
    BY <1>1, <2>1, HostAssumption DEF SessionTypeOK, Rebuild!RebuildTypeOK, NewInv, WantedInv, GoneInv,
       Rebuild!ServedAnswers, Rebuild!OneRebuildAtATime, Rebuild!NoSaveForgotten, Rebuild!DiagnosticsAreCurrent,
       Rebuild!Registered, Rebuild!Unanswered
<1>3. CASE active # None
  <2>1. /\ wanted' = [wanted EXCEPT ![active] = saved + 1]
        /\ timer' = timer \cup {active}
        /\ active \in Session
    BY <1>3 DEF Save, Rebuild!Save, SessionTypeOK
  <2>2. Rebuild!RebuildTypeOK' /\ SessionTypeOK'
    BY <1>1, <2>1, HostAssumption DEF SessionTypeOK, Rebuild!RebuildTypeOK
  <2>3. NewInv'
    BY <1>1, <2>1 DEF SessionTypeOK, Rebuild!RebuildTypeOK, NewInv
  <2>4. WantedInv'
    BY <1>1, <2>1, HostAssumption DEF Rebuild!RebuildTypeOK, WantedInv
  <2>5. GoneInv' /\ Rebuild!OneRebuildAtATime' /\ Rebuild!DiagnosticsAreCurrent'
    BY <1>1 DEF GoneInv, Rebuild!ServedAnswers, Rebuild!OneRebuildAtATime, Rebuild!DiagnosticsAreCurrent, Rebuild!Registered
  <2>6. Rebuild!NoSaveForgotten'
    BY <1>1, <2>1 DEF Rebuild!NoSaveForgotten, Rebuild!Unanswered, Rebuild!RebuildTypeOK
  <2> QED
    BY <2>2, <2>3, <2>4, <2>5, <2>6
<1> QED
  BY <1>2, <1>3

(* The sessions may go on, and the focused one change, without a word to   *)
(* the rebuild.                                                            *)
SessionsGoOn ==
  /\ UNCHANGED rebuildVars
  /\ life' \in [Session -> {"new", "live", "ended", "gone"}]
  /\ active' \in Session \cup {None}
  /\ \A s \in Session :
       \/ life'[s] = life[s]
       \/ life[s] = "new" /\ life'[s] = "live"
       \/ life[s] = "live" /\ life'[s] = "ended"
  /\ \/ active' = active
     \/ active' = None \/ life[active'] # "new"

(* What only sessions do leaves the rebuilds as they are.                  *)
LEMMA SessionsGoOnStep ==
  ASSUME RebuildInv, SessionsGoOn PROVE RebuildInv'
<1> USE DEF RebuildInv, SessionsGoOn
<1>1. UNCHANGED <<saved, wanted, timer, inFlight, pending, wire, read, failedAt, diagUri, shown>>
  BY DEF rebuildVars
<1>2. SessionTypeOK' /\ Rebuild!RebuildTypeOK' /\ WantedInv'
  BY <1>1 DEF SessionTypeOK, Rebuild!RebuildTypeOK, WantedInv
<1>3. NewInv'
  <2> SUFFICES ASSUME NEW s \in Session, life'[s] = "new"
               PROVE  /\ active' # s
                      /\ s \notin timer' /\ s \notin inFlight' /\ s \notin pending'
                      /\ wire'[s] = <<>> /\ wanted'[s] = 0
    BY DEF NewInv
  <2>1. life[s] = "new"
    OBVIOUS
  <2>2. active' # s
    BY <2>1, HostAssumption DEF NewInv, SessionTypeOK
  <2> QED
    BY <1>1, <2>1, <2>2 DEF NewInv
<1>4. GoneInv'
  BY <1>1 DEF GoneInv, Rebuild!ServedAnswers
<1>5. Rebuild!OneRebuildAtATime'
  BY <1>1 DEF Rebuild!OneRebuildAtATime, Rebuild!Registered, NewInv
<1>6. Rebuild!NoSaveForgotten'
  <2> SUFFICES ASSUME NEW s \in Session, life'[s] = "live", read'[s] < wanted'[s]
               PROVE  s \in timer' \/ s \in pending' \/ Rebuild!Unanswered(s)' # {}
    BY DEF Rebuild!NoSaveForgotten
  <2>1. life[s] # "new"
    BY <1>1 DEF NewInv, Rebuild!RebuildTypeOK
  <2>2. life[s] = "live"
    BY <2>1
  <2> QED
    BY <1>1, <2>2 DEF Rebuild!NoSaveForgotten, Rebuild!Unanswered
<1>7. Rebuild!DiagnosticsAreCurrent'
  <2> SUFFICES ASSUME NEW u \in Source, shown'[u] # None
               PROVE  /\ Rebuild!Registered(shown[u])'
                      /\ failedAt'[shown'[u]] = u
                      /\ diagUri'[shown'[u]] = u
    BY DEF Rebuild!DiagnosticsAreCurrent
  <2>1. /\ Rebuild!Registered(shown[u])
        /\ failedAt[shown[u]] = u
        /\ diagUri[shown[u]] = u
    BY <1>1 DEF Rebuild!DiagnosticsAreCurrent
  <2>2. shown[u] \in Session
    BY <1>1 DEF Rebuild!RebuildTypeOK
  <2>3. Rebuild!Registered(shown[u])'
    BY <1>1, <2>1, <2>2 DEF Rebuild!Registered
  <2> QED
    BY <1>1, <2>1, <2>3
<1> QED
  BY <1>2, <1>3, <1>4, <1>5, <1>6, <1>7

(* What clearing a session's diagnostics, or putting up its error, leaves: *)
(* tables of the same kind, where s has nothing shown but that error and   *)
(* what others have shown was there before.                                *)
LEMMA DiagnosticsStep ==
  ASSUME RebuildInv, NEW s \in Session, NEW u \in Source \cup {None},
         \/ u = None /\ Rebuild!ClearRebuildDiagnostics(s)
         \/ Rebuild!ApplyRebuildDiagnostics(s, u)
  PROVE  /\ shown' \in [Source -> Session \cup {None}]
         /\ diagUri' = [diagUri EXCEPT ![s] = u]
         /\ \A v \in Source : shown'[v] # None =>
              \/ shown'[v] = s /\ v = u
              \/ shown'[v] # s /\ shown'[v] = shown[v]
<1> USE DEF RebuildInv
<1>1. /\ shown \in [Source -> Session \cup {None}]
      /\ diagUri \in [Session -> Source \cup {None}]
  BY DEF Rebuild!RebuildTypeOK
<1>2. \A v \in Source : shown[v] = s => diagUri[s] = v
  BY HostAssumption DEF Rebuild!DiagnosticsAreCurrent
<1> DEFINE c == Rebuild!Cleared(s)
<1>3. /\ c.shown \in [Source -> Session \cup {None}]
      /\ c.diagUri = [diagUri EXCEPT ![s] = None]
      /\ \A v \in Source : c.shown[v] # None => c.shown[v] # s /\ c.shown[v] = shown[v]
  BY <1>1, <1>2, HostAssumption DEF Rebuild!Cleared
<1>4. \/ u = None /\ shown' = c.shown /\ diagUri' = c.diagUri
      \/ u # None /\ shown' = [c.shown EXCEPT ![u] = s] /\ diagUri' = [c.diagUri EXCEPT ![s] = u]
  BY DEF Rebuild!ClearRebuildDiagnostics, Rebuild!ApplyRebuildDiagnostics
<1> HIDE DEF c
<1> QED
  BY <1>1, <1>3, <1>4

(* With that, diagnostics stay current when failedAt follows.              *)
LEMMA DiagnosticsCurrentStep ==
  ASSUME RebuildInv, NEW s \in Session, NEW u \in Source \cup {None},
         shown' \in [Source -> Session \cup {None}],
         diagUri' = [diagUri EXCEPT ![s] = u],
         \A v \in Source : shown'[v] # None =>
           \/ shown'[v] = s /\ v = u
           \/ shown'[v] # s /\ shown'[v] = shown[v],
         Rebuild!Registered(s)' \/ u = None,
         failedAt' = [failedAt EXCEPT ![s] = u] \/ (u = None /\ failedAt' = failedAt),
         \A t \in Session \ {s} : life'[t] = life[t]
  PROVE  Rebuild!DiagnosticsAreCurrent'
<1> USE DEF RebuildInv
<1> SUFFICES ASSUME NEW v \in Source, shown'[v] # None
             PROVE  /\ Rebuild!Registered(shown[v])'
                    /\ failedAt'[shown'[v]] = v
                    /\ diagUri'[shown'[v]] = v
  BY DEF Rebuild!DiagnosticsAreCurrent
<1>1. /\ failedAt \in [Session -> Source \cup {None}]
      /\ diagUri \in [Session -> Source \cup {None}]
      /\ shown'[v] \in Session
  BY DEF Rebuild!RebuildTypeOK
<1>2. CASE shown'[v] = s /\ v = u
  BY <1>1, <1>2, HostAssumption
<1>3. CASE shown'[v] # s /\ shown'[v] = shown[v]
  <2>1. /\ Rebuild!Registered(shown[v]) /\ failedAt[shown[v]] = v /\ diagUri[shown[v]] = v
    BY <1>3 DEF Rebuild!DiagnosticsAreCurrent
  <2> QED
    BY <1>1, <1>3, <2>1 DEF Rebuild!Registered
<1> QED
  BY <1>2, <1>3

-----------------------------------------------------------------------------
\* The steps of a rebuild.

(* A new request waits behind those there are.                             *)
LEMMA AskedIsLast ==
  ASSUME NEW q \in Seq(Rebuild!Answer \cup {Rebuild!Asked}),
         NEW r, r = Append(q, Rebuild!Asked)
  PROVE  /\ r \in Seq(Rebuild!Answer \cup {Rebuild!Asked})
         /\ DOMAIN r = 1..(Len(q) + 1)
         /\ \A i \in 1..Len(q) : r[i] = q[i]
         /\ r[Len(q) + 1] = Rebuild!Asked
         /\ \E i \in DOMAIN r : r[i].phase = "asked"
<1>1. /\ r \in Seq(Rebuild!Answer \cup {Rebuild!Asked})
      /\ DOMAIN r = 1..(Len(q) + 1)
      /\ \A i \in 1..Len(q) : r[i] = q[i]
      /\ r[Len(q) + 1] = Rebuild!Asked
  OBVIOUS
<1>2. r[Len(q) + 1].phase = "asked" /\ Len(q) + 1 \in DOMAIN r
  BY <1>1 DEF Rebuild!Asked
<1> QED
  BY <1>1, <1>2

(* A session that is gone stays without answers that matter: its queue     *)
(* gets requests only and loses its head.                                  *)
LEMMA GoneStep ==
  ASSUME RebuildInv, NEW s \in Session, life' = life,
         NEW q \in Seq(Rebuild!Answer \cup {Rebuild!Asked}),
         \/ q = wire[s]
         \/ wire[s] # <<>> /\ q = Tail(wire[s]),
         wire' = [wire EXCEPT ![s] = q] \/ wire' = [wire EXCEPT ![s] = Append(q, Rebuild!Asked)]
  PROVE  GoneInv'
<1> USE DEF RebuildInv
<1>1. /\ wire \in [Session -> Seq(Rebuild!Answer \cup {Rebuild!Asked})]
      /\ wire[s] \in Seq(Rebuild!Answer \cup {Rebuild!Asked})
  BY DEF Rebuild!RebuildTypeOK
<1> SUFFICES ASSUME NEW t \in Session, life[t] = "gone", NEW i \in DOMAIN wire'[t],
                    wire'[t][i].phase = "answered"
             PROVE  wire'[t][i].outcome = "reject"
  BY DEF GoneInv, Rebuild!ServedAnswers
<1>2. CASE t # s
  BY <1>1, <1>2 DEF GoneInv, Rebuild!ServedAnswers
<1>3. CASE t = s
  <2>1. \A j \in DOMAIN q : q[j].phase = "answered" => q[j].outcome = "reject"
    <3>1. CASE q = wire[s]
      BY <1>3, <3>1 DEF GoneInv, Rebuild!ServedAnswers
    <3>2. CASE wire[s] # <<>> /\ q = Tail(wire[s])
      <4>1. \A j \in DOMAIN q : j + 1 \in DOMAIN wire[s] /\ q[j] = wire[s][j + 1]
        BY <1>1, <3>2
      <4> QED
        BY <1>3, <4>1 DEF GoneInv, Rebuild!ServedAnswers
    <3> QED
      BY <3>1, <3>2
  <2>2. CASE wire'[s] = q
    BY <1>3, <2>1, <2>2
  <2>3. CASE wire'[s] = Append(q, Rebuild!Asked)
    <3>1. i \in 1..(Len(q) + 1)
      BY <1>3, <2>3, AskedIsLast
    <3>2. i # Len(q) + 1
      BY <1>3, <2>3, AskedIsLast DEF Rebuild!Asked
    <3>3. i \in 1..Len(q)
      BY <3>1, <3>2
    <3> QED
      BY <1>3, <2>1, <2>3, <3>3, AskedIsLast
  <2> QED
    BY <1>1, <2>2, <2>3
<1> QED
  BY <1>2, <1>3


(* A timer sends its rebuild, or leaves it to the answer of the one in     *)
(* flight.                                                                 *)
LEMMA TimerFiresStep ==
  ASSUME RebuildInv, NEW s \in Session, TimerFires(s) PROVE RebuildInv'
<1> USE DEF RebuildInv
<1>1. /\ UNCHANGED <<saved, wanted, read, failedAt, diagUri, shown, life, active>>
      /\ s \in timer /\ timer' = timer \ {s}
      /\ Rebuild!RunWarmRebuild(s, inFlight, pending, wire[s])
  BY DEF TimerFires, Rebuild!TimerFires, sessionVars
<1>2. wire \in [Session -> Seq(Rebuild!Answer \cup {Rebuild!Asked})]
  BY DEF Rebuild!RebuildTypeOK
<1>3. life[s] # "new"
  BY <1>1 DEF NewInv
<1>4. SessionTypeOK' /\ WantedInv' /\ Rebuild!DiagnosticsAreCurrent'
  BY <1>1 DEF SessionTypeOK, WantedInv, Rebuild!DiagnosticsAreCurrent, Rebuild!Registered
<1>5. CASE s \in inFlight
  <2>1. pending' = pending \cup {s} /\ inFlight' = inFlight /\ wire' = wire
    BY <1>1, <1>2, <1>5 DEF Rebuild!RunWarmRebuild, Rebuild!StartsPending
  <2>2. Rebuild!RebuildTypeOK' /\ NewInv' /\ GoneInv'
    BY <1>1, <1>3, <2>1
    DEF Rebuild!RebuildTypeOK, NewInv, GoneInv, Rebuild!ServedAnswers
  <2>3. Rebuild!OneRebuildAtATime'
    BY <1>1, <1>5, <2>1 DEF Rebuild!OneRebuildAtATime, Rebuild!Registered
  <2>4. Rebuild!NoSaveForgotten'
    BY <1>1, <2>1 DEF Rebuild!NoSaveForgotten, Rebuild!Unanswered
  <2> QED
    BY <1>4, <2>2, <2>3, <2>4
<1>6. CASE s \notin inFlight
  <2>1. /\ pending' = pending /\ inFlight' = inFlight \cup {s}
        /\ wire' = [wire EXCEPT ![s] = Append(wire[s], Rebuild!Asked)]
    BY <1>1, <1>6 DEF Rebuild!RunWarmRebuild, Rebuild!StartsPending
  <2>2. /\ wire'[s] = Append(wire[s], Rebuild!Asked)
        /\ \A t \in Session \ {s} : wire'[t] = wire[t]
        /\ wire' \in [Session -> Seq(Rebuild!Answer \cup {Rebuild!Asked})]
    BY <1>2, <2>1
  <2>3. Rebuild!RebuildTypeOK'
    BY <1>1, <2>1, <2>2 DEF Rebuild!RebuildTypeOK
  <2>4. NewInv'
    BY <1>1, <1>3, <2>1, <2>2 DEF NewInv
  <2>5. GoneInv'
    BY <1>1, <1>2, <2>1, GoneStep
  <2>6. Rebuild!OneRebuildAtATime'
    BY <1>1, <1>2, <1>6, <2>1, <2>2 DEF Rebuild!OneRebuildAtATime, Rebuild!Registered
  <2>7. Rebuild!Unanswered(s)' # {}
    <3> DEFINE q == wire[s]
               r == wire'[s]
    <3>0. q \in Seq(Rebuild!Answer \cup {Rebuild!Asked}) /\ r = Append(q, Rebuild!Asked)
      BY <1>2, <2>2
    <3>1. \E i \in DOMAIN r : r[i].phase = "asked"
      <4> HIDE DEF q, r
      <4> QED
        BY <3>0, AskedIsLast
    <3> QED
      BY <3>1 DEF Rebuild!Unanswered
  <2>8. Rebuild!NoSaveForgotten'
    BY <1>1, <2>1, <2>2, <2>7 DEF Rebuild!NoSaveForgotten, Rebuild!Unanswered
  <2> QED
    BY <1>4, <2>3, <2>4, <2>5, <2>6, <2>8
<1> QED
  BY <1>5, <1>6

(* The adapter builds the text as saved when it answers.                   *)
LEMMA AdapterAnswersStep ==
  ASSUME RebuildInv, NEW s \in Session, AdapterAnswers(s) PROVE RebuildInv'
<1> USE DEF RebuildInv
<1>1. PICK i \in Rebuild!Unanswered(s), a \in Rebuild!Answer :
        /\ \A j \in Rebuild!Unanswered(s) : i <= j
        /\ life[s] # "live" => a.outcome = "reject"
        /\ wire' = [wire EXCEPT ![s][i] = a]
        /\ read' = IF life[s] = "live" THEN [read EXCEPT ![s] = saved] ELSE read
        /\ UNCHANGED <<saved, wanted, timer, inFlight, pending, failedAt, diagUri, shown>>
  BY DEF AdapterAnswers, Rebuild!AdapterAnswers
<1>2. UNCHANGED <<life, active>>
  BY DEF AdapterAnswers, sessionVars
<1>3. /\ wire \in [Session -> Seq(Rebuild!Answer \cup {Rebuild!Asked})]
      /\ i \in 1..Len(wire[s]) /\ wire[s][i].phase = "asked"
  BY <1>1 DEF Rebuild!RebuildTypeOK, Rebuild!Unanswered
<1>4. /\ wire'[s] = [wire[s] EXCEPT ![i] = a]
      /\ wire'[s] \in Seq(Rebuild!Answer \cup {Rebuild!Asked})
      /\ Len(wire'[s]) = Len(wire[s])
      /\ \A t \in Session \ {s} : wire'[t] = wire[t]
      /\ wire' \in [Session -> Seq(Rebuild!Answer \cup {Rebuild!Asked})]
  <2>1. [wire[s] EXCEPT ![i] = a] \in Seq(Rebuild!Answer \cup {Rebuild!Asked})
    BY <1>3
  <2> QED
    BY <1>1, <1>3, <2>1
<1>5. a.phase = "answered"
  BY DEF Rebuild!Answer, Rebuild!Answered
<1>6. wire[s] # <<>> /\ wire'[s] # <<>>
  BY <1>3, <1>4
<1>7. life[s] # "new"
  BY <1>6 DEF NewInv
<1>8. SessionTypeOK' /\ WantedInv' /\ Rebuild!DiagnosticsAreCurrent'
  BY <1>1, <1>2 DEF SessionTypeOK, WantedInv, Rebuild!DiagnosticsAreCurrent, Rebuild!Registered
<1>9. Rebuild!RebuildTypeOK'
  BY <1>1, <1>4 DEF Rebuild!RebuildTypeOK
<1>10. NewInv'
  BY <1>1, <1>2, <1>4, <1>7 DEF NewInv
<1>11. GoneInv'
  BY <1>1, <1>2, <1>3, <1>4 DEF GoneInv, Rebuild!ServedAnswers
<1>12. Rebuild!OneRebuildAtATime'
  BY <1>1, <1>2, <1>4, <1>6 DEF Rebuild!OneRebuildAtATime, Rebuild!Registered
<1>13. Rebuild!NoSaveForgotten'
  <2> SUFFICES ASSUME NEW t \in Session, life[t] = "live", read'[t] < wanted[t]
               PROVE  t \in timer \/ t \in pending \/ Rebuild!Unanswered(t)' # {}
    BY <1>1, <1>2 DEF Rebuild!NoSaveForgotten
  <2>1. t # s
    <3>1. t = s => read'[t] = saved
      BY <1>1 DEF Rebuild!RebuildTypeOK
    <3> QED
      BY <3>1, HostAssumption DEF WantedInv, Rebuild!RebuildTypeOK
  <2> QED
    BY <1>1, <1>4, <2>1 DEF Rebuild!NoSaveForgotten, Rebuild!Unanswered
<1> QED
  BY <1>8, <1>9, <1>10, <1>11, <1>12, <1>13

(* An answer shows its diagnostics and sends the rebuild that waited.      *)
LEMMA ReceiveAnswerStep ==
  ASSUME RebuildInv, NEW s \in Session, ReceiveAnswer(s) PROVE RebuildInv'
<1> USE DEF RebuildInv
<1> DEFINE a == Head(wire[s])
<1>1. /\ UNCHANGED <<saved, wanted, timer, read, life, active>>
      /\ wire[s] # <<>> /\ a.phase = "answered"
      /\ Rebuild!FinishWarmRebuild(s, Tail(wire[s]))
  BY DEF ReceiveAnswer, Rebuild!ReceiveAnswer, sessionVars
<1>2. /\ wire \in [Session -> Seq(Rebuild!Answer \cup {Rebuild!Asked})]
      /\ wire[s] \in Seq(Rebuild!Answer \cup {Rebuild!Asked})
      /\ 1 \in DOMAIN wire[s] /\ a = wire[s][1]
      /\ Tail(wire[s]) \in Seq(Rebuild!Answer \cup {Rebuild!Asked})
      /\ Len(Tail(wire[s])) = Len(wire[s]) - 1
      /\ \A i \in 1..Len(Tail(wire[s])) : Tail(wire[s])[i] = wire[s][i + 1]
  BY <1>1 DEF Rebuild!RebuildTypeOK
<1>3. a \in Rebuild!Answer
  BY <1>1, <1>2 DEF Rebuild!Asked
<1>4. life[s] # "new"
  BY <1>1 DEF NewInv
<1>5. a.outcome # "reject" => Rebuild!Registered(s)
  BY <1>1, <1>2, <1>4 DEF GoneInv, Rebuild!ServedAnswers, Rebuild!Registered, SessionTypeOK
<1>6. /\ Rebuild!DiagnosticsAreCurrent'
      /\ shown' \in [Source -> Session \cup {None}]
      /\ diagUri' \in [Session -> Source \cup {None}]
      /\ failedAt' \in [Session -> Source \cup {None}]
  <2>1. /\ a.outcome \in {"ok", "fail", "reject"} /\ a.uri \in Source \cup {None}
        /\ a.outcome = "ok" => a.uri = None
    BY <1>3 DEF Rebuild!Answer, Rebuild!Answered
  <2>2. CASE a.outcome = "reject"
    <3>1. UNCHANGED <<shown, diagUri, failedAt>>
      BY <2>2 DEF ReceiveAnswer, Rebuild!ReceiveAnswer
    <3> QED
      BY <1>1, <3>1 DEF Rebuild!DiagnosticsAreCurrent, Rebuild!Registered, Rebuild!RebuildTypeOK
  <2>3. CASE a.outcome # "reject"
    <3>1. failedAt' = [failedAt EXCEPT ![s] = a.uri]
      BY <2>3 DEF ReceiveAnswer, Rebuild!ReceiveAnswer
    <3>2. \/ a.uri = None /\ Rebuild!ClearRebuildDiagnostics(s)
          \/ Rebuild!ApplyRebuildDiagnostics(s, a.uri)
      BY <2>1, <2>3 DEF ReceiveAnswer, Rebuild!ReceiveAnswer
    <3>3. /\ shown' \in [Source -> Session \cup {None}]
          /\ diagUri' = [diagUri EXCEPT ![s] = a.uri]
          /\ \A v \in Source : shown'[v] # None =>
               \/ shown'[v] = s /\ v = a.uri
               \/ shown'[v] # s /\ shown'[v] = shown[v]
      BY <2>1, <3>2, DiagnosticsStep
    <3>4. Rebuild!Registered(s)'
      BY <1>1, <1>5, <2>3 DEF Rebuild!Registered
    <3>5. Rebuild!DiagnosticsAreCurrent'
      BY <1>1, <2>1, <3>1, <3>3, <3>4, DiagnosticsCurrentStep
    <3> QED
      BY <2>1, <3>1, <3>3, <3>5 DEF Rebuild!RebuildTypeOK
  <2> QED
    BY <2>2, <2>3
<1>7. CASE s \in pending
  <2>1. /\ pending' = pending \ {s} /\ inFlight' = (inFlight \ {s}) \cup {s}
        /\ wire' = [wire EXCEPT ![s] = Append(Tail(wire[s]), Rebuild!Asked)]
    BY <1>1, <1>7 DEF Rebuild!FinishWarmRebuild, Rebuild!Rerun, Rebuild!RunWarmRebuild, Rebuild!StartsPending
  <2>2. /\ wire'[s] = Append(Tail(wire[s]), Rebuild!Asked)
        /\ \A t \in Session \ {s} : wire'[t] = wire[t]
        /\ wire' \in [Session -> Seq(Rebuild!Answer \cup {Rebuild!Asked})]
    BY <1>2, <2>1
  <2>3. Rebuild!RebuildTypeOK'
    BY <1>1, <1>6, <2>1, <2>2 DEF Rebuild!RebuildTypeOK
  <2>4. NewInv' /\ WantedInv' /\ SessionTypeOK'
    BY <1>1, <1>4, <2>1, <2>2 DEF NewInv, WantedInv, SessionTypeOK
  <2>5. GoneInv'
    BY <1>1, <1>2, <2>1, GoneStep
  <2>6. Rebuild!OneRebuildAtATime'
    BY <1>1, <1>2, <2>1, <2>2 DEF Rebuild!OneRebuildAtATime, Rebuild!Registered
  <2>7. Rebuild!Unanswered(s)' # {}
    <3> DEFINE q == Tail(wire[s])
               r == wire'[s]
    <3>0. q \in Seq(Rebuild!Answer \cup {Rebuild!Asked}) /\ r = Append(q, Rebuild!Asked)
      BY <1>2, <2>2
    <3>1. \E i \in DOMAIN r : r[i].phase = "asked"
      <4> HIDE DEF q, r
      <4> QED
        BY <3>0, AskedIsLast
    <3> QED
      BY <3>1 DEF Rebuild!Unanswered
  <2>8. Rebuild!NoSaveForgotten'
    BY <1>1, <2>1, <2>2, <2>7 DEF Rebuild!NoSaveForgotten, Rebuild!Unanswered
  <2> QED
    BY <1>6, <2>3, <2>4, <2>5, <2>6, <2>8
<1>8. CASE s \notin pending
  <2>1. /\ pending' = pending /\ inFlight' = inFlight \ {s}
        /\ wire' = [wire EXCEPT ![s] = Tail(wire[s])]
    BY <1>1, <1>8 DEF Rebuild!FinishWarmRebuild, Rebuild!Rerun
  <2>2. /\ wire'[s] = Tail(wire[s])
        /\ \A t \in Session \ {s} : wire'[t] = wire[t]
        /\ wire' \in [Session -> Seq(Rebuild!Answer \cup {Rebuild!Asked})]
    BY <1>2, <2>1
  <2>3. Rebuild!RebuildTypeOK'
    BY <1>1, <1>6, <2>1, <2>2 DEF Rebuild!RebuildTypeOK
  <2>4. NewInv' /\ WantedInv' /\ SessionTypeOK'
    BY <1>1, <1>4, <2>1, <2>2 DEF NewInv, WantedInv, SessionTypeOK
  <2>5. GoneInv'
    BY <1>1, <1>2, <2>1, GoneStep
  <2>6. Rebuild!OneRebuildAtATime'
    BY <1>1, <1>2, <1>8, <2>1, <2>2 DEF Rebuild!OneRebuildAtATime, Rebuild!Registered
  <2>7. life[s] = "live" => Rebuild!Unanswered(s) = {}
    BY <1>1, <1>2 DEF Rebuild!OneRebuildAtATime, Rebuild!Registered, Rebuild!Unanswered
  <2>8. Rebuild!NoSaveForgotten'
    BY <1>1, <1>8, <2>1, <2>2, <2>7 DEF Rebuild!NoSaveForgotten, Rebuild!Unanswered
  <2> QED
    BY <1>6, <2>3, <2>4, <2>5, <2>6, <2>8
<1> QED
  BY <1>7, <1>8

(* The end of a session takes its timer, its requests and its diagnostics  *)
(* away; only rejections may still come back.                              *)
LEMMA TerminatedStep ==
  ASSUME RebuildInv, NEW s \in Session, HandleDebugSessionTerminated(s)
  PROVE  RebuildInv'
<1> USE DEF RebuildInv
<1>1. /\ life[s] = "ended" /\ ~Rebuild!ServedAnswers(s)
      /\ life' = [life EXCEPT ![s] = "gone"]
      /\ active' = active
      /\ timer' = timer \ {s} /\ pending' = pending \ {s} /\ inFlight' = inFlight \ {s}
      /\ Rebuild!ClearRebuildDiagnostics(s)
      /\ UNCHANGED <<saved, wanted, wire, read, failedAt>>
  BY DEF HandleDebugSessionTerminated, Rebuild!OnTerminated
<1>2. /\ life' \in [Session -> {"new", "live", "ended", "gone"}]
      /\ life'[s] = "gone" /\ \A t \in Session \ {s} : life'[t] = life[t]
  BY <1>1 DEF SessionTypeOK
<1>3. /\ shown' \in [Source -> Session \cup {None}]
      /\ diagUri' = [diagUri EXCEPT ![s] = None]
      /\ \A v \in Source : shown'[v] # None =>
           \/ shown'[v] = s /\ v = None
           \/ shown'[v] # s /\ shown'[v] = shown[v]
  BY <1>1, DiagnosticsStep
<1>4. Rebuild!DiagnosticsAreCurrent'
  <2>1. None \in Source \cup {None}
    OBVIOUS
  <2> QED
    BY <1>1, <1>2, <1>3, <2>1, DiagnosticsCurrentStep
<1>5. SessionTypeOK' /\ Rebuild!RebuildTypeOK'
  BY <1>1, <1>2, <1>3 DEF SessionTypeOK, Rebuild!RebuildTypeOK
<1>6. NewInv' /\ WantedInv'
  BY <1>1, <1>2 DEF NewInv, WantedInv
<1>7. GoneInv'
  BY <1>1, <1>2 DEF GoneInv, Rebuild!ServedAnswers
<1>8. Rebuild!OneRebuildAtATime' /\ Rebuild!NoSaveForgotten'
  BY <1>1, <1>2 DEF Rebuild!OneRebuildAtATime, Rebuild!Registered, Rebuild!NoSaveForgotten,
                    Rebuild!Unanswered
<1> QED
  BY <1>4, <1>5, <1>6, <1>7, <1>8

-----------------------------------------------------------------------------
(* The other events of a session only let sessions go on.                  *)
LEMMA SessionEventsStep ==
  ASSUME RebuildInv, NEW s \in Session,
         \/ BeginSession(s) \/ LaunchCompletes(s) \/ EndSession(s)
         \/ HandleDebugSessionStarted(s) \/ HandlePlatformEvent(s)
         \/ HandleSessionStatusEvent(s) \/ HandleUpdateEvent(s)
         \/ HandleSerialEvent(s) \/ HandleTerminalOutputEvent(s)
  PROVE  SessionsGoOn
<1>1. SessionTypeOK
  BY DEF RebuildInv
<1>2. UNCHANGED rebuildVars /\ active' = active
  BY DEF BeginSession, LaunchCompletes, EndSession, HandleDebugSessionStarted, HandlePlatformEvent,
         HandleSessionStatusEvent, HandleUpdateEvent, HandleSerialEvent, HandleTerminalOutputEvent
<1>3. \/ life' = life
      \/ life[s] = "new" /\ life' = [life EXCEPT ![s] = "live"]
      \/ life[s] = "live" /\ life' = [life EXCEPT ![s] = "ended"]
  BY DEF BeginSession, LaunchCompletes, EndSession, HandleDebugSessionStarted, HandlePlatformEvent,
         HandleSessionStatusEvent, HandleUpdateEvent, HandleSerialEvent, HandleTerminalOutputEvent,
         sessionVars
<1> QED
  BY <1>1, <1>2, <1>3 DEF SessionsGoOn, SessionTypeOK

(* Every step of the host keeps the rebuild invariant.                     *)
LEMMA RebuildNextInv == RebuildInv /\ [Next]_vars => RebuildInv'
<1> SUFFICES ASSUME RebuildInv, [Next]_vars PROVE RebuildInv'
  OBVIOUS
<1>1. SessionTypeOK
  BY DEF RebuildInv
<1>2. CASE ActiveChanges
  <2>1. SessionsGoOn
    BY <1>1, <1>2, HostAssumption DEF ActiveChanges, sessionVars, SessionsGoOn, SessionTypeOK, Alive
  <2> QED
    BY <2>1, SessionsGoOnStep
<1>3. CASE Save
  BY <1>3, SaveStep
<1>4. CASE PanelStep \/ TerminalStep \/ UNCHANGED vars
  <2>1. SessionsGoOn
    BY <1>1, <1>4 DEF PanelStep, TerminalStep, vars, sessionVars, SessionsGoOn, SessionTypeOK
  <2> QED
    BY <2>1, SessionsGoOnStep
<1>5. ASSUME NEW s \in Session, SessionStep(s) PROVE RebuildInv'
  <2>1. CASE TimerFires(s)
    BY <2>1, TimerFiresStep
  <2>2. CASE AdapterAnswers(s)
    BY <2>2, AdapterAnswersStep
  <2>3. CASE ReceiveAnswer(s)
    BY <2>3, ReceiveAnswerStep
  <2>4. CASE HandleDebugSessionTerminated(s)
    BY <2>4, TerminatedStep
  <2> QED
    BY <1>5, <2>1, <2>2, <2>3, <2>4, SessionEventsStep, SessionsGoOnStep DEF SessionStep
<1> QED
  BY <1>2, <1>3, <1>4, <1>5 DEF Next

(* The inductive invariant of the rebuild.                                 *)
THEOREM RebuildInvariant == Spec => []RebuildInv
<1> QED
  BY RebuildInitInv, RebuildNextInv, PTL DEF Spec

(* However saves, timers, answers and ends of sessions fall, a session has *)
(* one rebuild at a time and its last save is compiled or about to be      *)
(* (auto-rebuild.ts:67-98).                                                *)
THEOREM FollowsSaves == Spec => []RebuildsFollowSaves
<1>1. RebuildInv => RebuildsFollowSaves
  BY DEF RebuildInv, RebuildsFollowSaves
<1> QED
  BY <1>1, RebuildInvariant, PTL

(* No diagnostic outlives its session or the failure it tells of           *)
(* (auto-rebuild.ts:24-34, debug-session-events.ts:136-140).               *)
THEOREM DiagnosticsCurrent == Spec => []DiagnosticsAreCurrent
<1>1. RebuildInv => DiagnosticsAreCurrent
  BY DEF RebuildInv, DiagnosticsAreCurrent
<1> QED
  BY <1>1, RebuildInvariant, PTL


-----------------------------------------------------------------------------
\* The sidebar.

PageType ==
  [html : Platform \cup {None, Panel!IdlePage}, status : Panel!Status,
   ui : Session \cup {None}, serial : Seq(Session)]

(* A serial buffer, which never exceeds its limit.                         *)
SerialText == {t \in Seq(Session) : Len(t) <= MaxSerial}

ViewType ==
  /\ status \in Panel!Status
  /\ current \in Session \cup {None}
  /\ platform \in Platform \cup {None}
  /\ ui \in [Platform -> Session \cup {None}]
  /\ serial \in [Platform -> SerialText]
  /\ loaded \in {"no", "loading", "yes"}
  /\ view \in {"none", "hidden", "visible"}
  /\ page \in PageType

(* There is no page but on the screen; none of a platform before the       *)
(* platforms' modules are loaded, and no other after; what comes from a    *)
(* session is on a platform's page only.                                   *)
PageInv ==
  /\ view # "visible" => page = Panel!BlankPage
  /\ page.html \in Platform => loaded = "yes"
  /\ view = "visible" /\ loaded = "yes" /\ platform # None => page.html = platform
  /\ page.html \notin Platform => page.ui = None /\ page.serial = <<>>

ViewInv == ViewType /\ PageInv /\ Panel!PageShowsHostState

(* Appending to a serial text keeps it one; it drops the oldest character  *)
(* of a full one, which the page does in its own way.                      *)
LEMMA AppendSerialTextType ==
  ASSUME NEW t \in SerialText, NEW s \in Session
  PROVE  /\ Panel!AppendSerialText(t, s) \in SerialText
         /\ Panel!AppendSerialText(t, s)
              = IF Len(t) < MaxSerial THEN Append(t, s) ELSE Append(Tail(t), s)
         /\ \A i \in DOMAIN Panel!AppendSerialText(t, s) :
              \/ Panel!AppendSerialText(t, s)[i] = s
              \/ \E j \in DOMAIN t : Panel!AppendSerialText(t, s)[i] = t[j]
<1> DEFINE next == Append(t, s)
<1>1. /\ t \in Seq(Session) /\ Len(t) \in Nat /\ Len(t) <= MaxSerial
      /\ MaxSerial \in Nat \ {0}
  BY HostAssumption DEF SerialText
<1>2. /\ next \in Seq(Session) /\ Len(next) = Len(t) + 1
      /\ \A i \in 1..Len(t) : next[i] = t[i]
      /\ next[Len(t) + 1] = s
  BY <1>1
<1>3. CASE Len(t) < MaxSerial
  <2>1. Panel!AppendSerialText(t, s) = next
    BY <1>1, <1>2, <1>3 DEF Panel!AppendSerialText
  <2> QED
    BY <1>1, <1>2, <1>3, <2>1 DEF SerialText
<1>4. CASE Len(t) = MaxSerial
  <2>1. Panel!AppendSerialText(t, s) = Tail(next)
    BY <1>1, <1>2, <1>4 DEF Panel!AppendSerialText
  <2>2. /\ Tail(next) \in Seq(Session) /\ Len(Tail(next)) = Len(t)
        /\ \A i \in 1..Len(t) : Tail(next)[i] = next[i + 1]
    BY <1>1, <1>2, <1>4
  <2>3. Tail(next) = Append(Tail(t), s)
    BY <1>1, <1>2, <1>4, <2>2
  <2> QED
    BY <1>1, <1>2, <1>4, <2>1, <2>2, <2>3 DEF SerialText
<1> QED
  BY <1>1, <1>3, <1>4

(* An empty page is a page.                                                *)
LEMMA BlankPageType ==
  /\ Panel!BlankPage \in PageType
  /\ Panel!BlankPage.html = None /\ Panel!BlankPage.ui = None /\ Panel!BlankPage.serial = <<>>
<1>1. <<>> \in Seq(Session)
  OBVIOUS
<1> QED
  BY <1>1 DEF Panel!BlankPage, Panel!FreshPage, PageType, Panel!Status

(* The panel starts without a page.                                        *)
LEMMA ViewInitInv == Init => ViewInv
<1> SUFFICES ASSUME Init PROVE ViewInv
  OBVIOUS
<1>1. Panel!ViewInit
  BY DEF Init
<1>2. <<>> \in SerialText
  BY HostAssumption DEF SerialText
<1>3. ViewType
  <2>1. serial \in [Platform -> SerialText] /\ ui \in [Platform -> Session \cup {None}]
    BY <1>1, <1>2 DEF Panel!ViewInit
  <2>2. page \in PageType
    BY <1>1, BlankPageType DEF Panel!ViewInit
  <2> QED
    BY <1>1, <2>1, <2>2 DEF Panel!ViewInit, ViewType, Panel!Status
<1>4. PageInv /\ Panel!PageShowsHostState
  BY <1>1, HostAssumption DEF Panel!ViewInit, PageInv, Panel!PageShowsHostState, Panel!BlankPage, Panel!FreshPage
<1> QED
  BY <1>3, <1>4 DEF ViewInv

(* A rendered page is that of the platform, or the idle page, or, when     *)
(* nothing is known to show, the page there was.                           *)
LEMMA RenderedPages ==
  ASSUME ViewInv, NEW p \in Platform \cup {None}, NEW rehydrate \in BOOLEAN,
         NEW state \in {"no", "loading", "yes"},
         NEW r, r = Panel!Rendered(p, status, ui, rehydrate, state)
  PROVE  /\ r \in PageType
         /\ \/ /\ p \in Platform /\ state = "yes"
               /\ r = [html |-> p, status |-> status, ui |-> ui[p], serial |-> serial[p]]
            \/ /\ r.html = Panel!IdlePage /\ r.ui = None /\ r.serial = <<>>
               /\ p = None \/ state # "yes"
            \/ r = page /\ (p = None \/ state # "yes") /\ ~rehydrate
<1>0. /\ status \in Panel!Status /\ ui \in [Platform -> Session \cup {None}]
      /\ serial \in [Platform -> SerialText] /\ page \in PageType
  BY DEF ViewInv, ViewType
<1>1. CASE state = "yes" /\ p # None
  <2>1. r = [html |-> p, status |-> status, ui |-> ui[p], serial |-> serial[p]]
    BY <1>1 DEF Panel!Rendered, Panel!RenderedPage, Panel!SerialInit
  <2>2. serial[p] \in Seq(Session)
    BY <1>0, <1>1 DEF SerialText
  <2> QED
    BY <1>0, <1>1, <2>1, <2>2 DEF PageType
<1>2. CASE ~(state = "yes" /\ p # None) /\ (rehydrate \/ page.html = None)
  <2>1. PICK st \in Panel!Status :
          r = [html |-> Panel!IdlePage, status |-> st, ui |-> None, serial |-> <<>>]
    BY <1>0, <1>2 DEF Panel!Rendered, Panel!FreshPage, Panel!Status
  <2>2. <<>> \in Seq(Session)
    OBVIOUS
  <2>3. r \in PageType
    BY <2>1, <2>2 DEF PageType
  <2>4. r.html = Panel!IdlePage /\ r.ui = None /\ r.serial = <<>>
    BY <2>1
  <2> QED
    BY <1>2, <2>3, <2>4
<1>3. CASE ~(state = "yes" /\ p # None) /\ ~(rehydrate \/ page.html = None)
  BY <1>0, <1>3 DEF Panel!Rendered
<1> QED
  BY <1>1, <1>2, <1>3

(* The facts about the page that the steps below start from.               *)
LEMMA PageFacts ==
  ASSUME ViewInv
  PROVE  /\ page.html \in Platform \cup {None, Panel!IdlePage}
         /\ page.status \in Panel!Status
         /\ page.ui \in Session \cup {None} /\ page.serial \in Seq(Session)
         /\ page = [html |-> page.html, status |-> page.status, ui |-> page.ui,
                    serial |-> page.serial]
         /\ view = "visible" /\ page.html \in Platform =>
              /\ page.html = platform /\ loaded = "yes"
              /\ page.status = status /\ page.ui = ui[platform] /\ page.serial = serial[platform]
         /\ view # "visible" => page = Panel!BlankPage
         /\ view = "visible" /\ page.html \notin Platform =>
              /\ loaded # "yes" \/ platform = None
              /\ page.ui = None /\ page.serial = <<>>
         /\ None \notin Platform /\ Panel!IdlePage \notin Platform
<1>1. page \in PageType /\ PageInv /\ Panel!PageShowsHostState
  BY DEF ViewInv, ViewType
<1>2. /\ page.html \in Platform \cup {None, Panel!IdlePage}
      /\ page.status \in Panel!Status
      /\ page.ui \in Session \cup {None} /\ page.serial \in Seq(Session)
      /\ page = [html |-> page.html, status |-> page.status, ui |-> page.ui,
                 serial |-> page.serial]
  BY <1>1 DEF PageType
<1>3. None \notin Platform /\ Panel!IdlePage \notin Platform
  BY HostAssumption
<1>4. ASSUME view = "visible", page.html \in Platform
      PROVE  /\ page.html = platform /\ loaded = "yes"
             /\ page.status = status /\ page.ui = ui[platform]
             /\ page.serial = serial[platform]
  BY <1>1, <1>3, <1>4 DEF PageInv, Panel!PageShowsHostState
<1>5. ASSUME view = "visible", page.html \notin Platform
      PROVE  /\ loaded # "yes" \/ platform = None
             /\ page.ui = None /\ page.serial = <<>>
  <2>1. platform \in Platform \cup {None}
    BY DEF ViewInv, ViewType
  <2> QED
    BY <1>1, <1>5, <2>1 DEF PageInv
<1>6. view # "visible" => page = Panel!BlankPage
  BY <1>1 DEF PageInv
<1> QED
  BY <1>2, <1>3, <1>4, <1>5, <1>6

(* A page on the screen with nothing of a session on it.                   *)
IdleOn(pg, v, pl, ld) ==
  /\ v = "visible" /\ (ld # "yes" \/ pl = None)
  /\ pg.html \notin Platform /\ pg.ui = None /\ pg.serial = <<>>

(* What a page must be for the invariant, given the rest of the state.     *)
LEMMA PageInvStep ==
  ASSUME ViewType',
         \/ view' # "visible" /\ page' = Panel!BlankPage
         \/ IdleOn(page', view', platform', loaded')
         \/ /\ view' = "visible" /\ loaded' = "yes" /\ page'.html = platform'
            /\ platform' \in Platform
            /\ page'.status = status' /\ page'.ui = ui'[platform']
            /\ page'.serial = serial'[platform']
  PROVE  ViewInv'
<1>1. Panel!BlankPage.html \notin Platform
  BY HostAssumption DEF Panel!BlankPage, Panel!FreshPage
<1> QED
  BY <1>1, BlankPageType DEF ViewInv, PageInv, Panel!PageShowsHostState, IdleOn

(* A status reaches the page that is shown, and none that is hidden.       *)
LEMMA SetSessionStatusStep ==
  ASSUME ViewInv, NEW st \in Panel!Status, Panel!SetSessionStatus(st)
  PROVE  ViewInv'
<1>1. /\ status' = st /\ page' = Panel!Posted(Panel!StatusShown(st, page))
      /\ UNCHANGED <<current, platform, ui, serial, loaded, view>>
  BY DEF Panel!SetSessionStatus
<1>2. CASE view = "visible" /\ platform # None
  <2>1. page' = [page EXCEPT !.status = st]
    BY <1>1, <1>2 DEF Panel!Posted, Panel!StatusShown
  <2>2. page' = [html |-> page.html, status |-> st, ui |-> page.ui, serial |-> page.serial]
    BY <2>1, PageFacts
  <2>3. ViewType'
    <3>1. page' \in PageType
      BY <2>2, PageFacts DEF PageType
    <3> QED
      BY <1>1, <3>1 DEF ViewInv, ViewType
  <2>4. CASE page.html \in Platform
    <3>1. /\ page'.html = platform' /\ loaded' = "yes" /\ view' = "visible" /\ platform' \in Platform
          /\ page'.status = status' /\ page'.ui = ui'[platform'] /\ page'.serial = serial'[platform']
      BY <1>1, <1>2, <2>2, <2>4, PageFacts
    <3> QED
      BY <2>3, <3>1, PageInvStep
  <2>5. CASE page.html \notin Platform
    <3>1. IdleOn(page', view', platform', loaded')
      BY <1>1, <1>2, <2>2, <2>5, PageFacts DEF IdleOn
    <3> QED
      BY <2>3, <3>1, PageInvStep
  <2> QED
    BY <2>4, <2>5
<1>3. CASE ~(view = "visible" /\ platform # None)
  <2>1. page' = page
    BY <1>1, <1>3 DEF Panel!Posted, Panel!StatusShown
  <2>2. ViewType'
    BY <1>1, <2>1 DEF ViewInv, ViewType
  <2>3. \/ view' # "visible" /\ page' = Panel!BlankPage
        \/ IdleOn(page', view', platform', loaded')
    BY <1>1, <1>3, <2>1, PageFacts DEF IdleOn
  <2> QED
    BY <2>2, <2>3, PageInvStep
<1> QED
  BY <1>2, <1>3

(* What clears the displays and texts of a session that starts or ends,    *)
(* and on the page as well when there is one.                              *)
LEMMA ClearedStep ==
  ASSUME ViewInv, NEW st \in Panel!Status, status' = st,
         ui' = Panel!NoDisplays, serial' = Panel!NoSerial,
         page' = Panel!Posted(Panel!ClearedPage(Panel!StatusShown(st, page))),
         current' \in Session \cup {None},
         UNCHANGED <<platform, loaded, view>>
  PROVE  /\ ViewInv'
         /\ page'.ui = None /\ page'.serial = <<>>
<1>1. /\ ui' \in [Platform -> Session \cup {None}] /\ serial' \in [Platform -> SerialText]
      /\ \A p \in Platform : ui'[p] = None /\ serial'[p] = <<>>
  <2>1. <<>> \in SerialText
    BY HostAssumption DEF SerialText
  <2> QED
    BY <2>1 DEF Panel!NoDisplays, Panel!NoSerial
<1>2. <<>> \in Seq(Session)
  OBVIOUS
<1>3. CASE view = "visible" /\ platform # None /\ loaded = "yes"
  <2>1. page' = [html |-> page.html, status |-> st, ui |-> None, serial |-> <<>>]
    BY <1>3, PageFacts DEF Panel!Posted, Panel!ClearedPage, Panel!StatusShown, Panel!Bundle
  <2>2. ViewType'
    <3>1. page' \in PageType
      BY <1>2, <2>1, PageFacts DEF PageType
    <3> QED
      BY <1>1, <3>1 DEF ViewInv, ViewType
  <2>3. \/ IdleOn(page', view', platform', loaded')
        \/ /\ view' = "visible" /\ loaded' = "yes" /\ page'.html = platform'
           /\ platform' \in Platform
           /\ page'.status = status' /\ page'.ui = ui'[platform']
           /\ page'.serial = serial'[platform']
    BY <1>1, <1>3, <2>1, PageFacts DEF IdleOn
  <2>4. ViewInv'
    BY <2>2, <2>3, PageInvStep
  <2> QED
    BY <2>1, <2>4
<1>4. CASE view = "visible" /\ ~(platform # None /\ loaded = "yes")
  <2>1. \/ page' = page
        \/ page' = [html |-> page.html, status |-> st, ui |-> page.ui, serial |-> page.serial]
    BY <1>4, PageFacts DEF Panel!Posted, Panel!ClearedPage, Panel!StatusShown, Panel!Bundle
  <2>2. page.html \notin Platform /\ page.ui = None /\ page.serial = <<>>
    BY <1>4, PageFacts
  <2>3. ViewType'
    <3>1. page' \in PageType
      BY <2>1, PageFacts DEF PageType
    <3> QED
      BY <1>1, <3>1 DEF ViewInv, ViewType
  <2>4. IdleOn(page', view', platform', loaded')
    BY <1>4, <2>1, <2>2 DEF IdleOn
  <2>5. ViewInv'
    BY <2>3, <2>4, PageInvStep
  <2> QED
    BY <1>4, <2>1, <2>2, <2>5
<1>5. CASE view # "visible"
  <2>1. page' = page
    BY <1>5 DEF Panel!Posted
  <2>2. ViewType'
    BY <1>1, <2>1 DEF ViewInv, ViewType
  <2>3. view' # "visible" /\ page' = Panel!BlankPage
    BY <1>5, <2>1, PageFacts
  <2>4. ViewInv'
    BY <2>2, <2>3, PageInvStep
  <2>5. page'.ui = None /\ page'.serial = <<>>
    BY <2>3, BlankPageType
  <2> QED
    BY <2>4, <2>5
<1> QED
  BY <1>3, <1>4, <1>5

(* What a page may show of displays and texts: what it showed, what the    *)
(* host keeps for a platform, or nothing.                                  *)
Shows(pg) ==
  /\ \/ pg.ui = page.ui \/ pg.ui = None
     \/ \E p \in Platform : pg.ui = ui[p]
  /\ \/ pg.serial = page.serial \/ pg.serial = <<>>
     \/ \E p \in Platform : pg.serial = serial[p]

(* A rendered page on the screen.                                          *)
LEMMA RenderedStep ==
  ASSUME ViewInv, NEW p \in Platform \cup {None}, NEW rehydrate \in BOOLEAN,
         page' = Panel!Rendered(p, status, ui, rehydrate, loaded'),
         platform' = p, view' = "visible", loaded' \in {"no", "loading", "yes"},
         current' \in Session \cup {None},
         rehydrate \/ platform' = platform,
         loaded = "yes" => loaded' = "yes",
         UNCHANGED <<status, ui, serial>>
  PROVE  ViewInv' /\ Shows(page')
<1>1. /\ page' \in PageType
      /\ \/ /\ p \in Platform /\ loaded' = "yes"
            /\ page' = [html |-> p, status |-> status, ui |-> ui[p], serial |-> serial[p]]
         \/ /\ page'.html = Panel!IdlePage /\ page'.ui = None /\ page'.serial = <<>>
            /\ p = None \/ loaded' # "yes"
         \/ page' = page /\ (p = None \/ loaded' # "yes") /\ ~rehydrate
  BY RenderedPages
<1>2. ViewType'
  BY <1>1 DEF ViewInv, ViewType
<1>3. Shows(page')
  BY <1>1 DEF Shows
<1>4. \/ IdleOn(page', view', platform', loaded')
      \/ /\ view' = "visible" /\ loaded' = "yes" /\ page'.html = platform'
         /\ platform' \in Platform
         /\ page'.status = status' /\ page'.ui = ui'[platform']
         /\ page'.serial = serial'[platform']
  <2>1. CASE /\ p \in Platform /\ loaded' = "yes"
             /\ page' = [html |-> p, status |-> status, ui |-> ui[p], serial |-> serial[p]]
    BY <2>1
  <2>2. CASE /\ page'.html = Panel!IdlePage /\ page'.ui = None /\ page'.serial = <<>>
             /\ p = None \/ loaded' # "yes"
    BY <2>2, HostAssumption DEF IdleOn
  <2>3. CASE page' = page /\ (p = None \/ loaded' # "yes") /\ ~rehydrate
    <3>1. page.html \notin Platform /\ page.ui = None /\ page.serial = <<>>
      <4>1. CASE view = "visible"
        BY <2>3, <4>1, PageFacts
      <4>2. CASE view # "visible"
        BY <4>2, PageFacts, BlankPageType
      <4> QED
        BY <4>1, <4>2
    <3> QED
      BY <2>3, <3>1 DEF IdleOn
  <2> QED
    BY <1>1, <2>1, <2>2, <2>3
<1> QED
  BY <1>2, <1>3, <1>4, PageInvStep

(* A page that is blank because it left the screen.                        *)
LEMMA BlankStep ==
  ASSUME ViewInv, page' = Panel!BlankPage, ViewType',
         view' # "visible" \/ loaded' # "yes" \/ platform' = None
  PROVE  ViewInv' /\ Shows(page')
<1>1. \/ view' # "visible" /\ page' = Panel!BlankPage
      \/ IdleOn(page', view', platform', loaded')
  BY BlankPageType, HostAssumption DEF IdleOn
<1>2. Shows(page')
  BY BlankPageType DEF Shows
<1> QED
  BY <1>1, <1>2, PageInvStep

(* A new platform renders the page again from the state the host keeps.    *)
LEMMA SetPlatformStep ==
  ASSUME ViewInv, NEW s \in Session, NEW p \in Platform, Panel!SetPlatform(s, p)
  PROVE  ViewInv' /\ Shows(page')
<1>1. /\ platform' = p /\ current' = s
      /\ page' = Panel!Posted(Panel!Rendered(p, status, ui, TRUE, loaded))
      /\ UNCHANGED <<status, ui, serial, loaded, view>>
  BY DEF Panel!SetPlatform, Panel!RenderCurrentView
<1>2. loaded \in {"no", "loading", "yes"}
  BY DEF ViewInv, ViewType
<1>3. CASE view = "visible"
  BY <1>1, <1>2, <1>3, RenderedStep DEF Panel!Posted
<1>4. CASE view # "visible"
  <2>1. page' = Panel!BlankPage
    BY <1>1, <1>4, PageFacts DEF Panel!Posted
  <2>2. ViewType'
    BY <1>1, <2>1, BlankPageType DEF ViewInv, ViewType
  <2> QED
    BY <1>1, <1>4, <2>1, <2>2, BlankStep
<1> QED
  BY <1>3, <1>4

(* The handlers of the session events.                                     *)
LEMMA OnStartedStep ==
  ASSUME ViewInv, Panel!OnStarted
  PROVE  /\ ViewInv' /\ current' = current
         /\ ui' = Panel!NoDisplays /\ serial' = Panel!NoSerial
         /\ page'.ui = None /\ page'.serial = <<>>
<1>1. "starting" \in Panel!Status /\ current \in Session \cup {None}
  BY DEF Panel!Status, ViewInv, ViewType
<1> QED
  BY <1>1, ClearedStep DEF Panel!OnStarted

(* The end of the session shown clears its displays and its text; the end  *)
(* of another leaves the panel as it is.                                   *)
LEMMA OnSessionTerminatedStep ==
  ASSUME ViewInv, NEW s \in Session, Panel!OnSessionTerminated(s)
  PROVE  /\ ViewInv'
         /\ \/ UNCHANGED viewVars /\ current # s
            \/ /\ current = s /\ current' = None
               /\ ui' = Panel!NoDisplays /\ serial' = Panel!NoSerial
               /\ page'.ui = None /\ page'.serial = <<>>
<1>1. CASE current = s
  <2>1. "not running" \in Panel!Status
    BY DEF Panel!Status
  <2> QED
    BY <1>1, <2>1, ClearedStep DEF Panel!OnSessionTerminated, Panel!Follows
<1>2. CASE current # s
  <2>1. UNCHANGED viewVars
    BY <1>2 DEF Panel!OnSessionTerminated, Panel!Follows, Panel!viewVars, viewVars
  <2>2. ViewInv'
    BY <2>1 DEF ViewInv, ViewType, PageInv, Panel!PageShowsHostState, viewVars
  <2> QED
    BY <1>2, <2>1, <2>2
<1> QED
  BY <1>1, <1>2

(* A display update brings in its own session's picture and nobody else's. *)
LEMMA UpdateStep ==
  ASSUME ViewInv, NEW s \in Session, NEW p \in Platform, Panel!Update(s, p)
  PROVE  /\ ViewInv' /\ serial' = serial /\ page'.serial = page.serial /\ current' = current
         /\ page'.ui \in {page.ui, s} /\ \A q \in Platform : ui'[q] \in {ui[q], s}
<1>0. /\ UNCHANGED <<status, current, platform, serial, loaded, view>>
      /\ ui \in [Platform -> Session \cup {None}]
  BY DEF Panel!Update, ViewInv, ViewType
<1>1. CASE platform = p /\ loaded = "yes" /\ ui' = [ui EXCEPT ![p] = s] /\ view = "visible"
            /\ page' = [page EXCEPT !.ui = s]
  <2>1. page' = [html |-> page.html, status |-> page.status, ui |-> s, serial |-> page.serial]
    BY <1>1, PageFacts
  <2>2. page.html = platform
    BY <1>1, PageFacts DEF ViewInv, PageInv
  <2>3. ViewType'
    <3>1. page' \in PageType
      BY <2>1, PageFacts DEF PageType
    <3>2. ui' \in [Platform -> Session \cup {None}]
      BY <1>0, <1>1
    <3> QED
      BY <1>0, <3>1, <3>2 DEF ViewInv, ViewType
  <2>4. /\ view' = "visible" /\ loaded' = "yes" /\ page'.html = platform'
        /\ platform' \in Platform
        /\ page'.status = status' /\ page'.ui = ui'[platform']
        /\ page'.serial = serial'[platform']
    BY <1>0, <1>1, <2>1, <2>2, PageFacts
  <2>5. ViewInv'
    BY <2>3, <2>4, PageInvStep
  <2> QED
    BY <1>0, <1>1, <2>1, <2>5
<1>2. CASE ui' = [ui EXCEPT ![p] = s] /\ view # "visible" /\ page' = page
  <2>1. ui' \in [Platform -> Session \cup {None}]
    BY <1>0, <1>2
  <2>2. ViewInv'
    BY <1>0, <1>2, <2>1 DEF ViewInv, ViewType, PageInv, Panel!PageShowsHostState
  <2> QED
    BY <1>0, <1>2, <2>2
<1>3. CASE ui' = ui /\ page' = page
  <2>1. ViewInv'
    BY <1>0, <1>3 DEF ViewInv, ViewType, PageInv, Panel!PageShowsHostState
  <2> QED
    BY <1>0, <1>3, <2>1
<1> QED
  BY <1>1, <1>2, <1>3 DEF Panel!Update, Panel!Posted, Panel!Bundle

(* The text t with the characters in it replaced by text u, or s added.    *)
Adds(u, t, s) == \A i \in DOMAIN u : u[i] = s \/ \E j \in DOMAIN t : u[i] = t[j]

(* Serial text brings in its own session's text and nobody else's.         *)
LEMMA AppendSerialStep ==
  ASSUME ViewInv, NEW s \in Session, NEW p \in Platform, Panel!AppendSerial(s, p)
  PROVE  /\ ViewInv' /\ ui' = ui /\ page'.ui = page.ui /\ current' = current
         /\ Adds(page'.serial, page.serial, s)
         /\ \A q \in Platform : Adds(serial'[q], serial[q], s)
<1>0. /\ UNCHANGED <<status, current, platform, ui, loaded, view>>
      /\ serial \in [Platform -> SerialText]
  BY DEF Panel!AppendSerial, ViewInv, ViewType
<1> DEFINE text == Panel!AppendSerialText(serial[p], s)
           shownText == IF Len(page.serial) < MaxSerial
                          THEN Append(page.serial, s) ELSE Append(Tail(page.serial), s)
<1>1. /\ text \in SerialText /\ Adds(text, serial[p], s)
      /\ text = IF Len(serial[p]) < MaxSerial THEN Append(serial[p], s)
                                              ELSE Append(Tail(serial[p]), s)
  BY <1>0, AppendSerialTextType DEF Adds
<1>2. \A t : Adds(t, t, s)
  BY DEF Adds
<1>3. text \in Seq(Session)
  BY <1>1 DEF SerialText
<1>4. CASE platform = p /\ loaded = "yes" /\ view = "visible"
           /\ serial' = [serial EXCEPT ![p] = text]
           /\ page' = [page EXCEPT !.serial = shownText]
  <2>1. page.html = platform /\ page.serial = serial[p]
    BY <1>4, PageFacts DEF ViewInv, PageInv, Panel!PageShowsHostState
  <2>2. shownText = text
    BY <1>1, <2>1
  <2> HIDE DEF text, shownText
  <2>3. page' = [html |-> page.html, status |-> page.status, ui |-> page.ui, serial |-> text]
    BY <1>4, <2>2, PageFacts
  <2>4. ViewType'
    <3>1. page' \in PageType
      BY <1>3, <2>3, PageFacts DEF PageType
    <3>2. serial' \in [Platform -> SerialText]
      BY <1>0, <1>1, <1>4
    <3> QED
      BY <1>0, <3>1, <3>2 DEF ViewInv, ViewType
  <2>5. /\ view' = "visible" /\ loaded' = "yes" /\ page'.html = platform'
        /\ platform' \in Platform
        /\ page'.status = status' /\ page'.ui = ui'[platform']
        /\ page'.serial = serial'[platform']
    BY <1>0, <1>4, <2>1, <2>3, PageFacts
  <2>6. ViewInv'
    BY <2>4, <2>5, PageInvStep
  <2>7. \A q \in Platform : serial'[q] = IF q = p THEN text ELSE serial[q]
    BY <1>0, <1>4
  <2> QED
    BY <1>0, <1>1, <1>2, <2>1, <2>3, <2>6, <2>7
<1>5. CASE serial' = [serial EXCEPT ![p] = text] /\ page' = page
           /\ (view # "visible" \/ platform # p)
  <2> HIDE DEF text, shownText
  <2>1. serial' \in [Platform -> SerialText]
    BY <1>0, <1>1, <1>5
  <2>2. ViewInv'
    BY <1>0, <1>5, <2>1 DEF ViewInv, ViewType, PageInv, Panel!PageShowsHostState
  <2>3. \A q \in Platform : serial'[q] = IF q = p THEN text ELSE serial[q]
    BY <1>0, <1>5
  <2> QED
    BY <1>0, <1>1, <1>2, <1>5, <2>2, <2>3
<1>6. CASE serial' = serial /\ page' = page
  <2>1. ViewInv'
    BY <1>0, <1>6 DEF ViewInv, ViewType, PageInv, Panel!PageShowsHostState
  <2> QED
    BY <1>0, <1>2, <1>6, <2>1
<1> QED
  BY <1>4, <1>5, <1>6 DEF Panel!AppendSerial, Panel!Posted, Panel!Bundle

(* What the user and VS Code do to the panel.                              *)
LEMMA ViewNextStep ==
  ASSUME ViewInv, Panel!ViewNext
  PROVE  /\ ViewInv' /\ Shows(page') /\ ui' = ui /\ current' = current
         /\ \A p \in Platform : serial'[p] \in {serial[p], <<>>}
<1>0. /\ loaded \in {"no", "loading", "yes"} /\ platform \in Platform \cup {None}
      /\ current \in Session \cup {None} /\ serial \in [Platform -> SerialText]
      /\ view \in {"none", "hidden", "visible"}
  BY DEF ViewInv, ViewType
<1>1. CASE Panel!ResolveWebviewView
  <2>1. /\ view = "none" /\ view' = "visible"
        /\ loaded' = IF loaded = "no" THEN "loading" ELSE loaded
        /\ page' = IF loaded = "yes" THEN Panel!Rendered(platform, status, ui, FALSE, loaded)
                                     ELSE Panel!BlankPage
        /\ UNCHANGED <<status, current, platform, ui, serial>>
    BY <1>1 DEF Panel!ResolveWebviewView
  <2>2. CASE loaded = "yes"
    BY <1>0, <2>1, <2>2, RenderedStep
  <2>3. CASE loaded # "yes"
    <3>1. loaded' \in {"no", "loading", "yes"} /\ loaded' # "yes"
      BY <1>0, <2>1, <2>3
    <3>2. ViewType'
      BY <2>1, <2>3, <3>1, BlankPageType DEF ViewInv, ViewType
    <3> QED
      BY <2>1, <2>3, <3>1, <3>2, BlankStep
  <2> QED
    BY <2>1, <2>2, <2>3
<1>2. CASE Panel!ModulesLoaded
  <2>1. /\ loaded' = "yes"
        /\ page' = Panel!Posted(Panel!Rendered(platform, status, ui, FALSE, "yes"))
        /\ UNCHANGED <<status, current, platform, ui, serial, view>>
    BY <1>2 DEF Panel!ModulesLoaded
  <2>2. CASE view = "visible"
    BY <1>0, <2>1, <2>2, RenderedStep DEF Panel!Posted
  <2>3. CASE view # "visible"
    <3>1. page' = Panel!BlankPage
      BY <2>1, <2>3, PageFacts DEF Panel!Posted
    <3>2. ViewType'
      BY <2>1, <3>1, BlankPageType DEF ViewInv, ViewType
    <3> QED
      BY <2>1, <2>3, <3>1, <3>2, BlankStep
  <2> QED
    BY <2>1, <2>2, <2>3
<1>3. CASE Panel!Hide \/ Panel!DisposeView
  <2>1. /\ view' \in {"none", "hidden"} /\ page' = Panel!BlankPage
        /\ UNCHANGED <<status, current, platform, ui, serial, loaded>>
    BY <1>3 DEF Panel!Hide, Panel!DisposeView
  <2>2. ViewType'
    BY <2>1, BlankPageType DEF ViewInv, ViewType
  <2> QED
    BY <2>1, <2>2, BlankStep
<1>4. CASE Panel!Show
  <2>1. /\ view' = "visible" /\ page' = Panel!Rendered(platform, status, ui, TRUE, loaded)
        /\ UNCHANGED <<status, current, platform, ui, serial, loaded>>
    BY <1>4 DEF Panel!Show
  <2> QED
    BY <1>0, <2>1, RenderedStep
<1>5. CASE Panel!ClearSerial
  <2>1. /\ view = "visible" /\ page.html \in Platform
        /\ page' = [page EXCEPT !.serial = <<>>]
        /\ serial' = [serial EXCEPT ![platform] = <<>>]
        /\ UNCHANGED <<status, current, platform, ui, loaded, view>>
    BY <1>5 DEF Panel!ClearSerial
  <2>2. /\ page.html = platform /\ loaded = "yes" /\ page.status = status
        /\ page.ui = ui[platform] /\ platform \in Platform
    BY <2>1, PageFacts
  <2>3. page' = [html |-> page.html, status |-> page.status, ui |-> page.ui, serial |-> <<>>]
    BY <2>1, PageFacts
  <2>4. <<>> \in Seq(Session) /\ <<>> \in SerialText
    BY HostAssumption DEF SerialText
  <2>5. page' \in PageType
    BY <2>3, <2>4, PageFacts DEF PageType
  <2>6. serial' \in [Platform -> SerialText] /\ serial'[platform] = <<>>
        /\ \A p \in Platform : serial'[p] \in {serial[p], <<>>}
    BY <1>0, <2>1, <2>2, <2>4
  <2>7. ViewType'
    BY <2>1, <2>5, <2>6 DEF ViewInv, ViewType
  <2>8. /\ view' = "visible" /\ loaded' = "yes" /\ page'.html = platform'
        /\ platform' \in Platform
        /\ page'.status = status' /\ page'.ui = ui'[platform']
        /\ page'.serial = serial'[platform']
    BY <2>1, <2>2, <2>3, <2>6
  <2>9. ViewInv'
    BY <2>7, <2>8, PageInvStep
  <2>10. Shows(page')
    BY <2>3 DEF Shows
  <2> QED
    BY <2>1, <2>6, <2>9, <2>10
<1>6. ASSUME NEW p \in Platform, Panel!SelectPlatform(p)
      PROVE  /\ ViewInv' /\ Shows(page') /\ ui' = ui /\ current' = current
             /\ \A q \in Platform : serial'[q] \in {serial[q], <<>>}
  <2>1. /\ view' = "visible" /\ platform' = p
        /\ page' = Panel!Rendered(p, status, ui, TRUE, loaded)
        /\ UNCHANGED <<status, current, ui, serial, loaded>>
    BY <1>6 DEF Panel!SelectPlatform
  <2> QED
    BY <1>0, <2>1, RenderedStep
<1> QED
  BY <1>1, <1>2, <1>3, <1>4, <1>5, <1>6 DEF Panel!ViewNext

(* What leaves the panel alone keeps its invariant.                        *)
LEMMA ViewUnchanged ==
  ASSUME ViewInv, UNCHANGED viewVars PROVE ViewInv'
BY DEF ViewInv, ViewType, PageInv, Panel!PageShowsHostState, viewVars

(* A step of the host either leaves the panel alone or is one of its       *)
(* handlers'.                                                              *)
LEMMA PanelSteps ==
  ASSUME [Next]_vars
  PROVE  \/ UNCHANGED viewVars
         \/ focus = "panel" /\ Panel!ViewNext
         \/ \E s \in Session :
              \/ HandleDebugSessionStarted(s) \/ HandleDebugSessionTerminated(s)
              \/ HandlePlatformEvent(s) \/ HandleSessionStatusEvent(s)
              \/ HandleUpdateEvent(s) \/ HandleSerialEvent(s)
              \/ HandleTerminalOutputEvent(s) /\ sessionPlatforms[s] = Simple /\ focus = "panel"
<1>1. CASE UNCHANGED vars
  BY <1>1 DEF vars, viewVars
<1>2. CASE ActiveChanges \/ Save \/ TerminalStep
  BY <1>2 DEF ActiveChanges, Save, TerminalStep
<1>3. CASE PanelStep
  BY <1>3 DEF PanelStep
<1>4. ASSUME NEW s \in Session, SessionStep(s)
      PROVE  \/ UNCHANGED viewVars
             \/ HandleDebugSessionStarted(s) \/ HandleDebugSessionTerminated(s)
             \/ HandlePlatformEvent(s) \/ HandleSessionStatusEvent(s)
             \/ HandleUpdateEvent(s) \/ HandleSerialEvent(s)
             \/ HandleTerminalOutputEvent(s) /\ sessionPlatforms[s] = Simple /\ focus = "panel"
  <2>1. CASE HandleTerminalOutputEvent(s)
    BY <2>1 DEF HandleTerminalOutputEvent
  <2>2. CASE BeginSession(s) \/ LaunchCompletes(s) \/ EndSession(s)
             \/ TimerFires(s) \/ AdapterAnswers(s) \/ ReceiveAnswer(s)
    BY <2>2 DEF BeginSession, LaunchCompletes, EndSession, TimerFires, AdapterAnswers, ReceiveAnswer
  <2> QED
    BY <1>4, <2>1, <2>2 DEF SessionStep
<1> QED
  BY <1>1, <1>2, <1>3, <1>4 DEF Next

(* Every step of the host keeps what the page shows.                       *)
LEMMA ViewStepInv ==
  ASSUME ViewInv, [Next]_vars PROVE ViewInv'
<1>1. CASE UNCHANGED viewVars
  BY <1>1, ViewUnchanged
<1>2. CASE Panel!ViewNext
  BY <1>2, ViewNextStep
<1>3. ASSUME NEW s \in Session, HandleDebugSessionStarted(s) PROVE ViewInv'
  BY <1>3, OnStartedStep DEF HandleDebugSessionStarted
<1>4. ASSUME NEW s \in Session, HandleDebugSessionTerminated(s) PROVE ViewInv'
  BY <1>4, OnSessionTerminatedStep DEF HandleDebugSessionTerminated
<1>5. ASSUME NEW s \in Session, HandlePlatformEvent(s) PROVE ViewInv'
  BY <1>5, SetPlatformStep DEF HandlePlatformEvent
<1>6. ASSUME NEW s \in Session, HandleSessionStatusEvent(s) PROVE ViewInv'
  BY <1>6, SetSessionStatusStep DEF HandleSessionStatusEvent, Panel!Status
<1>7. ASSUME NEW s \in Session, HandleUpdateEvent(s) PROVE ViewInv'
  BY <1>7, UpdateStep DEF HandleUpdateEvent
<1>8. ASSUME NEW s \in Session, HandleSerialEvent(s) PROVE ViewInv'
  BY <1>8, AppendSerialStep DEF HandleSerialEvent
<1>9. ASSUME NEW s \in Session, HandleTerminalOutputEvent(s), sessionPlatforms[s] = Simple
      PROVE  ViewInv'
  BY <1>9, AppendSerialStep, HostAssumption DEF HandleTerminalOutputEvent
<1> QED
  BY <1>1, <1>2, <1>3, <1>4, <1>5, <1>6, <1>7, <1>8, <1>9, PanelSteps

(* There is a page only while the view is on the screen; once loaded it is *)
(* the provider's platform's and shows what is kept for it, and one that   *)
(* is not a platform's shows nothing                                       *)
(* (platform-view-provider.ts:264-280, 296-338).                           *)
THEOREM ViewInvariant == Spec => []ViewInv
<1>1. Init => ViewInv
  BY ViewInitInv
<1>2. ViewInv /\ [Next]_vars => ViewInv'
  BY ViewStepInv
<1> QED
  BY <1>1, <1>2, PTL DEF Spec

(* However the panel is hidden, shown, disposed, cleared and given another *)
(* platform between the messages of any number of sessions, a page on the  *)
(* screen shows what the host keeps for its platform                       *)
(* (platform-view-provider.ts:264-280, 296-338).                           *)
THEOREM PageShowsState == Spec => []PageShowsHostState
<1>1. ViewInv => PageShowsHostState
  BY DEF ViewInv, PageShowsHostState
<1> QED
  BY <1>1, ViewInvariant, PTL

-----------------------------------------------------------------------------
\* Nothing of an ended session stays in the panel.

(* All the panel keeps and shows comes from the sessions in H.             *)
From(H) ==
  /\ \A p \in Platform : ui[p] \in H \cup {None} /\ \A i \in DOMAIN serial[p] : serial[p][i] \in H
  /\ page.ui \in H \cup {None} /\ \A i \in DOMAIN page.serial : page.serial[i] \in H

Heard == {s \in Alive : launch[s] = "ready"}

(* With one session at a time: only a session whose launch is complete     *)
(* sends something to show, and by then the panel follows it.              *)
FollowInv ==
  /\ life \in [Session -> {"new", "live", "ended", "gone"}]
  /\ launch \in [Session -> {"building", "platform", "ready"}]
  /\ \A s \in Session : life[s] = "new" => launch[s] = "building"
  /\ IF focus = "panel"
       THEN /\ \A s, t \in Alive : s = t
            /\ \A s \in Alive : launch[s] = "building" \/ current = s
            /\ From(Heard)
       ELSE From({})

(* The panel shows no more sessions' data in a larger set.                 *)
LEMMA FromMonotone ==
  ASSUME NEW H, NEW K, H \subseteq K, From(H) PROVE From(K)
BY DEF From

(* A cleared panel shows nobody.                                           *)
LEMMA FromCleared ==
  ASSUME NEW H, ui' = Panel!NoDisplays, serial' = Panel!NoSerial,
         page'.ui = None, page'.serial = <<>>
  PROVE  From(H)'
BY DEF From, Panel!NoDisplays, Panel!NoSerial

(* Rendering again shows nobody new.                                       *)
LEMMA FromShown ==
  ASSUME NEW H, From(H), Shows(page'), ui' = ui,
         \A p \in Platform : serial'[p] \in {serial[p], <<>>}
  PROVE  From(H)'
BY DEF From, Shows

(* A panel left alone shows nobody new.                                    *)
LEMMA FromUnchanged ==
  ASSUME NEW H, From(H), UNCHANGED viewVars PROVE From(H)'
BY DEF From, viewVars

(* No session is alive when another begins.                                *)
LEMMA NobodyAlive ==
  ASSUME \A s, t \in Alive : s = t, Cardinality(Alive) < MaxAlive["panel"],
         MaxAlive["panel"] <= 1
  PROVE  Alive = {}
<1> SUFFICES ASSUME NEW s \in Alive PROVE FALSE
  OBVIOUS
<1>1. Alive = {s}
  OBVIOUS
<1>2. Cardinality(Alive) = 1
  BY <1>1, FS_Singleton
<1>3. MaxAlive["panel"] \in Nat
  BY HostAssumption
<1> QED
  BY <1>2, <1>3

(* At first nobody is shown.                                               *)
LEMMA FollowInitInv == Init => FollowInv
<1> SUFFICES ASSUME Init PROVE FollowInv
  OBVIOUS
<1>1. From({})
  <2>1. /\ page.ui = None /\ page.serial = <<>>
        /\ \A p \in Platform : ui[p] = None /\ serial[p] = <<>>
    BY DEF Init, Panel!ViewInit, Panel!BlankPage, Panel!FreshPage
  <2> QED
    BY <2>1 DEF From
<1>2. Alive = {}
  BY DEF Init, Alive
<1>3. From(Heard)
  BY <1>1, <1>2 DEF Heard
<1> QED
  BY <1>1, <1>2, <1>3 DEF Init, FollowInv

(* A step of the sessions that touches neither the panel nor who has       *)
(* completed the launch.                                                   *)
LEMMA FollowKept ==
  ASSUME FollowInv, UNCHANGED <<life, launch, focus>>, current' = current,
         \A H \in {{}, Heard} : From(H) => From(H)'
  PROVE  FollowInv'
<1>1. Alive' = Alive /\ Heard' = Heard
  BY DEF Alive, Heard
<1>2. CASE focus = "panel"
  BY <1>1, <1>2 DEF FollowInv
<1>3. CASE focus # "panel"
  BY <1>3 DEF FollowInv
<1> QED
  BY <1>2, <1>3

(* A session that begins is the only one alive; the panel may still show   *)
(* an earlier one, which has ended.                                        *)
LEMMA FollowBeginSession ==
  ASSUME FollowInv, NEW s \in Session, BeginSession(s), MaxAlive["panel"] <= 1
  PROVE  FollowInv'
<1>1. /\ life[s] = "new" /\ life' = [life EXCEPT ![s] = "live"]
      /\ Cardinality(Alive) < MaxAlive[focus]
      /\ UNCHANGED <<launch, focus>> /\ UNCHANGED viewVars
  BY DEF BeginSession
<1>2. CASE focus = "panel"
  <2>1. /\ \A r, t \in Alive : r = t
        /\ From(Heard) /\ launch[s] = "building" /\ life \in [Session -> {"new", "live", "ended", "gone"}]
    BY <1>1, <1>2 DEF FollowInv
  <2>2. Alive = {}
    BY <1>1, <1>2, <2>1, NobodyAlive
  <2>3. Alive' = {s}
    BY <1>1, <2>1, <2>2 DEF Alive
  <2>4. Heard = {} /\ Heard' = {}
    BY <1>1, <2>1, <2>2, <2>3 DEF Heard
  <2>5. From({})'
    BY <1>1, <2>1, <2>4, FromUnchanged
  <2>6. From(Heard)'
    BY <2>4, <2>5
  <2> QED
    BY <1>1, <1>2, <2>1, <2>3, <2>6 DEF FollowInv
<1>3. CASE focus # "panel"
  <2>1. From({})'
    BY <1>1, <1>3, FromUnchanged DEF FollowInv
  <2> QED
    BY <1>1, <1>3, <2>1 DEF FollowInv
<1> QED
  BY <1>2, <1>3

(* The end of a launch leaves the panel alone.                             *)
LEMMA FollowLaunchCompletes ==
  ASSUME FollowInv, NEW s \in Session, LaunchCompletes(s) PROVE FollowInv'
<1>1. /\ life[s] = "live" /\ launch[s] = "platform" /\ launch' = [launch EXCEPT ![s] = "ready"]
      /\ UNCHANGED <<life, focus>> /\ UNCHANGED viewVars
      /\ launch \in [Session -> {"building", "platform", "ready"}]
  BY DEF LaunchCompletes, FollowInv
<1>2. CASE focus = "panel"
  <2>1. /\ \A r, t \in Alive : r = t
        /\ \A r \in Alive : launch[r] = "building" \/ current = r
        /\ From(Heard)
    BY <1>2 DEF FollowInv
  <2>2. Alive' = Alive /\ s \in Alive
    BY <1>1 DEF Alive
  <2>3. Heard \subseteq Heard'
    BY <1>1, <2>2 DEF Heard
  <2>4. From(Heard')
    BY <2>1, <2>3, FromMonotone
  <2>5. From(Heard)'
    BY <1>1, <2>4 DEF From, viewVars
  <2>6. \A r \in Alive' : launch'[r] = "building" \/ current' = r
    BY <1>1, <2>1, <2>2 DEF viewVars
  <2> QED
    BY <1>1, <1>2, <2>1, <2>2, <2>5, <2>6 DEF FollowInv
<1>3. CASE focus # "panel"
  <2>1. From({})'
    BY <1>1, <1>3, FromUnchanged DEF FollowInv
  <2> QED
    BY <1>1, <1>3, <2>1 DEF FollowInv
<1> QED
  BY <1>2, <1>3

(* A session that ends stays alive until the host is told.                 *)
LEMMA FollowEndSession ==
  ASSUME FollowInv, NEW s \in Session, EndSession(s) PROVE FollowInv'
<1>1. /\ life[s] = "live" /\ life' = [life EXCEPT ![s] = "ended"]
      /\ UNCHANGED <<launch, focus>> /\ UNCHANGED viewVars
      /\ life \in [Session -> {"new", "live", "ended", "gone"}]
  BY DEF EndSession, FollowInv
<1>2. Alive' = Alive
  BY <1>1 DEF Alive
<1>3. Heard' = Heard /\ current' = current
  BY <1>1, <1>2 DEF Heard, viewVars
<1>4. \A H : From(H) => From(H)'
  BY <1>1, FromUnchanged
<1> QED
  BY <1>1, <1>2, <1>3, <1>4 DEF FollowInv

(* Being told of the end clears the panel of that session.                 *)
LEMMA FollowTerminated ==
  ASSUME FollowInv, ViewInv, NEW s \in Session, HandleDebugSessionTerminated(s)
  PROVE  FollowInv'
<1>1. /\ life[s] = "ended" /\ life' = [life EXCEPT ![s] = "gone"]
      /\ UNCHANGED <<launch, focus>>
      /\ life \in [Session -> {"new", "live", "ended", "gone"}]
      /\ \/ UNCHANGED viewVars /\ current # s
         \/ /\ current = s /\ current' = None
            /\ ui' = Panel!NoDisplays /\ serial' = Panel!NoSerial
            /\ page'.ui = None /\ page'.serial = <<>>
  BY OnSessionTerminatedStep DEF HandleDebugSessionTerminated, FollowInv
<1>2. Alive' = Alive \ {s} /\ s \in Alive
  BY <1>1 DEF Alive
<1>3. \A H : From(H) => From(H)'
  BY <1>1, FromUnchanged, FromCleared
<1>4. CASE focus = "panel"
  <2>1. /\ \A r, t \in Alive : r = t
        /\ \A r \in Alive : launch[r] = "building" \/ current = r
        /\ From(Heard)
    BY <1>4 DEF FollowInv
  <2>2. Alive' = {} /\ Heard' = {}
    BY <1>2, <2>1 DEF Heard
  <2>3. From({})'
    <3>1. CASE UNCHANGED viewVars /\ current # s
      <4>1. Heard = {}
        BY <1>2, <2>1, <3>1 DEF Heard
      <4> QED
        BY <1>3, <2>1, <4>1
    <3>2. CASE /\ ui' = Panel!NoDisplays /\ serial' = Panel!NoSerial
               /\ page'.ui = None /\ page'.serial = <<>>
      BY <3>2, FromCleared
    <3> QED
      BY <1>1, <3>1, <3>2
  <2>4. From(Heard)'
    BY <2>2, <2>3
  <2> QED
    BY <1>1, <1>4, <2>2, <2>4 DEF FollowInv
<1>5. CASE focus # "panel"
  BY <1>1, <1>3, <1>5 DEF FollowInv
<1> QED
  BY <1>4, <1>5

(* The announced platform makes its session the one shown.                 *)
LEMMA FollowPlatformEvent ==
  ASSUME FollowInv, ViewInv, NEW s \in Session, HandlePlatformEvent(s)
  PROVE  FollowInv'
<1>1. PICK p \in Platform : Panel!SetPlatform(s, p)
  BY DEF HandlePlatformEvent
<1>2. /\ life[s] = "live" /\ launch[s] = "building"
      /\ launch' = [launch EXCEPT ![s] = "platform"]
      /\ UNCHANGED <<life, focus>>
      /\ launch \in [Session -> {"building", "platform", "ready"}]
  BY DEF HandlePlatformEvent, FollowInv
<1>3. current' = s /\ ui' = ui /\ serial' = serial /\ Shows(page')
  BY <1>1, SetPlatformStep DEF Panel!SetPlatform
<1>4. Alive' = Alive /\ s \in Alive
  BY <1>2 DEF Alive
<1>5. Heard' = Heard
  BY <1>2, <1>4 DEF Heard
<1>6. \A H : From(H) => From(H)'
  BY <1>3, FromShown
<1>7. CASE focus = "panel"
  <2>1. /\ \A r, t \in Alive : r = t
        /\ From(Heard)
    BY <1>7 DEF FollowInv
  <2>2. \A r \in Alive' : current' = r
    BY <1>3, <1>4, <2>1
  <2>3. From(Heard)'
    BY <1>5, <1>6, <2>1
  <2> QED
    BY <1>2, <1>4, <1>7, <2>1, <2>2, <2>3 DEF FollowInv
<1>8. CASE focus # "panel"
  BY <1>2, <1>6, <1>8 DEF FollowInv
<1> QED
  BY <1>7, <1>8

(* The start of a session clears the panel.                                *)
LEMMA FollowStarted ==
  ASSUME FollowInv, ViewInv, NEW s \in Session, HandleDebugSessionStarted(s)
  PROVE  FollowInv'
<1>1. /\ UNCHANGED <<life, launch, focus>> /\ current' = current
      /\ ui' = Panel!NoDisplays /\ serial' = Panel!NoSerial
      /\ page'.ui = None /\ page'.serial = <<>>
  BY OnStartedStep DEF HandleDebugSessionStarted
<1>2. \A H : From(H)'
  BY <1>1, FromCleared
<1> QED
  BY <1>1, <1>2, FollowKept

(* What a running session sends is its own.                                *)
LEMMA FollowSent ==
  ASSUME FollowInv, focus = "panel", NEW s \in Session, Running(s),
         UNCHANGED <<sessionVars, focus>>, current' = current,
         \/ /\ serial' = serial /\ page'.serial = page.serial
            /\ page'.ui \in {page.ui, s} /\ \A q \in Platform : ui'[q] \in {ui[q], s}
         \/ /\ ui' = ui /\ page'.ui = page.ui
            /\ Adds(page'.serial, page.serial, s)
            /\ \A q \in Platform : Adds(serial'[q], serial[q], s)
  PROVE  FollowInv'
<1>1. /\ UNCHANGED <<life, launch, focus>> /\ From(Heard)
      /\ s \in Heard
  BY DEF sessionVars, Running, FollowInv, Heard, Alive
<1>2. From(Heard)' /\ Heard' = Heard
  <2>1. Heard' = Heard
    BY <1>1 DEF Heard, Alive
  <2>2. /\ \A p \in Platform : ui'[p] \in Heard \cup {None}
        /\ \A p \in Platform : \A i \in DOMAIN serial'[p] : serial'[p][i] \in Heard
        /\ page'.ui \in Heard \cup {None} /\ \A i \in DOMAIN page'.serial : page'.serial[i] \in Heard
    BY <1>1 DEF From, Adds
  <2> QED
    BY <2>1, <2>2 DEF From
<1>3. Alive' = Alive
  BY <1>1 DEF Alive
<1> QED
  BY <1>1, <1>2, <1>3 DEF FollowInv

(* Every step of the host keeps the panel on the one session.              *)
LEMMA FollowStepInv ==
  ASSUME FollowInv, ViewInv, [Next]_vars, MaxAlive["panel"] <= 1
  PROVE  FollowInv'
<1>1. CASE UNCHANGED viewVars /\ UNCHANGED <<life, launch, focus>>
  <2>1. \A H : From(H) => From(H)'
    BY <1>1, FromUnchanged
  <2> QED
    BY <1>1, <2>1, FollowKept DEF viewVars
<1>2. CASE ActiveChanges \/ Save \/ TerminalStep
  BY <1>1, <1>2 DEF ActiveChanges, Save, TerminalStep, sessionVars
<1>3. CASE PanelStep
  <2>1. /\ Shows(page') /\ ui' = ui /\ current' = current
        /\ \A p \in Platform : serial'[p] \in {serial[p], <<>>}
    BY <1>3, ViewNextStep DEF PanelStep
  <2>2. \A H : From(H) => From(H)'
    BY <2>1, FromShown
  <2>3. UNCHANGED <<life, launch, focus>>
    BY <1>3 DEF PanelStep, sessionVars
  <2> QED
    BY <2>1, <2>2, <2>3, FollowKept
<1>4. ASSUME NEW s \in Session, SessionStep(s) PROVE FollowInv'
  <2>1. CASE BeginSession(s)
    BY <2>1, FollowBeginSession
  <2>2. CASE LaunchCompletes(s)
    BY <2>2, FollowLaunchCompletes
  <2>3. CASE EndSession(s)
    BY <2>3, FollowEndSession
  <2>4. CASE HandleDebugSessionStarted(s)
    BY <2>4, FollowStarted
  <2>5. CASE HandleDebugSessionTerminated(s)
    BY <2>5, FollowTerminated
  <2>6. CASE HandlePlatformEvent(s)
    BY <2>6, FollowPlatformEvent
  <2>7. CASE HandleSessionStatusEvent(s)
    <3>1. PICK st \in Panel!Status : Panel!SetSessionStatus(st)
      BY <2>7 DEF HandleSessionStatusEvent, Panel!Status
    <3>2. page'.ui = page.ui /\ page'.serial = page.serial
      <4>1. page' \in {page, [page EXCEPT !.status = st]}
        BY <3>1 DEF Panel!SetSessionStatus, Panel!Posted, Panel!StatusShown
      <4> QED
        BY <4>1, PageFacts
    <3>3. current' = current /\ ui' = ui /\ serial' = serial
      BY <3>1 DEF Panel!SetSessionStatus
    <3>4. \A H : From(H) => From(H)'
      BY <3>2, <3>3 DEF From
    <3>5. UNCHANGED <<life, launch, focus>>
      BY <2>7 DEF HandleSessionStatusEvent, sessionVars
    <3> QED
      BY <3>3, <3>4, <3>5, FollowKept
  <2>8. CASE HandleUpdateEvent(s)
    <3>1. PICK p \in Platform : Panel!Update(s, p)
      BY <2>8 DEF HandleUpdateEvent
    <3>2. Running(s) /\ focus = "panel" /\ UNCHANGED <<sessionVars, focus>>
      BY <2>8 DEF HandleUpdateEvent
    <3> QED
      BY <3>1, <3>2, UpdateStep, FollowSent
  <2>9. CASE \/ HandleSerialEvent(s)
             \/ HandleTerminalOutputEvent(s) /\ sessionPlatforms[s] = Simple
    <3>1. PICK p \in Platform : Panel!AppendSerial(s, p)
      BY <2>9, HostAssumption DEF HandleSerialEvent, HandleTerminalOutputEvent
    <3>2. Running(s) /\ focus = "panel" /\ UNCHANGED <<sessionVars, focus>>
      BY <2>9 DEF HandleSerialEvent, HandleTerminalOutputEvent
    <3> QED
      BY <3>1, <3>2, AppendSerialStep, FollowSent
  <2>10. CASE \/ HandleTerminalOutputEvent(s) /\ sessionPlatforms[s] # Simple
              \/ TimerFires(s) \/ AdapterAnswers(s) \/ ReceiveAnswer(s)
    BY <1>1, <2>10 DEF HandleTerminalOutputEvent, TimerFires, AdapterAnswers, ReceiveAnswer, sessionVars
  <2> QED
    BY <1>4, <2>1, <2>2, <2>3, <2>4, <2>5, <2>6, <2>7, <2>8, <2>9, <2>10 DEF SessionStep
<1>5. CASE UNCHANGED vars
  BY <1>1, <1>5 DEF vars, viewVars, sessionVars
<1> QED
  BY <1>2, <1>3, <1>4, <1>5 DEF Next

(* With one session at a time, what the panel keeps and shows comes from   *)
(* the session that is alive, however its start, platform event, last      *)
(* events and end fall (debug-session-events.ts:92-110, 113-150).          *)
THEOREM FollowsItsSession ==
  ASSUME MaxAlive["panel"] <= 1
  PROVE  Spec => []PanelFollowsItsSession
<1>1. Init => FollowInv /\ ViewInv
  BY FollowInitInv, ViewInitInv
<1>2. FollowInv /\ ViewInv /\ [Next]_vars => FollowInv' /\ ViewInv'
  BY FollowStepInv, ViewStepInv
<1>3. FollowInv => PanelFollowsItsSession
  <2> SUFFICES ASSUME FollowInv PROVE PanelFollowsItsSession
    OBVIOUS
  <2>1. From(Alive)
    BY FromMonotone DEF FollowInv, Heard
  <2> QED
    BY <2>1 DEF From, PanelFollowsItsSession, ToSet
<1> QED
  BY <1>1, <1>2, <1>3, PTL DEF Spec

-----------------------------------------------------------------------------
\* The terminal panel, and types.

Char == Terminal!Char

TerminalType ==
  /\ panel \in BOOLEAN /\ flushTimer \in BOOLEAN /\ refresh \in BOOLEAN
  /\ buffer \in Seq(Char) /\ Len(buffer) <= MaxBuffer
  /\ carry \in Seq(Char) /\ Len(carry) <= MaxEscape
  /\ unsent \in Seq(Char) /\ display \in Seq(Char) /\ stream \in Seq(Char)

(* The open panel shows the buffer but for what is still to be sent to it, *)
(* unless it is to be drawn anew; and without a timer there is nothing to  *)
(* send or draw.                                                           *)
SentInv == panel =>
  /\ ~refresh => buffer = display \o unsent
  /\ ~flushTimer => ~refresh /\ unsent = <<>>

TerminalInv == TerminalType /\ SentInv

(* Nothing has length zero, and adding it changes no text.                 *)
LEMMA EmptyText ==
  /\ <<>> \in Seq(Char) /\ Len(<<>>) = 0 /\ <<>> \o <<>> = <<>>
  /\ \A t \in Seq(Char) : t \o <<>> = t /\ <<>> \o t = t
<1>1. <<>> \in Seq(Char) /\ Len(<<>>) = 0
  BY EmptySeq
<1>2. \A t \in Seq(Char) : t \o <<>> = t /\ <<>> \o t = t
  BY ConcatEmptySeq
<1> QED
  BY <1>1, <1>2

(* A terminal with nothing in it.                                          *)
LEMMA EmptyTerminal ==
  ASSUME panel' \in BOOLEAN, flushTimer' = FALSE, refresh' = FALSE,
         buffer' = <<>>, unsent' = <<>>, display' = <<>>,
         carry' \in Seq(Char), Len(carry') <= MaxEscape, stream' \in Seq(Char)
  PROVE  TerminalInv'
<1>1. buffer' \in Seq(Char) /\ unsent' \in Seq(Char) /\ display' \in Seq(Char)
  BY EmptyText
<1>2. Len(buffer') <= MaxBuffer
  BY EmptyText, HostAssumption
<1>3. TerminalType'
  BY <1>1, <1>2 DEF TerminalType
<1>4. buffer' = display' \o unsent'
  BY EmptyText
<1>5. SentInv'
  BY <1>4 DEF SentInv
<1> QED
  BY <1>3, <1>5 DEF TerminalInv

(* What the filter returns for a character.                                *)
LEMMA FilterType ==
  ASSUME NEW esc \in Seq(Char), Len(esc) <= MaxEscape, NEW c \in Char,
         NEW r, r = Terminal!StripAndDetectClear(esc, c)
  PROVE  /\ r.text \in Seq(Char) /\ r.clear \in BOOLEAN
         /\ r.esc \in Seq(Char) /\ Len(r.esc) <= MaxEscape
<1> DEFINE seen == Append(esc, c)
<1>1. /\ seen \in Seq(Char) /\ Len(seen) = Len(esc) + 1 /\ Len(esc) \in Nat
      /\ <<>> \in Seq(Char) /\ Len(<<>>) = 0
      /\ esc = <<>> <=> Len(seen) = 1
      /\ MaxEscape \in Nat /\ MaxEscape >= 2
  BY EmptyText, EmptySeq, LenProperties, AppendProperties, HostAssumption
<1>2. \/ r = Terminal!Text(seen)
      \/ r = Terminal!Unfinished(seen) /\ Len(seen) <= MaxEscape
      \/ r = [text |-> <<>>, clear |-> c = "J", esc |-> <<>>]
  <2>1. CASE Len(seen) = 1
    BY <1>1, <2>1 DEF Terminal!StripAndDetectClear
  <2>2. CASE Len(seen) = 2
    BY <1>1, <2>2 DEF Terminal!StripAndDetectClear
  <2>3. CASE Len(seen) > 2 /\ c \in Terminal!Final
    BY <1>1, <2>3 DEF Terminal!StripAndDetectClear
  <2>4. CASE Len(seen) > 2 /\ c \notin Terminal!Final
    BY <1>1, <2>4 DEF Terminal!StripAndDetectClear
  <2> QED
    BY <1>1, <2>1, <2>2, <2>3, <2>4
<1> HIDE DEF seen
<1>3. Len(<<>>) <= MaxEscape
  BY <1>1
<1>4. CASE r = Terminal!Text(seen)
  <2>1. r.text = seen /\ r.clear = FALSE /\ r.esc = <<>>
    BY <1>4 DEF Terminal!Text
  <2> QED
    BY <1>1, <1>3, <2>1
<1>5. CASE r = Terminal!Unfinished(seen) /\ Len(seen) <= MaxEscape
  <2>1. r.text = <<>> /\ r.clear = FALSE /\ r.esc = seen
    BY <1>5 DEF Terminal!Unfinished
  <2> QED
    BY <1>1, <1>5, <2>1
<1>6. CASE r = [text |-> <<>>, clear |-> c = "J", esc |-> <<>>]
  <2>1. r.text = <<>> /\ r.clear \in BOOLEAN /\ r.esc = <<>>
    BY <1>6
  <2> QED
    BY <1>1, <1>3, <2>1
<1> QED
  BY <1>2, <1>4, <1>5, <1>6

(* The last characters of a text are a text that fits the buffer, the      *)
(* whole text when it already fits.                                        *)
LEMMA LastOfType ==
  ASSUME NEW t \in Seq(Char)
  PROVE  /\ Terminal!LastOf(MaxBuffer, t) \in Seq(Char)
         /\ Len(Terminal!LastOf(MaxBuffer, t)) <= MaxBuffer
         /\ Len(t) <= MaxBuffer => Terminal!LastOf(MaxBuffer, t) = t
<1>1. /\ MaxBuffer \in Nat \ {0} /\ Len(t) \in Nat
      /\ \A i \in 1..Len(t) : t[i] \in Char
  BY HostAssumption
<1>2. CASE Len(t) <= MaxBuffer
  BY <1>1, <1>2 DEF Terminal!LastOf
<1>3. CASE Len(t) > MaxBuffer
  <2> DEFINE m == Len(t) - MaxBuffer + 1
             n == Len(t)
  <2>1. m \in Int /\ n \in Int /\ m <= n /\ n - m + 1 = MaxBuffer
        /\ \A i \in m..n : t[i] \in Char
    BY <1>1, <1>3
  <2>2. Terminal!LastOf(MaxBuffer, t) = SubSeq(t, m, n)
    BY <1>3 DEF Terminal!LastOf
  <2> HIDE DEF m, n
  <2>3. SubSeq(t, m, n) \in Seq(Char) /\ Len(SubSeq(t, m, n)) = n - m + 1
    BY <2>1, SubSeqProperties
  <2> QED
    BY <1>1, <1>3, <2>1, <2>2, <2>3
<1> QED
  BY <1>1, <1>2, <1>3

(* The terminal starts empty.                                              *)
LEMMA TerminalInitInv == Init => TerminalInv
<1> SUFFICES ASSUME Init PROVE TerminalInv
  OBVIOUS
<1>1. /\ panel = FALSE /\ buffer = <<>> /\ carry = <<>> /\ unsent = <<>>
      /\ flushTimer = FALSE /\ refresh = FALSE /\ display = <<>> /\ stream = <<>>
  BY DEF Init, Terminal!TerminalInit
<1>2. <<>> \in Seq(Char) /\ Len(<<>>) <= MaxBuffer /\ Len(<<>>) <= MaxEscape
  BY EmptyText, HostAssumption
<1> QED
  BY <1>1, <1>2 DEF TerminalInv, TerminalType, SentInv

(* Clearing keeps the panel in step with the buffer.                       *)
LEMMA ClearStep ==
  ASSUME TerminalInv, Terminal!Clear PROVE TerminalInv'
<1>1. /\ buffer' = <<>> /\ carry' = <<>> /\ unsent' = <<>> /\ refresh' = FALSE
      /\ flushTimer' = FALSE /\ display' = <<>> /\ stream' = <<>> /\ panel' \in BOOLEAN
  BY DEF Terminal!Clear, TerminalInv, TerminalType
<1>2. <<>> \in Seq(Char) /\ Len(<<>>) <= MaxEscape
  BY EmptyText, HostAssumption
<1> QED
  BY <1>1, <1>2, EmptyTerminal

(* Output is posted to an open panel or waits for its timer; either way    *)
(* the page will show what the buffer holds.                               *)
LEMMA AppendOutputStep ==
  ASSUME TerminalInv, NEW c \in Char, Terminal!AppendOutput(c) PROVE TerminalInv'
<1> DEFINE r == Terminal!StripAndDetectClear(carry, c)
           kept == buffer \o r.text
           full == Len(kept) > MaxBuffer \/ (refresh /\ panel)
           queued == IF panel THEN unsent ELSE <<>>
           opened == IF panel THEN display ELSE buffer
<1>1. /\ stream' = Append(stream, c) /\ carry' = r.esc /\ panel' = TRUE
      /\ \/ /\ buffer' = <<>> /\ unsent' = <<>> /\ refresh' = FALSE
            /\ flushTimer' = FALSE /\ display' = <<>>
         \/ /\ unsent' = queued /\ refresh' = (refresh /\ panel) /\ display' = opened
            /\ UNCHANGED <<buffer, flushTimer>>
         \/ /\ buffer' = Terminal!LastOf(MaxBuffer, kept)
            /\ refresh' = full /\ unsent' = IF full THEN <<>> ELSE queued \o r.text
            /\ flushTimer' = TRUE /\ display' = opened
  BY DEF Terminal!AppendOutput, Terminal!Overflows, Terminal!Carried
<1>2. TerminalType
  BY DEF TerminalInv
<1>3. /\ r.text \in Seq(Char) /\ r.esc \in Seq(Char) /\ Len(r.esc) <= MaxEscape
  BY <1>2, FilterType DEF TerminalType
<1> DEFINE text == r.text
           e == r.esc
<1>4. /\ queued \in Seq(Char) /\ opened \in Seq(Char)
      /\ ~(refresh /\ panel) => buffer = opened \o queued
      /\ stream' \in Seq(Char) /\ carry' = e /\ panel' = TRUE
      /\ text \in Seq(Char) /\ e \in Seq(Char) /\ Len(e) <= MaxEscape
  <2>1. stream' \in Seq(Char)
    BY <1>1, <1>2, AppendProperties DEF TerminalType
  <2>2. buffer \in Seq(Char) /\ unsent \in Seq(Char) /\ display \in Seq(Char)
        /\ refresh \in BOOLEAN /\ panel \in BOOLEAN
    BY <1>2 DEF TerminalType
  <2>3. CASE panel
    BY <1>1, <1>3, <2>1, <2>2, <2>3 DEF TerminalInv, SentInv
  <2>4. CASE ~panel
    <3>1. queued = <<>> /\ opened = buffer
      BY <2>4
    <3> QED
      BY <1>1, <1>3, <2>1, <2>2, <3>1, EmptyText
  <2> QED
    BY <2>3, <2>4
<1>5. CASE /\ buffer' = <<>> /\ unsent' = <<>> /\ refresh' = FALSE
           /\ flushTimer' = FALSE /\ display' = <<>>
  <2> HIDE DEF e, text, queued, opened
  <2> QED
    BY <1>4, <1>5, EmptyTerminal
<1>6. CASE /\ unsent' = queued /\ refresh' = (refresh /\ panel) /\ display' = opened
           /\ UNCHANGED <<buffer, flushTimer>>
  <2>1. ~flushTimer => ~(refresh /\ panel) /\ queued = <<>>
    BY DEF TerminalInv, SentInv
  <2> HIDE DEF e, text, queued, opened
  <2>2. refresh' \in BOOLEAN /\ (refresh' <=> (refresh /\ panel))
    BY <1>6
  <2>3. TerminalType'
    BY <1>2, <1>4, <1>6, <2>2 DEF TerminalType
  <2>4. SentInv'
    BY <1>4, <1>6, <2>1, <2>2 DEF SentInv
  <2> QED
    BY <2>3, <2>4 DEF TerminalInv
<1>7. CASE /\ buffer' = Terminal!LastOf(MaxBuffer, kept)
           /\ refresh' = full /\ unsent' = IF full THEN <<>> ELSE queued \o text
           /\ flushTimer' = TRUE /\ display' = opened
  <2>1. /\ refresh' \in BOOLEAN
        /\ refresh' <=> (Len(buffer \o text) > MaxBuffer \/ (refresh /\ panel))
        /\ buffer' = Terminal!LastOf(MaxBuffer, buffer \o text)
        /\ unsent' = IF refresh' THEN <<>> ELSE queued \o text
    BY <1>7
  <2> HIDE DEF e, text, queued, opened, kept, full
  <2>2. /\ buffer \in Seq(Char) /\ buffer \o text \in Seq(Char)
        /\ queued \o text \in Seq(Char)
    BY <1>2, <1>4, ConcatProperties DEF TerminalType
  <2>3. /\ buffer' \in Seq(Char) /\ Len(buffer') <= MaxBuffer
        /\ Len(buffer \o text) <= MaxBuffer => buffer' = buffer \o text
    BY <2>1, <2>2, LastOfType
  <2>4. TerminalType'
    BY <1>4, <1>7, <2>1, <2>2, <2>3, EmptyText DEF TerminalType
  <2>5. ~refresh' => buffer' = display' \o unsent'
    <3> SUFFICES ASSUME ~refresh' PROVE buffer' = display' \o unsent'
      OBVIOUS
    <3>1. Len(buffer \o text) \in Nat /\ MaxBuffer \in Nat
      BY <2>2, LenProperties, HostAssumption
    <3>2. buffer' = buffer \o text /\ ~(refresh /\ panel)
      BY <2>1, <2>3, <3>1
    <3>3. buffer = opened \o queued
      BY <1>4, <3>2
    <3>4. (opened \o queued) \o text = opened \o (queued \o text)
      BY <1>4, ConcatAssociative
    <3>5. display' = opened /\ unsent' = queued \o text
      BY <1>7, <2>1
    <3> QED
      BY <3>2, <3>3, <3>4, <3>5, Zenon
  <2> QED
    BY <1>7, <2>4, <2>5 DEF TerminalInv, SentInv
<1> QED
  BY <1>1, <1>5, <1>6, <1>7

(* Every step of the terminal panel keeps its invariant.                   *)
LEMMA TerminalNextStep ==
  ASSUME TerminalInv, Terminal!TerminalNext PROVE TerminalInv'
<1>1. TerminalType
  BY DEF TerminalInv
<1>2. CASE Terminal!Open
  <2>1. /\ panel' = TRUE /\ display' = buffer /\ unsent' = <<>> /\ refresh' = FALSE
        /\ UNCHANGED <<buffer, carry, flushTimer, stream>>
    BY <1>2 DEF Terminal!Open
  <2>2. buffer' = display' \o unsent'
    BY <1>1, <2>1, EmptyText DEF TerminalType
  <2> QED
    BY <1>1, <2>1, <2>2, EmptyText DEF TerminalInv, TerminalType, SentInv
<1>3. CASE Terminal!Dispose
  <2>1. /\ panel' = FALSE /\ flushTimer' = FALSE
        /\ buffer' = <<>> /\ carry' = <<>> /\ unsent' = <<>> /\ refresh' = FALSE
        /\ display' = <<>> /\ stream' = <<>>
    BY <1>3 DEF Terminal!Dispose
  <2>2. <<>> \in Seq(Char) /\ Len(<<>>) <= MaxEscape
    BY EmptyText, HostAssumption
  <2> QED
    BY <2>1, <2>2, EmptyTerminal
<1>4. CASE Terminal!FlushTimerFires /\ panel
  <2>1. /\ flushTimer' = FALSE /\ display' = IF refresh THEN buffer ELSE display \o unsent
        /\ refresh' = FALSE /\ unsent' = <<>>
        /\ UNCHANGED <<panel, buffer, carry, stream>>
    BY <1>4 DEF Terminal!FlushTimerFires, Terminal!FlushText
  <2>2. display' = buffer
    BY <1>4, <2>1 DEF TerminalInv, SentInv
  <2>3. buffer' = display' \o unsent'
    BY <1>1, <2>1, <2>2, EmptyText DEF TerminalType
  <2> QED
    BY <1>1, <2>1, <2>2, <2>3, EmptyText DEF TerminalInv, TerminalType, SentInv
<1>5. CASE Terminal!FlushTimerFires /\ ~panel
  BY <1>1, <1>5 DEF Terminal!FlushTimerFires, TerminalInv, TerminalType, SentInv
<1> QED
  BY <1>2, <1>3, <1>4, <1>5 DEF Terminal!TerminalNext

(* Every step of the host does.                                            *)
LEMMA TerminalStepInv ==
  ASSUME TerminalInv, [Next]_vars PROVE TerminalInv'
<1>1. CASE UNCHANGED terminalVars
  BY <1>1 DEF TerminalInv, TerminalType, SentInv, terminalVars
<1>2. CASE TerminalStep
  BY <1>2, TerminalNextStep DEF TerminalStep
<1>3. CASE UNCHANGED vars \/ ActiveChanges \/ Save \/ PanelStep
  BY <1>1, <1>3 DEF vars, ActiveChanges, Save, PanelStep, terminalVars
<1>4. ASSUME NEW s \in Session, SessionStep(s) PROVE TerminalInv'
  <2>1. CASE HandleDebugSessionStarted(s)
    BY <2>1, ClearStep DEF HandleDebugSessionStarted
  <2>2. CASE HandleTerminalOutputEvent(s)
    <3>1. CASE sessionPlatforms[s] = Simple
      BY <1>1, <2>2, <3>1 DEF HandleTerminalOutputEvent
    <3>2. CASE sessionPlatforms[s] # Simple
      BY <2>2, <3>2, AppendOutputStep DEF HandleTerminalOutputEvent, Char
    <3> QED
      BY <3>1, <3>2
  <2>3. CASE \/ BeginSession(s) \/ LaunchCompletes(s) \/ EndSession(s)
             \/ HandleDebugSessionTerminated(s) \/ HandlePlatformEvent(s)
             \/ HandleSessionStatusEvent(s) \/ HandleUpdateEvent(s) \/ HandleSerialEvent(s)
             \/ TimerFires(s) \/ AdapterAnswers(s) \/ ReceiveAnswer(s)
    BY <1>1, <2>3 DEF BeginSession, LaunchCompletes, EndSession, HandleDebugSessionTerminated,
       HandlePlatformEvent, HandleSessionStatusEvent, HandleUpdateEvent, HandleSerialEvent,
       TimerFires, AdapterAnswers, ReceiveAnswer
  <2> QED
    BY <1>4, <2>1, <2>2, <2>3 DEF SessionStep
<1> QED
  BY <1>2, <1>3, <1>4 DEF Next

(* Openings, overflows, clears and closings between a batch of output and  *)
(* its timer neither lose nor repeat text: with no flush due the open      *)
(* panel shows exactly the buffer (terminal-panel.ts:77-83, 95-162).       *)
THEOREM TerminalPanelShowsBuffer == Spec => []Terminal!PanelShowsBuffer
<1>1. Init => TerminalInv
  BY TerminalInitInv
<1>2. TerminalInv /\ [Next]_vars => TerminalInv'
  BY TerminalStepInv
<1>3. TerminalInv => Terminal!PanelShowsBuffer
  <2> SUFFICES ASSUME TerminalInv, panel, ~flushTimer PROVE display = buffer
    BY DEF Terminal!PanelShowsBuffer
  <2>1. buffer = display \o <<>> /\ display \in Seq(Char)
    BY DEF TerminalInv, TerminalType, SentInv
  <2> QED
    BY <2>1, EmptyText
<1> QED
  BY <1>1, <1>2, <1>3, PTL DEF Spec

-----------------------------------------------------------------------------
\* The types of the whole.

LaunchTypeOK ==
  /\ announced \subseteq Session
  /\ launch \in [Session -> {"building", "platform", "ready"}]
  /\ sessionPlatforms \in [Session -> Platform \cup {None}]

(* A session keeps the one platform it announced at its launch.            *)
LEMMA LaunchStepInv ==
  ASSUME LaunchTypeOK, [Next]_vars PROVE LaunchTypeOK'
<1>1. CASE UNCHANGED <<announced, launch, sessionPlatforms>>
  BY <1>1 DEF LaunchTypeOK
<1>2. CASE UNCHANGED vars \/ ActiveChanges \/ Save \/ PanelStep \/ TerminalStep
  BY <1>1, <1>2 DEF vars, ActiveChanges, Save, PanelStep, TerminalStep, sessionVars
<1>3. ASSUME NEW s \in Session, SessionStep(s) PROVE LaunchTypeOK'
  <2>1. CASE LaunchCompletes(s)
    BY <2>1 DEF LaunchCompletes, LaunchTypeOK
  <2>2. CASE HandleDebugSessionStarted(s)
    BY <2>2 DEF HandleDebugSessionStarted, LaunchTypeOK
  <2>3. CASE HandleDebugSessionTerminated(s)
    BY <2>3 DEF HandleDebugSessionTerminated, LaunchTypeOK
  <2>4. CASE HandlePlatformEvent(s)
    BY <2>4 DEF HandlePlatformEvent, LaunchTypeOK
  <2>5. CASE \/ BeginSession(s) \/ EndSession(s)
             \/ HandleSessionStatusEvent(s) \/ HandleUpdateEvent(s) \/ HandleSerialEvent(s)
             \/ HandleTerminalOutputEvent(s)
             \/ TimerFires(s) \/ AdapterAnswers(s) \/ ReceiveAnswer(s)
    BY <1>1, <2>5 DEF BeginSession, EndSession, HandleSessionStatusEvent, HandleUpdateEvent,
       HandleSerialEvent, HandleTerminalOutputEvent, TimerFires, AdapterAnswers, ReceiveAnswer,
       sessionVars
  <2> QED
    BY <1>3, <2>1, <2>2, <2>3, <2>4, <2>5 DEF SessionStep
<1> QED
  BY <1>2, <1>3 DEF Next

(* Every variable of the extension host keeps its type, the two serial     *)
(* buffers and the terminal's buffer and unfinished sequence their limits, *)
(* whatever the sessions and the user do.                                  *)
THEOREM HostTypes == Spec => []TypeOK
<1>1. Init => LaunchTypeOK
  BY DEF Init, LaunchTypeOK
<1>2. Init => RebuildInv /\ ViewInv /\ TerminalInv /\ LaunchTypeOK
  BY <1>1, RebuildInitInv, ViewInitInv, TerminalInitInv
<1>3. RebuildInv /\ ViewInv /\ TerminalInv /\ LaunchTypeOK /\ [Next]_vars
        => RebuildInv' /\ ViewInv' /\ TerminalInv' /\ LaunchTypeOK'
  BY RebuildNextInv, ViewStepInv, TerminalStepInv, LaunchStepInv
<1>4. ViewInv => Panel!ViewTypeOK
  <2> SUFFICES ASSUME ViewInv PROVE Panel!ViewTypeOK
    OBVIOUS
  <2>1. \A p \in Platform : serial[p] \in Seq(Session) /\ Len(serial[p]) <= MaxSerial
    BY DEF ViewInv, ViewType, SerialText
  <2> QED
    BY <2>1, PageFacts DEF ViewInv, ViewType, Panel!ViewTypeOK
<1>5. RebuildInv /\ ViewInv /\ TerminalInv /\ LaunchTypeOK => TypeOK
  BY <1>4 DEF RebuildInv, SessionTypeOK, TerminalInv, TerminalType, Terminal!TerminalTypeOK,
     Char, LaunchTypeOK, TypeOK
<1> QED
  BY <1>2, <1>3, <1>5, PTL DEF Spec

=============================================================================
